--------------------------- MODULE MessageService ---------------------------
(***************************************************************************)
(* What Homa promises its applications, in the terms of                     *)
(* src/include/Homa/Homa.h: an OutMessage that was sent is pending until it *)
(* is COMPLETED, FAILED or CANCELED; an InMessage is in the hands of the    *)
(* receiving application between Transport::receive and release, and only   *)
(* its acknowledge() makes the OutMessage COMPLETED.  COMPLETED and FAILED  *)
(* are final unless the sending application cancels the message.            *)
(*                                                                          *)
(* Packets, GRANTs, retries and timeouts are invisible here.  Delivery is   *)
(* at least once: a pending message may be given out again after it was     *)
(* released, since its DONE may have been lost.                             *)
(***************************************************************************)
CONSTANT Message

VARIABLES
  outcome,   \* what OutMessage::getStatus tells of each message
  inHand,    \* how many copies of each the receiving application holds
  replies    \* the replies it has given to each message

serviceVars == <<outcome, inHand, replies>>

Outcome == {"NOT_STARTED", "PENDING", "COMPLETED", "FAILED", "CANCELED"}

ServiceInit ==
  /\ outcome = [m \in Message |-> "NOT_STARTED"]
  /\ inHand = [m \in Message |-> 0]
  /\ replies = [m \in Message |-> {}]

(* Become(m, from, to): the outcome of m changes. *)
Become(m, from, to) ==
  /\ outcome[m] \in from
  /\ outcome' = [outcome EXCEPT ![m] = to]
  /\ UNCHANGED <<inHand, replies>>

(* OutMessage::send *)
Send(m) == Become(m, {"NOT_STARTED"}, "PENDING")

(* The sender learns that the receiver has processed the message.            *)
Complete(m) == "DONE" \in replies[m] /\ Become(m, {"PENDING"}, "COMPLETED")

(* The receiver reported an error or nobody is heard of.  A message that is   *)
(* COMPLETED does not fail any more; one that is CANCELED may, whatever it    *)
(* was before, since its timeouts are armed by a GRANT or RESEND that is late. *)
Fail(m) == Become(m, {"PENDING", "CANCELED"}, "FAILED")

(* OutMessage::cancel.  "The message was canceled while still IN_PROGRESS"    *)
(* (Homa.h, Status); but cancelMessage asks for the status only to take the   *)
(* message off the sendQueue, and stores CANCELED over SENT, COMPLETED and    *)
(* FAILED too.                                                               *)
Cancel(m) == Become(m, Outcome \ {"NOT_STARTED"}, "CANCELED")

(* Transport::receive *)
Deliver(m) ==
  /\ outcome[m] # "NOT_STARTED" /\ inHand[m] = 0
  /\ inHand' = [inHand EXCEPT ![m] = 1]
  /\ UNCHANGED <<outcome, replies>>

(* InMessage::acknowledge and InMessage::fail *)
Reply(m, r) ==
  /\ inHand[m] = 1
  /\ replies' = [replies EXCEPT ![m] = @ \cup {r}]
  /\ UNCHANGED <<outcome, inHand>>

(* InMessage::release *)
Release(m) ==
  /\ inHand[m] = 1
  /\ inHand' = [inHand EXCEPT ![m] = 0]
  /\ UNCHANGED <<outcome, replies>>

ServiceNext ==
  \E m \in Message :
    \/ Send(m) \/ Complete(m) \/ Fail(m) \/ Cancel(m)
    \/ Deliver(m) \/ Release(m)
    \/ \E r \in {"DONE", "ERROR"} : Reply(m, r)

ServiceSpec == ServiceInit /\ [][ServiceNext]_serviceVars
=============================================================================
