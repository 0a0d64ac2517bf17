---------------------------- MODULE MCTransport -----------------------------
(***************************************************************************)
(* Instances of Transport for TLC, and statements the repository makes      *)
(* about the protocol that its code does not keep.                          *)
(***************************************************************************)
EXTENDS Transport, TLC

CONSTANTS m1, t1, p1

TwoPackets == (m1 :> 3)
OneSource == (m1 :> p1)

(* Homa.h, NO_RETRY: "provides at-most-once delivery of messages".            *)
AtMostOnce ==
  [][\A m \in Message :
       "NO_RETRY" \in options[m] /\ m \in givenOut /\ m \in delivered' => m \in delivered]_vars

(* Protocol.h, ResendHeader: "a particular range of packets within a Message".  *)
(* The Sender ignores any other range, so that a packet that was lost is not  *)
(* sent again.                                                                *)
ResendsWithinMessage ==
  \A i \in 1..Len(toSender) :
    toSender[i].opcode = "RESEND" =>
      S!InRange(toSender[i].message, toSender[i].index, toSender[i].num)
=============================================================================
