------------------------------ MODULE MCSender ------------------------------
(***************************************************************************)
(* Instances of Sender for TLC, and statements the repository makes about   *)
(* the Sender that its code does not keep.                                  *)
(***************************************************************************)
EXTENDS Sender, TLC

CONSTANTS m1, m2, t1, t2

(* Two and three packets, the last one not full. *)
TwoAndThreePackets == (m1 :> 3 @@ m2 :> 5)
(* One and three packets. *)
OneAndThreePackets == (m1 :> 2 @@ m2 :> 5)
TwoAndTwoPackets == (m1 :> 3 @@ m2 :> 4)
OneMessage == (m1 :> 3)

ThreadSymmetry == Permutations(Thread)

(* Intrusive.h, ~Node(): "Assert that the Node is cleanly removed from any    *)
(* List."  Claimed of dropMessage.                                            *)
DropIsSafe ==
  [][(\E t \in Thread, m \in Message : DropMessage(t, m)) => ~aborted']_vars
=============================================================================
