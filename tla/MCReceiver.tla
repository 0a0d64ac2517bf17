----------------------------- MODULE MCReceiver -----------------------------
(***************************************************************************)
(* Instances of Receiver for TLC.                                           *)
(***************************************************************************)
EXTENDS Receiver, TLC

CONSTANTS m1, m2, m3, p1, p2

(* Two messages from one peer and one from another. *)
TwoPeers == (m1 :> p1 @@ m2 :> p1 @@ m3 :> p2)
OnePeerEach == (m1 :> p1 @@ m2 :> p2)
(* Two, three and two packets, the last one not always full. *)
Lengths == (m1 :> 3 @@ m2 :> 5 @@ m3 :> 4)
TwoLengths == (m1 :> 3 @@ m2 :> 5)
=============================================================================
