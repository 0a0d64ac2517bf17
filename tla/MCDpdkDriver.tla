---------------------------- MODULE MCDpdkDriver ----------------------------
(* Instances of DpdkDriver for TLC: numbers and a set of threads.            *)
EXTENDS DpdkDriver

Spec == DpdkInit /\ [][DpdkNext]_dpdkVars
=============================================================================
