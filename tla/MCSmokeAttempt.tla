---------------------------- MODULE MCSmokeAttempt ----------------------------
(* Two hosts, interchangeable, and calls that are started up to twice.       *)
EXTENDS SmokeAttempt
HostSymmetry == Permutations(Hosts)
=============================================================================
