------------------------ MODULE MCConfirmatoryAttempt ------------------------
(* One command for attempt-1, two for attempt-2 and two verifiers, all at once. *)
EXTENDS ConfirmatoryAttempt, TLC

CONSTANTS r1, s1, s2, v1, v2

Commands == {r1, s1, s2, v1, v2}
JobOf == [p \in Commands |-> CASE p = r1 -> "first"
                               [] p \in {s1, s2} -> "second"
                               [] p \in {v1, v2} -> "verify"]
Symmetry == Permutations({s1, s2}) \union Permutations({v1, v2})
            \union Permutations(Versions) \union Permutations(Projections)
=============================================================================
