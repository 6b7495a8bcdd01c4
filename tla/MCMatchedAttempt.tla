--------------------------- MODULE MCMatchedAttempt ---------------------------
(* The matched smoke attempt, for TLC. *)
EXTENDS MatchedAttempt
=============================================================================
