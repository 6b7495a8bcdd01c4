--------------------------- MODULE OneShotAttempt ---------------------------
(***************************************************************************)
(* What a paid attempt promises, without managers, containers, records or  *)
(* restarts: the attempt is claimed once, for one call; its paid work is   *)
(* begun at most once, by one task of that call, and never after an        *)
(* outcome; there is one outcome, and it is for good.                      *)
(* MeasurementAttempt, MatchedAttempt and SmokeAttempt implement this.      *)
(***************************************************************************)
CONSTANTS Calls, TaskIds, NoCall

VARIABLES
  claimed,   \* the call that has the attempt, or NoCall
  begun,     \* the <<call, task>> that began the paid work
  outcomes   \* the <<call, outcome>> on record

attemptVars == <<claimed, begun, outcomes>>

AttemptInit == claimed = NoCall /\ begun = {} /\ outcomes = {}

ClaimFor(c) ==
  /\ claimed = NoCall /\ claimed' = c
  /\ UNCHANGED <<begun, outcomes>>

Begin(t) ==
  /\ claimed # NoCall /\ begun = {} /\ outcomes = {}
  /\ begun' = {<<claimed, t>>}
  /\ UNCHANGED <<claimed, outcomes>>

Conclude(o) ==
  /\ claimed # NoCall /\ outcomes = {}
  /\ o = "success" => begun # {}
  /\ outcomes' = {<<claimed, o>>}
  /\ UNCHANGED <<claimed, begun>>

AttemptNext ==
  \/ \E c \in Calls : ClaimFor(c)
  \/ \E t \in TaskIds : Begin(t)
  \/ \E o \in {"success", "failure"} : Conclude(o)

AttemptSpec == AttemptInit /\ [][AttemptNext]_attemptVars
=============================================================================
