--------------------------- MODULE EvidenceLedger ---------------------------
(***************************************************************************)
(* What the run ledger promises to whoever reads it, without processes,    *)
(* files, archives or crashes: a result is recorded for a stage only on    *)
(* top of the results it was computed from, results are withdrawn only     *)
(* together with everything computed from them, nothing ever recorded is   *)
(* discarded, and a run is complete only when every stage is settled.      *)
(* PipelineRun implements this module (see PipelineProperties).            *)
(***************************************************************************)
CONSTANTS
  Stages, Deps,   \* the stage graph
  OutputSet,      \* possible stage outputs
  None            \* no output

VARIABLES
  results,    \* for each stage: open, waived, or recorded with its inputs
  retained,   \* every <<stage, output>> ever recorded
  complete

ledgerVars == <<results, retained, complete>>

NoInputs == [d \in Stages |-> None]
Open   == [state |-> "open",   output |-> None, inputs |-> NoInputs]
Waived == [state |-> "waived", output |-> None, inputs |-> NoInputs]

Entries == [ state  : {"open", "waived", "recorded"},
             output : OutputSet \union {None},
             inputs : [Stages -> OutputSet \union {None}] ]

IsOpen(s) == results[s].state = "open"
DependenciesSettled(s) == \A d \in Deps[s] : ~IsOpen(d)

\* Only a recorded result has an output.
Inputs(s) == [d \in Stages |-> IF d \in Deps[s] THEN results[d].output ELSE None]

LedgerInit ==
  /\ results = [s \in Stages |-> Open]
  /\ retained = {} /\ complete = FALSE

Record(s, output) ==
  /\ IsOpen(s) /\ DependenciesSettled(s)
  /\ results' = [results EXCEPT ![s] =
                   [state |-> "recorded", output |-> output, inputs |-> Inputs(s)]]
  /\ retained' = retained \union {<<s, output>>}
  /\ UNCHANGED complete

Waive(s) ==
  /\ IsOpen(s) /\ DependenciesSettled(s)
  /\ results' = [results EXCEPT ![s] = Waived]
  /\ UNCHANGED <<retained, complete>>

Withdraw(S) ==
  /\ \A s \in Stages : Deps[s] \intersect S # {} => s \in S
  /\ results' = [s \in Stages |-> IF s \in S THEN Open ELSE results[s]]
  /\ complete' = FALSE
  /\ UNCHANGED retained

CompleteRun ==
  /\ \A s \in Stages : ~IsOpen(s)
  /\ complete' = TRUE
  /\ UNCHANGED <<results, retained>>

LedgerNext ==
  \/ \E s \in Stages, output \in OutputSet : Record(s, output)
  \/ \E s \in Stages : Waive(s)
  \/ \E S \in SUBSET Stages : Withdraw(S)
  \/ CompleteRun

LedgerSpec == LedgerInit /\ [][LedgerNext]_ledgerVars

-----------------------------------------------------------------------------
\* The shape of the abstract ledger.
LedgerTypeOK ==
  /\ results \in [Stages -> Entries]
  /\ retained \subseteq Stages \X OutputSet
  /\ complete \in BOOLEAN

\* Every recorded result was computed from exactly the results that are
\* recorded now for its dependencies, and is retained (pipeline/stages.py,
\* stage_fingerprint: the hash of the direct dependencies' outputs).
InputsCurrent ==
  \A s \in Stages : results[s].state = "recorded" =>
    /\ DependenciesSettled(s)
    /\ results[s].inputs = Inputs(s)
    /\ <<s, results[s].output>> \in retained

\* A complete run has no open stage: withdrawing any result reopens it
\* (manifests.py, RunManifest.succeed; resume.py, reopen_manifest_for_resume).
CompleteIsSettled == complete => \A s \in Stages : ~IsOpen(s)
=============================================================================
