---------------------------- MODULE RunManifest ----------------------------
(***************************************************************************)
(* The run ledger of one experiment (manifests.py) as a value: the stage   *)
(* records, the lifecycle transitions the code validates, and the stage    *)
(* fingerprint (pipeline/stages.py).  A stage is named by its position in  *)
(* STAGE_ORDER.  Each transition comes with the guard its method checks.   *)
(*                                                                         *)
(* A stage's outputs are one value, the digest of what the stage recorded  *)
(* (the code keeps a tuple of path, size and checksum), and None stands    *)
(* for "no outputs", "no fingerprint" and "no file".  A fingerprint is the *)
(* function of direct dependency outputs that the code hashes; the hash of *)
(* the configuration is the same in all of one run's fingerprints.         *)
(***************************************************************************)
EXTENDS Naturals

CONSTANTS
  N,         \* number of stages
  Deps,      \* Deps[s]: the direct dependencies of stage s
  Digests,   \* what a stage's computation may produce
  None

Stages == 1 .. N

\* Every dependency precedes its dependent in STAGE_ORDER.
ASSUME GraphAssumption ==
  /\ N \in Nat /\ N >= 3
  /\ Deps \in [Stages -> SUBSET Stages]
  /\ \A s \in Stages : \A d \in Deps[s] : d < s

(***************************************************************************)
(* Contents a file of a run directory can have besides a computed digest:  *)
(* the resolved configuration, environment.json as written before the      *)
(* capability probe, a file altered on disk, and a temporary file that an  *)
(* interrupted write left behind.                                          *)
(***************************************************************************)
Contents == Digests \union {"config", "provisional", "damaged", "leftover"}

ASSUME ContentAssumption ==
  /\ Digests # {}
  /\ Digests \intersect {"config", "provisional", "damaged", "leftover"} = {}
  /\ None \notin Contents

RunStatuses == {"absent", "running", "success", "failed"}
StageStatuses == {"pending", "running", "success", "failed",
                  "skipped_not_required", "unsupported", "invalidated"}

Outputs == Contents \union {None}
Fingerprints == [Stages -> Outputs]

StageRecords == [ status      : StageStatuses,
                  required    : BOOLEAN,
                  fingerprint : Fingerprints \union {None},
                  outputs     : Outputs,
                  attempt     : Nat ]

Manifests == [status : RunStatuses, stages : [Stages -> StageRecords]]

InitialStages(required) ==
  [s \in Stages |-> [ status      |-> "pending",
                      required    |-> s \in required,
                      fingerprint |-> None,
                      outputs     |-> None,
                      attempt     |-> 0 ]]

\* Terminal for its dependents, and passed over by the execution loop.
Complete(m, s) ==
  \/ m.stages[s].status = "success"
  \/ /\ m.stages[s].status \in {"skipped_not_required", "unsupported"}
     /\ ~m.stages[s].required

DependenciesComplete(m, s) == \A d \in Deps[s] : Complete(m, d)

\* Mutant: only the first dependency is hashed.
Fingerprint_FirstOnly(m, s) ==
  [d \in Stages |-> IF d \in Deps[s] /\ m.stages[d].status = "success"
                       /\ \A e \in Deps[s] : d <= e
                      THEN m.stages[d].outputs ELSE None]

Fingerprint(m, s) ==
  [d \in Stages |-> IF d \in Deps[s] /\ m.stages[d].status = "success"
                      THEN m.stages[d].outputs ELSE None]

CanStart(m, s) ==
  /\ m.status = "running"
  /\ m.stages[s].status \in {"pending", "failed", "invalidated"}

ReplaceStage(m, s, record) == [m EXCEPT !.stages[s] = record]

\* Mutant: a restarted stage keeps its attempt number.
StartStage_SameAttempt(m, s) ==
  ReplaceStage(m, s, [m.stages[s] EXCEPT !.status      = "running",
                                         !.fingerprint = Fingerprint(m, s),
                                         !.outputs     = None])

StartStage(m, s) ==
  ReplaceStage(m, s, [m.stages[s] EXCEPT !.status      = "running",
                                         !.fingerprint = Fingerprint(m, s),
                                         !.outputs     = None,
                                         !.attempt     = @ + 1])

FinishStage(m, s, outputs) ==
  ReplaceStage(m, s, [m.stages[s] EXCEPT !.status = "success", !.outputs = outputs])

FailStage(m, s) ==
  [ReplaceStage(m, s, [m.stages[s] EXCEPT !.status = "failed"]) EXCEPT !.status = "failed"]

\* A disabled stage first becomes pending again, which clears its evidence.
SkipStage(m, s) ==
  ReplaceStage(m, s, [m.stages[s] EXCEPT !.status      = "skipped_not_required",
                                         !.fingerprint = None,
                                         !.outputs     = None])

MarkUnsupported(m, s) ==
  ReplaceStage(m, s, [m.stages[s] EXCEPT !.status = "unsupported"])

CanSucceed(m) ==
  /\ m.status = "running"
  /\ \A s \in Stages : m.stages[s].required => m.stages[s].status = "success"

Succeed(m) == [m EXCEPT !.status = "success"]

Cleared(record) == [record EXCEPT !.status      = "invalidated",
                                  !.fingerprint = None,
                                  !.outputs     = None]

\* Mutant: an interrupted run restarts its finished stages too.
Reopen_FromScratch(m, forced) ==
  [ status |-> "running",
    stages |-> [s \in Stages |->
                  IF s \in forced \/ m.stages[s].status \in {"running", "success"}
                    THEN Cleared(m.stages[s]) ELSE m.stages[s]] ]

\* The forced stages lose their records, interrupted ones restart, and the
\* run is running again, whatever it was.
Reopen(m, forced) ==
  [ status |-> "running",
    stages |-> [s \in Stages |->
                  IF s \in forced \/ m.stages[s].status = "running"
                    THEN Cleared(m.stages[s]) ELSE m.stages[s]] ]
=============================================================================
