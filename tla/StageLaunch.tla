----------------------------- MODULE StageLaunch -----------------------------
(***************************************************************************)
(* Paid remote stages, launched one by one.  Managers                      *)
(* (scripts/manage_inkling_modal.py) run on one machine, serialised by a   *)
(* lock file, and leave launch intents and call receipts there; each       *)
(* launch spawns a call on Modal, whose container runs the stage           *)
(* (scripts/quantize_inkling_modal.py) on a working copy of the stage's    *)
(* volume subtree.  Managers and containers die anywhere; Modal starts a   *)
(* dead call's container again; a volume may be committed in the           *)
(* background at any time.                                                 *)
(***************************************************************************)
EXTENDS StageVolume, FiniteSets

CONSTANTS
  NStages,     \* stages, in STAGE_ORDER
  MaxIntents,  \* bound: launches
  MaxFaults,   \* bound: deaths, failures, ambiguous spawns, cancellations
  Managers     \* manager processes

ASSUME LaunchAssumption ==
  /\ NStages \in Nat \ {0} /\ MaxIntents \in Nat /\ MaxFaults \in Nat
  /\ Stages = 1 .. NStages /\ Intents = 1 .. MaxIntents

ManagerPositions == {"idle", "active", "launchable", "intend", "spawn", "record", "release"}
Statuses == {"none", "queued", "running", "returned", "failed", "cancelled"}
Positions == {"begin", "count", "commit_begin", "work", "source", "fill", "prepare",
              "commit_intent", "publish", "receipt", "commit_receipt", "succeed",
              "commit_success", "validate", "commit_validation", "validated", "return"}
\* What an invocation has found to do.
Plans == {"attempt", "recover", "reverify"}

VARIABLES
  lock,         \* control/manager.lock: "free", "held", or "stale" after a death
  manager,      \* each manager's position and the launch it works on
  intentStage,  \* launch-intents/: the stage of each intent written so far
  receipts,     \* calls/: the intents that have a call receipt
  call,         \* Modal: each intent's call and its container
  volume,       \* each stage's committed subtree
  worked,       \* invocations of each stage that got to work, per kind
  faults

managerVars == <<lock, manager, intentStage, receipts>>
vars == <<managerVars, call, volume, worked, faults>>

Idle == [pc |-> "idle", stage |-> None, intent |-> None]
NoCall == [status |-> "none", pc |-> "begin", plan |-> "attempt", disk |-> EmptySubtree]

Init ==
  /\ lock = "free" /\ manager = [m \in Managers |-> Idle]
  /\ intentStage = [i \in Intents |-> None] /\ receipts = {}
  /\ call = [i \in Intents |-> NoCall]
  /\ volume = [s \in Stages |-> EmptySubtree]
  /\ worked = [s \in Stages |-> [k \in Kinds |-> 0]]
  /\ faults = 0

Fault == faults < MaxFaults /\ faults' = faults + 1

Created == {i \in Intents : intentStage[i] # None}
Unresolved == Created \ receipts
Pending(i) == call[i].status \in {"queued", "running"}

-----------------------------------------------------------------------------
(* The manager: launch, _launch_locked. *)

ToPosition(m, position) == manager' = [manager EXCEPT ![m].pc = position]

\* Mutant: a lock file that is there is no obstacle.
LockAvailable_Always == TRUE
LockAvailable == lock = "free"

\* _exclusive_manager_operation, then _require_no_unresolved_launch_intent.
Acquire(m, s) ==
  /\ manager[m].pc = "idle" /\ LockAvailable
  /\ Unresolved = {}
  /\ lock' = "held"
  /\ manager' = [manager EXCEPT ![m] = [pc |-> "active", stage |-> s, intent |-> None]]
  /\ UNCHANGED <<intentStage, receipts, call, volume, worked, faults>>

\* _require_no_active_stage_call, for the predecessor and the stage.
NoActiveCall(s) == \A i \in receipts : intentStage[i] \in {s - 1, s} => ~Pending(i)

CheckActive(m) ==
  /\ manager[m].pc = "active"
  /\ ToPosition(m, IF NoActiveCall(manager[m].stage) THEN "launchable" ELSE "release")
  /\ UNCHANGED <<lock, intentStage, receipts, call, volume, worked, faults>>

BudgetLeft(s) ==
  LET v == volume[s]
      kind == IF v.intent = None THEN "attempt" ELSE "recovery" IN
  /\ v.ledger[kind] <= Len(v.history[kind])
  /\ Len(v.history[kind]) < Limit(s, kind)

\* The source a later stage may use: its receipt is there, and every attempt
\* since has validated it.
SourceValid(s) ==
  \A a \in Adopting : a < s => volume[a].success # None /\ ChainComplete(volume[a], FALSE)

\* _require_launchable_stage
Launchable(s) ==
  /\ volume[s].success = None /\ BudgetLeft(s) /\ SourceValid(s)
  /\ s > 1 => volume[s - 1].success # None /\ ~Pending(volume[s - 1].success)

CheckLaunchable(m) ==
  /\ manager[m].pc = "launchable"
  /\ ToPosition(m, IF Launchable(manager[m].stage) THEN "intend" ELSE "release")
  /\ UNCHANGED <<lock, intentStage, receipts, call, volume, worked, faults>>

\* _create_launch_intent
CreateIntent(m) ==
  /\ manager[m].pc = "intend" /\ Created # Intents
  /\ LET i == Cardinality(Created) + 1 IN
     /\ intentStage' = [intentStage EXCEPT ![i] = manager[m].stage]
     /\ manager' = [manager EXCEPT ![m] = [@ EXCEPT !.pc = "spawn", !.intent = i]]
  /\ UNCHANGED <<lock, receipts, call, volume, worked, faults>>

\* function.spawn: accepted; or it raises, whether or not Modal took the call.
Spawn(m) ==
  /\ manager[m].pc = "spawn"
  /\ \/ /\ call' = [call EXCEPT ![manager[m].intent].status = "queued"]
        /\ ToPosition(m, "record") /\ UNCHANGED faults
     \/ /\ call' = [call EXCEPT ![manager[m].intent].status = "queued"]
        /\ ToPosition(m, "release") /\ Fault
     \/ /\ ToPosition(m, "release") /\ Fault /\ UNCHANGED call
  /\ UNCHANGED <<lock, intentStage, receipts, volume, worked>>

\* The call receipt, and before it, if the deployment has changed meanwhile,
\* an attempt to cancel the call.
RecordCall(m) ==
  /\ manager[m].pc = "record"
  /\ LET i == manager[m].intent IN
     /\ receipts' = receipts \union {i}
     /\ \/ UNCHANGED <<call, faults>>
        \/ /\ Pending(i) /\ Fault
           /\ call' = [call EXCEPT ![i] = [NoCall EXCEPT !.status = "cancelled"]]
  /\ ToPosition(m, "release")
  /\ UNCHANGED <<lock, intentStage, volume, worked>>

\* Mutant: the lock file is left behind.
Release_Locked(m) ==
  /\ manager[m].pc = "release"
  /\ manager' = [manager EXCEPT ![m] = Idle]
  /\ UNCHANGED <<lock, intentStage, receipts, call, volume, worked, faults>>

Release(m) ==
  /\ manager[m].pc = "release"
  /\ lock' = "free"
  /\ manager' = [manager EXCEPT ![m] = Idle]
  /\ UNCHANGED <<intentStage, receipts, call, volume, worked, faults>>

\* The process dies; its lock file stays.
ManagerDies(m) ==
  /\ manager[m].pc # "idle" /\ Fault
  /\ lock' = "stale"
  /\ manager' = [manager EXCEPT ![m] = Idle]
  /\ UNCHANGED <<intentStage, receipts, call, volume, worked>>

\* _reconcile_stale_manager_lock: only when no owner is alive.
ReconcileLock ==
  /\ lock = "stale"
  /\ lock' = "free"
  /\ UNCHANGED <<manager, intentStage, receipts, call, volume, worked, faults>>

\* _remote_intent_evidence: the success receipt, or a history entry.
Evidence(i) ==
  LET v == volume[intentStage[i]] IN
  \/ v.success = i
  \/ \E k \in Kinds, n \in 1 .. MaxIntents + MaxFaults :
       n <= Len(v.history[k]) /\ v.history[k][n] = i

\* reconcile_launch_intent, under the manager's lock.
ReconcileIntent(i) ==
  /\ lock = "free" /\ i \in Unresolved /\ Evidence(i)
  /\ receipts' = receipts \union {i}
  /\ UNCHANGED <<lock, manager, intentStage, call, volume, worked, faults>>

-----------------------------------------------------------------------------
(* The container of a call: the stage functions, as convert_text_bf16. *)

StageOf(i) == intentStage[i]
Disk(i) == call[i].disk
At(i, position) == call[i].status = "running" /\ call[i].pc = position
Step(i, disk, position) ==
  call' = [call EXCEPT ![i].disk = disk, ![i].pc = position]

\* volume.reload.  One container per function at a time.
StartContainer(i) ==
  /\ call[i].status = "queued"
  /\ \A j \in Intents : StageOf(j) = StageOf(i) => call[j].status # "running"
  /\ call' = [call EXCEPT ![i] = [NoCall EXCEPT !.status = "running",
                                                 !.disk = volume[StageOf(i)]]]
  /\ UNCHANGED <<managerVars, volume, worked, faults>>

\* An exception.  The failure's outcome is committed with all the rest, unless
\* that fails too.
Abandon(i) ==
  /\ call' = [call EXCEPT ![i] = [NoCall EXCEPT !.status = "failed"]]
  /\ volume' \in {volume, [volume EXCEPT ![StageOf(i)] = Disk(i)]}
  /\ UNCHANGED <<managerVars, worked>>

PredecessorReady(s) == s > 1 => volume[s - 1].success # None

\* The stage looks at what there is to do, and charges the invocation.
Begin(i) ==
  /\ At(i, "begin")
  /\ LET v == Disk(i) IN
     IF CanBegin(v, StageOf(i)) /\ (PlanOf(v) # "reverify" => PredecessorReady(StageOf(i)))
     THEN /\ call' = [call EXCEPT ![i].disk = RecordStart(v, KindOf(StageOf(i), v), i),
                                  ![i].pc = "count", ![i].plan = PlanOf(v)]
          /\ UNCHANGED <<managerVars, volume, worked>>
     ELSE Abandon(i)
  /\ UNCHANGED faults

Adopts(i) == StageOf(i) \in Adopting
KindCharged(i) == IF Adopts(i) \/ call[i].plan = "attempt" THEN "attempt" ELSE "recovery"

Count(i) ==
  /\ At(i, "count")
  /\ Step(i, UpdateLedger(Disk(i), KindCharged(i)), "commit_begin")
  /\ UNCHANGED <<managerVars, volume, worked, faults>>

Commit(i, position) ==
  /\ volume' = [volume EXCEPT ![StageOf(i)] = Disk(i)]
  /\ Step(i, Disk(i), position)
  /\ UNCHANGED <<managerVars, faults>>

Charge(i) == worked' = [worked EXCEPT ![StageOf(i)][KindCharged(i)] = @ + 1]
AfterBegin(i) ==
  CASE Adopts(i) /\ call[i].plan = "attempt" -> "succeed"
    [] Adopts(i) /\ call[i].plan # "attempt" -> "validate"
    [] ~Adopts(i) /\ call[i].plan = "attempt" -> "work"
    [] OTHER -> "source"

\* Mutant: the work is begun before the charge is durable.
CommitBegin_Later(i) ==
  /\ At(i, "commit_begin")
  /\ Step(i, Disk(i), AfterBegin(i)) /\ Charge(i)
  /\ UNCHANGED <<managerVars, volume, faults>>

CommitBegin(i) == At(i, "commit_begin") /\ Commit(i, AfterBegin(i)) /\ Charge(i)

StartWork(i) ==
  /\ At(i, "work")
  /\ Step(i, StartPartial(Disk(i)), "source")
  /\ UNCHANGED <<managerVars, volume, worked, faults>>

\* _verify_source_binding
CheckSource(i) ==
  /\ At(i, "source")
  /\ IF SourceValid(StageOf(i))
     THEN /\ Step(i, Disk(i), CASE call[i].plan = "attempt" -> "fill"
                                [] call[i].plan = "recover" -> "publish"
                                [] OTHER -> "return")
          /\ UNCHANGED <<managerVars, volume, worked>>
     ELSE Abandon(i)
  /\ UNCHANGED faults

FinishWork(i) ==
  /\ At(i, "fill")
  /\ Step(i, FillPartial(Disk(i)), "prepare")
  /\ UNCHANGED <<managerVars, volume, worked, faults>>

PrepareIntent(i) ==
  /\ At(i, "prepare")
  /\ LET k == Len(Disk(i).history["attempt"]) IN
     IF CanPrepare(Disk(i), k)
     THEN Step(i, Prepare(Disk(i), k), "commit_intent") /\ UNCHANGED <<managerVars, volume, worked>>
     ELSE Abandon(i)
  /\ UNCHANGED faults

CommitIntent(i) == At(i, "commit_intent") /\ Commit(i, "publish") /\ UNCHANGED worked

Finalize(i) ==
  /\ At(i, "publish")
  /\ IF CanFinalize(Disk(i))
     THEN Step(i, Publish(Disk(i)), "receipt") /\ UNCHANGED <<managerVars, volume, worked>>
     ELSE Abandon(i)
  /\ UNCHANGED faults

Receipt(i) ==
  /\ At(i, "receipt")
  /\ Step(i, WriteReceipt(Disk(i)), "commit_receipt")
  /\ UNCHANGED <<managerVars, volume, worked, faults>>

CommitReceipt(i) == At(i, "commit_receipt") /\ Commit(i, "succeed") /\ UNCHANGED worked

Succeed(i) ==
  /\ At(i, "succeed")
  /\ Step(i, IF Adopts(i) THEN WriteAdoption(Disk(i), i) ELSE WriteSuccess(Disk(i), i),
          "commit_success")
  /\ UNCHANGED <<managerVars, volume, worked, faults>>

CommitSuccess(i) == At(i, "commit_success") /\ Commit(i, "return") /\ UNCHANGED worked

\* An attempt of the source stage that finds it adopted validates it again.
Validate(i) ==
  /\ At(i, "validate")
  /\ IF ChainComplete(Disk(i), TRUE)
     THEN /\ Step(i, WriteValidation(Disk(i)), "commit_validation")
          /\ UNCHANGED <<managerVars, volume, worked>>
     ELSE Abandon(i)
  /\ UNCHANGED faults

CommitValidation(i) == At(i, "commit_validation") /\ Commit(i, "validated") /\ UNCHANGED worked

Validated(i) ==
  /\ At(i, "validated")
  /\ IF ChainComplete(Disk(i), FALSE)
     THEN Step(i, Disk(i), "return") /\ UNCHANGED <<managerVars, volume, worked>>
     ELSE Abandon(i)
  /\ UNCHANGED faults

Return(i) ==
  /\ At(i, "return")
  /\ call' = [call EXCEPT ![i] = [NoCall EXCEPT !.status = "returned"]]
  /\ UNCHANGED <<managerVars, volume, worked, faults>>

ContainerStep(i) ==
  \/ Begin(i) \/ Count(i) \/ CommitBegin(i) \/ StartWork(i) \/ CheckSource(i) \/ FinishWork(i)
  \/ PrepareIntent(i) \/ CommitIntent(i) \/ Finalize(i) \/ Receipt(i) \/ CommitReceipt(i)
  \/ Succeed(i) \/ CommitSuccess(i) \/ Validate(i) \/ CommitValidation(i) \/ Validated(i)
  \/ Return(i)

\* The converter, a check or the service fails.
Fail(i) == call[i].status = "running" /\ Fault /\ Abandon(i)

\* The container dies: the call is scheduled again, or is over (a timeout).
ContainerDies(i) ==
  /\ call[i].status = "running" /\ Fault
  /\ \E status \in {"queued", "failed"} :
       call' = [call EXCEPT ![i] = [NoCall EXCEPT !.status = status]]
  /\ UNCHANGED <<managerVars, volume, worked>>

BackgroundCommit(i) ==
  /\ call[i].status = "running"
  /\ volume' = [volume EXCEPT ![StageOf(i)] = Disk(i)]
  /\ UNCHANGED <<managerVars, call, worked, faults>>

-----------------------------------------------------------------------------
ManagerStep(m) ==
  \/ CheckActive(m) \/ CheckLaunchable(m) \/ CreateIntent(m)
  \/ Spawn(m) \/ RecordCall(m) \/ Release(m)

Next ==
  \/ \E m \in Managers : (\E s \in Stages : Acquire(m, s)) \/ ManagerStep(m) \/ ManagerDies(m)
  \/ ReconcileLock
  \/ \E i \in Intents : \/ ReconcileIntent(i) \/ StartContainer(i) \/ ContainerStep(i)
                        \/ Fail(i) \/ ContainerDies(i) \/ BackgroundCommit(i)

Spec == Init /\ [][Next]_vars

\* Modal runs what was spawned, the managers run, and the operator keeps
\* launching the stages and settles what a death has left behind.
FairSpec ==
  /\ Spec
  /\ \A m \in Managers : WF_vars(ManagerStep(m))
  /\ \A s \in Stages : SF_vars((\E m \in Managers : Acquire(m, s)) /\ Launchable(s))
  /\ WF_vars(ReconcileLock)
  /\ \A i \in Intents : /\ SF_vars(ReconcileIntent(i)) /\ WF_vars(StartContainer(i))
                        /\ WF_vars(ContainerStep(i))

-----------------------------------------------------------------------------
Subtrees ==
  [ history : [Kinds -> Seq(Intents)], ledger : [Kinds -> Nat],
    partials : SUBSET [attempt : Nat, full : BOOLEAN],
    intent : Nat \union {None}, canonical : Nat \union {None},
    receipt : Nat \union {None}, success : Intents \union {None},
    creation : Nat \union {None}, validated : SUBSET Nat ]

TypeOK ==
  /\ lock \in {"free", "held", "stale"}
  /\ manager \in [Managers -> [ pc : ManagerPositions, stage : Stages \union {None},
                                intent : Intents \union {None} ]]
  /\ intentStage \in [Intents -> Stages \union {None}] /\ receipts \subseteq Intents
  /\ call \in [Intents -> [ status : Statuses, pc : Positions, plan : Plans, disk : Subtrees ]]
  /\ volume \in [Stages -> Subtrees]
  /\ worked \in [Stages -> [Kinds -> Nat]] /\ faults \in 0 .. MaxFaults

\* At no time are two calls queued or running, of whatever stages: the lock,
\* the unresolved intents, the receipts and Modal's call graphs together
\* exclude it, through dead managers, ambiguous spawns and calls scheduled
\* again (scripts/manage_inkling_modal.py, _launch_locked).
OnePendingCall == \A i, j \in Intents : Pending(i) /\ Pending(j) => i = j

\* A stage works no more often than its cost caps allow, containers started
\* again included (scripts/quantize_inkling_modal.py, _begin_stage_invocation).
CapRespected == \A s \in Stages, k \in Kinds : worked[s][k] <= Limit(s, k)

\* A committed publication intent can always be finished (gguf/publication.py,
\* finalize_publication: exactly one of the two directories).
OutputRecoverable == \A s \in Stages : Recoverable(volume[s])

\* Once an output is committed as published it is never replaced, and no
\* further attempt is charged to its stage (convert_text_bf16: recover, never
\* convert again); nor is a committed success receipt, or what it is bound to.
PublishedForGood ==
  [][\A s \in Stages :
       /\ volume[s].intent # None =>
            /\ volume'[s].intent = volume[s].intent
            /\ volume'[s].history["attempt"] = volume[s].history["attempt"]
            /\ volume[s].canonical # None => volume'[s].canonical = volume[s].canonical
       /\ volume[s].success # None =>
            /\ volume'[s].success = volume[s].success
            /\ volume'[s].creation = volume[s].creation
            /\ volume[s].validated \subseteq volume'[s].validated]_vars

\* An operator who keeps launching and settling gets the whole run done,
\* unless a second fault has used up a stage's caps or has stopped the
\* validation that a restarted source stage owes to its receipt, or an intent is
\* left without any remote evidence of its call, which blocks every launch
\* (scripts/manage_inkling_modal.py, reconcile_launch_intent: fail-closed).
Spent(s) == volume[s].success = None /\ ~BudgetLeft(s)
Unvalidated(s) == s \in Adopting /\ volume[s].success # None /\ ~ChainComplete(volume[s], FALSE)
EventuallySettled ==
  <>[](\/ \A s \in Stages : volume[s].success # None
       \/ faults > 1 /\ \E s \in Stages : Spent(s) \/ Unvalidated(s)
       \/ \E i \in Unresolved : ~Evidence(i))
=============================================================================
