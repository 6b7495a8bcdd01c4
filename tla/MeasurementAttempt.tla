-------------------------- MODULE MeasurementAttempt --------------------------
(***************************************************************************)
(* One paid attempt, from its deployment to its terminal receipt.          *)
(*   - managers (scripts/manage_inkling_measurement_modal.py and           *)
(*     manage_inkling_bf16_interface_diagnostic_modal.py), one host each:  *)
(*     deploy, launch and status.  A lock that a death releases admits one *)
(*     manager per host and operation; nothing locks across hosts.  Local  *)
(*     records are written in place, and a death leaves one torn.          *)
(*   - Modal: the app's history, an atomic registry, the calls, at most    *)
(*     one container at a time (max_containers = 1), restarts of a         *)
(*     preempted container, commits in the background.                     *)
(*   - the container (scripts/run_inkling_measurement_modal.py): waits for *)
(*     the launch to be accepted, claims the attempt, works through the    *)
(*     stages, publishes evidence and one terminal receipt.                *)
(* Clocks and expiry windows are a possible failure at the point at which  *)
(* the code compares times.                                                *)
(***************************************************************************)
EXTENDS AttemptEvidence, Sequences

CONSTANTS
  Variants,   \* the variants to run
  MaxFaults   \* bound: deaths, errors, preemptions, deployments from another host

ASSUME AttemptAssumption ==
  Variants \subseteq Variant /\ MaxFaults \in Nat

VARIABLES
  variant,
  versions,   \* deployments in the app's history
  orphans,    \* `modal deploy` subprocesses that outlived their manager
  local,      \* each host's control records: absent, torn or whole
  manager,    \* what the manager on each host is doing
  call,       \* Modal: each host's call
  box,        \* Modal: the container, if there is one
  registry,   \* the Modal Dict: the claim under the run's key
  volume,     \* the evidence volume, as committed
  paid,       \* the tasks that began the paid work
  faults

appVars == <<versions, orphans>>
hostVars == <<local, manager>>
remoteVars == <<call, box, registry, volume, paid>>
vars == <<variant, appVars, hostVars, remoteVars, faults>>

LocalRecords == {"deployment", "consumption", "intent", "acceptance", "receipt"}
Positions ==
  {"idle", "history", "build", "built", "seal",
   "validate", "unconsumed", "consume", "intent", "announce", "spawn",
   "accept", "acceptance", "receipt", "cancel"}
Statuses == {"none", "queued", "running", "failed", "returned"}

\* What a container does, the stages it has completed, the records it holds a
\* reference to, and what it has written and not committed.
Steps == {"load", "wait", "claim", "durable", "unused", "work", "serve", "conclude", "terminal",
          "failing", "return", "raise"}
Boxes == [call : Hosts, task : Tasks, step : Steps, done : 0 .. 11,
          held : SUBSET (Kinds \union {"load"}), dirty : SUBSET Records]

\* None is a marker, beside claims and containers.
ASSUME MarkerAssumption ==
  None \notin Boxes /\ \A h \in Hosts, t \in Tasks : Claim(h, t) # None

TypeOK ==
  /\ variant \in Variants
  /\ versions \in Nat /\ orphans \in 0 .. MaxFaults
  /\ local \in [Hosts -> [LocalRecords -> {"absent", "torn", "whole"}]]
  /\ manager \in [Hosts -> Positions]
  /\ call \in [Hosts -> [status : Statuses, cancel : BOOLEAN, starts : 0 .. MaxStarts]]
  /\ box = None \/ box \in Boxes
  /\ registry = None \/ \E h \in Hosts, t \in Tasks : registry = Claim(h, t)
  /\ volume \subseteq Records
  /\ paid \subseteq Hosts \X Tasks
  /\ faults \in 0 .. MaxFaults

NoCall == [status |-> "none", cancel |-> FALSE, starts |-> 0]

Init ==
  /\ variant \in Variants
  /\ versions = 0 /\ orphans = 0
  /\ local = [h \in Hosts |-> [r \in LocalRecords |-> "absent"]]
  /\ manager = [h \in Hosts |-> "idle"]
  /\ call = [h \in Hosts |-> NoCall]
  /\ box = None /\ registry = None /\ volume = {} /\ paid = {}
  /\ faults = 0

Fault == faults < MaxFaults /\ faults' = faults + 1

-----------------------------------------------------------------------------
(* The managers. *)

At(h, position) == manager[h] = position
Go(h, position) == manager' = [manager EXCEPT ![h] = position]
Record(h, what) == local' = [local EXCEPT ![h][what] = "whole"]
Whole(h, what) == local[h][what] = "whole"

-----------------------------------------------------------------------------
(* deploy.  Every invocation uses up a challenge of its own (prepare_deploy).*)

Acted(h) == ~At(h, "idle") \/ \E r \in LocalRecords : local[h][r] # "absent"

\* That another host acts as well counts as a fault.
BeginDeploy(h) ==
  /\ At(h, "idle") /\ local[h]["deployment"] = "absent"
  /\ Go(h, "history")
  /\ IF \E g \in Hosts \ {h} : Acted(g) THEN Fault ELSE UNCHANGED faults
  /\ UNCHANGED <<appVars, local, remoteVars>>

\* _deploy_remote: an app that is there already is recovered.
ReadHistory(h) ==
  /\ At(h, "history")
  /\ Go(h, IF versions = 0 THEN "build" ELSE IF versions = 1 THEN "seal" ELSE "idle")
  /\ UNCHANGED <<appVars, local, remoteVars, faults>>

\* The subprocess `modal deploy` ends, with or without a new deployment.
Build(h) ==
  /\ At(h, "build")
  /\ \/ versions' = versions + 1 /\ Go(h, "built") /\ UNCHANGED faults
     \/ versions' = versions + 1 /\ Go(h, "idle") /\ Fault
     \/ versions' = versions /\ Go(h, "idle") /\ Fault
  /\ UNCHANGED <<orphans, local, remoteVars>>

OrphanBuilds ==
  /\ orphans > 0 /\ orphans' = orphans - 1
  /\ \/ versions' = versions + 1
     \/ versions' = versions
  /\ UNCHANGED <<hostVars, remoteVars, faults>>

\* _deployment_version: exactly one deployment.
ReviewHistory(h) ==
  /\ At(h, "built")
  /\ Go(h, IF versions = 1 THEN "seal" ELSE "idle")
  /\ UNCHANGED <<appVars, local, remoteVars, faults>>

\* The history is read once more, and the identity written.
Seal(h) ==
  /\ At(h, "seal")
  /\ IF versions = 1 THEN Record(h, "deployment") ELSE UNCHANGED local
  /\ Go(h, "idle")
  /\ UNCHANGED <<appVars, remoteVars, faults>>

-----------------------------------------------------------------------------
(* launch. *)

\* _launch_already_consumed; a torn record consumes as well.
LaunchConsumed(h) == local[h]["consumption"] # "absent" \/ local[h]["intent"] # "absent"

BeginLaunch(h) ==
  /\ At(h, "idle") /\ Whole(h, "deployment") /\ ~LaunchConsumed(h)
  /\ Go(h, "validate")
  /\ UNCHANGED <<appVars, local, remoteVars, faults>>

\* _validate_remote_deployment
ValidateDeployment(h) ==
  /\ At(h, "validate")
  /\ Go(h, IF versions = 1 THEN "unconsumed" ELSE "idle")
  /\ UNCHANGED <<appVars, local, remoteVars, faults>>

CheckUnconsumed(h) ==
  /\ At(h, "unconsumed")
  /\ Go(h, IF Unconsumed(variant, volume, registry) THEN "consume" ELSE "idle")
  /\ UNCHANGED <<appVars, local, remoteVars, faults>>

\* The intent is built (its challenge may have expired) and the one launch of
\* this host recorded as consumed.
Consume(h) ==
  /\ At(h, "consume")
  /\ \/ Record(h, "consumption") /\ Go(h, "intent") /\ UNCHANGED faults
     \/ Go(h, "idle") /\ Fault /\ UNCHANGED local
  /\ UNCHANGED <<appVars, remoteVars>>

WriteIntent(h) ==
  /\ At(h, "intent")
  /\ Record(h, "intent") /\ Go(h, "announce")
  /\ UNCHANGED <<appVars, remoteVars, faults>>

\* _remote_write_immutable: done, or an error before or after the upload.
Uploads(h, record, next, after) ==
  \/ volume' = volume \union {record} /\ Go(h, next) /\ UNCHANGED faults
  \/ volume' \in {volume, volume \union {record}} /\ Go(h, after) /\ Fault

Announce(h) ==
  /\ At(h, "announce")
  /\ Uploads(h, Intent(h), "spawn", "idle")
  /\ UNCHANGED <<appVars, local, call, box, registry, paid>>

\* function.spawn: accepted; or it raises, whether or not Modal took the call.
\* The error is outside the try that would cancel.
Spawn(h) ==
  /\ At(h, "spawn")
  /\ \/ call' = [call EXCEPT ![h].status = "queued"] /\ Go(h, "accept") /\ UNCHANGED faults
     \/ call' = [call EXCEPT ![h].status = "queued"] /\ Go(h, "idle") /\ Fault
     \/ call' = call /\ Go(h, "idle") /\ Fault
  /\ UNCHANGED <<appVars, local, box, registry, volume, paid>>

\* The acceptance, unless the intent has expired, goes to the volume first.
Accept(h) ==
  /\ At(h, "accept")
  /\ Uploads(h, Acceptance(h), "acceptance", "cancel")
  /\ UNCHANGED <<appVars, local, call, box, registry, paid>>

\* _write_immutable of a local record, in order; an error cancels the call.
WriteLocal(h, what, next) ==
  /\ At(h, what)
  /\ \/ Record(h, what) /\ Go(h, next) /\ UNCHANGED faults
     \/ Go(h, "cancel") /\ Fault /\ UNCHANGED local
  /\ UNCHANGED <<appVars, remoteVars>>

WriteAcceptance(h) == WriteLocal(h, "acceptance", "receipt")
WriteCallReceipt(h) == WriteLocal(h, "receipt", "idle")

\* _cancel_call: requested, or it fails.
Cancel(h) ==
  /\ At(h, "cancel") /\ Go(h, "idle")
  /\ \/ call' = [call EXCEPT ![h].cancel = TRUE] /\ UNCHANGED faults
     \/ call' = call /\ Fault
  /\ UNCHANGED <<appVars, local, box, registry, volume, paid>>

\* What the manager at a position is writing in place.
Writing(h) ==
  CASE At(h, "seal") -> {"deployment"} [] At(h, "consume") -> {"consumption"}
    [] At(h, "intent") -> {"intent"}   [] At(h, "acceptance") -> {"acceptance"}
    [] At(h, "receipt") -> {"receipt"} [] OTHER -> {}

\* The process dies: its lock goes, a `modal deploy` goes on.
ManagerDies(h) ==
  /\ ~At(h, "idle") /\ Go(h, "idle") /\ Fault
  /\ \E torn \in SUBSET Writing(h) :
       local' = [local EXCEPT ![h] = [r \in LocalRecords |-> IF r \in torn THEN "torn" ELSE @[r]]]
  /\ orphans' = IF At(h, "build") THEN orphans + 1 ELSE orphans
  /\ UNCHANGED <<versions, remoteVars>>

-----------------------------------------------------------------------------
(* status: what a host's manager answers when it is asked.  It changes       *)
(* nothing.  _read_launch_binding needs the local records; without the call  *)
(* receipt nobody can ask.                                                   *)

Bound(h) == \A r \in LocalRecords \ {"consumption"} : Whole(h, r)

\* _provider_state, when there is no terminal receipt.
ProviderState(h) ==
  CASE call[h].status = "failed" -> "failed_without_terminal_evidence"
    [] call[h].status = "returned" -> "returned_without_terminal_evidence"
    [] OTHER -> "running_or_queued"

Status(h) ==
  LET claim == BoundClaim(h, volume, registry)
      terminal == TerminalEvidence(variant, h, volume, claim) IN
  IF ~Bound(h) THEN "unbound"
  ELSE IF versions # 1 \/ ~OnlyLaunch(h, volume) \/ "refused" \in {claim, terminal} THEN "refused"
  ELSE IF terminal # "none" THEN terminal ELSE ProviderState(h)

-----------------------------------------------------------------------------
(* The provider. *)

\* Mutant: the function has retries.
StartContainer_Retries(h) ==
  /\ box = None /\ call[h].status \in {"queued", "failed"} /\ ~call[h].cancel /\ call[h].starts < MaxStarts
  /\ call' = [call EXCEPT ![h].status = "running", ![h].starts = @ + 1]
  /\ box' = [call |-> h, task |-> call[h].starts + 1, step |-> "load", done |-> 0,
             held |-> {}, dirty |-> {}]
  /\ UNCHANGED <<appVars, hostVars, registry, volume, paid, faults>>

\* retries = 0, max_containers = 1, single_use_containers
StartContainer(h) ==
  /\ box = None /\ call[h].status = "queued" /\ ~call[h].cancel /\ call[h].starts < MaxStarts
  /\ call' = [call EXCEPT ![h].status = "running", ![h].starts = @ + 1]
  /\ box' = [call |-> h, task |-> call[h].starts + 1, step |-> "load", done |-> 0,
             held |-> {}, dirty |-> {}]
  /\ UNCHANGED <<appVars, hostVars, registry, volume, paid, faults>>

CancelQueued(h) ==
  /\ call[h].status = "queued" /\ call[h].cancel
  /\ call' = [call EXCEPT ![h].status = "failed"]
  /\ UNCHANGED <<appVars, hostVars, box, registry, volume, paid, faults>>

\* The container is gone; what it had written may have been committed.
EndBox(status) ==
  /\ box # None /\ box' = None
  /\ volume' \in {volume, volume \union box.dirty}
  /\ call' = [call EXCEPT ![box.call].status = status]

\* Stopped for good: a cancellation, a timeout, a crash.
KillContainer ==
  /\ EndBox("failed")
  /\ IF call[box.call].cancel THEN UNCHANGED faults ELSE Fault
  /\ UNCHANGED <<appVars, hostVars, registry, paid>>

\* Preempted: the provider starts the same input again, as another task.
PreemptContainer ==
  /\ EndBox("queued") /\ call[box.call].starts < MaxStarts /\ Fault
  /\ UNCHANGED <<appVars, hostVars, registry, paid>>

BackgroundCommit ==
  /\ box # None /\ box.dirty # {}
  /\ volume' = volume \union box.dirty /\ box' = [box EXCEPT !.dirty = {}]
  /\ UNCHANGED <<appVars, hostVars, call, registry, paid, faults>>

-----------------------------------------------------------------------------
(* The container: run_measurement and run_bf16_interface_diagnostic. *)

Doing(step) == box # None /\ box.step = step
Me == Claim(box.call, box.task)
Step(step) == box' = [box EXCEPT !.step = step]

\* An exception that leaves the function.
CallFails == EndBox("failed")

\* _load_intent and _validate_paid_attempt_scope; or one of them raises.
LoadIntent ==
  /\ Doing("load")
  /\ \/ Intent(box.call) \in volume /\ Step("wait") /\ UNCHANGED <<call, volume, faults>>
     \/ CallFails /\ Fault
  /\ UNCHANGED <<appVars, hostVars, registry, paid>>

\* Mutant: the acceptance has no deadline.
WaitForAcceptance_Forever ==
  /\ Doing("wait") /\ Acceptance(box.call) \in volume
  /\ Step("claim")
  /\ UNCHANGED <<appVars, hostVars, call, volume, registry, paid, faults>>

\* _wait_for_acceptance: seen, or not in time.
WaitForAcceptance ==
  /\ Doing("wait")
  /\ IF Acceptance(box.call) \in volume THEN Step("claim") /\ UNCHANGED <<call, volume>>
     ELSE CallFails
  /\ UNCHANGED <<appVars, hostVars, registry, paid, faults>>

\* Mutant: another launch of the same run may adopt the attempt.
MayAdopt_AnyCall == variant = "diagnostic" /\ registry # Me

\* claim_diagnostic_attempt: the same input under a new task adopts its claim.
MayAdopt ==
  /\ variant = "diagnostic"
  /\ registry.call = box.call /\ registry.task # box.task

\* _claim_attempt: one atomic put.  Before it the registry or the clocks may
\* refuse, and a put that was made may still raise.
ClaimAttempt ==
  /\ Doing("claim")
  /\ \/ registry = None /\ registry' = Me /\ Step("durable") /\ UNCHANGED <<call, volume, faults>>
     \/ registry = None /\ registry' \in {None, Me} /\ CallFails /\ Fault
     \/ registry # None /\ MayAdopt /\ Step("durable") /\ UNCHANGED <<call, volume, registry, faults>>
     \/ registry # None /\ ~MayAdopt /\ CallFails /\ UNCHANGED <<registry, faults>>
  /\ UNCHANGED <<appVars, hostVars, paid>>

\* _commit_and_verify: the record and everything written before it.
Commits(record, next) ==
  box' = [next EXCEPT !.dirty = {}] /\ volume' = volume \union box.dirty \union {record}

\* It raises before the write, before the commit, or at the readback.
CommitRaises(record, next) ==
  /\ \/ box' = next /\ UNCHANGED volume
     \/ box' = [next EXCEPT !.dirty = @ \union {record}] /\ UNCHANGED volume
     \/ Commits(record, next)
  /\ Fault

PublishClaim ==
  /\ Doing("durable")
  /\ \/ /\ Commits(registry, [box EXCEPT !.step = IF variant = "diagnostic" THEN "unused" ELSE "work"])
        /\ paid' = IF variant = "diagnostic" THEN paid ELSE paid \union {<<box.call, box.task>>}
        /\ UNCHANGED faults
     \/ CommitRaises(registry, [box EXCEPT !.step = "raise"]) /\ UNCHANGED paid
  /\ UNCHANGED <<appVars, hostVars, call, registry>>

CheckUnused ==
  /\ Doing("unused")
  /\ IF Unused(volume) THEN Step("work") /\ UNCHANGED <<call, volume>> ELSE CallFails
  /\ UNCHANGED <<appVars, hostVars, registry, paid, faults>>

Stage == Stages(variant)[box.done + 1]
Completed(b) == [b EXCEPT !.done = @ + 1, !.step = "work"]

\* The stages that publish nothing.
WorkStage ==
  /\ Doing("work")
  /\ Stage \notin {"measure_bf16_performance", "measure_q3_performance", "compare_and_publish",
                   "bf16_interface_diagnostic", "publish"}
  /\ box' = Completed(box)
  /\ UNCHANGED <<appVars, hostVars, call, registry, volume, paid, faults>>

\* _publish_subject_evidence, before its stage counts as completed.
PublishSubject ==
  /\ Doing("work")
  /\ \E s \in DOMAIN Performance :
       /\ variant = "measurement" /\ Performance[s] = box.done + 1
       /\ LET record == Supporting(box.call, s) IN
          \/ Commits(record, [Completed(box) EXCEPT !.held = @ \union {s}]) /\ UNCHANGED faults
          \/ CommitRaises(record, [box EXCEPT !.step = "failing"])
  /\ UNCHANGED <<appVars, hostVars, call, registry, paid>>

\* Mutant: the boundary is not committed before the server starts.
ClaimServerLoad_Uncommitted ==
  /\ Doing("work") /\ Stage = "bf16_interface_diagnostic"
  /\ box' = [box EXCEPT !.step = "serve", !.held = @ \union {"load"},
                        !.dirty = @ \union {ServerLoad(box.call, box.task)}]
  /\ UNCHANGED <<appVars, hostVars, call, registry, volume, paid, faults>>

\* _claim_diagnostic_server_load: the boundary, before the server starts.  No
\* other task's record can be in the way after CheckUnused.
ClaimServerLoad ==
  /\ Doing("work") /\ Stage = "bf16_interface_diagnostic"
  /\ LET record == ServerLoad(box.call, box.task) IN
     \/ Commits(record, [box EXCEPT !.step = "serve", !.held = @ \union {"load"}]) /\ UNCHANGED faults
     \/ CommitRaises(record, [box EXCEPT !.step = "failing"])
  /\ UNCHANGED <<appVars, hostVars, call, registry, paid>>

\* _run_bf16_diagnostic_server
RunServer ==
  /\ Doing("serve")
  /\ paid' = paid \union {<<box.call, box.task>>}
  /\ box' \in {Completed(box), [box EXCEPT !.step = "failing"]}
  /\ UNCHANGED <<appVars, hostVars, call, registry, volume, faults>>

\* The comparison, or the private raw evidence.
PublishResult ==
  /\ Doing("work") /\ Stage \in {"compare_and_publish", "publish"}
  /\ LET what == IF variant = "measurement" THEN "comparison" ELSE "raw"
         record == Supporting(box.call, what) IN
     \/ Commits(record, [box EXCEPT !.step = "conclude", !.held = @ \union {what}]) /\ UNCHANGED faults
     \/ CommitRaises(record, [box EXCEPT !.step = "failing"])
  /\ UNCHANGED <<appVars, hostVars, call, registry, paid>>

\* The roll-ups and the success receipt are built.
BuildSuccess ==
  /\ Doing("conclude") /\ Step("terminal")
  /\ UNCHANGED <<appVars, hostVars, call, registry, volume, paid, faults>>

\* Any stage may raise while it works.
StageRaises ==
  /\ box # None /\ box.step \in {"work", "conclude"}
  /\ Stage # "bf16_interface_diagnostic"
  /\ Step("failing")
  /\ UNCHANGED <<appVars, hostVars, call, registry, volume, paid, faults>>

Load == IF "load" \in box.held THEN box.task ELSE None

\* _publish_terminal_receipt: once it has begun there is no other receipt.
PublishReceipt(record, next) ==
  /\ \/ Commits(record, [box EXCEPT !.step = next]) /\ UNCHANGED faults
     \/ CommitRaises(record, [box EXCEPT !.step = "raise"])
  /\ UNCHANGED <<appVars, hostVars, call, registry, paid>>

PublishSuccess ==
  /\ Doing("terminal")
  /\ PublishReceipt(Receipt("success", box.call, Last(variant), box.held \ {"load"}, Load), "return")

\* Mutant: a server load whose publication is unknown counts as none.
LoadUnknown_Ignored == FALSE

\* server_load_publication_unknown
LoadUnknown == variant = "diagnostic" /\ box.done + 1 = ServerStage /\ "load" \notin box.held

\* The subjects whose stage completed; the raw evidence that was published.
Refers == IF variant = "measurement" THEN SubjectsDone(box.done) ELSE box.held \ {"load"}

\* The failure receipt, and the exception goes on.
PublishFailure ==
  /\ Doing("failing") /\ ~LoadUnknown
  /\ PublishReceipt(Receipt("failure", box.call, box.done, Refers, Load), "raise")

Leave ==
  /\ \/ Doing("return") /\ EndBox("returned")
     \/ Doing("raise") /\ CallFails
     \/ Doing("failing") /\ LoadUnknown /\ CallFails
  /\ UNCHANGED <<appVars, hostVars, registry, paid, faults>>

-----------------------------------------------------------------------------
Manager(h) ==
  \/ ReadHistory(h) \/ Build(h) \/ ReviewHistory(h) \/ Seal(h)
  \/ ValidateDeployment(h) \/ CheckUnconsumed(h) \/ Consume(h) \/ WriteIntent(h)
  \/ Announce(h) \/ Spawn(h) \/ Accept(h) \/ WriteAcceptance(h) \/ WriteCallReceipt(h)
  \/ Cancel(h)

Operator(h) == BeginDeploy(h) \/ BeginLaunch(h)

Container ==
  \/ LoadIntent \/ WaitForAcceptance \/ ClaimAttempt \/ PublishClaim \/ CheckUnused
  \/ WorkStage \/ PublishSubject \/ ClaimServerLoad \/ RunServer \/ PublishResult
  \/ BuildSuccess \/ PublishSuccess \/ PublishFailure \/ Leave

Provider == (\E h \in Hosts : StartContainer(h) \/ CancelQueued(h)) \/ KillContainer
            \/ PreemptContainer \/ BackgroundCommit \/ OrphanBuilds

Next ==
  /\ \/ \E h \in Hosts : Operator(h) \/ Manager(h) \/ ManagerDies(h)
     \/ Container \/ StageRaises \/ Provider
  /\ UNCHANGED variant

Spec == Init /\ [][Next]_vars

\* Managers that run finish their steps, the provider starts and cancels calls,
\* and a container's steps end (its function has a timeout); nobody has to
\* deploy or launch, and nothing has to fail.
FairSpec ==
  /\ Spec
  /\ WF_vars(Container /\ UNCHANGED variant)
  /\ \A h \in Hosts :
       /\ WF_vars(Manager(h) /\ UNCHANGED variant)
       /\ WF_vars(StartContainer(h) /\ UNCHANGED variant)
       /\ WF_vars(CancelQueued(h) /\ UNCHANGED variant)

-----------------------------------------------------------------------------
(* Properties. *)

\* The paid work (the measurement's stages, the diagnostic's server load) is
\* begun at most once, whatever hosts launch and however often a task is
\* restarted; and by then the acceptance, the claim and, in the diagnostic, the
\* boundary record of that very task are durable.
PaidOnce ==
  \A p \in paid :
    /\ paid = {p}
    /\ Acceptance(p[1]) \in volume
    /\ registry # None /\ registry.call = p[1] /\ registry \in volume
    /\ variant = "diagnostic" => ServerLoad(p[1], p[2]) \in volume

\* Whatever receipt a container leaves, committed, interrupted or pushed by the
\* provider, is one that status can bind: alone, with a durable claim, an exact
\* prefix of stages, its supporting records, and the one server load there is.
ReceiptsBacked ==
  \A r \in Receipts(volume) :
    /\ BoundClaim(r.call, volume, registry) = "durable"
    /\ TerminalEvidence(variant, r.call, volume, "durable") = r.kind

\* What status answers about an attempt that is over stays the answer, unless a
\* later launch or deployment makes it refuse: no receipt comes after the end of
\* its call, and none is joined by another.
Over == {"success", "failure", "failed_without_terminal_evidence",
         "returned_without_terminal_evidence"}
AnswerStands ==
  [][\A h \in Hosts : Status(h) \in Over => Status(h)' \in {Status(h), "refused"}]_vars

\* The attempt is a one-shot attempt.
OneShot ==
  INSTANCE OneShotAttempt WITH
    Calls <- Hosts, TaskIds <- Tasks, NoCall <- None,
    claimed <- IF registry = None THEN None ELSE registry.call,
    begun <- paid,
    outcomes <- {<<r.call, r.kind>> : r \in Receipts(volume)}
ImplementsOneShot == OneShot!AttemptSpec

\* Every call Modal took ends, accepted or not, cancelled or not.
CallsEnd ==
  \A h \in Hosts : call[h].status = "queued" ~> call[h].status \in {"failed", "returned"}
=============================================================================
