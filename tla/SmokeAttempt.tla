----------------------------- MODULE SmokeAttempt -----------------------------
(***************************************************************************)
(* The one smoke test of the exported artifact: its launch and status      *)
(* (scripts/manage_inkling_smoke_modal.py), from two hosts that share      *)
(* nothing but Modal, and its container (scripts/smoke_inkling_modal.py).  *)
(*   - a manager works under a lock file that its death leaves behind;     *)
(*     the local intent and call receipt are linked into place whole.      *)
(*   - the attempt belongs to the task that puts its claim into a Modal    *)
(*     Dict first; Modal forgets an entry that nobody touches for a week.  *)
(*   - the container works on `disk`, its mount of `volume`.  A commit adds *)
(*     the one to the other, a reload replaces it, and each may fail.      *)
(*   - a file is written as a temporary beside it, which is renamed.       *)
(*     Status refuses every entry it does not know beside the history and  *)
(*     the failure receipts: `temporaries` keeps where there is one, the   *)
(*     one being written, one left on the mount, one on the volume.        *)
(* The app is deployed, and its deployment sealed on the hosts, when the   *)
(* model begins.                                                           *)
(***************************************************************************)
EXTENDS Naturals, FiniteSets, SequencesExt

CONSTANTS
  Hosts,      \* the hosts with a checkout from which the smoke is launched
  None,
  MaxStarts,  \* bound: containers the provider starts for a call
  MaxFaults   \* bound: errors, deaths, preemptions, another deployment

ASSUME SmokeAssumption ==
  MaxStarts \in Nat \ {0} /\ MaxFaults \in Nat /\ None \notin Hosts

VARIABLES
  versions,   \* deployments under the app's tag
  manager,    \* what the manager on each host is doing
  local,      \* each host's launch: no record, an intent, or the status of its call receipt
  call,       \* Modal: each host's call
  box,        \* Modal: the container, if there is one
  registry,   \* Modal: the task that claimed last, and whether the entry is still there
  volume,     \* the evidence volume, as committed
  temporaries, \* where a temporary is in a directory that status lists
  begun,      \* history: the <<call, task>> that started a server
  faults

hostVars == <<versions, manager, local>>
vars == <<hostVars, call, box, registry, volume, temporaries, begun, faults>>

Tasks == 1 .. MaxStarts
CallStatuses ==
  {"accepted", "acceptance_state_unknown", "cancellation_requested", "cancellation_failed"}

\* The files of the run, each bound to a launch and, behind the claim, a task.
Kinds == {"intent", "acceptance", "claim", "history", "ledger", "inputs", "passed", "failed"}
File(kind, h, t) == [kind |-> kind, call |-> h, task |-> t]
Files == [kind : Kinds, call : Hosts, task : Tasks \union {0}]
Intent(h) == File("intent", h, 0)
Acceptance(h) == File("acceptance", h, 0)
OfKinds(kinds) == {f \in volume : f.kind \in kinds}
Receipts == OfKinds({"passed", "failed"})

\* The files whose directories status lists; elsewhere it looks for names.
Listed(file) == file.kind \in {"history", "failed"}

Steps == {"load", "wait", "claim", "own", "ledger", "bind", "verify", "serve", "publish",
          "receipt", "return", "raise"}

TypeOK ==
  /\ versions \in 1 .. 2
  /\ manager \in [Hosts -> {"idle", "intent", "authorize", "recheck", "spawn", "accept", "cancel",
                            "dead"} \union CallStatuses]
  /\ local \in [Hosts -> {"none", "intent"} \union CallStatuses]
  /\ call \in [Hosts -> [status : {"none", "queued", "running", "failed", "returned"},
                         cancel : BOOLEAN, starts : 0 .. MaxStarts]]
  /\ box = None \/ box \in [call : Hosts, task : Tasks, step : Steps, disk : SUBSET Files,
                            failing : BOOLEAN]
  /\ registry \in [owner : (Hosts \X Tasks) \union {<<None, 0>>}, present : BOOLEAN]
  /\ volume \subseteq Files
  /\ temporaries \subseteq {"own", "mounted", "committed"}
  /\ begun \subseteq Hosts \X Tasks
  /\ faults \in 0 .. MaxFaults

Init ==
  /\ versions = 1
  /\ manager = [h \in Hosts |-> "idle"] /\ local = [h \in Hosts |-> "none"]
  /\ call = [h \in Hosts |-> [status |-> "none", cancel |-> FALSE, starts |-> 0]]
  /\ box = None /\ registry = [owner |-> <<None, 0>>, present |-> FALSE]
  /\ volume = {} /\ temporaries = {} /\ begun = {} /\ faults = 0

Fault == faults < MaxFaults /\ faults' = faults + 1

-----------------------------------------------------------------------------
(* launch. *)

\* Status and launch find a temporary on the volume.
Littered == "committed" \in temporaries

At(h, position) == manager[h] = position
Go(h, position) == manager' = [manager EXCEPT ![h] = position]

\* Mutant: an acceptance does not consume the attempt.
Fresh_Acceptances ==
  /\ ~registry.present /\ ~Littered
  /\ OfKinds({"claim", "history", "ledger", "passed", "failed"}) = {}

\* _require_fresh_attempt.  It reads the registry first; a claim made behind
\* that read has its acceptance on the volume, which is read next.
Fresh ==
  /\ ~registry.present /\ ~Littered
  /\ OfKinds({"acceptance", "claim", "history", "ledger", "passed", "failed"}) = {}

\* _require_no_unresolved_intent, and what _validated_local_calls finds.
NoUnresolvedIntent(h) == local[h] # "intent"
CallRecorded(h) == local[h] \in CallStatuses

\* All that is looked at before the intent: the lock, which a death leaves, the
\* host's own records, the deployment, twice the attempt.
BeginLaunch(h) ==
  /\ At(h, "idle") /\ NoUnresolvedIntent(h) /\ ~CallRecorded(h) /\ versions = 1 /\ Fresh
  /\ Go(h, "intent")
  /\ UNCHANGED <<versions, local, call, box, registry, volume, temporaries, begun, faults>>

\* _write_immutable_json: linked into place whole, and on; or it raises, before the
\* link or behind it.
WriteLocal(h, record, next) ==
  LET written == [local EXCEPT ![h] = record] IN
  \/ local' = written /\ Go(h, next) /\ UNCHANGED faults
  \/ local' \in {local, written} /\ Go(h, "idle") /\ Fault

\* _create_launch_intent
WriteIntent(h) ==
  /\ At(h, "intent") /\ WriteLocal(h, "intent", "authorize")
  /\ UNCHANGED <<versions, call, box, registry, volume, temporaries, begun>>

\* _publish_remote_launch_intent: uploaded and read back, or it raises.
Authorize(h) ==
  /\ At(h, "authorize")
  /\ \/ volume' = volume \union {Intent(h)} /\ Go(h, "recheck") /\ UNCHANGED faults
     \/ volume' \in {volume, volume \union {Intent(h)}} /\ Go(h, "idle") /\ Fault
  /\ UNCHANGED <<versions, local, call, box, registry, temporaries, begun>>

\* The deployment and the attempt, a last time before the spawn.
Recheck(h) ==
  /\ At(h, "recheck")
  /\ Go(h, IF versions = 1 /\ Fresh THEN "spawn" ELSE "idle")
  /\ UNCHANGED <<versions, local, call, box, registry, volume, temporaries, begun, faults>>

\* function.spawn: accepted; or it raises, whether or not Modal took the call.
Spawn(h) ==
  /\ At(h, "spawn")
  /\ LET taken == [call EXCEPT ![h].status = "queued"] IN
     \/ call' = taken /\ Go(h, "accept") /\ UNCHANGED faults
     \/ call' \in {call, taken} /\ Go(h, "idle") /\ Fault
  /\ UNCHANGED <<versions, local, box, registry, volume, temporaries, begun>>

\* The deployment once more and _publish_post_spawn_acceptance: read back from
\* a new handle, whatever the upload said; or not to be read, which leaves the
\* call alone; or another error, which cancels the call.
Accept(h) ==
  /\ At(h, "accept")
  /\ LET uploaded == volume \union {Acceptance(h)} IN
     \/ versions = 1 /\ volume' = uploaded /\ Go(h, "accepted") /\ UNCHANGED faults
     \/ versions = 1 /\ volume' \in {volume, uploaded} /\ Fault
        /\ manager' \in {[manager EXCEPT ![h] = "acceptance_state_unknown"],
                         [manager EXCEPT ![h] = "cancel"]}
     \/ versions # 1 /\ volume' = volume /\ Go(h, "cancel") /\ UNCHANGED faults
  /\ UNCHANGED <<versions, local, call, box, registry, temporaries, begun>>

\* call.cancel: requested, or it fails.
Cancel(h) ==
  /\ At(h, "cancel")
  /\ \/ /\ call' = [call EXCEPT ![h].cancel = TRUE] /\ Go(h, "cancellation_requested")
        /\ UNCHANGED faults
     \/ call' = call /\ Go(h, "cancellation_failed") /\ Fault
  /\ UNCHANGED <<versions, local, box, registry, volume, temporaries, begun>>

\* The call receipt, under the status at which the manager is; then the lock
\* is removed.
WriteCallReceipt(h) ==
  /\ manager[h] \in CallStatuses /\ WriteLocal(h, manager[h], "idle")
  /\ UNCHANGED <<versions, call, box, registry, volume, temporaries, begun>>

\* The process dies, and its lock stays.
ManagerDies(h) ==
  /\ manager[h] \notin {"idle", "dead"} /\ Go(h, "dead") /\ Fault
  /\ UNCHANGED <<versions, local, call, box, registry, volume, temporaries, begun>>

\* deploy on another host, which found the tag missing at the same time.
Redeploy ==
  /\ versions = 1 /\ versions' = 2 /\ Fault
  /\ UNCHANGED <<manager, local, call, box, registry, volume, temporaries, begun>>

-----------------------------------------------------------------------------
(* The provider. *)

\* What a commit, and a reload, make of the temporaries: the volume has one if
\* the mount has one.
Swept(found) ==
  IF found \intersect {"own", "mounted"} = {} THEN found \ {"committed"} ELSE found \union {"committed"}
Reread(found) == IF "committed" \in found THEN {"mounted", "committed"} ELSE {}

\* max_containers = 1, single_use_containers, retries = 0
StartContainer(h) ==
  /\ box = None /\ call[h].status = "queued" /\ ~call[h].cancel /\ call[h].starts < MaxStarts
  /\ call' = [call EXCEPT ![h].status = "running", ![h].starts = @ + 1]
  /\ box' = [call |-> h, task |-> call[h].starts + 1, step |-> "load", disk |-> volume,
             failing |-> FALSE]
  /\ temporaries' = Reread(temporaries)
  /\ UNCHANGED <<hostVars, registry, volume, begun, faults>>

CancelQueued(h) ==
  /\ call[h].status = "queued" /\ call[h].cancel
  /\ call' = [call EXCEPT ![h].status = "failed"]
  /\ UNCHANGED <<hostVars, box, registry, volume, temporaries, begun, faults>>

\* The container is gone; what it had written may have been committed.
EndBox(status) ==
  /\ box' = None /\ call' = [call EXCEPT ![box.call].status = status]
  /\ \/ volume' = volume /\ temporaries' = temporaries \intersect {"committed"}
     \/ volume' = volume \union box.disk /\ temporaries' = Swept(temporaries) \intersect {"committed"}

\* Stopped for good, or preempted and started again as another task.
ContainerDies ==
  /\ box # None
  /\ \/ EndBox("failed") /\ (IF call[box.call].cancel THEN UNCHANGED faults ELSE Fault)
     \/ EndBox("queued") /\ call[box.call].starts < MaxStarts /\ Fault
  /\ UNCHANGED <<hostVars, registry, begun>>

BackgroundCommit ==
  /\ box # None /\ ~(box.disk \subseteq volume /\ Swept(temporaries) = temporaries)
  /\ volume' = volume \union box.disk /\ temporaries' = Swept(temporaries)
  /\ UNCHANGED <<hostVars, call, box, registry, begun, faults>>

\* A week without an access: whatever was running is over.
ForgetClaim ==
  /\ registry.present /\ registry' = [registry EXCEPT !.present = FALSE]
  /\ \A h \in Hosts : manager[h] \in {"idle", "dead"} /\ call[h].status \in {"none", "failed", "returned"}
  /\ UNCHANGED <<hostVars, call, box, volume, temporaries, begun, faults>>

-----------------------------------------------------------------------------
(* The container: smoke_test. *)

Doing(step) == box # None /\ box.step = step
Step(step) == box' = [box EXCEPT !.step = step]
Mine(kind) == File(kind, box.call, box.task)
CallFails == EndBox("failed")

\* The inputs and the launch authorization; or something about them raises.
LoadInputs ==
  /\ Doing("load")
  /\ \/ /\ Intent(box.call) \in box.disk /\ Step("wait")
        /\ UNCHANGED <<call, volume, temporaries, faults>>
     \/ CallFails /\ Fault
  /\ UNCHANGED <<hostVars, registry, begun>>

\* _wait_for_post_spawn_acceptance: seen behind a reload, or not in time.
WaitForAcceptance ==
  /\ Doing("wait")
  /\ \/ /\ Acceptance(box.call) \in volume
        /\ box' = [box EXCEPT !.step = "claim", !.disk = volume]
        /\ temporaries' = Reread(temporaries)
        /\ UNCHANGED <<call, volume, faults>>
     \/ Acceptance(box.call) \notin volume /\ CallFails /\ UNCHANGED faults
     \/ CallFails /\ Fault
  /\ UNCHANGED <<hostVars, registry, begun>>

\* Mutant: the claim is put whether or not the key exists.
ClaimAttempt_Overwrites ==
  /\ Doing("claim")
  /\ registry' = [owner |-> <<box.call, box.task>>, present |-> TRUE] /\ Step("own")
  /\ UNCHANGED <<hostVars, call, volume, temporaries, begun, faults>>

\* _begin_only_attempt: no success on the mount, and one atomic put, which may
\* raise before or after.  Without an answer the invocation stays empty, and no
\* receipt is left.
ClaimAttempt ==
  /\ Doing("claim")
  /\ LET claimed == [owner |-> <<box.call, box.task>>, present |-> TRUE]
         free == ~registry.present /\ ~\E f \in box.disk : f.kind = "passed" IN
     \/ /\ free /\ registry' = claimed /\ Step("own")
        /\ UNCHANGED <<call, volume, temporaries, faults>>
     \/ free /\ registry' \in {registry, claimed} /\ CallFails /\ Fault
     \/ ~free /\ CallFails /\ UNCHANGED <<registry, faults>>
  /\ UNCHANGED <<hostVars, begun>>

-----------------------------------------------------------------------------
(* Publication.  A write that raises before its rename is an ordinary error; *)
(* behind it, and when two cycles of a commit and a reload could not prove   *)
(* the files, their state is unknown, and no receipt may follow.             *)

\* _commit_and_reconcile_volume_files, when it returns: all that was on the
\* mount is durable, or a failed commit and the reload cost the rest, for only
\* the files asked for are installed again.  The temporary written before is
\* gone from the mount.  As <<volume, disk, temporaries>>.
Renamed == temporaries \ {"own"}
Reconciled(files) ==
  LET all == volume \union box.disk \union files IN
  {<<all, all, Reread(Swept(Renamed))>>,
   <<volume \union files, volume \union files, Reread(Renamed)>>}

\* When it raises, or the write before it: each may have happened in part, and a
\* temporary stay that could not be removed.
Again(files) ==
  IF \E f \in files : Listed(f) THEN SUBSET {"mounted", "committed"} ELSE {{}}
Dropped == {Renamed} \union (IF "own" \in temporaries THEN {Renamed \union {"mounted"}} ELSE {})
Unreconciled(files) ==
  Reconciled(files)
  \union {<<volume \union box.disk \union files, box.disk \union files, Swept(Renamed)>>}
  \union {<<volume, box.disk \union some, left>> : some \in SUBSET files, left \in Dropped}
  \union {<<volume, volume \union some, Reread(Renamed) \union left>> :
             some \in SUBSET files, left \in Again(files)}

\* The files are written in turn and reconciled: done, an ordinary error with
\* the first of them written, or unknown.  Before that, there is a temporary,
\* which may also stay where what it is written for is there already.
Publish(files, done, ordinary, unknown) ==
  LET asked == ToSet(files)
      ready == (\E f \in asked : Listed(f)) => "own" \in temporaries IN
  \/ /\ ~ready /\ temporaries' = temporaries \union {"own"}
     /\ UNCHANGED <<box, volume, faults>>
  \/ /\ "own" \in temporaries /\ \E f \in asked \intersect box.disk : Listed(f)
     /\ temporaries' = temporaries \union {"mounted"} /\ UNCHANGED <<box, volume>> /\ Fault
  \/ /\ ready /\ volume' = volume \union box.disk \union asked
     /\ box' = [done EXCEPT !.disk = volume'] /\ temporaries' = Reread(Swept(Renamed))
     /\ UNCHANGED faults
  \/ \E view \in Reconciled(asked) :
       /\ ready /\ volume' = view[1] /\ box' = [done EXCEPT !.disk = view[2]]
       /\ temporaries' = view[3] /\ Fault
  \/ \E n \in 0 .. Len(files) - 1 :
       /\ n = 0 \/ ready
       /\ box' = [ordinary EXCEPT !.disk = box.disk \union ToSet(SubSeq(files, 1, n))]
       /\ temporaries' = Renamed \/ (n = 0 /\ temporaries' \in Dropped)
       /\ UNCHANGED volume /\ Fault
  \/ \E view \in Unreconciled(asked) :
       /\ ready /\ volume' = view[1] /\ box' = [unknown EXCEPT !.disk = view[2]]
       /\ temporaries' = view[3] /\ Fault

\* What follows an error: the exception goes on; or, the first time, the records
\* are completed again and a failure receipt is published (_record_failure).
Raising == [box EXCEPT !.step = "raise"]
Failing == IF box.failing THEN Raising ELSE [box EXCEPT !.step = "own", !.failing = TRUE]

\* _complete_owned_attempt_records: the claim, then history and ledger.
RecordClaim ==
  /\ Doing("own")
  /\ Publish(<<Mine("claim")>>, [box EXCEPT !.step = "ledger"], Failing, Raising)
  /\ UNCHANGED <<hostVars, call, registry, begun>>

RecordLedger ==
  /\ Doing("ledger")
  /\ Publish(<<Mine("history"), Mine("ledger")>>,
             [box EXCEPT !.step = IF box.failing THEN "receipt" ELSE "bind"], Failing, Raising)
  /\ UNCHANGED <<hostVars, call, registry, begun>>

\* _bind_run_inputs: left to a later commit.
BindInputs ==
  /\ Doing("bind")
  /\ LET bound(b) == [b EXCEPT !.disk = @ \union {Mine("inputs")}] IN
     \/ box' = bound([box EXCEPT !.step = "verify"]) /\ UNCHANGED faults
     \/ box' \in {Failing, Raising, bound(Raising)} /\ Fault
  /\ UNCHANGED <<hostVars, call, registry, volume, temporaries, begun>>

\* The runtime, the allocation and the artifact are verified; then the server
\* and its monitor are started.
StartServer ==
  /\ Doing("verify")
  /\ \/ Step("serve") /\ begun' = begun \union {<<box.call, box.task>>} /\ UNCHANGED faults
     \/ box' = Failing /\ Fault /\ UNCHANGED begun
  /\ UNCHANGED <<hostVars, call, registry, volume, temporaries>>

\* Readiness, the probes, the stop, the audits of the log.
RunServer ==
  /\ Doing("serve")
  /\ \/ Step("publish") /\ UNCHANGED faults
     \/ box' = Failing /\ Fault
  /\ UNCHANGED <<hostVars, call, registry, volume, temporaries, begun>>

\* Mutant: an error of the success publication is an error like any other.
PublishSuccess_Failing ==
  /\ Doing("publish")
  /\ Publish(<<Mine("passed")>>, [box EXCEPT !.step = "return"], Failing, Failing)
  /\ UNCHANGED <<hostVars, call, registry, begun>>

\* _publish_success_receipt: once it has begun, there is no other receipt.
PublishSuccess ==
  /\ Doing("publish")
  /\ Publish(<<Mine("passed")>>, [box EXCEPT !.step = "return"], Raising, Raising)
  /\ UNCHANGED <<hostVars, call, registry, begun>>

\* _publish_failure_receipt, and the exception goes on in any case.
PublishFailure ==
  /\ Doing("receipt")
  /\ Publish(<<Mine("failed")>>, Raising, Raising, Raising)
  /\ UNCHANGED <<hostVars, call, registry, begun>>

Leave ==
  /\ \/ Doing("return") /\ EndBox("returned")
     \/ Doing("raise") /\ CallFails
  /\ UNCHANGED <<hostVars, registry, begun, faults>>

-----------------------------------------------------------------------------
(* status. *)

\* _validate_remote_post_spawn_acceptance
AcceptanceValid(r) == Acceptance(r.call) \in volume

\* _validate_persisted_invocation_records: no other history, and no other claim in
\* the registry, if one is left there.
RecordsValid(r) ==
  /\ {File("claim", r.call, r.task), File("ledger", r.call, r.task)} \subseteq volume
  /\ OfKinds({"history"}) = {File("history", r.call, r.task)}
  /\ registry.present => registry.owner = <<r.call, r.task>>

\* _validate_terminal_receipt, and for every failure _validated_remote_failure_receipts
Backed(r) == Intent(r.call) \in volume /\ AcceptanceValid(r) /\ RecordsValid(r)
FailuresBacked == \A r \in OfKinds({"failed"}) : Backed(r)

\* _remote_status: an outcome, that the attempt is consumed, or a refusal, by what
\* the volume records; and by all that is on it.
Recorded ==
  LET passed == OfKinds({"passed"})
      failed == OfKinds({"failed"})
      foreign == \E f \in OfKinds({"claim"}) : <<f.call, f.task>> # registry.owner
      bookkeeping == OfKinds({"acceptance", "claim", "history", "ledger"}) IN
  CASE ~FailuresBacked \/ (passed # {} /\ failed # {}) -> "refused"
    [] FailuresBacked /\ passed # {} /\ failed = {} -> IF \A r \in passed : Backed(r) THEN "passed" ELSE "refused"
    [] OTHER ->
         IF Cardinality(OfKinds({"history"})) > 1 \/ (registry.present /\ foreign) THEN "refused"
         ELSE IF failed # {} THEN "failed"
         ELSE IF bookkeeping # {} THEN "attempt_consumed_without_terminal_receipt"
         ELSE IF registry.present THEN "attempt_consumed_before_volume_bookkeeping"
         ELSE "not_terminal"

Evidence == IF Littered THEN "refused" ELSE Recorded

\* What status answers on a host: the evidence and, without a receipt, the state
\* of the call that the host has recorded.
FunctionState(h) ==
  IF ~CallRecorded(h) THEN "no_call_id"
  ELSE CASE call[h].status = "failed" -> "failed_before_terminal_evidence"
         [] call[h].status = "returned" -> "returned_without_terminal_evidence"
         [] OTHER -> "running_or_queued"

Over ==
  {<<"attempt_consumed_without_terminal_receipt", state>> :
     state \in {"failed_before_terminal_evidence", "returned_without_terminal_evidence"}}

Status(h) ==
  IF versions # 1 THEN <<"refused">>
  ELSE IF Evidence \in {"passed", "failed", "refused"} THEN <<Evidence>>
  ELSE <<Evidence, FunctionState(h)>>

-----------------------------------------------------------------------------
Manager(h) ==
  \/ BeginLaunch(h) \/ WriteIntent(h) \/ Authorize(h) \/ Recheck(h) \/ Spawn(h) \/ Accept(h)
  \/ Cancel(h) \/ WriteCallReceipt(h) \/ ManagerDies(h)

Container ==
  \/ LoadInputs \/ WaitForAcceptance \/ ClaimAttempt \/ RecordClaim \/ RecordLedger
  \/ BindInputs \/ StartServer \/ RunServer \/ PublishSuccess \/ PublishFailure \/ Leave

Next ==
  \/ \E h \in Hosts : Manager(h) \/ StartContainer(h) \/ CancelQueued(h)
  \/ ContainerDies \/ BackgroundCommit \/ ForgetClaim \/ Redeploy
  \/ Container

Spec == Init /\ [][Next]_vars

-----------------------------------------------------------------------------
(* Properties. *)

\* The server is started for one task only, whatever hosts launch and however
\* often a container is started; and by then its launch, its acceptance and all
\* records of its attempt are durable, so that no launch, here or elsewhere and
\* whatever Modal forgets, finds the attempt unused.
PaidOnce ==
  \A p \in begun :
    /\ begun = {p} /\ registry.owner = p
    /\ {Intent(p[1]), Acceptance(p[1]), File("claim", p[1], p[2]),
        File("history", p[1], p[2]), File("ledger", p[1], p[2])} \subseteq volume

\* What is recorded never contradicts itself, and an answer of status is good for
\* ever: an outcome stays, an attempt that counts as consumed stays consumed, and
\* one whose call is over without an outcome gets none, unless status refuses,
\* for a later deployment or while a temporary is on the volume.  A call that
\* returns has recorded that it passed.
Later ==
  LET consumed == {"attempt_consumed_before_volume_bookkeeping",
                   "attempt_consumed_without_terminal_receipt", "passed", "failed"} IN
  [not_terminal |-> consumed \union {"not_terminal"},
   attempt_consumed_before_volume_bookkeeping |-> consumed,
   attempt_consumed_without_terminal_receipt |->
     consumed \ {"attempt_consumed_before_volume_bookkeeping"},
   passed |-> {"passed"}, failed |-> {"failed"}, refused |-> {}]
AnswerStands ==
  [][/\ Recorded' \in Later[Recorded]
     /\ \A h \in Hosts :
          /\ call'[h].status = "returned" => Recorded' = "passed"
          /\ (registry.owner[1] = h /\ Status(h) \in Over) =>
               \/ Status(h)' = Status(h)
               \/ Status(h)' = <<"refused">> /\ (versions' # 1 \/ Littered')]_vars

\* The attempt is a one-shot attempt.
OneShot ==
  INSTANCE OneShotAttempt WITH
    Calls <- Hosts, TaskIds <- Tasks, NoCall <- None,
    claimed <- registry.owner[1],
    outcomes <- {<<r.call, IF r.kind = "passed" THEN "success" ELSE "failure">> : r \in Receipts}
ImplementsOneShot == OneShot!AttemptSpec
=============================================================================
