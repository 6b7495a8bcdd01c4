---------------------------- MODULE MatchedAttempt ----------------------------
(***************************************************************************)
(* The one matched smoke attempt of scripts/run_inkling_matched_modal.py:  *)
(* its launch and status (scripts/manage_inkling_matched_modal.py), and    *)
(* the container that claims it, runs one server per subject, and          *)
(* publishes a terminal receipt on a volume whose commits and reloads may  *)
(* fail before or after they took effect.  Publication keeps a history of  *)
(* snapshots beside the receipt (not_started, installing, confirmed or     *)
(* unknown), from which status tells whether the receipt may be believed.  *)
(*                                                                         *)
(* The container works on `disk`, its mounted copy of `volume`: a write    *)
(* changes the copy, a commit (or one in the background) adds the copy to  *)
(* the volume, and a reload replaces the copy by the volume.  The app is   *)
(* deployed and its one launch authorised when the model begins.           *)
(*                                                                         *)
(* A file is written as a temporary beside it, which is renamed.  Status   *)
(* refuses every entry it does not know in the directories that it lists,  *)
(* so `temporaries` keeps where there is one in those: the one being       *)
(* written, one that stays on the mounted copy, one on the volume.         *)
(***************************************************************************)
EXTENDS Naturals, FiniteSets, Sequences, Functions

CONSTANTS
  None,
  MaxStarts,  \* bound: containers the provider starts for the call
  MaxFaults   \* bound: errors, deaths, preemptions

ASSUME MatchedAssumption ==
  MaxStarts \in Nat \ {0} /\ MaxFaults \in Nat /\ None \notin Nat

VARIABLES
  manager,    \* where launch is
  bound,      \* the local call receipt is written: status can be asked
  call,       \* Modal: the spawned call
  box,        \* Modal: the container, if there is one
  registry,   \* Modal: the task whose claim is under the attempt's key
  volume,     \* the evidence volume, as committed
  temporaries, \* where a temporary is in a directory that status lists
  worked,     \* history: the tasks that started a server
  faults

hostVars == <<manager, bound>>
vars == <<hostVars, call, box, registry, volume, temporaries, worked, faults>>

Tasks == 1 .. MaxStarts
Subjects == 1 .. 2   \* MATCHED_SUBJECT_ORDER: BF16, then Q3

(* The files: what a task put there, named by what it binds together.        *)
Acceptance == [kind |-> "acceptance"]
Claim(t) == [kind |-> "claim", task |-> t]
Acknowledgement(t) == [kind |-> "acknowledgement", task |-> t]
SubjectReceipt(t, s) == [kind |-> "subject", task |-> t, subject |-> s]
Terminal(t, outcome, done) == [kind |-> "terminal", task |-> t, outcome |-> outcome, done |-> done]
Snapshot(t, status, cycle, receipt) ==
  [kind |-> "snapshot", task |-> t, status |-> status, cycle |-> cycle, receipt |-> receipt]

Receipts ==
  {Terminal(t, o, n) : t \in Tasks, o \in {"success", "failure"}, n \in 0 .. 2}
Files ==
  {Acceptance} \union {Claim(t) : t \in Tasks} \union {Acknowledgement(t) : t \in Tasks}
  \union {SubjectReceipt(t, s) : t \in Tasks, s \in Subjects} \union Receipts
  \union {Snapshot(t, s, c, r) : t \in Tasks, c \in 0 .. 2, r \in Receipts \union {None},
                                 s \in {"not_started", "installing", "confirmed", "unknown"}}
OfKind(files, kind) == {f \in files : f.kind = kind}

\* The files whose directories status lists; the others it does not look for.
Listed(file) == file.kind \in {"claim", "snapshot", "terminal"}

Steps == {"load", "wait", "claim", "records", "start", "probe", "persist", "verify", "publish",
          "confirm", "unknown", "failing", "return", "raise"}
Boxes == [task : Tasks, step : Steps, done : 0 .. 2, server : BOOLEAN, disk : SUBSET Files,
          outcome : {"success", "failure"}, tracker : {"not_started", "installing", "confirmed", "unknown"},
          cycle : 0 .. 2]

\* None stands for no container, and for no claim.
ASSUME MarkerAssumption == None \notin Boxes /\ None # "call"

TypeOK ==
  /\ manager \in {"intent", "spawn", "accept", "acceptance", "receipt", "cancel", "done"}
  /\ bound \in BOOLEAN
  /\ call \in [status : {"none", "queued", "running", "failed", "returned"},
               cancel : BOOLEAN, starts : 0 .. MaxStarts]
  /\ box = None \/ box \in Boxes
  /\ registry \in Tasks \union {None}
  /\ volume \subseteq Files
  /\ temporaries \subseteq {"own", "mounted", "committed"}
  /\ worked \subseteq Tasks
  /\ faults \in 0 .. MaxFaults

Init ==
  /\ manager = "intent" /\ bound = FALSE
  /\ call = [status |-> "none", cancel |-> FALSE, starts |-> 0]
  /\ box = None /\ registry = None /\ volume = {}
  /\ temporaries = {} /\ worked = {}
  /\ faults = 0

Fault == faults < MaxFaults /\ faults' = faults + 1

-----------------------------------------------------------------------------
(* launch: _launch_confirmed and _launch_once. *)

\* The local consumption and the two copies of the intent; an error ends it.
Authorize ==
  /\ manager = "intent"
  /\ \/ manager' = "spawn" /\ UNCHANGED faults
     \/ manager' = "done" /\ Fault
  /\ UNCHANGED <<bound, call, box, registry, volume, temporaries, worked>>

\* function.spawn: accepted; or it raises, whether or not Modal took the call.
Spawn ==
  /\ manager = "spawn"
  /\ \/ call' = [call EXCEPT !.status = "queued"] /\ manager' = "accept" /\ UNCHANGED faults
     \/ call' \in {call, [call EXCEPT !.status = "queued"]} /\ manager' = "done" /\ Fault
  /\ UNCHANGED <<bound, box, registry, volume, temporaries, worked>>

\* _publish_post_spawn_acceptance: read back from a new handle, or proved to be
\* absent, which cancels the call, or neither, which does not.
Accept ==
  /\ manager = "accept"
  /\ \/ volume' = volume \union {Acceptance} /\ manager' = "acceptance" /\ UNCHANGED faults
     \/ volume' = volume /\ manager' = "cancel" /\ Fault
     \/ volume' \in {volume, volume \union {Acceptance}} /\ manager' = "done" /\ Fault
  /\ UNCHANGED <<bound, call, box, registry, temporaries, worked>>

\* The two local records; an error leaves the call alone.
WriteAcceptance ==
  /\ manager = "acceptance"
  /\ \/ manager' = "receipt" /\ UNCHANGED faults
     \/ manager' = "done" /\ Fault
  /\ UNCHANGED <<bound, call, box, registry, volume, temporaries, worked>>

WriteCallReceipt ==
  /\ manager = "receipt" /\ manager' = "done"
  /\ \/ bound' = TRUE /\ UNCHANGED faults
     \/ bound' = FALSE /\ Fault
  /\ UNCHANGED <<call, box, registry, volume, temporaries, worked>>

Cancel ==
  /\ manager = "cancel" /\ manager' = "done"
  /\ \/ call' = [call EXCEPT !.cancel = TRUE] /\ UNCHANGED faults
     \/ call' = call /\ Fault
  /\ UNCHANGED <<bound, box, registry, volume, temporaries, worked>>

ManagerDies ==
  /\ manager # "done" /\ manager' = "done" /\ Fault
  /\ UNCHANGED <<bound, call, box, registry, volume, temporaries, worked>>

-----------------------------------------------------------------------------
(* The provider. *)

\* What a commit, and a reload, make of the temporaries: the volume has one if
\* the mounted copy has one.
Swept(found) ==
  IF found \intersect {"own", "mounted"} = {} THEN found \ {"committed"} ELSE found \union {"committed"}
Reread(found) == IF "committed" \in found THEN {"mounted", "committed"} ELSE {}

StartContainer ==
  /\ box = None /\ call.status = "queued" /\ ~call.cancel /\ call.starts < MaxStarts
  /\ call' = [call EXCEPT !.status = "running", !.starts = @ + 1]
  /\ box' = [task |-> call.starts + 1, step |-> "load", done |-> 0, server |-> FALSE,
             disk |-> volume, outcome |-> "success", tracker |-> "not_started", cycle |-> 0]
  /\ temporaries' = Reread(temporaries)
  /\ UNCHANGED <<hostVars, registry, volume, worked, faults>>

CancelQueued ==
  /\ call.status = "queued" /\ call.cancel
  /\ call' = [call EXCEPT !.status = "failed"]
  /\ UNCHANGED <<hostVars, box, registry, volume, temporaries, worked, faults>>

\* The container is gone; what it had written may have been committed.
EndBox(status) ==
  /\ box' = None /\ call' = [call EXCEPT !.status = status]
  /\ \/ volume' = volume /\ temporaries' = temporaries \intersect {"committed"}
     \/ volume' = volume \union box.disk /\ temporaries' = Swept(temporaries) \intersect {"committed"}

\* Stopped for good, or preempted and started again as another task.
ContainerDies ==
  /\ box # None
  /\ \/ EndBox("failed") /\ (IF call.cancel THEN UNCHANGED faults ELSE Fault)
     \/ EndBox("queued") /\ call.starts < MaxStarts /\ Fault
  /\ UNCHANGED <<hostVars, registry, worked>>

BackgroundCommit ==
  /\ box # None /\ ~(box.disk \subseteq volume /\ Swept(temporaries) = temporaries)
  /\ volume' = volume \union box.disk /\ temporaries' = Swept(temporaries)
  /\ UNCHANGED <<hostVars, call, box, registry, worked, faults>>

-----------------------------------------------------------------------------
(* The container: matched_smoke_test up to the publication. *)

Doing(step) == box # None /\ box.step = step
At(step) == [box EXCEPT !.step = step]
Step(step) == box' = At(step)
Holding(b, files) == [b EXCEPT !.disk = files]
CallFails == EndBox("failed")

\* The intent is read, and compared with what is deployed; or something raises.
LoadIntent ==
  /\ Doing("load")
  /\ \/ Step("wait") /\ UNCHANGED <<call, volume, temporaries, faults>>
     \/ CallFails /\ Fault
  /\ UNCHANGED <<hostVars, registry, worked>>

\* _wait_for_acceptance, and what is observed before the claim.
WaitForAcceptance ==
  /\ Doing("wait")
  /\ \/ /\ Acceptance \in volume
        /\ box' = Holding(At("claim"), volume) /\ temporaries' = Reread(temporaries)
        /\ UNCHANGED <<call, volume, faults>>
     \/ Acceptance \notin volume /\ manager = "done" /\ CallFails /\ UNCHANGED faults
     \/ CallFails /\ Fault
  /\ UNCHANGED <<hostVars, registry, worked>>

\* Mutant: a claim that exists already is taken for one's own.
ClaimAttempt_Again ==
  /\ Doing("claim")
  /\ registry' = IF registry = None THEN box.task ELSE registry
  /\ Step("records")
  /\ UNCHANGED <<hostVars, call, volume, temporaries, worked, faults>>

\* _claim_attempt: one atomic put, which may raise before or after.  Nothing is
\* published for a claim that is not known to be won.
ClaimAttempt ==
  /\ Doing("claim")
  /\ \/ /\ registry = None /\ registry' = box.task /\ Step("records")
        /\ UNCHANGED <<call, volume, temporaries, faults>>
     \/ registry = None /\ registry' \in {None, box.task} /\ CallFails /\ Fault
     \/ registry # None /\ CallFails /\ UNCHANGED <<registry, faults>>
  /\ UNCHANGED <<hostVars, worked>>

\* _atomic_install_exact: a temporary is created and renamed, and then the file is
\* there; or the write raises before, when a temporary that cannot be removed
\* stays, or behind the renaming.  The container goes on as next or after.
Writes(file, next, after) ==
  LET written == box.disk \union {file}
      renamed == Listed(file) => "own" \in temporaries
      dropped == temporaries \ {"own"} IN
  \/ ~renamed /\ box' = box /\ temporaries' = temporaries \union {"own"} /\ UNCHANGED faults
  \/ renamed /\ box' = Holding(next, written) /\ temporaries' = dropped /\ UNCHANGED faults
  \/ /\ box' = after /\ Fault
     /\ \/ temporaries' = dropped
        \/ "own" \in temporaries /\ temporaries' = dropped \union {"mounted"}
  \/ renamed /\ box' = Holding(after, written) /\ temporaries' = dropped /\ Fault

Failing == At("failing")

\* What _commit_and_verify(files) leaves: the volume, the disk, the temporaries.
\* When it returns, its two cycles proved the files; but a commit that failed and
\* the reload after it may have cost other files, and only its own are installed
\* again.  When it raises, either may have happened in part, and a temporary of a
\* file installed again may be left.
Proved(files) ==
  {<<volume \union box.disk, volume \union box.disk, Reread(Swept(temporaries))>>,
   <<volume \union files, volume \union files, Reread(temporaries)>>}
Again(files) ==
  IF \E f \in files : Listed(f) THEN SUBSET {"mounted", "committed"} ELSE {{}}
Unproved(files) ==
  Proved(files)
  \union {<<volume \union box.disk, box.disk, Swept(temporaries)>>, <<volume, box.disk, temporaries>>}
  \union {<<volume \union seen, volume \union seen \union some, Reread(temporaries) \union left>> :
            seen \in SUBSET files, some \in SUBSET files, left \in Again(files)}

CommitAndVerify(files, next, after) ==
  \/ /\ volume' = volume \union box.disk /\ box' = Holding(next, volume')
     /\ temporaries' = Reread(Swept(temporaries)) /\ UNCHANGED faults
  \/ \E view \in Proved(files) :
       volume' = view[1] /\ box' = Holding(next, view[2]) /\ temporaries' = view[3] /\ Fault
  \/ \E view \in Unproved(files) :
       volume' = view[1] /\ box' = Holding(after, view[2]) /\ temporaries' = view[3] /\ Fault

\* The files of a list are installed in its order.
Installed(files) == Range(files) \subseteq box.disk
FirstMissing(files, f) ==
  \E i \in DOMAIN files :
    f = files[i] /\ f \notin box.disk /\ \A j \in 1 .. i - 1 : files[j] \in box.disk

Records == <<Claim(box.task), Acknowledgement(box.task)>>

\* _publish_attempt_records
PublishRecords ==
  /\ Doing("records")
  /\ \/ \E f \in Range(Records) :
          FirstMissing(Records, f) /\ Writes(f, box, Failing) /\ UNCHANGED volume
     \/ Installed(Records) /\ CommitAndVerify(Range(Records), At("start"), Failing)
  /\ UNCHANGED <<hostVars, call, registry, worked>>

\* _rehash_subject, the allocation and the runtime as observed before; then the
\* server and its monitor.
StartServer ==
  /\ Doing("start")
  /\ \/ /\ box' = [box EXCEPT !.step = "probe", !.server = TRUE]
        /\ worked' = worked \union {box.task} /\ UNCHANGED faults
     \/ /\ box' = Failing /\ Fault /\ UNCHANGED worked
  /\ UNCHANGED <<hostVars, call, registry, volume, temporaries>>

\* Mutant: a server that could not be stopped is noted, and the attempt goes on.
RunSubject_Regardless ==
  /\ Doing("probe")
  /\ \/ box' = [box EXCEPT !.step = "persist", !.server = FALSE] /\ UNCHANGED faults
     \/ box' = [box EXCEPT !.step = "persist"] /\ Fault
  /\ UNCHANGED <<hostVars, call, registry, volume, temporaries, worked>>

\* _run_subject: the probes, and then the monitor and the server are stopped;
\* an error of the one or the other fails the attempt.
RunSubject ==
  /\ Doing("probe")
  /\ \/ box' = [box EXCEPT !.step = "persist", !.server = FALSE] /\ UNCHANGED faults
     \/ \E left \in BOOLEAN : box' = [box EXCEPT !.step = "failing", !.server = left] /\ Fault
  /\ UNCHANGED <<hostVars, call, registry, volume, temporaries, worked>>

Completed == [box EXCEPT !.done = @ + 1, !.step = IF box.done = 0 THEN "start" ELSE "verify"]

\* Mutant: the receipt is trusted to be committed in the background.
PersistSubject_Later ==
  /\ Doing("persist")
  /\ box' = Holding(Completed, box.disk \union {SubjectReceipt(box.task, box.done + 1)})
  /\ UNCHANGED <<hostVars, call, registry, volume, temporaries, worked, faults>>

\* _persist_subject_receipt; the subject counts as completed behind it.
PersistSubject ==
  LET receipt == SubjectReceipt(box.task, box.done + 1) IN
  /\ Doing("persist")
  /\ IF receipt \notin box.disk
       THEN Writes(receipt, box, Failing) /\ UNCHANGED volume
       ELSE CommitAndVerify({receipt}, Completed, Failing)
  /\ UNCHANGED <<hostVars, call, registry, worked>>

\* _verify_persisted_subject_receipts
VerifySubjects ==
  /\ Doing("verify")
  /\ CommitAndVerify({SubjectReceipt(box.task, s) : s \in Subjects}, At("publish"), Failing)
  /\ UNCHANGED <<hostVars, call, registry, worked>>

\* The outer handler: a failure receipt, if no publication has begun.
BuildFailure ==
  /\ Doing("failing")
  /\ box' = [box EXCEPT !.step = "publish", !.outcome = "failure"]
  /\ UNCHANGED <<hostVars, call, registry, volume, temporaries, worked, faults>>

-----------------------------------------------------------------------------
(* _publish_terminal *)

Receipt == Terminal(box.task, box.outcome, box.done)
NotStarted == Snapshot(box.task, "not_started", 0, None)
Now(status) == Snapshot(box.task, status, box.cycle, Receipt)
Installing(c) == Snapshot(box.task, "installing", c, Receipt)

\* The files of a cycle, in the order in which they are installed.
Expected ==
  SubSeq(Records \o <<NotStarted, Receipt, Installing(1), Installing(2)>>, 1, 4 + box.cycle)

Begun == [box EXCEPT !.tracker = "installing", !.cycle = 1]

\* An error while nothing but the first snapshot may be there is an ordinary
\* one, after which the failure is published, unless it was that of a failure.
BeginPublication ==
  /\ Doing("publish") /\ box.tracker = "not_started"
  /\ Writes(NotStarted, Begun, At(IF box.outcome = "success" THEN "failing" ELSE "raise"))
  /\ UNCHANGED <<hostVars, call, registry, volume, worked>>

\* Mutant: an error of the publication is an error like any other.
Unknown_Failing == [box EXCEPT !.step = "failing", !.tracker = "not_started"]

\* _publication_unknown: no other receipt from here on.
Unknown == [box EXCEPT !.step = "unknown", !.tracker = "unknown"]

\* What is there already is written again, and only its temporary may stay.
Install ==
  /\ Doing("publish") /\ box.tracker = "installing"
  /\ \/ \E f \in Range(Expected) : FirstMissing(Expected, f) /\ Writes(f, box, Unknown)
     \/ /\ ~Installed(Expected) /\ "own" \notin temporaries /\ box' = box /\ Fault
        /\ temporaries' = temporaries \union {"mounted"}
  /\ UNCHANGED <<hostVars, call, registry, volume, worked>>

\* The second cycle, or none is left.
NextCycle == IF box.cycle = 1 THEN [box EXCEPT !.cycle = 2] ELSE Unknown

\* The commit, the reload, and the comparison of every file: all are exact, or
\* some are missing, or the reload failed, or a file cannot be read.
Settle ==
  /\ Doing("publish") /\ box.tracker = "installing" /\ Installed(Expected)
  /\ \/ /\ volume' = volume \union box.disk
        /\ box' = Holding(At("confirm"), volume') /\ temporaries' = Reread(Swept(temporaries))
        /\ UNCHANGED faults
     \/ \E committed \in {<<volume, temporaries>>, <<volume \union box.disk, Swept(temporaries)>>} :
        /\ volume' = committed[1] /\ Fault
        /\ \/ /\ \/ Range(Expected) \subseteq volume' /\ box' = Holding(At("confirm"), volume')
                 \/ ~(Range(Expected) \subseteq volume') /\ box' = Holding(NextCycle, volume')
                 \/ box' = Holding(Unknown, volume')
              /\ temporaries' = Reread(committed[2])
           \/ box' = NextCycle /\ temporaries' = committed[2]
  /\ UNCHANGED <<hostVars, call, registry, worked>>

Confirmation == Now("confirmed")

Confirm ==
  LET confirmed == [box EXCEPT !.tracker = "confirmed",
                               !.step = IF box.outcome = "success" THEN "return" ELSE "raise"] IN
  /\ Doing("confirm")
  /\ IF Confirmation \notin box.disk
       THEN Writes(Confirmation, box, Unknown) /\ UNCHANGED volume
       ELSE CommitAndVerify({Confirmation}, confirmed, Unknown)
  /\ UNCHANGED <<hostVars, call, registry, worked>>

\* _mark_publication_unknown: whatever becomes of it, the call raises.
RecordUnknown ==
  /\ Doing("unknown")
  /\ IF Now("unknown") \notin box.disk
       THEN Writes(Now("unknown"), box, At("raise")) /\ UNCHANGED volume
       ELSE CommitAndVerify({Now("unknown")}, At("raise"), At("raise"))
  /\ UNCHANGED <<hostVars, call, registry, worked>>

Leave ==
  /\ \/ Doing("return") /\ EndBox("returned")
     \/ Doing("raise") /\ CallFails
  /\ UNCHANGED <<hostVars, registry, worked, faults>>

-----------------------------------------------------------------------------
(* status. *)

\* validate_matched_publication_transition
MayFollow(a, b) ==
  /\ <<a.status, b.status>> \in {<<"not_started", "installing">>, <<"installing", "installing">>,
                                 <<"installing", "confirmed">>, <<"installing", "unknown">>}
  /\ b.cycle \in {a.cycle, a.cycle + 1}
  /\ a.status = "installing" /\ b.status = "installing" => a.cycle = 1 /\ b.cycle = 2
  /\ a.task = b.task /\ a.receipt \in {None, b.receipt}

Rank(s) ==
  3 * s.cycle + (CASE s.status = "not_started" -> 0 [] s.status = "installing" -> 1 [] OTHER -> 2)

\* _validated_publication_inspection: of the snapshots four at most are accepted,
\* no two in one state; in their order the first is the initial one, and each
\* may follow the one before it.
Snapshots == OfKind(volume, "snapshot")
First(s) == \A t \in Snapshots : Rank(s) <= Rank(t)
Final(s) == \A t \in Snapshots : Rank(t) <= Rank(s)
RightBefore(a, b) ==
  a # b /\ Rank(a) <= Rank(b) /\ ~ \E t \in Snapshots : Rank(a) < Rank(t) /\ Rank(t) < Rank(b)

HistoryValid ==
  /\ Cardinality(Snapshots) <= 4
  /\ \A a, b \in Snapshots : a.status = b.status /\ a.cycle = b.cycle => a = b
  /\ \A s \in Snapshots : First(s) => s.status = "not_started" /\ s.cycle = 0
  /\ \A a, b \in Snapshots : RightBefore(a, b) => MayFollow(a, b)

\* _validated_attempt_claim_inspection
DurableClaims == OfKind(volume, "claim")
ClaimValid ==
  /\ Cardinality(DurableClaims) <= 1
  /\ registry # None => DurableClaims \subseteq {Claim(registry)}

\* The one receipt is the one that was confirmed, of the claimed attempt.
Believed(receipt) ==
  \E s \in Snapshots :
    Final(s) /\ s.status = "confirmed" /\ s.receipt = receipt /\ DurableClaims = {Claim(s.task)}

\* _validated_terminal_evidence: nothing, an outcome, or a refusal.
TerminalEvidence ==
  LET candidates == OfKind(volume, "terminal") IN
  IF candidates = {} THEN IF Snapshots = {} THEN "none" ELSE "refused"
  ELSE IF Cardinality(candidates) = 1 /\ \A r \in candidates : Believed(r)
       THEN (CHOOSE r \in candidates : TRUE).outcome
       ELSE "refused"

Status ==
  IF ~bound THEN "unbound"
  ELSE IF "committed" \in temporaries THEN "refused"
  ELSE IF ~(Acceptance \in volume /\ ClaimValid /\ HistoryValid) THEN "refused"
  ELSE IF TerminalEvidence # "none" THEN TerminalEvidence
  ELSE IF registry # None /\ DurableClaims = {} THEN "attempt_consumed"
  ELSE CASE call.status = "failed" -> "failed_without_terminal_evidence"
         [] call.status = "returned" -> "returned_without_terminal_evidence"
         [] OTHER -> "running_or_queued"

-----------------------------------------------------------------------------
Manager == Authorize \/ Spawn \/ Accept \/ WriteAcceptance \/ WriteCallReceipt \/ Cancel

Container ==
  \/ LoadIntent \/ WaitForAcceptance \/ ClaimAttempt \/ PublishRecords
  \/ StartServer \/ RunSubject \/ PersistSubject \/ VerifySubjects \/ BuildFailure
  \/ BeginPublication \/ Install \/ Settle \/ Confirm \/ RecordUnknown \/ Leave

Next ==
  \/ Manager \/ ManagerDies
  \/ StartContainer \/ CancelQueued \/ ContainerDies \/ BackgroundCommit
  \/ Container

Spec == Init /\ [][Next]_vars

-----------------------------------------------------------------------------
(* Properties. *)

\* The servers run for one task, which claimed the attempt and whose claim and
\* acknowledgement were durable first; and never two of them at once.
PaidOnce ==
  /\ worked \subseteq {registry}
  /\ \A t \in worked : {Claim(t), Acknowledgement(t)} \subseteq volume
  /\ Doing("start") => ~box.server

\* What status reports is what happened: success only with the receipts of both
\* subjects, failure with those of the completed ones, all durable.
AnswerBacked ==
  Status \in {"success", "failure"} =>
    \E t \in Tasks, n \in 0 .. 2 :
      /\ Terminal(t, Status, n) \in volume
      /\ {SubjectReceipt(t, s) : s \in 1 .. n} \subseteq volume
      /\ Status = "success" => n = 2

\* An outcome that status has reported stays reported, or status refuses, while a
\* temporary is on the volume, or because the confirmation was committed without
\* the container learning of it, and it added "unknown".  And a container that ends
\* knowing its receipt confirmed leaves an attempt that status reads with that
\* outcome, unless it left a temporary on the volume.
Unconfirmed == \E s \in OfKind(volume, "snapshot") : s.status = "unknown"
Littered == "committed" \in temporaries
Outcomes == {"success", "failure", "failed_without_terminal_evidence"}
AnswerStands ==
  [][/\ (Status \in Outcomes) =>
          Status' = Status \/ (Status' = "refused" /\ (Unconfirmed' \/ Littered'))
     /\ (box # None /\ box' = None /\ box.tracker = "confirmed") =>
          \/ Status' = IF bound THEN box.outcome ELSE "unbound"
          \/ Status' = "refused" /\ Littered']_vars

\* The attempt is a one-shot attempt.
OneShot ==
  INSTANCE OneShotAttempt WITH
    Calls <- {"call"}, TaskIds <- Tasks, NoCall <- None,
    claimed <- IF registry = None THEN None ELSE "call",
    begun <- {<<"call", t>> : t \in worked},
    outcomes <- {<<"call", r.outcome>> : r \in OfKind(volume, "terminal")}
ImplementsOneShot == OneShot!AttemptSpec

=============================================================================
