---------------------------- MODULE SmokeProofs ----------------------------
(***************************************************************************)
(* Theorems about SmokeAttempt, for any set of hosts and any number of     *)
(* container starts and faults.  The argument, in the order of the         *)
(* invariants:                                                             *)
(*   - a host spawns one call, and what its records say of it stays        *)
(*     (HostInv);                                                          *)
(*   - a claim that Modal has forgotten finds everything over (CallInv),   *)
(*     and the acceptance that its task waited for on the volume, so there *)
(*     is one owner for good;                                              *)
(*   - a container behind the claim is the owner, and only it writes       *)
(*     records of a task (RecordInv);                                      *)
(*   - where it is tells which of them are committed (ProgressInv), and    *)
(*     that it has not yet written a receipt (ReceiptInv).                 *)
(***************************************************************************)
EXTENDS SmokeAttempt, FiniteSetTheorems, TLAPS

\* TypeOK, but for the temporaries: nothing but status and launch looks at those,
\* so no other invariant speaks of them.
Typed ==
  /\ versions \in 1 .. 2
  /\ manager \in [Hosts -> {"idle", "intent", "authorize", "recheck", "spawn", "accept", "cancel",
                            "dead"} \union CallStatuses]
  /\ local \in [Hosts -> {"none", "intent"} \union CallStatuses]
  /\ call \in [Hosts -> [status : {"none", "queued", "running", "failed", "returned"},
                         cancel : BOOLEAN, starts : 0 .. MaxStarts]]
  /\ box = None \/ box \in [call : Hosts, task : Tasks, step : Steps, disk : SUBSET Files,
                            failing : BOOLEAN]
  /\ registry \in [owner : (Hosts \X Tasks) \union {<<None, 0>>}, present : BOOLEAN]
  /\ volume \subseteq Files
  /\ begun \subseteq Hosts \X Tasks
  /\ faults \in 0 .. MaxFaults
Places == {"own", "mounted", "committed"}
Placed == temporaries \in SUBSET Places

Nobody == <<None, 0>>
Owner == registry.owner
Of(f) == <<f.call, f.task>>
BoxTask == <<box.call, box.task>>

TaskKinds == {"claim", "history", "ledger", "inputs", "passed", "failed"}
IsReceipt(f) == f.kind \in {"passed", "failed"}

\* The files on the volume or on the mount of the container.
Known == volume \union (IF box = None THEN {} ELSE box.disk)
NoReceipts == \A f \in Known : ~IsReceipt(f)

\* What a task has recorded before anything depends on it.
TaskRecords(p) == {File("claim", p[1], p[2]), File("history", p[1], p[2]), File("ledger", p[1], p[2])}

Ended == {"none", "failed", "returned"}

\* A host spawns one call, after the intent and before the call receipt.
HostInv ==
  \A h \in Hosts :
    /\ manager[h] \notin {"idle", "dead"} =>
         local[h] = IF manager[h] = "intent" THEN "none" ELSE "intent"
    /\ manager[h] \in {"intent", "authorize", "recheck", "spawn"} => call[h].status = "none"
    /\ local[h] = "none" => call[h].status = "none"

\* The container belongs to a call that runs.  A forgotten claim is one of a
\* launch that is over like every other.
CallInv ==
  /\ box # None => call[box.call].status = "running"
  /\ registry.present => Owner # Nobody
  /\ Owner # Nobody /\ ~registry.present =>
       \A h \in Hosts : manager[h] \in {"idle", "dead"} /\ call[h].status \in Ended

\* All records of a task are those of the owner, and a mount adds to the volume
\* what its own container wrote.
RecordInv ==
  /\ \A f \in Known : f.kind \in TaskKinds => Of(f) = Owner
  /\ Owner # Nobody => {Intent(Owner[1]), Acceptance(Owner[1])} \subseteq volume
  /\ box # None => \A f \in box.disk : f \in volume \/ Of(f) = BoxTask

\* What a container has behind it.
ProgressInv ==
  box # None =>
    /\ IF box.step = "load" THEN box.disk \subseteq volume ELSE Intent(box.call) \in volume
    /\ box.step \notin {"load", "wait"} => Acceptance(box.call) \in volume
    /\ box.step \notin {"load", "wait", "claim"} => Owner = BoxTask
    /\ box.step = "ledger" => Mine("claim") \in volume
    /\ box.step \in {"bind", "verify", "serve", "publish", "receipt", "return"} =>
         TaskRecords(Owner) \subseteq volume
    /\ box.step \in {"serve", "publish", "return"} => begun # {}
    /\ box.step = "return" => Mine("passed") \in volume
    /\ box.step \in {"own", "ledger", "bind", "verify", "serve", "publish", "receipt"} => NoReceipts

\* What a receipt has behind it, and a server; receipts do not contradict each
\* other, and a call that returned has passed.
ReceiptInv ==
  /\ \A f \in Known : IsReceipt(f) => TaskRecords(Owner) \subseteq volume
  /\ \A f \in Known : f.kind = "passed" => begun # {} /\ \A g \in Known : g.kind # "failed"
  /\ begun \subseteq {Owner}
  /\ begun # {} => Owner # Nobody /\ TaskRecords(Owner) \subseteq volume
  /\ \A h \in Hosts : call[h].status = "returned" => \E f \in volume : f.kind = "passed"

SmokeInv == Typed /\ HostInv /\ CallInv /\ RecordInv /\ ProgressInv /\ ReceiptInv

-----------------------------------------------------------------------------
\* The shape of the variables.

Boxes == [call : Hosts, task : Tasks, step : Steps, disk : SUBSET Files, failing : BOOLEAN]

LEMMA FileTypes ==
  ASSUME NEW h \in Hosts, NEW t \in Tasks \union {0}, NEW kind \in Kinds
  PROVE  File(kind, h, t) \in Files
  BY DEF File, Files

LEMMA KindsOfFiles ==
  /\ \A h \in Hosts : Intent(h) \in Files /\ Acceptance(h) \in Files
  /\ \A h \in Hosts : Intent(h).kind = "intent" /\ Acceptance(h).kind = "acceptance"
  /\ \A h \in Hosts, t \in Tasks : TaskRecords(<<h, t>>) \subseteq Files
  /\ 0 \notin Tasks
  <1>1. 0 \notin Tasks
    BY DEF Tasks
  <1>2. \A h \in Hosts : Intent(h) \in Files /\ Acceptance(h) \in Files
    BY FileTypes DEF Intent, Acceptance, Kinds
  <1>3. \A h \in Hosts : Intent(h).kind = "intent" /\ Acceptance(h).kind = "acceptance"
    BY DEF Intent, Acceptance, File
  <1>4. \A h \in Hosts, t \in Tasks : TaskRecords(<<h, t>>) \subseteq Files
    BY FileTypes DEF TaskRecords, Kinds
  <1>5. QED
    BY <1>1, <1>2, <1>3, <1>4

LEMMA BoxIsTyped ==
  ASSUME Typed, box # None
  PROVE  box \in Boxes /\ box.disk \subseteq Files /\ box.call \in Hosts /\ box.task \in Tasks
  BY DEF Typed, Boxes

\* A file of the container's task.
LEMMA MineIsTyped ==
  ASSUME Typed, box # None, NEW kind \in TaskKinds
  PROVE  /\ Mine(kind) \in Files /\ Mine(kind).kind = kind /\ Of(Mine(kind)) = BoxTask
         /\ Mine(kind) = File(kind, box.call, box.task)
  BY BoxIsTyped, FileTypes DEF Mine, File, Of, BoxTask, TaskKinds, Kinds

LEMMA FaultType ==
  ASSUME Typed, Fault \/ UNCHANGED faults
  PROVE  faults' \in 0 .. MaxFaults
  BY SmokeAssumption DEF Typed, Fault

CallRecords ==
  [status : {"none", "queued", "running", "failed", "returned"},
   cancel : BOOLEAN, starts : 0 .. MaxStarts]

\* A call whose status changes, or which is to be cancelled.
LEMMA CallUpdates ==
  ASSUME NEW c \in CallRecords
  PROVE  /\ [c EXCEPT !.cancel = TRUE] \in CallRecords
         /\ [c EXCEPT !.cancel = TRUE].status = c.status
         /\ \A status \in {"queued", "failed", "returned"} :
              /\ [c EXCEPT !.status = status] \in CallRecords
              /\ [c EXCEPT !.status = status].status = status
  BY DEF CallRecords

LEMMA ManagerType ==
  ASSUME Typed, NEW h \in Hosts, Manager(h)
  PROVE  Typed'
  <1> USE DEF Typed, At, Go, CallStatuses
  <1>1. /\ manager \in [Hosts -> {"idle", "intent", "authorize", "recheck", "spawn", "accept", "cancel",
                                  "dead"} \union CallStatuses]
        /\ local \in [Hosts -> {"none", "intent"} \union CallStatuses]
        /\ volume \subseteq Files
    OBVIOUS
  <1>2. CASE BeginLaunch(h) \/ Recheck(h)
    BY <1>2 DEF BeginLaunch, Recheck
  <1>3. CASE WriteIntent(h)
    BY <1>3, FaultType DEF WriteIntent, WriteLocal
  <1>4. CASE Authorize(h)
    BY <1>4, FaultType, KindsOfFiles DEF Authorize
  <1>5. CASE Spawn(h)
    <2>1. call' \in [Hosts -> CallRecords]
      <3>1. [call EXCEPT ![h].status = "queued"] \in [Hosts -> CallRecords]
        BY DEF CallRecords
      <3>2. QED
        BY <1>5, <3>1 DEF Spawn, CallRecords
    <2>2. /\ manager' = [manager EXCEPT ![h] = "accept"]
             \/ manager' = [manager EXCEPT ![h] = "idle"]
          /\ UNCHANGED <<versions, local, box, registry, volume, begun>>
          /\ Fault \/ UNCHANGED faults
      BY <1>5 DEF Spawn
    <2>3. QED
      BY <2>1, <2>2, FaultType DEF CallRecords
  <1>6. CASE Accept(h)
    BY <1>6, FaultType, KindsOfFiles DEF Accept
  <1>7. CASE Cancel(h)
    <2>1. ASSUME call' = [call EXCEPT ![h].cancel = TRUE]
          PROVE  call' \in [Hosts -> CallRecords]
      BY <2>1, ZenonT(60) DEF CallRecords
    <2>2. call' \in [Hosts -> CallRecords]
      BY <1>7, <2>1 DEF Cancel, CallRecords
    <2>3. /\ manager' = [manager EXCEPT ![h] = "cancellation_requested"]
             \/ manager' = [manager EXCEPT ![h] = "cancellation_failed"]
          /\ UNCHANGED <<versions, local, box, registry, volume, begun>>
          /\ Fault \/ UNCHANGED faults
      BY <1>7 DEF Cancel
    <2>4. QED
      BY <2>2, <2>3, FaultType DEF CallRecords
  <1>8. CASE WriteCallReceipt(h)
    BY <1>8, FaultType DEF WriteCallReceipt, WriteLocal
  <1>9. CASE ManagerDies(h)
    BY <1>9, FaultType DEF ManagerDies
  <1>10. QED
    BY <1>2, <1>3, <1>4, <1>5, <1>6, <1>7, <1>8, <1>9 DEF Manager

-----------------------------------------------------------------------------
\* What the container does.

\* It stays the same, and what is new on the volume or on its mount is in F.
Works(F) ==
  /\ box \in Boxes /\ box' \in Boxes /\ box'.call = box.call /\ box'.task = box.task
  /\ volume \subseteq volume' /\ volume' \subseteq volume \union box.disk \union F
  /\ box'.disk \subseteq volume' \union box.disk \union F
  /\ F \subseteq Files
  /\ Fault \/ UNCHANGED faults

\* The updates of the container, of a call's status and of its cancellation
\* have names here, so that their effects are proved once.
Mounted(b, disk) == [b EXCEPT !.disk = disk]
Stepped(b, step) == [b EXCEPT !.step = step]

LEMMA MountType ==
  ASSUME NEW b \in Boxes, NEW disk \in SUBSET Files
  PROVE  /\ Mounted(b, disk) \in Boxes
         /\ Mounted(b, disk).disk = disk
         /\ Mounted(b, disk).call = b.call /\ Mounted(b, disk).task = b.task
         /\ Mounted(b, disk).step = b.step /\ Mounted(b, disk).failing = b.failing
  BY DEF Boxes, Mounted

LEMMA StepType ==
  ASSUME NEW b \in Boxes, NEW step \in Steps
  PROVE  /\ Stepped(b, step) \in Boxes
         /\ Stepped(b, step).disk = b.disk
         /\ Stepped(b, step).call = b.call /\ Stepped(b, step).task = b.task
         /\ Stepped(b, step).step = step /\ Stepped(b, step).failing = b.failing
  BY DEF Boxes, Stepped

LEMMA AfterAnError ==
  ASSUME box \in Boxes, NEW b \in {Failing, Raising}
  PROVE  /\ b \in Boxes /\ b.call = box.call /\ b.task = box.task /\ b.disk = box.disk
         /\ b.step \in {"own", "raise"} /\ Raising.step = "raise"
  <1>1. "raise" \in Steps /\ "own" \in Steps
    BY DEF Steps
  <1>2. /\ Raising \in Boxes /\ Raising.call = box.call /\ Raising.task = box.task
        /\ Raising.disk = box.disk /\ Raising.step = "raise"
    <2>1. Raising = Stepped(box, "raise")
      BY DEF Raising, Stepped
    <2>2. QED
      BY <1>1, <2>1, StepType
  <1>3. Failing = Raising \/ (/\ Failing \in Boxes /\ Failing.call = box.call
                             /\ Failing.task = box.task /\ Failing.disk = box.disk
                             /\ Failing.step = "own")
    BY <1>1 DEF Failing, Boxes
  <1>4. QED
    BY <1>2, <1>3

LEMMA FirstFiles ==
  ASSUME NEW files \in Seq(Files), NEW n \in 0 .. Len(files) - 1
  PROVE  ToSet(SubSeq(files, 1, n)) \subseteq ToSet(files)
  <1>1. /\ DOMAIN SubSeq(files, 1, n) = 1 .. n
        /\ \A i \in 1 .. n : SubSeq(files, 1, n)[i] = files[i] /\ i \in 1 .. Len(files)
    OBVIOUS
  <1>2. DOMAIN files = 1 .. Len(files)
    OBVIOUS
  <1>3. QED
    BY <1>1, <1>2 DEF ToSet

LEMMA Views ==
  ASSUME NEW F \in SUBSET Files, box \in Boxes, volume \subseteq Files,
         NEW view \in Reconciled(F) \union Unreconciled(F)
  PROVE  /\ volume \subseteq view[1] /\ view[1] \subseteq volume \union box.disk \union F
         /\ view[2] \subseteq volume \union box.disk \union F /\ view[2] \subseteq Files
         /\ view \in Reconciled(F) => F \subseteq view[1]
  <1>1. box.disk \subseteq Files
    BY DEF Boxes
  <1>2. CASE view \in Reconciled(F)
    BY <1>1, <1>2 DEF Reconciled
  <1>3. CASE view \in Unreconciled(F) /\ view \notin Reconciled(F)
    <2>1. CASE \E left : view = <<volume \union box.disk \union F, box.disk \union F, left>>
      BY <1>1, <1>3, <2>1
    <2>2. CASE \E base \in {volume, box.disk}, some \in SUBSET F :
                 \E left : view = <<volume, base \union some, left>>
      BY <1>1, <1>3, <2>2
    <2>3. QED
      BY <1>3, <2>1, <2>2 DEF Unreconciled
  <1>4. QED
    BY <1>2, <1>3

\* A temporary is written, and nothing else changes.
Waits == UNCHANGED <<box, volume>> /\ (Fault \/ UNCHANGED faults)

\* A publication: done, with all files durable, or one of the two errors, or there
\* is nothing yet but its temporary.
LEMMA PublishWorks ==
  ASSUME Typed, box \in Boxes, NEW files \in Seq(Files),
         NEW done \in Boxes, NEW ordinary \in Boxes, NEW unknown \in Boxes,
         \A b \in {done, ordinary, unknown} : b.call = box.call /\ b.task = box.task,
         Publish(files, done, ordinary, unknown)
  PROVE  \/ Waits
         \/ /\ Works(ToSet(files))
            /\ \/ box'.step = done.step /\ ToSet(files) \subseteq volume'
               \/ box'.step \in {ordinary.step, unknown.step}
  <1> DEFINE F == ToSet(files)
             Done == box'.step = done.step /\ F \subseteq volume'
  <1>1. F \subseteq Files /\ volume \subseteq Files /\ box.disk \subseteq Files
    BY DEF ToSet, Typed, Boxes
  <1>2. ASSUME volume' = volume \union box.disk \union F,
               box' = Mounted(done, volume'), UNCHANGED faults
        PROVE  Works(F) /\ Done
    <2>1. volume' \subseteq Files
      BY <1>1, <1>2
    <2>2. QED
      BY <1>1, <1>2, <2>1, MountType DEF Works
  <1>3. ASSUME NEW view \in Reconciled(F),
               volume' = view[1], box' = Mounted(done, view[2]), Fault
        PROVE  Works(F) /\ Done
    BY <1>1, <1>3, Views, MountType DEF Works
  <1>4. ASSUME NEW n \in 0 .. Len(files) - 1,
               box' = Mounted(ordinary, box.disk \union ToSet(SubSeq(files, 1, n))),
               UNCHANGED volume, Fault
        PROVE  Works(F) /\ box'.step = ordinary.step
    <2>1. ToSet(SubSeq(files, 1, n)) \subseteq F
      BY FirstFiles
    <2>2. QED
      BY <1>1, <1>4, <2>1, MountType DEF Works
  <1>5. ASSUME NEW view \in Unreconciled(F),
               volume' = view[1], box' = Mounted(unknown, view[2]), Fault
        PROVE  Works(F) /\ box'.step = unknown.step
    BY <1>1, <1>5, Views, MountType DEF Works
  <1>6. \/ Waits
        \/ /\ volume' = volume \union box.disk \union F
           /\ box' = Mounted(done, volume') /\ UNCHANGED faults
        \/ \E view \in Reconciled(F) :
             volume' = view[1] /\ box' = Mounted(done, view[2]) /\ Fault
        \/ \E n \in 0 .. Len(files) - 1 :
             /\ box' = Mounted(ordinary, box.disk \union ToSet(SubSeq(files, 1, n)))
             /\ UNCHANGED volume /\ Fault
        \/ \E view \in Unreconciled(F) :
             volume' = view[1] /\ box' = Mounted(unknown, view[2]) /\ Fault
    BY DEF Publish, Mounted, Waits
  <1>7. QED
    BY <1>2, <1>3, <1>4, <1>5, <1>6

-----------------------------------------------------------------------------
\* The invariants.

Rest == HostInv /\ CallInv /\ RecordInv /\ ProgressInv /\ ReceiptInv

LEMMA SmokeInit ==
  Init => SmokeInv
  <1> SUFFICES ASSUME Init PROVE SmokeInv
    OBVIOUS
  <1>1. Typed
    BY SmokeAssumption DEF Init, Typed
  <1>2. Owner = Nobody /\ Known = {} /\ begun = {} /\ box = None /\ ~registry.present
    BY DEF Init, Owner, Nobody, Known
  <1>3. HostInv /\ CallInv
    BY <1>2 DEF Init, HostInv, CallInv, CallStatuses
  <1>4. RecordInv /\ ProgressInv /\ ReceiptInv
    BY <1>2 DEF Init, RecordInv, ProgressInv, ReceiptInv
  <1>5. QED
    BY <1>1, <1>3, <1>4 DEF SmokeInv

\* Who owns the attempt is a task, and files of that task are of its call.
LEMMA OwnerTypes ==
  ASSUME Typed
  PROVE  /\ Owner # Nobody => Owner \in Hosts \X Tasks /\ Owner[1] \in Hosts
         /\ \A f \in Known : f \in Files /\ f.call \in Hosts /\ Of(f) # Nobody
         /\ volume \subseteq Known /\ Known \subseteq Files
  <1>1. Known \subseteq Files
    BY BoxIsTyped DEF Typed, Known
  <1>2. \A f \in Files : f.call \in Hosts
    BY DEF Files
  <1>3. \A f \in Known : Of(f) # Nobody
    BY <1>1, <1>2, SmokeAssumption DEF Of, Nobody
  <1>4. Owner # Nobody => Owner \in Hosts \X Tasks /\ Owner[1] \in Hosts
    BY DEF Typed, Owner, Nobody
  <1>5. QED
    BY <1>1, <1>2, <1>3, <1>4 DEF Known

\* What a step adds to the volume: the managers' records, and what the
\* container wrote for its task.
Gains ==
  /\ volume \subseteq volume'
  /\ \A f \in volume' :
       f \in volume \/ f.kind \notin TaskKinds \/ (box # None /\ Of(f) = BoxTask)

\* The volume gains what it may gain while the container stays where it is:
\* what is on its mount, and the managers' records.
LEMMA VolumeGrows ==
  ASSUME Typed, RecordInv, ProgressInv, ReceiptInv,
         UNCHANGED <<box, begun>>, Owner' = Owner, volume \subseteq volume',
         \A f \in volume' : f \in Known \/ f.kind \notin TaskKinds,
         \A h \in Hosts : call'[h].status = "returned" => call[h].status = "returned"
  PROVE  RecordInv' /\ ProgressInv' /\ ReceiptInv'
  <1>1. \A f \in Known' : f \in Known \/ f.kind \notin TaskKinds
    BY DEF Known
  <1>2. \A f \in Known' : IsReceipt(f) \/ f.kind = "passed" \/ f.kind = "failed" => f \in Known
    BY <1>1 DEF IsReceipt, TaskKinds
  <1>3. BoxTask' = BoxTask
    BY DEF BoxTask
  <1>4. RecordInv'
    BY <1>1, <1>3 DEF RecordInv
  <1>5. NoReceipts => NoReceipts'
    BY <1>2 DEF NoReceipts
  <1>6. \A kind \in TaskKinds : Mine(kind)' = Mine(kind)
    BY DEF Mine
  <1>7. ProgressInv'
    BY <1>3, <1>5, <1>6 DEF ProgressInv, TaskKinds
  <1>8. ReceiptInv'
    BY <1>2 DEF ReceiptInv
  <1>9. QED
    BY <1>4, <1>7, <1>8

\* A task that finds the attempt free is the first one.
LEMMA FreeIsFirst ==
  ASSUME SmokeInv, box # None, ~registry.present
  PROVE  /\ Owner = Nobody /\ begun = {}
         /\ \A f \in Known : f.kind \notin TaskKinds /\ ~IsReceipt(f)
  <1>1. box.call \in Hosts /\ call[box.call].status \notin Ended
    BY BoxIsTyped DEF SmokeInv, CallInv, Ended
  <1>2. Owner = Nobody
    BY <1>1 DEF SmokeInv, CallInv
  <1>3. \A f \in Known : f.kind \notin TaskKinds
    BY <1>2, OwnerTypes DEF SmokeInv, RecordInv
  <1>4. QED
    BY <1>2, <1>3 DEF SmokeInv, ReceiptInv, IsReceipt, TaskKinds

\* The task that claims becomes the owner.
Claims == registry' = [owner |-> BoxTask, present |-> TRUE]

LEMMA EndType ==
  ASSUME Typed, box # None, NEW status \in {"failed", "queued", "returned"}, EndBox(status),
         UNCHANGED <<hostVars, begun>>, Fault \/ UNCHANGED faults,
         UNCHANGED registry \/ Claims
  PROVE  Typed'
  <1>1. call \in [Hosts -> CallRecords] /\ volume \subseteq Files /\ box.call \in Hosts
        /\ box.disk \subseteq Files /\ BoxTask \in Hosts \X Tasks
    BY BoxIsTyped DEF Typed, CallRecords, BoxTask
  <1>2. call' \in [Hosts -> CallRecords] /\ box' = None /\ volume' \subseteq Files
    BY <1>1 DEF EndBox, CallRecords
  <1>3. registry' \in [owner : (Hosts \X Tasks) \union {Nobody}, present : BOOLEAN]
    <2>1. registry \in [owner : (Hosts \X Tasks) \union {Nobody}, present : BOOLEAN]
      BY DEF Typed, Nobody
    <2>2. CASE Claims
      BY <1>1, <2>2 DEF Claims
    <2>3. QED
      BY <2>1, <2>2
  <1>4. QED
    BY <1>2, <1>3, FaultType DEF Typed, CallRecords, hostVars, Nobody

LEMMA EndPreserves ==
  ASSUME SmokeInv, box # None, NEW status \in {"failed", "queued", "returned"}, EndBox(status),
         status = "returned" => Mine("passed") \in volume,
         UNCHANGED <<hostVars, begun>>,
         UNCHANGED registry \/ (Claims /\ ~registry.present /\ box.step = "claim")
  PROVE  Rest'
  <1>1. /\ Typed /\ HostInv /\ CallInv /\ RecordInv /\ ProgressInv /\ ReceiptInv
        /\ box.call \in Hosts /\ BoxTask # Nobody
    BY BoxIsTyped, SmokeAssumption DEF SmokeInv, BoxTask, Nobody
  <1>2. /\ box' = None /\ volume \subseteq volume' /\ volume' \subseteq Known /\ Known' = volume'
        /\ UNCHANGED <<manager, local, begun>>
    BY DEF EndBox, Known, hostVars
  <1>3. /\ call'[box.call].status = status /\ call[box.call].status = "running"
        /\ \A h \in Hosts \ {box.call} : call'[h].status = call[h].status
    BY <1>1 DEF EndBox, CallInv, Typed
  <1>4. HostInv'
    BY <1>1, <1>2, <1>3 DEF HostInv
  <1>5. CASE UNCHANGED registry
    <2>1. Owner' = Owner
      BY <1>5 DEF Owner
    <2>2. CallInv'
      BY <1>1, <1>2, <1>3, <1>5, <2>1 DEF CallInv, Ended
    <2>3. RecordInv' /\ ProgressInv'
      BY <1>1, <1>2, <2>1 DEF RecordInv, ProgressInv
    <2>4. \A h \in Hosts : call'[h].status = "returned" =>
            \E f \in volume' : f.kind = "passed"
      BY <1>1, <1>2, <1>3, MineIsTyped DEF ReceiptInv, TaskKinds
    <2>5. ReceiptInv'
      BY <1>1, <1>2, <2>1, <2>4 DEF ReceiptInv
    <2>6. QED
      BY <1>4, <2>2, <2>3, <2>5 DEF Rest
  <1>6. CASE Claims /\ ~registry.present /\ box.step = "claim"
    <2>1. /\ Owner' = BoxTask /\ registry'.present
          /\ begun = {} /\ \A f \in Known : f.kind \notin TaskKinds /\ ~IsReceipt(f)
          /\ {Intent(box.call), Acceptance(box.call)} \subseteq volume
      BY <1>1, <1>6, FreeIsFirst DEF Claims, Owner, ProgressInv
    <2>2. CallInv'
      BY <1>1, <1>2, <2>1 DEF CallInv
    <2>3. Owner'[1] = box.call
      BY <2>1 DEF BoxTask
    <2>4. RecordInv' /\ ProgressInv'
      BY <1>2, <2>1, <2>3 DEF RecordInv, ProgressInv
    <2>5. \A h \in Hosts : call'[h].status = "returned" => call[h].status = "returned" \/ status = "returned"
      BY <1>3
    <2>6. \A h \in Hosts : call'[h].status # "returned"
      BY <1>1, <2>1, <2>5, MineIsTyped, OwnerTypes DEF ReceiptInv, TaskKinds
    <2>7. ReceiptInv'
      BY <1>2, <2>1, <2>6 DEF ReceiptInv, TaskKinds
    <2>8. QED
      BY <1>4, <2>2, <2>4, <2>7 DEF Rest
  <1>7. QED
    BY <1>5, <1>6

-----------------------------------------------------------------------------
\* The managers.

\* What a manager's step leaves: the attempt, the other hosts, and a volume to
\* which it may have added its launch's records.
ManagerEffect(h) ==
  /\ UNCHANGED <<box, registry, begun>>
  /\ volume \subseteq volume' /\ volume' \subseteq volume \union {Intent(h), Acceptance(h)}
  /\ \A g \in Hosts \ {h} :
       manager'[g] = manager[g] /\ local'[g] = local[g] /\ call'[g].status = call[g].status
  /\ call'[h].status = call[h].status
       \/ (manager[h] = "spawn" /\ manager'[h] \in {"idle", "accept"} /\ call'[h].status = "queued")

LEMMA ManagerEffects ==
  ASSUME Typed, NEW h \in Hosts, Manager(h)
  PROVE  ManagerEffect(h)
  <1> USE DEF At, Go, ManagerEffect
  <1>1. /\ manager \in [Hosts -> {"idle", "intent", "authorize", "recheck", "spawn", "accept", "cancel",
                                  "dead"} \union CallStatuses]
        /\ local \in [Hosts -> {"none", "intent"} \union CallStatuses]
        /\ call \in [Hosts -> CallRecords]
    BY DEF Typed, CallRecords
  <1>2. CASE BeginLaunch(h) \/ Recheck(h) \/ ManagerDies(h)
    BY <1>1, <1>2 DEF BeginLaunch, Recheck, ManagerDies
  <1>3. CASE WriteIntent(h) \/ WriteCallReceipt(h)
    BY <1>1, <1>3 DEF WriteIntent, WriteCallReceipt, WriteLocal
  <1>4. CASE Authorize(h) \/ Accept(h)
    BY <1>1, <1>4 DEF Authorize, Accept
  <1>5. CASE Spawn(h)
    <2>1. \/ UNCHANGED call
          \/ call' = [call EXCEPT ![h].status = "queued"]
      BY <1>5 DEF Spawn
    <2>2. call' = [call EXCEPT ![h].status = "queued"] =>
            /\ call'[h].status = "queued"
            /\ \A g \in Hosts \ {h} : call'[g] = call[g]
      BY <1>1 DEF CallRecords
    <2>3. /\ manager[h] = "spawn" /\ manager'[h] \in {"idle", "accept"}
          /\ \A g \in Hosts \ {h} : manager'[g] = manager[g]
          /\ UNCHANGED <<local, box, registry, volume, begun>>
      BY <1>1, <1>5 DEF Spawn
    <2>4. QED
      BY <2>1, <2>2, <2>3
  <1>6. CASE Cancel(h)
    <2>1. \/ UNCHANGED call
          \/ call' = [call EXCEPT ![h].cancel = TRUE]
      BY <1>6 DEF Cancel
    <2>2. call' = [call EXCEPT ![h].cancel = TRUE] =>
            \A g \in Hosts : call'[g].status = call[g].status
      BY <1>1 DEF CallRecords
    <2>3. /\ \A g \in Hosts \ {h} : manager'[g] = manager[g]
          /\ UNCHANGED <<local, box, registry, volume, begun>>
      BY <1>1, <1>6 DEF Cancel
    <2>4. QED
      BY <2>1, <2>2, <2>3
  <1>7. QED
    BY <1>2, <1>3, <1>4, <1>5, <1>6 DEF Manager

\* Where a launch may be, by its own records.
LEMMA ManagerKeepsHosts ==
  ASSUME Typed, HostInv, NEW h \in Hosts, Manager(h)
  PROVE  HostInv'
  <1> DEFINE LocalInv(g) == /\ manager[g] \notin {"idle", "dead"} =>
                                 local[g] = IF manager[g] = "intent" THEN "none" ELSE "intent"
                            /\ manager[g] \in {"intent", "authorize", "recheck", "spawn"} =>
                                 call[g].status = "none"
                            /\ local[g] = "none" => call[g].status = "none"
  <1>1. /\ manager \in [Hosts -> {"idle", "intent", "authorize", "recheck", "spawn", "accept", "cancel",
                                  "dead"} \union CallStatuses]
        /\ local \in [Hosts -> {"none", "intent"} \union CallStatuses]
    BY DEF Typed
  <1>2. ManagerEffect(h) /\ LocalInv(h)
    BY ManagerEffects DEF HostInv
  <1>3. LocalInv(h)'
    <2> USE <1>1, <1>2 DEF At, Go, ManagerEffect, CallStatuses
    <2>1. CASE BeginLaunch(h) \/ Recheck(h) \/ ManagerDies(h)
      BY <2>1 DEF BeginLaunch, Recheck, ManagerDies, NoUnresolvedIntent, CallRecorded
    <2>2. CASE WriteIntent(h) \/ WriteCallReceipt(h)
      BY <2>2 DEF WriteIntent, WriteCallReceipt, WriteLocal
    <2>3. CASE Authorize(h) \/ Accept(h) \/ Cancel(h)
      BY <2>3 DEF Authorize, Accept, Cancel
    <2>4. CASE Spawn(h)
      <3>1. manager[h] = "spawn" /\ manager'[h] \in {"idle", "accept"} /\ UNCHANGED local
        BY <2>4 DEF Spawn
      <3>2. QED
        BY <3>1
    <2>5. QED
      BY <2>1, <2>2, <2>3, <2>4 DEF Manager
  <1>4. \A g \in Hosts \ {h} : LocalInv(g)'
    BY <1>2 DEF HostInv, ManagerEffect
  <1>5. QED
    BY <1>3, <1>4 DEF HostInv

LEMMA ManagerPreserves ==
  ASSUME SmokeInv, NEW h \in Hosts, Manager(h)
  PROVE  Rest' /\ Gains
  <1>1. /\ Typed /\ HostInv /\ CallInv /\ RecordInv /\ ProgressInv /\ ReceiptInv
        /\ ManagerEffect(h)
    BY ManagerEffects DEF SmokeInv
  <1>2. HostInv'
    BY <1>1, ManagerKeepsHosts
  <1>3. \A f \in volume' : f \in Known \/ f.kind \notin TaskKinds
    BY <1>1, KindsOfFiles DEF ManagerEffect, Known, TaskKinds
  <1>4. RecordInv' /\ ProgressInv' /\ ReceiptInv'
    <2>1. /\ UNCHANGED <<box, begun>> /\ Owner' = Owner /\ volume \subseteq volume'
          /\ \A g \in Hosts : call'[g].status = "returned" => call[g].status = "returned"
      BY <1>1 DEF ManagerEffect, Owner
    <2>2. QED
      BY <1>1, <1>3, <2>1, VolumeGrows
  <1>5. CallInv'
    <2>1. UNCHANGED <<box, registry>> /\ Owner' = Owner
      BY <1>1 DEF ManagerEffect, Owner
    <2>2. box # None => call'[box.call].status = "running"
      <3>1. manager[h] = "spawn" => call[h].status = "none"
        BY <1>1 DEF HostInv
      <3>2. QED
        BY <1>1, <3>1, BoxIsTyped DEF CallInv, ManagerEffect
    <2>3. ASSUME Owner # Nobody, ~registry.present
          PROVE  \A g \in Hosts : manager'[g] \in {"idle", "dead"} /\ call'[g].status \in Ended
      <3>1. manager[h] \in {"idle", "dead"}
        BY <1>1, <2>3 DEF CallInv
      <3>2. ~Fresh
        <4>1. Acceptance(Owner[1]) \in volume /\ Acceptance(Owner[1]).kind = "acceptance"
          BY <1>1, <2>3, OwnerTypes, KindsOfFiles DEF RecordInv
        <4>2. QED
          BY <4>1 DEF Fresh, OfKinds
      <3>3. FALSE
        BY <3>1, <3>2 DEF Manager, BeginLaunch, WriteIntent, Authorize, Recheck, Spawn, Accept, Cancel,
                          WriteCallReceipt, ManagerDies, At, CallStatuses
      <3>4. QED
        BY <3>3
    <2>4. QED
      BY <1>1, <2>1, <2>2, <2>3 DEF CallInv
  <1>6. Gains
    BY <1>1, KindsOfFiles DEF ManagerEffect, Gains, TaskKinds
  <1>7. QED
    BY <1>2, <1>4, <1>5, <1>6 DEF Rest

-----------------------------------------------------------------------------
\* The provider.

LEMMA ProviderType ==
  ASSUME Typed, (\E h \in Hosts : StartContainer(h) \/ CancelQueued(h))
                   \/ ContainerDies \/ BackgroundCommit \/ ForgetClaim \/ Redeploy
  PROVE  Typed'
  <1>1. call \in [Hosts -> CallRecords] /\ volume \subseteq Files
    BY DEF Typed, CallRecords
  <1>2. ASSUME NEW h \in Hosts, StartContainer(h) PROVE Typed'
    <2>1. call[h].starts \in 0 .. MaxStarts /\ call[h].starts + 1 \in Tasks
      BY <1>1, <1>2, SmokeAssumption DEF CallRecords, StartContainer, Tasks
    <2>2. call' \in [Hosts -> CallRecords]
      BY <1>1, <1>2, <2>1, SmokeAssumption DEF StartContainer, CallRecords, Tasks
    <2>3. box' \in Boxes
      BY <1>1, <1>2, <2>1 DEF StartContainer, Boxes, Steps
    <2>4. QED
      BY <1>2, <2>2, <2>3 DEF StartContainer, Typed, CallRecords, Boxes, hostVars
  <1>3. ASSUME NEW h \in Hosts, CancelQueued(h) PROVE Typed'
    <2>1. call' \in [Hosts -> CallRecords]
      BY <1>1, <1>3 DEF CancelQueued, CallRecords
    <2>2. QED
      BY <1>3, <2>1 DEF CancelQueued, Typed, CallRecords, hostVars
  <1>4. CASE ContainerDies
    <2>1. PICK status \in {"failed", "queued"} : EndBox(status)
      BY <1>4 DEF ContainerDies
    <2>2. box # None /\ UNCHANGED <<hostVars, registry, begun>> /\ (Fault \/ UNCHANGED faults)
      BY <1>4 DEF ContainerDies
    <2>3. QED
      BY <2>1, <2>2, EndType
  <1>5. CASE BackgroundCommit
    <2>1. volume' \subseteq Files
      BY <1>1, <1>5, BoxIsTyped DEF BackgroundCommit
    <2>2. QED
      BY <1>5, <2>1 DEF BackgroundCommit, Typed, hostVars
  <1>6. CASE ForgetClaim
    BY <1>6 DEF ForgetClaim, Typed, hostVars
  <1>7. CASE Redeploy
    BY <1>7, FaultType DEF Redeploy, Typed
  <1>8. QED
    BY <1>2, <1>3, <1>4, <1>5, <1>6, <1>7

LEMMA StartPreserves ==
  ASSUME SmokeInv, NEW h \in Hosts, StartContainer(h)
  PROVE  Rest'
  <1>1. /\ Typed /\ HostInv /\ CallInv /\ RecordInv /\ ProgressInv /\ ReceiptInv
        /\ call \in [Hosts -> CallRecords]
    BY DEF SmokeInv, Typed, CallRecords
  <1>2. /\ box = None /\ call[h].status = "queued" /\ call'[h].status = "running"
        /\ \A g \in Hosts \ {h} : call'[g] = call[g]
        /\ box'.call = h /\ box'.step = "load" /\ box'.disk = volume
        /\ UNCHANGED <<manager, local, registry, volume, begun>> /\ Owner' = Owner
    BY <1>1 DEF StartContainer, CallRecords, hostVars, Owner
  <1>3. HostInv'
    BY <1>1, <1>2 DEF HostInv
  <1>4. CallInv'
    BY <1>1, <1>2 DEF CallInv, Ended
  <1>5. Known' = volume /\ Known = volume
    BY <1>2 DEF Known
  <1>6. RecordInv' /\ ProgressInv'
    BY <1>1, <1>2, <1>5 DEF RecordInv, ProgressInv
  <1>7. ReceiptInv'
    BY <1>1, <1>2, <1>5 DEF ReceiptInv
  <1>8. QED
    BY <1>3, <1>4, <1>6, <1>7 DEF Rest

LEMMA ProviderPreserves ==
  ASSUME SmokeInv, (\E h \in Hosts : StartContainer(h) \/ CancelQueued(h))
                     \/ ContainerDies \/ BackgroundCommit \/ ForgetClaim \/ Redeploy
  PROVE  Rest' /\ Gains
  <1>1. /\ Typed /\ HostInv /\ CallInv /\ RecordInv /\ ProgressInv /\ ReceiptInv
        /\ call \in [Hosts -> CallRecords]
    BY DEF SmokeInv, Typed, CallRecords
  <1>2. ASSUME UNCHANGED <<box, begun>>, Owner' = Owner, volume \subseteq volume', volume' \subseteq Known,
               \A h \in Hosts : call'[h].status = "returned" => call[h].status = "returned",
               HostInv', CallInv'
        PROVE  Rest'
    BY <1>1, <1>2, VolumeGrows DEF Rest
  <1>3. ASSUME NEW h \in Hosts, CancelQueued(h) PROVE Rest'
    <2>1. /\ call[h].status = "queued" /\ call'[h].status = "failed"
          /\ \A g \in Hosts \ {h} : call'[g] = call[g]
          /\ UNCHANGED <<manager, local, box, registry, volume, begun>> /\ Owner' = Owner
      BY <1>1, <1>3 DEF CancelQueued, CallRecords, hostVars, Owner
    <2>2. HostInv'
      BY <1>1, <2>1 DEF HostInv
    <2>3. CallInv'
      BY <1>1, <2>1, BoxIsTyped DEF CallInv, Ended
    <2>4. QED
      BY <1>2, <2>1, <2>2, <2>3 DEF Known
  <1>4. ASSUME ContainerDies PROVE Rest'
    BY <1>4, EndPreserves DEF ContainerDies
  <1>5. ASSUME BackgroundCommit PROVE Rest'
    <2>1. /\ UNCHANGED <<manager, local, call, box, registry, begun>> /\ Owner' = Owner
          /\ volume \subseteq volume' /\ volume' \subseteq Known
      BY <1>5 DEF BackgroundCommit, hostVars, Owner, Known
    <2>2. HostInv' /\ CallInv'
      BY <1>1, <2>1 DEF HostInv, CallInv
    <2>3. QED
      BY <1>2, <2>1, <2>2
  <1>6. ASSUME ForgetClaim PROVE Rest'
    <2>1. /\ UNCHANGED <<manager, local, call, box, volume, begun>> /\ Owner' = Owner
          /\ ~registry'.present
          /\ \A h \in Hosts : manager[h] \in {"idle", "dead"} /\ call[h].status \in Ended
      BY <1>1, <1>6 DEF ForgetClaim, hostVars, Owner, Ended, Typed
    <2>2. HostInv' /\ CallInv'
      BY <1>1, <2>1 DEF HostInv, CallInv
    <2>3. QED
      BY <1>2, <2>1, <2>2 DEF Known
  <1>7. ASSUME Redeploy PROVE Rest'
    <2>1. UNCHANGED <<manager, local, call, box, registry, volume, begun>> /\ Owner' = Owner
      BY <1>7 DEF Redeploy, Owner
    <2>2. HostInv' /\ CallInv'
      BY <1>1, <2>1 DEF HostInv, CallInv
    <2>3. QED
      BY <1>2, <2>1, <2>2 DEF Known
  <1>8. Rest'
    BY <1>3, <1>4, <1>5, <1>6, <1>7, StartPreserves
  <1>9. Gains
    <2>1. CASE ContainerDies \/ BackgroundCommit
      BY <1>1, <2>1 DEF ContainerDies, EndBox, BackgroundCommit, RecordInv, Gains
    <2>2. CASE UNCHANGED volume
      BY <2>2 DEF Gains
    <2>3. QED
      BY <2>1, <2>2 DEF StartContainer, CancelQueued, ForgetClaim, Redeploy
  <1>10. QED
    BY <1>8, <1>9

-----------------------------------------------------------------------------
\* The container behind the claim.

LEMMA WorkPreserves ==
  ASSUME SmokeInv, box # None, box.step \notin {"load", "wait", "claim"},
         NEW F, Works(F), UNCHANGED <<hostVars, call, registry>>,
         box'.step \notin {"load", "wait", "claim"},
         \A f \in F : f.kind \in TaskKinds /\ Of(f) = BoxTask,
         \A f \in F : IsReceipt(f) => NoReceipts /\ F = {f} /\ TaskRecords(Owner) \subseteq volume,
         \A f \in F : f.kind = "passed" => begun # {},
         begun' = begun \/ (begun' = begun \union {BoxTask} /\ TaskRecords(Owner) \subseteq volume),
         box'.step = "ledger" => Mine("claim") \in volume',
         box'.step \in {"bind", "verify", "serve", "publish", "receipt", "return"} =>
           TaskRecords(Owner) \subseteq volume',
         box'.step \in {"serve", "publish", "return"} => begun' # {},
         box'.step = "return" => Mine("passed") \in volume',
         box'.step \in {"own", "ledger", "bind", "verify", "serve", "publish", "receipt"} =>
           NoReceipts /\ \A f \in F : ~IsReceipt(f)
  PROVE  SmokeInv' /\ Gains
  <1>1. /\ Typed /\ HostInv /\ CallInv /\ RecordInv /\ ProgressInv /\ ReceiptInv
        /\ Owner = BoxTask /\ Owner' = Owner /\ BoxTask \in Hosts \X Tasks /\ Owner # Nobody
    BY BoxIsTyped, SmokeAssumption DEF SmokeInv, ProgressInv, Owner, BoxTask, Nobody
  <1>2. /\ box \in Boxes /\ box' \in Boxes /\ box'.call = box.call /\ box'.task = box.task
        /\ volume \subseteq volume' /\ volume' \subseteq Known \union F
        /\ box'.disk \subseteq volume' \union Known \union F
        /\ F \subseteq Files
        /\ BoxTask' = BoxTask /\ UNCHANGED <<versions, manager, local, call, registry>>
    BY DEF Works, Known, BoxTask, hostVars
  <1>3. Known' \subseteq Known \union F
    BY <1>2 DEF Known
  <1>4. Typed'
    <2>1. volume' \subseteq Files /\ begun' \subseteq Hosts \X Tasks
      BY <1>1, <1>2, OwnerTypes DEF Typed
    <2>2. faults' \in 0 .. MaxFaults
      BY <1>1, FaultType DEF Works
    <2>3. QED
      BY <1>1, <1>2, <2>1, <2>2 DEF Typed, Boxes
  <1>5. HostInv' /\ CallInv'
    BY <1>1, <1>2 DEF HostInv, CallInv
  <1>6. RecordInv'
    <2>1. \A f \in Known' : f.kind \in TaskKinds => Of(f) = Owner
      BY <1>1, <1>3 DEF RecordInv
    <2>2. \A f \in box'.disk : f \in volume' \/ Of(f) = BoxTask
      BY <1>1, <1>2 DEF RecordInv, Works
    <2>3. QED
      BY <1>1, <1>2, <2>1, <2>2 DEF RecordInv
  <1>7. ProgressInv'
    <2>1. Mine("claim")' = Mine("claim") /\ Mine("passed")' = Mine("passed")
      BY <1>2 DEF Mine
    <2>2. Intent(box.call) \in volume /\ Acceptance(box.call) \in volume
      BY <1>1 DEF ProgressInv
    <2>3. NoReceipts /\ (\A f \in F : ~IsReceipt(f)) => NoReceipts'
      BY <1>3 DEF NoReceipts
    <2>4. QED
      BY <1>1, <1>2, <2>1, <2>2, <2>3 DEF ProgressInv
  <1>8. ReceiptInv'
    <2>1. begun' \subseteq {Owner} /\ (begun # {} => begun' # {})
      BY <1>1 DEF ReceiptInv
    <2>2. begun' # {} => TaskRecords(Owner) \subseteq volume'
      BY <1>1, <1>2 DEF ReceiptInv
    <2>3. \A f \in Known' : IsReceipt(f) => TaskRecords(Owner) \subseteq volume'
      BY <1>1, <1>2, <1>3 DEF ReceiptInv
    <2>4. ASSUME NEW f \in Known', f.kind = "passed"
          PROVE  begun' # {} /\ \A g \in Known' : g.kind # "failed"
      <3>1. IsReceipt(f)
        BY <2>4 DEF IsReceipt
      <3>2. CASE f \in F
        BY <1>3, <2>1, <2>4, <3>1, <3>2 DEF NoReceipts, IsReceipt
      <3>3. CASE f \in Known
        BY <1>1, <1>3, <2>1, <2>4, <3>1, <3>3 DEF ReceiptInv, NoReceipts, IsReceipt
      <3>4. QED
        BY <1>3, <3>2, <3>3
    <2>5. \A h \in Hosts : call'[h].status = "returned" => \E f \in volume' : f.kind = "passed"
      BY <1>1, <1>2 DEF ReceiptInv
    <2>6. QED
      BY <1>1, <2>1, <2>2, <2>3, <2>4, <2>5 DEF ReceiptInv
  <1>9. Gains
    BY <1>1, <1>2 DEF Gains, RecordInv, Works
  <1>10. QED
    BY <1>4, <1>5, <1>6, <1>7, <1>8, <1>9 DEF SmokeInv

\* The records of the task as files of the container.
LEMMA RecordsAreMine ==
  ASSUME Typed, box # None
  PROVE  /\ TaskRecords(BoxTask) = {Mine("claim"), Mine("history"), Mine("ledger")}
         /\ \A kind \in TaskKinds : /\ Mine(kind) \in Files /\ Mine(kind).kind = kind
                                   /\ Of(Mine(kind)) = BoxTask
         /\ ToSet(<<Mine("claim")>>) = {Mine("claim")} /\ <<Mine("claim")>> \in Seq(Files)
         /\ ToSet(<<Mine("passed")>>) = {Mine("passed")} /\ <<Mine("passed")>> \in Seq(Files)
         /\ ToSet(<<Mine("failed")>>) = {Mine("failed")} /\ <<Mine("failed")>> \in Seq(Files)
         /\ ToSet(<<Mine("history"), Mine("ledger")>>) = {Mine("history"), Mine("ledger")}
         /\ <<Mine("history"), Mine("ledger")>> \in Seq(Files)
  <1>1. \A kind \in TaskKinds : Mine(kind) \in Files /\ Mine(kind).kind = kind
                               /\ Of(Mine(kind)) = BoxTask
    BY MineIsTyped
  <1>2. TaskRecords(BoxTask) = {Mine("claim"), Mine("history"), Mine("ledger")}
    BY DEF TaskRecords, Mine, BoxTask
  <1>3. /\ Mine("claim") \in Files /\ Mine("passed") \in Files /\ Mine("failed") \in Files
        /\ Mine("history") \in Files /\ Mine("ledger") \in Files
    BY <1>1 DEF TaskKinds
  <1>4. \A f \in Files : ToSet(<<f>>) = {f} /\ <<f>> \in Seq(Files)
    BY DEF ToSet
  <1>5. \A f \in Files, g \in Files : ToSet(<<f, g>>) = {f, g} /\ <<f, g>> \in Seq(Files)
    BY DEF ToSet
  <1>6. QED
    BY <1>1, <1>2, <1>3, <1>4, <1>5

\* A step of the container that writes nothing but, perhaps, on its mount.
LEMMA StepWorks ==
  ASSUME Typed, box # None, NEW F \in SUBSET Files, UNCHANGED volume, Fault \/ UNCHANGED faults,
         NEW b \in Boxes, b.call = box.call, b.task = box.task, b.disk = box.disk,
         box' = b \/ box' = Mounted(b, box.disk \union F)
  PROVE  Works(F) /\ box'.step = b.step
  BY BoxIsTyped, MountType DEF Works

\* The publications, which write nothing but their files.
LEMMA PublishMine ==
  ASSUME Typed, box # None, NEW files \in Seq(Files), NEW next \in Steps,
         NEW ordinary \in {Failing, Raising},
         Publish(files, Stepped(box, next), ordinary, Raising)
  PROVE  \/ Waits
         \/ /\ Works(ToSet(files))
            /\ \/ box'.step = next /\ ToSet(files) \subseteq volume'
               \/ box'.step \in {ordinary.step, "raise"}
  <1>1. /\ box \in Boxes
        /\ Stepped(box, next) \in Boxes /\ Stepped(box, next).call = box.call
        /\ Stepped(box, next).task = box.task /\ Stepped(box, next).step = next
    BY BoxIsTyped, StepType
  <1>2. /\ ordinary \in Boxes /\ ordinary.call = box.call /\ ordinary.task = box.task
        /\ Raising \in Boxes /\ Raising.call = box.call /\ Raising.task = box.task
        /\ Raising.step = "raise"
    BY <1>1, AfterAnError
  <1>3. \A b \in {Stepped(box, next), ordinary, Raising} : b.call = box.call /\ b.task = box.task
    BY <1>1, <1>2
  <1>4. QED
    BY <1>1, <1>2, <1>3, PublishWorks

LEMMA SameAgain ==
  ASSUME SmokeInv, UNCHANGED <<hostVars, call, box, registry, volume, begun>>, Fault \/ UNCHANGED faults
  PROVE  SmokeInv' /\ Gains
  <1>1. faults' \in 0 .. MaxFaults
    BY FaultType DEF SmokeInv
  <1>2. QED
    BY <1>1 DEF SmokeInv, Typed, HostInv, CallInv, RecordInv, ProgressInv, ReceiptInv, Known, NoReceipts,
                Owner, BoxTask, Mine, hostVars, Gains

LEMMA RecordClaimPreserves ==
  ASSUME SmokeInv, RecordClaim
  PROVE  SmokeInv' /\ Gains
  <1> DEFINE F == {Mine("claim")}
  <1>1. /\ Typed /\ box # None /\ box.step = "own" /\ box \in Boxes /\ "ledger" \in Steps
        /\ UNCHANGED <<hostVars, call, registry, begun>> /\ NoReceipts /\ "claim" \in TaskKinds
        /\ Publish(<<Mine("claim")>>, Stepped(box, "ledger"), Failing, Raising)
    BY BoxIsTyped DEF SmokeInv, RecordClaim, Doing, Steps, ProgressInv, TaskKinds, Stepped
  <1>2. CASE Waits
    BY <1>1, <1>2, SameAgain DEF Waits
  <1>3. ~Waits => Works(F) /\ ((box'.step = "ledger" /\ F \subseteq volume') \/ box'.step \in {"own", "raise"})
    BY <1>1, PublishMine, AfterAnError, RecordsAreMine
  <1>4. \A f \in F : f.kind \in TaskKinds /\ Of(f) = BoxTask /\ ~IsReceipt(f) /\ f.kind # "passed"
    BY <1>1, RecordsAreMine DEF IsReceipt
  <1>5. QED
    BY <1>1, <1>2, <1>3, <1>4, WorkPreserves

LEMMA RecordLedgerPreserves ==
  ASSUME SmokeInv, RecordLedger
  PROVE  SmokeInv' /\ Gains
  <1> DEFINE F == {Mine("history"), Mine("ledger")}
             next == IF box.failing THEN "receipt" ELSE "bind"
  <1>1. /\ Typed /\ box # None /\ box.step = "ledger" /\ box \in Boxes /\ next \in Steps
        /\ UNCHANGED <<hostVars, call, registry, begun>> /\ NoReceipts
        /\ "history" \in TaskKinds /\ "ledger" \in TaskKinds
        /\ Mine("claim") \in volume /\ Owner = BoxTask
        /\ Publish(<<Mine("history"), Mine("ledger")>>, Stepped(box, next), Failing, Raising)
    BY BoxIsTyped DEF SmokeInv, RecordLedger, Doing, Steps, ProgressInv, TaskKinds, Stepped
  <1>2. CASE Waits
    BY <1>1, <1>2, SameAgain DEF Waits
  <1>3. ~Waits => Works(F) /\ ((box'.step = next /\ F \subseteq volume') \/ box'.step \in {"own", "raise"})
    BY <1>1, PublishMine, AfterAnError, RecordsAreMine
  <1>4. \A f \in F : f.kind \in TaskKinds /\ Of(f) = BoxTask /\ ~IsReceipt(f) /\ f.kind # "passed"
    BY <1>1, RecordsAreMine DEF IsReceipt
  <1>5. ~Waits /\ box'.step = next /\ F \subseteq volume' => TaskRecords(Owner) \subseteq volume'
    BY <1>1, <1>3, RecordsAreMine DEF Works
  <1>6. QED
    BY <1>1, <1>2, <1>3, <1>4, <1>5, WorkPreserves

LEMMA BindInputsPreserves ==
  ASSUME SmokeInv, BindInputs
  PROVE  SmokeInv' /\ Gains
  <1> DEFINE F == {Mine("inputs")}
  <1>1. /\ Typed /\ box # None /\ box.step = "bind" /\ box \in Boxes /\ "verify" \in Steps
        /\ UNCHANGED <<hostVars, call, registry, volume, begun>> /\ NoReceipts /\ "inputs" \in TaskKinds
        /\ TaskRecords(Owner) \subseteq volume
    BY BoxIsTyped DEF SmokeInv, BindInputs, Doing, Steps, ProgressInv, TaskKinds
  <1>2. PICK b \in {Stepped(box, "verify"), Failing, Raising} :
          box' = b \/ box' = Mounted(b, b.disk \union F)
    BY DEF BindInputs, Stepped, Mounted
  <1>3. /\ b \in Boxes /\ b.call = box.call /\ b.task = box.task /\ b.disk = box.disk
        /\ b.step \in {"verify", "own", "raise"}
    BY <1>1, StepType, AfterAnError
  <1>4. \A f \in F : f.kind \in TaskKinds /\ Of(f) = BoxTask /\ ~IsReceipt(f) /\ f.kind # "passed" /\ f \in Files
    BY <1>1, RecordsAreMine DEF IsReceipt
  <1>5. F \in SUBSET Files /\ (box' = b \/ box' = Mounted(b, box.disk \union F))
    BY <1>2, <1>3, <1>4
  <1>6. Fault \/ UNCHANGED faults
    BY DEF BindInputs
  <1>7. Works(F) /\ box'.step = b.step
    BY <1>1, <1>3, <1>5, <1>6, StepWorks
  <1>8. QED
    BY <1>1, <1>3, <1>4, <1>7, WorkPreserves

LEMMA ServerPreserves ==
  ASSUME SmokeInv, StartServer \/ RunServer
  PROVE  SmokeInv' /\ Gains
  <1>1. /\ Typed /\ box # None /\ box.step \in {"verify", "serve"} /\ box \in Boxes
        /\ "serve" \in Steps /\ "publish" \in Steps
        /\ UNCHANGED <<hostVars, call, registry, volume>> /\ NoReceipts
        /\ TaskRecords(Owner) \subseteq volume
        /\ Fault \/ UNCHANGED faults
    BY BoxIsTyped DEF SmokeInv, StartServer, RunServer, Doing, Steps, ProgressInv
  <1>2. PICK b \in {Stepped(box, "serve"), Stepped(box, "publish"), Failing} : box' = b
    BY DEF StartServer, RunServer, Step, Stepped
  <1>3. /\ b \in Boxes /\ b.call = box.call /\ b.task = box.task /\ b.disk = box.disk
        /\ b.step \in {"serve", "publish", "own", "raise"}
    BY <1>1, StepType, AfterAnError
  <1>4. Works({}) /\ box'.step = b.step
    BY <1>1, <1>2, <1>3, StepWorks
  <1>5. /\ begun' = begun \/ begun' = begun \union {BoxTask}
        /\ box'.step \in {"serve", "publish"} => begun' # {}
    <2>1. CASE StartServer
      <3>1. CASE box' = Failing
        BY <1>1, <2>1, <3>1, AfterAnError DEF StartServer, BoxTask
      <3>2. CASE box' # Failing
        BY <2>1, <3>2 DEF StartServer, BoxTask
      <3>3. QED
        BY <3>1, <3>2
    <2>2. CASE RunServer
      BY <2>2 DEF RunServer, Doing, SmokeInv, ProgressInv
    <2>3. QED
      BY <2>1, <2>2
  <1>6. QED
    BY <1>1, <1>3, <1>4, <1>5, WorkPreserves

LEMMA PublishSuccessPreserves ==
  ASSUME SmokeInv, PublishSuccess
  PROVE  SmokeInv' /\ Gains
  <1> DEFINE F == {Mine("passed")}
  <1>1. /\ Typed /\ box # None /\ box.step = "publish" /\ box \in Boxes /\ "return" \in Steps
        /\ UNCHANGED <<hostVars, call, registry, begun>> /\ NoReceipts /\ "passed" \in TaskKinds
        /\ TaskRecords(Owner) \subseteq volume /\ begun # {}
        /\ Publish(<<Mine("passed")>>, Stepped(box, "return"), Raising, Raising)
    BY BoxIsTyped DEF SmokeInv, PublishSuccess, Doing, Steps, ProgressInv, TaskKinds, Stepped
  <1>2. CASE Waits
    BY <1>1, <1>2, SameAgain DEF Waits
  <1>3. ~Waits => Works(F) /\ ((box'.step = "return" /\ F \subseteq volume') \/ box'.step = "raise")
    BY <1>1, PublishMine, AfterAnError, RecordsAreMine
  <1>4. \A f \in F : f.kind \in TaskKinds /\ Of(f) = BoxTask /\ F = {f}
    BY <1>1, RecordsAreMine
  <1>5. ~Waits => TaskRecords(Owner) \subseteq volume' /\ begun' = begun
    BY <1>1, <1>3 DEF Works
  <1>6. QED
    BY <1>1, <1>2, <1>3, <1>4, <1>5, WorkPreserves

LEMMA PublishFailurePreserves ==
  ASSUME SmokeInv, PublishFailure
  PROVE  SmokeInv' /\ Gains
  <1> DEFINE F == {Mine("failed")}
  <1>1. /\ Typed /\ box # None /\ box.step = "receipt" /\ box \in Boxes
        /\ UNCHANGED <<hostVars, call, registry, begun>> /\ NoReceipts /\ "failed" \in TaskKinds
        /\ TaskRecords(Owner) \subseteq volume
        /\ Publish(<<Mine("failed")>>, Stepped(box, "raise"), Raising, Raising) /\ "raise" \in Steps
    BY BoxIsTyped DEF SmokeInv, PublishFailure, Doing, ProgressInv, TaskKinds, Raising, Stepped, Steps
  <1>2. CASE Waits
    BY <1>1, <1>2, SameAgain DEF Waits
  <1>3. ~Waits => Works(F) /\ box'.step = "raise"
    BY <1>1, PublishMine, AfterAnError, RecordsAreMine
  <1>4. \A f \in F : f.kind \in TaskKinds /\ Of(f) = BoxTask /\ F = {f} /\ f.kind # "passed"
    BY <1>1, RecordsAreMine
  <1>5. QED
    BY <1>1, <1>2, <1>3, <1>4, WorkPreserves

-----------------------------------------------------------------------------
\* The container before the claim, and its end.

\* A step up to the claim: the mount is as it was, or that of a reload.
LEMMA ApproachPreserves ==
  ASSUME SmokeInv, box # None, box.step \in {"load", "wait", "claim"},
         box' \in Boxes, box'.call = box.call, box'.task = box.task,
         box'.disk = box.disk \/ box'.disk = volume,
         UNCHANGED <<hostVars, call, volume, begun, faults>>,
         \/ UNCHANGED registry /\ box'.step = "wait" /\ Intent(box.call) \in volume
         \/ UNCHANGED registry /\ box'.step = "claim"
            /\ {Intent(box.call), Acceptance(box.call)} \subseteq volume
         \/ Claims /\ ~registry.present /\ box'.step = "own"
            /\ {Intent(box.call), Acceptance(box.call)} \subseteq volume
  PROVE  SmokeInv'
  <1>1. /\ Typed /\ HostInv /\ CallInv /\ RecordInv /\ ProgressInv /\ ReceiptInv
        /\ BoxTask \in Hosts \X Tasks /\ BoxTask # Nobody /\ BoxTask' = BoxTask
        /\ UNCHANGED <<versions, manager, local>> /\ Known' \subseteq Known /\ volume \subseteq Known
    BY BoxIsTyped, SmokeAssumption DEF SmokeInv, BoxTask, Nobody, Known, hostVars
  <1>2. Typed'
    <2>1. registry' \in [owner : (Hosts \X Tasks) \union {Nobody}, present : BOOLEAN]
      <3>1. registry \in [owner : (Hosts \X Tasks) \union {Nobody}, present : BOOLEAN]
        BY <1>1 DEF Typed, Nobody
      <3>2. CASE Claims
        BY <1>1, <3>2 DEF Claims
      <3>3. QED
        BY <3>1, <3>2
    <2>2. QED
      BY <1>1, <2>1 DEF Typed, Boxes, Nobody
  <1>3. HostInv'
    BY <1>1 DEF HostInv
  <1>4. \A f \in box'.disk : f \in volume \/ Of(f) = BoxTask
    BY <1>1 DEF RecordInv
  <1>5. CASE UNCHANGED registry
    <2>1. Owner' = Owner
      BY <1>5 DEF Owner
    <2>2. CallInv' /\ RecordInv' /\ ReceiptInv'
      BY <1>1, <1>4, <1>5, <2>1 DEF CallInv, RecordInv, ReceiptInv
    <2>3. ProgressInv'
      BY <1>5 DEF ProgressInv, Claims
    <2>4. QED
      BY <1>2, <1>3, <2>2, <2>3 DEF SmokeInv
  <1>6. CASE Claims /\ ~registry.present
    <2>1. /\ Owner' = BoxTask /\ registry'.present /\ BoxTask[1] = box.call
          /\ begun = {} /\ \A f \in Known : f.kind \notin TaskKinds /\ ~IsReceipt(f)
      BY <1>1, <1>6, FreeIsFirst DEF Claims, Owner, BoxTask
    <2>2. CallInv'
      BY <1>1, <2>1 DEF CallInv
    <2>3. {Intent(box.call), Acceptance(box.call)} \subseteq volume
      BY <1>1, <1>6, FreeIsFirst DEF Owner, Claims
    <2>4. RecordInv'
      BY <1>1, <1>4, <2>1, <2>3 DEF RecordInv
    <2>5. ReceiptInv'
      BY <1>1, <2>1 DEF ReceiptInv, TaskKinds
    <2>6. NoReceipts'
      BY <1>1, <2>1 DEF NoReceipts
    <2>7. box'.step = "own"
      BY <1>1, <1>6, FreeIsFirst DEF Owner, Claims
    <2>8. ProgressInv'
      BY <1>1, <2>1, <2>3, <2>6, <2>7 DEF ProgressInv
    <2>9. QED
      BY <1>2, <1>3, <2>2, <2>4, <2>5, <2>8 DEF SmokeInv
  <1>7. QED
    BY <1>5, <1>6

LEMMA EndsWell ==
  ASSUME SmokeInv, box # None, NEW status \in {"failed", "queued", "returned"}, EndBox(status),
         status = "returned" => Mine("passed") \in volume,
         UNCHANGED <<hostVars, begun>>, Fault \/ UNCHANGED faults,
         UNCHANGED registry \/ (Claims /\ ~registry.present /\ box.step = "claim")
  PROVE  SmokeInv' /\ Gains
  <1>1. Typed'
    BY EndType DEF SmokeInv
  <1>2. Rest'
    BY EndPreserves
  <1>3. Gains
    BY DEF EndBox, SmokeInv, RecordInv, Gains
  <1>4. QED
    BY <1>1, <1>2, <1>3 DEF SmokeInv, Rest

LEMMA EarlyStepsPreserve ==
  ASSUME SmokeInv, LoadInputs \/ WaitForAcceptance \/ ClaimAttempt
  PROVE  SmokeInv' /\ Gains
  <1>1. /\ Typed /\ box # None /\ box \in Boxes /\ ProgressInv /\ volume \subseteq Files
        /\ box.step \in {"load", "wait", "claim"} /\ UNCHANGED <<hostVars, begun>>
        /\ "wait" \in Steps /\ "claim" \in Steps /\ "own" \in Steps
    BY BoxIsTyped DEF SmokeInv, LoadInputs, WaitForAcceptance, ClaimAttempt, Doing, Typed, Steps
  <1>2. ASSUME EndBox("failed"), Fault \/ UNCHANGED faults,
               UNCHANGED registry \/ (Claims /\ ~registry.present /\ box.step = "claim")
        PROVE  SmokeInv' /\ Gains
    BY <1>1, <1>2, EndsWell
  <1>3. CASE LoadInputs
    <2>1. CASE CallFails
      BY <1>2, <1>3, <2>1 DEF LoadInputs, CallFails
    <2>2. CASE ~CallFails
      <3>1. /\ Intent(box.call) \in volume /\ box' = Stepped(box, "wait")
            /\ UNCHANGED <<call, volume, faults, registry>>
        BY <1>1, <1>3, <2>2 DEF LoadInputs, Step, Stepped, Doing, ProgressInv
      <3>2. QED
        BY <1>1, <3>1, StepType, ApproachPreserves DEF Gains
    <2>3. QED
      BY <2>1, <2>2
  <1>4. CASE WaitForAcceptance
    <2>1. CASE CallFails
      BY <1>2, <1>4, <2>1 DEF WaitForAcceptance, CallFails
    <2>2. CASE ~CallFails
      <3>1. /\ {Intent(box.call), Acceptance(box.call)} \subseteq volume
            /\ box' = Mounted(Stepped(box, "claim"), volume)
            /\ UNCHANGED <<call, volume, faults, registry>>
        BY <1>1, <1>4, <2>2 DEF WaitForAcceptance, Doing, Mounted, Stepped, ProgressInv
      <3>2. /\ box' \in Boxes /\ box'.call = box.call /\ box'.task = box.task
            /\ box'.disk = volume /\ box'.step = "claim"
        BY <1>1, <3>1, StepType, MountType, SMTT(60)
      <3>3. QED
        BY <1>1, <3>1, <3>2, ApproachPreserves DEF Gains
    <2>3. QED
      BY <2>1, <2>2
  <1>5. CASE ClaimAttempt
    <2>1. UNCHANGED registry \/ (Claims /\ ~registry.present /\ box.step = "claim")
      BY <1>5 DEF ClaimAttempt, Claims, BoxTask, Doing
    <2>2. CASE CallFails
      BY <1>2, <1>5, <2>1, <2>2 DEF ClaimAttempt, CallFails
    <2>3. CASE ~CallFails
      <3>1. /\ {Intent(box.call), Acceptance(box.call)} \subseteq volume
            /\ Claims /\ ~registry.present /\ box' = Stepped(box, "own")
            /\ UNCHANGED <<call, volume, faults>>
        BY <1>1, <1>5, <2>3 DEF ClaimAttempt, Doing, Step, Stepped, ProgressInv, Claims, BoxTask
      <3>2. QED
        BY <1>1, <3>1, StepType, ApproachPreserves DEF Gains
    <2>4. QED
      BY <2>2, <2>3
  <1>6. QED
    BY <1>3, <1>4, <1>5

LEMMA LeavePreserves ==
  ASSUME SmokeInv, Leave
  PROVE  SmokeInv' /\ Gains
  <1>1. /\ box # None /\ UNCHANGED <<hostVars, registry, begun, faults>>
        /\ \/ EndBox("failed")
           \/ EndBox("returned") /\ Mine("passed") \in volume
    BY DEF Leave, Doing, CallFails, SmokeInv, ProgressInv
  <1>2. QED
    BY <1>1, EndsWell

LEMMA SmokeStep ==
  ASSUME SmokeInv, [Next]_vars
  PROVE  SmokeInv' /\ Gains
  <1>1. CASE UNCHANGED vars
    BY <1>1 DEF SmokeInv, Typed, HostInv, CallInv, RecordInv, ProgressInv, ReceiptInv, Known, NoReceipts,
                Owner, BoxTask, Mine, vars, hostVars, Gains
  <1>2. ASSUME NEW h \in Hosts, Manager(h) PROVE SmokeInv' /\ Gains
    <2>1. Typed' /\ Rest' /\ Gains
      BY <1>2, ManagerType, ManagerPreserves DEF SmokeInv
    <2>2. QED
      BY <2>1 DEF SmokeInv, Rest
  <1>3. ASSUME (\E h \in Hosts : StartContainer(h) \/ CancelQueued(h))
                 \/ ContainerDies \/ BackgroundCommit \/ ForgetClaim \/ Redeploy
        PROVE  SmokeInv' /\ Gains
    <2>1. Typed' /\ Rest' /\ Gains
      BY <1>3, ProviderType, ProviderPreserves DEF SmokeInv
    <2>2. QED
      BY <2>1 DEF SmokeInv, Rest
  <1>4. CASE Container
    BY <1>4, EarlyStepsPreserve, RecordClaimPreserves, RecordLedgerPreserves, BindInputsPreserves,
       ServerPreserves, PublishSuccessPreserves, PublishFailurePreserves, LeavePreserves DEF Container
  <1>5. QED
    BY <1>1, <1>2, <1>3, <1>4 DEF Next

LEMMA SmokeInvariant == Spec => []SmokeInv
  BY SmokeStep, SmokeInit, PTL DEF Spec

\* The temporaries stay where they may be.
LEMMA SweptPlaces ==
  ASSUME NEW found \in SUBSET Places
  PROVE  Swept(found) \in SUBSET Places /\ Reread(found) \in SUBSET Places
  BY DEF Swept, Reread, Places

LEMMA PublishPlaces ==
  ASSUME temporaries \in SUBSET Places, NEW files, NEW done, NEW ordinary, NEW unknown,
         Publish(files, done, ordinary, unknown)
  PROVE  temporaries' \in SUBSET Places
  <1>1. /\ Renamed \in SUBSET Places /\ Swept(Renamed) \in SUBSET Places
        /\ Reread(Renamed) \in SUBSET Places /\ Reread(Swept(Renamed)) \in SUBSET Places
        /\ \A left \in Dropped : left \in SUBSET Places
    BY SweptPlaces DEF Renamed, Dropped, Places
  <1>2. \A F : \A view \in Reconciled(F) : view[3] \in SUBSET Places
    BY <1>1 DEF Reconciled
  <1>3. \A F : \A left \in Again(F) : left \in SUBSET Places
    BY DEF Again, Places
  <1>4. \A F : \A view \in Unreconciled(F) : view[3] \in SUBSET Places
    BY <1>1, <1>2, <1>3 DEF Unreconciled
  <1>5. CASE \E F : \E view \in Reconciled(F) : temporaries' = view[3]
    BY <1>2, <1>5
  <1>6. CASE \E F : \E view \in Unreconciled(F) : temporaries' = view[3]
    BY <1>4, <1>6
  <1>7. CASE temporaries' \in {temporaries \union {"own"}, temporaries \union {"mounted"},
                              Reread(Swept(Renamed)), Renamed} \union Dropped
    BY <1>1, <1>7 DEF Places
  <1>8. QED
    BY <1>5, <1>6, <1>7 DEF Publish

LEMMA PlacesStay == Placed /\ [Next]_vars => Placed'
  <1> SUFFICES ASSUME temporaries \in SUBSET Places, [Next]_vars
               PROVE  temporaries' \in SUBSET Places
    BY DEF Placed
  <1>1. Swept(temporaries) \in SUBSET Places /\ Reread(temporaries) \in SUBSET Places
    BY SweptPlaces
  <1>2. \A status : EndBox(status) => temporaries' \in SUBSET Places
    BY <1>1 DEF EndBox
  <1>3. CASE \E h \in Hosts : Manager(h)
    BY <1>3 DEF Manager, BeginLaunch, WriteIntent, Authorize, Recheck, Spawn, Accept, Cancel,
                WriteCallReceipt, ManagerDies
  <1>4. CASE (\E h \in Hosts : StartContainer(h) \/ CancelQueued(h))
               \/ ContainerDies \/ BackgroundCommit \/ ForgetClaim \/ Redeploy
    BY <1>1, <1>2, <1>4 DEF StartContainer, CancelQueued, ContainerDies, BackgroundCommit, ForgetClaim, Redeploy
  <1>5. CASE LoadInputs \/ WaitForAcceptance \/ ClaimAttempt \/ Leave
    BY <1>1, <1>2, <1>5 DEF LoadInputs, WaitForAcceptance, ClaimAttempt, Leave, CallFails
  <1>6. CASE RecordClaim \/ RecordLedger \/ PublishSuccess \/ PublishFailure
    BY <1>6, PublishPlaces DEF RecordClaim, RecordLedger, PublishSuccess, PublishFailure
  <1>7. CASE BindInputs \/ StartServer \/ RunServer
    BY <1>7 DEF BindInputs, StartServer, RunServer
  <1>8. CASE UNCHANGED vars
    BY <1>8 DEF vars
  <1>9. QED
    BY <1>3, <1>4, <1>5, <1>6, <1>7, <1>8 DEF Next, Container

\* Managers, calls, containers, volume and temporaries keep their shape
\* (scripts/manage_inkling_smoke_modal.py, scripts/smoke_inkling_modal.py).
THEOREM SmokeTypeCorrect == Spec => []TypeOK
  <1>1. Init => Placed
    BY DEF Init, Placed
  <1>2. SmokeInv /\ Placed => TypeOK
    BY DEF SmokeInv, Typed, TypeOK, Placed, Places
  <1>3. QED
    BY <1>1, <1>2, PlacesStay, SmokeInvariant, PTL DEF Spec

\* However many hosts launch, managers die and containers are started again,
\* and also when Modal has forgotten the claim: one task starts a server, and its
\* attempt is on record before it does (_require_fresh_attempt,
\* _begin_only_attempt, _complete_owned_attempt_records).
THEOREM AttemptIsPaidOnce == Spec => []PaidOnce
  <1>1. ASSUME SmokeInv PROVE PaidOnce
    <2> SUFFICES ASSUME NEW p \in begun
                 PROVE  /\ begun = {p} /\ Owner = p
                        /\ {Intent(p[1]), Acceptance(p[1])} \subseteq volume
                        /\ TaskRecords(p) \subseteq volume
      BY DEF PaidOnce, Owner, TaskRecords
    <2>1. QED
      BY <1>1 DEF SmokeInv, ReceiptInv, RecordInv
  <1>2. SmokeInv => PaidOnce
    BY <1>1
  <1>3. QED
    BY <1>2, SmokeInvariant, PTL

-----------------------------------------------------------------------------
\* The attempt is a one-shot attempt.

Outcome(r) == <<r.call, IF r.kind = "passed" THEN "success" ELSE "failure">>
Outcomes == {Outcome(r) : r \in Receipts}

\* The owner changes once, when nothing has happened, and the server is begun by
\* the owner, when there is no receipt.
LEMMA AttemptSteps ==
  ASSUME SmokeInv, [Next]_vars
  PROVE  \/ Owner' = Owner /\ begun' = begun
         \/ /\ Owner' = Owner /\ Owner # Nobody /\ UNCHANGED volume
            /\ \A f \in volume : ~IsReceipt(f)
            /\ begun' = begun \union {Owner}
         \/ /\ Owner = Nobody /\ begun' = begun /\ Owner'[1] \in Hosts
            /\ \A f \in volume \union volume' : ~IsReceipt(f)
  <1>1. CASE StartServer
    <2>1. UNCHANGED <<registry, volume>> /\ box # None /\ box.step = "verify"
          /\ begun' \in {begun, begun \union {BoxTask}}
      BY <1>1 DEF StartServer, Doing, BoxTask
    <2>2. Owner = BoxTask /\ BoxTask # Nobody /\ \A f \in volume : ~IsReceipt(f)
      BY <2>1, BoxIsTyped, SmokeAssumption
         DEF SmokeInv, ProgressInv, NoReceipts, Known, BoxTask, Nobody
    <2>3. QED
      BY <2>1, <2>2 DEF Owner
  <1>2. CASE ClaimAttempt
    <2>1. UNCHANGED registry \/ (Claims /\ ~registry.present)
      BY <1>2 DEF ClaimAttempt, Claims, BoxTask
    <2>2. /\ box # None /\ UNCHANGED begun /\ volume' \subseteq Known /\ volume \subseteq Known
      BY <1>2 DEF ClaimAttempt, Doing, CallFails, EndBox, Known
    <2>3. ASSUME Claims, ~registry.present
          PROVE  /\ Owner = Nobody /\ Owner'[1] \in Hosts
                 /\ \A f \in volume \union volume' : ~IsReceipt(f)
      BY <2>2, <2>3, FreeIsFirst, BoxIsTyped DEF Claims, Owner, BoxTask, SmokeInv
    <2>4. QED
      BY <2>1, <2>2, <2>3 DEF Owner
  <1>3. CASE ~StartServer /\ ~ClaimAttempt
    <2>1. registry'.owner = registry.owner /\ begun' = begun
      <3>1. CASE UNCHANGED vars
        BY <3>1 DEF vars
      <3>2. CASE \E h \in Hosts : Manager(h)
        BY <3>2, ManagerEffects DEF SmokeInv, ManagerEffect
      <3>3. CASE ForgetClaim
        BY <3>3 DEF ForgetClaim, SmokeInv, Typed
      <3>4. CASE (\E h \in Hosts : StartContainer(h) \/ CancelQueued(h))
                   \/ ContainerDies \/ BackgroundCommit \/ Redeploy
        BY <3>4 DEF StartContainer, CancelQueued, ContainerDies, BackgroundCommit, Redeploy
      <3>5. CASE Container
        BY <1>3, <3>5 DEF Container, LoadInputs, WaitForAcceptance, RecordClaim, RecordLedger, BindInputs,
                          RunServer, PublishSuccess, PublishFailure, Leave
      <3>6. QED
        BY <3>1, <3>2, <3>3, <3>4, <3>5 DEF Next
    <2>2. QED
      BY <2>1 DEF Owner
  <1>4. QED
    BY <1>1, <1>2, <1>3

\* All receipts say the same of the owner.
SingleOutcome ==
  /\ \A r \in Receipts :
       /\ Owner # Nobody
       /\ \/ Outcome(r) = <<Owner[1], "success">> /\ begun # {}
          \/ Outcome(r) = <<Owner[1], "failure">>
  /\ \A r \in Receipts, q \in Receipts : Outcome(r) = Outcome(q)

LEMMA OneOutcome == SmokeInv => SingleOutcome
  <1> SUFFICES ASSUME SmokeInv PROVE SingleOutcome
    OBVIOUS
  <1>1. \A r \in Receipts : r \in Known /\ IsReceipt(r) /\ r.kind \in TaskKinds
    BY DEF Receipts, OfKinds, Known, IsReceipt, TaskKinds
  <1>2. \A r \in Receipts : Of(r) = Owner /\ r.call = Owner[1]
    BY <1>1 DEF SmokeInv, RecordInv, Of
  <1>3. \A r \in Receipts : Owner # Nobody
    BY <1>1, <1>2, OwnerTypes DEF SmokeInv
  <1>4. \A r \in Receipts : r.kind = "passed" => begun # {} /\ \A q \in Receipts : q.kind = "passed"
    BY <1>1 DEF SmokeInv, ReceiptInv, IsReceipt
  <1>5. QED
    BY <1>2, <1>3, <1>4 DEF Outcome, SingleOutcome

LEMMA OneShotStep ==
  ASSUME SmokeInv, SmokeInv', SingleOutcome, SingleOutcome', [Next]_vars
  PROVE  [OneShot!AttemptNext]_(OneShot!attemptVars)
  <1>1. Receipts \subseteq Receipts'
    BY SmokeStep DEF Gains, Receipts, OfKinds
  <1>2. \A f \in volume : ~IsReceipt(f) => f \notin Receipts
    BY DEF Receipts, OfKinds, IsReceipt
  <1>3. Receipts \subseteq volume /\ Receipts' \subseteq volume'
        /\ \A f : f \in Receipts \/ f \in Receipts' => IsReceipt(f)
    BY DEF Receipts, OfKinds, IsReceipt
  <1>4. begun \subseteq {Owner} /\ begun' \subseteq {Owner'}
    BY DEF SmokeInv, ReceiptInv
  <1>5. Owner # Nobody => /\ Owner[1] \in Hosts /\ Owner[2] \in Tasks /\ Owner[1] # None
                          /\ Owner = <<Owner[1], Owner[2]>>
    BY OwnerTypes, SmokeAssumption DEF SmokeInv
  <1>6. /\ \A o \in {"success", "failure"} :
             /\ Owner[1] # None /\ Outcomes = {} /\ (o = "success" => begun # {})
             /\ Outcomes' = {<<Owner[1], o>>} /\ Owner' = Owner /\ begun' = begun
             => OneShot!AttemptNext
        /\ \A t \in Tasks :
             /\ Owner[1] # None /\ Outcomes = {} /\ begun = {}
             /\ Outcomes' = {} /\ Owner' = Owner /\ begun' = {<<Owner[1], t>>}
             => OneShot!AttemptNext
        /\ Owner[1] = None /\ Owner'[1] \in Hosts /\ begun' = begun /\ Outcomes' = Outcomes
             => OneShot!AttemptNext
        /\ Owner' = Owner /\ begun' = begun /\ Outcomes' = Outcomes => UNCHANGED OneShot!attemptVars
    BY DEF OneShot!AttemptNext, OneShot!ClaimFor, OneShot!Begin, OneShot!Conclude, OneShot!attemptVars,
           Outcomes, Outcome, Owner
  <1>7. CASE Owner' = Owner /\ begun' = begun
    <2>1. CASE Receipts # {}
      <3>1. PICK r \in Receipts : TRUE
        BY <2>1
      <3>2. \A q \in Receipts : Outcome(q) = Outcome(r)
        BY <3>1 DEF SingleOutcome
      <3>3. \A q \in Receipts' : Outcome(q) = Outcome(r)
        BY <1>1, <3>1 DEF SingleOutcome
      <3>4. Outcomes = {Outcome(r)} /\ Outcomes' = {Outcome(r)}
        BY <1>1, <3>1, <3>2, <3>3 DEF Outcomes
      <3>5. QED
        BY <1>6, <1>7, <3>4
    <2>2. CASE Receipts = {} /\ Receipts' = {}
      BY <1>6, <1>7, <2>2 DEF Outcomes
    <2>3. CASE Receipts = {} /\ Receipts' # {}
      <3>1. PICK r \in Receipts' : TRUE
        BY <2>3
      <3>2. \A q \in Receipts' : Outcome(q) = Outcome(r)
        BY <3>1 DEF SingleOutcome
      <3>3. Outcomes = {} /\ Outcomes' = {Outcome(r)}
        BY <2>3, <3>1, <3>2 DEF Outcomes
      <3>4. /\ Owner # Nobody
            /\ \/ Outcome(r) = <<Owner[1], "success">> /\ begun # {}
               \/ Outcome(r) = <<Owner[1], "failure">>
        BY <1>7, <3>1 DEF SingleOutcome
      <3>5. QED
        BY <1>5, <1>6, <1>7, <3>3, <3>4
    <2>4. QED
      BY <2>1, <2>2, <2>3
  <1>8. CASE /\ Owner' = Owner /\ Owner # Nobody /\ UNCHANGED volume
             /\ \A f \in volume : ~IsReceipt(f)
             /\ begun' = begun \union {Owner}
    <2>1. Outcomes = {} /\ Outcomes' = {}
      BY <1>3, <1>8 DEF Outcomes
    <2>2. CASE begun = {}
      BY <1>5, <1>6, <1>8, <2>1, <2>2
    <2>3. CASE begun = {Owner}
      BY <1>6, <1>8, <2>1, <2>3
    <2>4. QED
      BY <1>4, <2>2, <2>3
  <1>9. CASE /\ Owner = Nobody /\ begun' = begun /\ Owner'[1] \in Hosts
             /\ \A f \in volume \union volume' : ~IsReceipt(f)
    <2>1. Outcomes = {} /\ Outcomes' = {} /\ Owner[1] = None
      BY <1>3, <1>9 DEF Outcomes, Nobody
    <2>2. QED
      BY <1>6, <1>9, <2>1
  <1>10. QED
    BY <1>7, <1>8, <1>9, AttemptSteps

\* Everything the managers and containers do implements the abstract attempt:
\* one claim, one beginning of the paid work by its owner and before any outcome,
\* one outcome for good (smoke_test, _begin_only_attempt, _publish_success_receipt,
\* _publish_failure_receipt).
THEOREM SmokeImplementsOneShot == Spec => ImplementsOneShot
  <1>1. Init => OneShot!AttemptInit
    BY DEF Init, OneShot!AttemptInit, Receipts, OfKinds
  <1>2. SmokeInv /\ SmokeInv' /\ SingleOutcome /\ SingleOutcome' /\ [Next]_vars
        => [OneShot!AttemptNext]_(OneShot!attemptVars)
    BY OneShotStep
  <1>3. QED
    BY <1>1, <1>2, OneOutcome, SmokeInvariant, PTL DEF Spec, ImplementsOneShot, OneShot!AttemptSpec

-----------------------------------------------------------------------------
\* What status answers stays true.

Holds(kinds) == \E f \in volume : f.kind \in kinds
Bookkeeping == {"acceptance", "claim", "history", "ledger"}

\* What the volume says, since its records are always those of one task.
EvidenceHonest ==
  Recorded = IF Holds({"passed"}) THEN "passed"
             ELSE IF Holds({"failed"}) THEN "failed"
             ELSE IF Holds(Bookkeeping) THEN "attempt_consumed_without_terminal_receipt"
             ELSE "not_terminal"

LEMMA EvidenceIsHonest == SmokeInv => EvidenceHonest
  <1> SUFFICES ASSUME SmokeInv PROVE EvidenceHonest
    OBVIOUS
  <1>1. \A f \in volume : /\ f \in Known /\ f \in Files
                          /\ f.kind \in TaskKinds => Of(f) = Owner /\ Owner # Nobody
    BY OwnerTypes DEF SmokeInv, RecordInv
  <1>2. \A kind \in Kinds : OfKinds({kind}) = {f \in volume : f.kind = kind}
    BY DEF OfKinds
  <1>3. \A kinds : OfKinds(kinds) # {} <=> Holds(kinds)
    BY DEF OfKinds, Holds
  <1>4. ASSUME NEW r \in volume, IsReceipt(r)
        PROVE  Backed(r)
    <2>1. /\ Of(r) = Owner /\ r.call = Owner[1] /\ r.task = Owner[2] /\ Owner # Nobody
      BY <1>1, <1>4 DEF IsReceipt, TaskKinds, Of
    <2>2. Intent(r.call) \in volume /\ Acceptance(r.call) \in volume
      BY <2>1 DEF SmokeInv, RecordInv
    <2>3. TaskRecords(Owner) \subseteq volume
      BY <1>1, <1>4 DEF SmokeInv, ReceiptInv
    <2>4. /\ {File("claim", r.call, r.task), File("ledger", r.call, r.task)} \subseteq volume
          /\ File("history", r.call, r.task) \in volume
      BY <2>1, <2>3 DEF TaskRecords
    <2>5. OfKinds({"history"}) = {File("history", r.call, r.task)}
      <3>1. \A f \in volume : f.kind = "history" => f = File("history", r.call, r.task)
        <4>1. SUFFICES ASSUME NEW f \in volume, f.kind = "history"
                       PROVE  f = File("history", r.call, r.task)
          OBVIOUS
        <4>2. f.call = r.call /\ f.task = r.task
          BY <1>1, <2>1, <4>1 DEF Of, TaskKinds
        <4>3. QED
          BY <1>1, <4>1, <4>2 DEF Files, File
      <3>2. File("history", r.call, r.task).kind = "history"
        BY DEF File
      <3>3. QED
        BY <2>4, <3>1, <3>2 DEF OfKinds
    <2>6. registry.present => registry.owner = <<r.call, r.task>>
      BY <2>1 DEF Owner, Of
    <2>7. QED
      BY <2>2, <2>4, <2>5, <2>6 DEF Backed, AcceptanceValid, RecordsValid
  <1>5. FailuresBacked /\ \A r \in OfKinds({"passed"}) : Backed(r)
    BY <1>4 DEF FailuresBacked, OfKinds, IsReceipt
  <1>6. ~(Holds({"passed"}) /\ Holds({"failed"}))
    BY <1>1 DEF SmokeInv, ReceiptInv, Holds
  <1>7. ~(Cardinality(OfKinds({"history"})) > 1)
    <2>1. \A f \in OfKinds({"history"}), g \in OfKinds({"history"}) : f = g
      BY <1>1 DEF OfKinds, Of, TaskKinds, Files
    <2>2. CASE OfKinds({"history"}) = {}
      BY <2>2, FS_EmptySet
    <2>3. CASE OfKinds({"history"}) # {}
      <3>1. PICK f : OfKinds({"history"}) = {f}
        BY <2>1, <2>3
      <3>2. Cardinality({f}) = 1
        BY FS_Singleton, Zenon
      <3>3. QED
        BY <3>1, <3>2
    <2>4. QED
      BY <2>2, <2>3
  <1>8. ~\E f \in OfKinds({"claim"}) : <<f.call, f.task>> # registry.owner
    BY <1>1 DEF OfKinds, Of, Owner, TaskKinds
  <1>9. registry.present => OfKinds(Bookkeeping) # {}
    <2>1. registry.present => Acceptance(Owner[1]) \in volume /\ Owner[1] \in Hosts
      BY OwnerTypes DEF SmokeInv, CallInv, RecordInv
    <2>2. QED
      BY <2>1, KindsOfFiles DEF OfKinds, Bookkeeping
  <1>10. Bookkeeping = {"acceptance", "claim", "history", "ledger"}
    BY DEF Bookkeeping
  <1>11. CASE Holds({"passed"})
    <2>1. OfKinds({"passed"}) # {} /\ OfKinds({"failed"}) = {}
      BY <1>3, <1>6, <1>11
    <2>2. QED
      BY <1>5, <1>11, <2>1 DEF Recorded, EvidenceHonest
  <1>12. CASE ~Holds({"passed"})
    <2>1. OfKinds({"passed"}) = {} /\ (OfKinds({"failed"}) # {} <=> Holds({"failed"}))
          /\ (OfKinds({"acceptance", "claim", "history", "ledger"}) # {} <=> Holds(Bookkeeping))
      BY <1>3, <1>10, <1>12
    <2>2. QED
      BY <1>5, <1>7, <1>8, <1>9, <1>10, <1>12, <2>1 DEF Recorded, EvidenceHonest
  <1>13. QED
    BY <1>11, <1>12

\* A call that is over stays as it is, and so does the record of a call.
LEMMA OverStays ==
  ASSUME SmokeInv, [Next]_vars, NEW h \in Hosts
  PROVE  /\ call[h].status \in {"failed", "returned"} => call'[h].status = call[h].status
         /\ CallRecorded(h) => CallRecorded(h)'
  <1>1. /\ Typed /\ HostInv /\ CallInv /\ call \in [Hosts -> CallRecords]
        /\ local \in [Hosts -> {"none", "intent"} \union CallStatuses]
    BY DEF SmokeInv, Typed, CallRecords
  <1>2. ASSUME NEW g \in Hosts, Manager(g)
        PROVE  /\ call[h].status \in {"failed", "returned"} => call'[h].status = call[h].status
               /\ CallRecorded(h) => CallRecorded(h)'
    <2>1. ManagerEffect(g)
      BY <1>1, <1>2, ManagerEffects
    <2>2. call[h].status \in {"failed", "returned"} => call'[h].status = call[h].status
      BY <1>1, <2>1 DEF ManagerEffect, HostInv
    <2>3. CallRecorded(h) => local'[h] = local[h] \/ local'[h] \in CallStatuses
      <3>1. CASE h # g
        BY <2>1, <3>1 DEF ManagerEffect
      <3>2. CASE h = g
        <4>1. CallRecorded(h) => manager[h] \in {"idle", "dead"}
          BY <1>1 DEF HostInv, CallRecorded, CallStatuses
        <4>2. CallRecorded(h) => ~Manager(g)
          BY <3>2, <4>1 DEF Manager, BeginLaunch, WriteIntent, Authorize, Recheck, Spawn, Accept, Cancel,
                            WriteCallReceipt, ManagerDies, At, CallStatuses
        <4>3. QED
          BY <1>2, <4>2
      <3>3. QED
        BY <3>1, <3>2
    <2>4. QED
      BY <2>2, <2>3 DEF CallRecorded
  <1>3. ASSUME UNCHANGED local,
               \/ UNCHANGED call
               \/ \E g \in Hosts : /\ call[g].status \in {"queued", "running"}
                                   /\ \A i \in Hosts \ {g} : call'[i] = call[i]
        PROVE  /\ call[h].status \in {"failed", "returned"} => call'[h].status = call[h].status
               /\ CallRecorded(h) => CallRecorded(h)'
    BY <1>3 DEF CallRecorded
  <1>4. ASSUME box # None, NEW status, EndBox(status)
        PROVE  \E g \in Hosts : /\ call[g].status \in {"queued", "running"}
                                /\ \A i \in Hosts \ {g} : call'[i] = call[i]
    <2>1. box.call \in Hosts /\ call[box.call].status = "running"
      BY <1>1, <1>4, BoxIsTyped DEF CallInv
    <2>2. \A i \in Hosts \ {box.call} : call'[i] = call[i]
      BY <1>1, <1>4, <2>1 DEF EndBox
    <2>3. QED
      BY <2>1, <2>2
  <1>5. CASE UNCHANGED vars
    BY <1>3, <1>5 DEF vars, hostVars
  <1>6. CASE \E g \in Hosts : StartContainer(g) \/ CancelQueued(g)
    <2>1. PICK g \in Hosts : StartContainer(g) \/ CancelQueued(g)
      BY <1>6
    <2>2. call[g].status = "queued" /\ UNCHANGED local /\ \A i \in Hosts \ {g} : call'[i] = call[i]
      BY <1>1, <2>1 DEF StartContainer, CancelQueued, hostVars
    <2>3. QED
      BY <1>3, <2>2
  <1>7. CASE ContainerDies
    BY <1>3, <1>4, <1>7 DEF ContainerDies, hostVars
  <1>8. CASE BackgroundCommit \/ ForgetClaim \/ Redeploy
    BY <1>3, <1>8 DEF BackgroundCommit, ForgetClaim, Redeploy, hostVars
  <1>9. CASE Container
    <2>1. UNCHANGED local /\ box # None
      BY <1>9 DEF Container, LoadInputs, WaitForAcceptance, ClaimAttempt, RecordClaim, RecordLedger, BindInputs,
                  StartServer, RunServer, PublishSuccess, PublishFailure, Leave, hostVars, Doing
    <2>2. UNCHANGED call \/ EndBox("failed") \/ EndBox("returned")
      BY <1>9 DEF Container, LoadInputs, WaitForAcceptance, ClaimAttempt, RecordClaim, RecordLedger, BindInputs,
                  StartServer, RunServer, PublishSuccess, PublishFailure, Leave, CallFails
    <2>3. QED
      BY <1>3, <1>4, <2>1, <2>2
  <1>10. QED
    BY <1>2, <1>5, <1>6, <1>7, <1>8, <1>9 DEF Next

\* An answer that the attempt is over without an outcome.
LEMMA OverAnswers ==
  ASSUME NEW h \in Hosts, Status(h) \in Over
  PROVE  /\ versions = 1 /\ ~Littered /\ Recorded = "attempt_consumed_without_terminal_receipt"
         /\ CallRecorded(h) /\ call[h].status \in {"failed", "returned"}
         /\ Status(h) = <<Recorded, FunctionState(h)>>
  <1>1. PICK state \in {"failed_before_terminal_evidence", "returned_without_terminal_evidence"} :
          Status(h) = <<"attempt_consumed_without_terminal_receipt", state>>
    BY DEF Over
  <1>2. Status(h)[1] = "attempt_consumed_without_terminal_receipt" /\ Status(h)[2] = state
    BY <1>1
  <1>3. /\ versions # 1 => Status(h)[1] = "refused"
        /\ versions = 1 /\ Evidence \in {"passed", "failed", "refused"} => Status(h)[1] = Evidence
        /\ versions = 1 /\ Evidence \notin {"passed", "failed", "refused"} =>
             Status(h) = <<Evidence, FunctionState(h)>>
    BY DEF Status
  <1>4. versions = 1 /\ Status(h) = <<Evidence, FunctionState(h)>>
    BY <1>2, <1>3
  <1>5. Evidence = "attempt_consumed_without_terminal_receipt" /\ FunctionState(h) = state
    BY <1>2, <1>4
  <1>6. CallRecorded(h) /\ call[h].status \in {"failed", "returned"}
    BY <1>5 DEF FunctionState
  <1>7. ~Littered /\ Recorded = Evidence
    BY <1>5 DEF Evidence
  <1>8. QED
    BY <1>4, <1>5, <1>6, <1>7

LEMMA AnswerStep ==
  ASSUME SmokeInv, SmokeInv', EvidenceHonest, EvidenceHonest', [Next]_vars
  PROVE  /\ Recorded' \in Later[Recorded]
         /\ \A h \in Hosts :
              /\ call'[h].status = "returned" => Recorded' = "passed"
              /\ (registry.owner[1] = h /\ Status(h) \in Over) =>
                   \/ Status(h)' = Status(h)
                   \/ Status(h)' = <<"refused">> /\ (versions' # 1 \/ Littered')
  <1>1. \A kinds : Holds(kinds) => Holds(kinds)'
    BY SmokeStep DEF Gains, Holds
  <1>2. ~(Holds({"passed"}) /\ Holds({"failed"}))'
    <2>1. volume' \subseteq Known'
      BY DEF Known
    <2>2. QED
      BY <2>1 DEF SmokeInv, ReceiptInv, Holds
  <1>3. Recorded' \in Later[Recorded]
    BY <1>1, <1>2 DEF EvidenceHonest, Later
  <1>4. ASSUME NEW h \in Hosts, call'[h].status = "returned" PROVE Recorded' = "passed"
    BY <1>4 DEF SmokeInv, ReceiptInv, EvidenceHonest, Holds
  <1>5. ASSUME NEW h \in Hosts, Owner[1] = h, Status(h) \in Over
        PROVE  \/ Status(h)' = Status(h)
               \/ Status(h)' = <<"refused">> /\ (versions' # 1 \/ Littered')
    <2>1. /\ Recorded = "attempt_consumed_without_terminal_receipt"
          /\ CallRecorded(h) /\ call[h].status \in {"failed", "returned"}
          /\ Status(h) = <<Recorded, FunctionState(h)>>
      BY <1>5, OverAnswers
    <2>2. CallRecorded(h)' /\ call'[h].status = call[h].status
      BY <2>1, OverStays
    <2>3. FunctionState(h)' = FunctionState(h)
      BY <2>1, <2>2 DEF FunctionState
    <2>4. Owner' = Owner
      BY <1>5, AttemptSteps, SmokeAssumption DEF Nobody
    <2>5. \A f \in volume' : ~IsReceipt(f)
      <3>1. SUFFICES ASSUME NEW f \in volume', IsReceipt(f) PROVE FALSE
        OBVIOUS
      <3>2. Of(f) = Owner
        BY <2>4, <3>1 DEF SmokeInv, RecordInv, Known, IsReceipt, TaskKinds
      <3>3. f \notin volume
        BY <2>1, <3>1 DEF EvidenceHonest, Holds, IsReceipt
      <3>4. box # None /\ BoxTask = Owner
        BY <3>1, <3>2, <3>3, SmokeStep DEF Gains, IsReceipt, TaskKinds
      <3>5. box.call = h
        BY <1>5, <3>4 DEF BoxTask
      <3>6. QED
        BY <2>1, <3>4, <3>5 DEF SmokeInv, CallInv
    <2>6. Recorded' = Recorded
      <3>1. Holds(Bookkeeping)
        BY <2>1 DEF EvidenceHonest
      <3>2. ~Holds({"passed"})' /\ ~Holds({"failed"})'
        BY <2>5 DEF Holds, IsReceipt
      <3>3. QED
        BY <1>1, <2>1, <3>1, <3>2 DEF EvidenceHonest
    <2>7. CASE versions' # 1 \/ Littered'
      BY <2>7 DEF Status, Evidence
    <2>8. CASE ~(versions' # 1 \/ Littered')
      BY <2>1, <2>3, <2>6, <2>8 DEF Status, Evidence
    <2>9. QED
      BY <2>7, <2>8
  <1>6. QED
    BY <1>3, <1>4, <1>5 DEF Owner

\* On every host and after every fault: an outcome stays, a consumed attempt stays
\* consumed, one that status calls over without an outcome gets none, and a call
\* returns only behind a passed receipt; but a second deployment, or a temporary on
\* the volume as long as it is there, makes status refuse (_remote_status).
THEOREM SmokeAnswersStand == Spec => AnswerStands
  <1>1. SmokeInv /\ SmokeInv' /\ EvidenceHonest /\ EvidenceHonest' /\ [Next]_vars
        => [/\ Recorded' \in Later[Recorded]
            /\ \A h \in Hosts :
                 /\ call'[h].status = "returned" => Recorded' = "passed"
                 /\ (registry.owner[1] = h /\ Status(h) \in Over) =>
                      \/ Status(h)' = Status(h)
                      \/ Status(h)' = <<"refused">> /\ (versions' # 1 \/ Littered')]_vars
    BY AnswerStep
  <1>2. QED
    BY <1>1, EvidenceIsHonest, SmokeInvariant, PTL DEF Spec, AnswerStands
=============================================================================
