--------------------------- MODULE MeasurementProofs ---------------------------
(***************************************************************************)
(* Theorems about MeasurementAttempt, for both variants, any set of hosts  *)
(* and any number of container starts and faults.  The argument, in the    *)
(* order of the invariants:                                                *)
(*   - a manager launches once, and a host's records stay (HostInv);       *)
(*   - the claim in the registry is for good, nothing of the attempt is    *)
(*     written before it, and a container behind it is a task of the       *)
(*     claimed call, in the measurement the very task (OwnerInv, BoxInv);  *)
(*   - the paid work has one task, which is on record (PaidInv);           *)
(*   - where a container is tells what it has published (ProgressInv);     *)
(*   - hence what a receipt says is on the volume (ReceiptInv).            *)
(***************************************************************************)
EXTENDS MeasurementAttempt, FiniteSetTheorems, TLAPS

\* The records on the volume, and those that a commit may bring there.
Known == volume \union (IF box = None THEN {} ELSE box.dirty)
Owner == registry.call
Outcomes == {"success", "failure"}
NoReceipts == \A r \in Known : r.kind \notin Outcomes
NoLoads == \A r \in Known : r.kind # "load"

\* A host launches once: the call receipt is the last of the records.
LaunchesOnce(h) ==
  /\ manager[h] \in {"history", "build", "built", "seal"} => local[h]["deployment"] = "absent"
  /\ ~LaunchConsumed(h) => local[h]["receipt"] = "absent" /\ call[h].status = "none"
  /\ manager[h] \in {"validate", "unconsumed", "consume"} => ~LaunchConsumed(h)
  /\ manager[h] \in {"intent", "announce", "spawn"} => call[h].status = "none"
  /\ manager[h] \in {"intent", "announce", "spawn", "accept", "acceptance", "receipt", "cancel"} =>
       LaunchConsumed(h) /\ local[h]["receipt"] = "absent"
HostInv == \A h \in Hosts : LaunchesOnce(h)

CallInv == /\ box # None => call[box.call].status = "running"
           /\ orphans <= faults

Early == {"load", "wait", "claim"}

OwnerInv ==
  /\ registry = None => paid = {} /\ \A r \in Known : r.kind \in {"intent", "acceptance"}
  /\ registry # None => Acceptance(Owner) \in volume
  /\ \A r \in Known : r.kind = "claim" => r = registry
  /\ \A r \in Known : r.kind \in Outcomes \union {"load"} => r.call = Owner

BoxInv ==
  box # None =>
    /\ box.step \notin {"load", "wait"} => Acceptance(box.call) \in volume
    /\ box.step \notin Early => /\ registry # None /\ Owner = box.call
                                /\ variant = "measurement" => registry = Me
    /\ box.step \notin {"failing", "raise"} => box.dirty = {}

PaidInv ==
  /\ \A p \in paid :
       /\ paid = {p} /\ registry # None /\ Owner = p[1] /\ registry \in volume
       /\ variant = "measurement" => p = <<Owner, registry.task>>
       /\ variant = "diagnostic" => ServerLoad(p[1], p[2]) \in volume
  /\ \A l, m \in OfKind(Known, "load") : l = m
  /\ variant = "measurement" => NoLoads

\* The steps in which a container has no receipt yet, and nobody else has one.
Working == {"work", "serve", "conclude", "terminal", "failing"}

MeasurementProgress ==
  /\ box.step \notin {"unused", "serve"}
  /\ box.step \in Working =>
       /\ paid # {}
       /\ \A s \in SubjectsDone(box.done) : Supporting(box.call, s) \in volume
  /\ box.step = "work" => box.held = SubjectsDone(box.done)
  /\ box.step \in {"conclude", "terminal"} =>
       /\ box.done = 10 /\ box.held = {"bf16", "q3", "comparison"}
       /\ Supporting(box.call, "comparison") \in volume

DiagnosticProgress ==
  box.step \in Working =>
    /\ box.held \subseteq {"load", "raw"}
    /\ "load" \in box.held => /\ box.done >= 3 /\ ServerLoad(box.call, box.task) \in volume
                              /\ box.done = 3 => box.step \in {"serve", "failing"}
    /\ "load" \notin box.held => /\ box.done <= 3
                                 /\ NoLoads \/ (box.done = 3 /\ box.step = "failing")
    /\ "raw" \in box.held => "load" \in box.held /\ Supporting(box.call, "raw") \in volume
    /\ box.step = "serve" => box.done = 3 /\ box.held = {"load"} /\ paid = {}
    /\ box.done >= 4 => paid # {}
    /\ box.step \in {"conclude", "terminal"} => box.done = 6 /\ box.held = {"load", "raw"}

ProgressInv ==
  box # None =>
    /\ box.step \in Working => registry \in volume /\ NoReceipts /\ box.done < Last(variant)
    /\ box.step = "unused" => registry \in volume
    /\ variant = "measurement" /\ box.step = "durable" => paid = {} /\ NoReceipts
    /\ box.step \in Early \union {"durable", "unused"} => box.done = 0 /\ box.held = {}
    /\ variant = "measurement" => MeasurementProgress
    /\ variant = "diagnostic" => DiagnosticProgress

\* One receipt, bound to what is on the volume, and no server load beside that.
ReceiptInv ==
  \A r \in Known : r.kind \in Outcomes =>
    /\ \A q \in Known : q.kind \in Outcomes => q = r
    /\ registry # None /\ registry \in volume
    /\ ReceiptBound(variant, Owner, r, volume)
    /\ OfKind(Known, "load") = OfKind(volume, "load")
    /\ r.kind = "success" => paid # {}

MeasurementInv ==
  TypeOK /\ HostInv /\ CallInv /\ OwnerInv /\ BoxInv /\ PaidInv /\ ProgressInv /\ ReceiptInv

-----------------------------------------------------------------------------
(* The records. *)

RecordKinds == {"intent", "acceptance", "claim", "load", "supporting", "success", "failure"}

LEMMA MadeRecords ==
  /\ \A h \in Hosts : /\ Intent(h) \in Records /\ Intent(h).kind = "intent"
                      /\ Acceptance(h) \in Records /\ Acceptance(h).kind = "acceptance"
  /\ \A h \in Hosts, t \in Tasks :
       /\ Claim(h, t) \in Records /\ Claim(h, t).kind = "claim" /\ Claim(h, t).call = h
       /\ Claim(h, t).task = t
       /\ ServerLoad(h, t) \in Records /\ ServerLoad(h, t).kind = "load" /\ ServerLoad(h, t).call = h
       /\ ServerLoad(h, t).task = t
  /\ \A h \in Hosts, what \in Kinds :
       Supporting(h, what) \in Records /\ Supporting(h, what).kind = "supporting"
  <1>1. \A h \in Hosts : Intent(h) \in Records /\ Acceptance(h) \in Records
    BY DEF Records
  <1>2. \A h \in Hosts, t \in Tasks : Claim(h, t) \in Records /\ ServerLoad(h, t) \in Records
    BY DEF Records
  <1>3. \A h \in Hosts, what \in Kinds : Supporting(h, what) \in Records
    BY DEF Records
  <1>4. QED
    BY <1>1, <1>2, <1>3 DEF Intent, Acceptance, Claim, ServerLoad, Supporting

LEMMA MadeReceipts ==
  ASSUME NEW o \in Outcomes, NEW h \in Hosts, NEW n \in 0 .. 11, NEW refers \in SUBSET Kinds,
         NEW load \in Tasks \union {None}
  PROVE  LET r == Receipt(o, h, n, refers, load)
         IN  /\ r \in Records /\ r.kind = o /\ r.call = h /\ r.done = n
             /\ r.refers = refers /\ r.load = load
  <1>1. Receipt(o, h, n, refers, load) \in Records
    BY DEF Records, Outcomes
  <1>2. QED
    BY <1>1 DEF Receipt

LEMMA RecordsAreOfKinds ==
  ASSUME NEW r \in Records
  PROVE  /\ r.kind \in RecordKinds
         /\ r.kind = "load" => \E h \in Hosts, t \in Tasks : r = ServerLoad(h, t)
  <1>1. CASE \E h \in Hosts : r = Intent(h) \/ r = Acceptance(h)
    BY <1>1 DEF RecordKinds, Intent, Acceptance
  <1>2. CASE \E h \in Hosts, t \in Tasks : r = Claim(h, t)
    BY <1>2 DEF RecordKinds, Claim
  <1>3. CASE \E h \in Hosts, t \in Tasks : r = ServerLoad(h, t)
    BY <1>3 DEF RecordKinds, ServerLoad
  <1>4. CASE \E h \in Hosts, what \in Kinds : r = Supporting(h, what)
    BY <1>4 DEF RecordKinds, Supporting
  <1>5. CASE \E o \in Outcomes, h \in Hosts, n \in 0 .. 11, x \in SUBSET Kinds,
                l \in Tasks \union {None} : r = Receipt(o, h, n, x, l)
    <2>1. PICK o \in Outcomes, h \in Hosts, n \in 0 .. 11, x \in SUBSET Kinds,
               l \in Tasks \union {None} : r = Receipt(o, h, n, x, l)
      BY <1>5
    <2>2. r.kind = o
      BY <2>1, MadeReceipts
    <2>3. QED
      BY <2>2 DEF RecordKinds, Outcomes
  <1>6. QED
    BY <1>1, <1>2, <1>3, <1>4, <1>5 DEF Records, Outcomes

-----------------------------------------------------------------------------
(* What a container's step does, in terms of the container, the volume and  *)
(* the records.                                                             *)

With(b, step, done, held, dirty) ==
  [call |-> b.call, task |-> b.task, step |-> step, done |-> done, held |-> held, dirty |-> dirty]

LEMMA WithFacts ==
  ASSUME NEW b \in Boxes, NEW step \in Steps, NEW done \in 0 .. 11,
         NEW held \in SUBSET (Kinds \union {"load"}), NEW dirty \in SUBSET Records
  PROVE  LET w == With(b, step, done, held, dirty)
         IN  /\ w \in Boxes /\ w.call = b.call /\ w.task = b.task /\ w.step = step
             /\ w.done = done /\ w.held = held /\ w.dirty = dirty
  BY DEF Boxes, With

LEMMA Updates ==
  ASSUME NEW b \in Boxes
  PROVE  /\ \A s : [b EXCEPT !.step = s] = With(b, s, b.done, b.held, b.dirty)
         /\ \A d : [b EXCEPT !.dirty = d] = With(b, b.step, b.done, b.held, d)
         /\ \A s, d : [b EXCEPT !.step = s, !.dirty = d] = With(b, s, b.done, b.held, d)
         /\ \A s, x : [b EXCEPT !.step = s, !.held = x] = With(b, s, b.done, x, b.dirty)
         /\ Completed(b) = With(b, "work", b.done + 1, b.held, b.dirty)
         /\ \A x : [Completed(b) EXCEPT !.held = x] = With(b, "work", b.done + 1, x, b.dirty)
  <1>1. b = [call |-> b.call, task |-> b.task, step |-> b.step, done |-> b.done, held |-> b.held,
             dirty |-> b.dirty]
    BY DEF Boxes
  <1>2. \A s : [b EXCEPT !.step = s] = With(b, s, b.done, b.held, b.dirty)
    BY <1>1 DEF With
  <1>3. \A d : [b EXCEPT !.dirty = d] = With(b, b.step, b.done, b.held, d)
    BY <1>1 DEF With
  <1>4. ASSUME NEW s, NEW d
        PROVE  [b EXCEPT !.step = s, !.dirty = d] = With(b, s, b.done, b.held, d)
    <2>1. [With(b, s, b.done, b.held, b.dirty) EXCEPT !.dirty = d] = With(b, s, b.done, b.held, d)
      BY DEF With
    <2>2. QED
      BY <1>2, <2>1, Zenon
  <1>5. ASSUME NEW s, NEW x
        PROVE  [b EXCEPT !.step = s, !.held = x] = With(b, s, b.done, x, b.dirty)
    <2>1. [With(b, s, b.done, b.held, b.dirty) EXCEPT !.held = x] = With(b, s, b.done, x, b.dirty)
      BY DEF With
    <2>2. QED
      BY <1>2, <2>1, Zenon
  <1>6. Completed(b) = With(b, "work", b.done + 1, b.held, b.dirty)
    <2>1. [b EXCEPT !.done = b.done + 1] = With(b, b.step, b.done + 1, b.held, b.dirty)
      BY <1>1 DEF With
    <2>2. [With(b, b.step, b.done + 1, b.held, b.dirty) EXCEPT !.step = "work"]
            = With(b, "work", b.done + 1, b.held, b.dirty)
      BY DEF With
    <2>3. QED
      BY <2>1, <2>2, Zenon DEF Completed
  <1>7. \A x : [Completed(b) EXCEPT !.held = x] = With(b, "work", b.done + 1, x, b.dirty)
    <2>1. \A x : [With(b, "work", b.done + 1, b.held, b.dirty) EXCEPT !.held = x]
                   = With(b, "work", b.done + 1, x, b.dirty)
      BY DEF With
    <2>2. QED
      BY <1>6, <2>1, Zenon
  <1>8. QED
    BY <1>2, <1>3, <1>4, <1>5, <1>6, <1>7

\* The container is where the arguments say.
Moved(step, done, held) ==
  /\ box # None /\ box' # None /\ box \in Boxes /\ box' \in Boxes
  /\ box'.call = box.call /\ box'.task = box.task
  /\ box'.step = step /\ box'.done = done /\ box'.held = held

\* The volume and the container's uncommitted records stay; the record and all
\* of them are committed; or that is not known.
Kept == volume' = volume /\ box'.dirty = box.dirty
Committed(record) == box'.dirty = {} /\ volume' = volume \union box.dirty \union {record}
Unsure(record) ==
  \/ Committed(record)
  \/ volume' = volume /\ box'.dirty \in {box.dirty, box.dirty \union {record}}

LEMMA BoxIsTyped ==
  ASSUME TypeOK, box # None
  PROVE  box \in Boxes /\ box.call \in Hosts /\ box.task \in Tasks /\ box.done \in 0 .. 11
         /\ box.dirty \subseteq Records /\ box.held \subseteq Kinds \union {"load"} /\ box.step \in Steps
  BY DEF TypeOK, Boxes

-----------------------------------------------------------------------------
(* The shape of the variables, and what a manager's step leaves alone.      *)

LocalTables == [Hosts -> [LocalRecords -> {"absent", "torn", "whole"}]]
CallRecords == [status : Statuses, cancel : BOOLEAN, starts : 0 .. MaxStarts]

LEMMA FaultType ==
  ASSUME TypeOK, Fault \/ UNCHANGED faults
  PROVE  faults' \in 0 .. MaxFaults /\ faults <= faults' /\ (Fault => faults' = faults + 1)
  BY AttemptAssumption DEF TypeOK, Fault

LEMMA RecordLocal ==
  ASSUME TypeOK, NEW h \in Hosts, NEW what \in LocalRecords, Record(h, what)
  PROVE  /\ local' \in LocalTables /\ local'[h][what] = "whole"
         /\ \A g \in Hosts, r \in LocalRecords : g # h \/ r # what => local'[g][r] = local[g][r]
         /\ \A g \in Hosts \ {h} : local'[g] = local[g]
  <1>1. local \in LocalTables
    BY DEF TypeOK, LocalTables
  <1>2. local' = [local EXCEPT ![h] = [local[h] EXCEPT ![what] = "whole"]]
    BY DEF Record
  <1>3. [local[h] EXCEPT ![what] = "whole"] \in [LocalRecords -> {"absent", "torn", "whole"}]
    BY <1>1 DEF LocalTables
  <1>4. QED
    BY <1>1, <1>2, <1>3 DEF LocalTables

LEMMA TornLocal ==
  ASSUME TypeOK, NEW h \in Hosts, ManagerDies(h)
  PROVE  /\ local' \in LocalTables
         /\ \A g \in Hosts \ {h} : local'[g] = local[g]
         /\ \A r \in LocalRecords : \/ local'[h][r] = local[h][r]
                                    \/ r \in Writing(h) /\ local'[h][r] = "torn"
  <1>1. local \in LocalTables
    BY DEF TypeOK, LocalTables
  <1>2. PICK torn \in SUBSET Writing(h) :
          local' = [local EXCEPT ![h] = [r \in LocalRecords |-> IF r \in torn THEN "torn" ELSE local[h][r]]]
    BY DEF ManagerDies
  <1>3. [r \in LocalRecords |-> IF r \in torn THEN "torn" ELSE local[h][r]]
          \in [LocalRecords -> {"absent", "torn", "whole"}]
    BY <1>1 DEF LocalTables
  <1>4. QED
    BY <1>1, <1>2, <1>3 DEF LocalTables

LEMMA CallUpdates ==
  ASSUME NEW c \in CallRecords
  PROVE  /\ [c EXCEPT !.cancel = TRUE] \in CallRecords
         /\ [c EXCEPT !.cancel = TRUE].status = c.status
         /\ \A status \in Statuses :
              /\ [c EXCEPT !.status = status] \in CallRecords
              /\ [c EXCEPT !.status = status].status = status
  BY DEF CallRecords

\* The call of one host changes.
CallChanges(h, status) ==
  /\ call' \in [Hosts -> CallRecords] /\ call'[h].status = status
  /\ \A g \in Hosts \ {h} : call'[g] = call[g]

LEMMA StatusUpdate ==
  ASSUME TypeOK, NEW h \in Hosts, NEW status \in Statuses,
         call' = [call EXCEPT ![h].status = status]
  PROVE  CallChanges(h, status)
  <1>1. call \in [Hosts -> CallRecords]
    BY DEF TypeOK, CallRecords
  <1>2. call' = [call EXCEPT ![h] = [call[h] EXCEPT !.status = status]]
    OBVIOUS
  <1>3. [call[h] EXCEPT !.status = status] \in CallRecords
        /\ [call[h] EXCEPT !.status = status].status = status
    BY <1>1, CallUpdates
  <1>4. QED
    BY <1>1, <1>2, <1>3 DEF CallChanges

LEMMA CancelUpdate ==
  ASSUME TypeOK, NEW h \in Hosts, call' = [call EXCEPT ![h].cancel = TRUE]
  PROVE  CallChanges(h, call[h].status)
  <1>1. call \in [Hosts -> CallRecords]
    BY DEF TypeOK, CallRecords
  <1>2. call' = [call EXCEPT ![h] = [call[h] EXCEPT !.cancel = TRUE]]
    OBVIOUS
  <1>3. [call[h] EXCEPT !.cancel = TRUE] \in CallRecords
        /\ [call[h] EXCEPT !.cancel = TRUE].status = call[h].status
    BY <1>1, CallUpdates
  <1>4. QED
    BY <1>1, <1>2, <1>3 DEF CallChanges

\* What the manager on a host does to the rest of the system.
HostStep(h) ==
  /\ UNCHANGED <<variant, box, registry, paid>>
  /\ volume \subseteq volume' /\ volume' \subseteq volume \union {Intent(h), Acceptance(h)}
  /\ \A g \in Hosts \ {h} : manager'[g] = manager[g] /\ local'[g] = local[g] /\ call'[g] = call[g]
  /\ call'[h].status = call[h].status \/ (At(h, "spawn") /\ call'[h].status = "queued")

\* The shape of what a manager changes.
HostShape(h) ==
  /\ versions' \in Nat /\ orphans' \in 0 .. MaxFaults /\ orphans' <= faults'
  /\ local' \in LocalTables
  /\ manager' \in [Hosts -> Positions] /\ \A g \in Hosts \ {h} : manager'[g] = manager[g]
  /\ faults' \in 0 .. MaxFaults

LEMMA GoesTo ==
  ASSUME TypeOK, NEW h \in Hosts, NEW position \in Positions, Go(h, position)
  PROVE  /\ manager' \in [Hosts -> Positions] /\ manager'[h] = position
         /\ \A g \in Hosts \ {h} : manager'[g] = manager[g]
  BY DEF TypeOK, Go

LEMMA HostStepType ==
  ASSUME TypeOK, NEW h \in Hosts, HostStep(h), HostShape(h), call' \in [Hosts -> CallRecords]
  PROVE  TypeOK'
  <1>1. volume' \subseteq Records
    BY MadeRecords DEF TypeOK, HostStep
  <1>2. QED
    BY <1>1 DEF TypeOK, HostStep, HostShape, LocalTables, CallRecords

\* Deployment: only the app, the local record and the position change.
LEMMA DeployStep ==
  ASSUME TypeOK, CallInv, NEW h \in Hosts, UNCHANGED variant,
         BeginDeploy(h) \/ ReadHistory(h) \/ Build(h) \/ ReviewHistory(h) \/ Seal(h)
  PROVE  HostStep(h) /\ HostShape(h) /\ TypeOK'
  <1>1. /\ UNCHANGED <<remoteVars, orphans>> /\ versions' \in {versions, versions + 1}
        /\ Fault \/ UNCHANGED faults
        /\ Record(h, "deployment") \/ UNCHANGED local
        /\ \E position \in {"history", "build", "built", "seal", "idle"} : Go(h, position)
    BY DEF BeginDeploy, ReadHistory, Build, ReviewHistory, Seal, appVars, Go
  <1>2. local' \in LocalTables /\ \A g \in Hosts \ {h} : local'[g] = local[g]
    BY <1>1, RecordLocal DEF LocalRecords, TypeOK, LocalTables
  <1>3. manager' \in [Hosts -> Positions] /\ \A g \in Hosts \ {h} : manager'[g] = manager[g]
    BY <1>1, GoesTo DEF Positions
  <1>4. /\ versions' \in Nat /\ orphans' \in 0 .. MaxFaults /\ orphans' <= faults'
        /\ faults' \in 0 .. MaxFaults
    BY <1>1, FaultType, AttemptAssumption DEF TypeOK, CallInv
  <1>5. HostStep(h) /\ HostShape(h)
    BY <1>1, <1>2, <1>3, <1>4 DEF HostStep, HostShape, remoteVars
  <1>6. call' \in [Hosts -> CallRecords]
    BY <1>1 DEF TypeOK, CallRecords, remoteVars
  <1>7. QED
    BY <1>5, <1>6, HostStepType

\* A launch, up to the end of the manager's work.
LEMMA LaunchStep ==
  ASSUME TypeOK, CallInv, NEW h \in Hosts, UNCHANGED variant,
         \/ BeginLaunch(h) \/ ValidateDeployment(h) \/ CheckUnconsumed(h) \/ Consume(h)
         \/ WriteIntent(h) \/ WriteAcceptance(h) \/ WriteCallReceipt(h)
  PROVE  HostStep(h) /\ HostShape(h) /\ TypeOK'
  <1>1. /\ UNCHANGED <<remoteVars, orphans, versions>>
        /\ Fault \/ UNCHANGED faults
        /\ (\E r \in LocalRecords : Record(h, r)) \/ UNCHANGED local
        /\ \E position \in Positions : Go(h, position)
    BY DEF BeginLaunch, ValidateDeployment, CheckUnconsumed, Consume, WriteIntent, WriteAcceptance,
           WriteCallReceipt, WriteLocal, appVars, Positions, LocalRecords
  <1>2. local' \in LocalTables /\ \A g \in Hosts \ {h} : local'[g] = local[g]
    BY <1>1, RecordLocal DEF TypeOK, LocalTables
  <1>3. manager' \in [Hosts -> Positions] /\ \A g \in Hosts \ {h} : manager'[g] = manager[g]
    BY <1>1, GoesTo
  <1>4. /\ versions' \in Nat /\ orphans' \in 0 .. MaxFaults /\ orphans' <= faults'
        /\ faults' \in 0 .. MaxFaults
    BY <1>1, FaultType, AttemptAssumption DEF TypeOK, CallInv
  <1>5. HostStep(h) /\ HostShape(h)
    BY <1>1, <1>2, <1>3, <1>4 DEF HostStep, HostShape, remoteVars
  <1>6. call' \in [Hosts -> CallRecords]
    BY <1>1 DEF TypeOK, CallRecords, remoteVars
  <1>7. QED
    BY <1>5, <1>6, HostStepType

LEMMA RemoteStep ==
  ASSUME TypeOK, CallInv, NEW h \in Hosts, UNCHANGED variant,
         Announce(h) \/ Spawn(h) \/ Accept(h) \/ Cancel(h)
  PROVE  HostStep(h) /\ HostShape(h) /\ TypeOK'
  <1>1. /\ UNCHANGED <<orphans, versions, local, box, registry, paid>>
        /\ Fault \/ UNCHANGED faults
        /\ \E position \in Positions : Go(h, position)
        /\ volume \subseteq volume' /\ volume' \subseteq volume \union {Intent(h), Acceptance(h)}
    <2>1. CASE Announce(h) \/ Accept(h)
      BY <2>1 DEF Announce, Accept, Uploads, appVars, Positions
    <2>2. CASE Spawn(h) \/ Cancel(h)
      BY <2>2 DEF Spawn, Cancel, appVars, Positions
    <2>3. QED
      BY <2>1, <2>2
  <1>2. \/ CallChanges(h, call[h].status)
        \/ At(h, "spawn") /\ CallChanges(h, "queued")
    <2>1. call' = call => CallChanges(h, call[h].status)
      BY DEF TypeOK, CallChanges, CallRecords
    <2>2. CASE Announce(h) \/ Accept(h)
      BY <2>1, <2>2 DEF Announce, Accept
    <2>3. CASE Spawn(h)
      BY <2>1, <2>3, StatusUpdate DEF Spawn, Statuses
    <2>4. CASE Cancel(h)
      BY <2>1, <2>4, CancelUpdate DEF Cancel
    <2>5. QED
      BY <2>2, <2>3, <2>4
  <1>3. manager' \in [Hosts -> Positions] /\ \A g \in Hosts \ {h} : manager'[g] = manager[g]
    BY <1>1, GoesTo
  <1>4. /\ versions' \in Nat /\ orphans' \in 0 .. MaxFaults /\ orphans' <= faults'
        /\ faults' \in 0 .. MaxFaults /\ local' \in LocalTables
    BY <1>1, FaultType, AttemptAssumption DEF TypeOK, CallInv, LocalTables
  <1>5. HostStep(h) /\ HostShape(h)
    BY <1>1, <1>2, <1>3, <1>4 DEF HostStep, HostShape, CallChanges
  <1>6. QED
    BY <1>2, <1>5, HostStepType DEF CallChanges

LEMMA DeathStep ==
  ASSUME TypeOK, CallInv, NEW h \in Hosts, UNCHANGED variant, ManagerDies(h)
  PROVE  HostStep(h) /\ HostShape(h) /\ TypeOK'
  <1>1. /\ UNCHANGED <<remoteVars, versions>> /\ orphans' \in {orphans, orphans + 1}
        /\ Fault /\ Go(h, "idle")
    BY DEF ManagerDies
  <1>2. local' \in LocalTables /\ \A g \in Hosts \ {h} : local'[g] = local[g]
    BY TornLocal
  <1>3. manager' \in [Hosts -> Positions] /\ \A g \in Hosts \ {h} : manager'[g] = manager[g]
    BY <1>1, GoesTo DEF Positions
  <1>4. /\ versions' \in Nat /\ orphans' \in 0 .. MaxFaults /\ orphans' <= faults'
        /\ faults' \in 0 .. MaxFaults
    BY <1>1, FaultType, AttemptAssumption DEF TypeOK, CallInv
  <1>5. HostStep(h) /\ HostShape(h)
    BY <1>1, <1>2, <1>3, <1>4 DEF HostStep, HostShape, remoteVars
  <1>6. call' \in [Hosts -> CallRecords]
    BY <1>1 DEF TypeOK, CallRecords, remoteVars
  <1>7. QED
    BY <1>5, <1>6, HostStepType

LEMMA ManagersStep ==
  ASSUME TypeOK, CallInv, NEW h \in Hosts, UNCHANGED variant,
         Operator(h) \/ Manager(h) \/ ManagerDies(h)
  PROVE  HostStep(h) /\ HostShape(h) /\ TypeOK'
  BY DeployStep, LaunchStep, RemoteStep, DeathStep DEF Operator, Manager

-----------------------------------------------------------------------------
(* A host launches once.                                                    *)

\* A manager elsewhere changes nothing that the invariant says of a host.
LEMMA OtherHosts ==
  ASSUME HostInv, NEW h \in Hosts, HostStep(h), LaunchesOnce(h)'
  PROVE  HostInv'
  <1> SUFFICES ASSUME NEW g \in Hosts \ {h} PROVE LaunchesOnce(g)'
    BY DEF HostInv
  <1>1. manager'[g] = manager[g] /\ local'[g] = local[g] /\ call'[g] = call[g]
    BY DEF HostStep
  <1>2. LaunchesOnce(g)
    BY DEF HostInv
  <1>3. QED
    BY <1>1, <1>2 DEF LaunchesOnce, LaunchConsumed

LEMMA DeployOnce ==
  ASSUME TypeOK, NEW h \in Hosts, LaunchesOnce(h), HostStep(h),
         BeginDeploy(h) \/ ReadHistory(h) \/ Build(h) \/ ReviewHistory(h) \/ Seal(h)
  PROVE  LaunchesOnce(h)'
  <1>1. call'[h].status = call[h].status
    BY DEF HostStep, At, BeginDeploy, ReadHistory, Build, ReviewHistory, Seal
  <1>2. manager \in [Hosts -> Positions]
    BY DEF TypeOK
  <1>3. CASE BeginDeploy(h) \/ ReadHistory(h) \/ Build(h) \/ ReviewHistory(h)
    <2>1. /\ local' = local /\ local[h]["deployment"] = "absent"
          /\ manager'[h] \in {"idle", "history", "build", "built", "seal"}
      BY <1>2, <1>3 DEF BeginDeploy, ReadHistory, Build, ReviewHistory, LaunchesOnce, At, Go
    <2>2. QED
      BY <1>1, <2>1 DEF LaunchesOnce, LaunchConsumed
  <1>4. CASE Seal(h)
    <2>1. manager'[h] = "idle"
      BY <1>2, <1>4 DEF Seal, Go
    <2>2. \A r \in LocalRecords \ {"deployment"} : local'[h][r] = local[h][r]
      <3>1. CASE Record(h, "deployment")
        BY <3>1, RecordLocal DEF LocalRecords
      <3>2. QED
        BY <1>4, <3>1 DEF Seal
    <2>3. QED
      BY <1>1, <2>1, <2>2 DEF LaunchesOnce, LaunchConsumed, LocalRecords
  <1>5. QED
    BY <1>3, <1>4

LEMMA LaunchOnce ==
  ASSUME TypeOK, NEW h \in Hosts, LaunchesOnce(h), HostStep(h),
         \/ BeginLaunch(h) \/ ValidateDeployment(h) \/ CheckUnconsumed(h) \/ Consume(h)
         \/ WriteIntent(h) \/ WriteAcceptance(h) \/ WriteCallReceipt(h)
  PROVE  LaunchesOnce(h)'
  <1>1. call'[h].status = call[h].status
    BY DEF HostStep, At, BeginLaunch, ValidateDeployment, CheckUnconsumed, Consume, WriteIntent,
           WriteAcceptance, WriteCallReceipt, WriteLocal
  <1>2. manager \in [Hosts -> Positions]
    BY DEF TypeOK
  <1>3. CASE BeginLaunch(h) \/ ValidateDeployment(h) \/ CheckUnconsumed(h)
    <2>1. /\ local' = local /\ ~LaunchConsumed(h)
          /\ manager'[h] \in {"idle", "validate", "unconsumed", "consume"}
      BY <1>2, <1>3 DEF BeginLaunch, ValidateDeployment, CheckUnconsumed, LaunchesOnce, At, Go
    <2>2. QED
      BY <1>1, <2>1 DEF LaunchesOnce, LaunchConsumed
  <1>4. CASE Consume(h)
    <2>1. ~LaunchConsumed(h) /\ local[h]["receipt"] = "absent" /\ call[h].status = "none"
      BY <1>4 DEF Consume, LaunchesOnce, At
    <2>2. CASE Record(h, "consumption") /\ Go(h, "intent")
      <3>1. /\ local'[h]["consumption"] = "whole" /\ local'[h]["receipt"] = "absent"
            /\ manager'[h] = "intent"
        BY <1>2, <2>1, <2>2, RecordLocal DEF LocalRecords, Go
      <3>2. QED
        BY <1>1, <2>1, <3>1 DEF LaunchesOnce, LaunchConsumed
    <2>3. CASE Go(h, "idle") /\ UNCHANGED local
      <3>1. manager'[h] = "idle"
        BY <1>2, <2>3 DEF Go
      <3>2. QED
        BY <1>1, <2>1, <2>3, <3>1 DEF LaunchesOnce, LaunchConsumed
    <2>4. QED
      BY <1>4, <2>2, <2>3 DEF Consume
  <1>5. CASE WriteIntent(h) \/ WriteAcceptance(h)
    <2>1. /\ LaunchConsumed(h) /\ local[h]["receipt"] = "absent"
          /\ WriteIntent(h) => call[h].status = "none"
      BY <1>5 DEF WriteIntent, WriteAcceptance, WriteLocal, LaunchesOnce, At
    <2>2. CASE \E what \in {"intent", "acceptance"} : Record(h, what)
      <3>1. /\ LaunchConsumed(h)' /\ local'[h]["receipt"] = "absent"
        BY <2>1, <2>2, RecordLocal DEF LocalRecords, LaunchConsumed
      <3>2. /\ manager'[h] \in {"announce", "receipt", "cancel"}
            /\ manager'[h] = "announce" => WriteIntent(h)
        BY <1>2, <1>5 DEF WriteIntent, WriteAcceptance, WriteLocal, Go
      <3>3. QED
        BY <1>1, <2>1, <3>1, <3>2 DEF LaunchesOnce
    <2>3. CASE Go(h, "cancel") /\ UNCHANGED local
      <3>1. manager'[h] = "cancel"
        BY <1>2, <2>3 DEF Go
      <3>2. QED
        BY <1>1, <2>1, <2>3, <3>1 DEF LaunchesOnce, LaunchConsumed
    <2>4. QED
      BY <1>5, <2>2, <2>3 DEF WriteIntent, WriteAcceptance, WriteLocal
  <1>6. CASE WriteCallReceipt(h)
    <2>1. LaunchConsumed(h) /\ local[h]["receipt"] = "absent"
      BY <1>6 DEF WriteCallReceipt, WriteLocal, LaunchesOnce, At
    <2>2. CASE Record(h, "receipt") /\ Go(h, "idle")
      <3>1. LaunchConsumed(h)' /\ manager'[h] = "idle"
        BY <1>2, <2>1, <2>2, RecordLocal DEF LocalRecords, LaunchConsumed, Go
      <3>2. QED
        BY <3>1 DEF LaunchesOnce
    <2>3. CASE Go(h, "cancel") /\ UNCHANGED local
      <3>1. manager'[h] = "cancel"
        BY <1>2, <2>3 DEF Go
      <3>2. QED
        BY <1>1, <2>1, <2>3, <3>1 DEF LaunchesOnce, LaunchConsumed
    <2>4. QED
      BY <1>6, <2>2, <2>3 DEF WriteCallReceipt, WriteLocal
  <1>7. QED
    BY <1>3, <1>4, <1>5, <1>6

LEMMA RemoteOnce ==
  ASSUME TypeOK, NEW h \in Hosts, LaunchesOnce(h), HostStep(h),
         Announce(h) \/ Spawn(h) \/ Accept(h) \/ Cancel(h)
  PROVE  LaunchesOnce(h)'
  <1>1. /\ local' = local /\ LaunchConsumed(h) /\ local[h]["receipt"] = "absent"
    BY DEF Announce, Spawn, Accept, Cancel, LaunchesOnce, At
  <1>2. manager \in [Hosts -> Positions]
    BY DEF TypeOK
  <1>3. /\ manager'[h] \in {"spawn", "accept", "acceptance", "cancel", "idle"}
        /\ manager'[h] = "spawn" => At(h, "announce") /\ call[h].status = "none"
    BY <1>2 DEF Announce, Spawn, Accept, Cancel, Uploads, LaunchesOnce, At, Go
  <1>4. manager'[h] = "spawn" => call'[h].status = "none"
    BY <1>3 DEF HostStep, At
  <1>5. QED
    BY <1>1, <1>3, <1>4 DEF LaunchesOnce, LaunchConsumed

LEMMA DeathOnce ==
  ASSUME TypeOK, NEW h \in Hosts, LaunchesOnce(h), HostStep(h), ManagerDies(h)
  PROVE  LaunchesOnce(h)'
  <1>1. manager'[h] = "idle" /\ call'[h] = call[h]
    BY DEF ManagerDies, TypeOK, Go, remoteVars
  <1>2. LaunchConsumed(h) => LaunchConsumed(h)'
    BY TornLocal DEF LaunchConsumed, LocalRecords
  <1>3. ~LaunchConsumed(h)' => local'[h]["receipt"] = "absent" /\ call'[h].status = "none"
    <2>1. ASSUME ~LaunchConsumed(h)
          PROVE  "receipt" \notin Writing(h)
      BY <2>1 DEF Writing, At, LaunchesOnce
    <2>2. QED
      BY <1>1, <1>2, <2>1, TornLocal DEF LaunchesOnce, LocalRecords
  <1>4. QED
    BY <1>1, <1>3 DEF LaunchesOnce

LEMMA ManagersLaunchOnce ==
  ASSUME TypeOK, CallInv, HostInv, NEW h \in Hosts, UNCHANGED variant,
         Operator(h) \/ Manager(h) \/ ManagerDies(h)
  PROVE  HostInv'
  <1>1. HostStep(h) /\ LaunchesOnce(h)
    BY ManagersStep DEF HostInv
  <1>2. LaunchesOnce(h)'
    BY <1>1, DeployOnce, LaunchOnce, RemoteOnce, DeathOnce DEF Operator, Manager
  <1>3. QED
    BY <1>1, <1>2, OtherHosts

\* The local records, once complete, stay complete.
LEMMA BoundStays ==
  ASSUME TypeOK, HostInv, NEW h \in Hosts, NEW g \in Hosts, Bound(g),
         Operator(h) \/ Manager(h) \/ ManagerDies(h), HostStep(h)
  PROVE  Bound(g)'
  <1>1. CASE g # h
    BY <1>1 DEF HostStep, Bound, Whole
  <1>2. CASE g = h /\ ManagerDies(h)
    <2>1. LaunchesOnce(h) /\ \A r \in LocalRecords \ {"consumption"} : local[h][r] = "whole"
      BY <1>2 DEF HostInv, Bound, Whole
    <2>2. Writing(h) = {}
      BY <2>1 DEF Writing, At, LaunchesOnce, LaunchConsumed, LocalRecords
    <2>3. QED
      BY <1>2, <2>1, <2>2, TornLocal DEF Bound, Whole
  <1>3. CASE g = h /\ (Operator(h) \/ Manager(h))
    <2>1. local' = local \/ \E r \in LocalRecords : Record(h, r)
      BY <1>3 DEF Operator, Manager, BeginDeploy, ReadHistory, Build, ReviewHistory, Seal, BeginLaunch,
         ValidateDeployment, CheckUnconsumed, Consume, WriteIntent, Announce, Spawn, Accept,
         WriteAcceptance, WriteCallReceipt, WriteLocal, Cancel, LocalRecords
    <2>2. QED
      BY <1>3, <2>1, RecordLocal DEF Bound, Whole
  <1>4. QED
    BY <1>1, <1>2, <1>3

-----------------------------------------------------------------------------
(* What the records on the volume say, when only plain ones come to it.     *)

\* Records that no receipt, paid work or server load depends on.
Plain(r) ==
  \/ r.kind \in {"intent", "acceptance"}
  \/ registry # None /\ r.kind = "supporting"
  \/ registry # None /\ r.kind = "claim" /\ r = registry

\* Only plain records become known, and the volume keeps what it has.
PlainStep ==
  /\ UNCHANGED <<variant, registry>>
  /\ volume \subseteq volume' /\ volume' \subseteq Known'
  /\ \A r \in Known' : r \in Known \/ Plain(r)

LEMMA VolumeIsKnown == volume \subseteq Known
  BY DEF Known

LEMMA PlainFacts ==
  ASSUME PlainStep
  PROVE  /\ NoReceipts => NoReceipts'
         /\ NoLoads => NoLoads'
         /\ \A r \in Known' : r.kind \in Outcomes \union {"load"} => r \in Known
  BY DEF PlainStep, Plain, NoReceipts, NoLoads, Outcomes

LEMMA PlainOwner ==
  ASSUME OwnerInv, PlainStep, registry = None => paid' = {}
  PROVE  OwnerInv'
  <1>1. \A r \in Known' : r.kind \in Outcomes \union {"load"} => r \in Known
    BY PlainFacts
  <1>2. registry = None => \A r \in Known' : r.kind \in {"intent", "acceptance"}
    BY DEF OwnerInv, PlainStep, Plain
  <1>3. \A r \in Known' : r.kind = "claim" => r = registry
    BY DEF OwnerInv, PlainStep, Plain
  <1>4. registry # None => Acceptance(Owner) \in volume'
    BY DEF OwnerInv, PlainStep
  <1>5. QED
    BY <1>1, <1>2, <1>3, <1>4 DEF OwnerInv, PlainStep, Owner

LEMMA PlainPaid ==
  ASSUME PaidInv, PlainStep, paid' = paid
  PROVE  PaidInv'
  <1>1. \A r \in Known' : r.kind = "load" => r \in Known
    BY PlainFacts
  <1>2. \A l, m \in OfKind(Known, "load")' : l = m
    BY <1>1 DEF PaidInv, OfKind
  <1>3. (variant = "measurement" => NoLoads)'
    BY PlainFacts DEF PaidInv, PlainStep
  <1>4. QED
    BY <1>2, <1>3 DEF PaidInv, PlainStep, Owner

LEMMA BoundGrows ==
  ASSUME NEW v, NEW h, NEW r, NEW V, NEW W, V \subseteq W, ReceiptBound(v, h, r, V),
         OfKind(W, "load") = OfKind(V, "load")
  PROVE  ReceiptBound(v, h, r, W)
  BY DEF ReceiptBound

LEMMA PlainReceipts ==
  ASSUME ReceiptInv, PlainStep, paid \subseteq paid'
  PROVE  ReceiptInv'
  <1> SUFFICES ASSUME NEW r \in Known', r.kind \in Outcomes
               PROVE  /\ \A q \in Known' : q.kind \in Outcomes => q = r
                      /\ registry' # None /\ registry' \in volume'
                      /\ ReceiptBound(variant, Owner, r, volume)'
                      /\ OfKind(Known, "load")' = OfKind(volume, "load")'
                      /\ r.kind = "success" => paid' # {}
    BY DEF ReceiptInv
  <1>1. \A q \in Known' : q.kind \in Outcomes \union {"load"} => q \in Known
    BY PlainFacts
  <1>2. /\ r \in Known /\ \A q \in Known : q.kind \in Outcomes => q = r
        /\ registry # None /\ registry \in volume
        /\ ReceiptBound(variant, Owner, r, volume)
        /\ OfKind(Known, "load") = OfKind(volume, "load")
        /\ r.kind = "success" => paid # {}
    BY <1>1 DEF ReceiptInv
  <1>3. /\ OfKind(Known', "load") = OfKind(volume', "load")
        /\ OfKind(volume', "load") = OfKind(volume, "load")
    BY <1>1, <1>2 DEF OfKind, PlainStep
  <1>4. ReceiptBound(variant, Owner, r, volume')
    BY <1>2, <1>3, BoundGrows DEF PlainStep
  <1>5. QED
    BY <1>1, <1>2, <1>3, <1>4 DEF PlainStep, Owner, OfKind

\* The container is where it was; what it wrote may be on the volume now.
BoxStays ==
  /\ box = None => box' = None
  /\ box # None => /\ box' # None /\ box'.call = box.call /\ box'.task = box.task
                   /\ box'.step = box.step /\ box'.done = box.done /\ box'.held = box.held
                   /\ box'.dirty \in {box.dirty, {}}

LEMMA StaysInProgress ==
  ASSUME ProgressInv, PlainStep, BoxStays, paid' = paid
  PROVE  ProgressInv'
  <1> SUFFICES ASSUME box' # None
               PROVE  ProgressInv'
    BY DEF ProgressInv
  <1>1. /\ box # None /\ box'.call = box.call /\ box'.task = box.task
        /\ box'.step = box.step /\ box'.done = box.done /\ box'.held = box.held
    BY DEF BoxStays
  <1>2. /\ NoReceipts => NoReceipts'
        /\ NoLoads => NoLoads'
        /\ volume \subseteq volume' /\ registry' = registry /\ variant' = variant
    BY PlainFacts DEF PlainStep
  <1>3. MeasurementProgress => MeasurementProgress'
    BY <1>1, <1>2 DEF MeasurementProgress
  <1>4. DiagnosticProgress => DiagnosticProgress'
    BY <1>1, <1>2 DEF DiagnosticProgress
  <1>5. QED
    BY <1>1, <1>2, <1>3, <1>4 DEF ProgressInv

LEMMA StaysBox ==
  ASSUME BoxInv, PlainStep, BoxStays
  PROVE  BoxInv'
  <1>1. /\ volume \subseteq volume' /\ registry' = registry /\ variant' = variant
    BY DEF PlainStep
  <1>2. QED
    BY <1>1 DEF BoxInv, BoxStays, Owner, Me

\* Managers add intents and acceptances.
LEMMA ManagersKeep ==
  ASSUME MeasurementInv, NEW h \in Hosts, UNCHANGED variant,
         Operator(h) \/ Manager(h) \/ ManagerDies(h)
  PROVE  MeasurementInv'
  <1>1. HostStep(h) /\ HostShape(h) /\ TypeOK' /\ HostInv'
    BY ManagersStep, ManagersLaunchOnce DEF MeasurementInv
  <1>2. PlainStep /\ BoxStays /\ paid' = paid
    <2>1. \A r \in {Intent(h), Acceptance(h)} : Plain(r)
      BY MadeRecords DEF Plain
    <2>2. QED
      BY <1>1, <2>1, VolumeIsKnown DEF HostStep, PlainStep, BoxStays, Known
  <1>3. CallInv'
    <2>1. box # None => call'[box.call].status = "running"
      BY <1>1, BoxIsTyped DEF MeasurementInv, CallInv, HostInv, LaunchesOnce, HostStep, At
    <2>2. QED
      BY <1>1, <2>1 DEF CallInv, HostStep, HostShape
  <1>4. OwnerInv' /\ PaidInv' /\ ReceiptInv'
    <2>1. registry = None => paid' = {}
      BY <1>2 DEF MeasurementInv, OwnerInv
    <2>2. OwnerInv'
      BY <1>2, <2>1, PlainOwner DEF MeasurementInv
    <2>3. PaidInv'
      BY <1>2, PlainPaid DEF MeasurementInv
    <2>4. ReceiptInv'
      BY <1>2, PlainReceipts DEF MeasurementInv
    <2>5. QED
      BY <2>2, <2>3, <2>4
  <1>5. BoxInv' /\ ProgressInv'
    BY <1>2, StaysBox, StaysInProgress DEF MeasurementInv
  <1>6. QED
    BY <1>1, <1>3, <1>4, <1>5 DEF MeasurementInv

-----------------------------------------------------------------------------
(* The container's steps, each as a move with what it commits, or an end.   *)

LEMMA StepMoves ==
  ASSUME TypeOK, box # None, NEW s \in Steps, Step(s), volume' = volume
  PROVE  Moved(s, box.done, box.held) /\ Kept
  <1>1. box \in Boxes
    BY BoxIsTyped
  <1>2. box' = With(box, s, box.done, box.held, box.dirty)
    BY <1>1, Updates DEF Step
  <1>3. QED
    BY <1>1, <1>2, BoxIsTyped, WithFacts, MarkerAssumption DEF Moved, Kept

LEMMA CommitMoves ==
  ASSUME TypeOK, box # None, NEW s \in Steps, NEW done \in 0 .. 11,
         NEW held \in SUBSET (Kinds \union {"load"}), NEW record \in Records,
         Commits(record, With(box, s, done, held, box.dirty))
  PROVE  Moved(s, done, held) /\ Committed(record)
  <1>1. box \in Boxes /\ box.dirty \in SUBSET Records /\ {} \in SUBSET Records
    BY BoxIsTyped
  <1> DEFINE w == With(box, s, done, held, box.dirty)
  <1>2. w \in Boxes /\ w.call = box.call /\ w.task = box.task /\ w.step = s /\ w.done = done
        /\ w.held = held
    BY <1>1, WithFacts
  <1>3. box' = With(box, s, done, held, {})
    <2>1. [With(box, s, done, held, box.dirty) EXCEPT !.dirty = {}] = With(box, s, done, held, {})
      BY DEF With
    <2>2. QED
      BY <2>1, Zenon DEF Commits
  <1>4. box' \in Boxes /\ box'.call = box.call /\ box'.task = box.task /\ box'.step = s
        /\ box'.done = done /\ box'.held = held /\ box'.dirty = {}
    BY <1>1, <1>2, <1>3, WithFacts
  <1>5. QED
    BY <1>1, <1>4, MarkerAssumption DEF Moved, Committed, Commits

LEMMA RaiseMoves ==
  ASSUME TypeOK, box # None, NEW s \in Steps, NEW done \in 0 .. 11,
         NEW held \in SUBSET (Kinds \union {"load"}), NEW record \in Records,
         CommitRaises(record, With(box, s, done, held, box.dirty))
  PROVE  Moved(s, done, held) /\ Unsure(record) /\ Fault
  <1>1. box \in Boxes /\ box.dirty \in SUBSET Records
    BY BoxIsTyped
  <1> DEFINE w == With(box, s, done, held, box.dirty)
  <1>2. w \in Boxes /\ w.call = box.call /\ w.task = box.task /\ w.step = s /\ w.done = done
        /\ w.held = held /\ w.dirty = box.dirty
    BY <1>1, WithFacts
  <1>3. Fault
    BY DEF CommitRaises
  <1>4. CASE box' = w /\ UNCHANGED volume
    BY <1>1, <1>2, <1>3, <1>4, MarkerAssumption DEF Moved, Unsure
  <1>5. CASE box' = [w EXCEPT !.dirty = w.dirty \union {record}] /\ UNCHANGED volume
    <2>1. box' = With(box, s, done, held, box.dirty \union {record})
      <3>1. [With(box, s, done, held, box.dirty) EXCEPT !.dirty = w.dirty \union {record}]
              = With(box, s, done, held, w.dirty \union {record})
        BY DEF With
      <3>2. QED
        BY <1>2, <1>5, <3>1, Zenon
    <2>2. box.dirty \union {record} \in SUBSET Records
      BY <1>1
    <2>3. box' \in Boxes /\ box'.call = box.call /\ box'.task = box.task /\ box'.step = s
          /\ box'.done = done /\ box'.held = held /\ box'.dirty = box.dirty \union {record}
      BY <1>1, <2>1, <2>2, WithFacts
    <2>4. QED
      BY <1>1, <1>3, <1>5, <2>3, MarkerAssumption DEF Moved, Unsure
  <1>6. CASE Commits(record, w)
    BY <1>3, <1>6, CommitMoves DEF Unsure
  <1>7. QED
    BY <1>3, <1>4, <1>5, <1>6 DEF CommitRaises

\* A step that only moves the container.
Moves(step, done, held) ==
  Moved(step, done, held) /\ Kept /\ UNCHANGED <<call, registry, paid>>
Commit(step, done, held, record) ==
  Moved(step, done, held) /\ Committed(record) /\ UNCHANGED <<call, registry>>
Raise(step, done, held, record) ==
  Moved(step, done, held) /\ Unsure(record) /\ UNCHANGED <<call, registry>>
Ends == EndBox("failed") /\ UNCHANGED <<registry, paid>>

\* Managers and app are left alone.
Apart == UNCHANGED <<appVars, hostVars>> /\ (Fault \/ UNCHANGED faults)

LEMMA LoadIntentStep ==
  ASSUME TypeOK, LoadIntent
  PROVE  Apart /\ ((Doing("load") /\ Moves("wait", box.done, box.held)) \/ Ends)
  <1>1. CASE Step("wait") /\ UNCHANGED <<call, volume, faults>>
    BY <1>1, StepMoves DEF LoadIntent, Doing, Apart, Moves, Steps
  <1>2. CASE CallFails /\ Fault
    BY <1>2 DEF LoadIntent, Apart, Ends, CallFails
  <1>3. QED
    BY <1>1, <1>2 DEF LoadIntent

LEMMA WaitStep ==
  ASSUME TypeOK, WaitForAcceptance
  PROVE  /\ Apart
         /\ \/ Doing("wait") /\ Moves("claim", box.done, box.held) /\ Acceptance(box.call) \in volume
            \/ Ends
  <1>1. CASE Acceptance(box.call) \in volume
    BY <1>1, StepMoves DEF WaitForAcceptance, Doing, Apart, Moves, Steps
  <1>2. CASE Acceptance(box.call) \notin volume
    BY <1>2 DEF WaitForAcceptance, Apart, Ends, CallFails
  <1>3. QED
    BY <1>1, <1>2

LEMMA ClaimStep ==
  ASSUME TypeOK, ClaimAttempt
  PROVE  /\ Apart /\ Doing("claim")
         /\ \/ /\ registry = None /\ registry' = Me /\ Moved("durable", box.done, box.held) /\ Kept
               /\ UNCHANGED <<call, paid>>
            \/ registry = None /\ registry' \in {None, Me} /\ EndBox("failed") /\ UNCHANGED paid
            \/ /\ registry # None /\ variant = "diagnostic" /\ Owner = box.call
               /\ Moves("durable", box.done, box.held)
            \/ Ends
  <1>1. Doing("claim") /\ UNCHANGED <<appVars, hostVars, paid>>
    BY DEF ClaimAttempt
  <1>2. CASE registry = None /\ registry' = Me /\ Step("durable") /\ UNCHANGED <<call, volume, faults>>
    BY <1>1, <1>2, StepMoves DEF Doing, Apart, Steps
  <1>3. CASE registry = None /\ registry' \in {None, Me} /\ CallFails /\ Fault
    BY <1>1, <1>3 DEF Apart, CallFails
  <1>4. CASE registry # None /\ MayAdopt /\ Step("durable") /\ UNCHANGED <<call, volume, registry, faults>>
    BY <1>1, <1>4, StepMoves DEF Doing, Apart, Steps, Moves, MayAdopt, Owner
  <1>5. CASE registry # None /\ ~MayAdopt /\ CallFails /\ UNCHANGED <<registry, faults>>
    BY <1>1, <1>5 DEF Apart, CallFails, Ends
  <1>6. QED
    BY <1>2, <1>3, <1>4, <1>5 DEF ClaimAttempt

LEMMA RegistryRecord ==
  ASSUME TypeOK, registry # None
  PROVE  /\ registry \in Records /\ registry.kind = "claim" /\ Owner \in Hosts
         /\ registry.task \in Tasks /\ registry = Claim(Owner, registry.task)
  <1>1. PICK h \in Hosts, t \in Tasks : registry = Claim(h, t)
    BY DEF TypeOK
  <1>2. registry.kind = "claim" /\ registry.call = h /\ registry.task = t /\ registry \in Records
    BY <1>1, MadeRecords
  <1>3. QED
    BY <1>1, <1>2 DEF Owner

LEMMA PublishClaimStep ==
  ASSUME TypeOK, BoxInv, PublishClaim
  PROVE  /\ Apart /\ Doing("durable")
         /\ \/ /\ variant = "diagnostic" /\ Commit("unused", box.done, box.held, registry) /\ paid' = paid
            \/ /\ variant = "measurement" /\ Commit("work", box.done, box.held, registry)
               /\ paid' = paid \union {<<box.call, box.task>>}
            \/ Raise("raise", box.done, box.held, registry) /\ paid' = paid
  <1>1. Doing("durable") /\ UNCHANGED <<appVars, hostVars, call, registry>>
    BY DEF PublishClaim
  <1>2. /\ registry \in Records /\ variant \in {"measurement", "diagnostic"}
    BY <1>1, RegistryRecord, AttemptAssumption DEF BoxInv, Doing, Early, TypeOK, Variant
  <1>3. \A s \in Steps : [box EXCEPT !.step = s] = With(box, s, box.done, box.held, box.dirty)
    BY <1>1, Updates, BoxIsTyped DEF Doing
  <1>4. box # None /\ box.done \in 0 .. 11 /\ box.held \in SUBSET (Kinds \union {"load"})
        /\ {"unused", "work", "raise"} \subseteq Steps
    BY <1>1, BoxIsTyped DEF Doing, Steps
  <1>5. CASE /\ Commits(registry, [box EXCEPT !.step = IF variant = "diagnostic" THEN "unused" ELSE "work"])
             /\ paid' = IF variant = "diagnostic" THEN paid ELSE paid \union {<<box.call, box.task>>}
             /\ UNCHANGED faults
    <2>1. CASE variant = "diagnostic"
      <3>1. Commits(registry, With(box, "unused", box.done, box.held, box.dirty))
        BY <1>3, <1>4, <1>5, <2>1
      <3>2. QED
        BY <1>1, <1>2, <1>4, <1>5, <2>1, <3>1, CommitMoves DEF Apart, Commit
    <2>2. CASE variant = "measurement"
      <3>1. Commits(registry, With(box, "work", box.done, box.held, box.dirty))
        BY <1>3, <1>4, <1>5, <2>2
      <3>2. QED
        BY <1>1, <1>2, <1>4, <1>5, <2>2, <3>1, CommitMoves DEF Apart, Commit
    <2>3. QED
      BY <1>2, <2>1, <2>2
  <1>6. CASE CommitRaises(registry, [box EXCEPT !.step = "raise"]) /\ UNCHANGED paid
    <2>1. CommitRaises(registry, With(box, "raise", box.done, box.held, box.dirty))
      BY <1>3, <1>4, <1>6
    <2>2. QED
      BY <1>1, <1>2, <1>4, <1>6, <2>1, RaiseMoves DEF Apart, Raise
  <1>7. QED
    BY <1>5, <1>6 DEF PublishClaim

LEMMA CheckUnusedStep ==
  ASSUME TypeOK, CheckUnused
  PROVE  /\ Apart /\ Doing("unused")
         /\ \/ Moves("work", box.done, box.held) /\ Unused(volume)
            \/ Ends
  <1>1. CASE Unused(volume)
    BY <1>1, StepMoves DEF CheckUnused, Doing, Apart, Moves, Steps
  <1>2. CASE ~Unused(volume)
    BY <1>2 DEF CheckUnused, Apart, Ends, CallFails
  <1>3. QED
    BY <1>1, <1>2

LEMMA BuildStep ==
  ASSUME TypeOK, BuildSuccess
  PROVE  Apart /\ Doing("conclude") /\ Moves("terminal", box.done, box.held)
  BY StepMoves DEF BuildSuccess, Doing, Apart, Moves, Steps

LEMMA StageRaisesStep ==
  ASSUME TypeOK, StageRaises
  PROVE  /\ Apart /\ box # None /\ box.step \in {"work", "conclude"}
         /\ Stage # "bf16_interface_diagnostic"
         /\ Moves("failing", box.done, box.held)
  BY StepMoves DEF StageRaises, Apart, Moves, Steps

\* Where the stages that publish are.
LEMMA MeasurementStages ==
  ASSUME NEW n \in 0 .. 10
  PROVE  /\ Stages("measurement")[n + 1] = "measure_bf16_performance" <=> n = 4
         /\ Stages("measurement")[n + 1] = "measure_q3_performance" <=> n = 8
         /\ Stages("measurement")[n + 1] = "compare_and_publish" <=> n = 10
         /\ Stages("measurement")[n + 1] \notin {"bf16_interface_diagnostic", "publish"}
  <1>1. CASE n \in {0, 1, 2, 3, 4, 5}
    BY <1>1 DEF Stages
  <1>2. CASE n \in {6, 7, 8, 9, 10}
    BY <1>2 DEF Stages
  <1>3. QED
    BY <1>1, <1>2

LEMMA DiagnosticStages ==
  ASSUME NEW n \in 0 .. 6
  PROVE  /\ Stages("diagnostic")[n + 1] = "bf16_interface_diagnostic" <=> n = 3
         /\ Stages("diagnostic")[n + 1] = "publish" <=> n = 6
         /\ Stages("diagnostic")[n + 1]
              \notin {"measure_bf16_performance", "measure_q3_performance", "compare_and_publish"}
  BY DEF Stages

LEMMA Subjects ==
  ASSUME NEW n \in Nat
  PROVE  \A s : s \in SubjectsDone(n) <=> (s = "bf16" /\ n >= 5) \/ (s = "q3" /\ n >= 9)
  BY DEF SubjectsDone, Performance

LEMMA VariantIs ==
  ASSUME TypeOK
  PROVE  variant \in {"measurement", "diagnostic"}
  BY AttemptAssumption DEF TypeOK, Variant

\* Where a container works, its stage is one of the variant's.
LEMMA WorkingStage ==
  ASSUME TypeOK, ProgressInv, box # None, box.step \in Working
  PROVE  /\ variant = "measurement" => box.done \in 0 .. 10
         /\ variant = "diagnostic" => box.done \in 0 .. 6
  <1>1. box.done \in 0 .. 11 /\ box.done < Last(variant)
    BY BoxIsTyped DEF ProgressInv
  <1>2. QED
    BY <1>1 DEF Last

LEMMA WorkStageStep ==
  ASSUME TypeOK, ProgressInv, WorkStage
  PROVE  /\ Apart /\ Doing("work") /\ Moves("work", box.done + 1, box.held)
         /\ variant = "measurement" => box.done \in 0 .. 9 /\ box.done \notin {4, 8}
         /\ variant = "diagnostic" => box.done \in 0 .. 5 /\ box.done # 3
  <1>1. Doing("work") /\ box' = Completed(box)
        /\ UNCHANGED <<appVars, hostVars, call, registry, volume, paid, faults>>
    BY DEF WorkStage
  <1>2. /\ variant = "measurement" => box.done \in 0 .. 10
        /\ variant = "diagnostic" => box.done \in 0 .. 6
    BY <1>1, WorkingStage DEF Doing, Working
  <1>3. variant = "measurement" => box.done \notin {4, 8, 10}
    BY <1>2, MeasurementStages DEF WorkStage, Stage
  <1>4. variant = "diagnostic" => box.done \notin {3, 6}
    BY <1>2, DiagnosticStages DEF WorkStage, Stage
  <1>5. box.done + 1 \in 0 .. 11
    BY <1>2, <1>3, <1>4, VariantIs
  <1>6. Moves("work", box.done + 1, box.held)
    <2>1. box # None /\ box \in Boxes /\ box.held \in SUBSET (Kinds \union {"load"})
          /\ box.dirty \in SUBSET Records /\ "work" \in Steps
      BY <1>1, BoxIsTyped DEF Doing, Steps
    <2>2. box' = With(box, "work", box.done + 1, box.held, box.dirty)
      BY <1>1, <2>1, Updates
    <2>3. QED
      BY <1>1, <1>5, <2>1, <2>2, WithFacts, MarkerAssumption DEF Moved, Kept, Moves
  <1>7. QED
    BY <1>1, <1>2, <1>3, <1>4, <1>6 DEF Apart

LEMMA PublishSubjectStep ==
  ASSUME TypeOK, ProgressInv, PublishSubject
  PROVE  /\ Apart /\ Doing("work") /\ variant = "measurement" /\ paid' = paid
         /\ \E s \in {"bf16", "q3"} :
              /\ (s = "bf16" /\ box.done = 4) \/ (s = "q3" /\ box.done = 8)
              /\ \/ Commit("work", box.done + 1, box.held \union {s}, Supporting(box.call, s))
                 \/ Raise("failing", box.done, box.held, Supporting(box.call, s))
  <1>1. /\ Doing("work") /\ box # None
        /\ UNCHANGED <<appVars, hostVars, call, registry, paid>>
    BY DEF PublishSubject, Doing
  <1>2. PICK s \in DOMAIN Performance :
          /\ variant = "measurement" /\ Performance[s] = box.done + 1
          /\ \/ /\ Commits(Supporting(box.call, s), [Completed(box) EXCEPT !.held = box.held \union {s}])
                /\ UNCHANGED faults
             \/ CommitRaises(Supporting(box.call, s), [box EXCEPT !.step = "failing"])
    <2>1. \A x : [Completed(box) EXCEPT !.held = @ \union x] = [Completed(box) EXCEPT !.held = box.held \union x]
      <3>1. box.held = Completed(box).held
        BY <1>1, BoxIsTyped DEF Boxes, Completed
      <3>2. QED
        BY <3>1
    <2>2. QED
      BY <2>1 DEF PublishSubject
  <1>3. s \in {"bf16", "q3"} /\ box.done \in 0 .. 11 /\ s \in Kinds
        /\ ((s = "bf16" /\ box.done = 4) \/ (s = "q3" /\ box.done = 8))
    BY <1>1, <1>2, BoxIsTyped DEF Performance, Kinds
  <1>4. /\ box \in Boxes /\ box.held \in SUBSET (Kinds \union {"load"})
        /\ box.held \union {s} \in SUBSET (Kinds \union {"load"})
        /\ {"work", "failing"} \subseteq Steps /\ Supporting(box.call, s) \in Records
        /\ box.done + 1 \in 0 .. 11
    BY <1>1, <1>3, BoxIsTyped, MadeRecords DEF Steps
  <1>5. CASE Commits(Supporting(box.call, s), [Completed(box) EXCEPT !.held = box.held \union {s}])
             /\ UNCHANGED faults
    <2>1. Commits(Supporting(box.call, s), With(box, "work", box.done + 1, box.held \union {s}, box.dirty))
      BY <1>4, <1>5, Updates
    <2>2. Commit("work", box.done + 1, box.held \union {s}, Supporting(box.call, s))
      BY <1>1, <1>4, <2>1, CommitMoves DEF Commit
    <2>3. QED
      BY <1>1, <1>2, <1>3, <1>5, <2>2 DEF Apart
  <1>6. CASE CommitRaises(Supporting(box.call, s), [box EXCEPT !.step = "failing"])
    <2>1. CommitRaises(Supporting(box.call, s), With(box, "failing", box.done, box.held, box.dirty))
      BY <1>4, <1>6, Updates
    <2>2. Raise("failing", box.done, box.held, Supporting(box.call, s)) /\ Fault
      BY <1>1, <1>3, <1>4, <2>1, RaiseMoves DEF Raise
    <2>3. QED
      BY <1>1, <1>2, <1>3, <2>2 DEF Apart
  <1>7. QED
    BY <1>2, <1>5, <1>6

LEMMA ClaimServerLoadStep ==
  ASSUME TypeOK, ProgressInv, ClaimServerLoad
  PROVE  /\ Apart /\ Doing("work") /\ variant = "diagnostic" /\ box.done = 3 /\ paid' = paid
         /\ \/ Commit("serve", box.done, box.held \union {"load"}, ServerLoad(box.call, box.task))
            \/ Raise("failing", box.done, box.held, ServerLoad(box.call, box.task))
  <1>1. /\ Doing("work") /\ box # None /\ Stage = "bf16_interface_diagnostic"
        /\ UNCHANGED <<appVars, hostVars, call, registry, paid>>
    BY DEF ClaimServerLoad, Doing
  <1>2. variant = "diagnostic" /\ box.done = 3
    <2>1. /\ variant = "measurement" => box.done \in 0 .. 10
          /\ variant = "diagnostic" => box.done \in 0 .. 6
      BY <1>1, WorkingStage DEF Doing, Working
    <2>2. variant # "measurement"
      BY <1>1, <2>1, MeasurementStages DEF Stage
    <2>3. QED
      BY <1>1, <2>1, <2>2, VariantIs, DiagnosticStages DEF Stage
  <1>3. /\ box \in Boxes /\ box.held \in SUBSET (Kinds \union {"load"})
        /\ box.held \union {"load"} \in SUBSET (Kinds \union {"load"})
        /\ {"serve", "failing"} \subseteq Steps /\ ServerLoad(box.call, box.task) \in Records
        /\ box.done \in 0 .. 11
    BY <1>1, BoxIsTyped, MadeRecords DEF Steps
  <1>4. CASE /\ Commits(ServerLoad(box.call, box.task),
                        [box EXCEPT !.step = "serve", !.held = @ \union {"load"}])
             /\ UNCHANGED faults
    <2>1. Commits(ServerLoad(box.call, box.task), With(box, "serve", box.done, box.held \union {"load"}, box.dirty))
      BY <1>3, <1>4, Updates
    <2>2. QED
      BY <1>1, <1>2, <1>3, <1>4, <2>1, CommitMoves DEF Commit, Apart
  <1>5. CASE CommitRaises(ServerLoad(box.call, box.task), [box EXCEPT !.step = "failing"])
    <2>1. CommitRaises(ServerLoad(box.call, box.task), With(box, "failing", box.done, box.held, box.dirty))
      BY <1>3, <1>5, Updates
    <2>2. QED
      BY <1>1, <1>2, <1>3, <2>1, RaiseMoves DEF Raise, Apart
  <1>6. QED
    BY <1>4, <1>5 DEF ClaimServerLoad

LEMMA RunServerStep ==
  ASSUME TypeOK, ProgressInv, RunServer
  PROVE  /\ Apart /\ Doing("serve") /\ paid' = paid \union {<<box.call, box.task>>}
         /\ UNCHANGED <<call, registry>> /\ Kept
         /\ \/ Moved("work", box.done + 1, box.held)
            \/ Moved("failing", box.done, box.held)
  <1>1. /\ Doing("serve") /\ box # None /\ paid' = paid \union {<<box.call, box.task>>}
        /\ box' \in {Completed(box), [box EXCEPT !.step = "failing"]}
        /\ UNCHANGED <<appVars, hostVars, call, registry, volume, faults>>
    BY DEF RunServer, Doing
  <1>2. /\ box \in Boxes /\ box.held \in SUBSET (Kinds \union {"load"}) /\ box.dirty \in SUBSET Records
        /\ {"work", "failing"} \subseteq Steps /\ box.done \in 0 .. 11 /\ box.done + 1 \in 0 .. 11
    <2>1. /\ variant = "measurement" => box.done \in 0 .. 10
          /\ variant = "diagnostic" => box.done \in 0 .. 6
      BY <1>1, WorkingStage DEF Doing, Working
    <2>2. QED
      BY <1>1, <2>1, VariantIs, BoxIsTyped DEF Steps
  <1>3. CASE box' = Completed(box)
    <2>1. box' = With(box, "work", box.done + 1, box.held, box.dirty)
      BY <1>2, <1>3, Updates
    <2>2. QED
      BY <1>1, <1>2, <2>1, WithFacts, MarkerAssumption DEF Moved, Kept, Apart
  <1>4. CASE box' = [box EXCEPT !.step = "failing"]
    <2>1. box' = With(box, "failing", box.done, box.held, box.dirty)
      BY <1>2, <1>4, Updates
    <2>2. QED
      BY <1>1, <1>2, <2>1, WithFacts, MarkerAssumption DEF Moved, Kept, Apart
  <1>5. QED
    BY <1>1, <1>3, <1>4

LEMMA PublishResultStep ==
  ASSUME TypeOK, ProgressInv, PublishResult
  PROVE  LET what == IF variant = "measurement" THEN "comparison" ELSE "raw"
         IN  /\ Apart /\ Doing("work") /\ paid' = paid
             /\ variant = "measurement" => box.done = 10
             /\ variant = "diagnostic" => box.done = 6
             /\ \/ Commit("conclude", box.done, box.held \union {what}, Supporting(box.call, what))
                \/ Raise("failing", box.done, box.held, Supporting(box.call, what))
  <1> DEFINE what == IF variant = "measurement" THEN "comparison" ELSE "raw"
             record == Supporting(box.call, what)
  <1>1. /\ Doing("work") /\ box # None /\ Stage \in {"compare_and_publish", "publish"}
        /\ UNCHANGED <<appVars, hostVars, call, registry, paid>>
    BY DEF PublishResult, Doing
  <1>2. /\ variant = "measurement" => box.done = 10
        /\ variant = "diagnostic" => box.done = 6
    <2>1. /\ variant = "measurement" => box.done \in 0 .. 10
          /\ variant = "diagnostic" => box.done \in 0 .. 6
      BY <1>1, WorkingStage DEF Doing, Working
    <2>2. QED
      BY <1>1, <2>1, MeasurementStages, DiagnosticStages DEF Stage
  <1>3. /\ box \in Boxes /\ box.held \in SUBSET (Kinds \union {"load"}) /\ what \in Kinds
        /\ box.held \union {what} \in SUBSET (Kinds \union {"load"})
        /\ {"conclude", "failing"} \subseteq Steps /\ record \in Records
        /\ box.done \in 0 .. 11
    BY <1>1, BoxIsTyped, MadeRecords DEF Steps, Kinds
  <1>4. CASE /\ Commits(record, [box EXCEPT !.step = "conclude", !.held = box.held \union {what}])
             /\ UNCHANGED faults
    <2>1. Commits(record, With(box, "conclude", box.done, box.held \union {what}, box.dirty))
      BY <1>3, <1>4, Updates
    <2>2. Commit("conclude", box.done, box.held \union {what}, record)
      BY <1>1, <1>3, <2>1, CommitMoves DEF Commit
    <2>3. QED
      BY <1>1, <1>2, <1>4, <2>2 DEF Apart
  <1>5. CASE CommitRaises(record, [box EXCEPT !.step = "failing"])
    <2>1. CommitRaises(record, With(box, "failing", box.done, box.held, box.dirty))
      BY <1>3, <1>5, Updates
    <2>2. Raise("failing", box.done, box.held, record) /\ Fault
      BY <1>1, <1>3, <2>1, RaiseMoves DEF Raise
    <2>3. QED
      BY <1>1, <1>2, <2>2 DEF Apart
  <1>6. QED
    BY <1>4, <1>5 DEF PublishResult

LEMMA PublishReceiptStep ==
  ASSUME TypeOK, box # None, NEW record \in Records, NEW next \in Steps, PublishReceipt(record, next)
  PROVE  /\ Apart /\ paid' = paid
         /\ \/ Commit(next, box.done, box.held, record)
            \/ Raise("raise", box.done, box.held, record)
  <1>1. UNCHANGED <<appVars, hostVars, call, registry, paid>>
    BY DEF PublishReceipt
  <1>2. /\ box \in Boxes /\ box.held \in SUBSET (Kinds \union {"load"})
        /\ box.done \in 0 .. 11 /\ "raise" \in Steps
    BY BoxIsTyped DEF Steps
  <1>3. CASE Commits(record, [box EXCEPT !.step = next]) /\ UNCHANGED faults
    <2>1. Commits(record, With(box, next, box.done, box.held, box.dirty))
      BY <1>2, <1>3, Updates
    <2>2. QED
      BY <1>1, <1>2, <1>3, <2>1, CommitMoves DEF Commit, Apart
  <1>4. CASE CommitRaises(record, [box EXCEPT !.step = "raise"])
    <2>1. CommitRaises(record, With(box, "raise", box.done, box.held, box.dirty))
      BY <1>2, <1>4, Updates
    <2>2. QED
      BY <1>1, <1>2, <2>1, RaiseMoves DEF Raise, Apart
  <1>5. QED
    BY <1>3, <1>4 DEF PublishReceipt

LEMMA LoadIsTyped ==
  ASSUME TypeOK, box # None
  PROVE  Load \in Tasks \union {None}
  BY BoxIsTyped DEF Load

LEMMA LastIs == Last(variant) \in 0 .. 11
  BY DEF Last

LEMMA PublishSuccessStep ==
  ASSUME TypeOK, PublishSuccess
  PROVE  LET record == Receipt("success", box.call, Last(variant), box.held \ {"load"}, Load)
         IN  /\ Apart /\ Doing("terminal") /\ paid' = paid
             /\ \/ Commit("return", box.done, box.held, record)
                \/ Raise("raise", box.done, box.held, record)
             /\ record \in Records /\ record.kind = "success" /\ record.call = box.call
             /\ record.refers = box.held \ {"load"} /\ record.load = Load /\ record.done = Last(variant)
  <1>1. Doing("terminal") /\ box # None
    BY DEF PublishSuccess, Doing
  <1>2. /\ box.call \in Hosts /\ box.held \ {"load"} \in SUBSET Kinds /\ Load \in Tasks \union {None}
        /\ Last(variant) \in 0 .. 11 /\ "success" \in Outcomes /\ "return" \in Steps
    BY <1>1, BoxIsTyped, LoadIsTyped, LastIs DEF Outcomes, Steps
  <1> DEFINE record == Receipt("success", box.call, Last(variant), box.held \ {"load"}, Load)
  <1>3. /\ record \in Records /\ record.kind = "success" /\ record.call = box.call
        /\ record.refers = box.held \ {"load"} /\ record.load = Load /\ record.done = Last(variant)
    BY <1>2, MadeReceipts
  <1>4. PublishReceipt(record, "return")
    BY DEF PublishSuccess
  <1> HIDE DEF record
  <1>5. QED
    BY <1>1, <1>2, <1>3, <1>4, PublishReceiptStep DEF record

LEMMA RefersIs ==
  ASSUME TypeOK, box # None
  PROVE  Refers \in SUBSET Kinds
  <1>1. box.done \in Nat /\ box.held \subseteq Kinds \union {"load"}
    BY BoxIsTyped
  <1>2. SubjectsDone(box.done) \in SUBSET Kinds
    BY <1>1, Subjects DEF Kinds
  <1>3. QED
    BY <1>1, <1>2 DEF Refers

LEMMA PublishFailureStep ==
  ASSUME TypeOK, PublishFailure
  PROVE  LET record == Receipt("failure", box.call, box.done, Refers, Load)
         IN  /\ Apart /\ Doing("failing") /\ ~LoadUnknown /\ paid' = paid
             /\ Raise("raise", box.done, box.held, record)
             /\ record \in Records /\ record.kind = "failure" /\ record.call = box.call
             /\ record.refers = Refers /\ record.load = Load /\ record.done = box.done
  <1>1. Doing("failing") /\ box # None /\ ~LoadUnknown
    BY DEF PublishFailure, Doing
  <1>2. /\ box.call \in Hosts /\ Refers \in SUBSET Kinds /\ Load \in Tasks \union {None}
        /\ box.done \in 0 .. 11 /\ "failure" \in Outcomes /\ "raise" \in Steps
    BY <1>1, BoxIsTyped, LoadIsTyped, RefersIs DEF Outcomes, Steps
  <1> DEFINE record == Receipt("failure", box.call, box.done, Refers, Load)
  <1>3. /\ record \in Records /\ record.kind = "failure" /\ record.call = box.call
        /\ record.refers = Refers /\ record.load = Load /\ record.done = box.done
    BY <1>2, MadeReceipts
  <1>4. PublishReceipt(record, "raise")
    BY DEF PublishFailure
  <1> HIDE DEF record
  <1>5. Apart /\ paid' = paid /\ (\/ Commit("raise", box.done, box.held, record)
                                 \/ Raise("raise", box.done, box.held, record))
    BY <1>1, <1>2, <1>3, <1>4, PublishReceiptStep
  <1>6. Commit("raise", box.done, box.held, record) => Raise("raise", box.done, box.held, record)
    BY DEF Commit, Raise, Unsure
  <1>7. QED
    BY <1>1, <1>3, <1>5, <1>6 DEF record

\* The container is gone.
Gone ==
  /\ box # None /\ box' = None /\ UNCHANGED <<registry, paid>>
  /\ volume' \in {volume, volume \union box.dirty}
  /\ \E status \in {"failed", "queued", "returned"} : CallChanges(box.call, status)

LEMMA EndsGone ==
  ASSUME TypeOK, NEW status \in {"failed", "queued", "returned"}, EndBox(status),
         UNCHANGED <<registry, paid>>
  PROVE  Gone
  <1>1. /\ box # None /\ box' = None /\ volume' \in {volume, volume \union box.dirty}
        /\ call' = [call EXCEPT ![box.call].status = status] /\ status \in Statuses
    BY DEF EndBox, Statuses
  <1>2. CallChanges(box.call, status)
    BY <1>1, BoxIsTyped, StatusUpdate
  <1>3. QED
    BY <1>1, <1>2 DEF Gone

LEMMA LeaveStep ==
  ASSUME TypeOK, Leave
  PROVE  Apart /\ Gone
  BY EndsGone DEF Leave, CallFails, Apart

LEMMA KillStep ==
  ASSUME TypeOK, KillContainer \/ PreemptContainer
  PROVE  Apart /\ Gone
  BY EndsGone DEF KillContainer, PreemptContainer, Apart

LEMMA EndsStep ==
  ASSUME TypeOK, Ends
  PROVE  Gone
  BY EndsGone DEF Ends

LEMMA BackgroundStep ==
  ASSUME TypeOK, BackgroundCommit
  PROVE  /\ Apart /\ Moved(box.step, box.done, box.held)
         /\ box'.dirty = {} /\ volume' = volume \union box.dirty
         /\ UNCHANGED <<call, registry, paid>>
  <1>1. /\ box # None /\ box' = [box EXCEPT !.dirty = {}] /\ volume' = volume \union box.dirty
        /\ UNCHANGED <<appVars, hostVars, call, registry, paid, faults>>
    BY DEF BackgroundCommit
  <1>2. /\ box \in Boxes /\ box.held \in SUBSET (Kinds \union {"load"})
        /\ box.step \in Steps /\ box.done \in 0 .. 11 /\ {} \in SUBSET Records
    BY <1>1, BoxIsTyped
  <1>3. box' = With(box, box.step, box.done, box.held, {})
    BY <1>1, <1>2, Updates
  <1>4. box' \in Boxes /\ box'.call = box.call /\ box'.task = box.task /\ box'.step = box.step
        /\ box'.done = box.done /\ box'.held = box.held /\ box'.dirty = {}
    BY <1>2, <1>3, WithFacts
  <1>5. QED
    BY <1>1, <1>2, <1>4, MarkerAssumption DEF Moved, Apart

LEMMA StartStep ==
  ASSUME TypeOK, NEW h \in Hosts, StartContainer(h)
  PROVE  /\ UNCHANGED <<appVars, hostVars, registry, volume, paid, faults>>
         /\ box = None /\ box' # None /\ box' \in Boxes /\ box'.call = h
         /\ box'.step = "load" /\ box'.done = 0 /\ box'.held = {} /\ box'.dirty = {}
         /\ call[h].status = "queued" /\ CallChanges(h, "running")
  <1> DEFINE new == [call |-> h, task |-> call[h].starts + 1, step |-> "load", done |-> 0,
                     held |-> {}, dirty |-> {}]
  <1>1. call \in [Hosts -> CallRecords] /\ call[h].starts \in Nat /\ call[h].starts < MaxStarts
    BY DEF TypeOK, CallRecords, StartContainer
  <1>2. call[h].starts + 1 \in Tasks
    BY <1>1, EvidenceAssumption DEF Tasks
  <1>3. new \in Boxes
    BY <1>2 DEF Boxes, Steps
  <1>4. new # None
    BY <1>3, MarkerAssumption
  <1>5. CallChanges(h, "running")
    <2>1. call' = [call EXCEPT ![h].status = "running", ![h].starts = @ + 1]
      BY DEF StartContainer
    <2>2. call' = [call EXCEPT ![h] = [status |-> "running", cancel |-> call[h].cancel,
                                       starts |-> call[h].starts + 1]]
      <3>1. call[h] = [status |-> call[h].status, cancel |-> call[h].cancel, starts |-> call[h].starts]
        BY <1>1 DEF CallRecords
      <3>2. QED
        BY <1>1, <2>1, <3>1
    <2>3. [status |-> "running", cancel |-> call[h].cancel, starts |-> call[h].starts + 1] \in CallRecords
      BY <1>1, EvidenceAssumption DEF CallRecords, Statuses
    <2>4. QED
      BY <1>1, <2>2, <2>3 DEF CallChanges
  <1>6. box' = new
    BY DEF StartContainer
  <1>7. QED
    BY <1>3, <1>4, <1>5, <1>6 DEF StartContainer

LEMMA CancelQueuedStep ==
  ASSUME TypeOK, NEW h \in Hosts, CancelQueued(h)
  PROVE  /\ UNCHANGED <<appVars, hostVars, box, registry, volume, paid, faults>>
         /\ call[h].status = "queued" /\ CallChanges(h, "failed")
  BY StatusUpdate DEF CancelQueued, Statuses

LEMMA OrphanStep ==
  ASSUME TypeOK, CallInv, OrphanBuilds
  PROVE  /\ UNCHANGED <<hostVars, remoteVars, faults>>
         /\ versions' \in Nat /\ orphans' \in 0 .. MaxFaults /\ orphans' <= faults'
  BY AttemptAssumption DEF OrphanBuilds, TypeOK, CallInv

-----------------------------------------------------------------------------
(* The frame of a container's step: types, hosts and calls.                 *)

LEMMA ApartTypes ==
  ASSUME TypeOK, CallInv, Apart, UNCHANGED variant, box' = None \/ box' \in Boxes,
         call' \in [Hosts -> CallRecords], volume' \subseteq Records, paid' \subseteq Hosts \X Tasks,
         registry' = None \/ \E h \in Hosts, t \in Tasks : registry' = Claim(h, t)
  PROVE  TypeOK' /\ orphans' <= faults'
  <1>1. faults' \in 0 .. MaxFaults /\ faults <= faults'
    BY FaultType DEF Apart
  <1>2. /\ versions' \in Nat /\ orphans' \in 0 .. MaxFaults
        /\ local' \in [Hosts -> [LocalRecords -> {"absent", "torn", "whole"}]]
        /\ manager' \in [Hosts -> Positions]
    BY DEF TypeOK, Apart, appVars, hostVars
  <1>3. orphans' <= faults'
    BY <1>1, AttemptAssumption DEF TypeOK, CallInv, Apart, appVars
  <1>4. variant' \in Variants
    BY DEF TypeOK
  <1>5. QED
    BY <1>1, <1>2, <1>3, <1>4 DEF TypeOK, CallRecords

LEMMA HostsStay ==
  ASSUME HostInv, UNCHANGED hostVars,
         \A h \in Hosts : call[h].status = "none" => call'[h].status = "none"
  PROVE  HostInv'
  BY DEF HostInv, LaunchesOnce, LaunchConsumed, hostVars

LEMMA MovedFrame ==
  ASSUME MeasurementInv, UNCHANGED variant, Apart, call' = call,
         NEW s, NEW done, NEW held, Moved(s, done, held), volume' \subseteq Records,
         registry' \in {registry, Me}, paid' \in {paid, paid \union {<<box.call, box.task>>}}
  PROVE  TypeOK' /\ HostInv' /\ CallInv'
  <1>1. /\ box # None /\ box' # None /\ box' \in Boxes /\ box'.call = box.call
        /\ box.call \in Hosts /\ box.task \in Tasks
    BY BoxIsTyped DEF Moved, MeasurementInv
  <1>2. call' \in [Hosts -> CallRecords]
    BY DEF MeasurementInv, TypeOK, CallRecords
  <1>3. paid' \subseteq Hosts \X Tasks
    BY <1>1 DEF MeasurementInv, TypeOK
  <1>4. registry' = None \/ \E h \in Hosts, t \in Tasks : registry' = Claim(h, t)
    BY <1>1 DEF MeasurementInv, TypeOK, Me
  <1>5. TypeOK' /\ orphans' <= faults'
    BY <1>1, <1>2, <1>3, <1>4, ApartTypes DEF MeasurementInv
  <1>6. HostInv'
    BY HostsStay DEF MeasurementInv, Apart
  <1>7. CallInv'
    BY <1>1, <1>5 DEF MeasurementInv, CallInv
  <1>8. QED
    BY <1>5, <1>6, <1>7

\* What a move may bring to the volume.
LEMMA KeptKnown ==
  ASSUME NEW s, NEW done, NEW held, Moved(s, done, held), Kept
  PROVE  Known' = Known
  BY DEF Moved, Kept, Known

LEMMA UnsureKnown ==
  ASSUME NEW s, NEW done, NEW held, Moved(s, done, held), NEW record, Unsure(record)
  PROVE  /\ volume \subseteq volume' /\ volume' \subseteq Known'
         /\ Known' \subseteq Known \union {record}
         /\ volume' = volume \/ (volume' = Known \union {record} /\ Known' = volume' /\ box'.dirty = {})
  BY DEF Moved, Unsure, Committed, Known

LEMMA CommittedKnown ==
  ASSUME NEW s, NEW done, NEW held, Moved(s, done, held), NEW record, Committed(record)
  PROVE  /\ Unsure(record) /\ box'.dirty = {}
         /\ volume' = Known \union {record} /\ Known' = volume'
  BY DEF Moved, Unsure, Committed, Known

LEMMA KnownRecords ==
  ASSUME TypeOK
  PROVE  Known \subseteq Records
  <1>1. box # None => box.dirty \subseteq Records
    BY BoxIsTyped
  <1>2. QED
    BY <1>1 DEF Known, TypeOK

LEMMA KeptPlain ==
  ASSUME NEW s, NEW done, NEW held, Moved(s, done, held), Kept, UNCHANGED <<variant, registry>>
  PROVE  PlainStep
  <1>1. Known' = Known /\ volume' = volume
    BY KeptKnown DEF Kept
  <1>2. QED
    BY <1>1, VolumeIsKnown DEF PlainStep

LEMMA UnsurePlain ==
  ASSUME NEW s, NEW done, NEW held, Moved(s, done, held), NEW record, Unsure(record), Plain(record),
         UNCHANGED <<variant, registry>>
  PROVE  PlainStep
  BY UnsureKnown DEF PlainStep

\* A container behind the claim stays there.
LEMMA MovedBox ==
  ASSUME BoxInv, NEW s, NEW done, NEW held, Moved(s, done, held), box.step \notin Early,
         volume \subseteq volume', UNCHANGED <<variant, registry>>,
         s \in {"failing", "raise"} \/ box'.dirty = {}
  PROVE  BoxInv'
  <1>1. /\ box # None /\ box' # None /\ box'.call = box.call /\ box'.task = box.task /\ box'.step = s
    BY DEF Moved
  <1>2. /\ Acceptance(box.call) \in volume /\ registry # None /\ Owner = box.call
        /\ variant = "measurement" => registry = Me
    BY <1>1 DEF BoxInv, Early
  <1>3. QED
    BY <1>1, <1>2 DEF BoxInv, Owner, Me

\* The records part of the invariant, for a step that adds plain records.
RecordsInv == OwnerInv /\ PaidInv /\ ReceiptInv

LEMMA PlainRecords ==
  ASSUME RecordsInv, PlainStep, paid' = paid
  PROVE  RecordsInv'
  <1>1. registry = None => paid' = {}
    BY DEF RecordsInv, OwnerInv
  <1>2. OwnerInv'
    BY <1>1, PlainOwner DEF RecordsInv
  <1>3. PaidInv'
    BY PlainPaid DEF RecordsInv
  <1>4. ReceiptInv'
    BY PlainReceipts DEF RecordsInv
  <1>5. QED
    BY <1>2, <1>3, <1>4 DEF RecordsInv

LEMMA InvParts ==
  MeasurementInv <=> TypeOK /\ HostInv /\ CallInv /\ RecordsInv /\ BoxInv /\ ProgressInv
  BY DEF MeasurementInv, RecordsInv

\* A move that brings nothing but a plain record.
LEMMA MovesKeep ==
  ASSUME MeasurementInv, UNCHANGED variant, Apart, NEW s, NEW done, NEW held, Moves(s, done, held),
         BoxInv', ProgressInv'
  PROVE  MeasurementInv'
  <1>1. Moved(s, done, held) /\ Kept /\ UNCHANGED <<call, registry, paid>>
    BY DEF Moves
  <1>2. PlainStep /\ volume' \subseteq Records
    BY <1>1, KeptPlain DEF Kept, MeasurementInv, TypeOK
  <1>3. TypeOK' /\ HostInv' /\ CallInv'
    BY <1>1, <1>2, MovedFrame
  <1>4. RecordsInv'
    BY <1>1, <1>2, PlainRecords, InvParts
  <1>5. (TypeOK /\ HostInv /\ CallInv /\ RecordsInv /\ BoxInv /\ ProgressInv)'
    BY <1>3, <1>4
  <1>6. QED
    BY <1>5, InvParts, PTL

LEMMA UnsureKeeps ==
  ASSUME MeasurementInv, UNCHANGED <<variant, call, registry>>, Apart, NEW s, NEW done, NEW held,
         NEW record \in Records, Moved(s, done, held), Unsure(record),
         paid' \in {paid, paid \union {<<box.call, box.task>>}},
         RecordsInv', BoxInv', ProgressInv'
  PROVE  MeasurementInv'
  <1>1. volume' \subseteq Records
    BY UnsureKnown, KnownRecords DEF MeasurementInv, TypeOK
  <1>2. TypeOK' /\ HostInv' /\ CallInv'
    BY <1>1, MovedFrame
  <1>3. (TypeOK /\ HostInv /\ CallInv /\ RecordsInv /\ BoxInv /\ ProgressInv)'
    BY <1>2
  <1>4. QED
    BY <1>3, InvParts, PTL

-----------------------------------------------------------------------------
(* The end of a container, and what the provider does.                      *)

LEMMA GoneKeeps ==
  ASSUME MeasurementInv, UNCHANGED variant, Apart, Gone
  PROVE  MeasurementInv'
  <1>1. /\ box # None /\ box' = None /\ UNCHANGED <<registry, paid>>
        /\ volume' \in {volume, volume \union box.dirty}
    BY DEF Gone
  <1>2. PlainStep
    BY <1>1 DEF PlainStep, Known
  <1>3. PICK status \in {"failed", "queued", "returned"} : CallChanges(box.call, status)
    BY DEF Gone
  <1>4. volume' \subseteq Records
    BY <1>1, BoxIsTyped DEF MeasurementInv, TypeOK
  <1>5. TypeOK' /\ orphans' <= faults'
    BY <1>1, <1>3, <1>4, ApartTypes DEF MeasurementInv, TypeOK, CallChanges
  <1>6. HostInv'
    <2>1. \A h \in Hosts : call[h].status = "none" => call'[h].status = "none"
      BY <1>1, <1>3 DEF CallChanges, MeasurementInv, CallInv
    <2>2. QED
      BY <2>1, HostsStay DEF MeasurementInv, Apart
  <1>7. CallInv'
    BY <1>1, <1>5 DEF CallInv
  <1>8. RecordsInv'
    BY <1>1, <1>2, PlainRecords, InvParts
  <1>9. BoxInv' /\ ProgressInv'
    BY <1>1 DEF BoxInv, ProgressInv
  <1>10. (TypeOK /\ HostInv /\ CallInv /\ RecordsInv /\ BoxInv /\ ProgressInv)'
    BY <1>5, <1>6, <1>7, <1>8, <1>9
  <1>11. QED
    BY <1>10, InvParts, PTL

LEMMA BackgroundKeeps ==
  ASSUME MeasurementInv, UNCHANGED variant, BackgroundCommit
  PROVE  MeasurementInv'
  <1>1. /\ Apart /\ Moved(box.step, box.done, box.held)
        /\ box'.dirty = {} /\ volume' = volume \union box.dirty
        /\ UNCHANGED <<call, registry, paid>>
    BY BackgroundStep DEF MeasurementInv
  <1>2. PlainStep /\ BoxStays
    BY <1>1 DEF PlainStep, Known, Moved, BoxStays
  <1>3. volume' \subseteq Records
    BY <1>1, BoxIsTyped DEF MeasurementInv, TypeOK, Moved
  <1>4. TypeOK' /\ HostInv' /\ CallInv'
    BY <1>1, <1>3, MovedFrame
  <1>5. RecordsInv' /\ BoxInv' /\ ProgressInv'
    BY <1>1, <1>2, PlainRecords, StaysBox, StaysInProgress, InvParts
  <1>6. (TypeOK /\ HostInv /\ CallInv /\ RecordsInv /\ BoxInv /\ ProgressInv)'
    BY <1>4, <1>5
  <1>7. QED
    BY <1>6, InvParts, PTL

LEMMA StartKeeps ==
  ASSUME MeasurementInv, UNCHANGED variant, NEW h \in Hosts, StartContainer(h)
  PROVE  MeasurementInv'
  <1>1. /\ UNCHANGED <<appVars, hostVars, registry, volume, paid, faults>>
        /\ box = None /\ box' # None /\ box' \in Boxes /\ box'.call = h
        /\ box'.step = "load" /\ box'.done = 0 /\ box'.held = {} /\ box'.dirty = {}
        /\ call[h].status = "queued" /\ CallChanges(h, "running")
    BY StartStep DEF MeasurementInv
  <1>2. PlainStep
    BY <1>1 DEF PlainStep, Known
  <1>3. TypeOK' /\ orphans' <= faults'
    BY <1>1, ApartTypes DEF MeasurementInv, TypeOK, Apart, CallChanges
  <1>4. HostInv'
    <2>1. \A g \in Hosts : call[g].status = "none" => call'[g].status = "none"
      BY <1>1 DEF CallChanges
    <2>2. QED
      BY <1>1, <2>1, HostsStay DEF MeasurementInv
  <1>5. CallInv'
    BY <1>1, <1>3 DEF CallInv, CallChanges
  <1>6. RecordsInv'
    BY <1>1, <1>2, PlainRecords, InvParts
  <1>7. BoxInv'
    BY <1>1 DEF BoxInv, Early
  <1>8. ProgressInv'
    BY <1>1 DEF ProgressInv, MeasurementProgress, DiagnosticProgress, Working
  <1>9. (TypeOK /\ HostInv /\ CallInv /\ RecordsInv /\ BoxInv /\ ProgressInv)'
    BY <1>3, <1>4, <1>5, <1>6, <1>7, <1>8
  <1>10. QED
    BY <1>9, InvParts, PTL

\* A step that leaves the container, the records and the claim alone.
LEMMA AsideKeeps ==
  ASSUME MeasurementInv, TypeOK', HostInv', CallInv',
         UNCHANGED <<variant, box, registry, volume, paid>>
  PROVE  MeasurementInv'
  <1>1. PlainStep /\ BoxStays
    BY VolumeIsKnown DEF PlainStep, BoxStays, Known
  <1>2. RecordsInv' /\ BoxInv' /\ ProgressInv'
    BY <1>1, PlainRecords, StaysBox, StaysInProgress, InvParts
  <1>3. (TypeOK /\ HostInv /\ CallInv /\ RecordsInv /\ BoxInv /\ ProgressInv)'
    BY <1>2
  <1>4. QED
    BY <1>3, InvParts, PTL

LEMMA CancelQueuedKeeps ==
  ASSUME MeasurementInv, UNCHANGED variant, NEW h \in Hosts, CancelQueued(h)
  PROVE  MeasurementInv'
  <1>1. /\ UNCHANGED <<appVars, hostVars, box, registry, volume, paid, faults>>
        /\ call[h].status = "queued" /\ CallChanges(h, "failed")
    BY CancelQueuedStep DEF MeasurementInv
  <1>2. TypeOK' /\ orphans' <= faults'
    BY <1>1, ApartTypes DEF MeasurementInv, TypeOK, Apart, CallChanges
  <1>3. HostInv'
    <2>1. \A g \in Hosts : call[g].status = "none" => call'[g].status = "none"
      BY <1>1 DEF CallChanges
    <2>2. QED
      BY <1>1, <2>1, HostsStay DEF MeasurementInv
  <1>4. CallInv'
    <2>1. box # None => call[box.call].status = "running" /\ box.call \in Hosts
      BY BoxIsTyped DEF MeasurementInv, CallInv
    <2>2. box # None => call'[box.call].status = "running"
      BY <1>1, <2>1 DEF CallChanges
    <2>3. QED
      BY <1>1, <1>2, <2>2 DEF CallInv
  <1>5. QED
    BY <1>1, <1>2, <1>3, <1>4, AsideKeeps

LEMMA OrphanKeeps ==
  ASSUME MeasurementInv, UNCHANGED variant, OrphanBuilds
  PROVE  MeasurementInv'
  <1>1. /\ UNCHANGED <<hostVars, remoteVars, faults>>
        /\ versions' \in Nat /\ orphans' \in 0 .. MaxFaults /\ orphans' <= faults'
    BY OrphanStep DEF MeasurementInv
  <1>2. TypeOK'
    BY <1>1 DEF MeasurementInv, TypeOK, hostVars, remoteVars
  <1>3. HostInv'
    BY <1>1, HostsStay DEF MeasurementInv, remoteVars
  <1>4. CallInv'
    BY <1>1 DEF MeasurementInv, CallInv, remoteVars
  <1>5. QED
    BY <1>1, <1>2, <1>3, <1>4, AsideKeeps DEF remoteVars

-----------------------------------------------------------------------------
(* The container's steps keep the invariant.                                *)

LEMMA EndsKeep ==
  ASSUME MeasurementInv, UNCHANGED variant, Apart, Ends
  PROVE  MeasurementInv'
  BY EndsStep, GoneKeeps DEF MeasurementInv

LEMMA LoadIntentKeeps ==
  ASSUME MeasurementInv, UNCHANGED variant, LoadIntent
  PROVE  MeasurementInv'
  <1>1. Apart /\ ((Doing("load") /\ Moves("wait", box.done, box.held)) \/ Ends)
    BY LoadIntentStep DEF MeasurementInv
  <1>2. CASE Doing("load") /\ Moves("wait", box.done, box.held)
    <2>1. BoxInv'
      BY <1>2 DEF MeasurementInv, BoxInv, Doing, Moves, Moved, Kept, Early
    <2>2. ProgressInv'
      BY <1>2 DEF MeasurementInv, ProgressInv, MeasurementProgress, DiagnosticProgress, Doing, Moves,
                  Moved, Early, Working
    <2>3. QED
      BY <1>1, <1>2, <2>1, <2>2, MovesKeep
  <1>3. QED
    BY <1>1, <1>2, EndsKeep

LEMMA WaitKeeps ==
  ASSUME MeasurementInv, UNCHANGED variant, WaitForAcceptance
  PROVE  MeasurementInv'
  <1>1. /\ Apart
        /\ \/ Doing("wait") /\ Moves("claim", box.done, box.held) /\ Acceptance(box.call) \in volume
           \/ Ends
    BY WaitStep DEF MeasurementInv
  <1>2. CASE Doing("wait") /\ Moves("claim", box.done, box.held) /\ Acceptance(box.call) \in volume
    <2>1. BoxInv'
      BY <1>2 DEF MeasurementInv, BoxInv, Doing, Moves, Moved, Kept, Early
    <2>2. ProgressInv'
      BY <1>2 DEF MeasurementInv, ProgressInv, MeasurementProgress, DiagnosticProgress, Doing, Moves,
                  Moved, Early, Working
    <2>3. QED
      BY <1>1, <1>2, <2>1, <2>2, MovesKeep
  <1>3. QED
    BY <1>1, <1>2, EndsKeep

\* The put: until then nothing but intents and acceptances is known.
LEMMA PutRecords ==
  ASSUME MeasurementInv, UNCHANGED variant, Doing("claim"), registry = None, registry' = Me,
         paid' = paid, volume \subseteq volume', volume' \subseteq Known', Known' \subseteq Known
  PROVE  RecordsInv' /\ NoReceipts' /\ paid' = {}
  <1>1. paid' = {} /\ \A r \in Known' : r.kind \in {"intent", "acceptance"}
    BY DEF MeasurementInv, OwnerInv
  <1>2. /\ box # None /\ box.call \in Hosts /\ box.task \in Tasks /\ Acceptance(box.call) \in volume
    BY BoxIsTyped DEF MeasurementInv, BoxInv, Doing
  <1>3. registry' # None /\ registry'.call = box.call
    BY <1>2, MadeRecords, MarkerAssumption DEF Me
  <1>4. OwnerInv'
    BY <1>1, <1>2, <1>3 DEF OwnerInv, Owner, Outcomes
  <1>5. PaidInv'
    BY <1>1 DEF PaidInv, OfKind, NoLoads
  <1>6. NoReceipts' /\ ReceiptInv'
    BY <1>1 DEF NoReceipts, ReceiptInv, Outcomes
  <1>7. QED
    BY <1>1, <1>4, <1>5, <1>6 DEF RecordsInv

LEMMA ClaimKeeps ==
  ASSUME MeasurementInv, UNCHANGED variant, ClaimAttempt
  PROVE  MeasurementInv'
  <1>1. /\ Apart /\ Doing("claim")
        /\ \/ /\ registry = None /\ registry' = Me /\ Moved("durable", box.done, box.held) /\ Kept
              /\ UNCHANGED <<call, paid>>
           \/ registry = None /\ registry' \in {None, Me} /\ EndBox("failed") /\ UNCHANGED paid
           \/ /\ registry # None /\ variant = "diagnostic" /\ Owner = box.call
              /\ Moves("durable", box.done, box.held)
           \/ Ends
    BY ClaimStep DEF MeasurementInv
  <1>2. /\ box # None /\ box.call \in Hosts /\ box.task \in Tasks /\ box \in Boxes
        /\ Acceptance(box.call) \in volume /\ box.dirty = {} /\ box.done = 0 /\ box.held = {}
    BY <1>1, BoxIsTyped DEF MeasurementInv, BoxInv, ProgressInv, Doing, Early
  <1>3. CASE /\ registry = None /\ registry' = Me /\ Moved("durable", box.done, box.held) /\ Kept
             /\ UNCHANGED <<call, paid>>
    <2>1. RecordsInv' /\ NoReceipts' /\ paid' = {}
      <3>1. Known' = Known /\ volume' = volume
        BY <1>3, KeptKnown DEF Kept
      <3>2. QED
        BY <1>1, <1>3, <3>1, PutRecords, VolumeIsKnown
    <2>2. registry' # None /\ registry'.call = box.call
      BY <1>2, <1>3, MadeRecords, MarkerAssumption DEF Me
    <2>3. BoxInv'
      BY <1>2, <1>3, <2>2 DEF BoxInv, Moved, Kept, Owner, Me
    <2>4. ProgressInv'
      BY <1>2, <1>3, <2>1 DEF ProgressInv, MeasurementProgress, DiagnosticProgress, Moved, Working
    <2>5. TypeOK' /\ HostInv' /\ CallInv'
      BY <1>1, <1>3, MovedFrame DEF Kept, MeasurementInv, TypeOK
    <2>6. (TypeOK /\ HostInv /\ CallInv /\ RecordsInv /\ BoxInv /\ ProgressInv)'
      BY <2>1, <2>3, <2>4, <2>5
    <2>7. QED
      BY <2>6, InvParts, PTL
  <1>4. CASE registry = None /\ registry' = Me /\ EndBox("failed") /\ UNCHANGED paid
    <2>1. /\ box' = None /\ volume' = volume
          /\ call' = [call EXCEPT ![box.call].status = "failed"]
      BY <1>2, <1>4 DEF EndBox
    <2>2. Known' = volume'
      BY <2>1 DEF Known
    <2>3. RecordsInv'
      BY <1>1, <1>4, <2>1, <2>2, PutRecords, VolumeIsKnown
    <2>4. CallChanges(box.call, "failed")
      BY <1>2, <2>1, StatusUpdate DEF MeasurementInv, Statuses
    <2>5. TypeOK' /\ orphans' <= faults'
      BY <1>1, <1>2, <1>4, <2>1, <2>4, ApartTypes DEF MeasurementInv, TypeOK, CallChanges, Me
    <2>6. HostInv'
      <3>1. \A h \in Hosts : call[h].status = "none" => call'[h].status = "none"
        BY <1>2, <2>4 DEF CallChanges, MeasurementInv, CallInv
      <3>2. QED
        BY <1>1, <3>1, HostsStay DEF MeasurementInv, Apart
    <2>7. CallInv' /\ BoxInv' /\ ProgressInv'
      BY <2>1, <2>5 DEF CallInv, BoxInv, ProgressInv
    <2>8. (TypeOK /\ HostInv /\ CallInv /\ RecordsInv /\ BoxInv /\ ProgressInv)'
      BY <2>3, <2>5, <2>6, <2>7
    <2>9. QED
      BY <2>8, InvParts, PTL
  <1>5. CASE registry = None /\ registry' = None /\ EndBox("failed") /\ UNCHANGED paid
    BY <1>1, <1>5, EndsKeep DEF Ends
  <1>6. CASE /\ registry # None /\ variant = "diagnostic" /\ Owner = box.call
             /\ Moves("durable", box.done, box.held)
    <2>1. BoxInv'
      BY <1>2, <1>6 DEF BoxInv, Moves, Moved, Kept, Owner, Me
    <2>2. ProgressInv'
      BY <1>2, <1>6 DEF ProgressInv, DiagnosticProgress, Moves, Moved, Working
    <2>3. QED
      BY <1>1, <1>6, <2>1, <2>2, MovesKeep
  <1>7. QED
    BY <1>1, <1>3, <1>4, <1>5, <1>6, EndsKeep

LEMMA Behind ==
  ASSUME MeasurementInv, box # None, box.step \notin Early
  PROVE  /\ registry # None /\ Owner = box.call /\ registry \in Records /\ Plain(registry)
         /\ box.call \in Hosts /\ box.task \in Tasks /\ registry.kind = "claim"
         /\ \A what \in Kinds : Plain(Supporting(box.call, what)) /\ Supporting(box.call, what) \in Records
  <1>1. registry # None /\ Owner = box.call
    BY DEF MeasurementInv, BoxInv
  <1>2. registry \in Records /\ registry.kind = "claim"
    BY <1>1, RegistryRecord DEF MeasurementInv
  <1>3. box.call \in Hosts /\ box.task \in Tasks
    BY BoxIsTyped DEF MeasurementInv
  <1>4. QED
    BY <1>1, <1>2, <1>3, MadeRecords DEF Plain

LEMMA PublishClaimKeeps ==
  ASSUME MeasurementInv, UNCHANGED variant, PublishClaim
  PROVE  MeasurementInv'
  <1>1. /\ Apart /\ Doing("durable")
        /\ \/ /\ variant = "diagnostic" /\ Commit("unused", box.done, box.held, registry) /\ paid' = paid
           \/ /\ variant = "measurement" /\ Commit("work", box.done, box.held, registry)
              /\ paid' = paid \union {<<box.call, box.task>>}
           \/ Raise("raise", box.done, box.held, registry) /\ paid' = paid
    BY PublishClaimStep DEF MeasurementInv
  <1>2. /\ box # None /\ box.step = "durable" /\ box.done = 0 /\ box.held = {}
        /\ registry # None /\ Owner = box.call /\ registry \in Records /\ Plain(registry)
        /\ box.step \notin Early
    BY <1>1, Behind DEF MeasurementInv, ProgressInv, Doing, Early
  <1>3. CASE variant = "diagnostic" /\ Commit("unused", box.done, box.held, registry) /\ paid' = paid
    <2>1. /\ Moved("unused", box.done, box.held) /\ Committed(registry) /\ Unsure(registry)
          /\ UNCHANGED <<call, registry>> /\ registry \in volume' /\ volume \subseteq volume'
          /\ box'.dirty = {}
      BY <1>3, CommittedKnown, VolumeIsKnown DEF Commit
    <2>2. PlainStep
      BY <1>2, <2>1, UnsurePlain
    <2>3. RecordsInv' /\ BoxInv'
      BY <1>2, <1>3, <2>1, <2>2, PlainRecords, MovedBox, InvParts
    <2>4. ProgressInv'
      BY <1>2, <1>3, <2>1 DEF ProgressInv, DiagnosticProgress, Moved, Working
    <2>5. QED
      BY <1>1, <1>2, <1>3, <2>1, <2>3, <2>4, UnsureKeeps
  <1>4. CASE /\ variant = "measurement" /\ Commit("work", box.done, box.held, registry)
             /\ paid' = paid \union {<<box.call, box.task>>}
    <2>1. /\ Moved("work", box.done, box.held) /\ Committed(registry) /\ Unsure(registry)
          /\ UNCHANGED <<call, registry>> /\ registry \in volume' /\ volume \subseteq volume'
          /\ box'.dirty = {}
      BY <1>4, CommittedKnown, VolumeIsKnown DEF Commit
    <2>2. PlainStep
      BY <1>2, <2>1, UnsurePlain
    <2>3. /\ paid = {} /\ paid' = {<<box.call, box.task>>} /\ NoReceipts /\ NoLoads
          /\ registry = Me
      BY <1>2, <1>4 DEF MeasurementInv, ProgressInv, PaidInv, BoxInv
    <2>4. NoReceipts' /\ NoLoads'
      BY <2>2, <2>3, PlainFacts
    <2>5. OwnerInv'
      BY <1>2, <2>2, PlainOwner DEF MeasurementInv
    <2>6. PaidInv'
      <3>1. /\ registry'.call = box.call /\ registry'.task = box.task
        BY <1>2, <2>1, <2>3, MadeRecords, BoxIsTyped DEF Me, MeasurementInv
      <3>2. \A l, m \in OfKind(Known, "load")' : l = m
        BY <2>4 DEF NoLoads, OfKind
      <3>3. QED
        BY <1>2, <1>4, <2>1, <2>3, <2>4, <3>1, <3>2 DEF PaidInv, Owner
    <2>7. ReceiptInv'
      BY <2>4 DEF ReceiptInv, NoReceipts
    <2>8. RecordsInv' /\ BoxInv'
      BY <1>2, <2>1, <2>5, <2>6, <2>7, MovedBox, InvParts DEF RecordsInv
    <2>9. ProgressInv'
      <3>1. SubjectsDone(0) = {}
        BY Subjects
      <3>2. QED
        BY <1>2, <1>4, <2>1, <2>3, <2>4, <3>1 DEF ProgressInv, MeasurementProgress, Moved, Working, Early, Last
    <2>10. QED
      BY <1>1, <1>2, <1>4, <2>1, <2>8, <2>9, UnsureKeeps
  <1>5. CASE Raise("raise", box.done, box.held, registry) /\ paid' = paid
    <2>1. /\ Moved("raise", box.done, box.held) /\ Unsure(registry)
          /\ UNCHANGED <<call, registry>> /\ volume \subseteq volume'
      BY <1>5, UnsureKnown DEF Raise
    <2>2. PlainStep
      BY <1>2, <2>1, UnsurePlain
    <2>3. RecordsInv' /\ BoxInv'
      BY <1>2, <1>5, <2>1, <2>2, PlainRecords, MovedBox, InvParts
    <2>4. ProgressInv'
      BY <2>1 DEF ProgressInv, MeasurementProgress, DiagnosticProgress, Moved, Working, Early
    <2>5. QED
      BY <1>1, <1>2, <1>5, <2>1, <2>3, <2>4, UnsureKeeps
  <1>6. QED
    BY <1>1, <1>3, <1>4, <1>5

LEMMA CheckUnusedKeeps ==
  ASSUME MeasurementInv, UNCHANGED variant, CheckUnused
  PROVE  MeasurementInv'
  <1>1. /\ Apart /\ Doing("unused")
        /\ \/ Moves("work", box.done, box.held) /\ Unused(volume)
           \/ Ends
    BY CheckUnusedStep DEF MeasurementInv
  <1>2. CASE Moves("work", box.done, box.held) /\ Unused(volume)
    <2>1. /\ Moved("work", box.done, box.held) /\ Kept /\ UNCHANGED <<registry, paid>>
          /\ box # None /\ box.step = "unused" /\ box.step \notin Early
          /\ box.done = 0 /\ box.held = {} /\ box.dirty = {} /\ box'.dirty = {} /\ registry \in volume
      BY <1>1, <1>2 DEF Moves, Doing, Early, MeasurementInv, ProgressInv, BoxInv, Kept
    <2>2. Known' = volume /\ volume' = volume
      BY <2>1, KeptKnown DEF Known, Kept
    <2>3. NoReceipts' /\ NoLoads'
      BY <1>2, <2>2 DEF Unused, NoReceipts, NoLoads, OfKind, Receipts, Outcomes
    <2>4. variant = "diagnostic"
      BY <2>1, VariantIs DEF MeasurementInv, ProgressInv, MeasurementProgress
    <2>5. BoxInv'
      BY <2>1, <2>2, MovedBox DEF MeasurementInv
    <2>6. ProgressInv'
      BY <2>1, <2>2, <2>3, <2>4 DEF ProgressInv, DiagnosticProgress, Moved, Early, Last, Working
    <2>7. QED
      BY <1>1, <1>2, <2>5, <2>6, MovesKeep
  <1>3. QED
    BY <1>1, <1>2, EndsKeep

\* What is so of a container at work.
LEMMA AtWork ==
  ASSUME MeasurementInv, box # None, box.step \in Working
  PROVE  /\ box.step \notin Early /\ registry \in volume /\ NoReceipts /\ box.done < Last(variant)
         /\ box.done \in 0 .. 11
         /\ variant = "measurement" => MeasurementProgress
         /\ variant = "diagnostic" => DiagnosticProgress
         /\ box.step # "failing" => box.dirty = {}
  BY BoxIsTyped DEF MeasurementInv, ProgressInv, BoxInv, Working, Early

\* A move within the work that publishes a supporting record, or nothing.
LEMMA WorkMoves ==
  ASSUME MeasurementInv, UNCHANGED <<variant, registry, paid>>, box # None, box.step \in Working,
         NEW s \in Working \union {"raise"}, NEW done, NEW held, Moved(s, done, held),
         \/ Kept
         \/ \E what \in Kinds : Unsure(Supporting(box.call, what)),
         s \in {"failing", "raise"} \/ box'.dirty = {}
  PROVE  /\ PlainStep /\ RecordsInv' /\ BoxInv' /\ volume \subseteq volume'
         /\ registry' \in volume' /\ NoReceipts' /\ (NoLoads => NoLoads')
         /\ box' # None /\ box'.call = box.call /\ box'.task = box.task
         /\ box'.step = s /\ box'.done = done /\ box'.held = held
  <1>1. box.step \notin Early /\ registry \in volume /\ NoReceipts
    BY AtWork
  <1>2. \A what \in Kinds : Plain(Supporting(box.call, what))
    BY <1>1, Behind
  <1>3. PlainStep
    BY <1>2, KeptPlain, UnsurePlain
  <1>4. volume \subseteq volume' /\ NoReceipts' /\ (NoLoads => NoLoads')
    BY <1>1, <1>3, PlainFacts DEF PlainStep
  <1>5. RecordsInv'
    BY <1>3, PlainRecords, InvParts
  <1>6. BoxInv'
    BY <1>1, <1>4, MovedBox DEF MeasurementInv
  <1>7. QED
    BY <1>1, <1>3, <1>4, <1>5, <1>6 DEF Moved

LEMMA WorkStageKeeps ==
  ASSUME MeasurementInv, UNCHANGED variant, WorkStage
  PROVE  MeasurementInv'
  <1>1. /\ Apart /\ Doing("work") /\ Moves("work", box.done + 1, box.held)
        /\ variant = "measurement" => box.done \in 0 .. 9 /\ box.done \notin {4, 8}
        /\ variant = "diagnostic" => box.done \in 0 .. 5 /\ box.done # 3
    BY WorkStageStep DEF MeasurementInv
  <1>2. /\ Moved("work", box.done + 1, box.held) /\ Kept /\ UNCHANGED <<registry, paid>>
        /\ box # None /\ box.step = "work" /\ box.step \in Working /\ box'.dirty = {}
        /\ "work" \in Working
    BY <1>1, AtWork DEF Moves, Doing, Working, Kept
  <1>3. /\ BoxInv' /\ volume \subseteq volume' /\ registry' \in volume' /\ NoReceipts'
        /\ NoLoads => NoLoads'
        /\ box' # None /\ box'.call = box.call /\ box'.task = box.task
        /\ box'.step = "work" /\ box'.done = box.done + 1 /\ box'.held = box.held
    BY <1>2, WorkMoves
  <1>4. variant = "measurement" => MeasurementProgress'
    <2>1. CASE variant = "measurement"
      <3>1. SubjectsDone(box.done + 1) = SubjectsDone(box.done)
        <4>1. /\ box.done \in Nat /\ box.done + 1 \in Nat
              /\ box.done >= 5 <=> box.done + 1 >= 5
              /\ box.done >= 9 <=> box.done + 1 >= 9
          BY <1>1, <2>1
        <4>2. \A s : s \in SubjectsDone(box.done + 1) <=> s \in SubjectsDone(box.done)
          BY <4>1, Subjects
        <4>3. QED
          BY <4>2
      <3>2. QED
        BY <1>2, <1>3, <2>1, <3>1, AtWork DEF MeasurementProgress, Working
    <2>2. QED
      BY <2>1
  <1>5. variant = "diagnostic" => DiagnosticProgress'
    BY <1>1, <1>2, <1>3, AtWork DEF DiagnosticProgress, Working
  <1>6. box'.done < Last(variant)
    BY <1>1, <1>3, VariantIs DEF Last, MeasurementInv
  <1>7. ProgressInv'
    BY <1>3, <1>4, <1>5, <1>6 DEF ProgressInv, Early
  <1>8. QED
    BY <1>1, <1>3, <1>7, MovesKeep

LEMMA PublishSubjectKeeps ==
  ASSUME MeasurementInv, UNCHANGED variant, PublishSubject
  PROVE  MeasurementInv'
  <1>1. /\ Apart /\ Doing("work") /\ variant = "measurement" /\ paid' = paid
        /\ \E s \in {"bf16", "q3"} :
             /\ (s = "bf16" /\ box.done = 4) \/ (s = "q3" /\ box.done = 8)
             /\ \/ Commit("work", box.done + 1, box.held \union {s}, Supporting(box.call, s))
                \/ Raise("failing", box.done, box.held, Supporting(box.call, s))
    BY PublishSubjectStep DEF MeasurementInv
  <1>2. PICK s \in {"bf16", "q3"} :
             /\ (s = "bf16" /\ box.done = 4) \/ (s = "q3" /\ box.done = 8)
             /\ \/ Commit("work", box.done + 1, box.held \union {s}, Supporting(box.call, s))
                \/ Raise("failing", box.done, box.held, Supporting(box.call, s))
    BY <1>1
  <1>3. /\ box # None /\ box.step = "work" /\ box.step \in Working /\ {"work", "failing"} \subseteq Working
        /\ s \in Kinds /\ Supporting(box.call, s) \in Records
    BY <1>1, Behind DEF Doing, Working, Early, Kinds
  <1>4. paid # {} /\ box.held = SubjectsDone(box.done) /\ MeasurementProgress
    BY <1>1, <1>3, AtWork DEF MeasurementProgress
  <1>5. CASE Commit("work", box.done + 1, box.held \union {s}, Supporting(box.call, s))
    <2>1. /\ Moved("work", box.done + 1, box.held \union {s}) /\ Unsure(Supporting(box.call, s))
          /\ UNCHANGED <<call, registry>> /\ box'.dirty = {}
          /\ Supporting(box.call, s) \in volume'
      BY <1>5, CommittedKnown DEF Commit
    <2>2. /\ RecordsInv' /\ BoxInv' /\ volume \subseteq volume' /\ registry' \in volume' /\ NoReceipts'
          /\ box' # None /\ box'.call = box.call /\ box'.task = box.task
          /\ box'.step = "work" /\ box'.done = box.done + 1 /\ box'.held = box.held \union {s}
      BY <1>1, <1>3, <2>1, WorkMoves
    <2>3. SubjectsDone(box.done + 1) = SubjectsDone(box.done) \union {s}
      BY <1>2, Subjects
    <2>4. MeasurementProgress'
      BY <1>3, <1>4, <1>1, <2>1, <2>2, <2>3 DEF MeasurementProgress, Working
    <2>5. box'.done < Last(variant)
      BY <1>1, <1>2, <2>2 DEF Last
    <2>6. ProgressInv'
      BY <1>1, <2>2, <2>4, <2>5 DEF ProgressInv, Early
    <2>7. QED
      BY <1>1, <1>3, <2>1, <2>2, <2>6, UnsureKeeps
  <1>6. CASE Raise("failing", box.done, box.held, Supporting(box.call, s))
    <2>1. /\ Moved("failing", box.done, box.held) /\ Unsure(Supporting(box.call, s))
          /\ UNCHANGED <<call, registry>>
      BY <1>6 DEF Raise
    <2>2. /\ RecordsInv' /\ BoxInv' /\ volume \subseteq volume' /\ registry' \in volume' /\ NoReceipts'
          /\ box' # None /\ box'.call = box.call /\ box'.task = box.task
          /\ box'.step = "failing" /\ box'.done = box.done /\ box'.held = box.held
      BY <1>1, <1>3, <2>1, WorkMoves
    <2>3. MeasurementProgress'
      BY <1>3, <1>4, <1>1, <2>2 DEF MeasurementProgress, Working
    <2>4. ProgressInv'
      BY <1>1, <1>3, <2>2, <2>3, AtWork DEF ProgressInv, Early
    <2>5. QED
      BY <1>1, <1>3, <2>1, <2>2, <2>4, UnsureKeeps
  <1>7. QED
    BY <1>2, <1>5, <1>6

\* The one record of a server load.
LEMMA LoadRecords ==
  ASSUME MeasurementInv, UNCHANGED <<variant, registry, paid>>, variant = "diagnostic",
         box # None, box.step \notin Early, NoReceipts, NoLoads,
         volume \subseteq volume', Known' \subseteq Known \union {ServerLoad(box.call, box.task)}
  PROVE  RecordsInv' /\ NoReceipts'
  <1> DEFINE record == ServerLoad(box.call, box.task)
  <1>1. registry # None /\ Owner = box.call /\ record.kind = "load" /\ record.call = box.call
    BY Behind, MadeRecords
  <1>2. Owner' = Owner
    BY DEF Owner
  <1>3. OwnerInv'
    BY <1>1, <1>2 DEF MeasurementInv, OwnerInv, Outcomes
  <1>4. NoReceipts'
    BY <1>1 DEF NoReceipts, Outcomes
  <1>5. ReceiptInv'
    BY <1>4 DEF ReceiptInv, NoReceipts
  <1>6. PaidInv'
    <2>1. \A l \in Known' : l.kind = "load" => l = record
      BY DEF NoLoads
    <2>2. \A l, m \in OfKind(Known, "load")' : l = m
      BY <2>1 DEF OfKind
    <2>3. QED
      BY <1>2, <2>2 DEF PaidInv, MeasurementInv
  <1>7. QED
    BY <1>3, <1>4, <1>5, <1>6 DEF RecordsInv

LEMMA ClaimServerLoadKeeps ==
  ASSUME MeasurementInv, UNCHANGED variant, ClaimServerLoad
  PROVE  MeasurementInv'
  <1> DEFINE record == ServerLoad(box.call, box.task)
  <1>1. /\ Apart /\ Doing("work") /\ variant = "diagnostic" /\ box.done = 3 /\ paid' = paid
        /\ \/ Commit("serve", box.done, box.held \union {"load"}, record)
           \/ Raise("failing", box.done, box.held, record)
    BY ClaimServerLoadStep DEF MeasurementInv
  <1>2. /\ box # None /\ box.step = "work" /\ box.step \in Working /\ box.step \notin Early
        /\ {"serve", "failing"} \subseteq Working
    BY <1>1 DEF Doing, Working, Early
  <1>3. /\ NoReceipts /\ registry \in volume /\ box.held = {} /\ NoLoads
    BY <1>1, <1>2, AtWork DEF DiagnosticProgress
  <1>4. record \in Records /\ record.kind = "load" /\ registry # None
    BY <1>2, Behind, MadeRecords
  <1>5. paid = {}
    <2>1. SUFFICES ASSUME NEW p \in paid PROVE FALSE
      OBVIOUS
    <2>2. ServerLoad(p[1], p[2]) \in volume /\ p[1] \in Hosts /\ p[2] \in Tasks
      BY <1>1 DEF MeasurementInv, PaidInv, TypeOK
    <2>3. QED
      BY <1>3, <2>2, MadeRecords, VolumeIsKnown DEF NoLoads
  <1> HIDE DEF record
  <1>6. CASE Commit("serve", box.done, box.held \union {"load"}, record)
    <2>1. /\ Moved("serve", box.done, box.held \union {"load"}) /\ Unsure(record)
          /\ UNCHANGED <<call, registry>> /\ box'.dirty = {}
          /\ record \in volume' /\ volume \subseteq volume' /\ Known' \subseteq Known \union {record}
      BY <1>6, CommittedKnown, VolumeIsKnown DEF Commit
    <2>2. RecordsInv' /\ NoReceipts'
      BY <1>1, <1>2, <1>3, <2>1, LoadRecords DEF record
    <2>3. BoxInv'
      BY <1>2, <2>1, MovedBox DEF MeasurementInv
    <2>4. /\ box' # None /\ box'.call = box.call /\ box'.task = box.task
          /\ box'.step = "serve" /\ box'.done = 3 /\ box'.held = {"load"}
      BY <1>1, <1>3, <2>1 DEF Moved
    <2>5. DiagnosticProgress'
      BY <1>1, <1>5, <2>1, <2>4 DEF DiagnosticProgress, record
    <2>6. ProgressInv'
      BY <1>1, <1>3, <2>1, <2>2, <2>4, <2>5 DEF ProgressInv, Early, Last
    <2>7. QED
      BY <1>1, <1>4, <2>1, <2>2, <2>3, <2>6, UnsureKeeps
  <1>7. CASE Raise("failing", box.done, box.held, record)
    <2>1. /\ Moved("failing", box.done, box.held) /\ Unsure(record)
          /\ UNCHANGED <<call, registry>>
          /\ volume \subseteq volume' /\ Known' \subseteq Known \union {record}
      BY <1>7, UnsureKnown DEF Raise
    <2>2. RecordsInv' /\ NoReceipts'
      BY <1>1, <1>2, <1>3, <2>1, LoadRecords DEF record
    <2>3. BoxInv'
      BY <1>2, <2>1, MovedBox DEF MeasurementInv
    <2>4. /\ box' # None /\ box'.call = box.call /\ box'.task = box.task
          /\ box'.step = "failing" /\ box'.done = 3 /\ box'.held = {}
      BY <1>1, <1>3, <2>1 DEF Moved
    <2>5. DiagnosticProgress'
      BY <1>1, <1>5, <2>1, <2>4 DEF DiagnosticProgress
    <2>6. ProgressInv'
      BY <1>1, <1>3, <2>1, <2>2, <2>4, <2>5 DEF ProgressInv, Early, Last
    <2>7. QED
      BY <1>1, <1>4, <2>1, <2>2, <2>3, <2>6, UnsureKeeps
  <1>8. QED
    BY <1>1, <1>6, <1>7

LEMMA RunServerKeeps ==
  ASSUME MeasurementInv, UNCHANGED variant, RunServer
  PROVE  MeasurementInv'
  <1>1. /\ Apart /\ Doing("serve") /\ paid' = paid \union {<<box.call, box.task>>}
        /\ UNCHANGED <<call, registry>> /\ Kept
        /\ \/ Moved("work", box.done + 1, box.held)
           \/ Moved("failing", box.done, box.held)
    BY RunServerStep DEF MeasurementInv
  <1>2. /\ box # None /\ box.step = "serve" /\ box.step \in Working /\ box.step \notin Early
        /\ {"work", "failing"} \subseteq Working /\ box'.dirty = {} /\ volume' = volume
    BY <1>1, AtWork DEF Doing, Working, Early, Kept
  <1>3. variant = "diagnostic"
    BY <1>2, AtWork, VariantIs DEF MeasurementInv, MeasurementProgress
  <1>4. /\ registry \in volume /\ NoReceipts /\ box.done = 3 /\ box.held = {"load"} /\ paid = {}
        /\ ServerLoad(box.call, box.task) \in volume
    BY <1>2, <1>3, AtWork DEF DiagnosticProgress
  <1>5. PICK s \in {"work", "failing"}, done \in {3, 4} :
          /\ Moved(s, done, box.held) /\ (s = "work" <=> done = 4)
    BY <1>1, <1>4
  <1>6. PlainStep /\ NoReceipts' /\ Known' = Known
    BY <1>1, <1>4, <1>5, KeptPlain, KeptKnown, PlainFacts
  <1>7. registry # None /\ Owner = box.call
    BY <1>2, Behind
  <1>8. OwnerInv'
    BY <1>6, <1>7, PlainOwner DEF MeasurementInv
  <1>9. PaidInv'
    <2>1. \A l, m \in OfKind(Known, "load")' : l = m
      BY <1>6 DEF MeasurementInv, PaidInv, OfKind
    <2>2. QED
      BY <1>1, <1>2, <1>3, <1>4, <1>7, <2>1 DEF PaidInv, Owner
  <1>10. ReceiptInv'
    BY <1>6 DEF ReceiptInv, NoReceipts
  <1>11. RecordsInv'
    BY <1>8, <1>9, <1>10 DEF RecordsInv
  <1>12. BoxInv'
    BY <1>1, <1>2, <1>5, MovedBox DEF MeasurementInv
  <1>13. /\ box' # None /\ box'.call = box.call /\ box'.task = box.task
         /\ box'.step = s /\ box'.done = done /\ box'.held = {"load"}
    BY <1>4, <1>5 DEF Moved
  <1>14. DiagnosticProgress'
    BY <1>1, <1>2, <1>4, <1>5, <1>13 DEF DiagnosticProgress
  <1>15. ProgressInv'
    BY <1>1, <1>2, <1>3, <1>4, <1>5, <1>6, <1>13, <1>14 DEF ProgressInv, Early, Last
  <1>16. volume' \subseteq Records
    BY <1>2 DEF MeasurementInv, TypeOK
  <1>17. TypeOK' /\ HostInv' /\ CallInv'
    BY <1>1, <1>5, <1>16, MovedFrame
  <1>18. (TypeOK /\ HostInv /\ CallInv /\ RecordsInv /\ BoxInv /\ ProgressInv)'
    BY <1>11, <1>12, <1>15, <1>17
  <1>19. QED
    BY <1>18, InvParts, PTL

LEMMA PublishResultKeeps ==
  ASSUME MeasurementInv, UNCHANGED variant, PublishResult
  PROVE  MeasurementInv'
  <1> DEFINE what == IF variant = "measurement" THEN "comparison" ELSE "raw"
             record == Supporting(box.call, what)
  <1>1. /\ Apart /\ Doing("work") /\ paid' = paid
        /\ variant = "measurement" => box.done = 10
        /\ variant = "diagnostic" => box.done = 6
        /\ \/ Commit("conclude", box.done, box.held \union {what}, record)
           \/ Raise("failing", box.done, box.held, record)
    BY PublishResultStep DEF MeasurementInv
  <1>2. /\ box # None /\ box.step = "work" /\ box.step \in Working /\ {"conclude", "failing"} \subseteq Working
        /\ what \in Kinds
    BY <1>1 DEF Doing, Working, Kinds
  <1>3. record \in Records
    BY <1>2, Behind DEF Working, Early
  <1>4. variant \in {"measurement", "diagnostic"}
    BY VariantIs DEF MeasurementInv
  <1>5. /\ variant = "measurement" => paid # {} /\ box.held = {"bf16", "q3"} /\ MeasurementProgress
        /\ variant = "diagnostic" =>
             /\ paid # {} /\ DiagnosticProgress /\ "load" \in box.held /\ box.held \subseteq {"load", "raw"}
             /\ ServerLoad(box.call, box.task) \in volume
    <2>1. variant = "measurement" => paid # {} /\ box.held = {"bf16", "q3"} /\ MeasurementProgress
      <3>1. SubjectsDone(10) = {"bf16", "q3"}
        BY Subjects
      <3>2. QED
        BY <1>1, <1>2, <3>1, AtWork DEF MeasurementProgress
    <2>2. QED
      BY <1>1, <1>2, <2>1, AtWork DEF DiagnosticProgress
  <1>6. CASE Commit("conclude", box.done, box.held \union {what}, record)
    <2>1. /\ Moved("conclude", box.done, box.held \union {what}) /\ Unsure(record)
          /\ UNCHANGED <<call, registry>> /\ box'.dirty = {} /\ record \in volume'
      BY <1>6, CommittedKnown DEF Commit
    <2>2. /\ RecordsInv' /\ BoxInv' /\ volume \subseteq volume' /\ registry' \in volume' /\ NoReceipts'
          /\ box' # None /\ box'.call = box.call /\ box'.task = box.task
          /\ box'.step = "conclude" /\ box'.done = box.done /\ box'.held = box.held \union {what}
      BY <1>1, <1>2, <2>1, WorkMoves
    <2>3. variant = "measurement" => MeasurementProgress'
      BY <1>1, <1>2, <1>5, <2>1, <2>2 DEF MeasurementProgress
    <2>4. variant = "diagnostic" => DiagnosticProgress'
      BY <1>1, <1>2, <1>5, <2>1, <2>2 DEF DiagnosticProgress
    <2>5. ProgressInv'
      BY <1>1, <1>4, <2>2, <2>3, <2>4 DEF ProgressInv, Early, Last
    <2>6. QED
      BY <1>1, <1>3, <2>1, <2>2, <2>5, UnsureKeeps
  <1>7. CASE Raise("failing", box.done, box.held, record)
    <2>1. /\ Moved("failing", box.done, box.held) /\ Unsure(record)
          /\ UNCHANGED <<call, registry>>
      BY <1>7 DEF Raise
    <2>2. /\ RecordsInv' /\ BoxInv' /\ volume \subseteq volume' /\ registry' \in volume' /\ NoReceipts'
          /\ box' # None /\ box'.call = box.call /\ box'.task = box.task
          /\ box'.step = "failing" /\ box'.done = box.done /\ box'.held = box.held
      BY <1>1, <1>2, <2>1, WorkMoves
    <2>3. variant = "measurement" => MeasurementProgress'
      BY <1>1, <1>2, <1>5, <2>2 DEF MeasurementProgress
    <2>4. variant = "diagnostic" => DiagnosticProgress'
      BY <1>1, <1>2, <1>5, <2>2 DEF DiagnosticProgress
    <2>5. ProgressInv'
      BY <1>1, <1>4, <2>2, <2>3, <2>4 DEF ProgressInv, Early, Last
    <2>6. QED
      BY <1>1, <1>3, <2>1, <2>2, <2>5, UnsureKeeps
  <1>8. QED
    BY <1>1, <1>6, <1>7

LEMMA BuildKeeps ==
  ASSUME MeasurementInv, UNCHANGED variant, BuildSuccess
  PROVE  MeasurementInv'
  <1>1. Apart /\ Doing("conclude") /\ Moves("terminal", box.done, box.held)
    BY BuildStep DEF MeasurementInv
  <1>2. /\ Moved("terminal", box.done, box.held) /\ Kept /\ UNCHANGED <<registry, paid>>
        /\ box # None /\ box.step = "conclude" /\ box.step \in Working /\ "terminal" \in Working
        /\ box'.dirty = {}
    BY <1>1, AtWork DEF Moves, Doing, Working, Kept
  <1>3. /\ BoxInv' /\ volume \subseteq volume' /\ registry' \in volume' /\ NoReceipts'
        /\ NoLoads => NoLoads'
        /\ box' # None /\ box'.call = box.call /\ box'.task = box.task
        /\ box'.step = "terminal" /\ box'.done = box.done /\ box'.held = box.held
    BY <1>2, WorkMoves
  <1>4. variant = "measurement" => MeasurementProgress'
    BY <1>2, <1>3, AtWork DEF MeasurementProgress
  <1>5. variant = "diagnostic" => DiagnosticProgress'
    BY <1>2, <1>3, AtWork DEF DiagnosticProgress
  <1>6. ProgressInv'
    BY <1>2, <1>3, <1>4, <1>5, AtWork DEF ProgressInv, Early
  <1>7. QED
    BY <1>1, <1>3, <1>6, MovesKeep

LEMMA StageRaisesKeeps ==
  ASSUME MeasurementInv, UNCHANGED variant, StageRaises
  PROVE  MeasurementInv'
  <1>1. /\ Apart /\ box # None /\ box.step \in {"work", "conclude"}
        /\ Stage # "bf16_interface_diagnostic"
        /\ Moves("failing", box.done, box.held)
    BY StageRaisesStep DEF MeasurementInv
  <1>2. /\ Moved("failing", box.done, box.held) /\ Kept /\ UNCHANGED <<registry, paid>>
        /\ box.step \in Working /\ "failing" \in Working
    BY <1>1 DEF Moves, Working
  <1>3. /\ BoxInv' /\ volume \subseteq volume' /\ registry' \in volume' /\ NoReceipts'
        /\ NoLoads => NoLoads'
        /\ box' # None /\ box'.call = box.call /\ box'.task = box.task
        /\ box'.step = "failing" /\ box'.done = box.done /\ box'.held = box.held
    BY <1>1, <1>2, WorkMoves
  <1>4. variant = "measurement" => MeasurementProgress'
    BY <1>1, <1>2, <1>3, AtWork DEF MeasurementProgress
  <1>5. variant = "diagnostic" => DiagnosticProgress'
    BY <1>1, <1>2, <1>3, AtWork DEF DiagnosticProgress
  <1>6. ProgressInv'
    BY <1>1, <1>2, <1>3, <1>4, <1>5, AtWork DEF ProgressInv, Early
  <1>7. QED
    BY <1>1, <1>3, <1>6, MovesKeep

-----------------------------------------------------------------------------
(* The terminal receipt.                                                    *)

\* A container that may publish a receipt knows the one server load there is.
LEMMA LoadIsKnown ==
  ASSUME MeasurementInv, box # None, box.step \in Working,
         box.step \in {"terminal", "failing"}, box.step = "failing" => ~LoadUnknown
  PROVE  /\ OfKind(Known, "load") = OfKind(volume, "load")
         /\ variant = "diagnostic" => {l.task : l \in OfKind(volume, "load")} = {Load} \ {None}
  <1>1. CASE variant = "measurement"
    <2>1. NoLoads
      BY <1>1 DEF MeasurementInv, PaidInv
    <2>2. QED
      BY <1>1, <2>1, VolumeIsKnown DEF NoLoads, OfKind
  <1>2. CASE variant = "diagnostic" /\ "load" \in box.held
    <2>1. /\ ServerLoad(box.call, box.task) \in volume /\ box.call \in Hosts /\ box.task \in Tasks
      BY <1>2, AtWork, BoxIsTyped DEF DiagnosticProgress, MeasurementInv
    <2>2. OfKind(Known, "load") = {ServerLoad(box.call, box.task)}
      BY <2>1, MadeRecords, VolumeIsKnown DEF MeasurementInv, PaidInv, OfKind
    <2>3. OfKind(volume, "load") = {ServerLoad(box.call, box.task)}
      BY <2>1, <2>2, MadeRecords, VolumeIsKnown DEF OfKind
    <2>4. Load = box.task /\ Load # None
      BY <1>2, <2>1, EvidenceAssumption DEF Load, Tasks
    <2>5. {l.task : l \in {ServerLoad(box.call, box.task)}} = {box.task}
      BY <2>1, MadeRecords
    <2>6. QED
      BY <2>2, <2>3, <2>4, <2>5
  <1>3. CASE variant = "diagnostic" /\ "load" \notin box.held
    <2>1. NoLoads
      BY <1>3, AtWork DEF DiagnosticProgress, LoadUnknown, ServerStage
    <2>2. OfKind(Known, "load") = {} /\ OfKind(volume, "load") = {}
      BY <2>1, VolumeIsKnown DEF NoLoads, OfKind
    <2>3. Load = None
      BY <1>3 DEF Load
    <2>4. QED
      BY <2>2, <2>3
  <1>4. QED
    BY <1>1, <1>2, <1>3, VariantIs DEF MeasurementInv

\* A receipt that binds what is there, when there is none.
LEMMA ReceiptRecords ==
  ASSUME MeasurementInv, UNCHANGED <<variant, registry, paid>>, box # None, box.step \in Working,
         NEW record, record.kind \in Outcomes, record.call = box.call,
         ReceiptBound(variant, Owner, record, volume), OfKind(Known, "load") = OfKind(volume, "load"),
         record.kind = "success" => paid # {},
         volume \subseteq volume', volume' \subseteq Known', Known' \subseteq Known \union {record}
  PROVE  RecordsInv'
  <1>1. NoReceipts /\ registry \in volume
    BY AtWork
  <1>2. registry # None /\ Owner = box.call /\ Owner' = Owner
    BY Behind DEF Working, Early, Owner
  <1>3. OwnerInv'
    BY <1>2 DEF MeasurementInv, OwnerInv, Outcomes
  <1>4. \A l \in Known' : l.kind = "load" => l \in Known
    BY DEF Outcomes
  <1>5. PaidInv'
    <2>1. \A l, m \in OfKind(Known, "load")' : l = m
      BY <1>4 DEF MeasurementInv, PaidInv, OfKind
    <2>2. (variant = "measurement" => NoLoads)'
      BY <1>4 DEF MeasurementInv, PaidInv, NoLoads
    <2>3. QED
      BY <1>2, <2>1, <2>2 DEF MeasurementInv, PaidInv
  <1>6. ReceiptInv'
    <2>1. \A q \in Known' : q.kind \in Outcomes => q = record
      BY <1>1 DEF NoReceipts
    <2>2. /\ OfKind(Known', "load") = OfKind(volume', "load")
          /\ OfKind(volume', "load") = OfKind(volume, "load")
      BY <1>4 DEF OfKind
    <2>3. ReceiptBound(variant, Owner, record, volume')
      BY <2>2, BoundGrows
    <2>4. QED
      BY <1>1, <1>2, <2>1, <2>2, <2>3 DEF ReceiptInv, OfKind
  <1>7. QED
    BY <1>3, <1>5, <1>6 DEF RecordsInv

\* Publishing a receipt, once it is known to bind.
LEMMA ReceiptKeeps ==
  ASSUME MeasurementInv, UNCHANGED <<variant, paid>>, Apart, box # None, box.step \in Working,
         NEW record \in Records, record.kind \in Outcomes, record.call = box.call,
         ReceiptBound(variant, Owner, record, volume), OfKind(Known, "load") = OfKind(volume, "load"),
         record.kind = "success" => paid # {},
         \/ Commit("return", box.done, box.held, record)
         \/ Raise("raise", box.done, box.held, record)
  PROVE  MeasurementInv'
  <1>1. PICK s \in {"return", "raise"} :
          /\ Moved(s, box.done, box.held) /\ Unsure(record) /\ UNCHANGED <<call, registry>>
          /\ s = "return" => box'.dirty = {}
    BY CommittedKnown DEF Commit, Raise
  <1>2. /\ volume \subseteq volume' /\ volume' \subseteq Known' /\ Known' \subseteq Known \union {record}
    BY <1>1, UnsureKnown
  <1>3. RecordsInv'
    BY <1>1, <1>2, ReceiptRecords
  <1>4. BoxInv'
    BY <1>1, <1>2, AtWork, MovedBox DEF MeasurementInv
  <1>5. ProgressInv'
    BY <1>1 DEF ProgressInv, MeasurementProgress, DiagnosticProgress, Moved, Working, Early
  <1>6. QED
    BY <1>1, <1>3, <1>4, <1>5, UnsureKeeps

LEMMA PublishSuccessKeeps ==
  ASSUME MeasurementInv, UNCHANGED variant, PublishSuccess
  PROVE  MeasurementInv'
  <1> DEFINE record == Receipt("success", box.call, Last(variant), box.held \ {"load"}, Load)
  <1>1. /\ Apart /\ Doing("terminal") /\ paid' = paid
        /\ \/ Commit("return", box.done, box.held, record)
           \/ Raise("raise", box.done, box.held, record)
        /\ record \in Records /\ record.kind = "success" /\ record.call = box.call
        /\ record.refers = box.held \ {"load"} /\ record.load = Load /\ record.done = Last(variant)
    BY PublishSuccessStep DEF MeasurementInv
  <1> HIDE DEF record
  <1>2. /\ box # None /\ box.step = "terminal" /\ box.step \in Working
    BY <1>1 DEF Doing, Working
  <1>3. /\ OfKind(Known, "load") = OfKind(volume, "load")
        /\ variant = "diagnostic" => {l.task : l \in OfKind(volume, "load")} = {Load} \ {None}
    BY <1>2, LoadIsKnown
  <1>4. Owner = box.call
    BY <1>2, Behind DEF Early
  <1>5. paid # {} /\ ReceiptBound(variant, Owner, record, volume)
    <2>1. CASE variant = "measurement"
      <3>1. /\ paid # {} /\ box.done = 10 /\ box.held = {"bf16", "q3", "comparison"}
            /\ Supporting(box.call, "comparison") \in volume
            /\ \A s \in SubjectsDone(box.done) : Supporting(box.call, s) \in volume
        BY <1>2, <2>1, AtWork DEF MeasurementProgress
      <3>2. {"bf16", "q3"} \subseteq SubjectsDone(10)
        BY Subjects
      <3>3. record.refers = {"bf16", "q3", "comparison"}
        BY <1>1, <3>1
      <3>4. \A what \in record.refers : Supporting(box.call, what) \in volume
        BY <3>1, <3>2, <3>3
      <3>5. QED
        BY <1>1, <1>4, <2>1, <3>1, <3>3, <3>4 DEF ReceiptBound, SupportingComplete
    <2>2. CASE variant = "diagnostic"
      <3>1. /\ paid # {} /\ box.held = {"load", "raw"} /\ Supporting(box.call, "raw") \in volume
        BY <1>2, <2>2, AtWork DEF DiagnosticProgress
      <3>2. record.refers = {"raw"} /\ Load # None
        BY <1>1, <1>2, <3>1, BoxIsTyped, EvidenceAssumption DEF Load, Tasks, MeasurementInv
      <3>3. QED
        BY <1>1, <1>3, <1>4, <2>2, <3>1, <3>2 DEF ReceiptBound, SupportingComplete
    <2>3. QED
      BY <2>1, <2>2, VariantIs DEF MeasurementInv
  <1>6. QED
    BY <1>1, <1>2, <1>3, <1>5, ReceiptKeeps DEF Outcomes

LEMMA PublishFailureKeeps ==
  ASSUME MeasurementInv, UNCHANGED variant, PublishFailure
  PROVE  MeasurementInv'
  <1> DEFINE record == Receipt("failure", box.call, box.done, Refers, Load)
  <1>1. /\ Apart /\ Doing("failing") /\ ~LoadUnknown /\ paid' = paid
        /\ Raise("raise", box.done, box.held, record)
        /\ record \in Records /\ record.kind = "failure" /\ record.call = box.call
        /\ record.refers = Refers /\ record.load = Load /\ record.done = box.done
    BY PublishFailureStep DEF MeasurementInv
  <1> HIDE DEF record
  <1>2. /\ box # None /\ box.step = "failing" /\ box.step \in Working
    BY <1>1 DEF Doing, Working
  <1>3. /\ OfKind(Known, "load") = OfKind(volume, "load")
        /\ variant = "diagnostic" => {l.task : l \in OfKind(volume, "load")} = {Load} \ {None}
    BY <1>1, <1>2, LoadIsKnown
  <1>4. Owner = box.call
    BY <1>2, Behind DEF Early
  <1>5. ReceiptBound(variant, Owner, record, volume)
    <2>1. CASE variant = "measurement"
      <3>1. /\ \A s \in SubjectsDone(box.done) : Supporting(box.call, s) \in volume
        BY <1>2, <2>1, AtWork DEF MeasurementProgress
      <3>2. record.refers = SubjectsDone(record.done)
        BY <1>1, <2>1 DEF Refers
      <3>3. QED
        BY <1>1, <1>4, <2>1, <3>1, <3>2 DEF ReceiptBound, SupportingComplete
    <2>2. CASE variant = "diagnostic"
      <3>1. /\ box.held \subseteq {"load", "raw"}
            /\ "raw" \in box.held => "load" \in box.held /\ Supporting(box.call, "raw") \in volume
        BY <1>2, <2>2, AtWork DEF DiagnosticProgress
      <3>2. record.refers = box.held \ {"load"}
        BY <1>1, <2>2 DEF Refers
      <3>3. record.refers # {} => Load # None
        BY <1>2, <3>1, <3>2, BoxIsTyped, EvidenceAssumption DEF Load, Tasks, MeasurementInv
      <3>4. QED
        BY <1>1, <1>3, <1>4, <2>2, <3>1, <3>2, <3>3 DEF ReceiptBound, SupportingComplete
    <2>3. QED
      BY <2>1, <2>2, VariantIs DEF MeasurementInv
  <1>6. QED
    BY <1>1, <1>2, <1>3, <1>5, ReceiptKeeps DEF Outcomes

-----------------------------------------------------------------------------
(* The inductive invariant.                                                 *)

LEMMA InvHolds == Init => MeasurementInv
  <1> SUFFICES ASSUME Init PROVE MeasurementInv
    OBVIOUS
  <1>1. TypeOK
    BY EvidenceAssumption, AttemptAssumption DEF Init, TypeOK, NoCall, Statuses, Positions
  <1>2. HostInv
    BY DEF Init, HostInv, LaunchesOnce, LaunchConsumed, NoCall, LocalRecords
  <1>3. Known = {}
    BY DEF Init, Known
  <1>4. CallInv /\ BoxInv /\ ProgressInv
    BY DEF Init, CallInv, BoxInv, ProgressInv
  <1>5. OwnerInv /\ PaidInv /\ ReceiptInv
    BY <1>3 DEF Init, OwnerInv, PaidInv, ReceiptInv, OfKind, NoLoads
  <1>6. QED
    BY <1>1, <1>2, <1>4, <1>5 DEF MeasurementInv

LEMMA ContainerKeeps ==
  ASSUME MeasurementInv, UNCHANGED variant, Container \/ StageRaises
  PROVE  MeasurementInv'
  <1>1. CASE Leave
    BY <1>1, LeaveStep, GoneKeeps DEF MeasurementInv
  <1>2. QED
    BY <1>1, LoadIntentKeeps, WaitKeeps, ClaimKeeps, PublishClaimKeeps, CheckUnusedKeeps, WorkStageKeeps,
       PublishSubjectKeeps, ClaimServerLoadKeeps, RunServerKeeps, PublishResultKeeps, BuildKeeps,
       StageRaisesKeeps, PublishSuccessKeeps, PublishFailureKeeps DEF Container

LEMMA ProviderKeeps ==
  ASSUME MeasurementInv, UNCHANGED variant, Provider
  PROVE  MeasurementInv'
  <1>1. CASE KillContainer \/ PreemptContainer
    BY <1>1, KillStep, GoneKeeps DEF MeasurementInv
  <1>2. QED
    BY <1>1, StartKeeps, CancelQueuedKeeps, BackgroundKeeps, OrphanKeeps DEF Provider

LEMMA InvKeeps == MeasurementInv /\ [Next]_vars => MeasurementInv'
  <1> SUFFICES ASSUME MeasurementInv, [Next]_vars PROVE MeasurementInv'
    OBVIOUS
  <1>1. CASE Next
    BY <1>1, ManagersKeep, ContainerKeeps, ProviderKeeps DEF Next
  <1>2. CASE UNCHANGED vars
    <2>1. TypeOK' /\ HostInv' /\ CallInv'
      BY <1>2 DEF vars, appVars, hostVars, remoteVars, MeasurementInv, TypeOK, HostInv, LaunchesOnce,
                  LaunchConsumed, CallInv
    <2>2. QED
      BY <1>2, <2>1, AsideKeeps DEF vars, remoteVars
  <1>3. QED
    BY <1>1, <1>2

LEMMA MeasurementInvariant == Spec => []MeasurementInv
  BY InvHolds, InvKeeps, PTL DEF Spec

\* The variables keep their types (both variants, every handler).
THEOREM MeasurementTypeCorrect == Spec => []TypeOK
  <1>1. MeasurementInv => TypeOK
    BY DEF MeasurementInv
  <1>2. QED
    BY <1>1, MeasurementInvariant, PTL

\* Whatever hosts launch and however often a task is restarted, the paid work is
\* begun at most once, behind a durable acceptance, claim and, in the diagnostic,
\* the boundary of that very task (_claim_attempt, claim_diagnostic_attempt,
\* _claim_diagnostic_server_load).
THEOREM MeasurementIsPaidOnce == Spec => []PaidOnce
  <1>1. MeasurementInv => PaidOnce
    <2>1. SUFFICES ASSUME MeasurementInv, NEW p \in paid
                   PROVE  /\ paid = {p} /\ Acceptance(p[1]) \in volume
                          /\ registry # None /\ registry.call = p[1] /\ registry \in volume
                          /\ variant = "diagnostic" => ServerLoad(p[1], p[2]) \in volume
      BY DEF PaidOnce
    <2>2. /\ paid = {p} /\ registry # None /\ Owner = p[1] /\ registry \in volume
          /\ variant = "diagnostic" => ServerLoad(p[1], p[2]) \in volume
      BY <2>1 DEF MeasurementInv, PaidInv
    <2>3. Acceptance(Owner) \in volume
      BY <2>1, <2>2 DEF MeasurementInv, OwnerInv
    <2>4. QED
      BY <2>2, <2>3 DEF Owner
  <1>2. QED
    BY <1>1, MeasurementInvariant, PTL

-----------------------------------------------------------------------------
(* Receipts.                                                                *)

LEMMA ReceiptsAre ==
  ASSUME NEW V
  PROVE  Receipts(V) = {r \in V : r.kind \in Outcomes}
  BY DEF Receipts, OfKind, Outcomes

LEMMA OneElement ==
  ASSUME NEW x
  PROVE  Cardinality({x}) = 1 /\ (CHOOSE y \in {x} : TRUE) = x
  <1>1. Cardinality({x}) = 1
    BY FS_Singleton
  <1>2. QED
    BY <1>1

LEMMA ReceiptAlone ==
  ASSUME MeasurementInv, NEW r \in Receipts(volume)
  PROVE  /\ Receipts(volume) = {r} /\ r.kind \in Outcomes /\ r.call = Owner
         /\ registry # None /\ registry \in volume /\ ReceiptBound(variant, Owner, r, volume)
         /\ r.kind = "success" => paid # {}
         /\ Owner \in Hosts
  <1>1. /\ r \in volume /\ r \in Known /\ r.kind \in Outcomes
    BY ReceiptsAre, VolumeIsKnown
  <1>2. /\ \A q \in Known : q.kind \in Outcomes => q = r
        /\ registry # None /\ registry \in volume /\ ReceiptBound(variant, Owner, r, volume)
        /\ r.kind = "success" => paid # {}
    BY <1>1 DEF MeasurementInv, ReceiptInv
  <1>3. Receipts(volume) = {r}
    BY <1>1, <1>2, ReceiptsAre, VolumeIsKnown
  <1>4. r.call = Owner
    BY <1>1 DEF MeasurementInv, OwnerInv
  <1>5. Owner \in Hosts
    BY <1>2, RegistryRecord DEF MeasurementInv
  <1>6. QED
    BY <1>1, <1>2, <1>3, <1>4, <1>5

\* The claims that status finds.
LEMMA ClaimsAre ==
  ASSUME MeasurementInv, registry # None
  PROVE  /\ OfKind(volume, "claim") \union {registry} = {registry}
         /\ registry \in volume => OfKind(volume, "claim") = {registry}
  <1>1. \A r \in volume : r.kind = "claim" => r = registry
    BY VolumeIsKnown DEF MeasurementInv, OwnerInv
  <1>2. registry.kind = "claim"
    BY RegistryRecord DEF MeasurementInv
  <1>3. QED
    BY <1>1, <1>2 DEF OfKind

LEMMA ClaimBinds ==
  ASSUME MeasurementInv, registry # None, NEW h
  PROVE  /\ Owner # h => BoundClaim(h, volume, registry) = "refused"
         /\ Owner = h /\ registry \in volume => BoundClaim(h, volume, registry) = "durable"
  <1>1. Cardinality({registry}) = 1
    BY OneElement
  <1> DEFINE durable == OfKind(volume, "claim")
             claims == durable \union (IF registry = None THEN {} ELSE {registry})
  <1>2. claims = {registry} /\ (registry \in volume => durable = {registry})
    BY ClaimsAre
  <1> HIDE DEF durable, claims
  <1>3. BoundClaim(h, volume, registry) =
          IF claims = {} THEN "none"
          ELSE IF Cardinality(claims) # 1 \/ \E c \in claims : c.call # h THEN "refused"
          ELSE IF durable = {} THEN "live" ELSE "durable"
    BY DEF BoundClaim, durable, claims
  <1>4. QED
    BY <1>1, <1>2, <1>3 DEF Owner

LEMMA Backed == MeasurementInv => ReceiptsBacked
  <1> SUFFICES ASSUME MeasurementInv, NEW r \in Receipts(volume)
               PROVE  /\ BoundClaim(r.call, volume, registry) = "durable"
                      /\ TerminalEvidence(variant, r.call, volume, "durable") = r.kind
    BY DEF ReceiptsBacked
  <1>1. /\ Receipts(volume) = {r} /\ r.call = Owner
        /\ registry # None /\ registry \in volume /\ ReceiptBound(variant, Owner, r, volume)
    BY ReceiptAlone
  <1>2. BoundClaim(r.call, volume, registry) = "durable"
    BY <1>1, ClaimBinds
  <1>3. Cardinality(Receipts(volume)) = 1 /\ (CHOOSE q \in Receipts(volume) : TRUE) = r
    BY <1>1, OneElement
  <1>4. Receipts(volume) # {}
    BY <1>1
  <1>5. TerminalEvidence(variant, r.call, volume, "durable") =
          LET q == CHOOSE q \in Receipts(volume) : TRUE
          IN  IF ReceiptBound(variant, r.call, q, volume) THEN q.kind ELSE "refused"
    BY <1>3, <1>4 DEF TerminalEvidence
  <1>6. QED
    BY <1>1, <1>2, <1>3, <1>5

\* Any receipt a container leaves, committed, interrupted or pushed by the
\* provider, is one that status binds: alone, behind a durable claim, with all
\* that it refers to and the one server load (_publish_terminal_receipt,
\* _validate_success_scope, _terminal_evidence).
THEOREM ReceiptsAreBacked == Spec => []ReceiptsBacked
  BY Backed, MeasurementInvariant, PTL

-----------------------------------------------------------------------------
(* What a step does to the volume, the claim, the paid work and the calls.  *)

\* Records come from the container behind the claim, or are a manager's.
VolumeGrows ==
  \/ volume' = volume
  \/ box # None /\ box.step \notin Early /\ registry' = registry /\ volume \subseteq volume'
  \/ /\ registry' = registry /\ volume \subseteq volume'
     /\ \A r \in volume' \ volume : r.kind \notin Outcomes

Claims ==
  /\ registry = None /\ registry' # None /\ registry'.call \in Hosts
  /\ UNCHANGED <<paid, volume>>

Begins ==
  /\ registry # None /\ registry' = registry /\ paid = {} /\ Receipts(volume) = {} /\ Receipts(volume') = {}
  /\ \E t \in Tasks : paid' = {<<Owner, t>>}

CallsStay ==
  \A h \in Hosts :
    /\ call[h].status \in {"failed", "returned"} => call'[h].status = call[h].status
    /\ Bound(h) => Bound(h)'

Effect == VolumeGrows /\ (Claims \/ Begins \/ UNCHANGED <<registry, paid>>) /\ CallsStay

LEMMA LocalStays ==
  ASSUME UNCHANGED local
  PROVE  \A h \in Hosts : Bound(h) => Bound(h)'
  BY DEF Bound, Whole

LEMMA NoReceiptsMeans ==
  (NoReceipts => Receipts(volume) = {}) /\ (NoReceipts' => Receipts(volume') = {})
  BY ReceiptsAre DEF NoReceipts, Known

LEMMA ManagersEffect ==
  ASSUME MeasurementInv, NEW h \in Hosts, UNCHANGED variant,
         Operator(h) \/ Manager(h) \/ ManagerDies(h)
  PROVE  Effect
  <1>1. HostStep(h)
    BY ManagersStep DEF MeasurementInv
  <1>2. VolumeGrows
    BY <1>1, MadeRecords DEF HostStep, VolumeGrows, Outcomes
  <1>3. UNCHANGED <<registry, paid>>
    BY <1>1 DEF HostStep
  <1>4. \A g \in Hosts : call[g].status \in {"failed", "returned"} => call'[g].status = call[g].status
    <2>1. SUFFICES ASSUME NEW g \in Hosts, call[g].status \in {"failed", "returned"}
                   PROVE  call'[g].status = call[g].status
      OBVIOUS
    <2>2. ~(g = h /\ At(h, "spawn"))
      BY <2>1 DEF MeasurementInv, HostInv, LaunchesOnce, At
    <2>3. QED
      BY <1>1, <2>2 DEF HostStep
  <1>5. \A g \in Hosts : Bound(g) => Bound(g)'
    BY <1>1, BoundStays DEF MeasurementInv
  <1>6. QED
    BY <1>2, <1>3, <1>4, <1>5 DEF Effect, CallsStay

LEMMA GoneEffect ==
  ASSUME MeasurementInv, Apart, Gone
  PROVE  Effect
  <1>1. /\ box # None /\ volume' \in {volume, volume \union box.dirty} /\ UNCHANGED <<registry, paid>>
        /\ \E status \in {"failed", "queued", "returned"} : CallChanges(box.call, status)
    BY DEF Gone
  <1>2. VolumeGrows
    <2>1. box.step \in Early => box.dirty = {}
      BY <1>1 DEF MeasurementInv, BoxInv, Early
    <2>2. QED
      BY <1>1, <2>1 DEF VolumeGrows
  <1>3. CallsStay
    <2>1. \A h \in Hosts : call[h].status \in {"failed", "returned"} => call'[h].status = call[h].status
      BY <1>1 DEF CallChanges, MeasurementInv, CallInv
    <2>2. QED
      BY <2>1, LocalStays DEF Apart, hostVars, CallsStay
  <1>4. QED
    BY <1>1, <1>2, <1>3 DEF Effect

LEMMA MovesEffect ==
  ASSUME Apart, NEW s, NEW done, NEW held, Moves(s, done, held)
  PROVE  Effect
  BY LocalStays DEF Moves, Kept, Effect, VolumeGrows, CallsStay, Apart, hostVars

LEMMA UnsureEffect ==
  ASSUME Apart, box # None, box.step \notin Early, NEW s, NEW done, NEW held, NEW record,
         Commit(s, done, held, record) \/ Raise(s, done, held, record),
         UNCHANGED paid \/ Begins
  PROVE  Effect
  <1>1. Moved(s, done, held) /\ Unsure(record) /\ UNCHANGED <<call, registry>>
    BY DEF Commit, Raise, Unsure
  <1>2. volume \subseteq volume'
    BY <1>1, UnsureKnown
  <1>3. QED
    BY <1>1, <1>2, LocalStays DEF Effect, VolumeGrows, CallsStay, Apart, hostVars

LEMMA EndsEffect ==
  ASSUME MeasurementInv, Apart, Ends
  PROVE  Effect
  BY EndsStep, GoneEffect DEF MeasurementInv

LEMMA ClaimEffect ==
  ASSUME MeasurementInv, ClaimAttempt
  PROVE  Effect
  <1>1. /\ Apart /\ Doing("claim")
        /\ \/ /\ registry = None /\ registry' = Me /\ Moved("durable", box.done, box.held) /\ Kept
              /\ UNCHANGED <<call, paid>>
           \/ registry = None /\ registry' \in {None, Me} /\ EndBox("failed") /\ UNCHANGED paid
           \/ /\ registry # None /\ variant = "diagnostic" /\ Owner = box.call
              /\ Moves("durable", box.done, box.held)
           \/ Ends
    BY ClaimStep DEF MeasurementInv
  <1>2. /\ box # None /\ box.call \in Hosts /\ box.task \in Tasks /\ box.dirty = {}
    BY <1>1, BoxIsTyped DEF MeasurementInv, BoxInv, Doing
  <1>3. Me # None /\ Me.call \in Hosts
    BY <1>2, MadeRecords, MarkerAssumption DEF Me
  <1>4. CASE /\ registry = None /\ registry' = Me /\ Moved("durable", box.done, box.held) /\ Kept
             /\ UNCHANGED <<call, paid>>
    BY <1>1, <1>3, <1>4, LocalStays DEF Kept, Effect, VolumeGrows, Claims, CallsStay, Apart, hostVars
  <1>5. CASE registry = None /\ registry' = Me /\ EndBox("failed") /\ UNCHANGED paid
    <2>1. volume' = volume /\ call' = [call EXCEPT ![box.call].status = "failed"]
      BY <1>2, <1>5 DEF EndBox
    <2>2. CallChanges(box.call, "failed")
      BY <1>2, <2>1, StatusUpdate DEF MeasurementInv, Statuses
    <2>3. \A h \in Hosts : call[h].status \in {"failed", "returned"} => call'[h].status = call[h].status
      BY <1>2, <2>2 DEF CallChanges, MeasurementInv, CallInv
    <2>4. QED
      BY <1>1, <1>3, <1>5, <2>1, <2>3, LocalStays
         DEF Effect, VolumeGrows, Claims, CallsStay, Apart, hostVars
  <1>6. CASE registry = None /\ registry' = None /\ EndBox("failed") /\ UNCHANGED paid
    BY <1>1, <1>6, EndsEffect DEF Ends
  <1>7. QED
    BY <1>1, <1>4, <1>5, <1>6, MovesEffect, EndsEffect

LEMMA PublishClaimEffect ==
  ASSUME MeasurementInv, UNCHANGED variant, PublishClaim
  PROVE  Effect
  <1>1. /\ Apart /\ Doing("durable")
        /\ \/ /\ variant = "diagnostic" /\ Commit("unused", box.done, box.held, registry) /\ paid' = paid
           \/ /\ variant = "measurement" /\ Commit("work", box.done, box.held, registry)
              /\ paid' = paid \union {<<box.call, box.task>>}
           \/ Raise("raise", box.done, box.held, registry) /\ paid' = paid
    BY PublishClaimStep DEF MeasurementInv
  <1>2. /\ box # None /\ box.step \notin Early /\ registry # None /\ Owner = box.call
        /\ Plain(registry) /\ box.task \in Tasks
    BY <1>1, Behind DEF Doing, Early
  <1>3. CASE /\ variant = "measurement" /\ Commit("work", box.done, box.held, registry)
             /\ paid' = paid \union {<<box.call, box.task>>}
    <2>1. paid = {} /\ NoReceipts
      BY <1>1, <1>3 DEF MeasurementInv, ProgressInv, Doing
    <2>2. PlainStep
      BY <1>2, <1>3, CommittedKnown, UnsurePlain DEF Commit
    <2>3. NoReceipts' /\ registry' = registry
      BY <2>1, <2>2, PlainFacts DEF PlainStep
    <2>4. Receipts(volume) = {} /\ Receipts(volume') = {}
      BY <2>1, <2>3, NoReceiptsMeans
    <2>5. Begins
      BY <1>2, <1>3, <2>1, <2>3, <2>4 DEF Begins
    <2>6. QED
      BY <1>1, <1>2, <1>3, <2>5, UnsureEffect
  <1>4. QED
    BY <1>1, <1>2, <1>3, UnsureEffect

LEMMA RunServerEffect ==
  ASSUME MeasurementInv, UNCHANGED variant, RunServer
  PROVE  Effect
  <1>1. /\ Apart /\ Doing("serve") /\ paid' = paid \union {<<box.call, box.task>>}
        /\ UNCHANGED <<call, registry>> /\ Kept
    BY RunServerStep DEF MeasurementInv
  <1>2. /\ box # None /\ box.step = "serve" /\ box.step \in Working /\ box.step \notin Early
    BY <1>1 DEF Doing, Working, Early
  <1>3. variant = "diagnostic"
    BY <1>2, AtWork, VariantIs DEF MeasurementInv, MeasurementProgress
  <1>4. paid = {} /\ NoReceipts /\ volume' = volume
    BY <1>1, <1>2, <1>3, AtWork DEF DiagnosticProgress, Kept
  <1>5. registry # None /\ Owner = box.call /\ box.task \in Tasks /\ Receipts(volume) = {}
    BY <1>2, <1>4, Behind, NoReceiptsMeans
  <1>6. Begins
    BY <1>1, <1>4, <1>5 DEF Begins
  <1>7. QED
    BY <1>1, <1>4, <1>6, LocalStays DEF Effect, VolumeGrows, CallsStay, Apart, hostVars

LEMMA ContainerEffect ==
  ASSUME MeasurementInv, UNCHANGED variant, Container \/ StageRaises
  PROVE  Effect
  <1>1. CASE LoadIntent
    BY <1>1, LoadIntentStep, MovesEffect, EndsEffect DEF MeasurementInv
  <1>2. CASE WaitForAcceptance
    BY <1>2, WaitStep, MovesEffect, EndsEffect DEF MeasurementInv
  <1>3. CASE CheckUnused
    BY <1>3, CheckUnusedStep, MovesEffect, EndsEffect DEF MeasurementInv
  <1>4. CASE WorkStage
    BY <1>4, WorkStageStep, MovesEffect DEF MeasurementInv
  <1>5. CASE PublishSubject
    <2>1. box # None /\ box.step \notin Early
      BY <1>5 DEF PublishSubject, Doing, Early
    <2>2. QED
      BY <1>5, <2>1, PublishSubjectStep, UnsureEffect DEF MeasurementInv
  <1>6. CASE ClaimServerLoad
    <2>1. box # None /\ box.step \notin Early
      BY <1>6 DEF ClaimServerLoad, Doing, Early
    <2>2. QED
      BY <1>6, <2>1, ClaimServerLoadStep, UnsureEffect DEF MeasurementInv
  <1>7. CASE PublishResult
    <2>1. box # None /\ box.step \notin Early
      BY <1>7 DEF PublishResult, Doing, Early
    <2>2. QED
      BY <1>7, <2>1, PublishResultStep, UnsureEffect DEF MeasurementInv
  <1>8. CASE BuildSuccess
    BY <1>8, BuildStep, MovesEffect DEF MeasurementInv
  <1>9. CASE StageRaises
    BY <1>9, StageRaisesStep, MovesEffect DEF MeasurementInv
  <1>10. CASE PublishSuccess
    <2>1. box # None /\ box.step \notin Early
      BY <1>10 DEF PublishSuccess, Doing, Early
    <2>2. QED
      BY <1>10, <2>1, PublishSuccessStep, UnsureEffect DEF MeasurementInv
  <1>11. CASE PublishFailure
    <2>1. box # None /\ box.step \notin Early
      BY <1>11 DEF PublishFailure, Doing, Early
    <2>2. QED
      BY <1>11, <2>1, PublishFailureStep, UnsureEffect DEF MeasurementInv
  <1>12. CASE Leave
    BY <1>12, LeaveStep, GoneEffect DEF MeasurementInv
  <1>13. QED
    BY <1>1, <1>2, <1>3, <1>4, <1>5, <1>6, <1>7, <1>8, <1>9, <1>10, <1>11, <1>12,
       ClaimEffect, PublishClaimEffect, RunServerEffect DEF Container

LEMMA ProviderEffect ==
  ASSUME MeasurementInv, UNCHANGED variant, Provider
  PROVE  Effect
  <1>1. CASE \E h \in Hosts : StartContainer(h) \/ CancelQueued(h)
    <2>1. PICK h \in Hosts : StartContainer(h) \/ CancelQueued(h)
      BY <1>1
    <2>2. /\ UNCHANGED <<hostVars, registry, volume, paid>> /\ call[h].status = "queued"
          /\ \E status : CallChanges(h, status)
      BY <2>1, StartStep, CancelQueuedStep DEF MeasurementInv
    <2>3. \A g \in Hosts : call[g].status \in {"failed", "returned"} => call'[g].status = call[g].status
      BY <2>2 DEF CallChanges
    <2>4. QED
      BY <2>2, <2>3, LocalStays DEF Effect, VolumeGrows, CallsStay, hostVars
  <1>2. CASE KillContainer \/ PreemptContainer
    BY <1>2, KillStep, GoneEffect DEF MeasurementInv
  <1>3. CASE BackgroundCommit
    <2>1. /\ Apart /\ volume' = volume \union box.dirty /\ UNCHANGED <<call, registry, paid>> /\ box # None
      BY <1>3, BackgroundStep DEF MeasurementInv, Moved
    <2>2. VolumeGrows
      BY <2>1 DEF MeasurementInv, BoxInv, Early, VolumeGrows
    <2>3. QED
      BY <2>1, <2>2, LocalStays DEF Effect, CallsStay, Apart, hostVars
  <1>4. CASE OrphanBuilds
    BY <1>4, LocalStays DEF OrphanBuilds, Effect, VolumeGrows, CallsStay, hostVars, remoteVars
  <1>5. QED
    BY <1>1, <1>2, <1>3, <1>4 DEF Provider

LEMMA StepEffect == MeasurementInv /\ [Next]_vars => Effect
  <1> SUFFICES ASSUME MeasurementInv, [Next]_vars PROVE Effect
    OBVIOUS
  <1>1. CASE Next
    BY <1>1, ManagersEffect, ContainerEffect, ProviderEffect DEF Next
  <1>2. CASE UNCHANGED vars
    BY <1>2, LocalStays DEF vars, hostVars, remoteVars, Effect, VolumeGrows, CallsStay
  <1>3. QED
    BY <1>1, <1>2

-----------------------------------------------------------------------------
(* The attempt is a one-shot attempt.                                       *)

Claimant == IF registry = None THEN None ELSE registry.call
Recorded == {<<r.call, r.kind>> : r \in Receipts(volume)}

OneReceipt ==
  \A r \in Receipts(volume) :
    /\ Receipts(volume) = {r} /\ r.kind \in Outcomes /\ r.call = Owner
    /\ registry # None /\ (r.kind = "success" => paid # {})

LEMMA OneReceiptHolds == MeasurementInv => OneReceipt
  BY ReceiptAlone DEF OneReceipt

LEMMA ClaimantHasNoOutcome ==
  ASSUME MeasurementInv, registry = None
  PROVE  Receipts(volume) = {}
  BY ReceiptAlone

LEMMA AttemptSteps ==
  /\ Claimant = None /\ Claimant' \in Hosts /\ paid' = paid /\ Recorded' = Recorded
       => OneShot!AttemptNext
  /\ \A t \in Tasks :
       /\ Claimant # None /\ paid = {} /\ Recorded = {}
       /\ paid' = {<<Claimant, t>>} /\ Claimant' = Claimant /\ Recorded' = {}
       => OneShot!AttemptNext
  /\ \A o \in Outcomes :
       /\ Claimant # None /\ Recorded = {} /\ (o = "success" => paid # {})
       /\ Recorded' = {<<Claimant, o>>} /\ Claimant' = Claimant /\ paid' = paid
       => OneShot!AttemptNext
  /\ Claimant' = Claimant /\ paid' = paid /\ Recorded' = Recorded => UNCHANGED OneShot!attemptVars
  BY DEF OneShot!AttemptNext, OneShot!ClaimFor, OneShot!Begin, OneShot!Conclude, OneShot!attemptVars,
         Claimant, Recorded, Outcomes

LEMMA OneShotStep ==
  ASSUME MeasurementInv, OneReceipt, OneReceipt', [Next]_vars
  PROVE  [OneShot!AttemptNext]_(OneShot!attemptVars)
  <1>1. VolumeGrows /\ (Claims \/ Begins \/ UNCHANGED <<registry, paid>>)
    BY StepEffect DEF Effect
  <1>2. CASE Claims
    <2>1. Claimant = None /\ Claimant' \in Hosts /\ paid' = paid /\ Recorded' = Recorded
      BY <1>2 DEF Claims, Claimant, Recorded
    <2>2. QED
      BY <2>1, AttemptSteps
  <1>3. registry # None => Claimant = Owner /\ Owner \in Hosts /\ Owner # None
    BY RegistryRecord, EvidenceAssumption DEF Claimant, Owner, MeasurementInv
  <1>4. CASE Begins
    <2>1. PICK t \in Tasks : paid' = {<<Owner, t>>}
      BY <1>4 DEF Begins
    <2>2. /\ Claimant # None /\ Claimant = Owner /\ paid = {} /\ Recorded = {} /\ Recorded' = {}
          /\ Claimant' = Claimant
      BY <1>3, <1>4 DEF Begins, Recorded, Claimant
    <2>3. QED
      BY <2>1, <2>2, AttemptSteps
  <1>5. CASE UNCHANGED <<registry, paid>>
    <2>1. Claimant' = Claimant /\ Owner' = Owner /\ Receipts(volume) \subseteq Receipts(volume')
      BY <1>1, <1>5, ReceiptsAre DEF Claimant, Owner, VolumeGrows
    <2>2. CASE Receipts(volume) = Receipts(volume')
      <3>1. Recorded' = Recorded
        BY <2>2 DEF Recorded
      <3>2. QED
        BY <1>5, <2>1, <3>1, AttemptSteps
    <2>3. CASE Receipts(volume) # Receipts(volume')
      <3>1. PICK r \in Receipts(volume') : r \notin Receipts(volume)
        BY <2>1, <2>3
      <3>2. /\ Receipts(volume') = {r} /\ r.kind \in Outcomes /\ r.call = Owner /\ registry # None
            /\ r.kind = "success" => paid # {}
        BY <1>5, <2>1, <3>1 DEF OneReceipt
      <3>3. Receipts(volume) = {}
        BY <2>1, <3>1, <3>2
      <3>4. Recorded = {} /\ Recorded' = {<<Claimant, r.kind>>}
        BY <1>3, <3>2, <3>3 DEF Recorded
      <3>5. QED
        BY <1>3, <1>5, <2>1, <3>2, <3>4, AttemptSteps
    <2>4. QED
      BY <2>2, <2>3
  <1>6. QED
    BY <1>1, <1>2, <1>4, <1>5

\* Everything the managers, the provider and the containers do implements the
\* abstract attempt: one claim, one beginning of the paid work for it and before
\* any outcome, one outcome for good (_claim_attempt, claim_diagnostic_attempt,
\* _publish_terminal_receipt).
THEOREM MeasurementImplementsOneShot == Spec => ImplementsOneShot
  <1>1. Init => OneShot!AttemptInit
    BY ReceiptsAre DEF Init, OneShot!AttemptInit
  <1>2. MeasurementInv /\ OneReceipt /\ OneReceipt' /\ [Next]_vars
        => [OneShot!AttemptNext]_(OneShot!attemptVars)
    BY OneShotStep
  <1>3. QED
    BY <1>1, <1>2, OneReceiptHolds, MeasurementInvariant, PTL
       DEF Spec, ImplementsOneShot, OneShot!AttemptSpec

-----------------------------------------------------------------------------
(* The answers of status.                                                   *)

Terminal(h) == TerminalEvidence(variant, h, volume, BoundClaim(h, volume, registry))
Refusing(h) ==
  \/ versions # 1 \/ ~OnlyLaunch(h, volume)
  \/ "refused" \in {BoundClaim(h, volume, registry), Terminal(h)}

LEMMA StatusIs ==
  ASSUME NEW h \in Hosts
  PROVE  /\ ~Bound(h) => Status(h) = "unbound"
         /\ Bound(h) /\ Refusing(h) => Status(h) = "refused"
         /\ Bound(h) /\ ~Refusing(h) /\ Terminal(h) # "none" => Status(h) = Terminal(h)
         /\ Bound(h) /\ ~Refusing(h) /\ Terminal(h) = "none" => Status(h) = ProviderState(h)
  BY DEF Status, Refusing, Terminal

LEMMA TerminalIs ==
  ASSUME NEW h, NEW v, NEW claim
  PROVE  /\ Receipts(v) = {} => TerminalEvidence(variant, h, v, claim) = "none"
         /\ Receipts(v) # {} => \/ TerminalEvidence(variant, h, v, claim) = "refused"
                               \/ \E r \in Receipts(v) : TerminalEvidence(variant, h, v, claim) = r.kind
  BY DEF TerminalEvidence

\* An answer that stands is one of two: a receipt's, or that there is none.
LEMMA OverIs ==
  ASSUME NEW h \in Hosts, Status(h) \in Over
  PROVE  /\ Bound(h) /\ ~Refusing(h)
         /\ \/ Receipts(volume) # {} /\ Status(h) = Terminal(h)
            \/ /\ Receipts(volume) = {} /\ Status(h) = ProviderState(h)
               /\ call[h].status \in {"failed", "returned"}
  <1>1. Bound(h) /\ ~Refusing(h)
    BY StatusIs DEF Over
  <1>2. CASE Receipts(volume) # {}
    <2>1. Terminal(h) # "none"
      <3>1. \A r \in Receipts(volume) : r.kind # "none"
        BY ReceiptsAre DEF Outcomes
      <3>2. QED
        BY <1>2, <3>1, TerminalIs DEF Terminal
    <2>2. QED
      BY <1>1, <1>2, <2>1, StatusIs
  <1>3. CASE Receipts(volume) = {}
    <2>1. Terminal(h) = "none"
      BY <1>3, TerminalIs DEF Terminal
    <2>2. Status(h) = ProviderState(h)
      BY <1>1, <2>1, StatusIs
    <2>3. call[h].status \in {"failed", "returned"}
      BY <2>2 DEF ProviderState, Over
    <2>4. QED
      BY <1>1, <1>3, <2>2, <2>3
  <1>4. QED
    BY <1>2, <1>3

\* What status makes of a receipt on the volume.
ReceiptAnswers ==
  \A h \in Hosts : \A r \in Receipts(volume) :
    Bound(h) => /\ Owner # h => Status(h) = "refused"
                /\ Owner = h => Status(h) \in {r.kind, "refused"}

LEMMA ReceiptsAnswer == MeasurementInv => ReceiptAnswers
  <1> SUFFICES ASSUME MeasurementInv, NEW h \in Hosts, NEW r \in Receipts(volume), Bound(h)
               PROVE  /\ Owner # h => Status(h) = "refused"
                      /\ Owner = h => Status(h) \in {r.kind, "refused"}
    BY DEF ReceiptAnswers
  <1>1. /\ r.kind \in Outcomes /\ r.call = Owner /\ registry # None
    BY ReceiptAlone
  <1>2. ASSUME Owner # h PROVE Status(h) = "refused"
    BY <1>1, <1>2, ClaimBinds, StatusIs DEF Refusing
  <1>3. ASSUME Owner = h PROVE Status(h) \in {r.kind, "refused"}
    <2>1. Terminal(h) = r.kind
      BY <1>1, <1>3, Backed DEF ReceiptsBacked, Terminal
    <2>2. Terminal(h) # "none"
      BY <1>1, <2>1 DEF Outcomes
    <2>3. QED
      BY <2>1, <2>2, StatusIs
  <1>4. QED
    BY <1>2, <1>3

LEMMA AnswerStep ==
  ASSUME MeasurementInv, OneReceipt', ReceiptAnswers, ReceiptAnswers', [Next]_vars,
         NEW h \in Hosts, Status(h) \in Over
  PROVE  Status(h)' \in {Status(h), "refused"}
  <1>1. VolumeGrows /\ (Claims \/ Begins \/ UNCHANGED <<registry, paid>>) /\ CallsStay
    BY StepEffect DEF Effect
  <1>2. Bound(h) /\ Bound(h)'
    BY <1>1, OverIs DEF CallsStay
  <1>3. Receipts(volume) \subseteq Receipts(volume')
    BY <1>1, ReceiptsAre DEF VolumeGrows
  <1>4. registry # None => Owner' = Owner
    BY <1>1 DEF Claims, Begins, Owner
  <1>5. CASE Receipts(volume) # {}
    <2>1. PICK r \in Receipts(volume) : TRUE
      BY <1>5
    <2>2. registry # None
      BY <2>1, ReceiptAlone
    <2>3. Status(h) # "refused"
      BY DEF Over
    <2>4. Owner = h /\ Status(h) = r.kind
      BY <1>2, <2>1, <2>3 DEF ReceiptAnswers
    <2>5. QED
      BY <1>2, <1>3, <1>4, <2>1, <2>2, <2>4 DEF ReceiptAnswers
  <1>6. CASE Receipts(volume) = {} /\ Receipts(volume') = {}
    <2>1. Status(h) = ProviderState(h) /\ call[h].status \in {"failed", "returned"}
      BY <1>6, OverIs
    <2>2. ProviderState(h)' = ProviderState(h)
      BY <1>1, <2>1 DEF ProviderState, CallsStay
    <2>3. Terminal(h)' = "none"
      BY <1>6, TerminalIs DEF Terminal, TerminalEvidence
    <2>4. Status(h)' \in {ProviderState(h)', "refused"}
      BY <1>2, <2>3 DEF Status, Terminal
    <2>5. QED
      BY <2>1, <2>2, <2>4
  <1>7. CASE Receipts(volume) = {} /\ Receipts(volume') # {}
    <2>1. PICK r \in Receipts(volume') : r \notin Receipts(volume)
      BY <1>7
    <2>2. r \in volume' \ volume /\ r.kind \in Outcomes
      BY <2>1, ReceiptsAre
    <2>3. box # None /\ box.step \notin Early /\ registry' = registry
      BY <1>1, <2>2 DEF VolumeGrows
    <2>4. Owner' = box.call /\ call[box.call].status = "running"
      BY <2>3, Behind DEF Owner, MeasurementInv, CallInv
    <2>5. call[h].status \in {"failed", "returned"}
      BY <1>7, OverIs
    <2>6. Owner' # h
      BY <2>4, <2>5
    <2>7. QED
      BY <1>2, <2>1, <2>6 DEF ReceiptAnswers
  <1>8. QED
    BY <1>3, <1>5, <1>6, <1>7

\* What status answers about an attempt that is over stays the answer, unless it
\* becomes a refusal: no receipt comes after the end of its call, and none is
\* joined by another (_terminal_evidence, _provider_state).
THEOREM MeasurementAnswersStand == Spec => AnswerStands
  <1>1. MeasurementInv /\ OneReceipt' /\ ReceiptAnswers /\ ReceiptAnswers' /\ [Next]_vars
        => [\A h \in Hosts : Status(h) \in Over => Status(h)' \in {Status(h), "refused"}]_vars
    BY AnswerStep
  <1>2. QED
    BY <1>1, OneReceiptHolds, ReceiptsAnswer, MeasurementInvariant, PTL DEF Spec, AnswerStands
=============================================================================
