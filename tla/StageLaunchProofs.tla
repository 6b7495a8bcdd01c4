-------------------------- MODULE StageLaunchProofs --------------------------
(***************************************************************************)
(* For any number of stages, launches, managers and faults: never two      *)
(* calls pending, no stage at work more often than its caps allow, a       *)
(* recorded publication can always be finished, and what is committed as   *)
(* published or as successful stays.                                       *)
(***************************************************************************)
EXTENDS StageLaunch, FiniteSetTheorems, SequenceTheorems, TLAPS

\* The manager.  A manager that is active has the lock and is alone; what it
\* has looked at still holds when it acts on it.
LockHeld ==
  \A m \in Managers : manager[m].pc # "idle" =>
    /\ lock = "held"
    /\ \A n \in Managers : manager[n].pc # "idle" => n = m

NonePending == \A i \in Intents : ~Pending(i)
Below(s) == \A a \in Stages : a < s => volume[a].success # None
Looked(w) ==
  /\ w.pc \in {"launchable", "intend", "spawn"} => w.stage \in Stages
  /\ w.pc \in {"active", "launchable", "intend"} => Unresolved = {}
  /\ w.pc = "active" => w.stage \in Stages
  /\ w.pc = "launchable" => \A i \in Created : intentStage[i] \in {w.stage - 1, w.stage} => ~Pending(i)
  /\ w.pc = "intend" => Below(w.stage)
  /\ w.pc \in {"intend", "spawn"} => NonePending /\ volume[w.stage].success = None
  /\ w.pc \in {"spawn", "record"} => w.intent \in Intents /\ Unresolved = {w.intent}
  /\ w.pc = "spawn" => intentStage[w.intent] = w.stage
ManagerInv == LockHeld /\ \A m \in Managers : Looked(manager[m])

\* The records.  Intents are numbered without gaps, a call has an intent, a
\* receipt too; the stages below one that was ever launched are done; and no
\* call of an earlier stage is pending once a later one was launched.
RecordInv ==
  /\ \E n \in Nat : Created = 1 .. n
  /\ receipts \subseteq Created
  /\ \A i \in Intents : call[i].status # "none" => i \in Created
  /\ \A i \in Created : Below(intentStage[i])
  /\ \A i, j \in Created : intentStage[i] < intentStage[j] => ~Pending(i)
  /\ \A s \in Stages : volume[s].success # None =>
       volume[s].success \in Intents /\ intentStage[volume[s].success] = s

\* The volume.  A container's working copy has all that is committed, and a
\* charge is in the history before the work it pays for.
Grows(v, w, i) ==
  /\ w.success \in {v.success, i}
  /\ \A k \in Kinds : Len(v.history[k]) <= Len(w.history[k])
Capped(s, v) == \A k \in Kinds : Len(v.history[k]) <= Limit(s, k)
Charging == {"count", "commit_begin"}
Paid(s, v) == \A k \in Kinds : worked[s][k] <= Len(v.history[k])
VolumeInv ==
  /\ \A s \in Stages : Capped(s, volume[s]) /\ Paid(s, volume[s])
  /\ \A i \in Intents : call[i].status = "running" =>
       /\ Grows(volume[StageOf(i)], Disk(i), i) /\ Capped(StageOf(i), Disk(i))
       /\ call[i].pc \in Charging =>
            worked[StageOf(i)][KindCharged(i)] < Len(Disk(i).history[KindCharged(i)])

IInv == TypeOK /\ OnePendingCall /\ ManagerInv /\ RecordInv /\ VolumeInv

-----------------------------------------------------------------------------
(* Constants and subtrees. *)

LEMMA ConstantFacts ==
  /\ Stages \subseteq Nat /\ Intents \subseteq Nat /\ None \notin Stages /\ None \notin Intents
  /\ \A s \in Stages : s > 1 => s - 1 \in Stages
  /\ \A s \in Stages, k \in Kinds : Limit(s, k) \in Nat
BY VolumeAssumption, LaunchAssumption DEF VolumeAssumption, LaunchAssumption, Limit, Kinds

\* The operations that leave history and success alone.
Same(v, w) == w \in Subtrees /\ w.history = v.history /\ w.success = v.success

LEMMA QuietOperations ==
  ASSUME NEW v \in Subtrees
  PROVE  /\ \A k \in Kinds : Same(v, UpdateLedger(v, k))
         /\ Same(v, StartPartial(v)) /\ Same(v, FillPartial(v))
         /\ Same(v, Publish(v)) /\ Same(v, WriteReceipt(v)) /\ Same(v, WriteValidation(v))
         /\ \A k \in Nat : Same(v, Prepare(v, k))
<1>1. \A k \in Kinds : Len(v.history[k]) \in Nat
  BY LenProperties DEF Subtrees
<1>2. "attempt" \in Kinds
  BY DEF Kinds
<1>3. ASSUME NEW k \in Kinds PROVE Same(v, UpdateLedger(v, k))
  BY <1>1 DEF Same, Subtrees, UpdateLedger
<1>4. \A full \in BOOLEAN : {Partial(Len(v.history["attempt"]), full)} \subseteq [attempt : Nat, full : BOOLEAN]
  BY <1>1, <1>2 DEF Partial
<1>5. Same(v, StartPartial(v)) /\ Same(v, FillPartial(v))
  BY <1>4 DEF Same, Subtrees, StartPartial, FillPartial
<1>6. Same(v, Publish(v))
  BY DEF Same, Subtrees, Publish
<1>7. Same(v, WriteReceipt(v))
  BY DEF Same, Subtrees, WriteReceipt
<1>8. Same(v, WriteValidation(v))
  BY <1>1, <1>2 DEF Same, Subtrees, WriteValidation, Latest
<1>9. ASSUME NEW k \in Nat PROVE Same(v, Prepare(v, k))
  BY <1>9 DEF Same, Subtrees, Prepare
<1> QED BY <1>3, <1>5, <1>6, <1>7, <1>8, <1>9

LEMMA SuccessOperations ==
  ASSUME NEW v \in Subtrees, NEW i \in Intents
  PROVE  /\ WriteSuccess(v, i) \in Subtrees /\ WriteAdoption(v, i) \in Subtrees
         /\ WriteSuccess(v, i).history = v.history /\ WriteAdoption(v, i).history = v.history
         /\ WriteSuccess(v, i).success = i /\ WriteAdoption(v, i).success = i
<1>1. Len(v.history["attempt"]) \in Nat
  BY LenProperties DEF Subtrees, Kinds
<1> QED
  BY <1>1 DEF Subtrees, WriteSuccess, WriteAdoption, Latest

LEMMA StartOperation ==
  ASSUME NEW v \in Subtrees, NEW i \in Intents, NEW k \in Kinds
  PROVE  LET w == RecordStart(v, k, i) IN
         /\ w \in Subtrees /\ w.success = v.success
         /\ Len(w.history[k]) = Len(v.history[k]) + 1
         /\ \A l \in Kinds \ {k} : w.history[l] = v.history[l]
<1>1. v.history[k] \in Seq(Intents)
  BY DEF Subtrees
<1>2. /\ Append(v.history[k], i) \in Seq(Intents)
      /\ Len(Append(v.history[k], i)) = Len(v.history[k]) + 1
  BY <1>1, AppendProperties
<1> QED
  BY <1>2 DEF Subtrees, RecordStart

LEMMA SubtreeLengths ==
  ASSUME NEW v \in Subtrees, NEW k \in Kinds
  PROVE  Len(v.history[k]) \in Nat
BY LenProperties DEF Subtrees

-----------------------------------------------------------------------------
(* Initial states. *)

LEMMA EmptyIsSubtree ==
  /\ EmptySubtree \in Subtrees /\ EmptySubtree.success = None
  /\ \A k \in Kinds : Len(EmptySubtree.history[k]) = 0
<1>1. << >> \in Seq(Intents) /\ Len(<< >>) = 0
  BY EmptySeq
<1> QED BY <1>1 DEF EmptySubtree, Subtrees

LEMMA InitIInv == Init => IInv
<1> SUFFICES ASSUME Init PROVE IInv
  OBVIOUS
<1>1. TypeOK
  <2>1. NoCall \in [ status : Statuses, pc : Positions, plan : Plans, disk : Subtrees ]
    BY EmptyIsSubtree DEF NoCall, Statuses, Positions, Plans
  <2>2. Idle \in [ pc : ManagerPositions, stage : Stages \union {None}, intent : Intents \union {None} ]
    BY DEF Idle, ManagerPositions
  <2>3. 0 \in 0 .. MaxFaults
    BY LaunchAssumption DEF LaunchAssumption
  <2> QED BY <2>1, <2>2, <2>3, EmptyIsSubtree DEF Init, TypeOK
<1>2. \A i \in Intents : ~Pending(i) /\ call[i].status = "none"
  BY DEF Init, Pending, NoCall
<1>3. Created = {} /\ Created = 1 .. 0
  BY DEF Init, Created
<1>4. ManagerInv
  BY DEF Init, ManagerInv, LockHeld, Looked, Idle
<1>5. RecordInv
  BY <1>2, <1>3, EmptyIsSubtree DEF Init, RecordInv
<1>6. VolumeInv
  BY <1>2, EmptyIsSubtree, ConstantFacts DEF Init, VolumeInv, Capped, Paid
<1> QED BY <1>1, <1>2, <1>4, <1>5, <1>6 DEF IInv, OnePendingCall

-----------------------------------------------------------------------------
(* Containers. *)

\* A step of call i that keeps the volume and the container's working copy
\* growing, and charges before it works, keeps the invariant.
LEMMA GrowingStepKeepsIInv ==
  ASSUME IInv, NEW i \in Intents, Pending(i), UNCHANGED managerVars, TypeOK',
         \A j \in Intents \ {i} : call'[j] = call[j],
         \A s \in Stages \ {StageOf(i)} : volume'[s] = volume[s] /\ worked'[s] = worked[s],
         call'[i].status # "none",
         Grows(volume[StageOf(i)], volume'[StageOf(i)], i),
         Capped(StageOf(i), volume'[StageOf(i)]),
         \A k \in Kinds : worked'[StageOf(i)][k] <= Len(volume'[StageOf(i)].history[k]),
         call'[i].status = "running" =>
           /\ Grows(volume'[StageOf(i)], call'[i].disk, i) /\ Capped(StageOf(i), call'[i].disk)
           /\ call'[i].pc \in Charging =>
                worked'[StageOf(i)][KindCharged(i)'] < Len(call'[i].disk.history[KindCharged(i)'])
  PROVE  IInv'
<1> DEFINE s == StageOf(i)
<1>1. /\ i \in Created /\ s \in Stages /\ intentStage[i] = s
      /\ \A j \in Intents : j # i => ~Pending(j)
  BY DEF IInv, RecordInv, OnePendingCall, Pending, Created, StageOf, TypeOK
<1>2. /\ \A j \in Intents : Pending(j)' => j = i
      /\ Created' = Created /\ Unresolved' = Unresolved /\ StageOf(i)' = s
      /\ \A a \in Stages : volume[a].success # None => volume'[a].success # None
  BY <1>1, ConstantFacts DEF Pending, Created, Unresolved, StageOf, managerVars, Grows
<1>3. OnePendingCall'
  BY <1>2 DEF OnePendingCall
<1>4. ManagerInv'
  <2>1. LockHeld'
    BY DEF IInv, ManagerInv, LockHeld, managerVars
  <2>2. ASSUME NEW m \in Managers PROVE Looked(manager[m])'
    <3>1. Looked(manager[m]) /\ manager'[m] = manager[m] /\ intentStage' = intentStage
      BY DEF IInv, ManagerInv, managerVars
    <3>2. manager[m].pc \notin {"intend", "spawn"}
      BY <3>1 DEF Looked, NonePending
    <3>3. manager[m].pc = "launchable" =>
            \A j \in Created' : intentStage'[j] \in {manager[m].stage - 1, manager[m].stage} => ~Pending(j)'
      BY <3>1, <1>2 DEF Looked, Created
    <3> QED BY <3>1, <3>2, <3>3, <1>2 DEF Looked
  <2> QED BY <2>1, <2>2 DEF ManagerInv
<1>5. RecordInv'
  <2>1. /\ \E n \in Nat : Created' = 1 .. n
        /\ receipts' \subseteq Created'
        /\ \A j \in Intents : call'[j].status # "none" => j \in Created'
    BY <1>1, <1>2 DEF IInv, RecordInv, managerVars
  <2>2. (\A j \in Created : Below(intentStage[j]))'
    BY <1>2 DEF IInv, RecordInv, managerVars, Below
  <2>3. \A j, k \in Created' : intentStage'[j] < intentStage'[k] => ~Pending(j)'
    BY <1>2 DEF IInv, RecordInv, managerVars, Created
  <2>4. \A a \in Stages : volume'[a].success # None =>
          volume'[a].success \in Intents /\ intentStage'[volume'[a].success] = a
    BY <1>1 DEF IInv, RecordInv, managerVars, Grows
  <2> QED BY <2>1, <2>2, <2>3, <2>4 DEF RecordInv
<1>6. VolumeInv'
  <2>1. ASSUME NEW a \in Stages PROVE Capped(a, volume'[a]) /\ Paid(a, volume[a])'
    BY <1>1 DEF IInv, VolumeInv, Paid
  <2>2. ASSUME NEW j \in Intents, call'[j].status = "running"
        PROVE  /\ j = i
               /\ Grows(volume'[s], call'[i].disk, i) /\ Capped(s, call'[i].disk)
               /\ call'[i].pc \in Charging =>
                    worked'[s][KindCharged(i)'] < Len(call'[i].disk.history[KindCharged(i)'])
    BY <2>2, <1>2 DEF Pending
  <2>3. (\A a \in Stages : Capped(a, volume[a]) /\ Paid(a, volume[a]))'
    BY <2>1 DEF Capped
  <2>4. (\A j \in Intents : call[j].status = "running" =>
          /\ Grows(volume[StageOf(j)], Disk(j), j) /\ Capped(StageOf(j), Disk(j))
          /\ call[j].pc \in Charging =>
               worked[StageOf(j)][KindCharged(j)] < Len(Disk(j).history[KindCharged(j)]))'
    BY <1>2, <2>2 DEF Disk, Capped, Grows
  <2> QED BY <2>3, <2>4 DEF VolumeInv
<1> QED BY <1>3, <1>4, <1>5, <1>6 DEF IInv

-----------------------------------------------------------------------------
(* The manager. *)

\* A manager that acts, and its step, concern nobody else.
LEMMA ManagerAlone ==
  ASSUME IInv, NEW m \in Managers, manager[m].pc # "idle"
  PROVE  \A n \in Managers : n # m => manager[n].pc = "idle"
BY DEF IInv, ManagerInv, LockHeld

LEMMA IdleLooked ==
  ASSUME NEW w, w.pc \in {"idle", "release"} PROVE Looked(w) /\ Looked(w)'
BY DEF Looked

LEMMA AcquireKeepsIInv ==
  ASSUME IInv, NEW m \in Managers, NEW s \in Stages, Acquire(m, s)
  PROVE  IInv'
<1>1. /\ lock = "free" /\ Unresolved = {} /\ lock' = "held"
      /\ manager' = [manager EXCEPT ![m] = [pc |-> "active", stage |-> s, intent |-> None]]
      /\ UNCHANGED <<intentStage, receipts, call, volume, worked, faults>>
  BY DEF Acquire, LockAvailable
<1>2. \A n \in Managers : manager[n].pc = "idle"
  BY <1>1 DEF IInv, ManagerInv, LockHeld
<1>3. TypeOK'
  BY <1>1 DEF IInv, TypeOK, ManagerPositions
<1>4. manager' \in [Managers -> [pc : ManagerPositions, stage : Stages \union {None}, intent : Intents \union {None}]]
  BY <1>3 DEF TypeOK
<1>5. /\ manager'[m] = [pc |-> "active", stage |-> s, intent |-> None]
      /\ \A n \in Managers : n # m => manager'[n] = manager[n]
  BY <1>1 DEF IInv, TypeOK
<1>6. ManagerInv'
  <2>1. LockHeld'
    BY <1>1, <1>2, <1>5 DEF LockHeld
  <2>2. Looked(manager[m])'
    BY <1>1, <1>5 DEF Looked, Unresolved, Created
  <2>3. ASSUME NEW n \in Managers, n # m PROVE Looked(manager[n])'
    BY <2>3, <1>2, <1>5 DEF Looked
  <2> QED BY <2>1, <2>2, <2>3 DEF ManagerInv
<1>7. OnePendingCall' /\ RecordInv' /\ VolumeInv'
  BY <1>1 DEF IInv, OnePendingCall, RecordInv, VolumeInv, Pending, Created, Below, StageOf, Disk,
     KindCharged, Adopts, Grows, Capped, Paid
<1> QED BY <1>3, <1>6, <1>7 DEF IInv

Workers == [pc : ManagerPositions, stage : Stages \union {None}, intent : Intents \union {None}]

\* A step that moves only the manager, to where what it knows suffices.
LEMMA ManagerMoveKeepsIInv ==
  ASSUME IInv, NEW m \in Managers, manager[m].pc # "idle", NEW w \in Workers,
         manager' = [manager EXCEPT ![m] = w], Looked(w),
         UNCHANGED <<intentStage, receipts, call, volume, worked>>,
         lock' \in {"free", "held", "stale"}, lock' = lock \/ w.pc = "idle",
         faults' \in 0 .. MaxFaults
  PROVE  IInv'
<1>1. /\ manager'[m] = w /\ \A n \in Managers \ {m} : manager'[n] = manager[n]
      /\ manager' \in [Managers -> Workers]
  BY DEF IInv, TypeOK, Workers
<1>2. TypeOK'
  BY <1>1 DEF IInv, TypeOK, Workers
<1>3. LockHeld'
  BY <1>1 DEF IInv, ManagerInv, LockHeld
<1>4. ASSUME NEW n \in Managers PROVE Looked(manager[n])'
  <2>1. Looked(manager'[n])
    BY <1>1 DEF IInv, ManagerInv
  <2> QED BY <2>1 DEF Looked, Unresolved, Created, Pending, NonePending, Below
<1>5. OnePendingCall' /\ RecordInv' /\ VolumeInv'
  BY DEF IInv, OnePendingCall, RecordInv, VolumeInv, Pending, Created, Below, StageOf, Disk,
     KindCharged, Adopts, Grows, Capped, Paid
<1> QED BY <1>2, <1>3, <1>4, <1>5 DEF IInv, ManagerInv

\* What CheckActive finds is what launchable means: every intent has a receipt.
LEMMA CheckActiveKeepsIInv ==
  ASSUME IInv, NEW m \in Managers, CheckActive(m)
  PROVE  IInv'
<1> DEFINE w == [manager[m] EXCEPT !.pc = IF NoActiveCall(manager[m].stage) THEN "launchable" ELSE "release"]
<1>1. /\ manager[m] \in Workers /\ manager[m].pc = "active" /\ Looked(manager[m])
      /\ UNCHANGED <<lock, intentStage, receipts, call, volume, worked, faults>>
      /\ lock \in {"free", "held", "stale"} /\ faults \in 0 .. MaxFaults
  BY DEF CheckActive, IInv, TypeOK, ManagerInv, Workers
<1>2. w \in Workers /\ w.stage = manager[m].stage /\ w.pc \in {"launchable", "release"}
      /\ (w.pc = "launchable" => NoActiveCall(manager[m].stage))
  BY <1>1 DEF Workers, ManagerPositions
<1>3. manager' = [manager EXCEPT ![m] = w]
  BY <1>1 DEF CheckActive, ToPosition, IInv, TypeOK
<1>4. Looked(w)
  <2>1. Unresolved = {} /\ manager[m].stage \in Stages
    BY <1>1 DEF Looked
  <2>2. w.pc = "launchable" =>
          \A i \in Created : intentStage[i] \in {w.stage - 1, w.stage} => ~Pending(i)
    BY <2>1, <1>2 DEF NoActiveCall, Unresolved
  <2> QED BY <1>2, <2>1, <2>2 DEF Looked
<1> QED BY <1>1, <1>2, <1>3, <1>4, ManagerMoveKeepsIInv

\* A stage that is launchable leaves no call pending, of any stage.
LEMMA LaunchableQuiet ==
  ASSUME IInv, NEW s \in Stages, Launchable(s),
         \A i \in Created : intentStage[i] \in {s - 1, s} => ~Pending(i)
  PROVE  NonePending /\ Below(s) /\ volume[s].success = None
<1>1. volume[s].success = None
  BY DEF Launchable
<1>2. ASSUME s > 1
      PROVE  \E k \in Created : intentStage[k] = s - 1
  <2>1. s - 1 \in Stages /\ volume[s - 1].success # None
    BY <1>2, ConstantFacts DEF Launchable
  <2> QED BY <2>1, ConstantFacts DEF IInv, RecordInv, Created
<1>3. Below(s)
  <2> SUFFICES ASSUME NEW a \in Stages, a < s PROVE volume[a].success # None
    BY DEF Below
  <2>1. s > 1 /\ a \in Nat /\ s \in Nat
    BY ConstantFacts, LaunchAssumption DEF LaunchAssumption
  <2>2. CASE a = s - 1 BY <2>1, <2>2 DEF Launchable
  <2>3. CASE a < s - 1
    BY <2>1, <2>3, <1>2 DEF IInv, RecordInv, Below
  <2> QED BY <2>1, <2>2, <2>3
<1>4. ASSUME NEW i \in Intents, Pending(i) PROVE FALSE
  <2>1. i \in Created /\ intentStage[i] \in Stages /\ intentStage[i] \in Nat /\ s \in Nat
    BY <1>4, ConstantFacts DEF IInv, RecordInv, Pending, TypeOK, Created
  <2>2. CASE intentStage[i] \in {s - 1, s}
    BY <2>1, <2>2, <1>4
  <2>3. CASE s < intentStage[i]
    BY <2>1, <2>3, <1>1 DEF IInv, RecordInv, Below
  <2>4. CASE intentStage[i] < s - 1
    <3>1. s > 1
      BY <2>1, <2>4, ConstantFacts, LaunchAssumption DEF LaunchAssumption
    <3>2. PICK k \in Created : intentStage[k] = s - 1
      BY <3>1, <1>2
    <3> QED BY <2>1, <2>4, <3>2, <1>4 DEF IInv, RecordInv
  <2> QED BY <2>1, <2>2, <2>3, <2>4
<1> QED BY <1>1, <1>3, <1>4 DEF NonePending

LEMMA CheckLaunchableKeepsIInv ==
  ASSUME IInv, NEW m \in Managers, CheckLaunchable(m)
  PROVE  IInv'
<1> DEFINE w == [manager[m] EXCEPT !.pc = IF Launchable(manager[m].stage) THEN "intend" ELSE "release"]
<1>1. /\ manager[m] \in Workers /\ manager[m].pc = "launchable" /\ Looked(manager[m])
      /\ UNCHANGED <<lock, intentStage, receipts, call, volume, worked, faults>>
      /\ lock \in {"free", "held", "stale"} /\ faults \in 0 .. MaxFaults
  BY DEF CheckLaunchable, IInv, TypeOK, ManagerInv, Workers
<1>2. w \in Workers /\ w.stage = manager[m].stage /\ w.pc \in {"intend", "release"}
      /\ (w.pc = "intend" => Launchable(manager[m].stage))
  BY <1>1 DEF Workers, ManagerPositions
<1>3. manager' = [manager EXCEPT ![m] = w]
  BY <1>1 DEF CheckLaunchable, ToPosition, IInv, TypeOK
<1>4. Looked(w)
  <2>1. /\ Unresolved = {} /\ manager[m].stage \in Stages
        /\ \A i \in Created :
             intentStage[i] \in {manager[m].stage - 1, manager[m].stage} => ~Pending(i)
    BY <1>1 DEF Looked
  <2>2. w.pc = "intend" => NonePending /\ Below(w.stage) /\ volume[w.stage].success = None
    BY <2>1, <1>2, LaunchableQuiet
  <2> QED BY <1>2, <2>1, <2>2 DEF Looked
<1> QED BY <1>1, <1>2, <1>3, <1>4, ManagerMoveKeepsIInv

LEMMA ReleaseKeepsIInv ==
  ASSUME IInv, NEW m \in Managers, Release(m) \/ ManagerDies(m)
  PROVE  IInv'
<1>1. /\ manager[m].pc # "idle" /\ manager' = [manager EXCEPT ![m] = Idle]
      /\ UNCHANGED <<intentStage, receipts, call, volume, worked>>
      /\ lock' \in {"free", "held", "stale"} /\ faults' \in 0 .. MaxFaults
  BY LaunchAssumption DEF Release, ManagerDies, Fault, IInv, TypeOK, LaunchAssumption
<1>2. Idle \in Workers /\ Idle.pc = "idle" /\ Looked(Idle)
  BY DEF Idle, Workers, ManagerPositions, Looked
<1> QED BY <1>1, <1>2, ManagerMoveKeepsIInv

\* The new intent has the next number; nothing is pending, so no order is broken.
LEMMA CreateIntentKeepsIInv ==
  ASSUME IInv, NEW m \in Managers, CreateIntent(m)
  PROVE  IInv'
<1> DEFINE i == Cardinality(Created) + 1
           s == manager[m].stage
           w == [manager[m] EXCEPT !.pc = "spawn", !.intent = i]
<1>1. /\ manager[m] \in Workers /\ manager[m].pc = "intend" /\ Looked(manager[m])
      /\ Created # Intents
      /\ intentStage' = [intentStage EXCEPT ![i] = s]
      /\ manager' = [manager EXCEPT ![m] = w]
      /\ UNCHANGED <<lock, receipts, call, volume, worked, faults>>
  BY DEF CreateIntent, IInv, TypeOK, ManagerInv, Workers
<1>2. i \in Intents /\ Created' = Created \union {i} /\ i \notin Created
      /\ \E n \in Nat : Created' = 1 .. n
  <2>1. PICK n \in Nat : Created = 1 .. n
    BY DEF IInv, RecordInv
  <2>2. Cardinality(Created) = n
    BY <2>1, FS_Interval
  <2>3. i = n + 1 /\ i \in Intents /\ i \notin Created
    BY <2>1, <2>2, <1>1, LaunchAssumption DEF LaunchAssumption, Created
  <2>4. s \in Stages /\ s # None
    BY <1>1, ConstantFacts DEF Looked
  <2>5. Created' = Created \union {i}
    BY <2>3, <2>4, <1>1 DEF Created, IInv, TypeOK
  <2>6. Created' = 1 .. n + 1
    BY <2>1, <2>3, <2>5
  <2> QED BY <2>1, <2>3, <2>5, <2>6
<1>3. /\ s \in Stages /\ Unresolved = {} /\ Below(s) /\ NonePending /\ volume[s].success = None
  BY <1>1 DEF Looked
<1>4. /\ w \in Workers /\ w.pc = "spawn" /\ w.intent = i /\ w.stage = s
      /\ manager'[m] = w /\ \A n \in Managers \ {m} : manager'[n] = manager[n]
      /\ manager' \in [Managers -> Workers]
  BY <1>1, <1>2 DEF Workers, ManagerPositions, IInv, TypeOK
<1>5. /\ intentStage'[i] = s /\ \A j \in Intents \ {i} : intentStage'[j] = intentStage[j]
      /\ intentStage' \in [Intents -> Stages \union {None}]
  BY <1>1, <1>2, <1>3 DEF IInv, TypeOK
<1>6. TypeOK'
  BY <1>1, <1>4, <1>5 DEF IInv, TypeOK, Workers
<1>7. NonePending' /\ OnePendingCall'
  BY <1>1, <1>3 DEF NonePending, OnePendingCall, Pending
<1>8. ManagerInv'
  <2>1. LockHeld'
    BY <1>1, <1>4 DEF IInv, ManagerInv, LockHeld
  <2>2. Unresolved' = {i}
    BY <1>1, <1>2, <1>3 DEF Unresolved, IInv, RecordInv
  <2>3. Looked(manager[m])'
    BY <1>1, <1>2, <1>3, <1>4, <1>5, <1>7, <2>2 DEF Looked
  <2>4. ASSUME NEW n \in Managers, n # m PROVE Looked(manager[n])'
    BY <2>4, <1>1, <1>4, ManagerAlone DEF Looked
  <2> QED BY <2>1, <2>3, <2>4 DEF ManagerInv
<1>9. RecordInv'
  <2>1. receipts' \subseteq Created' /\ \A j \in Intents : call'[j].status # "none" => j \in Created'
    BY <1>1, <1>2 DEF IInv, RecordInv
  <2>2. (\A j \in Created : Below(intentStage[j]))'
    BY <1>1, <1>2, <1>3, <1>5 DEF IInv, RecordInv, Below, Created
  <2>3. (\A j, k \in Created : intentStage[j] < intentStage[k] => ~Pending(j))'
    BY <1>7, <1>2, <1>5 DEF NonePending, Created
  <2>4. \A a \in Stages : volume'[a].success # None =>
          volume'[a].success \in Intents /\ intentStage'[volume'[a].success] = a
    BY <1>1, <1>2, <1>5, ConstantFacts DEF IInv, RecordInv, Created
  <2> QED BY <1>2, <2>1, <2>2, <2>3, <2>4 DEF RecordInv
<1>10. VolumeInv'
  <2>1. \A j \in Intents : call'[j].status # "running"
    BY <1>7 DEF NonePending, Pending
  <2>2. (\A a \in Stages : Capped(a, volume[a]) /\ Paid(a, volume[a]))'
    BY <1>1 DEF IInv, VolumeInv, Capped, Paid
  <2> QED BY <2>1, <2>2 DEF VolumeInv
<1> QED BY <1>6, <1>7, <1>8, <1>9, <1>10 DEF IInv

Calls == [status : Statuses, pc : Positions, plan : Plans, disk : Subtrees]

LEMMA NoCallIsCall ==
  /\ NoCall \in Calls
  /\ \A status \in Statuses : LET c == [NoCall EXCEPT !.status = status] IN
       c \in Calls /\ c.status = status
BY EmptyIsSubtree DEF NoCall, Calls, Statuses, Positions, Plans

\* The only pending call is the one that is spawned.
LEMMA SpawnKeepsIInv ==
  ASSUME IInv, NEW m \in Managers, Spawn(m)
  PROVE  IInv'
<1> DEFINE i == manager[m].intent
           w(p) == [manager[m] EXCEPT !.pc = p]
<1>1. /\ manager[m] \in Workers /\ manager[m].pc = "spawn" /\ Looked(manager[m])
      /\ i \in Intents /\ intentStage[i] = manager[m].stage /\ manager[m].stage \in Stages
      /\ Unresolved = {i} /\ NonePending /\ volume[manager[m].stage].success = None
      /\ UNCHANGED <<lock, intentStage, receipts, volume, worked>>
      /\ lock \in {"free", "held", "stale"} /\ faults \in 0 .. MaxFaults
  BY DEF Spawn, IInv, TypeOK, ManagerInv, Workers, Looked
<1>2. faults' \in 0 .. MaxFaults
  BY <1>1, LaunchAssumption DEF Spawn, Fault, LaunchAssumption
<1>3. \A p \in {"record", "release"} : w(p) \in Workers /\ w(p).pc = p /\ w(p).intent = i
  BY <1>1 DEF Workers, ManagerPositions
<1>4. PICK p \in {"record", "release"} : manager' = [manager EXCEPT ![m] = w(p)]
  BY <1>1 DEF Spawn, ToPosition, IInv, TypeOK
<1>5. Looked(w(p))
  BY <1>1, <1>3 DEF Looked
<1>6. CASE UNCHANGED call
  BY <1>1, <1>2, <1>3, <1>4, <1>5, <1>6, ManagerMoveKeepsIInv
<1>7. CASE call' = [call EXCEPT ![i].status = "queued"]
  <2>1. /\ manager'[m] = w(p) /\ \A n \in Managers \ {m} : manager'[n] = manager[n]
        /\ manager' \in [Managers -> Workers]
    BY <1>3, <1>4 DEF IInv, TypeOK, Workers
  <2>2. /\ call'[i].status = "queued" /\ \A j \in Intents \ {i} : call'[j] = call[j]
        /\ call' \in [Intents -> Calls]
    <3>1. call \in [Intents -> Calls] /\ i \in Intents
      BY <1>1 DEF IInv, TypeOK, Calls
    <3>2. ASSUME NEW c \in Calls
          PROVE  /\ [c EXCEPT !.status = "queued"] \in Calls
                 /\ [c EXCEPT !.status = "queued"].status = "queued"
      BY DEF Calls, Statuses
    <3>3. [call[i] EXCEPT !.status = "queued"] \in Calls
      BY <3>1, <3>2
    <3>4. call' = [call EXCEPT ![i] = [call[i] EXCEPT !.status = "queued"]]
      BY <1>7
    <3> QED BY <3>1, <3>2, <3>3, <3>4
  <2>3. TypeOK'
    BY <1>1, <1>2, <2>1, <2>2 DEF IInv, TypeOK, Workers, Calls
  <2>4. \A j \in Intents : Pending(j)' => j = i
    BY <1>1, <2>2 DEF NonePending, Pending
  <2>5. LockHeld'
    BY <1>1, <2>1 DEF IInv, ManagerInv, LockHeld
  <2>6. Unresolved' = Unresolved /\ Created' = Created
    BY <1>1 DEF Unresolved, Created
  <2>7. Looked(manager[m])'
    BY <1>1, <1>3, <2>1, <2>6 DEF Looked
  <2>8. ASSUME NEW n \in Managers, n # m PROVE Looked(manager[n])'
    BY <2>8, <1>1, <2>1, ManagerAlone DEF Looked
  <2>9. RecordInv'
    <3>1. \A j \in Intents : call'[j].status # "none" => j \in Created'
      BY <1>1, <2>2, <2>6 DEF IInv, RecordInv, Unresolved
    <3>2. (\A j \in Created : Below(intentStage[j]))'
      BY <1>1, <2>6 DEF IInv, RecordInv, Below
    <3>3. (\A j, k \in Created : intentStage[j] < intentStage[k] => ~Pending(j))'
      <4> SUFFICES ASSUME NEW k \in Created, intentStage[i] < intentStage[k] PROVE FALSE
        BY <1>1, <2>4, <2>6 DEF Created
      <4> QED BY <1>1 DEF IInv, RecordInv, Below
    <3> QED BY <1>1, <2>6, <3>1, <3>2, <3>3 DEF IInv, RecordInv
  <2>10. VolumeInv'
    <3>1. \A j \in Intents : call'[j].status # "running"
      BY <1>1, <2>2 DEF NonePending, Pending
    <3>2. (\A a \in Stages : Capped(a, volume[a]) /\ Paid(a, volume[a]))'
      BY <1>1 DEF IInv, VolumeInv, Capped, Paid
    <3> QED BY <3>1, <3>2 DEF VolumeInv
  <2> QED BY <2>3, <2>4, <2>5, <2>7, <2>8, <2>9, <2>10 DEF IInv, ManagerInv, OnePendingCall
<1> QED BY <1>6, <1>7 DEF Spawn

\* Receipts only come, and calls only end: what an idle or releasing manager
\* leaves behind.
LEMMA ResolutionKeepsIInv ==
  ASSUME IInv, NEW i \in Created, receipts' = receipts \union {i}, TypeOK', LockHeld',
         UNCHANGED <<intentStage, volume, worked>>,
         \A m \in Managers : manager'[m].pc \in {"idle", "release"},
         \A j \in Intents : call'[j] = call[j] \/ (call'[j].status = "cancelled" /\ Pending(j))
  PROVE  IInv'
<1>1. Created' = Created /\ \A j \in Intents : Pending(j)' => Pending(j) /\ call'[j] = call[j]
  BY DEF Created, Pending
<1>2. OnePendingCall'
  BY <1>1 DEF IInv, OnePendingCall
<1>3. ManagerInv'
  BY DEF ManagerInv, Looked
<1>4. RecordInv'
  <2>1. receipts' \subseteq Created' /\ \A j \in Intents : call'[j].status # "none" => j \in Created'
    BY <1>1 DEF IInv, RecordInv, Pending
  <2>2. (\A j \in Created : Below(intentStage[j]))'
    BY <1>1 DEF IInv, RecordInv, Below
  <2>3. (\A j, k \in Created : intentStage[j] < intentStage[k] => ~Pending(j))'
    BY <1>1 DEF IInv, RecordInv, Created
  <2> QED BY <1>1, <2>1, <2>2, <2>3 DEF IInv, RecordInv
<1>5. VolumeInv'
  <2>1. \A j \in Intents : call'[j].status = "running" => call'[j] = call[j]
    OBVIOUS
  <2> QED BY <2>1 DEF IInv, VolumeInv, Capped, Paid, Grows, StageOf, Disk, KindCharged, Adopts
<1> QED BY <1>2, <1>3, <1>4, <1>5 DEF IInv

LEMMA RecordCallKeepsIInv ==
  ASSUME IInv, NEW m \in Managers, RecordCall(m)
  PROVE  IInv'
<1> DEFINE i == manager[m].intent
           w == [manager[m] EXCEPT !.pc = "release"]
<1>1. /\ manager[m] \in Workers /\ manager[m].pc = "record" /\ Looked(manager[m])
      /\ i \in Created /\ receipts' = receipts \union {i}
      /\ UNCHANGED <<lock, intentStage, volume, worked>>
      /\ manager' = [manager EXCEPT ![m] = w]
  BY DEF RecordCall, ToPosition, IInv, TypeOK, ManagerInv, Workers, Looked, Unresolved
<1>2. /\ w \in Workers /\ w.pc = "release"
      /\ manager'[m] = w /\ \A n \in Managers \ {m} : manager'[n] = manager[n]
      /\ manager' \in [Managers -> Workers]
  BY <1>1 DEF Workers, ManagerPositions, IInv, TypeOK
<1>3. /\ \A j \in Intents : call'[j] = call[j] \/ (call'[j].status = "cancelled" /\ Pending(j))
      /\ call' \in [Intents -> Calls]
  <2>1. call \in [Intents -> Calls]
    BY DEF IInv, TypeOK, Calls
  <2>2. CASE UNCHANGED call
    BY <2>1, <2>2
  <2>3. CASE Pending(i) /\ call' = [call EXCEPT ![i] = [NoCall EXCEPT !.status = "cancelled"]]
    <3> DEFINE c == [NoCall EXCEPT !.status = "cancelled"]
    <3>1. c \in Calls /\ c.status = "cancelled"
      BY NoCallIsCall DEF Statuses
    <3>2. call'[i] = c /\ \A j \in Intents \ {i} : call'[j] = call[j]
      BY <2>1, <2>3, <1>1 DEF Created
    <3>3. call' \in [Intents -> Calls]
      BY <2>1, <2>3, <3>1
    <3> QED BY <2>3, <3>1, <3>2, <3>3
  <2> QED BY <2>2, <2>3 DEF RecordCall
<1>4. faults' \in 0 .. MaxFaults
  BY LaunchAssumption DEF RecordCall, Fault, IInv, TypeOK, LaunchAssumption
<1>5. TypeOK'
  BY <1>1, <1>2, <1>3, <1>4 DEF IInv, TypeOK, Workers, Calls, Created
<1>6. LockHeld'
  BY <1>1, <1>2 DEF IInv, ManagerInv, LockHeld
<1>7. \A n \in Managers : manager'[n].pc \in {"idle", "release"}
  BY <1>1, <1>2, ManagerAlone
<1> QED BY <1>1, <1>3, <1>5, <1>6, <1>7, ResolutionKeepsIInv

LEMMA ReconcileIntentKeepsIInv ==
  ASSUME IInv, NEW i \in Intents, ReconcileIntent(i)
  PROVE  IInv'
<1>1. /\ lock = "free" /\ i \in Created /\ receipts' = receipts \union {i}
      /\ UNCHANGED <<lock, manager, intentStage, call, volume, worked, faults>>
  BY DEF ReconcileIntent, Unresolved
<1>2. \A m \in Managers : manager'[m].pc = "idle"
  BY <1>1 DEF IInv, ManagerInv, LockHeld
<1>3. TypeOK' /\ LockHeld'
  BY <1>1, <1>2 DEF IInv, TypeOK, LockHeld, Created
<1>4. \A j \in Intents : call'[j] = call[j]
  BY <1>1
<1>5. \A m \in Managers : manager'[m].pc \in {"idle", "release"}
  BY <1>2
<1>6. i \in Created /\ receipts' = receipts \union {i} /\ UNCHANGED <<intentStage, volume, worked>>
  BY <1>1
<1> QED BY <1>3, <1>4, <1>5, <1>6, ResolutionKeepsIInv

LEMMA ReconcileLockKeepsIInv ==
  ASSUME IInv, ReconcileLock
  PROVE  IInv'
<1>1. /\ lock = "stale" /\ lock' = "free"
      /\ UNCHANGED <<manager, intentStage, receipts, call, volume, worked, faults>>
  BY DEF ReconcileLock
<1>2. TypeOK' /\ LockHeld'
  BY <1>1 DEF IInv, TypeOK, ManagerInv, LockHeld
<1>3. \A m \in Managers : manager'[m].pc = "idle"
  BY <1>1 DEF IInv, ManagerInv, LockHeld
<1>4. ManagerInv'
  BY <1>2, <1>3 DEF ManagerInv, Looked
<1>5. OnePendingCall' /\ RecordInv' /\ VolumeInv'
  BY <1>1 DEF IInv, OnePendingCall, RecordInv, VolumeInv, Pending, Created, Below, StageOf, Disk,
     KindCharged, Adopts, Grows, Capped, Paid
<1> QED BY <1>2, <1>4, <1>5 DEF IInv

-----------------------------------------------------------------------------
(* Container steps: on the working copy, commits, ends. *)

LEMMA GrowthFacts ==
  ASSUME NEW u \in Subtrees, NEW v \in Subtrees, NEW w \in Subtrees, NEW i \in Intents
  PROVE  /\ Grows(u, u, i)
         /\ Grows(u, v, i) /\ Grows(v, w, i) => Grows(u, w, i)
         /\ \A s \in Stages : Same(v, w) /\ Capped(s, v) => Grows(v, w, i) /\ Capped(s, w)
<1>1. \A k \in Kinds : /\ Len(u.history[k]) \in Nat /\ Len(v.history[k]) \in Nat
                       /\ Len(w.history[k]) \in Nat
  BY SubtreeLengths
<1>2. Grows(u, u, i)
  BY <1>1 DEF Grows
<1>3. Grows(u, v, i) /\ Grows(v, w, i) => Grows(u, w, i)
  <2>1. ASSUME NEW a \in Nat, NEW b \in Nat, NEW c \in Nat, a <= b, b <= c PROVE a <= c
    BY <2>1
  <2>2. SUFFICES ASSUME Grows(u, v, i), Grows(v, w, i) PROVE Grows(u, w, i)
    OBVIOUS
  <2>3. w.success \in {u.success, i}
    BY <2>2 DEF Grows
  <2>4. ASSUME NEW k \in Kinds PROVE Len(u.history[k]) <= Len(w.history[k])
    <3>1. Len(u.history[k]) <= Len(v.history[k]) /\ Len(v.history[k]) <= Len(w.history[k])
      BY <2>2 DEF Grows
    <3> QED BY <1>1, <2>1, <3>1
  <2> QED BY <2>3, <2>4 DEF Grows
<1>4. \A s \in Stages : Same(v, w) /\ Capped(s, v) => Grows(v, w, i) /\ Capped(s, w)
  BY <1>1 DEF Grows, Same, Capped
<1> QED BY <1>2, <1>3, <1>4

\* What is known of the container that takes a step.
LEMMA RunningFacts ==
  ASSUME IInv, NEW i \in Intents, call[i].status = "running"
  PROVE  /\ Pending(i) /\ i \in Created /\ StageOf(i) \in Stages
         /\ Disk(i) \in Subtrees /\ volume[StageOf(i)] \in Subtrees /\ call[i] \in Calls
         /\ Grows(volume[StageOf(i)], Disk(i), i) /\ Capped(StageOf(i), Disk(i))
         /\ Capped(StageOf(i), volume[StageOf(i)])
         /\ \A k \in Kinds : /\ worked[StageOf(i)][k] \in Nat
                             /\ worked[StageOf(i)][k] <= Len(volume[StageOf(i)].history[k])
                             /\ Len(volume[StageOf(i)].history[k]) <= Len(Disk(i).history[k])
<1>1. Pending(i) /\ i \in Created /\ StageOf(i) \in Stages
  BY DEF IInv, RecordInv, TypeOK, Pending, Created, StageOf
<1>2. Disk(i) \in Subtrees /\ volume[StageOf(i)] \in Subtrees /\ call[i] \in Calls
  BY <1>1 DEF IInv, TypeOK, Disk, Calls
<1>3. \A k \in Kinds : worked[StageOf(i)][k] \in Nat
  BY <1>1 DEF IInv, TypeOK
<1> QED BY <1>1, <1>2, <1>3 DEF IInv, VolumeInv, Paid, Grows

\* A step on the working copy.
LEMMA StepKeepsIInv ==
  ASSUME IInv, NEW i \in Intents, call[i].status = "running",
         NEW d \in Subtrees, NEW p \in Positions, Step(i, d, p),
         Grows(Disk(i), d, i), Capped(StageOf(i), d),
         p \in Charging => call[i].pc \in Charging,
         UNCHANGED <<managerVars, volume, worked, faults>>
  PROVE  IInv'
<1> DEFINE s == StageOf(i)
<1>1. /\ Pending(i) /\ s \in Stages /\ Disk(i) \in Subtrees /\ volume[s] \in Subtrees
      /\ call[i] \in Calls
      /\ Grows(volume[s], Disk(i), i) /\ Capped(s, volume[s])
      /\ \A k \in Kinds : worked[s][k] \in Nat /\ worked[s][k] <= Len(volume[s].history[k])
  BY RunningFacts
<1>2. /\ call'[i].disk = d /\ call'[i].pc = p /\ call'[i].plan = call[i].plan
      /\ call'[i].status = "running" /\ \A j \in Intents \ {i} : call'[j] = call[j]
      /\ call' \in [Intents -> Calls]
  BY <1>1 DEF Step, IInv, TypeOK, Calls
<1>3. TypeOK'
  BY <1>2 DEF IInv, TypeOK, Calls, managerVars
<1>4. Grows(volume[s], d, i) /\ Grows(volume[s], volume[s], i)
  BY <1>1, GrowthFacts
<1>5. KindCharged(i)' = KindCharged(i) /\ KindCharged(i) \in Kinds
  BY <1>2 DEF KindCharged, Adopts, StageOf, managerVars, Kinds
<1>6. p \in Charging => worked[s][KindCharged(i)] < Len(d.history[KindCharged(i)])
  <2>1. /\ worked[s][KindCharged(i)] \in Nat /\ Len(Disk(i).history[KindCharged(i)]) \in Nat
        /\ Len(d.history[KindCharged(i)]) \in Nat
        /\ Len(Disk(i).history[KindCharged(i)]) <= Len(d.history[KindCharged(i)])
    BY <1>1, <1>5, SubtreeLengths DEF Grows
  <2>2. p \in Charging => worked[s][KindCharged(i)] < Len(Disk(i).history[KindCharged(i)])
    BY DEF IInv, VolumeInv
  <2> QED BY <2>1, <2>2
<1>7. UNCHANGED <<managerVars, volume, worked>>
  OBVIOUS
<1> QED BY <1>1, <1>2, <1>3, <1>4, <1>5, <1>6, GrowingStepKeepsIInv

\* A commit of the working copy, of the charge or of what the work has done.
LEMMA CommitKeepsIInv ==
  ASSUME IInv, NEW i \in Intents, call[i].status = "running",
         volume' = [volume EXCEPT ![StageOf(i)] = Disk(i)],
         NEW p \in Positions,
         call' = [call EXCEPT ![i].disk = Disk(i), ![i].pc = p],
         p \in Charging => call[i].pc = p,
         \/ UNCHANGED worked
         \/ call[i].pc \in Charging /\ p \notin Charging /\ Charge(i),
         UNCHANGED <<managerVars, faults>>
  PROVE  IInv'
<1> DEFINE s == StageOf(i)
<1>1. /\ Pending(i) /\ s \in Stages /\ Disk(i) \in Subtrees /\ volume[s] \in Subtrees
      /\ call[i] \in Calls
      /\ Grows(volume[s], Disk(i), i) /\ Capped(s, Disk(i))
      /\ \A k \in Kinds : /\ worked[s][k] \in Nat /\ worked[s][k] <= Len(volume[s].history[k])
                          /\ Len(volume[s].history[k]) <= Len(Disk(i).history[k])
  BY RunningFacts
<1>2. /\ call'[i].disk = Disk(i) /\ call'[i].pc = p /\ call'[i].plan = call[i].plan
      /\ call'[i].status = "running" /\ \A j \in Intents \ {i} : call'[j] = call[j]
      /\ call' \in [Intents -> Calls]
  BY <1>1 DEF IInv, TypeOK, Calls
<1>3. /\ volume'[s] = Disk(i) /\ \A a \in Stages \ {s} : volume'[a] = volume[a]
      /\ volume' \in [Stages -> Subtrees]
  BY <1>1 DEF IInv, TypeOK
<1>4. KindCharged(i)' = KindCharged(i) /\ KindCharged(i) \in Kinds
  BY <1>2 DEF KindCharged, Adopts, StageOf, managerVars, Kinds
<1>5. \A k \in Kinds : Len(Disk(i).history[k]) \in Nat /\ Len(volume[s].history[k]) \in Nat
  BY <1>1, SubtreeLengths
<1>6. call[i].pc \in Charging =>
        worked[s][KindCharged(i)] < Len(Disk(i).history[KindCharged(i)])
  BY DEF IInv, VolumeInv
<1>7. /\ worked' \in [Stages -> [Kinds -> Nat]]
      /\ \A a \in Stages \ {s} : worked'[a] = worked[a]
      /\ \A k \in Kinds : worked'[s][k] <= Len(Disk(i).history[k])
  <2>1. CASE UNCHANGED worked
    <3>1. worked \in [Stages -> [Kinds -> Nat]]
      BY DEF IInv, TypeOK
    <3>2. \A k \in Kinds : worked[s][k] <= Len(Disk(i).history[k])
      <4> SUFFICES ASSUME NEW k \in Kinds PROVE worked[s][k] <= Len(Disk(i).history[k])
        OBVIOUS
      <4>1. /\ worked[s][k] \in Nat /\ Len(volume[s].history[k]) \in Nat
            /\ Len(Disk(i).history[k]) \in Nat
            /\ worked[s][k] <= Len(volume[s].history[k])
            /\ Len(volume[s].history[k]) <= Len(Disk(i).history[k])
        BY <1>1, <1>5
      <4> QED BY <4>1
    <3> QED BY <2>1, <3>1, <3>2
  <2>2. CASE call[i].pc \in Charging /\ Charge(i)
    <3>1. worked' = [worked EXCEPT ![s][KindCharged(i)] = worked[s][KindCharged(i)] + 1]
      BY <2>2 DEF Charge
    <3>2. /\ worked'[s] = [worked[s] EXCEPT ![KindCharged(i)] = worked[s][KindCharged(i)] + 1]
          /\ worked[s] \in [Kinds -> Nat]
          /\ worked' \in [Stages -> [Kinds -> Nat]]
          /\ \A a \in Stages \ {s} : worked'[a] = worked[a]
      BY <3>1, <1>1, <1>4 DEF IInv, TypeOK
    <3>3. \A k \in Kinds : worked'[s][k] <= Len(Disk(i).history[k])
      <4> SUFFICES ASSUME NEW k \in Kinds PROVE worked'[s][k] <= Len(Disk(i).history[k])
        OBVIOUS
      <4>1. /\ worked[s][k] \in Nat /\ Len(volume[s].history[k]) \in Nat
            /\ Len(Disk(i).history[k]) \in Nat
            /\ worked[s][k] <= Len(volume[s].history[k])
            /\ Len(volume[s].history[k]) <= Len(Disk(i).history[k])
        BY <1>1, <1>5
      <4>2. CASE k = KindCharged(i)
        <5>1. worked'[s][k] = worked[s][k] + 1
          BY <4>2, <3>2, <1>4
        <5>2. worked[s][k] < Len(Disk(i).history[k])
          BY <4>2, <2>2, <1>6
        <5> QED BY <4>1, <5>1, <5>2
      <4>3. CASE k # KindCharged(i)
        <5>1. worked'[s][k] = worked[s][k]
          BY <4>3, <3>2, <1>4
        <5> QED BY <4>1, <5>1
      <4> QED BY <4>2, <4>3
    <3> QED BY <3>2, <3>3
  <2> QED BY <2>1, <2>2
<1>8. TypeOK'
  BY <1>2, <1>3, <1>7 DEF IInv, TypeOK, Calls, managerVars
<1>9. Grows(Disk(i), Disk(i), i)
  BY <1>1, GrowthFacts
<1>10. p \in Charging => worked'[s][KindCharged(i)] < Len(Disk(i).history[KindCharged(i)])
  BY <1>6
<1>11. UNCHANGED managerVars
  OBVIOUS
<1> QED BY <1>1, <1>2, <1>3, <1>4, <1>7, <1>8, <1>9, <1>10, <1>11, GrowingStepKeepsIInv

\* A container ends, and what it has done is committed or lost.
LEMMA EndKeepsIInv ==
  ASSUME IInv, NEW i \in Intents, call[i].status = "running",
         NEW status \in Statuses \ {"none", "running"},
         call' = [call EXCEPT ![i] = [NoCall EXCEPT !.status = status]],
         volume' \in {volume, [volume EXCEPT ![StageOf(i)] = Disk(i)]},
         UNCHANGED <<managerVars, worked>>, faults' \in 0 .. MaxFaults
  PROVE  IInv'
<1> DEFINE s == StageOf(i)
           c == [NoCall EXCEPT !.status = status]
<1>1. /\ Pending(i) /\ s \in Stages /\ Disk(i) \in Subtrees /\ volume[s] \in Subtrees
      /\ Grows(volume[s], Disk(i), i) /\ Capped(s, Disk(i)) /\ Capped(s, volume[s])
      /\ \A k \in Kinds : /\ worked[s][k] \in Nat /\ worked[s][k] <= Len(volume[s].history[k])
                          /\ Len(volume[s].history[k]) <= Len(Disk(i).history[k])
  BY RunningFacts
<1>2. c \in Calls /\ c.status = status
  BY NoCallIsCall
<1>3. /\ call'[i] = c /\ \A j \in Intents \ {i} : call'[j] = call[j]
      /\ call' \in [Intents -> Calls]
  BY <1>2 DEF IInv, TypeOK, Calls
<1>4. /\ volume'[s] \in {volume[s], Disk(i)} /\ \A a \in Stages \ {s} : volume'[a] = volume[a]
      /\ volume' \in [Stages -> Subtrees]
  BY <1>1 DEF IInv, TypeOK
<1>5. \A k \in Kinds : worked[s][k] <= Len(volume'[s].history[k])
  BY <1>1, <1>4, SubtreeLengths
<1>6. TypeOK'
  BY <1>3, <1>4 DEF IInv, TypeOK, Calls, managerVars
<1>7. Grows(volume[s], volume'[s], i) /\ Capped(s, volume'[s])
  BY <1>1, <1>4, GrowthFacts
<1>8. UNCHANGED managerVars /\ \A a \in Stages \ {s} : volume'[a] = volume[a] /\ worked'[a] = worked[a]
  BY <1>4
<1> QED BY <1>1, <1>2, <1>3, <1>5, <1>6, <1>7, <1>8, GrowingStepKeepsIInv

-----------------------------------------------------------------------------
(* The actions of a container. *)

LEMMA StartContainerKeepsIInv ==
  ASSUME IInv, NEW i \in Intents, StartContainer(i)
  PROVE  IInv'
<1> DEFINE s == StageOf(i)
           c == [NoCall EXCEPT !.status = "running", !.disk = volume[s]]
<1>1. /\ Pending(i) /\ s \in Stages /\ volume[s] \in Subtrees
      /\ Capped(s, volume[s]) /\ Paid(s, volume[s])
  BY DEF StartContainer, IInv, RecordInv, VolumeInv, TypeOK, Pending, Created, StageOf
<1>2. c \in Calls /\ c.status = "running" /\ c.disk = volume[s] /\ c.pc = "begin"
  BY <1>1, NoCallIsCall, ZenonT(60) DEF NoCall, Calls, Statuses, Positions, Plans
<1>3. /\ call'[i] = c /\ \A j \in Intents \ {i} : call'[j] = call[j]
      /\ call' \in [Intents -> Calls]
      /\ UNCHANGED <<managerVars, volume, worked, faults>>
  BY <1>2 DEF StartContainer, IInv, TypeOK, Calls
<1>4. TypeOK'
  BY <1>3 DEF IInv, TypeOK, Calls, managerVars
<1>5. Grows(volume[s], volume[s], i)
  BY <1>1, GrowthFacts
<1>6. \A k \in Kinds : worked'[s][k] <= Len(volume'[s].history[k])
  BY <1>1, <1>3 DEF Paid
<1>7. /\ UNCHANGED managerVars /\ volume' = volume
      /\ \A a \in Stages \ {s} : volume'[a] = volume[a] /\ worked'[a] = worked[a]
  BY <1>3
<1> QED BY <1>1, <1>2, <1>3, <1>4, <1>5, <1>6, <1>7, GrowingStepKeepsIInv DEF Charging

LEMMA AbandonKeepsIInv ==
  ASSUME IInv, NEW i \in Intents, call[i].status = "running", Abandon(i), faults' \in 0 .. MaxFaults
  PROVE  IInv'
<1>1. "failed" \in Statuses \ {"none", "running"}
  BY DEF Statuses
<1> QED BY <1>1, EndKeepsIInv DEF Abandon

LEMMA FaultFacts ==
  /\ TypeOK /\ UNCHANGED faults => faults' \in 0 .. MaxFaults
  /\ TypeOK /\ Fault => faults' \in 0 .. MaxFaults
BY LaunchAssumption DEF TypeOK, Fault, LaunchAssumption

\* An invocation is charged in the history before it does anything else.
LEMMA BeginKeepsIInv ==
  ASSUME IInv, NEW i \in Intents, Begin(i)
  PROVE  IInv'
<1> DEFINE s == StageOf(i)
           v == Disk(i)
           k == KindOf(s, v)
           d == RecordStart(v, k, i)
<1>1. call[i].status = "running" /\ UNCHANGED faults
  BY DEF Begin, At
<1>2. CASE Abandon(i)
  BY <1>1, <1>2, FaultFacts, AbandonKeepsIInv DEF IInv
<1>3. CASE /\ CanBegin(v, s)
           /\ call' = [call EXCEPT ![i].disk = d, ![i].pc = "count", ![i].plan = PlanOf(v)]
           /\ UNCHANGED <<managerVars, volume, worked>>
  <2>1. /\ Pending(i) /\ s \in Stages /\ v \in Subtrees /\ volume[s] \in Subtrees
        /\ call[i] \in Calls
        /\ Grows(volume[s], v, i) /\ Capped(s, v) /\ Capped(s, volume[s])
        /\ \A l \in Kinds : /\ worked[s][l] \in Nat /\ worked[s][l] <= Len(volume[s].history[l])
                            /\ Len(volume[s].history[l]) <= Len(v.history[l])
    BY <1>1, RunningFacts
  <2>2. k \in Kinds /\ PlanOf(v) \in Plans /\ Len(v.history[k]) < Limit(s, k)
    BY <1>3 DEF KindOf, Kinds, PlanOf, Plans, CanBegin
  <2>3. /\ d \in Subtrees /\ d.success = v.success
        /\ Len(d.history[k]) = Len(v.history[k]) + 1
        /\ \A l \in Kinds \ {k} : d.history[l] = v.history[l]
    BY <2>1, <2>2, StartOperation
  <2>4. \A l \in Kinds : /\ Len(v.history[l]) \in Nat /\ Len(volume[s].history[l]) \in Nat
                         /\ Limit(s, l) \in Nat
    BY <2>1, SubtreeLengths, ConstantFacts
  <2>5. Grows(v, d, i)
    BY <2>2, <2>3, <2>4 DEF Grows
  <2>6. Grows(volume[s], d, i) /\ Grows(volume[s], volume[s], i)
    BY <2>1, <2>3, <2>5, GrowthFacts
  <2>7. Capped(s, d)
    BY <2>1, <2>2, <2>3, <2>4 DEF Capped
  <2>8. /\ call'[i].disk = d /\ call'[i].pc = "count" /\ call'[i].plan = PlanOf(v)
        /\ call'[i].status = "running" /\ \A j \in Intents \ {i} : call'[j] = call[j]
        /\ call' \in [Intents -> Calls]
    <3>1. "count" \in Positions
      BY DEF Positions
    <3>2. call \in [Intents -> Calls]
      BY DEF IInv, TypeOK, Calls
    <3> QED BY <1>1, <1>3, <2>2, <2>3, <3>1, <3>2, ZenonT(60) DEF Calls
  <2>9. TypeOK'
    BY <1>1, <1>3, <2>8 DEF IInv, TypeOK, Calls, managerVars
  <2>10. KindCharged(i)' = k
    BY <1>3, <2>8 DEF KindCharged, Adopts, StageOf, managerVars, KindOf
  <2>11. worked[s][k] < Len(d.history[k])
    BY <2>1, <2>2, <2>3, <2>4
  <2>12. /\ UNCHANGED managerVars /\ volume' = volume /\ worked' = worked
         /\ \A l \in Kinds : worked[s][l] <= Len(volume[s].history[l])
    BY <1>3, <2>1
  <2> QED BY <2>1, <2>3, <2>6, <2>7, <2>8, <2>9, <2>10, <2>11, <2>12, GrowingStepKeepsIInv
<1> QED BY <1>2, <1>3 DEF Begin

\* The steps on the working copy that leave history and success alone.
LEMMA QuietStepKeepsIInv ==
  ASSUME IInv, NEW i \in Intents, call[i].status = "running",
         NEW d, Same(Disk(i), d), NEW p \in Positions, Step(i, d, p),
         p \in Charging => call[i].pc \in Charging,
         UNCHANGED <<managerVars, volume, worked, faults>>
  PROVE  IInv'
<1>1. d \in Subtrees /\ Disk(i) \in Subtrees /\ StageOf(i) \in Stages /\ Capped(StageOf(i), Disk(i))
  BY RunningFacts DEF Same
<1>2. Grows(Disk(i), d, i) /\ Capped(StageOf(i), d)
  BY <1>1, GrowthFacts
<1> QED BY <1>1, <1>2, StepKeepsIInv

LEMMA WorkStepsKeepIInv ==
  ASSUME IInv, NEW i \in Intents,
         \/ Count(i) \/ StartWork(i) \/ CheckSource(i) \/ FinishWork(i) \/ PrepareIntent(i)
         \/ Finalize(i) \/ Receipt(i) \/ Validate(i) \/ Validated(i)
  PROVE  IInv'
<1> DEFINE v == Disk(i)
           Goes(d, p) == Step(i, d, p) /\ UNCHANGED <<managerVars, volume, worked, faults>>
<1>1. call[i].status = "running"
  BY DEF Count, StartWork, CheckSource, FinishWork, PrepareIntent, Finalize, Receipt, Validate,
     Validated, At
<1>2. v \in Subtrees /\ KindCharged(i) \in Kinds /\ Len(v.history["attempt"]) \in Nat
  BY <1>1, RunningFacts, SubtreeLengths DEF KindCharged, Kinds
<1>3. Same(v, v)
  BY <1>2 DEF Same
<1>4. ASSUME NEW d, Same(v, d), NEW p \in Positions \ Charging, Goes(d, p)
      PROVE  IInv'
  BY <1>1, <1>4, QuietStepKeepsIInv
<1>5. CASE Abandon(i) /\ UNCHANGED faults
  BY <1>1, <1>5, FaultFacts, AbandonKeepsIInv DEF IInv
<1>6. CASE Count(i)
  <2>1. Same(v, UpdateLedger(v, KindCharged(i))) /\ "commit_begin" \in Positions
    BY <1>2, QuietOperations DEF Positions
  <2>2. call[i].pc \in Charging
    BY <1>6 DEF Count, At, Charging
  <2> QED BY <1>1, <1>6, <2>1, <2>2, QuietStepKeepsIInv DEF Count
<1>7. {"work", "source", "fill", "prepare", "commit_intent", "publish", "receipt",
       "commit_receipt", "commit_validation", "validated", "return"} \subseteq Positions \ Charging
  BY DEF Positions, Charging
<1>8. CASE StartWork(i)
  <2>1. Same(v, StartPartial(v)) /\ Goes(StartPartial(v), "source")
    BY <1>2, <1>8, QuietOperations DEF StartWork
  <2> QED BY <1>4, <1>7, <2>1
<1>9. CASE CheckSource(i) /\ ~Abandon(i)
  <2>1. PICK p \in {"fill", "publish", "return"} : Goes(v, p)
    BY <1>9 DEF CheckSource
  <2> QED BY <1>3, <1>4, <1>7, <2>1
<1>10. CASE FinishWork(i)
  <2>1. Same(v, FillPartial(v)) /\ Goes(FillPartial(v), "prepare")
    BY <1>2, <1>10, QuietOperations DEF FinishWork
  <2> QED BY <1>4, <1>7, <2>1
<1>11. CASE PrepareIntent(i) /\ ~Abandon(i)
  <2>1. /\ Same(v, Prepare(v, Len(v.history["attempt"])))
        /\ Goes(Prepare(v, Len(v.history["attempt"])), "commit_intent")
    BY <1>2, <1>11, QuietOperations DEF PrepareIntent
  <2> QED BY <1>4, <1>7, <2>1
<1>12. CASE Finalize(i) /\ ~Abandon(i)
  <2>1. Same(v, Publish(v)) /\ Goes(Publish(v), "receipt")
    BY <1>2, <1>12, QuietOperations DEF Finalize
  <2> QED BY <1>4, <1>7, <2>1
<1>13. CASE Receipt(i)
  <2>1. Same(v, WriteReceipt(v)) /\ Goes(WriteReceipt(v), "commit_receipt")
    BY <1>2, <1>13, QuietOperations DEF Receipt
  <2> QED BY <1>4, <1>7, <2>1
<1>14. CASE Validate(i) /\ ~Abandon(i)
  <2>1. Same(v, WriteValidation(v)) /\ Goes(WriteValidation(v), "commit_validation")
    BY <1>2, <1>14, QuietOperations DEF Validate
  <2> QED BY <1>4, <1>7, <2>1
<1>15. CASE Validated(i) /\ ~Abandon(i)
  <2>1. Goes(v, "return")
    BY <1>15 DEF Validated
  <2> QED BY <1>3, <1>4, <1>7, <2>1
<1>16. CheckSource(i) \/ PrepareIntent(i) \/ Finalize(i) \/ Validate(i) \/ Validated(i)
       => UNCHANGED faults
  BY DEF CheckSource, PrepareIntent, Finalize, Validate, Validated
<1> QED BY <1>5, <1>6, <1>8, <1>9, <1>10, <1>11, <1>12, <1>13, <1>14, <1>15, <1>16

LEMMA SucceedKeepsIInv ==
  ASSUME IInv, NEW i \in Intents, Succeed(i)
  PROVE  IInv'
<1> DEFINE v == Disk(i)
           d == IF Adopts(i) THEN WriteAdoption(v, i) ELSE WriteSuccess(v, i)
<1>1. call[i].status = "running" /\ Step(i, d, "commit_success")
      /\ UNCHANGED <<managerVars, volume, worked, faults>>
  BY DEF Succeed, At
<1>2. v \in Subtrees /\ StageOf(i) \in Stages /\ Capped(StageOf(i), v)
  BY <1>1, RunningFacts
<1>3. d \in Subtrees /\ d.history = v.history /\ d.success = i
  BY <1>2, SuccessOperations
<1>4. \A k \in Kinds : Len(v.history[k]) \in Nat
  BY <1>2, SubtreeLengths
<1>5. Grows(v, d, i) /\ Capped(StageOf(i), d)
  BY <1>2, <1>3, <1>4 DEF Grows, Capped
<1>6. "commit_success" \in Positions \ Charging
  BY DEF Positions, Charging
<1> QED BY <1>1, <1>3, <1>5, <1>6, StepKeepsIInv

LEMMA CommitStepsKeepIInv ==
  ASSUME IInv, NEW i \in Intents,
         \/ CommitBegin(i) \/ CommitIntent(i) \/ CommitReceipt(i) \/ CommitSuccess(i)
         \/ CommitValidation(i) \/ BackgroundCommit(i)
  PROVE  IInv'
<1>1. call[i].status = "running"
  BY DEF CommitBegin, CommitIntent, CommitReceipt, CommitSuccess, CommitValidation,
     BackgroundCommit, At
<1>2. {"publish", "succeed", "return", "validated", "work", "source", "validate"}
        \subseteq Positions \ Charging
  BY DEF Positions, Charging
<1>3. ASSUME NEW p \in Positions \ Charging, Commit(i, p),
             UNCHANGED worked \/ (call[i].pc \in Charging /\ Charge(i))
      PROVE  IInv'
  <2>1. /\ volume' = [volume EXCEPT ![StageOf(i)] = Disk(i)]
        /\ call' = [call EXCEPT ![i].disk = Disk(i), ![i].pc = p]
        /\ UNCHANGED <<managerVars, faults>>
    BY <1>3 DEF Commit, Step
  <2> QED BY <1>1, <1>3, <2>1, CommitKeepsIInv
<1>4. CASE CommitBegin(i)
  <2>1. AfterBegin(i) \in Positions \ Charging
    BY <1>2 DEF AfterBegin
  <2>2. Commit(i, AfterBegin(i)) /\ call[i].pc \in Charging /\ Charge(i)
    BY <1>4 DEF CommitBegin, At, Charging
  <2> QED BY <1>3, <2>1, <2>2
<1>5. CASE CommitIntent(i) \/ CommitReceipt(i) \/ CommitSuccess(i) \/ CommitValidation(i)
  <2>1. PICK p \in {"publish", "succeed", "return", "validated"} : Commit(i, p) /\ UNCHANGED worked
    BY <1>5 DEF CommitIntent, CommitReceipt, CommitSuccess, CommitValidation
  <2> QED BY <1>2, <1>3, <2>1
<1>6. CASE BackgroundCommit(i)
  <2>1. /\ volume' = [volume EXCEPT ![StageOf(i)] = Disk(i)]
        /\ UNCHANGED <<managerVars, call, worked, faults>>
    BY <1>6 DEF BackgroundCommit
  <2>2. call[i].pc \in Positions /\ call \in [Intents -> Calls]
    BY DEF IInv, TypeOK, Calls
  <2>3. call' = [call EXCEPT ![i].disk = Disk(i), ![i].pc = call[i].pc]
    BY <2>1, <2>2 DEF Disk, Calls
  <2> QED BY <1>1, <2>1, <2>2, <2>3, CommitKeepsIInv
<1> QED BY <1>4, <1>5, <1>6

LEMMA EndStepsKeepIInv ==
  ASSUME IInv, NEW i \in Intents, Return(i) \/ Fail(i) \/ ContainerDies(i)
  PROVE  IInv'
<1>1. call[i].status = "running" /\ faults' \in 0 .. MaxFaults
  BY FaultFacts DEF Return, Fail, ContainerDies, At, IInv
<1>2. {"returned", "failed", "queued"} \subseteq Statuses \ {"none", "running"}
  BY DEF Statuses
<1>3. CASE Fail(i)
  BY <1>1, <1>3, AbandonKeepsIInv DEF Fail
<1>4. CASE Return(i) \/ ContainerDies(i)
  <2>1. PICK status \in {"returned", "failed", "queued"} :
          call' = [call EXCEPT ![i] = [NoCall EXCEPT !.status = status]]
    BY <1>4 DEF Return, ContainerDies
  <2>2. UNCHANGED <<managerVars, volume, worked>>
    BY <1>4 DEF Return, ContainerDies
  <2> QED BY <1>1, <1>2, <2>1, <2>2, EndKeepsIInv
<1> QED BY <1>3, <1>4

LEMMA NextKeepsIInv ==
  ASSUME IInv, [Next]_vars
  PROVE  IInv'
<1>1. CASE UNCHANGED vars
  <2>1. UNCHANGED <<lock, manager, intentStage, receipts, call, volume, worked, faults>>
    BY <1>1 DEF vars, managerVars
  <2>2. TypeOK'
    BY <2>1 DEF IInv, TypeOK
  <2>3. LockHeld'
    BY <2>1 DEF IInv, ManagerInv, LockHeld
  <2>4. ASSUME NEW m \in Managers PROVE Looked(manager[m])'
    BY <2>1 DEF IInv, ManagerInv, Looked, Unresolved, Created, Pending, NonePending, Below
  <2>5. OnePendingCall' /\ RecordInv' /\ VolumeInv'
    BY <2>1 DEF IInv, OnePendingCall, RecordInv, VolumeInv, Pending, Created, Below, StageOf, Disk,
       KindCharged, Adopts, Grows, Capped, Paid
  <2> QED BY <2>2, <2>3, <2>4, <2>5 DEF IInv, ManagerInv
<1>2. ASSUME NEW m \in Managers, NEW s \in Stages, Acquire(m, s) PROVE IInv'
  BY <1>2, AcquireKeepsIInv
<1>3. ASSUME NEW m \in Managers, ManagerStep(m) \/ ManagerDies(m) PROVE IInv'
  BY <1>3, CheckActiveKeepsIInv, CheckLaunchableKeepsIInv, CreateIntentKeepsIInv, SpawnKeepsIInv,
     RecordCallKeepsIInv, ReleaseKeepsIInv DEF ManagerStep
<1>4. CASE ReconcileLock
  BY <1>4, ReconcileLockKeepsIInv
<1>5. ASSUME NEW i \in Intents, ContainerStep(i) PROVE IInv'
  BY <1>5, BeginKeepsIInv, WorkStepsKeepIInv, SucceedKeepsIInv, CommitStepsKeepIInv,
     EndStepsKeepIInv DEF ContainerStep
<1>6. ASSUME NEW i \in Intents,
             \/ ReconcileIntent(i) \/ StartContainer(i)
             \/ Fail(i) \/ ContainerDies(i) \/ BackgroundCommit(i)
      PROVE IInv'
  BY <1>6, ReconcileIntentKeepsIInv, StartContainerKeepsIInv, EndStepsKeepIInv, CommitStepsKeepIInv
<1> QED BY <1>1, <1>2, <1>3, <1>4, <1>5, <1>6 DEF Next

\* Every reachable state satisfies the inductive invariant.
LEMMA Inductive == Spec => []IInv
<1> QED BY InitIInv, NextKeepsIInv, PTL DEF Spec

\* The variables keep their types.
THEOREM LaunchTypeCorrect == Spec => []TypeOK
<1>1. IInv => TypeOK
  BY DEF IInv
<1> QED BY <1>1, Inductive, PTL

\* Never are two calls pending, whatever managers and containers die and
\* whatever the stages (scripts/manage_inkling_modal.py, _launch_locked).
THEOREM LaunchesAreSingle == Spec => []OnePendingCall
<1>1. IInv => OnePendingCall
  BY DEF IInv
<1> QED BY <1>1, Inductive, PTL

\* No stage gets to work more often than its caps allow, containers started
\* again included (scripts/quantize_inkling_modal.py, _begin_stage_invocation).
THEOREM CapsAreRespected == Spec => []CapRespected
<1>1. IInv => CapRespected
  <2> SUFFICES ASSUME IInv, NEW s \in Stages, NEW k \in Kinds PROVE worked[s][k] <= Limit(s, k)
    BY DEF CapRespected
  <2>1. /\ worked[s][k] \in Nat /\ Limit(s, k) \in Nat /\ Len(volume[s].history[k]) \in Nat
    BY ConstantFacts, SubtreeLengths DEF IInv, TypeOK
  <2>2. worked[s][k] <= Len(volume[s].history[k]) /\ Len(volume[s].history[k]) <= Limit(s, k)
    BY DEF IInv, VolumeInv, Capped, Paid
  <2> QED BY <2>1, <2>2
<1> QED BY <1>1, Inductive, PTL

-----------------------------------------------------------------------------
(* Publication. *)

\* What a working copy, or a commit, keeps of a subtree.
Keeps(v, w) ==
  /\ v.intent # None =>
       /\ w.intent = v.intent /\ w.history["attempt"] = v.history["attempt"]
       /\ v.canonical # None => w.canonical = v.canonical
  /\ v.success # None =>
       w.success = v.success /\ w.creation = v.creation /\ v.validated \subseteq w.validated

\* Where a container is tells what its working copy holds.
Undecided == {"count", "commit_begin", "work", "source", "fill", "prepare"}
Converting == {"work", "fill", "prepare", "commit_intent"}
Publishing == {"publish", "receipt", "commit_receipt"}
Sound(s, v) == Recoverable(v) /\ (s \in Adopting => v.intent = None)
InPlace(s, p, plan, v) ==
  /\ Sound(s, v)
  /\ p \in Converting => plan = "attempt"
  /\ p \in Publishing \union {"succeed"} => plan # "reverify"
  /\ p \in Converting \union Publishing \union {"source"} => s \notin Adopting
  /\ p \in Undecided /\ plan = "attempt" => v.intent = None
  /\ p \in Undecided \union Converting \union Publishing \union {"succeed"}
     /\ plan # "reverify" => v.success = None
Placed(i) == InPlace(StageOf(i), call[i].pc, call[i].plan, Disk(i))

KeepInv ==
  /\ \A s \in Stages : Sound(s, volume[s])
  /\ \A i \in Intents : call[i].status = "running" =>
       Placed(i) /\ Keeps(volume[StageOf(i)], Disk(i))

\* No step of a stage's volume takes anything published back.
NothingLost == \A s \in Stages : Keeps(volume[s], volume'[s])

-----------------------------------------------------------------------------
(* Subtrees. *)

LEMMA KeepsFacts ==
  ASSUME NEW u, NEW v, NEW w
  PROVE  Keeps(u, u) /\ (Keeps(u, v) /\ Keeps(v, w) => Keeps(u, w))
BY DEF Keeps

\* The operations that touch nothing of a publication or of a success.
Alike(v, w) ==
  /\ w.history = v.history /\ w.partials = v.partials /\ w.intent = v.intent
  /\ w.canonical = v.canonical /\ w.success = v.success /\ w.creation = v.creation
  /\ w.validated = v.validated

LEMMA AlikeKeeps ==
  ASSUME NEW v, NEW w, Alike(v, w)
  PROVE  Keeps(v, w) /\ \A s \in Stages : Sound(s, v) => Sound(s, w)
BY DEF Alike, Keeps, Sound, Recoverable, CanFinalize, PartialExists

LEMMA AlikeOperations ==
  ASSUME NEW v \in Subtrees
  PROVE  /\ \A k \in Kinds : Alike(v, UpdateLedger(v, k))
         /\ Alike(v, WriteReceipt(v))
BY DEF Subtrees, Alike, UpdateLedger, WriteReceipt

\* Without an intent the partial directories are free.
LEMMA PartialOperations ==
  ASSUME NEW v \in Subtrees, v.intent = None
  PROVE  /\ Keeps(v, StartPartial(v)) /\ StartPartial(v).intent = None
         /\ StartPartial(v).success = v.success
         /\ Keeps(v, FillPartial(v)) /\ FillPartial(v).intent = None
         /\ FillPartial(v).success = v.success
BY DEF Subtrees, Keeps, StartPartial, FillPartial

\* An intent is recorded for a whole directory, where nothing is published.
LEMMA PrepareOperation ==
  ASSUME NEW v \in Subtrees, NEW k \in Nat, v.intent = None, CanPrepare(v, k)
  PROVE  /\ Keeps(v, Prepare(v, k)) /\ Recoverable(Prepare(v, k))
         /\ Prepare(v, k).success = v.success
<1>1. /\ Prepare(v, k).intent = k /\ Prepare(v, k).canonical = v.canonical
      /\ Prepare(v, k).partials = v.partials /\ Prepare(v, k).success = v.success
      /\ Prepare(v, k).creation = v.creation /\ Prepare(v, k).validated = v.validated
  BY DEF Subtrees, Prepare
<1>2. v.canonical = None /\ Partial(k, TRUE) \in v.partials
  BY DEF CanPrepare
<1>3. Recoverable(Prepare(v, k))
  BY <1>1, <1>2, VolumeAssumption DEF Recoverable, CanFinalize, PartialExists, VolumeAssumption
<1> QED BY <1>1, <1>3 DEF Keeps

\* The rename leaves exactly one of the two directories.
LEMMA PublishOperation ==
  ASSUME NEW v \in Subtrees, CanFinalize(v)
  PROVE  /\ Keeps(v, Publish(v)) /\ Recoverable(Publish(v))
         /\ Publish(v).success = v.success
<1>1. CASE v.canonical # None
  BY <1>1, KeepsFacts DEF Publish, Recoverable
<1>2. CASE v.canonical = None
  <2> DEFINE w == Publish(v)
  <2>1. /\ w.intent = v.intent /\ w.canonical = v.intent
        /\ w.partials = {p \in v.partials : p.attempt # v.intent}
        /\ w.history = v.history /\ w.success = v.success
        /\ w.creation = v.creation /\ w.validated = v.validated
    BY <1>2 DEF Subtrees, Publish
  <2>2. v.intent # None
    BY DEF CanFinalize
  <2>3. ~PartialExists(w, w.intent)
    BY <2>1 DEF PartialExists, Partial
  <2>4. Recoverable(w)
    BY <2>1, <2>2, <2>3 DEF Recoverable, CanFinalize
  <2> QED BY <1>2, <2>1, <2>4 DEF Keeps
<1> QED BY <1>1, <1>2

LEMMA SucceedOperations ==
  ASSUME NEW v \in Subtrees, NEW i \in Intents, v.success = None, NEW s \in Stages, Sound(s, v)
  PROVE  /\ Keeps(v, WriteSuccess(v, i)) /\ Sound(s, WriteSuccess(v, i))
         /\ Keeps(v, WriteAdoption(v, i)) /\ Sound(s, WriteAdoption(v, i))
BY DEF Subtrees, Keeps, WriteSuccess, WriteAdoption, Sound, Recoverable, CanFinalize, PartialExists

LEMMA ValidationOperation ==
  ASSUME NEW v \in Subtrees, NEW s \in Stages, Sound(s, v)
  PROVE  /\ Keeps(v, WriteValidation(v)) /\ Sound(s, WriteValidation(v))
         /\ WriteValidation(v).intent = v.intent
BY DEF Subtrees, Keeps, WriteValidation, Sound, Recoverable, CanFinalize, PartialExists

\* With an intent recorded, only recoveries are charged.
LEMMA StartKeeps ==
  ASSUME NEW v \in Subtrees, NEW i \in Intents, NEW s \in Stages, Sound(s, v)
  PROVE  LET w == RecordStart(v, KindOf(s, v), i) IN
         /\ Keeps(v, w) /\ Sound(s, w) /\ w.intent = v.intent /\ w.success = v.success
<1> DEFINE k == KindOf(s, v)
           w == RecordStart(v, k, i)
<1>1. k \in Kinds
  BY DEF KindOf, Kinds
<1>2. /\ w.partials = v.partials /\ w.intent = v.intent /\ w.canonical = v.canonical
      /\ w.success = v.success /\ w.creation = v.creation /\ w.validated = v.validated
  BY <1>1 DEF Subtrees, RecordStart
<1>3. v.intent # None => k = "recovery"
  BY DEF Sound, KindOf, PlanOf
<1>4. k = "recovery" => w.history["attempt"] = v.history["attempt"]
  BY <1>1, StartOperation DEF Kinds
<1>5. Sound(s, w)
  BY <1>2 DEF Sound, Recoverable, CanFinalize, PartialExists
<1> QED BY <1>2, <1>3, <1>4, <1>5 DEF Keeps

-----------------------------------------------------------------------------
(* Steps. *)

LEMMA InitKeepInv == Init => KeepInv
BY DEF Init, KeepInv, NoCall, EmptySubtree, Sound, Recoverable

\* A step of one call that commits, if anything, its working copy, and whose
\* new working copy keeps what is then committed.
LEMMA KeepingStep ==
  ASSUME IInv, KeepInv, NEW i \in Intents, Pending(i), UNCHANGED intentStage,
         \A j \in Intents \ {i} : call'[j] = call[j],
         volume' = volume
           \/ (call[i].status = "running" /\ volume' = [volume EXCEPT ![StageOf(i)] = Disk(i)]),
         call'[i].status = "running" =>
           /\ InPlace(StageOf(i), call'[i].pc, call'[i].plan, call'[i].disk)
           /\ Keeps(volume'[StageOf(i)], call'[i].disk)
  PROVE  KeepInv' /\ NothingLost
<1> DEFINE s == StageOf(i)
<1>1. /\ s \in Stages /\ StageOf(i)' = s
      /\ \A j \in Intents : j # i => call'[j].status # "running"
  BY DEF IInv, RecordInv, OnePendingCall, Pending, Created, StageOf, TypeOK
<1>2. \A a \in Stages : volume'[a] = volume[a] \/ (a = s /\ call[i].status = "running" /\ volume'[a] = Disk(i))
  BY <1>1 DEF IInv, TypeOK
<1>3. call[i].status = "running" => Sound(s, Disk(i)) /\ Keeps(volume[s], Disk(i))
  BY DEF KeepInv, Placed, InPlace, Disk
<1>4. \A a \in Stages : Sound(a, volume'[a]) /\ Keeps(volume[a], volume'[a])
  BY <1>2, <1>3, KeepsFacts DEF KeepInv
<1>5. (\A a \in Stages : Sound(a, volume[a]))'
  BY <1>4 DEF Sound
<1>6. (\A j \in Intents : call[j].status = "running" =>
         Placed(j) /\ Keeps(volume[StageOf(j)], Disk(j)))'
  BY <1>1 DEF Disk, Placed, InPlace, Keeps
<1> QED BY <1>4, <1>5, <1>6 DEF KeepInv, NothingLost

\* A step on the working copy.
LEMMA KeepingWork ==
  ASSUME IInv, KeepInv, NEW i \in Intents, call[i].status = "running",
         NEW d, NEW p, Step(i, d, p), Keeps(Disk(i), d),
         InPlace(StageOf(i), p, call[i].plan, d),
         UNCHANGED <<managerVars, volume>>
  PROVE  KeepInv' /\ NothingLost
<1>1. /\ call[i] \in Calls /\ call \in [Intents -> Calls] /\ Pending(i)
  BY RunningFacts DEF IInv, TypeOK, Calls
<1>2. call'[i].disk = d /\ call'[i].pc = p /\ call'[i].plan = call[i].plan
      /\ \A j \in Intents \ {i} : call'[j] = call[j]
  BY <1>1 DEF Step, Calls
<1>3. Keeps(volume[StageOf(i)], d)
  BY KeepsFacts DEF KeepInv
<1>4. UNCHANGED intentStage /\ volume' = volume
  BY DEF managerVars
<1>5. InPlace(StageOf(i), call'[i].pc, call'[i].plan, call'[i].disk) /\ Keeps(volume'[StageOf(i)], call'[i].disk)
  BY <1>2, <1>3, <1>4
<1> QED BY <1>1, <1>2, <1>4, <1>5, KeepingStep

LEMMA KeepingCommit ==
  ASSUME IInv, KeepInv, NEW i \in Intents, call[i].status = "running", NEW p,
         call' = [call EXCEPT ![i].disk = Disk(i), ![i].pc = p],
         volume' = [volume EXCEPT ![StageOf(i)] = Disk(i)],
         InPlace(StageOf(i), p, call[i].plan, Disk(i)),
         UNCHANGED managerVars
  PROVE  KeepInv' /\ NothingLost
<1>1. /\ call[i] \in Calls /\ call \in [Intents -> Calls] /\ Pending(i) /\ StageOf(i) \in Stages
  BY RunningFacts DEF IInv, TypeOK, Calls
<1>2. call'[i].disk = Disk(i) /\ call'[i].pc = p /\ call'[i].plan = call[i].plan
      /\ \A j \in Intents \ {i} : call'[j] = call[j]
  BY <1>1 DEF Calls
<1>3. volume'[StageOf(i)] = Disk(i) /\ UNCHANGED intentStage
  BY <1>1 DEF IInv, TypeOK, managerVars
<1>4. InPlace(StageOf(i), call'[i].pc, call'[i].plan, call'[i].disk) /\ Keeps(volume'[StageOf(i)], call'[i].disk)
  BY <1>2, <1>3, KeepsFacts
<1> QED BY <1>1, <1>2, <1>3, <1>4, KeepingStep

LEMMA KeepingEnd ==
  ASSUME IInv, KeepInv, NEW i \in Intents, call[i].status = "running", NEW status, status # "running",
         call' = [call EXCEPT ![i] = [NoCall EXCEPT !.status = status]],
         volume' \in {volume, [volume EXCEPT ![StageOf(i)] = Disk(i)]},
         UNCHANGED managerVars
  PROVE  KeepInv' /\ NothingLost
<1>1. Pending(i) /\ UNCHANGED intentStage /\ call \in [Intents -> Calls]
  BY DEF Pending, managerVars, IInv, TypeOK, Calls
<1>2. call'[i].status # "running" /\ \A j \in Intents \ {i} : call'[j] = call[j]
  BY <1>1 DEF NoCall
<1>3. volume' = volume
        \/ (call[i].status = "running" /\ volume' = [volume EXCEPT ![StageOf(i)] = Disk(i)])
  OBVIOUS
<1> QED BY <1>1, <1>2, <1>3, KeepingStep

LEMMA KeepingAbandon ==
  ASSUME IInv, KeepInv, NEW i \in Intents, call[i].status = "running", Abandon(i)
  PROVE  KeepInv' /\ NothingLost
BY KeepingEnd DEF Abandon

-----------------------------------------------------------------------------
(* The actions. *)

LEMMA PlacedFacts ==
  ASSUME IInv, KeepInv, NEW i \in Intents, call[i].status = "running"
  PROVE  /\ Disk(i) \in Subtrees /\ StageOf(i) \in Stages
         /\ InPlace(StageOf(i), call[i].pc, call[i].plan, Disk(i)) /\ Sound(StageOf(i), Disk(i))
         /\ Keeps(Disk(i), Disk(i)) /\ Len(Disk(i).history["attempt"]) \in Nat
<1>1. Disk(i) \in Subtrees /\ StageOf(i) \in Stages
  BY RunningFacts
<1>2. Len(Disk(i).history["attempt"]) \in Nat
  BY <1>1, SubtreeLengths DEF Kinds
<1> QED BY <1>1, <1>2, KeepsFacts DEF KeepInv, Placed, InPlace

LEMMA BeginKeeps ==
  ASSUME IInv, KeepInv, NEW i \in Intents, Begin(i)
  PROVE  KeepInv' /\ NothingLost
<1> DEFINE s == StageOf(i)
           v == Disk(i)
           d == RecordStart(v, KindOf(s, v), i)
<1>1. call[i].status = "running" /\ Pending(i) /\ call \in [Intents -> Calls]
  BY DEF Begin, At, Pending, IInv, TypeOK, Calls
<1>2. CASE Abandon(i)
  BY <1>1, <1>2, KeepingAbandon
<1>3. CASE /\ call' = [call EXCEPT ![i].disk = d, ![i].pc = "count", ![i].plan = PlanOf(v)]
           /\ UNCHANGED <<managerVars, volume, worked>>
  <2>1. v \in Subtrees /\ s \in Stages /\ Sound(s, v)
    BY <1>1, PlacedFacts
  <2>2. Keeps(v, d) /\ Sound(s, d) /\ d.intent = v.intent /\ d.success = v.success
    BY <2>1, StartKeeps
  <2>3. InPlace(s, "count", PlanOf(v), d)
    <3>1. PlanOf(v) = "attempt" => v.intent = None
      BY DEF PlanOf
    <3>2. PlanOf(v) # "reverify" => v.success = None
      BY DEF PlanOf
    <3> QED BY <2>2, <3>1, <3>2 DEF InPlace, Converting, Publishing, Undecided
  <2>4. Keeps(volume[s], d)
    BY <1>1, <2>2, KeepsFacts DEF KeepInv
  <2>5. /\ call'[i].disk = d /\ call'[i].pc = "count" /\ call'[i].plan = PlanOf(v)
        /\ \A j \in Intents \ {i} : call'[j] = call[j]
        /\ UNCHANGED intentStage /\ volume' = volume
    BY <1>1, <1>3 DEF Calls, managerVars
  <2> QED BY <1>1, <2>3, <2>4, <2>5, KeepingStep
<1> QED BY <1>2, <1>3 DEF Begin

LEMMA WorkKeeps ==
  ASSUME IInv, KeepInv, NEW i \in Intents,
         \/ Count(i) \/ StartWork(i) \/ CheckSource(i) \/ FinishWork(i) \/ PrepareIntent(i)
         \/ Finalize(i) \/ Receipt(i) \/ Succeed(i) \/ Validate(i) \/ Validated(i)
  PROVE  KeepInv' /\ NothingLost
<1> DEFINE s == StageOf(i)
           v == Disk(i)
           plan == call[i].plan
           k == Len(v.history["attempt"])
           Goes(d, p) == Step(i, d, p) /\ UNCHANGED <<managerVars, volume>>
<1>1. call[i].status = "running"
  BY DEF Count, StartWork, CheckSource, FinishWork, PrepareIntent, Finalize, Receipt, Succeed,
     Validate, Validated, At
<1>2. /\ v \in Subtrees /\ s \in Stages /\ InPlace(s, call[i].pc, plan, v) /\ Sound(s, v)
      /\ Keeps(v, v) /\ k \in Nat
  BY <1>1, PlacedFacts
<1>3. ASSUME NEW d, NEW p, Goes(d, p), Keeps(v, d), InPlace(s, p, plan, d)
      PROVE  KeepInv' /\ NothingLost
  BY <1>1, <1>3, KeepingWork
<1>4. CASE Abandon(i)
  BY <1>1, <1>4, KeepingAbandon
<1> USE DEF InPlace, Converting, Publishing, Undecided
<1>5. CASE Count(i)
  <2> DEFINE d == UpdateLedger(v, KindCharged(i))
  <2>1. Goes(d, "commit_begin") /\ call[i].pc = "count"
    BY <1>5 DEF Count, At
  <2>2. Alike(v, d)
    BY <1>2, AlikeOperations DEF KindCharged, Kinds
  <2>3. Keeps(v, d) /\ Sound(s, d) /\ d.intent = v.intent /\ d.success = v.success
    BY <1>2, <2>2, AlikeKeeps DEF Alike
  <2>4. InPlace(s, "commit_begin", plan, d)
    BY <1>2, <2>1, <2>3
  <2> QED BY <1>3, <2>1, <2>3, <2>4
<1>6. CASE StartWork(i)
  <2> DEFINE d == StartPartial(v)
  <2>1. Goes(d, "source") /\ call[i].pc = "work"
    BY <1>6 DEF StartWork, At
  <2>2. v.intent = None /\ v.success = None /\ s \notin Adopting
    BY <1>2, <2>1
  <2>3. Keeps(v, d) /\ d.intent = None /\ d.success = None
    BY <1>2, <2>2, PartialOperations
  <2>4. InPlace(s, "source", plan, d)
    BY <2>2, <2>3 DEF Sound, Recoverable
  <2> QED BY <1>3, <2>1, <2>3, <2>4
<1>7. CASE CheckSource(i) /\ ~Abandon(i)
  <2>1. call[i].pc = "source"
    BY <1>7 DEF CheckSource, At
  <2>2. Goes(v, CASE plan = "attempt" -> "fill" [] plan = "recover" -> "publish" [] OTHER -> "return")
    BY <1>7 DEF CheckSource
  <2>3. CASE plan = "attempt"
    <3>1. InPlace(s, "fill", plan, v)
      BY <1>2, <2>1, <2>3
    <3>2. Goes(v, "fill")
      BY <2>2, <2>3
    <3> QED BY <1>2, <1>3, <3>1, <3>2
  <2>4. CASE plan = "recover"
    <3>1. InPlace(s, "publish", plan, v)
      BY <1>2, <2>1, <2>4
    <3>2. Goes(v, "publish")
      BY <2>2, <2>4
    <3> QED BY <1>2, <1>3, <3>1, <3>2
  <2>5. CASE plan \notin {"attempt", "recover"}
    <3>1. InPlace(s, "return", plan, v)
      BY <1>2
    <3>2. Goes(v, "return")
      BY <2>2, <2>5
    <3> QED BY <1>2, <1>3, <3>1, <3>2
  <2> QED BY <2>3, <2>4, <2>5
<1>8. CASE FinishWork(i)
  <2> DEFINE d == FillPartial(v)
  <2>1. Goes(d, "prepare") /\ call[i].pc = "fill"
    BY <1>8 DEF FinishWork, At
  <2>2. v.intent = None /\ v.success = None /\ s \notin Adopting /\ plan = "attempt"
    BY <1>2, <2>1
  <2>3. Keeps(v, d) /\ d.intent = None /\ d.success = None
    BY <1>2, <2>2, PartialOperations
  <2>4. InPlace(s, "prepare", plan, d)
    BY <2>2, <2>3 DEF Sound, Recoverable
  <2> QED BY <1>3, <2>1, <2>3, <2>4
<1>9. CASE PrepareIntent(i) /\ ~Abandon(i)
  <2> DEFINE d == Prepare(v, k)
  <2>1. Goes(d, "commit_intent") /\ call[i].pc = "prepare" /\ CanPrepare(v, k)
    BY <1>9 DEF PrepareIntent, At
  <2>2. v.intent = None /\ v.success = None /\ s \notin Adopting /\ plan = "attempt"
    BY <1>2, <2>1
  <2>3. Keeps(v, d) /\ Recoverable(d) /\ d.success = None
    BY <1>2, <2>1, <2>2, PrepareOperation
  <2>4. InPlace(s, "commit_intent", plan, d)
    BY <2>2, <2>3 DEF Sound
  <2> QED BY <1>3, <2>1, <2>3, <2>4
<1>10. CASE Finalize(i) /\ ~Abandon(i)
  <2> DEFINE d == Publish(v)
  <2>1. Goes(d, "receipt") /\ call[i].pc = "publish" /\ CanFinalize(v)
    BY <1>10 DEF Finalize, At
  <2>2. v.success = None /\ s \notin Adopting /\ plan # "reverify"
    BY <1>2, <2>1
  <2>3. Keeps(v, d) /\ Recoverable(d) /\ d.success = None
    BY <1>2, <2>1, <2>2, PublishOperation
  <2>4. InPlace(s, "receipt", plan, d)
    BY <2>2, <2>3 DEF Sound
  <2> QED BY <1>3, <2>1, <2>3, <2>4
<1>11. CASE Receipt(i)
  <2> DEFINE d == WriteReceipt(v)
  <2>1. Goes(d, "commit_receipt") /\ call[i].pc = "receipt"
    BY <1>11 DEF Receipt, At
  <2>2. Alike(v, d)
    BY <1>2, AlikeOperations
  <2>3. Keeps(v, d) /\ Sound(s, d) /\ d.intent = v.intent /\ d.success = v.success
    BY <1>2, <2>2, AlikeKeeps DEF Alike
  <2>4. InPlace(s, "commit_receipt", plan, d)
    BY <1>2, <2>1, <2>3
  <2> QED BY <1>3, <2>1, <2>3, <2>4
<1>12. CASE Succeed(i)
  <2> DEFINE d == IF Adopts(i) THEN WriteAdoption(v, i) ELSE WriteSuccess(v, i)
  <2>1. Goes(d, "commit_success") /\ call[i].pc = "succeed"
    BY <1>12 DEF Succeed, At
  <2>2. v.success = None
    BY <1>2, <2>1
  <2>3. Keeps(v, d) /\ Sound(s, d)
    BY <1>2, <2>2, SucceedOperations
  <2>4. InPlace(s, "commit_success", plan, d)
    BY <2>3
  <2> QED BY <1>3, <2>1, <2>3, <2>4
<1>13. CASE Validate(i) /\ ~Abandon(i)
  <2> DEFINE d == WriteValidation(v)
  <2>1. Goes(d, "commit_validation")
    BY <1>13 DEF Validate
  <2>2. Keeps(v, d) /\ Sound(s, d)
    BY <1>2, ValidationOperation
  <2>3. InPlace(s, "commit_validation", plan, d)
    BY <2>2
  <2> QED BY <1>3, <2>1, <2>2, <2>3
<1>14. CASE Validated(i) /\ ~Abandon(i)
  <2>1. Goes(v, "return")
    BY <1>14 DEF Validated
  <2>2. InPlace(s, "return", plan, v)
    BY <1>2
  <2> QED BY <1>2, <1>3, <2>1, <2>2
<1> QED BY <1>4, <1>5, <1>6, <1>7, <1>8, <1>9, <1>10, <1>11, <1>12, <1>13, <1>14

LEMMA CommitKeeps ==
  ASSUME IInv, KeepInv, NEW i \in Intents,
         \/ CommitBegin(i) \/ CommitIntent(i) \/ CommitReceipt(i) \/ CommitSuccess(i)
         \/ CommitValidation(i) \/ BackgroundCommit(i)
  PROVE  KeepInv' /\ NothingLost
<1> DEFINE s == StageOf(i)
           v == Disk(i)
           plan == call[i].plan
<1>1. call[i].status = "running"
  BY DEF CommitBegin, CommitIntent, CommitReceipt, CommitSuccess, CommitValidation,
     BackgroundCommit, At
<1>2. InPlace(s, call[i].pc, plan, v) /\ s \in Stages
  BY <1>1, PlacedFacts
<1>3. ASSUME NEW p, Commit(i, p), InPlace(s, p, plan, v)
      PROVE  KeepInv' /\ NothingLost
  BY <1>1, <1>3, KeepingCommit DEF Commit, Step
<1>4. CASE CommitBegin(i)
  <2>1. Commit(i, AfterBegin(i)) /\ call[i].pc = "commit_begin"
    BY <1>4 DEF CommitBegin, At
  <2>2. /\ AfterBegin(i) \in {"work", "source", "succeed", "validate"}
        /\ AfterBegin(i) \in {"work", "source"} => s \notin Adopting
        /\ AfterBegin(i) \in {"work", "succeed"} => plan = "attempt"
        /\ AfterBegin(i) = "source" => plan # "attempt"
    BY DEF AfterBegin, Adopts
  <2>3. InPlace(s, AfterBegin(i), plan, v)
    BY <1>2, <2>1, <2>2 DEF InPlace, Converting, Publishing, Undecided
  <2> QED BY <1>3, <2>1, <2>3
<1>5. CASE CommitIntent(i)
  <2>1. Commit(i, "publish") /\ call[i].pc = "commit_intent"
    BY <1>5 DEF CommitIntent, At
  <2>2. InPlace(s, "publish", plan, v)
    BY <1>2, <2>1 DEF InPlace, Converting, Publishing, Undecided
  <2> QED BY <1>3, <2>1, <2>2
<1>6. CASE CommitReceipt(i)
  <2>1. Commit(i, "succeed") /\ call[i].pc = "commit_receipt"
    BY <1>6 DEF CommitReceipt, At
  <2>2. InPlace(s, "succeed", plan, v)
    BY <1>2, <2>1 DEF InPlace, Converting, Publishing, Undecided
  <2> QED BY <1>3, <2>1, <2>2
<1>7. CASE CommitSuccess(i) \/ CommitValidation(i)
  <2>1. PICK p \in {"return", "validated"} : Commit(i, p)
    BY <1>7 DEF CommitSuccess, CommitValidation
  <2>2. InPlace(s, p, plan, v)
    BY <1>2 DEF InPlace, Converting, Publishing, Undecided
  <2> QED BY <1>3, <2>1, <2>2
<1>8. CASE BackgroundCommit(i)
  <2>1. /\ volume' = [volume EXCEPT ![s] = v] /\ UNCHANGED <<managerVars, call>>
        /\ call \in [Intents -> Calls]
    BY <1>8 DEF BackgroundCommit, IInv, TypeOK, Calls
  <2>2. call' = [call EXCEPT ![i].disk = v, ![i].pc = call[i].pc]
    BY <2>1 DEF Disk, Calls
  <2> QED BY <1>1, <1>2, <2>1, <2>2, KeepingCommit
<1> QED BY <1>4, <1>5, <1>6, <1>7, <1>8

LEMMA EndKeeps ==
  ASSUME IInv, KeepInv, NEW i \in Intents, Return(i) \/ Fail(i) \/ ContainerDies(i)
  PROVE  KeepInv' /\ NothingLost
<1>1. call[i].status = "running"
  BY DEF Return, Fail, ContainerDies, At
<1>2. CASE Fail(i)
  BY <1>1, <1>2, KeepingAbandon DEF Fail
<1>3. CASE Return(i) \/ ContainerDies(i)
  <2>1. PICK status \in {"returned", "failed", "queued"} :
          call' = [call EXCEPT ![i] = [NoCall EXCEPT !.status = status]]
    BY <1>3 DEF Return, ContainerDies
  <2>2. UNCHANGED <<managerVars, volume>>
    BY <1>3 DEF Return, ContainerDies
  <2> QED BY <1>1, <2>1, <2>2, KeepingEnd
<1> QED BY <1>2, <1>3

\* A container starts on all that is committed.
LEMMA StartKeepsAll ==
  ASSUME IInv, KeepInv, NEW i \in Intents, StartContainer(i)
  PROVE  KeepInv' /\ NothingLost
<1> DEFINE s == StageOf(i)
           c == [NoCall EXCEPT !.status = "running", !.disk = volume[s]]
<1>1. /\ Pending(i) /\ s \in Stages /\ call \in [Intents -> Calls]
      /\ call' = [call EXCEPT ![i] = c] /\ UNCHANGED <<managerVars, volume>>
  BY DEF StartContainer, IInv, RecordInv, TypeOK, Pending, Created, StageOf, Calls
<1>2. c.disk = volume[s] /\ c.pc = "begin" /\ c.plan = "attempt"
  BY DEF NoCall
<1>3. call'[i] = c /\ \A j \in Intents \ {i} : call'[j] = call[j]
  BY <1>1
<1>4. InPlace(s, "begin", "attempt", volume[s])
  BY <1>1 DEF KeepInv, InPlace, Converting, Publishing, Undecided
<1>5. Keeps(volume'[s], volume[s]) /\ UNCHANGED intentStage /\ volume' = volume
  BY <1>1, KeepsFacts DEF managerVars
<1>6. InPlace(s, call'[i].pc, call'[i].plan, call'[i].disk) /\ Keeps(volume'[s], call'[i].disk)
  BY <1>2, <1>3, <1>4, <1>5
<1> QED BY <1>1, <1>3, <1>5, <1>6, KeepingStep

\* The managers touch no volume and no running container.
LEMMA ManagerKeeps ==
  ASSUME IInv, KeepInv,
         \/ \E m \in Managers : (\E s \in Stages : Acquire(m, s)) \/ ManagerStep(m) \/ ManagerDies(m)
         \/ ReconcileLock
         \/ \E i \in Intents : ReconcileIntent(i)
         \/ UNCHANGED vars
  PROVE  KeepInv' /\ NothingLost
<1>1. volume' = volume
  BY DEF Acquire, ManagerStep, ManagerDies, ReconcileLock, ReconcileIntent, CheckActive,
     CheckLaunchable, CreateIntent, Spawn, RecordCall, Release, vars
<1>2. ASSUME NEW i \in Intents, call'[i].status = "running"
      PROVE  call'[i] = call[i]
  <2>1. call \in [Intents -> Calls]
    BY DEF IInv, TypeOK, Calls
  <2>2. CASE call' = call
    BY <2>2
  <2>3. ASSUME NEW m \in Managers, Spawn(m) PROVE call'[i] = call[i]
    BY <1>2, <2>1, <2>3 DEF Spawn, Calls
  <2>4. ASSUME NEW m \in Managers, RecordCall(m) PROVE call'[i] = call[i]
    BY <1>2, <2>1, <2>4 DEF RecordCall, NoCall
  <2> QED BY <2>2, <2>3, <2>4 DEF Acquire, ManagerStep, ManagerDies, ReconcileLock, ReconcileIntent,
           CheckActive, CheckLaunchable, CreateIntent, Release, vars
<1>3. ASSUME NEW i \in Intents, call'[i].status = "running"
      PROVE  intentStage'[i] = intentStage[i]
  <2>1. i \in Created /\ Pending(i)
    BY <1>2, <1>3 DEF IInv, RecordInv, Pending
  <2>2. CASE intentStage' = intentStage
    BY <2>2
  <2>3. ASSUME NEW m \in Managers, CreateIntent(m) PROVE FALSE
    BY <2>1, <2>3 DEF CreateIntent, IInv, ManagerInv, Looked, NonePending
  <2> QED BY <2>2, <2>3 DEF Acquire, ManagerStep, ManagerDies, ReconcileLock, ReconcileIntent,
           CheckActive, CheckLaunchable, Spawn, RecordCall, Release, vars, managerVars
<1>4. (\A s \in Stages : Sound(s, volume[s]))'
  BY <1>1 DEF KeepInv, Sound
<1>5. (\A i \in Intents : call[i].status = "running" =>
         Placed(i) /\ Keeps(volume[StageOf(i)], Disk(i)))'
  BY <1>1, <1>2, <1>3 DEF KeepInv, Placed, InPlace, Keeps, StageOf, Disk
<1>6. NothingLost
  BY <1>1, KeepsFacts DEF NothingLost
<1> QED BY <1>4, <1>5, <1>6 DEF KeepInv

LEMMA NextKeeps ==
  ASSUME IInv, KeepInv, [Next]_vars
  PROVE  KeepInv' /\ NothingLost
<1>1. ASSUME NEW i \in Intents, ContainerStep(i) PROVE KeepInv' /\ NothingLost
  BY <1>1, BeginKeeps, WorkKeeps, CommitKeeps, EndKeeps DEF ContainerStep
<1>2. ASSUME NEW i \in Intents,
             StartContainer(i) \/ Fail(i) \/ ContainerDies(i) \/ BackgroundCommit(i)
      PROVE KeepInv' /\ NothingLost
  BY <1>2, StartKeepsAll, EndKeeps, CommitKeeps
<1> QED BY <1>1, <1>2, ManagerKeeps DEF Next

\* A committed publication intent can always be finished, wherever containers
\* die and volumes are committed (gguf/publication.py, finalize_publication).
THEOREM OutputsAreRecoverable == Spec => []OutputRecoverable
<1>1. IInv /\ KeepInv => OutputRecoverable
  BY DEF KeepInv, Sound, OutputRecoverable
<1>2. IInv /\ KeepInv /\ [Next]_vars => KeepInv'
  BY NextKeeps
<1> QED BY <1>1, <1>2, InitKeepInv, Inductive, PTL DEF Spec

\* What is committed as published stays, and no further attempt is charged to
\* it; a success receipt and its binding stay (convert_text_bf16: recover,
\* never convert again; materialize_source).
THEOREM PublicationsStay == Spec => PublishedForGood
<1> DEFINE Stays ==
      \A s \in Stages :
        /\ volume[s].intent # None =>
             /\ volume'[s].intent = volume[s].intent
             /\ volume'[s].history["attempt"] = volume[s].history["attempt"]
             /\ volume[s].canonical # None => volume'[s].canonical = volume[s].canonical
        /\ volume[s].success # None =>
             /\ volume'[s].success = volume[s].success
             /\ volume'[s].creation = volume[s].creation
             /\ volume[s].validated \subseteq volume'[s].validated
<1>1. NothingLost => Stays
  BY DEF NothingLost, Keeps
<1>2. IInv /\ KeepInv /\ [Next]_vars => KeepInv' /\ [Stays]_vars
  BY <1>1, NextKeeps
<1>3. Spec => [][Stays]_vars
  BY <1>2, InitKeepInv, Inductive, PTL DEF Spec
<1> QED BY <1>3 DEF PublishedForGood
=============================================================================
