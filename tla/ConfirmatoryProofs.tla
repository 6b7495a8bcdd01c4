------------------------- MODULE ConfirmatoryProofs -------------------------
(***************************************************************************)
(* For any number of runners and verifiers, versions, kills and edits: the *)
(* second attempt follows a clean first one, a sealed attempt stays as it  *)
(* is, and a confirmed aggregate rests on what is in the attempt root.     *)
(***************************************************************************)
EXTENDS ConfirmatoryAttempt, TLAPS

\* Who is where, and what a verifier has read by then.
RoleInv ==
  \A p \in Processes :
    /\ pc[p] \in RunnerSteps => p \in Runners
    /\ pc[p] \in VerifierSteps => p \in Verifiers
    /\ pc[p] \in {"first", "second", "write", "link"} => reading[p].registered \in Versions

\* A directory belongs to the runner that made it, which alone changes its mode.
Holding == RunnerSteps \ {"inspect", "mkdir"}
OwnerInv ==
  /\ \A p \in Processes : pc[p] \in Holding =>
       /\ attempts[Job[p]] # None /\ attempts[Job[p]].owner = p
       /\ attempts[Job[p]].mode = IF pc[p] = "seal" THEN "files" ELSE "open"
  /\ \A o \in Ordinals : evaluator[o] = "running" => attempts[o] # None

IInv == TypeOK /\ RoleInv /\ OwnerInv

LEMMA Roles ==
  /\ \A p \in Runners : p \in Processes /\ Job[p] \in Ordinals
  /\ \A v \in Verifiers : v \in Processes
  /\ RunnerSteps \intersect VerifierSteps = {}
  /\ {"idle", "ended"} \intersect (RunnerSteps \union VerifierSteps) = {}
BY DEF Runners, Verifiers, RunnerSteps, VerifierSteps

LEMMA TypeInit == Init => IInv
<1> SUFFICES ASSUME Init PROVE IInv
  OBVIOUS
<1>0. 0 \in 0 .. MaxKills /\ 0 \in 0 .. MaxEdits
  BY AttemptAssumption DEF AttemptAssumption
<1>1. TypeOK
  BY <1>0 DEF Init, TypeOK, Readings, Unread
<1>2. RoleInv /\ OwnerInv
  BY DEF Init, RoleInv, OwnerInv, Holding, RunnerSteps, VerifierSteps
<1> QED BY <1>1, <1>2 DEF IInv

LEMMA DirectoryFields ==
  ASSUME NEW d \in Directories
  PROVE  /\ \A x \in Starts : [d EXCEPT !.start = x] \in Directories
         /\ \A x \in Records : [d EXCEPT !.record = x] \in Directories
         /\ \A x \in Completions : [d EXCEPT !.completion = x] \in Directories
         /\ \A x \in {"files", "sealed"} : [d EXCEPT !.mode = x] \in Directories
BY DEF Directories

\* An update of one directory.
LEMMA AttemptUpdate ==
  ASSUME TypeOK, NEW o \in Ordinals, NEW d \in Directories
  PROVE  [attempts EXCEPT ![o] = d] \in [Ordinals -> Directories \union {None}]
BY DEF TypeOK

-----------------------------------------------------------------------------
(* Who changes what. *)

LEMMA Locality ==
  ASSUME TypeOK, NEW p \in Processes, RunnerStep(p) \/ VerifierStep(p) \/ Kill(p)
  PROVE  /\ \A q \in Processes \ {p} :
              pc'[q] = pc[q] /\ judged'[q] = judged[q] /\ reading'[q] = reading[q]
         /\ \A o \in Ordinals \ {Job[p]} :
              attempts'[o] = attempts[o] /\ evaluator'[o] = evaluator[o]
         /\ VerifierStep(p) \/ Kill(p) => UNCHANGED evidenceVars
<1>1. VerifierStep(p) \/ Kill(p) => UNCHANGED evidenceVars
  BY DEF VerifierStep, Resolve, ReadEntries, ReadRegistration, ReadFirst, ReadSecond,
     WriteTemporary, Link, Unlink, CheckRoot, CloseRoot, Kill
<1>2. CASE RunnerStep(p)
  <2>1. \A q \in Processes \ {p} : pc'[q] = pc[q]
    BY <1>2 DEF TypeOK, RunnerStep, Look, Inspect, MakeDirectory, WriteStart, Preflight, Return,
       Interrupt, Complete, FreezeFiles, SealDirectory, Goto
  <2>2. \A q \in Processes \ {p} : judged'[q] = judged[q]
    BY <1>2 DEF TypeOK, RunnerStep, Look, Inspect, MakeDirectory, WriteStart, Preflight, Return,
       Interrupt, Complete, FreezeFiles, SealDirectory
  <2>3. reading' = reading
    BY <1>2 DEF RunnerStep, Look, Inspect, MakeDirectory, WriteStart, Preflight, Return,
       Interrupt, Complete, FreezeFiles, SealDirectory
  <2>4. \A o \in Ordinals \ {Job[p]} : attempts'[o] = attempts[o]
    BY <1>2 DEF TypeOK, RunnerStep, Look, Inspect, MakeDirectory, WriteStart, Preflight, Return,
       Interrupt, Complete, FreezeFiles, SealDirectory, evidenceVars
  <2>5. \A o \in Ordinals \ {Job[p]} : evaluator'[o] = evaluator[o]
    BY <1>2 DEF TypeOK, RunnerStep, Look, Inspect, MakeDirectory, WriteStart, Preflight, Return,
       Interrupt, Complete, FreezeFiles, SealDirectory, evidenceVars
  <2> QED BY <1>1, <2>1, <2>2, <2>3, <2>4, <2>5
<1>3. CASE VerifierStep(p)
  <2>1. \A q \in Processes \ {p} : pc'[q] = pc[q]
    BY <1>3 DEF TypeOK, VerifierStep, Resolve, ReadEntries, ReadRegistration, ReadFirst, ReadSecond,
       WriteTemporary, Link, Unlink, CheckRoot, CloseRoot, Goto
  <2>2. judged' = judged
    BY <1>3 DEF VerifierStep, Resolve, ReadEntries, ReadRegistration, ReadFirst, ReadSecond,
       WriteTemporary, Link, Unlink, CheckRoot, CloseRoot
  <2>3. \A q \in Processes \ {p} : reading'[q] = reading[q]
    BY <1>3 DEF TypeOK, VerifierStep, Resolve, ReadEntries, ReadRegistration, ReadFirst, ReadSecond,
       WriteTemporary, Link, Unlink, CheckRoot, CloseRoot
  <2> QED BY <1>1, <1>3, <2>1, <2>2, <2>3 DEF evidenceVars
<1>4. CASE Kill(p)
  BY <1>1, <1>4 DEF TypeOK, Kill, Goto, evidenceVars
<1> QED BY <1>2, <1>3, <1>4

\* The new directory.
Fresh(p) ==
  [owner |-> p, start |-> None, record |-> None, completion |-> None, mode |-> "open"]

\* What becomes of an open directory in a step of its owner.
Written(p) ==
  /\ attempts[Job[p]] \in Directories
  /\ attempts'[Job[p]] \in Directories
  /\ attempts'[Job[p]].owner = p
  /\ pc'[p] # "ended" =>
       attempts'[Job[p]].mode = IF pc'[p] = "seal" THEN "files" ELSE "open"

LEMMA OwnWork ==
  ASSUME IInv, NEW p \in Processes, RunnerStep(p)
  PROVE  /\ p \in Runners /\ Job[p] \in Ordinals
         /\ attempts' \in [Ordinals -> Directories \union {None}]
         /\ \/ /\ attempts' = attempts
               /\ pc'[p] \in Holding => pc[p] \in Holding \ {"seal"} /\ pc'[p] # "seal"
            \/ /\ pc[p] = "mkdir" /\ pc'[p] = "start" /\ attempts[Job[p]] = None
               /\ attempts'[Job[p]] = Fresh(p) /\ evaluator' = evaluator
            \/ pc[p] \in Holding /\ Written(p)
<1>0. TypeOK /\ RoleInv /\ OwnerInv
  BY DEF IInv
<1>1. p \in Runners /\ Job[p] \in Ordinals
  BY <1>0, Roles DEF RunnerStep, RoleInv, RunnerSteps, Look, Inspect, MakeDirectory, WriteStart,
     Preflight, Return, Interrupt, Complete, FreezeFiles, SealDirectory
<1>2. pc[p] \in Holding =>
        /\ attempts[Job[p]] \in Directories /\ attempts[Job[p]].owner = p
        /\ attempts[Job[p]].mode = IF pc[p] = "seal" THEN "files" ELSE "open"
  BY <1>0, <1>1 DEF OwnerInv, TypeOK
<1>3. Fresh(p) \in Directories
  BY <1>1 DEF Fresh, Directories
<1>4. CASE Look(p) \/ Inspect(p) \/ Preflight(p) \/ Return(p) \/ Interrupt(p)
  BY <1>0, <1>1, <1>4 DEF Look, Inspect, Preflight, Return, Interrupt, evidenceVars, TypeOK,
     Goto, Holding, RunnerSteps
<1>5. CASE MakeDirectory(p)
  <2>1. CASE attempts[Job[p]] = None /\ ~rootClosed
    <3>1. attempts' = [attempts EXCEPT ![Job[p]] = Fresh(p)]
      BY <1>5, <2>1 DEF MakeDirectory, Fresh
    <3>2. attempts' \in [Ordinals -> Directories \union {None}]
      BY <1>0, <1>1, <1>3, <3>1, AttemptUpdate
    <3>3. attempts'[Job[p]] = Fresh(p)
      BY <1>0, <1>1, <3>1 DEF TypeOK
    <3>4. pc[p] = "mkdir" /\ pc'[p] = "start" /\ evaluator' = evaluator
      BY <1>0, <1>5, <2>1 DEF MakeDirectory, TypeOK, Goto
    <3> QED BY <1>1, <2>1, <3>2, <3>3, <3>4
  <2>2. CASE ~(attempts[Job[p]] = None /\ ~rootClosed)
    <3>1. attempts' = attempts /\ pc'[p] = "ended"
      BY <1>0, <1>5, <2>2 DEF MakeDirectory, TypeOK, Goto
    <3> QED BY <1>0, <1>1, <3>1 DEF TypeOK, Holding, RunnerSteps
  <2> QED BY <2>1, <2>2
<1>6. ASSUME pc[p] \in Holding, NEW d \in Directories, attempts' = [attempts EXCEPT ![Job[p]] = d],
             d.owner = attempts[Job[p]].owner,
             pc'[p] # "ended" => d.mode = IF pc'[p] = "seal" THEN "files" ELSE "open"
      PROVE  attempts' \in [Ordinals -> Directories \union {None}] /\ Written(p)
  BY <1>0, <1>1, <1>2, <1>6, AttemptUpdate DEF Written, TypeOK
<1>7. CASE WriteStart(p)
  <2>1. PICK facts \in FactsNow :
          attempts' = [attempts EXCEPT ![Job[p]].start =
            [facts |-> facts, registered |-> registered,
             late |-> attempts["first"] # None /\ attempts["first"].completion # None]]
    BY <1>7 DEF WriteStart
  <2> DEFINE s == [facts |-> facts, registered |-> registered,
                   late |-> attempts["first"] # None /\ attempts["first"].completion # None]
  <2>2. s \in Starts
    BY <1>0, <2>1 DEF Starts, FactsNow, TypeOK
  <2> DEFINE d == [attempts[Job[p]] EXCEPT !.start = s]
  <2>3. pc[p] \in Holding /\ pc'[p] = "preflight"
    BY <1>0, <1>7 DEF WriteStart, Goto, Holding, RunnerSteps, TypeOK
  <2>4. attempts' = [attempts EXCEPT ![Job[p]] = d]
    BY <2>1
  <2>5. d \in Directories /\ d.owner = attempts[Job[p]].owner /\ d.mode = "open"
    BY <1>2, <1>7, <2>2, <2>3, DirectoryFields DEF Directories, WriteStart
  <2> QED BY <1>1, <1>6, <2>3, <2>4, <2>5
<1>8. CASE Complete(p)
  <2> DEFINE s == [status |-> StatusOf(p), record |-> attempts[Job[p]].record]
  <2>1. pc[p] \in Holding /\ pc'[p] = "freeze"
    BY <1>0, <1>8 DEF Complete, Goto, Holding, RunnerSteps, TypeOK
  <2>2. StatusOf(p) \in Statuses
    BY <1>0, <1>1 DEF StatusOf, Statuses, TypeOK
  <2>3. s \in Completions
    BY <1>2, <2>1, <2>2 DEF Completions, Directories
  <2> DEFINE d == [attempts[Job[p]] EXCEPT !.completion = s]
  <2>4. attempts' = [attempts EXCEPT ![Job[p]] = d]
    BY <1>8 DEF Complete
  <2>5. d \in Directories /\ d.owner = attempts[Job[p]].owner /\ d.mode = "open"
    BY <1>2, <1>8, <2>1, <2>3, DirectoryFields DEF Directories, Complete
  <2> QED BY <1>1, <1>6, <2>1, <2>4, <2>5
<1>9. CASE FreezeFiles(p)
  <2> DEFINE d == [attempts[Job[p]] EXCEPT !.mode = "files"]
  <2>1. pc[p] \in Holding /\ pc'[p] = "seal"
    BY <1>0, <1>9 DEF FreezeFiles, Goto, Holding, RunnerSteps, TypeOK
  <2>2. attempts' = [attempts EXCEPT ![Job[p]] = d]
    BY <1>9 DEF FreezeFiles
  <2>3. d \in Directories /\ d.owner = attempts[Job[p]].owner /\ d.mode = "files"
    BY <1>2, <2>1, DirectoryFields DEF Directories
  <2> QED BY <1>1, <1>6, <2>1, <2>2, <2>3
<1>10. CASE SealDirectory(p)
  <2> DEFINE d == [attempts[Job[p]] EXCEPT !.mode = "sealed"]
  <2>1. pc[p] \in Holding /\ pc'[p] = "ended"
    BY <1>0, <1>10 DEF SealDirectory, Goto, Holding, RunnerSteps, TypeOK
  <2>2. attempts' = [attempts EXCEPT ![Job[p]] = d]
    BY <1>10 DEF SealDirectory
  <2>3. d \in Directories /\ d.owner = attempts[Job[p]].owner
    BY <1>2, <2>1, DirectoryFields DEF Directories
  <2> QED BY <1>1, <1>6, <2>1, <2>2, <2>3
<1> QED BY <1>4, <1>5, <1>7, <1>8, <1>9, <1>10 DEF RunnerStep

-----------------------------------------------------------------------------
(* Types, roles and owners. *)

LEMMA TypeStep == IInv /\ [Next]_vars => TypeOK'
<1> SUFFICES ASSUME IInv, [Next]_vars PROVE TypeOK'
  OBVIOUS
<1>0. TypeOK /\ RoleInv /\ OwnerInv
  BY DEF IInv
<1>1. ASSUME NEW p \in Processes, RunnerStep(p) PROVE TypeOK'
  <2>1. Job[p] \in Ordinals /\ attempts' \in [Ordinals -> Directories \union {None}]
    BY <1>1, OwnWork
  <2>2. p \in Runners
    BY <1>1, OwnWork
  <2>3. CASE Look(p) \/ Inspect(p) \/ MakeDirectory(p) \/ WriteStart(p) \/ FreezeFiles(p) \/ SealDirectory(p)
    BY <1>0, <2>1, <2>3 DEF Look, Inspect, MakeDirectory, WriteStart, FreezeFiles, SealDirectory,
       TypeOK, Goto, evidenceVars, rootVars, worldVars, RunnerSteps
  <2>4. CASE Preflight(p)
    BY <1>0, <2>1, <2>2, <2>4 DEF Preflight, TypeOK, Goto, rootVars, worldVars, RunnerSteps, Failures
  <2>5. CASE Return(p)
    BY <1>0, <2>1, <2>5 DEF Return, TypeOK, Goto, evidenceVars, rootVars, worldVars, RunnerSteps, Failures
  <2>6. CASE Interrupt(p)
    BY <1>0, <2>1, <2>6, AttemptAssumption
    DEF Interrupt, TypeOK, Goto, rootVars, RunnerSteps, Failures, AttemptAssumption
  <2>7. CASE Complete(p)
    BY <1>0, <2>1, <2>7 DEF Complete, TypeOK, Goto, rootVars, worldVars, RunnerSteps
  <2> QED
    BY <1>1, <2>3, <2>4, <2>5, <2>6, <2>7 DEF RunnerStep
<1>2. ASSUME NEW v \in Processes, VerifierStep(v) PROVE TypeOK'
  <2>0. v \in Verifiers
    BY <1>0, <1>2 DEF VerifierStep, RoleInv, VerifierSteps, Resolve, ReadEntries, ReadRegistration,
       ReadFirst, ReadSecond, WriteTemporary, Link, Unlink, CheckRoot, CloseRoot
  <2>1. reading[v] \in Readings
    BY <1>0 DEF TypeOK
  <2>2. CASE Resolve(v)
    BY <1>0, <2>2 DEF Resolve, TypeOK, Goto, evidenceVars, rootVars, worldVars, VerifierSteps
  <2>3. CASE ReadEntries(v)
    BY <1>0, <2>1, <2>3 DEF ReadEntries, TypeOK, Goto, evidenceVars, rootVars, worldVars, VerifierSteps, Readings
  <2>4. CASE ReadRegistration(v)
    BY <1>0, <2>1, <2>4 DEF ReadRegistration, TypeOK, Goto, evidenceVars, rootVars, worldVars, VerifierSteps, Readings
  <2>5. CASE ReadFirst(v)
    <3>1. RecordOf("first") \in Records \union {None}
      BY <1>0 DEF RecordOf, TypeOK, Directories, Ordinals
    <3>2. (reading[v].clean /\ EnvelopeSound("first", reading[v].registered)) \in BOOLEAN
      BY DEF EnvelopeSound
    <3> QED
      BY <1>0, <2>1, <2>5, <3>1, <3>2
      DEF ReadFirst, TypeOK, Goto, evidenceVars, rootVars, worldVars, VerifierSteps, Readings
  <2>6. CASE ReadSecond(v)
    BY <1>0, <2>1, <2>6 DEF ReadSecond, TypeOK, Goto, evidenceVars, rootVars, worldVars, VerifierSteps, Readings
  <2>7. CASE WriteTemporary(v)
    BY <1>0, <2>0, <2>7 DEF WriteTemporary, TypeOK, Goto, evidenceVars, worldVars, VerifierSteps
  <2>8. CASE Link(v)
    <3>1. Verdict(v) \in Aggregates
      BY <1>0, <2>8 DEF Verdict, Aggregates, Link, RoleInv
    <3> QED
      BY <1>0, <2>8, <3>1 DEF Link, TypeOK, Goto, evidenceVars, worldVars, VerifierSteps, Readings, Unread
  <2>9. CASE Unlink(v)
    BY <1>0, <2>9 DEF Unlink, TypeOK, Goto, evidenceVars, worldVars, VerifierSteps
  <2>10. CASE CheckRoot(v)
    BY <1>0, <2>10 DEF CheckRoot, TypeOK, Goto, evidenceVars, rootVars, worldVars, VerifierSteps
  <2>11. CASE CloseRoot(v)
    BY <1>0, <2>11 DEF CloseRoot, TypeOK, Goto, evidenceVars, worldVars, VerifierSteps
  <2> QED
    BY <1>2, <2>2, <2>3, <2>4, <2>5, <2>6, <2>7, <2>8, <2>9, <2>10, <2>11 DEF VerifierStep
<1>3. ASSUME NEW p \in Processes, Kill(p) PROVE TypeOK'
  BY <1>0, <1>3, AttemptAssumption
  DEF Kill, TypeOK, Goto, evidenceVars, rootVars, Readings, Unread, AttemptAssumption
<1>4. ASSUME NEW o \in Ordinals, EvaluatorStep(o) PROVE TypeOK'
  <2>1. CASE EvaluatorWrites(o)
    <3>1. attempts[o] \in Directories
      BY <1>0, <2>1 DEF OwnerInv, TypeOK, EvaluatorWrites
    <3>2. attempts' \in [Ordinals -> Directories \union {None}]
      <4>1. PICK r \in Records : attempts' = [attempts EXCEPT ![o] = [@ EXCEPT !.record = r]]
        BY <2>1 DEF EvaluatorWrites
      <4> QED
        BY <1>0, <3>1, <4>1, AttemptUpdate, DirectoryFields
    <3> QED
      BY <1>0, <2>1, <3>2 DEF EvaluatorWrites, TypeOK, commandVars, rootVars, worldVars
  <2>2. CASE EvaluatorExits(o)
    BY <1>0, <2>2 DEF EvaluatorExits, TypeOK, commandVars, rootVars, worldVars
  <2> QED
    BY <1>4, <2>1, <2>2 DEF EvaluatorStep
<1>5. CASE Edit
  BY <1>0, <1>5, AttemptAssumption DEF Edit, TypeOK, commandVars, evidenceVars, rootVars, AttemptAssumption
<1>6. CASE UNCHANGED vars
  BY <1>0, <1>6 DEF TypeOK, vars, commandVars, evidenceVars, rootVars, worldVars
<1> QED
  BY <1>1, <1>2, <1>3, <1>4, <1>5, <1>6 DEF Next

LEMMA RoleStep == IInv /\ [Next]_vars => RoleInv'
<1> SUFFICES ASSUME IInv, [Next]_vars PROVE RoleInv'
  OBVIOUS
<1>0. TypeOK /\ RoleInv
  BY DEF IInv
<1> DEFINE Role(p) ==
      /\ pc[p] \in RunnerSteps => p \in Runners
      /\ pc[p] \in VerifierSteps => p \in Verifiers
      /\ pc[p] \in {"first", "second", "write", "link"} => reading[p].registered \in Versions
<1>1. ASSUME NEW p \in Processes, RunnerStep(p) \/ VerifierStep(p) \/ Kill(p), Role(p)' PROVE RoleInv'
  <2>1. \A q \in Processes \ {p} : Role(q)'
    BY <1>0, <1>1, Locality DEF RoleInv
  <2> QED BY <1>1, <2>1 DEF RoleInv
<1>2. ASSUME NEW p \in Processes, RunnerStep(p) PROVE Role(p)'
  <2>1. p \in Runners /\ reading' = reading
    BY <1>2, OwnWork DEF RunnerStep, Look, Inspect, MakeDirectory, WriteStart, Preflight, Return,
       Interrupt, Complete, FreezeFiles, SealDirectory
  <2>2. pc'[p] \in RunnerSteps \union {"ended"}
    BY <1>0, <1>2 DEF TypeOK, RunnerStep, Look, Inspect, MakeDirectory, WriteStart, Preflight, Return,
       Interrupt, Complete, FreezeFiles, SealDirectory, Goto, RunnerSteps
  <2> QED BY <2>1, <2>2, Roles DEF VerifierSteps, RunnerSteps
<1>3. ASSUME NEW v \in Processes, VerifierStep(v) PROVE Role(v)'
  <2>1. v \in Verifiers
    BY <1>0, <1>3, Roles DEF VerifierStep, RoleInv, VerifierSteps, Resolve, ReadEntries, ReadRegistration,
       ReadFirst, ReadSecond, WriteTemporary, Link, Unlink, CheckRoot, CloseRoot
  <2>2. pc'[v] \in VerifierSteps \union {"ended"}
    BY <1>0, <1>3 DEF TypeOK, VerifierStep, Resolve, ReadEntries, ReadRegistration,
       ReadFirst, ReadSecond, WriteTemporary, Link, Unlink, CheckRoot, CloseRoot, Goto, VerifierSteps
  <2>3. pc'[v] \in {"first", "second", "write", "link"} => reading'[v].registered \in Versions
    BY <1>0, <1>3, SMTT(40) DEF TypeOK, RoleInv, VerifierStep, Resolve, ReadEntries, ReadRegistration,
       ReadFirst, ReadSecond, WriteTemporary, Link, Unlink, CheckRoot, CloseRoot, Goto, Readings
  <2> QED BY <2>1, <2>2, <2>3, Roles DEF RunnerSteps, VerifierSteps
<1>4. ASSUME NEW p \in Processes, Kill(p) PROVE Role(p)'
  BY <1>0, <1>4 DEF Kill, TypeOK, Goto, RunnerSteps, VerifierSteps
<1>5. ASSUME NEW o \in Ordinals, EvaluatorStep(o) PROVE RoleInv'
  BY <1>0, <1>5 DEF EvaluatorStep, EvaluatorWrites, EvaluatorExits, commandVars, RoleInv
<1>6. CASE Edit
  BY <1>0, <1>6 DEF Edit, commandVars, RoleInv
<1>7. CASE UNCHANGED vars
  BY <1>0, <1>7 DEF vars, commandVars, RoleInv
<1> QED
  BY <1>1, <1>2, <1>3, <1>4, <1>5, <1>6, <1>7 DEF Next

LEMMA OwnerStep == IInv /\ [Next]_vars => OwnerInv'
<1> SUFFICES ASSUME IInv, [Next]_vars PROVE OwnerInv'
  OBVIOUS
<1>0. TypeOK /\ RoleInv /\ OwnerInv
  BY DEF IInv
<1> DEFINE Holds(p) == pc[p] \in Holding =>
      /\ attempts[Job[p]] # None /\ attempts[Job[p]].owner = p
      /\ attempts[Job[p]].mode = IF pc[p] = "seal" THEN "files" ELSE "open"
<1>1. ASSUME NEW p \in Processes, RunnerStep(p) PROVE OwnerInv'
  <2>1. p \in Runners /\ Job[p] \in Ordinals
    BY <1>1, OwnWork
  <2>2. Holds(p)'
    <3>1. CASE attempts' = attempts /\ (pc'[p] \in Holding => pc[p] \in Holding \ {"seal"} /\ pc'[p] # "seal")
      BY <1>0, <3>1 DEF OwnerInv
    <3>2. CASE pc'[p] = "start" /\ attempts'[Job[p]] = Fresh(p)
      BY <2>1, <3>2, NoneAssumption DEF Fresh, Directories
    <3>3. CASE Written(p)
      BY <3>3, NoneAssumption DEF Written, Holding, RunnerSteps
    <3> QED BY <1>1, <3>1, <3>2, <3>3, OwnWork
  <2>3. \A q \in Processes \ {p} : Holds(q)'
    <3> SUFFICES ASSUME NEW q \in Processes \ {p}, pc[q] \in Holding, Holds(q)
                 PROVE  attempts'[Job[q]] = attempts[Job[q]]
      BY <1>0, <1>1, Locality DEF OwnerInv
    <3>1. CASE Job[q] # Job[p]
      <4>1. Job[q] \in Ordinals
        BY <1>0, Roles DEF RoleInv, Holding
      <4> QED BY <1>0, <1>1, <3>1, <4>1, Locality
    <3>2. CASE Job[q] = Job[p]
      BY <1>0, <1>1, <3>2, OwnWork DEF OwnerInv
    <3> QED BY <3>1, <3>2
  <2>4. \A o \in Ordinals : evaluator'[o] = "running" => attempts'[o] # None
    <3>1. ASSUME NEW o \in Ordinals, attempts[o] # None PROVE attempts'[o] # None
      BY <1>0, <1>1, <3>1, OwnWork, Locality, NoneAssumption DEF Written
    <3>2. ASSUME NEW o \in Ordinals, evaluator'[o] = "running", evaluator[o] # "running"
          PROVE  attempts[o] # None
      BY <1>0, <1>1, <2>1, <3>2
      DEF OwnerInv, TypeOK, RunnerStep, Look, Inspect, MakeDirectory, WriteStart, Preflight, Return,
          Interrupt, Complete, FreezeFiles, SealDirectory, evidenceVars, Holding, RunnerSteps
    <3> QED BY <1>0, <3>1, <3>2 DEF OwnerInv
  <2> QED BY <2>2, <2>3, <2>4 DEF OwnerInv
<1>2. ASSUME NEW p \in Processes, VerifierStep(p) \/ Kill(p) PROVE OwnerInv'
  <2>1. UNCHANGED evidenceVars
    BY <1>0, <1>2, Locality
  <2>2. pc'[p] \notin Holding
    BY <1>0, <1>2 DEF TypeOK, VerifierStep, Resolve, ReadEntries, ReadRegistration,
       ReadFirst, ReadSecond, WriteTemporary, Link, Unlink, CheckRoot, CloseRoot, Kill, Goto,
       Holding, RunnerSteps
  <2>3. \A q \in Processes \ {p} : Holds(q)'
    BY <1>0, <1>2, <2>1, Locality DEF OwnerInv, evidenceVars
  <2> QED BY <1>0, <2>1, <2>2, <2>3 DEF OwnerInv, evidenceVars
<1>3. ASSUME NEW o \in Ordinals, EvaluatorStep(o) PROVE OwnerInv'
  <2>1. CASE EvaluatorWrites(o)
    <3>1. PICK r \in Records : attempts' = [attempts EXCEPT ![o] = [@ EXCEPT !.record = r]]
      BY <2>1 DEF EvaluatorWrites
    <3>2. attempts[o] \in Directories
      BY <1>0, <2>1 DEF OwnerInv, TypeOK, EvaluatorWrites
    <3>3. /\ attempts'[o] # None
          /\ attempts'[o].owner = attempts[o].owner /\ attempts'[o].mode = attempts[o].mode
          /\ \A k \in Ordinals \ {o} : attempts'[k] = attempts[k]
      <4>1. [attempts[o] EXCEPT !.record = r] \in Directories
        BY <3>2, DirectoryFields
      <4> QED BY <1>0, <3>1, <3>2, <4>1, NoneAssumption DEF TypeOK, Directories
    <3>4. \A q \in Processes : pc[q] \in Holding => Job[q] \in Ordinals
      BY <1>0, Roles DEF RoleInv, Holding
    <3> QED
      BY <1>0, <2>1, <3>3, <3>4 DEF EvaluatorWrites, OwnerInv, commandVars
  <2>2. CASE EvaluatorExits(o)
    BY <1>0, <2>2 DEF EvaluatorExits, OwnerInv, TypeOK, commandVars
  <2> QED BY <1>3, <2>1, <2>2 DEF EvaluatorStep
<1>4. CASE Edit \/ UNCHANGED vars
  BY <1>0, <1>4 DEF Edit, vars, commandVars, evidenceVars, OwnerInv
<1> QED
  BY <1>1, <1>2, <1>3, <1>4 DEF Next

\* The types, which command is at which step, and that a directory made by
\* attempt.mkdir and not yet frozen belongs to the run_attempt that made it.
THEOREM ConfirmatoryTypeCorrect == Spec => []IInv
<1>1. Init => IInv
  BY TypeInit
<1>2. IInv /\ [Next]_vars => IInv'
  BY TypeStep, RoleStep, OwnerStep DEF IInv
<1> QED
  BY <1>1, <1>2, PTL DEF Spec

-----------------------------------------------------------------------------
(* What is for good. *)

\* A sealed attempt is nobody's to write: its owner has left it, and the
\* evaluator cannot make a file in it.
LEMMA SealedStays ==
  ASSUME IInv, [Next]_vars, NEW o \in Ordinals, attempts[o] # None, attempts[o].mode = "sealed"
  PROVE  attempts'[o] = attempts[o]
<1>0. TypeOK /\ RoleInv /\ OwnerInv
  BY DEF IInv
<1>1. ASSUME NEW p \in Processes, RunnerStep(p) PROVE attempts'[o] = attempts[o]
  <2>1. CASE Job[p] # o
    BY <1>0, <1>1, <2>1, Locality
  <2>2. CASE Job[p] = o
    BY <1>0, <1>1, <2>2, OwnWork DEF OwnerInv
  <2> QED BY <2>1, <2>2
<1>2. ASSUME NEW p \in Processes, VerifierStep(p) \/ Kill(p) PROVE attempts'[o] = attempts[o]
  BY <1>0, <1>2, Locality DEF evidenceVars
<1>3. ASSUME NEW k \in Ordinals, EvaluatorStep(k) PROVE attempts'[o] = attempts[o]
  BY <1>0, <1>3 DEF EvaluatorStep, EvaluatorWrites, EvaluatorExits, TypeOK
<1>4. CASE Edit \/ UNCHANGED vars
  BY <1>4 DEF Edit, vars, evidenceVars
<1> QED
  BY <1>1, <1>2, <1>3, <1>4 DEF Next

\* The root changes in no step of a runner, of an evaluator, or of the world.
LEMMA RootStays ==
  ASSUME TypeOK, [Next]_vars
  PROVE  (aggregate # None => aggregate' = aggregate) /\ (rootClosed => rootClosed')
<1>1. ASSUME NEW p \in Processes, RunnerStep(p) PROVE UNCHANGED rootVars
  BY <1>1 DEF RunnerStep, Look, Inspect, MakeDirectory, WriteStart, Preflight, Return,
     Interrupt, Complete, FreezeFiles, SealDirectory
<1>2. ASSUME NEW v \in Processes, VerifierStep(v)
      PROVE  (aggregate # None => aggregate' = aggregate) /\ (rootClosed => rootClosed')
  BY <1>2 DEF VerifierStep, Resolve, ReadEntries, ReadRegistration, ReadFirst, ReadSecond,
     WriteTemporary, Link, Unlink, CheckRoot, CloseRoot, rootVars
<1>3. ASSUME NEW p \in Processes, Kill(p) PROVE UNCHANGED rootVars
  BY <1>3 DEF Kill
<1>4. ASSUME NEW o \in Ordinals, EvaluatorStep(o) PROVE UNCHANGED rootVars
  BY <1>4 DEF EvaluatorStep, EvaluatorWrites, EvaluatorExits
<1>5. CASE Edit \/ UNCHANGED vars
  BY <1>5 DEF Edit, vars, rootVars
<1> QED
  BY <1>1, <1>2, <1>3, <1>4, <1>5 DEF Next, rootVars

\* Whatever other runners and verifiers do, an attempt that _freeze_attempt has
\* sealed and an aggregate that atomic_write_json has linked stay as they are,
\* and a root that seal_claim_artifact_root has closed stays closed.
THEOREM ConfirmatoryEvidenceStands == Spec => EvidenceStands
<1>1. IInv /\ [Next]_vars =>
        [ /\ \A o \in Ordinals :
               attempts[o] # None /\ attempts[o].mode = "sealed" => attempts'[o] = attempts[o]
          /\ aggregate # None => aggregate' = aggregate
          /\ rootClosed => rootClosed' ]_vars
  BY SealedStays, RootStays DEF IInv
<1> QED
  BY <1>1, ConfirmatoryTypeCorrect, PTL DEF Spec, EvidenceStands

-----------------------------------------------------------------------------
(* The order of the attempts. *)

OrderInv ==
  /\ \A p \in Processes : pc[p] = "mkdir" /\ Job[p] = "second" => CleanAttempt("first")
  /\ SecondFollowsFirst

LEMMA CleanStays ==
  ASSUME IInv, [Next]_vars, NEW o \in Ordinals, CleanAttempt(o)
  PROVE  CleanAttempt(o)' /\ attempts'[o] = attempts[o]
BY SealedStays DEF CleanAttempt

LEMMA OrderStep == IInv /\ OrderInv /\ [Next]_vars => OrderInv'
<1> SUFFICES ASSUME IInv, OrderInv, [Next]_vars PROVE OrderInv'
  OBVIOUS
<1>0. TypeOK /\ RoleInv /\ OwnerInv
  BY DEF IInv
<1>1. "first" \in Ordinals /\ "second" \in Ordinals /\ (CleanAttempt("first") => CleanAttempt("first")')
  BY CleanStays DEF Ordinals
<1>2. ASSUME NEW p \in Processes, RunnerStep(p) PROVE OrderInv'
  <2>1. ASSUME NEW q \in Processes, pc'[q] = "mkdir", Job[q] = "second" PROVE CleanAttempt("first")
    <3>1. CASE q # p
      BY <1>0, <1>2, <2>1, <3>1, Locality DEF OrderInv
    <3>2. CASE q = p
      BY <1>0, <1>2, <2>1, <3>2 DEF TypeOK, RunnerStep, Look, Inspect, MakeDirectory, WriteStart,
         Preflight, Return, Interrupt, Complete, FreezeFiles, SealDirectory, Goto
    <3> QED BY <3>1, <3>2
  <2>2. attempts'["second"] # None => CleanAttempt("first")
    <3>1. CASE Job[p] # "second"
      BY <1>0, <1>1, <1>2, <3>1, Locality DEF OrderInv, SecondFollowsFirst
    <3>2. CASE Job[p] = "second"
      BY <1>0, <1>2, <3>2, OwnWork DEF OrderInv, SecondFollowsFirst, OwnerInv
    <3> QED BY <3>1, <3>2
  <2> QED BY <1>1, <2>1, <2>2 DEF OrderInv, SecondFollowsFirst
<1>3. ASSUME NEW p \in Processes, VerifierStep(p) \/ Kill(p) PROVE OrderInv'
  <2>1. UNCHANGED evidenceVars /\ pc'[p] # "mkdir"
    BY <1>0, <1>3, Locality DEF TypeOK, VerifierStep, Resolve, ReadEntries, ReadRegistration,
       ReadFirst, ReadSecond, WriteTemporary, Link, Unlink, CheckRoot, CloseRoot, Kill, Goto
  <2>2. \A q \in Processes : pc'[q] = "mkdir" => pc[q] = "mkdir"
    BY <1>0, <1>3, <2>1, Locality
  <2> QED BY <1>1, <2>1, <2>2 DEF OrderInv, SecondFollowsFirst, evidenceVars
<1>4. ASSUME NEW o \in Ordinals, EvaluatorStep(o) PROVE OrderInv'
  <2>1. pc' = pc /\ (attempts'["second"] # None => attempts["second"] # None)
    BY <1>0, <1>1, <1>4 DEF EvaluatorStep, EvaluatorWrites, EvaluatorExits, TypeOK, OwnerInv, commandVars
  <2> QED BY <1>1, <2>1 DEF OrderInv, SecondFollowsFirst
<1>5. CASE Edit \/ UNCHANGED vars
  BY <1>1, <1>5 DEF Edit, vars, commandVars, evidenceVars, OrderInv, SecondFollowsFirst
<1> QED
  BY <1>2, <1>3, <1>4, <1>5 DEF Next

\* A second attempt stands only beside a clean and sealed first one, although
\* _validate_attempt_sequence looks some steps before the directory is made.
THEOREM ConfirmatorySecondFollowsFirst == Spec => []SecondFollowsFirst
<1>1. Init => OrderInv
  BY DEF Init, OrderInv, SecondFollowsFirst, Ordinals
<1>2. IInv /\ OrderInv /\ [Next]_vars => OrderInv'
  BY OrderStep
<1>3. OrderInv => SecondFollowsFirst
  BY DEF OrderInv
<1> QED
  BY <1>1, <1>2, <1>3, ConfirmatoryTypeCorrect, PTL DEF Spec

-----------------------------------------------------------------------------
(* The evaluations behind the attempts. *)

\* Only its owner works on a directory that is not complete.
LEMMA OthersWork ==
  ASSUME IInv, NEW p \in Processes, RunnerStep(p), NEW q \in Processes \ {p}, pc[q] \in Holding
  PROVE  Job[q] \in Ordinals /\ attempts'[Job[q]] = attempts[Job[q]]
<1>0. TypeOK /\ RoleInv /\ OwnerInv
  BY DEF IInv
<1>1. Job[q] \in Ordinals
  BY <1>0, Roles DEF RoleInv, Holding
<1>2. CASE Job[q] # Job[p]
  BY <1>0, <1>1, <1>2, Locality
<1>3. CASE Job[q] = Job[p]
  BY <1>0, <1>3, OwnWork DEF OwnerInv
<1> QED BY <1>1, <1>2, <1>3

\* An evaluator makes the record of its attempt and changes nothing else there.
LEMMA EvaluatorWork ==
  ASSUME IInv, NEW o \in Ordinals, EvaluatorStep(o)
  PROVE  /\ UNCHANGED <<commandVars, launched, rootVars>>
         /\ \A k \in Ordinals :
              /\ attempts[k] = None <=> attempts'[k] = None
              /\ attempts[k] # None =>
                   /\ attempts'[k].owner = attempts[k].owner
                   /\ attempts'[k].mode = attempts[k].mode
                   /\ attempts'[k].completion = attempts[k].completion
<1>0. TypeOK /\ RoleInv /\ OwnerInv
  BY DEF IInv
<1>1. CASE EvaluatorWrites(o)
  <2>1. PICK r \in Records : attempts' = [attempts EXCEPT ![o] = [@ EXCEPT !.record = r]]
    BY <1>1 DEF EvaluatorWrites
  <2>2. attempts[o] \in Directories
    BY <1>0, <1>1 DEF OwnerInv, TypeOK, EvaluatorWrites
  <2>3. [attempts[o] EXCEPT !.record = r] \in Directories
    BY <2>2, DirectoryFields
  <2>4. attempts'[o] = [attempts[o] EXCEPT !.record = r] /\ \A k \in Ordinals \ {o} : attempts'[k] = attempts[k]
    BY <1>0, <2>1 DEF TypeOK
  <2>5. /\ attempts'[o].owner = attempts[o].owner
        /\ attempts'[o].mode = attempts[o].mode
        /\ attempts'[o].completion = attempts[o].completion
    BY <2>2, <2>4 DEF Directories
  <2>6. attempts[o] # None /\ attempts'[o] # None
    BY <2>2, <2>3, <2>4, NoneAssumption
  <2> QED BY <1>1, <2>4, <2>5, <2>6 DEF EvaluatorWrites
<1>2. CASE EvaluatorExits(o)
  BY <1>2 DEF EvaluatorExits
<1> QED BY <1>1, <1>2 DEF EvaluatorStep

\* An evaluator is only started by the owner of the attempt directory, and an
\* execution that ended as complete was one of an evaluator.
LaunchInv ==
  /\ \A l \in launched : attempts[l[2]] # None /\ l[1] = attempts[l[2]].owner
  /\ \A p \in Processes :
       /\ pc[p] = "wait" \/ (pc[p] = "complete" /\ judged[p] = None) => <<p, Job[p]>> \in launched
       /\ /\ pc[p] = "freeze"
          /\ attempts[Job[p]].completion.status = "attempt_execution_complete"
          => <<p, Job[p]>> \in launched
  /\ \A o \in Ordinals :
       /\ attempts[o] # None /\ attempts[o].mode # "open"
       /\ attempts[o].completion.status = "attempt_execution_complete"
       => <<attempts[o].owner, o>> \in launched

LEMMA LaunchStep == IInv /\ LaunchInv /\ [Next]_vars => LaunchInv'
<1> SUFFICES ASSUME IInv, LaunchInv, [Next]_vars PROVE LaunchInv'
  OBVIOUS
<1>0. TypeOK /\ RoleInv /\ OwnerInv
  BY DEF IInv
<1> DEFINE Started(q) ==
             /\ pc[q] = "wait" \/ (pc[q] = "complete" /\ judged[q] = None) => <<q, Job[q]>> \in launched
             /\ /\ pc[q] = "freeze"
                /\ attempts[Job[q]].completion.status = "attempt_execution_complete"
                => <<q, Job[q]>> \in launched
           Evaluated(o) ==
             /\ attempts[o] # None /\ attempts[o].mode # "open"
             /\ attempts[o].completion.status = "attempt_execution_complete"
             => <<attempts[o].owner, o>> \in launched
<1>1. ASSUME NEW p \in Processes, RunnerStep(p) PROVE LaunchInv'
  <2>0. p \in Runners /\ Job[p] \in Ordinals
    BY <1>1, OwnWork
  <2>1. pc[p] \in Holding => attempts[Job[p]] # None /\ attempts[Job[p]].owner = p
    BY <1>0 DEF OwnerInv
  <2>2. /\ launched \subseteq launched'
        /\ \A l \in launched' \ launched :
             pc[p] = "preflight" /\ l = <<p, Job[p]>> /\ attempts' = attempts
    BY <1>1 DEF RunnerStep, Look, Inspect, MakeDirectory, WriteStart, Preflight, Return,
       Interrupt, Complete, FreezeFiles, SealDirectory, evidenceVars
  <2>3. ASSUME NEW o \in Ordinals, attempts[o] # None
        PROVE  attempts'[o] # None /\ attempts'[o].owner = attempts[o].owner
    <3>1. CASE o # Job[p]
      BY <1>0, <1>1, <2>3, <3>1, Locality
    <3>2. CASE o = Job[p]
      BY <1>1, <2>1, <2>3, <3>2, OwnWork, NoneAssumption DEF Written
    <3> QED BY <3>1, <3>2
  <2>4. ASSUME NEW l \in launched' PROVE attempts'[l[2]] # None /\ l[1] = attempts'[l[2]].owner
    <3>1. CASE l \in launched
      BY <1>0, <2>3, <3>1 DEF LaunchInv, TypeOK
    <3>2. CASE l \notin launched
      BY <2>1, <2>2, <3>2 DEF Holding, RunnerSteps
    <3> QED BY <3>1, <3>2
  <2>5. ASSUME NEW q \in Processes \ {p} PROVE Started(q)'
    <3>1. pc[q] \in {"wait", "complete", "freeze"} => attempts'[Job[q]] = attempts[Job[q]]
      BY <1>1, OthersWork DEF Holding, RunnerSteps
    <3> QED BY <1>0, <1>1, <2>2, <3>1, Locality DEF LaunchInv
  <2>6. pc'[p] = "wait" \/ (pc'[p] = "complete" /\ judged'[p] = None) => <<p, Job[p]>> \in launched'
    <3>1. CASE Preflight(p)
      BY <1>0, <3>1, NoneAssumption DEF Preflight, Goto, TypeOK, Failures
    <3>2. CASE Return(p) \/ Interrupt(p)
      <4>1. pc[p] = "wait"
        BY <3>2 DEF Return, Interrupt
      <4> QED BY <2>2, <4>1 DEF LaunchInv
    <3>3. CASE Look(p) \/ Inspect(p) \/ MakeDirectory(p) \/ WriteStart(p) \/ Complete(p)
               \/ FreezeFiles(p) \/ SealDirectory(p)
      BY <1>0, <3>3 DEF Look, Inspect, MakeDirectory, WriteStart, Complete, FreezeFiles,
         SealDirectory, Goto, TypeOK
    <3> QED BY <1>1, <3>1, <3>2, <3>3 DEF RunnerStep
  <2>7. ASSUME pc'[p] = "freeze", attempts'[Job[p]].completion.status = "attempt_execution_complete"
        PROVE  <<p, Job[p]>> \in launched'
    <3>1. Complete(p)
      BY <1>0, <1>1, <2>7 DEF RunnerStep, Look, Inspect, MakeDirectory, WriteStart, Preflight, Return,
         Interrupt, FreezeFiles, SealDirectory, Goto, TypeOK
    <3> DEFINE s == [status |-> StatusOf(p), record |-> attempts[Job[p]].record]
               d == [attempts[Job[p]] EXCEPT !.completion = s]
    <3>2. attempts[Job[p]] \in Directories
      BY <1>1, <2>1, <3>1, OwnWork, <1>0, <2>0 DEF Complete, Holding, RunnerSteps, TypeOK
    <3>3. attempts' = [attempts EXCEPT ![Job[p]] = d]
      BY <3>1 DEF Complete
    <3>4. attempts'[Job[p]] = d
      BY <1>0, <2>0, <3>3 DEF TypeOK
    <3>5. attempts'[Job[p]].completion = s
      BY <3>2, <3>4 DEF Directories
    <3>6. StatusOf(p) = "attempt_execution_complete"
      BY <2>7, <3>5
    <3>7. judged[p] = None
      BY <1>0, <3>6 DEF StatusOf, TypeOK, Failures
    <3> QED BY <2>2, <3>1, <3>7 DEF Complete, LaunchInv
  <2>8. ASSUME NEW o \in Ordinals PROVE Evaluated(o)'
    <3>1. CASE o # Job[p]
      BY <1>0, <1>1, <2>2, <3>1, Locality DEF LaunchInv
    <3>2. CASE attempts' = attempts
      BY <2>2, <3>2 DEF LaunchInv
    <3>3. CASE o = Job[p] /\ attempts'[o] = Fresh(p)
      BY <3>3 DEF Fresh
    <3>4. CASE o = Job[p] /\ pc[p] \in Holding /\ Written(p)
      <4>1. CASE FreezeFiles(p)
        <5>1. attempts'[o] = [attempts[o] EXCEPT !.mode = "files"]
          BY <1>0, <3>4, <4>1 DEF FreezeFiles, TypeOK
        <5>2. attempts'[o].completion = attempts[o].completion
          BY <3>4, <5>1 DEF Written, Directories
        <5> QED BY <2>2, <3>4, <4>1, <5>2 DEF FreezeFiles, LaunchInv, Written
      <4>2. CASE SealDirectory(p)
        <5>1. attempts'[o] = [attempts[o] EXCEPT !.mode = "sealed"]
          BY <1>0, <3>4, <4>2 DEF SealDirectory, TypeOK
        <5>2. attempts'[o].completion = attempts[o].completion /\ attempts'[o].owner = attempts[o].owner
          BY <3>4, <5>1 DEF Written, Directories
        <5>3. attempts[o] # None /\ attempts[o].mode # "open"
          BY <1>0, <3>4, <4>2 DEF SealDirectory, OwnerInv
        <5> QED BY <2>2, <3>4, <5>2, <5>3 DEF LaunchInv
      <4>3. CASE ~FreezeFiles(p) /\ ~SealDirectory(p)
        <5>1. pc'[p] # "ended" /\ pc'[p] # "seal"
          BY <1>0, <1>1, <3>4, <4>3 DEF RunnerStep, Look, Inspect, MakeDirectory, WriteStart, Preflight,
             Return, Interrupt, Complete, Goto, TypeOK, Holding, RunnerSteps
        <5> QED BY <3>4, <5>1 DEF Written
      <4> QED BY <4>1, <4>2, <4>3
    <3> QED BY <1>1, <3>1, <3>2, <3>3, <3>4, OwnWork
  <2> QED BY <2>4, <2>5, <2>6, <2>7, <2>8 DEF LaunchInv
<1>2. ASSUME NEW p \in Processes, VerifierStep(p) \/ Kill(p) PROVE LaunchInv'
  <2>1. UNCHANGED evidenceVars /\ pc'[p] \notin {"wait", "complete", "freeze"}
    BY <1>0, <1>2, Locality DEF TypeOK, VerifierStep, Resolve, ReadEntries, ReadRegistration,
       ReadFirst, ReadSecond, WriteTemporary, Link, Unlink, CheckRoot, CloseRoot, Kill, Goto
  <2>2. \A q \in Processes \ {p} : Started(q)'
    BY <1>0, <1>2, <2>1, Locality DEF LaunchInv, evidenceVars
  <2> QED BY <2>1, <2>2 DEF LaunchInv, evidenceVars
<1>3. ASSUME NEW o \in Ordinals, EvaluatorStep(o) PROVE LaunchInv'
  <2>1. \A q \in Processes : pc[q] = "freeze" => Job[q] \in Ordinals /\ attempts[Job[q]] # None
    BY <1>0, Roles DEF RoleInv, OwnerInv, Holding, RunnerSteps
  <2>2. \A q \in Processes : Started(q)'
    BY <1>3, <2>1, EvaluatorWork DEF LaunchInv, commandVars
  <2>3. \A k \in Ordinals : Evaluated(k)'
    BY <1>3, EvaluatorWork DEF LaunchInv
  <2>4. \A l \in launched : l[2] \in Ordinals
    BY <1>0 DEF TypeOK
  <2> QED BY <1>3, <2>2, <2>3, <2>4, EvaluatorWork DEF LaunchInv
<1>4. CASE Edit \/ UNCHANGED vars
  BY <1>4 DEF Edit, vars, commandVars, evidenceVars, LaunchInv
<1> QED
  BY <1>1, <1>2, <1>3, <1>4 DEF Next

-----------------------------------------------------------------------------
(* The claim. *)

\* What a confirmed verdict under a registration says.
Backed(version) ==
  /\ EnvelopeSound("first", version) /\ EnvelopeSound("second", version)
  /\ PairMatches(attempts["first"].record, attempts["second"].record)

\* What a verifier has read and found right is still so, and is so of the
\* aggregate.
ClaimInv ==
  /\ \A v \in Processes :
       /\ pc[v] = "second" /\ reading[v].clean =>
            /\ EnvelopeSound("first", reading[v].registered)
            /\ reading[v].first = attempts["first"].record
       /\ pc[v] \in {"write", "link"} /\ reading[v].clean => Backed(reading[v].registered)
  /\ aggregate # None /\ aggregate.verdict = "confirmed" => Backed(aggregate.registered)

LEMMA SoundStays ==
  ASSUME IInv, [Next]_vars, NEW o \in Ordinals, NEW w, EnvelopeSound(o, w)
  PROVE  attempts'[o] = attempts[o]
BY SealedStays DEF EnvelopeSound

LEMMA BackedStays ==
  ASSUME IInv, [Next]_vars, NEW w, Backed(w)
  PROVE  attempts'["first"] = attempts["first"] /\ attempts'["second"] = attempts["second"]
BY SoundStays DEF Backed, Ordinals

LEMMA ClaimStep == IInv /\ ClaimInv /\ [Next]_vars => ClaimInv'
<1> SUFFICES ASSUME IInv, ClaimInv, [Next]_vars PROVE ClaimInv'
  OBVIOUS
<1>0. TypeOK /\ RoleInv
  BY DEF IInv
<1> DEFINE HasRead(v) ==
             /\ pc[v] = "second" /\ reading[v].clean =>
                  /\ EnvelopeSound("first", reading[v].registered)
                  /\ reading[v].first = attempts["first"].record
             /\ pc[v] \in {"write", "link"} /\ reading[v].clean => Backed(reading[v].registered)
           Claimed == aggregate # None /\ aggregate.verdict = "confirmed" => Backed(aggregate.registered)
<1>1. ASSUME NEW q \in Processes, pc'[q] = pc[q], reading'[q] = reading[q] PROVE HasRead(q)'
  <2>1. CASE pc[q] = "second" /\ reading[q].clean
    <3>1. attempts'["first"] = attempts["first"]
      BY <2>1, SoundStays DEF ClaimInv, Ordinals
    <3> QED
      BY <1>1, <2>1, <3>1 DEF ClaimInv, EnvelopeSound, StartSound, CompletionSound
  <2>2. CASE pc[q] \in {"write", "link"} /\ reading[q].clean
    <3>1. attempts'["first"] = attempts["first"] /\ attempts'["second"] = attempts["second"]
      BY <2>2, BackedStays DEF ClaimInv
    <3> QED
      BY <1>1, <2>2, <3>1
      DEF ClaimInv, Backed, EnvelopeSound, StartSound, CompletionSound, PairMatches, RecordSound
  <2> QED BY <1>1, <2>1, <2>2
<1>2. ASSUME aggregate' = aggregate PROVE Claimed'
  <2>1. CASE aggregate # None /\ aggregate.verdict = "confirmed"
    <3>1. attempts'["first"] = attempts["first"] /\ attempts'["second"] = attempts["second"]
      BY <2>1, BackedStays DEF ClaimInv
    <3> QED
      BY <1>2, <2>1, <3>1
      DEF ClaimInv, Backed, EnvelopeSound, StartSound, CompletionSound, PairMatches, RecordSound
  <2> QED BY <1>2, <2>1
<1>3. ASSUME NEW p \in Processes, RunnerStep(p) PROVE ClaimInv'
  <2>1. UNCHANGED rootVars /\ UNCHANGED reading
    BY <1>3 DEF RunnerStep, Look, Inspect, MakeDirectory, WriteStart, Preflight, Return,
       Interrupt, Complete, FreezeFiles, SealDirectory
  <2>2. pc'[p] \notin {"second", "write", "link"}
    BY <1>0, <1>3 DEF TypeOK, RunnerStep, Look, Inspect, MakeDirectory, WriteStart, Preflight, Return,
       Interrupt, Complete, FreezeFiles, SealDirectory, Goto
  <2>3. \A q \in Processes \ {p} : HasRead(q)'
    BY <1>0, <1>1, <1>3, Locality
  <2> QED BY <1>2, <2>1, <2>2, <2>3 DEF ClaimInv, rootVars
<1>4. ASSUME NEW v \in Processes, VerifierStep(v) PROVE ClaimInv'
  <2>0. UNCHANGED evidenceVars
    BY <1>0, <1>4, Locality
  <2>1. \A q \in Processes \ {v} : HasRead(q)'
    BY <1>0, <1>1, <1>4, Locality
  <2>2. HasRead(v)'
    <3>1. CASE ReadFirst(v)
      <4>1. ASSUME reading'[v].clean
            PROVE  /\ EnvelopeSound("first", reading[v].registered)
                   /\ reading'[v].registered = reading[v].registered
                   /\ reading'[v].first = RecordOf("first")
        BY <1>0, <3>1, <4>1 DEF ReadFirst, TypeOK, Readings
      <4>2. pc'[v] = "second"
        BY <1>0, <3>1 DEF ReadFirst, Goto, TypeOK
      <4> QED
        BY <2>0, <4>1, <4>2 DEF EnvelopeSound, StartSound, CompletionSound, RecordOf, evidenceVars
    <3>2. CASE ReadSecond(v)
      <4>1. ASSUME reading'[v].clean
            PROVE  /\ reading[v].clean /\ EnvelopeSound("second", reading[v].registered)
                   /\ PairMatches(reading[v].first, RecordOf("second"))
                   /\ reading'[v].registered = reading[v].registered
        BY <1>0, <3>2, <4>1 DEF ReadSecond, TypeOK, Readings
      <4>2. pc[v] = "second" /\ pc'[v] = "write"
        BY <1>0, <3>2 DEF ReadSecond, Goto, TypeOK
      <4>3. ASSUME reading'[v].clean PROVE Backed(reading[v].registered)
        BY <4>1, <4>2, <4>3 DEF ClaimInv, Backed, EnvelopeSound, RecordOf
      <4> QED
        BY <2>0, <4>1, <4>2, <4>3
        DEF Backed, EnvelopeSound, StartSound, CompletionSound, PairMatches, RecordSound, evidenceVars
    <3>3. CASE WriteTemporary(v)
      <4>1. pc[v] = "write" /\ pc'[v] \in {"link", "ended"} /\ reading' = reading
        BY <1>0, <3>3 DEF WriteTemporary, Goto, TypeOK
      <4> QED
        BY <2>0, <4>1
        DEF ClaimInv, Backed, EnvelopeSound, StartSound, CompletionSound, PairMatches, RecordSound, evidenceVars
    <3>4. CASE Resolve(v) \/ ReadEntries(v) \/ ReadRegistration(v) \/ Link(v) \/ Unlink(v)
               \/ CheckRoot(v) \/ CloseRoot(v)
      BY <1>0, <3>4 DEF Resolve, ReadEntries, ReadRegistration, Link, Unlink, CheckRoot, CloseRoot,
         Goto, TypeOK
    <3> QED BY <1>4, <3>1, <3>2, <3>3, <3>4 DEF VerifierStep
  <2>3. Claimed'
    <3>1. CASE aggregate' = aggregate
      BY <1>2, <3>1
    <3>2. CASE aggregate' # aggregate
      <4>1. Link(v)
        BY <1>4, <3>2 DEF VerifierStep, Resolve, ReadEntries, ReadRegistration, ReadFirst, ReadSecond,
           WriteTemporary, Unlink, CheckRoot, CloseRoot, rootVars
      <4>2. pc[v] = "link" /\ aggregate' = Verdict(v)
        BY <3>2, <4>1 DEF Link
      <4>3. CASE reading[v].clean
        <5>1. Backed(reading[v].registered) /\ aggregate'.registered = reading[v].registered
          BY <4>2, <4>3 DEF ClaimInv, Verdict
        <5> QED
          BY <2>0, <5>1
          DEF Backed, EnvelopeSound, StartSound, CompletionSound, PairMatches, RecordSound, evidenceVars
      <4>4. CASE ~reading[v].clean
        BY <4>2, <4>4 DEF Verdict
      <4> QED BY <4>3, <4>4
    <3> QED BY <3>1, <3>2
  <2> QED BY <2>1, <2>2, <2>3 DEF ClaimInv
<1>5. ASSUME NEW p \in Processes, Kill(p) PROVE ClaimInv'
  <2>1. UNCHANGED rootVars /\ pc'[p] = "ended"
    BY <1>0, <1>5 DEF Kill, Goto, TypeOK
  <2>2. \A q \in Processes \ {p} : HasRead(q)'
    BY <1>0, <1>1, <1>5, Locality
  <2> QED BY <1>2, <2>1, <2>2 DEF ClaimInv, rootVars
<1>6. ASSUME NEW o \in Ordinals, EvaluatorStep(o) PROVE ClaimInv'
  BY <1>1, <1>2, <1>6 DEF ClaimInv, EvaluatorStep, EvaluatorWrites, EvaluatorExits, commandVars, rootVars
<1>7. CASE Edit \/ UNCHANGED vars
  BY <1>1, <1>2, <1>7 DEF ClaimInv, Edit, vars, commandVars, rootVars
<1> QED
  BY <1>3, <1>4, <1>5, <1>6, <1>7 DEF Next

\* An aggregate that verify_confirmatory_attempts confirms, from reads many
\* steps apart, rests on the two attempts in the root, each with the one
\* evaluation that was ever started for it.
THEOREM ConfirmatoryClaimBacked == Spec => []ClaimBacked
<1>1. Init => LaunchInv /\ ClaimInv
  BY DEF Init, LaunchInv, ClaimInv, Ordinals
<1>2. IInv /\ (LaunchInv /\ ClaimInv) /\ [Next]_vars => (LaunchInv /\ ClaimInv)'
  BY LaunchStep, ClaimStep
<1>3. IInv /\ (LaunchInv /\ ClaimInv) => ClaimBacked
  <2> SUFFICES ASSUME IInv, LaunchInv, ClaimInv, aggregate # None, aggregate.verdict = "confirmed"
               PROVE  /\ \A o \in Ordinals :
                           /\ CleanAttempt(o) /\ attempts[o].record[1] = "passed"
                           /\ {l \in launched : l[2] = o} = {<<attempts[o].owner, o>>}
                           /\ attempts[o].start.facts = aggregate.registered
                           /\ attempts[o].start.registered = aggregate.registered
                      /\ attempts["first"].record[2] = attempts["second"].record[2]
    BY DEF ClaimBacked
  <2>1. Backed(aggregate.registered)
    BY DEF ClaimInv
  <2>2. ASSUME NEW o \in Ordinals
        PROVE  /\ CleanAttempt(o) /\ attempts[o].record[1] = "passed"
               /\ attempts[o].start.facts = aggregate.registered
               /\ attempts[o].start.registered = aggregate.registered
    BY <2>1 DEF Backed, Ordinals, EnvelopeSound, StartSound, CompletionSound, PairMatches, RecordSound,
       CleanAttempt
  <2>3. ASSUME NEW o \in Ordinals
        PROVE  {l \in launched : l[2] = o} = {<<attempts[o].owner, o>>}
    <3>1. <<attempts[o].owner, o>> \in launched
      BY <2>2 DEF CleanAttempt, LaunchInv
    <3>2. \A l \in launched : l = <<l[1], l[2]>>
      BY DEF IInv, TypeOK
    <3>3. \A l \in launched : l[2] = o => l = <<attempts[o].owner, o>>
      BY <3>2 DEF LaunchInv
    <3> QED BY <3>1, <3>3
  <2> QED BY <2>1, <2>2, <2>3 DEF Backed, PairMatches
<1> QED
  BY <1>1, <1>2, <1>3, ConfirmatoryTypeCorrect, PTL DEF Spec
=============================================================================
