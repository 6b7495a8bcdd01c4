---------------------------- MODULE LocalProofs ----------------------------
(***************************************************************************)
(* Theorems about what runs on one machine: the benchmark worker, the      *)
(* two-process groups, and three modules that no run starts from, the loop *)
(* that collects a stage's descendants, the abstract ledger, and the       *)
(* Pareto selection.                                                       *)
(***************************************************************************)
EXTENDS BenchmarkWorker, TensorParallelGroup, StageDescendants, EvidenceLedger, ParetoSelection,
        FiniteSetTheorems, WellFoundedInduction, TLAPS

-----------------------------------------------------------------------------
(* BenchmarkWorker, for every number of calls and of parent kills: type    *)
(* correctness, that measurements do not overlap, and that a verdict is    *)
(* earned by the worker.                                                   *)

(* Type correctness. *)

\* The flags apart, which are Boolean in every step.
FlagsOK == expired \in BOOLEAN /\ closed \in BOOLEAN

ShapeOK ==
  /\ call \in 0 .. MaxCalls /\ pc \in Positions
  /\ payload \in Messages \union {"none"}
  /\ verdict \in [Calls -> Verdicts \union {"none"}]
  /\ parentKills \in 0 .. MaxParentKills
  /\ worker \in [Calls -> {"unborn", "computing", "sending", "exiting", "dead"}]
  /\ exitcode \in [Calls -> {"none", "zero", "nonzero"}]
  /\ pipe \in [Calls -> Messages \union {"empty", "partial"}]
  /\ sent \in [Calls -> Messages \union {"nothing"}]
  /\ signal \in [Calls -> {"none", "term", "kill"}]
  /\ grip \in [Calls -> Grips]

\* What makes the shape inductive: a worker that is sending has a message.
SendingSomething == \A c \in Calls : worker[c] = "sending" => sent[c] \in Messages

LEMMA TypeParts == TypeOK <=> FlagsOK /\ ShapeOK
BY DEF TypeOK, FlagsOK, ShapeOK

LEMMA TypeInit == Init => FlagsOK /\ ShapeOK /\ SendingSomething
<1> SUFFICES ASSUME Init PROVE FlagsOK /\ ShapeOK /\ SendingSomething
  OBVIOUS
<1>1. FlagsOK
  BY DEF Init, FlagsOK
<1>2. ShapeOK
  BY WorkerAssumption DEF WorkerAssumption, Init, ShapeOK, Calls, Positions
<1>3. SendingSomething
  BY DEF Init, SendingSomething
<1>4. QED
  BY <1>1, <1>2, <1>3

LEMMA FlagsNext == FlagsOK /\ [Next]_vars => FlagsOK'
<1> SUFFICES ASSUME FlagsOK, [Next]_vars PROVE FlagsOK'
  OBVIOUS
<1> USE DEF FlagsOK
<1>1. CASE StartCall
  BY <1>1 DEF StartCall
<1>2. CASE DeadlinePasses
  BY <1>2 DEF DeadlinePasses
<1>3. CASE ParentStep
  BY <1>3 DEF ParentStep, EnterTry, CheckDeadline, Poll, Receive, CheckAlive, Join, Stop, TermJoin,
              KillJoin, Finally, Signal, Raise, Goto
<1>4. CASE Interrupt \/ InterruptOutside \/ ParentKilled
  BY <1>4 DEF Interrupt, InterruptOutside, ParentKilled, Raise, Goto
<1>5. CASE \E c \in Calls : WorkerNext(c)
  BY <1>5 DEF WorkerNext, BeginSend, EndSend, CloseUnsent, Exit, DieOfSignal, Crash, Die, parentVars
<1>6. CASE UNCHANGED vars
  BY <1>6 DEF vars, parentVars
<1>7. QED
  BY <1>1, <1>2, <1>3, <1>4, <1>5, <1>6 DEF Next

\* The cases of the worker's writes, without their IF.
LEMMA BeginSendCases ==
  ASSUME NEW c \in Calls, BeginSend(c)
  PROVE  /\ UNCHANGED <<parentVars, signal, grip>> /\ worker[c] = "computing"
         /\ \/ \E m \in Messages :
                 /\ sent' = [sent EXCEPT ![c] = m] /\ pipe' = [pipe EXCEPT ![c] = "partial"]
                 /\ worker' = [worker EXCEPT ![c] = "sending"] /\ UNCHANGED exitcode
            \/ /\ worker' = [worker EXCEPT ![c] = "exiting"]
               /\ exitcode' = [exitcode EXCEPT ![c] = "nonzero"] /\ UNCHANGED <<pipe, sent>>
BY DEF BeginSend

LEMMA EndSendCases ==
  ASSUME NEW c \in Calls, EndSend(c)
  PROVE  /\ UNCHANGED <<parentVars, sent, signal, grip>> /\ worker[c] = "sending"
         /\ worker' = [worker EXCEPT ![c] = "exiting"]
         /\ \/ pipe' = [pipe EXCEPT ![c] = sent[c]] /\ UNCHANGED exitcode
            \/ exitcode' = [exitcode EXCEPT ![c] = "nonzero"] /\ UNCHANGED pipe
BY DEF EndSend

LEMMA ShapeNext == ShapeOK /\ SendingSomething /\ [Next]_vars => ShapeOK'
<1> SUFFICES ASSUME ShapeOK, SendingSomething, [Next]_vars PROVE ShapeOK'
  OBVIOUS
<1> USE WorkerAssumption DEF WorkerAssumption
<1> USE DEF ShapeOK, Calls, Positions, TryPositions, StopPositions, Messages, Verdicts,
            parentVars, workerVars
<1>1. CASE StartCall
  BY <1>1 DEF StartCall
<1>2. CASE DeadlinePasses
  BY <1>2 DEF DeadlinePasses
<1>3. CASE ParentStep
  <2>1. CASE CheckDeadline
    BY <2>1 DEF CheckDeadline, Raise, Goto
  <2>2. CASE Poll
    BY <2>2 DEF Poll, Goto
  <2>3. CASE Receive
    <3>1. /\ payload' \in Messages \union {"none"} /\ UNCHANGED <<call, parentKills>>
          /\ pipe' \in [Calls -> Messages \union {"empty", "partial"}]
      BY <2>3 DEF Receive, Raise, Goto
    <3>2. pc' \in Positions /\ verdict' \in [Calls -> Verdicts \union {"none"}]
      BY <2>3 DEF Receive, Raise, Goto
    <3>3. UNCHANGED <<worker, exitcode, sent, signal, grip>>
      BY <2>3 DEF Receive, Raise, Goto
    <3>4. QED
      BY <3>1, <3>2, <3>3
  <2>4. CASE CheckAlive
    BY <2>4 DEF CheckAlive, Raise, Goto
  <2>5. CASE Join
    <3>1. Judgement \in Verdicts
      BY DEF Judgement
    <3>2. QED
      BY <2>5, <3>1 DEF Join, Raise, Goto
  <2>6. CASE Stop
    BY <2>6 DEF Stop, Signal, Goto, AfterStop
  <2>7. CASE TermJoin
    BY <2>7 DEF TermJoin, Signal, Goto, AfterStop
  <2>8. CASE KillJoin
    BY <2>8 DEF KillJoin, Goto, AfterStop
  <2>9. CASE Finally
    BY <2>9 DEF Finally
  <2>10. CASE EnterTry
    BY <2>10 DEF EnterTry, Goto
  <2>11. QED
    BY <1>3, <2>1, <2>2, <2>3, <2>4, <2>5, <2>6, <2>7, <2>8, <2>9, <2>10 DEF ParentStep
<1>4. CASE Interrupt \/ InterruptOutside
  BY <1>4 DEF Interrupt, InterruptOutside, Raise, Goto
<1>5. CASE ParentKilled
  <2>1. parentKills' \in 0 .. MaxParentKills
    BY <1>5 DEF ParentKilled
  <2>2. QED
    BY <1>5, <2>1 DEF ParentKilled
<1>6. CASE \E c \in Calls : WorkerNext(c)
  <2> HIDE DEF Verdicts, Positions, TryPositions, StopPositions
  <2>1. PICK c \in Calls : WorkerNext(c)
    BY <1>6
  <2>2. CASE BeginSend(c)
    <3>1. UNCHANGED <<parentVars, signal, grip>>
      BY <2>2, BeginSendCases
    <3>2. worker' \in [Calls -> {"unborn", "computing", "sending", "exiting", "dead"}]
      BY <2>2, BeginSendCases
    <3>3. exitcode' \in [Calls -> {"none", "zero", "nonzero"}]
      BY <2>2, BeginSendCases
    <3>4. sent' \in [Calls -> Messages \union {"nothing"}]
      BY <2>2, BeginSendCases
    <3>5. pipe' \in [Calls -> Messages \union {"empty", "partial"}]
      BY <2>2, BeginSendCases
    <3>6. QED
      BY <3>1, <3>2, <3>3, <3>4, <3>5
  <2>3. CASE EndSend(c)
    <3>1. UNCHANGED <<parentVars, signal, grip>>
      BY <2>3, EndSendCases
    <3>2. worker' \in [Calls -> {"unborn", "computing", "sending", "exiting", "dead"}]
      BY <2>3, EndSendCases
    <3>3. exitcode' \in [Calls -> {"none", "zero", "nonzero"}]
      BY <2>3, EndSendCases
    <3>4. sent' \in [Calls -> Messages \union {"nothing"}]
      BY <2>3, EndSendCases
    <3>5. pipe' \in [Calls -> Messages \union {"empty", "partial"}]
      BY <2>3, EndSendCases DEF SendingSomething
    <3>6. QED
      BY <3>1, <3>2, <3>3, <3>4, <3>5
  <2>4. CASE CloseUnsent(c)
    BY <2>4 DEF CloseUnsent
  <2>5. CASE Exit(c)
    BY <2>5 DEF Exit
  <2>6. CASE Die(c)
    BY <2>6 DEF Die
  <2>7. QED
    BY <2>1, <2>2, <2>3, <2>4, <2>5, <2>6 DEF WorkerNext, DieOfSignal, Crash
<1>7. CASE UNCHANGED vars
  BY <1>7 DEF vars
<1>8. QED
  BY <1>1, <1>2, <1>3, <1>4, <1>5, <1>6, <1>7 DEF Next

LEMMA SendingNext == ShapeOK /\ SendingSomething /\ [Next]_vars => SendingSomething'
<1> SUFFICES ASSUME ShapeOK, SendingSomething, [Next]_vars PROVE SendingSomething'
  OBVIOUS
<1> USE DEF ShapeOK, SendingSomething
<1>1. CASE StartCall
  BY <1>1 DEF StartCall
<1>2. CASE DeadlinePasses \/ Interrupt \/ InterruptOutside \/ ParentKilled \/ UNCHANGED vars
  BY <1>2 DEF DeadlinePasses, Interrupt, InterruptOutside, ParentKilled, workerVars, vars
<1>3. CASE ParentStep
  <2>1. UNCHANGED <<worker, sent>>
    BY <1>3 DEF ParentStep, EnterTry, CheckDeadline, Poll, Receive, CheckAlive, Join, Stop,
                TermJoin, KillJoin, Finally, Signal, workerVars
  <2>2. QED
    BY <2>1
<1>4. CASE \E c \in Calls : WorkerNext(c)
  <2>1. PICK c \in Calls : WorkerNext(c)
    BY <1>4
  <2>2. CASE BeginSend(c)
    BY <2>2, BeginSendCases
  <2>3. CASE EndSend(c)
    BY <2>3, EndSendCases
  <2>4. CASE CloseUnsent(c) \/ Exit(c) \/ Die(c)
    BY <2>4 DEF CloseUnsent, Exit, Die
  <2>5. QED
    BY <2>1, <2>2, <2>3, <2>4 DEF WorkerNext, DieOfSignal, Crash
<1>5. QED
  BY <1>1, <1>2, <1>3, <1>4 DEF Next

\* Every variable of the parent, the pipe and the workers keeps its shape
\* (run_isolated_benchmark, _worker_entry), for every number of calls.
THEOREM WorkerTypeCorrect == Spec => []TypeOK
BY TypeInit, FlagsNext, ShapeNext, SendingNext, TypeParts, PTL DEF Spec

-----------------------------------------------------------------------------
(* No overlap. *)

\* The parent was killed, or interrupted where no clean-up follows.
CutOff == {"parent_killed", "abandoned"}

\* What the next call may rely on: the worker is gone, or nothing could be
\* done about it.
Disposed(c) == Alive(c) => grip[c] = "never" \/ verdict[c] \in CutOff

\* Workers are born in the order of the calls; a finished call has disposed
\* of its worker.
DisposalInv ==
  /\ pc # "between" => call \in Calls
  /\ \A c \in Calls : worker[c] = "unborn" <=> c > call
  /\ \A c \in Calls : c < call => Disposed(c)
  /\ pc = "between" => \A c \in Calls : c = call => Disposed(c)

LEMMA DisposalInit == Init => DisposalInv
BY WorkerAssumption DEF WorkerAssumption, Init, DisposalInv, Calls, Disposed, Alive

\* A worker's own step brings no worker to life and touches nothing else that
\* disposal is about.
LEMMA WorkerOnlyDies ==
  ASSUME TypeOK, NEW c \in Calls, WorkerNext(c)
  PROVE  /\ \A d \in Calls : Alive(d)' => Alive(d)
         /\ \A d \in Calls : worker'[d] = "unborn" <=> worker[d] = "unborn"
         /\ UNCHANGED <<parentVars, grip>>
BY DEF TypeOK, WorkerNext, BeginSend, EndSend, CloseUnsent, Exit, DieOfSignal, Crash, Die, Alive,
       parentVars

\* A step of the parent inside a call leaves the workers as they are; it ends
\* the call only when the worker is disposed of.
LEMMA ParentDisposes ==
  ASSUME TypeOK, ParentStep \/ Interrupt \/ InterruptOutside \/ ParentKilled
  PROVE  /\ pc # "between" /\ UNCHANGED <<call, worker, grip>>
         /\ \A d \in Calls : d # call => verdict'[d] = verdict[d]
         /\ pc' = "between" =>
              \/ ~Alive(call) \/ grip[call] = "never"
              \/ call \in Calls => verdict'[call] \in CutOff
<1> USE DEF TypeOK, workerVars
<1>1. CASE CheckDeadline
  BY <1>1 DEF CheckDeadline, Raise, Goto
<1>2. CASE Poll
  BY <1>2 DEF Poll, Goto
<1>3. CASE Receive
  BY <1>3 DEF Receive, Raise, Goto
<1>4. CASE CheckAlive
  BY <1>4 DEF CheckAlive, Raise, Goto
<1>5. CASE Join
  BY <1>5 DEF Join, Raise, Goto
<1>6. CASE Stop
  BY <1>6 DEF Stop, Signal, Goto, AfterStop
<1>7. CASE TermJoin
  BY <1>7 DEF TermJoin, Signal, Goto, AfterStop
<1>8. CASE KillJoin
  BY <1>8 DEF KillJoin, Goto, AfterStop
<1>9. CASE Finally
  BY <1>9 DEF Finally
<1>10. CASE Interrupt
  BY <1>10 DEF Interrupt, InTry, Raise, Goto, TryPositions, StopPositions
<1>11. CASE ParentKilled \/ InterruptOutside
  BY <1>11 DEF ParentKilled, InterruptOutside, CutOff
<1>12. CASE EnterTry
  BY <1>12 DEF EnterTry, Goto
<1>13. QED
  BY <1>1, <1>2, <1>3, <1>4, <1>5, <1>6, <1>7, <1>8, <1>9, <1>10, <1>11, <1>12 DEF ParentStep

LEMMA DisposalNext == TypeOK /\ DisposalInv /\ [Next]_vars => DisposalInv'
<1> SUFFICES ASSUME TypeOK, DisposalInv, [Next]_vars PROVE DisposalInv'
  OBVIOUS
<1> USE WorkerAssumption DEF WorkerAssumption, TypeOK, DisposalInv, Calls
<1>1. CASE StartCall
  <2>1. \A d \in Calls : d # call + 1 => worker'[d] = worker[d]
    BY <1>1 DEF StartCall
  <2>2. call' = call + 1 /\ call' \in Calls /\ worker'[call'] = "computing" /\ pc' = "started"
    BY <1>1 DEF StartCall
  <2>3. \A d \in Calls : d < call' => Disposed(d)'
    BY <1>1, <2>1, <2>2 DEF StartCall, Disposed, Alive
  <2>4. \A d \in Calls : worker'[d] = "unborn" <=> d > call'
    BY <2>1, <2>2
  <2>5. QED
    BY <2>2, <2>3, <2>4
<1>2. CASE DeadlinePasses
  BY <1>2 DEF DeadlinePasses, workerVars, Disposed, Alive
<1>3. CASE ParentStep \/ Interrupt \/ InterruptOutside \/ ParentKilled
  <2>1. \A d \in Calls : d < call => Disposed(d)'
    BY <1>3, ParentDisposes DEF Disposed, Alive
  <2>2. pc' = "between" => \A d \in Calls : d = call => Disposed(d)'
    BY <1>3, ParentDisposes DEF Disposed, Alive
  <2>3. QED
    BY <1>3, <2>1, <2>2, ParentDisposes
<1>4. CASE \E c \in Calls : WorkerNext(c)
  <2>1. PICK c \in Calls : WorkerNext(c)
    BY <1>4
  <2>2. \A d \in Calls : Disposed(d) => Disposed(d)'
    BY <2>1, WorkerOnlyDies DEF Disposed, parentVars
  <2>3. QED
    BY <2>1, <2>2, WorkerOnlyDies DEF parentVars
<1>5. CASE UNCHANGED vars
  BY <1>5 DEF vars, parentVars, workerVars, Disposed, Alive
<1>6. QED
  BY <1>1, <1>2, <1>3, <1>4, <1>5 DEF Next

\* For every number of calls, a worker runs beside an earlier one only if that
\* one cannot be killed, or its parent was killed, or interrupted before the
\* try block or in finally (_terminate_worker and the finally block of
\* run_isolated_benchmark).
THEOREM WorkersDoNotOverlap == Spec => []NoOverlap
<1>1. TypeOK /\ DisposalInv => NoOverlap
  BY DEF TypeOK, DisposalInv, NoOverlap, Disposed, CutOff, Calls
<1>2. QED
  BY <1>1, DisposalInit, DisposalNext, WorkerTypeCorrect, PTL DEF Spec

-----------------------------------------------------------------------------
(* Earned verdicts. *)

\* A whole message in the pipe is what its worker sent before it stopped
\* writing, only a dead worker has exited normally, and what the parent takes
\* to the join is the one message of a worker that has stopped writing.
MessageInv ==
  /\ \A c \in Calls : /\ pipe[c] \in Messages => pipe[c] = sent[c] /\ worker[c] \in {"exiting", "dead"}
                      /\ exitcode[c] = "zero" => worker[c] = "dead"
                      /\ worker[c] = "unborn" => sent[c] = "nothing"
  /\ pc = "join" => /\ payload \in Messages /\ payload = sent[call]
                    /\ pipe[call] = "empty" /\ worker[call] \in {"exiting", "dead"}

EarnedInv == MessageInv /\ VerdictEarned

LEMMA EarnedInit == Init => EarnedInv
BY WorkerAssumption DEF WorkerAssumption, Init, EarnedInv, MessageInv, VerdictEarned, Calls, Messages

LEMMA EarnedNext == TypeOK /\ DisposalInv /\ EarnedInv /\ [Next]_vars => EarnedInv'
<1> SUFFICES ASSUME TypeOK, DisposalInv, EarnedInv, [Next]_vars PROVE EarnedInv'
  OBVIOUS
<1> USE WorkerAssumption DEF WorkerAssumption, TypeOK, EarnedInv, MessageInv, VerdictEarned
<1>0. pc # "between" => call \in Calls /\ worker[call] # "unborn"
  BY DEF DisposalInv, Calls
<1>1. CASE StartCall
  <2>1. call + 1 \in Calls /\ worker[call + 1] = "unborn"
    BY <1>1 DEF StartCall, DisposalInv, Calls
  <2>2. QED
    BY <1>1, <2>1 DEF StartCall, Alive, Messages
<1>2. CASE DeadlinePasses
  BY <1>2 DEF DeadlinePasses, workerVars, Alive
<1>3. CASE ParentStep
  <2>1. CASE CheckDeadline
    BY <1>0, <2>1 DEF CheckDeadline, Raise, Goto, workerVars, Alive
  <2>2. CASE Poll
    BY <1>0, <2>2 DEF Poll, Goto, workerVars, Alive
  <2>3. CASE Receive
    BY <1>0, <2>3 DEF Receive, Raise, Goto, workerVars, Alive, Messages
  <2>4. CASE CheckAlive
    BY <1>0, <2>4 DEF CheckAlive, Raise, Goto, workerVars, Alive
  <2>5. CASE Join
    <3>1. CASE Alive(call)
      BY <1>0, <2>5, <3>1 DEF Join, Raise, Goto, workerVars, Alive
    <3>2. CASE ~Alive(call)
      <4>1. /\ Judgement = "result" => sent[call] = "success" /\ exitcode[call] = "zero"
            /\ Judgement = "worker_failed" => sent[call] = "failed" /\ exitcode[call] = "zero"
        BY <2>5 DEF Join, Judgement, Messages
      <4>2. QED
        BY <1>0, <2>5, <3>2, <4>1 DEF Join, Raise, Goto, workerVars, Alive
    <3>3. QED
      BY <3>1, <3>2
  <2>6. CASE Stop
    BY <1>0, <2>6 DEF Stop, Signal, Goto, AfterStop, workerVars, Alive
  <2>7. CASE TermJoin
    BY <1>0, <2>7 DEF TermJoin, Signal, Goto, AfterStop, workerVars, Alive
  <2>8. CASE KillJoin
    BY <1>0, <2>8 DEF KillJoin, Goto, AfterStop, workerVars, Alive
  <2>9. CASE Finally
    BY <1>0, <2>9 DEF Finally, workerVars, Alive
  <2>10. CASE EnterTry
    BY <1>0, <2>10 DEF EnterTry, Goto, workerVars, Alive
  <2>11. QED
    BY <1>3, <2>1, <2>2, <2>3, <2>4, <2>5, <2>6, <2>7, <2>8, <2>9, <2>10 DEF ParentStep
<1>4. CASE Interrupt
  BY <1>0, <1>4 DEF Interrupt, Raise, Goto, workerVars, Alive
<1>5. CASE ParentKilled \/ InterruptOutside
  BY <1>0, <1>5 DEF ParentKilled, InterruptOutside, workerVars, Alive
<1>6. CASE \E c \in Calls : WorkerNext(c)
  <2>1. PICK c \in Calls : WorkerNext(c)
    BY <1>6
  <2>2. CASE BeginSend(c)
    <3>1. UNCHANGED parentVars /\ worker[c] = "computing" /\ worker'[c] \in {"sending", "exiting"}
      BY <2>2, BeginSendCases
    <3>2. \A d \in Calls : d # c => /\ worker'[d] = worker[d] /\ exitcode'[d] = exitcode[d]
                                    /\ pipe'[d] = pipe[d] /\ sent'[d] = sent[d]
      BY <2>2, BeginSendCases
    <3>3. pipe'[c] \notin Messages /\ exitcode'[c] # "zero"
      BY <2>2, <3>1, BeginSendCases DEF Messages
    <3>4. pc = "join" => c # call
      BY <3>1
    <3>5. verdict[c] \notin {"result", "worker_failed"}
      BY <3>1
    <3>6. QED
      BY <1>0, <3>1, <3>2, <3>3, <3>4, <3>5 DEF parentVars, Alive
  <2>3. CASE EndSend(c)
    <3>1. UNCHANGED <<parentVars, sent>> /\ worker[c] = "sending" /\ worker'[c] = "exiting"
      BY <2>3, EndSendCases
    <3>2. \A d \in Calls : d # c => /\ worker'[d] = worker[d] /\ exitcode'[d] = exitcode[d]
                                    /\ pipe'[d] = pipe[d]
      BY <2>3, EndSendCases
    <3>3. (pipe'[c] \in Messages => pipe'[c] = sent[c]) /\ exitcode'[c] # "zero"
      BY <2>3, <3>1, EndSendCases
    <3>4. pc = "join" => c # call
      BY <3>1
    <3>5. verdict[c] \notin {"result", "worker_failed"}
      BY <3>1
    <3>6. QED
      BY <1>0, <3>1, <3>2, <3>3, <3>4, <3>5 DEF parentVars, Alive
  <2>4. CASE CloseUnsent(c)
    BY <2>4 DEF CloseUnsent, parentVars, Alive
  <2>5. CASE Exit(c)
    BY <2>5 DEF Exit, parentVars, Alive
  <2>6. CASE Alive(c) /\ Die(c)
    BY <2>6 DEF Die, parentVars, Alive
  <2>7. QED
    BY <2>1, <2>2, <2>3, <2>4, <2>5, <2>6 DEF WorkerNext, DieOfSignal, Crash
<1>7. CASE UNCHANGED vars
  BY <1>7 DEF vars, parentVars, workerVars, Alive
<1>8. QED
  BY <1>1, <1>2, <1>3, <1>4, <1>5, <1>6, <1>7 DEF Next

\* For every number of calls, a result or a worker's failure is reported only
\* of a worker that wrote that message as a whole and then exited normally
\* (run_isolated_benchmark: exit code before status).
THEOREM VerdictsAreEarned == Spec => []VerdictEarned
<1>1. EarnedInv => VerdictEarned
  BY DEF EarnedInv
<1>2. QED
  BY <1>1, DisposalInit, DisposalNext, EarnedInit, EarnedNext, WorkerTypeCorrect, PTL DEF Spec

-----------------------------------------------------------------------------
(* TensorParallelGroup, for every set of variants and every number of      *)
(* collectives.  A worker's step is described once, by what it leaves of   *)
(* the rank that takes it (WorkerChanges); the parent's program counter    *)
(* then says what the parent knows of each rank (ParentInv).               *)

\* What a rank has done, by its state, its exit code and its report.
RankInv(r) ==
  /\ rank[r] = "leaving" \/ code[r] = "ok" => passed[r] = Rounds /\ report[r] = "payload"
  /\ rank[r] = "gone" <=> code[r] # "none"
  /\ code[r] = "terminated" => r \in signalled
  /\ report[r] = "torn_error" => code[r] = "died"

\* Which ranks were started.
StartInv ==
  /\ phase = "start" => rank[1] = "unborn" /\ (rank[0] = "unborn" <=> at = 0)
  /\ phase # "start" /\ outcome # "start_failed" => \A r \in Rank : rank[r] # "unborn"

\* What the parent found at its joins, and what it did about it: nobody is
\* signalled before all were joined, every rank that was not late is gone, and
\* rank 0 is gone before the parent turns to rank 1.
ParentInv ==
  /\ outcome = "none" <=> phase # "done"
  /\ phase \in {"start", "join", "check", "collect"} => signalled = {}
  /\ phase \in {"start", "join", "collect"} => late = {}
  /\ phase = "check" =>
       /\ late \subseteq {0} /\ (at = 0 => late = {})
       /\ at = 1 /\ 0 \notin late => ~RankAlive(0)
  /\ phase \in {"terminate", "reap"} =>
       /\ late # {}
       /\ at = 1 /\ 0 \in late => 0 \in signalled /\ ~RankAlive(0)
  /\ phase = "reap" => at \in late /\ at \in signalled
  /\ phase \in {"terminate", "reap", "collect"} => \A r \in Rank \ late : ~RankAlive(r)

GroupInv ==
  /\ GroupTypeOK /\ StartInv /\ ParentInv
  /\ \A r \in Rank : RankInv(r)
  /\ ResultBacked /\ OutcomeExplained

LEMMA TwoRanks == Rank = {0, 1}
  BY DEF Rank

LEMMA GroupStarts ==
  GroupInit => GroupInv
  BY TwoRanks, GroupAssumption
     DEF GroupInit, GroupInv, GroupTypeOK, StartInv, ParentInv, RankInv, ResultBacked, OutcomeExplained,
         RankStates, Reports, Codes, Phases, RankAlive

-----------------------------------------------------------------------------
\* The ranks.

\* A step of rank r, which was alive, touches nobody else.
WorkerChanges(r) ==
  /\ RankAlive(r) /\ rank'[r] # "unborn"
  /\ \A q \in Rank \ {r} :
       /\ rank'[q] = rank[q] /\ entered'[q] = entered[q] /\ passed'[q] = passed[q]
       /\ report'[q] = report[q] /\ code'[q] = code[q]

LEMMA WorkerType ==
  ASSUME GroupTypeOK, NEW r \in Rank,
         WorkerStep(r) \/ RankRaises(r) \/ Stick(r) \/ RankDies(r) \/ TermDelivered(r),
         UNCHANGED <<variant, groupParentVars>>
  PROVE  GroupTypeOK'
  <1> USE DEF GroupTypeOK, RankStates, Reports, Codes, Goes, Exits, Reported, groupParentVars
  <1>1. Rounds \in Nat \ {0}
    BY GroupAssumption
  <1>2. CASE Meet(r)
    BY <1>2 DEF Meet
  <1>3. CASE EnterCollective(r)
    <2>1. entered[r] + 1 \in 0 .. Rounds
      BY <1>1, <1>3 DEF EnterCollective, Inside
    <2>2. QED
      BY <1>3, <2>1 DEF EnterCollective
  <1>4. CASE PassCollective(r)
    <2>1. passed[r] + 1 \in 0 .. Rounds
      BY <1>1, <1>4 DEF PassCollective, Inside
    <2>2. QED
      BY <1>4, <2>1 DEF PassCollective
  <1>5. CASE Report(r) \/ RankRaises(r) \/ FailReported(r) \/ FailSilently(r) \/ Leave(r) \/ Stick(r)
    BY <1>5 DEF Report, RankRaises, FailReported, FailSilently, Leave, Stick
  <1>6. CASE RankDies(r) \/ TermDelivered(r)
    BY <1>6 DEF RankDies, TermDelivered
  <1>7. QED
    BY <1>2, <1>3, <1>4, <1>5, <1>6 DEF WorkerStep

LEMMA WorkerTouches ==
  ASSUME GroupTypeOK, NEW r \in Rank,
         WorkerStep(r) \/ RankRaises(r) \/ Stick(r) \/ RankDies(r) \/ TermDelivered(r)
  PROVE  WorkerChanges(r)
  <1> USE DEF GroupTypeOK, Goes, Exits, Reported, WorkerChanges, RankAlive
  <1>1. CASE Meet(r) \/ EnterCollective(r) \/ PassCollective(r) \/ Report(r)
    BY <1>1 DEF Meet, EnterCollective, PassCollective, Report, Inside
  <1>2. CASE RankRaises(r) \/ FailReported(r) \/ FailSilently(r) \/ Leave(r) \/ Stick(r)
    BY <1>2 DEF RankRaises, FailReported, FailSilently, Leave, Stick
  <1>3. CASE RankDies(r) \/ TermDelivered(r)
    BY <1>3 DEF RankDies, TermDelivered
  <1>4. QED
    BY <1>1, <1>2, <1>3 DEF WorkerStep

\* The rank itself stays honest: it leaves with its payload behind every
\* collective, is terminated only when it was signalled, and only its death
\* cuts an error file short.
LEMMA WorkerHonest ==
  ASSUME GroupTypeOK, NEW r \in Rank, RankInv(r), UNCHANGED signalled,
         WorkerStep(r) \/ RankRaises(r) \/ Stick(r) \/ RankDies(r) \/ TermDelivered(r)
  PROVE  RankInv(r)'
  <1> USE DEF GroupTypeOK, Goes, Exits, Reported, RankInv
  <1>1. CASE Meet(r) \/ EnterCollective(r) \/ PassCollective(r) \/ Report(r)
    BY <1>1 DEF Meet, EnterCollective, PassCollective, Report, Inside
  <1>2. CASE RankRaises(r) \/ FailReported(r) \/ FailSilently(r) \/ Leave(r) \/ Stick(r)
    BY <1>2 DEF RankRaises, FailReported, FailSilently, Leave, Stick
  <1>3. CASE RankDies(r) \/ TermDelivered(r)
    BY <1>3 DEF RankDies, TermDelivered, RankAlive
  <1>4. QED
    BY <1>1, <1>2, <1>3 DEF WorkerStep

LEMMA WorkerPreserves ==
  ASSUME GroupInv, Worker
  PROVE  GroupInv'
  <1>1. PICK r \in Rank : WorkerStep(r) \/ RankRaises(r) \/ Stick(r) \/ RankDies(r) \/ TermDelivered(r)
    BY DEF Worker
  <1>2. /\ UNCHANGED <<variant, signalled, phase, at, late, directory, outcome>>
        /\ UNCHANGED <<variant, groupParentVars>>
    BY DEF Worker, groupParentVars
  <1>3. GroupTypeOK' /\ WorkerChanges(r)
    BY <1>1, <1>2, WorkerType, WorkerTouches DEF GroupInv
  <1>4. \A q \in Rank : RankInv(q)'
    <2>1. RankInv(r)'
      BY <1>1, <1>2, WorkerHonest DEF GroupInv
    <2>2. \A q \in Rank \ {r} : RankInv(q)'
      BY <1>2, <1>3 DEF GroupInv, RankInv, WorkerChanges
    <2>3. QED
      BY <2>1, <2>2
  <1>5. \A q \in Rank : ~RankAlive(q) => /\ ~RankAlive(q)' /\ q # r /\ rank'[q] = rank[q]
                                     /\ passed'[q] = passed[q]
                                     /\ report'[q] = report[q] /\ code'[q] = code[q]
    BY <1>3 DEF WorkerChanges, RankAlive
  <1>6. \A q \in Rank : rank'[q] = "unborn" <=> rank[q] = "unborn"
    BY <1>3 DEF WorkerChanges, RankAlive
  <1>7. StartInv'
    BY <1>2, <1>6, TwoRanks DEF GroupInv, StartInv
  <1>8. ParentInv'
    BY <1>2, <1>5, TwoRanks DEF GroupInv, ParentInv
  <1>9. \A q \in Rank : code[q] # "none" => ~RankAlive(q)
    BY DEF GroupInv, RankInv, RankAlive
  <1>10. ResultBacked'
    BY <1>2, <1>5, <1>9 DEF GroupInv, ResultBacked
  <1>11. OutcomeExplained'
    BY <1>2, <1>5, <1>9 DEF GroupInv, OutcomeExplained
  <1>12. QED
    BY <1>3, <1>4, <1>7, <1>8, <1>10, <1>11 DEF GroupInv

-----------------------------------------------------------------------------
\* The parent.

\* A step of the parent that signals nobody, starts nobody and does not
\* conclude leaves the ranks as they are.
LEMMA ParentKeepsRanks ==
  ASSUME GroupInv, UNCHANGED rankVars, signalled \subseteq signalled'
  PROVE  \A r \in Rank : RankInv(r)' /\ (RankAlive(r)' <=> RankAlive(r)) /\ rank'[r] = rank[r]
  BY DEF GroupInv, RankInv, RankAlive, rankVars

\* All that holds when the parent has a verdict.
LEMMA Concludes ==
  ASSUME GroupInv, UNCHANGED <<variant, rankVars>>, NEW o \in Outcomes, Conclude(o),
         phase # "done", phase = "start" => o = "start_failed",
         o \in {"result", "rejected"} =>
           \A r \in Rank : passed[r] = Rounds /\ report[r] = "payload" /\ code[r] = "ok",
         o = "worker_failed" => signalled = {} /\ \E r \in Rank : code[r] \in {"raised", "died"},
         o = "timed_out" => late # {} /\ late \subseteq signalled,
         o # "incomplete",
         o = "untyped" => \E r \in Rank : code[r] = "died",
         o \notin {"interrupted", "start_failed"} => \A r \in Rank : ~RankAlive(r)
  PROVE  GroupInv'
  <1>1. /\ outcome' = o /\ phase' = "done" /\ directory' = FALSE
        /\ UNCHANGED <<at, signalled, late>>
        /\ UNCHANGED <<variant, rank, entered, passed, report, code>>
    BY DEF Conclude, rankVars
  <1>2. GroupTypeOK'
    BY <1>1 DEF GroupInv, GroupTypeOK, Phases
  <1>3. StartInv'
    BY <1>1 DEF GroupInv, StartInv, ParentInv
  <1>4. ParentInv'
    BY <1>1 DEF ParentInv, Outcomes
  <1>5. ResultBacked' /\ OutcomeExplained'
    BY <1>1 DEF ResultBacked, OutcomeExplained, RankAlive
  <1>6. \A r \in Rank : RankInv(r)'
    BY <1>1, ParentKeepsRanks
  <1>7. QED
    BY <1>2, <1>3, <1>4, <1>5, <1>6 DEF GroupInv

\* A step of the parent on its way to a verdict.
LEMMA ParentGoesOn ==
  ASSUME GroupInv, UNCHANGED <<variant, rankVars, directory, outcome>>,
         phase \notin {"start", "done"}, phase' \in Phases \ {"start", "done"}, at' \in Rank,
         late' \subseteq Rank, signalled \subseteq signalled', signalled' \subseteq Rank, ParentInv'
  PROVE  GroupInv'
  <1>1. UNCHANGED <<variant, rank, entered, passed, report, code, directory, outcome>>
    BY DEF rankVars
  <1>2. GroupTypeOK'
    BY <1>1 DEF GroupInv, GroupTypeOK
  <1>3. StartInv'
    BY <1>1 DEF GroupInv, StartInv
  <1>4. ResultBacked' /\ OutcomeExplained'
    BY <1>1 DEF GroupInv, ParentInv, ResultBacked, OutcomeExplained
  <1>5. QED
    BY <1>1, <1>2, <1>3, <1>4, ParentKeepsRanks DEF GroupInv

LEMMA StartPreserves ==
  ASSUME GroupInv, Start, UNCHANGED variant
  PROVE  GroupInv'
  <1>1. /\ phase = "start" /\ rank' = [rank EXCEPT ![at] = "meeting"] /\ at \in {0, 1}
        /\ UNCHANGED <<variant, entered, passed, report, code, signalled, late, directory, outcome>>
        /\ rank \in [{0, 1} -> RankStates]
        /\ rank[1] = "unborn" /\ (rank[0] = "unborn" <=> at = 0)
        /\ signalled = {} /\ late = {} /\ outcome = "none"
    BY TwoRanks DEF Start, Goes, GroupInv, GroupTypeOK, StartInv, ParentInv
  <1>2. \/ at = 0 /\ at' = 1 /\ phase' = "start"
        \/ at = 1 /\ at' = 0 /\ phase' = "join"
    BY <1>1 DEF Start, Onward
  <1>3. GroupTypeOK'
    BY <1>1, <1>2, TwoRanks DEF GroupInv, GroupTypeOK, RankStates, Phases
  <1>4. StartInv'
    BY <1>1, <1>2, TwoRanks DEF StartInv
  <1>5. ParentInv'
    BY <1>1, <1>2 DEF ParentInv
  <1>6. ResultBacked' /\ OutcomeExplained'
    BY <1>1, <1>2 DEF ResultBacked, OutcomeExplained
  <1>7. \A r \in Rank : RankInv(r)'
    BY <1>1, TwoRanks DEF GroupInv, RankInv
  <1>8. QED
    BY <1>3, <1>4, <1>5, <1>6, <1>7 DEF GroupInv

LEMMA JoinPreserves ==
  ASSUME GroupInv, JoinRank \/ Check, UNCHANGED variant
  PROVE  GroupInv'
  <1>1. /\ UNCHANGED <<variant, rankVars, directory, outcome, signalled>>
        /\ at \in {0, 1} /\ signalled = {} /\ outcome = "none"
        /\ signalled \subseteq Rank /\ late \subseteq {0, 1}
    BY TwoRanks DEF JoinRank, Check, GroupInv, GroupTypeOK, ParentInv
  <1>2. \A r \in Rank : RankAlive(r)' <=> RankAlive(r)
    BY <1>1 DEF RankAlive, rankVars
  <1>3. CASE JoinRank
    <2>1. /\ phase = "join" /\ late' = late /\ late = {}
          /\ \/ at = 0 /\ at' = 1 /\ phase' = "join"
             \/ at = 1 /\ at' = 0 /\ phase' = "check"
      BY <1>1, <1>3 DEF JoinRank, Onward, GroupInv, ParentInv
    <2>2. ParentInv'
      BY <1>1, <2>1 DEF ParentInv
    <2>3. QED
      BY <1>1, <2>1, <2>2, TwoRanks, ParentGoesOn DEF Phases
  <1>4. CASE Check
    <2>1. /\ phase = "check"
          /\ late' = IF RankAlive(at) THEN late \union {at} ELSE late
          /\ \/ at = 0 /\ at' = 1 /\ phase' = "check"
             \/ at = 1 /\ at' = 0 /\ phase' = IF late' = {} THEN "collect" ELSE "terminate"
      BY <1>1, <1>4 DEF Check, Onward
    <2>2. /\ late \subseteq {0} /\ (at = 0 => late = {})
          /\ at = 1 /\ 0 \notin late => ~RankAlive(0)
      BY <2>1 DEF GroupInv, ParentInv
    <2>3. CASE at = 0
      <3>1. ParentInv'
        BY <1>1, <1>2, <2>1, <2>2, <2>3, TwoRanks DEF ParentInv
      <3>2. QED
        BY <1>1, <2>1, <2>2, <2>3, <3>1, TwoRanks, ParentGoesOn DEF Phases
    <2>4. CASE at = 1
      <3>1. \A r \in Rank \ late' : ~RankAlive(r)'
        BY <1>2, <2>1, <2>2, <2>4, TwoRanks
      <3>2. ParentInv'
        BY <1>1, <2>1, <2>2, <2>4, <3>1 DEF ParentInv
      <3>3. QED
        BY <1>1, <2>1, <2>2, <2>4, <3>2, TwoRanks, ParentGoesOn DEF Phases
    <2>5. QED
      BY <1>1, <2>3, <2>4
  <1>5. QED
    BY <1>3, <1>4

\* Rank 1 comes last: with it, every late rank was signalled and is gone.
LEMMA TerminatePreserves ==
  ASSUME GroupInv, Terminate \/ Reap, UNCHANGED variant
  PROVE  GroupInv'
  <1>1. /\ UNCHANGED <<variant, rankVars>> /\ phase \in {"terminate", "reap"}
        /\ at \in {0, 1} /\ outcome = "none" /\ signalled \subseteq {0, 1}
        /\ late \subseteq {0, 1} /\ late # {}
        /\ at = 1 /\ 0 \in late => 0 \in signalled /\ ~RankAlive(0)
        /\ phase = "reap" => at \in late /\ at \in signalled
        /\ \A r \in Rank \ late : ~RankAlive(r)
    BY TwoRanks DEF Terminate, Reap, GroupInv, GroupTypeOK, ParentInv
  <1>2. \A r \in Rank : RankAlive(r)' <=> RankAlive(r)
    BY <1>1 DEF RankAlive, rankVars
  <1>3. ASSUME Conclude("timed_out"), at = 1, 1 \in late => 1 \in signalled /\ ~RankAlive(1)
        PROVE  GroupInv'
    <2>1. late \subseteq signalled /\ \A r \in Rank : ~RankAlive(r)
      BY <1>1, <1>3, TwoRanks
    <2>2. QED
      BY <1>1, <1>3, <2>1, Concludes DEF Outcomes
  <1>4. CASE Terminate
    <2>1. CASE at \in late
      <3>1. /\ signalled' = signalled \union {at} /\ phase' = "reap"
            /\ UNCHANGED <<at, late, directory, outcome>>
        BY <1>4, <2>1 DEF Terminate
      <3>2. ParentInv'
        BY <1>1, <1>2, <2>1, <3>1, TwoRanks DEF ParentInv
      <3>3. QED
        BY <1>1, <3>1, <3>2, TwoRanks, ParentGoesOn DEF Phases
    <2>2. CASE at \notin late /\ at = 0
      <3>1. at' = 1 /\ phase = "terminate" /\ UNCHANGED <<signalled, phase, late, directory, outcome>>
        BY <1>4, <2>2 DEF Terminate
      <3>2. ParentInv'
        BY <1>1, <1>2, <2>2, <3>1, TwoRanks DEF ParentInv
      <3>3. QED
        BY <1>1, <3>1, <3>2, TwoRanks, ParentGoesOn DEF Phases
    <2>3. CASE at \notin late /\ at # 0
      BY <1>1, <1>3, <1>4, <2>3 DEF Terminate
    <2>4. QED
      BY <2>1, <2>2, <2>3
  <1>5. CASE Reap
    <2>1. phase = "reap" /\ ~RankAlive(at)
      BY <1>5 DEF Reap
    <2>2. CASE at = 0
      <3>1. at' = 1 /\ phase' = "terminate" /\ UNCHANGED <<signalled, late, directory, outcome>>
        BY <1>5, <2>2 DEF Reap
      <3>2. ParentInv'
        BY <1>1, <1>2, <2>1, <2>2, <3>1, TwoRanks DEF ParentInv
      <3>3. QED
        BY <1>1, <3>1, <3>2, TwoRanks, ParentGoesOn DEF Phases
    <2>3. CASE at = 1
      BY <1>1, <1>3, <1>5, <2>1, <2>3 DEF Reap
    <2>4. QED
      BY <1>1, <2>2, <2>3
  <1>6. QED
    BY <1>4, <1>5

\* The verdict on ranks that all ended unsignalled.
LEMMA CollectPreserves ==
  ASSUME GroupInv, CollectFailure \/ CollectReports, UNCHANGED variant
  PROVE  GroupInv'
  <1>1. /\ UNCHANGED <<variant, rankVars>> /\ phase = "collect"
        /\ signalled = {} /\ late = {} /\ outcome = "none"
        /\ \A r \in Rank : ~RankAlive(r)
        /\ \A r \in Rank : rank[r] # "unborn"
    BY DEF CollectFailure, CollectReports, GroupInv, ParentInv, StartInv
  <1>2. \A r \in Rank : rank[r] = "gone" /\ code[r] \in {"ok", "raised", "died"}
    BY <1>1 DEF RankAlive, GroupInv, RankInv, GroupTypeOK, Codes
  <1>3. CASE CollectFailure
    <2>1. \E r \in Rank : code[r] \in {"raised", "died"}
      BY <1>2, <1>3 DEF CollectFailure, AllZero
    <2>2. CASE Conclude("worker_failed")
      BY <1>1, <2>1, <2>2, Concludes DEF Outcomes
    <2>3. CASE Conclude("untyped") /\ \E r \in Rank : report[r] = "torn_error"
      <3>1. \E r \in Rank : code[r] = "died"
        BY <2>3 DEF GroupInv, RankInv
      <3>2. QED
        BY <1>1, <2>3, <3>1, Concludes DEF Outcomes
    <2>4. QED
      BY <1>3, <2>2, <2>3 DEF CollectFailure
  <1>4. CASE CollectReports
    <2>1. \A r \in Rank : passed[r] = Rounds /\ report[r] = "payload" /\ code[r] = "ok"
      BY <1>4 DEF CollectReports, AllZero, GroupInv, RankInv
    <2>2. PICK o \in {"result", "rejected"} : Conclude(o)
      BY <1>4, <2>1 DEF CollectReports
    <2>3. o \in Outcomes
      BY DEF Outcomes
    <2>4. QED
      BY <1>1, <2>1, <2>2, <2>3, Concludes
  <1>5. QED
    BY <1>3, <1>4

LEMMA ParentPreserves ==
  ASSUME GroupInv, Parent
  PROVE  GroupInv'
  <1>1. CASE StartFails
    BY <1>1, Concludes DEF Parent, StartFails, Outcomes
  <1>2. CASE Interrupted
    BY <1>2, Concludes DEF Parent, Interrupted, Outcomes
  <1>3. CASE GroupParentStep
    BY <1>3, StartPreserves, JoinPreserves, TerminatePreserves, CollectPreserves DEF Parent, GroupParentStep
  <1>4. QED
    BY <1>1, <1>2, <1>3 DEF Parent

LEMMA GroupInvariant == GroupSpec => []GroupInv
  <1>1. ASSUME GroupInv, UNCHANGED groupVars PROVE GroupInv'
    BY <1>1 DEF GroupInv, GroupTypeOK, StartInv, ParentInv, RankInv, ResultBacked, OutcomeExplained, RankAlive,
                groupVars, rankVars, groupParentVars
  <1>2. GroupInv /\ [GroupNext]_groupVars => GroupInv'
    BY <1>1, WorkerPreserves, ParentPreserves DEF GroupNext
  <1>3. QED
    BY <1>2, GroupStarts, PTL DEF GroupSpec

-----------------------------------------------------------------------------
\* The group has the shape its processes give it (distributed.py,
\* public_moe_tensor_parallel.py).
THEOREM GroupTypeCorrect == GroupSpec => []GroupTypeOK
  BY GroupInvariant, PTL DEF GroupInv

\* However many collectives there are, and wherever a rank fails, hangs or is
\* killed: a result means that every rank went through all of them, reported
\* its payload and left normally (distributed.py, run_local_gloo_smoke).
THEOREM ResultsAreBacked == GroupSpec => []ResultBacked
  BY GroupInvariant, PTL DEF GroupInv

\* Every other outcome blames what happened, and only an interrupt or a failed
\* spawn leaves a process behind (public_moe_tensor_parallel.py,
\* run_public_moe_expert_tensor_parallel).
THEOREM OutcomesAreExplained == GroupSpec => []OutcomeExplained
  BY GroupInvariant, PTL DEF GroupInv

-----------------------------------------------------------------------------
\* The descendants of a stage (StageDescendants).

\* A pass that has changed nothing so far has passed over no stage it should
\* have added; whatever was added had to be.
LoopInv ==
  /\ name \in StageNumbers /\ affected \subseteq StageNumbers /\ changed \in BOOLEAN
  /\ candidate \in 1 .. N + 1
  /\ ~changed => \A s \in StageNumbers : s < candidate /\ Affects(s) => s \in affected
  /\ \A S \in SUBSET StageNumbers : name \in S /\ Closed(S) => affected \subseteq S

LEMMA LoopInit ==
  ASSUME N \in Nat, DescendantsInit
  PROVE  LoopInv
<1>1. \A s \in StageNumbers : ~(s < candidate)
  BY DEF DescendantsInit, StageNumbers
<1>2. \A S \in SUBSET StageNumbers : name \in S => affected \subseteq S
  BY DEF DescendantsInit
<1>3. name \in StageNumbers /\ affected \subseteq StageNumbers /\ candidate \in 1 .. N + 1
  BY DEF DescendantsInit, StageNumbers
<1>4. changed \in BOOLEAN
  BY DEF DescendantsInit
<1>5. QED
  BY <1>1, <1>2, <1>3, <1>4 DEF LoopInv

LEMMA LoopNext ==
  ASSUME N \in Nat, LoopInv, [DescendantsNext]_descendantsVars
  PROVE  LoopInv'
<1> USE DEF LoopInv, StageNumbers
<1>1. CASE Look
  <2>1. candidate \in StageNumbers /\ candidate' \in 1 .. N + 1 /\ UNCHANGED <<graph, name>>
    BY <1>1 DEF Look
  <2>2. CASE candidate \notin affected /\ Affects(candidate)
    <3>1. affected' = affected \union {candidate} /\ changed' = TRUE
      BY <1>1, <2>2 DEF Look
    <3>2. ASSUME NEW S \in SUBSET StageNumbers, name \in S, Closed(S)
          PROVE  candidate \in S
      BY <2>1, <2>2, <3>2 DEF Affects, Closed
    <3>3. QED
      BY <2>1, <3>1, <3>2 DEF Closed
  <2>3. CASE ~(candidate \notin affected /\ Affects(candidate))
    <3>1. UNCHANGED <<affected, changed>> /\ candidate' = candidate + 1
      BY <1>1, <2>3 DEF Look
    <3>2. ASSUME ~changed, NEW s \in StageNumbers, s < candidate', Affects(s)
          PROVE  s \in affected
      BY <2>1, <2>3, <3>1, <3>2
    <3>3. QED
      BY <2>1, <3>1, <3>2 DEF Affects, Closed
  <2>4. QED
    BY <2>2, <2>3
<1>2. CASE NextPass
  <2>1. \A s \in StageNumbers : ~(s < candidate')
    BY <1>2 DEF NextPass
  <2>2. candidate' \in 1 .. N + 1 /\ UNCHANGED <<graph, name, affected>>
    BY <1>2 DEF NextPass
  <2>3. changed' \in BOOLEAN
    BY <1>2 DEF NextPass
  <2>4. QED
    BY <2>1, <2>2, <2>3 DEF Closed
<1>3. CASE UNCHANGED descendantsVars
  BY <1>3 DEF descendantsVars, Affects, Closed
<1>4. QED
  BY <1>1, <1>2, <1>3 DEF DescendantsNext

\* On every graph of every size, the loop returns only the least closed set
\* around the forced stage (stage_descendants).
THEOREM LoopReturnsDescendants ==
  ASSUME N \in Nat
  PROVE  DescendantsSpec => []ReturnsDescendants
<1>1. LoopInv => ReturnsDescendants
  BY DEF LoopInv, ReturnsDescendants, Done, Closed, Affects, StageNumbers
<1>2. DescendantsInit => LoopInv
  BY LoopInit
<1>3. LoopInv /\ [DescendantsNext]_descendantsVars => LoopInv'
  BY LoopNext
<1>4. QED
  BY <1>1, <1>2, <1>3, PTL DEF DescendantsSpec

-----------------------------------------------------------------------------
\* The abstract ledger (EvidenceLedger).

LedgerInv == LedgerTypeOK /\ InputsCurrent /\ CompleteIsSettled

\* A stage with a settled dependency set does not depend on an open stage:
\* what happens to open stages is no business of a recorded result.
LEMMA OpenStageKeepsOthers ==
  ASSUME LedgerInv, NEW t \in Stages, IsOpen(t), DependenciesSettled(t),
         NEW entry \in Entries, entry.state # "open",
         results' = [results EXCEPT ![t] = entry]
  PROVE  \A s \in Stages : DependenciesSettled(s) =>
           DependenciesSettled(s)' /\ Inputs(s)' = Inputs(s)
BY DEF LedgerInv, LedgerTypeOK, DependenciesSettled, IsOpen, Inputs, Entries

LEMMA RecordPreserves ==
  ASSUME LedgerInv, NEW s \in Stages, NEW output \in OutputSet, Record(s, output)
  PROVE  LedgerInv'
<1> DEFINE entry == [state |-> "recorded", output |-> output, inputs |-> Inputs(s)]
<1>1. entry \in Entries /\ entry.state # "open"
  BY DEF LedgerInv, LedgerTypeOK, Entries, Inputs
<1>2. IsOpen(s) /\ DependenciesSettled(s) /\ results' = [results EXCEPT ![s] = entry]
  BY DEF Record
<1>3. LedgerTypeOK'
  BY <1>1, <1>2 DEF LedgerInv, LedgerTypeOK, Record
<1>4. \A t \in Stages : DependenciesSettled(t) => DependenciesSettled(t)' /\ Inputs(t)' = Inputs(t)
  BY <1>1, <1>2, OpenStageKeepsOthers
<1>5. InputsCurrent'
  <2>1. entry = results'[s]
    BY <1>2 DEF LedgerInv, LedgerTypeOK
  <2>2. ASSUME NEW t \in Stages, t # s, results'[t].state = "recorded"
        PROVE  /\ DependenciesSettled(t)' /\ results'[t].inputs = Inputs(t)'
               /\ <<t, results'[t].output>> \in retained'
    BY <1>2, <1>4, <2>2 DEF LedgerInv, LedgerTypeOK, InputsCurrent, Record
  <2>3. /\ DependenciesSettled(s)' /\ results'[s].inputs = Inputs(s)'
        /\ <<s, results'[s].output>> \in retained'
    BY <1>2, <1>4, <2>1 DEF Record
  <2>4. QED
    BY <2>2, <2>3 DEF InputsCurrent
<1>6. CompleteIsSettled'
  BY <1>1, <1>2 DEF LedgerInv, LedgerTypeOK, CompleteIsSettled, Record, IsOpen
<1>7. QED
  BY <1>3, <1>5, <1>6 DEF LedgerInv

LEMMA WaivePreserves ==
  ASSUME LedgerInv, NEW s \in Stages, Waive(s)
  PROVE  LedgerInv'
<1>1. Waived \in Entries /\ Waived.state # "open" /\ Waived.state # "recorded"
  BY DEF Waived, NoInputs, Entries
<1>2. IsOpen(s) /\ DependenciesSettled(s) /\ results' = [results EXCEPT ![s] = Waived]
  BY DEF Waive
<1>3. LedgerTypeOK'
  BY <1>1, <1>2 DEF LedgerInv, LedgerTypeOK, Waive
<1>4. \A t \in Stages : DependenciesSettled(t) => DependenciesSettled(t)' /\ Inputs(t)' = Inputs(t)
  BY <1>1, <1>2, OpenStageKeepsOthers
<1>5. InputsCurrent'
  BY <1>1, <1>2, <1>4 DEF LedgerInv, LedgerTypeOK, InputsCurrent, Waive
<1>6. CompleteIsSettled'
  BY <1>1, <1>2 DEF LedgerInv, LedgerTypeOK, CompleteIsSettled, Waive, IsOpen
<1>7. QED
  BY <1>3, <1>5, <1>6 DEF LedgerInv

\* What stays has no dependency among what is withdrawn.
LEMMA WithdrawPreserves ==
  ASSUME Deps \in [Stages -> SUBSET Stages], LedgerInv, NEW S \in SUBSET Stages, Withdraw(S)
  PROVE  LedgerInv'
<1>1. Open \in Entries /\ Open.state = "open"
  BY DEF Open, NoInputs, Entries
<1>2. results' = [s \in Stages |-> IF s \in S THEN Open ELSE results[s]] /\ retained' = retained
      /\ complete' = FALSE
  BY DEF Withdraw
<1>3. LedgerTypeOK'
  BY <1>1, <1>2 DEF LedgerInv, LedgerTypeOK
<1>4. ASSUME NEW t \in Stages, results'[t].state = "recorded"
      PROVE  /\ DependenciesSettled(t)' /\ results'[t].inputs = Inputs(t)'
             /\ <<t, results'[t].output>> \in retained'
  <2>1. t \notin S /\ results'[t] = results[t] /\ results[t].state = "recorded"
    BY <1>1, <1>2, <1>4
  <2>2. \A d \in Deps[t] : d \notin S
    BY <2>1 DEF Withdraw
  <2>3. DependenciesSettled(t) /\ results[t].inputs = Inputs(t) /\ <<t, results[t].output>> \in retained
    BY <2>1 DEF LedgerInv, InputsCurrent
  <2>4. DependenciesSettled(t)'
    BY <1>2, <2>2, <2>3 DEF DependenciesSettled, IsOpen
  <2>5. Inputs(t)' = Inputs(t)
    BY <1>2, <2>2 DEF Inputs
  <2>6. QED
    BY <1>2, <2>1, <2>3, <2>4, <2>5
<1>5. QED
  BY <1>2, <1>3, <1>4 DEF LedgerInv, InputsCurrent, CompleteIsSettled

\* For every graph and every set of outputs: a recorded result was computed
\* from what is recorded now for its dependencies and is retained, and a
\* complete run has no open stage (the ledger of pipeline/stages.py,
\* manifests.py and pipeline/resume.py).
THEOREM LedgerIsCurrent ==
  ASSUME Deps \in [Stages -> SUBSET Stages]
  PROVE  LedgerSpec => [](InputsCurrent /\ CompleteIsSettled)
<1>1. LedgerInit => LedgerInv
  <2>1. Open \in Entries /\ Open.state = "open"
    BY DEF Open, NoInputs, Entries
  <2>2. QED
    BY <2>1 DEF LedgerInit, LedgerInv, LedgerTypeOK, InputsCurrent, CompleteIsSettled
<1>2. LedgerInv /\ [LedgerNext]_ledgerVars => LedgerInv'
  <2> SUFFICES ASSUME LedgerInv, [LedgerNext]_ledgerVars PROVE LedgerInv'
    OBVIOUS
  <2>1. CASE CompleteRun
    BY <2>1 DEF CompleteRun, LedgerInv, LedgerTypeOK, InputsCurrent, CompleteIsSettled,
                DependenciesSettled, Inputs, IsOpen
  <2>2. CASE UNCHANGED ledgerVars
    BY <2>2 DEF ledgerVars, LedgerInv, LedgerTypeOK, InputsCurrent, CompleteIsSettled,
                DependenciesSettled, Inputs, IsOpen
  <2>3. QED
    BY <2>1, <2>2, RecordPreserves, WaivePreserves, WithdrawPreserves DEF LedgerNext
<1>3. QED
  BY <1>1, <1>2, PTL DEF LedgerSpec, LedgerInv

-----------------------------------------------------------------------------
\* The Pareto selection (ParetoSelection).

Points(R, M) == [R -> [M -> Int]]
Exact(o) == o.tolerance = 0 /\ \A n \in Nat : o.relative[n] = 0

LEMMA ToleranceFacts ==
  ASSUME NEW x \in Int, NEW y \in Int, NEW o \in Objective
  PROVE  /\ EffectiveTolerance(x, y, o) \in Nat
         /\ EffectiveTolerance(x, y, o) = EffectiveTolerance(y, x, o)
         /\ Exact(o) => EffectiveTolerance(x, y, o) = 0
<1>1. Larger(Magnitude(x), Magnitude(y)) \in Nat
  BY DEF Larger, Magnitude
<1>2. Larger(Magnitude(x), Magnitude(y)) = Larger(Magnitude(y), Magnitude(x))
  BY DEF Larger, Magnitude
<1>3. o.tolerance \in Nat /\ \A n \in Nat : o.relative[n] \in Nat
  BY DEF Objective
<1>4. o.relative[Larger(Magnitude(x), Magnitude(y))] \in Nat
  BY <1>1, <1>3
<1>5. Exact(o) => o.relative[Larger(Magnitude(x), Magnitude(y))] = 0
  BY <1>1 DEF Exact
<1> QED BY <1>2, <1>3, <1>4, <1>5 DEF EffectiveTolerance, Exact

LEMMA BeatenIsWorse ==
  ASSUME NEW x \in Int, NEW y \in Int, NEW o \in Objective
  PROVE  Beats(x, y, o) => Worse(y, x, o)
BY ToleranceFacts DEF Beats, Worse, Objective

\* Whatever the tolerances, no two runs dominate each other: dominates is
\* asymmetric, and no run dominates itself.
THEOREM DominanceIsAsymmetric ==
  ASSUME NEW M, NEW objectives \in [M -> Objective],
         NEW p \in [M -> Int], NEW q \in [M -> Int], Dominates(p, q, objectives)
  PROVE  ~Dominates(q, p, objectives)
<1>1. PICK m \in M : Beats(p[m], q[m], objectives[m])
  BY DEF Dominates
<1>2. Worse(q[m], p[m], objectives[m])
  BY <1>1, BeatenIsWorse
<1> QED BY <1>2 DEF Dominates

-----------------------------------------------------------------------------
\* In a finite strict order everything is below something maximal.
LEMMA MaximalAbove ==
  ASSUME NEW S, IsFiniteSet(S), NEW R, NEW x \in S,
         \A y \in S : <<y, y>> \notin R, IsTransitivelyClosedOn(R, S)
  PROVE  \E m \in S : /\ m = x \/ <<m, x>> \in R
                      /\ \A y \in S : <<y, m>> \notin R
<1> DEFINE Up(y) == {z \in S : <<z, y>> \in R}
           Candidates == Up(x) \union {x}
           Sizes == {Cardinality(Up(y)) : y \in Candidates}
<1>1. \A y \in S : IsFiniteSet(Up(y)) /\ Cardinality(Up(y)) \in Nat
  BY FS_Subset, FS_CardinalityType
<1>2. Sizes \subseteq Nat /\ Sizes # {}
  BY <1>1
<1>3. PICK n \in Sizes : \A k \in Sizes : <<k, n>> \notin OpToRel(<, Nat)
  <2> HIDE DEF Sizes
  <2> QED BY <1>2, NatLessThanWellFounded, WFMin, Zenon
<1>4. \A k \in Sizes : k \in Nat /\ ~(k < n)
  <2> HIDE DEF Sizes
  <2> QED BY <1>2, <1>3, Zenon DEF OpToRel
<1>5. PICK m \in Candidates : Cardinality(Up(m)) = n
  BY <1>3
<1>6. ASSUME NEW y \in S, <<y, m>> \in R PROVE FALSE
  <2>1. y \in Candidates
    BY <1>6 DEF IsTransitivelyClosedOn
  <2>2. ~(Cardinality(Up(y)) < Cardinality(Up(m)))
    BY <1>4, <1>5, <2>1
  <2>3. Up(y) \subseteq Up(m) /\ y \in Up(m) /\ y \notin Up(y)
    BY <1>6 DEF IsTransitivelyClosedOn
  <2>4. Cardinality(Up(y)) <= Cardinality(Up(m)) /\ Cardinality(Up(y)) # Cardinality(Up(m))
    BY <1>1, <2>3, FS_Subset
  <2>5. Cardinality(Up(y)) \in Nat /\ Cardinality(Up(m)) \in Nat
    BY <1>1
  <2> HIDE DEF Up
  <2> QED BY <2>2, <2>4, <2>5
<1> QED BY <1>6

-----------------------------------------------------------------------------
(* At most one objective with a tolerance: the reports' own objectives, of *)
(* which only quality has one.                                             *)
Score(x, o) == IF o.direction = "maximize" THEN x ELSE -x

\* p is ahead of q, the tolerance of t set aside.
Ahead(p, q, objectives, t) ==
  LET Lead(m) == Score(p[m], objectives[m]) > Score(q[m], objectives[m])
      Behind(m) == Score(p[m], objectives[m]) < Score(q[m], objectives[m]) IN
  /\ \A m \in DOMAIN objectives \ {t} : ~Behind(m)
  /\ \E m \in DOMAIN objectives : Lead(m)

LEMMA ScoreFacts ==
  ASSUME NEW x \in Int, NEW y \in Int, NEW o \in Objective
  PROVE  /\ Score(x, o) \in Int
         /\ Beats(x, y, o) => Score(x, o) > Score(y, o)
         /\ Exact(o) => (Beats(x, y, o) <=> Score(x, o) > Score(y, o))
         /\ Exact(o) => (Worse(x, y, o) <=> Score(x, o) < Score(y, o))
BY ToleranceFacts DEF Beats, Worse, Score, Objective

LEMMA DominatingIsAhead ==
  ASSUME NEW M, NEW objectives \in [M -> Objective], NEW t \in M,
         \A m \in M \ {t} : Exact(objectives[m]),
         NEW p \in [M -> Int], NEW q \in [M -> Int], Dominates(p, q, objectives)
  PROVE  Ahead(p, q, objectives, t)
<1>1. \A m \in M \ {t} : ~(Score(p[m], objectives[m]) < Score(q[m], objectives[m]))
  BY ScoreFacts DEF Dominates
<1>2. \E m \in M : Score(p[m], objectives[m]) > Score(q[m], objectives[m])
  BY ScoreFacts DEF Dominates
<1> QED BY <1>1, <1>2 DEF Ahead

LEMMA AheadIsStrictOrder ==
  ASSUME NEW M, NEW objectives \in [M -> Objective], NEW t \in M,
         NEW p \in [M -> Int], NEW q \in [M -> Int], NEW r \in [M -> Int]
  PROVE  /\ ~Ahead(p, p, objectives, t)
         /\ Ahead(p, q, objectives, t) /\ Ahead(q, r, objectives, t) => Ahead(p, r, objectives, t)
<1> DEFINE S(u, m) == Score(u[m], objectives[m])
<1>1. \A u \in [M -> Int], m \in M : S(u, m) \in Int
  BY ScoreFacts
<1>2. ~Ahead(p, p, objectives, t)
  BY <1>1 DEF Ahead
<1>3. ASSUME Ahead(p, q, objectives, t), Ahead(q, r, objectives, t)
      PROVE  Ahead(p, r, objectives, t)
  <2>1. \A m \in M \ {t} : S(p, m) >= S(q, m) /\ S(q, m) >= S(r, m)
    BY <1>1, <1>3 DEF Ahead
  <2>2. \A m \in M \ {t} : ~(S(p, m) < S(r, m))
    BY <1>1, <2>1
  <2>3. (\E m \in M \ {t} : S(p, m) > S(q, m) \/ S(q, m) > S(r, m))
        \/ (S(p, t) > S(q, t) /\ S(q, t) > S(r, t))
    BY <1>3 DEF Ahead
  <2>4. (\E m \in M \ {t} : S(p, m) > S(r, m)) \/ S(p, t) > S(r, t)
    BY <1>1, <2>1, <2>3
  <2> QED BY <2>2, <2>4 DEF Ahead
<1> QED BY <1>2, <1>3

\* With at most one tolerance, some run is optimal, however many runs there
\* are and however close: the objectives of _report_stage and compare_runs.
THEOREM FrontierIsNotEmpty ==
  ASSUME NEW M, NEW objectives \in [M -> Objective], NEW t \in M,
         \A m \in M \ {t} : Exact(objectives[m]),
         NEW Runs, IsFiniteSet(Runs), NEW points \in Points(Runs, M), Runs # {}
  PROVE  OptimalIds(points, objectives) # {}
<1> DEFINE R == {e \in Runs \X Runs : Ahead(points[e[1]], points[e[2]], objectives, t)}
<1>1. \A u \in Runs : points[u] \in [M -> Int]
  BY DEF Points
<1>2. \A u \in Runs : <<u, u>> \notin R
  BY <1>1, AheadIsStrictOrder
<1>3. IsTransitivelyClosedOn(R, Runs)
  BY <1>1, AheadIsStrictOrder DEF IsTransitivelyClosedOn
<1>4. PICK o \in Runs : \A u \in Runs : <<u, o>> \notin R
  <2> HIDE DEF R
  <2> QED BY <1>2, <1>3, MaximalAbove
<1>5. \A u \in Runs : ~Dominates(points[u], points[o], objectives)
  BY <1>1, <1>4, DominatingIsAhead
<1>6. o \in OptimalIds(points, objectives)
  BY <1>5 DEF OptimalIds, DominatedBy, Points
<1> QED BY <1>6

-----------------------------------------------------------------------------
LEMMA ExactDominanceIsTransitive ==
  ASSUME NEW M, NEW objectives \in [M -> Objective], \A m \in M : Exact(objectives[m]),
         NEW p \in [M -> Int], NEW q \in [M -> Int], NEW r \in [M -> Int],
         Dominates(p, q, objectives), Dominates(q, r, objectives)
  PROVE  Dominates(p, r, objectives)
<1> DEFINE S(u, m) == Score(u[m], objectives[m])
<1>1. \A u \in [M -> Int], m \in M : S(u, m) \in Int
  BY ScoreFacts
<1>2. \A m \in M : ~(S(p, m) < S(q, m)) /\ ~(S(q, m) < S(r, m))
  BY ScoreFacts DEF Dominates
<1>3. PICK m \in M : S(p, m) > S(q, m)
  BY ScoreFacts DEF Dominates
<1>4. S(p, m) > S(r, m)
  BY <1>1, <1>2, <1>3
<1>5. \A k \in M : ~(S(p, k) < S(r, k))
  BY <1>1, <1>2
<1> QED BY <1>4, <1>5, ScoreFacts DEF Dominates

\* Without tolerances, a run that is not optimal is dominated by one that is,
\* so the optimal runs alone tell what the others miss.
THEOREM OptimalRunsDominateTheRest ==
  ASSUME NEW M, NEW objectives \in [M -> Objective], \A m \in M : Exact(objectives[m]),
         NEW Runs, IsFiniteSet(Runs), NEW points \in Points(Runs, M),
         NEW p \in Runs \ OptimalIds(points, objectives)
  PROVE  DominatedBy(p, points, objectives) \intersect OptimalIds(points, objectives) # {}
<1> DEFINE R == {e \in Runs \X Runs : Dominates(points[e[1]], points[e[2]], objectives)}
<1>1. DOMAIN points = Runs /\ \A u \in Runs : points[u] \in [M -> Int]
  BY DEF Points
<1>2. \A u \in Runs : <<u, u>> \notin R
  BY <1>1, DominanceIsAsymmetric
<1>3. IsTransitivelyClosedOn(R, Runs)
  BY <1>1, ExactDominanceIsTransitive DEF IsTransitivelyClosedOn
<1>4. PICK o \in Runs : /\ o = p \/ <<o, p>> \in R
                        /\ \A u \in Runs : <<u, o>> \notin R
  <2> HIDE DEF R
  <2> QED BY <1>2, <1>3, MaximalAbove
<1>5. o \in OptimalIds(points, objectives)
  BY <1>1, <1>4 DEF OptimalIds, DominatedBy
<1>6. o \in DominatedBy(p, points, objectives)
  BY <1>1, <1>4, <1>5 DEF DominatedBy
<1> QED BY <1>5, <1>6

-----------------------------------------------------------------------------
(* What tolerances cost. *)
Exactly == [n \in Nat |-> 0]
Maximize(tolerance) == [direction |-> "maximize", tolerance |-> tolerance, relative |-> Exactly]

\* With a tolerance on three objectives the frontier may be empty: each of
\* three runs is better than the next in one and worse within the tolerance in
\* two (dominates is not transitive).
THEOREM TolerancesCanEmptyTheFrontier ==
  \E objectives \in [1 .. 3 -> Objective], points \in Points(1 .. 3, 1 .. 3) :
    OptimalIds(points, objectives) = {}
<1> DEFINE objectives == [m \in 1 .. 3 |-> Maximize(1)]
           points == [r \in 1 .. 3 |-> [m \in 1 .. 3 |->
                       IF r = 1 THEN 0
                       ELSE IF r = 2 THEN (IF m = 1 THEN -2 ELSE 1)
                       ELSE (IF m = 3 THEN 2 ELSE -1)]]
<1>1. Maximize(1) \in Objective
  BY DEF Maximize, Objective, Exactly
<1>2. objectives \in [1 .. 3 -> Objective] /\ points \in Points(1 .. 3, 1 .. 3)
  BY <1>1 DEF Points
<1>3. \A x, y \in Int : EffectiveTolerance(x, y, Maximize(1)) = 1
  BY DEF EffectiveTolerance, Maximize, Exactly, Larger, Magnitude
<1>4. \A x, y \in Int : /\ Beats(x, y, Maximize(1)) <=> x > y + 1
                        /\ Worse(x, y, Maximize(1)) <=> x < y - 1
  BY <1>3 DEF Beats, Worse, Maximize
<1>5. \A p, q \in [1 .. 3 -> Int] :
        Dominates(p, q, objectives) <=>
          /\ \A m \in 1 .. 3 : ~(p[m] < q[m] - 1)
          /\ \E m \in 1 .. 3 : p[m] > q[m] + 1
  BY <1>4 DEF Dominates
<1>6. /\ Dominates(points[1], points[2], objectives)
      /\ Dominates(points[2], points[3], objectives)
      /\ Dominates(points[3], points[1], objectives)
  <2>1. \A r \in 1 .. 3 : points[r] \in [1 .. 3 -> Int]
    BY <1>2 DEF Points
  <2> HIDE DEF objectives
  <2> QED BY <1>5, <2>1
<1>7. \A r \in 1 .. 3 : DominatedBy(r, points, objectives) # {}
  <2> HIDE DEF objectives
  <2>1. DOMAIN points = 1 .. 3
    OBVIOUS
  <2> HIDE DEF points
  <2> QED BY <1>6, <2>1 DEF DominatedBy
<1>8. OptimalIds(points, objectives) = {}
  BY <1>7 DEF OptimalIds
<1> QED BY <1>2, <1>8

\* With the reports' single tolerance the frontier stands, but a run may be
\* dominated only by runs that are not optimal themselves.
THEOREM OneToleranceLosesTheDominator ==
  \E objectives \in [1 .. 2 -> Objective], points \in Points(1 .. 3, 1 .. 2) :
    /\ Exact(objectives[2])
    /\ DominatedBy(3, points, objectives) # {}
    /\ DominatedBy(3, points, objectives) \intersect OptimalIds(points, objectives) = {}
<1> DEFINE objectives == [m \in 1 .. 2 |-> Maximize(2 - m)]
           points == [r \in 1 .. 3 |-> [m \in 1 .. 2 |-> IF m = 1 THEN r ELSE -r]]
<1>1. \A n \in Nat : Maximize(n) \in Objective
  BY DEF Maximize, Objective, Exactly
<1>2. objectives \in [1 .. 2 -> Objective] /\ points \in Points(1 .. 3, 1 .. 2)
  BY <1>1 DEF Points
<1>3. \A x, y \in Int : /\ EffectiveTolerance(x, y, Maximize(1)) = 1
                        /\ EffectiveTolerance(x, y, Maximize(0)) = 0
  BY DEF EffectiveTolerance, Maximize, Exactly, Larger, Magnitude
<1>4. \A x, y \in Int : /\ Beats(x, y, Maximize(1)) <=> x > y + 1
                        /\ Worse(x, y, Maximize(1)) <=> x < y - 1
                        /\ Beats(x, y, Maximize(0)) <=> x > y
                        /\ Worse(x, y, Maximize(0)) <=> x < y
  BY <1>3 DEF Beats, Worse, Maximize
<1>5. /\ DOMAIN objectives = {1, 2}
      /\ \A x, y \in Int : /\ Beats(x, y, objectives[1]) <=> x > y + 1
                           /\ Worse(x, y, objectives[1]) <=> x < y - 1
                           /\ Beats(x, y, objectives[2]) <=> x > y
                           /\ Worse(x, y, objectives[2]) <=> x < y
  <2>1. objectives[1] = Maximize(1) /\ objectives[2] = Maximize(0) /\ DOMAIN objectives = {1, 2}
    OBVIOUS
  <2> HIDE DEF objectives
  <2> QED BY <1>4, <2>1
<1>6. /\ Dominates(points[1], points[2], objectives)
      /\ Dominates(points[2], points[3], objectives)
      /\ ~Dominates(points[1], points[3], objectives)
  <2>1. \A r \in 1 .. 3 : points[r][1] = r /\ points[r][2] = -r
    OBVIOUS
  <2> HIDE DEF objectives, points
  <2> QED BY <1>5, <2>1 DEF Dominates
<1>7. DominatedBy(3, points, objectives) = {2} /\ 2 \notin OptimalIds(points, objectives)
  <2>1. DOMAIN points = 1 .. 3
    OBVIOUS
  <2> HIDE DEF objectives, points
  <2> QED BY <1>6, <2>1 DEF DominatedBy, OptimalIds
<1>8. Exact(objectives[2])
  BY DEF Exact, Maximize, Exactly
<1> QED BY <1>2, <1>7, <1>8

-----------------------------------------------------------------------------
\* Runs measured with different evaluation suites are never ranked: a metric
\* with two suites leaves no point at all (pareto_points_from_summaries).
THEOREM MixedSuitesGiveNoPoints ==
  ASSUME NEW summaries, NEW objectives, NEW m \in DOMAIN objectives,
         NEW q \in DOMAIN summaries, NEW r \in DOMAIN summaries,
         m \in DOMAIN summaries[q], m \in DOMAIN summaries[r],
         summaries[q][m].suite # summaries[r][m].suite
  PROVE  DOMAIN PointsFromSummaries(summaries, objectives) = {}
<1>1. Incompatible(m, summaries)
  BY DEF Incompatible, Suites
<1> QED BY <1>1 DEF PointsFromSummaries, Complete
=============================================================================
