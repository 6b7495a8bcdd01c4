--------------------------- MODULE BenchmarkWorker ---------------------------
(***************************************************************************)
(* Benchmark stages measured in a process of their own                     *)
(* (pipeline/benchmark_worker.py).  The parent calls                       *)
(* run_isolated_benchmark once per subject: it spawns a worker, waits for  *)
(* one message on a pipe or for the deadline, and disposes of the worker.  *)
(* Parent, pipe, worker and the operating system's signals interleave.     *)
(* Calls follow one another; after the parent itself was killed the next   *)
(* call is the one of the resumed run.                                     *)
(***************************************************************************)
EXTENDS Naturals

CONSTANTS
  MaxCalls,        \* bound: calls of run_isolated_benchmark
  MaxParentKills   \* bound: times the parent is killed inside a call

ASSUME WorkerAssumption == MaxCalls \in Nat \ {0} /\ MaxParentKills \in Nat

Calls == 1 .. MaxCalls

\* What stops a worker: SIGTERM, only SIGKILL, or nothing (a process in an
\* uninterruptible device call).
Grips == {"term", "kill", "never"}
Messages == {"success", "failed"}
Verdicts == {"result", "worker_failed", "bad_exit", "no_exit", "no_result",
             "timeout", "os_error", "interrupted", "abandoned", "parent_killed"}

\* Where the parent is: just after the start of the worker, inside the try
\* block, in _terminate_worker (from the try block, or from finally once the
\* receiver is closed), in finally, or between calls.
TryPositions == {"deadline", "poll", "alive", "recv", "join"}
StopPositions == {"stop", "term_join", "kill_join"}
Positions == TryPositions \union StopPositions \union {"started", "finally", "between"}

VARIABLES
  call,       \* the current or last call
  pc,         \* where the parent is
  expired,    \* the current call's deadline has passed
  payload,    \* the message received
  closed,     \* the current call's receiver is closed
  verdict,    \* how each call ended
  parentKills,
  worker,     \* each call's worker
  exitcode,   \* its exit code, as far as the parent tells them apart
  pipe,       \* the unread part of what it wrote
  sent,       \* the message it is writing or has written as a whole
  signal,     \* the last signal the parent sent it
  grip        \* what stops it

parentVars == <<call, pc, expired, payload, closed, verdict, parentKills>>
workerVars == <<worker, exitcode, pipe, sent, signal, grip>>
vars == <<parentVars, workerVars>>

TypeOK ==
  /\ call \in 0 .. MaxCalls /\ pc \in Positions
  /\ expired \in BOOLEAN /\ closed \in BOOLEAN
  /\ payload \in Messages \union {"none"}
  /\ verdict \in [Calls -> Verdicts \union {"none"}]
  /\ parentKills \in 0 .. MaxParentKills
  /\ worker \in [Calls -> {"unborn", "computing", "sending", "exiting", "dead"}]
  /\ exitcode \in [Calls -> {"none", "zero", "nonzero"}]
  /\ pipe \in [Calls -> Messages \union {"empty", "partial"}]
  /\ sent \in [Calls -> Messages \union {"nothing"}]
  /\ signal \in [Calls -> {"none", "term", "kill"}]
  /\ grip \in [Calls -> Grips]

Alive(c) == worker[c] \in {"computing", "sending", "exiting"}
ReaderOpen(c) == c = call /\ ~closed
WriterOpen(c) == worker[c] \in {"computing", "sending"}
\* Connection.poll: something to read, or the end of the file.
Readable(c) == pipe[c] # "empty" \/ ~WriterOpen(c)

Init ==
  /\ call = 0 /\ pc = "between" /\ expired = FALSE /\ payload = "none"
  /\ closed = TRUE /\ verdict = [c \in Calls |-> "none"] /\ parentKills = 0
  /\ worker = [c \in Calls |-> "unborn"]
  /\ exitcode = [c \in Calls |-> "none"]
  /\ pipe = [c \in Calls |-> "empty"]
  /\ sent = [c \in Calls |-> "nothing"]
  /\ signal = [c \in Calls |-> "none"]
  /\ grip \in [Calls -> Grips]

-----------------------------------------------------------------------------
(* The worker, _worker_entry. *)

\* The request was executed, or raised an exception that becomes a message.
\* The reader may be gone (EPIPE, twice): the worker dies of the second send.
BeginSend(c) ==
  /\ worker[c] = "computing"
  /\ IF ReaderOpen(c)
     THEN \E m \in Messages :
            /\ sent' = [sent EXCEPT ![c] = m]
            /\ pipe' = [pipe EXCEPT ![c] = "partial"]
            /\ worker' = [worker EXCEPT ![c] = "sending"]
            /\ UNCHANGED exitcode
     ELSE /\ worker' = [worker EXCEPT ![c] = "exiting"]
          /\ exitcode' = [exitcode EXCEPT ![c] = "nonzero"]
          /\ UNCHANGED <<pipe, sent>>
  /\ UNCHANGED <<parentVars, signal, grip>>

\* The last byte is written and the sender closed.
EndSend(c) ==
  /\ worker[c] = "sending"
  /\ worker' = [worker EXCEPT ![c] = "exiting"]
  /\ IF ReaderOpen(c)
     THEN pipe' = [pipe EXCEPT ![c] = sent[c]] /\ UNCHANGED exitcode
     ELSE exitcode' = [exitcode EXCEPT ![c] = "nonzero"] /\ UNCHANGED pipe
  /\ UNCHANGED <<parentVars, sent, signal, grip>>

\* Neither message can be sent, or what ends the request is no Exception
\* (KeyboardInterrupt): the sender is closed with nothing written.
CloseUnsent(c) ==
  /\ worker[c] = "computing"
  /\ worker' = [worker EXCEPT ![c] = "exiting"]
  /\ exitcode' = [exitcode EXCEPT ![c] = "nonzero"]
  /\ UNCHANGED <<parentVars, pipe, sent, signal, grip>>

\* Interpreter shutdown succeeds, or crashes after the message was sent.
Exit(c) ==
  /\ worker[c] = "exiting"
  /\ worker' = [worker EXCEPT ![c] = "dead"]
  /\ IF exitcode[c] = "none"
     THEN \E code \in {"zero", "nonzero"} : exitcode' = [exitcode EXCEPT ![c] = code]
     ELSE UNCHANGED exitcode
  /\ UNCHANGED <<parentVars, pipe, sent, signal, grip>>

Die(c) ==
  /\ worker' = [worker EXCEPT ![c] = "dead"]
  /\ exitcode' = [exitcode EXCEPT ![c] = "nonzero"]
  /\ UNCHANGED <<parentVars, pipe, sent, signal, grip>>

\* The parent's signal takes effect.
DieOfSignal(c) ==
  /\ Alive(c)
  /\ \/ signal[c] = "term" /\ grip[c] = "term"
     \/ signal[c] = "kill" /\ grip[c] # "never"
  /\ Die(c)

\* A crash, or the kernel's out-of-memory killer, at any point.
Crash(c) == Alive(c) /\ grip[c] # "never" /\ Die(c)

WorkerNext(c) ==
  BeginSend(c) \/ EndSend(c) \/ CloseUnsent(c) \/ Exit(c) \/ DieOfSignal(c) \/ Crash(c)

-----------------------------------------------------------------------------
(* The parent, run_isolated_benchmark. *)

\* process.start().
StartCall ==
  /\ pc = "between" /\ call < MaxCalls
  /\ call' = call + 1
  /\ worker' = [worker EXCEPT ![call + 1] = "computing"]
  /\ pc' = "started" /\ expired' = FALSE /\ payload' = "none" /\ closed' = FALSE
  /\ UNCHANGED <<verdict, parentKills, exitcode, pipe, sent, signal, grip>>

DeadlinePasses ==
  /\ pc \notin {"started", "between"} /\ ~expired
  /\ expired' = TRUE
  /\ UNCHANGED <<call, pc, payload, closed, verdict, parentKills, workerVars>>

Goto(position) == pc' = position /\ UNCHANGED <<call, expired, payload, closed, parentKills>>
Raise(v, position) == verdict' = [verdict EXCEPT ![call] = v] /\ Goto(position)

\* The sender is closed, the deadline taken, and the try block entered.
EnterTry == pc = "started" /\ Goto("deadline") /\ UNCHANGED <<verdict, workerVars>>

\* Mutant: the loop polls on without looking at the clock.
CheckDeadline_Ignored == pc = "deadline" /\ Goto("poll") /\ UNCHANGED <<verdict, workerVars>>

\* The deadline is looked at first: a message that is already there is lost.
CheckDeadline ==
  /\ pc = "deadline"
  /\ IF expired THEN Raise("timeout", "stop") ELSE Goto("poll") /\ UNCHANGED verdict
  /\ UNCHANGED workerVars

\* receiver.poll returns as soon as there is something to read, or gives up.
Poll ==
  /\ pc = "poll"
  /\ IF Readable(call) THEN Goto("recv") ELSE Goto("alive")
  /\ UNCHANGED <<verdict, workerVars>>

\* receiver.recv waits for the rest of a message that has begun; it raises
\* EOFError at the end of the file and OSError inside a truncated message.
Receive ==
  /\ pc = "recv"
  /\ \/ /\ pipe[call] \in Messages
        /\ payload' = pipe[call]
        /\ pipe' = [pipe EXCEPT ![call] = "empty"]
        /\ pc' = "join"
        /\ UNCHANGED <<call, expired, closed, verdict, parentKills,
                       worker, exitcode, sent, signal, grip>>
     \/ /\ pipe[call] = "empty" /\ ~WriterOpen(call)
        /\ Raise("no_result", "finally") /\ UNCHANGED workerVars
     \/ /\ pipe[call] = "partial" /\ ~WriterOpen(call)
        /\ Raise("os_error", "finally") /\ UNCHANGED workerVars

\* Nothing could be read a moment ago; is the worker still there?
CheckAlive ==
  /\ pc = "alive"
  /\ IF Alive(call) THEN Goto("deadline") /\ UNCHANGED verdict
                    ELSE Raise("no_result", "finally")
  /\ UNCHANGED workerVars

\* Mutant: the exit code is not looked at.
Judgement_AnyExit == IF payload = "success" THEN "result" ELSE "worker_failed"
Judgement ==
  CASE exitcode[call] # "zero" -> "bad_exit"
    [] exitcode[call] = "zero" /\ payload # "success" -> "worker_failed"
    [] OTHER -> "result"

\* After the message: the worker has five seconds to exit.
Join ==
  /\ pc = "join"
  /\ IF Alive(call) THEN Raise("no_exit", "stop") ELSE Raise(Judgement, "finally")
  /\ UNCHANGED workerVars

AfterStop == IF closed THEN "between" ELSE "finally"
Signal(s, position) ==
  /\ signal' = [signal EXCEPT ![call] = s]
  /\ Goto(position)
  /\ UNCHANGED <<worker, exitcode, pipe, sent, grip>>

\* _terminate_worker: terminate, wait, kill, wait.
Stop ==
  /\ pc = "stop"
  /\ IF Alive(call) THEN Signal("term", "term_join") ELSE Goto(AfterStop) /\ UNCHANGED workerVars
  /\ UNCHANGED verdict

TermJoin ==
  /\ pc = "term_join"
  /\ IF Alive(call) THEN Signal("kill", "kill_join") ELSE Goto(AfterStop) /\ UNCHANGED workerVars
  /\ UNCHANGED verdict

\* Five seconds are enough for a killed process to go, if it can go at all.
KillJoin ==
  /\ pc = "kill_join"
  /\ ~Alive(call) \/ grip[call] = "never"
  /\ Goto(AfterStop)
  /\ UNCHANGED <<verdict, workerVars>>

\* Mutant: the worker is left to itself.
Finally_Leave ==
  /\ pc = "finally"
  /\ closed' = TRUE
  /\ pc' = "between"
  /\ UNCHANGED <<call, expired, payload, verdict, parentKills, workerVars>>

Finally ==
  /\ pc = "finally"
  /\ closed' = TRUE
  /\ pc' = IF Alive(call) THEN "stop" ELSE "between"
  /\ UNCHANGED <<call, expired, payload, verdict, parentKills, workerVars>>

InTry == pc \in TryPositions \/ (pc \in StopPositions /\ ~closed)

\* Ctrl-C in the try block, where _terminate_worker may be running too.
Interrupt == InTry /\ Raise("interrupted", "finally") /\ UNCHANGED workerVars

\* Ctrl-C between the start and the try block, or in the finally block, also
\* a second one: nothing stops the worker, and the parent lives on.
InterruptOutside ==
  /\ pc # "between" /\ ~InTry
  /\ verdict' = [verdict EXCEPT ![call] = "abandoned"]
  /\ pc' = "between" /\ closed' = TRUE
  /\ UNCHANGED <<call, expired, payload, parentKills, workerVars>>

\* SIGKILL: no finally block, and the worker stays behind.
ParentKilled ==
  /\ pc # "between" /\ parentKills < MaxParentKills
  /\ parentKills' = parentKills + 1
  /\ verdict' = [verdict EXCEPT ![call] = "parent_killed"]
  /\ pc' = "between" /\ closed' = TRUE
  /\ UNCHANGED <<call, expired, payload, workerVars>>

ParentStep ==
  \/ EnterTry \/ CheckDeadline \/ Poll \/ Receive \/ CheckAlive \/ Join
  \/ Stop \/ TermJoin \/ KillJoin \/ Finally

Next ==
  \/ StartCall \/ DeadlinePasses \/ ParentStep \/ Interrupt \/ InterruptOutside \/ ParentKilled
  \/ \E c \in Calls : WorkerNext(c)

Spec == Init /\ [][Next]_vars

\* The parent runs, time passes, a message once begun is written or broken
\* off, and signals are delivered.  Nothing makes a worker finish its request
\* or exit.
FairSpec ==
  /\ Spec /\ WF_vars(ParentStep) /\ WF_vars(DeadlinePasses)
  /\ \A c \in Calls : WF_vars(EndSend(c)) /\ WF_vars(DieOfSignal(c))

-----------------------------------------------------------------------------
\* Measurements do not overlap: when a worker runs, every earlier one is gone,
\* except one that nothing can kill, one whose parent was killed, or one whose
\* parent was interrupted where no clean-up follows, before the try block or
\* in finally.  Whatever else ends a call, a Ctrl-C inside the try block
\* included, disposes of its worker (_terminate_worker, and the finally block
\* of run_isolated_benchmark).
NoOverlap ==
  \A c, d \in Calls : c < d /\ Alive(c) /\ worker[d] # "unborn" =>
    grip[c] = "never" \/ verdict[c] \in {"parent_killed", "abandoned"}

\* A call returns a result, or reports the worker's own failure, only when
\* the worker wrote that message as a whole and then exited normally
\* (run_isolated_benchmark: exit code before status).
VerdictEarned ==
  \A c \in Calls :
    /\ verdict[c] = "result" => sent[c] = "success" /\ exitcode[c] = "zero"
    /\ verdict[c] = "worker_failed" => sent[c] = "failed" /\ exitcode[c] = "zero"
    /\ verdict[c] \in {"result", "worker_failed"} => ~Alive(c) /\ pipe[c] = "empty"

\* Every call ends, even when its worker neither answers nor exits nor heeds
\* signals (the deadline of run_isolated_benchmark).
CallEnds == pc # "between" ~> pc = "between"

\* "isolated benchmark worker exited without a result" is said only of a
\* worker that wrote no whole message (run_isolated_benchmark).
NoResultMeansNone ==
  \A c \in Calls : verdict[c] = "no_result" =>
    ~(sent[c] \in Messages /\ pipe[c] = sent[c])
=============================================================================
