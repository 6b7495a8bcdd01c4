--------------------------- MODULE ServerSession ---------------------------
(***************************************************************************)
(* The measured child processes of run_inkling_measurement_modal.py: a     *)
(* llama-server, or one llama.cpp command, with a thread that samples its  *)
(* resources once a second, and the threads that send it a batch of        *)
(* streaming requests at once.  Three callers share the design:            *)
(*   "measurement"  _server_measurement: pairs of a load with dropped and  *)
(*                  a load with warm page cache; the last warm server gets *)
(*                  the diagnostics and the batches                        *)
(*   "diagnostic"   _run_bf16_diagnostic_server: one server, requests one  *)
(*                  after another, a clean-up that tries every step        *)
(*   "command"      _run_captured: a command that ends by itself           *)
(* The server may crash, hang, or ignore a signal at any moment, and a     *)
(* timeout may pass whenever somebody waits.                               *)
(***************************************************************************)
EXTENDS Naturals, Sequences, FiniteSets

CONSTANTS
  None,
  Callers,     \* the callers to run
  LoadPairs,   \* cold and warm loads of a measurement
  Cells,       \* the concurrency of each cell of the workload, in order
  Measured     \* bound: measured batches of a cell, after its warm-up

\* What a step of the clean-up raises, and what else does.
StopErrors == {"unkillable", "monitor", "log", "exit"}
Errors == StopErrors \union {"conditioning", "start", "thread", "unready", "comparison",
                             "request", "timeout", "observation", "window"}

ASSUME SessionAssumption ==
  /\ None \notin Errors
  /\ Callers \subseteq {"measurement", "diagnostic", "command"}
  /\ LoadPairs \in Nat \ {0} /\ Measured \in Nat \ {0}
  /\ Cells \in Seq(Nat \ {0}) /\ Cells # <<>>

VARIABLES
  caller,
  pc,          \* where the calling thread is
  purpose,     \* which server it works with, or which clean-up it is in
  trial, cell, batch,
  error,       \* the exception that the clean-up follows
  stopError,   \* the exception of the clean-up itself
  raised,      \* what the call raised in the end
  proc,        \* the child process
  code,        \* its exit code: "ok" is 0 or -15 (SIGTERM)
  signal,      \* the strongest signal sent to it
  monitor,     \* the sampling thread
  stopping,    \* its stop event is set
  samples,     \* the cells in whose window it sampled, 0 outside of any
  clients,     \* the request threads of the batch
  barrier,     \* where they meet
  cache,       \* the model's pages
  loads,       \* what each load of the pair found there
  pairs,       \* load_pair_trials
  first,       \* history: the first exception of the call
  gaveUp       \* history: what was waited for in vain

mainVars == <<pc, purpose, trial, cell, batch, error, stopError, raised, first, gaveUp>>
serverVars == <<proc, code, signal>>
monitorVars == <<monitor, stopping, samples>>
requestVars == <<clients, barrier>>
recordVars == <<loads, pairs>>
vars == <<caller, mainVars, serverVars, monitorVars, requestVars, cache, recordVars>>

Phases == {"condition", "start", "thread", "ready", "compare", "prepare", "batch", "communicate",
           "stop", "wait", "join", "log", "code", "stopped", "ended"}
Purposes == {"cold", "warm", "final", "abort", "unready", "command"}
ClientStates == {"queued", "waiting", "streaming", "refused", "failed", "done"}
Loads == [cold : {None, "dropped", "loaded"}, warm : {None, "dropped", "loaded"}]

TypeOK ==
  /\ caller \in Callers
  /\ pc \in Phases /\ purpose \in Purposes
  /\ trial \in 1 .. LoadPairs /\ cell \in 1 .. Len(Cells) /\ batch \in 0 .. Measured
  /\ {error, stopError, raised, first} \subseteq Errors \union {None}
  /\ proc \in {"none", "loading", "serving", "exiting", "exited"}
  /\ code \in {None, "ok", "bad"} /\ signal \in {"none", "term", "kill"}
  /\ monitor \in {"none", "waiting", "sampling", "done", "failed"}
  /\ stopping \in BOOLEAN /\ samples \subseteq 0 .. Len(Cells)
  /\ clients \in Seq(ClientStates) /\ barrier \in {"filling", "tripped", "broken"}
  /\ cache \in {"loaded", "dropped"}
  /\ loads \in Loads /\ pairs \in Seq(Loads)
  /\ gaveUp \subseteq {"process", "monitor"}

Init ==
  /\ caller \in Callers
  /\ pc = IF caller = "measurement" THEN "condition" ELSE "start"
  /\ purpose = CASE caller = "measurement" -> "cold"
                 [] caller = "diagnostic"  -> "final"
                 [] caller = "command"     -> "command"
  /\ trial = 1 /\ cell = 1 /\ batch = 0
  /\ error = None /\ stopError = None /\ raised = None /\ first = None
  /\ proc = "none" /\ code = None /\ signal = "none"
  /\ monitor = "none" /\ stopping = FALSE /\ samples = {}
  /\ clients = <<>> /\ barrier = "filling"
  /\ cache \in {"loaded", "dropped"}
  /\ loads = [cold |-> None, warm |-> None] /\ pairs = <<>>
  /\ gaveUp = {}

Running == proc \in {"loading", "serving", "exiting"}
Sampling == monitor \in {"waiting", "sampling"}
Ended(i) == clients[i] \in {"refused", "failed", "done"}

Remember(e) == first' = IF first = None THEN e ELSE first

\* The call ends by raising e.
Raise(e) == pc' = "ended" /\ raised' = e /\ Remember(e)
Return == pc' = "ended" /\ UNCHANGED <<raised, first>>
Goto(p) == pc' = p /\ UNCHANGED <<raised, first>>
\* Something fails that a clean-up follows.
FailWith(e, p, aim) ==
  /\ error' = e /\ Remember(e) /\ pc' = p /\ purpose' = aim /\ UNCHANGED raised

---------------------------------------------------------------------------
(* Starting and loading.                                                   *)

ConditionCold ==
  /\ pc = "condition"
  /\ \/ cache' = "dropped" /\ Goto("start")
     \/ cache' = cache /\ Raise("conditioning")
  /\ UNCHANGED <<caller, purpose, trial, cell, batch, error, stopError, gaveUp,
                 serverVars, monitorVars, requestVars, recordVars>>

\* Popen.
Start ==
  /\ pc = "start"
  /\ Goto("thread")
  /\ proc' = "loading" /\ code' = None /\ signal' = "none"
  /\ monitor' = "none" /\ stopping' = FALSE /\ samples' = {}
  /\ loads' = IF purpose \in {"cold", "warm"} THEN [loads EXCEPT ![purpose] = cache] ELSE loads
  /\ UNCHANGED <<caller, purpose, trial, cell, batch, error, stopError, gaveUp,
                 requestVars, cache, pairs>>

StartFails ==
  /\ pc = "start" /\ Raise("start")
  /\ UNCHANGED <<caller, purpose, trial, cell, batch, error, stopError, gaveUp,
                 serverVars, monitorVars, requestVars, cache, recordVars>>

StartSampling ==
  /\ pc = "thread"
  /\ Goto(IF caller = "command" THEN "communicate" ELSE "ready")
  /\ monitor' = "waiting"
  /\ UNCHANGED <<caller, purpose, trial, cell, batch, error, stopError, gaveUp, serverVars,
                 stopping, samples, requestVars, cache, recordVars>>

\* No thread can be had.  Only a diagnostic does this in a try block; the
\* others leave the child they have just started.
NoThread ==
  /\ pc = "thread"
  /\ IF caller = "diagnostic"
       THEN /\ FailWith("thread", "wait", "unready")
            /\ signal' = IF proc = "exited" THEN signal ELSE "kill"
       ELSE Raise("thread") /\ UNCHANGED <<purpose, error, signal>>
  /\ UNCHANGED <<caller, trial, cell, batch, stopError, gaveUp, proc, code,
                 monitorVars, requestVars, cache, recordVars>>

\* The process was alive at the last poll, and /health answers.
Healthy ==
  /\ pc = "ready" /\ proc = "serving"
  /\ Goto(CASE purpose = "cold" -> "stop" [] purpose = "warm" -> "compare" [] OTHER -> "prepare")
  /\ UNCHANGED <<caller, purpose, trial, cell, batch, error, stopError, gaveUp,
                 serverVars, monitorVars, requestVars, cache, recordVars>>

\* It exited, or the deadline passed: a process that lives on is killed.
NotHealthy ==
  /\ pc = "ready"
  /\ FailWith("unready", "wait", "unready")
  /\ signal' = IF proc = "exited" THEN signal ELSE "kill"
  /\ UNCHANGED <<caller, trial, cell, batch, stopError, gaveUp, proc, code,
                 monitorVars, requestVars, cache, recordVars>>

LastPair == trial = LoadPairs

\* The cold load's log is examined while the warm server runs; the last warm
\* server is kept for the workload.
CompareLoads ==
  /\ pc = "compare"
  /\ \/ FailWith("comparison", "stop", "abort")
     \/ /\ IF LastPair THEN Goto("prepare") /\ purpose' = "final"
                                ELSE Goto("stop") /\ UNCHANGED purpose
        /\ UNCHANGED error
  /\ UNCHANGED <<caller, trial, cell, batch, stopError, gaveUp,
                 serverVars, monitorVars, requestVars, cache, recordVars>>

---------------------------------------------------------------------------
(* The workload.                                                           *)

NewBatch(c) ==
  clients' = [i \in 1 .. Cells[c] |-> "queued"] /\ barrier' = "filling"

RequestFails ==
  /\ pc = "prepare" /\ FailWith("request", "stop", purpose)
  /\ UNCHANGED <<caller, trial, cell, batch, stopError, gaveUp,
                 serverVars, monitorVars, requestVars, cache, recordVars>>

\* The requests sent one at a time: the contract, the diagnostics, the prompt
\* and two warm-ups, or all of a diagnostic's.
Prepare ==
  /\ pc = "prepare" /\ proc = "serving"
  /\ IF caller = "measurement" THEN Goto("batch") /\ NewBatch(1)
                               ELSE Goto("stop") /\ UNCHANGED requestVars
  /\ UNCHANGED <<caller, purpose, trial, cell, batch, error, stopError, gaveUp,
                 serverVars, monitorVars, cache, recordVars>>

\* Mutant: the first failed request ends the batch while others are running.
BatchOver_AtFirstFailure ==
  \/ \A i \in DOMAIN clients : Ended(i)
  \/ \E i \in DOMAIN clients : clients[i] \in {"refused", "failed"}

\* The executor waits for every thread before the first exception is passed on.
BatchOver == \A i \in DOMAIN clients : Ended(i)

\* Mutant: a batch counts if one of its requests was answered.
BatchAnswered_AnyRequest == \E i \in DOMAIN clients : clients[i] = "done"

BatchAnswered == \A i \in DOMAIN clients : clients[i] = "done"

\* Each cell has one warm-up batch, then the measured ones.
NextBatch ==
  \/ /\ batch < Measured /\ batch' = batch + 1 /\ cell' = cell
     /\ Goto("batch") /\ NewBatch(cell)
  \/ /\ batch = Measured /\ cell < Len(Cells) /\ batch' = 0 /\ cell' = cell + 1
     /\ Goto("batch") /\ NewBatch(cell + 1)
  \/ /\ batch = Measured /\ cell = Len(Cells)
     /\ Goto("stop") /\ UNCHANGED <<cell, batch, requestVars>>

\* A batch whose requests were all answered may still fail its own checks.
CollectBatch ==
  /\ pc = "batch" /\ BatchOver
  /\ \/ BatchAnswered /\ NextBatch /\ UNCHANGED <<purpose, error>>
     \/ FailWith("request", "stop", purpose) /\ UNCHANGED <<cell, batch, requestVars>>
  /\ UNCHANGED <<caller, trial, stopError, gaveUp, serverVars, monitorVars, cache, recordVars>>

CommandEnds ==
  /\ pc = "communicate" /\ proc = "exited"
  /\ Goto("join") /\ stopping' = TRUE
  /\ UNCHANGED <<caller, purpose, trial, cell, batch, error, stopError, gaveUp, serverVars,
                 monitor, samples, requestVars, cache, recordVars>>

CommandTimesOut ==
  /\ pc = "communicate" /\ FailWith("timeout", "wait", purpose)
  /\ signal' = "kill"
  /\ UNCHANGED <<caller, trial, cell, batch, stopError, gaveUp, proc, code,
                 monitorVars, requestVars, cache, recordVars>>

---------------------------------------------------------------------------
(* The clean-up.                                                           *)

\* Which clean-up goes on with its next step after one has failed.
GoesOn ==
  \/ purpose = "unready" \/ caller = "diagnostic"
  \/ caller = "command" /\ pc = "wait"

\* A diagnostic's clean-up keeps the first of its own exceptions.
StopStepFails(e, next) ==
  /\ stopError' = IF caller = "diagnostic" /\ stopError # None THEN stopError ELSE e
  /\ Remember(e)
  /\ pc' = IF GoesOn THEN next ELSE "stopped"
  /\ UNCHANGED raised

StopServer ==
  /\ pc = "stop"
  /\ IF proc = "exited" THEN Goto("join") /\ stopping' = TRUE /\ UNCHANGED signal
                        ELSE /\ Goto("wait") /\ UNCHANGED stopping
                             /\ signal' = IF signal = "kill" THEN "kill" ELSE "term"
  /\ UNCHANGED <<caller, purpose, trial, cell, batch, error, stopError, gaveUp, proc, code,
                 monitor, samples, requestVars, cache, recordVars>>

ProcessReaped ==
  /\ pc = "wait" /\ proc = "exited"
  /\ Goto("join") /\ stopping' = TRUE
  /\ UNCHANGED <<caller, purpose, trial, cell, batch, error, stopError, gaveUp, serverVars,
                 monitor, samples, requestVars, cache, recordVars>>

KillServer ==
  /\ pc = "wait" /\ signal = "term" /\ proc # "exited"
  /\ signal' = "kill"
  /\ UNCHANGED <<caller, mainVars, proc, code, monitorVars, requestVars, cache, recordVars>>

\* Thirty seconds after SIGKILL the process is still not reaped.
Unkillable ==
  /\ pc = "wait" /\ signal = "kill" /\ proc # "exited"
  /\ StopStepFails("unkillable", "join")
  /\ gaveUp' = gaveUp \union {"process"}
  /\ stopping' = (stopping \/ GoesOn)
  /\ UNCHANGED <<caller, purpose, trial, cell, batch, error, serverVars,
                 monitor, samples, requestVars, cache, recordVars>>

\* After the thread has ended: nobody reads the log of a server that never was
\* ready, nor the output of a command that was killed.
AfterJoin ==
  IF purpose = "unready" \/ (caller = "command" /\ {error, stopError} # {None})
    THEN "stopped" ELSE "log"

\* stop(), called of a thread that was started, wants one complete sample and
\* no failure of the thread.
MonitorJoined ==
  /\ pc = "join" /\ ~Sampling
  /\ IF monitor = "failed" \/ (monitor = "done" /\ samples = {})
       THEN StopStepFails("monitor", AfterJoin)
       ELSE Goto(AfterJoin) /\ UNCHANGED stopError
  /\ UNCHANGED <<caller, purpose, trial, cell, batch, error, gaveUp,
                 serverVars, monitorVars, requestVars, cache, recordVars>>

\* nvidia-smi does not come back within the thirty seconds of the join.
MonitorStuck ==
  /\ pc = "join" /\ monitor = "sampling"
  /\ StopStepFails("monitor", AfterJoin)
  /\ gaveUp' = gaveUp \union {"monitor"}
  /\ UNCHANGED <<caller, purpose, trial, cell, batch, error,
                 serverVars, monitorVars, requestVars, cache, recordVars>>

\* The log, or the command's output, is read within its bound and removed.
ReadLog ==
  /\ pc = "log"
  /\ \/ Goto(IF stopError = None THEN "code" ELSE "stopped") /\ UNCHANGED stopError
     \/ StopStepFails("log", "stopped")
  /\ UNCHANGED <<caller, purpose, trial, cell, batch, error, gaveUp,
                 serverVars, monitorVars, requestVars, cache, recordVars>>

CheckCode ==
  /\ pc = "code"
  /\ IF code = "ok" THEN Goto("stopped") /\ UNCHANGED stopError
                    ELSE StopStepFails("exit", "stopped")
  /\ UNCHANGED <<caller, purpose, trial, cell, batch, error, gaveUp,
                 serverVars, monitorVars, requestVars, cache, recordVars>>

---------------------------------------------------------------------------
(* What follows a clean-up.                                                *)

\* Mutant: the warm server is started whatever came of the cold one.
ColdStopped_Anyway ==
  /\ pc = "stopped" /\ purpose = "cold"
  /\ Goto("start") /\ purpose' = "warm"
  /\ UNCHANGED <<caller, trial, cell, batch, error, stopError, gaveUp,
                 serverVars, monitorVars, requestVars, cache, recordVars>>

ColdStopped ==
  /\ pc = "stopped" /\ purpose = "cold"
  /\ IF stopError # None THEN Raise(stopError) /\ UNCHANGED purpose
                         ELSE Goto("start") /\ purpose' = "warm"
  /\ UNCHANGED <<caller, trial, cell, batch, error, stopError, gaveUp,
                 serverVars, monitorVars, requestVars, cache, recordVars>>

\* The warm load is examined, and the pair recorded.
WarmStopped ==
  /\ pc = "stopped" /\ purpose = "warm" /\ stopError = None
  /\ \/ Raise("observation") /\ UNCHANGED <<purpose, trial, recordVars>>
     \/ /\ pairs' = Append(pairs, loads) /\ loads' = [cold |-> None, warm |-> None]
        /\ trial' = trial + 1 /\ purpose' = "cold" /\ Goto("condition")
  /\ UNCHANGED <<caller, cell, batch, error, stopError, gaveUp,
                 serverVars, monitorVars, requestVars, cache>>

\* A warm server that was not stopped is stopped once more, whatever happens.
WarmNotStopped ==
  /\ pc = "stopped" /\ purpose = "warm" /\ stopError # None
  /\ FailWith(stopError, "stop", "abort") /\ stopError' = None
  /\ UNCHANGED <<caller, trial, cell, batch, gaveUp,
                 serverVars, monitorVars, requestVars, cache, recordVars>>

\* The clean-up's own exceptions are suppressed, or notes of the first one.
Abandon ==
  /\ pc = "stopped" /\ purpose \in {"unready", "abort"}
  /\ Raise(error)
  /\ UNCHANGED <<caller, purpose, trial, cell, batch, error, stopError, gaveUp,
                 serverVars, monitorVars, requestVars, cache, recordVars>>

\* Mutant: a clean-up that fails hides the diagnostic's failure.
Prevailing_Cleanup == IF stopError # None THEN stopError ELSE error

\* Which of two exceptions the caller raises: a diagnostic the first one, the
\* others that of their clean-up.
Prevailing ==
  IF stopError # None /\ (caller # "diagnostic" \/ error = None) THEN stopError ELSE error

FailedAfterAll ==
  /\ pc = "stopped" /\ purpose \in {"final", "command"} /\ Prevailing # None
  /\ Raise(Prevailing)
  /\ UNCHANGED <<caller, purpose, trial, cell, batch, error, stopError, gaveUp,
                 serverVars, monitorVars, requestVars, cache, recordVars>>

\* Every cell has a sample between its first and last measured batch.
Windows == caller = "measurement" => 1 .. Len(Cells) \subseteq samples

\* The log is examined: the loads, the placement, the tokens.
Finish ==
  /\ pc = "stopped" /\ purpose \in {"final", "command"} /\ {error, stopError} = {None}
  /\ \/ caller # "command" /\ Raise("observation") /\ UNCHANGED pairs
     \/ ~Windows /\ Raise("window") /\ UNCHANGED pairs
     \/ /\ Windows /\ Return
        /\ pairs' = IF caller = "measurement" THEN Append(pairs, loads) ELSE pairs
  /\ UNCHANGED <<caller, purpose, trial, cell, batch, error, stopError, gaveUp,
                 serverVars, monitorVars, requestVars, cache, loads>>

---------------------------------------------------------------------------
(* The request threads.                                                    *)

Becomes(i, state) == clients' = [clients EXCEPT ![i] = state]
Outside(i) == UNCHANGED <<caller, mainVars, serverVars, monitorVars, cache, recordVars>>

Parties == Len(clients)

Waiting == {i \in DOMAIN clients : clients[i] = "waiting"}

Arrive(i) ==
  /\ clients[i] = "queued"
  /\ IF barrier = "broken"
       THEN Becomes(i, "refused") /\ UNCHANGED barrier
       ELSE /\ Becomes(i, "waiting")
            /\ barrier' = IF Cardinality(Waiting) + 1 >= Parties THEN "tripped" ELSE barrier

\* The work deadline has passed before the thread reached the barrier.
TooLate(i) == clients[i] = "queued" /\ Becomes(i, "refused") /\ UNCHANGED barrier

\* Mutant: the barrier is waited for without a time limit.
BarrierTimesOut_Never(i) == FALSE

BarrierTimesOut(i) ==
  /\ clients[i] = "waiting" /\ barrier = "filling"
  /\ Becomes(i, "refused") /\ barrier' = "broken"

PassBarrier(i) ==
  /\ clients[i] = "waiting" /\ barrier # "filling"
  /\ Becomes(i, IF barrier = "tripped" THEN "streaming" ELSE "refused")
  /\ UNCHANGED barrier

\* All tokens and the terminal event, from a server that lives.
StreamEnds(i) ==
  /\ clients[i] = "streaming" /\ proc = "serving"
  /\ Becomes(i, "done") /\ UNCHANGED barrier

StreamFails(i) == clients[i] = "streaming" /\ Becomes(i, "failed") /\ UNCHANGED barrier

RequestStep(i) ==
  /\ i \in DOMAIN clients
  /\ \/ Arrive(i) \/ TooLate(i) \/ BarrierTimesOut(i) \/ PassBarrier(i)
     \/ StreamEnds(i) \/ StreamFails(i)
  /\ Outside(i)

---------------------------------------------------------------------------
(* The sampling thread.                                                    *)

BeginSample ==
  /\ monitor = "waiting"
  /\ monitor' = IF stopping THEN "done" ELSE "sampling"
  /\ UNCHANGED samples

\* The measured batches of which cell are under way.
Window == IF pc = "batch" /\ batch > 0 THEN cell ELSE 0

EndSample ==
  /\ monitor = "sampling" /\ proc \in {"loading", "serving", "exiting"}
  /\ monitor' = "waiting" /\ samples' = samples \union {Window}

\* The process is gone or a zombie.
NoProcess ==
  /\ monitor = "sampling" /\ proc \in {"exiting", "exited"}
  /\ monitor' = "done" /\ UNCHANGED samples

\* nvidia-smi fails; or the process has given up its memory and is not yet a
\* zombie, so that its status has no VmRSS.
SampleFails ==
  /\ monitor = "sampling" /\ monitor' = "failed" /\ UNCHANGED samples

MonitorStep ==
  /\ BeginSample \/ EndSample \/ NoProcess \/ SampleFails
  /\ UNCHANGED <<caller, mainVars, serverVars, stopping, requestVars, cache, recordVars>>

---------------------------------------------------------------------------
(* The child process.                                                      *)

FinishLoading ==
  /\ proc = "loading" /\ caller # "command" /\ signal # "kill"
  /\ proc' = "serving" /\ cache' = "loaded" /\ UNCHANGED code

\* It ends by itself, crashes, or follows a signal.
BeginExit ==
  /\ proc \in {"loading", "serving"}
  /\ proc' = "exiting"
  /\ code' \in IF signal = "kill" THEN {"bad"} ELSE {"ok", "bad"}
  /\ UNCHANGED cache

EndExit == proc = "exiting" /\ proc' = "exited" /\ UNCHANGED <<code, cache>>

ProcessStep ==
  /\ FinishLoading \/ BeginExit \/ EndExit
  /\ UNCHANGED <<caller, mainVars, signal, monitorVars, requestVars, recordVars>>

---------------------------------------------------------------------------
MainStep ==
  \/ ConditionCold \/ Start \/ StartFails \/ StartSampling \/ NoThread \/ Healthy \/ NotHealthy \/ CompareLoads
  \/ RequestFails \/ Prepare \/ CollectBatch \/ CommandEnds \/ CommandTimesOut
  \/ StopServer \/ ProcessReaped \/ KillServer \/ Unkillable
  \/ MonitorJoined \/ MonitorStuck \/ ReadLog \/ CheckCode
  \/ ColdStopped \/ WarmStopped \/ WarmNotStopped \/ Abandon \/ FailedAfterAll \/ Finish

Next ==
  \/ MainStep \/ MonitorStep \/ ProcessStep
  \/ \E i \in DOMAIN clients : RequestStep(i)

Spec == Init /\ [][Next]_vars

\* The threads are scheduled, and every wait has a time limit; nothing is
\* assumed of the child process.
FairSpec ==
  /\ Spec /\ WF_vars(MainStep) /\ WF_vars(MonitorStep)
  /\ WF_vars(\E i \in DOMAIN clients : RequestStep(i))

---------------------------------------------------------------------------
(* Properties.                                                             *)

\* A model is loaded only when the one before is out of memory: no child
\* process, sampling thread or request is left when a server is started, so
\* /health, which is asked on the same port each time, is answered by the
\* process just started (_start_server, _stop_server).
OneServer ==
  pc \in {"condition", "start"} =>
    ~Running /\ ~Sampling /\ \A i \in DOMAIN clients : Ended(i)

\* A load or a command for which no sampling thread could be had.
NeverSampled == raised = "thread" /\ caller # "diagnostic"

\* When the call has returned or raised, from whatever step, its child and its
\* threads are gone, except those it waited for in vain, and except the child
\* of a load or a command for which no sampling thread could be had, which
\* nobody stops (_start_server, _run_captured).
NothingLeft ==
  /\ pc = "ended" => /\ Running => "process" \in gaveUp \/ NeverSampled
                     /\ Sampling => gaveUp # {}
  /\ pc # "batch" => \A i \in DOMAIN clients : Ended(i)

\* What the evidence claims of the load pairs in constant fields is true: the
\* cold load found the pages dropped, the warm one those of the cold load
\* (warm_load_is_next_model_load_after_cold).
PairsHonest ==
  \A k \in DOMAIN pairs : pairs[k] = [cold |-> "dropped", warm |-> "loaded"]

\* A call returns only after all pairs, after a workload of which every request
\* of every batch was answered and every cell was sampled, by a child that was
\* reaped with an accepted exit code, with nothing gone wrong on the way.
ResultEarned ==
  pc = "ended" /\ raised = None =>
    /\ first = None /\ gaveUp = {} /\ proc = "exited" /\ code = "ok" /\ samples # {}
    /\ caller = "measurement" =>
         /\ Len(pairs) = LoadPairs
         /\ cell = Len(Cells) /\ batch = Measured /\ DOMAIN clients = 1 .. Cells[cell]
         /\ \A i \in DOMAIN clients : clients[i] = "done"
         /\ 1 .. Len(Cells) \subseteq samples

\* The exception that ends a call is the first that happened in it, except
\* where a clean-up follows: that of a measurement's last server, or of a
\* command, may replace what made it necessary; that of a diagnostic never
\* does (add_note).
FirstErrorRaised ==
  pc = "ended" /\ raised # first =>
    /\ caller # "diagnostic" /\ raised \in StopErrors
    /\ first \in {"request", "timeout"}

\* A call ends, also when the child hangs, never becomes healthy or ignores its
\* signals, or a request thread never comes to the barrier.
CallEnds == <>(pc = "ended")
=============================================================================
