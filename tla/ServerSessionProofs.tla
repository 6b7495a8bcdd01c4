------------------------ MODULE ServerSessionProofs ------------------------
(***************************************************************************)
(* For any workload and any number of load pairs: a model is loaded only   *)
(* when nothing of the load before is left, and a call that ends leaves    *)
(* only what it waited for in vain, or a child that could not be sampled.  *)
(***************************************************************************)
EXTENDS ServerSession, TLAPS

CleanUp == {"join", "log", "code", "stopped", "ended"}

\* The inductive invariant, in four parts: nothing runs before a start; behind
\* each step of a clean-up, what it waited for is gone or was given up; a load
\* of a pair goes on only if nothing was given up; requests live in a batch.
NothingBeforeStart ==
  /\ pc \in {"condition", "start"} => ~Running /\ ~Sampling /\ gaveUp = {}
  /\ pc = "thread" => ~Sampling

CleanedUp ==
  /\ pc \in CleanUp => (Running => "process" \in gaveUp \/ (pc = "ended" /\ NeverSampled))
  /\ pc \in CleanUp \ {"join"} => (Sampling => gaveUp # {})

PairGoesOn ==
  purpose \in {"cold", "warm"} =>
    /\ caller = "measurement"
    /\ pc \notin {"stopped", "ended"} => gaveUp = {}
    /\ pc = "stopped" /\ stopError = None => gaveUp = {}

RequestsInBatch == pc # "batch" => \A i \in DOMAIN clients : Ended(i)

IInv == NothingBeforeStart /\ CleanedUp /\ PairGoesOn /\ RequestsInBatch

\* The invariant holds of a call that has not begun.
LEMMA InitIInv == Init => IInv
<1> SUFFICES ASSUME Init PROVE IInv
  OBVIOUS
<1>1. /\ caller \in {"measurement", "diagnostic", "command"}
      /\ pc \in {"condition", "start"} /\ gaveUp = {}
      /\ proc = "none" /\ monitor = "none" /\ DOMAIN clients = {}
  BY SessionAssumption DEF SessionAssumption, Init
<1>2. purpose \in {"cold", "warm"} => caller = "measurement"
  BY <1>1 DEF Init
<1> QED BY <1>1, <1>2 DEF IInv, NothingBeforeStart, CleanedUp, PairGoesOn, RequestsInBatch,
             CleanUp, Running, Sampling

\* A failed step of the clean-up goes on or stops, and is remembered.
LEMMA FailedStep ==
  ASSUME NEW e \in StopErrors, NEW next, StopStepFails(e, next)
  PROVE  /\ pc' \in {next, "stopped"}
         /\ ~GoesOn => pc' = "stopped"
         /\ caller = "measurement" => stopError' # None
  BY SessionAssumption DEF SessionAssumption, Errors, StopStepFails

\* No step before or between clean-ups breaks the invariant.
LEMMA WorkKeepsIInv ==
  ASSUME IInv,
         \/ ConditionCold \/ Start \/ StartFails \/ StartSampling \/ NoThread \/ Healthy \/ NotHealthy \/ CompareLoads
         \/ RequestFails \/ Prepare \/ CollectBatch \/ CommandEnds \/ CommandTimesOut
  PROVE  IInv'
<1> USE DEF IInv, NothingBeforeStart, CleanedUp, PairGoesOn, RequestsInBatch, CleanUp, NeverSampled,
            Running, Sampling, Ended, Goto, Raise, FailWith, serverVars, monitorVars,
            requestVars, recordVars
<1>1. CASE ConditionCold BY <1>1 DEF ConditionCold
<1>2. CASE Start BY <1>2 DEF Start
<1>3. CASE StartFails BY <1>3 DEF StartFails
<1>4. CASE Healthy BY <1>4 DEF Healthy
<1>5. CASE NotHealthy BY <1>5 DEF NotHealthy
<1>6. CASE CompareLoads BY <1>6 DEF CompareLoads
<1>7. CASE RequestFails BY <1>7 DEF RequestFails
<1>8. CASE Prepare BY <1>8 DEF Prepare, NewBatch
<1>9. CASE CollectBatch
  <2>1. /\ pc = "batch" /\ pc' \in {"batch", "stop"} /\ BatchOver
        /\ UNCHANGED <<caller, purpose, gaveUp, stopError, proc, monitor>>
    BY <1>9 DEF CollectBatch, NextBatch
  <2>2. pc' = "stop" => clients' = clients
    BY <1>9 DEF CollectBatch, NextBatch
  <2> QED BY <2>1, <2>2 DEF BatchOver
<1>10. CASE CommandEnds BY <1>10 DEF CommandEnds
<1>11. CASE CommandTimesOut BY <1>11 DEF CommandTimesOut
<1>12. CASE StartSampling BY <1>12 DEF StartSampling
<1>13. CASE NoThread BY <1>13 DEF NoThread
<1> QED BY <1>1, <1>2, <1>3, <1>4, <1>5, <1>6, <1>7, <1>8, <1>9, <1>10, <1>11, <1>12, <1>13

\* Each step of a clean-up leaves behind it what it should.
LEMMA StopKeepsIInv ==
  ASSUME IInv,
         \/ StopServer \/ ProcessReaped \/ KillServer \/ Unkillable
         \/ MonitorJoined \/ MonitorStuck \/ ReadLog \/ CheckCode
  PROVE  IInv'
<1> USE DEF IInv, NothingBeforeStart, CleanedUp, PairGoesOn, RequestsInBatch, CleanUp,
            Running, Sampling, Ended, Goto, serverVars, monitorVars, requestVars, recordVars
<1>1. CASE StopServer BY <1>1 DEF StopServer
<1>2. CASE ProcessReaped BY <1>2 DEF ProcessReaped
<1>3. CASE KillServer BY <1>3 DEF KillServer, mainVars
<1>4. CASE Unkillable
  <2>1. /\ pc' \in {"join", "stopped"} /\ (~GoesOn => pc' = "stopped")
        /\ caller = "measurement" => stopError' # None
    BY <1>4, FailedStep DEF Unkillable, StopErrors
  <2>2. pc = "wait" /\ gaveUp' = gaveUp \union {"process"} /\ "process" \in gaveUp'
    BY <1>4 DEF Unkillable
  <2>3. purpose \in {"cold", "warm"} => ~GoesOn
    BY <2>2 DEF GoesOn
  <2>4. UNCHANGED <<caller, purpose, proc, monitor, clients>>
    BY <1>4 DEF Unkillable
  <2> QED BY <2>1, <2>2, <2>3, <2>4
<1>5. CASE MonitorJoined
  <2>1. AfterJoin \in {"log", "stopped"}
    BY DEF AfterJoin
  <2>2. pc' \in {"log", "stopped"} /\ (stopError' = stopError \/ pc' = "stopped" \/ GoesOn)
    BY <1>5, <2>1 DEF MonitorJoined, StopStepFails
  <2>3. /\ pc = "join" /\ ~Sampling
        /\ UNCHANGED <<caller, purpose, gaveUp, proc, monitor, clients>>
    BY <1>5 DEF MonitorJoined
  <2> QED BY <2>2, <2>3
<1>6. CASE MonitorStuck
  <2>1. AfterJoin \in {"log", "stopped"}
    BY DEF AfterJoin
  <2>2. /\ pc' \in {"log", "stopped"} /\ (~GoesOn => pc' = "stopped")
        /\ caller = "measurement" => stopError' # None
    BY <1>6, <2>1, FailedStep DEF MonitorStuck, StopErrors
  <2>3. pc = "join" /\ gaveUp' = gaveUp \union {"monitor"} /\ gaveUp' # {}
    BY <1>6 DEF MonitorStuck
  <2>4. purpose \in {"cold", "warm"} => ~GoesOn
    BY <2>3 DEF GoesOn
  <2>5. UNCHANGED <<caller, purpose, proc, monitor, clients>>
    BY <1>6 DEF MonitorStuck
  <2> QED BY <2>2, <2>3, <2>4, <2>5
<1>7. CASE ReadLog BY <1>7 DEF ReadLog, StopStepFails
<1>8. CASE CheckCode BY <1>8 DEF CheckCode, StopStepFails
<1> QED BY <1>1, <1>2, <1>3, <1>4, <1>5, <1>6, <1>7, <1>8

\* Nor does what the caller does next; a pair goes on to its second load, and
\* to the next pair, only behind a clean-up without an exception.
LEMMA SettleKeepsIInv ==
  ASSUME IInv,
         ColdStopped \/ WarmStopped \/ WarmNotStopped \/ Abandon \/ FailedAfterAll \/ Finish
  PROVE  IInv'
<1> USE DEF IInv, NothingBeforeStart, CleanedUp, PairGoesOn, RequestsInBatch, CleanUp,
            Running, Sampling, Ended, Goto, Raise, Return, FailWith, serverVars, monitorVars,
            requestVars, recordVars
<1>1. CASE ColdStopped BY <1>1 DEF ColdStopped
<1>2. CASE WarmStopped BY <1>2 DEF WarmStopped
<1>3. CASE WarmNotStopped BY <1>3 DEF WarmNotStopped
<1>4. CASE Abandon BY <1>4 DEF Abandon
<1>5. CASE FailedAfterAll BY <1>5 DEF FailedAfterAll
<1>6. CASE Finish BY <1>6 DEF Finish
<1> QED BY <1>1, <1>2, <1>3, <1>4, <1>5, <1>6

\* A request thread moves only while a batch is under way.
LEMMA RequestKeepsIInv ==
  ASSUME IInv, NEW i \in DOMAIN clients, RequestStep(i)
  PROVE  IInv'
<1>1. ~Ended(i)
  BY DEF RequestStep, Arrive, TooLate, BarrierTimesOut, PassBarrier, StreamEnds, StreamFails,
         Ended
<1>2. pc = "batch"
  BY <1>1 DEF IInv, RequestsInBatch
<1>3. UNCHANGED <<caller, mainVars, serverVars, monitorVars>>
  BY DEF RequestStep, Outside
<1> QED BY <1>2, <1>3 DEF IInv, NothingBeforeStart, CleanedUp, PairGoesOn, RequestsInBatch,
             CleanUp, Running, Sampling, mainVars, serverVars, monitorVars

\* A child that has exited, and a sampling thread that has ended, stay so.
LEMMA OthersKeepIInv ==
  ASSUME IInv, MonitorStep \/ ProcessStep \/ UNCHANGED vars
  PROVE  IInv'
<1>1. UNCHANGED <<caller, mainVars, clients>> /\ (Running' => Running) /\ (Sampling' => Sampling)
  <2>1. CASE MonitorStep
    BY <2>1 DEF MonitorStep, BeginSample, EndSample, NoProcess, SampleFails, Running, Sampling,
                serverVars, requestVars
  <2>2. CASE ProcessStep
    BY <2>2 DEF ProcessStep, FinishLoading, BeginExit, EndExit, Running, Sampling,
                monitorVars, requestVars
  <2>3. CASE UNCHANGED vars
    BY <2>3 DEF vars, Running, Sampling, serverVars, monitorVars, requestVars
  <2> QED BY <2>1, <2>2, <2>3
<1> QED BY <1>1 DEF IInv, NothingBeforeStart, CleanedUp, NeverSampled, PairGoesOn,
             RequestsInBatch, Ended, mainVars

\* IInv is an invariant of every call.
THEOREM SessionInvariant == Spec => []IInv
<1>1. IInv /\ [Next]_vars => IInv'
  <2> SUFFICES ASSUME IInv, [Next]_vars PROVE IInv'
    OBVIOUS
  <2> QED BY WorkKeepsIInv, StopKeepsIInv, SettleKeepsIInv, RequestKeepsIInv, OthersKeepIInv
          DEF Next, MainStep
<1> QED BY InitIInv, <1>1, PTL DEF Spec

\* A model is loaded only when no child process, sampling thread or request of
\* the load before is left (_start_server, _stop_server).
THEOREM ServersNeverOverlap == Spec => []OneServer
<1>1. IInv => OneServer
  BY DEF IInv, NothingBeforeStart, RequestsInBatch, OneServer
<1> QED BY SessionInvariant, <1>1, PTL

\* A call that has ended left nothing behind but what it waited for in vain,
\* or a child that no try block guards because no thread could sample it.
THEOREM CallLeavesNothing == Spec => []NothingLeft
<1>1. IInv => NothingLeft
  BY DEF IInv, CleanedUp, RequestsInBatch, NothingLeft, CleanUp, NeverSampled
<1> QED BY SessionInvariant, <1>1, PTL

-----------------------------------------------------------------------------
\* Which exception a call ends with.  Until it ends, the first one is the one
\* that the clean-up follows, or else that of the clean-up.
Working == {"condition", "start", "thread", "ready", "compare", "prepare", "batch", "communicate"}

EInv ==
  /\ pc # "ended" => raised = None /\ first = IF error # None THEN error ELSE stopError
  /\ pc \in Working => error = None /\ stopError = None
  /\ error = None /\ caller # "diagnostic" /\ pc \notin {"stopped", "ended"} => stopError = None
  /\ stopError \in StopErrors \union {None}
  /\ purpose \in {"cold", "warm"} => error = None
  /\ purpose \in {"final", "command"} => error \in {None, "request", "timeout"}
  /\ purpose \in {"unready", "abort"} => error # None
  /\ caller = "command" => /\ purpose = "command"
                           /\ pc \notin {"ready", "compare", "prepare", "batch", "stop"}
                           /\ pc = "wait" => error # None
  /\ pc \in {"prepare", "batch"} => purpose = "final"
  /\ pc \in {"condition", "start", "thread", "ready"} =>
       purpose \in {"cold", "warm", "final"} \/ caller = "command"
  /\ pc = "communicate" => caller = "command"
  /\ gaveUp # {} => first # None
  /\ FirstErrorRaised

\* It holds of a call that has not begun.
LEMMA InitEInv == Init => EInv
<1> SUFFICES ASSUME Init PROVE EInv
  OBVIOUS
<1>1. /\ caller \in {"measurement", "diagnostic", "command"}
      /\ pc \in {"condition", "start"} /\ gaveUp = {}
      /\ error = None /\ stopError = None /\ first = None /\ raised = None
  BY SessionAssumption DEF SessionAssumption, Init
<1>2. /\ purpose \in {"cold", "final"} \/ caller = "command"
      /\ caller = "command" => purpose = "command"
  BY <1>1 DEF Init
<1> QED BY <1>1, <1>2 DEF EInv, Working, FirstErrorRaised

\* None is no exception.
LEMMA NoneIsNoError ==
  /\ None \notin StopErrors
  /\ None \notin {"conditioning", "start", "thread", "unready", "comparison", "request",
                  "timeout", "observation", "window"}
  BY SessionAssumption DEF SessionAssumption, Errors

\* Work that fails hands its exception to a clean-up.
LEMMA FailedWorkKeepsEInv ==
  ASSUME EInv, pc \in Working, NEW p \in {"stop", "wait"},
         NEW e \in {"thread", "unready", "comparison", "request", "timeout"},
         NEW aim \in {"unready", "abort", "final", "command"}, FailWith(e, p, aim),
         UNCHANGED <<caller, stopError, gaveUp>>,
         aim \in {"final", "command"} => e \in {"request", "timeout"},
         caller = "command" => p = "wait" /\ aim = "command"
  PROVE  EInv'
<1>1. e # None
  BY NoneIsNoError
<1>2. error = None /\ stopError = None /\ first = None /\ raised = None
  BY DEF EInv, Working
<1>3. first' = e /\ error' = e /\ stopError' = None /\ raised' = None
  BY <1>2 DEF FailWith, Remember
<1>4. pc' = p /\ purpose' = aim
  BY DEF FailWith
<1> QED BY <1>1, <1>3, <1>4 DEF EInv, Working, FirstErrorRaised

\* No step before or between clean-ups breaks it.
LEMMA WorkKeepsEInv ==
  ASSUME EInv,
         \/ ConditionCold \/ Start \/ StartFails \/ StartSampling \/ NoThread \/ Healthy \/ NotHealthy \/ CompareLoads
         \/ RequestFails \/ Prepare \/ CollectBatch \/ CommandEnds \/ CommandTimesOut
  PROVE  EInv'
<1> USE NoneIsNoError DEF EInv, Working, FirstErrorRaised, Goto, Raise, Remember
<1>1. CASE ConditionCold BY <1>1 DEF ConditionCold
<1>2. CASE Start BY <1>2 DEF Start
<1>3. CASE StartFails BY <1>3 DEF StartFails
<1>4. CASE Healthy BY <1>4 DEF Healthy
<1>5. CASE NotHealthy BY <1>5, FailedWorkKeepsEInv DEF NotHealthy
<1>6. CASE CompareLoads
  <2>1. CASE FailWith("comparison", "stop", "abort")
    BY <1>6, <2>1, FailedWorkKeepsEInv DEF CompareLoads
  <2>2. CASE ~FailWith("comparison", "stop", "abort")
    BY <1>6, <2>2 DEF CompareLoads
  <2> QED BY <2>1, <2>2
<1>7. CASE RequestFails BY <1>7, FailedWorkKeepsEInv DEF RequestFails
<1>8. CASE Prepare BY <1>8 DEF Prepare
<1>9. CASE CollectBatch
  <2>1. CASE FailWith("request", "stop", purpose)
    BY <1>9, <2>1, FailedWorkKeepsEInv DEF CollectBatch
  <2>2. CASE ~FailWith("request", "stop", purpose)
    BY <1>9, <2>2 DEF CollectBatch, NextBatch
  <2> QED BY <2>1, <2>2
<1>10. CASE CommandEnds BY <1>10 DEF CommandEnds
<1>11. CASE CommandTimesOut BY <1>11, FailedWorkKeepsEInv DEF CommandTimesOut
<1>12. CASE StartSampling BY <1>12 DEF StartSampling
<1>13. CASE NoThread
  <2>1. CASE caller = "diagnostic"
    BY <1>13, <2>1, FailedWorkKeepsEInv DEF NoThread
  <2>2. CASE caller # "diagnostic"
    BY <1>13, <2>2 DEF NoThread
  <2> QED BY <2>1, <2>2
<1> QED BY <1>1, <1>2, <1>3, <1>4, <1>5, <1>6, <1>7, <1>8, <1>9, <1>10, <1>11, <1>12, <1>13

\* A failed step of the clean-up keeps the first exception the first.
LEMMA FailedStepKeepsEInv ==
  ASSUME EInv, NEW e \in StopErrors, NEW next \in {"join", "log", "stopped"},
         pc \in {"wait", "join", "log", "code"}, StopStepFails(e, next),
         UNCHANGED <<caller, purpose, error>>
  PROVE  EInv'
<1>1. e # None
  BY NoneIsNoError
<1>2. /\ first' = IF error' # None THEN error' ELSE stopError'
      /\ first' # None
  BY <1>1 DEF EInv, StopStepFails, Remember
<1>3. stopError' \in StopErrors
  BY <1>1 DEF EInv, StopStepFails
<1>4. pc' \in {"join", "log", "stopped"} /\ raised' = raised
  BY DEF StopStepFails
<1>5. error = None /\ caller # "diagnostic" => pc' = "stopped"
  BY DEF EInv, StopStepFails, GoesOn
<1> QED BY <1>2, <1>3, <1>4, <1>5 DEF EInv, Working, FirstErrorRaised

\* Neither does a clean-up.
LEMMA StopKeepsEInv ==
  ASSUME EInv,
         \/ StopServer \/ ProcessReaped \/ KillServer \/ Unkillable
         \/ MonitorJoined \/ MonitorStuck \/ ReadLog \/ CheckCode
  PROVE  EInv'
<1>0. AfterJoin \in {"log", "stopped"}
  BY DEF AfterJoin
<1>1. CASE StopServer
  BY <1>1 DEF StopServer, EInv, Working, FirstErrorRaised, Goto
<1>2. CASE ProcessReaped
  BY <1>2 DEF ProcessReaped, EInv, Working, FirstErrorRaised, Goto
<1>3. CASE KillServer
  BY <1>3 DEF KillServer, mainVars, EInv, Working, FirstErrorRaised
<1>4. CASE Unkillable
  BY <1>4, FailedStepKeepsEInv DEF Unkillable, StopErrors
<1>5. CASE MonitorJoined
  <2>1. CASE monitor = "failed" \/ (monitor = "done" /\ samples = {})
    BY <1>5, <1>0, <2>1, FailedStepKeepsEInv DEF MonitorJoined, StopErrors
  <2>2. CASE ~(monitor = "failed" \/ (monitor = "done" /\ samples = {}))
    BY <1>5, <1>0, <2>2 DEF MonitorJoined, EInv, Working, FirstErrorRaised, Goto
  <2> QED BY <2>1, <2>2
<1>6. CASE MonitorStuck
  BY <1>6, <1>0, FailedStepKeepsEInv DEF MonitorStuck, StopErrors
<1>7. CASE ReadLog
  <2>1. CASE StopStepFails("log", "stopped")
    BY <1>7, <2>1, FailedStepKeepsEInv DEF ReadLog, StopErrors
  <2>2. CASE ~StopStepFails("log", "stopped")
    BY <1>7, <2>2 DEF ReadLog, EInv, Working, FirstErrorRaised, Goto
  <2> QED BY <2>1, <2>2
<1>8. CASE CheckCode
  <2>1. CASE code = "ok"
    BY <1>8, <2>1 DEF CheckCode, EInv, Working, FirstErrorRaised, Goto
  <2>2. CASE code # "ok"
    BY <1>8, <2>2, FailedStepKeepsEInv DEF CheckCode, StopErrors
  <2> QED BY <2>1, <2>2
<1> QED BY <1>1, <1>2, <1>3, <1>4, <1>5, <1>6, <1>7, <1>8

\* Nor the way a call ends.
LEMMA SettleKeepsEInv ==
  ASSUME EInv,
         ColdStopped \/ WarmStopped \/ WarmNotStopped \/ Abandon \/ FailedAfterAll \/ Finish
  PROVE  EInv'
<1> USE NoneIsNoError DEF EInv, Working, FirstErrorRaised, Goto, Raise, Return, FailWith,
                          Remember
<1>1. CASE ColdStopped BY <1>1 DEF ColdStopped
<1>2. CASE WarmStopped BY <1>2 DEF WarmStopped
<1>3. CASE WarmNotStopped BY <1>3 DEF WarmNotStopped
<1>4. CASE Abandon BY <1>4 DEF Abandon
<1>5. CASE FailedAfterAll BY <1>5 DEF FailedAfterAll, Prevailing
<1>6. CASE Finish
  <2>1. error = None /\ stopError = None
    BY <1>6 DEF Finish
  <2>2. /\ pc = "stopped" /\ pc' = "ended" /\ UNCHANGED <<caller, purpose, error, stopError, gaveUp>>
        /\ UNCHANGED <<raised, first>> \/ (raised' = first' /\ first' # None)
    BY <1>6, <2>1 DEF Finish
  <2> QED BY <2>1, <2>2
<1> QED BY <1>1, <1>2, <1>3, <1>4, <1>5, <1>6

\* EInv is an invariant of every call.
LEMMA ErrorInvariant == Spec => []EInv
<1>1. EInv /\ [Next]_vars => EInv'
  <2> SUFFICES ASSUME EInv, [Next]_vars PROVE EInv'
    OBVIOUS
  <2>1. CASE MonitorStep \/ ProcessStep \/ UNCHANGED vars \/ \E i \in DOMAIN clients : RequestStep(i)
    <3>1. UNCHANGED <<caller, mainVars>>
      BY <2>1 DEF MonitorStep, ProcessStep, RequestStep, Outside, vars
    <3> QED BY <3>1 DEF EInv, Working, FirstErrorRaised, mainVars
  <2> QED BY <2>1, WorkKeepsEInv, StopKeepsEInv, SettleKeepsEInv DEF Next, MainStep
<1> QED BY InitEInv, <1>1, PTL DEF Spec

\* The exception of a call is the first one, except that a clean-up's may
\* replace the failed request of a measurement or the timeout of a command.
THEOREM FirstErrorIsRaised == Spec => []FirstErrorRaised
<1>1. EInv => FirstErrorRaised
  BY DEF EInv
<1> QED BY ErrorInvariant, <1>1, PTL

-----------------------------------------------------------------------------
\* What the loads of a pair find in the page cache, from the conditioning on.
AfterReady == {"stop", "wait", "join", "log", "code", "stopped"}
HonestPair == [cold |-> "dropped", warm |-> "loaded"]

HInv ==
  /\ loads \in Loads /\ pairs \in Seq(Loads) /\ PairsHonest
  /\ proc = "serving" => cache = "loaded"
  /\ pc = "condition" => purpose = "cold"
  /\ pc = "compare" => purpose = "warm"
  /\ purpose = "command" => caller = "command"
  /\ purpose = "cold" => /\ pc = "start" => cache = "dropped"
                         /\ pc \in {"thread", "ready"} => loads.cold = "dropped"
                         /\ pc \in AfterReady => cache = "loaded" /\ loads.cold = "dropped"
                         /\ pc \notin {"compare", "prepare", "batch", "communicate"}
  /\ purpose = "warm" => /\ cache = "loaded" /\ loads.cold = "dropped"
                         /\ pc \notin {"start", "ended"} => loads.warm = "loaded"
  /\ purpose = "final" /\ caller = "measurement" => loads = HonestPair

\* The loads are a record of two fields.
LEMMA LoadsRecord ==
  ASSUME loads \in Loads
  PROVE  /\ [loads EXCEPT !["cold"] = cache].cold = cache
         /\ [loads EXCEPT !["warm"] = cache].cold = loads.cold
         /\ [loads EXCEPT !["warm"] = cache].warm = cache
         /\ loads.cold = "dropped" /\ loads.warm = "loaded" => loads = HonestPair
         /\ cache \in {"loaded", "dropped"} => [loads EXCEPT !["cold"] = cache] \in Loads
         /\ cache \in {"loaded", "dropped"} => [loads EXCEPT !["warm"] = cache] \in Loads
  BY DEF Loads, HonestPair

\* It holds of a call that has not begun.
LEMMA InitHInv == Init => HInv
<1> SUFFICES ASSUME Init PROVE HInv
  OBVIOUS
<1>1. /\ caller \in {"measurement", "diagnostic", "command"}
      /\ proc = "none" /\ pairs = <<>> /\ loads = [cold |-> None, warm |-> None]
  BY SessionAssumption DEF SessionAssumption, Init
<1>2. \/ caller = "measurement" /\ pc = "condition" /\ purpose = "cold"
      \/ caller = "diagnostic" /\ pc = "start" /\ purpose = "final"
      \/ caller = "command" /\ pc = "start" /\ purpose = "command"
  BY <1>1 DEF Init
<1>3. loads \in Loads /\ pairs \in Seq(Loads) /\ DOMAIN pairs = {}
  BY <1>1 DEF Loads
<1> QED BY <1>1, <1>2, <1>3 DEF HInv, PairsHonest, AfterReady

\* The pages are dropped when nothing is loaded, and loaded by the next start.
LEMMA WorkKeepsHInv ==
  ASSUME IInv, EInv, HInv, cache \in {"loaded", "dropped"},
         \/ ConditionCold \/ Start \/ StartFails \/ StartSampling \/ NoThread \/ Healthy \/ NotHealthy \/ CompareLoads
         \/ RequestFails \/ Prepare \/ CollectBatch \/ CommandEnds \/ CommandTimesOut
  PROVE  HInv'
<1> USE DEF HInv, PairsHonest, AfterReady, Goto, Raise, FailWith
<1>1. CASE ConditionCold
  <2>1. ~Running
    BY <1>1 DEF IInv, NothingBeforeStart, ConditionCold
  <2> QED BY <1>1, <2>1 DEF ConditionCold, Running, recordVars, serverVars
<1>2. CASE Start
  <2>1. /\ pc = "start" /\ pc' = "thread" /\ proc' = "loading"
        /\ UNCHANGED <<caller, purpose, cache, pairs>>
    BY <1>2 DEF Start
  <2>2. CASE purpose = "cold"
    <3>1. loads' = [loads EXCEPT !["cold"] = cache]
      BY <1>2, <2>2 DEF Start
    <3>2. loads' \in Loads /\ loads'.cold = "dropped"
      BY <2>1, <2>2, <3>1, LoadsRecord
    <3> QED BY <2>1, <2>2, <3>2 DEF IInv, PairGoesOn
  <2>3. CASE purpose = "warm"
    <3>1. loads' = [loads EXCEPT !["warm"] = cache]
      BY <1>2, <2>3 DEF Start
    <3>2. loads' \in Loads /\ loads'.cold = "dropped" /\ loads'.warm = "loaded"
      BY <2>3, <3>1, LoadsRecord
    <3> QED BY <2>1, <2>3, <3>2
  <2>4. CASE purpose \notin {"cold", "warm"}
    BY <1>2, <2>1, <2>4 DEF Start
  <2> QED BY <2>2, <2>3, <2>4
<1>3. CASE StartFails BY <1>3 DEF StartFails, recordVars, serverVars
<1>4. CASE Healthy BY <1>4 DEF Healthy, recordVars, serverVars, EInv
<1>5. CASE NotHealthy BY <1>5 DEF NotHealthy, recordVars
<1>6. CASE CompareLoads
  <2>1. purpose = "warm" => loads = HonestPair
    BY <1>6, LoadsRecord DEF CompareLoads
  <2> QED BY <1>6, <2>1 DEF CompareLoads, recordVars, serverVars
<1>7. CASE RequestFails BY <1>7 DEF RequestFails, recordVars, serverVars, EInv
<1>8. CASE Prepare BY <1>8 DEF Prepare, recordVars, serverVars, EInv
<1>9. CASE CollectBatch BY <1>9 DEF CollectBatch, NextBatch, recordVars, serverVars, EInv
<1>10. CASE CommandEnds BY <1>10 DEF CommandEnds, recordVars, serverVars, EInv
<1>11. CASE CommandTimesOut BY <1>11 DEF CommandTimesOut, recordVars, EInv
<1>12. CASE StartSampling BY <1>12 DEF StartSampling, recordVars, serverVars, IInv, PairGoesOn
<1>13. CASE NoThread BY <1>13 DEF NoThread, recordVars, EInv, IInv, PairGoesOn
<1> QED BY <1>1, <1>2, <1>3, <1>4, <1>5, <1>6, <1>7, <1>8, <1>9, <1>10, <1>11, <1>12, <1>13

\* A clean-up touches neither the pages nor the records.
LEMMA StopKeepsHInv ==
  ASSUME HInv,
         \/ StopServer \/ ProcessReaped \/ KillServer \/ Unkillable
         \/ MonitorJoined \/ MonitorStuck \/ ReadLog \/ CheckCode
  PROVE  HInv'
<1>1. /\ pc \in AfterReady /\ pc' \in AfterReady
      /\ UNCHANGED <<caller, purpose, proc, cache, recordVars>>
  BY DEF StopServer, ProcessReaped, KillServer, Unkillable, MonitorJoined, MonitorStuck, ReadLog,
         CheckCode, Goto, StopStepFails, AfterJoin, AfterReady, mainVars, serverVars
<1> QED BY <1>1 DEF HInv, PairsHonest, AfterReady, recordVars

\* A pair is recorded when its warm load has been stopped, or with the result.
LEMMA SettleKeepsHInv ==
  ASSUME HInv,
         ColdStopped \/ WarmStopped \/ WarmNotStopped \/ Abandon \/ FailedAfterAll \/ Finish
  PROVE  HInv'
<1> USE DEF HInv, PairsHonest, AfterReady, Goto, Raise, Return, FailWith, recordVars, serverVars
<1>1. CASE ColdStopped BY <1>1 DEF ColdStopped
<1>2. CASE WarmStopped
  <2>1. loads = HonestPair
    BY <1>2, LoadsRecord DEF WarmStopped
  <2>2. CASE UNCHANGED recordVars
    BY <1>2, <2>2 DEF WarmStopped
  <2>3. CASE pairs' = Append(pairs, loads)
    <3>1. \A k \in DOMAIN pairs' : pairs'[k] = HonestPair
      BY <2>1, <2>3 DEF HonestPair
    <3>2. pairs' # pairs
      BY <2>3
    <3>3. /\ pc' = "condition" /\ purpose' = "cold" /\ loads' = [cold |-> None, warm |-> None]
          /\ UNCHANGED <<caller, proc, cache>>
      BY <1>2, <3>2 DEF WarmStopped
    <3>4. loads' \in Loads /\ pairs' \in Seq(Loads)
      BY <2>3, <3>3 DEF Loads
    <3> QED BY <3>1, <3>3, <3>4 DEF HonestPair
  <2> QED BY <1>2, <2>2, <2>3 DEF WarmStopped
<1>3. CASE WarmNotStopped BY <1>3 DEF WarmNotStopped
<1>4. CASE Abandon BY <1>4 DEF Abandon
<1>5. CASE FailedAfterAll BY <1>5 DEF FailedAfterAll
<1>6. CASE Finish
  <2>1. /\ UNCHANGED <<caller, purpose, proc, cache, loads>> /\ pc' = "ended"
        /\ purpose \in {"final", "command"}
    BY <1>6 DEF Finish
  <2>2. CASE pairs' = pairs
    BY <2>1, <2>2
  <2>3. CASE pairs' = Append(pairs, loads) /\ caller = "measurement"
    <3>1. \A k \in DOMAIN pairs' : pairs'[k] = HonestPair
      BY <2>1, <2>3 DEF HonestPair
    <3> QED BY <2>1, <2>3, <3>1 DEF HonestPair
  <2> QED BY <1>6, <2>2, <2>3 DEF Finish
<1> QED BY <1>1, <1>2, <1>3, <1>4, <1>5, <1>6

\* A request thread, the sampling thread and the child only ever load pages.
LEMMA OthersKeepHInv ==
  ASSUME IInv, HInv,
         MonitorStep \/ ProcessStep \/ UNCHANGED vars \/ \E i \in DOMAIN clients : RequestStep(i)
  PROVE  HInv'
<1>1. UNCHANGED <<caller, pc, purpose, recordVars>>
  BY DEF MonitorStep, ProcessStep, RequestStep, Outside, vars, mainVars
<1>2. \/ UNCHANGED cache /\ (proc' = "serving" => proc = "serving")
      \/ Running /\ cache' = "loaded"
  BY DEF MonitorStep, ProcessStep, RequestStep, Outside, vars, serverVars,
         FinishLoading, BeginExit, EndExit, Running
<1>3. Running => pc \notin {"condition", "start"}
  BY DEF IInv, NothingBeforeStart
<1> QED BY <1>1, <1>2, <1>3 DEF HInv, PairsHonest, AfterReady, recordVars

-----------------------------------------------------------------------------
\* What is known of a call in which nothing has gone wrong yet.
BehindJoin == {"log", "code", "stopped"}

RInv ==
  /\ cache \in {"loaded", "dropped"} /\ trial \in Nat
  /\ pc # "ended" /\ caller = "measurement" => Len(pairs) = trial - 1
  /\ purpose = "final" /\ caller = "measurement" => trial = LoadPairs
  /\ proc \in {"none", "loading", "serving", "exiting", "exited"}
  /\ pc \notin {"condition", "start", "ended"} => proc # "none"
  /\ monitor \in {"none", "waiting", "sampling", "done", "failed"}
  /\ monitor = "none" /\ first = None => pc \in {"condition", "start", "thread"}
  /\ pc \in BehindJoin /\ first = None => samples # {}
  /\ pc = "stopped" /\ first = None => code = "ok"
  /\ pc \in Working \ {"batch"} \/ purpose \in {"cold", "warm"} => cell = 1
  /\ pc = "batch" => DOMAIN clients = 1 .. Cells[cell]
  /\ pc \in AfterReady /\ caller = "measurement" /\ purpose = "final" /\ first = None =>
       /\ cell = Len(Cells) /\ batch = Measured /\ DOMAIN clients = 1 .. Cells[cell]
       /\ \A i \in DOMAIN clients : clients[i] = "done"
  /\ ResultEarned

\* It holds of a call that has not begun.
LEMMA InitRInv == Init => RInv
<1> SUFFICES ASSUME Init PROVE RInv
  OBVIOUS
<1>1. /\ caller \in {"measurement", "diagnostic", "command"} /\ pc \in {"condition", "start"}
      /\ proc = "none" /\ monitor = "none" /\ pairs = <<>> /\ trial = 1 /\ cache \in {"loaded", "dropped"}
  BY SessionAssumption DEF SessionAssumption, Init
<1>2. purpose = "final" => caller # "measurement"
  BY <1>1 DEF Init
<1>3. cell = 1
  BY DEF Init
<1> QED BY <1>1, <1>2, <1>3 DEF RInv, AfterReady, BehindJoin, ResultEarned

\* Work leads to a clean-up without an exception only when all of it is done.
LEMMA WorkKeepsRInv ==
  ASSUME EInv, HInv, RInv,
         \/ ConditionCold \/ Start \/ StartFails \/ StartSampling \/ NoThread \/ Healthy \/ NotHealthy \/ CompareLoads
         \/ RequestFails \/ Prepare \/ CollectBatch \/ CommandEnds \/ CommandTimesOut
  PROVE  RInv'
<1> USE NoneIsNoError DEF RInv, AfterReady, BehindJoin, Working, ResultEarned, Goto, Raise,
            FailWith, Remember, recordVars, serverVars, requestVars, monitorVars
<1>1. CASE ConditionCold BY <1>1 DEF ConditionCold, HInv
<1>2. CASE Start BY <1>2 DEF Start
<1>3. CASE StartFails BY <1>3 DEF StartFails
<1>4. CASE Healthy BY <1>4 DEF Healthy
<1>5. CASE NotHealthy BY <1>5 DEF NotHealthy
<1>6. CASE CompareLoads BY <1>6 DEF CompareLoads, LastPair, HInv
<1>7. CASE RequestFails BY <1>7 DEF RequestFails
<1>8. CASE Prepare BY <1>8 DEF Prepare, NewBatch, EInv
<1>9. CASE CollectBatch
  <2>0. purpose = "final"
    BY <1>9 DEF CollectBatch, EInv
  <2>1. CASE FailWith("request", "stop", purpose) /\ UNCHANGED <<cell, batch, requestVars>>
    BY <1>9, <2>0, <2>1 DEF CollectBatch
  <2>2. CASE BatchAnswered /\ NextBatch /\ UNCHANGED <<purpose, error>>
    <3>1. /\ pc = "batch" /\ UNCHANGED <<caller, trial, serverVars, monitorVars, cache, recordVars,
                                         purpose, raised, first, error>>
          /\ pc' \in {"batch", "stop"}
      BY <1>9, <2>2 DEF CollectBatch, NextBatch
    <3>2. pc' = "batch" => DOMAIN clients' = 1 .. Cells[cell']
      BY <2>2 DEF NextBatch, NewBatch
    <3>3. pc' = "stop" => /\ UNCHANGED <<cell, batch, requestVars>>
                          /\ batch = Measured /\ cell = Len(Cells)
                          /\ \A i \in DOMAIN clients : clients[i] = "done"
      BY <2>2 DEF NextBatch, BatchAnswered
    <3> QED BY <2>0, <3>1, <3>2, <3>3
  <2> QED BY <1>9, <2>1, <2>2 DEF CollectBatch
<1>10. CASE CommandEnds BY <1>10 DEF CommandEnds, EInv
<1>11. CASE CommandTimesOut BY <1>11 DEF CommandTimesOut
<1>12. CASE StartSampling BY <1>12 DEF StartSampling
<1>13. CASE NoThread BY <1>13 DEF NoThread
<1> QED BY <1>1, <1>2, <1>3, <1>4, <1>5, <1>6, <1>7, <1>8, <1>9, <1>10, <1>11, <1>12, <1>13

\* A failed step of a clean-up leaves nothing to claim.
LEMMA FailedStepKeepsRInv ==
  ASSUME RInv, NEW e \in StopErrors, NEW next \in {"join", "log", "stopped"},
         pc \in {"wait", "join", "log", "code"}, StopStepFails(e, next),
         UNCHANGED <<caller, purpose, trial, cell, batch, serverVars, monitor, requestVars,
                     cache, recordVars>>
  PROVE  RInv'
<1>1. first' # None
  BY NoneIsNoError DEF StopStepFails, Remember
<1>2. pc' \in {"join", "log", "stopped"}
  BY DEF StopStepFails
<1> QED BY <1>1, <1>2 DEF RInv, AfterReady, BehindJoin, Working, ResultEarned, serverVars,
             requestVars, recordVars

\* A clean-up without an exception saw the samples and the exit code.
LEMMA StopKeepsRInv ==
  ASSUME EInv, RInv,
         \/ StopServer \/ ProcessReaped \/ KillServer \/ Unkillable
         \/ MonitorJoined \/ MonitorStuck \/ ReadLog \/ CheckCode
  PROVE  RInv'
<1> USE DEF RInv, AfterReady, BehindJoin, Working, ResultEarned, Goto, recordVars, serverVars,
            requestVars, monitorVars
<1>0. /\ AfterJoin \in {"log", "stopped"}
      /\ pc = "join" /\ AfterJoin = "stopped" => first # None
  BY SessionAssumption DEF AfterJoin, EInv
<1>1. CASE StopServer BY <1>1 DEF StopServer
<1>2. CASE ProcessReaped BY <1>2 DEF ProcessReaped
<1>3. CASE KillServer BY <1>3 DEF KillServer, mainVars
<1>4. CASE Unkillable
  BY <1>4, FailedStepKeepsRInv DEF Unkillable, StopErrors
<1>5. CASE MonitorJoined
  <2>1. CASE monitor = "failed" \/ (monitor = "done" /\ samples = {})
    BY <1>5, <1>0, <2>1, FailedStepKeepsRInv DEF MonitorJoined, StopErrors
  <2>2. CASE ~(monitor = "failed" \/ (monitor = "done" /\ samples = {}))
    BY <1>5, <1>0, <2>2 DEF MonitorJoined, Sampling
  <2> QED BY <2>1, <2>2
<1>6. CASE MonitorStuck
  BY <1>6, <1>0, FailedStepKeepsRInv DEF MonitorStuck, StopErrors
<1>7. CASE ReadLog
  <2>1. CASE StopStepFails("log", "stopped")
    BY <1>7, <2>1, FailedStepKeepsRInv DEF ReadLog, StopErrors
  <2>2. CASE ~StopStepFails("log", "stopped")
    <3>1. pc = "log" /\ pc' \in {"code", "stopped"} /\ (pc' = "stopped" => stopError # None)
      BY <1>7, <2>2 DEF ReadLog
    <3>2. pc' = "stopped" => first # None
      BY <3>1 DEF EInv
    <3> QED BY <1>7, <2>2, <3>1, <3>2 DEF ReadLog
  <2> QED BY <2>1, <2>2
<1>8. CASE CheckCode
  <2>1. CASE code = "ok"
    BY <1>8, <2>1 DEF CheckCode
  <2>2. CASE code # "ok"
    BY <1>8, <2>2, FailedStepKeepsRInv DEF CheckCode, StopErrors
  <2> QED BY <2>1, <2>2
<1> QED BY <1>1, <1>2, <1>3, <1>4, <1>5, <1>6, <1>7, <1>8

\* A pair more.
LEMMA OneLonger ==
  ASSUME HInv, pairs' = Append(pairs, loads)
  PROVE  Len(pairs') = Len(pairs) + 1
<1>1. pairs \in Seq(Loads) /\ loads \in Loads
  BY DEF HInv
<1> QED BY <1>1

\* What a call that returns has behind it.
LEMMA ReturnIsEarned ==
  ASSUME RInv, first = None, gaveUp = {}, pc = "stopped", proc = "exited", Windows,
         caller = "measurement" => purpose = "final" /\ Len(pairs') = LoadPairs,
         UNCHANGED <<caller, cell, batch, first, gaveUp, serverVars, requestVars, samples>>
  PROVE  ResultEarned'
<1> USE DEF serverVars, requestVars
<1>1. code = "ok" /\ samples # {}
  BY DEF RInv, BehindJoin
<1>2. ASSUME caller = "measurement"
      PROVE  /\ cell = Len(Cells) /\ batch = Measured /\ DOMAIN clients = 1 .. Cells[cell]
             /\ \A i \in DOMAIN clients : clients[i] = "done"
  BY <1>2 DEF RInv, AfterReady
<1>3. caller = "measurement" => 1 .. Len(Cells) \subseteq samples
  BY DEF Windows
<1>4. first' = None /\ gaveUp' = {} /\ proc' = "exited" /\ code' = "ok" /\ samples' # {}
  BY <1>1
<1>5. ASSUME caller' = "measurement"
      PROVE  /\ Len(pairs') = LoadPairs
             /\ cell' = Len(Cells) /\ batch' = Measured /\ DOMAIN clients' = 1 .. Cells[cell']
             /\ \A i \in DOMAIN clients' : clients'[i] = "done"
             /\ 1 .. Len(Cells) \subseteq samples'
  BY <1>2, <1>3, <1>5
<1> QED BY <1>4, <1>5 DEF ResultEarned

\* The call that ends has earned its result, or raises.
LEMMA FinishKeepsRInv ==
  ASSUME IInv, EInv, HInv, RInv, Finish
  PROVE  RInv'
<1>1. /\ error = None /\ stopError = None /\ pc = "stopped" /\ pc' = "ended"
      /\ purpose \in {"final", "command"}
      /\ UNCHANGED <<caller, purpose, trial, cell, batch, serverVars, monitor, requestVars, gaveUp,
                     samples, cache>>
  BY DEF Finish, Return, Raise, monitorVars
<1>2. first = None /\ gaveUp = {} /\ raised = None
  BY <1>1 DEF EInv
<1>3. proc = "exited"
  BY <1>1, <1>2 DEF IInv, RInv, CleanedUp, CleanUp, Running
<1>4. ResultEarned'
  <2>1. CASE raised' # None
    BY <2>1 DEF ResultEarned
  <2>2. CASE raised' = None
    <3>1. Windows /\ first' = first /\ (caller = "measurement" => pairs' = Append(pairs, loads))
      BY <2>2, NoneIsNoError DEF Finish, Return, Raise
    <3>2. ASSUME caller = "measurement"
          PROVE  purpose = "final" /\ Len(pairs') = LoadPairs
      <4>1. purpose = "final"
        BY <1>1, <3>2 DEF HInv
      <4>2. Len(pairs') = Len(pairs) + 1
        BY <3>1, <3>2, OneLonger
      <4>3. Len(pairs) = trial - 1 /\ trial = LoadPairs /\ trial \in Nat
        BY <1>1, <3>2, <4>1 DEF RInv
      <4> QED BY <4>1, <4>2, <4>3
    <3> QED BY <1>1, <1>2, <1>3, <3>1, <3>2, ReturnIsEarned
  <2> QED BY <2>1, <2>2
<1> QED BY <1>1, <1>2, <1>3, <1>4 DEF RInv, AfterReady, BehindJoin, Working, serverVars

\* A call returns only from a clean-up without an exception.
LEMMA SettleKeepsRInv ==
  ASSUME IInv, EInv, HInv, RInv,
         ColdStopped \/ WarmStopped \/ WarmNotStopped \/ Abandon \/ FailedAfterAll \/ Finish
  PROVE  RInv'
<1> USE NoneIsNoError DEF RInv, AfterReady, BehindJoin, Working, ResultEarned, Goto, Raise, Return,
            FailWith, Remember, recordVars, serverVars, requestVars, monitorVars
<1>1. CASE ColdStopped BY <1>1 DEF ColdStopped, EInv
<1>2. CASE WarmStopped BY <1>2 DEF WarmStopped, HInv
<1>3. CASE WarmNotStopped BY <1>3 DEF WarmNotStopped
<1>4. CASE Abandon BY <1>4 DEF Abandon, EInv
<1>5. CASE FailedAfterAll BY <1>5 DEF FailedAfterAll, EInv
<1>6. CASE Finish BY <1>6, FinishKeepsRInv
<1> QED BY <1>1, <1>2, <1>3, <1>4, <1>5, <1>6

\* What was seen stays true: exit codes are final, samples are only added, and
\* an answered request is done.
LEMMA OthersKeepRInv ==
  ASSUME IInv, EInv, RInv,
         MonitorStep \/ ProcessStep \/ UNCHANGED vars \/ \E i \in DOMAIN clients : RequestStep(i)
  PROVE  RInv'
<1>1. UNCHANGED <<caller, mainVars, recordVars>>
  BY DEF MonitorStep, ProcessStep, RequestStep, Outside, vars
<1>2. samples \subseteq samples' /\ cache' \in {cache, "loaded"}
  BY DEF MonitorStep, BeginSample, EndSample, NoProcess, SampleFails, ProcessStep, FinishLoading,
         BeginExit, EndExit, RequestStep, Outside, vars, monitorVars, serverVars
<1>3. /\ proc \in {"none", "exited"} => UNCHANGED <<proc, code>>
      /\ proc' \in {proc, "serving", "exiting", "exited"}
  BY DEF MonitorStep, ProcessStep, FinishLoading, BeginExit, EndExit, RequestStep, Outside, vars,
         serverVars
<1>6. /\ monitor' \in {monitor, "waiting", "sampling", "done", "failed"}
      /\ monitor # "none" => monitor' # "none"
  BY DEF MonitorStep, BeginSample, EndSample, NoProcess, SampleFails, ProcessStep, RequestStep,
         Outside, vars, monitorVars
<1>4. /\ DOMAIN clients' = DOMAIN clients
      /\ pc # "batch" => clients' = clients
  <2>1. CASE MonitorStep \/ ProcessStep \/ UNCHANGED vars
    BY <2>1 DEF MonitorStep, ProcessStep, vars, requestVars
  <2>2. ASSUME NEW i \in DOMAIN clients, RequestStep(i)
        PROVE  DOMAIN clients' = DOMAIN clients /\ ~Ended(i)
    BY <2>2 DEF RequestStep, Arrive, TooLate, BarrierTimesOut, PassBarrier, StreamEnds,
                StreamFails, Becomes, Ended
  <2> QED BY <2>1, <2>2 DEF IInv, RequestsInBatch
<1>5. pc = "stopped" /\ first = None => proc = "exited" /\ gaveUp = {}
  BY DEF EInv, RInv, IInv, CleanedUp, CleanUp, Running
<1> QED BY <1>1, <1>2, <1>3, <1>4, <1>5, <1>6 DEF RInv, AfterReady, BehindJoin, Working, ResultEarned,
             mainVars, recordVars, IInv, RequestsInBatch

\* What is known of a call, all together.
LEMMA CallInvariant == Spec => [](IInv /\ EInv /\ HInv /\ RInv)
<1>1. Init => HInv /\ RInv
  BY InitHInv, InitRInv
<1>2. HInv /\ RInv /\ (IInv /\ EInv) /\ [Next]_vars => (HInv /\ RInv)'
  <2> SUFFICES ASSUME HInv, RInv, IInv, EInv, [Next]_vars PROVE HInv' /\ RInv'
    OBVIOUS
  <2>1. CASE \/ ConditionCold \/ Start \/ StartFails \/ StartSampling \/ NoThread \/ Healthy \/ NotHealthy \/ CompareLoads
             \/ RequestFails \/ Prepare \/ CollectBatch \/ CommandEnds \/ CommandTimesOut
    <3>1. cache \in {"loaded", "dropped"}
      BY DEF RInv
    <3> QED BY <2>1, <3>1, WorkKeepsHInv, WorkKeepsRInv
  <2>2. CASE \/ StopServer \/ ProcessReaped \/ KillServer \/ Unkillable
             \/ MonitorJoined \/ MonitorStuck \/ ReadLog \/ CheckCode
    BY <2>2, StopKeepsHInv, StopKeepsRInv
  <2>3. CASE ColdStopped \/ WarmStopped \/ WarmNotStopped \/ Abandon \/ FailedAfterAll \/ Finish
    BY <2>3, SettleKeepsHInv, SettleKeepsRInv
  <2>4. CASE MonitorStep \/ ProcessStep \/ UNCHANGED vars \/ \E i \in DOMAIN clients : RequestStep(i)
    BY <2>4, OthersKeepHInv, OthersKeepRInv
  <2> QED BY <2>1, <2>2, <2>3, <2>4 DEF Next, MainStep
<1> QED BY <1>1, <1>2, SessionInvariant, ErrorInvariant, PTL DEF Spec

\* What the evidence says of its load pairs is true, for any number of pairs:
\* cold loads found the pages dropped, and warm ones found them loaded.
THEOREM LoadPairsAreHonest == Spec => []PairsHonest
<1>1. HInv => PairsHonest
  BY DEF HInv
<1> QED BY CallInvariant, <1>1, PTL

\* A result stands for all of its pairs, batches and samples, and for a child
\* that ended as it should, with nothing gone wrong.
THEOREM ResultsAreEarned == Spec => []ResultEarned
<1>1. RInv => ResultEarned
  BY DEF RInv
<1> QED BY CallInvariant, <1>1, PTL
=============================================================================
