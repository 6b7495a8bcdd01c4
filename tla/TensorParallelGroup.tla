------------------------ MODULE TensorParallelGroup ------------------------
(***************************************************************************)
(* The two-process gloo groups of distributed.py and                       *)
(* public_moe_tensor_parallel.py.  The parent spawns one process per rank, *)
(* joins them with a deadline, terminates those still alive, and turns     *)
(* exit codes and reports into one outcome.  The ranks meet at             *)
(* init_process_group and then at every collective; one that dies leaves   *)
(* the other blocked until gloo sees the closed connection or its timeout. *)
(*                                                                         *)
(* Three variants share the design:                                        *)
(*   "gloo"  run_local_gloo_smoke: reports over a queue, errors unreported *)
(*   "mlp"   run_local_cpu_tensor_parallel_smoke: reports and the expected *)
(*           errors over a queue, after the group exists                   *)
(*   "moe"   run_public_moe_expert_tensor_parallel: a result or an error   *)
(*           file per rank in the temporary directory, joins that share    *)
(*           one deadline                                                  *)
(* Deadlines may pass at any point at which somebody waits for one.        *)
(***************************************************************************)
EXTENDS Naturals

CONSTANTS
  Variants,   \* the variants to run
  Rounds      \* bound: collectives of the workload

ASSUME GroupAssumption ==
  Variants \subseteq {"gloo", "mlp", "moe"} /\ Rounds \in Nat \ {0}

Rank == 0 .. 1
Peer(r) == 1 - r

Outcomes == {"result", "rejected", "timed_out", "worker_failed", "incomplete",
             "untyped", "start_failed", "interrupted"}
\* What a rank left for the parent: a payload, an error (whole, or cut short
\* by the death of its writer), or nothing.
Reports == {"none", "payload", "error", "torn_error"}
Codes == {"none", "ok", "raised", "died", "terminated"}
\* The parent's program counter; "at" is the rank it is at.
Phases == {"start", "join", "check", "terminate", "reap", "collect", "done"}

VARIABLES
  variant,
  rank,       \* what each rank's process is doing
  entered,    \* collectives it has entered
  passed,     \* collectives it has left
  report,     \* what it reported
  code,       \* its exit code, as far as the parent tells them apart
  signalled,  \* the parent sent it SIGTERM
  phase, at,  \* where the parent is
  late,       \* the ranks it found alive after the joins
  directory,  \* the temporary directory exists
  outcome

rankVars == <<rank, entered, passed, report, code>>
groupParentVars == <<signalled, phase, at, late, directory, outcome>>
groupVars == <<variant, rankVars, groupParentVars>>

\* A rank fails "outside" as long as the group does not exist.
RankStates == {"unborn", "meeting", "computing", "stuck", "outside", "failing",
               "leaving", "gone"}

GroupTypeOK ==
  /\ variant \in Variants
  /\ rank \in [Rank -> RankStates]
  /\ entered \in [Rank -> 0 .. Rounds] /\ passed \in [Rank -> 0 .. Rounds]
  /\ report \in [Rank -> Reports] /\ code \in [Rank -> Codes]
  /\ signalled \subseteq Rank /\ late \subseteq Rank
  /\ phase \in Phases /\ at \in Rank
  /\ directory \in BOOLEAN
  /\ outcome \in Outcomes \union {"none"}

GroupInit ==
  /\ variant \in Variants
  /\ rank = [r \in Rank |-> "unborn"]
  /\ entered = [r \in Rank |-> 0] /\ passed = [r \in Rank |-> 0]
  /\ report = [r \in Rank |-> "none"] /\ code = [r \in Rank |-> "none"]
  /\ signalled = {} /\ late = {}
  /\ phase = "start" /\ at = 0
  /\ directory = TRUE /\ outcome = "none"

RankAlive(r) == rank[r] \notin {"unborn", "gone"}
Inside(r) == rank[r] = "computing" /\ entered[r] > passed[r]

---------------------------------------------------------------------------
(* The ranks.                                                              *)

Goes(r, state) == rank' = [rank EXCEPT ![r] = state]
Exits(r, c) == Goes(r, "gone") /\ code' = [code EXCEPT ![r] = c]
Reported(r, what) == report' = [report EXCEPT ![r] = what]

\* init_process_group returns once the peer has been at the meeting point.
Meet(r) ==
  /\ rank[r] = "meeting" /\ rank[Peer(r)] # "unborn"
  /\ Goes(r, "computing")
  /\ UNCHANGED <<entered, passed, report, code>>

EnterCollective(r) ==
  /\ rank[r] = "computing" /\ ~Inside(r) /\ passed[r] < Rounds
  /\ entered' = [entered EXCEPT ![r] = @ + 1]
  /\ UNCHANGED <<rank, passed, report, code>>

\* all_reduce and all_gather need the peer's part of the same collective.
PassCollective(r) ==
  /\ Inside(r) /\ entered[Peer(r)] >= entered[r]
  /\ passed' = [passed EXCEPT ![r] = @ + 1]
  /\ UNCHANGED <<rank, entered, report, code>>

\* The workload is done and the result is put on the queue or in its file; the
\* process flushes the queue before it ends.
Report(r) ==
  /\ rank[r] = "computing" /\ passed[r] = Rounds
  /\ variant = "moe" => directory
  /\ Reported(r, "payload") /\ Goes(r, "leaving")
  /\ UNCHANGED <<entered, passed, code>>

\* An exception at the meeting point, in a computation, or in a collective that
\* its timeout or a closed connection ends.
RankRaises(r) ==
  /\ \/ rank[r] = "meeting" /\ Goes(r, "outside")
     \/ rank[r] = "computing" /\ Goes(r, "failing")
  /\ UNCHANGED <<entered, passed, report, code>>

\* Which exceptions are reported: none ("gloo"), the expected ones inside the
\* group ("mlp"), all of them while the directory is there ("moe").
ReportsError(r) ==
  \/ variant = "mlp" /\ rank[r] = "failing"
  \/ variant = "moe" /\ directory

FailReported(r) ==
  /\ rank[r] \in {"outside", "failing"} /\ ReportsError(r)
  /\ Reported(r, "error") /\ Exits(r, "raised")
  /\ UNCHANGED <<entered, passed>>

FailSilently(r) ==
  /\ rank[r] \in {"outside", "failing"} /\ (variant = "moe" => ~directory)
  /\ Exits(r, "raised")
  /\ UNCHANGED <<entered, passed, report>>

\* Mutant: the queue is closed without waiting for its feeder thread.
Leave_Unflushed(r) ==
  /\ rank[r] = "leaving" /\ Exits(r, "ok")
  /\ \E what \in {"none", "payload"} : Reported(r, what)
  /\ UNCHANGED <<entered, passed>>

\* destroy_process_group in the finally clause; it may itself fail.
Leave(r) ==
  /\ rank[r] = "leaving"
  /\ \E c \in {"ok", "raised"} : Exits(r, c)
  /\ UNCHANGED <<entered, passed, report>>

\* A computation that does not end (a wedged disk or thread pool).
Stick(r) ==
  /\ rank[r] = "computing" /\ ~Inside(r)
  /\ Goes(r, "stuck")
  /\ UNCHANGED <<entered, passed, report, code>>

\* The process is killed from outside (out of memory): what it had queued and
\* not flushed is lost, and an error file it was writing stays cut short.
RankDies(r) ==
  /\ RankAlive(r) /\ Exits(r, "died")
  /\ \/ report' = report
     \/ rank[r] = "leaving" /\ variant # "moe" /\ Reported(r, "none")
     \/ rank[r] \in {"outside", "failing"} /\ variant = "moe" /\ directory
        /\ Reported(r, "torn_error")
  /\ UNCHANGED <<entered, passed>>

\* No rank installs a handler for SIGTERM.
TermDelivered(r) ==
  /\ r \in signalled /\ RankAlive(r)
  /\ Exits(r, "terminated")
  /\ UNCHANGED <<entered, passed, report>>

WorkerStep(r) ==
  \/ Meet(r) \/ EnterCollective(r) \/ PassCollective(r) \/ Report(r)
  \/ FailReported(r) \/ FailSilently(r) \/ Leave(r)

Worker ==
  /\ \E r \in Rank : WorkerStep(r) \/ RankRaises(r) \/ Stick(r) \/ RankDies(r) \/ TermDelivered(r)
  /\ UNCHANGED <<variant, groupParentVars>>

---------------------------------------------------------------------------
(* The parent.                                                             *)

\* The next rank of a loop over the processes, or the next phase.
Onward(next) ==
  IF at = 0 THEN at' = 1 /\ phase' = phase ELSE at' = 0 /\ phase' = next

\* Leaving the with block removes the directory, whatever the outcome.
Conclude(o) ==
  /\ outcome' = o /\ phase' = "done" /\ directory' = FALSE
  /\ UNCHANGED <<at, signalled, late>>

Start ==
  /\ phase = "start"
  /\ Goes(at, "meeting") /\ Onward("join")
  /\ UNCHANGED <<entered, passed, report, code, signalled, late, directory, outcome>>

\* Spawning a process fails: the exception leaves the ranks started before alone.
StartFails ==
  /\ phase = "start"
  /\ Conclude("start_failed") /\ UNCHANGED rankVars

\* Mutant: a join without a deadline.
JoinRank_Forever ==
  /\ phase = "join" /\ ~RankAlive(at)
  /\ Onward("check")
  /\ UNCHANGED <<rankVars, signalled, late, directory, outcome>>

\* The rank ended, or the join's (or the shared) deadline passed.
JoinRank ==
  /\ phase = "join"
  /\ Onward("check")
  /\ UNCHANGED <<rankVars, signalled, late, directory, outcome>>

Check ==
  /\ phase = "check"
  /\ late' = IF RankAlive(at) THEN late \union {at} ELSE late
  /\ Onward(IF late' = {} THEN "collect" ELSE "terminate")
  /\ UNCHANGED <<rankVars, signalled, directory, outcome>>

\* process.terminate and the unbounded join of one late rank after the other.
Terminate ==
  /\ phase = "terminate"
  /\ IF at \in late
     THEN /\ signalled' = signalled \union {at} /\ phase' = "reap" /\ at' = at
          /\ UNCHANGED <<late, directory, outcome>>
     ELSE IF at = 0 THEN at' = 1 /\ UNCHANGED <<signalled, phase, late, directory, outcome>>
          ELSE Conclude("timed_out")
  /\ UNCHANGED rankVars

Reap ==
  /\ phase = "reap" /\ ~RankAlive(at)
  /\ IF at = 0 THEN at' = 1 /\ phase' = "terminate" /\ UNCHANGED <<signalled, late, directory, outcome>>
     ELSE Conclude("timed_out")
  /\ UNCHANGED rankVars

\* Mutant: only a rank's own failure counts.
AllZero_NotRaised == \A r \in Rank : code[r] # "raised"

AllZero == \A r \in Rank : code[r] = "ok"

\* Exit codes first; the details read every error that was reported, and an
\* error file cut short is not JSON.
CollectFailure ==
  /\ phase = "collect" /\ ~AllZero
  /\ Conclude(IF variant = "moe" /\ \E r \in Rank : report[r] = "torn_error"
              THEN "untyped" ELSE "worker_failed")
  /\ UNCHANGED rankVars

\* One report per rank, none of them an error, and the evidence contracts hold.
CollectReports ==
  /\ phase = "collect" /\ AllZero
  /\ IF \E r \in Rank : report[r] = "none" THEN Conclude("incomplete")
     ELSE IF \E r \in Rank : report[r] # "payload" THEN Conclude("worker_failed")
     ELSE \E o \in {"result", "rejected"} : Conclude(o)
  /\ UNCHANGED rankVars

\* KeyboardInterrupt in the parent: no handler stops the ranks.
Interrupted ==
  /\ phase \in {"join", "reap", "collect"}
  /\ Conclude("interrupted") /\ UNCHANGED rankVars

GroupParentStep ==
  Start \/ JoinRank \/ Check \/ Terminate \/ Reap \/ CollectFailure \/ CollectReports

Parent == (GroupParentStep \/ StartFails \/ Interrupted) /\ UNCHANGED variant

GroupNext == Worker \/ Parent

GroupSpec == GroupInit /\ [][GroupNext]_groupVars

\* The parent's joins and the ranks' collectives have deadlines, a computation
\* that is not stuck ends, and the system delivers SIGTERM.  Nothing obliges a
\* rank to fail unless it waits for a peer that does not come.
Stalled(r) ==
  \/ rank[r] = "meeting" \/ Inside(r)
  \/ variant = "moe" /\ ~directory /\ passed[r] = Rounds

FairGroupSpec ==
  /\ GroupSpec
  /\ WF_groupVars(GroupParentStep /\ UNCHANGED variant)
  /\ \A r \in Rank :
       /\ WF_groupVars(WorkerStep(r) /\ UNCHANGED <<variant, groupParentVars>>)
       /\ WF_groupVars(TermDelivered(r) /\ UNCHANGED <<variant, groupParentVars>>)
       /\ WF_groupVars(Stalled(r) /\ RankRaises(r) /\ UNCHANGED <<variant, groupParentVars>>)

---------------------------------------------------------------------------
(* Properties.                                                             *)

\* A result means that every rank went through every collective, reported its
\* payload and left normally: no failure is hidden behind a result.
ResultBacked ==
  outcome \in {"result", "rejected"} =>
    \A r \in Rank : passed[r] = Rounds /\ report[r] = "payload" /\ code[r] = "ok"

\* The other outcomes blame what happened: a worker failure means that a rank
\* failed though the parent had signalled none; a timeout means that a rank was
\* late; ranks that all left normally never lack a report; an unreadable error
\* file comes from a rank that was killed; and only an interrupt or a failed
\* spawn leaves a process behind.
OutcomeExplained ==
  /\ outcome = "worker_failed" =>
       signalled = {} /\ \E r \in Rank : code[r] \in {"raised", "died"}
  /\ outcome = "timed_out" => late # {} /\ late \subseteq signalled
  /\ outcome # "incomplete"
  /\ outcome = "untyped" => \E r \in Rank : code[r] = "died"
  /\ phase = "done" /\ (\E r \in Rank : RankAlive(r)) => outcome \in {"interrupted", "start_failed"}

\* A rank that dies before a collective does not hang the other one, nor the
\* parent: every call ends.
CallReturns == <>(phase = "done")

=============================================================================
