------------------------- MODULE ConfirmatoryAttempt -------------------------
(***************************************************************************)
(* The two confirmatory quality attempts of one preregistered protocol     *)
(* (scripts/run_confirmatory_quality_attempt.py), and the command that     *)
(* turns them into the one claim                                           *)
(* (scripts/verify_confirmatory_quality_repeats.py).  They meet only in    *)
(* the attempt root, a directory: a runner makes attempt-1 or attempt-2 in *)
(* it, writes its files and takes the write permissions away; a verifier   *)
(* reads both, publishes the aggregate beside them and closes the root.    *)
(* Nothing locks the root: any number of commands may run at once, and any *)
(* of them may be killed between two steps.                                *)
(*                                                                         *)
(* A version stands for the bytes of the bound files, the resolved         *)
(* configurations and the environment; the preregistration binds one of    *)
(* them.  A record is invalid, or fails (its gate, or because it names     *)
(* other configurations), or passes with some scientific and environment   *)
(* projections.  It does not say which sources the evaluator imported.     *)
(***************************************************************************)
EXTENDS Naturals

CONSTANTS
  Processes, Job,   \* the commands, and what each of them is started for
  Versions,         \* of the bound files
  Projections,      \* what two evaluations must agree on
  None,
  MaxKills,         \* bound: commands killed or interrupted
  MaxEdits          \* bound: changes of the bound files or the preregistration

Ordinals == {"first", "second"}

ASSUME AttemptAssumption ==
  /\ Job \in [Processes -> Ordinals \union {"verify"}]
  /\ None \notin Processes /\ None \notin Versions
  /\ MaxKills \in Nat /\ MaxEdits \in Nat

VARIABLES
  pc,          \* where each command is
  judged,      \* runners: what is already wrong with the execution
  reading,     \* verifiers: what has been read so far
  attempts,    \* the two attempt directories
  evaluator,   \* the evaluator process of each ordinal
  launched,    \* history: the <<command, ordinal>> of every evaluator process
  temporaries, \* the verifiers whose temporary file is in the attempt root
  aggregate,   \* repeat-verification.json
  rootClosed,  \* the attempt root is 0555
  current,     \* the version of the bound files
  registered,  \* the version the preregistration binds
  spent        \* kills and edits so far

commandVars == <<pc, judged, reading>>
evidenceVars == <<attempts, evaluator, launched>>
rootVars == <<temporaries, aggregate, rootClosed>>
worldVars == <<current, registered, spent>>
vars == <<commandVars, evidenceVars, rootVars, worldVars>>

Runners == {p \in Processes : Job[p] \in Ordinals}
Verifiers == Processes \ Runners

Failures == {"failed_preflight", "runner_exception", "evaluator_failed"}
Statuses == Failures \union {"invalid_record", "attempt_execution_complete"}
Records == ({"invalid", "failed"} \X {None}) \union ({"passed"} \X Projections)

(* An attempt directory: start.json, record.json, completion.json and the    *)
(* modes; the two logs are made after the first and before the last of them. *)
Starts == [facts : Versions \union {None}, registered : Versions, late : BOOLEAN]
Completions == [status : Statuses, record : Records \union {None}]
Directories == [owner : Runners, start : Starts \union {None}, record : Records \union {None},
                completion : Completions \union {None}, mode : {"open", "files", "sealed"}]
Readings == [clean : BOOLEAN, registered : Versions \union {None}, first : Records \union {None}]
Aggregates == [verdict : {"confirmed", "failed"}, registered : Versions]

ASSUME NoneAssumption == None \notin Directories /\ None \notin Failures

RunnerSteps == {"inspect", "mkdir", "start", "preflight", "wait", "complete", "freeze", "seal"}
VerifierSteps == {"entries", "registration", "first", "second", "write", "link", "unlink",
                  "withdraw", "check", "close"}

TypeOK ==
  /\ pc \in [Processes -> {"idle", "ended"} \union RunnerSteps \union VerifierSteps]
  /\ judged \in [Processes -> Failures \union {None}]
  /\ reading \in [Processes -> Readings]
  /\ attempts \in [Ordinals -> Directories \union {None}]
  /\ evaluator \in [Ordinals -> {"none", "running", "clean", "failed"}]
  /\ launched \subseteq Runners \X Ordinals
  /\ temporaries \subseteq Verifiers
  /\ aggregate \in Aggregates \union {None}
  /\ rootClosed \in BOOLEAN
  /\ current \in Versions /\ registered \in Versions
  /\ spent \in [kills : 0 .. MaxKills, edits : 0 .. MaxEdits]

Unread == [clean |-> TRUE, registered |-> None, first |-> None]

Init ==
  /\ pc = [p \in Processes |-> "idle"]
  /\ judged = [p \in Processes |-> None]
  /\ reading = [p \in Processes |-> Unread]
  /\ attempts = [o \in Ordinals |-> None]
  /\ evaluator = [o \in Ordinals |-> "none"]
  /\ launched = {}
  /\ temporaries = {} /\ aggregate = None /\ rootClosed = FALSE
  /\ current \in Versions /\ registered = current
  /\ spent = [kills |-> 0, edits |-> 0]

Goto(p, step) == pc' = [pc EXCEPT ![p] = step]

\* The entries of the attempt root are some of the attempts, and these.
AttemptsThere == {o \in Ordinals : attempts[o] # None}
Extras == temporaries # {} \/ aggregate # None

-----------------------------------------------------------------------------
(* run_attempt. *)

\* A directory with exactly the five files of a clean execution, all 0444, in
\* a directory that is 0555.
CleanAttempt(o) ==
  /\ attempts[o] # None /\ attempts[o].mode = "sealed"
  /\ attempts[o].record # None /\ attempts[o].record[1] # "invalid"
  /\ attempts[o].completion.status = "attempt_execution_complete"

\* _validate_attempt_sequence: nothing before attempt-1, and nothing but a
\* clean, sealed attempt-1 before attempt-2.
Look(p) ==
  /\ p \in Runners /\ pc[p] = "idle"
  /\ IF AttemptsThere = (IF Job[p] = "first" THEN {} ELSE {"first"}) /\ ~Extras
     THEN Goto(p, IF Job[p] = "first" THEN "mkdir" ELSE "inspect")
     ELSE Goto(p, "ended")
  /\ UNCHANGED <<judged, reading, evidenceVars, rootVars, worldVars>>

\* Mutant: the modes of the directory and its files are not looked at.
Inspect_Writable(p) ==
  /\ pc[p] = "inspect"
  /\ Goto(p, IF /\ attempts["first"].completion # None
                /\ attempts["first"].completion.status = "attempt_execution_complete"
             THEN "mkdir" ELSE "ended")
  /\ UNCHANGED <<judged, reading, evidenceVars, rootVars, worldVars>>

Inspect(p) ==
  /\ pc[p] = "inspect"
  /\ Goto(p, IF CleanAttempt("first") THEN "mkdir" ELSE "ended")
  /\ UNCHANGED <<judged, reading, evidenceVars, rootVars, worldVars>>

\* attempt.mkdir(exist_ok=False) raises if the directory has come meanwhile, or
\* the root is closed.
MakeDirectory(p) ==
  /\ pc[p] = "mkdir"
  /\ IF attempts[Job[p]] = None /\ ~rootClosed
     THEN /\ attempts' = [attempts EXCEPT ![Job[p]] =
               [owner |-> p, start |-> None, record |-> None, completion |-> None, mode |-> "open"]]
          /\ Goto(p, "start")
     ELSE UNCHANGED attempts /\ Goto(p, "ended")
  /\ UNCHANGED <<judged, reading, evaluator, launched, rootVars, worldVars>>

\* _file_fact, _required_file_bindings, _environment_contract and the others:
\* what the bound files are at the moment, or an exception.
FactsNow == {current, None}

\* start.json has the facts, or that they could not be had; the preregistration
\* they are for; and the time, which shows whether attempt-1 was complete.
WriteStart(p) ==
  /\ pc[p] = "start"
  /\ \E facts \in FactsNow :
       attempts' = [attempts EXCEPT ![Job[p]].start =
         [facts |-> facts, registered |-> registered,
          late |-> attempts["first"] # None /\ attempts["first"].completion # None]]
  /\ Goto(p, "preflight")
  /\ UNCHANGED <<judged, reading, evaluator, launched, rootVars, worldVars>>

\* _validate_preregistration of the runner: the facts in start.json are those
\* that the preregistration, read again, binds.
FactsRegistered(o) == attempts[o].start.facts = registered

\* The evaluator is started on registered facts only.
Preflight(p) ==
  /\ pc[p] = "preflight"
  /\ IF FactsRegistered(Job[p])
     THEN /\ evaluator' = [evaluator EXCEPT ![Job[p]] = "running"]
          /\ launched' = launched \union {<<p, Job[p]>>}
          /\ Goto(p, "wait") /\ UNCHANGED judged
     ELSE /\ judged' = [judged EXCEPT ![p] = "failed_preflight"]
          /\ Goto(p, "complete") /\ UNCHANGED <<evaluator, launched>>
  /\ UNCHANGED <<reading, attempts, rootVars, worldVars>>

\* The evaluator puts its record where there is none (_write_record), and exits
\* with or without one.  It outlives a runner that is killed.
EvaluatorWrites(o) ==
  /\ evaluator[o] = "running" /\ attempts[o].record = None /\ attempts[o].mode # "sealed"
  /\ \E r \in Records : attempts' = [attempts EXCEPT ![o].record = r]
  /\ UNCHANGED <<commandVars, evaluator, launched, rootVars, worldVars>>

EvaluatorExits(o) ==
  /\ evaluator[o] = "running"
  /\ \E e \in {"clean", "failed"} :
       /\ e = "clean" => attempts[o].record # None
       /\ evaluator' = [evaluator EXCEPT ![o] = e]
  /\ UNCHANGED <<commandVars, attempts, launched, rootVars, worldVars>>

\* subprocess.run returns the exit code; or it is interrupted, and has killed
\* the evaluator when it raises.
Return(p) ==
  /\ pc[p] = "wait" /\ evaluator[Job[p]] \in {"clean", "failed"}
  /\ judged' = [judged EXCEPT ![p] = IF evaluator[Job[p]] = "failed" THEN "evaluator_failed" ELSE None]
  /\ Goto(p, "complete")
  /\ UNCHANGED <<reading, evidenceVars, rootVars, worldVars>>

Interrupt(p) ==
  /\ pc[p] = "wait" /\ spent.kills < MaxKills
  /\ spent' = [spent EXCEPT !.kills = @ + 1]
  /\ evaluator' = [evaluator EXCEPT ![Job[p]] = IF @ = "running" THEN "failed" ELSE @]
  /\ judged' = [judged EXCEPT ![p] = "runner_exception"]
  /\ Goto(p, "complete")
  /\ UNCHANGED <<reading, attempts, launched, rootVars, current, registered>>

\* _record_validation, and the status that completion.json gives the attempt.
StatusOf(p) ==
  LET record == attempts[Job[p]].record
  IN CASE judged[p] # None -> judged[p]
       [] judged[p] = None /\ (record = None \/ record[1] = "invalid") -> "invalid_record"
       [] OTHER -> "attempt_execution_complete"

Complete(p) ==
  /\ pc[p] = "complete"
  /\ attempts' = [attempts EXCEPT ![Job[p]].completion =
       [status |-> StatusOf(p), record |-> attempts[Job[p]].record]]
  /\ judged' = [judged EXCEPT ![p] = None]
  /\ Goto(p, "freeze")
  /\ UNCHANGED <<reading, evaluator, launched, rootVars, worldVars>>

\* _freeze_attempt: the files, and after them the directory.
FreezeFiles(p) ==
  /\ pc[p] = "freeze"
  /\ attempts' = [attempts EXCEPT ![Job[p]].mode = "files"]
  /\ Goto(p, "seal")
  /\ UNCHANGED <<judged, reading, evaluator, launched, rootVars, worldVars>>

SealDirectory(p) ==
  /\ pc[p] = "seal"
  /\ attempts' = [attempts EXCEPT ![Job[p]].mode = "sealed"]
  /\ Goto(p, "ended")
  /\ UNCHANGED <<judged, reading, evaluator, launched, rootVars, worldVars>>

-----------------------------------------------------------------------------
(* The verifier. *)

\* resolve_claim_output_path: only while there is no aggregate.
Resolve(v) ==
  /\ v \in Verifiers /\ pc[v] = "idle"
  /\ Goto(v, IF aggregate = None THEN "entries" ELSE "ended")
  /\ UNCHANGED <<judged, reading, evidenceVars, rootVars, worldVars>>

\* verify_confirmatory_attempts reads the entries of the root, the
\* preregistration with the files it binds, and each attempt; what is wrong
\* with one is noted, and the next is read all the same.
ReadEntries(v) ==
  /\ pc[v] = "entries"
  /\ reading' = [reading EXCEPT ![v].clean = AttemptsThere = Ordinals /\ ~Extras]
  /\ Goto(v, "registration")
  /\ UNCHANGED <<judged, evidenceVars, rootVars, worldVars>>

ReadRegistration(v) ==
  /\ pc[v] = "registration"
  /\ reading' = [reading EXCEPT ![v].clean = @ /\ current = registered, ![v].registered = registered]
  /\ Goto(v, "first")
  /\ UNCHANGED <<judged, evidenceVars, rootVars, worldVars>>

\* _validate_start_record, for the preregistration that binds the version, and
\* the comparison of the times.
StartSound(o, version) ==
  /\ attempts[o].start.facts = version /\ attempts[o].start.registered = version
  /\ o = "second" => attempts[o].start.late

\* Mutant: any completion that fits the record counts, whatever its status.
CompletionSound_AnyStatus(o) ==
  /\ attempts[o].record # None
  /\ attempts[o].completion.record = attempts[o].record

\* _validate_completion_record.
CompletionSound(o) ==
  /\ attempts[o].completion.status = "attempt_execution_complete"
  /\ attempts[o].record # None /\ attempts[o].record[1] # "invalid"
  /\ attempts[o].completion.record = attempts[o].record

\* _read_attempt_envelope, and what its files are checked for.  The mode of the
\* directory is read first, and a sealed one does not change: this is one step.
EnvelopeSound(o, version) ==
  /\ attempts[o] # None /\ attempts[o].mode = "sealed"
  /\ StartSound(o, version) /\ CompletionSound(o)

\* _validate_record_envelope_identity, and the gate.
RecordSound(record) == record # None /\ record[1] = "passed"

\* _compare_raw_inputs: the projections agree.
PairMatches(first, second) == RecordSound(first) /\ RecordSound(second) /\ first[2] = second[2]

RecordOf(o) == IF attempts[o] = None THEN None ELSE attempts[o].record

ReadFirst(v) ==
  /\ pc[v] = "first"
  /\ reading' = [reading EXCEPT ![v].clean = @ /\ EnvelopeSound("first", reading[v].registered),
                                ![v].first = RecordOf("first")]
  /\ Goto(v, "second")
  /\ UNCHANGED <<judged, evidenceVars, rootVars, worldVars>>

ReadSecond(v) ==
  /\ pc[v] = "second"
  /\ reading' = [reading EXCEPT
       ![v].clean = /\ @ /\ EnvelopeSound("second", reading[v].registered)
                    /\ PairMatches(reading[v].first, RecordOf("second")),
       ![v].first = None]
  /\ Goto(v, "write")
  /\ UNCHANGED <<judged, evidenceVars, rootVars, worldVars>>

\* atomic_write_json: a temporary file in the attempt root, a link that
\* replaces nothing, and the temporary file away, linked or not.
WriteTemporary(v) ==
  /\ pc[v] = "write"
  /\ IF rootClosed
     THEN UNCHANGED temporaries /\ Goto(v, "ended")
     ELSE temporaries' = temporaries \union {v} /\ Goto(v, "link")
  /\ UNCHANGED <<judged, reading, evidenceVars, aggregate, rootClosed, worldVars>>

Verdict(v) ==
  [verdict |-> IF reading[v].clean THEN "confirmed" ELSE "failed", registered |-> reading[v].registered]

\* Mutant: os.replace in place of os.link.
Link_Replacing(v) ==
  /\ pc[v] = "link"
  /\ IF ~rootClosed
     THEN aggregate' = Verdict(v) /\ Goto(v, "unlink")
     ELSE UNCHANGED aggregate /\ Goto(v, "withdraw")
  /\ reading' = [reading EXCEPT ![v] = Unread]
  /\ UNCHANGED <<judged, evidenceVars, temporaries, rootClosed, worldVars>>

Link(v) ==
  /\ pc[v] = "link"
  /\ IF aggregate = None /\ ~rootClosed
     THEN aggregate' = Verdict(v) /\ Goto(v, "unlink")
     ELSE UNCHANGED aggregate /\ Goto(v, "withdraw")
  /\ reading' = [reading EXCEPT ![v] = Unread]
  /\ UNCHANGED <<judged, evidenceVars, temporaries, rootClosed, worldVars>>

\* In a closed root nothing can be removed.
Unlink(v) ==
  /\ pc[v] \in {"unlink", "withdraw"}
  /\ temporaries' = IF rootClosed THEN temporaries ELSE temporaries \ {v}
  /\ Goto(v, IF pc[v] = "unlink" /\ ~rootClosed THEN "check" ELSE "ended")
  /\ UNCHANGED <<judged, reading, evidenceVars, aggregate, rootClosed, worldVars>>

\* seal_claim_artifact_root: both attempts and the aggregate and nothing else;
\* then the mode of the root.
CheckRoot(v) ==
  /\ pc[v] = "check"
  /\ Goto(v, IF AttemptsThere = Ordinals /\ temporaries = {} THEN "close" ELSE "ended")
  /\ UNCHANGED <<judged, reading, evidenceVars, rootVars, worldVars>>

CloseRoot(v) ==
  /\ pc[v] = "close"
  /\ rootClosed' = TRUE
  /\ Goto(v, "ended")
  /\ UNCHANGED <<judged, reading, evidenceVars, temporaries, aggregate, worldVars>>

-----------------------------------------------------------------------------
(* The world. *)

\* A command is killed; what it has put into the root stays there.
Kill(p) ==
  /\ pc[p] \notin {"idle", "ended"} /\ spent.kills < MaxKills
  /\ spent' = [spent EXCEPT !.kills = @ + 1]
  /\ Goto(p, "ended")
  /\ judged' = [judged EXCEPT ![p] = None] /\ reading' = [reading EXCEPT ![p] = Unread]
  /\ UNCHANGED <<evidenceVars, rootVars, current, registered>>

\* Somebody changes the bound files, and may preregister what they are now.
Edit ==
  /\ spent.edits < MaxEdits
  /\ spent' = [spent EXCEPT !.edits = @ + 1]
  /\ current' \in Versions \ {current} /\ registered' \in {registered, current'}
  /\ UNCHANGED <<commandVars, evidenceVars, rootVars>>

RunnerStep(p) ==
  \/ Look(p) \/ Inspect(p) \/ MakeDirectory(p) \/ WriteStart(p) \/ Preflight(p)
  \/ Return(p) \/ Interrupt(p) \/ Complete(p) \/ FreezeFiles(p) \/ SealDirectory(p)
EvaluatorStep(o) == EvaluatorWrites(o) \/ EvaluatorExits(o)
VerifierStep(v) ==
  \/ Resolve(v) \/ ReadEntries(v) \/ ReadRegistration(v) \/ ReadFirst(v) \/ ReadSecond(v)
  \/ WriteTemporary(v) \/ Link(v) \/ Unlink(v) \/ CheckRoot(v) \/ CloseRoot(v)

Next ==
  \/ \E p \in Processes : RunnerStep(p) \/ VerifierStep(p) \/ Kill(p)
  \/ \E o \in Ordinals : EvaluatorStep(o)
  \/ Edit

Spec == Init /\ [][Next]_vars

-----------------------------------------------------------------------------
(* Properties. *)

\* There is an attempt-2 only after a clean attempt-1, sealed: attempt-1 was
\* looked at some steps before the directory was made, and is never repeated.
SecondFollowsFirst == attempts["second"] # None => CleanAttempt("first")

\* A confirmed aggregate rests on the evidence that is in the root: for each
\* ordinal the only evaluation ever started, clean and sealed, of the version
\* that the aggregate names and under the preregistration that it names; both
\* passed their gate, and they agree.
ClaimBacked ==
  aggregate # None /\ aggregate.verdict = "confirmed" =>
    /\ \A o \in Ordinals :
         /\ CleanAttempt(o) /\ attempts[o].record[1] = "passed"
         /\ {l \in launched : l[2] = o} = {<<attempts[o].owner, o>>}
         /\ attempts[o].start.facts = aggregate.registered
         /\ attempts[o].start.registered = aggregate.registered
    /\ attempts["first"].record[2] = attempts["second"].record[2]

\* A sealed attempt and a published aggregate are for good, whatever other
\* runners and verifiers do, and a closed root stays closed.
EvidenceStands ==
  [][ /\ \A o \in Ordinals :
           attempts[o] # None /\ attempts[o].mode = "sealed" => attempts'[o] = attempts[o]
      /\ aggregate # None => aggregate' = aggregate
      /\ rootClosed => rootClosed' ]_vars
=============================================================================
