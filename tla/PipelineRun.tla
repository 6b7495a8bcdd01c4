---------------------------- MODULE PipelineRun ----------------------------
(***************************************************************************)
(* One governed experiment run and the commands issued against its         *)
(* directory: run_experiment once, then any number of resume_experiment    *)
(* commands, each with or without --force-stage (pipeline/runner.py,       *)
(* pipeline/resume.py).  Every durable write is a step of its own, so that *)
(* the process can be killed between any two of them; what a command       *)
(* computes without writing belongs to the step that uses it.              *)
(*                                                                         *)
(* The run directory holds manifest.json (manifest), status.json           *)
(* (statusFile), each stage's canonical output (files), the archive        *)
(* ledgers under archive/forced with the outputs they keep (ledgers, in    *)
(* the order of their timestamped names) and failures/*.json (failures).   *)
(* leftovers are the stage directories that hold the temporary file of a   *)
(* write cut short.  pc, after, force and produced are the running         *)
(* command's memory; outcome is how the last command ended.                *)
(***************************************************************************)
EXTENDS RunManifest, Sequences

CONSTANTS
  Plans,        \* the possible [enabled, required] stage sets of a configuration
  HardKill,     \* TRUE if a kill can leave a restoration's temporary file behind
  MaxKills,     \* bound: killed commands
  MaxFaults,    \* bound: stage errors and failed archive moves
  MaxForces,    \* bound: forced resumes
  MaxDamages,   \* bound: files altered or lost on disk between commands
  MaxAttempts   \* bound: a stage's attempts, after which nobody resumes any more

ASSUME PlanAssumption ==
  Plans \subseteq [enabled : SUBSET Stages, required : SUBSET Stages]

ASSUME BoundAssumption ==
  /\ HardKill \in BOOLEAN
  /\ {MaxKills, MaxFaults, MaxForces, MaxDamages, MaxAttempts} \subseteq Nat

VARIABLES manifest, statusFile, files, leftovers, ledgers, failures,
          plan, pc, after, force, produced, outcome, spent

disk == <<files, leftovers, ledgers, failures>>
memory == <<after, force, produced>>
vars == <<manifest, statusFile, disk, plan, pc, memory, outcome, spent>>

-----------------------------------------------------------------------------
\* The stage graph.

ConfigStage == 1      \* resolve_configuration: resolved_config.yaml
ProbeStage  == 2      \* probe_runtime: environment.json
FinalStage  == N      \* finalize_manifest: completion.json

\* The stages whose canonical output is a directory published by one rename.
DirectoryStages == Stages \ {ConfigStage, ProbeStage, FinalStage}

ClosedSets ==
  {C \in SUBSET Stages : \A s \in Stages : Deps[s] \intersect C # {} => s \in C}

\* Mutant: only direct dependents are invalidated.
Descendants_Direct == [f \in Stages |-> {f} \union {s \in Stages : f \in Deps[s]}]

\* A stage and all its transitive dependents.
Descendants ==
  [f \in Stages |-> {s \in Stages : \A C \in ClosedSets : f \in C => s \in C}]

-----------------------------------------------------------------------------
\* The forced-archive ledgers.

LedgerStates == {"preparing", "outputs_archived", "manifest_committed",
                 "recovered", "rolled_back"}

Ledgers == [ state    : LedgerStates,
             names    : SUBSET Stages,
             previous : [Stages -> StageRecords],
             kept     : [Stages -> Outputs] ]

Pending(i) == ledgers[i].state \in {"preparing", "outputs_archived"}
SomePending == \E i \in DOMAIN ledgers : Pending(i)
FirstPending(i) == Pending(i) /\ \A j \in 1 .. i - 1 : ~Pending(j)

\* The stages of ledger i that had outputs to move.
WithOutputs(i) ==
  {s \in ledgers[i].names : ledgers[i].previous[s].outputs # None}

StillClaims(i, s) ==
  LET current == manifest.stages[s]  previous == ledgers[i].previous[s]
  IN  /\ current.status = previous.status
      /\ current.fingerprint = previous.fingerprint
      /\ current.outputs = previous.outputs

ClaimsAll(i) == \A s \in ledgers[i].names : StillClaims(i, s)
ClaimsNone(i) == \A s \in ledgers[i].names : ~StillClaims(i, s)

\* What _plan_forced_archive_recovery demands of a pending ledger.
Recoverable(i) ==
  /\ ClaimsAll(i) \/ ClaimsNone(i)
  /\ \A s \in WithOutputs(i) :
       LET output == ledgers[i].previous[s].outputs
           archived == ledgers[i].kept[s]
       IN  /\ files[s] \in {None, output}
           /\ archived \in {None, output}
           /\ ledgers[i].state = "outputs_archived" \/ ~ClaimsAll(i) => archived # None
           /\ ClaimsAll(i) => files[s] # None \/ archived # None

\* The canonical files a recovery has to write back.
Restorations ==
  {r \in (DOMAIN ledgers) \X Stages :
     /\ Pending(r[1]) /\ ClaimsAll(r[1])
     /\ r[2] \in WithOutputs(r[1]) /\ files[r[2]] = None}

NextRestoration(r) ==
  /\ r \in Restorations
  /\ \A q \in Restorations : q[1] > r[1] \/ (q[1] = r[1] /\ q[2] >= r[2])

-----------------------------------------------------------------------------
\* What a resume verifies before it writes anything.

\* Mutant: no fallback to an archived configuration.
ConfigLoadable_CanonicalOnly == files[ConfigStage] = "config"

\* load_resume_config: the canonical file, or else the latest archived copy.
ConfigLoadable ==
  IF files[ConfigStage] # None
    THEN files[ConfigStage] = "config"
    ELSE \E i \in DOMAIN ledgers :
           /\ ledgers[i].kept[ConfigStage] = "config"
           /\ \A j \in DOMAIN ledgers : j > i => ledgers[j].kept[ConfigStage] = None

OutputInPlace(s) ==
  \/ manifest.stages[s].outputs = None
  \/ files[s] = manifest.stages[s].outputs

OutputInArchive(s) ==
  /\ files[s] = None
  /\ \E i \in DOMAIN ledgers :
       /\ Pending(i) /\ ClaimsAll(i) /\ s \in WithOutputs(i)
       /\ ledgers[i].kept[s] = manifest.stages[s].outputs

FingerprintCurrent(s) ==
  /\ DependenciesComplete(manifest, s)
  /\ manifest.stages[s].fingerprint = Fingerprint(manifest, s)

Succeeded(s) == manifest.stages[s].status = "success"

\* Mutant: fingerprints are verified, files are not.
PreflightPasses_NoFiles ==
  /\ \A i \in DOMAIN ledgers : Pending(i) => Recoverable(i)
  /\ \A s \in Stages : Succeeded(s) => FingerprintCurrent(s)

PreflightPasses ==
  /\ \A i \in DOMAIN ledgers : Pending(i) => Recoverable(i)
  /\ \A s \in Stages : Succeeded(s) => /\ OutputInPlace(s) \/ OutputInArchive(s)
                                       /\ FingerprintCurrent(s)

\* prepare_resume and archive_and_invalidate verify again, canonical files only.
EvidenceVerified ==
  \A s \in Stages : Succeeded(s) => OutputInPlace(s) /\ FingerprintCurrent(s)

ResumeAllowed == manifest.status # "absent" /\ ConfigLoadable /\ PreflightPasses

-----------------------------------------------------------------------------
\* Control of one command: write_status is _persist_status, which every
\* manifest update is followed by; next says where the command goes after it.

WriteStatusThen(next) == pc' = "status" /\ after' = next

EndCommand(how) ==
  /\ pc' = "idle" /\ outcome' = how
  /\ after' = "execute" /\ force' = 0 /\ produced' = None

NextStage(s) ==
  ~Complete(manifest, s) /\ \A t \in 1 .. s - 1 : Complete(manifest, t)

Working(s) == NextStage(s) /\ manifest.stages[s].status = "running"

Init ==
  /\ plan \in Plans
  /\ manifest = [status |-> "absent", stages |-> InitialStages(plan.required)]
  /\ statusFile = "absent"
  /\ files = [s \in Stages |-> None]
  /\ leftovers = {} /\ ledgers = <<>> /\ failures = {}
  /\ pc = "new" /\ after = "execute" /\ force = 0 /\ produced = None
  /\ outcome = "none"
  /\ spent = [kills |-> 0, faults |-> 0, forces |-> 0, damages |-> 0]

-----------------------------------------------------------------------------
\* run_experiment.

\* _ensure_run_topology writes the provisional files that do not exist yet.
WithTopology ==
  [files EXCEPT ![ConfigStage] = IF @ = None THEN "config" ELSE @,
                ![ProbeStage]  = IF @ = None THEN "provisional" ELSE @]

CreateTopology ==
  /\ pc = "new"
  /\ files' = WithTopology
  /\ pc' = "create"
  /\ UNCHANGED <<manifest, statusFile, leftovers, ledgers, failures, plan, memory, outcome, spent>>

CreateManifest ==
  /\ pc = "create"
  /\ manifest' = [manifest EXCEPT !.status = "running"]
  /\ WriteStatusThen("execute")
  /\ UNCHANGED <<statusFile, disk, plan, force, produced, outcome, spent>>

-----------------------------------------------------------------------------
\* resume_experiment: preflight, recovery, adoption.

ResumeBegin(forced) ==
  /\ pc = "idle" /\ ResumeAllowed
  /\ \A s \in Stages : manifest.stages[s].attempt < MaxAttempts
  /\ forced # 0 => spent.forces < MaxForces
  /\ spent' = IF forced = 0 THEN spent ELSE [spent EXCEPT !.forces = @ + 1]
  /\ force' = forced
  /\ pc' = "recover"
  /\ UNCHANGED <<manifest, statusFile, disk, plan, after, produced, outcome>>

ResumeRefused ==
  /\ pc = "idle" /\ ~ResumeAllowed
  /\ EndCommand("refused")
  /\ UNCHANGED <<manifest, statusFile, disk, plan, spent>>

RestoreOutput(r) ==
  /\ pc = "recover"
  /\ NextRestoration(r)
  /\ files' = [files EXCEPT ![r[2]] = ledgers[r[1]].kept[r[2]]]
  /\ UNCHANGED <<manifest, statusFile, leftovers, ledgers, failures, plan, pc, memory, outcome, spent>>

\* Ledgers advance only when every restoration has been made.
SettleLedger(i) ==
  /\ pc = "recover"
  /\ Restorations = {} /\ FirstPending(i)
  /\ ledgers' = [ledgers EXCEPT ![i].state =
                   IF ClaimsAll(i) THEN "recovered" ELSE "manifest_committed"]
  /\ UNCHANGED <<manifest, statusFile, files, leftovers, failures, plan, pc, memory, outcome, spent>>

\* What lies at the location of an interrupted stage, if it counts as
\* published: not the provisional environment, nor an empty placeholder.
Published(s) ==
  CASE files[s] \notin {None, "provisional"}     -> files[s]
    [] files[s] = None /\ s \in leftovers        -> "leftover"
    [] OTHER                                     -> None

Adoptable(s) ==
  manifest.status = "running" /\ manifest.stages[s].status = "running" /\ Published(s) # None

AdoptOutput(s) ==
  /\ pc = "recover" /\ ~SomePending
  /\ Adoptable(s) /\ \A t \in 1 .. s - 1 : ~Adoptable(t)
  /\ FingerprintCurrent(s)
  /\ manifest' = FinishStage(manifest, s, Published(s))
  /\ files' = [files EXCEPT ![s] = Published(s)]
  /\ leftovers' = IF Published(s) = "leftover" THEN leftovers \ {s} ELSE leftovers
  /\ WriteStatusThen("decide")
  /\ UNCHANGED <<statusFile, ledgers, failures, plan, force, produced, outcome, spent>>

Deciding ==
  \/ pc = "decide"
  \/ pc = "recover" /\ ~SomePending /\ \A s \in Stages : ~Adoptable(s)

\* Mutant: any ended run counts as complete.
AlreadyComplete_Ended ==
  /\ Deciding
  /\ manifest.status # "running" /\ force = 0
  /\ EndCommand("returned")
  /\ UNCHANGED <<manifest, statusFile, disk, plan, spent>>

AlreadyComplete ==
  /\ Deciding
  /\ manifest.status = "success" /\ force = 0
  /\ EndCommand("returned")
  /\ UNCHANGED <<manifest, statusFile, disk, plan, spent>>

ReopenRun ==
  /\ Deciding
  /\ manifest.status # "success" /\ force = 0 /\ EvidenceVerified
  /\ manifest' = Reopen(manifest, {})
  /\ pc' = "topology"
  /\ UNCHANGED <<statusFile, disk, plan, memory, outcome, spent>>

-----------------------------------------------------------------------------
\* archive_and_invalidate: the forced subtree's outputs move to the archive,
\* then the manifest that no longer claims them is committed.

Archiving == ledgers[Len(ledgers)]

WriteLedger ==
  /\ Deciding
  /\ force # 0 /\ EvidenceVerified
  /\ ledgers' = Append(ledgers, [ state    |-> "preparing",
                                  names    |-> Descendants[force],
                                  previous |-> manifest.stages,
                                  kept     |-> [s \in Stages |-> None] ])
  /\ pc' = "move"
  /\ UNCHANGED <<manifest, statusFile, files, leftovers, failures, plan, memory, outcome, spent>>

Unmoved == {s \in WithOutputs(Len(ledgers)) : Archiving.kept[s] = None}

MoveOutput(s) ==
  /\ pc = "move"
  /\ s \in Unmoved /\ \A t \in Unmoved : t >= s
  /\ ledgers' = [ledgers EXCEPT ![Len(ledgers)].kept[s] = files[s]]
  /\ files' = [files EXCEPT ![s] = None]
  /\ UNCHANGED <<manifest, statusFile, leftovers, failures, plan, pc, memory, outcome, spent>>

MoveFails ==
  /\ pc = "move" /\ Unmoved # {} /\ spent.faults < MaxFaults
  /\ spent' = [spent EXCEPT !.faults = @ + 1]
  /\ pc' = "rollback"
  /\ UNCHANGED <<manifest, statusFile, disk, plan, memory, outcome>>

Moved == WithOutputs(Len(ledgers)) \ Unmoved

MoveBack(s) ==
  /\ pc = "rollback"
  /\ s \in Moved /\ \A t \in Moved : t <= s
  /\ files' = [files EXCEPT ![s] = Archiving.kept[s]]
  /\ ledgers' = [ledgers EXCEPT ![Len(ledgers)].kept[s] = None]
  /\ UNCHANGED <<manifest, statusFile, leftovers, failures, plan, pc, memory, outcome, spent>>

RolledBack ==
  /\ pc = "rollback" /\ Moved = {}
  /\ ledgers' = [ledgers EXCEPT ![Len(ledgers)].state = "rolled_back"]
  /\ EndCommand("raised")
  /\ UNCHANGED <<manifest, statusFile, files, leftovers, failures, plan, spent>>

SealLedger ==
  /\ pc = "move" /\ Unmoved = {}
  /\ ledgers' = [ledgers EXCEPT ![Len(ledgers)].state = "outputs_archived"]
  /\ pc' = "invalidate"
  /\ UNCHANGED <<manifest, statusFile, files, leftovers, failures, plan, memory, outcome, spent>>

CommitInvalidation ==
  /\ pc = "invalidate"
  /\ manifest' = Reopen(manifest, Archiving.names)
  /\ pc' = "mark"
  /\ UNCHANGED <<statusFile, disk, plan, memory, outcome, spent>>

MarkCommitted ==
  /\ pc = "mark"
  /\ ledgers' = [ledgers EXCEPT ![Len(ledgers)].state = "manifest_committed"]
  /\ pc' = "topology"
  /\ UNCHANGED <<manifest, statusFile, files, leftovers, failures, plan, memory, outcome, spent>>

EnsureTopology ==
  /\ pc = "topology"
  /\ files' = WithTopology
  /\ WriteStatusThen("execute")
  /\ UNCHANGED <<manifest, statusFile, leftovers, ledgers, failures, plan, force, produced, outcome, spent>>

-----------------------------------------------------------------------------
\* _execute_pipeline: one stage after the other in STAGE_ORDER.

SkipDisabled(s) ==
  /\ pc = "execute" /\ NextStage(s) /\ s \notin plan.enabled
  /\ manifest' = SkipStage(manifest, s)
  /\ WriteStatusThen("execute")
  /\ UNCHANGED <<statusFile, disk, plan, force, produced, outcome, spent>>

BeginStage(s) ==
  /\ pc = "execute" /\ NextStage(s) /\ s \in plan.enabled
  /\ DependenciesComplete(manifest, s) /\ CanStart(manifest, s)
  /\ manifest' = StartStage(manifest, s)
  /\ WriteStatusThen("work")
  /\ UNCHANGED <<statusFile, disk, plan, force, produced, outcome, spent>>

\* A directory is never published over an existing one, nor completion.json
\* over an existing file; the other two stages accept what is there.
LocationFree(s) ==
  \/ s \in {ConfigStage, ProbeStage}
  \/ files[s] = None /\ s \notin leftovers

PublishOutput(s, digest) ==
  /\ pc = "work" /\ Working(s) /\ LocationFree(s)
  /\ IF s = ConfigStage THEN files[s] = "config" /\ digest = "config" ELSE digest \in Digests
  /\ files' = [files EXCEPT ![s] = digest]
  /\ produced' = digest
  /\ pc' = "finish"
  /\ UNCHANGED <<manifest, statusFile, leftovers, ledgers, failures, plan, after, force, outcome, spent>>

FinishRunningStage(s) ==
  /\ pc = "finish" /\ Working(s)
  /\ manifest' = FinishStage(manifest, s, produced)
  /\ produced' = None
  /\ WriteStatusThen("execute")
  /\ UNCHANGED <<statusFile, disk, plan, force, outcome, spent>>

\* A capability error of an optional stage.
StageUnsupported(s) ==
  /\ pc = "work" /\ Working(s) /\ ~manifest.stages[s].required
  /\ manifest' = MarkUnsupported(manifest, s)
  /\ WriteStatusThen("execute")
  /\ UNCHANGED <<statusFile, disk, plan, force, produced, outcome, spent>>

\* Any other error, and in particular an occupied location.
StageFails(s) ==
  /\ pc = "work" /\ Working(s)
  /\ IF LocationFree(s)
       THEN /\ spent.faults < MaxFaults
            /\ spent' = [spent EXCEPT !.faults = @ + 1]
       ELSE UNCHANGED spent
  /\ pc' = "evidence"
  /\ UNCHANGED <<manifest, statusFile, disk, plan, memory, outcome>>

WriteFailureEvidence(s) ==
  /\ pc = "evidence" /\ Working(s)
  /\ <<s, manifest.stages[s].attempt>> \notin failures
  /\ failures' = failures \union {<<s, manifest.stages[s].attempt>>}
  /\ pc' = "fail"
  /\ UNCHANGED <<manifest, statusFile, files, leftovers, ledgers, plan, memory, outcome, spent>>

PersistFailure(s) ==
  /\ pc = "fail" /\ Working(s)
  /\ manifest' = FailStage(manifest, s)
  /\ WriteStatusThen("raised")
  /\ UNCHANGED <<statusFile, disk, plan, force, produced, outcome, spent>>

PersistSuccess ==
  /\ pc = "execute" /\ \A s \in Stages : Complete(manifest, s)
  /\ CanSucceed(manifest)
  /\ manifest' = Succeed(manifest)
  /\ WriteStatusThen("returned")
  /\ UNCHANGED <<statusFile, disk, plan, force, produced, outcome, spent>>

PersistStatus ==
  /\ pc = "status"
  /\ statusFile' = manifest.status
  /\ IF after \in {"returned", "raised"}
       THEN EndCommand(after)
       ELSE pc' = after /\ UNCHANGED <<memory, outcome>>
  /\ UNCHANGED <<manifest, disk, plan, spent>>

-----------------------------------------------------------------------------
\* The environment: a command is killed; a recorded file is altered or lost.

Kill ==
  /\ pc # "idle" /\ spent.kills < MaxKills
  /\ spent' = [spent EXCEPT !.kills = @ + 1]
  /\ EndCommand("killed")
  /\ \/ UNCHANGED leftovers
     \/ /\ HardKill /\ pc = "recover"
        /\ \E r \in Restorations : /\ NextRestoration(r) /\ r[2] \in DirectoryStages
                                   /\ leftovers' = leftovers \union {r[2]}
  /\ UNCHANGED <<manifest, statusFile, files, ledgers, failures, plan>>

DamageOutput(s, content) ==
  /\ pc = "idle" /\ spent.damages < MaxDamages
  /\ Succeeded(s) /\ files[s] \notin {None, "damaged"}
  /\ files' = [files EXCEPT ![s] = content]
  /\ spent' = [spent EXCEPT !.damages = @ + 1]
  /\ UNCHANGED <<manifest, statusFile, leftovers, ledgers, failures, plan, pc, memory, outcome>>

DamageArchive(i, s, content) ==
  /\ pc = "idle" /\ spent.damages < MaxDamages
  /\ ledgers[i].kept[s] \notin {None, "damaged"}
  /\ ledgers' = [ledgers EXCEPT ![i].kept[s] = content]
  /\ spent' = [spent EXCEPT !.damages = @ + 1]
  /\ UNCHANGED <<manifest, statusFile, files, leftovers, failures, plan, pc, memory, outcome>>

-----------------------------------------------------------------------------
ExecuteStage(s) ==
  \/ SkipDisabled(s) \/ BeginStage(s) \/ StageUnsupported(s) \/ StageFails(s)
  \/ \E digest \in Digests \union {"config"} : PublishOutput(s, digest)
  \/ FinishRunningStage(s) \/ WriteFailureEvidence(s) \/ PersistFailure(s)

\* What a running command does next.
ProcessStep ==
  \/ CreateTopology \/ CreateManifest
  \/ \E r \in (DOMAIN ledgers) \X Stages : RestoreOutput(r)
  \/ \E i \in DOMAIN ledgers : SettleLedger(i)
  \/ AlreadyComplete \/ ReopenRun
  \/ WriteLedger \/ MoveFails \/ RolledBack \/ SealLedger
  \/ CommitInvalidation \/ MarkCommitted \/ EnsureTopology
  \/ \E s \in Stages : AdoptOutput(s) \/ MoveOutput(s) \/ MoveBack(s) \/ ExecuteStage(s)
  \/ PersistSuccess \/ PersistStatus

Command == ResumeRefused \/ \E forced \in {0} \union Stages : ResumeBegin(forced)

Damage ==
  \E s \in Stages, content \in {None, "damaged"} :
    \/ DamageOutput(s, content)
    \/ \E i \in DOMAIN ledgers : DamageArchive(i, s, content)

Next == ProcessStep \/ Command \/ Kill \/ Damage

Spec == Init /\ [][Next]_vars

\* A command that is not killed runs on, and an unforced resume is issued
\* again as long as the run is not complete.
Resume == ResumeBegin(0)
FairSpec == Spec /\ WF_vars(ProcessStep) /\ WF_vars(Resume)
=============================================================================
