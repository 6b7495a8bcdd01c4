------------------------ MODULE PipelineProperties ------------------------
(***************************************************************************)
(* What must hold of a governed run, whatever kills, failures, forced      *)
(* resumes and disk damage it meets (PipelineRun).                         *)
(***************************************************************************)
EXTENDS PipelineRun

\* The shape of every variable of the run (manifests.py, pipeline/resume.py).
TypeOK ==
  /\ plan \in Plans
  /\ manifest \in Manifests
  /\ statusFile \in RunStatuses
  /\ files \in [Stages -> Outputs]
  /\ leftovers \subseteq DirectoryStages
  /\ ledgers \in Seq(Ledgers)
  /\ failures \subseteq Stages \X Nat
  /\ pc \in {"new", "create", "idle", "recover", "decide", "move", "rollback",
             "invalidate", "mark", "topology", "status", "execute", "work",
             "finish", "evidence", "fail"}
  /\ after \in {"execute", "work", "decide", "returned", "raised"}
  /\ force \in {0} \union Stages
  /\ produced \in Outputs
  /\ outcome \in {"none", "returned", "raised", "killed", "refused"}
  /\ spent \in [kills : Nat, faults : Nat, forces : Nat, damages : Nat]
  /\ pc \in {"move", "rollback", "invalidate", "mark"} => ledgers # <<>>

\* A stage that runs or succeeded has all its dependencies complete, and its
\* fingerprint is that of their present outputs: no rerun, adoption or
\* invalidation leaves a result computed from something else
\* (verify_successful_stage_fingerprints, recover_published_stage_outputs).
FingerprintsCurrent ==
  \A s \in Stages :
    manifest.stages[s].status \in {"running", "success"} => FingerprintCurrent(s)

\* Unless the disk was damaged, the output of every successful stage exists:
\* in place, or in the archive of the one transaction that can bring it back.
\* On a damaged disk the same holds as long as a command is running, that is,
\* no command runs on damaged evidence (preflight_resume_integrity).
EvidenceIntact ==
  spent.damages = 0 \/ pc # "idle" =>
    \A s \in Stages : Succeeded(s) => OutputInPlace(s) \/ OutputInArchive(s)

\* Every failed stage has the failure file of its present attempt, and no
\* attempt, over all resumes, is numbered like one that failed before, so the
\* evidence is never refused as an overwrite (_record_failure).
FailureEvidence ==
  \A s \in Stages :
    /\ manifest.stages[s].status = "failed" => <<s, manifest.stages[s].attempt>> \in failures
    /\ pc \in {"work", "evidence"} /\ Working(s) =>
         <<s, manifest.stages[s].attempt>> \notin failures

\* When a command reports the run complete, every required stage succeeded,
\* every stage is settled on current fingerprints, and every recorded output
\* is in place (validate_completed_run).
ReturnedRunComplete ==
  pc = "idle" /\ outcome = "returned" /\ spent.damages = 0 =>
    /\ manifest.status = "success"
    /\ \A s \in Stages :
         /\ Complete(manifest, s)
         /\ manifest.stages[s].required => Succeeded(s)
         /\ Succeeded(s) => OutputInPlace(s) /\ FingerprintCurrent(s)

\* Without damage a resume is refused only if the run never got a manifest or
\* if a pending archive matches the manifest in part: a stage it names was
\* already invalidated when it was archived (_plan_forced_archive_recovery).
PartlyClaimed(i) == Pending(i) /\ ~ClaimsAll(i) /\ ~ClaimsNone(i)
RefusalExplained ==
  outcome = "refused" /\ spent.damages = 0 =>
    \/ manifest.status = "absent"
    \/ \E i \in DOMAIN ledgers :
         /\ PartlyClaimed(i)
         /\ \A s \in ledgers[i].names : manifest.stages[s].status = "invalidated"

-----------------------------------------------------------------------------
\* A command without --force-stage changes no successful stage: not its
\* record, nor its output, except to restore it from the archive ("resumes an
\* incomplete run without rewriting successful stages").
UnforcedKeepsResults ==
  [][pc # "idle" /\ force = 0 =>
       \A s \in Stages : Succeeded(s) =>
         /\ manifest'.stages[s] = manifest.stages[s]
         /\ files'[s] = files[s] \/ (files[s] = None /\ files'[s] = manifest.stages[s].outputs)]_vars

-----------------------------------------------------------------------------
\* The ledger of results that readers of the manifest and of the archive see.
LedgerResult(s) ==
  [ state  |-> CASE Succeeded(s)          -> "recorded"
                 [] ~Complete(manifest, s) -> "open"
                 [] OTHER                  -> "waived",
    output |-> IF Succeeded(s) THEN manifest.stages[s].outputs ELSE None,
    inputs |-> IF Succeeded(s) THEN manifest.stages[s].fingerprint
                               ELSE [d \in Stages |-> None] ]

Retained ==
  {<<s, manifest.stages[s].outputs>> : s \in {t \in Stages : Succeeded(t)}}
  \union
  UNION {{<<s, ledgers[i].kept[s]>> : s \in {t \in Stages : ledgers[i].kept[t] # None}}
           : i \in DOMAIN ledgers}

Ledger == INSTANCE EvidenceLedger
            WITH OutputSet <- Contents,
                 results   <- [s \in Stages |-> LedgerResult(s)],
                 retained  <- Retained,
                 complete  <- manifest.status = "success"

\* A run implements the abstract ledger: results are recorded on their inputs,
\* withdrawn with their dependents, and never discarded.
ImplementsLedger == Ledger!LedgerSpec

-----------------------------------------------------------------------------
\* If commands are eventually left alone and resume is repeated, the run
\* completes, unless it never got a manifest, its disk was damaged, or an
\* archive matches in part (resume_experiment).
EventuallyComplete ==
  <>[](\/ manifest.status \in {"absent", "success"}
       \/ spent.damages > 0
       \/ \E i \in DOMAIN ledgers : PartlyClaimed(i))
=============================================================================
