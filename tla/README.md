# Verification of inkling-quant

TLA+ models of the governed experiment pipeline of `inkling_quant_lab`, of its
isolated benchmark workers and two-process groups, of the paid remote stages and
one-shot attempts it launches, of the server sessions they measure and of the
two confirmatory quality attempts behind its claim, the TLC runs that check them
on small instances, and TLAPS proofs of the safety properties of all of them.
Source paths below are relative to the repository.

## 1. The system: inventory

| Part (source) | State it keeps | Operations | What is hard | What makes it correct |
|---|---|---|---|---|
| Experiment run (`pipeline/runner.py`) | a run directory: `manifest.json`, `status.json`, stage outputs, `failures/`, `events.jsonl` | `run_experiment`, `resume_experiment`, the stage loop, failure recording | the process may stop between any two durable writes; commands are repeated | a reported success is a complete run; failures keep their evidence |
| Resume and forced rerun (`pipeline/resume.py`) | archive ledgers and archived outputs under `archive/forced` | preflight, archive recovery, adoption of published outputs, reopening, archive and invalidate, rollback | a multi-file move and a ledger that must agree with the manifest after any interruption | no successful stage loses its output; nothing recorded is discarded |
| Run manifest (`manifests.py`) | run status, stage records (status, fingerprint, outputs, attempt) | start, finish, fail, skip, mark, succeed, reopen | transitions are spread over runner and resume | only legal transitions; success only if all required stages succeeded |
| Stage graph (`pipeline/stages.py`) | none | enabled and required stages, transitive dependents, fingerprints, publication | optional and disabled stages inside the graph | a result is never kept on top of replaced inputs |
| Artifact store (`artifacts.py`) | files and directories | atomic file write, staged directory | temporary files of interrupted writes | a reader sees all of a publication or none |
| Configuration (`config.py`, `registry.py`, `bootstrap.py`) | none after load | validation, component registration | cross-field rules | stage sets follow from the configuration |
| Benchmark worker (`pipeline/benchmark_worker.py`) | a child process and its result pipe | isolated request, timeout, terminate, kill | an answer racing the deadline, a child that ignores termination | no answer lost, no child left behind |
| Candidate artifacts, comparison bundles (`pipeline/candidate_artifact.py`, `pipeline/comparison_artifacts.py`, `pipeline/summaries.py`) | a comparison directory | verify a run, publish a bundle | reading a directory that another command changes | everything read is what the manifest records |
| Comparison (`comparison.py`) | none | Pareto front, constraints, missing metrics | tolerances, unavailable metrics, mixed evaluation suites | some run is optimal, and what is not is dominated |
| Evaluation and noninferiority (`evaluation/`) | none | paired statistics, decisions | numerical edges | decision tables |
| Routing (`routing/`) | hook handles, trace buffers | attach, capture, detach | detach on every path | hooks never outlive a capture |
| Quantization, models, runtimes, benchmarking, reporting, post-training | model objects, samplers | numerical work through external libraries | sampling threads | (numerical) |
| GGUF publication (`gguf/publication.py`, `gguf/workflow.py`) | intent and receipt files, the converted model | prepare intent, finalize | stop between move and receipt, repeated finalisation | a receipt exists only for what is in place |
| GGUF smoke, measurement, matched control (`gguf/inkling_*`) | attempt, authorisation and evidence records, an atomic registry, a volume, local records | deploy, launch, accept, claim, run the stages, publish a receipt, status | a spawn or a commit whose result is unknown, preempted containers, two hosts, torn local records | paid work begins at most once; the one receipt can be bound; what status answers stays true |
| Server sessions (`scripts/run_inkling_measurement_modal.py`) | a child process, a sampling thread, request threads and their barrier | load cold and warm, batches of requests, clean-up | a child that crashes, hangs or ignores signals at any point, errors of the clean-up | loads never overlap, nothing is left behind, the first error is the one raised |
| Tensor parallel execution (`distributed.py`, `public_moe_tensor_parallel.py`) | one process per rank, collectives, a report queue or files | spawn, join, terminate, collect | one rank's death leaves the other in a collective, sequential joins against a shared deadline | all ranks end; the outcome says what happened |
| Remote job managers (`scripts/manage_inkling_*_modal.py`) | a lock file, launch intents, call receipts | launch, reconcile the lock, reconcile an intent | a spawn whose answer is lost, a manager that dies with the lock, views of Modal that are stale when used | at most one paid call at a time, stages in order |
| Remote job bodies (`scripts/quantize_inkling_modal.py`) | per stage, on a volume: invocation history, counter, partial and canonical directories, intent, receipts | charge, convert, publish, recover, succeed | containers that die anywhere and are started again, volume writes that are not yet committed, or committed early | no work beyond the cost caps, a finished output is never lost or redone |
| Confirmatory attempts (`scripts/run_confirmatory_quality_attempt.py`, `scripts/verify_confirmatory_quality_repeats.py`) | an attempt root with two attempt directories and one aggregate, their modes; evaluator processes | run an attempt, freeze it, verify both, publish the aggregate, close the root | nothing locks the root; a runner killed while its evaluator goes on; bound files that change between two reads | a claim rests on the one evaluation of each attempt, on what is registered; what is sealed stays |
| CLI, logging, security, evidence, hardware, compatibility | none | argument handling, redaction, validation | none | (data) |

The parts interact through the file system of one run directory: the CLI calls
the runner, the runner calls resume, which reads the manifest and the archive;
the stage executors publish through the artifact store and read what earlier
stages published; the managers and the comparison commands read finished runs.
Nothing in the run pipeline uses threads or locks: what makes it hard is that a
command can stop between any two writes, that the next command has to make
sense of what it finds, and that commands are repeated and forced in any order.
A benchmark stage asks a child process of its own for the measurement, over a
pipe and under a deadline. The remote stages share a Modal volume, which each
sees through a working copy, and are started by managers on one machine that
share a lock file and the records of what they spawned. The attempts add a Modal
Dict, the one thing that two hosts or two containers race for atomically.

## 2. Modules

| Module | Models |
|---|---|
| `StageGraph` | `pipeline/stages.py`: the 14 stages, their dependencies, the enabled and required sets of a configuration, and which stages read which files (`pipeline/runner.py`) |
| `RunManifest` | `manifests.py` and the fingerprint of `pipeline/stages.py`: the manifest as a value, its transitions as operators |
| `PipelineRun` | `pipeline/runner.py`, `pipeline/resume.py`: one run directory and the commands issued against it, one action per durable write |
| `StageDescendants` | the fixpoint loop of `stage_descendants`; `PipelineRun` uses what it returns |
| `EvidenceLedger` | the abstract specification: results recorded on inputs, withdrawn with their dependents, retained forever |
| `PipelineProperties` | the properties of `PipelineRun` and the refinement mapping to `EvidenceLedger` |
| `BenchmarkWorker` | `pipeline/benchmark_worker.py`: parent, pipe, worker and signals, over successive calls |
| `StageVolume` | one stage's subtree of the volume and its operations: `gguf/publication.py` and the invocation ledgers of `scripts/quantize_inkling_modal.py` |
| `StageLaunch` | managers (`scripts/manage_inkling_modal.py`), Modal's calls and their containers (the stage functions of `scripts/quantize_inkling_modal.py`, the source stage included) on that volume |
| `TensorParallelGroup` | `distributed.py`, `public_moe_tensor_parallel.py`: the three two-process groups, parent and ranks |
| `OneShotAttempt` | the abstract specification of a paid attempt: one claim, one beginning of the work, one outcome |
| `AttemptEvidence` | the records of the measurement and diagnostic attempts and how `status` binds them |
| `MeasurementAttempt` | those attempts: deployment, launch, container, publication (`scripts/manage_inkling_measurement_modal.py`, `scripts/manage_inkling_bf16_interface_diagnostic_modal.py`, `scripts/run_inkling_measurement_modal.py`) |
| `MatchedAttempt` | the matched smoke attempt: launch, container, two-cycle publication, status (`scripts/manage_inkling_matched_modal.py`, `scripts/run_inkling_matched_modal.py`) |
| `SmokeAttempt` | the single-artifact smoke: launch, container, publication, status, from two hosts (`scripts/manage_inkling_smoke_modal.py`, `scripts/smoke_inkling_modal.py`) |
| `ServerSession` | the measured child processes of `scripts/run_inkling_measurement_modal.py`, with their sampling and request threads |
| `ParetoSelection` | `comparison.py`: dominance with tolerances, the frontier, which runs become points |
| `ConfirmatoryAttempt` | `scripts/run_confirmatory_quality_attempt.py`, `scripts/verify_confirmatory_quality_repeats.py`: runners, evaluators and verifiers on one attempt root |
| `PipelineProofs`, `LocalProofs`, `ServerSessionProofs`, `StageLaunchProofs`, `SmokeProofs`, `MeasurementProofs`, `MatchedProofs`, `ConfirmatoryProofs` | theorems, for every value of the constants |
| `MCPipelineSmall`, `MCPipelineGoverned`, `MCBenchmarkWorker`, `MCStageLaunch`, `MCTensorParallelGroup`, `MCMeasurementAttempt`, `MCMatchedAttempt`, `MCSmokeAttempt`, `MCServerSession`, `MCConfirmatoryAttempt` | instances for TLC |

### How `PipelineRun` corresponds to the code

*State.* `manifest` and `statusFile` are `manifest.json` and `status.json`.
`files[s]` is what lies at the canonical location of stage `s`
(`STAGE_OUTPUT_LOCATIONS`), `ledgers` the archive manifests in the order of
their timestamped names, each with the outputs its archive keeps, `failures`
the files under `failures/`, and `leftovers` the stage directories that hold
the temporary file of an interrupted `write_bytes`. `plan` is the resolved
configuration as far as it matters: the enabled and the required stages. The
command in progress is `pc` with its memory `after`, `force`, `produced`; it is
lost when the command is killed. `outcome` is how the last command ended.
`spent` counts what the bounds limit.

*Abstractions.* A stage has one output, a value that stands for the tuple of
paths, sizes and checksums it records, so a stage's files move to the archive
in one step (the code moves them one by one; recovery treats each file as the
model treats each stage). A fingerprint is the function of dependency outputs
that the code hashes, so hashes do not collide. A stage's computation is a
choice among `Digests`. `events.jsonl`, timestamps, the error texts and the
provenance fields of the manifest are left out. A rename and a manifest write
are atomic, as `os.replace` makes them.

*Actions.* In the order of a command:

| Actions | Code |
|---|---|
| `CreateTopology`, `CreateManifest` | `run_experiment`: `_ensure_run_topology`, `persist_manifest` |
| `ResumeBegin`, `ResumeRefused` | `resume_experiment` up to the end of `preflight_resume_integrity`, which writes nothing |
| `RestoreOutput`, `SettleLedger` | `recover_forced_archive_transactions`: all restorations, then all ledger states |
| `AdoptOutput` | `recover_published_stage_outputs` and the manifest that records it |
| `AlreadyComplete`, `ReopenRun` | the early return, `prepare_resume` without `--force-stage` |
| `WriteLedger`, `MoveOutput`, `MoveFails`, `MoveBack`, `RolledBack`, `SealLedger` | `archive_and_invalidate` |
| `CommitInvalidation`, `MarkCommitted`, `EnsureTopology` | the manifest after a forced archive, `mark_forced_archive_committed`, `_ensure_run_topology` |
| `SkipDisabled`, `BeginStage`, `PublishOutput`, `FinishRunningStage`, `StageUnsupported`, `StageFails`, `WriteFailureEvidence`, `PersistFailure`, `PersistSuccess` | `_execute_pipeline` and `_record_failure` |
| `PersistStatus` | `_persist_status`, which follows the manifest writes |
| `Kill`, `DamageOutput`, `DamageArchive` | the environment |

The checks that the code repeats after the preflight (`prepare_resume`,
`archive_and_invalidate`, the fingerprint check of an adoption) are guards of
`ReopenRun`, `WriteLedger` and `AdoptOutput` without an alternative: that they
never fail there is what the deadlock check of the runs shows.

`HardKill` selects the kind of kill: FALSE is a kill between writes, TRUE also
one inside the `write_bytes` of a restoration, which leaves its temporary file.

### How `BenchmarkWorker` corresponds to the code

`pc` is where `run_isolated_benchmark` is: between the start of the worker and the
`try` block, in the four places of the polling loop,
the five-second join after a message, the three of `_terminate_worker`, and the
`finally` block; `closed` tells the first `_terminate_worker` from the one of
`finally`. Each call has a worker, its exit code as far as the parent tells
codes apart, the unread part of its pipe (nothing, a part of a message, a
message) and the signal sent to it. `expired` turns true at any moment: time
is not measured. `grip` is what can stop a worker: SIGTERM, only SIGKILL, or
nothing while it sits in an uninterruptible device call.

| Actions | Code |
|---|---|
| `BeginSend`, `EndSend`, `CloseUnsent`, `Exit` | `_worker_entry` and the interpreter's exit |
| `DieOfSignal`, `Crash`, `ParentKilled`, `DeadlinePasses` | signals, the kernel, SIGKILL of the parent, the clock |
| `Interrupt`, `InterruptOutside` | Ctrl-C in the `try` block, which `finally` follows; Ctrl-C before it or in `finally`, also while `finally` cleans up behind an earlier one, which nothing follows |
| `StartCall`, `EnterTry`, `CheckDeadline`, `Poll`, `Receive`, `CheckAlive`, `Join`, `Finally` | `run_isolated_benchmark` |
| `Stop`, `TermJoin`, `KillJoin` | `_terminate_worker` |

A join that times out is a step taken while the worker lives; the one
assumption about time is that a process that SIGKILL can stop is gone within
the five seconds of the last join. `Connection.recv` raises `EOFError` at the
end of a file and `OSError` inside a truncated message, as the library does.
The verdict of a call says how it ended; `abandoned` and `parent_killed` are the
two ends without a clean-up, which `NoOverlap` excepts by name. A Ctrl-C inside
`process.start()` is left out: whether the library has created the process by then
is not the code's to say, and it amounts to one before the call or just behind it.

### How `StageVolume` and `StageLaunch` correspond to the code

*State.* `volume[s]` is what is committed below the work root of stage `s`: the
immutable start records of its invocations, the counter file, partial and
canonical directories, publication intent and receipt, success receipt, and for
the adopted source the attempt its receipt is bound to (`creation`) and the
later attempts with a validation record (`validated`). A directory is the attempt that produced it and whether it is whole. `call[i]` is
the Modal call of launch intent `i`: its status, where its container is, and
the container's working copy of the subtree. `lock`, `intentStage` and
`receipts` are `manager.lock`, `launch-intents/` and `calls/`; `manager[m]` is
where a manager process is in `_launch_locked`.

| Actions | Code |
|---|---|
| `Acquire`, `CheckActive`, `CheckLaunchable`, `CreateIntent`, `Spawn`, `RecordCall`, `Release` | `_exclusive_manager_operation` and `_launch_locked`, with the gates it calls |
| `ReconcileLock`, `ReconcileIntent` | `_reconcile_stale_manager_lock`, `reconcile_launch_intent` |
| `StartContainer`, `Begin`, `Count`, `CommitBegin` | the start of a stage function up to the commit of its charge (`_begin_stage_invocation`) |
| `StartWork`, `FinishWork`, `PrepareIntent`, `CommitIntent`, `Finalize`, `Receipt`, `CommitReceipt`, `Succeed`, `CommitSuccess`, `Return` | a conversion, `_prepare_and_commit_publication`, `_recover_and_commit_publication`, the success receipt |
| `CheckSource` | `_verify_source_binding` of a later stage, and on the manager's side the same chain in `_validate_adopted_source_invocation_binding` (`SourceValid`) |
| `Validate`, `CommitValidation`, `Validated` | `materialize_source` when it finds its success receipt: the chain without the pending validation, the record, the chain with it |
| `Fail`, `ContainerDies`, `ManagerDies`, `BackgroundCommit` | the environment |

*Abstractions.* A volume is taken per stage: a container writes only its own
stage's subtree and reads its predecessor's committed receipt. Reload, commit
and background commit are Modal's, external, and atomic for a subtree. Of the
two read-only passes of `_launch_locked` the last is modelled, whose answers
are the ones used. A manager finds the lock of a dead owner only through
`ReconcileLock`, which is one step: the code compares the hash of the lock with
what the operator confirmed, looks for its owner, writes a record, compares the
hash once more and unlinks it. Another reconciliation of the same lock and a new
manager in the gap between the last comparison and the unlink would lose the new
lock; the operator who runs both is not modelled. Left out: billing windows and
deployment identity (which only
refuse more), the stage that downloads the source instead of adopting it, which
the workflow no longer launches, the adoption file, which is immutable and the
same for every attempt, the check that recognises a
repeated execution of one and the same invocation in its history, and the
rehash of old outputs.

### How `TensorParallelGroup` corresponds to the code

`rank[r]` is what the process of a rank is doing, `entered` and `passed` how many
collectives it has entered and left, `report` what it put into the queue or its
file, `code` its exit code. `phase` and `at` are where the parent is in its
loops over the ranks. A stuck rank neither computes nor notices its own timeout.

| Actions | Code |
|---|---|
| `Meet`, `EnterCollective`, `PassCollective`, `Report`, `Leave` | `_gloo_worker`, `_tensor_parallel_worker`, `_expert_worker`: the group, the workload, the report, the exit |
| `RankRaises`, `FailReported`, `FailSilently` | an exception in a rank, reported or not by its variant |
| `Start`, `StartFails`, `JoinRank`, `Check`, `Terminate`, `Reap`, `CollectFailure`, `CollectReports`, `Interrupted` | the parent: spawn, joins, `is_alive`, `terminate`, exit codes, reports |
| `RankDies`, `Stick`, `TermDelivered` | the environment |

Tensors are left out: which rank holds what, and the comparison with the
single-process reference, is arithmetic.

### How the attempts correspond to the code

*Measurement and diagnostic.* `local[h]` are the control records of host `h`
(absent, torn or whole: they are written in place), `manager[h]` is where its
manager is, `versions` and `orphans` the app's deployments and the `modal
deploy` subprocesses that outlived their manager. `registry` is the Modal Dict,
`volume` the evidence volume, `call[h]` Modal's call and `box` the one
container, with the stages it has completed, the references it holds and what
it has written and not committed. `AttemptEvidence` has what `status` reads.

| Actions | Code |
|---|---|
| `BeginDeploy`, `ReadHistory`, `Build`, `ReviewHistory`, `Seal` | `deploy` of either manager |
| `BeginLaunch` .. `Cancel` | `launch`: validation, the unconsumed check, the consumption record, intent, spawn, acceptance, local records, cancellation |
| `LoadIntent`, `WaitForAcceptance`, `ClaimAttempt`, `PublishClaim`, `CheckUnused` | the beginning of `run_measurement` and `run_bf16_interface_diagnostic` |
| `WorkStage`, `PublishSubject`, `ClaimServerLoad`, `RunServer`, `StageRaises` | the stages, in which `ServerSession` is one step |
| `PublishResult`, `BuildSuccess`, `PublishSuccess`, `PublishFailure`, `Leave` | the terminal receipts |
| `StartContainer`, `CancelQueued`, `KillContainer`, `PreemptContainer`, `BackgroundCommit`, `ManagerDies` | Modal, the environment |

*Matched smoke.* The app is deployed when the model begins. A file is a record
of what it binds; the container works on `disk`, its mounted copy of `volume`.
A commit may raise before or after it took effect, and a reload drops what was
not committed, so `CommitAndVerify` is the set of views that the code's two
cycles may leave, with or without an exception. A file has a temporary first,
which is renamed. `temporaries` says where there is one in the directories of
claims, snapshots and receipts, which `Status` lists and in which it refuses what
it does not know: `own` is the one being written, `mounted` one that stays on the
copy, because its removal failed, it was committed in between and came back with
the reload, or the file was installed again, `committed` one on the volume, by a
commit, in the background or of a container that dies. Elsewhere a temporary is
looked at by nobody and is left out. The publication keeps a history
of snapshots beside the receipt, from which `Status` decides. The code sorts them and
looks at each pair of neighbours; `HistoryValid` says the same of the set, in which
`RightBefore` are those that `Rank` puts next to each other.

| Actions | Code |
|---|---|
| `Authorize`, `Spawn`, `Accept`, `Cancel`, `WriteAcceptance`, `WriteCallReceipt` | `_launch_confirmed`, `_launch_once`, `_publish_post_spawn_acceptance` |
| `LoadIntent`, `WaitForAcceptance`, `ClaimAttempt`, `PublishRecords` | `matched_smoke_test` up to the claim's records |
| `StartServer`, `RunSubject`, `PersistSubject`, `VerifySubjects`, `BuildFailure`, `Leave` | `_run_subject` and what surrounds it |
| `BeginPublication`, `Install`, `Settle`, `Confirm`, `RecordUnknown` | `_publish_terminal`, `_mark_publication_unknown` |
| `StartContainer`, `CancelQueued`, `ContainerDies`, `ManagerDies`, `BackgroundCommit` | Modal, the environment |

*Single-artifact smoke.* Here several hosts launch, and share only Modal:
`manager[h]` and `local[h]` are a host's manager and its records (the intent, or
the status of its call receipt), which are linked into place whole. A manager
that dies leaves its lock, which nothing reconciles. `registry` keeps who claimed
last beside whether the entry is still there: Modal forgets an entry that
nobody touches for a week, by when every manager and call is over.
`volume` and `disk` are as above; there are no snapshots, and `status` decides
from the receipts and the records behind them. `temporaries` is as above, for the
directories of histories and failure receipts; the success receipt, claim and
ledger are asked for by name. A `launch` lists them too. The deployment is sealed on the
hosts when the model begins; a later one under the same tag is a fault
(`Redeploy`), which a host can cause that found the tag missing.

| Actions | Code |
|---|---|
| `BeginLaunch`, `WriteIntent`, `Authorize`, `Recheck`, `Spawn`, `Accept`, `Cancel`, `WriteCallReceipt` | `_launch_locked` and what it calls; of the two looks before the intent the last is taken, whose answer is used |
| `LoadInputs`, `WaitForAcceptance`, `ClaimAttempt`, `RecordClaim`, `RecordLedger`, `BindInputs` | `smoke_test` up to the inputs it binds: `_begin_only_attempt`, `_complete_owned_attempt_records` |
| `StartServer`, `RunServer` | the verification, the server with its monitor, the probes, the stop and the audits |
| `PublishSuccess`, `PublishFailure`, `Leave` | `_publish_success_receipt`, `_record_failure`, which completes the records first (`failing`), the exception |
| `Recorded`, `Evidence`, `FunctionState`, `Status` | `status`, read in one step: by the records, and by all that is on the volume |
| `StartContainer`, `CancelQueued`, `ContainerDies`, `ManagerDies`, `BackgroundCommit`, `ForgetClaim` | Modal, the environment |

The measurement and diagnostic containers write files through temporaries as well.
One that gets to the volume only adds refusals of `status`, which the properties of
`MeasurementAttempt` allow, so that model writes a file in one step.

All three implement `OneShotAttempt`: `claimed` is the call whose claim is in the
Dict, `begun` the tasks that began the paid work, `outcomes` the receipts on the
volume.

*Abstractions.* Digests and paths are named by what they bind, so a record that
is there is intact; clocks and expiry windows are a possible failure where the
code compares times; a probe or a stage's computation is a step that succeeds
or raises.

### How `ServerSession` corresponds to the code

`pc` is where the calling thread is and `purpose` which server it works with or
which clean-up it is in; `proc`, `code` and `signal` are the child, `monitor`,
`stopping` and `samples` the sampling thread, `clients` and `barrier` the request
threads of a batch, `cache` the page cache of the model file as the load finds
it, `pairs` the recorded load pairs. `first` and `gaveUp` are history.

| Actions | Code |
|---|---|
| `ConditionCold`, `Start`, `StartFails`, `StartSampling`, `NoThread`, `Healthy`, `NotHealthy`, `CompareLoads` | `_server_measurement`, `_start_server`, `_start_diagnostic_server`: the process, then its sampling thread, which may not start |
| `Prepare`, `CollectBatch`, `RequestFails` and the request threads' steps | `_run_stream_batch` and the workload around it |
| `CommandEnds`, `CommandTimesOut` | `_run_captured` |
| the stop, wait, join, log and code steps | `_stop_server` and the clean-ups of the three callers, which differ in what they go on with after an error |

### How `ConfirmatoryAttempt` corresponds to the code

`attempts[o]` is the directory `attempt-1` or `attempt-2`: what `start.json`,
`record.json` and `completion.json` say, and the modes, which are taken away in
two steps. `evaluator[o]` is the process that a runner starts and that outlives
it when it is killed. `aggregate`, `temporaries` and `rootClosed` are the rest of
the attempt root. `pc[p]` is where a command is, `judged` what a runner knows to
be wrong, `reading` what a verifier has read. `current` and `registered` are what
the bound files are and what the preregistration says they are; `launched` is
history.

| Actions | Code |
|---|---|
| `Look`, `Inspect`, `MakeDirectory`, `WriteStart`, `Preflight` | `run_attempt` up to the evaluator: `_validate_attempt_sequence`, `mkdir`, `start.json`, `_validate_preregistration` |
| `EvaluatorWrites`, `EvaluatorExits` | `scripts/evaluate_public_moe_native_quality.py`, as the runner sees it |
| `Return`, `Interrupt`, `Complete`, `FreezeFiles`, `SealDirectory` | `subprocess.run` and what follows it, `completion.json`, `_freeze_attempt` |
| `Resolve`, `ReadEntries`, `ReadRegistration`, `ReadFirst`, `ReadSecond` | `resolve_claim_output_path`, `verify_confirmatory_attempts` |
| `WriteTemporary`, `Link`, `Unlink`, `CheckRoot`, `CloseRoot` | `atomic_write_json`, `seal_claim_artifact_root` |
| `Kill`, `Edit` | the environment |

*Abstractions.* A version stands for the bytes of all bound files, resolved
configurations and the environment together. A record is invalid, failed, or
passed with a projection, which stands for all that the comparison of two records
looks at. `_read_attempt_envelope` is one step: it asks for the modes first, and
a sealed directory does not change (`EvidenceStands`, which does not depend on
how it is read). What a model leaves out here is the path checks, and the record
files given by name to `verify_repeat_records`, which produces no claim.

## 3. Runs

Most pipeline runs check for deadlock. `pipeline_forced` does not: a temporary
file left in a stage directory makes that stage fail on every resume, and after
`MaxAttempts` of them its operator gives up. The others do not either: a process
ends after its calls, an attempt with its one call, and an operator may be left
with nothing to launch.

| Run | Question | Instance and bounds |
|---|---|---|
| `pipeline_forced` | Do kills and forced reruns ever leave a result on inputs that are gone, or make a resume be refused for a new reason, and does the run implement the abstract ledger? `FingerprintsCurrent`, `RefusalExplained`, `ImplementsLedger` | 5 stages, up to 2 kills, also inside a write, and 2 forced resumes; a stage produces one of 2 outputs while at most one of each has happened (`SharedBudget`) |
| `pipeline_plans` | With optional and disabled stages and failing ones: distinct failure evidence, complete reported runs, no rewriting without `--force-stage`; can a command run on damaged evidence; does repeating the resume finish the run? `EvidenceIntact`, `FailureEvidence`, `ReturnedRunComplete`, `UnforcedKeepsResults`, `EventuallyComplete` | `FairSpec`, 3 configurations, 1 kill, 1 fault, 1 forced resume, 1 damaged or lost file, in place or archived |
| `pipeline_governed` | On the real graph, does a result outlive what it read? `ReadersFollowSources` | 14 stages, 1 kill, 1 forced resume, the configurations with required suites, reports, a non-uniform policy, routing optional or required, benchmark on or off |
| `worker_calls` | Do two measurements ever overlap, is a verdict earned by the worker, does every call end? `NoOverlap`, `VerdictEarned`, `CallEnds` | `FairSpec`, 2 calls, 1 killed parent, a Ctrl-C anywhere in each call, every `grip`; 1.8 million states |
| `launch_calls` | Is there ever a second paid call, work beyond the caps, an output that cannot be finished or is redone? Does an operator who keeps launching and settling get the run done? `OnePendingCall`, `CapRespected`, `OutputRecoverable`, `PublishedForGood`, `EventuallySettled` | `FairSpec`, the source stage and the first conversion, 2 managers, 4 launches, 2 faults |
| `group_calls` | Does a dead or stuck rank hang the other one or the parent, is a process left, does the outcome say what happened? `ResultBacked`, `OutcomeExplained`, `CallReturns` | `FairSpec`, the 3 groups, 2 collectives |
| `attempt_calls` | Is paid work ever begun twice, a receipt left that status cannot bind, an answer of status withdrawn? Does the attempt implement the one-shot specification and end? `PaidOnce`, `ReceiptsBacked`, `AnswerStands`, `ImplementsOneShot`, `CallsEnd` | `FairSpec`, both variants, 2 hosts, 2 container starts per call, 2 faults |
| `matched_calls` | Does a publication over commits that fail in part ever leave a second receipt, a confirmation nobody can read, an answer that is taken back, or a success without its subjects? `PaidOnce`, `AnswerBacked`, `AnswerStands`, `ImplementsOneShot` | 2 container starts, 4 faults; 131 thousand states |
| `smoke_calls` | With two hosts that see each other only through Modal, is the server ever started twice, or before its records are durable; is an answer of status ever taken back, also when Modal forgets the claim? `PaidOnce`, `AnswerStands`, `ImplementsOneShot` | 2 interchangeable hosts, 2 container starts per call, 3 faults; 575 thousand states |
| `session_calls` | Do two model loads ever overlap, is anything left behind, is a result earned, is an error replaced or hidden, does a call end? `OneServer`, `NothingLeft`, `ResultEarned`, `FirstErrorRaised`, `CallEnds` | `FairSpec`, the 3 callers, 3 load pairs, concurrencies 1, 2 and 4, 1 measured batch each; 306 thousand states |
| `confirmatory_calls` | Can racing runners start a second attempt beside a first that does not count, can a claim be confirmed that does not hold of the evidence in the root, is sealed evidence ever changed? `SecondFollowsFirst`, `ClaimBacked`, `EvidenceStands` | 1 runner of the first and 2 of the second attempt, 2 verifiers, 1 kill or interruption, 1 change of the bound files, 2 versions, 2 projections |
| `worker_lost` | Is an answer that arrives between the poll and the liveness test lost? `NoResultMeansNone`, violated | 2 calls |

*Why these bounds.* The five-stage graph has the two stages with provisional
files, two branches, one of which may be optional or disabled, and the joining
final stage without a directory: the location kinds and dependency shapes on
which the code branches. Two kills and two forced resumes are needed for the
hardest history found (an archive transaction over stages that an earlier
interrupted one already invalidated). Only the stage that a left-over
blocks ever reaches `MaxAttempts`; elsewhere kills and faults bound the attempts
first. Two outputs per stage, so that a rerun can change
what its dependents were computed from, would make that history too large: they
come with one kill and one forced resume only (`SharedBudget`), and the
longer histories have one output, which is enough for a transaction and its
refusals.

Overlap is about two successive workers, so `worker_calls` has two calls; the
second may be the first call of a resumed run. In `launch_calls` the caps are
those of `configs/experiments/inkling_q3_k_m_modal.yaml` (twelve attempts and no
recovery for the source, two attempts and one recovery for the conversion), so
two faults exhaust the attempts of a conversion; two stages are one and its
predecessor, which is all that a gate looks at besides the source, and four launches are what two
stages need after two failed calls. Two managers race for the lock. The four
safety properties of `launch_calls` are also theorems, for any number of
managers, launches and faults.

A group has two ranks in the code too; with two collectives a rank can die
before, between and after them. An attempt is for one launch, so two hosts are
one more than the design expects, and two starts of a container are the first
and one after a preemption; two faults are what the hardest histories of
`attempt_calls` need (an error and the death of what should have handled it).
`matched_calls` has four, because one publication has two cycles of a commit and
a reload and a confirmation behind them. `smoke_calls` has three and two hosts: an
error in each of two launches and one in the container, or a failed publication
and a failed failure record after a preemption. A forgotten claim is no fault and
may be forgotten in every history whose calls are over. The load pairs and concurrencies of
`session_calls` are the configured ones; one measured batch after the warm-up of
each cell is two batches in a row. In `confirmatory_calls` two runners race for the
second attempt and two verifiers for the aggregate; the first attempt needs no
rival of its own kind, since `mkdir` decides as in the second; one kill leaves an
evaluator without a runner, one edit separates any two reads.

*Type invariants.* Every module that has variables states `TypeOK`. Those of
`PipelineRun`, `BenchmarkWorker`, `StageLaunch` and `ConfirmatoryAttempt` are
theorems; the others document the
variables, and hold too when added to the configuration of their module's run.

*Fairness.* `PipelineRun!FairSpec` assumes that a command that is not killed
keeps running (`WF_vars(ProcessStep)`: the program is sequential and every step
ends) and that somebody repeats the unforced resume as long as it can start
(`WF_vars(Resume)`), which is what the documentation tells the user to do after
an interruption. Nothing is assumed about kills and faults; their number is
bounded. `EventuallyComplete` excepts a directory without a manifest, a
damaged disk, and an archive that matches the manifest in part, which no resume
accepts.

`BenchmarkWorker!FairSpec` assumes that the parent runs and time passes, that the
kernel delivers signals, and that a worker that has begun to write its message,
one short write that the parent is reading, completes it or dies. `CallEnds`
needs the last: `receiver.recv` has no deadline of its own. Nothing makes a
worker compute, answer or exit: `CallEnds` holds without it.

`StageLaunch!FairSpec` assumes that managers and containers that live keep
running, that Modal starts what it has queued, and, of the operator, that a
stage that can be launched again and again is launched in the end (strong
fairness, because the lock and other launches come in between) and that stale
locks and resolvable intents are reconciled. `EventuallySettled` excepts what
the code refuses by design: a stage whose caps are spent or a source that misses
a validation, which take more than one fault, and an intent whose call left no
evidence.

`TensorParallelGroup!FairSpec` assumes that the parent runs and its joins time
out, that ranks that are not stuck run, that SIGTERM is delivered, and that gloo
gives up a collective whose peer is gone or late. `MeasurementAttempt!FairSpec`
assumes that managers and containers that live keep running and that Modal starts or cancels what it has queued; nothing has to
fail, restart or be committed in the background. `ServerSession!FairSpec` assumes
that the calling thread runs, its waits time out, the sampling thread runs and,
of the request threads, that one of those which can do something does; nothing
is assumed of the child.

### Observations

One run shows a disagreement between the code and its own words:

| Run | What it shows |
|---|---|
| `worker_lost` | The parent polls the pipe, finds nothing, and then asks whether the worker is alive. A worker that writes its result and exits in between is reported as "exited without a result"; the result in the pipe is not read. |

The models contain, and the properties name as exceptions, behaviours a
maintainer should know of:

* `_plan_forced_archive_recovery` asks that the manifest claim all stages of a
  pending archive or none. A stage already invalidated when it was archived
  looks claimed ever after. A forced rerun over such a stage and others, stopped
  between the manifest and `mark_forced_archive_committed`, leaves a run that
  every later resume refuses (`PartlyClaimed` in `RefusalExplained` and
  `EventuallyComplete`). The history: a run in progress is killed while a stage
  is open, a forced resume invalidates its subtree and is killed, then a forced
  resume of an earlier stage is killed at that point.
* `resume_experiment` returns early when the manifest says success, and does not
  refresh a `status.json` that a stop after the last manifest left at `running`.
* A temporary file left by a process killed inside a restoration (`HardKill`)
  may be adopted as the output of a stage that is interrupted later.
* A worker that dies inside its message makes `recv` raise `OSError`, which
  `run_isolated_benchmark` does not turn into a `BenchmarkError` as it does with
  every other failure (`os_error` in `BenchmarkWorker`).
* An attempt of `materialize_source` that starts after the receipt was committed,
  when the container is started again, must leave a validation record. If it
  stops before that record, no later attempt can supply it (the chain has a gap),
  `launch` refuses the stage as already successful, and every later stage
  refuses the source: two faults end the run (`Unvalidated` in
  `EventuallySettled`).
* `_publish_terminal` of the matched container may have committed the confirmed
  snapshot when `_commit_and_verify` raises. It then adds an `unknown` snapshot,
  and a status that had answered with the outcome refuses from then on
  (`Unconfirmed` in `AnswerStands`). The failure is closed: the receipt stays.
* A temporary of the matched or the smoke container that is committed before it is
  renamed makes `status` refuse (`Littered`). As a rule the next commit takes it away
  again. If the container dies first, or that commit is lost and the reload brings
  the temporary back, it stays, and the attempt is refused for ever: after
  a container that ends with its receipt confirmed, and after a status that had
  answered that the attempt is consumed or over. What the volume records is whole.
* A Ctrl-C between `process.start()` and the `try` block of `run_isolated_benchmark`,
  or in its `finally`, leaves the worker running, and the next call of a parent
  that goes on measures beside it (`abandoned` in `NoOverlap`).
* `_start_server` and `_run_captured` start the sampling thread outside any `try`.
  If it cannot be started, the exception leaves the server or the command running
  (`NeverSampled` in `NothingLeft`); `_start_diagnostic_server` stops it.
* `pareto_frontier` accepts any tolerances, with which dominance is not
  transitive. With tolerances on three objectives all runs may dominate each
  other in a cycle and none is optimal (`TolerancesCanEmptyTheFrontier`). The
  reports have a tolerance on quality alone: then some run is optimal
  (`FrontierIsNotEmpty`), but `dominated_by` may name no optimal run
  (`OneToleranceLosesTheDominator`).
* A verifier that finds something missing publishes a failed aggregate like any
  other verdict. Started before attempt-2, it ends the protocol: with an
  aggregate in the root, no attempt starts and no verifier runs again.
* A killed runner leaves an attempt directory that is not sealed, which can
  neither count nor be made again. A verifier that closed the root may leave the
  temporary file of one that lost the race for the aggregate in it.
* `start.json` has the facts of the bound files, and the evaluator imports them
  some steps later; its record does not say which sources it ran. An edit
  between the two that is undone before the verification is seen by nobody: what
  `ClaimBacked` says of versions is what the records say of them.
* The smoke's container binds its inputs (`resolved_config.json`, the reference,
  the control plane) on its mount and leaves them to the next commit. A commit
  that fails and the reload behind it drop them, the receipt alone is installed
  again, and a passed receipt is published without the inputs beside it. Nothing
  reads them there; the receipt carries their hashes.
* The lock of a smoke manager that dies stays, and no command removes it: before
  that checkout can launch again, somebody has to.
* The clean-up of a measurement's last server, or of a captured command, may
  replace the exception that made it necessary (`FirstErrorRaised`); that of the
  diagnostic never does.

## 4. Proofs

The proofs hold for every value of the constants that satisfies the named
assumptions of the modules.

`PipelineProofs`, for every graph, set of plans, digests and bounds, and over the
whole of `Next`, kills and damage included. No property of a run is inductive
alone; the file proves a chain of invariants, each with the help of those before:

* `TypeCorrect`: `TypeOK` is inductive; its last conjunct (an archiving command
  has a ledger) is what types `Archiving`.
* `DescendantsClosed`: the set of stages a forced rerun invalidates contains
  the forced stage and is closed under dependence.
* `FingerprintsStayCurrent`, from `FingerprintInv`: `CommitInvalidation`
  invalidates the stages named in a ledger written several steps before, so the
  invariant adds that every ledger's stage set is closed under dependence
  (`LedgersClosed`), and withdrawing it takes no dependency from a stage that
  stays. The lemmas `...KeepsConsistent` show for each manifest transition that
  it changes nothing that a running or successful stage hashed.
* `RecordsAreHonest`, from `RecordInv`: outputs in the manifest go with success.
* `OneArchiveTransaction`, from `PendingPlaced`: the recovery settles what was
  open, all of it before it lets a command go on, and a killed transaction has
  its ledger last.
* `EvidenceStaysIntact`, from `EvidenceInv`, which says for each point of
  `archive_and_invalidate`, of the rollback and of a recovery that a kill
  interrupted again how far the outputs have moved (`ArchiveUnderWay`), and what
  the recovery, which decides by comparing manifest and ledger, will decide
  (`RecoveryPlanned`).
* `ResultsStandOnSettledStages`, from `SettledInv`, which is about direct
  dependencies: with it the unsettled stages are closed under dependence, so the
  dependents of one of them, which lie in every such set, are unsettled.
* `ReturnedRunsAreComplete` from the four above.
* `RefusalsAreExplained`, from `ExplainedInv` (the one way in which a pending
  archive comes to match the manifest in part), `ConfigKept` and `RefusalInv`.
* `FailuresAreRecorded`, from `FailureInv`: attempts are numbered upwards, also
  when a forced rerun reopens a stage whose attempt failed.
* `UnforcedCommandsKeepResults`: an action property, step by step.
* `ReadersFollow`: for the graph of the code (`N = 14`, `Deps = StageDeps`, its
  hypotheses), where stages read files beyond their direct dependencies.
* `RunImplementsLedger`: the refinement of `EvidenceLedger`, one lemma for each
  kind of step. Its hypothesis `MaxDamages = 0` is what `pipeline_forced` runs
  with: `DamageArchive` takes a retained output, which the ledger never gives up.

The conjuncts of these invariants were first checked by TLC as invariants of
`pipeline_forced` and `pipeline_plans`.

`LocalProofs`, about the modules without a run of their own:

* `LoopReturnsDescendants`, on every graph, from `LoopInv`: a pass of the loop of
  `stage_descendants` that has changed nothing has passed over no stage that it
  should have added, and whatever was added lies in every closed set around the
  forced stage. The loop's termination is neither proved nor run; it adds a stage
  in every pass but the last.
* `LedgerIsCurrent`, what a reader of the abstract ledger may rely on.
  `InputsCurrent` needs that an open stage is no dependency of a recorded one
  (`OpenStageKeepsOthers`).
* Six theorems about `ParetoSelection`, for any finite set of runs and any
  objectives: what a reader of a frontier may conclude, and two examples of what
  tolerances take from it. The positive results come from `MaximalAbove`, that in
  a finite strict order everything is below something maximal: dominance without
  tolerances is such an order, and with one tolerance it is part of one, which
  ranks by the other objectives first (`Ahead`). Integers stand for floats, so
  rounding at the edge of a tolerance is not covered.

`LocalProofs`, about `BenchmarkWorker`, for every number of calls and killed parents:

* `WorkerTypeCorrect`. `TypeOK` is not inductive: that what is written into the
  pipe is a message takes `SendingSomething`. The Boolean flags have lemmas of
  their own, because no one prover handles them together with the numbers.
* `WorkersDoNotOverlap`: from `DisposalInv`: workers are born in the order of the
  calls, and a call that has ended has disposed of its worker, unless nothing
  could be done (`ParentDisposes`, for every way out of a call), or the parent was
  killed or interrupted where no clean-up follows (`CutOff`).
* `VerdictsAreEarned`: from `EarnedInv`: a whole message in the pipe is what its
  worker sent before it stopped writing, only a dead worker has exited
  normally, and what the parent takes to the join is that message.

`LocalProofs`, about `TensorParallelGroup`, for every set of variants and every number of
collectives, on the invariant `GroupInv`: the parent's program counter tells what
it knows of each rank (`ParentInv`), and a worker's step is described once, by what
it leaves of the other rank (`WorkerChanges`):

* `GroupTypeCorrect`.
* `ResultsAreBacked`: a rank that left normally has its payload behind every
  collective (`RankInv`), and a verdict is given on ranks that are all gone.
* `OutcomesAreExplained`: nobody is signalled before all were joined, and a
  timeout is reported when every late rank was signalled and is gone.

`ServerSessionProofs`, for every number of load pairs, every workload and set of
callers, on the invariant `IInv /\ EInv /\ HInv /\ RInv`:

* `ServersNeverOverlap` and `CallLeavesNothing` from `IInv`: behind each step of a
  clean-up, what that step waited for is gone or was given up (`CleanedUp`), and
  a load of a pair goes on only if nothing was given up (`PairGoesOn`); requests
  live only in a batch. A child without a sampling thread is left in two of the
  three callers (`NeverSampled`): nothing follows in such a call, so the next load
  does not meet it.
* `FirstErrorIsRaised` from `EInv`: what the exception in flight, the one of the
  clean-up and the first one are to each other at each step of each caller.
* `LoadPairsAreHonest` from `HInv`: the state of the page cache between the two
  loads of a pair (`PairsHonest`, which no run checks).
* `ResultsAreEarned` from `RInv`: how many pairs, cells and batches have been
  completed when the session is past them, and that nothing went wrong.

`ServersNeverOverlap` is what `/health` on a fixed port relies on.

`StageLaunchProofs`, for any number of stages, launches, managers and faults and
every table of caps, on the invariant `IInv`, with `KeepInv` for the last:

* `LaunchTypeCorrect`: `TypeOK` is inductive once the plan and the working copy
  of each call are typed with it.
* `LaunchesAreSingle`: `OnePendingCall` says nothing of how a launch gets there.
  `ManagerInv` adds that a manager past the lock is the only one and that what it
  looked at (the receipts, the calls of its own stage and the one below, the
  successes) still holds when it writes; `RecordInv` adds why looking at two
  stages is enough: the stages below one that was ever launched are done, and
  once a later stage was launched no call of an earlier one is pending.
* `CapsAreRespected`: `VolumeInv` adds that a container's working copy has at
  least the history that is committed, that a charge is in a history before the
  work it pays for, and that no copy has more than the caps allow.
* `OutputsAreRecoverable` and `PublicationsStay`: where a container is tells what
  its working copy may hold (`InPlace`). A container that converts has a copy
  without an intent, so it owns the partial directories; one that
  has an intent only recovers, and is charged as a recovery; one that has a
  success only validates. Hence every commit, the background ones included,
  keeps what is there (`Keeps`). That rests on `OnePendingCall`: a second container
  of the stage could commit a copy taken before.

`SmokeProofs`, for any set of hosts and any number of container starts and faults,
Modal's forgetting of the shared dictionary included, on the invariant `SmokeInv`:

* `SmokeTypeCorrect`.
* `AttemptIsPaidOnce`: a host spawns one call (`HostInv`). A forgotten claim could be
  taken again, so `CallInv` says what is left when it is: every call has ended and
  the acceptance that the owner's task had waited for is on the volume, so whoever
  comes next is refused, and there is one owner for good. `RecordInv` adds that a
  container behind the claim is the owner, which alone writes records of a task, and
  `ProgressInv` which of them are committed at each step of it.
* `SmokeImplementsOneShot`, one lemma for each kind of step: with `ReceiptInv`
  nothing is published before the step that publishes, and never twice.
* `SmokeAnswersStand` rests on `EvidenceHonest`: the checks that `status` makes of
  the records it finds pass, because there is one owner. A task that is over writes
  no receipt (`OverStays`). A temporary adds a refusal to what is recorded, and
  takes nothing from it, so no invariant says more of temporaries than where
  there can be one.

TLC checked `SmokeInv` on the instance of `smoke_calls` before it was proved.

`MeasurementProofs`, for both variants, any set of hosts and any number of container
starts and faults, on the invariant `MeasurementInv`. It assumes that an attempt is of
one of the variants (`AttemptAssumption`), that the bounds are natural numbers
(there and in `EvidenceAssumption`), and that the mark of a missing container or claim is
neither a state of a container nor a record (`MarkerAssumption`, about the model's
own encoding):

* `MeasurementTypeCorrect`.
* `MeasurementIsPaidOnce`. By itself `PaidOnce` says nothing of who may load the
  model next. A host launches once (`HostInv`), whatever the manager was
  interrupted at; the claim in the registry is for good, and nothing but
  intents and acceptances is there before it (`OwnerInv`); a container past the claim is a task
  of the claimed call, in the measurement the very task (`BoxInv`). The diagnostic
  attempt may be in another task of that call after a restart, so there what
  keeps a second one from loading is the load record (`PaidInv`), and the point at
  which a container has written it is in `ProgressInv`.
* `ReceiptsAreBacked`: `ProgressInv` says for every step of a container what it
  has published and that no receipt exists before its own, and `ReceiptInv` that
  the receipt names just that. The receipt also has to be the only record beside
  the load on the volume, because a commit whose answer is lost may still
  bring what the container has not committed.
* `MeasurementImplementsOneShot`, one lemma for each kind of step, over
  `VolumeGrows`: no step takes a record from the volume, and a step that brings
  one does nothing else that the abstract attempt can see.
* `MeasurementAnswersStand`, from the same lemma: what `status` has read is still
  there later.

TLC checked each part of `MeasurementInv` on the instance of `attempt_calls`.

`MatchedProofs`, for any number of container starts and faults, on the invariant
`MatchedInv`. Beside the bounds (`MatchedAssumption`) it assumes that the mark of a
missing container or claim is neither a container nor the call
(`MarkerAssumption`, about the model's own encoding). Here a reload takes away what was
not committed, so the invariants are about `Known`: the files on the volume with those
of the container's copy, which a commit nobody asked for may still bring there. Every
action is first reduced to what it leaves of the container's fields and adds to `Known`
(`Keeps`):

* `MatchedTypeCorrect`.
* `MatchedIsPaidOnce`. `PaidOnce` does not say who may start a server next. A file of
  a task is the claimant's, and a container before its claim has nothing that is not
  durable (`OwnerInv`); which receipts of subjects are durable, and that no server is
  left, follows from the step the container is at (`StepInv`).
* `MatchedAnswerIsBacked`: at most one terminal is known (`ReceiptInv`), and it
  counts the subjects whose receipts were durable before it was written. What keeps a
  second one out is the tracker (`TrackerInv`): until the publication has begun nothing
  but its first snapshot is known, and behind that only the files of this
  publication are, whichever of its cycles failed.
* `MatchedImplementsOneShot`, over `Effect`: no step takes a file from the volume or
  brings one that was not known, but for the acceptance; and a step that claims or
  starts a server brings none.
* `MatchedAnswerStands`. A container whose confirmation is known has its whole
  publication on the volume, so a later commit can add the snapshot "unknown" and
  nothing else; beside the confirmation that is no valid history. And a container that
  ends confirmed leaves exactly the snapshots of one or two cycles and their
  confirmation, which are a valid history (`ConfirmedChain`), with one receipt and
  one claim. What it may have left besides is a temporary, which is the exception
  `Littered` of the statement.

TLC checked each part of `MatchedInv` on the instance of `matched_calls`.

`ConfirmatoryProofs`, for any number of runners, verifiers, versions, projections,
kills and edits, on the invariant `IInv`: a directory that is not complete
belongs to the runner that made it, which alone writes it and changes its mode:

* `ConfirmatoryTypeCorrect`.
* `ConfirmatoryEvidenceStands`: no step writes a sealed attempt (`SealedStays`), a
  published aggregate or a closed root (`RootStays`).
* `ConfirmatorySecondFollowsFirst`: a runner that has looked and not yet made its
  directory relies on what it saw (`OrderInv`), which is sealed.
* `ConfirmatoryClaimBacked`: a verifier carries what it has read to the link. By
  `ClaimInv` all of it still holds there, because it was sealed when read; by
  `LaunchInv` a completion that counts belongs to the one evaluator its owner
  started.

Model-checked only:

* liveness (`EventuallyComplete`, `CallEnds`, `CallsEnd`, `CallReturns`,
  `EventuallySettled`), which is out of the prover's reach, as is ENABLED;
* `ImplementsLedger` has a theorem for undamaged retained outputs only, which is
  all that it holds for.

## 5. Not modelled

`PROJECT.json` lists every component with its status. Left out for good are
numerical code (quantization kernels, statistics, metrics), formatting,
adapters of external libraries and one-off validation of records: sequential
functions without state, where a model would restate the code. Not modelled so
far, with a protocol worth a model, are the parts in the plan below. Most of the
repository's lines are of the first kind: record validation, hashing, command
construction, parsing of tool output, model adapters and statistics. The
modules cover the control that is around them, which is a small part of the
lines. In the run model: two commands on one directory at the same time, symbolic links and path
safety, a full disk, and the contents of stage computations. In the launch
model: deployment, billing windows, and what the section on it names. Of the
matched and the smoke attempt: their deployment and the billing window, which only refuse more.
The smoke's `status` never finds a claim without bookkeeping, since the
acceptance that every claim follows counts as such.

## 6. Plan

1. Done: the run pipeline, resume and forced rerun, its abstract ledger; the
   benchmark worker; launch, conversion and publication of paid stages; the
   two-process groups; the measurement, diagnostic, matched and smoke attempts, with
   their abstract specification; the server sessions; the confirmatory attempts;
   Pareto selection; the theorems above.
2. Proofs: the lemmas about claims and records that the three attempts share would
   go into one module.
3. `PaidRun`, an abstract specification of the paid stages (one call at a time,
   each stage published once, in order) that `StageLaunch` implements.
4. Concurrent commands: two resumes of one directory, which no lock excludes.
5. The samplers of local benchmarking.
6. The comparison contract and the report's inputs: pure operators.
