----------------------------- MODULE StageGraph -----------------------------
(***************************************************************************)
(* The governed stage graph of the experiment pipeline                     *)
(* (pipeline/stages.py): the 14 stages in execution order, their direct    *)
(* dependencies, and which of them a resolved configuration enables and    *)
(* requires.  The run model (PipelineRun) names a stage by its position    *)
(* in the order; this module gives the positions of the real graph.        *)
(***************************************************************************)
EXTENDS Naturals, Sequences, SequencesExt

StageOrder ==
  << "resolve_configuration", "probe_runtime", "load_baseline",
     "inventory_modules", "collect_statistics", "resolve_precision_policy",
     "quantize", "evaluate_baseline", "evaluate_candidate",
     "benchmark_baseline", "benchmark_candidate", "compare_routing",
     "generate_reports", "finalize_manifest" >>

\* Mutant: the policy no longer depends on the statistics it reads.
StageDependencies_PolicyOnInventory ==
  [ resolve_configuration    |-> {},
    probe_runtime            |-> {"resolve_configuration"},
    load_baseline            |-> {"probe_runtime"},
    inventory_modules        |-> {"load_baseline"},
    collect_statistics       |-> {"inventory_modules"},
    resolve_precision_policy |-> {"inventory_modules"},
    quantize                 |-> {"resolve_precision_policy"},
    evaluate_baseline        |-> {"load_baseline"},
    evaluate_candidate       |-> {"quantize"},
    benchmark_baseline       |-> {"load_baseline"},
    benchmark_candidate      |-> {"quantize"},
    compare_routing          |-> {"collect_statistics", "quantize"},
    generate_reports         |-> {"evaluate_baseline", "evaluate_candidate",
                                  "benchmark_baseline", "benchmark_candidate",
                                  "compare_routing"},
    finalize_manifest        |-> {"generate_reports"} ]

StageDependencies ==
  [ resolve_configuration    |-> {},
    probe_runtime            |-> {"resolve_configuration"},
    load_baseline            |-> {"probe_runtime"},
    inventory_modules        |-> {"load_baseline"},
    collect_statistics       |-> {"inventory_modules"},
    resolve_precision_policy |-> {"collect_statistics"},
    quantize                 |-> {"resolve_precision_policy"},
    evaluate_baseline        |-> {"load_baseline"},
    evaluate_candidate       |-> {"quantize"},
    benchmark_baseline       |-> {"load_baseline"},
    benchmark_candidate      |-> {"quantize"},
    compare_routing          |-> {"collect_statistics", "quantize"},
    generate_reports         |-> {"evaluate_baseline", "evaluate_candidate",
                                  "benchmark_baseline", "benchmark_candidate",
                                  "compare_routing"},
    finalize_manifest        |-> {"generate_reports"} ]

Positions == DOMAIN StageOrder
PositionOf(name) == CHOOSE i \in Positions : StageOrder[i] = name
StageDeps ==
  [i \in Positions |-> {PositionOf(d) : d \in StageDependencies[StageOrder[i]]}]

(***************************************************************************)
(* The stages whose published files a stage's executor reads back from the *)
(* run directory: the candidate is rebuilt from the policy, the statistics *)
(* and the quantization manifest, and the report collects everything.      *)
(***************************************************************************)
CandidateInputs == {"resolve_precision_policy", "collect_statistics", "quantize"}

StageReads ==
  [n \in ToSet(StageOrder) |->
     CASE n = "resolve_precision_policy" -> {"collect_statistics"}
       [] n = "quantize"                 -> {"resolve_precision_policy", "collect_statistics"}
       [] n \in {"evaluate_candidate", "benchmark_candidate", "compare_routing"}
                                         -> CandidateInputs
       [] n = "generate_reports"         -> CandidateInputs \union
            {"probe_runtime", "evaluate_baseline", "evaluate_candidate",
             "benchmark_baseline", "benchmark_candidate", "compare_routing"}
       [] OTHER                          -> {}]

(***************************************************************************)
(* What stage_definitions reads of a resolved configuration: the           *)
(* evaluation suites (none, only optional ones, or a required one), the    *)
(* routing mode, whether a calibration set is given, whether the precision *)
(* policy is uniform, and the benchmark and reporting switches.            *)
(***************************************************************************)
Config == [ suites      : {"none", "optional", "required"},
            routing     : {"off", "optional", "required"},
            calibration : BOOLEAN,
            uniform     : BOOLEAN,
            benchmark   : BOOLEAN,
            report      : BOOLEAN ]

\* The configuration validators that constrain these fields: benchmarks and
\* reports need a suite, an expert-aware policy needs a calibration set.
ValidConfig(c) ==
  /\ c.suites = "none" => ~c.benchmark /\ ~c.report
  /\ ~c.uniform => c.calibration

AlwaysOn == {"resolve_configuration", "probe_runtime", "load_baseline",
             "inventory_modules", "resolve_precision_policy", "quantize",
             "finalize_manifest"}

EnabledNames(c) ==
  LET statistics == c.calibration \/ c.routing # "off" \/ ~c.uniform
  IN  AlwaysOn
      \union (IF statistics THEN {"collect_statistics"} ELSE {})
      \union (IF c.suites # "none" THEN {"evaluate_baseline", "evaluate_candidate"} ELSE {})
      \union (IF c.benchmark THEN {"benchmark_baseline", "benchmark_candidate"} ELSE {})
      \union (IF c.routing # "off" THEN {"compare_routing"} ELSE {})
      \union (IF c.report THEN {"generate_reports"} ELSE {})

RequiredNames(c) ==
  LET statistics == c.calibration \/ c.routing = "required" \/ ~c.uniform
  IN  AlwaysOn
      \union (IF statistics THEN {"collect_statistics"} ELSE {})
      \union (IF c.suites = "required" THEN {"evaluate_baseline", "evaluate_candidate"} ELSE {})
      \union (IF c.benchmark THEN {"benchmark_baseline", "benchmark_candidate"} ELSE {})
      \union (IF c.routing = "required" THEN {"compare_routing"} ELSE {})
      \union (IF c.report THEN {"generate_reports"} ELSE {})

StagePlan(c) == [ enabled  |-> {PositionOf(n) : n \in EnabledNames(c)},
                  required |-> {PositionOf(n) : n \in RequiredNames(c)} ]
StagePlans == {StagePlan(c) : c \in {k \in Config : ValidConfig(k)}}
=============================================================================
