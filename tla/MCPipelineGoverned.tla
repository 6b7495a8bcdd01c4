-------------------------- MODULE MCPipelineGoverned --------------------------
(***************************************************************************)
(* PipelineRun on the governed graph: the 14 stages, their dependencies,   *)
(* and the stage sets that valid configurations yield.                     *)
(***************************************************************************)
EXTENDS PipelineProperties, StageGraph

GovernedN == Len(StageOrder)
GovernedPlans == {StagePlan(c) : c \in
  {k \in Config : /\ ValidConfig(k)
                  /\ k.suites = "required" /\ k.report /\ ~k.uniform
                  /\ k.routing # "off"}}
GovernedReads == [s \in Stages |-> {PositionOf(r) : r \in StageReads[StageOrder[s]]}]

\* A successful stage read only results that are still the recorded ones: a
\* forced rerun of a stage takes down every stage that read its files, also
\* those that do not depend on it directly (stage_descendants).
ReadersFollowSources ==
  \A s \in Stages : Succeeded(s) => \A r \in GovernedReads[s] : Complete(manifest, r)
=============================================================================
