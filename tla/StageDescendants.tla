-------------------------- MODULE StageDescendants --------------------------
(***************************************************************************)
(* The loop of stage_descendants (pipeline/stages.py): which stages a      *)
(* forced rerun of one stage invalidates.  Each step looks at one stage of *)
(* STAGE_ORDER; passes over the order repeat until one adds nothing.  The  *)
(* graph is a variable, so that one check covers every graph of N stages.  *)
(***************************************************************************)
EXTENDS Naturals

CONSTANT N

StageNumbers == 1 .. N      \* in STAGE_ORDER

\* Every graph in which dependencies precede their dependents.
Graphs ==
  {g \in [StageNumbers -> SUBSET StageNumbers] : \A s \in StageNumbers : \A d \in g[s] : d < s}

VARIABLES graph, name, affected, changed, candidate

descendantsVars == <<graph, name, affected, changed, candidate>>

DescendantsInit ==
  /\ graph \in Graphs /\ name \in StageNumbers
  /\ affected = {name} /\ changed = FALSE /\ candidate = 1

Affects(s) == graph[s] \intersect affected # {}

Look ==
  /\ candidate <= N
  /\ IF candidate \notin affected /\ Affects(candidate)
       THEN affected' = affected \union {candidate} /\ changed' = TRUE
       ELSE UNCHANGED <<affected, changed>>
  /\ candidate' = candidate + 1
  /\ UNCHANGED <<graph, name>>

NextPass ==
  /\ candidate = N + 1 /\ changed
  /\ candidate' = 1 /\ changed' = FALSE
  /\ UNCHANGED <<graph, name, affected>>

Done == candidate = N + 1 /\ ~changed

DescendantsNext == Look \/ NextPass
DescendantsSpec == DescendantsInit /\ [][DescendantsNext]_descendantsVars

-----------------------------------------------------------------------------
Closed(S) == \A s \in StageNumbers : graph[s] \intersect S # {} => s \in S

\* When the loop ends, affected is the least set that holds the forced stage
\* and every stage with a dependency in the set: the transitive dependents,
\* whatever the graph (stage_descendants).
ReturnsDescendants ==
  Done => /\ Closed(affected)
          /\ \A S \in SUBSET StageNumbers : name \in S /\ Closed(S) => affected \subseteq S
=============================================================================
