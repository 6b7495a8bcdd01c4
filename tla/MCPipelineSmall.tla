--------------------------- MODULE MCPipelineSmall ---------------------------
(***************************************************************************)
(* A five-stage graph with the shapes that matter in the governed one: the *)
(* two stages with provisional files, two independent branches of which    *)
(* one may be optional or disabled, and a final stage that joins them.     *)
(***************************************************************************)
EXTENDS PipelineProperties, TLC

SmallN == 5
SmallDeps == [s \in 1 .. 5 |-> CASE s = 1 -> {} [] s = 2 -> {1} [] s = 3 -> {2}
                                 [] s = 4 -> {2} [] s = 5 -> {3, 4}]
AllStages == 1 .. 5
SmallPlans == { [enabled |-> AllStages, required |-> AllStages],
                [enabled |-> AllStages, required |-> AllStages \ {4}],
                [enabled |-> AllStages \ {3}, required |-> AllStages \ {3}] }
OnePlan == { [enabled |-> AllStages, required |-> AllStages] }
DigestSymmetry == Permutations(Digests)

\* Runs that produce two different outputs have one kill and one forced resume;
\* the second ones are for runs in which every stage produces the same.
Held == {files[s] : s \in Stages}
        \union UNION {{ledgers[i].kept[s] : s \in Stages} : i \in DOMAIN ledgers}
OneOutput == \E d \in Digests : Held \intersect Digests \subseteq {d}
SharedBudget == OneOutput \/ (spent.kills <= 1 /\ spent.forces <= 1)
=============================================================================
