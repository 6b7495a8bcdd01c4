--------------------------- MODULE ParetoSelection ---------------------------
(***************************************************************************)
(* The Pareto selection of comparison.py: which runs a report calls        *)
(* optimal, and what tolerances do to that.  Scaled integers stand for the *)
(* finite floats; rounding is not modelled.  Points and objectives are     *)
(* functions of run and of metric, as unique names are required of both.   *)
(***************************************************************************)
EXTENDS Integers

Magnitude(x) == IF x < 0 THEN -x ELSE x
Larger(x, y) == IF x < y THEN y ELSE x

\* An objective.  "relative" gives what the relative tolerance comes to for a
\* value of that magnitude.
Objective ==
  [ direction : {"maximize", "minimize"}, tolerance : Nat, relative : [Nat -> Nat] ]

EffectiveTolerance(left, right, o) ==
  o.tolerance + o.relative[Larger(Magnitude(left), Magnitude(right))]

\* x is better than y by more than the tolerance.
Beats(x, y, o) ==
  IF o.direction = "maximize" THEN x > y + EffectiveTolerance(x, y, o)
                              ELSE x < y - EffectiveTolerance(x, y, o)
Worse(x, y, o) ==
  IF o.direction = "maximize" THEN x < y - EffectiveTolerance(x, y, o)
                              ELSE x > y + EffectiveTolerance(x, y, o)

Dominates(candidate, reference, objectives) ==
  /\ \A m \in DOMAIN objectives : ~Worse(candidate[m], reference[m], objectives[m])
  /\ \E m \in DOMAIN objectives : Beats(candidate[m], reference[m], objectives[m])

\* pareto_frontier.
DominatedBy(p, points, objectives) ==
  {q \in DOMAIN points \ {p} : Dominates(points[q], points[p], objectives)}
OptimalIds(points, objectives) ==
  {p \in DOMAIN points : DominatedBy(p, points, objectives) = {}}

\* pareto_points_from_summaries.  A summary is a function of the metrics it
\* has; one that is unsupported, or has no value, is not available.
Suites(m, summaries) ==
  {summaries[r][m].suite : r \in {q \in DOMAIN summaries : m \in DOMAIN summaries[q]}}
Incompatible(m, summaries) == \E s, t \in Suites(m, summaries) : s # t
Complete(r, summaries, objectives) ==
  \A m \in DOMAIN objectives :
    /\ ~Incompatible(m, summaries)
    /\ m \in DOMAIN summaries[r] /\ summaries[r][m].available
PointsFromSummaries(summaries, objectives) ==
  [r \in {q \in DOMAIN summaries : Complete(q, summaries, objectives)} |->
     [m \in DOMAIN objectives |-> summaries[r][m].value]]
=============================================================================
