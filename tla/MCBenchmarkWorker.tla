-------------------------- MODULE MCBenchmarkWorker --------------------------
(* The baseline's and the candidate's worker, or one of them retried. *)
EXTENDS BenchmarkWorker
=============================================================================
