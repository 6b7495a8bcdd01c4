------------------------ MODULE MCMeasurementAttempt ------------------------
(* Two hosts with a checkout each, and calls that are started up to twice.   *)
EXTENDS MeasurementAttempt
=============================================================================
