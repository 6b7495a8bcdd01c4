---------------------------- MODULE MCStageLaunch ----------------------------
(* The source stage and the first conversion stage, with the caps of the     *)
(* checked configuration (twelve attempts; two attempts and one recovery).   *)
EXTENDS StageLaunch, TLC

TwoStages == 1 .. 2
SourceStage == {1}
AttemptCaps == <<12, 2>>
RecoveryCaps == <<0, 1>>
FourIntents == 1 .. 4
=============================================================================
