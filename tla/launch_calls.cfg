SPECIFICATION FairSpec
CONSTANTS
  NStages = 2
  Stages <- TwoStages
  Adopting <- SourceStage
  MaxAttempts <- AttemptCaps
  MaxRecoveries <- RecoveryCaps
  Intents <- FourIntents
  MaxIntents = 4
  MaxFaults = 2
  Managers = {m1, m2}
  None = None
INVARIANTS
  OnePendingCall
  CapRespected
  OutputRecoverable
PROPERTIES
  PublishedForGood
  EventuallySettled
CHECK_DEADLOCK FALSE
