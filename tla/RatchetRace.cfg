CONSTANTS
  Initiator = i
  Responder = r
  Initiates = {i, r}
  MaxSkippedKeys = 2
  OneShot = TRUE
  Splits <- MCNoSplits
  LostShards = {}
  Misroutes = FALSE
  MaxApp <- MCSilent
  MaxEpoch = 1
SPECIFICATION FairSpec
PROPERTIES StepCompletes
CHECK_DEADLOCK FALSE
