CONSTANTS
  Initiator = i
  Responder = r
  Initiates = {r}
  MaxSkippedKeys = 2
  OneShot = TRUE
  Splits <- MCSplits
  LostShards = {0}
  Misroutes = FALSE
  MaxApp <- MCTwoEach
  MaxEpoch = 2
SPECIFICATION FairSpec
PROPERTIES StepCompletes EpochsMeet
CHECK_DEADLOCK FALSE
