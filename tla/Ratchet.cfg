CONSTANTS
  Initiator = i
  Responder = r
  Initiates = {i, r}
  MaxSkippedKeys = 1
  OneShot = TRUE
  Splits <- MCSplits
  LostShards = {}
  Misroutes = TRUE
  MaxApp <- MCChatty
  MaxEpoch = 2
SPECIFICATION Spec
INVARIANTS NoReplay PeerReads KeysCached ForwardSecrecy
PROPERTY KeepsPromise
CHECK_DEADLOCK FALSE
