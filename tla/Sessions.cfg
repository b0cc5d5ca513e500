CONSTANTS
  Dirs = {i2r, r2i}
  PacedDir = i2r
  Forged = forged
  REPLAY_WINDOW = 3
  MaxSeq = 6
  A = A
  B = B
  Peers = {A, B}
  Initiators = {1, 2}
  Responders = {3, 4}
  Owner <- SideBySide
  Failing = {A}
  SmallOrder = SmallOrder
  BucketSizes = {1, 3, 5}
  LENGTH_PREFIX_LEN = 2
  MaxLength = 15
  Messages <- SomeMessages
  Slots = 3
  Issuers = {A}
  Recipients = {A, B}
  Texts = {text}
  Times = {0, 1, 2}
  MaxIssued = 2
  MaxEnvelopes = 2
  k = k
  phone = phone
  newphone = newphone
  laptop = laptop
  Senders = {signed, plain}
  Signed = {signed}
  Devices = {phone, newphone, laptop}
  Ids <- Ids12
  IdOf <- SameId
  PreKeyIds = {k}
  PreKeys <- OnPhones
  Faulty = {laptop}
  NoPreKey = none
  NoSession = nosession
  Lists <- PhoneReplaced
  MaxCalls = 2
  MaxRecords = 1
SPECIFICATION SessionsSpec
INVARIANTS OpenedOnce AcceptsExactly PeersAgree KeysSeparate PacedAsPromised UnsealedAsVouched
INVARIANTS OneTimeOnce ReadOnce NothingLost OnlyAuthorized
PROPERTY NoRollback
CHECK_DEADLOCK FALSE
