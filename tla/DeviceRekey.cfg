CONSTANTS
  k = k
  phone = phone
  newphone = newphone
  laptop = laptop
  Senders = {signed, plain}
  Signed = {signed}
  Devices = {phone, newphone, laptop}
  Ids <- Ids12
  IdOf <- SameId
  PreKeyIds = {k}
  PreKeys <- OnPhones
  Faulty = {}
  NoPreKey = none
  NoSession = nosession
  Lists <- PhoneReplaced
  MaxCalls = 2
  MaxRecords = 1
SPECIFICATION DevicesSpec
CHECK_DEADLOCK FALSE
INVARIANT RekeyFollowed
