CONSTANTS
  Q = 5
  NumParticipants = 3
  Threshold = 2
  Draws <- TwoDraws
  Inconsistent = {3}
  Garbled <- FirstToSecond
  Unfounded <- Lies
  NoShare = NoShare
  BindingFactor <- SomeBindingFactor
  Challenge <- SomeChallenge
  Messages = {1, 2}
  Nonces <- NoncePairs
  FaultySigners = {3}
  Aggregator = 1
  NoNonces = NoNonces
  MaxAttempts = 2
  Keys = {k1, k2}
  Plaintexts = {letter}
  KemError = KemError
  P = 5
  HALF_FULL_ROUNDS = 1
  PARTIAL_ROUNDS = 4
  EXTERNAL_INITIAL <- SomeInitial
  EXTERNAL_FINAL <- SomeFinal
  INTERNAL <- SomeInternal
  INTERNAL_DIAG <- Diagonal
  Byte = {0, 1}
  BYTES_PER_ELEMENT = 2
  DEPTH = 1
  Epochs = {0, 2}
  Texts <- ThreeTexts
  MemberSecrets <- TwoSecrets
SPECIFICATION ObservedSpec
INVARIANTS HonestDealersStay KeysAgree QuorumDecrypts ContributionHidden SharesSign NoncesServeOnce
INVARIANTS KemQuorumOpens AcceptedIsMember HonestProofAccepted SecondMessageExposes NoTrivialCollision
CHECK_DEADLOCK FALSE
