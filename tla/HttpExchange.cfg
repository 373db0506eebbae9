SPECIFICATION FairSpec
CONSTANTS
  Statuses = {"Created"}
  DefaultStatus = "Ok"
  NoLength = NoLength
  Sizes <- MCSizes
  MaximumSize <- MCMaximumSize
  ReadChunkBytes = 2
  MappedStatus = "Mapped"
  ResourceResponders = {"first", "second", "own", "left", "right"}
  AppResponders = {"application"}
  DefaultResponder = "default"
  Fallback <- MCFallback
  AppErrors = {"ProtocolError", "PlatformFailure"}
  PageBytes = 1
  MaxBytes = 2
  MaxSent = 3
  MaximumBytes = 3
  ChunkBytes = 2
  PayloadBytes = {0, 1}
  IdSpace = 4
  MaxOthers = 1
INVARIANTS
  ClientIsAnswered
  ErrorPageHasItsStatus
  AcceptedMeansHandedOver
  CountsAreChecked
  SuccessIsWhole
  FailureIsVisible
  RequestIdIsUsable
PROPERTIES
  OneAuthor
  ExchangeEnds
