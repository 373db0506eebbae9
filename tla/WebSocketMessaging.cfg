SPECIFICATION Spec
CONSTANTS
  Packets <- MCPackets
  NoPacket = NoPacket
  Receivers = {r1}
  NoReceiver = NoReceiver
  Limits = {0, 1}
  Timer = timer
  User = user
  MaxRequests = 2
INVARIANTS
  OldReceiversAreLeftAlone
  PendingWasSent
  DetachEndsTheExchange
