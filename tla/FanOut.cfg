SPECIFICATION MCSpec
CONSTANTS
  Scenes = {"published", "beside", "subscribed"}
  Feeders <- MCFeeders
  Receivers <- MCReceivers
  NoId = 0
  Behind <- MCBehind
  Relays = {"relay"}
  Sender <- MCSender
  Prepend = TRUE
  Limits = {0, 1}
  DefaultLimit = 1
  MaxBurst = 3
  Clients = {c1}
  Frames <- AllFrames
  FrameLen <- UnitLen
  Heartbeat <- HeartbeatFrame
  FlushSize = 2
  SendqMax = 2
  FlushInterval = 1
  HeartbeatInterval = 2
  DropTime = 1
  StallTime = 1
  SockCap = 1
INVARIANTS
  AttributedUntilLoss
PROPERTIES
  IdentityIsStable
  VerdictIsExact
  PublishedAttribution
  IdentifiedStaysIdentified
