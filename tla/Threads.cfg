SPECIFICATION MCSpec
CONSTANTS
  Clients = {c1}
  Frames <- MCFrames
  FrameLen <- MCFrameLen
  Heartbeat = "short"
  FlushSize = 3
  SendqMax = 5
  FlushInterval = 1
  HeartbeatInterval = 2
  DropTime = 2
  StallTime = 1
  SockCap = 2
  Threads = {"h1", "h2", "ws"}
  Copying = {"ws"}
  Prompt = {"h1", "h2"}
  Caches = {"json", "bincraft"}
  Copied = {"bincraft"}
  Rebuilds <- MCRebuilds
  Sources = {s1}
  Reports <- MCReports
  Traffic <- MCTraffic
  DedupTtl = 2
  AssembleTtl = 2
  ReapAfter = 4
  MaxChan = 1
INVARIANTS
  TypeOK
  SendqBounded
  AtMostHalfDropped
  FramesStayWhole
  HeardVesselStays
PROPERTIES
  RemovedForCause
  StuckPeerRemoved
  KeepsItsPromise
  LoopRuns
  RequestServed
  SilentVesselLeaves
  AssembledInTime
  PartsMeet
  NoEarlyRepeat
