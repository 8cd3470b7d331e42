SPECIFICATION MCSpec
CONSTANTS
  Tokens = {t1, t2}
  Addrs = {"a1", "a2"}
  HostOf <- MCHostOf
  UuidOf <- MCUuidOf
  NoUuid = "nouuid"
  BlockIds = {"host"}
  KickIds = {"u1"}
  OverrideIds = {"a1", "u1"}
  Limits = {"low", "high"}
  MaxUnread = 1
  ReadSize = 1
  StallLimit = 0
  MaxAlerts = 2
  Callers = {"block", "kick", "limit", "stall"}
INVARIANTS
  ListedIsConnected
PROPERTIES
  KickTakesEffect
  StallReported
  OverrideReachesFeeder
