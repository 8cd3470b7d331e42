SPECIFICATION MCSpec
CONSTANTS
  Tokens = {t1}
  Addrs = {"a1"}
  HostOf <- MCHostOf
  UuidOf <- MCUuidOf
  NoUuid = "nouuid"
  BlockIds = {}
  KickIds = {}
  OverrideIds = {}
  Limits = {}
  MaxUnread = 1
  ReadSize = 1
  StallLimit = 0
  MaxAlerts = 1
  Callers = {"nobody"}
PROPERTIES
  DropoutNoticed
