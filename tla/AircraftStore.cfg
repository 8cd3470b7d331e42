SPECIFICATION Spec
CONSTANTS
  Icaos = {"ac"}
  Receivers = {1}
  NoId = 0
  Places <- TwoPlaces
  Polar = {}
  Reach = 1
  HalfCell = 2
  PairGap = 1
  TrustRange = 3
  PairTimeout = 0
  StaleTimeout = 1
  AgeCap = 2
  MinPositions = 2
  MaxRange = 2
  GrowthMargin = 3
  MaxTrace = 1
INVARIANTS
  PositionCoherent
PROPERTIES
  SpeedChecked
  OnlyConfirmedTeaches
  PublishedInRange
