SPECIFICATION InputSpec
CONSTANTS
  Bytes <- MCBytes
  Esc = "esc"
  BodyLen <- MCBodyLen
  Raw = {"uuid"}
  Messages = {"msg"}
  Header = 1
  MaxStream = 7
  MaxPiece = 2
  Real <- MCReal
  Sent <- MCSent
  None = None
  Probes <- MCProbes
  Turn <- MCTurn
INVARIANTS
  ChunksDoNotMatter
  DecodesBack
  ResyncsAtNextFrame
  OnlyAStartIsKept
  FramesArrive
  FieldsAreOwn
  DamageIsRepaired
  NumbersArrive
\* the stream is bounded: a connection may have carried all of it, and a probe is one state
CHECK_DEADLOCK FALSE
