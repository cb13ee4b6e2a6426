SPECIFICATION Spec
CONSTANTS
  c1 = c1
  c2 = c2
  Conns = {c1, c2}
  None = None
  Sources <- AllSources
  TitleLens = {0, 256}
  DataLens = {800}
  Splits = {3, 1030}
  JunkLens = {50}
  MaxFrames <- TwoFrames
INVARIANTS PermitsCount FramesIntact ClearedOnlyOversize
CHECK_DEADLOCK FALSE
PROPERTIES WaitsOnlyWhenFull  ShutdownDrains
