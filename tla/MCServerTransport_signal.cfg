SPECIFICATION Spec
CONSTANTS
  c1 = c1
  c2 = c2
  Conns = {c1, c2}
  None = None
  Sources <- TcpSource
  TitleLens = {0}
  DataLens = {800}
  Splits = {3}
  JunkLens = {50}
  MaxFrames <- TwoFrames
PROPERTY SignalReachesEveryDriver
CHECK_DEADLOCK FALSE
