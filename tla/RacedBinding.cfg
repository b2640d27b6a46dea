SPECIFICATION Spec
CONSTANTS
  Socket = {s1, s2}
  NoSocket = NoSocket
  Key = {k1, k2}
  NoKey = NoKey
  Server = {x1, x2}
  NoServer = NoServer
  Custom = {"quote"}
  Req = {r1}
  Conn = {}
  WrongPort = {}
  Bodiless = {}
  OncloseThrows = {}
  MaxSend = 0
  MaxReceive = 0
  MaxUse = 3
  Data <- MCData
SYMMETRY Symmetry
CONSTRAINT SmallMix
INVARIANTS HandedOverIsBound
CHECK_DEADLOCK FALSE
