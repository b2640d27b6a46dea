SPECIFICATION Spec
CONSTANTS
  Socket = {s1, s2}
  NoSocket = NoSocket
  Conn = {c1}
  Throwing = {}
  Req = {}
  Key = {k1, k2}
  NoKey = NoKey
  Server = {x1}
  NoServer = NoServer
  Self = x1
  Data = {d1}
  MaxQueue = 2
SYMMETRY Symmetry
INVARIANTS TypeOK BookkeepingIsLive OpenMockIsRouted WireDiscipline
PROPERTIES KeyIsWriteOnce
CHECK_DEADLOCK FALSE
