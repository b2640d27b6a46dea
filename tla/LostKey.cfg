SPECIFICATION Spec
CONSTANTS
  Socket = {s1, s2}
  NoSocket = NoSocket
  Key = {k1, k2}
  NoKey = NoKey
  Server = {x1}
  NoServer = NoServer
  Self = x1
  Custom = {"quote"}
  Req = {r1, r2}
  Conn = {}
  WrongPort = {}
  Bodiless = {}
  MaxSend = 0
  MaxReceive = 0
  Data <- MCData
INVARIANTS HandshakenHasKey
CHECK_DEADLOCK FALSE
