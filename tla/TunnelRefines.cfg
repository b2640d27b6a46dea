SPECIFICATION Spec
CONSTANTS
  Socket = {s1, s2}
  NoSocket = NoSocket
  Key = {k1, k2}
  NoKey = NoKey
  Server = {x1}
  NoServer = NoServer
  Self = x1
  Custom = {"quote"}
  Req = {}
  Conn = {c1}
  WrongPort = {}
  Bodiless = {}
  MaxSend = 2
  MaxReceive = 1
  Data <- MCData
SYMMETRY Symmetry
INVARIANTS ServedAfterAttestation OpenMocksExist UplinkIsPrefix
PROPERTIES ImplementsServer
CHECK_DEADLOCK FALSE
