SPECIFICATION FairSpec
CONSTANTS
  Socket = {s1}
  NoSocket = NoSocket
  Key = {k1}
  NoKey = NoKey
  Server = {x1}
  NoServer = NoServer
  Self = x1
  Custom = {}
  Req = {r1}
  Conn = {}
  WrongPort = {}
  Bodiless = {}
  MaxSend = 0
  MaxReceive = 0
  Data <- MCData
PROPERTIES FetchSettles
CHECK_DEADLOCK FALSE
