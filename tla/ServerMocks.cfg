SPECIFICATION FairSpec
CONSTANTS
  Socket = {s1}
  NoSocket = NoSocket
  Conn = {c1, c2}
  Throwing = {c2}
  Req = {}
  Key = {k1}
  NoKey = NoKey
  Server = {x1}
  NoServer = NoServer
  Self = x1
  Data = {d1}
  MaxQueue = 1
INVARIANTS NoOrphanEntry ClientsAreTracked
PROPERTIES VanishedPeerIsCleaned
CHECK_DEADLOCK FALSE
