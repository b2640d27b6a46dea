SPECIFICATION FairSpec
CONSTANTS
  Socket = {s1, s2}
  NoSocket = NoSocket
  Key = {s1, s2}
  NoKey = NoKey
  Server = {x1}
  NoServer = NoServer
  Self = x1
  Req = {r1, r2}
  Conn = {}
  Data = {}
  WithBody = {r2}
  Bodiless = {r1}
INVARIANTS SentIsPending BodiesSentOnce
PROPERTIES SettledOnce SentIsSettled ImplementsServer
CHECK_DEADLOCK FALSE
