SPECIFICATION Spec
CONSTANTS
  Socket = {s1, s2}
  NoSocket = NoSocket
  Key = {k1, k2}
  NoKey = NoKey
  Server = {x1, x2}
  NoServer = NoServer
  Custom = {"quote"}
  Req = {r1}
  Conn = {c1, c2}
  WrongPort = {c2}
  Bodiless = {}
  OncloseThrows = {c1}
  MaxSend = 1
  MaxReceive = 0
  MaxUse = 3
  Data <- MCData
SYMMETRY Symmetry
CONSTRAINT SmallMix
INVARIANTS TypeOK SentIsPending KeysFollowVerification RegisteredIsActive OpenMockHasTunnel
PROPERTIES SettledOnce ClosedForGood
CHECK_DEADLOCK FALSE
