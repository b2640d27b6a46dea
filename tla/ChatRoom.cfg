SPECIFICATION FairSpec
CONSTANTS
  Page = {p1, p2}
  Conn = {c1, c2}
  NoPage = NoPage
  NoConn = NoConn
  MAX_MESSAGES = 1
  MaxSent = 2
INVARIANTS TypeOK HistoryIsTail ViewIsStretch NothingIsMissed
PROPERTIES SentIsShown
CHECK_DEADLOCK FALSE
