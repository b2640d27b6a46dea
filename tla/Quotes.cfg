SPECIFICATION FairSpec
CONSTANTS
  Name = {1, 2, 3}
  Key = {1, 2, 3}
  NoKey = NoKey
  Input <- MCInput
  TcbInfo <- MCTcbInfo
  MaxChain = 4
INVARIANTS TypeOK AcceptedIsCertified ProperIsAccepted TcbIsMonotone
PROPERTIES Terminates
CHECK_DEADLOCK FALSE
