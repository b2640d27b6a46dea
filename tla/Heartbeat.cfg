SPECIFICATION Spec
CONSTANTS
  Interval = 3
  Timeout = 4
  Lag = 1
  Latency = 2
  Horizon = 16
INVARIANTS PresentIsKept VanishedIsFound
CHECK_DEADLOCK FALSE
