\* the client restarts
CONSTANTS
  Interval = 2
  DepositBlock = 1
  MaxBlock = 6
  Receivers = {1}
  Profiles <- MCRestarting
SPECIFICATION Spec
INVARIANTS SpendsLatest
CHECK_DEADLOCK FALSE
