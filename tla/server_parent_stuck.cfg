CONSTANTS
  MaxProc = 2
  MaxPid = 2
  Workers = {w1, w2}
  Codes = {0}
  ExecCanFail = TRUE
SPECIFICATION FairSpec
PROPERTY WaiterWoken
CHECK_DEADLOCK FALSE
