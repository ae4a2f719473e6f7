CONSTANTS
  MaxProc = 3
  MaxPid = 3
  Workers = {w1, w2}
  Codes = {0}
  ExecCanFail = TRUE
SPECIFICATION Spec
SYMMETRY WorkerSymmetry
INVARIANTS
  TypeOK
  ServerInv
  OneOwner
  CallerKept
  NoLostWakeup
  ParkedHasChild
CHECK_DEADLOCK FALSE
