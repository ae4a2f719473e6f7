CONSTANTS
  MaxProc = 3
  MaxPid = 4
  Workers = {w1, w2}
  Codes = {0}
  ExecCanFail = FALSE
SPECIFICATION Spec
SYMMETRY WorkerSymmetry
INVARIANT NoSurvivor
