CONSTANTS
  MaxProc = 2
  MaxPid = 3
  Workers = {w1, w2}
  Codes = {0}
  ExecCanFail = FALSE
SPECIFICATION FairSpec
INVARIANTS ExitStatus
PROPERTIES ImplementsLife RootExitEnds ExceptionAnswered
