CONSTANTS
  Root = root
  Procs = {root, p1}
  MaxFd = 2
  Stdio = 1
  MaxHost = 5
  Dirs = {d1, d2}
  Pipes = {}
  MaxDir = 2
  ForkCanFail = FALSE
  ExecCanFail = FALSE
  RawDup = FALSE
SPECIFICATION Spec
INVARIANT DirFresh
