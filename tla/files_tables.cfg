CONSTANTS
  Root = root
  Procs = {root, p1}
  MaxFd = 2
  Stdio = 1
  MaxHost = 4
  Dirs = {d1}
  Pipes = {k1}
  MaxDir = 1
  ForkCanFail = TRUE
  ExecCanFail = TRUE
  RawDup = TRUE
SPECIFICATION Spec
INVARIANTS TypeOK Exclusive StdioKept InFlightKept
PROPERTIES Isolation OnlyTheseLeak OnlyTheseStrand
