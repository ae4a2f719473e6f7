SPECIFICATION Spec
CONSTANTS
  PageSize = 2
  NPages = 16
  UserPages = 12
  Tags <- MCTags
  PIE_BASE = 10
  INTERP_BASE = 8
  STACK_TOP = 24
  STACK_SIZE = 2
  MaxStrings = 3
  Procs = {1, 2}
  Root = 1
  Programs <- MCPrograms
  ArgLists <- MCArgLists
  Requests <- MCRequests
  Buffers <- MCBuffers
  Slots = {9, 10}
  Entries <- MCEntries
  Bases = {"b"}
  MaxCalls = 3
INVARIANTS
  TypeOK
  ViewAgrees
  StackDamage
  TlsBacked
PROPERTIES
  OnlyAsked
  StatusDelivered
  ExecExact
CHECK_DEADLOCK FALSE
