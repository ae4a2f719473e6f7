CONSTANTS
  Stages = 3
  NWorkers = 2
  Cap = 1
  Items = 2
  EarlyExit = FALSE
SPECIFICATION FairSpec
PROPERTY PipelineEnds
CHECK_DEADLOCK FALSE
