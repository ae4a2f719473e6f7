CONSTANTS
  Stages = 3
  NWorkers = 3
  Cap = 1
  Items = 2
  EarlyExit = TRUE
SPECIFICATION FairSpec
INVARIANTS TypeOK WorkerLeft Complete
PROPERTY PipelineEnds
