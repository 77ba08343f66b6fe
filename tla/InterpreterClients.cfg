SPECIFICATION FairSpec
CONSTANTS
  Concurrency = 1
  Nemesis = Nemesis
  None = None
  MaxOps = 2
  MaxTime = 1
  Reusable = FALSE
  Controls = {"sleep", "log"}
  EndProcess = TRUE
  Faults = {"generator", "open", "close", "invoke", "sleep"}
INVARIANTS
  ClientsBelongToProcesses
  NoConnectionLeaks
  HistoryDenseAndTimed
PROPERTIES
  RunEnds
