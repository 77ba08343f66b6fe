SPECIFICATION FairSpec
CONSTANTS
  Concurrency = 1
  Nemesis = Nemesis
  None = None
  MaxOps = 1
  MaxTime = 0
  Reusable = FALSE
  Controls = {}
  EndProcess = FALSE
  Faults = {"generator"}
PROPERTIES
  WorkersExitAfterThrow
