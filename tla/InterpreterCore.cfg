SPECIFICATION Spec
CONSTANTS
  Concurrency = 2
  Nemesis = Nemesis
  None = None
  MaxOps = 3
  MaxTime = 0
  Reusable = TRUE
  Controls = {}
  EndProcess = FALSE
  Faults = {}
INVARIANTS
  ClientsBelongToProcesses
  TypeOK
  ProcessMapsAgree
  OneOpPerBusyThread
  OutstandingExact
  MainPutsNeverBlock
  NothingPendingOnReturn
PROPERTIES
  RefinesProcessHistory
