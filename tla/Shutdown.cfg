CONSTANTS
  MaxProcessID = 4
  ThreadProcesses = {4}
  BaseTimeIsSet = TRUE
  Budgets <- OneShutdown
  Patterns <- UserPatterns
  RequestableIDs <- UserProcesses
  NewProcessFlags <- BothFlags
  LateRequests = FALSE
  InterruptibleFlush = FALSE
SPECIFICATION FairSpec
INVARIANTS TypeOK NoFatalAssert OneWorkerAtATime NoHandleLeft SoftShutdownLosesNothing AcknowledgementsOnTheirWay AlwaysRescheduled
PROPERTIES ShutdownCompletes ManagerTerminates
