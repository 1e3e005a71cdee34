CONSTANTS
  MaxProcessID = 4
  ThreadProcesses = {}
  BaseTimeIsSet = FALSE
  Budgets <- JustShutdown
  Patterns <- UserPatterns
  RequestableIDs <- UserProcesses
  NewProcessFlags <- BothFlags
  LateRequests = FALSE
  InterruptibleFlush = FALSE
SPECIFICATION FairSpec
PROPERTY StartedIsExecuted
