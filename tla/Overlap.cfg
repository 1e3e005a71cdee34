CONSTANTS
  MaxProcessID = 4
  ThreadProcesses = {}
  BaseTimeIsSet = TRUE
  Budgets <- EveryShutdown
  Patterns <- UserPatterns
  RequestableIDs <- UserProcesses
  NewProcessFlags <- BothFlags
  LateRequests = TRUE
  InterruptibleFlush = TRUE
SPECIFICATION Spec
INVARIANTS NotRunAfterShutdown
PROPERTIES ImplementsMailboxHandles
