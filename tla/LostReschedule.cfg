CONSTANTS
  MaxProcessID = 4
  ThreadProcesses = {}
  BaseTimeIsSet = TRUE
  Budgets <- NoBudget
  Patterns <- UserPatterns
  RequestableIDs <- UserProcesses
  NewProcessFlags <- AllFlags
  LateRequests = FALSE
  InterruptibleFlush = TRUE
SPECIFICATION Spec
INVARIANTS AlwaysRescheduled
