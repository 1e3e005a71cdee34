CONSTANTS
  MaxProcessID = 4
  ThreadProcesses = {}
  BaseTimeIsSet = TRUE
  Budgets <- JustTwo
  Patterns <- UserPatterns
  RequestableIDs <- UserProcesses
  NewProcessFlags <- AllFlags
  LateRequests = FALSE
  InterruptibleFlush = FALSE
SPECIFICATION Spec
INVARIANTS NoLeftoverFrames
