SPECIFICATION FairSpec
CONSTANTS
  a1 = a1
  a2 = a2
  a3 = a3
  b = b
  Select = Select
  Insert = Insert
  Task = {a1, a2, a3, b}
  Text = {Select, Insert}
  TextOf <- MCTextOf
  WithResults = {Select}
  Behaviours = {"good", "missing", "extra", "wrong", "garbled", "raises"}
  UseStatementCaching = TRUE
  ConnectionBreaks = TRUE
  BatchSizes <- TwoOrThree
  NoText = NoText
  CompoundBatch = CompoundBatch
  BatchOrdering <- MCOrdering
INVARIANTS
  TypeOK
  AppliedOnce
  OnlyFaultyFail
  ResultsAreOwn
  RolledBackBeforeRetry
  StatementReady
PROPERTIES
  ImplementsDatabaseService
  EveryRequestAnswered
CHECK_DEADLOCK FALSE
