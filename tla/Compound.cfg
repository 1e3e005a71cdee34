SPECIFICATION FairSpec
CONSTANTS
  p = p
  q = q
  r = r
  p1 = p1
  p2 = p2
  p3 = p3
  q1 = q1
  q2 = q2
  r1 = r1
  r2 = r2
  Insert = Insert
  Count = Count
  Seeding = Seeding
  NoText = NoText
  Task = {p1, p2, p3, q1, q2, r1, r2}
  Text = {Insert, Count}
  Parent = {p, q, r}
  TextOf <- MCTextOf
  ChildrenOf <- MCChildrenOf
  AddedAfter <- MCAddedAfter
  ChildOrdering <- MCOrdering
  ParamRowCount <- MCRows
  CompoundTaskBatchSize = 2
  WithResults = {Count}
  Behaviours = {"good", "missing", "extra", "wrong", "garbled", "raises"}
  UseStatementCaching = FALSE
  ConnectionBreaks = TRUE
INVARIANTS
  TypeOK
  AllOrNothing
  ChildrenInOrder
  OnlyFaultyParentsFail
PROPERTIES
  ImplementsDatabaseService
  EveryParentAnswered
CHECK_DEADLOCK FALSE
