CONSTANTS
  t1 = t1
  t2 = t2
  t3 = t3
  t4 = t4
  t5 = t5
  t6 = t6
  NoTask = NoTask
  Task <- SixTasks
  TimeGranularity = 2
  MaxTime = 4
SPECIFICATION Spec
SYMMETRY Symmetry
INVARIANTS HeapOrder SchedulerInv
PROPERTY ImplementsAgenda
