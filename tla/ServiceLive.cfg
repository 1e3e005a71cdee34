CONSTANTS
  Task = {t1, t2, t3}
  NoTask = NoTask
  TimeGranularity = 2
  MaxTime = 3
SPECIFICATION FairSpec
PROPERTY ServiceEnds
