SPECIFICATION AdminSpec
CONSTANTS
  j1 = j1
  j2 = j2
  d1 = d1
  t1 = t1
  t2 = t2
  tp = tp
  q1 = q1
  Jobs = {j1, j2, d1}
  CronJobs = {d1}
  MaxLost = 1
  QueueOf <- MCQueueOf
  TypeOf <- MCTypeOf
  Types = {t1, t2, tp}
  Blank = Blank
  Default = Default
  MaxRuns = 2
  MaxDead = 1
  MaxTime = 2
  TimeDay = 2
  Half = 8
  GB = 2
  Empty = 1
  Limit = 1
  Days <- MCDays
  Crons <- MCCrons
  Filters <- MCFilters
  MaxRequests = 1
  SettingsOf <- MCSettingsOf
  Off = Off
  None = None
INVARIANTS AdminTypeOK CronThorough StatsHonest
PROPERTIES PruneJustified LocksEnd
CHECK_DEADLOCK FALSE
