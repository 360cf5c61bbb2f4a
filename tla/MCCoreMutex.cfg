\* Three threads, two inheriting mutexes and one with a ceiling.
CONSTANTS
  Threads = {t1, t2, t3}
  Inheriting = {i1, i2}
  Ceilings = {c}
  Prios = {1, 2, 3}
  CeilingPrios = {1, 2}
  None = None
  FirstReal <- MC_Real
  FirstCeiling <- MC_Ceiling
  MaxNest <- MC_Nest
SYMMETRY MC_Symmetry
SPECIFICATION Spec
INVARIANTS PriorityIsInherited NoWaitCycle SchedulerIsUpdated UpdatesFit
PROPERTY GoesToBest
CHECK_DEADLOCK FALSE
