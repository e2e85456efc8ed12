SPECIFICATION Spec
CONSTANTS
  Tasks = {t1, t2}
  Startup = startup
  Slots = {s1, s2}
  OfTasks = FALSE
  None = None
INVARIANT OwnHandle
CHECK_DEADLOCK FALSE
