SPECIFICATION Spec
CONSTANTS
  Tasks = {t1, t2, t3}
  Startup = startup
  Slots = {s1, s2, s3}
  OfTasks = TRUE
  None = None
INVARIANTS
  OwnUnlessOverlapped
  CountUnlessOverlapped
CHECK_DEADLOCK FALSE
