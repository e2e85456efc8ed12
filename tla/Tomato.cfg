SPECIFICATION FairSpec
CONSTANTS
  WorkTimes = {2, 3, 5}
  ShortTimes = {1, 2}
  LongTimes = {2, 4}
  Interval = 4
  MaxTomatoes = 9
INVARIANT TypeOK
PROPERTIES
  ResumeRestores
  PeriodEnds
