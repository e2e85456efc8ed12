SPECIFICATION FairSpec
CONSTANTS
  IdleLimit = 3
  MaxStocks = 2
  MaxSections = 3
  Codes = {"sh000001", "sz002415"}
  Intervals = {0, 1}
INVARIANTS
  TypeOK
  TimerOnlyOnMenu
  OwnCode
  TrafficBounded
PROPERTIES
  MenuIsLeft
  LastStockOnly
  RefreshedWhileShown
  FailureIsShown
