SPECIFICATION Spec
CONSTANTS
  Devices = {d1, d2, d3}
  MaxDevices = 2
  Timeout = 1
  Turn = 4
  ClockSize = 7
  ClockSteps = {2}
  MaxPackets = 3
  MaxTime = 5
INVARIANTS
  TypeOK
  ShowsSelected
  OneDeviceDrawn
PROPERTY TimelyNumbers
SYMMETRY Hosts
CHECK_DEADLOCK FALSE
