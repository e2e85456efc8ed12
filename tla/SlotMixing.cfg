SPECIFICATION Spec
CONSTANTS
  old = old
  new = new
  dud = dud
  None = None
  Images = {old, new, dud}
  Bootable = {old, new}
  Factory = old
  Devices = {"emmc"}
  BootMedia = {"emmc"}
  SplHandoff = {"publish", "skip"}
  MaxIoErrors = 1
  MaxLosses = 1
  MaxOps = 2
  Commands <- OneComponent
  Erasable = {"fdt", "kernel"}
  Files <- SignedFiles
  Targets = {"emmc"}
INVARIANTS
  SameSlot
CHECK_DEADLOCK FALSE
