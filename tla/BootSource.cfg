SPECIFICATION Spec
CONSTANTS
  old = old
  new = new
  dud = dud
  None = None
  Images = {old, new, dud}
  Bootable = {old, new}
  Factory = old
  Devices = {"emmc", "sd"}
  BootMedia = {"emmc"}
  SplHandoff = {"publish"}
  MaxIoErrors = 0
  MaxLosses = 0
  MaxOps = 2
  Commands <- KernelOnly
  Erasable = {"kernel"}
  Files <- SignedFiles
  Targets = {"emmc", "sd"}
INVARIANTS
  BootSourcePublished
CHECK_DEADLOCK FALSE
