SPECIFICATION FairSystem
CONSTANTS
  old = old
  new = new
  dud = dud
  None = None
  Images = {old, new, dud}
  Bootable = {old, new}
  Factory = old
  Devices = {"emmc"}
  BootMedia = {"emmc"}
  SplHandoff = {"publish"}
  MaxIoErrors = 2
  MaxLosses = 0
  MaxOps = 0
  Commands <- EachReader
  Erasable = {"fdt", "kernel"}
  Files <- SoundOrDud
  Targets = {"emmc"}
  AppfsAtFirst <- BothSound
PROPERTIES
  FilesystemKept
CHECK_DEADLOCK FALSE
