SPECIFICATION FairSystem
CONSTANTS
  old = old
  new = new
  dud = dud
  None = None
  Images = {old, new, dud}
  Bootable = {old, new}
  Factory = old
  Devices = {"emmc"}
  BootMedia = {"emmc"}
  SplHandoff = {"publish"}
  MaxIoErrors = 0
  MaxLosses = 2
  MaxOps = 3
  Commands <- EachReader
  Erasable = {"fdt", "kernel"}
  Files <- SoundOrDud
  Targets = {"emmc"}
  AppfsAtFirst <- FirstAppfs
INVARIANTS
  OneSlotUp
  AppfsIsReady
PROPERTIES
  ImplementsSlotBoot
  EventuallyUp
  FilesystemKept
  HealthySlotKept
CHECK_DEADLOCK FALSE
