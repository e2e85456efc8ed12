SPECIFICATION FairSpec
CONSTANTS
  old = old
  new = new
  dud = dud
  None = None
  Images = {old, new, dud}
  Bootable = {old, new}
  Factory = old
  Devices = {"emmc", "sd"}
  BootMedia = {"emmc"}
  SplHandoff = {"publish"}
  MaxIoErrors = 1
  MaxLosses = 1
  MaxOps = 3
  Commands <- EveryList
  Erasable = {"fdt"}
  Files <- SignedFiles
  Targets = {"emmc", "sd"}
INVARIANTS
  TypeOK
  CopiesAgree
  OneCopySurvives
  SlotSurvives
PROPERTY EventuallyBoots
CHECK_DEADLOCK FALSE
