---------------------------- MODULE SystemProofs ----------------------------
(***************************************************************************)
(* Theorems about the board with Linux on it.  First the start of Linux:   *)
(* the types, the hand-over of medium and slot from U-Boot to the mounted  *)
(* application partition, what the start-up script formats.  Then the      *)
(* choice of the slot: that a start is of one slot, that an unattended one *)
(* leaves a slot that works alone, and that the board, Linux included,     *)
(* takes no step the abstract two-slot start of SlotBoot does not allow.   *)
(***************************************************************************)
EXTENDS ObcBoardRefines, AppfsStart, ObcBoardProofs

\* From bootcmd on the boot medium and the slot are published.
Published == pc \notin {"off", "hw", "fdt", "args", "abort"} => bootargs \in Args

\* What each stage has received of them, and from whom.
Handed ==
  /\ stage \in {"none", "kernel", "basedev"} => links = None
  /\ stage \in {"none", "kernel", "basedev", "obcbase"} => procSlot = None
  /\ links \in {None, bootargs.media}
  /\ procSlot \in {None, bootargs.slot}
  /\ stage \in {"probe", "format", "remount"} => links # None /\ procSlot # None
  /\ stage # "user" => mounted = None
  /\ mounted # None => mounted = [dev |-> bootargs.media, slot |-> bootargs.slot]

\* What brought the start-up script where it is.
Caused ==
  /\ stage \in {"obcbase", "mount"} /\ RootOK => links # None
  /\ stage = "mount" /\ RootOK => procSlot # None
  /\ stage = "probe" /\ ioErrors = 0 => Appfs # "ext4"
  /\ stage = "format" => Appfs = "partial"

LinuxInv == TypeInv /\ LinuxTypeOK /\ Published /\ Handed /\ Caused /\ AppfsIsReady

-----------------------------------------------------------------------------
(* Steps of the board under and around Linux. *)

\* A running board is left by a reset or a power loss only, and what U-Boot
\* published does not change on the way into Linux (Bootk).
LEMMA BoardLemma ==
  ASSUME TypeInv, Published, Next
  PROVE  /\ pc = "running" => pc' = "off"
         /\ pc # "running" /\ pc' = "running" => UNCHANGED bootargs
         /\ Published'
<1> USE DEF Published
<1>1. CASE Booting
  <2>1. CASE ArgsInit
    BY <1>1, <2>1, InitAssumption DEF Booting, ArgsInit, TypeInv, TypeOK, Args
  <2>2. CASE PowerOn \/ HwInit \/ FdtInit \/ Bootk
    BY <1>1, <2>2 DEF Booting, PowerOn, HwInit, FdtInit, Bootk
  <2> QED BY <1>1, <2>1, <2>2 DEF Booting
<1>2. CASE Updating
  BY <1>2 DEF Updating, Fetch, BeginWrite, EndWrite, FailWrite, EnableUserBoot, NextComponent, Abort
<1>3. CASE Operator
  BY <1>3 DEF Operator, SetTarget, StartUpdate, Erase, Interrupt, initVars
<1>4. CASE Reset \/ PowerLoss
  BY <1>4 DEF Reset, PowerLoss
<1> QED BY <1>1, <1>2, <1>3, <1>4 DEF Next

LEMMA LinuxInvInit == SystemInit => LinuxInv
<1> SUFFICES ASSUME SystemInit PROVE LinuxInv
  OBVIOUS
<1>1. TypeInv
  BY TypeInit DEF SystemInit
<1>2. stage = "none" /\ links = None /\ procSlot = None /\ mounted = None /\ pc = "off"
  BY DEF SystemInit, LinuxInit, Init
<1>3. appfs \in [Devices -> [Slots -> AppfsKinds]]
  BY AppfsAssumption DEF SystemInit, LinuxInit
<1> QED
  BY <1>1, <1>2, <1>3 DEF LinuxInv, LinuxTypeOK, Stages, Published, Handed, Caused, AppfsIsReady

LEMMA BoardStepInv ==
  ASSUME LinuxInv, BoardStep
  PROVE  LinuxInv'
<1>1. TypeInv' /\ Published'
  BY TypeStep, BoardLemma DEF BoardStep, LinuxInv
<1>2. pc = "running" => pc' = "off"
  BY BoardLemma DEF BoardStep, LinuxInv
<1>3. pc # "running" /\ pc' = "running" => UNCHANGED bootargs
  BY BoardLemma DEF BoardStep, LinuxInv
<1>4. links' = None /\ procSlot' = None /\ mounted' = None /\ UNCHANGED appfs
  BY DEF BoardStep, LinuxHalts, LinuxInv, LinuxTypeOK, Handed
<1>5. stage' = IF pc' = "running" THEN "kernel" ELSE "none"
  BY <1>2 DEF BoardStep, LinuxHalts
<1>6. LinuxTypeOK'
  BY <1>4, <1>5 DEF LinuxInv, LinuxTypeOK, Stages
<1> QED
  BY <1>1, <1>4, <1>5, <1>6 DEF LinuxInv, Handed, Caused, AppfsIsReady

LEMMA EraseAppfsInv ==
  ASSUME LinuxInv, NEW s \in Slots, EraseAppfs(s)
  PROVE  LinuxInv'
<1>1. pc = "shell" /\ stage = "none" /\ stage' = "none"
  BY DEF EraseAppfs, LinuxInv, LinuxTypeOK
<1>2. TypeInv'
  BY DEF EraseAppfs, IoFine, IoError, storeVars, LinuxInv, TypeInv, TypeOK, Selected
<1>3. appfs' \in [Devices -> [Slots -> AppfsKinds]]
  BY <1>1 DEF EraseAppfs, LinuxInv, LinuxTypeOK, AppfsKinds, TypeInv, Selected
<1>4. LinuxTypeOK' /\ Published' /\ Handed'
  BY <1>1, <1>3 DEF EraseAppfs, LinuxInv, LinuxTypeOK, Published, Handed
<1> QED
  BY <1>1, <1>2, <1>4 DEF LinuxInv, Caused, AppfsIsReady

-----------------------------------------------------------------------------
(* The stages of Linux. *)

\* What every step of Linux leaves alone, and what it then keeps.
LEMMA LinuxFrame ==
  ASSUME LinuxInv, LinuxSteps
  PROVE  /\ TypeInv' /\ Published'
         /\ pc = "running" /\ pc' = "running" /\ UNCHANGED <<part, bootargs>>
         /\ bootargs \in Args
         /\ UNCHANGED ioErrors \/ (ioErrors' # 0 /\ ioErrors < MaxIoErrors)
<1>1. stage # "none"
  BY DEF LinuxSteps, MountRoot, BaseDev, ObcBase, MountAppfs, ProbeAppfs, FormatAppfs, MountAgain
<1>2. UNCHANGED ioErrors \/ (ioErrors < MaxIoErrors /\ ioErrors' = ioErrors + 1)
  BY DEF LinuxSteps, MountRoot, BaseDev, ObcBase, MountAppfs, ProbeAppfs, ProbeFormats,
         FormatAppfs, MountAgain, IoFine, IoError
<1>3. pc = "running" /\ bootargs \in Args
  BY <1>1 DEF LinuxInv, LinuxTypeOK, Published
<1>4. ioErrors \in Nat
  BY DEF LinuxInv, TypeInv, TypeOK
<1>5. UNCHANGED <<storeVars, pc, bootMedia, blkDev, slot, table, shmem, fdtMem, bootargs, kern,
                  losses, updateVars>>
  BY DEF LinuxSteps
<1>6. TypeInv'
  BY <1>2, <1>4, <1>5 DEF storeVars, updateVars, LinuxInv, TypeInv, TypeOK, Selected
<1> QED
  BY <1>2, <1>3, <1>4, <1>5, <1>6 DEF storeVars, LinuxInv, Published

\* The partition S10 works on is a partition of the medium and slot that
\* were published.
LEMMA AppfsLemma ==
  ASSUME LinuxInv, stage \in {"mount", "probe", "format", "remount"},
         links # None, procSlot # None
  PROVE  /\ links = bootargs.media /\ procSlot = bootargs.slot
         /\ links \in Devices /\ procSlot \in Slots
         /\ Appfs \in AppfsKinds
         /\ \A kind \in AppfsKinds : SetAppfs(kind) =>
              /\ appfs' \in [Devices -> [Slots -> AppfsKinds]]
              /\ appfs'[links][procSlot] = kind
              /\ \A d \in Devices, s \in Slots :
                   appfs'[d][s] # appfs[d][s] => d = links /\ s = procSlot
<1>1. links = bootargs.media /\ procSlot = bootargs.slot /\ links \in Devices /\ procSlot \in Slots
  BY DEF LinuxInv, LinuxTypeOK, Handed
<1>2. appfs \in [Devices -> [Slots -> AppfsKinds]]
  BY DEF LinuxInv, LinuxTypeOK
<1> QED
  BY <1>1, <1>2 DEF Appfs, SetAppfs

\* Before S10 begins.
LEMMA EarlyInv ==
  ASSUME LinuxInv, LinuxSteps, MountRoot \/ BaseDev \/ ObcBase
  PROVE  LinuxInv'
<1>1. /\ TypeInv' /\ Published'
      /\ pc = "running" /\ pc' = "running" /\ UNCHANGED <<part, bootargs>> /\ bootargs \in Args
  BY LinuxFrame
<1>2. RootOK' = RootOK
  BY <1>1 DEF RootOK, Root
<1>3. UNCHANGED <<appfs, mounted>> /\ mounted = None
  BY DEF MountRoot, BaseDev, ObcBase, LinuxInv, Handed
<1>4. CASE MountRoot
  BY <1>1, <1>3, <1>4 DEF MountRoot, LinuxInv, LinuxTypeOK, Stages, Handed, Caused, AppfsIsReady
<1>5. CASE BaseDev
  BY <1>1, <1>2, <1>3, <1>5, StoreAssumption
     DEF BaseDev, Args, LinuxInv, LinuxTypeOK, Stages, Handed, Caused, AppfsIsReady
<1>6. CASE ObcBase
  <2>1. bootargs.slot # None
    BY <1>1, StoreAssumption DEF Args, Slots, OBC_SLOT_A, OBC_SLOT_B
  <2> QED
    BY <1>1, <1>2, <1>3, <1>6, <2>1
       DEF ObcBase, PublishedSlot, Args, LinuxInv, LinuxTypeOK, Stages, Handed, Caused, AppfsIsReady
<1> QED BY <1>4, <1>5, <1>6

\* The first mount.
LEMMA MountInv ==
  ASSUME LinuxInv, LinuxSteps, MountAppfs
  PROVE  LinuxInv'
<1>1. /\ TypeInv' /\ Published'
      /\ pc = "running" /\ pc' = "running" /\ UNCHANGED <<part, bootargs>> /\ bootargs \in Args
      /\ UNCHANGED ioErrors \/ ioErrors' # 0
  BY LinuxFrame
<1>2. RootOK' = RootOK /\ UNCHANGED <<links, procSlot, appfs>> /\ stage = "mount" /\ mounted = None
  BY <1>1 DEF RootOK, Root, MountAppfs, LinuxInv, Handed
<1>3. CASE procSlot = None \/ links = None
  <2>1. stage' = "user" /\ ~RootOK /\ mounted' = None
    BY <1>2, <1>3 DEF MountAppfs, LinuxInv, Caused
  <2> QED
    BY <1>1, <1>2, <2>1 DEF LinuxInv, LinuxTypeOK, Stages, Handed, Caused, AppfsIsReady
<1>4. CASE procSlot # None /\ links # None
  <2>1. links = bootargs.media /\ procSlot = bootargs.slot /\ links \in Devices /\ procSlot \in Slots
    BY <1>2, <1>4, AppfsLemma
  <2>2. CASE mounted' = AppfsDevice /\ stage' = "user"
    <3>1. mounted' = [dev |-> links, slot |-> procSlot]
      BY <2>2 DEF AppfsDevice
    <3>2. mounted' \in [dev : Devices, slot : Slots]
      BY <3>1, <2>1
    <3>3. mounted' # None
      BY <3>2, AppfsAssumption
    <3> QED
      BY <1>1, <1>2, <2>1, <2>2, <3>1, <3>2, <3>3
         DEF LinuxInv, LinuxTypeOK, Stages, Handed, Caused, AppfsIsReady
  <2>3. CASE stage' = "probe" /\ UNCHANGED mounted /\ ((Appfs # "ext4" /\ IoFine) \/ IoError)
    <3>1. ioErrors' = 0 => Appfs # "ext4"
      <4>1. ioErrors \in Nat
        BY DEF LinuxInv, TypeInv, TypeOK
      <4> QED BY <2>3, <4>1 DEF IoFine, IoError
    <3>2. Appfs' = Appfs
      BY <1>2 DEF Appfs
    <3> QED
      BY <1>1, <1>2, <1>4, <2>1, <2>3, <3>1, <3>2
         DEF LinuxInv, LinuxTypeOK, Stages, Handed, Caused, AppfsIsReady
  <2> QED BY <1>4, <2>2, <2>3 DEF MountAppfs
<1> QED BY <1>3, <1>4

\* The probe: what is formatted is marked as such at once.
LEMMA ProbeInv ==
  ASSUME LinuxInv, LinuxSteps, ProbeAppfs
  PROVE  LinuxInv'
<1>1. /\ TypeInv' /\ Published'
      /\ pc = "running" /\ pc' = "running" /\ UNCHANGED <<part, bootargs>> /\ bootargs \in Args
      /\ UNCHANGED ioErrors \/ ioErrors' # 0
  BY LinuxFrame
<1>2. /\ RootOK' = RootOK /\ UNCHANGED <<links, procSlot, mounted>> /\ stage = "probe"
      /\ mounted = None /\ links # None /\ procSlot # None
  BY <1>1 DEF RootOK, Root, ProbeAppfs, LinuxInv, Handed
<1>3. /\ links = bootargs.media /\ procSlot = bootargs.slot /\ links \in Devices /\ procSlot \in Slots
      /\ Appfs \in AppfsKinds
  BY <1>2, AppfsLemma
<1>4. CASE stage' = "format" /\ SetAppfs("partial")
  <2>1. appfs' \in [Devices -> [Slots -> AppfsKinds]] /\ appfs'[links][procSlot] = "partial"
    <3>1. "partial" \in AppfsKinds
      BY DEF AppfsKinds
    <3> QED BY <1>2, <1>4, <3>1, AppfsLemma
  <2>2. Appfs' = "partial"
    BY <1>2, <2>1 DEF Appfs
  <2> QED
    BY <1>1, <1>2, <1>3, <1>4, <2>1, <2>2
       DEF LinuxInv, LinuxTypeOK, Stages, Handed, Caused, AppfsIsReady
<1>5. CASE stage' = "user" /\ UNCHANGED appfs /\ (IoFine => Appfs \in Recognised \/ ~RootOK)
  <2>1. RootOK' /\ ioErrors' = 0 => Appfs \in {"ailing", "other", "partial"}
    <3>1. ioErrors' = 0 => ioErrors = 0 /\ IoFine
      BY <1>1 DEF IoFine
    <3>2. ioErrors = 0 => Appfs # "ext4"
      BY <1>2 DEF LinuxInv, Caused
    <3> QED BY <1>2, <1>5, <3>1, <3>2 DEF Recognised
  <2>2. RootOK' /\ ioErrors' = 0 =>
          appfs'[bootargs'.media][bootargs'.slot] \in {"ailing", "other", "partial"}
    BY <1>1, <1>3, <1>5, <2>1 DEF Appfs
  <2> QED
    BY <1>1, <1>2, <1>3, <1>5, <2>2 DEF LinuxInv, LinuxTypeOK, Stages, Handed, Caused, AppfsIsReady
<1>6. \/ stage' = "format" /\ SetAppfs("partial")
      \/ stage' = "user" /\ UNCHANGED appfs /\ (IoFine => Appfs \in Recognised \/ ~RootOK)
  <2>1. IoFine => ~IoError
    BY DEF IoFine, IoError, LinuxInv, TypeInv, TypeOK
  <2> QED BY <2>1 DEF ProbeAppfs, ProbeFormats
<1> QED BY <1>4, <1>5, <1>6

\* The formatter.
LEMMA FormatInv ==
  ASSUME LinuxInv, LinuxSteps, FormatAppfs
  PROVE  LinuxInv'
<1>1. /\ TypeInv' /\ Published'
      /\ pc = "running" /\ pc' = "running" /\ UNCHANGED <<part, bootargs>> /\ bootargs \in Args
      /\ UNCHANGED ioErrors \/ ioErrors' # 0
  BY LinuxFrame
<1>2. /\ UNCHANGED <<links, procSlot, mounted>> /\ stage = "format"
      /\ mounted = None /\ links # None /\ procSlot # None
  BY DEF FormatAppfs, LinuxInv, Handed
<1>3. links = bootargs.media /\ procSlot = bootargs.slot /\ links \in Devices /\ procSlot \in Slots
  BY <1>2, AppfsLemma
<1>4. CASE SetAppfs("ext4") /\ stage' = AfterFormat
  <2>1. appfs' \in [Devices -> [Slots -> AppfsKinds]]
    <3>1. "ext4" \in AppfsKinds
      BY DEF AppfsKinds
    <3> QED BY <1>2, <1>4, <3>1, AppfsLemma
  <2> QED
    BY <1>1, <1>2, <1>3, <1>4, <2>1
       DEF AfterFormat, LinuxInv, LinuxTypeOK, Stages, Handed, Caused, AppfsIsReady
<1>5. CASE UNCHANGED appfs /\ stage' = "user" /\ IoError
  <2>1. ioErrors' # 0
    BY <1>5 DEF IoError, LinuxInv, TypeInv, TypeOK
  <2> QED
    BY <1>1, <1>2, <1>3, <1>5, <2>1
       DEF LinuxInv, LinuxTypeOK, Stages, Handed, Caused, AppfsIsReady
<1> QED BY <1>4, <1>5 DEF FormatAppfs

\* The second mount.
LEMMA MountAgainInv ==
  ASSUME LinuxInv, LinuxSteps, MountAgain
  PROVE  LinuxInv'
<1>1. /\ TypeInv' /\ Published'
      /\ pc = "running" /\ pc' = "running" /\ UNCHANGED <<part, bootargs>> /\ bootargs \in Args
  BY LinuxFrame
<1>2. /\ UNCHANGED <<links, procSlot, appfs>> /\ stage = "remount" /\ stage' = "user"
      /\ mounted = None /\ links # None /\ procSlot # None
  BY DEF MountAgain, LinuxInv, Handed
<1>3. links = bootargs.media /\ procSlot = bootargs.slot /\ links \in Devices /\ procSlot \in Slots
  BY <1>2, AppfsLemma
<1>4. CASE mounted' = AppfsDevice
  <2>1. mounted' = [dev |-> links, slot |-> procSlot]
    BY <1>4 DEF AppfsDevice
  <2>2. mounted' \in [dev : Devices, slot : Slots]
    BY <1>3, <2>1
  <2>3. mounted' # None
    BY <2>2, AppfsAssumption
  <2> QED
    BY <1>1, <1>2, <1>3, <2>1, <2>2, <2>3
       DEF LinuxInv, LinuxTypeOK, Stages, Handed, Caused, AppfsIsReady
<1>5. CASE UNCHANGED mounted /\ IoError
  <2>1. ioErrors' # 0
    BY <1>5 DEF IoError, LinuxInv, TypeInv, TypeOK
  <2> QED
    BY <1>1, <1>2, <1>3, <1>5, <2>1
       DEF LinuxInv, LinuxTypeOK, Stages, Handed, Caused, AppfsIsReady
<1> QED BY <1>4, <1>5 DEF MountAgain

LEMMA LinuxInvStep == LinuxInv /\ [SystemNext]_systemVars => LinuxInv'
<1> SUFFICES ASSUME LinuxInv, [SystemNext]_systemVars PROVE LinuxInv'
  OBVIOUS
<1>1. CASE BoardStep
  BY <1>1, BoardStepInv
<1>2. CASE LinuxSteps
  BY <1>2, EarlyInv, MountInv, ProbeInv, FormatInv, MountAgainInv DEF LinuxSteps
<1>3. ASSUME NEW s \in Slots, EraseAppfs(s) PROVE LinuxInv'
  BY <1>3, EraseAppfsInv
<1>4. CASE UNCHANGED systemVars
  <2>1. UNCHANGED vars /\ UNCHANGED linuxVars
    BY <1>4 DEF systemVars
  <2>2. TypeInv'
    BY <2>1, TypeStep DEF LinuxInv
  <2>3. UNCHANGED <<part, pc, bootargs, ioErrors, stage, links, procSlot, appfs, mounted>>
    BY <2>1 DEF vars, storeVars, initVars, updateVars, linuxVars
  <2>4. RootOK' = RootOK /\ Appfs' = Appfs
    BY <2>3 DEF RootOK, Root, Appfs
  <2> QED
    BY <2>2, <2>3, <2>4 DEF LinuxInv, LinuxTypeOK, Published, Handed, Caused, AppfsIsReady
<1> QED
  BY <1>1, <1>2, <1>3, <1>4 DEF SystemNext


\* The Linux side holds what its types say, and is past the kernel only on a
\* running board (LinuxTypeOK; the stages are those of rcS and its scripts).
THEOREM LinuxTypesHold == System => []LinuxTypeOK
<1>1. LinuxInv => LinuxTypeOK
  BY DEF LinuxInv
<1> QED
  BY <1>1, LinuxInvInit, LinuxInvStep, PTL DEF System

\* A start without an error leaves the applications mounted or on a partition
\* that only an operator repairs (S10_obc_startup).
THEOREM AppfsIsReadyAlways == System => []AppfsIsReady
<1>1. LinuxInv => AppfsIsReady
  BY DEF LinuxInv
<1> QED
  BY <1>1, LinuxInvInit, LinuxInvStep, PTL DEF System

-----------------------------------------------------------------------------
(* What Linux formats. *)

\* Linux changes a partition in two ways, both of the slot it runs from: it
\* begins to format one that blkid prints nothing about, or that could not be
\* read, and it ends what it began (format_appfs_if_empty).
LEMMA LinuxFormats ==
  ASSUME LinuxInv, [SystemNext]_systemVars, NEW d \in Devices, NEW s \in Slots,
         stage # "none", appfs'[d][s] # appfs[d][s]
  PROVE  /\ d = bootargs.media /\ s = bootargs.slot /\ appfs[d][s] \in AppfsKinds
         /\ \/ stage = "probe" /\ (appfs[d][s] \notin Recognised \/ IoError)
               /\ (ioErrors = 0 => appfs[d][s] # "ext4")
            \/ appfs[d][s] = "partial" /\ appfs'[d][s] = "ext4"
<1>1. ProbeAppfs \/ FormatAppfs
  <2>1. ~BoardStep
    BY DEF BoardStep, LinuxHalts
  <2>2. \A t \in Slots : ~EraseAppfs(t)
    BY DEF EraseAppfs, LinuxInv, LinuxTypeOK
  <2>3. ~UNCHANGED systemVars
    BY DEF systemVars, linuxVars
  <2>4. LinuxSteps
    BY <2>1, <2>2, <2>3 DEF SystemNext
  <2> QED
    BY <2>4 DEF LinuxSteps, MountRoot, BaseDev, ObcBase, MountAppfs, MountAgain
<1>2. stage \in {"probe", "format"} /\ links # None /\ procSlot # None
  BY <1>1 DEF ProbeAppfs, FormatAppfs, LinuxInv, Handed
<1>3. links = bootargs.media /\ procSlot = bootargs.slot /\ Appfs \in AppfsKinds
  BY <1>2, AppfsLemma
<1>4. /\ d = links /\ s = procSlot
      /\ \A kind \in AppfsKinds : SetAppfs(kind) => appfs'[d][s] = kind
  <2>1. \E kind \in AppfsKinds : SetAppfs(kind)
    BY <1>1 DEF ProbeAppfs, ProbeFormats, FormatAppfs, AppfsKinds
  <2> QED BY <1>2, <2>1, AppfsLemma
<1>5. appfs[d][s] = Appfs
  BY <1>4 DEF Appfs
<1>6. CASE ProbeAppfs
  <2>1. Appfs \notin Recognised \/ IoError
    BY <1>4, <1>6 DEF ProbeAppfs, ProbeFormats
  <2>2. stage = "probe" /\ (ioErrors = 0 => Appfs # "ext4")
    BY <1>6 DEF ProbeAppfs, LinuxInv, Caused
  <2> QED BY <1>3, <1>4, <1>5, <2>1, <2>2
<1>7. CASE FormatAppfs
  <2>1. Appfs = "partial" /\ SetAppfs("ext4")
    BY <1>4, <1>7 DEF FormatAppfs, LinuxInv, Caused
  <2> QED BY <1>3, <1>4, <1>5, <2>1 DEF AppfsKinds
<1> QED BY <1>1, <1>6, <1>7

\* On a medium that never fails Linux formats no partition but the empty one
\* of the slot it runs from, whatever the partitions held and wherever power
\* was lost (format_appfs_if_empty).  With a medium that may fail it does
\* format others.
THEOREM FilesystemKeptAlways ==
  ASSUME MaxIoErrors = 0
  PROVE  System => FilesystemKept
<1> DEFINE Kept ==
      \A d \in Devices, s \in Slots :
         stage # "none" /\ appfs'[d][s] # appfs[d][s] =>
            /\ appfs[d][s] \in {"blank", "partial"}
            /\ d = bootargs.media /\ s = bootargs.slot
<1>1. LinuxInv => ~IoError
  BY DEF IoError, LinuxInv, TypeInv, TypeOK
<1>2. LinuxInv /\ [SystemNext]_systemVars => [Kept]_systemVars
  BY <1>1, LinuxFormats DEF Recognised, AppfsKinds
<1> QED
  BY <1>2, LinuxInvInit, LinuxInvStep, PTL DEF System, FilesystemKept

\* Linux touches the application partition of one medium and slot only.
FormatsItsOwn ==
  [][\A d \in Devices, s \in Slots :
        stage # "none" /\ appfs'[d][s] # appfs[d][s] =>
           d = bootargs.media /\ s = bootargs.slot]_systemVars

\* Whatever fails, and however often: the partition of the other slot and
\* those of the other devices are left as they were (the device S10 makes of
\* /proc/obcbase/sysinfo_part and /dev/obcblock).
THEOREM FormatsItsOwnAlways == System => FormatsItsOwn
<1> DEFINE Own ==
      \A d \in Devices, s \in Slots :
         stage # "none" /\ appfs'[d][s] # appfs[d][s] =>
            d = bootargs.media /\ s = bootargs.slot
<1>1. LinuxInv /\ [SystemNext]_systemVars => [Own]_systemVars
  BY LinuxFormats
<1> QED
  BY <1>1, LinuxInvInit, LinuxInvStep, PTL DEF System, FormatsItsOwn

\* Linux never destroys a sound file system.
SoundFilesystemKept ==
  [][\A d \in Devices, s \in Slots :
        stage # "none" /\ appfs[d][s] = "ext4" => appfs'[d][s] = "ext4"]_systemVars

\* One failing operation of the medium does not cost a sound file system: it
\* takes the mount and then blkid to fail (format_appfs_if_empty, "never when
\* an existing filesystem merely failed to mount").
THEOREM SoundFilesystemKeptAlways ==
  ASSUME MaxIoErrors \in {0, 1}
  PROVE  System => SoundFilesystemKept
<1> DEFINE Sound ==
      \A d \in Devices, s \in Slots :
         stage # "none" /\ appfs[d][s] = "ext4" => appfs'[d][s] = "ext4"
<1>1. LinuxInv /\ ioErrors # 0 => ~IoError
  BY DEF IoError, LinuxInv, TypeInv, TypeOK
<1>2. LinuxInv /\ [SystemNext]_systemVars => [Sound]_systemVars
  BY <1>1, LinuxFormats DEF Recognised
<1> QED
  BY <1>2, LinuxInvInit, LinuxInvStep, PTL DEF System, SoundFilesystemKept

-----------------------------------------------------------------------------
(* One slot. *)

\* On media that never fail, from fdt_init on: the device tree in memory is
\* that of the slot in play, or none; and so is all that follows it.
OneSlot ==
  /\ pc \notin {"off", "hw", "fdt", "abort"} => fdtMem = None \/ fdtMem.slot = slot
  /\ pc \notin {"off", "hw", "fdt", "args", "abort"} =>
       bootargs = [media |-> bootMedia, slot |-> slot]
  /\ pc = "running" => fdtMem # None /\ kern.slot = slot

\* Until bootcmd has run, all that goes through the boot medium.
BootDev ==
  /\ pc \in {"fdt", "args", "bootcmd"} => blkDev = bootMedia
  /\ pc \in {"args", "bootcmd"} => fdtMem = None \/ fdtMem.dev = blkDev

\* No update has turned U-Boot to a second device.
OneDev ==
  /\ upDev = "emmc" /\ blkDev \in {None, "emmc"}
  /\ fdtMem = None \/ fdtMem.dev = "emmc"
  /\ pc = "running" => kern.dev = "emmc"

LEMMA OneSlotStep ==
  ASSUME MaxIoErrors = 0, TypeInv, OneSlot, Next
  PROVE  OneSlot'
<1> USE DEF OneSlot
<1>0. ~IoError
  BY DEF IoError, TypeInv, TypeOK
<1>1. CASE Booting
  <2>1. CASE FdtInit
    BY <1>0, <2>1 DEF FdtInit, RefusedFdt
  <2>2. CASE ArgsInit
    BY <2>2 DEF ArgsInit
  <2>3. CASE Bootk
    <3>1. pc' \in {"shell", "running"} /\ UNCHANGED <<fdtMem, slot, bootargs, bootMedia>>
      BY <2>3 DEF Bootk
    <3>2. pc' = "running" => fdtMem # None /\ kern'.slot = slot
      BY <2>3 DEF Bootk, BootiMayAccept, FdtOK, KernelSlot
    <3> QED BY <2>3, <3>1, <3>2 DEF Bootk
  <2>4. CASE PowerOn \/ HwInit
    BY <2>4 DEF PowerOn, HwInit
  <2> QED BY <1>1, <2>1, <2>2, <2>3, <2>4 DEF Booting
<1>2. CASE Updating
  BY <1>2 DEF Updating, Fetch, BeginWrite, EndWrite, FailWrite, EnableUserBoot, NextComponent, Abort
<1>3. CASE Operator
  BY <1>3 DEF Operator, SetTarget, StartUpdate, Erase, Interrupt, initVars
<1>4. CASE Reset \/ PowerLoss
  BY <1>4 DEF Reset, PowerLoss
<1> QED BY <1>1, <1>2, <1>3, <1>4 DEF Next

LEMMA BootDevStep ==
  ASSUME MaxIoErrors = 0, TypeInv, BootDev, Next
  PROVE  BootDev'
<1> USE DEF BootDev
<1>0. ~IoError
  BY DEF IoError, TypeInv, TypeOK
<1>1. CASE Booting
  <2>1. CASE FdtInit
    BY <1>0, <2>1 DEF FdtInit, RefusedFdt
  <2>2. CASE PowerOn \/ HwInit \/ ArgsInit \/ Bootk
    BY <2>2 DEF PowerOn, HwInit, ArgsInit, Bootk
  <2> QED BY <1>1, <2>1, <2>2 DEF Booting
<1>2. CASE Updating
  BY <1>2 DEF Updating, Fetch, BeginWrite, EndWrite, FailWrite, EnableUserBoot, NextComponent, Abort
<1>3. CASE Operator
  BY <1>3 DEF Operator, SetTarget, StartUpdate, Erase, Interrupt, initVars
<1>4. CASE Reset \/ PowerLoss
  BY <1>4 DEF Reset, PowerLoss
<1> QED BY <1>1, <1>2, <1>3, <1>4 DEF Next

LEMMA OneDevStep ==
  ASSUME BootMedia = {"emmc"}, Targets \subseteq {"emmc"}, TypeInv, OneDev, Next
  PROVE  OneDev'
<1> USE DEF OneDev
<1>1. CASE Booting
  <2>0. upDev' = "emmc"
    BY <1>1 DEF Booting
  <2>1. CASE FdtInit
    <3>1. blkDev = "emmc"
      BY <2>1, StoreAssumption DEF FdtInit, TypeInv, Selected
    <3> QED BY <2>0, <2>1, <3>1 DEF FdtInit, RefusedFdt
  <2>2. CASE Bootk
    <3>1. blkDev = "emmc"
      BY <2>2, StoreAssumption DEF Bootk, TypeInv, Selected
    <3> QED BY <2>0, <2>2, <3>1 DEF Bootk
  <2>3. CASE PowerOn
    BY <2>0, <2>3 DEF PowerOn
  <2>4. CASE HwInit
    BY <2>0, <2>4 DEF HwInit, TypeInv, TypeOK
  <2>5. CASE ArgsInit
    BY <2>0, <2>5 DEF ArgsInit
  <2> QED BY <1>1, <2>1, <2>2, <2>3, <2>4, <2>5 DEF Booting
<1>2. CASE Updating
  BY <1>2 DEF Updating, Fetch, BeginWrite, EndWrite, FailWrite, EnableUserBoot, NextComponent,
              Abort, TargetDev
<1>3. CASE Operator
  BY <1>3 DEF Operator, SetTarget, StartUpdate, Erase, Interrupt, initVars
<1>4. CASE Reset \/ PowerLoss
  BY <1>4 DEF Reset, PowerLoss, updateVars
<1> QED BY <1>1, <1>2, <1>3, <1>4 DEF Next

\* Linux and its operator touch nothing of it.
LEMMA OneSlotFrame ==
  ASSUME [SystemNext]_systemVars
  PROVE  Next \/ ((OneSlot => OneSlot') /\ (BootDev => BootDev') /\ (OneDev => OneDev'))
<1>1. UNCHANGED <<pc, bootMedia, blkDev, slot, fdtMem, bootargs, kern, upDev>>
      => (OneSlot => OneSlot') /\ (BootDev => BootDev') /\ (OneDev => OneDev')
  BY DEF OneSlot, BootDev, OneDev
<1>2. CASE BoardStep
  BY <1>2 DEF BoardStep
<1>3. CASE LinuxSteps
  BY <1>1, <1>3 DEF LinuxSteps, updateVars
<1>4. ASSUME NEW s \in Slots, EraseAppfs(s)
      PROVE  UNCHANGED <<pc, bootMedia, blkDev, slot, fdtMem, bootargs, kern, upDev>>
  BY <1>4 DEF EraseAppfs
<1>5. CASE UNCHANGED systemVars
  BY <1>1, <1>5 DEF systemVars, vars, initVars, updateVars
<1> QED BY <1>1, <1>2, <1>3, <1>4, <1>5 DEF SystemNext

\* With a medium that never fails, booted from and updated alone, the kernel,
\* its device tree, the root file system and the mounted application
\* partition are always of one slot of it, after whatever updates, erasures,
\* warm resets and power losses (do_bootk, am62x_board_args_init, obcbase.c,
\* S10_obc_startup).  There may be other devices on the board.
THEOREM OneSlotUpAlways ==
  ASSUME MaxIoErrors = 0, BootMedia = {"emmc"}, Targets \subseteq {"emmc"}
  PROVE  System => []OneSlotUp
<1>1. SystemInit => OneSlot /\ OneDev
  BY DEF SystemInit, Init, OneSlot, OneDev
<1>2. LinuxInv /\ OneSlot /\ [SystemNext]_systemVars => OneSlot'
  BY OneSlotFrame, OneSlotStep DEF LinuxInv
<1>3. LinuxInv /\ OneDev /\ [SystemNext]_systemVars => OneDev'
  BY OneSlotFrame, OneDevStep DEF LinuxInv
<1>4. LinuxInv /\ OneSlot /\ OneDev => OneSlotUp
  <2> SUFFICES ASSUME LinuxInv, OneSlot, OneDev, pc = "running"
               PROVE  /\ fdtMem.dev = kern.dev /\ fdtMem.slot = kern.slot
                      /\ bootargs = [media |-> kern.dev, slot |-> kern.slot]
                      /\ mounted # None => mounted = [dev |-> kern.dev, slot |-> kern.slot]
    BY DEF OneSlotUp
  <2>1. fdtMem # None /\ fdtMem.dev = "emmc" /\ kern.dev = "emmc" /\ bootMedia = "emmc"
    BY DEF OneSlot, OneDev, LinuxInv, TypeInv, TypeOK
  <2>2. fdtMem.slot = kern.slot /\ bootargs = [media |-> kern.dev, slot |-> kern.slot]
    BY <2>1 DEF OneSlot
  <2>3. mounted # None => mounted = [dev |-> bootargs.media, slot |-> bootargs.slot]
    BY DEF LinuxInv, Handed
  <2> QED
    BY <2>1, <2>2, <2>3
<1> QED
  BY <1>1, <1>2, <1>3, <1>4, LinuxInvInit, LinuxInvStep, PTL DEF System

\* What bootcmd starts without anyone at the prompt: the kernel and its device
\* tree are of the boot medium and of the slot in play, and those are what is
\* published for Linux (am62x_board_hw_init ... do_bootk).
UnattendedOneSlot ==
  [][pc = "bootcmd" /\ pc' = "running" =>
       /\ kern'.dev = bootMedia /\ kern'.slot = slot
       /\ fdtMem'.dev = bootMedia /\ fdtMem'.slot = slot
       /\ bootargs' = [media |-> bootMedia, slot |-> slot]]_vars

\* On media that never fail, however many there are to boot from and to
\* update: an unattended start never mixes slots or media.  It takes a `bootk'
\* typed after an update of another device, or a failing read, to do so.
THEOREM UnattendedStartIsOneSlot ==
  ASSUME MaxIoErrors = 0
  PROVE  System => UnattendedOneSlot
<1> DEFINE Alike ==
      pc = "bootcmd" /\ pc' = "running" =>
         /\ kern'.dev = bootMedia /\ kern'.slot = slot
         /\ fdtMem'.dev = bootMedia /\ fdtMem'.slot = slot
         /\ bootargs' = [media |-> bootMedia, slot |-> slot]
<1>1. SystemInit => OneSlot /\ BootDev
  BY DEF SystemInit, Init, OneSlot, BootDev
<1>2. LinuxInv /\ OneSlot /\ [SystemNext]_systemVars => OneSlot'
  BY OneSlotFrame, OneSlotStep DEF LinuxInv
<1>3. LinuxInv /\ BootDev /\ [SystemNext]_systemVars => BootDev'
  BY OneSlotFrame, BootDevStep DEF LinuxInv
<1>4. LinuxInv /\ OneSlot /\ BootDev /\ [SystemNext]_systemVars => [Alike]_vars
  <2> SUFFICES ASSUME LinuxInv, OneSlot, BootDev, [SystemNext]_systemVars,
                      pc = "bootcmd", pc' = "running"
               PROVE  Alike
    OBVIOUS
  <2>1. Next
    BY DEF SystemNext, BoardStep, LinuxSteps, EraseAppfs, systemVars, vars, initVars
  <2>2. Bootk
    <3>1. CASE Booting
      BY <3>1 DEF Booting, PowerOn, HwInit, FdtInit, ArgsInit
    <3>2. CASE Updating \/ Operator \/ Reset \/ PowerLoss
      BY <3>2 DEF Updating, Fetch, BeginWrite, EndWrite, FailWrite, EnableUserBoot, Operator,
                  SetTarget, StartUpdate, Erase, Interrupt, Reset, PowerLoss, initVars
    <3> QED BY <2>1, <3>1, <3>2 DEF Next
  <2>3. /\ kern'.dev = blkDev /\ kern'.slot = slot /\ fdtMem # None
        /\ UNCHANGED <<fdtMem, bootargs>>
    BY <2>2 DEF Bootk, KernelSlot, BootiMayAccept, FdtOK
  <2> QED BY <2>3 DEF OneSlot, BootDev
<1> QED
  BY <1>1, <1>2, <1>3, <1>4, LinuxInvInit, LinuxInvStep, PTL DEF System, UnattendedOneSlot

-----------------------------------------------------------------------------

\* SPL publishes always, or never: it does not change between two starts.
OneHandoff == SplHandoff = {"publish"} \/ SplHandoff = {"skip"}

\* The slot in play holds a device tree that was read to its end, and that is
\* the one in memory.
FdtInHand ==
  /\ ReadPartOK(blkDev, "fdt", slot)
  /\ fdtMem # None /\ fdtMem.whole /\ fdtMem.img = part[blkDev]["fdt"][slot].img
  /\ table = "full" \/ fdtMem.img \notin Bootable

\* A start up to bootcmd goes through the boot medium: its device tree is in
\* memory, or its slot has a bad one, or was given up for a failing medium.
FdtTried ==
  /\ pc = "fdt" => blkDev = bootMedia
  /\ pc \in {"args", "bootcmd"} =>
       /\ blkDev = bootMedia
       /\ FdtInHand \/ ~ReadPartOK(blkDev, "fdt", slot) \/ sysflag[blkDev] = Other(slot)

\* On a medium that does not fail it is bound to the slot its flag named, and
\* has given that slot up for a bad device tree, or holds its device tree.
Refused ==
  /\ sysflag[blkDev] = Other(slot)
  /\ ~ReadPartOK(blkDev, "fdt", slot)
  /\ fdtMem = None \/ ~fdtMem.whole
Accepted == sysflag[blkDev] = slot /\ FdtInHand
StartInv ==
  /\ "skip" \in SplHandoff => shmem = None
  /\ pc = "hw" => shmem \in {None, sysflag[bootMedia]}
  /\ pc = "fdt" => blkDev = bootMedia /\ FdtSlot = sysflag[bootMedia]
  /\ pc \in {"args", "bootcmd"} => blkDev = bootMedia /\ (Refused \/ Accepted)

-----------------------------------------------------------------------------

\* A slot and the other one (obc_slot_switch).
LEMMA OtherLemma ==
  ASSUME NEW s \in Slots
  PROVE  Other(s) \in Slots /\ Other(s) = 1 - s /\ Other(s) # s
BY DEF Other, Slots, OBC_SLOT_A, OBC_SLOT_B

\* What FdtInit leaves (am62x_board_fdt_init): the device tree of the slot,
\* or the flag on the other slot, or an error of the medium.
LEMMA FdtOutcome ==
  ASSUME TypeInv, FdtInit
  PROVE  /\ blkDev \in Devices /\ FdtSlot \in Slots
         /\ pc = "fdt" /\ pc' = "args" /\ slot' = FdtSlot
         /\ UNCHANGED <<part, bootMedia, blkDev, shmem>>
         /\ \/ UNCHANGED sysflag /\ FdtInHand'
            \/ /\ ~ReadPartOK(blkDev, "fdt", FdtSlot)
               /\ fdtMem' = None \/ ~fdtMem'.whole
               /\ \/ sysflag' = [sysflag EXCEPT ![blkDev] = Other(FdtSlot)]
                  \/ UNCHANGED sysflag /\ IoError
            \/ IoError /\ sysflag' = [sysflag EXCEPT ![blkDev] = Other(FdtSlot)]
<1>1. /\ pc = "fdt" /\ pc' = "args" /\ slot' = FdtSlot
      /\ UNCHANGED <<part, bootMedia, blkDev, shmem>>
  BY DEF FdtInit
<1>2. blkDev \in Devices /\ FdtSlot \in Slots
  BY <1>1 DEF FdtSlot, TypeInv, TypeOK, Selected
<1> DEFINE r == [dev |-> blkDev, slot |-> FdtSlot, img |-> part[blkDev]["fdt"][FdtSlot].img,
                 whole |-> TRUE]
<1>3. CASE /\ ReadPartOK(blkDev, "fdt", FdtSlot) /\ fdtMem' = r /\ UNCHANGED sysflag
           /\ table' = "full" \/ part[blkDev]["fdt"][FdtSlot].img \notin Bootable
  <2>1. part[blkDev]["fdt"][FdtSlot].img \in Images \cup {None}
    BY <1>2 DEF TypeInv, TypeOK, Components, Content
  <2>2. r \in Loaded
    BY <1>2, <2>1 DEF Loaded
  <2>3. r # None
    BY <2>2, LoadedAssumption
  <2>4. r.whole /\ r.img = part[blkDev]["fdt"][FdtSlot].img
    OBVIOUS
  <2> HIDE DEF r
  <2>5. FdtInHand'
    BY <1>1, <1>2, <1>3, <2>3, <2>4 DEF FdtInHand, ReadPartOK
  <2> QED BY <1>1, <1>2, <1>3, <2>5
<1>4. CASE /\ ~ReadPartOK(blkDev, "fdt", FdtSlot) /\ fdtMem' \in RefusedFdt(blkDev, FdtSlot)
           /\ SlotSwitch(FdtSlot) \/ (UNCHANGED sysflag /\ IoError)
  <2>1. fdtMem' = None \/ ~fdtMem'.whole
    BY <1>4 DEF RefusedFdt
  <2> QED BY <1>1, <1>2, <1>4, <2>1 DEF SlotSwitch
<1>5. CASE IoError /\ SlotSwitch(FdtSlot)
  BY <1>1, <1>2, <1>5 DEF SlotSwitch
<1> QED BY <1>3, <1>4, <1>5 DEF FdtInit

\* The same on a medium that does not fail.
LEMMA FdtLemma ==
  ASSUME MaxIoErrors = 0, TypeInv, StartInv, FdtInit
  PROVE  /\ blkDev \in Devices /\ blkDev = bootMedia /\ FdtSlot \in Slots
         /\ FdtSlot = sysflag[blkDev]
         /\ pc = "fdt" /\ pc' = "args" /\ slot' = FdtSlot
         /\ UNCHANGED <<part, bootMedia, blkDev, shmem>>
         /\ \/ UNCHANGED sysflag /\ Accepted'
            \/ /\ sysflag' = [sysflag EXCEPT ![blkDev] = Other(FdtSlot)] /\ Refused'
               /\ ~ReadPartOK(blkDev, "fdt", FdtSlot)
<1>1. ~IoError
  BY DEF IoError, TypeInv, TypeOK
<1>2. pc = "fdt" /\ blkDev = bootMedia /\ FdtSlot = sysflag[blkDev]
  BY DEF FdtInit, StartInv
<1>3. CASE UNCHANGED sysflag /\ FdtInHand'
  BY <1>2, <1>3, FdtOutcome DEF Accepted
<1>4. CASE /\ ~ReadPartOK(blkDev, "fdt", FdtSlot)
           /\ fdtMem' = None \/ ~fdtMem'.whole
           /\ sysflag' = [sysflag EXCEPT ![blkDev] = Other(FdtSlot)]
  <2>1. /\ slot' = FdtSlot /\ UNCHANGED <<part, blkDev>> /\ blkDev \in Devices
    BY FdtOutcome
  <2>2. sysflag'[blkDev] = Other(FdtSlot)
    BY <1>4, <2>1 DEF TypeInv, TypeOK
  <2>3. Refused'
    BY <1>4, <2>1, <2>2 DEF Refused, ReadPartOK, Other
  <2> QED BY <1>2, <1>4, <2>3, FdtOutcome
<1> QED BY <1>1, <1>3, <1>4, FdtOutcome

LEMMA StartInvStep ==
  ASSUME MaxIoErrors = 0, OneHandoff, TypeInv, StartInv, Next
  PROVE  StartInv'
<1> USE DEF StartInv
<1>0. ~IoError
  BY DEF IoError, TypeInv, TypeOK
<1>1. CASE Booting
  <2>1. CASE PowerOn
    <3>1. CASE SplHandoff = {"publish"}
      BY <2>1, <3>1 DEF PowerOn, storeVars
    <3>2. CASE SplHandoff = {"skip"}
      BY <2>1, <3>2 DEF PowerOn, storeVars
    <3> QED BY <3>1, <3>2 DEF OneHandoff
  <2>2. CASE HwInit
    <3>1. pc = "hw" /\ pc' = "fdt" /\ blkDev' = bootMedia /\ slot' = sysflag[bootMedia]
      BY <1>0, <2>2 DEF HwInit, SlotRead
    <3>2. UNCHANGED <<sysflag, bootMedia, shmem>>
      BY <2>2 DEF HwInit, storeVars
    <3> QED BY <3>1, <3>2 DEF FdtSlot
  <2>3. CASE FdtInit
    BY <2>3, FdtLemma
  <2>4. CASE ArgsInit
    <3>1. /\ pc = "args" /\ pc' = "bootcmd"
          /\ UNCHANGED <<part, sysflag, bootMedia, blkDev, slot, table, shmem, fdtMem>>
      BY <2>4 DEF ArgsInit, storeVars
    <3>2. (Refused \/ Accepted) => (Refused' \/ Accepted')
      BY <3>1 DEF Refused, Accepted, FdtInHand, ReadPartOK, Other
    <3> QED BY <3>1, <3>2
  <2>5. CASE Bootk
    BY <2>5 DEF Bootk
  <2> QED BY <1>1, <2>1, <2>2, <2>3, <2>4, <2>5 DEF Booting
<1>2. CASE Updating
  BY <1>2 DEF Updating, Fetch, BeginWrite, EndWrite, FailWrite, EnableUserBoot, NextComponent, Abort
<1>3. CASE Operator
  BY <1>3 DEF Operator, SetTarget, StartUpdate, Erase, Interrupt, initVars
<1>4. CASE Reset \/ PowerLoss
  BY <1>4 DEF Reset, PowerLoss
<1> QED BY <1>1, <1>2, <1>3, <1>4 DEF Next

\* The steps of Linux and of its operator are not seen by a start.
LEMMA StartInvSystem ==
  ASSUME MaxIoErrors = 0, OneHandoff, LinuxInv, StartInv, [SystemNext]_systemVars
  PROVE  StartInv'
<1>1. CASE BoardStep
  BY <1>1, StartInvStep DEF BoardStep, LinuxInv
<1>2. UNCHANGED <<storeVars, pc, bootMedia, blkDev, slot, table, shmem, fdtMem>> => StartInv'
  <2> SUFFICES ASSUME UNCHANGED <<part, sysflag, pc, bootMedia, blkDev, slot, table, shmem, fdtMem>>
               PROVE  StartInv'
    BY DEF storeVars
  <2>1. FdtSlot' = FdtSlot /\ (Refused \/ Accepted => Refused' \/ Accepted')
    BY DEF FdtSlot, Refused, Accepted, FdtInHand, ReadPartOK, Other
  <2> QED BY <2>1 DEF StartInv
<1>3. CASE LinuxSteps
  BY <1>2, <1>3 DEF LinuxSteps
<1>4. ASSUME NEW s \in Slots, EraseAppfs(s) PROVE StartInv'
  BY <1>2, <1>4 DEF EraseAppfs
<1>5. CASE UNCHANGED systemVars
  BY <1>2, <1>5 DEF systemVars, vars, initVars
<1> QED BY <1>1, <1>3, <1>4, <1>5 DEF SystemNext

\* With its device tree in memory a start comes up if and only if its slot is
\* healthy (do_bootk).
LEMMA BootkLemma ==
  ASSUME TypeInv, pc = "bootcmd", FdtInHand
  PROVE  (KernelOK /\ FdtOK) = Healthy(blkDev, slot)
<1>1. FdtOK = (part[blkDev]["fdt"][slot].img \in Bootable)
  BY DEF FdtOK, FdtInHand
<1>2. FdtOK => (KernelOK = (ReadPartOK(blkDev, "kernel", slot)
                             /\ part[blkDev]["kernel"][slot].img \in Bootable))
  BY DEF FdtOK, KernelOK, KernelSlot, PartKnown, FdtInHand
<1> QED
  BY <1>1, <1>2 DEF Healthy, FdtInHand

-----------------------------------------------------------------------------
(* The flag. *)

\* What a start has tried stands until bootcmd, whatever fails.
LEMMA TriedStep ==
  ASSUME TypeInv, FdtTried, Next
  PROVE  FdtTried'
<1> USE DEF FdtTried
<1>1. CASE Booting
  <2>1. CASE PowerOn
    BY <2>1 DEF PowerOn
  <2>2. CASE HwInit
    BY <2>2 DEF HwInit
  <2>3. CASE FdtInit
    <3>1. /\ pc = "fdt" /\ pc' = "args" /\ slot' = FdtSlot /\ blkDev \in Devices
          /\ UNCHANGED <<part, bootMedia, blkDev>>
      BY <2>3, FdtOutcome
    <3>2. CASE ~ReadPartOK(blkDev, "fdt", FdtSlot)
      BY <3>1, <3>2 DEF ReadPartOK
    <3>3. CASE sysflag' = [sysflag EXCEPT ![blkDev] = Other(FdtSlot)]
      <4>1. sysflag'[blkDev] = Other(FdtSlot)
        BY <3>1, <3>3 DEF TypeInv, TypeOK
      <4> QED BY <3>1, <4>1 DEF Other
    <3>4. CASE FdtInHand'
      BY <3>1, <3>4
    <3> QED BY <2>3, <3>2, <3>3, <3>4, FdtOutcome
  <2>4. CASE ArgsInit
    <3>1. /\ pc = "args" /\ pc' = "bootcmd"
          /\ UNCHANGED <<part, sysflag, bootMedia, blkDev, slot, table, fdtMem>>
      BY <2>4 DEF ArgsInit, storeVars
    <3> QED BY <3>1 DEF FdtInHand, ReadPartOK, Other
  <2>5. CASE Bootk
    BY <2>5 DEF Bootk
  <2> QED BY <1>1, <2>1, <2>2, <2>3, <2>4, <2>5 DEF Booting
<1>2. CASE Updating
  BY <1>2 DEF Updating, Fetch, BeginWrite, EndWrite, FailWrite, EnableUserBoot, NextComponent, Abort
<1>3. CASE Operator
  BY <1>3 DEF Operator, SetTarget, StartUpdate, Erase, Interrupt, initVars
<1>4. CASE Reset \/ PowerLoss
  BY <1>4 DEF Reset, PowerLoss
<1> QED BY <1>1, <1>2, <1>3, <1>4 DEF Next

LEMMA TriedSystem ==
  ASSUME LinuxInv, FdtTried, [SystemNext]_systemVars
  PROVE  FdtTried'
<1>1. CASE BoardStep
  BY <1>1, TriedStep DEF BoardStep, LinuxInv
<1>2. UNCHANGED <<storeVars, pc, bootMedia, blkDev, slot, table, fdtMem>> => FdtTried'
  BY DEF storeVars, FdtTried, FdtInHand, ReadPartOK, Other
<1>3. CASE LinuxSteps
  BY <1>2, <1>3 DEF LinuxSteps
<1>4. ASSUME NEW s \in Slots, EraseAppfs(s) PROVE FdtTried'
  BY <1>2, <1>4 DEF EraseAppfs
<1>5. CASE UNCHANGED systemVars
  BY <1>2, <1>5 DEF systemVars, vars, initVars
<1> QED BY <1>1, <1>3, <1>4, <1>5 DEF SystemNext

\* Off the prompt only fdt_init and bootcmd move a flag, each off a slot that
\* is bad, or for want of the medium.
LEMMA FlagMoves ==
  ASSUME TypeInv, FdtTried, [Next]_vars,
         NEW d \in Devices, sysflag'[d] # sysflag[d], pc # "shell"
  PROVE  ~Healthy(d, sysflag[d]) \/ ioErrors' # ioErrors
<1>0. IoError => ioErrors' # ioErrors
  BY DEF IoError, TypeInv, TypeOK
<1>1. FdtInit \/ (Bootk /\ pc = "bootcmd")
  <2>1. Next
    BY DEF vars, storeVars
  <2>2. CASE Booting
    BY <2>2 DEF Booting, PowerOn, HwInit, ArgsInit, Bootk, storeVars
  <2>3. CASE Updating \/ Operator \/ Reset \/ PowerLoss
    BY <2>3 DEF Updating, Fetch, BeginWrite, EndWrite, FailWrite, EnableUserBoot, Operator,
                SetTarget, StartUpdate, Erase, Interrupt, Reset, PowerLoss, storeVars
  <2> QED BY <2>1, <2>2, <2>3 DEF Next
<1>a. \A s \in Slots : sysflag' = [sysflag EXCEPT ![blkDev] = Other(s)]
                        => d = blkDev /\ s = sysflag[d]
  BY DEF TypeInv, TypeOK, Other, Slots, OBC_SLOT_A, OBC_SLOT_B
<1>2. CASE FdtInit
  <2>1. /\ FdtSlot \in Slots /\ sysflag' = [sysflag EXCEPT ![blkDev] = Other(FdtSlot)]
        /\ ~ReadPartOK(blkDev, "fdt", FdtSlot) \/ IoError
    BY <1>2, FdtOutcome
  <2> QED BY <1>0, <1>a, <2>1 DEF Healthy
<1>3. CASE Bootk /\ pc = "bootcmd"
  <2>1. /\ slot \in Slots /\ sysflag' = [sysflag EXCEPT ![blkDev] = Other(slot)]
        /\ ~(KernelOK /\ FdtOK) \/ IoError
    BY <1>3 DEF Bootk, SlotSwitch, TypeInv, TypeOK
  <2>2. d = blkDev /\ slot = sysflag[d]
    BY <1>a, <2>1
  <2>3. CASE ~(KernelOK /\ FdtOK)
    <3>1. FdtInHand \/ ~ReadPartOK(blkDev, "fdt", slot)
      BY <1>3, <2>1, <2>2, OtherLemma DEF FdtTried
    <3> QED BY <1>3, <2>2, <2>3, <3>1, BootkLemma DEF Healthy
  <2> QED BY <1>0, <2>1, <2>3
<1> QED BY <1>1, <1>2, <1>3

\* No unattended start takes the flag off a slot whose device tree and kernel
\* are sound, unless the medium fails in that very step: on any number of
\* devices, through any number of errors before, however the starts before it
\* were broken off and whatever SPL leaves in the shared memory
\* (obc_slot_switch in am62x_board_fdt_init and do_bootk).
THEOREM HealthySlotKeptAlways == System => HealthySlotKept
<1> DEFINE Kept ==
      \A d \in Devices :
         sysflag'[d] # sysflag[d] /\ pc # "shell" =>
            \/ ~Healthy(d, sysflag[d])
            \/ ioErrors' # ioErrors
<1>1. SystemInit => FdtTried
  BY DEF SystemInit, Init, FdtTried
<1>2. LinuxInv /\ FdtTried /\ [SystemNext]_systemVars => FdtTried'
  BY TriedSystem
<1>3. LinuxInv /\ FdtTried /\ [SystemNext]_systemVars => [Kept]_vars
  <2> SUFFICES ASSUME LinuxInv, FdtTried, [SystemNext]_systemVars, UNCHANGED vars => FALSE,
                      NEW d \in Devices, sysflag'[d] # sysflag[d], pc # "shell"
               PROVE  ~Healthy(d, sysflag[d]) \/ ioErrors' # ioErrors
    OBVIOUS
  <2>1. Next
    BY DEF SystemNext, BoardStep, LinuxSteps, EraseAppfs, systemVars, vars, storeVars
  <2> QED BY <2>1, FlagMoves DEF LinuxInv
<1> QED
  BY <1>1, <1>2, <1>3, LinuxInvInit, LinuxInvStep, PTL DEF System, HealthySlotKept

\* A start tries the slot its flag names; it comes up, or that slot is bad and
\* the flag is on the other one.
StartsConverge ==
  [][/\ pc = "fdt" /\ pc' = "args" => slot' = sysflag[bootMedia]
     /\ pc = "bootcmd" /\ Bootk =>
          \/ pc' = "running"
          \/ ~Healthy(bootMedia, slot) /\ sysflag'[bootMedia] = Other(slot)]_vars

\* On media that do not fail, any number of them: a start whose slot is sound
\* comes up, and one that does not come up leaves the flag on the sound slot
\* when there is one, though fdt_init and bootk may both have switched it.  So
\* of two starts in a row that nobody interrupts the second comes up.
THEOREM StartsConvergeAlways ==
  ASSUME MaxIoErrors = 0, OneHandoff
  PROVE  System => StartsConverge
<1> DEFINE Converge ==
      /\ pc = "fdt" /\ pc' = "args" => slot' = sysflag[bootMedia]
      /\ pc = "bootcmd" /\ Bootk =>
           \/ pc' = "running"
           \/ ~Healthy(bootMedia, slot) /\ sysflag'[bootMedia] = Other(slot)
<1>1. SystemInit => StartInv
  BY DEF SystemInit, Init, StartInv
<1>2. LinuxInv /\ StartInv /\ [SystemNext]_systemVars => StartInv'
  BY StartInvSystem
<1>3. ASSUME LinuxInv, StartInv, [SystemNext]_systemVars, pc = "fdt", pc' = "args"
      PROVE  slot' = sysflag[bootMedia]
  <2>1. Next
    BY <1>3 DEF SystemNext, BoardStep, LinuxSteps, EraseAppfs, systemVars, vars, initVars
  <2>2. FdtInit
    <3>1. CASE Booting
      BY <1>3, <3>1 DEF Booting, PowerOn, HwInit, ArgsInit, Bootk
    <3>2. CASE Updating \/ Operator \/ Reset \/ PowerLoss
      BY <1>3, <3>2 DEF Updating, Fetch, BeginWrite, EndWrite, FailWrite, EnableUserBoot, Operator,
                  SetTarget, StartUpdate, Erase, Interrupt, Reset, PowerLoss, initVars
    <3> QED BY <2>1, <3>1, <3>2 DEF Next
  <2> QED BY <1>3, <2>2, FdtLemma DEF LinuxInv
<1>4. ASSUME LinuxInv, StartInv, pc = "bootcmd", Bootk, pc' # "running"
      PROVE  ~Healthy(bootMedia, slot) /\ sysflag'[bootMedia] = Other(slot)
  <2>1. ~IoError /\ blkDev \in Devices /\ sysflag \in [Devices -> Slots]
    BY <1>4 DEF IoError, LinuxInv, TypeInv, TypeOK, Selected
  <2>2. ~(KernelOK /\ FdtOK) /\ sysflag' = [sysflag EXCEPT ![blkDev] = Other(slot)]
    BY <1>4, <2>1 DEF Bootk, SlotSwitch
  <2>3. blkDev = bootMedia /\ (Refused \/ Accepted)
    BY <1>4 DEF StartInv
  <2>4. ~Healthy(blkDev, slot)
    BY <1>4, <2>2, <2>3, BootkLemma DEF Refused, Accepted, Healthy, LinuxInv
  <2> QED BY <2>1, <2>2, <2>3, <2>4
<1>5. LinuxInv /\ StartInv /\ [SystemNext]_systemVars => [Converge]_vars
  BY <1>3, <1>4
<1> QED
  BY <1>1, <1>2, <1>5, LinuxInvInit, LinuxInvStep, PTL DEF System, StartsConverge

-----------------------------------------------------------------------------
(* The board implements SlotBoot: every step of it is a step of the        *)
(* abstract start or does not change what that one sees.                   *)


\* The one medium a board starts from.
OneMedium == \E m \in Devices : BootMedia = {m}

LEMMA MediumLemma ==
  ASSUME OneMedium
  PROVE  /\ Medium \in Devices
         /\ TypeInv => bootMedia = Medium
<1> PICK m \in Devices : BootMedia = {m}
  BY DEF OneMedium
<1>1. Medium = m
  BY DEF Medium
<1> QED
  BY <1>1 DEF TypeInv, TypeOK

\* The abstract variables follow from these of the board.
LEMMA SeenLemma ==
  ASSUME UNCHANGED <<part, sysflag, SlotInPlay, Mode>>
  PROVE  UNCHANGED Promise!abVars
  BY DEF Promise!abVars, Healthy, ReadPartOK

LEMMA GoodLemma ==
  ASSUME UNCHANGED part
  PROVE  UNCHANGED {s \in Slots : Healthy(Medium, s)}
  BY DEF Healthy, ReadPartOK

\* A start up to bootcmd (PowerOn ... ArgsInit).
LEMMA StartAllowed ==
  ASSUME MaxIoErrors = 0, OneHandoff, OneMedium, TypeInv, StartInv, TypeInv', StartInv',
         PowerOn \/ HwInit \/ FdtInit \/ ArgsInit
  PROVE  [Promise!Next]_(Promise!abVars)
<1>1. Medium \in Devices /\ bootMedia = Medium /\ bootMedia' = Medium
  <2>1. bootMedia \in BootMedia /\ bootMedia' \in BootMedia
    BY DEF TypeInv, TypeOK
  <2> QED BY <2>1, MediumLemma DEF OneMedium, TypeInv, TypeOK
<1>2. UNCHANGED part
  BY DEF PowerOn, HwInit, FdtInit, ArgsInit, storeVars
<1>3. CASE PowerOn
  <2>1. pc = "off" /\ pc' = "hw" /\ UNCHANGED sysflag
    BY <1>3 DEF PowerOn, storeVars
  <2>2. Mode = "off" /\ Mode' = "trying"
    BY <2>1 DEF Mode
  <2>3. SlotInPlay' = sysflag[Medium]
    BY <1>1, <2>1 DEF SlotInPlay, StartInv
  <2>4. Promise!Start
    BY <1>2, <2>1, <2>2, <2>3, GoodLemma DEF Promise!Start
  <2> QED BY <2>4 DEF Promise!Next
<1>4. CASE HwInit
  <2>1. /\ pc = "hw" /\ pc' = "fdt" /\ UNCHANGED <<shmem, sysflag>> /\ slot' = sysflag[bootMedia]
    BY <1>4 DEF HwInit, SlotRead, IoError, storeVars, TypeInv, TypeOK
  <2>2. SlotInPlay' = SlotInPlay
    BY <1>1, <2>1 DEF SlotInPlay
  <2>3. Mode' = Mode
    BY <2>1 DEF Mode
  <2> QED BY <1>2, <2>1, <2>2, <2>3, SeenLemma
<1>5. CASE FdtInit
  <2>1. /\ blkDev = Medium /\ FdtSlot \in Slots
        /\ pc = "fdt" /\ pc' = "args" /\ slot' = FdtSlot
        /\ \/ UNCHANGED sysflag /\ Accepted'
           \/ /\ sysflag' = [sysflag EXCEPT ![blkDev] = Other(FdtSlot)] /\ Refused'
              /\ ~ReadPartOK(blkDev, "fdt", FdtSlot)
    BY <1>1, <1>5, FdtLemma
  <2>2. Mode = "trying" /\ SlotInPlay = FdtSlot /\ SlotInPlay' = FdtSlot
    BY <2>1 DEF Mode, SlotInPlay, FdtSlot
  <2>3. CASE UNCHANGED sysflag /\ Accepted'
    <3>1. Mode' = "trying"
      BY <2>1, <2>3 DEF Mode, Accepted, FdtInHand
    <3> QED BY <1>2, <2>2, <2>3, <3>1, SeenLemma
  <2>4. CASE /\ sysflag' = [sysflag EXCEPT ![blkDev] = Other(FdtSlot)] /\ Refused'
             /\ ~ReadPartOK(blkDev, "fdt", FdtSlot)
    <3>1. Mode' = "prompt"
      BY <2>1, <2>4 DEF Mode, Refused
    <3>2. sysflag'[Medium] = 1 - FdtSlot
      BY <1>1, <2>1, <2>4, OtherLemma DEF TypeInv, TypeOK
    <3>3. ~Healthy(Medium, FdtSlot)
      BY <2>1, <2>4 DEF Healthy
    <3>4. Promise!GiveUp
      BY <1>2, <2>2, <3>1, <3>2, <3>3, GoodLemma DEF Promise!GiveUp, Promise!TheOther
    <3> QED BY <3>4 DEF Promise!Next
  <2> QED BY <2>1, <2>3, <2>4
<1>6. CASE ArgsInit
  <2>1. pc = "args" /\ pc' = "bootcmd" /\ UNCHANGED <<sysflag, slot, shmem, fdtMem>>
    BY <1>6 DEF ArgsInit, storeVars
  <2>2. UNCHANGED <<Mode, SlotInPlay>>
    BY <2>1 DEF Mode, SlotInPlay
  <2> QED BY <1>2, <2>1, <2>2, SeenLemma
<1> QED BY <1>3, <1>4, <1>5, <1>6

\* bootk, run by bootcmd or typed (Bootk).
LEMMA BootkAllowed ==
  ASSUME MaxIoErrors = 0, OneMedium, TypeInv, StartInv, TypeInv', Bootk
  PROVE  [Promise!Next]_(Promise!abVars)
<1>1. Medium \in Devices /\ bootMedia = Medium /\ blkDev \in Devices /\ slot \in Slots
  BY MediumLemma DEF Bootk, TypeInv, TypeOK, Selected
<1>2. /\ pc \in {"bootcmd", "shell"} /\ pc' \in {"running", "shell"} /\ UNCHANGED <<part, slot>>
      /\ SlotInPlay = slot /\ SlotInPlay' = slot
  BY DEF Bootk, SlotInPlay
<1>3. pc' = "running" => /\ UNCHANGED sysflag /\ KernelOK /\ BootiMayAccept /\ Mode' = "up"
  BY DEF Bootk, Mode
<1>4. pc' = "shell" => /\ ~(KernelOK /\ FdtOK) /\ sysflag' = [sysflag EXCEPT ![blkDev] = Other(slot)]
                       /\ Mode' = "prompt"
  BY DEF Bootk, Mode, SlotSwitch, IoError, TypeInv, TypeOK
<1>5. pc' = "shell" => sysflag'[Medium] = IF Medium = blkDev THEN 1 - slot ELSE sysflag[Medium]
  BY <1>1, <1>4, OtherLemma DEF TypeInv, TypeOK
<1>6. CASE Mode = "trying"
  <2>1. pc = "bootcmd" /\ fdtMem # None /\ fdtMem.whole
    BY <1>2, <1>6 DEF Mode
  <2>2. blkDev = Medium /\ Accepted
    BY <1>1, <2>1 DEF StartInv, Refused
  <2>3. (KernelOK /\ FdtOK) = Healthy(Medium, slot)
    BY <2>1, <2>2, BootkLemma DEF Accepted
  <2>4. BootiMayAccept => FdtOK
    BY <2>1 DEF BootiMayAccept
  <2>5. CASE pc' = "running"
    <3>1. Promise!Succeed
      BY <1>1, <1>2, <1>3, <1>6, <2>3, <2>4, <2>5, GoodLemma DEF Promise!Succeed
    <3> QED BY <3>1 DEF Promise!Next
  <2>6. CASE pc' = "shell"
    <3>1. Promise!GiveUp
      BY <1>2, <1>4, <1>5, <1>6, <2>2, <2>3, <2>6, GoodLemma DEF Promise!GiveUp, Promise!TheOther
    <3> QED BY <3>1 DEF Promise!Next
  <2> QED BY <1>2, <2>5, <2>6
<1>7. CASE Mode = "prompt"
  <2>1. CASE pc' = "running"
    <3>1. Promise!ByHand
      BY <1>2, <1>3, <1>7, <2>1, GoodLemma DEF Promise!ByHand
    <3> QED BY <3>1 DEF Promise!Next
  <2>2. CASE pc' = "shell" /\ Medium = blkDev
    <3>1. Promise!ByHand
      BY <1>2, <1>4, <1>5, <1>7, <2>2, GoodLemma DEF Promise!ByHand, Promise!TheOther
    <3> QED BY <3>1 DEF Promise!Next
  <2>3. CASE pc' = "shell" /\ Medium # blkDev
    <3>1. sysflag'[Medium] = sysflag[Medium] /\ Mode' = Mode
      BY <1>4, <1>5, <1>7, <2>3
    <3> QED BY <1>2, <3>1, GoodLemma DEF Promise!abVars
  <2> QED BY <1>2, <2>1, <2>2, <2>3
<1>8. Mode \in {"trying", "prompt"}
  BY <1>2 DEF Mode
<1> QED BY <1>6, <1>7, <1>8

\* The update commands, the operator, resets and power losses.
LEMMA OutsideAllowed ==
  ASSUME TypeInv, TypeInv', Updating \/ Operator \/ Reset \/ PowerLoss
  PROVE  [Promise!Next]_(Promise!abVars)
<1>1. UNCHANGED sysflag
  BY DEF Updating, Fetch, BeginWrite, EndWrite, FailWrite, EnableUserBoot, Operator, SetTarget,
         StartUpdate, Erase, Interrupt, Reset, PowerLoss, storeVars
<1>2. slot \in Slots /\ slot' \in Slots
  BY DEF TypeInv, TypeOK
<1>3. CASE Updating \/ (Operator /\ ~Interrupt)
  <2>1. /\ pc \in {"shell", "fetch", "select", "write", "userboot"}
        /\ pc' \in {"shell", "fetch", "select", "write", "userboot"} /\ UNCHANGED slot
    BY <1>3 DEF Updating, Fetch, BeginWrite, EndWrite, FailWrite, EnableUserBoot, NextComponent,
                Abort, Operator, SetTarget, StartUpdate, Erase, initVars
  <2>2. Mode = "prompt" /\ Mode' = "prompt" /\ SlotInPlay' = SlotInPlay
    BY <2>1 DEF Mode, SlotInPlay
  <2>3. {s \in Slots : Healthy(Medium, s)}' \subseteq {0, 1}
    BY DEF Slots, OBC_SLOT_A, OBC_SLOT_B
  <2>4. Promise!Service
    BY <1>1, <2>2, <2>3 DEF Promise!Service, Promise!Slot
  <2> QED BY <2>4 DEF Promise!Next
<1>4. CASE Interrupt
  <2>1. pc = "bootcmd" /\ pc' = "shell" /\ UNCHANGED <<part, slot>>
    BY <1>4 DEF Interrupt, storeVars
  <2>2. Mode \in {"trying", "prompt"} /\ Mode' = "prompt" /\ SlotInPlay' = SlotInPlay
    BY <2>1 DEF Mode, SlotInPlay
  <2>3. CASE Mode = "trying"
    <3>1. Promise!Stopped
      BY <1>1, <2>1, <2>2, <2>3, GoodLemma DEF Promise!Stopped
    <3> QED BY <3>1 DEF Promise!Next
  <2>4. CASE Mode = "prompt"
    BY <1>1, <2>1, <2>2, <2>4, SeenLemma
  <2> QED BY <2>2, <2>3, <2>4
<1>5. CASE Reset \/ PowerLoss
  <2>1. pc # "off" /\ pc' = "off" /\ UNCHANGED part
    BY <1>5 DEF Reset, PowerLoss, storeVars
  <2>2. Mode # "off" /\ Mode' = "off" /\ SlotInPlay' \in {0, 1}
    BY <1>2, <2>1 DEF Mode, SlotInPlay, Slots, OBC_SLOT_A, OBC_SLOT_B, TypeInv, TypeOK, PCs
  <2>3. Promise!Stop
    BY <1>1, <2>1, <2>2, GoodLemma DEF Promise!Stop, Promise!Slot
  <2> QED BY <2>3 DEF Promise!Next
<1> QED BY <1>3, <1>4, <1>5 DEF Operator

LEMMA BoardAllowed ==
  ASSUME MaxIoErrors = 0, OneHandoff, OneMedium, LinuxInv, StartInv, LinuxInv', StartInv',
         [SystemNext]_systemVars
  PROVE  [Promise!Next]_(Promise!abVars)
<1>1. CASE BoardStep
  BY <1>1, StartAllowed, BootkAllowed, OutsideAllowed DEF BoardStep, Next, Booting, LinuxInv
<1>2. UNCHANGED <<storeVars, pc, slot, shmem, fdtMem>> => UNCHANGED Promise!abVars
  <2> SUFFICES ASSUME UNCHANGED <<part, sysflag, pc, slot, shmem, fdtMem>>
               PROVE  UNCHANGED Promise!abVars
    BY DEF storeVars
  <2>1. UNCHANGED <<Mode, SlotInPlay>>
    BY DEF Mode, SlotInPlay
  <2> QED BY <2>1, SeenLemma
<1>3. CASE LinuxSteps
  BY <1>2, <1>3 DEF LinuxSteps
<1>4. ASSUME NEW s \in Slots, EraseAppfs(s) PROVE UNCHANGED Promise!abVars
  BY <1>2, <1>4 DEF EraseAppfs
<1>5. CASE UNCHANGED systemVars
  BY <1>2, <1>5 DEF systemVars, vars, initVars
<1> QED BY <1>1, <1>3, <1>4, <1>5 DEF SystemNext

LEMMA BoardInitAllowed == OneMedium /\ SystemInit => Promise!Init
<1> SUFFICES ASSUME OneMedium, SystemInit PROVE Promise!Init
  OBVIOUS
<1>1. Medium \in Devices
  BY MediumLemma
<1>2. pc = "off" /\ slot = 0 /\ sysflag[Medium] \in Slots
  BY <1>1 DEF SystemInit, Init, OBC_SLOT_A
<1>3. Mode = "off" /\ SlotInPlay = 0
  BY <1>2 DEF Mode, SlotInPlay
<1>4. \A s \in Slots : Healthy(Medium, s)
  <2> SUFFICES ASSUME NEW s \in Slots, NEW c \in {"fdt", "kernel"}
               PROVE  ReadPartOK(Medium, c, s) /\ part[Medium][c][s].img \in Bootable
    BY DEF Healthy
  <2> DEFINE r == [fmt |-> IF StoredBare(c) THEN "bare" ELSE "packed", img |-> Factory,
                   whole |-> TRUE]
  <2>1. part[Medium][c][s] = r
    BY <1>1 DEF SystemInit, Init, Components
  <2>2. ~StoredBare(c)
    BY DEF StoredBare
  <2> QED BY <2>1, <2>2, BoardAssumption DEF ReadPartOK
<1> QED
  BY <1>2, <1>3, <1>4 DEF Promise!Init, Promise!Slot, Slots, OBC_SLOT_A, OBC_SLOT_B

\* On a board that starts from one medium, that does not fail, every step of
\* U-Boot, Linux, the operator and the power is one the abstract start allows:
\* one slot per start, tried as a unit, given up only when it is bad, and then
\* for the other one.  The liveness half of ImplementsSlotBoot is left to TLC.
THEOREM BoardRefinesSlotBoot ==
  ASSUME MaxIoErrors = 0, OneHandoff, OneMedium
  PROVE  System => Promise!Init /\ [][Promise!Next]_(Promise!abVars)
<1>1. SystemInit => StartInv
  BY DEF SystemInit, Init, StartInv
<1>2. LinuxInv /\ StartInv /\ [SystemNext]_systemVars => StartInv'
  BY StartInvSystem
<1>3. /\ LinuxInv /\ StartInv /\ LinuxInv' /\ StartInv' /\ [SystemNext]_systemVars
      => [Promise!Next]_(Promise!abVars)
  BY BoardAllowed
<1>4. SystemInit => Promise!Init
  BY BoardInitAllowed
<1> QED
  BY <1>1, <1>2, <1>3, <1>4, LinuxInvInit, LinuxInvStep, PTL DEF System
=============================================================================
