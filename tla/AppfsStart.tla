----------------------------- MODULE AppfsStart -----------------------------
(***************************************************************************)
(* Linux from the entry of the kernel to the mounted application           *)
(* partition: the root file system the command line names, S01_basedev     *)
(* with the mdev script, S09_obc_base with obcbase.c, and S10_obc_startup  *)
(* (rootfs/base_rootfs/etc).  The scripts run one after the other; power   *)
(* may fail between any two steps, and while the partition is formatted.   *)
(*                                                                         *)
(* A root file system that is torn may still mount, and may then lack any  *)
(* script, module or tool.  BusyBox gives 255 for every mount that fails,  *)
(* which is in the list of codes S10 goes on with.                         *)
(***************************************************************************)
EXTENDS ObcBoard

CONSTANT AppfsAtFirst   \* what the application partitions may hold at first

\* What an application partition holds: no file system blkid knows, a sound
\* one, one that does not mount, one of a type that is not ext, and what an
\* mkfs that was broken off leaves (the superblock is there, the rest is not).
AppfsKinds == {"blank", "ext4", "ailing", "other", "partial"}

ASSUME AppfsAssumption ==
  /\ AppfsAtFirst \subseteq [Slots -> AppfsKinds]
  /\ None \notin [dev : Devices, slot : Slots]

VARIABLES
  stage,      \* where the start of Linux stands
  links,      \* the device whose partitions /dev/obcblock names, or None
  procSlot,   \* /proc/obcbase/sysinfo_part, or None
  appfs,      \* appfs[d][s]: what application partition s of device d holds
  mounted     \* what is mounted at /appfs, or None

linuxVars == <<stage, links, procSlot, appfs, mounted>>

Stages == {"none", "kernel", "basedev", "obcbase", "mount", "probe", "format", "remount",
           "user", "panic"}

LinuxInit ==
  /\ stage = "none" /\ links = None /\ procSlot = None /\ mounted = None
  /\ appfs \in [Devices -> AppfsAtFirst]

\* The root file system of the command line: root=...rootfs<slot> on the
\* boot medium (CONFIG_AM62X_BOOTARGS_*).
RootOfSlotA == part[bootargs.media]["rootfs"][OBC_SLOT_A]   \* mutant: one line for both
Root == part[bootargs.media]["rootfs"][bootargs.slot]
RootOK == Root.whole /\ Root.img \in Bootable

\* The kernel mounts the root file system or panics; there is no other try.
MountRoot ==
  /\ stage = "kernel"
  /\ \/ /\ RootOK \/ (~Root.whole /\ Root.fmt # "blank")
        /\ stage' = "basedev" /\ IoFine
     \/ /\ ~RootOK /\ stage' = "panic" /\ IoFine
     \/ stage' = "panic" /\ IoError
  /\ UNCHANGED <<links, procSlot, appfs, mounted>>

\* S01_basedev: mdev names the partitions blkdevparts gave the boot medium.
BaseDev ==
  /\ stage = "basedev"
  /\ stage' = "obcbase"
  /\ links' = bootargs.media \/ (links' = None /\ ~RootOK)
  /\ UNCHANGED <<procSlot, appfs, mounted, ioErrors>>

\* S09_obc_base: obcbase_init parses obcboot.part out of /proc/cmdline.
PublishedSlotOfFlag == sysflag[bootargs.media]   \* mutant: the next start's slot
PublishedSlot == bootargs.slot

ObcBase ==
  /\ stage = "obcbase"
  /\ stage' = "mount"
  /\ procSlot' = PublishedSlot \/ (procSlot' = None /\ ~RootOK)
  /\ UNCHANGED <<links, appfs, mounted, ioErrors>>

-----------------------------------------------------------------------------
(* S10_obc_startup                                                         *)

AppfsDevice == [dev |-> links, slot |-> procSlot]
Appfs == appfs[links][procSlot]
SetAppfs(kind) == appfs' = [appfs EXCEPT ![links][procSlot] = kind]

\* The first mount: without a published slot or a link the script gives up.
MountAppfs ==
  /\ stage = "mount"
  /\ \/ /\ procSlot = None \/ links = None
        /\ stage' = "user" /\ IoFine /\ UNCHANGED mounted
     \/ /\ procSlot # None /\ links # None
        /\ \/ /\ Appfs = "ext4" /\ IoFine
              /\ mounted' = AppfsDevice /\ stage' = "user"
           \/ /\ \/ Appfs # "ext4" /\ IoFine
                 \/ IoError
              /\ stage' = "probe" /\ UNCHANGED mounted
  /\ UNCHANGED <<links, procSlot, appfs>>

\* What blkid prints something about.
RecognisedExt == {"ext4", "ailing", "partial"}        \* mutant: ext only
Recognised == {"ext4", "ailing", "partial", "other"}

\* format_appfs_if_empty up to the formatter: no output of blkid, be it for
\* want of a file system or of a device that can be read, means empty.
ProbeFormats(empty) ==
  \/ empty /\ stage' = "format" /\ SetAppfs("partial")
  \/ (~empty \/ ~RootOK) /\ stage' = "user" /\ UNCHANGED appfs
ProbeAppfs ==
  /\ stage = "probe"
  /\ \/ ProbeFormats(Appfs \notin Recognised) /\ IoFine
     \/ ProbeFormats(TRUE) /\ IoError
  /\ UNCHANGED <<links, procSlot, mounted>>

\* The formatter ends.
AfterFormatGivesUp == "user"      \* mutant: mounted at the next start only
AfterFormat == "remount"

FormatAppfs ==
  /\ stage = "format"
  /\ \/ SetAppfs("ext4") /\ stage' = AfterFormat /\ IoFine
     \/ UNCHANGED appfs /\ stage' = "user" /\ IoError
  /\ UNCHANGED <<links, procSlot, mounted>>

\* The second mount.
MountAgain ==
  /\ stage = "remount"
  /\ stage' = "user"
  /\ \/ mounted' = AppfsDevice /\ IoFine
     \/ UNCHANGED mounted /\ IoError
  /\ UNCHANGED <<links, procSlot, appfs>>

LinuxSteps ==
  /\ MountRoot \/ BaseDev \/ ObcBase \/ MountAppfs \/ ProbeAppfs \/ FormatAppfs \/ MountAgain
  /\ UNCHANGED <<storeVars, pc, bootMedia, blkDev, slot, table, shmem, fdtMem, bootargs, kern,
                 losses, updateVars>>
-----------------------------------------------------------------------------
(* Linux on the board.                                                     *)

\* What a reset or a power loss leaves of Linux.
LinuxHalts ==
  /\ stage' = "none" /\ links' = None /\ procSlot' = None /\ mounted' = None
  /\ UNCHANGED appfs

\* A step of U-Boot, of its operator, or of the power; Linux begins when booti
\* does not come back.  Who resets a running board does so from its shell, which
\* init starts after the scripts, or because it has panicked.
BoardStep ==
  /\ Next
  /\ pc = "running" /\ stage \notin {"user", "panic"} => PowerLoss
  /\ \/ pc = "running" /\ LinuxHalts
     \/ /\ pc # "running"
        /\ stage' = IF pc' = "running" THEN "kernel" ELSE "none"
        /\ UNCHANGED <<links, procSlot, appfs, mounted>>

\* `obcflash mmc erase appfs<s>'.
EraseAppfs(s) ==
  /\ pc = "shell" /\ ops < MaxOps /\ table = "full"
  /\ ops' = ops + 1
  /\ \/ appfs' = [appfs EXCEPT ![blkDev][s] = "blank"] /\ (IoFine \/ IoError)
     \/ UNCHANGED appfs /\ IoError
  /\ UNCHANGED <<storeVars, pc, bootMedia, blkDev, slot, table, shmem, fdtMem, bootargs, kern,
                 losses, upDev, todo, copy, file, userBoot, hurt, stage, links, procSlot,
                 mounted>>

SystemNext == BoardStep \/ LinuxSteps \/ \E s \in Slots : EraseAppfs(s)

SystemInit == Init /\ LinuxInit

systemVars == <<vars, linuxVars>>

System == SystemInit /\ [][SystemNext]_systemVars

\* The fairness of the board; Linux gets on with its start, and a board that
\* has panicked is power-cycled sooner or later as one at the prompt is.
FairSystem ==
  /\ System
  /\ WF_systemVars(BoardStep /\ BootSteps)
  /\ WF_systemVars(BoardStep /\ Updating)
  /\ WF_systemVars(BoardStep /\ Reset /\ (pc \in {"shell", "abort"} \/ stage = "panic"))
  /\ WF_systemVars(LinuxSteps)
-----------------------------------------------------------------------------
(* Types of the Linux side; it is past the kernel only on a running board.  *)
LinuxTypeOK ==
  /\ stage \in Stages /\ (stage # "none" <=> pc = "running")
  /\ links \in Devices \cup {None}
  /\ procSlot \in Slots \cup {None}
  /\ appfs \in [Devices -> [Slots -> AppfsKinds]]
  /\ mounted \in [dev : Devices, slot : Slots] \cup {None}

\* Everything a start brings up is of one slot: the kernel, its device tree,
\* the root file system, and the application partition at /appfs, whose slot
\* went from sysflag through SPL, U-Boot's bootargs, obcbase.ko and a script.
OneSlotUp ==
  pc = "running" =>
    /\ fdtMem.dev = kern.dev /\ fdtMem.slot = kern.slot
    /\ bootargs = [media |-> kern.dev, slot |-> kern.slot]
    /\ mounted # None => mounted = [dev |-> kern.dev, slot |-> kern.slot]

\* Linux only ever formats the application partition of the slot it runs
\* from, and only one without a file system: "never when an existing
\* filesystem merely failed to mount" (S10_obc_startup).
FilesystemKept ==
  [][\A d \in Devices, s \in Slots :
        stage # "none" /\ appfs'[d][s] # appfs[d][s] =>
           /\ appfs[d][s] \in {"blank", "partial"}
           /\ d = bootargs.media /\ s = bootargs.slot]_systemVars

\* A start that meets no error leaves the applications mounted, be it on a
\* partition it had to format first, or else on one that only an operator
\* can repair.
AppfsIsReady ==
  stage = "user" /\ RootOK /\ ioErrors = 0 =>
    \/ mounted # None
    \/ appfs[bootargs.media][bootargs.slot] \in {"ailing", "other", "partial"}

\* A board that can start from no other slots than such as have a sound root
\* file system reaches its scripts' end; a damaged root file system does not
\* make U-Boot switch the slot, and is excluded.
Startable(d) ==
  /\ \E s \in Slots : Healthy(d, s)
  /\ \A s \in Slots : Healthy(d, s) =>
       part[d]["rootfs"][s].whole /\ part[d]["rootfs"][s].img \in Bootable
EventuallyUp ==
  \A d \in BootMedia : Startable(d) ~> (stage = "user" \/ ~Startable(d))
=============================================================================
