----------------------------- MODULE BoardInit ------------------------------
(***************************************************************************)
(* One start of the board up to the prompt: ROM and SPL (external), then   *)
(* obc_board_init of board_config.c with the am62x handlers, then the      *)
(* command `bootk' that bootcmd runs.  U-Boot is single threaded, so each  *)
(* handler is one action; power may fail between any two of them.          *)
(***************************************************************************)
EXTENDS ObcStore

CONSTANTS
  BootMedia,   \* the devices the boot ROM may start from
  SplHandoff,  \* what SPL does with the shared memory: "publish", "skip"
  MaxIoErrors, \* bound: failing medium operations in a behaviour
  MaxLosses    \* bound: power losses in a behaviour

ASSUME InitAssumption ==
  /\ BootMedia \subseteq Devices
  /\ SplHandoff \subseteq {"publish", "skip"}
  /\ MaxIoErrors \in Nat /\ MaxLosses \in Nat

VARIABLES
  pc,          \* where U-Boot stands
  bootMedia,   \* stBoot.iBootMedia: the device the ROM booted from
  blkDev,      \* gstBlkDev: the device every read and write goes to
  slot,        \* stBoot.iPartType
  table,       \* the MMC partition table: "none", "fdts" (default), "full"
  shmem,       \* the slot SPL left in the shared memory, or None
  fdtMem,      \* what the memory at uiFdtAddr holds, or None: no device tree
  bootargs,    \* obcboot.media and obcboot.part as published, or None
  kern,        \* the kernel that was started, or None
  ioErrors,    \* failing medium operations so far
  losses       \* power losses so far

initVars == <<pc, bootMedia, blkDev, slot, table, shmem, fdtMem, bootargs, kern, ioErrors, losses>>

PCs == {"off", "hw", "fdt", "args", "bootcmd", "abort", "shell", "running",
        "fetch", "select", "write", "userboot"}

Loaded == [dev : Devices, slot : Slots, img : Images \cup {None}, whole : BOOLEAN]
Args == [media : Devices, slot : Slots]

ASSUME LoadedAssumption == None \notin Loaded

\* A medium operation that fails, and a step without one.
IoError == ioErrors < MaxIoErrors /\ ioErrors' = ioErrors + 1
IoFine == UNCHANGED ioErrors

\* obc_slot_switch on the current block device; every caller ignores its
\* result, so a failing read or write of the sysflag block changes nothing.
SlotSwitchToggles(s) ==           \* mutant: the other one of the flag itself
  sysflag' = [sysflag EXCEPT ![blkDev] = Other(@)]
SlotSwitch(s) == sysflag' = [sysflag EXCEPT ![blkDev] = Other(s)]

\* obc_slot_read: the slot on the boot medium.
SlotRead == sysflag[bootMedia]

\* obc_blk_find_part_by_name for a component.
PartKnown(c) == table = "full" \/ (table = "fdts" /\ c = "fdt")

\* ROM and SPL.  SPL may leave its partition table and the slot it read from
\* sysflag in the shared memory; if it does not, what a warm reset preserved
\* there stays.  U-Boot then starts with fresh data and obc_board_init clears
\* the ability table.
PowerOn ==
  /\ pc = "off"
  /\ bootMedia' \in BootMedia
  /\ \/ "publish" \in SplHandoff /\ shmem' = sysflag[bootMedia']
     \/ "skip" \in SplHandoff /\ UNCHANGED shmem
  /\ pc' = "hw"
  /\ blkDev' = None
  /\ slot' = OBC_SLOT_A
  /\ table' = "none"
  /\ bootargs' = None
  /\ UNCHANGED <<storeVars, fdtMem, kern, ioErrors, losses>>

\* am62x_board_hw_init.  Without the boot device gstBlkDev stays NULL and the
\* next read through it is undefined: the board is left in "abort".  Without
\* a readable sysflag block the slot is A.
HwInit ==
  /\ pc = "hw"
  /\ \/ /\ pc' = "fdt"
        /\ blkDev' = bootMedia
        /\ \/ slot' = SlotRead /\ IoFine
           \/ slot' = OBC_SLOT_A /\ IoError
     \/ /\ pc' = "abort"
        /\ IoError
        /\ UNCHANGED <<blkDev, slot>>
  /\ UNCHANGED <<storeVars, bootMedia, table, shmem, fdtMem, bootargs, kern, losses>>

\* What a refused FDT copy leaves at uiFdtAddr: its first block has replaced
\* what was there, and only a copy without an OBC header starts like a device
\* tree (followed by whatever the memory held).
RefusedFdt(d, s) ==
  {None} \cup IF part[d]["fdt"][s].fmt = "bare"
              THEN {[dev |-> d, slot |-> s, img |-> part[d]["fdt"][s].img, whole |-> FALSE]}
              ELSE {}

\* The slot whose FDT is loaded: SPL's, or the one of hw_init.
FdtSlot == IF shmem # None THEN shmem ELSE slot

\* am62x_board_fdt_init: SPL's slot and table win over hw_init's; only the
\* FDT of that slot is tried (obc_fdt_load_to_mem), and a failure switches the
\* slot for the next boot.  obc_board_init goes on in either case.
FdtInit ==
  LET spl == shmem # None
      s   == FdtSlot
      got == part[blkDev]["fdt"][s]
  IN /\ pc = "fdt"
     /\ pc' = "args"
     /\ slot' = s
     /\ \/ /\ ReadPartOK(blkDev, "fdt", s)
           /\ fdtMem' = [dev |-> blkDev, slot |-> s, img |-> got.img, whole |-> TRUE]
           /\ table' = IF spl \/ got.img \in Bootable THEN "full" ELSE "none"
           /\ IoFine
           /\ UNCHANGED sysflag
        \/ /\ ~ReadPartOK(blkDev, "fdt", s)
           /\ fdtMem' \in RefusedFdt(blkDev, s)
           /\ table' = IF spl THEN "full" ELSE "fdts"
           /\ \/ SlotSwitch(s) /\ IoFine
              \/ UNCHANGED sysflag /\ IoError
        \* the medium fails to deliver the first block, or a later one
        \/ /\ IoError
           /\ fdtMem' \in {fdtMem, None}
           /\ table' = IF spl THEN "full" ELSE "fdts"
           /\ SlotSwitch(s)
     /\ UNCHANGED <<part, bootMedia, blkDev, shmem, bootargs, kern, losses>>

\* am62x_board_args_init and obc_bootargs_set: publish medium and slot.
ArgsInit ==
  /\ pc = "args"
  /\ pc' = "bootcmd"
  /\ bootargs' = [media |-> bootMedia, slot |-> slot]
  /\ UNCHANGED <<storeVars, bootMedia, blkDev, slot, table, shmem, fdtMem, kern, ioErrors, losses>>

\* The slot do_bootk takes the kernel from: "the same slot as TEE and U-Boot,
\* no falling back across slots".
KernelSlotFallsBack ==            \* mutant: tries the other slot as well
  IF ReadPartOK(blkDev, "kernel", slot) THEN slot ELSE Other(slot)
KernelSlot == slot

\* do_bootk reaches a kernel it can start: kernel<slot> is found, read and
\* verified on the current block device, and unpacks.
KernelOK ==
  /\ PartKnown("kernel")
  /\ ReadPartOK(blkDev, "kernel", KernelSlot)
  /\ part[blkDev]["kernel"][KernelSlot].img \in Bootable

FdtOK == fdtMem # None /\ fdtMem.whole /\ fdtMem.img \in Bootable

\* What booti sees as a device tree: a mangled one may be taken or refused.
BootiMayAccept == FdtOK \/ (fdtMem # None /\ ~fdtMem.whole)

\* do_bootk, run by bootcmd or typed at the prompt.  Any failure switches the
\* slot and returns to the prompt; booti does not return when it succeeds.
Bootk ==
  /\ pc \in {"bootcmd", "shell"}
  /\ \/ /\ KernelOK /\ BootiMayAccept
        /\ pc' = "running"
        /\ kern' = [dev |-> blkDev, slot |-> KernelSlot,
                    img |-> part[blkDev]["kernel"][KernelSlot].img, whole |-> TRUE]
        /\ UNCHANGED <<sysflag, ioErrors>>
     \/ /\ ~(KernelOK /\ FdtOK)
        /\ pc' = "shell"
        /\ \/ SlotSwitch(slot) /\ IoFine
           \/ UNCHANGED sysflag /\ IoError
        /\ UNCHANGED kern
     \/ /\ pc' = "shell"
        /\ SlotSwitch(slot)
        /\ IoError
        /\ UNCHANGED kern
  /\ UNCHANGED <<part, bootMedia, blkDev, slot, table, shmem, fdtMem, bootargs,
                 losses>>
=============================================================================
