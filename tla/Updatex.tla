------------------------------- MODULE Updatex -------------------------------
(***************************************************************************)
(* The update commands typed at the U-Boot prompt: `updatex -d', `updatex  *)
(* up <component|all>' with its shortcuts (upfdt, upk, ...), and `obcflash *)
(* mmc erase' (cmd_updatex.c, cmd_obcflash.c, the writers of obc_blk.c).   *)
(* A component is written to copy 0 and then to copy 1, each write through *)
(* the global gstBlkDev, which the command points at its target device and *)
(* leaves there.  The write of a copy is two actions, so that power can    *)
(* fail in between.                                                        *)
(***************************************************************************)
EXTENDS BoardInit

\* The order of `updatex up all', which leaves "uboot" out.
AllOrder == <<"loader", "fdt", "teeos", "kernel", "rootfs">>

CONSTANTS
  Targets,   \* the devices an operator names with -d
  Commands,  \* the component lists an operator has written, <<c>> or `all'
  Erasable,  \* the components an operator erases a copy of
  Files,     \* the files a TFTP server or TF card may deliver
  MaxOps     \* bound: commands that write, per behaviour

ASSUME UpdateAssumption ==
  /\ Targets \subseteq Devices
  /\ Commands \subseteq {<<c>> : c \in Components} \cup {AllOrder}
  /\ Erasable \subseteq Components
  /\ Files \subseteq FileType
  /\ MaxOps \in Nat

VARIABLES
  upDev,     \* g_iUp_Dev_type
  todo,      \* components the running command has still to write
  copy,      \* the copy (slot) being written
  file,      \* the file in memory at UPDATEX_LOADE_ADDR, or None
  userBoot,  \* EXT_CSD[179] of the eMMC: boot from the user area
  hurt,      \* history: updates of a component broken off after they began,
             \* and erasures, since its two copies were last written alike
  ops        \* commands so far

updateVars == <<upDev, todo, copy, file, userBoot, hurt, ops>>

\* hurt counts up to two, which is all the properties tell apart.
Hurt(d, c) == hurt' = [hurt EXCEPT ![d][c] = IF @ < 2 THEN @ + 1 ELSE @]
Healed(d, c) == hurt' = [hurt EXCEPT ![d][c] = 0]

\* The running command ends, here or at the prompt.
NoJob == todo' = <<>> /\ copy' = OBC_SLOT_A /\ file' = None
Abort == NoJob /\ pc' = "shell"

\* `updatex -d <dev>'.
SetTarget(d) ==
  /\ pc = "shell"
  /\ upDev' = d
  /\ UNCHANGED <<storeVars, initVars, todo, copy, file, userBoot, hurt, ops>>

\* `updatex up <list>' and the shortcut commands.
StartUpdate(list) ==
  /\ pc = "shell" /\ ops < MaxOps
  /\ ops' = ops + 1
  /\ todo' = list
  /\ pc' = "fetch"
  /\ UNCHANGED <<storeVars, bootMedia, blkDev, slot, table, shmem, fdtMem, bootargs, kern,
                 ioErrors, losses, upDev, copy, file, userBoot, hurt>>

\* do_updatex_up_getfile: the file arrives, or the command ends.
Fetch ==
  /\ pc = "fetch"
  /\ \/ /\ file' \in Files
        /\ pc' = "select"
        /\ copy' = OBC_SLOT_A
        /\ UNCHANGED todo
     \/ Abort
  /\ UNCHANGED <<storeVars, bootMedia, blkDev, slot, table, shmem, fdtMem, bootargs, kern,
                 ioErrors, losses, upDev, userBoot, hurt, ops>>

\* The device do_updatex_mmc_write selects.
TargetDevOnce ==                  \* mutant: keeps a device selected before
  IF blkDev = None THEN upDev ELSE blkDev
TargetDev == upDev

\* do_updatex_mmc_write up to the write: select the device, find the
\* partition, check the image.  A failure on copy 1 leaves a component with
\* two different copies.
BeginWrite ==
  LET c == Head(todo) IN
  /\ pc = "select"
  /\ \/ /\ IoFine
        /\ blkDev' = TargetDev
        /\ \/ /\ PartKnown(c) /\ PrepareOK(c, file)
              /\ SetCopy(TargetDev, c, copy, Torn(Stored(file)))
              /\ pc' = "write"
              /\ UNCHANGED <<todo, copy, file, hurt>>
           \/ /\ ~(PartKnown(c) /\ PrepareOK(c, file))
              /\ Abort
              /\ UNCHANGED <<part, hurt>>
     \/ /\ IoError                \* the device does not initialise
        /\ Abort
        /\ IF copy = OBC_SLOT_B THEN Hurt(upDev, c) ELSE UNCHANGED hurt
        /\ UNCHANGED <<part, blkDev>>
  /\ UNCHANGED <<sysflag, bootMedia, slot, table, shmem, fdtMem, bootargs, kern, losses,
                 upDev, userBoot, ops>>

\* The component at the head of todo is written: the next one, or the prompt.
NextComponent ==
  IF Len(todo) > 1
  THEN todo' = Tail(todo) /\ copy' = OBC_SLOT_A /\ file' = None /\ pc' = "fetch"
  ELSE Abort

\* blk_dwrite delivers its last block.  After copy 1 the component is done; a
\* loader on the eMMC still needs its boot configuration.
EndWrite ==
  LET c == Head(todo) IN
  /\ pc = "write"
  /\ SetCopy(blkDev, c, copy, Stored(file))
  /\ IF copy = OBC_SLOT_A
     THEN /\ copy' = OBC_SLOT_B
          /\ pc' = "select"
          /\ UNCHANGED <<todo, file, hurt>>
     ELSE /\ Healed(blkDev, c)
          /\ IF c = "loader" /\ upDev = "emmc"
             THEN pc' = "userboot" /\ UNCHANGED <<todo, copy, file>>
             ELSE NextComponent
  /\ UNCHANGED <<sysflag, bootMedia, blkDev, slot, table, shmem, fdtMem, bootargs, kern,
                 ioErrors, losses, upDev, userBoot, ops>>

\* blk_dwrite stops short: the copy stays torn, the command ends.
FailWrite ==
  /\ pc = "write"
  /\ IoError
  /\ Hurt(blkDev, Head(todo))
  /\ Abort
  /\ UNCHANGED <<storeVars, bootMedia, blkDev, slot, table, shmem, fdtMem, bootargs, kern,
                 losses, upDev, userBoot, ops>>

\* do_updatex_emmc_enable_user_boot.
EnableUserBoot ==
  /\ pc = "userboot"
  /\ \/ userBoot' = TRUE /\ IoFine /\ NextComponent
     \/ UNCHANGED userBoot /\ IoError /\ Abort
  /\ UNCHANGED <<storeVars, bootMedia, blkDev, slot, table, shmem, fdtMem, bootargs, kern,
                 losses, upDev, hurt, ops>>

EraseBeyond(c, s) ==              \* mutant: runs into the neighbouring copy
  /\ pc = "shell" /\ ops < MaxOps
  /\ c \in Erasable /\ PartKnown(c)
  /\ ops' = ops + 1
  /\ SetCopies(blkDev, c, s, Blank)
  /\ Hurt(blkDev, c)
  /\ UNCHANGED <<sysflag, initVars, upDev, todo, copy, file, userBoot>>

\* `obcflash mmc erase <part>': zeroes on whichever device gstBlkDev names,
\* one chunk after the other; a partly erased copy is as unusable.
Erase(c, s) ==
  /\ pc = "shell" /\ ops < MaxOps
  /\ c \in Erasable /\ PartKnown(c)
  /\ ops' = ops + 1
  /\ Hurt(blkDev, c)
  /\ \/ SetCopy(blkDev, c, s, Blank) /\ (IoFine \/ IoError)
     \/ UNCHANGED part /\ IoError
  /\ UNCHANGED <<sysflag, pc, bootMedia, blkDev, slot, table, shmem, fdtMem, bootargs, kern,
                 losses, upDev, todo, copy, file, userBoot>>
=============================================================================
