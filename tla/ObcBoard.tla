------------------------------ MODULE ObcBoard ------------------------------
(***************************************************************************)
(* The whole board: start, prompt, update commands, Linux, reset and power *)
(* loss, over the storage of two MMC devices.                              *)
(***************************************************************************)
EXTENDS Updatex

vars == <<storeVars, initVars, updateVars>>

CONSTANT Factory   \* the image the factory flashed into every copy

ASSUME BoardAssumption == Factory \in Bootable

Init ==
  /\ part = [d \in Devices |-> [c \in Components |-> [s \in Slots |->
               [fmt |-> IF StoredBare(c) THEN "bare" ELSE "packed",
                img |-> Factory, whole |-> TRUE]]]]
  /\ sysflag \in [Devices -> Slots]
  /\ pc = "off"
  /\ bootMedia \in BootMedia
  /\ blkDev = None /\ slot = OBC_SLOT_A /\ table = "none"
  /\ shmem = None /\ fdtMem = None /\ bootargs = None /\ kern = None
  /\ ioErrors = 0 /\ losses = 0
  /\ upDev = "emmc" /\ todo = <<>> /\ copy = OBC_SLOT_A /\ file = None
  /\ userBoot \in BOOLEAN
  /\ hurt = [d \in Devices |-> [c \in Components |-> 0]]
  /\ ops = 0

Booting == (PowerOn \/ HwInit \/ FdtInit \/ ArgsInit \/ Bootk)
           /\ UNCHANGED <<todo, copy, file, userBoot, hurt, ops>>
           /\ upDev' = IF pc = "off" THEN "emmc" ELSE upDev

\* A key pressed before bootcmd runs.
Interrupt ==
  /\ pc = "bootcmd" /\ ops < MaxOps
  /\ ops' = ops + 1
  /\ pc' = "shell"
  /\ UNCHANGED <<storeVars, bootMedia, blkDev, slot, table, shmem, fdtMem, bootargs, kern,
                 ioErrors, losses, upDev, todo, copy, file, userBoot, hurt>>

\* A warm reset: from the prompt, by Linux, or after an abort.  Memory may or
\* may not survive it.
Reset ==
  /\ pc \in {"shell", "running", "abort"}
  /\ pc' = "off"
  /\ fdtMem' \in {fdtMem, None}
  /\ shmem' \in {shmem, None}
  /\ kern' = None
  /\ UNCHANGED <<storeVars, bootMedia, blkDev, slot, table, bootargs, ioErrors, losses,
                 updateVars>>

\* Power is lost.  A copy whose write is under way is torn, unless not one
\* block of it had been written yet: that is the loss in BeginWrite's state.
PowerLoss ==
  /\ pc # "off"
  /\ losses < MaxLosses
  /\ losses' = losses + 1
  /\ pc' = "off"
  /\ fdtMem' = None /\ shmem' = None /\ kern' = None
  /\ NoJob
  /\ IF pc = "write" \/ (pc = "select" /\ copy = OBC_SLOT_B)
     THEN Hurt(upDev, Head(todo)) ELSE UNCHANGED hurt
  /\ UNCHANGED <<storeVars, bootMedia, blkDev, slot, table, bootargs, ioErrors, upDev,
                 userBoot, ops>>

Updating == Fetch \/ BeginWrite \/ EndWrite \/ FailWrite \/ EnableUserBoot

Operator ==
  \/ \E d \in Targets : SetTarget(d)
  \/ \E list \in Commands : StartUpdate(list)
  \/ \E c \in Components, s \in Slots : Erase(c, s)
  \/ Interrupt

Next == Booting \/ Updating \/ Operator \/ Reset \/ PowerLoss

Spec == Init /\ [][Next]_vars

-----------------------------------------------------------------------------
(* Fairness.  U-Boot runs a handler it has started to its end, an update    *)
(* waits for nothing but its timeouts, and a board that has come to a stop  *)
(* (prompt or fault) is power-cycled sooner or later.  Commands and power   *)
(* losses need not happen.                                                  *)

BootSteps == Booting /\ pc \in {"off", "hw", "fdt", "args", "bootcmd"}

Fairness ==
  /\ WF_vars(BootSteps)
  /\ WF_vars(Updating)
  /\ WF_vars(Reset /\ pc \in {"shell", "abort"})

FairSpec == Spec /\ Fairness

-----------------------------------------------------------------------------
(* Type invariant: what each variable of U-Boot and of the storage may hold. *)
TypeOK ==
  /\ part \in [Devices -> [Components -> [Slots -> Content]]]
  /\ sysflag \in [Devices -> Slots]
  /\ pc \in PCs
  /\ bootMedia \in BootMedia
  /\ blkDev \in Devices \cup {None}
  /\ slot \in Slots
  /\ table \in {"none", "fdts", "full"}
  /\ shmem \in Slots \cup {None}
  /\ fdtMem \in Loaded \cup {None}
  /\ bootargs \in Args \cup {None}
  /\ kern \in Loaded \cup {None}
  /\ ioErrors \in Nat /\ losses \in Nat
  /\ upDev \in Devices
  /\ todo \in Seq(Components)
  /\ copy \in Slots
  /\ file \in Files \cup {None}
  /\ userBoot \in BOOLEAN
  /\ hurt \in [Devices -> [Components -> 0 .. 2]]
  /\ ops \in Nat

\* Between the first block of copy 0 and the last one of copy 1.
Busy(d, c) ==
  /\ todo # <<>> /\ d = upDev /\ c = Head(todo)
  /\ pc = "write" \/ (pc = "select" /\ copy = OBC_SLOT_B)

Whole(d, c, s) == part[d][c][s].whole

\* A component that no update or erasure has broken off since it was last
\* written has two complete and identical copies, so that switching the slot
\* never changes what runs (do_updatex_emmc_writefile and
\* do_updatex_sd_raw_writefile write both redundant partitions).
CopiesAgree ==
  \A d \in Devices, c \in Components :
     hurt[d][c] = 0 /\ ~Busy(d, c) =>
        /\ part[d][c][0] = part[d][c][1]
        /\ Whole(d, c, 0)

\* One broken-off update, or one erasure, costs at most one of a component's
\* two copies: both are lost only after two of them, or while an update after
\* the first is under way (the copies are written one after the other, and
\* copy 1 only when copy 0 is complete).
OneCopySurvives ==
  \A d \in Devices, c \in Components :
     (\A s \in Slots : ~Whole(d, c, s)) =>
        \/ hurt[d][c] >= 2
        \/ hurt[d][c] >= 1 /\ Busy(d, c)

\* A single accident anywhere on a device leaves one SLOT complete, all its
\* components: what booting a slot as a unit, with no mixing, needs
\* (obc_blk.c, "load only the current slot's FDT", and do_bootk).
SlotSurvives ==
  \A d \in Devices :
     (\E c0 \in Components :
         /\ hurt[d][c0] + (IF Busy(d, c0) THEN 1 ELSE 0) <= 1
         /\ \A c \in Components \ {c0} : hurt[d][c] = 0 /\ ~Busy(d, c))
     => \E s \in Slots : \A c \in Components : Whole(d, c, s)

\* Linux runs with a complete device tree, its kernel and its device tree
\* come from one slot of one device, and the published slot is that slot.
SameSlot ==
  pc = "running" =>
     /\ FdtOK
     /\ fdtMem.dev = kern.dev /\ fdtMem.slot = kern.slot
     /\ bootargs.slot = kern.slot

\* The boot medium published for Linux and the appfs start-up script is the
\* device the kernel was read from (am62x_board_args_init, do_bootk).
BootSourcePublished == pc = "running" => bootargs.media = kern.dev

\* A slot this board can start from, as far as U-Boot sees it.
Healthy(d, s) ==
  \A c \in {"fdt", "kernel"} : ReadPartOK(d, c, s) /\ part[d][c][s].img \in Bootable

\* An unattended start never takes the boot slot off a slot that works: it
\* moves the sysflag away from a slot only when that slot's FDT or kernel is
\* bad, or in a step in which the medium itself fails (obc_slot_switch is
\* called on the failure paths only).  A `bootk' typed after the FDT was
\* repaired gives no such guarantee: it still uses the partition table and the
\* device tree of the failed start.
HealthySlotKept ==
  [][\A d \in Devices :
        sysflag'[d] # sysflag[d] /\ pc # "shell" =>
           \/ ~Healthy(d, sysflag[d])
           \/ ioErrors' # ioErrors]_vars

\* As long as one slot of the boot medium is sound, the board comes up: a
\* start from the other slot fails, switches the flag, and the next one
\* succeeds, whatever was interrupted before.
EventuallyBoots ==
  \A d \in BootMedia :
     (\E s \in Slots : Healthy(d, s))
        ~> (pc = "running" \/ ~\E s \in Slots : Healthy(d, s))
=============================================================================
