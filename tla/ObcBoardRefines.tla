-------------------------- MODULE ObcBoardRefines ---------------------------
(***************************************************************************)
(* ObcBoard implements SlotBoot.  A start has given up as soon as its FDT  *)
(* was refused, although obc_board_init and bootcmd go on: the slot switch *)
(* of do_bootk that follows must then be a stutter.  The mapping is for    *)
(* one medium, without I/O errors, whose SPL always or never publishes.    *)
(***************************************************************************)
EXTENDS ObcBoard

Medium == CHOOSE d \in BootMedia : TRUE

\* The slot a start is bound to before HwInit and FdtInit have stored it.
SlotInPlay ==
  IF pc = "hw" \/ (pc = "fdt" /\ shmem # None)
  THEN IF shmem # None THEN shmem ELSE sysflag[Medium]
  ELSE slot

Mode ==
  CASE pc = "off" -> "off"
    [] pc \in {"hw", "fdt"} -> "trying"
    [] pc \in {"args", "bootcmd"} ->
         IF fdtMem # None /\ fdtMem.whole THEN "trying" ELSE "prompt"
    [] pc = "running" -> "up"
    [] OTHER -> "prompt"

Promise == INSTANCE SlotBoot WITH
  good <- {s \in Slots : Healthy(Medium, s)},
  flag <- sysflag[Medium],
  tried <- SlotInPlay,
  mode <- Mode

\* The start, prompt and update code of U-Boot together keep the promise of
\* the two-slot scheme: one slot per start, tried as a unit, left for the
\* other only when it is bad (obc_slot_switch, FdtInit, do_bootk).
ImplementsSlotBoot == Promise!Spec
=============================================================================
