--------------------------- MODULE ObcBoardProofs ---------------------------
(***************************************************************************)
(* Theorems about ObcBoard, for every set of devices, images, commands and *)
(* files, and any number of power losses, I/O errors and commands: the     *)
(* type invariant, and what survives of the redundant copies.              *)
(***************************************************************************)
EXTENDS ObcBoard, SequenceTheorems, TLAPS

PartType == [Devices -> [Components -> [Slots -> Content]]]

\* What the program counter says of the device and of the running command.
Selected ==
  /\ pc \notin {"off", "hw", "abort"} => blkDev \in Devices
  /\ pc \in {"select", "write"} => file \in Files
  /\ pc \in {"fetch", "select", "write", "userboot"} => todo # <<>>

TypeInv == TypeOK /\ Selected

\* A component no update is under way for: as many copies are lost as
\* accidents were counted, and without an accident the copies are alike.
DamageCounted ==
  \A d \in Devices, c \in Components : ~Busy(d, c) =>
     /\ hurt[d][c] = 0 => /\ part[d][c][0] = part[d][c][1]
                          /\ Whole(d, c, 0) /\ Whole(d, c, 1)
     /\ hurt[d][c] <= 1 => Whole(d, c, 0) \/ Whole(d, c, 1)

\* The component being written: copy 1 is still as it was while copy 0 is
\* written, and copy 0 is the whole new image from then on.
WriteOrder ==
  (pc = "write" \/ (pc = "select" /\ copy = OBC_SLOT_B)) =>
     /\ blkDev = upDev
     /\ PartKnown(Head(todo)) /\ PrepareOK(Head(todo), file)
     /\ copy = OBC_SLOT_A => (hurt[upDev][Head(todo)] = 0 => Whole(upDev, Head(todo), 1))
     /\ copy = OBC_SLOT_B => part[upDev][Head(todo)][0] = Stored(file)

IInv == TypeInv /\ DamageCounted /\ WriteOrder

-----------------------------------------------------------------------------
(* The operators the actions are built from. *)

\* Rewriting one copy changes that copy and no other (SetCopy).
LEMMA SetCopyLemma ==
  ASSUME part \in PartType, NEW d \in Devices, NEW c \in Components, NEW s \in Slots,
         NEW content \in Content, SetCopy(d, c, s, content)
  PROVE  /\ part' \in PartType
         /\ \A e \in Devices, b \in Components, t \in Slots :
              part'[e][b][t] = IF e = d /\ b = c /\ t = s THEN content ELSE part[e][b][t]
BY DEF SetCopy, PartType

\* Counting an accident changes one counter, by at most one (Hurt).
LEMMA HurtLemma ==
  ASSUME hurt \in [Devices -> [Components -> 0 .. 2]],
         NEW d \in Devices, NEW c \in Components, Hurt(d, c)
  PROVE  /\ hurt' \in [Devices -> [Components -> 0 .. 2]]
         /\ hurt'[d][c] = IF hurt[d][c] < 2 THEN hurt[d][c] + 1 ELSE hurt[d][c]
         /\ \A e \in Devices, b \in Components :
              e # d \/ b # c => hurt'[e][b] = hurt[e][b]
BY DEF Hurt

\* A component written alike twice starts afresh (Healed).
LEMMA HealedLemma ==
  ASSUME hurt \in [Devices -> [Components -> 0 .. 2]],
         NEW d \in Devices, NEW c \in Components, Healed(d, c)
  PROVE  /\ hurt' \in [Devices -> [Components -> 0 .. 2]]
         /\ hurt'[d][c] = 0
         /\ \A e \in Devices, b \in Components :
              e # d \/ b # c => hurt'[e][b] = hurt[e][b]
BY DEF Healed

\* What a write leaves is a content, whole at its end and torn before
\* (Stored, Torn).
LEMMA StoredLemma ==
  ASSUME NEW f \in Files
  PROVE  /\ Stored(f) \in Content /\ Stored(f).whole
         /\ Torn(Stored(f)) \in Content /\ ~Torn(Stored(f)).whole
BY UpdateAssumption DEF Stored, Torn, Content, FileType, FileFormats

\* An update command names at least one component, components only.
LEMMA CommandLemma ==
  ASSUME NEW list \in Commands
  PROVE  list \in Seq(Components) /\ list # <<>>
<1>1. CASE list = AllOrder
  <2>1. AllOrder \in Seq(Components) /\ Len(AllOrder) = 5
    BY DEF AllOrder, Components
  <2> QED BY <1>1, <2>1
<1>2. CASE \E c \in Components : list = <<c>>
  BY <1>2
<1> QED BY <1>1, <1>2, UpdateAssumption

\* The head and the rest of a command's list of components.
LEMMA TailLemma ==
  ASSUME NEW S, NEW q \in Seq(S), q # <<>>
  PROVE  /\ Head(q) \in S /\ Tail(q) \in Seq(S)
         /\ Len(q) > 1 => Tail(q) # <<>>
<1>1. Len(Tail(q)) = Len(q) - 1 /\ Len(q) \in Nat
  BY HeadTailProperties
<1>2. Len(q) > 1 => Len(Tail(q)) # 0
  BY <1>1
<1>3. Len(<<>>) = 0
  OBVIOUS
<1> QED
  BY <1>2, <1>3, HeadTailProperties, Zenon

-----------------------------------------------------------------------------
(* Type correctness. *)

LEMMA TypeInit == Init => TypeInv
<1> SUFFICES ASSUME Init PROVE TypeInv
  OBVIOUS
<1> USE StoreAssumption, InitAssumption, UpdateAssumption, BoardAssumption
<1>1. part \in [Devices -> [Components -> [Slots -> Content]]]
  BY DEF Init, Content, Slots
<1>2. todo \in Seq(Components)
  BY DEF Init
<1>3. hurt \in [Devices -> [Components -> 0 .. 2]]
  BY DEF Init
<1> QED
  BY <1>1, <1>2, <1>3 DEF Init, TypeInv, TypeOK, Selected, PCs, Slots, OBC_SLOT_A, OBC_SLOT_B

\* The start of the board keeps the types (PowerOn ... Bootk).
LEMMA TypeBooting ==
  ASSUME TypeInv, Booting
  PROVE  TypeInv'
<1> USE StoreAssumption, InitAssumption DEF storeVars, Slots, PCs, OBC_SLOT_A, OBC_SLOT_B
<1>1. CASE PowerOn
  BY <1>1 DEF PowerOn, Booting, TypeInv, TypeOK, Selected
<1>2. CASE HwInit
  BY <1>2 DEF HwInit, SlotRead, IoFine, IoError, Booting, TypeInv, TypeOK, Selected
<1>3. CASE FdtInit
  <2>1. blkDev \in Devices
    BY <1>3 DEF FdtInit, TypeInv, Selected
  <2>2. FdtSlot \in Slots
    BY DEF FdtSlot, TypeInv, TypeOK
  <2>3. part[blkDev]["fdt"][FdtSlot].img \in Images \cup {None}
    BY <2>1, <2>2 DEF TypeInv, TypeOK, Components, Content
  <2>a. \A w \in BOOLEAN : [dev |-> blkDev, slot |-> FdtSlot,
                            img |-> part[blkDev]["fdt"][FdtSlot].img, whole |-> w] \in Loaded
    BY <2>1, <2>2, <2>3 DEF Loaded
  <2>b. RefusedFdt(blkDev, FdtSlot) \subseteq Loaded \cup {None}
    BY <2>a DEF RefusedFdt
  <2>4. fdtMem' \in Loaded \cup {None}
    BY <1>3, <2>a, <2>b DEF FdtInit, TypeInv, TypeOK
  <2>5. sysflag' \in [Devices -> Slots]
    BY <1>3, <2>2 DEF FdtInit, SlotSwitch, Other, TypeInv, TypeOK
  <2>6. table' \in {"none", "fdts", "full"} /\ ioErrors' \in Nat
    BY <1>3 DEF FdtInit, IoFine, IoError, TypeInv, TypeOK
  <2>7. slot' = FdtSlot /\ pc' = "args"
    BY <1>3 DEF FdtInit
  <2>8. UNCHANGED <<part, bootMedia, blkDev, shmem, bootargs, kern, losses,
                    upDev, todo, copy, file, userBoot, hurt, ops>>
    BY <1>3 DEF FdtInit, Booting
  <2> QED
    BY <2>1, <2>2, <2>4, <2>5, <2>6, <2>7, <2>8 DEF TypeInv, TypeOK, Selected
<1>4. CASE ArgsInit
  BY <1>4 DEF ArgsInit, Args, Booting, TypeInv, TypeOK, Selected
<1>5. CASE Bootk
  <2>1. blkDev \in Devices
    BY <1>5 DEF Bootk, TypeInv, Selected
  <2>2. KernelSlot \in Slots /\ part[blkDev]["kernel"][KernelSlot].img \in Images \cup {None}
    BY <2>1 DEF KernelSlot, TypeInv, TypeOK, Components, Content
  <2>a. [dev |-> blkDev, slot |-> KernelSlot,
         img |-> part[blkDev]["kernel"][KernelSlot].img, whole |-> TRUE] \in Loaded
    BY <2>1, <2>2 DEF Loaded
  <2>3. kern' \in Loaded \cup {None}
    BY <1>5, <2>a DEF Bootk, TypeInv, TypeOK
  <2>4. sysflag' \in [Devices -> Slots]
    BY <1>5 DEF Bootk, SlotSwitch, Other, TypeInv, TypeOK
  <2>5. ioErrors' \in Nat /\ pc' \in {"running", "shell"}
    BY <1>5 DEF Bootk, IoFine, IoError, TypeInv, TypeOK
  <2>6. UNCHANGED <<part, bootMedia, blkDev, slot, table, shmem, fdtMem, bootargs, losses,
                    upDev, todo, copy, file, userBoot, hurt, ops>>
    BY <1>5 DEF Bootk, Booting
  <2> QED
    BY <2>1, <2>3, <2>4, <2>5, <2>6 DEF TypeInv, TypeOK, Selected
<1> QED
  BY <1>1, <1>2, <1>3, <1>4, <1>5 DEF Booting

\* The running update command keeps the types.
LEMMA TypeUpdating ==
  ASSUME TypeInv, Updating
  PROVE  TypeInv'
<1> USE StoreAssumption, InitAssumption DEF Slots, PCs, OBC_SLOT_A, OBC_SLOT_B
<1> DEFINE c == Head(todo)
<1>0. /\ c \in Components /\ Tail(todo) \in Seq(Components)
      /\ Len(todo) > 1 => Tail(todo) # <<>>
  <2>1. todo \in Seq(Components) /\ todo # <<>>
    BY DEF Updating, Fetch, BeginWrite, EndWrite, FailWrite, EnableUserBoot, TypeInv, TypeOK, Selected
  <2> QED BY <2>1, TailLemma
<1>1. CASE Fetch
  <2>1. /\ todo' \in {todo, <<>>} /\ file' \in Files \cup {None} /\ copy' = OBC_SLOT_A
        /\ (pc' = "select" /\ file' \in Files /\ UNCHANGED todo) \/ pc' = "shell"
    BY <1>1 DEF Fetch, Abort, NoJob
  <2>2. pc = "fetch" /\ todo' \in Seq(Components)
    <3>1. todo \in Seq(Components) /\ <<>> \in Seq(Components)
      BY DEF TypeInv, TypeOK
    <3> QED BY <1>1, <2>1, <3>1, Zenon DEF Fetch
  <2> QED
    BY <1>1, <2>1, <2>2 DEF Fetch, storeVars, TypeInv, TypeOK, Selected
<1>2. CASE BeginWrite
  <2>1. upDev \in Devices /\ copy \in Slots /\ file \in Files
    BY <1>2 DEF BeginWrite, TypeInv, TypeOK, Selected
  <2>2. part' \in PartType
    BY <1>2, <1>0, <2>1, StoredLemma, SetCopyLemma DEF BeginWrite, TargetDev, TypeInv, TypeOK, PartType
  <2>3. hurt' \in [Devices -> [Components -> 0 .. 2]]
    BY <1>2, <1>0, <2>1, HurtLemma DEF BeginWrite, TypeInv, TypeOK
  <2>4. /\ pc' \in {"write", "shell"} /\ blkDev' \in Devices
        /\ pc' = "write" => UNCHANGED <<todo, copy, file>>
        /\ pc' = "shell" => NoJob
    BY <1>2, <2>1 DEF BeginWrite, TargetDev, Abort, TypeInv, Selected
  <2>5. ioErrors' \in Nat
    BY <1>2 DEF BeginWrite, IoFine, IoError, TypeInv, TypeOK
  <2>6. UNCHANGED <<sysflag, bootMedia, slot, table, shmem, fdtMem, bootargs, kern, losses,
                    upDev, userBoot, ops>>
    BY <1>2 DEF BeginWrite
  <2>7. todo' \in Seq(Components) /\ copy' \in Slots /\ file' \in Files \cup {None}
    <3>1. todo \in Seq(Components) /\ <<>> \in Seq(Components)
      BY DEF TypeInv, TypeOK
    <3>2. CASE pc' = "write"
      BY <3>1, <3>2, <2>1, <2>4
    <3>3. CASE pc' = "shell"
      BY <3>1, <3>3, <2>4 DEF NoJob
    <3> QED BY <3>2, <3>3, <2>4
  <2>8. Selected'
    BY <1>2, <2>1, <2>4 DEF BeginWrite, TypeInv, Selected
  <2> QED
    BY <2>2, <2>3, <2>4, <2>5, <2>6, <2>7, <2>8 DEF PartType, TypeInv, TypeOK
<1>3. CASE EndWrite
  <2>1. blkDev \in Devices /\ copy \in Slots /\ file \in Files
    BY <1>3 DEF EndWrite, TypeInv, TypeOK, Selected
  <2>2. part' \in PartType
    BY <1>3, <1>0, <2>1, StoredLemma, SetCopyLemma DEF EndWrite, TypeInv, TypeOK, PartType
  <2>3. hurt' \in [Devices -> [Components -> 0 .. 2]]
    BY <1>3, <1>0, <2>1, HealedLemma DEF EndWrite, TypeInv, TypeOK
  <2>4. /\ pc' \in {"select", "userboot", "fetch", "shell"}
        /\ pc' \in {"select", "userboot"} => UNCHANGED <<todo, file>>
        /\ pc' = "fetch" => todo' = Tail(todo) /\ Len(todo) > 1 /\ file' = None
        /\ pc' = "shell" => NoJob
        /\ copy' \in Slots
    BY <1>3 DEF EndWrite, NextComponent, Abort, NoJob, TypeInv, TypeOK
  <2>5. todo' \in Seq(Components) /\ file' \in Files \cup {None}
    <3>1. <<>> \in Seq(Components) /\ todo \in Seq(Components)
      BY DEF TypeInv, TypeOK
    <3> QED BY <2>1, <2>4, <1>0, <3>1, Zenon DEF NoJob
  <2>6. Selected'
    <3>1. pc = "write" /\ UNCHANGED blkDev
      BY <1>3 DEF EndWrite
    <3>2. pc' = "fetch" => Tail(todo) # <<>>
      BY <1>0, <2>4
    <3> QED BY <3>1, <3>2, <2>1, <2>4 DEF TypeInv, Selected
  <2>7. UNCHANGED <<sysflag, bootMedia, blkDev, slot, table, shmem, fdtMem, bootargs, kern,
                    ioErrors, losses, upDev, userBoot, ops>>
    BY <1>3 DEF EndWrite
  <2> QED
    BY <2>2, <2>3, <2>4, <2>5, <2>6, <2>7 DEF PartType, TypeInv, TypeOK
<1>4. CASE FailWrite
  <2>1. blkDev \in Devices
    BY <1>4 DEF FailWrite, TypeInv, Selected
  <2>2. hurt' \in [Devices -> [Components -> 0 .. 2]]
    BY <1>4, <1>0, <2>1, HurtLemma DEF FailWrite, TypeInv, TypeOK
  <2> QED
    BY <1>4, <2>1, <2>2 DEF FailWrite, IoError, Abort, NoJob, storeVars, TypeInv, TypeOK, Selected
<1>5. CASE EnableUserBoot
  <2>1. /\ pc' \in {"fetch", "shell"} /\ file' = None
        /\ pc' = "fetch" => todo' = Tail(todo) /\ Len(todo) > 1
        /\ pc' = "shell" => todo' = <<>>
        /\ copy' \in Slots
    BY <1>5 DEF EnableUserBoot, NextComponent, Abort, NoJob
  <2>2. pc' = "fetch" => Tail(todo) # <<>>
    BY <1>0, <2>1
  <2>3. todo' \in Seq(Components)
    <3>1. <<>> \in Seq(Components)
      OBVIOUS
    <3> QED BY <1>0, <2>1, <3>1, Zenon
  <2>4. ioErrors' \in Nat
    BY <1>5 DEF EnableUserBoot, IoFine, IoError, TypeInv, TypeOK
  <2>5. userBoot' \in BOOLEAN
    BY <1>5, Zenon DEF EnableUserBoot, TypeInv, TypeOK
  <2> QED
    BY <1>5, <2>1, <2>2, <2>3, <2>4, <2>5 DEF EnableUserBoot, storeVars, TypeInv, TypeOK, Selected
<1> QED
  BY <1>1, <1>2, <1>3, <1>4, <1>5 DEF Updating

\* The operator's commands, a reset and a power loss keep the types.
LEMMA TypeOutside ==
  ASSUME TypeInv, Operator \/ Reset \/ PowerLoss
  PROVE  TypeInv'
<1> USE StoreAssumption, InitAssumption, UpdateAssumption
    DEF Slots, PCs, OBC_SLOT_A, OBC_SLOT_B, storeVars, initVars, updateVars
<1>1. ASSUME NEW d \in Targets, SetTarget(d) PROVE TypeInv'
  BY <1>1 DEF SetTarget, TypeInv, TypeOK, Selected
<1>2. ASSUME NEW list \in Commands, StartUpdate(list) PROVE TypeInv'
  BY <1>2, CommandLemma DEF StartUpdate, TypeInv, TypeOK, Selected
<1>3. ASSUME NEW c \in Components, NEW s \in Slots, Erase(c, s) PROVE TypeInv'
  <2>1. blkDev \in Devices /\ Blank \in Content
    BY <1>3 DEF Erase, TypeInv, Selected, Blank, Content
  <2>2. part' \in PartType
    BY <1>3, <2>1, SetCopyLemma DEF Erase, TypeInv, TypeOK, PartType
  <2>3. hurt' \in [Devices -> [Components -> 0 .. 2]]
    BY <1>3, <2>1, HurtLemma DEF Erase, TypeInv, TypeOK
  <2> QED
    BY <1>3, <2>1, <2>2, <2>3 DEF Erase, IoFine, IoError, PartType, TypeInv, TypeOK, Selected
<1>4. CASE Interrupt
  BY <1>4 DEF Interrupt, TypeInv, TypeOK, Selected
<1>5. CASE Reset
  BY <1>5 DEF Reset, TypeInv, TypeOK, Selected
<1>6. CASE PowerLoss
  <2>1. pc = "write" \/ (pc = "select" /\ copy = OBC_SLOT_B) => Head(todo) \in Components
    <3>1. pc \in {"write", "select"} => todo \in Seq(Components) /\ todo # <<>>
      BY DEF TypeInv, TypeOK, Selected
    <3> QED BY <3>1, TailLemma
  <2>2. hurt' \in [Devices -> [Components -> 0 .. 2]]
    BY <1>6, <2>1, HurtLemma DEF PowerLoss, TypeInv, TypeOK
  <2> QED
    BY <1>6, <2>2 DEF PowerLoss, NoJob, TypeInv, TypeOK, Selected
<1> QED
  BY <1>1, <1>2, <1>3, <1>4, <1>5, <1>6 DEF Operator

LEMMA TypeStep == TypeInv /\ [Next]_vars => TypeInv'
<1> SUFFICES ASSUME TypeInv, [Next]_vars PROVE TypeInv'
  OBVIOUS
<1>1. CASE Next
  BY <1>1, TypeBooting, TypeUpdating, TypeOutside DEF Next
<1>2. CASE UNCHANGED vars
  BY <1>2 DEF vars, storeVars, initVars, updateVars, TypeInv, TypeOK, Selected
<1> QED
  BY <1>1, <1>2

\* The board's variables hold only what their declarations say, in every
\* state of every behaviour: in particular no read, write or slot switch goes
\* through a null block device (Selected).
THEOREM TypeCorrect == Spec => [](TypeOK /\ Selected)
<1>1. Init => TypeInv
  BY TypeInit
<1>2. TypeInv /\ [Next]_vars => TypeInv'
  BY TypeStep
<1> QED
  BY <1>1, <1>2, PTL DEF Spec, TypeInv

-----------------------------------------------------------------------------
(* What survives of the copies. *)

\* No component is between its two writes.
Quiet == pc # "write" /\ ~(pc = "select" /\ copy = OBC_SLOT_B)

LEMMA SafeInit == Init => IInv
<1> SUFFICES ASSUME Init PROVE IInv
  OBVIOUS
<1>1. pc = "off" /\ \A d \in Devices, c \in Components, s \in Slots :
        part[d][c][s] = [fmt |-> IF StoredBare(c) THEN "bare" ELSE "packed",
                         img |-> Factory, whole |-> TRUE]
  BY DEF Init
<1>2. DamageCounted
  <2> SUFFICES ASSUME NEW d \in Devices, NEW c \in Components
               PROVE  part[d][c][0] = part[d][c][1] /\ part[d][c][0].whole /\ part[d][c][1].whole
    BY DEF DamageCounted, Whole
  <2> DEFINE r == [fmt |-> IF StoredBare(c) THEN "bare" ELSE "packed", img |-> Factory, whole |-> TRUE]
  <2>1. part[d][c][0] = r /\ part[d][c][1] = r
    BY <1>1 DEF Slots, OBC_SLOT_A, OBC_SLOT_B
  <2> QED
    BY <2>1
<1> QED
  BY <1>1, <1>2, TypeInit DEF IInv, WriteOrder

\* A step that touches no copy and no counter, outside a component's writes.
LEMMA QuietStep ==
  ASSUME IInv, TypeInv', UNCHANGED <<part, hurt>>, Quiet, Quiet'
  PROVE  IInv'
<1>1. DamageCounted'
  BY DEF IInv, DamageCounted, Busy, Whole, Quiet
<1>2. WriteOrder'
  BY DEF WriteOrder, Quiet
<1> QED
  BY <1>1, <1>2 DEF IInv

\* The update of a component is broken off: its counter covers the copy that
\* is torn, and the other copy is whole, the old one or the new one.
LEMMA BrokenOff ==
  ASSUME IInv, TypeInv', ~Quiet, Quiet', UNCHANGED part, Hurt(upDev, Head(todo))
  PROVE  IInv'
<1> DEFINE d == upDev
           c == Head(todo)
<1>1. d \in Devices /\ todo \in Seq(Components) /\ todo # <<>> /\ file \in Files /\ copy \in Slots
  BY DEF IInv, TypeInv, TypeOK, Selected, Quiet
<1>2. c \in Components
  BY <1>1, TailLemma
<1>3. hurt \in [Devices -> [Components -> 0 .. 2]]
  BY DEF IInv, TypeInv, TypeOK
<1>4. /\ hurt'[d][c] = IF hurt[d][c] < 2 THEN hurt[d][c] + 1 ELSE hurt[d][c]
      /\ \A e \in Devices, b \in Components : e # d \/ b # c => hurt'[e][b] = hurt[e][b]
  BY <1>1, <1>2, <1>3, HurtLemma
<1>5. hurt[d][c] \in 0 .. 2
  BY <1>1, <1>2, <1>3
<1>6. hurt'[d][c] # 0 /\ (hurt'[d][c] <= 1 => hurt[d][c] = 0)
  BY <1>4, <1>5
<1>7. hurt[d][c] = 0 => Whole(d, c, 0) \/ Whole(d, c, 1)
  BY <1>1, StoredLemma DEF IInv, WriteOrder, Quiet, Whole, Slots, OBC_SLOT_A, OBC_SLOT_B
<1>8. \A e \in Devices, b \in Components : e # d \/ b # c => ~Busy(e, b)
  BY DEF Busy
<1>9. DamageCounted'
  BY <1>4, <1>6, <1>7, <1>8 DEF IInv, DamageCounted, Whole
<1> QED
  BY <1>9 DEF IInv, WriteOrder, Quiet

\* The write of a copy starts: copy 0 of a component whose copies were alike,
\* or copy 1 of one whose copy 0 is the new image already.
LEMMA BeginWriteSafe ==
  ASSUME IInv, TypeInv', BeginWrite
  PROVE  IInv'
<1> USE DEF OBC_SLOT_A, OBC_SLOT_B, Slots
<1> DEFINE d == upDev
           c == Head(todo)
<1>1. d \in Devices /\ todo \in Seq(Components) /\ todo # <<>> /\ file \in Files /\ copy \in Slots
  BY DEF IInv, TypeInv, TypeOK, Selected, BeginWrite
<1>2. c \in Components
  BY <1>1, TailLemma
<1>3. CASE pc' = "write"
  <2>1. /\ SetCopy(d, c, copy, Torn(Stored(file)))
        /\ UNCHANGED <<hurt, todo, copy, file, upDev, table>> /\ blkDev' = upDev
        /\ PartKnown(c) /\ PrepareOK(c, file) /\ pc = "select"
    BY <1>3 DEF BeginWrite, TargetDev, Abort
  <2>2. \A e \in Devices, b \in Components, t \in Slots :
           part'[e][b][t] = IF e = d /\ b = c /\ t = copy THEN Torn(Stored(file))
                            ELSE part[e][b][t]
    BY <1>1, <1>2, <2>1, StoredLemma, SetCopyLemma DEF IInv, TypeInv, TypeOK, PartType
  <2>3. Busy(d, c)'
    BY <1>1, <1>3, <2>1 DEF Busy
  <2>4. \A e \in Devices, b \in Components : e # d \/ b # c => ~Busy(e, b)
    BY DEF Busy
  <2>5. DamageCounted'
    BY <2>1, <2>2, <2>3, <2>4 DEF IInv, DamageCounted, Whole
  <2>6. copy = 0 /\ hurt[d][c] = 0 => Whole(d, c, 1)
    BY <1>1, <1>2, <2>1 DEF IInv, DamageCounted, Busy
  <2>7. copy = 1 => part[d][c][0] = Stored(file)
    BY <2>1 DEF IInv, WriteOrder
  <2>8. WriteOrder'
    BY <1>1, <1>2, <2>1, <2>2, <2>6, <2>7 DEF WriteOrder, Whole, PartKnown
  <2> QED
    BY <2>5, <2>8 DEF IInv
<1>4. CASE pc' = "shell" /\ copy = OBC_SLOT_A
  <2>1. UNCHANGED <<part, hurt>> /\ pc = "select"
    BY <1>4 DEF BeginWrite
  <2> QED
    BY <1>4, <2>1, QuietStep DEF Quiet
<1>5. CASE pc' = "shell" /\ copy = OBC_SLOT_B
  <2>1. PartKnown(c) /\ PrepareOK(c, file)
    BY <1>5 DEF BeginWrite, IInv, WriteOrder
  <2>2. Hurt(d, c) /\ UNCHANGED part /\ pc = "select"
    BY <1>5, <2>1 DEF BeginWrite
  <2> QED
    BY <1>5, <2>2, BrokenOff DEF Quiet
<1>6. pc' \in {"write", "shell"}
  BY DEF BeginWrite, Abort
<1> QED
  BY <1>1, <1>3, <1>4, <1>5, <1>6

\* The write of a copy ends: copy 0 is whole, or both copies are and alike.
LEMMA EndWriteSafe ==
  ASSUME IInv, TypeInv', EndWrite
  PROVE  IInv'
<1> USE DEF OBC_SLOT_A, OBC_SLOT_B, Slots
<1> DEFINE d == upDev
           c == Head(todo)
<1>1. d \in Devices /\ todo \in Seq(Components) /\ todo # <<>> /\ file \in Files /\ copy \in Slots
  BY DEF IInv, TypeInv, TypeOK, Selected, EndWrite
<1>2. c \in Components
  BY <1>1, TailLemma
<1>3. /\ blkDev = d /\ PartKnown(c) /\ PrepareOK(c, file) /\ pc = "write"
      /\ copy = 1 => part[d][c][0] = Stored(file)
  BY DEF EndWrite, IInv, WriteOrder
<1>4. \A e \in Devices, b \in Components, t \in Slots :
         part'[e][b][t] = IF e = d /\ b = c /\ t = copy THEN Stored(file) ELSE part[e][b][t]
  BY <1>1, <1>2, <1>3, StoredLemma, SetCopyLemma DEF EndWrite, IInv, TypeInv, TypeOK, PartType
<1>5. \A e \in Devices, b \in Components : e # d \/ b # c => ~Busy(e, b)
  BY DEF Busy
<1>6. CASE copy = OBC_SLOT_A
  <2>1. copy' = 1 /\ pc' = "select" /\ UNCHANGED <<todo, file, hurt, upDev, blkDev, table>>
    BY <1>6 DEF EndWrite
  <2>2. Busy(d, c)'
    BY <1>1, <2>1 DEF Busy
  <2>3. DamageCounted'
    BY <1>4, <1>5, <2>1, <2>2 DEF IInv, DamageCounted, Whole
  <2>4. part'[d][c][0] = Stored(file)
    BY <1>1, <1>2, <1>4, <1>6
  <2>5. WriteOrder'
    BY <1>3, <2>1, <2>4 DEF WriteOrder, PartKnown
  <2> QED
    BY <2>3, <2>5 DEF IInv
<1>7. CASE copy = OBC_SLOT_B
  <2>1. Healed(d, c) /\ pc' \in {"userboot", "fetch", "shell"}
    BY <1>3, <1>7 DEF EndWrite, NextComponent, Abort
  <2>2. /\ hurt'[d][c] = 0
        /\ \A e \in Devices, b \in Components : e # d \/ b # c => hurt'[e][b] = hurt[e][b]
    BY <1>1, <1>2, <2>1, HealedLemma DEF IInv, TypeInv, TypeOK
  <2>3. part'[d][c][0] = Stored(file) /\ part'[d][c][1] = Stored(file)
    BY <1>1, <1>2, <1>3, <1>4, <1>7
  <2>4. DamageCounted'
    BY <1>1, <1>4, <1>5, <2>2, <2>3, StoredLemma DEF IInv, DamageCounted, Whole
  <2>5. WriteOrder'
    BY <2>1 DEF WriteOrder
  <2> QED
    BY <2>4, <2>5 DEF IInv
<1> QED
  BY <1>1, <1>6, <1>7

\* An erasure costs one copy and is counted (`obcflash mmc erase').
LEMMA EraseSafe ==
  ASSUME IInv, TypeInv', NEW c \in Components, NEW s \in Slots, Erase(c, s)
  PROVE  IInv'
<1> DEFINE d == blkDev
<1>1. d \in Devices /\ Blank \in Content
  BY DEF Erase, IInv, TypeInv, Selected, Blank, Content
<1>2. pc = "shell" /\ pc' = "shell"
  BY DEF Erase
<1>3. hurt \in [Devices -> [Components -> 0 .. 2]]
  BY DEF IInv, TypeInv, TypeOK
<1>4. /\ hurt'[d][c] = IF hurt[d][c] < 2 THEN hurt[d][c] + 1 ELSE hurt[d][c]
      /\ \A e \in Devices, b \in Components : e # d \/ b # c => hurt'[e][b] = hurt[e][b]
  BY <1>1, <1>3, HurtLemma DEF Erase
<1>5. hurt[d][c] \in 0 .. 2
  BY <1>1, <1>3
<1>6. \A e \in Devices, b \in Components, t \in Slots :
         (e # d \/ b # c \/ t # s) => part'[e][b][t] = part[e][b][t]
  BY <1>1, SetCopyLemma DEF Erase, IInv, TypeInv, TypeOK, PartType
<1>7. DamageCounted'
  BY <1>1, <1>2, <1>4, <1>5, <1>6
  DEF IInv, DamageCounted, Busy, Whole, Slots, OBC_SLOT_A, OBC_SLOT_B
<1> QED
  BY <1>2, <1>7 DEF IInv, WriteOrder

LEMMA SafeStep == IInv /\ [Next]_vars => IInv'
<1> SUFFICES ASSUME IInv, [Next]_vars PROVE IInv'
  OBVIOUS
<1>0. TypeInv'
  BY TypeStep DEF IInv
<1>1. CASE Booting
  BY <1>0, <1>1, QuietStep
  DEF Booting, PowerOn, HwInit, FdtInit, ArgsInit, Bootk, storeVars, Quiet
<1>2. CASE Fetch
  BY <1>0, <1>2, QuietStep DEF Fetch, Abort, storeVars, Quiet, OBC_SLOT_A, OBC_SLOT_B
<1>3. CASE BeginWrite
  BY <1>0, <1>3, BeginWriteSafe
<1>4. CASE EndWrite
  BY <1>0, <1>4, EndWriteSafe
<1>5. CASE FailWrite
  <2>1. blkDev = upDev
    BY <1>5 DEF FailWrite, IInv, WriteOrder
  <2> QED
    BY <1>0, <1>5, <2>1, BrokenOff DEF FailWrite, Abort, storeVars, Quiet
<1>6. CASE EnableUserBoot
  BY <1>0, <1>6, QuietStep DEF EnableUserBoot, NextComponent, Abort, storeVars, Quiet
<1>7. CASE \E d \in Targets : SetTarget(d)
  BY <1>0, <1>7, QuietStep DEF SetTarget, storeVars, initVars, Quiet
<1>8. CASE \E list \in Commands : StartUpdate(list)
  BY <1>0, <1>8, QuietStep DEF StartUpdate, storeVars, Quiet
<1>9. CASE \E c \in Components, s \in Slots : Erase(c, s)
  BY <1>0, <1>9, EraseSafe
<1>10. CASE Interrupt
  BY <1>0, <1>10, QuietStep DEF Interrupt, storeVars, Quiet
<1>11. CASE Reset
  BY <1>0, <1>11, QuietStep DEF Reset, storeVars, updateVars, Quiet
<1>12. CASE PowerLoss
  <2>1. CASE Quiet
    BY <1>0, <1>12, <2>1, QuietStep DEF PowerLoss, storeVars, Quiet
  <2>2. CASE ~Quiet
    BY <1>0, <1>12, <2>2, BrokenOff DEF PowerLoss, storeVars, Quiet
  <2> QED
    BY <2>1, <2>2
<1>13. CASE UNCHANGED vars
  BY <1>13 DEF vars, storeVars, initVars, updateVars, IInv, TypeInv, TypeOK, Selected,
     DamageCounted, Busy, Whole, WriteOrder, PartKnown
<1> QED
  BY <1>1, <1>2, <1>3, <1>4, <1>5, <1>6, <1>7, <1>8, <1>9, <1>10, <1>11, <1>12, <1>13
  DEF Next, Updating, Operator

\* The inductive invariant holds in every behaviour of the board.
LEMMA Invariance == Spec => []IInv
<1>1. Init => IInv
  BY SafeInit
<1>2. IInv /\ [Next]_vars => IInv'
  BY SafeStep
<1> QED
  BY <1>1, <1>2, PTL DEF Spec

\* The two copies of a component without an accident are complete and alike,
\* whatever was updated, erased, reset or lost elsewhere.
THEOREM CopiesAgreeAlways == Spec => []CopiesAgree
<1>1. IInv => CopiesAgree
  BY DEF IInv, DamageCounted, CopiesAgree
<1> QED
  BY <1>1, Invariance, PTL

\* One broken-off update or one erasure never costs both copies of a
\* component, on any number of devices and through any number of faults.
THEOREM OneCopySurvivesAlways == Spec => []OneCopySurvives
<1>1. ASSUME IInv PROVE OneCopySurvives
  <2> SUFFICES ASSUME NEW d \in Devices, NEW c \in Components,
                      \A s \in Slots : ~Whole(d, c, s)
               PROVE  hurt[d][c] >= 2 \/ (hurt[d][c] >= 1 /\ Busy(d, c))
    BY DEF OneCopySurvives
  <2>1. hurt[d][c] \in 0 .. 2
    BY <1>1 DEF IInv, TypeInv, TypeOK
  <2>2. ~Whole(d, c, 0) /\ ~Whole(d, c, 1)
    BY DEF Slots, OBC_SLOT_A, OBC_SLOT_B
  <2>3. CASE ~Busy(d, c)
    BY <1>1, <2>1, <2>2, <2>3 DEF IInv, DamageCounted
  <2>4. CASE Busy(d, c)
    <3>1. file \in Files /\ copy \in Slots
      BY <1>1, <2>4 DEF Busy, IInv, TypeInv, TypeOK, Selected
    <3>2. hurt[d][c] # 0
      BY <1>1, <2>2, <2>4, <3>1, StoredLemma
      DEF Busy, IInv, WriteOrder, Whole, Slots, OBC_SLOT_A, OBC_SLOT_B
    <3> QED
      BY <2>1, <2>4, <3>2
  <2> QED
    BY <2>3, <2>4
<1> QED
  BY <1>1, Invariance, PTL

\* After a single accident on a device, or during one update, one slot is
\* complete in all its components: the board has something to start as a unit.
THEOREM SlotSurvivesAlways == Spec => []SlotSurvives
<1>1. ASSUME IInv PROVE SlotSurvives
  <2> DEFINE Accidents(d, c) == hurt[d][c] + (IF Busy(d, c) THEN 1 ELSE 0)
  <2> SUFFICES ASSUME NEW d \in Devices, NEW c0 \in Components, Accidents(d, c0) <= 1,
                      \A c \in Components \ {c0} : hurt[d][c] = 0 /\ ~Busy(d, c)
               PROVE  \E s \in Slots : \A c \in Components : Whole(d, c, s)
    BY DEF SlotSurvives
  <2>1. \A c \in Components \ {c0} : Whole(d, c, 0) /\ Whole(d, c, 1)
    BY <1>1 DEF IInv, DamageCounted
  <2>2. hurt[d][c0] \in 0 .. 2
    BY <1>1 DEF IInv, TypeInv, TypeOK
  <2>3. Whole(d, c0, 0) \/ Whole(d, c0, 1)
    <3>1. CASE ~Busy(d, c0)
      BY <1>1, <2>2, <3>1 DEF IInv, DamageCounted
    <3>2. CASE Busy(d, c0)
      <4>1. hurt[d][c0] = 0
        BY <2>2, <3>2
      <4>2. file \in Files /\ copy \in Slots
        BY <1>1, <3>2 DEF Busy, IInv, TypeInv, TypeOK, Selected
      <4> QED
        BY <1>1, <3>2, <4>1, <4>2, StoredLemma
        DEF Busy, IInv, WriteOrder, Whole, Slots, OBC_SLOT_A, OBC_SLOT_B
    <3> QED
      BY <3>1, <3>2
  <2> QED
    BY <2>1, <2>3 DEF Slots, OBC_SLOT_A, OBC_SLOT_B
<1> QED
  BY <1>1, Invariance, PTL

=============================================================================
