------------------------------ MODULE ObcStore ------------------------------
(***************************************************************************)
(* The persistent storage of an AM62x board as U-Boot's obcbase code uses  *)
(* it: on every MMC device each firmware component has two copies, one per *)
(* slot (fdt0/fdt1, kernel0/kernel1, ...), and one `sysflag' block names   *)
(* the slot to boot (bootloader/obcbase/common/obc_blk.c).                 *)
(*                                                                         *)
(* Abstraction.  The bytes of a copy are reduced to what the code tells    *)
(* apart: whether its first block is an OBC header ("packed"), payload     *)
(* ("bare") or zeroes ("blank"), which image the payload is, and whether   *)
(* the last write of it ran to its end ("whole").  A copy that is not      *)
(* whole fails its CRC16; a collision of the checksum is left out.  The    *)
(* sysflag block is one sector, written atomically by the medium.          *)
(***************************************************************************)
EXTENDS Naturals, Sequences

CONSTANTS
  Devices,     \* the MMC devices: "emmc", "sd"
  Images,      \* the payloads
  Bootable,    \* the payloads that unzip, booti and the FDT parser accept
  None         \* "no value": a null pointer, an unset record

ASSUME StoreAssumption ==
  /\ "emmc" \in Devices
  /\ Bootable \subseteq Images
  /\ None \notin Devices /\ None \notin Images /\ None \notin {0, 1}

VARIABLES
  part,        \* part[d][c][s]: what copy s of component c on device d holds
  sysflag      \* sysflag[d]: the boot slot recorded on device d

storeVars == <<part, sysflag>>

\* The components with an A and a B copy in the device tree's obc-mmc table.
Components == {"loader", "fdt", "teeos", "uboot", "kernel", "rootfs"}

OBC_SLOT_A == 0
OBC_SLOT_B == 1
Slots == {OBC_SLOT_A, OBC_SLOT_B}

\* obc_slot_switch: the slot written is the other one of its ARGUMENT, not of
\* what the sysflag block holds.
OtherByOne(s) == s + 1            \* mutant: no wrap
OtherIsB(s) == OBC_SLOT_B         \* mutant: always B
Other(s) == IF s = OBC_SLOT_A THEN OBC_SLOT_B ELSE OBC_SLOT_A

Content == [fmt : {"packed", "bare", "blank"}, img : Images \cup {None}, whole : BOOLEAN]

\* An erased partition: zeroes.
Blank == [fmt |-> "blank", img |-> None, whole |-> FALSE]

\* A copy while it is being written, or whose writing was interrupted.
Torn(content) == [content EXCEPT !.whole = FALSE]

\* The loader and the root filesystem are stored without their OBC header
\* (head_write_flag 0), the other components with it.
StoredBare(c) == c \in {"loader", "rootfs"}

\* obc_blk_read_part_by_name accepts a copy: magic, size and CRC16 are right.
ReadPartOK(d, c, s) == part[d][c][s].fmt = "packed" /\ part[d][c][s].whole

\* A file handed to `updatex': head_write_flag 1 ("packed"), 0 ("strip"), no
\* OBC header at all ("raw"), or one that obc_prepare_write_image refuses
\* ("bad": truncated, wrong length, wrong flag, wrong CRC16).
FileFormats == {"packed", "strip", "raw", "bad"}
FileType == [fmt : FileFormats, img : Images]

\* The checks of obc_prepare_write_image and, for the root filesystem, of
\* obc_blk_write_rootfs_by_name, which wants head_write_flag = 0.
PrepareOK(c, f) == f.fmt # "bad" /\ (c = "rootfs" => f.fmt # "packed")

\* What a finished write of file f leaves in a copy.
Stored(f) ==
  [fmt |-> IF f.fmt = "packed" THEN "packed" ELSE "bare", img |-> f.img, whole |-> TRUE]

\* One copy of one component of one device is rewritten.
SetCopies(d, c, s, content) ==    \* mutant: both labels at one address
  part' = [part EXCEPT ![d][c] = [t \in Slots |-> content]]
SetCopy(d, c, s, content) == part' = [part EXCEPT ![d][c][s] = content]
=============================================================================
