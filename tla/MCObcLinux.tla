----------------------------- MODULE MCObcLinux -----------------------------
(***************************************************************************)
(* Instances of AppfsStart for TLC: the board with Linux on it, checked    *)
(* against the same abstract two-slot start.                               *)
(***************************************************************************)
EXTENDS MCObcBoard, AppfsStart

\* Commands that damage one component of each kind of reader: U-Boot reads
\* fdt and kernel, Linux reads rootfs.
EachReader == {<<"fdt">>, <<"kernel">>, <<"rootfs">>}
SoundOrDud == [fmt : {"packed", "strip"}, img : {new, dud}]

\* Both slots: new or with applications, and of another kind in slot B.
FirstAppfs ==
  {[s \in Slots |-> IF s = 0 THEN a ELSE b] : <<a, b>> \in {<<"blank", "other">>, <<"ext4", "ailing">>}}
BothSound == {[s \in Slots |-> "ext4"]}
=============================================================================
