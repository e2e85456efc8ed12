----------------------------- MODULE MCSysInfo -----------------------------
(***************************************************************************)
(* An instance of SysInfo for TLC: nothing tells one host from another     *)
(* before it has sent.                                                     *)
(***************************************************************************)
EXTENDS SysInfo, TLC

Hosts == Permutations(Devices)
=============================================================================
