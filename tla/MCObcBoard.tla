----------------------------- MODULE MCObcBoard -----------------------------
(***************************************************************************)
(* Instances of ObcBoard for TLC: the command lists and the files that the *)
(* configurations choose from.                                             *)
(***************************************************************************)
EXTENDS ObcBoardRefines

CONSTANTS old, new, dud      \* three payloads; dud unpacks or boots to nothing

\* Commands an operator has.
OneComponent == {<<"fdt">>, <<"kernel">>}
KernelOnly == {<<"kernel">>}
EveryList == {<<"loader">>, <<"kernel">>, AllOrder}

\* Signed images only.
SignedFiles == {[fmt |-> "packed", img |-> new], [fmt |-> "bad", img |-> new]}
=============================================================================
