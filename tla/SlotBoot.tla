------------------------------ MODULE SlotBoot ------------------------------
(***************************************************************************)
(* What the two-slot start of a board promises, whatever the code does in  *)
(* between: a start tries the slot the flag names, as a unit; it comes up  *)
(* or it leaves the flag on the other slot; only a service at the prompt   *)
(* changes which slots are good.                                           *)
(***************************************************************************)
EXTENDS Naturals

Slot == {0, 1}

VARIABLES
  good,    \* the slots whose components are sound
  flag,    \* the slot the next start tries
  tried,   \* the slot this start tries
  mode     \* "off", "trying", "prompt", "up"

abVars == <<good, flag, tried, mode>>

TheOther(s) == 1 - s

Init == /\ good = Slot /\ flag \in Slot /\ tried \in Slot /\ mode = "off"

Start ==
  /\ mode = "off"
  /\ mode' = "trying" /\ tried' = flag
  /\ UNCHANGED <<good, flag>>

Succeed ==
  /\ mode = "trying" /\ tried \in good
  /\ mode' = "up"
  /\ UNCHANGED <<good, flag, tried>>

GiveUp ==
  /\ mode = "trying" /\ tried \notin good
  /\ mode' = "prompt" /\ flag' = TheOther(tried)
  /\ UNCHANGED <<good, tried>>

\* A key stops the automatic start.
Stopped ==
  /\ mode = "trying"
  /\ mode' = "prompt"
  /\ UNCHANGED <<good, flag, tried>>

\* At the prompt: an update or an erasure, or a start by hand.
Service == mode = "prompt" /\ good' \subseteq Slot /\ UNCHANGED <<flag, tried, mode>>
ByHand ==
  /\ mode = "prompt"
  /\ \/ mode' = "up" /\ UNCHANGED flag
     \/ mode' = "prompt" /\ flag' = TheOther(tried)
  /\ UNCHANGED <<good, tried>>

\* Reset or power loss: the slot of this start is forgotten.
Stop ==
  /\ mode # "off"
  /\ mode' = "off" /\ tried' \in Slot
  /\ UNCHANGED <<good, flag>>

Next == Start \/ Succeed \/ GiveUp \/ Stopped \/ Service \/ ByHand \/ Stop

Spec ==
  /\ Init /\ [][Next]_abVars
  /\ WF_abVars(Start)
  /\ WF_abVars(Succeed \/ GiveUp \/ Stopped)
  /\ WF_abVars(Stop /\ mode = "prompt")
=============================================================================
