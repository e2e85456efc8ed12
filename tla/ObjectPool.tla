----------------------------- MODULE ObjectPool -----------------------------
(***************************************************************************)
(* What a pool promises its users: an entry is handed to one owner at a    *)
(* time, stays with it until it is given back, and can then be handed out  *)
(* again.  No entry comes from elsewhere and none is taken away.           *)
(***************************************************************************)
CONSTANTS
  Owners,     \* who may have entries
  Slots       \* the entries

VARIABLE holds   \* the entries each owner has

Init == holds = [o \in Owners |-> {}]

Free == Slots \ UNION {holds[o] : o \in Owners}

Take(o) == \E s \in Free : holds' = [holds EXCEPT ![o] = @ \cup {s}]

Give(o) == \E s \in holds[o] : holds' = [holds EXCEPT ![o] = @ \ {s}]

Next == \E o \in Owners : Take(o) \/ Give(o)

Spec == Init /\ [][Next]_holds
=============================================================================
