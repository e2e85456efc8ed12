--------------------------- MODULE OsalPoolProofs ---------------------------
(***************************************************************************)
(* Whatever the number of tasks and entries: a pool of the OSAL hands out  *)
(* no entry twice, loses none and refuses nobody without need, until an    *)
(* entry is handed out while another caller is about to reset the pool.    *)
(* As long as that has not happened the count is right, so that a caller   *)
(* that finds it zero finds the pool empty, and still does when it comes   *)
(* to its memset (ResetsEmpty).  A program whose main() keeps one object   *)
(* of the pool for good is never exposed to it.                            *)
(***************************************************************************)
EXTENDS OsalPool, FiniteSetTheorems, TLAPS

\* An entry is at hand exactly between the two ends of a create or a delete.
AtHand == \A t \in Owners : slot[t] # None <=> pc[t] \in {"construct", "release", "gone"}

\* It is no handle meanwhile.
NoHandleYet == \A t \in Owners : slot[t] \notin handles[t]

\* Who is about to reset the pool will find it empty.
ResetsEmpty == \A t \in Owners : pc[t] = "reset" => used = {}

Sound == OwnHandle /\ CountIsRight /\ NoHandleYet /\ ResetsEmpty

IInv == TypeOK /\ AtHand /\ (~overlapped => Sound)

\* The count is that of a finite set.
LEMMA CountPositive ==
  ASSUME TypeOK, Sound
  PROVE  /\ IsFiniteSet(used) /\ count = Cardinality(used) /\ count \in Nat
         /\ used # {} <=> count > 0
<1>1. IsFiniteSet(used) /\ count = Cardinality(used) /\ Cardinality(used) \in Nat
  BY PoolAssumption, FS_Subset, FS_CardinalityType DEF TypeOK, Sound, CountIsRight
<1>2. used # {} <=> Cardinality(used) # 0
  BY <1>1, FS_EmptySet
<1> QED BY <1>1, <1>2

LEMMA InitIInv == ASSUME Init PROVE IInv
<1>1. Cardinality({}) = 0
  BY FS_EmptySet
<1> QED BY <1>1, PoolAssumption
  DEF Init, IInv, TypeOK, Sound, OwnHandle, CountIsRight, AtHand, NoHandleYet,
      ResetsEmpty, Has, Owners

\* Types, whatever has happened.
LEMMA StepTypes ==
  ASSUME TypeOK, AtHand, NEW t \in Owners, Step(t), UNCHANGED started
  PROVE  TypeOK' /\ AtHand'
<1> USE PoolAssumption
<1>1. CASE TestCount(t) \/ Reset(t) \/ Construct(t) \/ DeleteSelf(t)
  BY <1>1 DEF TestCount, Reset, Construct, DeleteSelf, Goes, TypeOK, AtHand
<1>2. CASE Scan(t)
  <2>1. overlapped' \in BOOLEAN
    BY <1>2, Zenon DEF Scan, TypeOK
  <2> DEFINE Typed == /\ used' \subseteq Slots /\ count' \in Nat
                      /\ pc' \in [Owners -> {"idle", "reset", "scan", "construct",
                                             "release", "gone"}]
                      /\ slot' \in [Owners -> Slots \cup {None}]
                      /\ handles' \in [Owners -> SUBSET Slots]
                      /\ AtHand'
  <2>2. ASSUME NEW s \in Slots, Goes(t, "scan", "construct"),
               slot' = [slot EXCEPT ![t] = s], used' = used \cup {s},
               count' = count + 1, UNCHANGED handles
        PROVE  Typed
    BY <2>2 DEF Goes, TypeOK, AtHand
  <2>3. ASSUME Goes(t, "scan", "idle"), UNCHANGED <<used, count, slot, handles>>
        PROVE  Typed
    BY <2>3 DEF Goes, TypeOK, AtHand
  <2>4. Typed
    BY <1>2, <2>2, <2>3 DEF Scan
  <2> QED BY <2>1, <2>4 DEF TypeOK
<1>3. CASE ConstructFails(t) \/ Release(t)
  BY <1>3 DEF ConstructFails, Release, Goes, TypeOK, AtHand
<1>4. CASE TestUsed(t)
  BY <1>4 DEF TestUsed, Goes, TypeOK, AtHand
<1> QED BY <1>1, <1>2, <1>3, <1>4 DEF Step

\* A step that hands out nothing under a caller who is about to reset the pool
\* leaves the pool sound.
LEMMA StepSound ==
  ASSUME TypeOK, AtHand, Sound, NEW t \in Owners, Step(t), ~overlapped'
  PROVE  Sound'
<1> USE PoolAssumption
<1>0. /\ IsFiniteSet(used) /\ count = Cardinality(used) /\ count \in Nat
      /\ used # {} <=> count > 0
  BY CountPositive
<1>1. CASE TestCount(t)
  <2>1. /\ pc' = [pc EXCEPT ![t] = IF count = 0 THEN "reset" ELSE "scan"]
        /\ UNCHANGED <<used, count, slot, handles>>
    BY <1>1 DEF TestCount, Goes
  <2>2. ResetsEmpty'
    BY <1>0, <2>1 DEF TypeOK, Sound, ResetsEmpty
  <2> QED BY <2>1, <2>2 DEF Sound, OwnHandle, CountIsRight, NoHandleYet, Has
<1>2. CASE Reset(t)
  <2>1. /\ used = {} /\ used' = used /\ pc' = [pc EXCEPT ![t] = "scan"]
        /\ UNCHANGED <<count, slot, handles>>
    BY <1>2 DEF Reset, Goes, Sound, ResetsEmpty
  <2> QED BY <2>1 DEF TypeOK, Sound, OwnHandle, CountIsRight, NoHandleYet, ResetsEmpty, Has
<1>3. CASE Scan(t)
  <2>1. CASE UNCHANGED <<used, count, slot, handles>> /\ Goes(t, "scan", "idle")
    BY <2>1
    DEF Goes, TypeOK, Sound, OwnHandle, CountIsRight, NoHandleYet, ResetsEmpty, Has
  <2>2. ASSUME NEW s \in Slots \ used, Goes(t, "scan", "construct"),
               slot' = [slot EXCEPT ![t] = s], used' = used \cup {s},
               count' = count + 1, UNCHANGED handles,
               \A u \in Owners : pc[u] # "reset"
        PROVE  Sound'
    <3>1. Cardinality(used') = Cardinality(used) + 1
      BY <1>0, <2>2, FS_AddElement
    <3>2. Has(t)' = Has(t) \cup {s} /\ \A u \in Owners \ {t} : Has(u)' = Has(u)
      BY <2>2 DEF Goes, TypeOK, AtHand, Has
    <3>3. \A u \in Owners : s \notin Has(u) /\ s \notin handles[u]
      BY <2>2 DEF Sound, CountIsRight, Has
    <3>4. NoHandleYet' /\ ResetsEmpty'
      BY <2>2, <3>3 DEF Goes, TypeOK, Sound, NoHandleYet, ResetsEmpty
    <3>5. OwnHandle'
      BY <3>2, <3>3 DEF Sound, OwnHandle
    <3>6. CountIsRight'
      <4>1. count' = Cardinality(used')
        BY <1>0, <2>2, <3>1
      <4>2. \A r \in Slots : r \in used' <=>
              (\E u \in Owners : r \in Has(u)')
        BY <2>2, <3>2 DEF Sound, CountIsRight
      <4> QED BY <4>1, <4>2 DEF CountIsRight
    <3> QED BY <3>4, <3>5, <3>6 DEF Sound
  <2> QED BY <1>3, <2>1, <2>2 DEF Scan
<1>4. CASE Construct(t)
  <2>1. \A u \in Owners : Has(u)' = Has(u)
    BY <1>4 DEF Construct, Goes, TypeOK, AtHand, Has
  <2>2. NoHandleYet' /\ ResetsEmpty'
    BY <1>4 DEF Construct, Goes, TypeOK, AtHand, Sound, NoHandleYet, ResetsEmpty
  <2>3. OwnHandle' /\ CountIsRight'
    BY <1>4, <2>1 DEF Construct, Sound, OwnHandle, CountIsRight
  <2> QED BY <2>2, <2>3 DEF Sound
<1>5. CASE ConstructFails(t) \/ Release(t)
  <2>1. slot[t] \in Slots /\ slot[t] # None
    BY <1>5 DEF ConstructFails, Release, Goes, TypeOK, AtHand
  <2>2. slot[t] \in used
    BY <2>1 DEF Sound, CountIsRight, Has
  <2>3. /\ count > 0 /\ count' = count - 1
        /\ used' = used \ {slot[t]}
        /\ slot' = [slot EXCEPT ![t] = None]
        /\ UNCHANGED handles
        /\ pc' = [pc EXCEPT ![t] = "idle"]
    BY <1>0, <1>5, <2>2 DEF ConstructFails, Release, Goes
  <2>4. Cardinality(used') = Cardinality(used) - 1
    BY <1>0, <2>3, <2>2, FS_RemoveElement
  <2>5. /\ Has(t)' = Has(t) \ {slot[t]}
        /\ \A u \in Owners \ {t} : Has(u)' = Has(u) /\ slot[t] \notin Has(u)
    BY <2>1, <2>3 DEF TypeOK, Sound, NoHandleYet, OwnHandle, Has
  <2>6. NoHandleYet' /\ ResetsEmpty'
    BY <2>3 DEF TypeOK, Sound, NoHandleYet, ResetsEmpty
  <2>7. OwnHandle'
    BY <2>5 DEF Sound, OwnHandle
  <2>8. CountIsRight'
    <3>1. count' = Cardinality(used')
      BY <1>0, <2>3, <2>4
    <3>2. \A r \in Slots : r \in used' <=>
            (\E u \in Owners : r \in Has(u)')
      BY <2>3, <2>2, <2>5 DEF Sound, CountIsRight
    <3> QED BY <3>1, <3>2 DEF CountIsRight
  <2> QED BY <2>6, <2>7, <2>8 DEF Sound
<1>6. CASE TestUsed(t)
  <2>1. PICK s \in handles[t] :
          /\ Goes(t, "idle", IF s \in used THEN "release" ELSE "idle")
          /\ slot' = [slot EXCEPT ![t] = IF s \in used THEN s ELSE None]
          /\ handles' = [handles EXCEPT ![t] = @ \ {s}]
          /\ UNCHANGED <<used, count>>
    BY <1>6 DEF TestUsed
  <2>2. s \in Slots /\ s \in used
    BY DEF TypeOK, Sound, CountIsRight, Has
  <2>3. \A u \in Owners : Has(u)' = Has(u)
    BY <2>1, <2>2 DEF Goes, TypeOK, AtHand, Has
  <2>4. NoHandleYet' /\ ResetsEmpty'
    BY <2>1, <2>2 DEF Goes, TypeOK, Sound, NoHandleYet, ResetsEmpty
  <2>5. OwnHandle' /\ CountIsRight'
    BY <2>1, <2>3 DEF Sound, OwnHandle, CountIsRight
  <2> QED BY <2>4, <2>5 DEF Sound
<1>7. CASE DeleteSelf(t)
  BY <1>7
  DEF DeleteSelf, Goes, TypeOK, Sound, OwnHandle, CountIsRight, NoHandleYet, ResetsEmpty, Has
<1> QED BY <1>1, <1>2, <1>3, <1>4, <1>5, <1>6, <1>7 DEF Step

LEMMA NextIInv == ASSUME IInv, [Next]_vars PROVE IInv'
<1>1. ASSUME NEW t \in Owners, Step(t), UNCHANGED started PROVE IInv'
  <2>1. TypeOK' /\ AtHand'
    BY <1>1, StepTypes DEF IInv
  <2>2. ASSUME ~overlapped' PROVE Sound'
    <3>1. ~overlapped
      BY <1>1, <2>2 DEF Step, TestCount, Reset, Scan, Construct, ConstructFails,
                        TestUsed, Release, DeleteSelf
    <3> QED BY <1>1, <2>2, <3>1, StepSound DEF IInv
  <2> QED BY <2>1, <2>2 DEF IInv
<1>2. CASE UNCHANGED <<used, count, pc, slot, handles, overlapped>> /\ started' \in BOOLEAN
  BY <1>2 DEF IInv, TypeOK, AtHand, Sound, OwnHandle, CountIsRight, NoHandleYet,
              ResetsEmpty, Has
<1> QED BY <1>1, <1>2 DEF Next, Start, vars, Owners, IInv, TypeOK

LEMMA Inductive == Spec => []IInv
BY InitIInv, NextIInv, PTL DEF Spec

\* For any tasks and entries: until the schedule that overlapped names, every
\* handle that SemaphoreP_create gives out has one owner.
THEOREM HandlesAreOwn == Spec => []OwnUnlessOverlapped
<1>1. IInv => OwnUnlessOverlapped
  BY DEF IInv, Sound, OwnUnlessOverlapped
<1> QED BY <1>1, Inductive, PTL

\* Until then the allocation count is the number of entries in use, and these
\* are the entries somebody has.
THEOREM CountStaysRight == Spec => []CountUnlessOverlapped
<1>1. IInv => CountUnlessOverlapped
  BY DEF IInv, Sound, CountUnlessOverlapped
<1> QED BY <1>1, Inductive, PTL
-----------------------------------------------------------------------------
(* The pool keeps its promise.                                             *)

Promise == INSTANCE ObjectPool WITH holds <- [t \in Owners |-> Has(t)]

\* What a step does to the owners' entries, seen from the promise.
LEMMA StepPromise ==
  ASSUME TypeOK, AtHand, Sound, NEW t \in Owners, Step(t)
  PROVE  Promise!Take(t) \/ Promise!Give(t) \/ \A u \in Owners : Has(u)' = Has(u)
<1> USE PoolAssumption
<1>1. CASE TestCount(t) \/ Reset(t) \/ DeleteSelf(t)
  BY <1>1 DEF TestCount, Reset, DeleteSelf, Has
<1>2. CASE Scan(t)
  <2>1. ASSUME NEW s \in Slots \ used, Goes(t, "scan", "construct"),
               slot' = [slot EXCEPT ![t] = s], UNCHANGED handles
        PROVE  Promise!Take(t)
    <3>1. Has(t)' = Has(t) \cup {s} /\ \A u \in Owners \ {t} : Has(u)' = Has(u)
      BY <2>1 DEF Goes, TypeOK, AtHand, Sound, NoHandleYet, Has
    <3>2. s \in Promise!Free
      BY DEF Promise!Free, Sound, CountIsRight
    <3>3. [u \in Owners |-> Has(u)]'
            = [[u \in Owners |-> Has(u)] EXCEPT ![t] = @ \cup {s}]
      BY <3>1
    <3> QED BY <3>2, <3>3 DEF Promise!Take
  <2>2. CASE UNCHANGED <<used, count, slot, handles>>
    BY <2>2 DEF Has
  <2> QED BY <1>2, <2>1, <2>2 DEF Scan
<1>3. CASE Construct(t)
  BY <1>3 DEF Construct, Goes, TypeOK, AtHand, Sound, NoHandleYet, Has
<1>4. CASE ConstructFails(t) \/ Release(t)
  <2>1. slot[t] \in Slots /\ slot[t] # None
    BY <1>4 DEF ConstructFails, Release, Goes, TypeOK, AtHand
  <2>2. slot' = [slot EXCEPT ![t] = None] /\ UNCHANGED handles
    BY <1>4 DEF ConstructFails, Release
  <2>3. Has(t)' = Has(t) \ {slot[t]} /\ \A u \in Owners \ {t} : Has(u)' = Has(u)
    BY <2>1, <2>2 DEF TypeOK, AtHand, Sound, NoHandleYet, Has
  <2>4. [u \in Owners |-> Has(u)]'
          = [[u \in Owners |-> Has(u)] EXCEPT ![t] = @ \ {slot[t]}]
    BY <2>3
  <2>5. slot[t] \in [u \in Owners |-> Has(u)][t]
    BY <2>1 DEF Has
  <2> QED BY <2>4, <2>5 DEF Promise!Give
<1>5. CASE TestUsed(t)
  <2>1. PICK s \in handles[t] :
          /\ Goes(t, "idle", IF s \in used THEN "release" ELSE "idle")
          /\ slot' = [slot EXCEPT ![t] = IF s \in used THEN s ELSE None]
          /\ handles' = [handles EXCEPT ![t] = @ \ {s}]
    BY <1>5 DEF TestUsed
  <2>2. s \in Slots /\ s \in used
    BY DEF TypeOK, Sound, CountIsRight, Has
  <2> QED BY <2>1, <2>2 DEF Goes, TypeOK, AtHand, Sound, NoHandleYet, Has
<1> QED BY <1>1, <1>2, <1>3, <1>4, <1>5 DEF Step

LEMMA InitPromise == ASSUME Init PROVE Promise!Init
BY PoolAssumption DEF Init, Promise!Init, Has, Owners

LEMMA NextPromise ==
  ASSUME IInv, ~overlapped, [Next]_vars
  PROVE  [Promise!Next]_([t \in Owners |-> Has(t)])
<1>1. ASSUME NEW t \in Owners, Step(t)
      PROVE  Promise!Next \/ UNCHANGED [u \in Owners |-> Has(u)]
  <2>1. CASE Promise!Take(t) \/ Promise!Give(t)
    BY <2>1 DEF Promise!Next
  <2>2. CASE \A u \in Owners : Has(u)' = Has(u)
    BY <2>2
  <2> QED BY <1>1, <2>1, <2>2, StepPromise DEF IInv
<1>2. CASE UNCHANGED <<used, count, pc, slot, handles>>
  BY <1>2 DEF Has
<1> QED BY <1>1, <1>2 DEF Next, Start, vars, Owners

\* As long as no entry is handed out under a caller who is about to reset the
\* pool, SemaphoreP_create and SemaphoreP_delete implement ObjectPool: an entry
\* goes to one owner that no other has, is lost by none that did not delete
\* it, and comes back only from there.
THEOREM PoolKeepsItsPromise == Spec /\ []~overlapped => Promise!Spec
<1>1. IInv /\ ~overlapped /\ [Next]_vars => [Promise!Next]_([t \in Owners |-> Has(t)])
  BY NextPromise
<1> QED BY <1>1, InitPromise, Inductive, PTL DEF Spec, Promise!Spec

\* The scan of SemaphoreP_create refuses its caller only if every entry is with
\* somebody, a task that deleted itself included.
RefusedOnlyWhenFull ==
  [][\A t \in Owners :
       ~overlapped /\ pc[t] = "scan" /\ pc'[t] = "idle" =>
         \A s \in Slots : \E u \in Owners : s \in Has(u)]_vars

\* No caller gets NULL while an entry is free, as it would if a delete lost
\* one on the way; up to the schedule that overlapped names.
THEOREM NullOnlyWhenFull == Spec => RefusedOnlyWhenFull
<1>1. IInv /\ [Next]_vars =>
        \A t \in Owners :
          ~overlapped /\ pc[t] = "scan" /\ pc'[t] = "idle" =>
            \A s \in Slots : \E u \in Owners : s \in Has(u)
  <2> SUFFICES ASSUME IInv, [Next]_vars, NEW t \in Owners, ~overlapped,
                      pc[t] = "scan", pc'[t] = "idle"
               PROVE  used = Slots
    BY DEF IInv, Sound, CountIsRight
  <2>1. PICK u \in Owners : Step(u)
    BY DEF Next, Start, vars, Owners
  <2>2. u = t
    BY <2>1 DEF Step, TestCount, Reset, Scan, Construct, ConstructFails,
                TestUsed, Release, DeleteSelf, Goes, IInv, TypeOK
  <2>3. Scan(t)
    BY <2>1, <2>2 DEF Step, TestCount, Reset, Construct, ConstructFails,
                      TestUsed, Release, DeleteSelf, Goes, IInv, TypeOK
  <2> QED BY <2>3 DEF Scan, Goes, IInv, TypeOK
<1> QED BY <1>1, Inductive, PTL DEF Spec, RefusedOnlyWhenFull
-----------------------------------------------------------------------------
(* When the schedule cannot occur.                                         *)

\* main() has an object of the pool when it starts the scheduler.
KeepsOne == started => handles[Startup] # {}

\* main() is alone before the start and does nothing after it; no task is about
\* to reset the pool, or the count was zero after the start.
Alone ==
  /\ ~overlapped
  /\ \A t \in Tasks : pc[t] # "reset"
  /\ ~started => \A t \in Tasks : pc[t] = "idle"
  /\ started => pc[Startup] = "idle"

LEMMA NextAlone ==
  ASSUME IInv, Alone, KeepsOne, [Next]_vars
  PROVE  Alone'
<1> USE PoolAssumption DEF Owners
<1>1. started => count > 0
  <2>1. started => used # {}
    BY DEF IInv, Alone, TypeOK, Sound, CountIsRight, KeepsOne, Has
  <2> QED BY <2>1, CountPositive DEF IInv, Alone
<1>2. CASE ~started /\ Step(Startup) /\ UNCHANGED started
  BY <1>2 DEF Step, TestCount, Reset, Scan, Construct, ConstructFails, TestUsed,
              Release, DeleteSelf, Goes, IInv, TypeOK, Alone
<1>3. CASE Start
  BY <1>3 DEF Start, Alone
<1>4. ASSUME NEW t \in Tasks, started, Step(t), UNCHANGED started
      PROVE  Alone'
  <2>1. \A u \in Owners : pc[u] # "reset"
    BY <1>4 DEF Alone
  <2>2. overlapped' = overlapped
    BY <1>4, <2>1 DEF Step, TestCount, Reset, Scan, Construct, ConstructFails, TestUsed,
                      Release, DeleteSelf, IInv, TypeOK, Alone
  <2>3. \A u \in Owners : pc'[u] # "reset"
    BY <1>1, <1>4, <2>1 DEF Step, TestCount, Reset, Scan, Construct, ConstructFails,
                      TestUsed, Release, DeleteSelf, Goes, IInv, TypeOK
  <2>4. pc'[Startup] = pc[Startup]
    BY <1>4 DEF Step, TestCount, Reset, Scan, Construct, ConstructFails,
                TestUsed, Release, DeleteSelf, Goes, IInv, TypeOK
  <2> QED BY <1>4, <2>2, <2>3, <2>4 DEF Alone
<1>5. CASE UNCHANGED vars
  BY <1>5 DEF vars, Alone
<1> QED BY <1>2, <1>3, <1>4, <1>5 DEF Next

\* A program that keeps an object of the pool from before the start of the
\* scheduler gets handles that are each its owner's, under any schedule.
THEOREM KeptObjectIsEnough == Spec /\ []KeepsOne => []OwnHandle
<1>1. Init => Alone
  BY PoolAssumption DEF Init, Alone, Owners
<1>2. IInv /\ Alone /\ KeepsOne /\ [Next]_vars => Alone'
  BY NextAlone
<1>3. IInv /\ Alone => OwnHandle
  BY DEF IInv, Alone, Sound
<1> QED BY <1>1, <1>2, <1>3, Inductive, PTL DEF Spec
=============================================================================
