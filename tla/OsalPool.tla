------------------------------ MODULE OsalPool ------------------------------
(***************************************************************************)
(* The static pools from which the OSAL of the A53 FreeRTOS image hands    *)
(* out its objects: SemaphoreP_create and SemaphoreP_delete; the pools of  *)
(* MutexP and TaskP are kept the same way.  The scan of the pool runs      *)
(* with interrupts off and is one step; the reset of an unused pool comes  *)
(* before it and runs with interrupts on, so that other tasks may run      *)
(* between its test, the memset and the scan.  Nothing in the code keeps   *)
(* an entry from being handed out in between, which the memset then marks  *)
(* as free: overlapped says that this has happened.  What is particular to *)
(* TaskP is the task that deletes itself.                                  *)
(***************************************************************************)
EXTENDS Integers, FiniteSets

CONSTANTS
  Tasks,      \* tasks that create and delete objects
  Startup,    \* main(), which does so alone until the scheduler starts
  Slots,      \* the entries of the pool
  OfTasks,    \* is it the pool of TaskP?
  None        \* no entry

ASSUME PoolAssumption ==
  /\ IsFiniteSet(Slots)
  /\ Startup \notin Tasks
  /\ OfTasks \in BOOLEAN
  /\ None \notin Slots

Owners == Tasks \cup {Startup}

VARIABLES
  started,    \* does the scheduler run?
  used,       \* the entries whose flag is set
  count,      \* gOsalSemAllocCnt
  pc,         \* where each task is
  slot,       \* the entry a task has at hand, None without one
  handles,    \* the handles each task has been given and not deleted
  overlapped  \* history: an entry was handed out while another caller was
              \* between its test of the count and the end of its memset

vars == <<started, used, count, pc, slot, handles, overlapped>>

Init ==
  /\ started = FALSE
  /\ used = {} /\ count = 0
  /\ pc = [t \in Owners |-> "idle"]
  /\ slot = [t \in Owners |-> None]
  /\ handles = [t \in Owners |-> {}]
  /\ overlapped = FALSE

Goes(t, from, to) == pc[t] = from /\ pc' = [pc EXCEPT ![t] = to]
-----------------------------------------------------------------------------
(* SemaphoreP_create                                                       *)

\* Is this the first object?
TestCount(t) ==
  /\ Goes(t, "idle", IF count = 0 THEN "reset" ELSE "scan")
  /\ UNCHANGED <<used, count, slot, handles, overlapped>>

\* memset of the whole pool.
Reset(t) ==
  /\ Goes(t, "reset", "scan")
  /\ used' = {}
  /\ UNCHANGED <<count, slot, handles, overlapped>>

\* Between HwiP_disable and HwiP_restore: a free entry is marked, or the pool
\* is found full and the caller gets NULL.  The code takes the first; which
\* one it is matters to no property.
ScanIgnoresFlag(t) ==             \* mutant: the flag is not looked at
  \/ \E s \in Slots :
       /\ Goes(t, "scan", "construct")
       /\ slot' = [slot EXCEPT ![t] = s]
       /\ used' = used \cup {s}
       /\ count' = count + 1
       /\ overlapped' = (overlapped \/ \E u \in Owners : pc[u] = "reset")
       /\ UNCHANGED handles
  \/ /\ Goes(t, "scan", "idle")
     /\ used = Slots
     /\ UNCHANGED <<used, count, slot, handles, overlapped>>
Scan(t) ==
  \/ \E s \in Slots \ used :
       /\ Goes(t, "scan", "construct")
       /\ slot' = [slot EXCEPT ![t] = s]
       /\ used' = used \cup {s}
       /\ count' = count + 1
       /\ overlapped' = (overlapped \/ \E u \in Owners : pc[u] = "reset")
       /\ UNCHANGED handles
  \/ /\ Goes(t, "scan", "idle")
     /\ used = Slots
     /\ UNCHANGED <<used, count, slot, handles, overlapped>>

\* The FreeRTOS object is made in the entry, and its handle returned; where
\* that fails the entry is given back.
Construct(t) ==
  /\ Goes(t, "construct", "idle")
  /\ handles' = [handles EXCEPT ![t] = @ \cup {slot[t]}]
  /\ slot' = [slot EXCEPT ![t] = None]
  /\ UNCHANGED <<used, count, overlapped>>
ConstructFails(t) ==
  /\ Goes(t, "construct", "idle")
  /\ used' = used \ {slot[t]}
  /\ count' = IF count > 0 THEN count - 1 ELSE 0
  /\ slot' = [slot EXCEPT ![t] = None]
  /\ UNCHANGED <<handles, overlapped>>
-----------------------------------------------------------------------------
(* SemaphoreP_delete, by the task that has the handle                      *)

\* The flag is tested and the FreeRTOS object deleted with interrupts on.
TestUsed(t) ==
  \E s \in handles[t] :
    /\ Goes(t, "idle", IF s \in used THEN "release" ELSE "idle")
    /\ slot' = [slot EXCEPT ![t] = IF s \in used THEN s ELSE None]
    /\ handles' = [handles EXCEPT ![t] = @ \ {s}]
    /\ UNCHANGED <<used, count, overlapped>>

\* Between HwiP_disable and HwiP_restore.
ReleaseNoCount(t) ==              \* mutant: a deleted object is still counted
  /\ Goes(t, "release", "idle")
  /\ used' = used \ {slot[t]}
  /\ slot' = [slot EXCEPT ![t] = None]
  /\ UNCHANGED <<count, handles, overlapped>>
Release(t) ==
  /\ Goes(t, "release", "idle")
  /\ used' = used \ {slot[t]}
  /\ count' = IF count > 0 THEN count - 1 ELSE 0
  /\ slot' = [slot EXCEPT ![t] = None]
  /\ UNCHANGED <<handles, overlapped>>

\* TaskP_delete of the calling task: vTaskDelete does not return, and nobody
\* gives the entry back or corrects the count.
DeleteSelf(t) ==
  /\ OfTasks /\ t \in Tasks
  /\ Goes(t, "release", "gone")
  /\ UNCHANGED <<used, count, slot, handles, overlapped>>

Step(t) ==
  \/ TestCount(t) \/ Reset(t) \/ Scan(t) \/ Construct(t) \/ ConstructFails(t)
  \/ TestUsed(t) \/ Release(t) \/ DeleteSelf(t)

\* main() runs alone, starts the scheduler, and is never heard of again; it
\* may leave objects behind, or none, as that of the repository does.
Start ==
  /\ ~started /\ pc[Startup] = "idle"
  /\ started' = TRUE
  /\ UNCHANGED <<used, count, pc, slot, handles, overlapped>>

Next ==
  \/ ~started /\ Step(Startup) /\ UNCHANGED started
  \/ Start
  \/ \E t \in Tasks : started /\ Step(t) /\ UNCHANGED started

Spec == Init /\ [][Next]_vars
-----------------------------------------------------------------------------
\* The types of the pool and of its users; part of the inductive invariant.
TypeOK ==
  /\ used \subseteq Slots
  /\ count \in Nat
  /\ started \in BOOLEAN /\ overlapped \in BOOLEAN
  /\ pc \in [Owners -> {"idle", "reset", "scan", "construct", "release", "gone"}]
  /\ slot \in [Owners -> Slots \cup {None}]
  /\ handles \in [Owners -> SUBSET Slots]

\* What a task has: the handles it was given and the entry it is working on,
\* or took with it when it deleted itself.
Has(t) == handles[t] \cup ({slot[t]} \ {None})

\* A handle stands for one object of one owner: what SemaphoreP_create gave a
\* task, or main() before it, no other has until it is deleted.  That is what
\* SemaphoreP.h says of a handle, and it does not hold.
OwnHandle == \A t, u \in Owners : t # u => Has(t) \cap Has(u) = {}

\* The statistics are those of the pool, and no flag is lost or left behind.
CountIsRight ==
  /\ count = Cardinality(used)
  /\ \A s \in Slots : s \in used <=> \E t \in Owners : s \in Has(t)

\* One schedule alone makes two owners share an entry: a create that gets its
\* entry while another stands between the test of the count and the end of
\* the memset.  Creates that meet anywhere else, deletes that meet them, a
\* full pool, a construction that fails and a task that deletes itself do not,
\* and neither do resets of an empty pool at the same time.
OwnUnlessOverlapped == ~overlapped => OwnHandle

\* Nor does anything else upset the count, on which the next reset depends.
CountUnlessOverlapped == ~overlapped => CountIsRight
=============================================================================
