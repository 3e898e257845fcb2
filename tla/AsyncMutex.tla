----------------------------- MODULE AsyncMutex -----------------------------
(***************************************************************************)
(* The asynchronous mutex of src/mutex.rs, as operators on a record.  A    *)
(* future that finds it locked, or whose operation says "not yet", leaves  *)
(* its waker; dropping the Lock wakes them all.  MultiWakerRegistration of *)
(* embassy-sync is external: a task is stored once, and when no slot is    *)
(* free the stored ones are woken to make room.                            *)
(***************************************************************************)
EXTENDS Naturals, FiniteSets

CONSTANT WAKERS         \* slots of the registration

ASSUME WakersAssumption == WAKERS \in Nat \ {0}

NewMutex == [locked |-> FALSE, wakers |-> {}]

\* MultiWakerRegistration::register: the tasks it stores and those it wakes.
HasSlot(m, t) == t \in m.wakers \/ Cardinality(m.wakers) < WAKERS
register(m, t) == [m EXCEPT !.wakers = IF HasSlot(m, t) THEN @ \cup {t} ELSE {t}]
Evicted(m, t) == IF HasSlot(m, t) THEN {} ELSE m.wakers

\* poll_lock(): the Lock is handed out.
poll_lock(m) == [m EXCEPT !.locked = TRUE]

\* Drop of the Lock; the caller wakes m.wakers.
LockDrop(m) == [locked |-> FALSE, wakers |-> {}]

\* mutant: the lock is released, nobody is told
Woken_by_drop_none(m) == {}

Woken_by_drop(m) == m.wakers

=============================================================================
