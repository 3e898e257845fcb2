------------------------------ MODULE PidUsers ------------------------------
(***************************************************************************)
(* The pool of module Pid with everybody who takes identifiers from it: a  *)
(* publish or a (un)subscribe request holds one from next_pid() until the  *)
(* last acknowledgement is processed.  Auto-subscriptions, a publish call  *)
(* that is cancelled, and a publish dropped on QueueFull abandon theirs.   *)
(***************************************************************************)
EXTENDS Pid, FiniteSets

CONSTANTS
    Users,      \* the requests that hold at most one identifier at a time
    MaxAbandon  \* bound: how many identifiers are abandoned in a behaviour

NoPid == 0

VARIABLES
    held,       \* held[u]: the identifier user u holds, or NoPid
    abandoned,  \* the identifiers no one will ever return
    panicked    \* next_pid() found neither a returned nor a new identifier

vars == <<pool, next_new_pid, held, abandoned, panicked>>

ASSUME UsersAssumption == MaxAbandon \in Nat

Init ==
    /\ PidInit
    /\ held = [u \in Users |-> NoPid]
    /\ abandoned = {}
    /\ panicked = FALSE

\* A request takes its identifier.
Acquire(u) ==
    /\ ~panicked
    /\ held[u] = NoPid
    /\ \E pid \in Pids :
          /\ next_pid(pid)
          /\ held' = [held EXCEPT ![u] = pid]
    /\ UNCHANGED <<abandoned, panicked>>

\* A request asks when all identifiers are gone: the process panics.
Exhaust(u) ==
    /\ ~panicked
    /\ held[u] = NoPid
    /\ used_complete_pid_pool
    /\ panicked' = TRUE
    /\ UNCHANGED <<pool, next_new_pid, held, abandoned>>

\* The last acknowledgement of the request was processed.
Release(u) ==
    /\ ~panicked
    /\ held[u] # NoPid
    /\ free_pid(held[u])
    /\ held' = [held EXCEPT ![u] = NoPid]
    /\ UNCHANGED <<abandoned, panicked>>

\* The request ends without free_pid().
Abandon(u) ==
    /\ ~panicked
    /\ held[u] # NoPid
    /\ Cardinality(abandoned) < MaxAbandon
    /\ abandoned' = abandoned \cup {held[u]}
    /\ held' = [held EXCEPT ![u] = NoPid]
    /\ UNCHANGED <<pool, next_new_pid, panicked>>

Next ==
    \E u \in Users : Acquire(u) \/ Exhaust(u) \/ Release(u) \/ Abandon(u)

Spec == Init /\ [][Next]_vars

-----------------------------------------------------------------------------
TypeOK ==
    /\ PidTypeOK
    /\ held \in [Users -> Pids \cup {NoPid}]
    /\ abandoned \in SUBSET Pids
    /\ panicked \in BOOLEAN

Pooled == {pool[i] : i \in 1 .. Len(pool)}
HeldPids == {held[u] : u \in Users} \ {NoPid}

\* Every identifier has one owner: no two requests hold the same one, none
\* that is held or abandoned is in the pool, and none is in the pool twice.
\* MQTT requires it of the ids of unacknowledged packets; in pid.rs it rests
\* on the FIFO pool and the counter never meeting.
OneOwner ==
    /\ \A u, v \in Users : held[u] = held[v] /\ held[u] # NoPid => u = v
    /\ \A i, j \in 1 .. Len(pool) : pool[i] = pool[j] => i = j
    /\ Pooled \cap HeldPids = {}
    /\ abandoned \cap (Pooled \cup HeldPids) = {}

\* The identifiers that were handed out once and can never come back.
Lost == (1 .. next_new_pid - 1) \ (Pooled \cup HeldPids)

\* A new identifier is only taken when every one that can still be used is in
\* use: the counter never runs ahead of the requests by more than what was
\* lost, so next_pid() creeps towards its panic only by losing identifiers.
NoCreep == next_new_pid <= Cardinality(Users) + Cardinality(Lost) + 1

\* An identifier is lost only by the two branches that lose it: the pool is
\* full when it is returned, or its owner abandons it.  Identifiers are never
\* un-lost, so a lost one is never handed out again.
LossStep ==
    /\ Lost \subseteq Lost'
    /\ Lost' # Lost => Len(pool) = PoolSize \/ abandoned' # abandoned
LossOnlyWhenFull == [][LossStep]_vars

=============================================================================
