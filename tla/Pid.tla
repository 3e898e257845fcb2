-------------------------------- MODULE Pid --------------------------------
(***************************************************************************)
(* The packet-identifier pool of src/state/pid.rs.  One static PidPool is  *)
(* shared by every client and by the event loop; each call runs inside a   *)
(* critical section, so one call is one step.  The operators below are     *)
(* actions on the pool; the modules that take identifiers conjoin them     *)
(* with their own steps.                                                   *)
(***************************************************************************)
EXTENDS Naturals, Sequences

CONSTANTS
    PoolSize,   \* PID_POOL_SIZE: how many returned identifiers are kept
    MaxPid      \* u16::MAX

ASSUME PidAssumption == PoolSize \in Nat /\ MaxPid \in Nat \ {0}

VARIABLES
    pool,           \* returned identifiers, handed out again in FIFO order
    next_new_pid    \* the lowest identifier that was never handed out

pidVars == <<pool, next_new_pid>>

\* take() panics instead of handing out u16::MAX, so it is never a packet id.
Pids == 1 .. MaxPid - 1

PidTypeOK ==
    /\ pool \in Seq(Pids)
    /\ Len(pool) <= PoolSize
    /\ next_new_pid \in 1 .. MaxPid

PidInit ==
    /\ pool = <<>>
    /\ next_new_pid = 1

-----------------------------------------------------------------------------
\* Plausible mistakes, used only to show that the properties notice them.
next_pid_without_pop(pid) ==
    \/ /\ pool # <<>>
       /\ pid = Head(pool)
       /\ UNCHANGED <<pool, next_new_pid>>
    \/ /\ pool = <<>> /\ next_new_pid # MaxPid
       /\ pid = next_new_pid /\ next_new_pid' = next_new_pid + 1 /\ UNCHANGED pool

next_pid_ignoring_pool(pid) ==
    /\ next_new_pid # MaxPid
    /\ pid = next_new_pid /\ next_new_pid' = next_new_pid + 1 /\ UNCHANGED pool

take_not_counting(pid) ==
    /\ next_new_pid # MaxPid
    /\ pid = next_new_pid
    /\ UNCHANGED <<pool, next_new_pid>>

free_pid_unbounded(pid) ==
    /\ pool' = Append(pool, pid)
    /\ UNCHANGED next_new_pid

free_pid_off_by_one(pid) ==
    /\ pool' = IF Len(pool) + 1 < PoolSize THEN Append(pool, pid) ELSE pool
    /\ UNCHANGED next_new_pid

-----------------------------------------------------------------------------
\* Hand out an identifier that was never used.  At u16::MAX the code panics
\* before it changes anything: see used_complete_pid_pool.
take(pid) ==
    /\ next_new_pid # MaxPid
    /\ pid = next_new_pid
    /\ next_new_pid' = next_new_pid + 1
    /\ UNCHANGED pool

next_pid(pid) ==
    \/ /\ pool # <<>>
       /\ pid = Head(pool)
       /\ pool' = Tail(pool)
       /\ UNCHANGED next_new_pid
    \/ /\ pool = <<>>
       /\ take(pid)

\* The condition under which next_pid() panics.
used_complete_pid_pool == pool = <<>> /\ next_new_pid = MaxPid

\* An identifier that finds the pool full is lost for ever.
free_pid(pid) ==
    /\ pool' = IF Len(pool) < PoolSize THEN Append(pool, pid) ELSE pool
    /\ UNCHANGED next_new_pid

=============================================================================
