--------------------------- MODULE PidUsersProofs ---------------------------
(***************************************************************************)
(* Every packet id has one owner, for any number of users, any pool size   *)
(* and any u16::MAX.                                                       *)
(*                                                                         *)
(* OneOwner is not inductive: it does not say that the counter is ahead of *)
(* every id that was handed out, which is what keeps take() from meeting   *)
(* one that is held or pooled.  PidInv adds that.                          *)
(***************************************************************************)
EXTENDS PidUsers, FiniteSetTheorems, TLAPS

\* What OneOwner says, id by id.
Apart ==
    /\ \A u, v \in Users : held[u] = held[v] /\ held[u] # NoPid => u = v
    /\ \A k, l \in 1 .. Len(pool) : pool[k] = pool[l] => k = l
    /\ \A u \in Users : \A k \in 1 .. Len(pool) : held[u] # pool[k]
    /\ \A p \in abandoned :
          /\ \A k \in 1 .. Len(pool) : pool[k] # p
          /\ \A u \in Users : held[u] # p

\* Every id in use was handed out by the counter.
Below ==
    /\ \A k \in 1 .. Len(pool) : pool[k] < next_new_pid
    /\ \A u \in Users : held[u] < next_new_pid
    /\ \A p \in abandoned : p < next_new_pid

PidInv == TypeOK /\ Apart /\ Below

-----------------------------------------------------------------------------
\* Taking the head of the pool, as next_pid() does, keeps the rest in place.
LEMMA TailFacts ==
    ASSUME NEW S, NEW s \in Seq(S), s # <<>>
    PROVE  /\ Tail(s) \in Seq(S)
           /\ Len(Tail(s)) = Len(s) - 1
           /\ Len(s) \in Nat \ {0}
           /\ Head(s) = s[1]
           /\ s[1] \in S
           /\ \A k \in 1 .. Len(s) - 1 : Tail(s)[k] = s[k + 1]
OBVIOUS

\* push_back of a returned id.
LEMMA AppendFacts ==
    ASSUME NEW S, NEW s \in Seq(S), NEW e \in S
    PROVE  /\ Append(s, e) \in Seq(S)
           /\ Len(Append(s, e)) = Len(s) + 1
           /\ \A k \in 1 .. Len(s) : Append(s, e)[k] = s[k]
           /\ Append(s, e)[Len(s) + 1] = e
OBVIOUS

\* The initial pool: empty, nothing held.
LEMMA InitPidInv == Init => PidInv
<1> SUFFICES ASSUME Init PROVE PidInv
  OBVIOUS
<1>1. pool = <<>> /\ Len(pool) = 0 /\ pool \in Seq(Pids)
  BY DEF Init, PidInit
<1>2. PidTypeOK
  BY <1>1, PidAssumption DEF Init, PidInit, PidTypeOK
<1>3. TypeOK
  BY <1>2 DEF Init, TypeOK
<1>4. Apart /\ Below
  BY <1>1 DEF Init, PidInit, Apart, Below, NoPid
<1> QED BY <1>3, <1>4 DEF PidInv

\* A request gets the id at the head of the pool: it leaves the pool.
LEMMA AcquireFromPool ==
    ASSUME PidInv, NEW u \in Users, NEW pid \in Pids, held[u] = NoPid,
           pool # <<>>, pid = Head(pool), pool' = Tail(pool),
           UNCHANGED <<next_new_pid, abandoned, panicked>>,
           held' = [held EXCEPT ![u] = pid]
    PROVE  PidInv'
<1> USE PidAssumption DEF PidInv, TypeOK, PidTypeOK, Pids, NoPid
<1>1. /\ Tail(pool) \in Seq(Pids)
      /\ Len(Tail(pool)) = Len(pool) - 1
      /\ Len(pool) \in Nat \ {0}
      /\ pid = pool[1]
      /\ \A k \in 1 .. Len(pool) - 1 : Tail(pool)[k] = pool[k + 1]
  BY TailFacts
<1>2. TypeOK'
  BY <1>1
<1>3. Apart'
  BY <1>1 DEF Apart
<1>4. Below'
  BY <1>1 DEF Below
<1> QED BY <1>2, <1>3, <1>4

\* A request gets the next new id: it is above every id in use.
LEMMA AcquireNew ==
    ASSUME PidInv, NEW u \in Users, NEW pid \in Pids, held[u] = NoPid,
           take(pid),
           UNCHANGED <<abandoned, panicked>>,
           held' = [held EXCEPT ![u] = pid]
    PROVE  PidInv'
<1> USE PidAssumption DEF PidInv, TypeOK, PidTypeOK, Pids, NoPid, take
<1>1. TypeOK'
  OBVIOUS
<1>2. Apart'
  BY DEF Apart, Below
<1>3. Below'
  BY DEF Below
<1> QED BY <1>1, <1>2, <1>3

\* A request returns its id: it changes owner, or is lost.
LEMMA ReleaseStep ==
    ASSUME PidInv, NEW u \in Users, Release(u)
    PROVE  PidInv'
<1> USE PidAssumption DEF PidInv, TypeOK, PidTypeOK, NoPid, Release, free_pid
<1>1. CASE Len(pool) < PoolSize
  <2>1. pool' = Append(pool, held[u]) /\ held[u] \in Pids /\ pool \in Seq(Pids)
    BY <1>1
  <2>2. /\ Len(pool') = Len(pool) + 1
        /\ pool' \in Seq(Pids)
        /\ \A k \in 1 .. Len(pool) : pool'[k] = pool[k]
        /\ pool'[Len(pool) + 1] = held[u]
    BY <2>1, AppendFacts
  <2>3. TypeOK'
    BY <1>1, <2>2
  <2>4. Apart'
    BY <2>1, <2>2 DEF Apart, Pids
  <2>5. Below'
    BY <2>1, <2>2 DEF Below, Pids
  <2> QED BY <2>3, <2>4, <2>5
<1>2. CASE ~(Len(pool) < PoolSize)
  <2>1. TypeOK' /\ pool' = pool
    BY <1>2
  <2>2. Apart'
    BY <2>1 DEF Apart, Pids
  <2>3. Below'
    BY <2>1 DEF Below, Pids
  <2> QED BY <2>1, <2>2, <2>3
<1> QED BY <1>1, <1>2

\* A request abandons its id: nobody has it from then on.
LEMMA AbandonStep ==
    ASSUME PidInv, NEW u \in Users, Abandon(u)
    PROVE  PidInv'
<1> USE DEF PidInv, TypeOK, NoPid, Abandon
<1>1. held[u] \in Pids
  OBVIOUS
<1>2. TypeOK'
  BY <1>1 DEF PidTypeOK
<1>3. Apart'
  BY <1>1, PidAssumption DEF Apart, Pids, PidTypeOK
<1>4. Below'
  BY <1>1, PidAssumption DEF Below, Pids, PidTypeOK
<1> QED BY <1>2, <1>3, <1>4

\* One step of the pool and its users preserves PidInv.
LEMMA NextPidInv == PidInv /\ [Next]_vars => PidInv'
<1> SUFFICES ASSUME PidInv, [Next]_vars PROVE PidInv'
  OBVIOUS
<1>1. ASSUME NEW u \in Users, Acquire(u) PROVE PidInv'
  <2>1. PICK pid \in Pids : next_pid(pid) /\ held' = [held EXCEPT ![u] = pid]
    BY <1>1 DEF Acquire
  <2>2. CASE pool = <<>> /\ take(pid)
    BY <1>1, <2>1, <2>2, AcquireNew DEF Acquire
  <2>3. CASE pool # <<>> /\ pid = Head(pool) /\ pool' = Tail(pool) /\ UNCHANGED next_new_pid
    BY <1>1, <2>1, <2>3, AcquireFromPool DEF Acquire
  <2> QED BY <2>1, <2>2, <2>3 DEF next_pid
<1>2. ASSUME NEW u \in Users, Exhaust(u) PROVE PidInv'
  BY <1>2 DEF Exhaust, PidInv, TypeOK, PidTypeOK, Apart, Below
<1>3. ASSUME NEW u \in Users, Release(u) PROVE PidInv'
  BY <1>3, ReleaseStep
<1>4. ASSUME NEW u \in Users, Abandon(u) PROVE PidInv'
  BY <1>4, AbandonStep
<1>5. CASE UNCHANGED vars
  BY <1>5 DEF vars, PidInv, TypeOK, PidTypeOK, Apart, Below
<1> QED BY <1>1, <1>2, <1>3, <1>4, <1>5 DEF Next

\* Apart says of single ids what OneOwner says of the sets of them.
LEMMA PidInvImplies == PidInv => TypeOK /\ OneOwner
BY DEF PidInv, Apart, OneOwner, Pooled, HeldPids

\* The inductive invariant holds in every reachable state of the pool.
THEOREM PidInvHolds == Spec => []PidInv
BY InitPidInv, NextPidInv, PTL DEF Spec

\* pid.rs keeps its types: the pool never holds more than POOL_SIZE ids, all
\* between 1 and u16::MAX - 1.
THEOREM PidTypeCorrect == Spec => []TypeOK
BY PidInvHolds, PidInvImplies, PTL

\* next_pid() never hands out an id that is in use, in the pool or abandoned,
\* for any number of concurrent requests.
THEOREM OneOwnerHolds == Spec => []OneOwner
BY PidInvHolds, PidInvImplies, PTL

-----------------------------------------------------------------------------
\* A lost id is one the counter has passed and that nobody has.
LEMMA LostIffUnowned ==
    ASSUME TypeOK, NEW p
    PROVE  p \in Lost <=>
              /\ p \in 1 .. next_new_pid - 1
              /\ \A k \in 1 .. Len(pool) : pool[k] # p
              /\ \A u \in Users : held[u] # p
<1>1. p \in 1 .. next_new_pid - 1 => p # NoPid
  BY DEF NoPid, TypeOK, PidTypeOK
<1> QED BY <1>1 DEF Lost, Pooled, HeldPids

\* No step brings a lost id back, and only the two losing branches lose one.
LEMMA LossStepHolds == PidInv /\ PidInv' /\ [Next]_vars => [LossStep]_vars
<1> SUFFICES ASSUME PidInv, PidInv', Next PROVE LossStep
  BY DEF vars
<1>0. TypeOK /\ TypeOK'
  BY DEF PidInv
<1>a. \A p : p \in Lost <=>
              /\ p \in 1 .. next_new_pid - 1
              /\ \A k \in 1 .. Len(pool) : pool[k] # p
              /\ \A u \in Users : held[u] # p
  BY <1>0, LostIffUnowned
<1>b. \A p : p \in Lost' <=>
              /\ p \in 1 .. next_new_pid' - 1
              /\ \A k \in 1 .. Len(pool') : pool'[k] # p
              /\ \A u \in Users : held'[u] # p
  BY <1>0 DEF Lost, Pooled, HeldPids, NoPid, TypeOK, PidTypeOK
<1>1. ASSUME NEW u \in Users, Acquire(u) PROVE Lost' = Lost
  <2>1. PICK pid \in Pids : next_pid(pid) /\ held' = [held EXCEPT ![u] = pid]
    BY <1>1 DEF Acquire
  <2>0. /\ held'[u] = pid
        /\ held[u] = NoPid
        /\ \A v \in Users \ {u} : held'[v] = held[v]
    BY <1>0, <1>1, <2>1 DEF Acquire, TypeOK
  <2>2. CASE pool = <<>> /\ take(pid)
    <3>1. pool' = pool /\ pid = next_new_pid /\ next_new_pid' = next_new_pid + 1
      BY <2>2 DEF take
    <3>2. next_new_pid \in Nat \ {0}
      BY <1>0 DEF TypeOK, PidTypeOK
    <3>3. \A p : p \in Lost' <=> p \in Lost
      BY <1>a, <1>b, <2>0, <3>1, <3>2 DEF NoPid, PidInv, Below
    <3> QED BY <3>3
  <2>3. CASE pool # <<>> /\ pid = Head(pool) /\ pool' = Tail(pool) /\ UNCHANGED next_new_pid
    <3>1. /\ Len(pool') = Len(pool) - 1
          /\ Len(pool) \in Nat \ {0}
          /\ pid = pool[1]
          /\ \A k \in 1 .. Len(pool) - 1 : pool'[k] = pool[k + 1]
      BY <1>0, <2>3, TailFacts DEF TypeOK, PidTypeOK
    <3>2. \A p : (\A k \in 1 .. Len(pool) : pool[k] # p)
                  <=> pid # p /\ \A k \in 1 .. Len(pool') : pool'[k] # p
      <4>1. \A k \in 1 .. Len(pool) : k = 1 \/ (k - 1 \in 1 .. Len(pool') /\ pool[k] = pool'[k - 1])
        BY <3>1
      <4>2. \A k \in 1 .. Len(pool') : k + 1 \in 1 .. Len(pool) /\ pool'[k] = pool[k + 1]
        BY <3>1
      <4>3. 1 \in 1 .. Len(pool)
        BY <3>1
      <4> QED BY <3>1, <4>1, <4>2, <4>3
    <3>3. \A p : p \in 1 .. next_new_pid - 1 => p # NoPid
      BY <1>0 DEF NoPid, TypeOK, PidTypeOK
    <3>4. \A p : p \in Lost' <=> p \in Lost
      BY <1>a, <1>b, <2>0, <2>3, <3>2, <3>3
    <3> QED BY <3>4
  <2> QED BY <2>1, <2>2, <2>3 DEF next_pid
<1>2. ASSUME NEW u \in Users, Exhaust(u) PROVE Lost' = Lost
  BY <1>2 DEF Exhaust, Lost, Pooled, HeldPids
<1>3. ASSUME NEW u \in Users, Release(u) PROVE LossStep
  <2>0. /\ held[u] \in Pids
        /\ held'[u] = NoPid
        /\ \A v \in Users \ {u} : held'[v] = held[v]
        /\ next_new_pid' = next_new_pid
    BY <1>0, <1>3 DEF Release, free_pid, TypeOK
  <2>3. \A p : p \in 1 .. next_new_pid - 1 => p # NoPid
    BY <1>0 DEF NoPid, TypeOK, PidTypeOK
  <2>1. CASE Len(pool) < PoolSize
    <3>1. pool' = Append(pool, held[u]) /\ pool \in Seq(Pids)
      BY <1>0, <1>3, <2>1 DEF Release, free_pid, TypeOK, PidTypeOK
    <3>2. /\ Len(pool') = Len(pool) + 1
          /\ Len(pool) \in Nat
          /\ \A k \in 1 .. Len(pool) : pool'[k] = pool[k]
          /\ pool'[Len(pool) + 1] = held[u]
      BY <2>0, <3>1, AppendFacts
    <3>3. \A p : (\A k \in 1 .. Len(pool') : pool'[k] # p)
                  <=> held[u] # p /\ \A k \in 1 .. Len(pool) : pool[k] # p
      BY <3>2
    <3>5. \A p \in 1 .. next_new_pid - 1 :
             (\A v \in Users : held[v] # p)
                 <=> held[u] # p /\ \A v \in Users : held'[v] # p
      BY <2>0, <2>3
    <3>4. \A p : p \in Lost' <=> p \in Lost
      BY <1>a, <1>b, <2>0, <3>3, <3>5
    <3>6. Lost' = Lost
      BY <3>4
    <3> QED BY <3>6 DEF LossStep
  <2>2. CASE ~(Len(pool) < PoolSize)
    <3>0. pool' = pool
      BY <1>3, <2>2 DEF Release, free_pid
    <3>1. pool' = pool /\ Len(pool) = PoolSize
      <4>1. Len(pool) \in Nat /\ Len(pool) <= PoolSize
        BY <1>0 DEF TypeOK, PidTypeOK
      <4> QED BY <2>2, <3>0, <4>1, PidAssumption
    <3>2. \A p : p \in Lost => p \in Lost'
      BY <1>a, <1>b, <2>0, <2>3, <3>1
    <3> QED BY <3>1, <3>2 DEF LossStep
  <2> QED BY <2>1, <2>2
<1>4. ASSUME NEW u \in Users, Abandon(u) PROVE LossStep
  <2>0. /\ held'[u] = NoPid
        /\ \A v \in Users \ {u} : held'[v] = held[v]
        /\ next_new_pid' = next_new_pid /\ pool' = pool
        /\ abandoned' = abandoned \cup {held[u]}
        /\ held[u] \notin abandoned
    BY <1>0, <1>4 DEF Abandon, TypeOK, PidInv, Apart
  <2>1. \A p : p \in 1 .. next_new_pid - 1 => p # NoPid
    BY <1>0 DEF NoPid, TypeOK, PidTypeOK
  <2>2. \A p : p \in Lost => p \in Lost'
    BY <1>a, <1>b, <2>0, <2>1
  <2>3. abandoned' # abandoned
    BY <2>0
  <2> QED BY <2>2, <2>3 DEF LossStep
<1> QED BY <1>1, <1>2, <1>3, <1>4 DEF Next, LossStep

\* An id is lost only when a full pool refuses it or its owner abandons it, and
\* next_pid() never hands a lost id out again.
THEOREM LossOnlyWhenFullHolds == Spec => LossOnlyWhenFull
BY PidInvHolds, LossStepHolds, PTL DEF Spec, LossOnlyWhenFull

-----------------------------------------------------------------------------
(* The counter                                                               *)

\* A user has one id at most, so there are not more ids held than users that
\* hold one.
LEMMA HeldCardinality ==
    ASSUME TypeOK, IsFiniteSet(Users), NEW u \in Users, held[u] = NoPid
    PROVE  /\ IsFiniteSet(HeldPids)
           /\ Cardinality(HeldPids) \in Nat
           /\ Cardinality(Users) \in Nat
           /\ Cardinality(HeldPids) + 1 <= Cardinality(Users)
<1> DEFINE Busy == {v \in Users : held[v] # NoPid}
           f == [v \in Busy |-> held[v]]
<1>1. Busy \in SUBSET (Users \ {u})
  OBVIOUS
<1>2. f \in Surjection(Busy, HeldPids)
  BY DEF Surjection, HeldPids
<1>3. IsFiniteSet(Users \ {u}) /\ Cardinality(Users \ {u}) = Cardinality(Users) - 1
  BY FS_RemoveElement
<1>4. IsFiniteSet(Busy) /\ Cardinality(Busy) <= Cardinality(Users \ {u})
  BY <1>1, <1>3, FS_Subset
<1> HIDE DEF Busy, f
<1>5. IsFiniteSet(HeldPids) /\ Cardinality(HeldPids) <= Cardinality(Busy)
  BY <1>2, <1>4, FS_Surjection
<1>6. Cardinality(HeldPids) \in Nat /\ Cardinality(Users) \in Nat /\ Cardinality(Busy) \in Nat
  BY <1>4, <1>5, FS_CardinalityType
<1> QED BY <1>3, <1>4, <1>5, <1>6

\* The lost ids are finitely many.
LEMMA LostFinite ==
    ASSUME NEW n \in Nat, NEW L \in SUBSET (1 .. n - 1)
    PROVE  IsFiniteSet(L) /\ Cardinality(L) \in Nat
<1>1. IsFiniteSet(1 .. n - 1)
  BY FS_Interval
<1>2. IsFiniteSet(L)
  BY <1>1, FS_Subset
<1> QED BY <1>2, FS_CardinalityType

\* When the pool is empty, every id below the counter is held or lost.
LEMMA EmptyPool ==
    ASSUME TypeOK, pool = <<>>, IsFiniteSet(Users), NEW u \in Users, held[u] = NoPid
    PROVE  next_new_pid <= Cardinality(Users) + Cardinality(Lost)
<1>1. next_new_pid \in Nat \ {0}
  BY DEF TypeOK, PidTypeOK
<1>2. Lost \in SUBSET (1 .. next_new_pid - 1)
  BY DEF Lost
<1>3. IsFiniteSet(Lost) /\ Cardinality(Lost) \in Nat
  BY <1>1, <1>2, LostFinite
<1>4. /\ IsFiniteSet(HeldPids) /\ Cardinality(HeldPids) \in Nat /\ Cardinality(Users) \in Nat
      /\ Cardinality(HeldPids) + 1 <= Cardinality(Users)
  BY HeldCardinality
<1>5. Pooled = {}
  BY DEF Pooled
<1>6. 1 .. next_new_pid - 1 \in SUBSET (HeldPids \cup Lost)
  BY <1>5 DEF Lost
<1>7. /\ IsFiniteSet(HeldPids \cup Lost)
      /\ Cardinality(HeldPids \cup Lost) =
            Cardinality(HeldPids) + Cardinality(Lost) - Cardinality(HeldPids \cap Lost)
  BY <1>3, <1>4, FS_Union
<1>8. Cardinality(HeldPids \cap Lost) \in Nat
  BY <1>4, FS_Intersection, FS_CardinalityType
<1>9. Cardinality(1 .. next_new_pid - 1) = next_new_pid - 1
  <2>1. 1 \in Int /\ next_new_pid - 1 \in Int
    BY <1>1
  <2>2. Cardinality(1 .. next_new_pid - 1) = IF 1 > next_new_pid - 1 THEN 0 ELSE next_new_pid - 1 - 1 + 1
    BY <2>1, FS_Interval
  <2> QED BY <1>1, <2>2
<1>10. Cardinality(1 .. next_new_pid - 1) <= Cardinality(HeldPids \cup Lost)
  BY <1>6, <1>7, FS_Subset
<1> QED BY <1>1, <1>3, <1>4, <1>7, <1>8, <1>9, <1>10

\* NoCreep at first, and after a step.
LEMMA InitNoCreep == Init /\ IsFiniteSet(Users) => NoCreep
<1> SUFFICES ASSUME Init, IsFiniteSet(Users) PROVE NoCreep
  OBVIOUS
<1>1. next_new_pid = 1
  BY DEF Init, PidInit
<1>2. Lost \in SUBSET (1 .. next_new_pid - 1)
  BY DEF Lost
<1>3. Cardinality(Lost) \in Nat /\ Cardinality(Users) \in Nat
  BY <1>1, <1>2, LostFinite, FS_CardinalityType
<1> QED BY <1>1, <1>3 DEF NoCreep

\* Every step keeps it.
LEMMA NextNoCreep ==
    ASSUME IsFiniteSet(Users), PidInv, PidInv', NoCreep, [Next]_vars
    PROVE  NoCreep'
<1>0. TypeOK /\ next_new_pid \in Nat /\ next_new_pid' \in Nat
  BY DEF PidInv, TypeOK, PidTypeOK
<1>1. Cardinality(Users) \in Nat
  BY FS_CardinalityType
<1>2. Lost \subseteq Lost'
  BY LossStepHolds DEF LossStep, vars, Lost, Pooled, HeldPids
<1>3. IsFiniteSet(Lost') /\ Cardinality(Lost') \in Nat
  <2>1. Lost' \in SUBSET (1 .. next_new_pid' - 1)
    BY DEF Lost
  <2> QED BY <1>0, <2>1, LostFinite
<1>4. Cardinality(Lost) \in Nat /\ Cardinality(Lost) <= Cardinality(Lost')
  <2>1. Lost \in SUBSET Lost'
    BY <1>2
  <2>2. IsFiniteSet(Lost) /\ Cardinality(Lost) <= Cardinality(Lost')
    BY <1>3, <2>1, FS_Subset
  <2> QED BY <2>2, FS_CardinalityType
<1>5. CASE next_new_pid' = next_new_pid
  BY <1>0, <1>1, <1>3, <1>4, <1>5 DEF NoCreep
<1>6. ASSUME NEW u \in Users, NEW pid \in Pids, pool = <<>>, held[u] = NoPid, take(pid)
      PROVE  NoCreep'
  <2>1. next_new_pid <= Cardinality(Users) + Cardinality(Lost)
    BY <1>0, <1>6, EmptyPool
  <2>2. next_new_pid' = next_new_pid + 1
    BY <1>6 DEF take
  <2> QED BY <1>0, <1>1, <1>3, <1>4, <2>1, <2>2 DEF NoCreep
<1>7. ASSUME NEW u \in Users, Acquire(u) PROVE NoCreep'
  BY <1>5, <1>6, <1>7 DEF Acquire, next_pid
<1>8. ASSUME NEW u \in Users, Exhaust(u) \/ Release(u) \/ Abandon(u) PROVE NoCreep'
  BY <1>5, <1>8 DEF Exhaust, Release, free_pid, Abandon
<1>9. CASE UNCHANGED vars
  BY <1>5, <1>9 DEF vars
<1> QED BY <1>7, <1>8, <1>9 DEF Next

\* With finitely many requests the counter of pid.rs is never ahead of them by
\* more than the ids that were lost: next_pid() prefers a returned id, and it
\* panics at u16::MAX only after losing all but as many ids as there are
\* requests.
THEOREM NoCreepHolds ==
    ASSUME IsFiniteSet(Users)
    PROVE  Spec => []NoCreep
<1>1. Init => NoCreep
  BY InitNoCreep
<1>2. PidInv /\ PidInv' /\ NoCreep /\ [Next]_vars => NoCreep'
  BY NextNoCreep
<1> QED BY <1>1, <1>2, PidInvHolds, PTL DEF Spec

=============================================================================
