-------------------------- MODULE HeaplessVecProofs --------------------------
(* What Vec::remove, push and the removal of the first packet do to a queue,  *)
(* element by element, for the proofs about the modules that have queues.     *)
EXTENDS HeaplessVec, TLAPS

\* Vec::remove: one element goes, the others keep their order.
LEMMA RemoveFacts ==
    ASSUME NEW S, NEW q \in Seq(S), NEW k \in 1 .. Len(q)
    PROVE  /\ Remove(q, k) \in Seq(S)
           /\ Len(Remove(q, k)) = Len(q) - 1
           /\ Len(q) \in Nat
           /\ \A j \in 1 .. Len(q) - 1 :
                 Remove(q, k)[j] = IF j < k THEN q[j] ELSE q[j + 1]
<1>1. Len(q) \in Nat /\ \A j \in 1 .. Len(q) : q[j] \in S
  OBVIOUS
<1>2. \A j \in 1 .. Len(q) - 1 : (IF j < k THEN q[j] ELSE q[j + 1]) \in S
  BY <1>1
<1>3. Len(q) - 1 \in Nat
  BY <1>1
<1> QED BY <1>1, <1>2, <1>3 DEF Remove

\* push: the last element is new, the others stay.
LEMMA PushFacts ==
    ASSUME NEW S, NEW q \in Seq(S), NEW e \in S
    PROVE  /\ Append(q, e) \in Seq(S)
           /\ Len(q) \in Nat
           /\ Len(Append(q, e)) = Len(q) + 1
           /\ \A j \in 1 .. Len(q) : Append(q, e)[j] = q[j]
           /\ Append(q, e)[Len(q) + 1] = e
OBVIOUS

\* The oldest packet of a channel is taken: the others move up.
LEMMA TailFacts ==
    ASSUME NEW S, NEW q \in Seq(S), q # <<>>
    PROVE  /\ Tail(q) \in Seq(S)
           /\ Len(q) \in Nat \ {0}
           /\ Len(Tail(q)) = Len(q) - 1
           /\ \A j \in 1 .. Len(q) - 1 : Tail(q)[j] = q[j + 1]
           /\ Head(q) = q[1] /\ q[1] \in S
OBVIOUS

\* What is in a queue: after a push the old elements and the new one, after a
\* removal all but at most the removed one, and nothing new.
In(q, x) == \E k \in 1 .. Len(q) : q[k] = x

\* After a push.
LEMMA PushIn ==
    ASSUME NEW S, NEW q \in Seq(S), NEW e \in S
    PROVE  \A x : In(Append(q, e), x) <=> In(q, x) \/ x = e
<1> DEFINE r == Append(q, e)
<1>1. /\ Len(q) \in Nat /\ Len(r) = Len(q) + 1
      /\ \A j \in 1 .. Len(q) : r[j] = q[j]
      /\ r[Len(q) + 1] = e
  BY PushFacts
<1> HIDE DEF r
<1>2. \A x : In(r, x) => In(q, x) \/ x = e
  BY <1>1 DEF In
<1>3. \A x : In(q, x) \/ x = e => In(r, x)
  BY <1>1 DEF In
<1> QED BY <1>2, <1>3 DEF r

\* After a removal.
LEMMA RemoveIn ==
    ASSUME NEW S, NEW q \in Seq(S), NEW k \in 1 .. Len(q)
    PROVE  /\ \A x : In(Remove(q, k), x) => In(q, x)
           /\ \A x : In(q, x) => In(Remove(q, k), x) \/ x = q[k]
<1> DEFINE r == Remove(q, k)
<1>1. /\ Len(q) \in Nat /\ Len(r) = Len(q) - 1
      /\ \A j \in 1 .. Len(q) - 1 : r[j] = IF j < k THEN q[j] ELSE q[j + 1]
  BY RemoveFacts
<1> HIDE DEF r
<1>2. \A x : In(r, x) => In(q, x)
  BY <1>1 DEF In
<1>3. ASSUME NEW x, In(q, x), x # q[k]
      PROVE  In(r, x)
  <2>1. PICK j \in 1 .. Len(q) : q[j] = x
    BY <1>3 DEF In
  <2>2. CASE j < k
    <3>1. j \in 1 .. Len(r) /\ r[j] = x
      BY <1>1, <2>1, <2>2
    <3> QED BY <3>1 DEF In
  <2>3. CASE j > k
    <3>1. j - 1 \in 1 .. Len(r) /\ r[j - 1] = x
      BY <1>1, <2>1, <2>3
    <3> QED BY <3>1 DEF In
  <2> QED BY <1>3, <2>1, <2>2, <2>3
<1> QED BY <1>2, <1>3 DEF r

=============================================================================
