---------------------------- MODULE CallsProofs ----------------------------
(***************************************************************************)
(* The client calls, for any number of calls, queues and subscribers.      *)
(*                                                                         *)
(* A call returns when it reads an event with its unique id.  That this    *)
(* event is its own rests on three things that hold together: no two calls *)
(* that have an id have the same (Ids), a request is in one place and      *)
(* belongs to a call that still has the id (Shape, Owned), and what a call *)
(* has not read was published after it got its id (Unread).  The ids that  *)
(* are in the pool and the subscribers are together no more than the       *)
(* channel has subscribers (Subscribers).                                  *)
(***************************************************************************)
EXTENDS Calls, HeaplessVecProofs, FiniteSetTheorems, TLAPS

-----------------------------------------------------------------------------
(* Sequences without repetition                                             *)

Distinct(s) == \A j, k \in 1 .. Len(s) : s[j] = s[k] => j = k

\* An element that is not in it is added.
LEMMA DistinctPush ==
    ASSUME NEW S, NEW s \in Seq(S), NEW e \in S, Distinct(s), ~In(s, e)
    PROVE  Distinct(Append(s, e))
<1> DEFINE t == Append(s, e)
<1>1. /\ Len(s) \in Nat /\ Len(t) = Len(s) + 1
      /\ \A j \in 1 .. Len(s) : t[j] = s[j]
      /\ t[Len(s) + 1] = e
  BY PushFacts
<1> HIDE DEF t
<1>2. \A j \in 1 .. Len(s) : s[j] # e
  BY DEF In
<1> SUFFICES ASSUME NEW j \in 1 .. Len(t), NEW k \in 1 .. Len(t), t[j] = t[k]
             PROVE  j = k
  BY DEF Distinct, t
<1>3. CASE j \in 1 .. Len(s) /\ k \in 1 .. Len(s)
  BY <1>1, <1>3 DEF Distinct
<1>4. CASE j = Len(s) + 1 /\ k \in 1 .. Len(s)
  BY <1>1, <1>2, <1>4
<1>5. CASE j \in 1 .. Len(s) /\ k = Len(s) + 1
  BY <1>1, <1>2, <1>5
<1> QED
  BY <1>1, <1>3, <1>4, <1>5

\* An element is removed, and is then not in it.
LEMMA DistinctRemove ==
    ASSUME NEW S, NEW s \in Seq(S), NEW k \in 1 .. Len(s), Distinct(s)
    PROVE  Distinct(Remove(s, k)) /\ ~In(Remove(s, k), s[k])
<1> DEFINE t == Remove(s, k)
           at(j) == IF j < k THEN j ELSE j + 1
<1>1. /\ Len(s) \in Nat /\ Len(t) = Len(s) - 1
      /\ \A j \in 1 .. Len(s) - 1 : t[j] = IF j < k THEN s[j] ELSE s[j + 1]
  BY RemoveFacts
<1> HIDE DEF t
<1>2. \A j \in 1 .. Len(t) : at(j) \in 1 .. Len(s) /\ at(j) # k /\ t[j] = s[at(j)]
  BY <1>1
<1>3. \A i, j \in 1 .. Len(t) : at(i) = at(j) => i = j
  BY <1>1
<1> HIDE DEF at
<1>4. Distinct(t)
  BY <1>2, <1>3 DEF Distinct
<1>5. ~In(t, s[k])
  BY <1>2 DEF Distinct, In
<1> QED
  BY <1>4, <1>5 DEF t

\* The first element is removed, and is then not in it.
LEMMA DistinctTail ==
    ASSUME NEW S, NEW s \in Seq(S), s # <<>>, Distinct(s)
    PROVE  /\ Distinct(Tail(s)) /\ ~In(Tail(s), Head(s))
           /\ \A x : In(Tail(s), x) => In(s, x)
           /\ In(s, Head(s))
<1> DEFINE t == Tail(s)
<1>1. /\ Len(s) \in Nat \ {0} /\ Len(t) = Len(s) - 1
      /\ \A j \in 1 .. Len(s) - 1 : t[j] = s[j + 1]
      /\ Head(s) = s[1]
  BY TailFacts
<1> HIDE DEF t
<1>2. \A j \in 1 .. Len(t) : j + 1 \in 1 .. Len(s) /\ j + 1 # 1 /\ t[j] = s[j + 1]
  BY <1>1
<1>3. Distinct(t)
  BY <1>1, <1>2 DEF Distinct
<1>4. ~In(t, Head(s))
  BY <1>1, <1>2 DEF Distinct, In
<1>5. \A x : In(t, x) => In(s, x)
  BY <1>2 DEF In
<1>6. In(s, Head(s))
  BY <1>1 DEF In
<1> QED
  BY <1>3, <1>4, <1>5, <1>6 DEF t

\* Nothing is in the empty sequence.
LEMMA InEmpty == \A x : ~In(<<>>, x)
BY DEF In

\* One element is in a sequence of one.
LEMMA InSingle == ASSUME NEW r PROVE \A x : In(<<r>>, x) <=> x = r
BY DEF In

-----------------------------------------------------------------------------
(* Where the requests are                                                   *)

\* A request is in one queue of its kind, in the other one of the pair or being
\* published; an acknowledgement that has arrived is for a request that waits.
Shape(qu, aw, inb, dn) ==
    /\ qu \in [Queues -> Seq(Requests)] /\ aw \in [Queues -> Seq(Requests)]
    /\ inb \in Seq(Requests) /\ dn \in Seq(Requests)
    /\ \A q \in Queues : Len(qu[q]) <= Queue /\ Len(aw[q]) <= Queue
    /\ \A q \in Queues : Distinct(qu[q]) /\ Distinct(aw[q])
    /\ \A q \in Queues : \A r \in Requests :
          /\ In(qu[q], r) => QueueOf(r.call) = q /\ ~In(aw[q], r) /\ ~In(dn, r)
          /\ In(aw[q], r) => QueueOf(r.call) = q /\ ~In(dn, r)
    /\ \A r \in Requests : In(inb, r) => In(aw[QueueOf(r.call)], r)
    /\ Distinct(inb)

\* The request is nowhere.
Absent(qu, aw, dn, r) ==
    ~In(dn, r) /\ \A q \in Queues : ~In(qu[q], r) /\ ~In(aw[q], r)

\* Every call uses one of the two queues.
LEMMA QueueOfType == \A c : QueueOf(c) \in Queues
BY DEF QueueOf, Queues

\* An element of a queue is a request.
LEMMA ElementType ==
    ASSUME NEW s \in Seq(Requests), NEW r, In(s, r)
    PROVE  r \in Requests
BY DEF In

\* A new request is put into its queue.
LEMMA ShapeEnqueue ==
    ASSUME NEW qu, NEW aw, NEW inb, NEW dn, Shape(qu, aw, inb, dn),
           NEW r \in Requests, Absent(qu, aw, dn, r), Len(qu[QueueOf(r.call)]) < Queue
    PROVE  LET qu2 == [qu EXCEPT ![QueueOf(r.call)] = Append(@, r)]
           IN /\ Shape(qu2, aw, inb, dn)
              /\ \A q \in Queues, x \in Requests : In(qu2[q], x) => In(qu[q], x) \/ x = r
<1> DEFINE p == QueueOf(r.call)
           s == qu[p]
           t == Append(s, r)
           qu2 == [qu EXCEPT ![p] = t]
<1>1. /\ qu \in [Queues -> Seq(Requests)] /\ aw \in [Queues -> Seq(Requests)]
      /\ inb \in Seq(Requests) /\ dn \in Seq(Requests)
      /\ \A q \in Queues : Len(qu[q]) <= Queue /\ Len(aw[q]) <= Queue
      /\ \A q \in Queues : Distinct(qu[q]) /\ Distinct(aw[q])
      /\ \A q \in Queues : \A x \in Requests :
            /\ In(qu[q], x) => QueueOf(x.call) = q /\ ~In(aw[q], x) /\ ~In(dn, x)
            /\ In(aw[q], x) => QueueOf(x.call) = q /\ ~In(dn, x)
      /\ \A x \in Requests : In(inb, x) => In(aw[QueueOf(x.call)], x)
      /\ Distinct(inb)
  BY DEF Shape
<1>2. p \in Queues
  BY QueueOfType
<1>3. s \in Seq(Requests) /\ Distinct(s) /\ ~In(s, r) /\ Len(s) < Queue /\ Queue \in Nat
  BY <1>1, <1>2, CallsAssumption DEF Absent
<1> HIDE DEF s
<1>4. /\ t \in Seq(Requests) /\ Len(t) <= Queue /\ Distinct(t)
      /\ \A x : In(t, x) <=> In(s, x) \/ x = r
  BY <1>3, PushFacts, PushIn, DistinctPush
<1> HIDE DEF t
<1>5. /\ qu2 \in [Queues -> Seq(Requests)]
      /\ \A q \in Queues : qu2[q] = IF q = p THEN t ELSE qu[q]
  BY <1>1, <1>2, <1>4
<1> HIDE DEF qu2
<1>6. \A q \in Queues : \A x \in Requests : In(qu2[q], x) => In(qu[q], x) \/ (x = r /\ q = p)
  BY <1>4, <1>5 DEF s
<1>7. ~In(aw[p], r) /\ ~In(dn, r)
  BY <1>2 DEF Absent
<1>8. Shape(qu2, aw, inb, dn)
  BY <1>1, <1>4, <1>5, <1>6, <1>7 DEF Shape, p
<1> QED
  BY <1>6, <1>8 DEF qu2, t, s, p

\* A request is taken out of its queue.
LEMMA ShapeTake ==
    ASSUME NEW qu, NEW aw, NEW inb, NEW dn, Shape(qu, aw, inb, dn),
           NEW p \in Queues, NEW k \in 1 .. Len(qu[p])
    PROVE  LET qu2 == [qu EXCEPT ![p] = Remove(@, k)]
               r == qu[p][k]
           IN /\ Shape(qu2, aw, inb, dn)
              /\ Absent(qu2, aw, dn, r) /\ r \in Requests /\ QueueOf(r.call) = p
              /\ In(qu[p], r)
              /\ \A q \in Queues, x \in Requests : In(qu2[q], x) => In(qu[q], x)
<1> DEFINE s == qu[p]
           r == s[k]
           t == Remove(s, k)
           qu2 == [qu EXCEPT ![p] = t]
<1>1. /\ qu \in [Queues -> Seq(Requests)] /\ aw \in [Queues -> Seq(Requests)]
      /\ inb \in Seq(Requests) /\ dn \in Seq(Requests)
      /\ \A q \in Queues : Len(qu[q]) <= Queue /\ Len(aw[q]) <= Queue
      /\ \A q \in Queues : Distinct(qu[q]) /\ Distinct(aw[q])
      /\ \A q \in Queues : \A x \in Requests :
            /\ In(qu[q], x) => QueueOf(x.call) = q /\ ~In(aw[q], x) /\ ~In(dn, x)
            /\ In(aw[q], x) => QueueOf(x.call) = q /\ ~In(dn, x)
      /\ \A x \in Requests : In(inb, x) => In(aw[QueueOf(x.call)], x)
      /\ Distinct(inb)
  BY DEF Shape
<1>2. s \in Seq(Requests) /\ Distinct(s) /\ Len(s) <= Queue /\ Queue \in Nat /\ k \in 1 .. Len(s)
  BY <1>1, CallsAssumption
<1> HIDE DEF s
<1>3. r \in Requests /\ In(s, r)
  BY <1>2 DEF In
<1>4. /\ t \in Seq(Requests) /\ Len(t) = Len(s) - 1 /\ Len(s) \in Nat /\ Distinct(t) /\ ~In(t, r)
      /\ \A x : In(t, x) => In(s, x)
  BY <1>2, RemoveFacts, RemoveIn, DistinctRemove
<1> HIDE DEF t, r
<1>5. /\ qu2 \in [Queues -> Seq(Requests)]
      /\ \A q \in Queues : qu2[q] = IF q = p THEN t ELSE qu[q]
  BY <1>1, <1>4
<1> HIDE DEF qu2
<1>6. \A q \in Queues : \A x \in Requests : In(qu2[q], x) => In(qu[q], x)
  BY <1>4, <1>5 DEF s
<1>7. Len(t) <= Queue
  BY <1>2, <1>4
<1>8. Shape(qu2, aw, inb, dn)
  BY <1>1, <1>4, <1>5, <1>6, <1>7 DEF Shape
<1>9. QueueOf(r.call) = p /\ ~In(dn, r)
  BY <1>1, <1>3 DEF s
<1>10. ASSUME NEW q \in Queues PROVE ~In(qu2[q], r) /\ ~In(aw[q], r)
  <2>1. CASE q = p
    BY <1>1, <1>3, <1>4, <1>5, <2>1 DEF s
  <2>2. CASE q # p
    BY <1>1, <1>3, <1>5, <1>9, <2>2
  <2> QED
    BY <2>1, <2>2
<1>11. Absent(qu2, aw, dn, r)
  BY <1>9, <1>10 DEF Absent
<1> QED
  BY <1>3, <1>6, <1>8, <1>9, <1>11 DEF qu2, t, r, s

\* A request that was sent waits for its answer.
LEMMA ShapeAwait ==
    ASSUME NEW qu, NEW aw, NEW inb, NEW dn, Shape(qu, aw, inb, dn),
           NEW r \in Requests, Absent(qu, aw, dn, r), NEW p, p = QueueOf(r.call), Len(aw[p]) < Queue
    PROVE  LET aw2 == [aw EXCEPT ![p] = Append(@, r)]
           IN /\ Shape(qu, aw2, inb, dn)
              /\ \A q \in Queues, x \in Requests : In(aw2[q], x) => In(aw[q], x) \/ x = r
<1> DEFINE s == aw[p]
           t == Append(s, r)
           aw2 == [aw EXCEPT ![p] = t]
<1>1. /\ qu \in [Queues -> Seq(Requests)] /\ aw \in [Queues -> Seq(Requests)]
      /\ inb \in Seq(Requests) /\ dn \in Seq(Requests)
      /\ \A q \in Queues : Len(qu[q]) <= Queue /\ Len(aw[q]) <= Queue
      /\ \A q \in Queues : Distinct(qu[q]) /\ Distinct(aw[q])
      /\ \A q \in Queues : \A x \in Requests :
            /\ In(qu[q], x) => QueueOf(x.call) = q /\ ~In(aw[q], x) /\ ~In(dn, x)
            /\ In(aw[q], x) => QueueOf(x.call) = q /\ ~In(dn, x)
      /\ \A x \in Requests : In(inb, x) => In(aw[QueueOf(x.call)], x)
      /\ Distinct(inb)
  BY DEF Shape
<1>2. p \in Queues
  BY QueueOfType
<1>3. s \in Seq(Requests) /\ Distinct(s) /\ ~In(s, r) /\ Len(s) < Queue /\ Queue \in Nat
  BY <1>1, <1>2, CallsAssumption DEF Absent
<1> HIDE DEF s
<1>4. /\ t \in Seq(Requests) /\ Len(t) <= Queue /\ Distinct(t)
      /\ \A x : In(t, x) <=> In(s, x) \/ x = r
  BY <1>3, PushFacts, PushIn, DistinctPush
<1> HIDE DEF t
<1>5. /\ aw2 \in [Queues -> Seq(Requests)]
      /\ \A q \in Queues : aw2[q] = IF q = p THEN t ELSE aw[q]
  BY <1>1, <1>2, <1>4
<1> HIDE DEF aw2
<1>6. \A q \in Queues : \A x \in Requests :
        /\ In(aw2[q], x) => In(aw[q], x) \/ (x = r /\ q = p)
        /\ In(aw[q], x) => In(aw2[q], x)
  BY <1>4, <1>5 DEF s
<1>7. ~In(qu[p], r) /\ ~In(dn, r)
  BY <1>2 DEF Absent
<1>8. \A x \in Requests : In(inb, x) => In(aw2[QueueOf(x.call)], x)
  BY <1>1, <1>6, QueueOfType
<1>9. \A q \in Queues : \A x \in Requests :
        /\ In(qu[q], x) => QueueOf(x.call) = q /\ ~In(aw2[q], x) /\ ~In(dn, x)
        /\ In(aw2[q], x) => QueueOf(x.call) = q /\ ~In(dn, x)
  BY <1>1, <1>6, <1>7
<1>10. Shape(qu, aw2, inb, dn)
  BY <1>1, <1>4, <1>5, <1>8, <1>9 DEF Shape
<1> QED
  BY <1>6, <1>10 DEF aw2, t, s

\* Its completion is about to be published.
LEMMA ShapeDone ==
    ASSUME NEW qu, NEW aw, NEW inb, NEW dn, Shape(qu, aw, inb, dn),
           NEW r \in Requests, Absent(qu, aw, dn, r)
    PROVE  Shape(qu, aw, inb, <<r>>)
<1>1. \A x : In(<<r>>, x) <=> x = r
  BY InSingle
<1>2. <<r>> \in Seq(Requests)
  OBVIOUS
<1> DEFINE d == <<r>>
<1> HIDE DEF d
<1>3. d \in Seq(Requests) /\ \A x : In(d, x) <=> x = r
  BY <1>1, <1>2 DEF d
<1>4. Shape(qu, aw, inb, d)
  BY <1>3 DEF Shape, Absent
<1> QED
  BY <1>4 DEF d

\* It has been published.
LEMMA ShapeClear ==
    ASSUME NEW qu, NEW aw, NEW inb, NEW dn, Shape(qu, aw, inb, dn)
    PROVE  Shape(qu, aw, inb, <<>>)
<1> DEFINE d == <<>>
<1>1. d \in Seq(Requests) /\ \A x : ~In(d, x)
  BY InEmpty
<1> HIDE DEF d
<1>2. Shape(qu, aw, inb, d)
  BY <1>1 DEF Shape
<1> QED
  BY <1>2 DEF d

\* An answer arrives.
LEMMA ShapeAnswer ==
    ASSUME NEW qu, NEW aw, NEW inb, NEW dn, Shape(qu, aw, inb, dn),
           NEW q \in Queues, NEW r, In(aw[q], r), ~In(inb, r)
    PROVE  Shape(qu, aw, Append(inb, r), dn)
<1> DEFINE t == Append(inb, r)
<1>1. aw[q] \in Seq(Requests) /\ inb \in Seq(Requests) /\ Distinct(inb)
  BY DEF Shape
<1>2. r \in Requests
  BY <1>1, ElementType
<1>3. QueueOf(r.call) = q
  BY <1>2 DEF Shape
<1>4. t \in Seq(Requests) /\ Distinct(t) /\ \A x : In(t, x) <=> In(inb, x) \/ x = r
  BY <1>1, <1>2, PushFacts, PushIn, DistinctPush
<1> HIDE DEF t
<1>5. Shape(qu, aw, t, dn)
  BY <1>3, <1>4 DEF Shape
<1> QED
  BY <1>5 DEF t

\* An answer is handled: it leaves the inbox, its request leaves the queue.
LEMMA ShapeAcknowledge ==
    ASSUME NEW qu, NEW aw, NEW inb, NEW dn, Shape(qu, aw, inb, dn), inb # <<>>,
           NEW r, r = Head(inb), NEW p, p = QueueOf(r.call)
    PROVE  LET aw2 == [aw EXCEPT ![p] = Remove(@, position(@, r))]
           IN /\ Shape(qu, aw2, Tail(inb), dn)
              /\ Absent(qu, aw2, dn, r) /\ r \in Requests /\ p \in Queues /\ In(aw[p], r)
              /\ \A q \in Queues, x \in Requests : In(aw2[q], x) => In(aw[q], x)
<1> DEFINE s == aw[p]
           k == position(s, r)
           t == Remove(s, k)
           aw2 == [aw EXCEPT ![p] = t]
           u == Tail(inb)
<1>1. /\ qu \in [Queues -> Seq(Requests)] /\ aw \in [Queues -> Seq(Requests)]
      /\ inb \in Seq(Requests) /\ dn \in Seq(Requests)
      /\ \A q \in Queues : Len(qu[q]) <= Queue /\ Len(aw[q]) <= Queue
      /\ \A q \in Queues : Distinct(qu[q]) /\ Distinct(aw[q])
      /\ \A q \in Queues : \A x \in Requests :
            /\ In(qu[q], x) => QueueOf(x.call) = q /\ ~In(aw[q], x) /\ ~In(dn, x)
            /\ In(aw[q], x) => QueueOf(x.call) = q /\ ~In(dn, x)
      /\ \A x \in Requests : In(inb, x) => In(aw[QueueOf(x.call)], x)
      /\ Distinct(inb)
  BY DEF Shape
<1>2. /\ u \in Seq(Requests) /\ Distinct(u) /\ ~In(u, r) /\ \A x : In(u, x) => In(inb, x)
      /\ In(inb, r) /\ r \in Requests
  BY <1>1, TailFacts, DistinctTail
<1> HIDE DEF u
<1>3. p \in Queues /\ In(aw[p], r)
  BY <1>1, <1>2, QueueOfType
<1>4. s \in Seq(Requests) /\ Distinct(s) /\ Len(s) <= Queue /\ Queue \in Nat /\ In(s, r)
  BY <1>1, <1>3, CallsAssumption
<1> HIDE DEF s
<1>5. k \in 1 .. Len(s) /\ s[k] = r
  BY <1>4 DEF In, position
<1> HIDE DEF k
<1>6. /\ t \in Seq(Requests) /\ Len(t) = Len(s) - 1 /\ Len(s) \in Nat /\ Distinct(t) /\ ~In(t, r)
      /\ \A x : In(t, x) => In(s, x)
      /\ \A x : In(s, x) => In(t, x) \/ x = r
  BY <1>4, <1>5, RemoveFacts, RemoveIn, DistinctRemove
<1> HIDE DEF t
<1>7. /\ aw2 \in [Queues -> Seq(Requests)]
      /\ \A q \in Queues : aw2[q] = IF q = p THEN t ELSE aw[q]
  BY <1>1, <1>3, <1>6
<1> HIDE DEF aw2
<1>8. \A q \in Queues : \A x \in Requests :
        /\ In(aw2[q], x) => In(aw[q], x)
        /\ In(aw[q], x) => In(aw2[q], x) \/ x = r
  BY <1>6, <1>7 DEF s
<1>9. Len(t) <= Queue
  BY <1>4, <1>6
<1>10. ASSUME NEW x \in Requests, In(u, x) PROVE In(aw2[QueueOf(x.call)], x)
  <2>1. In(aw[QueueOf(x.call)], x) /\ x # r
    BY <1>1, <1>2, <1>10
  <2> QED
    BY <1>8, <2>1, QueueOfType
<1>11. \A q \in Queues : \A x \in Requests :
        /\ In(qu[q], x) => QueueOf(x.call) = q /\ ~In(aw2[q], x) /\ ~In(dn, x)
        /\ In(aw2[q], x) => QueueOf(x.call) = q /\ ~In(dn, x)
  BY <1>1, <1>8
<1>12. \A q \in Queues : Len(aw2[q]) <= Queue /\ Distinct(aw2[q])
  BY <1>1, <1>6, <1>7, <1>9
<1>13. Shape(qu, aw2, u, dn)
  BY <1>1, <1>2, <1>7, <1>10, <1>11, <1>12 DEF Shape
<1>14. ASSUME NEW q \in Queues PROVE ~In(qu[q], r) /\ ~In(aw2[q], r)
  <2>1. CASE q = p
    BY <1>1, <1>2, <1>3, <1>6, <1>7, <2>1
  <2>2. CASE q # p
    BY <1>1, <1>2, <1>7, <2>2
  <2> QED
    BY <2>1, <2>2
<1>15. Absent(qu, aw2, dn, r)
  BY <1>1, <1>2, <1>3, <1>14 DEF Absent
<1> QED
  BY <1>2, <1>3, <1>8, <1>13, <1>15 DEF aw2, t, k, s, u

-----------------------------------------------------------------------------
(* The tasks, the mutexes and the notification                              *)

\* A mutex with no more wakers than it has slots.
GoodMutex(m) ==
    /\ m \in [locked : BOOLEAN, wakers : SUBSET Clients]
    /\ IsFiniteSet(m.wakers) /\ Cardinality(m.wakers) <= WAKERS

Mutexes(f) ==
    /\ f \in [Queues -> [locked : BOOLEAN, wakers : SUBSET Clients]]
    /\ \A q \in Queues : GoodMutex(f[q])

\* A new mutex, and one whose Lock was dropped, has no wakers.
LEMMA GoodNew == GoodMutex(NewMutex) /\ \A m : GoodMutex(LockDrop(m))
<1>1. IsFiniteSet({}) /\ Cardinality({}) = 0
  BY FS_EmptySet
<1>2. WAKERS \in Nat
  BY WakersAssumption
<1> DEFINE m0 == [locked |-> FALSE, wakers |-> {}]
<1>3. GoodMutex(m0)
  BY <1>1, <1>2 DEF GoodMutex
<1> QED
  BY <1>3 DEF NewMutex, LockDrop

\* poll_lock() leaves the wakers alone.
LEMMA GoodLock == ASSUME NEW m, GoodMutex(m) PROVE GoodMutex(poll_lock(m))
BY DEF GoodMutex, poll_lock

\* register() does not store more wakers than there are slots.
LEMMA GoodRegister ==
    ASSUME NEW m, GoodMutex(m), NEW c \in Clients
    PROVE  GoodMutex(register(m, c))
<1> DEFINE w == m.wakers
           v == IF HasSlot(m, c) THEN w \cup {c} ELSE {c}
<1>1. m \in [locked : BOOLEAN, wakers : SUBSET Clients] /\ IsFiniteSet(w) /\ Cardinality(w) <= WAKERS
  BY DEF GoodMutex
<1>2. WAKERS \in Nat \ {0}
  BY WakersAssumption
<1>3. IsFiniteSet({c}) /\ Cardinality({c}) = 1
  BY FS_Singleton
<1>4. /\ IsFiniteSet(w \cup {c}) /\ Cardinality(w) \in Nat
      /\ c \in w => Cardinality(w \cup {c}) = Cardinality(w)
      /\ c \notin w => Cardinality(w \cup {c}) = Cardinality(w) + 1
  BY <1>1, FS_AddElement, FS_CardinalityType
<1>5. HasSlot(m, c) <=> c \in w \/ Cardinality(w) < WAKERS
  BY DEF HasSlot
<1>6. IsFiniteSet(v) /\ Cardinality(v) <= WAKERS
  <2>1. CASE HasSlot(m, c)
    BY <1>1, <1>2, <1>4, <1>5, <2>1
  <2>2. CASE ~HasSlot(m, c)
    BY <1>2, <1>3, <2>2
  <2> QED
    BY <2>1, <2>2
<1>7. v \in SUBSET Clients
  BY <1>1
<1>8. register(m, c) = [m EXCEPT !.wakers = v]
  BY DEF register
<1> HIDE DEF v
<1>9. register(m, c) \in [locked : BOOLEAN, wakers : SUBSET Clients] /\ register(m, c).wakers = v
  BY <1>1, <1>7, <1>8
<1> QED
  BY <1>6, <1>9 DEF GoodMutex

\* One of the two mutexes changes.
LEMMA SetMutex ==
    ASSUME NEW f, Mutexes(f), NEW q \in Queues, NEW m, GoodMutex(m)
    PROVE  Mutexes([f EXCEPT ![q] = m])
BY DEF Mutexes, GoodMutex

\* The mutexes after each of the things that are done to them.
LEMMA MutexSteps ==
    ASSUME NEW f, Mutexes(f), NEW q \in Queues
    PROVE  /\ Mutexes([f EXCEPT ![q] = poll_lock(@)])
           /\ Mutexes([f EXCEPT ![q] = LockDrop(@)])
           /\ \A c \in Clients : Mutexes([f EXCEPT ![q] = register(@, c)])
           /\ \A t \in Queues : LET dropped == [f EXCEPT ![q] = LockDrop(@)]
                                IN  Mutexes([dropped EXCEPT ![t] = poll_lock(@)])
           /\ Woken_by_drop(f[q]) \subseteq Clients
           /\ \A c : Evicted(f[q], c) \subseteq Clients
<1>1. \A t \in Queues : GoodMutex(f[t])
  BY DEF Mutexes
<1>2. Mutexes([f EXCEPT ![q] = poll_lock(f[q])])
  BY <1>1, GoodLock, SetMutex
<1>3. Mutexes([f EXCEPT ![q] = LockDrop(f[q])])
  BY <1>1, GoodNew, SetMutex
<1>4. \A c \in Clients : Mutexes([f EXCEPT ![q] = register(f[q], c)])
  BY <1>1, GoodRegister, SetMutex
<1> DEFINE g == [f EXCEPT ![q] = LockDrop(f[q])]
<1>5. ASSUME NEW t \in Queues PROVE Mutexes([g EXCEPT ![t] = poll_lock(g[t])])
  <2>1. Mutexes(g)
    BY <1>3
  <2> HIDE DEF g
  <2>2. GoodMutex(g[t])
    BY <2>1 DEF Mutexes
  <2> QED
    BY <2>1, <2>2, GoodLock, SetMutex
<1>6. f[q].wakers \subseteq Clients
  BY <1>1 DEF GoodMutex
<1> QED
  BY <1>2, <1>3, <1>4, <1>5, <1>6 DEF Woken_by_drop, Evicted

\* The types of what the tasks do next.
Places ==
    /\ ready \subseteq Clients \cup {"loop"}
    /\ Mutexes(mutex)
    /\ on_requst_added \in [notification : {"None", "NewRequest", "Disconnect"}, waker : BOOLEAN]
    /\ event_wakers \subseteq Clients
    /\ pc \in {"send", "publish", "publish_pending", "nonblocking", "select", "stopped"}
    /\ cur \in Queues
    /\ step \in [Clients -> {"new", "enqueue", "await", "returned", "failed", "cancelled"}]

\* Reading an event wakes the event loop or nobody.
LEMMA AwakenType == \A s, u : Awaken(s, u) \subseteq {"loop"}
BY DEF Awaken

\* process_packet().
LEMMA ProcessPlaces ==
    ASSUME Places, process_packet
    PROVE  /\ ready' \subseteq Clients \cup {"loop"} /\ Mutexes(mutex') /\ event_wakers' \subseteq Clients
           /\ pc' \in {"publish", "send"} /\ cur' \in Queues
<1>1. PICK q : q = QueueOf(Head(inbox).call)
  OBVIOUS
<1>2. q \in Queues /\ "publishes" \in Queues
  BY <1>1, QueueOfType DEF Queues
<1>3. \/ /\ mutex' = [mutex EXCEPT ![q] = poll_lock(@)] /\ pc' = "publish"
         /\ UNCHANGED <<ready, cur, event_wakers>>
      \/ /\ event_wakers' = {} /\ LockNext(q, "publishes")
         /\ ready' = ready \cup event_wakers \cup Woken_by_drop(mutex[q])
  BY <1>1 DEF process_packet, eventVars, Publish
<1>4. CASE /\ mutex' = [mutex EXCEPT ![q] = poll_lock(@)] /\ pc' = "publish"
           /\ UNCHANGED <<ready, cur, event_wakers>>
  BY <1>2, <1>4, MutexSteps DEF Places
<1>5. CASE /\ event_wakers' = {} /\ LockNext(q, "publishes")
           /\ ready' = ready \cup event_wakers \cup Woken_by_drop(mutex[q])
  <2>1. Mutexes(mutex') /\ Woken_by_drop(mutex[q]) \subseteq Clients
    BY <1>2, <1>5, MutexSteps DEF Places, LockNext
  <2> QED
    BY <1>2, <1>5, <2>1 DEF Places, LockNext
<1> QED
  BY <1>3, <1>4, <1>5

\* A new turn.
LEMMA TurnPlaces ==
    ASSUME Places, run_once
    PROVE  Mutexes(mutex') /\ pc' = "send" /\ cur' \in Queues
<1>1. "publishes" \in Queues
  BY DEF Queues
<1> QED
  BY <1>1, MutexSteps DEF Places, run_once

\* The steps of the event loop keep the types.
LEMMA LoopPlaces ==
    ASSUME Loop, Places
    PROVE  Places'
<1>1. ASSUME NEW k, send(k) PROVE Places'
  <2>1. pc' \in {"send", "publish"} /\ UNCHANGED <<ready, mutex, on_requst_added, event_wakers, cur, step>>
    BY <1>1 DEF send, eventVars
  <2> QED
    BY <2>1 DEF Places
<1>2. CASE sent_all
  <2>1. UNCHANGED <<on_requst_added, event_wakers, step>> /\ ready' = ready \cup Woken_by_drop(mutex[cur])
    BY <1>2 DEF sent_all, eventVars
  <2>2. \/ LockNext("publishes", "subscribes")
        \/ Unlock(cur) /\ pc' = "select" /\ UNCHANGED cur
    BY <1>2 DEF sent_all
  <2>3. {"publishes", "subscribes", cur} \subseteq Queues
    BY DEF Queues, Places
  <2>4. Woken_by_drop(mutex[cur]) \subseteq Clients /\ Mutexes(mutex')
    <3>1. Mutexes(mutex)
      BY DEF Places
    <3>2. Woken_by_drop(mutex[cur]) \subseteq Clients
      BY <2>3, <3>1, MutexSteps
    <3>3. CASE LockNext("publishes", "subscribes")
      BY <2>3, <3>1, <3>2, <3>3, MutexSteps DEF LockNext
    <3>4. CASE Unlock(cur)
      BY <2>3, <3>1, <3>2, <3>4, MutexSteps DEF Unlock
    <3> QED
      BY <2>2, <3>3, <3>4
  <2> QED
    BY <2>1, <2>2, <2>3, <2>4 DEF Places, LockNext
<1>3. CASE partially_sent
  <2>1. /\ UNCHANGED <<on_requst_added, event_wakers, step, cur>> /\ ready' = ready \cup Woken_by_drop(mutex[cur])
        /\ Unlock(cur) /\ pc' = "nonblocking"
    BY <1>3 DEF partially_sent, eventVars
  <2>2. Woken_by_drop(mutex[cur]) \subseteq Clients /\ Mutexes(mutex')
    BY <2>1, MutexSteps DEF Places, Unlock
  <2> QED
    BY <2>1, <2>2 DEF Places
<1>4. CASE publish
  <2>1. UNCHANGED <<on_requst_added, step>>
    BY <1>4 DEF publish
  <2>2. \/ ready' \subseteq ready /\ pc' = "publish_pending" /\ UNCHANGED <<mutex, event_wakers, cur>>
        \/ /\ event_wakers' = {} /\ LockNext("publishes", "publishes")
           /\ ready' = ready \cup event_wakers \cup Woken_by_drop(mutex["publishes"])
        \/ /\ event_wakers' = {} /\ pc' = "send" /\ UNCHANGED <<mutex, cur>>
           /\ ready' = ready \cup event_wakers
    BY <1>4 DEF publish, Publish, eventVars
  <2>3. "publishes" \in Queues
    BY DEF Queues
  <2>4. Woken_by_drop(mutex["publishes"]) \subseteq Clients /\ Mutexes(mutex')
    <3>1. Mutexes(mutex)
      BY DEF Places
    <3>2. Woken_by_drop(mutex["publishes"]) \subseteq Clients
      BY <2>3, <3>1, MutexSteps
    <3>3. CASE LockNext("publishes", "publishes")
      BY <2>3, <3>1, <3>2, <3>3, MutexSteps DEF LockNext
    <3>4. CASE UNCHANGED mutex
      BY <3>1, <3>2, <3>4
    <3> QED
      BY <2>2, <3>3, <3>4
  <2> QED
    BY <2>1, <2>2, <2>3, <2>4 DEF Places, LockNext
<1>5. CASE nonblocking
  <2>1. UNCHANGED <<on_requst_added, step>> /\ (process_packet \/ (run_once /\ UNCHANGED <<ready, event_wakers>>))
    BY <1>5 DEF nonblocking, eventVars
  <2>2. CASE process_packet
    BY <2>1, <2>2, ProcessPlaces DEF Places
  <2>3. CASE run_once /\ UNCHANGED <<ready, event_wakers>>
    BY <2>1, <2>3, TurnPlaces DEF Places
  <2> QED
    BY <2>1, <2>2, <2>3
<1>6. CASE select3
  <2>1. UNCHANGED step
    BY <1>6 DEF select3
  <2>2. on_requst_added' \in {Consume(on_requst_added), AwaitNotification(on_requst_added)}
    BY <1>6 DEF select3
  <2>3. on_requst_added' \in [notification : {"None", "NewRequest", "Disconnect"}, waker : BOOLEAN]
    BY <2>2 DEF Places, Consume, AwaitNotification
  <2>4. \/ pc' = "stopped" /\ UNCHANGED <<cur, mutex, ready, event_wakers>>
        \/ run_once /\ UNCHANGED <<ready, event_wakers>>
        \/ process_packet
        \/ ready' \subseteq ready /\ UNCHANGED <<mutex, event_wakers, pc, cur>>
    BY <1>6 DEF select3, eventVars
  <2>5. CASE process_packet
    BY <2>1, <2>3, <2>5, ProcessPlaces DEF Places
  <2>6. CASE run_once /\ UNCHANGED <<ready, event_wakers>>
    BY <2>1, <2>3, <2>6, TurnPlaces DEF Places
  <2> QED
    BY <2>1, <2>3, <2>4, <2>5, <2>6 DEF Places
<1> QED
  BY <1>1, <1>2, <1>3, <1>4, <1>5, <1>6 DEF Loop

\* A notification keeps the types.
LEMMA NotifyType ==
    ASSUME Places, NEW n \in {"NewRequest", "Disconnect"}, Notify(n)
    PROVE  /\ on_requst_added' \in [notification : {"None", "NewRequest", "Disconnect"}, waker : BOOLEAN]
           /\ ready' \subseteq Clients \cup {"loop"}
BY DEF Places, Notify, notify

\* So does every step.
LEMMA NextPlaces ==
    ASSUME [Next]_vars, Places
    PROVE  Places'
<1>1. CASE UNCHANGED vars
  BY <1>1 DEF vars, Places
<1>2. CASE Loop
  BY <1>2, LoopPlaces
<1>3. ASSUME NEW c \in Clients, start(c) PROVE Places'
  <2>1. /\ UNCHANGED <<mutex, on_requst_added, event_wakers, pc, cur>> /\ ready' \in {ready, ready \cup {c}}
        /\ step' \in {[step EXCEPT ![c] = "enqueue"], [step EXCEPT ![c] = "failed"]}
    BY <1>3 DEF start, loopVars
  <2> QED
    BY <2>1 DEF Places
<1>4. ASSUME NEW c \in Clients, enqueue(c) PROVE Places'
  <2>1. PICK q : q = QueueOf(c)
    OBVIOUS
  <2>2. q \in Queues
    BY <2>1, QueueOfType
  <2>3. UNCHANGED <<event_wakers, pc, cur>>
    BY <1>4 DEF enqueue, eventVars, loopVars
  <2>4. \/ /\ mutex' = [mutex EXCEPT ![q] = register(@, c)]
           /\ ready' = (ready \ {c}) \cup Evicted(mutex[q], c)
           /\ UNCHANGED <<on_requst_added, step>>
        \/ Notify("NewRequest") /\ step' = [step EXCEPT ![c] = "await"] /\ UNCHANGED mutex
    BY <1>4, <2>1 DEF enqueue
  <2>5. CASE /\ mutex' = [mutex EXCEPT ![q] = register(@, c)]
             /\ ready' = (ready \ {c}) \cup Evicted(mutex[q], c)
             /\ UNCHANGED <<on_requst_added, step>>
    <3>1. Mutexes(mutex') /\ Evicted(mutex[q], c) \subseteq Clients
      BY <2>2, <2>5, MutexSteps DEF Places
    <3> QED
      BY <2>3, <2>5, <3>1 DEF Places
  <2>6. CASE Notify("NewRequest") /\ step' = [step EXCEPT ![c] = "await"] /\ UNCHANGED mutex
    BY <2>3, <2>6, NotifyType DEF Places
  <2> QED
    BY <2>4, <2>5, <2>6
<1>5. ASSUME NEW c \in Clients, await_event(c) \/ cancel(c) PROVE Places'
  <2>1. UNCHANGED <<mutex, on_requst_added, pc, cur>>
    BY <1>5 DEF await_event, cancel, Cancel, loopVars
  <2>2. /\ event_wakers' \in {event_wakers, event_wakers \cup {c}}
        /\ step' \in {step, [step EXCEPT ![c] = "returned"], [step EXCEPT ![c] = "cancelled"]}
    BY <1>5 DEF await_event, cancel, Cancel
  <2>3. ready' \subseteq ready \cup {"loop"}
    BY <1>5, AwakenType DEF await_event, cancel, Cancel
  <2> QED
    BY <2>1, <2>2, <2>3 DEF Places
<1>6. CASE disconnect
  <2>1. Notify("Disconnect") /\ UNCHANGED <<mutex, event_wakers, pc, cur, step>>
    BY <1>6 DEF disconnect, eventVars, loopVars
  <2> QED
    BY <2>1, NotifyType DEF Places
<1>7. CASE broker_answer
  <2>1. UNCHANGED <<mutex, on_requst_added, event_wakers, pc, cur, step>> /\ ready' \subseteq ready \cup {"loop"}
    BY <1>7 DEF broker_answer, eventVars, loopVars
  <2> QED
    BY <2>1 DEF Places
<1> QED
  BY <1>1, <1>2, <1>3, <1>4, <1>5, <1>6, <1>7 DEF Next, Client

-----------------------------------------------------------------------------
(* The event loop moves requests and completes them                         *)

\* A request is in done exactly while its completion is being published.
DoneAt ==
    /\ pc \in {"publish", "publish_pending"} => \E r \in Requests : done = <<r>>
    /\ pc \notin {"publish", "publish_pending"} => done = <<>>

\* No request appears from nowhere.
NoneAppears ==
    \A r \in Requests : Absent(queue, awaiting, done, r) => Absent(queue, awaiting, done, r)'

\* The request was somewhere, is nowhere any more and its completion is
\* published.
Completes(r) ==
    /\ ~Absent(queue, awaiting, done, r) /\ Absent(queue, awaiting, done, r)'
    /\ Publish(r)

LoopStep ==
    /\ Shape(queue, awaiting, inbox, done)' /\ DoneAt' /\ NoneAppears
    /\ UNCHANGED <<step, uid, ids, subscribed, panicked>>
    /\ UNCHANGED <<backlog, completed>> \/ \E r \in Requests : Completes(r)

\* A packet is written.
LEMMA SendStep ==
    ASSUME Shape(queue, awaiting, inbox, done), DoneAt, Places, NEW k \in 1 .. Len(queue[cur]), send(k)
    PROVE  LoopStep
<1> DEFINE r == queue[cur][k]
           qu2 == [queue EXCEPT ![cur] = Remove(@, k)]
           aw2 == [awaiting EXCEPT ![cur] = Append(@, r)]
<1>1. cur \in Queues
  BY DEF Places
<1>2. /\ Shape(qu2, awaiting, inbox, done)
      /\ Absent(qu2, awaiting, done, r) /\ r \in Requests /\ QueueOf(r.call) = cur
      /\ In(queue[cur], r)
      /\ \A q \in Queues, x \in Requests : In(qu2[q], x) => In(queue[q], x)
  BY <1>1, ShapeTake
<1>3. /\ pc = "send" /\ queue' = qu2
      /\ UNCHANGED <<step, uid, ids, subscribed, panicked, backlog, completed, inbox>>
  BY DEF send, eventVars, idVars
<1>4. done = <<>>
  BY <1>3 DEF DoneAt
<1>5. \/ done' = <<r>> /\ pc' = "publish" /\ UNCHANGED awaiting
      \/ Len(awaiting[cur]) < Queue /\ awaiting' = aw2 /\ UNCHANGED <<pc, done>>
  BY DEF send, IsNext, HasSpace
<1>6. ~Absent(queue, awaiting, done, r)
  BY <1>1, <1>2 DEF Absent
<1> HIDE DEF r, qu2
<1>7. CASE done' = <<r>> /\ pc' = "publish" /\ UNCHANGED awaiting
  <2>1. Shape(qu2, awaiting, inbox, <<r>>)
    BY <1>2, ShapeDone
  <2>2. \A x : In(<<r>>, x) <=> x = r
    BY InSingle
  <2>3. ASSUME NEW x \in Requests, Absent(queue, awaiting, done, x)
        PROVE  Absent(qu2, awaiting, <<r>>, x)
    BY <1>2, <1>6, <2>2, <2>3 DEF Absent
  <2>4. NoneAppears
    BY <1>3, <1>7, <2>3 DEF NoneAppears
  <2>5. DoneAt'
    BY <1>2, <1>7 DEF DoneAt
  <2> QED
    BY <1>3, <1>7, <2>1, <2>4, <2>5 DEF LoopStep
<1>8. CASE Len(awaiting[cur]) < Queue /\ awaiting' = aw2 /\ UNCHANGED <<pc, done>>
  <2>1. /\ Shape(qu2, aw2, inbox, done)
        /\ \A q \in Queues, x \in Requests : In(aw2[q], x) => In(awaiting[q], x) \/ x = r
    BY <1>2, <1>8, ShapeAwait
  <2> HIDE DEF aw2
  <2>2. ASSUME NEW x \in Requests, Absent(queue, awaiting, done, x)
        PROVE  Absent(qu2, aw2, done, x)
    BY <1>2, <1>6, <2>1, <2>2 DEF Absent
  <2>3. NoneAppears
    BY <1>3, <1>8, <2>2 DEF NoneAppears
  <2>4. DoneAt'
    BY <1>8 DEF DoneAt
  <2> QED
    BY <1>3, <1>8, <2>1, <2>3, <2>4 DEF LoopStep
<1> QED
  BY <1>5, <1>7, <1>8

\* The completion that is being published.
LEMMA PublishStep ==
    ASSUME Shape(queue, awaiting, inbox, done), DoneAt, publish
    PROVE  LoopStep
<1>1. /\ pc \in {"publish", "publish_pending"}
      /\ UNCHANGED <<step, uid, ids, subscribed, panicked, queue, awaiting, inbox>>
  BY DEF publish, idVars, eventVars
<1>2. PICK r \in Requests : done = <<r>>
  BY <1>1 DEF DoneAt
<1>3. \/ pc' = "publish_pending" /\ UNCHANGED <<backlog, completed, done>>
      \/ Publish(r) /\ done' = <<>> /\ pc' = "send"
  BY <1>2 DEF publish, eventVars, LockNext
<1>4. CASE pc' = "publish_pending" /\ UNCHANGED <<backlog, completed, done>>
  <2>1. DoneAt'
    BY <1>1, <1>4 DEF DoneAt
  <2> QED
    BY <1>1, <1>4, <2>1 DEF LoopStep, NoneAppears
<1>5. CASE Publish(r) /\ done' = <<>> /\ pc' = "send"
  <2>1. Shape(queue, awaiting, inbox, <<>>)
    BY ShapeClear
  <2>2. (\A x : ~In(<<>>, x)) /\ In(<<r>>, r)
    BY InEmpty, InSingle
  <2>3. \A q \in Queues : ~In(queue[q], r) /\ ~In(awaiting[q], r)
    BY <1>2, <2>2 DEF Shape
  <2>4. Absent(queue, awaiting, <<>>, r)
    BY <2>2, <2>3 DEF Absent
  <2>5. ~Absent(queue, awaiting, done, r)
    BY <1>2, <2>2 DEF Absent
  <2>6. NoneAppears
    <3>1. \A x \in Requests : Absent(queue, awaiting, done, x) => Absent(queue, awaiting, <<>>, x)
      BY <2>2 DEF Absent
    <3> QED
      BY <1>1, <1>5, <3>1 DEF NoneAppears
  <2>7. DoneAt'
    BY <1>5 DEF DoneAt
  <2>8. Completes(r)
    BY <1>1, <1>5, <2>4, <2>5 DEF Completes
  <2> QED
    BY <1>1, <1>5, <2>1, <2>6, <2>7, <2>8 DEF LoopStep
<1> QED
  BY <1>3, <1>4, <1>5

\* An acknowledgement is handled.
LEMMA ProcessStep ==
    ASSUME Shape(queue, awaiting, inbox, done), done = <<>>, inbox # <<>>, process_packet,
           UNCHANGED <<queue, step, uid, ids, panicked>>
    PROVE  LoopStep
<1>1. PICK r : r = Head(inbox)
  OBVIOUS
<1>2. PICK p : p = QueueOf(r.call)
  OBVIOUS
<1> DEFINE aw2 == [awaiting EXCEPT ![p] = Remove(@, position(@, r))]
<1>3. /\ Shape(queue, aw2, Tail(inbox), done)
      /\ Absent(queue, aw2, done, r) /\ r \in Requests /\ p \in Queues /\ In(awaiting[p], r)
      /\ \A q \in Queues, x \in Requests : In(aw2[q], x) => In(awaiting[q], x)
  BY <1>1, <1>2, ShapeAcknowledge
<1>4. awaiting' = aw2 /\ inbox' = Tail(inbox) /\ UNCHANGED subscribed
  BY <1>1, <1>2 DEF process_packet, eventVars
<1>5. \/ done' = <<r>> /\ pc' = "publish" /\ UNCHANGED <<backlog, completed>>
      \/ Publish(r) /\ pc' = "send" /\ UNCHANGED done
  BY <1>1 DEF process_packet, eventVars, LockNext
<1> HIDE DEF aw2
<1>6. ~Absent(queue, awaiting, done, r)
  BY <1>3 DEF Absent
<1>7. CASE done' = <<r>> /\ pc' = "publish" /\ UNCHANGED <<backlog, completed>>
  <2>1. Shape(queue, aw2, Tail(inbox), <<r>>)
    BY <1>3, ShapeDone
  <2>2. \A x : In(<<r>>, x) <=> x = r
    BY InSingle
  <2>3. ASSUME NEW x \in Requests, Absent(queue, awaiting, done, x)
        PROVE  Absent(queue, aw2, <<r>>, x)
    BY <1>3, <1>6, <2>2, <2>3 DEF Absent
  <2>4. NoneAppears
    BY <1>4, <1>7, <2>3 DEF NoneAppears
  <2>5. DoneAt'
    BY <1>3, <1>7 DEF DoneAt
  <2> QED
    BY <1>4, <1>7, <2>1, <2>4, <2>5 DEF LoopStep
<1>8. CASE Publish(r) /\ pc' = "send" /\ UNCHANGED done
  <2>1. NoneAppears
    <3>1. \A x \in Requests : Absent(queue, awaiting, done, x) => Absent(queue, aw2, done, x)
      BY <1>3 DEF Absent
    <3> QED
      BY <1>4, <1>8, <3>1 DEF NoneAppears
  <2>2. DoneAt'
    BY <1>8 DEF DoneAt
  <2>3. Completes(r)
    BY <1>3, <1>4, <1>6, <1>8 DEF Completes
  <2> QED
    BY <1>3, <1>4, <1>8, <2>1, <2>2, <2>3 DEF LoopStep
<1> QED
  BY <1>5, <1>7, <1>8

\* Every step of the event loop is a LoopStep.
LEMMA LoopSteps ==
    ASSUME Shape(queue, awaiting, inbox, done), DoneAt, Places, Loop
    PROVE  LoopStep
<1>1. CASE \E k \in 1 .. Len(queue[cur]) : send(k)
  BY <1>1, SendStep
<1>2. CASE publish
  BY <1>2, PublishStep
<1>3. CASE UNCHANGED <<queue, awaiting, inbox, done, step, uid, ids, subscribed, panicked, backlog, completed>>
           /\ pc \notin {"publish", "publish_pending"} /\ pc' \notin {"publish", "publish_pending"}
  <2>1. DoneAt'
    BY <1>3 DEF DoneAt
  <2> QED
    BY <1>3, <2>1 DEF LoopStep, NoneAppears
<1>4. CASE sent_all \/ partially_sent
  <2>1. /\ UNCHANGED <<queue, awaiting, inbox, done, step, uid, ids, subscribed, panicked, backlog, completed>>
        /\ pc = "send" /\ pc' \in {"send", "select", "nonblocking"}
    BY <1>4 DEF sent_all, partially_sent, eventVars, idVars, LockNext
  <2> QED
    BY <1>3, <2>1
<1>5. CASE nonblocking
  <2>1. pc = "nonblocking" /\ UNCHANGED <<queue, step, uid, ids, panicked>>
    BY <1>5 DEF nonblocking, idVars
  <2>2. \/ inbox # <<>> /\ process_packet
        \/ pc' = "send" /\ UNCHANGED <<awaiting, inbox, done, subscribed, backlog, completed>>
    BY <1>5 DEF nonblocking, run_once, eventVars
  <2>3. done = <<>>
    BY <2>1 DEF DoneAt
  <2>4. CASE inbox # <<>> /\ process_packet
    BY <2>1, <2>3, <2>4, ProcessStep
  <2>5. CASE pc' = "send" /\ UNCHANGED <<awaiting, inbox, done, subscribed, backlog, completed>>
    BY <1>3, <2>1, <2>5
  <2> QED
    BY <2>2, <2>4, <2>5
<1>6. CASE select3
  <2>1. pc = "select" /\ UNCHANGED <<queue, step, uid, ids, panicked>>
    BY <1>6 DEF select3, idVars
  <2>2. \/ inbox # <<>> /\ process_packet
        \/ pc' \in {"send", "stopped", pc} /\ UNCHANGED <<awaiting, inbox, done, subscribed, backlog, completed>>
    BY <1>6 DEF select3, run_once, eventVars
  <2>3. done = <<>>
    BY <2>1 DEF DoneAt
  <2>4. CASE inbox # <<>> /\ process_packet
    BY <2>1, <2>3, <2>4, ProcessStep
  <2>5. CASE pc' \in {"send", "stopped", pc} /\ UNCHANGED <<awaiting, inbox, done, subscribed, backlog, completed>>
    BY <1>3, <2>1, <2>5
  <2> QED
    BY <2>2, <2>4, <2>5
<1> QED
  BY <1>1, <1>2, <1>4, <1>5, <1>6 DEF Loop

-----------------------------------------------------------------------------
(* The unique ids                                                           *)

\* The calls of H have an id each, no two the same, and none is in the pool.
Ids(i, u, H) ==
    /\ i \in [next_unused : Nat, pool : Seq(Nat)] /\ u \in [Clients -> Nat]
    /\ Distinct(i.pool)
    /\ \A x \in Nat : In(i.pool, x) => x < i.next_unused
    /\ \A c \in H : u[c] < i.next_unused /\ ~In(i.pool, u[c])
    /\ \A c, d \in H : u[c] = u[d] => c = d

\* A call gets an id.
LEMMA IdTaken ==
    ASSUME NEW i, NEW u, NEW H \in SUBSET Clients, Ids(i, u, H), NEW c \in Clients, c \notin H
    PROVE  /\ Ids(AfterNext(i), [u EXCEPT ![c] = NextId(i)], H \cup {c})
           /\ Len(i.pool) \in Nat /\ Len(AfterNext(i).pool) \in Nat
           /\ \/ Len(AfterNext(i).pool) = 0
              \/ Len(AfterNext(i).pool) + 1 = Len(i.pool)
<1> DEFINE n == NextId(i)
           j == AfterNext(i)
           v == [u EXCEPT ![c] = n]
<1>1. /\ i \in [next_unused : Nat, pool : Seq(Nat)] /\ u \in [Clients -> Nat]
      /\ Distinct(i.pool)
      /\ \A x \in Nat : In(i.pool, x) => x < i.next_unused
      /\ \A d \in H : u[d] < i.next_unused /\ ~In(i.pool, u[d])
      /\ \A d, e \in H : u[d] = u[e] => d = e
  BY DEF Ids
<1>2. /\ n \in Nat /\ n < j.next_unused /\ ~In(j.pool, n)
      /\ \A d \in H : u[d] # n
      /\ j \in [next_unused : Nat, pool : Seq(Nat)]
      /\ i.next_unused <= j.next_unused
      /\ Distinct(j.pool)
      /\ \A x : In(j.pool, x) => In(i.pool, x)
      /\ Len(j.pool) = 0 \/ Len(j.pool) + 1 = Len(i.pool)
  <2>1. CASE i.pool = <<>>
    <3>1. n = i.next_unused /\ j = [i EXCEPT !.next_unused = @ + 1]
      BY <2>1 DEF NextId, AfterNext
    <3>2. /\ j \in [next_unused : Nat, pool : Seq(Nat)] /\ j.pool = i.pool
          /\ j.next_unused = i.next_unused + 1 /\ n \in Nat
      BY <1>1, <3>1
    <3>3. \A x : ~In(j.pool, x)
      BY <2>1, <3>2, InEmpty
    <3>4. Len(j.pool) = 0
      BY <2>1, <3>2
    <3>5. \A d \in H : u[d] # n
      BY <1>1, <3>1
    <3> HIDE DEF n, j
    <3> QED
      BY <1>1, <3>1, <3>2, <3>3, <3>4, <3>5
  <2>2. CASE i.pool # <<>>
    <3>1. n = Head(i.pool) /\ j = [i EXCEPT !.pool = Tail(@)]
      BY <2>2 DEF NextId, AfterNext
    <3>2. PICK s \in Seq(Nat) : s = i.pool
      BY <1>1
    <3>3. s # <<>> /\ Distinct(s)
      BY <1>1, <2>2, <3>2
    <3>4. /\ Tail(s) \in Seq(Nat) /\ Len(s) \in Nat /\ Len(Tail(s)) = Len(s) - 1
          /\ Head(s) \in Nat
          /\ Distinct(Tail(s)) /\ ~In(Tail(s), Head(s)) /\ In(s, Head(s))
          /\ \A x : In(Tail(s), x) => In(s, x)
      BY <3>3, TailFacts, DistinctTail
    <3>5. n = Head(s) /\ j.pool = Tail(s) /\ j.next_unused = i.next_unused
          /\ j \in [next_unused : Nat, pool : Seq(Nat)]
      BY <1>1, <3>1, <3>2, <3>4
    <3>6. n \in Nat /\ In(i.pool, n)
      BY <3>2, <3>4, <3>5
    <3>7. n < i.next_unused /\ \A d \in H : u[d] # n
      BY <1>1, <3>6
    <3> HIDE DEF n, j
    <3>8. Len(j.pool) + 1 = Len(i.pool)
      BY <3>2, <3>4, <3>5
    <3> QED
      BY <1>1, <3>2, <3>4, <3>5, <3>6, <3>7, <3>8
  <2> QED
    BY <2>1, <2>2
<1>3. Len(i.pool) \in Nat /\ Len(j.pool) \in Nat
  <2>1. i.pool \in Seq(Nat) /\ j.pool \in Seq(Nat)
    BY <1>1, <1>2
  <2> QED
    BY <2>1
<1> HIDE DEF n, j
<1>4. v \in [Clients -> Nat] /\ v[c] = n /\ \A d \in H : v[d] = u[d]
  BY <1>1, <1>2
<1> HIDE DEF v
<1>5. \A x \in Nat : In(j.pool, x) => x < j.next_unused
  BY <1>1, <1>2
<1>6. \A d \in H \cup {c} : v[d] < j.next_unused /\ ~In(j.pool, v[d])
  BY <1>1, <1>2, <1>4
<1>7. \A d, e \in H \cup {c} : v[d] = v[e] => d = e
  BY <1>1, <1>2, <1>4
<1>8. Ids(j, v, H \cup {c})
  BY <1>2, <1>4, <1>5, <1>6, <1>7 DEF Ids
<1> QED
  BY <1>2, <1>3, <1>8 DEF n, j, v

\* A call gives its id back.
LEMMA IdFreed ==
    ASSUME NEW i, NEW u, NEW H \in SUBSET Clients, Ids(i, u, H), NEW c \in H
    PROVE  /\ Ids(FreeId(i, u[c]), u, H \ {c})
           /\ Len(i.pool) \in Nat /\ Len(FreeId(i, u[c]).pool) = Len(i.pool) + 1
<1> DEFINE n == u[c]
           j == FreeId(i, n)
<1>1. /\ i \in [next_unused : Nat, pool : Seq(Nat)] /\ u \in [Clients -> Nat]
      /\ Distinct(i.pool)
      /\ \A x \in Nat : In(i.pool, x) => x < i.next_unused
      /\ \A d \in H : u[d] < i.next_unused /\ ~In(i.pool, u[d])
      /\ \A d, e \in H : u[d] = u[e] => d = e
  BY DEF Ids
<1>2. n \in Nat /\ n < i.next_unused /\ ~In(i.pool, n) /\ \A d \in H \ {c} : u[d] # n
  BY <1>1
<1>3. PICK s \in Seq(Nat) : s = i.pool
  BY <1>1
<1> HIDE DEF n
<1>4. /\ Append(s, n) \in Seq(Nat) /\ Len(s) \in Nat /\ Len(Append(s, n)) = Len(s) + 1
      /\ Distinct(Append(s, n))
      /\ \A x : In(Append(s, n), x) <=> In(s, x) \/ x = n
  BY <1>1, <1>2, <1>3, PushFacts, PushIn, DistinctPush
<1>5. /\ j.pool = Append(s, n) /\ j.next_unused = i.next_unused
      /\ j \in [next_unused : Nat, pool : Seq(Nat)]
  BY <1>1, <1>3, <1>4 DEF FreeId
<1> HIDE DEF j
<1>6. Ids(j, u, H \ {c})
  BY <1>1, <1>2, <1>3, <1>4, <1>5 DEF Ids
<1> QED
  BY <1>3, <1>4, <1>5, <1>6 DEF j, n

-----------------------------------------------------------------------------
(* The subscribers                                                          *)

\* The ids in the pool and the subscribers S.
Fits(i, S) ==
    /\ IsFiniteSet(S) /\ Cardinality(S) \in Nat /\ Len(i.pool) \in Nat
    /\ Len(i.pool) + Cardinality(S) <= MaxSubscribers

\* A subscriber is added, and an id is taken from the pool or the pool is empty.
LEMMA FitsAdd ==
    ASSUME NEW i, NEW S, Fits(i, S), NEW c, c \notin S, Cardinality(S) < MaxSubscribers,
           NEW j, Len(j.pool) \in Nat, Len(j.pool) = 0 \/ Len(j.pool) + 1 = Len(i.pool)
    PROVE  Fits(j, S \cup {c})
<1>1. IsFiniteSet(S \cup {c}) /\ Cardinality(S \cup {c}) = Cardinality(S) + 1
  BY FS_AddElement DEF Fits
<1>2. MaxSubscribers \in Nat
  BY CallsAssumption
<1> QED
  BY <1>1, <1>2 DEF Fits

\* One subscriber less leaves room for one id more.
LEMMA OneForOne ==
    ASSUME NEW a \in Nat, NEW b \in Nat, NEW x \in Nat, NEW y \in Nat, NEW m \in Nat,
           b = a - 1, x + a <= m, y <= x + 1
    PROVE  y + b <= m /\ x < m
OBVIOUS

\* A subscriber is removed, and at most one id is put into the pool.
LEMMA FitsRemove ==
    ASSUME NEW i, NEW S, Fits(i, S), NEW c \in S, NEW j, Len(j.pool) \in Nat, Len(j.pool) <= Len(i.pool) + 1
    PROVE  Fits(j, S \ {c}) /\ Len(i.pool) < MaxSubscribers
<1>1. IsFiniteSet(S \ {c}) /\ Cardinality(S \ {c}) = Cardinality(S) - 1
  BY FS_RemoveElement DEF Fits
<1>2. Cardinality(S \ {c}) \in Nat
  BY <1>1, FS_CardinalityType
<1>3. MaxSubscribers \in Nat
  BY CallsAssumption
<1>4. PICK T : T = S \ {c}
  OBVIOUS
<1>5. PICK a \in Nat, b \in Nat : a = Cardinality(S) /\ b = Cardinality(T) /\ b = a - 1
  BY <1>1, <1>2, <1>4 DEF Fits
<1>6. PICK x \in Nat, y \in Nat : x = Len(i.pool) /\ y = Len(j.pool)
  BY DEF Fits
<1>7. x + a <= MaxSubscribers /\ y <= x + 1
  BY <1>5, <1>6 DEF Fits
<1>8. y + b <= MaxSubscribers /\ x < MaxSubscribers
  BY <1>3, <1>5, <1>7, OneForOne
<1> QED
  BY <1>1, <1>4, <1>5, <1>6, <1>8 DEF Fits

-----------------------------------------------------------------------------
(* The events that have not been read                                       *)

\* An event with the id of the call is unread only after the completion of the
\* call was published; who has no subscriber has no events.  S is the set of
\* subscribers, co of the completed calls.
Unread(b, u, co, S) ==
    /\ b \in [Clients -> Seq(Events)]
    /\ \A c \in Clients : Len(b[c]) <= EventCap
    /\ \A c \in Clients \ S : b[c] = <<>>
    /\ \A c \in Clients : \A e \in Events : In(b[c], e) /\ e.uid = u[c] => c \in co

\* What is read was there.
LEMMA TailIn ==
    ASSUME NEW S, NEW s \in Seq(S), s # <<>>
    PROVE  \A x : In(Tail(s), x) => In(s, x)
<1> DEFINE t == Tail(s)
<1>1. /\ Len(s) \in Nat \ {0} /\ Len(t) = Len(s) - 1
      /\ \A j \in 1 .. Len(s) - 1 : t[j] = s[j + 1]
  BY TailFacts
<1> HIDE DEF t
<1>2. \A j \in 1 .. Len(t) : j + 1 \in 1 .. Len(s) /\ t[j] = s[j + 1]
  BY <1>1
<1>3. \A x : In(t, x) => In(s, x)
  BY <1>2 DEF In
<1> QED
  BY <1>3 DEF t

\* What one subscriber has after an event is published.
LEMMA Delivered ==
    ASSUME NEW s \in Seq(Events), Len(s) <= EventCap, NEW e \in Events
    PROVE  LET t == Append(IF Len(s) >= EventCap THEN Tail(s) ELSE s, e)
           IN  /\ t \in Seq(Events) /\ Len(t) <= EventCap
               /\ \A x : In(t, x) => In(s, x) \/ x = e
<1>1. EventCap \in Nat \ {0} /\ Len(s) \in Nat
  BY CallsAssumption
<1>2. CASE Len(s) >= EventCap
  <2>1. s # <<>>
    BY <1>1, <1>2
  <2>2. /\ Tail(s) \in Seq(Events) /\ Len(Tail(s)) = Len(s) - 1
        /\ \A x : In(Tail(s), x) => In(s, x)
    BY <2>1, TailFacts, TailIn
  <2>3. PICK v \in Seq(Events) : v = Tail(s)
    BY <2>2
  <2>4. /\ Append(v, e) \in Seq(Events) /\ Len(Append(v, e)) = Len(v) + 1
        /\ \A x : In(Append(v, e), x) <=> In(v, x) \/ x = e
    BY PushFacts, PushIn
  <2>5. Len(Append(v, e)) <= EventCap
    BY <1>1, <2>2, <2>3, <2>4
  <2> QED
    BY <1>2, <2>2, <2>3, <2>4, <2>5
<1>3. CASE ~(Len(s) >= EventCap)
  <2>1. /\ Append(s, e) \in Seq(Events) /\ Len(Append(s, e)) = Len(s) + 1
        /\ \A x : In(Append(s, e), x) <=> In(s, x) \/ x = e
    BY PushFacts, PushIn
  <2>2. Len(Append(s, e)) <= EventCap
    BY <1>1, <1>3, <2>1
  <2> QED
    BY <1>3, <2>1, <2>2
<1> QED
  BY <1>2, <1>3

\* An event is published that is for call d and for no other subscriber.
LEMMA UnreadPublish ==
    ASSUME NEW b, NEW u, NEW co, NEW S \in SUBSET Clients, Unread(b, u, co, S),
           NEW e \in Events, NEW d, \A c \in S : e.uid = u[c] => c = d,
           NEW b2, b2 = [c \in Clients |->
                           IF c \notin S THEN <<>>
                           ELSE Append(IF Len(b[c]) >= EventCap THEN Tail(b[c]) ELSE b[c], e)]
    PROVE  Unread(b2, u, co \cup {d}, S)
<1>1. /\ b \in [Clients -> Seq(Events)]
      /\ \A c \in Clients : Len(b[c]) <= EventCap
      /\ \A c \in Clients \ S : b[c] = <<>>
      /\ \A c \in Clients : \A x \in Events : In(b[c], x) /\ x.uid = u[c] => c \in co
  BY DEF Unread
<1>2. \A c \in Clients : b2[c] = IF c \notin S THEN <<>>
                                 ELSE Append(IF Len(b[c]) >= EventCap THEN Tail(b[c]) ELSE b[c], e)
  OBVIOUS
<1>3. ASSUME NEW c \in Clients
      PROVE  /\ b2[c] \in Seq(Events) /\ Len(b2[c]) <= EventCap
             /\ c \notin S => b2[c] = <<>>
             /\ \A x \in Events : In(b2[c], x) => (In(b[c], x) \/ (x = e /\ c \in S))
  <2>1. CASE c \notin S
    <3>1. b2[c] = <<>>
      BY <1>2, <2>1
    <3>2. EventCap \in Nat
      BY CallsAssumption
    <3> QED
      BY <2>1, <3>1, <3>2, InEmpty
  <2>2. CASE c \in S
    <3>1. PICK s \in Seq(Events) : s = b[c] /\ Len(s) <= EventCap
      BY <1>1
    <3>2. b2[c] = Append(IF Len(s) >= EventCap THEN Tail(s) ELSE s, e)
      BY <1>2, <2>2, <3>1
    <3>3. /\ b2[c] \in Seq(Events) /\ Len(b2[c]) <= EventCap
          /\ \A x : In(b2[c], x) => In(s, x) \/ x = e
      BY <3>1, <3>2, Delivered
    <3> QED
      BY <2>2, <3>1, <3>3
  <2> QED
    BY <2>1, <2>2
<1>4. b2 \in [Clients -> Seq(Events)]
  BY <1>3
<1>5. ASSUME NEW c \in Clients, NEW x \in Events, In(b2[c], x), x.uid = u[c] PROVE c \in co \cup {d}
  BY <1>1, <1>3, <1>5
<1> QED
  BY <1>3, <1>4, <1>5 DEF Unread

\* A call reads an event.
LEMMA UnreadRead ==
    ASSUME NEW b, NEW u, NEW co, NEW S, Unread(b, u, co, S), NEW c \in Clients, b[c] # <<>>
    PROVE  /\ Unread([b EXCEPT ![c] = Tail(@)], u, co, S)
           /\ Head(b[c]).uid = u[c] => c \in co
<1>1. PICK s \in Seq(Events) : s = b[c] /\ s # <<>> /\ Len(s) <= EventCap
  BY DEF Unread
<1>2. /\ Tail(s) \in Seq(Events) /\ Len(s) \in Nat \ {0} /\ Len(Tail(s)) = Len(s) - 1
      /\ \A x : In(Tail(s), x) => In(s, x)
      /\ Head(s) = s[1] /\ s[1] \in Events
  BY <1>1, TailFacts, TailIn
<1>3. In(s, Head(s)) /\ Head(s) \in Events
  BY <1>2 DEF In
<1> EventCap \in Nat
  BY CallsAssumption
<1> Len(Tail(s)) <= EventCap
  BY <1>1, <1>2
<1>4. PICK t \in Seq(Events) : t = Tail(s) /\ Len(t) <= EventCap
  BY <1>2
<1>5. PICK b2 : b2 = [b EXCEPT ![c] = t]
  OBVIOUS
<1>6. b2 \in [Clients -> Seq(Events)] /\ \A d \in Clients : b2[d] = IF d = c THEN t ELSE b[d]
  BY <1>5 DEF Unread
<1>7. c \in S
  BY <1>1 DEF Unread
<1>8. ASSUME NEW d \in Clients, NEW e \in Events, In(b2[d], e) PROVE In(b[d], e)
  BY <1>1, <1>2, <1>4, <1>6, <1>8
<1>9. Unread(b2, u, co, S)
  BY <1>4, <1>6, <1>7, <1>8 DEF Unread
<1> QED
  BY <1>1, <1>3, <1>4, <1>5, <1>9 DEF Unread

\* A subscriber is dropped.
LEMMA UnreadDrop ==
    ASSUME NEW b, NEW u, NEW co, NEW S, Unread(b, u, co, S), NEW c \in Clients
    PROVE  Unread([b EXCEPT ![c] = <<>>], u, co, S \ {c})
<1> <<>> \in Seq(Events)
  OBVIOUS
<1>1. PICK t : t = <<>> /\ t \in Seq(Events)
  OBVIOUS
<1>2. Len(t) <= EventCap /\ \A x : ~In(t, x)
  BY <1>1, InEmpty, CallsAssumption
<1>3. PICK b2 : b2 = [b EXCEPT ![c] = t]
  OBVIOUS
<1>4. b2 \in [Clients -> Seq(Events)] /\ \A d \in Clients : b2[d] = IF d = c THEN t ELSE b[d]
  BY <1>1, <1>3 DEF Unread
<1>5. ASSUME NEW d \in Clients, NEW e \in Events, In(b2[d], e) PROVE In(b[d], e)
  BY <1>2, <1>4, <1>5
<1>6. Unread(b2, u, co, S \ {c})
  BY <1>1, <1>2, <1>4, <1>5 DEF Unread
<1> QED
  BY <1>1, <1>3, <1>6

\* A call without a subscriber gets a new id, and perhaps a subscriber.
LEMMA UnreadStart ==
    ASSUME NEW b, NEW u, NEW co, NEW S, Unread(b, u, co, S), NEW c \in Clients, c \notin S,
           u \in [Clients -> Nat], NEW n
    PROVE  /\ Unread(b, [u EXCEPT ![c] = n], co, S)
           /\ Unread(b, [u EXCEPT ![c] = n], co, S \cup {c})
<1>1. b[c] = <<>> /\ \A x : ~In(b[c], x)
  BY InEmpty DEF Unread
<1>2. PICK v : v = [u EXCEPT ![c] = n]
  OBVIOUS
<1>3. \A d \in Clients : d # c => v[d] = u[d]
  BY <1>2
<1>4. ASSUME NEW d \in Clients, NEW e \in Events, In(b[d], e), e.uid = v[d] PROVE d \in co
  BY <1>1, <1>3, <1>4 DEF Unread
<1>5. Unread(b, v, co, S) /\ Unread(b, v, co, S \cup {c})
  BY <1>4 DEF Unread
<1> QED
  BY <1>2, <1>5

-----------------------------------------------------------------------------
(* The invariant                                                            *)

\* The calls that have an id: a cancelled call and one that got no subscriber
\* never give theirs back.
Holders == {c \in Clients : step[c] \in {"enqueue", "await", "cancelled", "failed"}}

\* A request belongs to a call that still has its id and is not completed.
Owned ==
    /\ \A r \in Requests :
          ~Absent(queue, awaiting, done, r)
              => /\ r.uid = uid[r.call] /\ step[r.call] \in {"await", "cancelled"}
                 /\ r.call \notin completed
    /\ completed \subseteq Clients
    /\ \A c \in completed : step[c] \notin {"new", "enqueue"}

\* The calls that wait have a subscriber.
Subscribers ==
    /\ subscribed = {c \in Clients : step[c] \in {"enqueue", "await"}}
    /\ Fits(ids, subscribed)

\* What the calls did: they returned for their own completion, and the pool of
\* ids, if it is as large as the channel has subscribers, had room.
Outcome ==
    /\ ReturnsForOwn
    /\ MaxSubscribers <= IdPoolSize => ~panicked

CallsInv ==
    /\ Places /\ Shape(queue, awaiting, inbox, done) /\ DoneAt
    /\ Owned
    /\ Ids(ids, uid, Holders)
    /\ Subscribers
    /\ Unread(backlog, uid, completed, subscribed)
    /\ Outcome

\* The invariant holds at first.
LEMMA InitCalls == ASSUME Init PROVE CallsInv
<1>1. Places
  <2>1. GoodMutex(NewMutex) /\ GoodMutex(poll_lock(NewMutex))
    BY GoodNew, GoodLock
  <2>2. Mutexes(mutex)
    BY <2>1 DEF Init, Mutexes, GoodMutex
  <2> QED
    BY <2>2 DEF Init, Places, Queues, NoRequest
<1>2. PICK z : z = <<>>
  OBVIOUS
<1>3. /\ \A x : ~In(z, x)
      /\ z \in Seq(Requests) /\ z \in Seq(Nat) /\ z \in Seq(Events)
      /\ Len(z) = 0 /\ Distinct(z)
  BY <1>2, InEmpty DEF Distinct
<1>4. /\ \A q \in Queues : queue[q] = z /\ awaiting[q] = z
      /\ queue \in [Queues -> {z}] /\ awaiting \in [Queues -> {z}]
      /\ inbox = z /\ done = z
  BY <1>2 DEF Init
<1>5. {Queue, EventCap, MaxSubscribers} \subseteq Nat
  BY CallsAssumption
<1>6. Shape(queue, awaiting, inbox, done)
  <2>1. queue \in [Queues -> Seq(Requests)] /\ awaiting \in [Queues -> Seq(Requests)]
    BY <1>3, <1>4
  <2>2. \A q \in Queues : Len(queue[q]) <= Queue /\ Len(awaiting[q]) <= Queue
    BY <1>3, <1>4, <1>5
  <2>3. /\ \A q \in Queues : Distinct(queue[q]) /\ Distinct(awaiting[q])
        /\ \A q \in Queues : \A x : ~In(queue[q], x) /\ ~In(awaiting[q], x)
        /\ \A x : ~In(inbox, x)
        /\ inbox \in Seq(Requests) /\ done \in Seq(Requests) /\ Distinct(inbox)
    BY <1>3, <1>4
  <2> QED
    BY <2>1, <2>2, <2>3 DEF Shape
<1>7. DoneAt
  BY DEF Init, DoneAt
<1>8. \A c \in Clients : step[c] = "new"
  BY DEF Init
<1>9. Owned
  BY <1>3, <1>4 DEF Init, Owned, Absent
<1>10. Holders = {} /\ subscribed = {} /\ subscribed = {c \in Clients : step[c] \in {"enqueue", "await"}}
  BY <1>8 DEF Holders, Init
<1>11. ids.pool = z /\ ids \in [next_unused : Nat, pool : Seq(Nat)] /\ uid \in [Clients -> Nat]
  BY <1>2, <1>3 DEF Init, NewIds
<1>12. Ids(ids, uid, Holders)
  BY <1>3, <1>10, <1>11 DEF Ids
<1>13. Fits(ids, {})
  <2>1. IsFiniteSet({}) /\ Cardinality({}) = 0
    BY FS_EmptySet
  <2> QED
    BY <1>3, <1>5, <1>11, <2>1 DEF Fits
<1>14. Subscribers
  BY <1>10, <1>13 DEF Subscribers
<1>15. backlog \in [Clients -> Seq(Events)] /\ \A c \in Clients : backlog[c] = z
  BY <1>2, <1>3 DEF Init
<1>16. Unread(backlog, uid, completed, subscribed)
  BY <1>2, <1>3, <1>5, <1>15 DEF Unread
<1>17. Outcome
  BY <1>8 DEF Outcome, ReturnsForOwn, Init
<1> QED
  BY <1>1, <1>6, <1>7, <1>9, <1>12, <1>14, <1>16, <1>17 DEF CallsInv

\* A step of the event loop.
LEMMA LoopCalls == ASSUME CallsInv, Loop PROVE CallsInv'
<1> USE DEF CallsInv
<1>1. Places' /\ LoopStep
  BY LoopPlaces, LoopSteps
<1>2. /\ Shape(queue, awaiting, inbox, done)' /\ DoneAt' /\ NoneAppears
      /\ UNCHANGED <<step, uid, ids, subscribed, panicked>>
      /\ UNCHANGED <<backlog, completed>> \/ \E r \in Requests : Completes(r)
  BY <1>1 DEF LoopStep
<1>3. Ids(ids, uid, Holders)' /\ Subscribers'
  BY <1>2 DEF Holders, Subscribers
<1>4. CASE UNCHANGED <<backlog, completed>>
  <2>1. Owned'
    BY <1>2, <1>4 DEF Owned, NoneAppears
  <2>2. Outcome'
    BY <1>2, <1>4 DEF Outcome, ReturnsForOwn
  <2>3. Unread(backlog, uid, completed, subscribed)'
    BY <1>2, <1>4
  <2> QED
    BY <1>1, <1>2, <1>3, <2>1, <2>2, <2>3
<1>5. CASE \E r \in Requests : Completes(r)
  <2>1. PICK r \in Requests : Completes(r)
    BY <1>5
  <2>2. PICK d \in Clients : d = r.call
    BY DEF Requests
  <2>3. /\ r.uid = uid[d] /\ step[d] \in {"await", "cancelled"} /\ d \notin completed
    BY <2>1, <2>2 DEF Owned, Completes
  <2>4. completed' = completed \cup {d}
    BY <2>1, <2>2 DEF Completes, Publish
  <2>5. Owned'
    <3>1. ASSUME NEW x \in Requests, ~Absent(queue, awaiting, done, x)'
          PROVE  x.uid = uid'[x.call] /\ step'[x.call] \in {"await", "cancelled"} /\ x.call \notin completed'
      <4>1. ~Absent(queue, awaiting, done, x)
        BY <1>2, <3>1 DEF NoneAppears
      <4>2. x.uid = uid[x.call] /\ step[x.call] \in {"await", "cancelled"} /\ x.call \notin completed
        BY <4>1 DEF Owned
      <4>3. x # r
        BY <2>1, <3>1 DEF Completes
      <4>4. x.call # d
        BY <2>2, <2>3, <4>2, <4>3 DEF Requests
      <4> QED
        BY <1>2, <2>4, <4>2, <4>4
    <3>2. completed' \subseteq Clients /\ \A c \in completed' : step'[c] \notin {"new", "enqueue"}
      BY <1>2, <2>3, <2>4 DEF Owned
    <3> QED
      BY <3>1, <3>2 DEF Owned
  <2>6. Outcome'
    BY <1>2, <2>4 DEF Outcome, ReturnsForOwn
  <2>7. Unread(backlog, uid, completed, subscribed)'
    <3> r.uid \in Nat
      BY DEF Requests
    <3> Event(r) \in Events
      BY DEF Event, Events
    <3>1. PICK e \in Events : e = Event(r)
      OBVIOUS
    <3>2. e.uid = uid[d]
      BY <2>3, <3>1 DEF Event
    <3>3. subscribed \in SUBSET Clients /\ subscribed \subseteq Holders /\ d \in Holders
      BY <2>3 DEF Subscribers, Holders
    <3>4. \A c \in subscribed : e.uid = uid[c] => c = d
      BY <3>2, <3>3 DEF Ids
    <3>5. backlog' = [c \in Clients |->
                       IF c \notin subscribed THEN <<>>
                       ELSE Append(IF Len(backlog[c]) >= EventCap THEN Tail(backlog[c]) ELSE backlog[c], e)]
      BY <2>1, <3>1 DEF Completes, Publish
    <3>6. Unread(backlog', uid, completed \cup {d}, subscribed)
      BY <3>3, <3>4, <3>5, UnreadPublish
    <3> QED
      BY <1>2, <2>4, <3>6
  <2> QED
    BY <1>1, <1>2, <1>3, <2>5, <2>6, <2>7
<1> QED
  BY <1>2, <1>4, <1>5

\* A call begins.
LEMMA StartCalls == ASSUME CallsInv, NEW c \in Clients, start(c) PROVE CallsInv'
<1> USE DEF CallsInv
<1>1. Places'
  BY NextPlaces DEF Next
<1>2. /\ step[c] = "new" /\ uid' = [uid EXCEPT ![c] = NextId(ids)] /\ ids' = AfterNext(ids)
      /\ UNCHANGED <<queue, awaiting, inbox, done, pc, backlog, completed, panicked>>
  BY DEF start, loopVars, IdsAfterFailure
<1>3. Shape(queue, awaiting, inbox, done)' /\ DoneAt'
  BY <1>2 DEF DoneAt
<1>4. /\ step \in [Clients -> {"new", "enqueue", "await", "returned", "failed", "cancelled"}]
      /\ uid \in [Clients -> Nat]
  BY DEF Places, Ids
<1>5. PICK to \in {"enqueue", "failed"} : step' = [step EXCEPT ![c] = to]
  BY DEF start
<1>6. /\ step'[c] = to /\ \A d \in Clients : d # c => step'[d] = step[d] /\ uid'[d] = uid[d]
  BY <1>2, <1>4, <1>5
<1>7. c \notin Holders /\ c \notin subscribed /\ Holders' = Holders \cup {c} /\ Holders \in SUBSET Clients
  BY <1>2, <1>5, <1>6 DEF Holders, Subscribers
<1>8. Owned'
  <2>1. ASSUME NEW r \in Requests, ~Absent(queue, awaiting, done, r)'
        PROVE  r.uid = uid'[r.call] /\ step'[r.call] \in {"await", "cancelled"} /\ r.call \notin completed'
    <3>1. r.uid = uid[r.call] /\ step[r.call] \in {"await", "cancelled"} /\ r.call \notin completed
      BY <1>2, <2>1 DEF Owned
    <3>2. r.call \in Clients /\ r.call # c
      BY <1>2, <3>1 DEF Requests
    <3> QED
      BY <1>2, <1>6, <3>1, <3>2
  <2>2. completed' \subseteq Clients /\ \A d \in completed' : step'[d] \notin {"new", "enqueue"}
    BY <1>2, <1>6 DEF Owned
  <2> QED
    BY <2>1, <2>2 DEF Owned
<1>9. /\ Ids(ids', uid', Holders')
      /\ Len(ids.pool) \in Nat /\ Len(ids'.pool) \in Nat
      /\ Len(ids'.pool) = 0 \/ Len(ids'.pool) + 1 = Len(ids.pool)
  BY <1>2, <1>7, IdTaken
<1>10. \/ /\ Cardinality(subscribed) < MaxSubscribers
          /\ subscribed' = subscribed \cup {c} /\ to = "enqueue"
       \/ subscribed' = subscribed /\ to = "failed"
  <2>1. \/ /\ Cardinality(subscribed) < MaxSubscribers
           /\ subscribed' = subscribed \cup {c} /\ step' = [step EXCEPT ![c] = "enqueue"]
        \/ subscribed' = subscribed /\ step' = [step EXCEPT ![c] = "failed"]
    BY DEF start
  <2>2. ASSUME NEW v, step' = [step EXCEPT ![c] = v] PROVE v = to
    BY <1>4, <1>6, <2>2
  <2> QED
    BY <2>1, <2>2
<1>11. Subscribers'
  <2>1. subscribed' = {d \in Clients : step'[d] \in {"enqueue", "await"}}
    BY <1>6, <1>7, <1>10 DEF Subscribers
  <2>2. Fits(ids', subscribed')
    <3>1. Fits(ids, subscribed)
      BY DEF Subscribers
    <3>2. CASE Cardinality(subscribed) < MaxSubscribers /\ subscribed' = subscribed \cup {c}
      BY <1>7, <1>9, <3>1, <3>2, FitsAdd
    <3>3. CASE subscribed' = subscribed
      BY <1>9, <3>1, <3>3, CallsAssumption DEF Fits
    <3> QED
      BY <1>10, <3>2, <3>3
  <2> QED
    BY <2>1, <2>2 DEF Subscribers
<1>12. Unread(backlog', uid', completed', subscribed')
  <2>1. /\ Unread(backlog, uid', completed, subscribed)
        /\ Unread(backlog, uid', completed, subscribed \cup {c})
    BY <1>2, <1>4, <1>7, UnreadStart
  <2> QED
    BY <1>2, <1>10, <2>1
<1>13. Outcome'
  BY <1>2, <1>6 DEF Outcome, ReturnsForOwn
<1> QED
  BY <1>1, <1>3, <1>8, <1>9, <1>11, <1>12, <1>13

\* A call puts its request into the queue, or waits for the queue.
LEMMA EnqueueCalls == ASSUME CallsInv, NEW c \in Clients, enqueue(c) PROVE CallsInv'
<1> USE DEF CallsInv
<1>1. Places'
  BY NextPlaces DEF Next, Client
<1> DEFINE r == [call |-> c, uid |-> uid[c]]
<1>2. /\ step[c] = "enqueue"
      /\ UNCHANGED <<awaiting, inbox, done, pc, backlog, completed, panicked, subscribed, ids, uid>>
  BY DEF enqueue, eventVars, idVars, loopVars
<1>3. \/ UNCHANGED <<queue, step>>
      \/ /\ queue' = [queue EXCEPT ![QueueOf(c)] = Append(@, r)] /\ ~(Len(queue[QueueOf(c)]) >= Queue)
         /\ step' = [step EXCEPT ![c] = "await"]
  BY DEF enqueue, Busy
<1>4. CASE UNCHANGED <<queue, step>>
  <2>1. Shape(queue, awaiting, inbox, done)' /\ DoneAt'
    BY <1>2, <1>4 DEF DoneAt
  <2>2. Owned'
    BY <1>2, <1>4 DEF Owned
  <2>3. Ids(ids, uid, Holders)' /\ Subscribers'
    BY <1>2, <1>4 DEF Holders, Subscribers
  <2>4. Unread(backlog, uid, completed, subscribed)'
    BY <1>2
  <2>5. Outcome'
    BY <1>2, <1>4 DEF Outcome, ReturnsForOwn
  <2> QED
    BY <1>1, <2>1, <2>2, <2>3, <2>4, <2>5
<1>5. CASE /\ queue' = [queue EXCEPT ![QueueOf(c)] = Append(@, r)] /\ ~(Len(queue[QueueOf(c)]) >= Queue)
           /\ step' = [step EXCEPT ![c] = "await"]
  <2>1. r \in Requests /\ r.call = c /\ r.uid = uid[c]
    BY DEF Requests, Ids
  <2> HIDE DEF r
  <2>2. Absent(queue, awaiting, done, r)
    BY <1>2, <2>1 DEF Owned
  <2>3. PICK p \in Queues : p = QueueOf(c)
    BY QueueOfType
  <2>4. Len(queue[p]) < Queue
    <3>1. queue[p] \in Seq(Requests) /\ Queue \in Nat
      BY CallsAssumption DEF Shape
    <3> QED
      BY <1>5, <2>3, <3>1
  <2>5. /\ Shape(queue', awaiting, inbox, done)
        /\ \A q \in Queues, x \in Requests : In(queue'[q], x) => In(queue[q], x) \/ x = r
    BY <1>5, <2>1, <2>2, <2>3, <2>4, ShapeEnqueue
  <2>6. DoneAt'
    BY <1>2 DEF DoneAt
  <2>7. step \in [Clients -> {"new", "enqueue", "await", "returned", "failed", "cancelled"}]
    BY DEF Places
  <2>8. step'[c] = "await" /\ \A d \in Clients : d # c => step'[d] = step[d]
    BY <1>5, <2>7
  <2>9. Owned'
    <3>1. ASSUME NEW x \in Requests, ~Absent(queue, awaiting, done, x)'
          PROVE  x.uid = uid'[x.call] /\ step'[x.call] \in {"await", "cancelled"} /\ x.call \notin completed'
      <4>1. CASE x = r
        BY <1>2, <2>1, <2>8, <4>1 DEF Owned
      <4>2. CASE x # r
        <5>1. ~Absent(queue, awaiting, done, x)
          BY <1>2, <2>5, <3>1, <4>2 DEF Absent
        <5>2. x.uid = uid[x.call] /\ step[x.call] \in {"await", "cancelled"} /\ x.call \notin completed
          BY <5>1 DEF Owned
        <5>3. x.call \in Clients
          BY DEF Requests
        <5> QED
          BY <1>2, <2>8, <5>2, <5>3
      <4> QED
        BY <4>1, <4>2
    <3>2. completed' \subseteq Clients /\ \A d \in completed' : step'[d] \notin {"new", "enqueue"}
      BY <1>2, <2>8 DEF Owned
    <3> QED
      BY <3>1, <3>2 DEF Owned
  <2>10. Holders' = Holders /\ subscribed = {d \in Clients : step'[d] \in {"enqueue", "await"}}
    BY <1>2, <2>8 DEF Holders, Subscribers
  <2>11. Ids(ids, uid, Holders)' /\ Subscribers'
    BY <1>2, <2>10 DEF Subscribers
  <2>12. Unread(backlog, uid, completed, subscribed)'
    BY <1>2
  <2>13. Outcome'
    BY <1>2, <2>8 DEF Outcome, ReturnsForOwn
  <2>14. Shape(queue, awaiting, inbox, done)'
    BY <1>2, <2>5
  <2> QED
    BY <1>1, <2>6, <2>9, <2>11, <2>12, <2>13, <2>14
<1> QED
  BY <1>3, <1>4, <1>5

\* A call ends, with its subscriber dropped: it returns and gives its id back, or
\* it is cancelled and keeps it.
LEMMA EndCalls ==
    ASSUME CallsInv, Places', NEW c \in Clients, step[c] \in {"enqueue", "await"}, DropSubscriber(c),
           NEW to, step' = [step EXCEPT ![c] = to],
           UNCHANGED <<queue, awaiting, inbox, done, pc, completed, uid>>,
           \/ /\ to = "returned" /\ c \in completed
              /\ ids' = FreeId(ids, uid[c]) /\ panicked' = ~CanFree(ids)
           \/ to = "cancelled" /\ UNCHANGED <<ids, panicked>>
    PROVE  CallsInv'
<1> USE DEF CallsInv
<1>1. Shape(queue, awaiting, inbox, done)' /\ DoneAt'
  BY DEF DoneAt
<1>2. step \in [Clients -> {"new", "enqueue", "await", "returned", "failed", "cancelled"}]
  BY DEF Places
<1>3. step'[c] = to /\ \A d \in Clients : d # c => step'[d] = step[d]
  BY <1>2
<1>4. to \in {"returned", "cancelled"}
  OBVIOUS
<1>5. Owned'
  <2>1. ASSUME NEW x \in Requests, ~Absent(queue, awaiting, done, x)'
        PROVE  x.uid = uid'[x.call] /\ step'[x.call] \in {"await", "cancelled"} /\ x.call \notin completed'
    <3>1. x.uid = uid[x.call] /\ step[x.call] \in {"await", "cancelled"} /\ x.call \notin completed
      BY <2>1 DEF Owned
    <3>2. x.call \in Clients
      BY DEF Requests
    <3> QED
      BY <1>3, <3>1, <3>2
  <2>2. completed' \subseteq Clients /\ \A d \in completed' : step'[d] \notin {"new", "enqueue"}
    BY <1>3, <1>4 DEF Owned
  <2> QED
    BY <2>1, <2>2 DEF Owned
<1>6. c \in subscribed /\ subscribed' = subscribed \ {c} /\ backlog' = [backlog EXCEPT ![c] = <<>>]
  BY DEF Subscribers, DropSubscriber
<1>7. subscribed' = {d \in Clients : step'[d] \in {"enqueue", "await"}}
  BY <1>3, <1>4, <1>6 DEF Subscribers
<1>8. Unread(backlog', uid', completed', subscribed')
  BY <1>6, UnreadDrop
<1>9. c \in Holders /\ Holders \in SUBSET Clients
  BY DEF Holders
<1>10. Fits(ids, subscribed)
  BY DEF Subscribers
<1>11. CASE /\ to = "returned" /\ c \in completed
            /\ ids' = FreeId(ids, uid[c]) /\ panicked' = ~CanFree(ids)
  <2>1. Holders' = Holders \ {c}
    BY <1>3, <1>11 DEF Holders
  <2>2. Ids(ids', uid, Holders \ {c}) /\ Len(ids.pool) \in Nat /\ Len(ids'.pool) = Len(ids.pool) + 1
    BY <1>9, <1>11, IdFreed
  <2>3. Fits(ids', subscribed') /\ Len(ids.pool) < MaxSubscribers
    <3>1. Len(ids'.pool) \in Nat /\ Len(ids'.pool) <= Len(ids.pool) + 1
      BY <2>2
    <3> QED
      BY <1>6, <1>10, <3>1, FitsRemove
  <2>4. MaxSubscribers <= IdPoolSize => ~panicked'
    <3>1. MaxSubscribers \in Nat /\ IdPoolSize \in Nat
      BY CallsAssumption, IdAssumption
    <3>2. MaxSubscribers <= IdPoolSize => Len(ids.pool) < IdPoolSize
      BY <2>2, <2>3, <3>1
    <3> QED
      BY <1>11, <3>2 DEF CanFree
  <2>5. ReturnsForOwn'
    BY <1>3, <1>11 DEF Outcome, ReturnsForOwn
  <2> QED
    BY <1>1, <1>5, <1>7, <1>8, <2>1, <2>2, <2>3, <2>4, <2>5 DEF Subscribers, Outcome
<1>12. CASE to = "cancelled" /\ UNCHANGED <<ids, panicked>>
  <2>1. Holders' = Holders
    BY <1>3, <1>12 DEF Holders
  <2>2. Ids(ids, uid, Holders)'
    BY <1>12, <2>1
  <2>3. Fits(ids', subscribed')
    <3>1. Len(ids.pool) \in Nat /\ Len(ids.pool) <= Len(ids.pool) + 1
      BY <1>10 DEF Fits
    <3> QED
      BY <1>6, <1>10, <1>12, <3>1, FitsRemove
  <2>4. Outcome'
    BY <1>3, <1>12 DEF Outcome, ReturnsForOwn
  <2> QED
    BY <1>1, <1>5, <1>7, <1>8, <2>2, <2>3, <2>4 DEF Subscribers
<1> QED
  BY <1>11, <1>12

\* A call looks for the event with its id.
LEMMA AwaitCalls == ASSUME CallsInv, NEW c \in Clients, await_event(c) PROVE CallsInv'
<1> USE DEF CallsInv
<1>1. Places'
  BY NextPlaces DEF Next, Client
<1>2. step[c] = "await" /\ UNCHANGED <<queue, awaiting, inbox, done, pc, completed, uid>>
  BY DEF await_event, loopVars
<1>3. \/ UNCHANGED <<backlog, subscribed, ids, panicked, step>>
      \/ /\ backlog[c] # <<>> /\ backlog' = [backlog EXCEPT ![c] = Tail(@)]
         /\ UNCHANGED <<subscribed, ids, panicked, step>>
      \/ /\ backlog[c] # <<>> /\ Head(backlog[c]).uid = uid[c]
         /\ DropSubscriber(c) /\ step' = [step EXCEPT ![c] = "returned"]
         /\ ids' = FreeId(ids, uid[c]) /\ panicked' = ~CanFree(ids)
  BY DEF await_event
<1>4. CASE /\ Unread(backlog, uid, completed, subscribed)'
           /\ UNCHANGED <<subscribed, ids, panicked, step>>
  <2>1. Shape(queue, awaiting, inbox, done)' /\ DoneAt'
    BY <1>2 DEF DoneAt
  <2>2. Owned'
    BY <1>2, <1>4 DEF Owned
  <2>3. Ids(ids, uid, Holders)' /\ Subscribers'
    BY <1>2, <1>4 DEF Holders, Subscribers
  <2>4. Outcome'
    BY <1>2, <1>4 DEF Outcome, ReturnsForOwn
  <2> QED
    BY <1>1, <1>4, <2>1, <2>2, <2>3, <2>4
<1>5. CASE UNCHANGED <<backlog, subscribed, ids, panicked, step>>
  <2>1. Unread(backlog, uid, completed, subscribed)'
    BY <1>2, <1>5
  <2> QED
    BY <1>4, <1>5, <2>1
<1>6. CASE /\ backlog[c] # <<>> /\ backlog' = [backlog EXCEPT ![c] = Tail(@)]
           /\ UNCHANGED <<subscribed, ids, panicked, step>>
  <2>1. Unread(backlog', uid, completed, subscribed)
    BY <1>6, UnreadRead
  <2>2. Unread(backlog, uid, completed, subscribed)'
    BY <1>2, <1>6, <2>1
  <2> QED
    BY <1>4, <1>6, <2>2
<1>7. CASE /\ backlog[c] # <<>> /\ Head(backlog[c]).uid = uid[c]
           /\ DropSubscriber(c) /\ step' = [step EXCEPT ![c] = "returned"]
           /\ ids' = FreeId(ids, uid[c]) /\ panicked' = ~CanFree(ids)
  <2>1. c \in completed
    BY <1>7, UnreadRead
  <2> HIDE DEF CallsInv
  <2> QED
    BY <1>1, <1>2, <1>7, <2>1, EndCalls
<1> QED
  BY <1>3, <1>5, <1>6, <1>7

\* Every step keeps the invariant.
LEMMA NextCalls == ASSUME CallsInv, [Next]_vars PROVE CallsInv'
<1>1. Places'
  BY NextPlaces DEF CallsInv
<1>2. CASE Loop
  BY <1>2, LoopCalls
<1>3. ASSUME NEW c \in Clients, start(c) \/ Client(c) PROVE CallsInv'
  BY <1>3, StartCalls, EnqueueCalls, AwaitCalls DEF Client
<1>4. ASSUME NEW c \in Clients, cancel(c) PROVE CallsInv'
  <2>1. /\ step[c] \in {"enqueue", "await"} /\ DropSubscriber(c) /\ step' = [step EXCEPT ![c] = "cancelled"]
        /\ UNCHANGED <<queue, awaiting, inbox, done, pc, completed, uid, ids, panicked>>
    BY <1>4 DEF cancel, Cancel, loopVars
  <2> QED
    BY <1>1, <2>1, EndCalls
<1>5. CASE /\ UNCHANGED <<queue, awaiting, done, pc, completed, uid, ids, panicked, backlog, subscribed, step>>
           /\ Shape(queue, awaiting, inbox, done)'
  <2>1. DoneAt' /\ Owned' /\ Outcome'
    BY <1>5 DEF CallsInv, DoneAt, Owned, Outcome, ReturnsForOwn
  <2>2. Ids(ids, uid, Holders)' /\ Subscribers' /\ Unread(backlog, uid, completed, subscribed)'
    BY <1>5 DEF CallsInv, Holders, Subscribers
  <2> QED
    BY <1>1, <1>5, <2>1, <2>2 DEF CallsInv
<1>6. CASE disconnect \/ UNCHANGED vars
  <2>1. UNCHANGED <<queue, awaiting, inbox, done, pc, completed, uid, ids, panicked, backlog, subscribed, step>>
    BY <1>6 DEF disconnect, eventVars, idVars, loopVars, vars
  <2> QED
    BY <1>5, <2>1 DEF CallsInv
<1>7. CASE broker_answer
  <2>1. UNCHANGED <<queue, awaiting, done, pc, completed, uid, ids, panicked, backlog, subscribed, step>>
    BY <1>7 DEF broker_answer, eventVars, idVars, loopVars
  <2>2. PICK q \in Queues : \E k \in 1 .. Len(awaiting[q]) :
            /\ \A j \in 1 .. Len(inbox) : inbox[j] # awaiting[q][k]
            /\ inbox' = Append(inbox, awaiting[q][k])
    BY <1>7 DEF broker_answer
  <2>3. PICK r : In(awaiting[q], r) /\ ~In(inbox, r) /\ inbox' = Append(inbox, r)
    BY <2>2 DEF In
  <2>4. Shape(queue, awaiting, inbox', done)
    BY <2>3, ShapeAnswer DEF CallsInv
  <2> QED
    BY <1>5, <2>1, <2>4
<1> QED
  BY <1>2, <1>3, <1>4, <1>6, <1>7 DEF Next

-----------------------------------------------------------------------------
(* The theorems                                                             *)

\* CallsInv holds for any calls, queues, channel and pool.
THEOREM CallsInvHolds == Spec => []CallsInv
<1>1. Init => CallsInv
  BY InitCalls
<1>2. CallsInv /\ [Next]_vars => CallsInv'
  BY NextCalls
<1> QED
  BY <1>1, <1>2, PTL DEF Spec

\* The queues, the wakers of a mutex, the events a subscriber has not read and the
\* subscribers themselves never exceed their capacity.
THEOREM CallsTyped == Spec => []TypeOK
<1>1. CallsInv => TypeOK
  <2> SUFFICES ASSUME CallsInv PROVE TypeOK
    OBVIOUS
  <2>1. Mutexes(mutex)
    BY DEF CallsInv, Places
  <2>2. /\ mutex \in [Queues -> [locked : BOOLEAN, wakers : SUBSET Clients]]
        /\ \A q \in Queues : Cardinality(mutex[q].wakers) <= WAKERS
    BY <2>1 DEF Mutexes, GoodMutex
  <2>3. \A q \in Queues : /\ queue[q] \in Seq(Requests) /\ Len(queue[q]) <= Queue
                          /\ awaiting[q] \in Seq(Requests) /\ Len(awaiting[q]) <= Queue
    BY DEF CallsInv, Shape
  <2>4. \A c \in Clients : backlog[c] \in Seq(Events) /\ Len(backlog[c]) <= EventCap
    BY DEF CallsInv, Unread
  <2>5. subscribed \subseteq Clients /\ Cardinality(subscribed) <= MaxSubscribers
    <3>1. subscribed \subseteq Clients /\ Fits(ids, subscribed)
      BY DEF CallsInv, Subscribers
    <3> QED
      BY <3>1, CallsAssumption DEF Fits
  <2> QED
    BY <2>2, <2>3, <2>4, <2>5 DEF TypeOK, CallsInv, Places
<1> QED
  BY <1>1, CallsInvHolds, PTL

\* A call returns because its own request was completed: await_event() of
\* src/client.rs never takes the event of another call for its own, although ids
\* are used again.
THEOREM ReturnsForOwnHolds == Spec => []ReturnsForOwn
<1>1. CallsInv => ReturnsForOwn
  BY DEF CallsInv, Outcome
<1> QED
  BY <1>1, CallsInvHolds, PTL

\* A pool of unique ids that is as large as the channel has subscribers never
\* overflows: the unwrap in UniqueIDPool::free() does not panic.  Both are 16 in
\* the code.
THEOREM IdPoolSufficesHolds ==
    ASSUME MaxSubscribers <= IdPoolSize
    PROVE  Spec => []IdPoolSuffices
<1>1. CallsInv => IdPoolSuffices
  BY DEF CallsInv, Outcome, IdPoolSuffices
<1> QED
  BY <1>1, CallsInvHolds, PTL

=============================================================================
