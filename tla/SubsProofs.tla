----------------------------- MODULE SubsProofs -----------------------------
(***************************************************************************)
(* Proofs about the subscribe and unsubscribe requests, for any requests,  *)
(* any queue length and any pool.                                          *)
(*                                                                         *)
(* The two queues are one line: await_ack first, then send_request.  A     *)
(* call joins it at the end, an acknowledgement takes one request out of   *)
(* it, and everything else, send() included, leaves the line as it is.     *)
(* The properties are proved of these three kinds of steps.                *)
(***************************************************************************)
EXTENDS Subs, HeaplessVecProofs

Tag(e) == [uid |-> e.uid, pid |-> e.pid]

LineOf(a, s) ==
    [k \in 1 .. Len(a) + Len(s) |-> IF k <= Len(a) THEN Tag(a[k]) ELSE Tag(s[k - Len(a)])]

-----------------------------------------------------------------------------
(* What the operations on the two queues are on the line                     *)

\* An entry of a queue is a request with an id.
LEMMA TagTyped ==
    ASSUME NEW e
    PROVE  /\ e \in AwaitAck => Tag(e) \in SubRequest
           /\ e \in SubRequest => Tag(e) = e
BY DEF AwaitAck, SubRequest, Tag

\* The line is a sequence of requests with their ids.
LEMMA LineTyped ==
    ASSUME NEW a \in Seq(AwaitAck), NEW s \in Seq(SubRequest)
    PROVE  /\ LineOf(a, s) \in Seq(SubRequest)
           /\ Len(LineOf(a, s)) = Len(a) + Len(s)
           /\ Len(a) \in Nat /\ Len(s) \in Nat
           /\ \A k \in 1 .. Len(a) + Len(s) :
                 LineOf(a, s)[k] = IF k <= Len(a) THEN Tag(a[k]) ELSE Tag(s[k - Len(a)])
<1>1. Len(a) \in Nat /\ Len(s) \in Nat /\ Len(a) + Len(s) \in Nat
  OBVIOUS
<1>2. \A k \in 1 .. Len(a) : a[k] \in AwaitAck
  OBVIOUS
<1>3. \A k \in 1 .. Len(s) : s[k] \in SubRequest
  OBVIOUS
<1>4. ASSUME NEW k \in 1 .. Len(a) + Len(s)
      PROVE  (IF k <= Len(a) THEN Tag(a[k]) ELSE Tag(s[k - Len(a)])) \in SubRequest
  <2>1. CASE k <= Len(a)
    BY <1>1, <1>2, <2>1, TagTyped
  <2>2. CASE ~(k <= Len(a))
    <3>1. s[k - Len(a)] \in SubRequest
      BY <1>1, <1>3, <2>2
    <3> QED BY <2>2, <3>1, TagTyped
  <2> QED BY <2>1, <2>2
<1> QED BY <1>1, <1>4 DEF LineOf

\* Two sequences of requests with the same entries are the same.
LEMMA SameLine ==
    ASSUME NEW q \in Seq(SubRequest), NEW r \in Seq(SubRequest), Len(q) = Len(r),
           \A k \in 1 .. Len(q) : q[k] = r[k]
    PROVE  q = r
OBVIOUS

\* A new request joins the line at the end.
LEMMA LineJoin ==
    ASSUME NEW a \in Seq(AwaitAck), NEW s \in Seq(SubRequest), NEW e \in SubRequest
    PROVE  LineOf(a, Append(s, e)) = Append(LineOf(a, s), e)
<1> DEFINE t == Append(s, e)
           p == LineOf(a, t)
           q == LineOf(a, s)
           r == Append(q, e)
<1>1. /\ t \in Seq(SubRequest) /\ Len(t) = Len(s) + 1
      /\ \A k \in 1 .. Len(s) : t[k] = s[k]
      /\ t[Len(s) + 1] = e
  BY PushFacts
<1> HIDE DEF t
<1>2. /\ p \in Seq(SubRequest) /\ Len(p) = Len(a) + Len(t)
      /\ \A k \in 1 .. Len(a) + Len(t) : p[k] = IF k <= Len(a) THEN Tag(a[k]) ELSE Tag(t[k - Len(a)])
  BY <1>1, LineTyped
<1>3. /\ q \in Seq(SubRequest) /\ Len(q) = Len(a) + Len(s)
      /\ Len(a) \in Nat /\ Len(s) \in Nat
      /\ \A k \in 1 .. Len(a) + Len(s) : q[k] = IF k <= Len(a) THEN Tag(a[k]) ELSE Tag(s[k - Len(a)])
  BY LineTyped
<1> HIDE DEF p, q
<1>4. /\ r \in Seq(SubRequest) /\ Len(r) = Len(q) + 1
      /\ \A k \in 1 .. Len(q) : r[k] = q[k]
      /\ r[Len(q) + 1] = e
  BY <1>3, PushFacts
<1> HIDE DEF r
<1>5. ASSUME NEW k \in 1 .. Len(p) PROVE p[k] = r[k]
  <2>1. CASE k = Len(a) + Len(s) + 1
    <3>1. p[k] = Tag(t[Len(s) + 1])
      BY <1>1, <1>2, <1>3, <2>1
    <3>2. Tag(e) = e
      BY TagTyped
    <3>3. r[k] = e
      BY <1>3, <1>4, <2>1
    <3> QED BY <1>1, <3>1, <3>2, <3>3
  <2>2. CASE k # Len(a) + Len(s) + 1
    <3>1. k \in 1 .. Len(a) + Len(s)
      <4>1. Len(p) = Len(a) + Len(s) + 1
        BY <1>1, <1>2, <1>3
      <4> QED BY <1>3, <2>2, <4>1
    <3>2. k <= Len(a) \/ k - Len(a) \in 1 .. Len(s)
      BY <1>3, <3>1
    <3>3. p[k] = q[k]
      BY <1>1, <1>2, <1>3, <3>1, <3>2
    <3> QED BY <1>3, <1>4, <3>1, <3>3
  <2> QED BY <2>1, <2>2
<1>6. Len(p) = Len(r)
  BY <1>1, <1>2, <1>3, <1>4
<1>7. p = r
  BY <1>2, <1>4, <1>5, <1>6, SameLine
<1> QED BY <1>7 DEF p, r, q, t

\* A request that moves from send_request to await_ack keeps its place.
LEMMA LineMove ==
    ASSUME NEW a \in Seq(AwaitAck), NEW s \in Seq(SubRequest), s # <<>>,
           NEW e \in AwaitAck, Tag(e) = Tag(Head(s))
    PROVE  LineOf(Append(a, e), Tail(s)) = LineOf(a, s)
<1> DEFINE b == Append(a, e)
           t == Tail(s)
           p == LineOf(b, t)
           q == LineOf(a, s)
<1>1. /\ b \in Seq(AwaitAck) /\ Len(b) = Len(a) + 1
      /\ \A k \in 1 .. Len(a) : b[k] = a[k]
      /\ b[Len(a) + 1] = e
  BY PushFacts
<1>2. /\ t \in Seq(SubRequest) /\ Len(t) = Len(s) - 1 /\ Len(s) \in Nat \ {0}
      /\ \A k \in 1 .. Len(s) - 1 : t[k] = s[k + 1]
      /\ Head(s) = s[1]
  BY TailFacts
<1> HIDE DEF b, t
<1>3. /\ p \in Seq(SubRequest) /\ Len(p) = Len(b) + Len(t)
      /\ \A k \in 1 .. Len(b) + Len(t) : p[k] = IF k <= Len(b) THEN Tag(b[k]) ELSE Tag(t[k - Len(b)])
  BY <1>1, <1>2, LineTyped
<1>4. /\ q \in Seq(SubRequest) /\ Len(q) = Len(a) + Len(s) /\ Len(a) \in Nat
      /\ \A k \in 1 .. Len(a) + Len(s) : q[k] = IF k <= Len(a) THEN Tag(a[k]) ELSE Tag(s[k - Len(a)])
  BY LineTyped
<1> HIDE DEF p, q
<1>5. Len(p) = Len(q) /\ Len(p) = Len(b) + Len(t)
  BY <1>1, <1>2, <1>3, <1>4
<1>6. ASSUME NEW k \in 1 .. Len(p) PROVE p[k] = q[k]
  <2>1. CASE k <= Len(a)
    BY <1>1, <1>2, <1>3, <1>4, <2>1
  <2>2. CASE k = Len(a) + 1
    <3>1. p[k] = Tag(e)
      BY <1>1, <1>2, <1>3, <1>4, <2>2
    <3>2. q[k] = Tag(s[1])
      BY <1>2, <1>4, <2>2
    <3> QED BY <1>2, <3>1, <3>2
  <2>3. CASE k > Len(a) + 1
    <3>1. k - Len(b) \in 1 .. Len(s) - 1 /\ k - Len(b) + 1 = k - Len(a)
      BY <1>1, <1>2, <1>4, <1>5, <2>3
    <3>2. p[k] = Tag(t[k - Len(b)])
      BY <1>1, <1>3, <1>4, <1>5, <2>3
    <3>3. q[k] = Tag(s[k - Len(a)])
      BY <1>4, <1>5, <2>3
    <3> QED BY <1>2, <3>1, <3>2, <3>3
  <2> QED BY <1>4, <2>1, <2>2, <2>3
<1> QED BY <1>3, <1>4, <1>5, <1>6, SameLine DEF p, q, b, t

\* A new timestamp changes nothing else of an entry ...
LEMMA AwaitAckDue ==
    ASSUME NEW q \in Seq(AwaitAck), NEW k \in 1 .. Len(q), NEW d \in BOOLEAN
    PROVE  LET r == [q EXCEPT ![k].due = d] IN
           /\ r \in Seq(AwaitAck)
           /\ Len(r) = Len(q)
           /\ \A l \in 1 .. Len(q) : r[l].uid = q[l].uid /\ r[l].pid = q[l].pid
<1>1. q[k] \in AwaitAck
  OBVIOUS
<1>2. [q[k] EXCEPT !.due = d] \in AwaitAck
  BY <1>1 DEF AwaitAck
<1>3. [q[k] EXCEPT !.due = d].uid = q[k].uid /\ [q[k] EXCEPT !.due = d].pid = q[k].pid
  BY <1>1 DEF AwaitAck
<1> QED BY <1>2, <1>3

\* ... and is not part of the line.
LEMMA LineDue ==
    ASSUME NEW a \in Seq(AwaitAck), NEW b \in Seq(AwaitAck), NEW s \in Seq(SubRequest),
           Len(b) = Len(a), \A k \in 1 .. Len(a) : b[k].uid = a[k].uid /\ b[k].pid = a[k].pid
    PROVE  LineOf(b, s) = LineOf(a, s)
<1> DEFINE p == LineOf(b, s)
           q == LineOf(a, s)
<1>1. \A k \in 1 .. Len(a) : Tag(b[k]) = Tag(a[k])
  BY DEF Tag
<1>2. /\ p \in Seq(SubRequest) /\ Len(p) = Len(b) + Len(s)
      /\ \A k \in 1 .. Len(b) + Len(s) : p[k] = IF k <= Len(b) THEN Tag(b[k]) ELSE Tag(s[k - Len(b)])
  BY LineTyped
<1>3. /\ q \in Seq(SubRequest) /\ Len(q) = Len(a) + Len(s) /\ Len(a) \in Nat /\ Len(s) \in Nat
      /\ \A k \in 1 .. Len(a) + Len(s) : q[k] = IF k <= Len(a) THEN Tag(a[k]) ELSE Tag(s[k - Len(a)])
  BY LineTyped
<1> HIDE DEF p, q
<1>4. \A k \in 1 .. Len(p) : p[k] = q[k]
  BY <1>1, <1>2, <1>3
<1> QED BY <1>2, <1>3, <1>4, SameLine DEF p, q

\* An answered request leaves the line.
LEMMA LineLeave ==
    ASSUME NEW a \in Seq(AwaitAck), NEW s \in Seq(SubRequest), NEW k0 \in 1 .. Len(a)
    PROVE  LineOf(Remove(a, k0), s) = Remove(LineOf(a, s), k0)
<1> DEFINE b == Remove(a, k0)
           p == LineOf(b, s)
           q == LineOf(a, s)
           r == Remove(q, k0)
<1>1. /\ b \in Seq(AwaitAck) /\ Len(b) = Len(a) - 1 /\ Len(a) \in Nat
      /\ \A j \in 1 .. Len(a) - 1 : b[j] = IF j < k0 THEN a[j] ELSE a[j + 1]
  BY RemoveFacts
<1> HIDE DEF b
<1>2. /\ p \in Seq(SubRequest) /\ Len(p) = Len(b) + Len(s)
      /\ \A k \in 1 .. Len(b) + Len(s) : p[k] = IF k <= Len(b) THEN Tag(b[k]) ELSE Tag(s[k - Len(b)])
  BY <1>1, LineTyped
<1>3. /\ q \in Seq(SubRequest) /\ Len(q) = Len(a) + Len(s) /\ Len(s) \in Nat
      /\ \A k \in 1 .. Len(a) + Len(s) : q[k] = IF k <= Len(a) THEN Tag(a[k]) ELSE Tag(s[k - Len(a)])
  BY LineTyped
<1> HIDE DEF p, q
<1>4. k0 \in 1 .. Len(q)
  BY <1>1, <1>3
<1>5. /\ r \in Seq(SubRequest) /\ Len(r) = Len(q) - 1
      /\ \A j \in 1 .. Len(q) - 1 : r[j] = IF j < k0 THEN q[j] ELSE q[j + 1]
  BY <1>3, <1>4, RemoveFacts
<1> HIDE DEF r
<1>6. Len(p) = Len(r) /\ Len(p) = Len(a) + Len(s) - 1
  BY <1>1, <1>2, <1>3, <1>5
<1>7. ASSUME NEW k \in 1 .. Len(p) PROVE p[k] = r[k]
  <2>1. CASE k < k0
    <3>1. p[k] = Tag(a[k])
      BY <1>1, <1>2, <1>6, <2>1
    <3>2. r[k] = q[k]
      BY <1>3, <1>5, <1>6, <2>1
    <3> QED BY <1>3, <1>6, <2>1, <3>1, <3>2
  <2>2. CASE ~(k < k0) /\ k <= Len(b)
    <3>1. p[k] = Tag(a[k + 1])
      BY <1>1, <1>2, <2>2
    <3>2. r[k] = q[k + 1]
      BY <1>3, <1>5, <1>6, <2>2
    <3>3. q[k + 1] = Tag(a[k + 1])
      BY <1>1, <1>3, <2>2
    <3> QED BY <3>1, <3>2, <3>3
  <2>3. CASE ~(k <= Len(b))
    <3>0. k - Len(b) = k + 1 - Len(a) /\ k + 1 \in 1 .. Len(a) + Len(s) /\ ~(k + 1 <= Len(a)) /\ ~(k < k0)
      BY <1>1, <1>3, <1>6, <2>3
    <3>1. p[k] = Tag(s[k - Len(b)])
      BY <1>2, <2>3
    <3>2. r[k] = q[k + 1]
      BY <1>3, <1>5, <1>6, <3>0
    <3>3. q[k + 1] = Tag(s[k + 1 - Len(a)])
      BY <1>3, <3>0
    <3> QED BY <3>0, <3>1, <3>2, <3>3
  <2> QED BY <2>1, <2>2, <2>3
<1> QED BY <1>2, <1>5, <1>6, <1>7, SameLine DEF p, q, r, b

-----------------------------------------------------------------------------
(* The three kinds of steps                                                  *)

QueuesTyped ==
    /\ send_request \in Seq(SubRequest) /\ Len(send_request) <= Queue
    /\ await_ack \in Seq(AwaitAck) /\ Len(await_ack) <= Queue

Line == LineOf(await_ack, send_request)

\* The event of the answer is one of the call's kind.
Fits(r, event) ==
    \/ Kind[r] = "sub" /\ event \in {"subscribed", "failed"}
    \/ Kind[r] = "unsub" /\ event = "unsubscribed"

Join(r, pid) ==
    /\ \A k \in 1 .. Len(accepted) : accepted[k] # r
    /\ next_pid(pid)
    /\ Line' = Append(Line, [uid |-> r, pid |-> pid])
    /\ accepted' = Append(accepted, r)
    /\ UNCHANGED result

Leave(k, event) ==
    /\ Fits(Line[k].uid, event)
    /\ free_pid(Line[k].pid)
    /\ Line' = Remove(Line, k)
    /\ result' = [result EXCEPT ![Line[k].uid] = event]
    /\ UNCHANGED accepted

Stay ==
    /\ Line' = Line
    /\ UNCHANGED <<pool, next_new_pid, result, accepted>>

Step ==
    \/ \E r \in Requests, pid \in Pids : Join(r, pid)
    \/ \E k \in 1 .. Len(Line), event \in Results : Leave(k, event)
    \/ Stay

\* A call adds its request to send_request.
LEMMA AddStep ==
    ASSUME QueuesTyped, NEW r \in Requests, add_request(r)
    PROVE  QueuesTyped' /\ Step
<1>1. CASE r \in TooLong
  BY <1>1 DEF add_request, QueuesTyped, Step, Stay, Line
<1>2. CASE r \notin TooLong
  <2>1. PICK pid \in Pids :
          /\ next_pid(pid)
          /\ send_request' = Append(send_request, [uid |-> r, pid |-> pid])
          /\ accepted' = Append(accepted, r)
    BY <1>2 DEF add_request
  <2>2. /\ \A k \in 1 .. Len(accepted) : accepted[k] # r
        /\ ~(Len(send_request) >= Queue) /\ await_ack' = await_ack /\ UNCHANGED result
    BY DEF add_request, IsFull
  <2>3. [uid |-> r, pid |-> pid] \in SubRequest
    BY DEF SubRequest
  <2>4. send_request' \in Seq(SubRequest) /\ Len(send_request') = Len(send_request) + 1 /\ Len(send_request) \in Nat
    BY <2>1, <2>3, PushFacts DEF QueuesTyped
  <2>5. QueuesTyped'
    BY <2>2, <2>4, SubsAssumption DEF QueuesTyped
  <2>6. Line' = Append(Line, [uid |-> r, pid |-> pid])
    BY <2>1, <2>2, <2>3, LineJoin DEF QueuesTyped, Line
  <2> QED BY <2>1, <2>2, <2>5, <2>6 DEF Step, Join
<1> QED BY <1>1, <1>2

\* An acknowledgement answers the first request that waits for it.
LEMMA AnswerStep ==
    ASSUME QueuesTyped, NEW pid \in Pids, NEW kind \in {"sub", "unsub"}, NEW k, IsFirst(k, pid, kind),
           NEW event \in Results, Answer(k, event), UNCHANGED <<send_request, accepted>>,
           \/ kind = "sub" /\ event \in {"subscribed", "failed"}
           \/ kind = "unsub" /\ event = "unsubscribed"
    PROVE  QueuesTyped' /\ Step
<1>1. k \in 1 .. Len(await_ack) /\ Kind[await_ack[k].uid] = kind
  BY DEF IsFirst
<1>2. /\ await_ack' = Remove(await_ack, k) /\ free_pid(await_ack[k].pid)
      /\ result' = [result EXCEPT ![await_ack[k].uid] = event]
  BY DEF Answer
<1>3. /\ await_ack' \in Seq(AwaitAck) /\ Len(await_ack') = Len(await_ack) - 1 /\ Len(await_ack) \in Nat
  BY <1>1, <1>2, RemoveFacts DEF QueuesTyped
<1>4. QueuesTyped'
  BY <1>3, SubsAssumption DEF QueuesTyped
<1>5. k \in 1 .. Len(Line) /\ Line[k] = Tag(await_ack[k])
  <2>1. /\ Len(Line) = Len(await_ack) + Len(send_request) /\ Len(send_request) \in Nat
        /\ \A l \in 1 .. Len(await_ack) + Len(send_request) :
              Line[l] = IF l <= Len(await_ack) THEN Tag(await_ack[l])
                        ELSE Tag(send_request[l - Len(await_ack)])
    BY LineTyped DEF QueuesTyped, Line
  <2> QED BY <1>1, <1>3, <2>1
<1>6. Line[k].uid = await_ack[k].uid /\ Line[k].pid = await_ack[k].pid
  BY <1>5 DEF Tag
<1>7. Line' = Remove(Line, k)
  BY <1>1, <1>2, LineLeave DEF QueuesTyped, Line
<1>8. Leave(k, event)
  BY <1>1, <1>2, <1>6, <1>7 DEF Leave, Fits
<1> QED BY <1>4, <1>5, <1>8 DEF Step

\* An acknowledgement is processed, or no request waits for it.
LEMMA IncomingStep ==
    ASSUME QueuesTyped, Incoming
    PROVE  QueuesTyped' /\ Step
<1>1. ASSUME UNCHANGED <<pool, next_new_pid, await_ack, result, send_request, accepted>>
      PROVE  QueuesTyped' /\ Step
  BY <1>1 DEF QueuesTyped, Step, Stay, Line
<1>2. ASSUME NEW pid \in Pids, on_unsuback(pid)
      PROVE  QueuesTyped' /\ Step
  <2>1. CASE UNCHANGED <<pool, next_new_pid, await_ack, result, send_request, accepted>>
    BY <1>1, <2>1
  <2>2. CASE \E k \in 1 .. Len(await_ack) : IsFirst(k, pid, "unsub") /\ Answer(k, "unsubscribed")
    BY <1>2, <2>2, AnswerStep DEF on_unsuback, Results
  <2> QED BY <1>2, <2>1, <2>2 DEF on_unsuback
<1>3. ASSUME NEW pid \in Pids, NEW success \in BOOLEAN, on_suback(pid, success)
      PROVE  QueuesTyped' /\ Step
  <2>1. CASE UNCHANGED <<pool, next_new_pid, await_ack, result, send_request, accepted>>
    BY <1>1, <2>1
  <2>2. CASE \E k \in 1 .. Len(await_ack) : IsFirst(k, pid, "sub") /\ Answer(k, check_suback(success))
    <3>1. check_suback(success) \in {"subscribed", "failed"}
      BY DEF check_suback
    <3>2. check_suback(success) \in Results
      BY <3>1 DEF Results
    <3> QED BY <1>3, <2>2, <3>1, <3>2, AnswerStep DEF on_suback
  <2> QED BY <1>3, <2>1, <2>2 DEF on_suback
<1> QED BY <1>2, <1>3 DEF Incoming

\* A request is sent for the first time.
LEMMA FrontStep ==
    ASSUME QueuesTyped, send_request # <<>>, send_front
    PROVE  QueuesTyped' /\ Step
<1> DEFINE e == [uid |-> Head(send_request).uid, pid |-> Head(send_request).pid, due |-> FALSE]
<1>1. /\ send_request' = Tail(send_request) /\ await_ack' = Append(await_ack, e)
      /\ ~(Len(await_ack) >= Queue) /\ UNCHANGED <<pool, next_new_pid, result, accepted>>
  BY DEF send_front, IsFull
<1>2. /\ send_request' \in Seq(SubRequest) /\ Len(send_request') = Len(send_request) - 1
      /\ Len(send_request) \in Nat \ {0} /\ Head(send_request) \in SubRequest
  BY <1>1, TailFacts DEF QueuesTyped
<1>3. e \in AwaitAck /\ Tag(e) = Tag(Head(send_request))
  BY <1>2 DEF AwaitAck, SubRequest, Tag
<1> HIDE DEF e
<1>4. await_ack' \in Seq(AwaitAck) /\ Len(await_ack') = Len(await_ack) + 1 /\ Len(await_ack) \in Nat
  BY <1>1, <1>3, PushFacts DEF QueuesTyped
<1>5. QueuesTyped'
  BY <1>1, <1>2, <1>4, SubsAssumption DEF QueuesTyped
<1>6. Line' = Line
  BY <1>1, <1>3, LineMove DEF QueuesTyped, Line
<1> QED BY <1>1, <1>5, <1>6 DEF Step, Stay

\* The clock of an entry passes, or its packet is written again.
LEMMA DueStep ==
    ASSUME QueuesTyped, NEW k \in 1 .. Len(await_ack), NEW d \in BOOLEAN,
           await_ack' = [await_ack EXCEPT ![k].due = d],
           UNCHANGED <<pool, next_new_pid, send_request, result, accepted>>
    PROVE  QueuesTyped' /\ Step
<1>0. await_ack \in Seq(AwaitAck) /\ send_request \in Seq(SubRequest) /\ send_request' = send_request
  BY DEF QueuesTyped
<1>1. /\ await_ack' \in Seq(AwaitAck) /\ Len(await_ack') = Len(await_ack)
      /\ \A l \in 1 .. Len(await_ack) :
            await_ack'[l].uid = await_ack[l].uid /\ await_ack'[l].pid = await_ack[l].pid
  BY <1>0, AwaitAckDue
<1>2. Line' = Line
  BY <1>0, <1>1, LineDue DEF Line
<1> QED BY <1>0, <1>1, <1>2 DEF QueuesTyped, Step, Stay

\* Every step of Subs is one of the three and respects the queues' arrays.
LEMMA NextStep ==
    ASSUME QueuesTyped, i \in Nat \ {0}, [Next]_vars
    PROVE  QueuesTyped' /\ Step
<1>1. ASSUME UNCHANGED <<pool, next_new_pid, await_ack, result, send_request, accepted>>
      PROVE  QueuesTyped' /\ Step
  BY <1>1 DEF QueuesTyped, Step, Stay, Line
<1>2. CASE Client
  BY <1>2, AddStep DEF Client
<1>3. CASE Incoming
  BY <1>3, IncomingStep
<1>4. CASE send
  BY <1>1, <1>4 DEF send, queueVars
<1>5. CASE send_requests
  <2>1. CASE send_request # <<>> /\ send_front
    BY <2>1, FrontStep
  <2>2. CASE create_packet_fails \/ PartiallySent \/ Goto("resend")
    BY <1>1, <2>2 DEF create_packet_fails, PartiallySent, Goto, queueVars
  <2> QED BY <1>5, <2>1, <2>2 DEF send_requests
<1>6. CASE resend_requests
  <2>1. CASE i <= Len(await_ack) /\ resend_request
    <3>1. i \in 1 .. Len(await_ack)
      BY <2>1 DEF QueuesTyped
    <3> QED BY <2>1, <3>1, DueStep DEF resend_request
  <2>2. CASE resend_skip \/ PartiallySent \/ Goto("idle")
    BY <1>1, <2>2 DEF resend_skip, PartiallySent, Goto, queueVars
  <2> QED BY <1>6, <2>1, <2>2 DEF resend_requests
<1>7. CASE Connection
  BY <1>1, <1>7 DEF Connection, Transmit, connection_error, connect, Unchanging, queueVars
<1>8. CASE resend_due
  BY <1>8, DueStep DEF resend_due
<1>9. CASE UNCHANGED vars
  BY <1>1, <1>9 DEF vars
<1> QED BY <1>2, <1>3, <1>4, <1>5, <1>6, <1>7, <1>8, <1>9 DEF Next, Sending

-----------------------------------------------------------------------------
(* The invariant                                                             *)

RestTyped ==
    /\ PidTypeOK
    /\ i \in Nat \ {0}
    /\ send_buffer \in Seq(Packets)
    /\ result \in [Requests -> Results]
    /\ accepted \in Seq(Requests)

Flags ==
    /\ pc \in {"idle", "send", "resend"}
    /\ connected \in BOOLEAN
    /\ ended \in BOOLEAN

Uid(q, r) == \E k \in 1 .. Len(q) : q[k].uid = r

\* The line q has exactly the accepted requests without a result ...
Complete(q, acc, res) ==
    /\ \A r \in Requests : res[r] # "none" => In(acc, r)
    /\ \A r \in Requests : Uid(q, r) <=> res[r] = "none" /\ In(acc, r)

\* ... in the order in which they were accepted.
Ordered(q, acc) ==
    /\ \A m, n \in 1 .. Len(acc) : acc[m] = acc[n] => m = n
    /\ \A k, l \in 1 .. Len(q), m, n \in 1 .. Len(acc) :
          k < l /\ acc[m] = q[k].uid /\ acc[n] = q[l].uid => m < n

\* A new id is taken only when the pool is empty, so there are never more of
\* them than requests fit into the queues, and the pool has room for all.
Counted ==
    PoolSize >= 2 * Queue =>
        /\ next_new_pid - 1 = Len(pool) + Len(Line)
        /\ next_new_pid - 1 <= 2 * Queue

SubsInv ==
    /\ QueuesTyped
    /\ RestTyped
    /\ AnswersOwnKind
    /\ Complete(Line, accepted, result)
    /\ Ordered(Line, accepted)
    /\ Counted

\* A request is in the line once.
LEMMA OneLine ==
    ASSUME NEW q \in Seq(SubRequest), NEW acc \in Seq(Requests), NEW res,
           Complete(q, acc, res), Ordered(q, acc)
    PROVE  \A k, l \in 1 .. Len(q) : q[k].uid = q[l].uid => k = l
<1> SUFFICES ASSUME NEW k \in 1 .. Len(q), NEW l \in 1 .. Len(q), q[k].uid = q[l].uid, k < l
             PROVE  FALSE
  OBVIOUS
<1>1. q[k] \in SubRequest
  OBVIOUS
<1>2. q[k].uid \in Requests
  BY <1>1 DEF SubRequest
<1>3. PICK m \in 1 .. Len(acc) : acc[m] = q[k].uid
  BY <1>2 DEF Complete, Uid, In
<1>4. m < m
  BY <1>3 DEF Ordered
<1> QED BY <1>4

\* A new request is the last of the line and of the accepted ones.
LEMMA JoinOrdered ==
    ASSUME NEW q \in Seq(SubRequest), NEW acc \in Seq(Requests), NEW res,
           Complete(q, acc, res), Ordered(q, acc),
           NEW e \in SubRequest, \A k \in 1 .. Len(acc) : acc[k] # e.uid
    PROVE  Complete(Append(q, e), Append(acc, e.uid), res) /\ Ordered(Append(q, e), Append(acc, e.uid))
<1> DEFINE q2 == Append(q, e)
           acc2 == Append(acc, e.uid)
<1>0. e.uid \in Requests
  BY DEF SubRequest
<1>1. /\ q2 \in Seq(SubRequest) /\ Len(q) \in Nat /\ Len(q2) = Len(q) + 1
      /\ \A k \in 1 .. Len(q) : q2[k] = q[k]
      /\ q2[Len(q) + 1] = e
  BY PushFacts
<1>2. /\ acc2 \in Seq(Requests) /\ Len(acc) \in Nat /\ Len(acc2) = Len(acc) + 1
      /\ \A k \in 1 .. Len(acc) : acc2[k] = acc[k]
      /\ acc2[Len(acc) + 1] = e.uid
  BY <1>0, PushFacts
<1>3. \A r : In(acc2, r) <=> In(acc, r) \/ r = e.uid
  BY <1>0, PushIn
<1> HIDE DEF q2, acc2
<1>4. \A r : Uid(q2, r) <=> Uid(q, r) \/ r = e.uid
  <2>1. \A r : Uid(q2, r) => Uid(q, r) \/ r = e.uid
    BY <1>1 DEF Uid
  <2>2. \A r : Uid(q, r) \/ r = e.uid => Uid(q2, r)
    BY <1>1 DEF Uid
  <2> QED BY <2>1, <2>2
<1>5. ~ In(acc, e.uid) /\ ~ Uid(q, e.uid) /\ res[e.uid] = "none"
  BY <1>0 DEF Complete, In
<1>6. Complete(q2, acc2, res)
  BY <1>3, <1>4, <1>5 DEF Complete
<1>7. \A m, n \in 1 .. Len(acc2) : acc2[m] = acc2[n] => m = n
  BY <1>2 DEF Ordered
<1>8. ASSUME NEW k \in 1 .. Len(q2), NEW l \in 1 .. Len(q2), NEW m \in 1 .. Len(acc2), NEW n \in 1 .. Len(acc2),
             k < l, acc2[m] = q2[k].uid, acc2[n] = q2[l].uid
      PROVE  m < n
  <2>1. k \in 1 .. Len(q) /\ q2[k] = q[k] /\ q[k].uid # e.uid
    BY <1>1, <1>5, <1>8 DEF Uid
  <2>2. m \in 1 .. Len(acc) /\ acc2[m] = acc[m]
    BY <1>2, <1>8, <2>1
  <2>3. CASE l = Len(q) + 1
    <3>1. acc2[n] = e.uid
      BY <1>1, <1>8, <2>3
    <3>2. n = Len(acc) + 1
      BY <1>2, <3>1
    <3> QED BY <1>2, <2>2, <3>2
  <2>4. CASE l # Len(q) + 1
    <3>1. l \in 1 .. Len(q) /\ q2[l] = q[l]
      BY <1>1, <2>4
    <3>2. q[l].uid # e.uid
      BY <1>5, <3>1 DEF Uid
    <3>3. n \in 1 .. Len(acc) /\ acc2[n] = acc[n]
      BY <1>2, <1>8, <3>1, <3>2
    <3> QED BY <1>8, <2>1, <2>2, <3>1, <3>3 DEF Ordered
  <2> QED BY <2>3, <2>4
<1> QED BY <1>6, <1>7, <1>8 DEF Ordered, q2, acc2

\* res2 has the answer of r0 in addition.
Answered(r0, event, res, res2) ==
    \A r \in Requests : res2[r] = IF r = r0 THEN event ELSE res[r]

\* An answered request leaves the line, and the others keep their order.
LEMMA LeaveOrdered ==
    ASSUME NEW q \in Seq(SubRequest), NEW acc \in Seq(Requests), NEW res \in [Requests -> Results],
           Complete(q, acc, res), Ordered(q, acc),
           NEW k0 \in 1 .. Len(q), NEW event, event # "none", NEW res2,
           Answered(q[k0].uid, event, res, res2)
    PROVE  Complete(Remove(q, k0), acc, res2) /\ Ordered(Remove(q, k0), acc)
<1> DEFINE q2 == Remove(q, k0)
           old(k) == IF k < k0 THEN k ELSE k + 1
<1>0. \A k \in 1 .. Len(q) : q[k].uid \in Requests
  <2>1. \A k \in 1 .. Len(q) : q[k] \in SubRequest
    OBVIOUS
  <2> QED BY <2>1 DEF SubRequest
<1>1. /\ Len(q) \in Nat /\ Len(q2) = Len(q) - 1
      /\ \A j \in 1 .. Len(q) - 1 : q2[j] = IF j < k0 THEN q[j] ELSE q[j + 1]
  BY RemoveFacts
<1>2. /\ \A k \in 1 .. Len(q2) : old(k) \in 1 .. Len(q) /\ q2[k] = q[old(k)] /\ old(k) # k0
      /\ \A k, l \in 1 .. Len(q2) : k < l => old(k) < old(l)
  BY <1>1
<1>3. ASSUME NEW k \in 1 .. Len(q), k # k0
      PROVE  \E j \in 1 .. Len(q2) : q2[j] = q[k]
  <2>1. CASE k < k0
    <3>1. k \in 1 .. Len(q2) /\ q2[k] = q[k]
      BY <1>1, <2>1
    <3> QED BY <3>1
  <2>2. CASE k > k0
    <3>1. k - 1 \in 1 .. Len(q2) /\ q2[k - 1] = q[k]
      BY <1>1, <2>2
    <3> QED BY <3>1
  <2> QED BY <1>3, <2>1, <2>2
<1>4. \A r \in Requests : res2[r] = IF r = q[k0].uid THEN event ELSE res[r]
  BY DEF Answered
<1>5. \A k, l \in 1 .. Len(q) : q[k].uid = q[l].uid => k = l
  BY OneLine
<1> HIDE DEF q2, old
<1>6. ASSUME NEW r PROVE Uid(q2, r) <=> Uid(q, r) /\ r # q[k0].uid
  <2>1. Uid(q2, r) => Uid(q, r) /\ r # q[k0].uid
    BY <1>2, <1>5 DEF Uid
  <2>2. Uid(q, r) /\ r # q[k0].uid => Uid(q2, r)
    BY <1>3 DEF Uid
  <2> QED BY <2>1, <2>2
<1>7. Uid(q, q[k0].uid)
  BY DEF Uid
<1>8. Complete(q2, acc, res2)
  <2>1. \A r \in Requests : res2[r] # "none" => In(acc, r)
    BY <1>0, <1>4, <1>7 DEF Complete
  <2>2. \A r \in Requests : Uid(q2, r) <=> res2[r] = "none" /\ In(acc, r)
    BY <1>4, <1>6 DEF Complete
  <2> QED BY <2>1, <2>2 DEF Complete
<1>9. Ordered(q2, acc)
  <2>1. ASSUME NEW k \in 1 .. Len(q2), NEW l \in 1 .. Len(q2), NEW m \in 1 .. Len(acc), NEW n \in 1 .. Len(acc),
               k < l, acc[m] = q2[k].uid, acc[n] = q2[l].uid
        PROVE  m < n
    <3>1. old(k) \in 1 .. Len(q) /\ old(l) \in 1 .. Len(q) /\ old(k) < old(l)
      BY <1>2, <2>1
    <3>2. acc[m] = q[old(k)].uid /\ acc[n] = q[old(l)].uid
      BY <1>2, <2>1
    <3> QED BY <3>1, <3>2 DEF Ordered
  <2> QED BY <2>1 DEF Ordered
<1> QED BY <1>8, <1>9 DEF q2

-----------------------------------------------------------------------------
(* The pool                                                                  *)

\* next_pid() takes the first id of the pool or, if there is none, a new one.
LEMMA NextPidFacts ==
    ASSUME PidTypeOK, NEW pid \in Pids, next_pid(pid)
    PROVE  /\ PidTypeOK'
           /\ Len(pool) \in Nat /\ Len(pool') \in Nat
           /\ \/ Len(pool') = Len(pool) - 1 /\ next_new_pid' = next_new_pid
              \/ Len(pool) = 0 /\ Len(pool') = 0 /\ next_new_pid' = next_new_pid + 1
<1>0. pool \in Seq(Pids) /\ Len(pool) <= PoolSize /\ next_new_pid \in 1 .. MaxPid /\ Len(pool) \in Nat
  BY DEF PidTypeOK
<1>1. CASE pool # <<>> /\ pool' = Tail(pool) /\ next_new_pid' = next_new_pid
  <2>1. pool' \in Seq(Pids) /\ Len(pool') = Len(pool) - 1 /\ Len(pool') \in Nat
    BY <1>0, <1>1, TailFacts
  <2> QED BY <1>0, <1>1, <2>1, PidAssumption DEF PidTypeOK
<1>2. CASE pool = <<>> /\ take(pid)
  <2>1. pool' = pool /\ next_new_pid' = next_new_pid + 1 /\ next_new_pid # MaxPid /\ Len(pool) = 0
    BY <1>2 DEF take
  <2> QED BY <1>0, <2>1, PidAssumption DEF PidTypeOK
<1> QED BY <1>1, <1>2 DEF next_pid

\* free_pid() keeps the id if there is room.
LEMMA FreePidFacts ==
    ASSUME PidTypeOK, NEW pid \in Pids, free_pid(pid)
    PROVE  /\ PidTypeOK'
           /\ next_new_pid' = next_new_pid
           /\ Len(pool) \in Nat
           /\ Len(pool) < PoolSize => Len(pool') = Len(pool) + 1
<1>0. pool \in Seq(Pids) /\ Len(pool) <= PoolSize /\ Len(pool) \in Nat /\ next_new_pid \in 1 .. MaxPid
  BY DEF PidTypeOK
<1>1. CASE Len(pool) < PoolSize
  <2>1. pool' = Append(pool, pid) /\ next_new_pid' = next_new_pid
    BY <1>1 DEF free_pid
  <2>2. pool' \in Seq(Pids) /\ Len(pool') = Len(pool) + 1
    BY <1>0, <2>1, PushFacts
  <2> QED BY <1>0, <1>1, <2>1, <2>2, PidAssumption DEF PidTypeOK
<1>2. CASE ~(Len(pool) < PoolSize)
  BY <1>0, <1>2 DEF free_pid, PidTypeOK
<1> QED BY <1>1, <1>2

-----------------------------------------------------------------------------
(* The invariant is kept                                                     *)

\* The line and its length, before and after a step.
LEMMA LineFacts ==
    /\ QueuesTyped => Line \in Seq(SubRequest) /\ Len(Line) \in Nat /\ Len(Line) <= 2 * Queue
    /\ QueuesTyped' => Line' \in Seq(SubRequest) /\ Len(Line') \in Nat /\ Len(Line') <= 2 * Queue
<1>1. ASSUME NEW a \in Seq(AwaitAck), NEW s \in Seq(SubRequest), Len(a) <= Queue, Len(s) <= Queue
      PROVE  LineOf(a, s) \in Seq(SubRequest) /\ Len(LineOf(a, s)) \in Nat /\ Len(LineOf(a, s)) <= 2 * Queue
  <2>1. /\ LineOf(a, s) \in Seq(SubRequest) /\ Len(LineOf(a, s)) = Len(a) + Len(s)
        /\ Len(a) \in Nat /\ Len(s) \in Nat
    BY LineTyped
  <2> QED BY <1>1, <2>1, SubsAssumption
<1> QED BY <1>1 DEF QueuesTyped, Line

\* Nothing is queued at first.
LEMMA InitSubsInv == Init => SubsInv
<1> SUFFICES ASSUME Init PROVE SubsInv
  OBVIOUS
<1>1. /\ await_ack = <<>> /\ send_request = <<>> /\ accepted = <<>> /\ send_buffer = <<>> /\ i = 1
      /\ pool = <<>> /\ next_new_pid = 1 /\ result = [r \in Requests |-> "none"]
  BY DEF Init, PidInit, LinkInit
<1>2. QueuesTyped
  BY <1>1, SubsAssumption DEF QueuesTyped
<1>3. RestTyped
  <2>1. result \in [Requests -> Results]
    BY <1>1 DEF Results
  <2> QED BY <1>1, <2>1, PidAssumption DEF RestTyped, PidTypeOK
<1>4. AnswersOwnKind
  BY <1>1 DEF AnswersOwnKind
<1>5. Len(Line) = 0 /\ Len(accepted) = 0 /\ Len(pool) = 0
  <2>1. Len(Line) = Len(await_ack) + Len(send_request)
    BY <1>2, LineTyped DEF QueuesTyped, Line
  <2> QED BY <1>1, <2>1
<1>6. Complete(Line, accepted, result) /\ Ordered(Line, accepted)
  BY <1>1, <1>5 DEF Complete, Ordered, Uid, In
<1>7. Counted
  BY <1>1, <1>5, SubsAssumption DEF Counted
<1> QED BY <1>2, <1>3, <1>4, <1>6, <1>7 DEF SubsInv

\* A call joins the line.
LEMMA JoinInv ==
    ASSUME SubsInv, QueuesTyped', NEW r \in Requests, NEW pid \in Pids, Join(r, pid)
    PROVE  /\ PidTypeOK' /\ accepted' \in Seq(Requests) /\ result' \in [Requests -> Results]
           /\ AnswersOwnKind' /\ Complete(Line', accepted', result') /\ Ordered(Line', accepted')
           /\ Counted'
<1> DEFINE e == [uid |-> r, pid |-> pid]
<1>1. /\ Line \in Seq(SubRequest) /\ accepted \in Seq(Requests) /\ result \in [Requests -> Results]
      /\ PidTypeOK /\ Complete(Line, accepted, result) /\ Ordered(Line, accepted)
  BY LineFacts DEF SubsInv, RestTyped
<1>2. /\ Line' = Append(Line, e) /\ accepted' = Append(accepted, r) /\ result' = result
      /\ \A k \in 1 .. Len(accepted) : accepted[k] # r
  BY DEF Join
<1>3. e \in SubRequest /\ e.uid = r
  BY DEF SubRequest
<1> HIDE DEF e
<1>4. Complete(Append(Line, e), Append(accepted, r), result) /\ Ordered(Append(Line, e), Append(accepted, r))
  BY <1>1, <1>2, <1>3, JoinOrdered
<1>5. Complete(Line', accepted', result') /\ Ordered(Line', accepted')
  BY <1>2, <1>4
<1>6. /\ PidTypeOK' /\ Len(pool) \in Nat /\ Len(pool') \in Nat
      /\ \/ Len(pool') = Len(pool) - 1 /\ next_new_pid' = next_new_pid
         \/ Len(pool) = 0 /\ Len(pool') = 0 /\ next_new_pid' = next_new_pid + 1
  BY <1>1, NextPidFacts DEF Join
<1>7. Counted'
  <2>1. Len(Line') = Len(Line) + 1 /\ Len(Line) \in Nat /\ Len(Line') <= 2 * Queue
    BY <1>1, <1>2, <1>3, PushFacts, LineFacts
  <2>2. next_new_pid \in Nat
    BY <1>1 DEF PidTypeOK
  <2>3. SUFFICES ASSUME PoolSize >= 2 * Queue
                 PROVE  /\ next_new_pid' - 1 = Len(pool') + Len(Line')
                        /\ next_new_pid' - 1 <= 2 * Queue
    BY DEF Counted
  <2>4. next_new_pid - 1 = Len(pool) + Len(Line) /\ next_new_pid - 1 <= 2 * Queue
    BY <2>3 DEF SubsInv, Counted
  <2> QED BY <1>6, <2>1, <2>2, <2>4, SubsAssumption
<1>8. accepted' \in Seq(Requests)
  BY <1>1, <1>2, PushFacts
<1> QED BY <1>1, <1>2, <1>5, <1>6, <1>7, <1>8 DEF SubsInv, AnswersOwnKind

\* An answered call leaves the line.
LEMMA LeaveInv ==
    ASSUME SubsInv, QueuesTyped', NEW k0 \in 1 .. Len(Line), NEW event \in Results, Leave(k0, event)
    PROVE  /\ PidTypeOK' /\ accepted' \in Seq(Requests) /\ result' \in [Requests -> Results]
           /\ AnswersOwnKind' /\ Complete(Line', accepted', result') /\ Ordered(Line', accepted')
           /\ Counted'
<1>1. /\ Line \in Seq(SubRequest) /\ accepted \in Seq(Requests) /\ result \in [Requests -> Results]
      /\ PidTypeOK /\ Complete(Line, accepted, result) /\ Ordered(Line, accepted)
  BY LineFacts DEF SubsInv, RestTyped
<1>2. Line[k0] \in SubRequest
  BY <1>1
<1>3. Line[k0].uid \in Requests /\ Line[k0].pid \in Pids
  BY <1>2 DEF SubRequest
<1>4. /\ Line' = Remove(Line, k0) /\ accepted' = accepted
      /\ result' = [result EXCEPT ![Line[k0].uid] = event]
      /\ Fits(Line[k0].uid, event) /\ free_pid(Line[k0].pid)
  BY DEF Leave
<1>5. event # "none"
  BY <1>4 DEF Fits
<1>6. \A r \in Requests : result'[r] = IF r = Line[k0].uid THEN event ELSE result[r]
  BY <1>1, <1>3, <1>4
<1>7. Complete(Line', accepted', result') /\ Ordered(Line', accepted')
  <2>1. Complete(Remove(Line, k0), accepted, result') /\ Ordered(Remove(Line, k0), accepted)
    <3>1. Answered(Line[k0].uid, event, result, result')
      BY <1>6 DEF Answered
    <3> QED BY <1>1, <1>5, <3>1, LeaveOrdered
  <2> QED BY <1>4, <2>1
<1>8. /\ PidTypeOK' /\ next_new_pid' = next_new_pid /\ Len(pool) \in Nat
      /\ Len(pool) < PoolSize => Len(pool') = Len(pool) + 1
  BY <1>1, <1>3, <1>4, FreePidFacts
<1>9. Counted'
  <2>1. Len(Line') = Len(Line) - 1 /\ Len(Line) \in Nat \ {0}
    BY <1>1, <1>4, RemoveFacts
  <2>2. next_new_pid \in Nat
    BY <1>1 DEF PidTypeOK
  <2>3. SUFFICES ASSUME PoolSize >= 2 * Queue
                 PROVE  /\ next_new_pid' - 1 = Len(pool') + Len(Line')
                        /\ next_new_pid' - 1 <= 2 * Queue
    BY DEF Counted
  <2>4. next_new_pid - 1 = Len(pool) + Len(Line) /\ next_new_pid - 1 <= 2 * Queue
    BY <2>3 DEF SubsInv, Counted
  <2>5. Len(pool) < PoolSize
    BY <1>8, <2>1, <2>2, <2>3, <2>4, SubsAssumption, PidAssumption
  <2> QED BY <1>8, <2>1, <2>2, <2>4, <2>5, SubsAssumption
<1>10. AnswersOwnKind'
  <2>2. Kind[Line[k0].uid] = "sub" <=> event \in {"subscribed", "failed"}
    BY <1>4 DEF Fits
  <2> QED BY <1>6, <2>2 DEF SubsInv, AnswersOwnKind
<1>11. result' \in [Requests -> Results] /\ accepted' \in Seq(Requests)
  BY <1>1, <1>3, <1>4
<1> QED BY <1>7, <1>8, <1>9, <1>10, <1>11

\* The packets of the requests are packets.
LEMMA PacketTyped ==
    ASSUME NEW e, e.uid \in Requests, e.pid \in Pids
    PROVE  Packet(e) \in Packets
<1>1. Kind[e.uid] \in {"sub", "unsub"}
  BY SubsAssumption
<1> QED BY <1>1 DEF Packet, Packets

\* The loop index and the send buffer.
LEMMA LoopTyped ==
    ASSUME QueuesTyped, i \in Nat \ {0}, send_buffer \in Seq(Packets), [Next]_vars
    PROVE  i' \in Nat \ {0} /\ send_buffer' \in Seq(Packets)
<1>0. ASSUME NEW e, e.uid \in Requests, e.pid \in Pids, try_write_packet(Packet(e))
      PROVE  send_buffer' \in Seq(Packets)
  BY <1>0, PacketTyped, PushFacts DEF try_write_packet
<1>1. ASSUME UNCHANGED <<i, send_buffer>>
      PROVE  i' \in Nat \ {0} /\ send_buffer' \in Seq(Packets)
  BY <1>1
<1>2. CASE Client
  BY <1>1, <1>2 DEF Client, add_request, connVars
<1>3. CASE Incoming
  BY <1>1, <1>3 DEF Incoming, on_suback, on_unsuback, connVars
<1>4. CASE send
  BY <1>1, <1>4 DEF send, connVars
<1>5. CASE send_requests
  <2>1. CASE send_request # <<>> /\ send_front
    <3>1. Head(send_request) \in SubRequest
      BY <2>1 DEF QueuesTyped
    <3>2. Head(send_request).uid \in Requests /\ Head(send_request).pid \in Pids
      BY <3>1 DEF SubRequest
    <3>3. try_write_packet(Packet(Head(send_request))) /\ i' = i
      BY <2>1 DEF send_front
    <3> QED BY <1>0, <3>2, <3>3
  <2>2. CASE create_packet_fails \/ PartiallySent \/ Goto("resend")
    BY <2>2 DEF create_packet_fails, PartiallySent, Goto, connVars
  <2> QED BY <1>5, <2>1, <2>2 DEF send_requests
<1>6. CASE resend_requests
  <2>1. CASE i <= Len(await_ack) /\ resend_request
    <3>1. await_ack[i] \in AwaitAck
      BY <2>1 DEF QueuesTyped
    <3>2. await_ack[i].uid \in Requests /\ await_ack[i].pid \in Pids
      BY <3>1 DEF AwaitAck
    <3>3. try_write_packet(Packet(await_ack[i])) /\ i' = i + 1
      BY <2>1 DEF resend_request
    <3> QED BY <1>0, <3>2, <3>3
  <2>2. CASE resend_skip \/ PartiallySent \/ Goto("idle")
    BY <2>2 DEF resend_skip, PartiallySent, Goto, connVars
  <2> QED BY <1>6, <2>1, <2>2 DEF resend_requests
<1>7. CASE Connection
  <2>1. CASE Transmit
    BY <2>1, TailFacts DEF Transmit, write_to_network, Unchanging
  <2>2. CASE connection_error \/ connect
    <3>1. i' = i /\ (send_buffer' = send_buffer \/ send_buffer' = <<>>)
      BY <2>2, Zenon DEF connection_error, set_error, connect, reconnect, Unchanging
    <3>2. <<>> \in Seq(Packets)
      OBVIOUS
    <3> QED BY <3>1, <3>2, Zenon
  <2> QED BY <1>7, <2>1, <2>2 DEF Connection
<1>8. CASE resend_due \/ UNCHANGED vars
  BY <1>1, <1>8 DEF resend_due, vars, connVars
<1> QED BY <1>2, <1>3, <1>4, <1>5, <1>6, <1>7, <1>8 DEF Next, Sending

\* Every step keeps the invariant.
LEMMA NextSubsInv == SubsInv /\ [Next]_vars => SubsInv'
<1> SUFFICES ASSUME SubsInv, [Next]_vars PROVE SubsInv'
  OBVIOUS
<1>1. QueuesTyped' /\ Step
  BY NextStep DEF SubsInv, RestTyped
<1>2. i' \in Nat \ {0} /\ send_buffer' \in Seq(Packets)
  BY LoopTyped DEF SubsInv, RestTyped
<1>3. /\ PidTypeOK' /\ accepted' \in Seq(Requests) /\ result' \in [Requests -> Results]
      /\ AnswersOwnKind' /\ Complete(Line', accepted', result') /\ Ordered(Line', accepted')
      /\ Counted'
  <2>1. CASE Stay
    BY <2>1 DEF Stay, SubsInv, RestTyped, PidTypeOK, AnswersOwnKind, Counted
  <2> QED BY <1>1, <2>1, JoinInv, LeaveInv DEF Step
<1> QED BY <1>1, <1>2, <1>3 DEF SubsInv, RestTyped

-----------------------------------------------------------------------------
(* What the invariant says                                                   *)

\* The flags and the loop of send().
LEMMA InitFlags == Init => Flags
BY Zenon DEF Init, LinkInit, Flags

\* Every step keeps the flags typed.
LEMMA NextFlags == Flags /\ [Next]_vars => Flags'
<1> SUFFICES ASSUME Flags, [Next]_vars PROVE Flags'
  OBVIOUS
<1>1. ASSUME UNCHANGED <<pc, connected>>, ended' = ended \/ ended' = TRUE
      PROVE  Flags'
  BY <1>1, Zenon DEF Flags
<1>2. CASE Client
  BY <1>1, <1>2, Zenon DEF Client, add_request, connVars
<1>3. CASE Incoming
  BY <1>1, <1>3, Zenon DEF Incoming, on_suback, on_unsuback, connVars
<1>4. CASE send
  BY <1>4, Zenon DEF send, connVars, Flags
<1>5. CASE send_requests
  <2>1. CASE send_front
    BY <1>1, <2>1, Zenon DEF send_front, try_write_packet
  <2>2. CASE create_packet_fails
    BY <1>1, <2>2, Zenon DEF create_packet_fails, connVars
  <2>3. CASE PartiallySent \/ Goto("resend")
    BY <2>3, Zenon DEF PartiallySent, Goto, connVars, Flags
  <2> QED BY <1>5, <2>1, <2>2, <2>3 DEF send_requests
<1>6. CASE resend_requests
  <2>1. CASE resend_request
    BY <1>1, <2>1, Zenon DEF resend_request, try_write_packet
  <2>2. CASE resend_skip
    BY <1>1, <2>2, Zenon DEF resend_skip, connVars
  <2>3. CASE PartiallySent \/ Goto("idle")
    BY <2>3, Zenon DEF PartiallySent, Goto, connVars, Flags
  <2> QED BY <1>6, <2>1, <2>2, <2>3 DEF resend_requests
<1>7. CASE Connection
  <2>1. /\ pc' = pc /\ ended' = ended
        /\ connected' = connected \/ connected' = TRUE \/ connected' = FALSE
    BY <1>7, Zenon DEF Connection, Transmit, write_to_network, connection_error, set_error, connect,
                       reconnect, Unchanging
  <2> QED BY <2>1, Zenon DEF Flags
<1>8. CASE resend_due \/ UNCHANGED vars
  BY <1>1, <1>8, Zenon DEF resend_due, vars, connVars
<1> QED BY <1>2, <1>3, <1>4, <1>5, <1>6, <1>7, <1>8 DEF Next, Sending

\* The type invariant.
LEMMA InvType == SubsInv /\ Flags => TypeOK
BY DEF SubsInv, QueuesTyped, RestTyped, Flags, TypeOK

\* One queue behind the other.
LEMMA ConcatFacts ==
    ASSUME NEW S, NEW a \in Seq(S), NEW s \in Seq(S)
    PROVE  /\ a \o s \in Seq(S)
           /\ Len(a \o s) = Len(a) + Len(s)
           /\ \A k \in 1 .. Len(a) + Len(s) :
                 (a \o s)[k] = IF k <= Len(a) THEN a[k] ELSE s[k - Len(a)]
OBVIOUS

\* The uids of the two queues are those of the line.
LEMMA InvQueued == SubsInv => QueuedInOrder
<1> SUFFICES ASSUME SubsInv PROVE QueuedInOrder
  OBVIOUS
<1> DEFINE a == UidsOf(await_ack)
           s == UidsOf(send_request)
           queued == a \o s
<1>1. /\ Len(Line) = Len(await_ack) + Len(send_request)
      /\ Len(await_ack) \in Nat /\ Len(send_request) \in Nat
      /\ \A k \in 1 .. Len(await_ack) + Len(send_request) :
            Line[k] = IF k <= Len(await_ack) THEN Tag(await_ack[k])
                      ELSE Tag(send_request[k - Len(await_ack)])
  BY LineTyped DEF SubsInv, QueuesTyped, Line
<1>2. /\ a \in Seq(Requests) /\ Len(a) = Len(await_ack)
      /\ \A k \in 1 .. Len(await_ack) : a[k] = await_ack[k].uid
  <2>1. \A k \in 1 .. Len(await_ack) : await_ack[k] \in AwaitAck
    BY DEF SubsInv, QueuesTyped
  <2>2. \A k \in 1 .. Len(await_ack) : await_ack[k].uid \in Requests
    BY <2>1 DEF AwaitAck
  <2> QED BY <1>1, <2>2 DEF UidsOf
<1>3. /\ s \in Seq(Requests) /\ Len(s) = Len(send_request)
      /\ \A k \in 1 .. Len(send_request) : s[k] = send_request[k].uid
  <2>1. \A k \in 1 .. Len(send_request) : send_request[k] \in SubRequest
    BY DEF SubsInv, QueuesTyped
  <2>2. \A k \in 1 .. Len(send_request) : send_request[k].uid \in Requests
    BY <2>1 DEF SubRequest
  <2> QED BY <1>1, <2>2 DEF UidsOf
<1> HIDE DEF a, s
<1>4. /\ queued \in Seq(Requests) /\ Len(queued) = Len(a) + Len(s)
      /\ \A k \in 1 .. Len(a) + Len(s) : queued[k] = IF k <= Len(a) THEN a[k] ELSE s[k - Len(a)]
  <2>1. a \in Seq(Requests) /\ s \in Seq(Requests)
    BY <1>2, <1>3
  <2> QED BY <2>1, ConcatFacts
<1> HIDE DEF queued
<1>5. ASSUME NEW k \in 1 .. Len(queued) PROVE queued[k] = Line[k].uid
  <2>1. CASE k <= Len(await_ack)
    BY <1>1, <1>2, <1>3, <1>4, <2>1 DEF Tag
  <2>2. CASE ~(k <= Len(await_ack))
    <3>1. k - Len(await_ack) \in 1 .. Len(send_request)
      BY <1>1, <1>2, <1>3, <1>4, <2>2
    <3>2. queued[k] = s[k - Len(await_ack)] /\ Line[k] = Tag(send_request[k - Len(await_ack)])
      BY <1>1, <1>2, <1>3, <1>4, <2>2
    <3> QED BY <1>3, <3>1, <3>2 DEF Tag
  <2> QED BY <2>1, <2>2
<1>6. Len(queued) = Len(Line)
  BY <1>1, <1>2, <1>3, <1>4
<1>7. \A r \in Requests :
        (\E k \in 1 .. Len(queued) : queued[k] = r)
           <=> result[r] = "none" /\ \E n \in 1 .. Len(accepted) : accepted[n] = r
  BY <1>5, <1>6 DEF SubsInv, Complete, Uid, In
<1>8. \A k \in 1 .. Len(queued) : queued[k] \in Requests
  BY <1>4
<1>9. {queued[k] : k \in 1 .. Len(queued)} =
          {r \in Requests : result[r] = "none" /\ \E n \in 1 .. Len(accepted) : accepted[n] = r}
  BY <1>7, <1>8
<1>10. \A k, l \in 1 .. Len(queued), m, n \in 1 .. Len(accepted) :
          k < l /\ accepted[m] = queued[k] /\ accepted[n] = queued[l] => m < n
  BY <1>5, <1>6 DEF SubsInv, Ordered
<1> QED BY <1>9, <1>10 DEF QueuedInOrder, queued, a, s

\* The length of the line is that of the queues.
LEMMA InvLeaks == SubsInv => NothingLeaks
<1> SUFFICES ASSUME SubsInv, PoolSize >= 2 * Queue
             PROVE  next_new_pid - 1 = Len(pool) + Len(send_request) + Len(await_ack)
  BY DEF NothingLeaks
<1>1. /\ Len(Line) = Len(await_ack) + Len(send_request)
      /\ Len(await_ack) \in Nat /\ Len(send_request) \in Nat
  BY LineTyped DEF SubsInv, QueuesTyped, Line
<1>2. Len(pool) \in Nat /\ next_new_pid \in Nat
  BY DEF SubsInv, RestTyped, PidTypeOK
<1>3. next_new_pid - 1 = Len(pool) + Len(Line)
  BY DEF SubsInv, Counted
<1> QED BY <1>1, <1>2, <1>3

-----------------------------------------------------------------------------
(* The theorems                                                              *)

\* The inductive invariant holds in every reachable state of the requests.
THEOREM SubsInvHolds == Spec => [](SubsInv /\ Flags)
BY InitSubsInv, NextSubsInv, InitFlags, NextFlags, PTL DEF Spec

\* Every variable of sub2.rs keeps its type; no push of add_subscribe_request,
\* add_unsubscribe_request or send finds its array full.
THEOREM SubsTyped == Spec => []TypeOK
BY SubsInvHolds, InvType, PTL

\* No call is lost or answered twice and the calls are sent in their order,
\* whatever packets the send buffer refuses and whatever connections are lost.
THEOREM QueuedInOrderHolds == Spec => []QueuedInOrder
BY SubsInvHolds, InvQueued, PTL

\* on_suback answers only subscribe() calls and on_unsuback only unsubscribe()
\* calls, whatever ids the broker acknowledges.
THEOREM AnswersOwnKindHolds == Spec => []AnswersOwnKind
<1>1. SubsInv => AnswersOwnKind
  BY DEF SubsInv
<1> QED BY <1>1, SubsInvHolds, PTL

\* With a pool of at least 2 * PARALLEL_REQUESTS ids free_pid() never drops one:
\* each id that was taken is in the pool or in a queue.
THEOREM NothingLeaksHolds == Spec => []NothingLeaks
BY SubsInvHolds, InvLeaks, PTL

-----------------------------------------------------------------------------
(* Requests are users of the pool                                            *)

\* PidOf and Queued, of given queues.
QueuedOf(a, s) ==
    {[uid |-> s[k].uid, pid |-> s[k].pid] : k \in 1 .. Len(s)}
        \cup {[uid |-> a[k].uid, pid |-> a[k].pid] : k \in 1 .. Len(a)}

PidIn(S, r) == IF \E e \in S : e.uid = r THEN (CHOOSE e \in S : e.uid = r).pid ELSE 0

Held == [r \in Requests |-> PidOf(r)]

\* What the requests of line q hold.
Holders(q, h) ==
    /\ \A k \in 1 .. Len(q) : h[q[k].uid] = q[k].pid
    /\ \A r \in Requests : ~ Uid(q, r) => h[r] = 0

\* The queued requests are those of the line.
LEMMA QueuedLine ==
    ASSUME NEW a \in Seq(AwaitAck), NEW s \in Seq(SubRequest)
    PROVE  \A e : e \in QueuedOf(a, s) <=> In(LineOf(a, s), e)
<1> DEFINE q == LineOf(a, s)
<1>1. /\ Len(q) = Len(a) + Len(s) /\ Len(a) \in Nat /\ Len(s) \in Nat
      /\ \A k \in 1 .. Len(a) + Len(s) : q[k] = IF k <= Len(a) THEN Tag(a[k]) ELSE Tag(s[k - Len(a)])
  BY LineTyped
<1> HIDE DEF q
<1>2. \A e : e \in QueuedOf(a, s) <=> \/ \E k \in 1 .. Len(s) : e = Tag(s[k])
                                     \/ \E k \in 1 .. Len(a) : e = Tag(a[k])
  BY DEF QueuedOf, Tag
<1>3. ASSUME NEW k \in 1 .. Len(a) PROVE In(q, Tag(a[k]))
  <2>1. k \in 1 .. Len(q) /\ q[k] = Tag(a[k])
    BY <1>1
  <2> QED BY <2>1 DEF In
<1>4. ASSUME NEW k \in 1 .. Len(s) PROVE In(q, Tag(s[k]))
  <2>1. k + Len(a) \in 1 .. Len(q) /\ q[k + Len(a)] = Tag(s[k])
    BY <1>1
  <2> QED BY <2>1 DEF In
<1>5. ASSUME NEW l \in 1 .. Len(q)
      PROVE  \/ \E k \in 1 .. Len(s) : q[l] = Tag(s[k])
             \/ \E k \in 1 .. Len(a) : q[l] = Tag(a[k])
  <2>1. CASE l <= Len(a)
    BY <1>1, <2>1
  <2>2. CASE ~(l <= Len(a))
    <3>1. l - Len(a) \in 1 .. Len(s) /\ q[l] = Tag(s[l - Len(a)])
      BY <1>1, <2>2
    <3> QED BY <3>1
  <2> QED BY <2>1, <2>2
<1>6. \A e : e \in QueuedOf(a, s) => In(q, e)
  BY <1>2, <1>3, <1>4
<1>7. \A e : In(q, e) => e \in QueuedOf(a, s)
  BY <1>2, <1>5 DEF In
<1> QED BY <1>6, <1>7 DEF q

\* PidOf reads off the id of a request that is in the line once.
LEMMA PidInLine ==
    ASSUME NEW a \in Seq(AwaitAck), NEW s \in Seq(SubRequest), NEW h,
           \A k, l \in 1 .. Len(LineOf(a, s)) : LineOf(a, s)[k].uid = LineOf(a, s)[l].uid => k = l,
           h = [r \in Requests |-> PidIn(QueuedOf(a, s), r)]
    PROVE  Holders(LineOf(a, s), h)
<1> DEFINE q == LineOf(a, s)
           S == QueuedOf(a, s)
<1>1. \A e : e \in S <=> In(q, e)
  BY QueuedLine
<1>2. q \in Seq(SubRequest)
  BY LineTyped
<1> HIDE DEF q, S
<1>3. \A k \in 1 .. Len(q) : q[k].uid \in Requests
  <2>1. \A k \in 1 .. Len(q) : q[k] \in SubRequest
    BY <1>2
  <2> QED BY <2>1 DEF SubRequest
<1>4. ASSUME NEW k \in 1 .. Len(q) PROVE PidIn(S, q[k].uid) = q[k].pid
  <2>1. q[k] \in S
    BY <1>1 DEF In
  <2>2. \A e \in S : e.uid = q[k].uid => e = q[k]
    BY <1>1 DEF In, q
  <2>3. (CHOOSE e \in S : e.uid = q[k].uid) = q[k]
    BY <2>1, <2>2
  <2> QED BY <2>1, <2>3 DEF PidIn
<1>5. ASSUME NEW r, ~ Uid(q, r) PROVE PidIn(S, r) = 0
  <2>1. ~ \E e \in S : e.uid = r
    BY <1>1, <1>5 DEF Uid, In
  <2> QED BY <2>1 DEF PidIn
<1>6. h = [r \in Requests |-> PidIn(S, r)]
  BY DEF S
<1>7. Holders(q, h)
  BY <1>3, <1>4, <1>5, <1>6 DEF Holders
<1> QED BY <1>7 DEF q

\* Held, before and after a step.
LEMMA HeldNow == SubsInv => Holders(Line, Held)
<1> SUFFICES ASSUME SubsInv PROVE Holders(Line, Held)
  OBVIOUS
<1>1. await_ack \in Seq(AwaitAck) /\ send_request \in Seq(SubRequest)
  BY DEF SubsInv, QueuesTyped
<1>2. Held = [r \in Requests |-> PidIn(QueuedOf(await_ack, send_request), r)]
  BY DEF Held, PidOf, PidIn, Queued, QueuedOf
<1>3. Line \in Seq(SubRequest) /\ accepted \in Seq(Requests)
  BY LineFacts DEF SubsInv, RestTyped
<1>4. \A k, l \in 1 .. Len(Line) : Line[k].uid = Line[l].uid => k = l
  BY <1>3, OneLine DEF SubsInv
<1> QED BY <1>1, <1>2, <1>4, PidInLine DEF Line

\* The same in the next state.
LEMMA HeldNext == SubsInv' => Holders(Line', Held')
<1> SUFFICES ASSUME SubsInv' PROVE Holders(Line', Held')
  OBVIOUS
<1>1. await_ack' \in Seq(AwaitAck) /\ send_request' \in Seq(SubRequest)
  BY DEF SubsInv, QueuesTyped
<1>2. Held' = [r \in Requests |-> PidIn(QueuedOf(await_ack', send_request'), r)]
  BY DEF Held, PidOf, PidIn, Queued, QueuedOf
<1>3. Line' \in Seq(SubRequest) /\ accepted' \in Seq(Requests)
  BY LineFacts DEF SubsInv, RestTyped
<1>4. \A k, l \in 1 .. Len(Line') : Line'[k].uid = Line'[l].uid => k = l
  BY <1>3, OneLine DEF SubsInv
<1> QED BY <1>1, <1>2, <1>4, PidInLine DEF Line

\* The holders of a line are a function of it.
LEMMA SameHolders ==
    ASSUME NEW q \in Seq(SubRequest), NEW h, NEW h2, Holders(q, h), Holders(q, h2)
    PROVE  \A r \in Requests : h[r] = h2[r]
<1> SUFFICES ASSUME NEW r \in Requests PROVE h[r] = h2[r]
  OBVIOUS
<1>1. CASE Uid(q, r)
  BY <1>1 DEF Holders, Uid
<1>2. CASE ~ Uid(q, r)
  BY <1>2 DEF Holders
<1> QED BY <1>1, <1>2

\* Who joins the line holds the new id.
LEMMA JoinHolders ==
    ASSUME NEW q \in Seq(SubRequest), NEW e \in SubRequest, ~ Uid(q, e.uid),
           NEW h, NEW h2, Holders(q, h), Holders(Append(q, e), h2)
    PROVE  /\ h[e.uid] = 0
           /\ \A r \in Requests : h2[r] = IF r = e.uid THEN e.pid ELSE h[r]
<1> DEFINE q2 == Append(q, e)
<1>1. /\ Len(q) \in Nat /\ Len(q2) = Len(q) + 1
      /\ \A k \in 1 .. Len(q) : q2[k] = q[k]
      /\ q2[Len(q) + 1] = e
  BY PushFacts
<1>2. Holders(q2, h2)
  OBVIOUS
<1> HIDE DEF q2
<1>3. e.uid \in Requests
  BY DEF SubRequest
<1>4. h2[e.uid] = e.pid
  <2>1. Len(q) + 1 \in 1 .. Len(q2)
    BY <1>1
  <2> QED BY <1>1, <1>2, <2>1 DEF Holders
<1>5. ASSUME NEW r \in Requests, r # e.uid PROVE h2[r] = h[r]
  <2>1. CASE Uid(q, r)
    <3>1. PICK k \in 1 .. Len(q) : q[k].uid = r
      BY <2>1 DEF Uid
    <3>2. k \in 1 .. Len(q2) /\ q2[k] = q[k]
      BY <1>1
    <3> QED BY <1>2, <3>1, <3>2 DEF Holders
  <2>2. CASE ~ Uid(q, r)
    <3>1. ~ Uid(q2, r)
      BY <1>1, <1>5, <2>2 DEF Uid
    <3> QED BY <1>2, <2>2, <3>1 DEF Holders
  <2> QED BY <2>1, <2>2
<1> QED BY <1>3, <1>4, <1>5 DEF Holders

\* Who leaves it holds none any more.
LEMMA LeaveHolders ==
    ASSUME NEW q \in Seq(SubRequest), NEW k0 \in 1 .. Len(q),
           \A k, l \in 1 .. Len(q) : q[k].uid = q[l].uid => k = l,
           NEW h, NEW h2, Holders(q, h), Holders(Remove(q, k0), h2)
    PROVE  /\ h[q[k0].uid] = q[k0].pid
           /\ \A r \in Requests : h2[r] = IF r = q[k0].uid THEN 0 ELSE h[r]
<1> DEFINE q2 == Remove(q, k0)
<1>1. /\ Len(q) \in Nat /\ Len(q2) = Len(q) - 1
      /\ \A j \in 1 .. Len(q) - 1 : q2[j] = IF j < k0 THEN q[j] ELSE q[j + 1]
  BY RemoveFacts
<1>2. Holders(q2, h2)
  OBVIOUS
<1> HIDE DEF q2
<1>3. ASSUME NEW j \in 1 .. Len(q2) PROVE \E k \in 1 .. Len(q) : k # k0 /\ q2[j] = q[k]
  <2>1. CASE j < k0
    <3>1. j \in 1 .. Len(q) /\ j # k0 /\ q2[j] = q[j]
      BY <1>1, <2>1
    <3> QED BY <3>1
  <2>2. CASE ~(j < k0)
    <3>1. j + 1 \in 1 .. Len(q) /\ j + 1 # k0 /\ q2[j] = q[j + 1]
      BY <1>1, <2>2
    <3> QED BY <3>1
  <2> QED BY <2>1, <2>2
<1>4. ASSUME NEW k \in 1 .. Len(q), k # k0 PROVE \E j \in 1 .. Len(q2) : q2[j] = q[k]
  <2>1. CASE k < k0
    <3>1. k \in 1 .. Len(q2) /\ q2[k] = q[k]
      BY <1>1, <2>1
    <3> QED BY <3>1
  <2>2. CASE k > k0
    <3>1. k - 1 \in 1 .. Len(q2) /\ q2[k - 1] = q[k]
      BY <1>1, <2>2
    <3> QED BY <3>1
  <2> QED BY <1>4, <2>1, <2>2
<1>5. ~ Uid(q2, q[k0].uid)
  BY <1>3 DEF Uid
<1>6. ASSUME NEW r \in Requests, r # q[k0].uid PROVE h2[r] = h[r]
  <2>1. CASE Uid(q, r)
    <3>1. PICK k \in 1 .. Len(q) : q[k].uid = r
      BY <2>1 DEF Uid
    <3>2. PICK j \in 1 .. Len(q2) : q2[j] = q[k]
      BY <1>4, <1>6, <3>1
    <3> QED BY <1>2, <3>1, <3>2 DEF Holders
  <2>2. CASE ~ Uid(q, r)
    <3>1. ~ Uid(q2, r)
      BY <1>3, <2>2 DEF Uid
    <3> QED BY <1>2, <2>2, <3>1 DEF Holders
  <2> QED BY <2>1, <2>2
<1>7. h[q[k0].uid] = q[k0].pid
  BY DEF Holders
<1>8. q[k0].uid \in Requests => h2[q[k0].uid] = 0
  BY <1>2, <1>5 DEF Holders
<1> QED BY <1>6, <1>7, <1>8

\* Every step is one of a user of the pool, or not one of the pool.
LEMMA NextPool ==
    ASSUME SubsInv, SubsInv', [Next]_vars
    PROVE  [PidPool!Next]_(PidPool!vars)
<1>1. Step
  BY NextStep DEF SubsInv, RestTyped
<1>2. Line \in Seq(SubRequest) /\ Line' \in Seq(SubRequest)
  BY LineFacts DEF SubsInv
<1>3. Holders(Line, Held) /\ Holders(Line', Held')
  BY HeldNow, HeldNext
<1>4. Held = [r \in Requests |-> PidOf(r)] /\ Held' = [r \in Requests |-> PidOf(r)']
  BY DEF Held
<1>5. ASSUME NEW r \in Requests, NEW p, \A x \in Requests : Held'[x] = IF x = r THEN p ELSE Held[x]
      PROVE  Held' = [Held EXCEPT ![r] = p]
  BY <1>4, <1>5
<1>6. ASSUME NEW r \in Requests, NEW pid \in Pids, Join(r, pid)
      PROVE  PidPool!Next
  <2>0. [uid |-> r, pid |-> pid] \in SubRequest
    BY DEF SubRequest
  <2>1. PICK e \in SubRequest : e = [uid |-> r, pid |-> pid]
    BY <2>0
  <2>e. e.uid = r /\ e.pid = pid
    BY <2>1
  <2>2. Line' = Append(Line, e) /\ next_pid(pid) /\ ~ In(accepted, r)
    BY <1>6, <2>1 DEF Join, In
  <2>3. ~ Uid(Line, e.uid)
    BY <2>2, <2>e DEF SubsInv, Complete
  <2>4. Holders(Append(Line, e), Held')
    BY <1>3, <2>2
  <2>5. /\ Held[e.uid] = 0
        /\ \A x \in Requests : Held'[x] = IF x = e.uid THEN e.pid ELSE Held[x]
    BY <1>2, <1>3, <2>3, <2>4, JoinHolders
  <2>6. Held[r] = 0 /\ Held' = [Held EXCEPT ![r] = pid]
    BY <1>5, <2>5, <2>e
  <2>7. PidPool!Acquire(r)
    <3>1. PidPool!next_pid(pid) /\ pid \in PidPool!Pids
      BY <2>2 DEF PidPool!next_pid, PidPool!take, PidPool!Pids, next_pid, take, Pids
    <3>2. /\ [x \in Requests |-> PidOf(x)][r] = 0
          /\ [x \in Requests |-> PidOf(x)]' = [[x \in Requests |-> PidOf(x)] EXCEPT ![r] = pid]
      BY <2>6 DEF Held
    <3> QED BY <3>1, <3>2, Zenon DEF PidPool!Acquire, PidPool!NoPid
  <2> QED BY <2>7 DEF PidPool!Next
<1>7. ASSUME NEW k0 \in 1 .. Len(Line), NEW event \in Results, Leave(k0, event)
      PROVE  PidPool!Next
  <2>1. PICK r, p : r = Line[k0].uid /\ p = Line[k0].pid
    OBVIOUS
  <2>2. Line[k0] \in SubRequest
    BY <1>2
  <2>3. r \in Requests /\ p \in Pids
    BY <2>1, <2>2 DEF SubRequest
  <2>4. Line' = Remove(Line, k0) /\ free_pid(p)
    BY <1>7, <2>1 DEF Leave
  <2>5. accepted \in Seq(Requests)
    BY DEF SubsInv, RestTyped
  <2>6. \A k, l \in 1 .. Len(Line) : Line[k].uid = Line[l].uid => k = l
    BY <1>2, <2>5, OneLine DEF SubsInv
  <2>7. Holders(Remove(Line, k0), Held')
    BY <1>3, <2>4
  <2>8. /\ Held[Line[k0].uid] = Line[k0].pid
        /\ \A x \in Requests : Held'[x] = IF x = Line[k0].uid THEN 0 ELSE Held[x]
    BY <1>2, <1>3, <2>6, <2>7, LeaveHolders
  <2>9. Held[r] = p /\ Held' = [Held EXCEPT ![r] = 0]
    BY <1>5, <2>1, <2>3, <2>8
  <2>10. p # 0
    BY <2>3 DEF Pids
  <2>11. PidPool!Release(r)
    BY <2>4, <2>9, <2>10 DEF PidPool!Release, PidPool!free_pid, PidPool!NoPid, Held, free_pid
  <2> QED BY <2>3, <2>11 DEF PidPool!Next
<1>8. CASE Stay
  <2>1. Holders(Line, Held') /\ UNCHANGED <<pool, next_new_pid>>
    BY <1>3, <1>8 DEF Stay
  <2>2. \A r \in Requests : Held[r] = Held'[r]
    BY <1>2, <1>3, <2>1, SameHolders
  <2>3. Held' = Held
    BY <1>4, <2>2
  <2> QED BY <2>1, <2>3 DEF PidPool!vars, Held
<1> QED BY <1>1, <1>6, <1>7, <1>8 DEF Step

\* Nobody holds an id at first.
LEMMA InitPool == Init => PidPool!Init
<1> SUFFICES ASSUME Init PROVE PidPool!Init
  OBVIOUS
<1>1. Queued = {}
  BY DEF Init, Queued
<1>2. \A r : PidOf(r) = 0
  BY <1>1 DEF PidOf
<1> QED BY <1>2 DEF Init, PidInit, PidPool!Init, PidPool!PidInit, PidPool!NoPid

\* A request takes an id when it is queued and returns it with its answer, as
\* PidUsers prescribes: no acknowledgement makes sub2.rs return an id twice or
\* one that it does not hold.
THEOREM RefinesPidUsers == Spec => ImplementsPidUsers
<1>1. Spec => PidPool!Init /\ [][PidPool!Next]_(PidPool!vars)
  <2>1. SubsInv /\ SubsInv' /\ [Next]_vars => [PidPool!Next]_(PidPool!vars)
    BY NextPool
  <2> QED BY <2>1, InitPool, SubsInvHolds, PTL DEF Spec
<1> QED BY <1>1 DEF ImplementsPidUsers, PidPool!Spec

=============================================================================
