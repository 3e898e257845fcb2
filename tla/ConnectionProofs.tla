-------------------------- MODULE ConnectionProofs --------------------------
(***************************************************************************)
(* The connection, for every packet size, buffer size and broker: no byte  *)
(* is lost, torn or repeated in either direction, no assertion of the code *)
(* fails, and what the connection reports about itself is true.            *)
(*                                                                         *)
(* The invariant has one part for the bytes sent (Wire), one for the bytes *)
(* received (Input, which adds that the bytes not handled yet are whole    *)
(* packets: without that, a packet could be torn at the next drop), one    *)
(* for the place of the loop (Control, Held) and one for the reports.  A   *)
(* step does one of a few things to the bytes in either direction; what    *)
(* each of them does follows from the theorems about StackBuffer, which    *)
(* come first.  They are about a buffer of any size at any positions:      *)
(* flip() keeps the unread bytes, writing appends to them, reading takes   *)
(* them from the front, and writeable_data() finds room unless the array   *)
(* is full of unread bytes.  The positions and the content move apart only *)
(* inside flip(), by a rotation of the whole array whose wrapped-around    *)
(* part must be bytes nobody will read.                                    *)
(***************************************************************************)
EXTENDS Connection, SequenceTheorems, FiniteSetTheorems, TLAPS

-----------------------------------------------------------------------------
(* StackBuffer                                                              *)

\* The rotation of flip() does not wrap around in front of the write position.
LEMMA ModSmall == ASSUME NEW a \in Nat, NEW n \in Nat, a < n PROVE a % n = a
OBVIOUS

\* It stays in the array.
LEMMA ModRange == ASSUME NEW a \in Nat, NEW n \in Nat, n > 0 PROVE a % n \in 0 .. n - 1
OBVIOUS

\* A slice of the array, by positions.
LEMMA SliceFacts ==
    ASSUME NEW S, NEW d \in Seq(S), NEW r \in Nat, NEW w \in Nat, r <= w, w <= Len(d)
    PROVE  /\ SubSeq(d, r + 1, w) \in Seq(S)
           /\ Len(SubSeq(d, r + 1, w)) = w - r
           /\ \A k \in 1 .. w - r : SubSeq(d, r + 1, w)[k] = d[r + k]
<1>1. \A j \in r + 1 .. w : d[j] \in S
  OBVIOUS
<1>2. /\ SubSeq(d, r + 1, w) \in Seq(S)
      /\ Len(SubSeq(d, r + 1, w)) = IF r + 1 <= w THEN w - (r + 1) + 1 ELSE 0
      /\ \A j \in 1 .. w - (r + 1) + 1 : SubSeq(d, r + 1, w)[j] = d[(r + 1) + j - 1]
  BY <1>1, SubSeqProperties
<1>3. Len(SubSeq(d, r + 1, w)) = w - r
  BY <1>2
<1>4. ASSUME NEW k \in 1 .. w - r PROVE SubSeq(d, r + 1, w)[k] = d[r + k]
  <2>1. k \in 1 .. w - (r + 1) + 1 /\ (r + 1) + k - 1 = r + k
    OBVIOUS
  <2> QED
    BY <1>2, <2>1
<1> QED
  BY <1>2, <1>3, <1>4

\* The parts of a buffer.
LEMMA BufferFacts ==
    ASSUME NEW B, NEW b \in Buffers(B)
    PROVE  /\ b.data \in [1 .. BufferSize -> B \cup {Unused}]
           /\ b.data \in Seq(B \cup {Unused}) /\ Len(b.data) = BufferSize
           /\ b.read \in Nat /\ b.write \in Nat
           /\ b.read <= b.write /\ b.write <= BufferSize
           /\ BufferSize \in Nat /\ BufferSize > 0
           /\ b = [data |-> b.data, read |-> b.read, write |-> b.write]
<1>1. /\ b.data \in [Cells -> B \cup {Unused}]
      /\ b.read \in 0 .. BufferSize /\ b.write \in 0 .. BufferSize /\ b.read <= b.write
      /\ b = [data |-> b.data, read |-> b.read, write |-> b.write]
  BY DEF Buffers
<1>2. BufferSize \in Nat /\ BufferSize > 0
  BY BufferAssumption
<1>3. b.data \in Seq(B \cup {Unused}) /\ Len(b.data) = BufferSize
  BY <1>1, <1>2 DEF Cells
<1> QED
  BY <1>1, <1>2, <1>3 DEF Cells

\* Its unread bytes, one by one.
LEMMA UnreadFacts ==
    ASSUME NEW B, NEW b \in Buffers(B)
    PROVE  /\ reaable_data(b) \in Seq(B \cup {Unused})
           /\ Len(reaable_data(b)) = b.write - b.read
           /\ \A k \in 1 .. b.write - b.read : reaable_data(b)[k] = b.data[b.read + k]
<1> DEFINE S == B \cup {Unused}
           d == b.data
           r == b.read
           w == b.write
<1>1. d \in Seq(S) /\ r \in Nat /\ w \in Nat /\ r <= w /\ w <= Len(d)
  BY BufferFacts
<1> HIDE DEF S, d, r, w
<1>2. /\ SubSeq(d, r + 1, w) \in Seq(S) /\ Len(SubSeq(d, r + 1, w)) = w - r
      /\ \A k \in 1 .. w - r : SubSeq(d, r + 1, w)[k] = d[r + k]
  BY <1>1, SliceFacts
<1> QED
  BY <1>2 DEF S, d, r, w, reaable_data

\* A record of an array and two positions in order is a buffer.
LEMMA NewBuffer ==
    ASSUME NEW B, NEW b, b.data \in [1 .. BufferSize -> B \cup {Unused}],
           b.read \in Nat, b.write \in Nat, b.read <= b.write, b.write <= BufferSize,
           b = [data |-> b.data, read |-> b.read, write |-> b.write]
    PROVE  b \in Buffers(B)
BY BufferAssumption DEF Buffers, Cells

\* flip() moves the unread bytes to the front and changes none of them.
THEOREM FlipKeepsUnread ==
    ASSUME NEW B, NEW b \in Buffers(B)
    PROVE  flip(b) \in Buffers(B) /\ reaable_data(flip(b)) = reaable_data(b)
<1> DEFINE d == b.data
           r == b.read
           w == b.write
           S == B \cup {Unused}
           e == [k \in 1 .. BufferSize |-> d[((k - 1 + r) % BufferSize) + 1]]
<1>1. /\ d \in [1 .. BufferSize -> S] /\ r \in Nat /\ w \in Nat /\ r <= w /\ w <= BufferSize
      /\ BufferSize \in Nat /\ BufferSize > 0
      /\ b = [data |-> d, read |-> r, write |-> w]
  BY BufferFacts
<1>2. flip(b) = IF r > 0 THEN [data |-> e, read |-> 0, write |-> w - r] ELSE b
  BY DEF flip, rotate_left, Cells
<1> HIDE DEF d, r, w, S
<1>3. \A k \in 1 .. BufferSize : k - 1 + r \in Nat
  BY <1>1
<1>4. \A k \in 1 .. BufferSize : ((k - 1 + r) % BufferSize) + 1 \in 1 .. BufferSize
  <2> SUFFICES ASSUME NEW k \in 1 .. BufferSize
               PROVE  ((k - 1 + r) % BufferSize) + 1 \in 1 .. BufferSize
    OBVIOUS
  <2>1. (k - 1 + r) % BufferSize \in 0 .. BufferSize - 1
    BY <1>1, <1>3, ModRange
  <2> QED
    BY <1>1, <2>1
<1>5. e \in [1 .. BufferSize -> S]
  BY <1>1, <1>4
<1>6. ASSUME NEW k \in 1 .. w - r PROVE e[k] = d[r + k]
  <2>1. k \in 1 .. BufferSize /\ k - 1 + r \in Nat /\ k - 1 + r < BufferSize
        /\ k - 1 + r + 1 = r + k
    BY <1>1
  <2>2. (k - 1 + r) % BufferSize = k - 1 + r
    BY <1>1, <2>1, ModSmall
  <2>3. e[k] = d[((k - 1 + r) % BufferSize) + 1]
    BY <2>1
  <2> QED
    BY <2>1, <2>2, <2>3
<1> HIDE DEF e
<1>7. CASE ~(r > 0)
  BY <1>2, <1>7
<1>8. CASE r > 0
  <2> DEFINE s == reaable_data(flip(b))
             t == reaable_data(b)
  <2>1. flip(b) = [data |-> e, read |-> 0, write |-> w - r]
    BY <1>2, <1>8
  <2>2. flip(b).data = e /\ flip(b).read = 0 /\ flip(b).write = w - r
    BY <2>1
  <2>3. flip(b) \in Buffers(B)
    BY <1>1, <1>5, <2>1, <2>2, NewBuffer DEF S
  <2>4. /\ s \in Seq(S) /\ Len(s) = w - r /\ \A k \in 1 .. w - r : s[k] = e[k]
        /\ t \in Seq(S) /\ Len(t) = w - r /\ \A k \in 1 .. w - r : t[k] = d[r + k]
    <3>1. /\ s \in Seq(S) /\ Len(s) = flip(b).write - flip(b).read
          /\ \A k \in 1 .. flip(b).write - flip(b).read : s[k] = flip(b).data[flip(b).read + k]
      BY <2>3, UnreadFacts DEF S
    <3>2. t \in Seq(S) /\ Len(t) = w - r /\ \A k \in 1 .. w - r : t[k] = d[r + k]
      BY UnreadFacts DEF S, d, r, w
    <3> HIDE DEF s, t
    <3>3. Len(s) = w - r /\ \A k \in 1 .. w - r : s[k] = e[k]
      BY <1>1, <2>2, <3>1
    <3> QED
      BY <3>1, <3>2, <3>3
  <2> HIDE DEF s, t
  <2>5. Len(s) = Len(t) /\ \A k \in 1 .. Len(s) : s[k] = t[k]
    BY <1>1, <1>6, <2>4
  <2>6. s = t
    BY <2>4, <2>5, SeqEqual
  <2> QED
    BY <2>3, <2>6 DEF s, t
<1> QED
  BY <1>7, <1>8

\* writeable_data() finds room unless the array is full of unread bytes, which
\* is what is_max_len() says and BufferTooSmall is concluded from.
THEOREM WriteableUnlessFull ==
    ASSUME NEW B, NEW b \in Buffers(B)
    PROVE  /\ writeable_data(b) \in Buffers(B)
           /\ reaable_data(writeable_data(b)) = reaable_data(b)
           /\ Room(writeable_data(b)) = 0 <=> is_max_len(b)
<1>1. /\ b.read \in Nat /\ b.write \in Nat /\ b.read <= b.write /\ b.write <= BufferSize
      /\ BufferSize \in Nat /\ BufferSize > 0
  BY BufferFacts
<1>2. flip(b) \in Buffers(B) /\ reaable_data(flip(b)) = reaable_data(b)
  BY FlipKeepsUnread
<1>3. flip(b).write = IF b.read > 0 THEN b.write - b.read ELSE b.write
  BY DEF flip
<1>4. writeable_data(b) = IF b.write = BufferSize THEN flip(b) ELSE b
  BY DEF writeable_data
<1>5. Room(writeable_data(b)) = 0 <=> is_max_len(b)
  BY <1>1, <1>3, <1>4 DEF Room, is_max_len
<1> QED
  BY <1>2, <1>4, <1>5

\* Bytes that fit behind the write position are appended to the unread bytes.
THEOREM CommitAppends ==
    ASSUME NEW B, NEW b \in Buffers(B), NEW bytes \in Seq(B), Len(bytes) <= Room(b)
    PROVE  /\ commit_bytes_written(b, bytes) \in Buffers(B)
           /\ reaable_data(commit_bytes_written(b, bytes)) = reaable_data(b) \o bytes
<1> DEFINE S == B \cup {Unused}
           d == b.data
           r == b.read
           w == b.write
           n == Len(bytes)
           c == commit_bytes_written(b, bytes)
           e == [k \in 1 .. BufferSize |-> IF k \in w + 1 .. w + n THEN bytes[k - w] ELSE d[k]]
           s == reaable_data(c)
           t == reaable_data(b)
<1>1. /\ d \in [1 .. BufferSize -> S] /\ r \in Nat /\ w \in Nat /\ r <= w /\ w <= BufferSize
      /\ BufferSize \in Nat /\ BufferSize > 0
      /\ b = [data |-> d, read |-> r, write |-> w]
  BY BufferFacts
<1>0. n \in Nat /\ w + n <= BufferSize
  <2>1. n \in Nat /\ n <= BufferSize - w
    BY DEF Room
  <2> HIDE DEF n, w, r, d
  <2> QED
    BY <1>1, <2>1
<1>2. c = [data |-> e, read |-> r, write |-> w + n]
  <2>1. c = [b EXCEPT !.data = e, !.write = w + n]
    BY DEF commit_bytes_written, Cells
  <2> HIDE DEF c, e, n, w, r, d
  <2> QED
    BY <1>1, <2>1
<1>3. \A k \in 1 .. n : bytes[k] \in S
  OBVIOUS
<1>4. t \in Seq(S) /\ Len(t) = w - r /\ \A k \in 1 .. w - r : t[k] = d[r + k]
  BY UnreadFacts
<1>5. bytes \in Seq(S)
  OBVIOUS
<1> HIDE DEF S, d, r, w, n, c, t
<1>6. e \in [1 .. BufferSize -> S]
  <2> SUFFICES ASSUME NEW k \in 1 .. BufferSize
               PROVE  (IF k \in w + 1 .. w + n THEN bytes[k - w] ELSE d[k]) \in S
    OBVIOUS
  <2>1. k \in w + 1 .. w + n => k - w \in 1 .. n
    BY <1>0, <1>1
  <2> QED
    BY <1>0, <1>1, <1>3, <2>1
<1>7. \A k \in 1 .. w - r : e[r + k] = d[r + k]
  BY <1>0, <1>1
<1>8. \A k \in 1 .. n : e[w + k] = bytes[k]
  <2> SUFFICES ASSUME NEW k \in 1 .. n PROVE e[w + k] = bytes[k]
    OBVIOUS
  <2>1. w + k \in 1 .. BufferSize /\ w + k \in w + 1 .. w + n /\ (w + k) - w = k
    BY <1>0, <1>1
  <2> QED
    BY <2>1
<1> HIDE DEF e
<1>9. c.data = e /\ c.read = r /\ c.write = w + n
  BY <1>2
<1>10. c \in Buffers(B)
  <2>1. w + n \in Nat /\ r <= w + n
    BY <1>0, <1>1
  <2>2. e \in [1 .. BufferSize -> B \cup {Unused}]
    BY <1>6 DEF S
  <2> QED
    BY <1>0, <1>1, <1>2, <1>9, <2>1, <2>2, NewBuffer
<1>11. s \in Seq(S) /\ Len(s) = w + n - r /\ \A k \in 1 .. w + n - r : s[k] = e[r + k]
  <2>1. /\ s \in Seq(S) /\ Len(s) = c.write - c.read
        /\ \A k \in 1 .. c.write - c.read : s[k] = c.data[c.read + k]
    BY <1>10, UnreadFacts DEF S
  <2> HIDE DEF s
  <2>2. c.write - c.read = (w + n) - r /\ c.data = e /\ c.read = r
    BY <1>9
  <2>3. (w + n) - r = w + n - r
    BY <1>0, <1>1
  <2> QED
    BY <2>1, <2>2, <2>3
<1> HIDE DEF s
<1>12. /\ t \o bytes \in Seq(S) /\ Len(t \o bytes) = (w - r) + n
       /\ \A k \in 1 .. (w - r) + n :
             (t \o bytes)[k] = IF k <= w - r THEN t[k] ELSE bytes[k - (w - r)]
  <2>1. Len(bytes) = n
    BY DEF n
  <2>2. t \in Seq(S)
    BY <1>4
  <2>3. /\ t \o bytes \in Seq(S) /\ Len(t \o bytes) = Len(t) + Len(bytes)
        /\ \A k \in 1 .. Len(t) + Len(bytes) :
              (t \o bytes)[k] = IF k <= Len(t) THEN t[k] ELSE bytes[k - Len(t)]
    BY <1>5, <2>2, ConcatProperties
  <2>4. Len(t) = w - r
    BY <1>4
  <2> QED
    BY <2>1, <2>3, <2>4
<1>13. ASSUME NEW k \in 1 .. w + n - r PROVE s[k] = (t \o bytes)[k]
  <2>1. CASE k <= w - r
    <3>1. k \in 1 .. w - r /\ k \in 1 .. (w - r) + n
      BY <1>0, <1>1, <2>1
    <3> QED
      BY <1>4, <1>7, <1>11, <1>12, <2>1, <3>1
  <2>2. CASE ~(k <= w - r)
    <3>1. k - (w - r) \in 1 .. n /\ w + (k - (w - r)) = r + k /\ k \in 1 .. (w - r) + n
      BY <1>0, <1>1, <2>2
    <3>2. e[r + k] = bytes[k - (w - r)]
      BY <1>8, <3>1
    <3> QED
      BY <1>11, <1>12, <2>2, <3>1, <3>2
  <2> QED
    BY <2>1, <2>2
<1>14. s = t \o bytes
  <2> DEFINE u == t \o bytes
  <2>1. u \in Seq(S) /\ Len(s) = Len(u) /\ \A k \in 1 .. Len(s) : s[k] = u[k]
    BY <1>0, <1>1, <1>11, <1>12, <1>13
  <2> HIDE DEF u
  <2>2. s = u
    BY <1>11, <2>1, SeqEqual
  <2> QED
    BY <2>2 DEF u
<1> QED
  BY <1>10, <1>14 DEF c, s, t

\* Reading takes bytes from the front of the unread ones and leaves the rest.
THEOREM ReadTakesFromFront ==
    ASSUME NEW B, NEW b \in Buffers(B), NEW n \in Nat, n <= b.write - b.read
    PROVE  /\ add_bytes_read(b, n) \in Buffers(B)
           /\ reaable_data(b) = SubSeq(reaable_data(b), 1, n) \o reaable_data(add_bytes_read(b, n))
<1> DEFINE S == B \cup {Unused}
           d == b.data
           r == b.read
           w == b.write
           c == add_bytes_read(b, n)
           e == [k \in 1 .. BufferSize |-> IF k \in r + 1 .. r + n THEN Unused ELSE d[k]]
           s == reaable_data(c)
           t == reaable_data(b)
           p == SubSeq(t, 1, n)
<1>1. /\ d \in [1 .. BufferSize -> S] /\ r \in Nat /\ w \in Nat /\ r <= w /\ w <= BufferSize
      /\ BufferSize \in Nat /\ BufferSize > 0
      /\ b = [data |-> d, read |-> r, write |-> w]
  BY BufferFacts
<1>0. r + n <= w
  BY <1>1
<1>2. c = [data |-> e, read |-> r + n, write |-> w]
  <2>1. c = [b EXCEPT !.data = e, !.read = r + n]
    BY DEF add_bytes_read, Cells
  <2> HIDE DEF c, e, w, r, d
  <2> QED
    BY <1>1, <2>1
<1>3. Unused \in S
  OBVIOUS
<1>4. t \in Seq(S) /\ Len(t) = w - r /\ \A k \in 1 .. w - r : t[k] = d[r + k]
  BY UnreadFacts
<1> HIDE DEF S, d, r, w, c, t
<1>5. e \in [1 .. BufferSize -> S]
  BY <1>0, <1>1, <1>3
<1>6. \A k \in 1 .. w - (r + n) : e[(r + n) + k] = d[(r + n) + k]
  BY <1>0, <1>1
<1> HIDE DEF e
<1>7. c.data = e /\ c.read = r + n /\ c.write = w
  BY <1>2
<1>8. c \in Buffers(B)
  BY <1>0, <1>1, <1>2, <1>5, <1>7, NewBuffer DEF S
<1>9. s \in Seq(S) /\ Len(s) = w - (r + n) /\ \A k \in 1 .. w - (r + n) : s[k] = e[(r + n) + k]
  BY <1>7, <1>8, UnreadFacts DEF S
<1> HIDE DEF s
<1>10. p \in Seq(S) /\ Len(p) = n /\ \A k \in 1 .. n : p[k] = t[k]
  <2>1. /\ SubSeq(t, 0 + 1, n) \in Seq(S) /\ Len(SubSeq(t, 0 + 1, n)) = n - 0
        /\ \A k \in 1 .. n - 0 : SubSeq(t, 0 + 1, n)[k] = t[0 + k]
    <3>1. 0 \in Nat /\ 0 <= n /\ n <= Len(t)
      BY <1>0, <1>1, <1>4
    <3> QED
      BY <1>4, <3>1, SliceFacts
  <2> QED
    BY <2>1, 0 + 1 = 1
<1> HIDE DEF p
<1>11. /\ p \o s \in Seq(S) /\ Len(p \o s) = n + (w - (r + n))
       /\ \A k \in 1 .. n + (w - (r + n)) :
             (p \o s)[k] = IF k <= n THEN p[k] ELSE s[k - n]
  <2>1. /\ p \o s \in Seq(S) /\ Len(p \o s) = Len(p) + Len(s)
        /\ \A k \in 1 .. Len(p) + Len(s) :
              (p \o s)[k] = IF k <= Len(p) THEN p[k] ELSE s[k - Len(p)]
    <3>1. p \in Seq(S) /\ s \in Seq(S)
      BY <1>9, <1>10
    <3> QED
      BY <3>1, ConcatProperties
  <2> DEFINE u == p \o s
  <2> HIDE DEF u
  <2>2. /\ u \in Seq(S) /\ Len(u) = Len(p) + Len(s)
        /\ \A k \in 1 .. Len(p) + Len(s) :
              u[k] = IF k <= Len(p) THEN p[k] ELSE s[k - Len(p)]
    BY <2>1 DEF u
  <2>3. /\ u \in Seq(S) /\ Len(u) = n + (w - (r + n))
        /\ \A k \in 1 .. n + (w - (r + n)) : u[k] = IF k <= n THEN p[k] ELSE s[k - n]
    BY <2>2, <1>9, <1>10
  <2> QED
    BY <2>3 DEF u
<1>12. ASSUME NEW k \in 1 .. w - r PROVE t[k] = (p \o s)[k]
  <2>0. k \in 1 .. n + (w - (r + n))
    BY <1>0, <1>1
  <2>1. CASE k <= n
    BY <1>10, <1>11, <2>0, <2>1
  <2>2. CASE ~(k <= n)
    <3>1. k - n \in 1 .. w - (r + n) /\ (r + n) + (k - n) = r + k
      BY <1>0, <1>1, <2>2
    <3>2. s[k - n] = d[r + k]
      BY <1>6, <1>9, <3>1
    <3> QED
      BY <1>4, <1>11, <2>0, <2>2, <3>2
  <2> QED
    BY <2>1, <2>2
<1>13. t = p \o s
  <2> DEFINE u == p \o s
  <2>1. u \in Seq(S) /\ Len(t) = Len(u) /\ \A k \in 1 .. Len(t) : t[k] = u[k]
    BY <1>0, <1>1, <1>4, <1>11, <1>12
  <2> HIDE DEF u
  <2>2. t = u
    BY <1>4, <2>1, SeqEqual
  <2> QED
    BY <2>2 DEF u
<1> QED
  BY <1>8, <1>13 DEF c, s, t, p

-----------------------------------------------------------------------------
(* Bytes and packets                                                         *)

\* The bytes of a packet, one by one.
LEMMA BytesFacts ==
    ASSUME NEW p \in ToBroker \cup FromBroker
    PROVE  /\ Size[p] \in Nat /\ Size[p] > 0
           /\ Bytes(p) \in Seq(Byte) /\ Len(Bytes(p)) = Size[p]
           /\ \A k \in 1 .. Size[p] : Bytes(p)[k] = <<p, k>>
<1>1. Size[p] \in Nat /\ Size[p] > 0
  BY ConnectionAssumption
<1>2. \A k \in 1 .. Size[p] : <<p, k>> \in Byte
  BY DEF Byte
<1>3. Bytes(p) \in Seq(Byte) /\ Len(Bytes(p)) = Size[p]
  BY <1>1, <1>2 DEF Bytes
<1> QED
  BY <1>1, <1>3 DEF Bytes

\* A sequence cut in two.
LEMMA SplitAt ==
    ASSUME NEW S, NEW s \in Seq(S), NEW n \in 0 .. Len(s)
    PROVE  /\ SubSeq(s, 1, n) \in Seq(S) /\ Len(SubSeq(s, 1, n)) = n
           /\ \A k \in 1 .. n : SubSeq(s, 1, n)[k] = s[k]
           /\ SubSeq(s, n + 1, Len(s)) \in Seq(S) /\ Len(SubSeq(s, n + 1, Len(s))) = Len(s) - n
           /\ \A k \in 1 .. Len(s) - n : SubSeq(s, n + 1, Len(s))[k] = s[n + k]
           /\ SubSeq(s, 1, n) \o SubSeq(s, n + 1, Len(s)) = s
<1> DEFINE a == SubSeq(s, 1, n)
           b == SubSeq(s, n + 1, Len(s))
<1>0. Len(s) \in Nat /\ n \in Nat /\ n <= Len(s)
  OBVIOUS
<1>1. a \in Seq(S) /\ Len(a) = n /\ \A k \in 1 .. n : a[k] = s[k]
  <2>1. /\ SubSeq(s, 0 + 1, n) \in Seq(S) /\ Len(SubSeq(s, 0 + 1, n)) = n - 0
        /\ \A k \in 1 .. n - 0 : SubSeq(s, 0 + 1, n)[k] = s[0 + k]
    <3>1. 0 \in Nat /\ 0 <= n
      BY <1>0
    <3> QED
      BY <1>0, <3>1, SliceFacts
  <2> QED
    BY <2>1, 0 + 1 = 1
<1>2. b \in Seq(S) /\ Len(b) = Len(s) - n /\ \A k \in 1 .. Len(s) - n : b[k] = s[n + k]
  <2>1. Len(s) <= Len(s)
    BY <1>0
  <2> QED
    BY <1>0, <2>1, SliceFacts
<1> HIDE DEF a, b
<1>3. /\ a \o b \in Seq(S) /\ Len(a \o b) = Len(a) + Len(b)
      /\ \A k \in 1 .. Len(a) + Len(b) : (a \o b)[k] = IF k <= Len(a) THEN a[k] ELSE b[k - Len(a)]
  BY <1>1, <1>2, ConcatProperties
<1>4. a \o b = s
  <2> DEFINE u == a \o b
  <2>1. /\ u \in Seq(S) /\ Len(u) = n + (Len(s) - n)
        /\ \A k \in 1 .. n + (Len(s) - n) : u[k] = IF k <= n THEN a[k] ELSE b[k - n]
    BY <1>1, <1>2, <1>3
  <2> HIDE DEF u
  <2>2. Len(u) = Len(s)
    BY <1>0, <2>1
  <2>3. ASSUME NEW k \in 1 .. Len(u) PROVE u[k] = s[k]
    <3>1. CASE k <= n
      BY <1>0, <1>1, <2>1, <2>2, <3>1
    <3>2. CASE ~(k <= n)
      <4>1. k - n \in 1 .. Len(s) - n /\ n + (k - n) = k
        BY <1>0, <2>2, <3>2
      <4> QED
        BY <1>0, <1>2, <2>1, <2>2, <3>2, <4>1
    <3> QED
      BY <3>1, <3>2
  <2>4. u = s
    BY <2>1, <2>2, <2>3, SeqEqual
  <2> QED
    BY <2>4 DEF u
<1> QED
  BY <1>1, <1>2, <1>4 DEF a, b

\* Concatenation of byte sequences is associative.
LEMMA Assoc ==
    ASSUME NEW s \in Seq(Byte), NEW t \in Seq(Byte), NEW u \in Seq(Byte)
    PROVE  (s \o t) \o u = s \o (t \o u)
BY ConcatAssociative

\* Packet p is in s, in full, behind position o.
PacketAt(s, o, p) ==
    /\ o + Size[p] <= Len(s)
    /\ \A i \in 1 .. Size[p] : s[o + i] = <<p, i>>

\* Every byte of s belongs to a packet that is there in full: s is a number of
\* whole packets.
Whole(s) ==
    \A k \in 1 .. Len(s) : \E p \in FromBroker : \E o \in Nat :
        o < k /\ k <= o + Size[p] /\ PacketAt(s, o, p)

\* No bytes are no packets.
LEMMA WholeEmpty == Whole(<<>>)
BY DEF Whole

\* The broker adds a whole packet.
LEMMA WholeAppend ==
    ASSUME NEW s \in Seq(Byte), NEW p \in FromBroker, Whole(s)
    PROVE  Whole(s \o Bytes(p))
<1> DEFINE b == Bytes(p)
           t == s \o b
<1>1. /\ Size[p] \in Nat /\ Size[p] > 0 /\ b \in Seq(Byte) /\ Len(b) = Size[p]
      /\ \A k \in 1 .. Size[p] : b[k] = <<p, k>>
  BY BytesFacts
<1> HIDE DEF b
<1>2. /\ t \in Seq(Byte) /\ Len(t) = Len(s) + Len(b)
      /\ \A k \in 1 .. Len(s) + Len(b) : t[k] = IF k <= Len(s) THEN s[k] ELSE b[k - Len(s)]
  BY <1>1, ConcatProperties
<1> HIDE DEF t
<1>3. Len(s) \in Nat
  OBVIOUS
<1> SUFFICES ASSUME NEW k \in 1 .. Len(t)
             PROVE  \E q \in FromBroker : \E o \in Nat :
                        o < k /\ k <= o + Size[q] /\ PacketAt(t, o, q)
  BY DEF Whole, t, b
<1>4. CASE k <= Len(s)
  <2>1. PICK q \in FromBroker : \E o \in Nat : o < k /\ k <= o + Size[q] /\ PacketAt(s, o, q)
    BY <1>4 DEF Whole
  <2>2. PICK o \in Nat : o < k /\ k <= o + Size[q] /\ PacketAt(s, o, q)
    BY <2>1
  <2>3. Size[q] \in Nat
    BY BytesFacts
  <2>4. o + Size[q] <= Len(s) /\ \A i \in 1 .. Size[q] : s[o + i] = <<q, i>>
    BY <2>2 DEF PacketAt
  <2>5. o + Size[q] <= Len(t)
    BY <1>1, <1>2, <1>3, <2>3, <2>4
  <2>6. ASSUME NEW i \in 1 .. Size[q] PROVE t[o + i] = <<q, i>>
    <3>1. o + i \in 1 .. Len(s) + Len(b) /\ o + i <= Len(s)
      BY <1>1, <1>3, <2>3, <2>4
    <3> QED
      BY <1>2, <2>4, <3>1
  <2>7. PacketAt(t, o, q)
    BY <2>5, <2>6 DEF PacketAt
  <2> QED
    BY <2>2, <2>7
<1>5. CASE ~(k <= Len(s))
  <2>1. Len(s) < k /\ k <= Len(s) + Size[p]
    BY <1>1, <1>2, <1>3, <1>5
  <2>2. ASSUME NEW i \in 1 .. Size[p] PROVE t[Len(s) + i] = <<p, i>>
    <3>1. Len(s) + i \in 1 .. Len(s) + Len(b) /\ ~(Len(s) + i <= Len(s)) /\ (Len(s) + i) - Len(s) = i
      BY <1>1, <1>3
    <3> QED
      BY <1>1, <1>2, <3>1
  <2>3. PacketAt(t, Len(s), p)
    BY <1>1, <1>2, <1>3, <2>2 DEF PacketAt
  <2> QED
    BY <1>3, <2>1, <2>3
<1> QED
  BY <1>4, <1>5

\* Whole packets begin with the first byte of a packet that is there in full.
LEMMA WholeFirst ==
    ASSUME NEW s \in Seq(Byte), Whole(s), Len(s) > 0
    PROVE  \E p \in FromBroker : s[1] = <<p, 1>> /\ PacketAt(s, 0, p)
<1>1. PICK p \in FromBroker : \E o \in Nat : o < 1 /\ 1 <= o + Size[p] /\ PacketAt(s, o, p)
  BY DEF Whole
<1>2. PICK o \in Nat : o < 1 /\ 1 <= o + Size[p] /\ PacketAt(s, o, p)
  BY <1>1
<1>3. o = 0
  BY <1>2
<1>4. Size[p] \in Nat /\ Size[p] > 0
  BY BytesFacts
<1>5. s[0 + 1] = <<p, 1>>
  BY <1>2, <1>3, <1>4 DEF PacketAt
<1> QED
  BY <1>2, <1>3, <1>5

\* Without that packet, the rest is whole packets again.
LEMMA WholeRest ==
    ASSUME NEW p \in FromBroker, NEW t \in Seq(Byte), Whole(Bytes(p) \o t)
    PROVE  Whole(t)
<1> DEFINE b == Bytes(p)
           s == b \o t
           z == Size[p]
<1>1. z \in Nat /\ z > 0 /\ b \in Seq(Byte) /\ Len(b) = z /\ \A k \in 1 .. z : b[k] = <<p, k>>
  BY BytesFacts
<1>0. Whole(s)
  OBVIOUS
<1> HIDE DEF b, z
<1>2. /\ s \in Seq(Byte) /\ Len(s) = Len(b) + Len(t)
      /\ \A k \in 1 .. Len(b) + Len(t) : s[k] = IF k <= Len(b) THEN b[k] ELSE t[k - Len(b)]
  BY <1>1, ConcatProperties
<1> HIDE DEF s
<1>3. Len(t) \in Nat /\ Len(s) = z + Len(t)
  BY <1>1, <1>2
<1>4. \A k \in 1 .. z : s[k] = <<p, k>>
  BY <1>1, <1>2, <1>3
<1>5. ASSUME NEW k \in 1 .. Len(t) PROVE s[z + k] = t[k]
  <2>1. z + k \in 1 .. Len(b) + Len(t) /\ ~(z + k <= Len(b)) /\ (z + k) - Len(b) = k
    BY <1>1, <1>3
  <2> QED
    BY <1>2, <2>1
<1> SUFFICES ASSUME NEW k \in 1 .. Len(t)
             PROVE  \E q \in FromBroker : \E o \in Nat :
                        o < k /\ k <= o + Size[q] /\ PacketAt(t, o, q)
  BY DEF Whole
<1>6. z + k \in 1 .. Len(s)
  BY <1>1, <1>3
<1>7. PICK q \in FromBroker : \E o \in Nat : o < z + k /\ z + k <= o + Size[q] /\ PacketAt(s, o, q)
  BY <1>0, <1>6 DEF Whole
<1>8. PICK o \in Nat : o < z + k /\ z + k <= o + Size[q] /\ PacketAt(s, o, q)
  BY <1>7
<1>9. Size[q] \in Nat /\ Size[q] > 0
  BY BytesFacts
<1>10. ~(o < z)
  <2> SUFFICES ASSUME o < z PROVE FALSE
    OBVIOUS
  <2>1. s[o + 1] = <<q, 1>>
    BY <1>8, <1>9 DEF PacketAt
  <2>2. s[o + 1] = <<p, o + 1>>
    BY <1>1, <1>4
  <2>3. q = p /\ o + 1 = 1
    BY <2>1, <2>2
  <2>4. Size[q] = z /\ o = 0
    BY <2>3 DEF z
  <2> QED
    BY <1>1, <1>8, <2>4
<1>11. o - z \in Nat /\ o - z < k /\ k <= (o - z) + Size[q]
  BY <1>1, <1>8, <1>9, <1>10
<1>12. (o - z) + Size[q] <= Len(t)
  BY <1>1, <1>3, <1>8, <1>9, <1>10 DEF PacketAt
<1>13. ASSUME NEW i \in 1 .. Size[q] PROVE t[(o - z) + i] = <<q, i>>
  <2>1. (o - z) + i \in 1 .. Len(t) /\ z + ((o - z) + i) = o + i
    BY <1>1, <1>3, <1>9, <1>10, <1>11, <1>12
  <2>2. s[o + i] = <<q, i>>
    BY <1>8 DEF PacketAt
  <2> QED
    BY <1>5, <2>1, <2>2
<1>14. PacketAt(t, o - z, q)
  BY <1>12, <1>13 DEF PacketAt
<1> QED
  BY <1>11, <1>14

-----------------------------------------------------------------------------
(* The bytes the client sends                                                *)

\* The buffer b and what the socket took are exactly what was accepted.
Wire(b, taken, all) ==
    /\ b \in Buffers(Byte) /\ reaable_data(b) \in Seq(Byte)
    /\ taken \in Seq(Byte) /\ all \in Seq(Byte)
    /\ taken \o reaable_data(b) = all

\* A buffer without unread bytes.
LEMMA EmptyFacts ==
    /\ EmptyBuffer \in Buffers(Byte)
    /\ EmptyBuffer.read = 0 /\ EmptyBuffer.write = 0
    /\ reaable_data(EmptyBuffer) = <<>>
    /\ flip(EmptyBuffer) = EmptyBuffer
<1>1. BufferSize \in Nat /\ BufferSize > 0
  BY BufferAssumption
<1>2. EmptyBuffer \in Buffers(Byte)
  BY <1>1 DEF EmptyBuffer, Buffers
<1>3. reaable_data(EmptyBuffer) = <<>>
  <2>1. EmptyBuffer.read = 0 /\ EmptyBuffer.write = 0
    BY DEF EmptyBuffer
  <2>2. reaable_data(EmptyBuffer) = SubSeq(EmptyBuffer.data, 1, 0)
    BY <2>1 DEF reaable_data
  <2> QED
    BY <2>2, SubSeqEmpty
<1> QED
  BY <1>2, <1>3 DEF EmptyBuffer, flip

\* The beginning of a connection.
LEMMA WireReset == Wire(EmptyBuffer, <<>>, <<>>)
BY EmptyFacts DEF Wire

\* The socket takes some of the unread bytes.
LEMMA WireWrite ==
    ASSUME NEW b, NEW taken, NEW all, Wire(b, taken, all),
           NEW n \in Nat, n <= b.write - b.read
    PROVE  Wire(add_bytes_read(b, n), taken \o SubSeq(reaable_data(b), 1, n), all)
<1> DEFINE t == reaable_data(b)
           c == add_bytes_read(b, n)
           u == reaable_data(c)
           p == SubSeq(t, 1, n)
           v == SubSeq(t, n + 1, Len(t))
<1>1. b \in Buffers(Byte) /\ t \in Seq(Byte) /\ taken \in Seq(Byte) /\ all \in Seq(Byte) /\ taken \o t = all
  BY DEF Wire
<1>2. c \in Buffers(Byte) /\ t = p \o u /\ u \in Seq(Byte \cup {Unused}) /\ Len(t) = b.write - b.read
  BY <1>1, ReadTakesFromFront, UnreadFacts
<1> HIDE DEF c, u, t
<1>3. n \in 0 .. Len(t)
  BY <1>2
<1>4. p \in Seq(Byte) /\ v \in Seq(Byte) /\ p \o v = t
  BY <1>1, <1>3, SplitAt
<1> HIDE DEF p, v
<1>5. p \in Seq(Byte \cup {Unused}) /\ v \in Seq(Byte \cup {Unused}) /\ p \o v = p \o u
  BY <1>2, <1>4
<1>6. u = v
  BY <1>2, <1>5, ConcatSimplifications
<1>7. (taken \o p) \o u = taken \o (p \o u)
  <2>1. taken \in Seq(Byte) /\ p \in Seq(Byte) /\ u \in Seq(Byte)
    BY <1>1, <1>4, <1>6
  <2> QED
    BY <2>1, Assoc
<1>8. taken \o p \in Seq(Byte)
  BY <1>1, <1>4, ConcatProperties
<1> QED
  BY <1>1, <1>2, <1>4, <1>6, <1>7, <1>8 DEF Wire, u, c, p, t

\* The unread bytes are moved to the front.
LEMMA WireFlip ==
    ASSUME NEW b, NEW taken, NEW all, Wire(b, taken, all)
    PROVE  Wire(flip(b), taken, all) /\ Wire(writeable_data(b), taken, all)
BY FlipKeepsUnread, WriteableUnlessFull DEF Wire

\* A packet that fits is accepted.
LEMMA WireCommit ==
    ASSUME NEW b, NEW taken, NEW all, Wire(b, taken, all),
           NEW p \in ToBroker, Size[p] <= Room(b)
    PROVE  Wire(commit_bytes_written(b, Bytes(p)), taken, all \o Bytes(p))
<1> DEFINE t == reaable_data(b)
           y == Bytes(p)
<1>1. b \in Buffers(Byte) /\ t \in Seq(Byte) /\ taken \in Seq(Byte) /\ all \in Seq(Byte) /\ taken \o t = all
  BY DEF Wire
<1>2. y \in Seq(Byte) /\ Len(y) <= Room(b)
  BY BytesFacts
<1> HIDE DEF y
<1>3. /\ commit_bytes_written(b, y) \in Buffers(Byte)
      /\ reaable_data(commit_bytes_written(b, y)) = t \o y
  BY <1>1, <1>2, CommitAppends
<1> HIDE DEF t
<1>4. (taken \o t) \o y = taken \o (t \o y)
  <2>1. taken \in Seq(Byte) /\ t \in Seq(Byte) /\ y \in Seq(Byte)
    BY <1>1, <1>2
  <2> QED
    BY <2>1, Assoc
<1>5. t \o y \in Seq(Byte) /\ all \o y \in Seq(Byte)
  BY <1>1, <1>2, ConcatProperties
<1> QED
  BY <1>1, <1>3, <1>4, <1>5 DEF Wire, y

\* CONNECT is the first packet of a connection.
LEMMA WireConnect ==
    ASSUME Size["connect"] <= BufferSize
    PROVE  Wire(commit_bytes_written(flip(EmptyBuffer), Bytes("connect")), <<>>, Bytes("connect"))
<1>1. "connect" \in ToBroker
  BY DEF ToBroker
<1>2. BufferSize \in Nat
  BY BufferAssumption
<1>3. Room(EmptyBuffer) = BufferSize
  BY <1>2 DEF Room, EmptyBuffer
<1>4. Wire(commit_bytes_written(EmptyBuffer, Bytes("connect")), <<>>, <<>> \o Bytes("connect"))
  BY <1>1, <1>3, WireReset, WireCommit
<1>5. <<>> \o Bytes("connect") = Bytes("connect")
  BY <1>1, BytesFacts, ConcatEmptySeq
<1> QED
  BY <1>4, <1>5, EmptyFacts

-----------------------------------------------------------------------------
(* The bytes the client receives                                             *)

\* What was handled, the buffer b and what is under way are exactly what was
\* sent, and what is not handled yet begins at the beginning of a packet.
Input(b, coming, done, all) ==
    /\ b \in Buffers(Byte) /\ reaable_data(b) \in Seq(Byte)
    /\ coming \in Seq(Byte) /\ done \in Seq(Byte) /\ all \in Seq(Byte)
    /\ done \o reaable_data(b) \o coming = all
    /\ Whole(reaable_data(b) \o coming)

\* A new connection has received nothing.
LEMMA InputReset == Input(EmptyBuffer, <<>>, <<>>, <<>>)
BY EmptyFacts, WholeEmpty DEF Input

\* flip() of the receive buffer changes nothing that was received.
LEMMA InputFlip ==
    ASSUME NEW b, NEW coming, NEW done, NEW all, Input(b, coming, done, all)
    PROVE  Input(flip(b), coming, done, all) /\ Input(writeable_data(b), coming, done, all)
BY FlipKeepsUnread, WriteableUnlessFull DEF Input

\* Some of the bytes under way come into the buffer.
LEMMA InputRead ==
    ASSUME NEW b, NEW coming, NEW done, NEW all, Input(b, coming, done, all),
           NEW n \in Nat, n <= Len(coming), n <= Room(b)
    PROVE  Input(commit_bytes_written(b, SubSeq(coming, 1, n)),
                 SubSeq(coming, n + 1, Len(coming)), done, all)
<1> DEFINE r == reaable_data(b)
           x == SubSeq(coming, 1, n)
           y == SubSeq(coming, n + 1, Len(coming))
<1>1. /\ b \in Buffers(Byte) /\ r \in Seq(Byte) /\ coming \in Seq(Byte) /\ done \in Seq(Byte)
      /\ all \in Seq(Byte) /\ (done \o r) \o coming = all /\ Whole(r \o coming)
  BY DEF Input
<1>2. n \in 0 .. Len(coming)
  BY <1>1
<1>3. x \in Seq(Byte) /\ y \in Seq(Byte) /\ Len(x) = n /\ x \o y = coming
  BY <1>1, <1>2, SplitAt
<1> HIDE DEF x, y
<1>4. commit_bytes_written(b, x) \in Buffers(Byte) /\ reaable_data(commit_bytes_written(b, x)) = r \o x
  BY <1>1, <1>3, CommitAppends
<1> HIDE DEF r
<1>5. /\ r \in Seq(Byte) /\ x \in Seq(Byte) /\ y \in Seq(Byte) /\ done \in Seq(Byte)
      /\ coming \in Seq(Byte)
  BY <1>1, <1>3
<1>6. r \o x \in Seq(Byte)
  BY <1>5, ConcatProperties
<1>7. (r \o x) \o y = r \o (x \o y)
  BY <1>5, Assoc
<1>8. (done \o (r \o x)) \o y = done \o ((r \o x) \o y)
  BY <1>5, <1>6, Assoc
<1>9. (done \o r) \o coming = done \o (r \o coming)
  BY <1>5, Assoc
<1>10. (done \o (r \o x)) \o y = all
  BY <1>1, <1>3, <1>7, <1>8, <1>9
<1>11. Whole((r \o x) \o y)
  BY <1>1, <1>3, <1>7
<1> QED
  BY <1>1, <1>3, <1>4, <1>6, <1>10, <1>11 DEF Input, x, y

\* A packet that is in the buffer in full is handled and dropped.
LEMMA InputDrop ==
    ASSUME NEW b, NEW coming, NEW done, NEW all, Input(b, coming, done, all),
           NEW p, reaable_data(b) # <<>>, p = reaable_data(b)[1][1],
           Size[p] <= Len(reaable_data(b))
    PROVE  /\ p \in FromBroker
           /\ Input(add_bytes_read(b, Size[p]), coming, done \o Bytes(p), all)
<1> DEFINE r == reaable_data(b)
           w == r \o coming
           z == Size[p]
           c == add_bytes_read(b, z)
           v == reaable_data(c)
           x == SubSeq(r, 1, z)
           y == SubSeq(r, z + 1, Len(r))
<1>1. /\ b \in Buffers(Byte) /\ r \in Seq(Byte) /\ coming \in Seq(Byte) /\ done \in Seq(Byte)
      /\ all \in Seq(Byte) /\ (done \o r) \o coming = all /\ Whole(w)
      /\ r # <<>> /\ p = r[1][1] /\ z <= Len(r)
  BY DEF Input
<1>2. Len(r) = b.write - b.read
  BY <1>1, UnreadFacts
<1> HIDE DEF r
<1>3. /\ w \in Seq(Byte) /\ Len(w) = Len(r) + Len(coming)
      /\ \A k \in 1 .. Len(r) + Len(coming) : w[k] = IF k <= Len(r) THEN r[k] ELSE coming[k - Len(r)]
  BY <1>1, ConcatProperties
<1> HIDE DEF w
<1>4. Len(r) \in Nat /\ Len(r) > 0 /\ Len(coming) \in Nat
  BY <1>1
<1>5. \A k \in 1 .. Len(r) : w[k] = r[k]
  BY <1>3, <1>4
<1>6. Len(w) > 0
  BY <1>3, <1>4
<1>7. PICK q \in FromBroker : w[1] = <<q, 1>> /\ PacketAt(w, 0, q)
  BY <1>1, <1>3, <1>6, WholeFirst
<1>8. q = p
  <2>1. r[1] = <<q, 1>>
    BY <1>4, <1>5, <1>7
  <2> QED
    BY <1>1, <2>1
<1>9. /\ p \in FromBroker /\ z \in Nat /\ z > 0 /\ Bytes(p) \in Seq(Byte) /\ Len(Bytes(p)) = z
      /\ \A k \in 1 .. z : Bytes(p)[k] = <<p, k>>
  BY <1>8, BytesFacts
<1>10. \A k \in 1 .. z : w[k] = <<p, k>>
  BY <1>7, <1>8, <1>9 DEF PacketAt, z
<1> HIDE DEF z
<1>11. z \in 0 .. Len(r)
  BY <1>1, <1>4, <1>9
<1>12. /\ x \in Seq(Byte) /\ Len(x) = z /\ \A k \in 1 .. z : x[k] = r[k]
       /\ y \in Seq(Byte) /\ x \o y = r
  BY <1>1, <1>11, SplitAt
<1> HIDE DEF x, y
<1>13. x = Bytes(p)
  <2>1. ASSUME NEW k \in 1 .. Len(x) PROVE x[k] = Bytes(p)[k]
    <3>1. k \in 1 .. z /\ k \in 1 .. Len(r)
      BY <1>4, <1>11, <1>12
    <3> QED
      BY <1>5, <1>9, <1>10, <1>12, <3>1
  <2> QED
    BY <1>9, <1>12, <2>1, SeqEqual
<1>14. c \in Buffers(Byte) /\ r = x \o v /\ v \in Seq(Byte \cup {Unused})
  <2>1. z <= b.write - b.read
    BY <1>1, <1>2
  <2> QED
    BY <1>1, <1>9, <2>1, ReadTakesFromFront, UnreadFacts DEF r, x
<1> HIDE DEF c, v
<1>15. v = y
  <2>1. x \in Seq(Byte \cup {Unused}) /\ y \in Seq(Byte \cup {Unused}) /\ x \o y = x \o v
    BY <1>12, <1>14
  <2> QED
    BY <1>14, <2>1, ConcatSimplifications
<1>16. v \in Seq(Byte) /\ done \o x \in Seq(Byte) /\ v \o coming \in Seq(Byte)
  BY <1>1, <1>12, <1>15, ConcatProperties
<1>0. done \in Seq(Byte) /\ x \in Seq(Byte) /\ v \in Seq(Byte) /\ coming \in Seq(Byte)
  BY <1>1, <1>12, <1>16
<1>17. (done \o x) \o v = done \o r
  <2>1. (done \o x) \o v = done \o (x \o v)
    BY <1>0, Assoc
  <2> QED
    BY <1>14, <2>1
<1>18. w = x \o (v \o coming)
  <2>1. (x \o v) \o coming = x \o (v \o coming)
    BY <1>0, Assoc
  <2> QED
    BY <1>14, <2>1 DEF w
<1>19. Whole(v \o coming)
  BY <1>1, <1>9, <1>13, <1>16, <1>18, WholeRest
<1>20. Input(c, coming, done \o x, all)
  BY <1>1, <1>14, <1>16, <1>17, <1>19 DEF Input, v
<1> QED
  BY <1>9, <1>13, <1>20 DEF c, z

\* The broker sends a packet.
LEMMA InputSend ==
    ASSUME NEW b, NEW coming, NEW done, NEW all, Input(b, coming, done, all), NEW p \in FromBroker
    PROVE  Input(b, coming \o Bytes(p), done, all \o Bytes(p))
<1> DEFINE r == reaable_data(b)
           y == Bytes(p)
<1>1. /\ b \in Buffers(Byte) /\ r \in Seq(Byte) /\ coming \in Seq(Byte) /\ done \in Seq(Byte)
      /\ all \in Seq(Byte) /\ (done \o r) \o coming = all /\ Whole(r \o coming)
  BY DEF Input
<1>2. y \in Seq(Byte)
  BY BytesFacts
<1> HIDE DEF r
<1>3. r \o coming \in Seq(Byte) /\ done \o r \in Seq(Byte)
  BY <1>1, ConcatProperties
<1>4. Whole((r \o coming) \o y)
  BY <1>1, <1>3, WholeAppend
<1> HIDE DEF y
<1>7. r \in Seq(Byte) /\ coming \in Seq(Byte) /\ y \in Seq(Byte) /\ done \o r \in Seq(Byte)
  BY <1>1, <1>2, <1>3
<1>8. (r \o coming) \o y = r \o (coming \o y)
  BY <1>7, Assoc
<1>5. ((done \o r) \o coming) \o y = (done \o r) \o (coming \o y)
  BY <1>7, Assoc
<1>6. coming \o y \in Seq(Byte) /\ all \o y \in Seq(Byte)
  BY <1>1, <1>2, ConcatProperties
<1> QED
  BY <1>1, <1>4, <1>5, <1>6, <1>8 DEF Input, r, y

-----------------------------------------------------------------------------
(* What a step does to the bytes                                             *)

Handshake == {"await_connack", "connack", "subscribe", "send_subscribe", "await_suback", "suback"}
Online == {"nonblocking", "poll_read", "io", "process", "disconnect", "send_disconnect"}
Holding == {"connack", "suback", "process"}

\* Where the loop is says what the state is: connect() finds None or Error,
\* run_io() and disconnect() find Connected.
Located ==
    /\ pc = "turn" => state \in {"None", "Error", "Connected"}
    /\ pc = "send_connect" => state \in {"None", "Error"}
    /\ pc \in Handshake => state = "ConnectSent"
    /\ pc \in Online => state = "Connected"
    /\ outcome # "running" => pc = "stopped"

\* A connection got as far as this only if CONNECT fits the buffer.
ConnectFits ==
    (pc \notin {"turn", "stopped"} \/ state = "Connected") => Size["connect"] <= BufferSize

\* What a step does to the bytes that are sent.
SendStep ==
    \/ UNCHANGED <<send_buffer, to_broker, accepted>>
    \/ network_write /\ UNCHANGED accepted
    \/ send_buffer' = writeable_data(send_buffer) /\ UNCHANGED <<to_broker, accepted>>
    \/ \E p \in ToBroker : \E b \in {flip(send_buffer), writeable_data(send_buffer)} :
          /\ Size[p] <= Room(b)
          /\ send_buffer' = commit_bytes_written(b, Bytes(p))
          /\ accepted' = accepted \o Bytes(p) /\ UNCHANGED to_broker
    \/ send_buffer' = EmptyBuffer /\ to_broker' = <<>> /\ accepted' = <<>>
    \/ /\ Size["connect"] <= BufferSize
       /\ send_buffer' = commit_bytes_written(flip(EmptyBuffer), Bytes("connect"))
       /\ to_broker' = <<>> /\ accepted' = Bytes("connect")

\* DISCONNECT fits the buffer once that is empty.
LEMMA DisconnectFits ==
    ASSUME send_buffer \in Buffers(Byte), ~has_remaining_len(send_buffer),
           Size["connect"] <= BufferSize
    PROVE  Size["disconnect"] <= Room(flip(send_buffer))
<1> DEFINE b == flip(send_buffer)
<1>1. /\ send_buffer.read \in Nat /\ send_buffer.write \in Nat /\ send_buffer.read <= send_buffer.write
      /\ BufferSize \in Nat
  BY BufferFacts
<1>2. send_buffer.read = send_buffer.write
  BY <1>1 DEF has_remaining_len
<1>3. b.write = 0
  BY <1>1, <1>2 DEF flip
<1>4. Room(b) = BufferSize
  BY <1>1, <1>3 DEF Room
<1>5. Size["disconnect"] \in Nat /\ Size["connect"] \in Nat /\ Size["disconnect"] <= Size["connect"]
  BY ConnectionAssumption DEF ToBroker
<1> QED
  BY <1>1, <1>4, <1>5

\* The steps of the model are of these kinds.
LEMMA NextSends ==
    ASSUME [Next]_vars, send_buffer \in Buffers(Byte), pending \in Seq(Requests), Located, ConnectFits
    PROVE  SendStep
<1>1. CASE UNCHANGED vars
  BY <1>1 DEF vars, SendStep
<1>2. CASE connect
  <2>1. to_broker' = <<>>
    BY <1>2 DEF connect
  <2>2. \/ send_buffer' = EmptyBuffer /\ accepted' = <<>>
        \/ /\ ~(Size["connect"] > BufferSize)
           /\ send_buffer' = commit_bytes_written(flip(EmptyBuffer), Bytes("connect"))
           /\ accepted' = Bytes("connect")
    BY <1>2 DEF connect, reset
  <2>3. ~(Size["connect"] > BufferSize) => Size["connect"] <= BufferSize
    BY ConnectionAssumption, BufferAssumption DEF ToBroker
  <2> QED
    BY <2>1, <2>2, <2>3 DEF SendStep
<1>3. CASE send_connect
  BY <1>3 DEF send_connect, SendStep
<1>4. CASE read_packet("await_connack", "connack") \/ read_packet("await_suback", "suback")
  BY <1>4 DEF read_packet, SendStep
<1>5. CASE process_connack \/ process_suback \/ process_packet
  BY <1>5 DEF process_connack, process_suback, process_packet, SendStep
<1>6. CASE subscribe_auto_subscribes
  <2>1. "subscribe" \in ToBroker
    BY DEF ToBroker
  <2> QED
    BY <1>6, <2>1 DEF subscribe_auto_subscribes, Fits, Stop, SendStep
<1>7. CASE \E a, n : send_all(a, n)
  BY <1>7 DEF send_all, SendStep
<1>8. CASE try_write_packet
  <2>1. pending # <<>>
    BY <1>8 DEF try_write_packet
  <2>2. Head(pending) \in ToBroker
    BY <2>1 DEF ToBroker
  <2>3. PICK p : p = Head(pending)
    OBVIOUS
  <2>4. \/ /\ Size[p] <= Room(SendSpace) /\ send_buffer' = commit_bytes_written(SendSpace, Bytes(p))
           /\ accepted' = accepted \o Bytes(p) /\ UNCHANGED to_broker
        \/ send_buffer' = SendSpace /\ UNCHANGED <<to_broker, accepted>>
    BY <1>8, <2>3 DEF try_write_packet
  <2> QED
    BY <2>2, <2>3, <2>4 DEF SendStep, SendSpace
<1>9. CASE sent_all \/ io_interrupted \/ nonblocking_read \/ io_read \/ disconnected
  BY <1>9 DEF sent_all, io_interrupted, nonblocking_read, io_read, disconnected, SendStep
<1>10. CASE nonblocking_send
  BY <1>10 DEF nonblocking_send, SendStep
<1>11. CASE io_write
  BY <1>11 DEF io_write, SendStep
<1>12. CASE write_disconnect
  <2>1. "disconnect" \in ToBroker
    BY DEF ToBroker
  <2> QED
    BY <1>12, <2>1 DEF write_disconnect, Fits, SendStep
<1>13. CASE network_error
  BY <1>13 DEF network_error, SendStep
<1>14. CASE Environment
  BY <1>14 DEF Environment, request, notify_disconnect, BrokerSend, BrokerClose, clientVars, SendStep
<1> QED
  BY <1>1, <1>2, <1>3, <1>4, <1>5, <1>6, <1>7, <1>8, <1>9, <1>10, <1>11, <1>12, <1>13, <1>14
     DEF Next, Loop, Connecting, Turn, Disconnecting

\* A step leaves no byte out, adds none and changes none.
LEMMA SendStepKeeps ==
    ASSUME SendStep, Wire(send_buffer, to_broker, accepted)
    PROVE  Wire(send_buffer, to_broker, accepted)'
<1>1. CASE UNCHANGED <<send_buffer, to_broker, accepted>>
  BY <1>1
<1>2. CASE network_write /\ UNCHANGED accepted
  <2>1. PICK n \in 1 .. send_buffer.write - send_buffer.read :
            /\ to_broker' = to_broker \o SubSeq(reaable_data(send_buffer), 1, n)
            /\ send_buffer' = add_bytes_read(send_buffer, n)
    BY <1>2 DEF network_write
  <2>0. send_buffer \in Buffers(Byte)
    BY DEF Wire
  <2>2. send_buffer.write \in Nat /\ send_buffer.read \in Nat
    BY <2>0, BufferFacts
  <2>3. n \in Nat /\ n <= send_buffer.write - send_buffer.read
    BY <2>2
  <2>4. Wire(add_bytes_read(send_buffer, n),
             to_broker \o SubSeq(reaable_data(send_buffer), 1, n), accepted)
    BY <2>3, WireWrite
  <2> QED
    BY <1>2, <2>1, <2>4
<1>3. CASE send_buffer' = writeable_data(send_buffer) /\ UNCHANGED <<to_broker, accepted>>
  BY <1>3, WireFlip
<1>4. CASE \E p \in ToBroker : \E b \in {flip(send_buffer), writeable_data(send_buffer)} :
             /\ Size[p] <= Room(b)
             /\ send_buffer' = commit_bytes_written(b, Bytes(p))
             /\ accepted' = accepted \o Bytes(p) /\ UNCHANGED to_broker
  <2>1. PICK p \in ToBroker : \E b \in {flip(send_buffer), writeable_data(send_buffer)} :
             /\ Size[p] <= Room(b)
             /\ send_buffer' = commit_bytes_written(b, Bytes(p))
             /\ accepted' = accepted \o Bytes(p) /\ UNCHANGED to_broker
    BY <1>4
  <2>2. PICK b \in {flip(send_buffer), writeable_data(send_buffer)} :
             /\ Size[p] <= Room(b)
             /\ send_buffer' = commit_bytes_written(b, Bytes(p))
             /\ accepted' = accepted \o Bytes(p) /\ UNCHANGED to_broker
    BY <2>1
  <2>3. Wire(b, to_broker, accepted)
    BY <2>2, WireFlip
  <2>4. Wire(commit_bytes_written(b, Bytes(p)), to_broker, accepted \o Bytes(p))
    BY <2>2, <2>3, WireCommit
  <2> QED
    BY <2>2, <2>4
<1>5. CASE send_buffer' = EmptyBuffer /\ to_broker' = <<>> /\ accepted' = <<>>
  BY <1>5, WireReset
<1>6. CASE /\ Size["connect"] <= BufferSize
           /\ send_buffer' = commit_bytes_written(flip(EmptyBuffer), Bytes("connect"))
           /\ to_broker' = <<>> /\ accepted' = Bytes("connect")
  BY <1>6, WireConnect
<1> QED
  BY <1>1, <1>2, <1>3, <1>4, <1>5, <1>6 DEF SendStep

\* What a step does to the bytes that are received.
Unread == reaable_data(recv_buffer)
ReceiveStep ==
    \/ UNCHANGED <<recv_buffer, to_client, handled, from_broker>>
    \/ /\ \E b \in {flip(recv_buffer), writeable_data(recv_buffer)} : \E n \in 0 .. Len(to_client) :
             /\ n <= Room(b)
             /\ recv_buffer' = commit_bytes_written(b, SubSeq(to_client, 1, n))
             /\ to_client' = SubSeq(to_client, n + 1, Len(to_client))
       /\ UNCHANGED <<handled, from_broker>>
    \/ pc \in Holding /\ drop_packet /\ UNCHANGED <<to_client, from_broker>>
    \/ /\ \E p \in FromBroker : to_client' = to_client \o Bytes(p) /\ from_broker' = from_broker \o Bytes(p)
       /\ UNCHANGED <<recv_buffer, handled>>
    \/ recv_buffer' = EmptyBuffer /\ to_client' = <<>> /\ handled' = <<>> /\ from_broker' = <<>>

\* While the loop holds a packet, it is the first of the buffer and there in full.
Held ==
    /\ pc \notin Holding => mapped = 0
    /\ pc \in Holding => /\ Unread # <<>> /\ mapped = Size[FirstPacket]
                         /\ Size[FirstPacket] <= Len(Unread)

\* The steps of the model are of these kinds.
LEMMA NextReceives ==
    ASSUME [Next]_vars
    PROVE  ReceiveStep
<1>1. CASE UNCHANGED vars
  BY <1>1 DEF vars, ReceiveStep
<1>2. CASE connect
  BY <1>2 DEF connect, reset, ReceiveStep
<1>3. CASE send_connect
  BY <1>3 DEF send_connect, brokerVars, ReceiveStep
<1>4. ASSUME NEW a, NEW n, read_packet(a, n) PROVE ReceiveStep
  <2>1. \/ UNCHANGED <<recv_buffer, to_client>>
        \/ network_read(writeable_data(recv_buffer), 1, recv_buffer')
    BY <1>4 DEF read_packet
  <2>2. UNCHANGED <<handled, from_broker>>
    BY <1>4 DEF read_packet, brokerVars
  <2> QED
    BY <2>1, <2>2 DEF network_read, ReceiveStep
<1>5. CASE process_connack \/ process_suback \/ process_packet
  BY <1>5 DEF process_connack, process_suback, process_packet, brokerVars, Holding, ReceiveStep
<1>6. CASE subscribe_auto_subscribes
  BY <1>6 DEF subscribe_auto_subscribes, brokerVars, ReceiveStep
<1>7. CASE \E a, n : send_all(a, n)
  BY <1>7 DEF send_all, brokerVars, ReceiveStep
<1>8. CASE try_write_packet \/ sent_all \/ io_interrupted \/ nonblocking_send
  BY <1>8 DEF try_write_packet, sent_all, io_interrupted, nonblocking_send, brokerVars, ReceiveStep
<1>9. CASE nonblocking_read \/ io_write \/ io_read
  <2>1. \/ network_read(writeable_data(recv_buffer), 0, recv_buffer')
        \/ network_read(flip(recv_buffer), 0, recv_buffer')
        \/ network_read(flip(recv_buffer), 1, recv_buffer')
    BY <1>9 DEF nonblocking_read, io_write, io_read
  <2>2. UNCHANGED <<handled, from_broker>>
    BY <1>9 DEF nonblocking_read, io_write, io_read, brokerVars
  <2> QED
    BY <2>1, <2>2 DEF network_read, ReceiveStep
<1>10. CASE disconnected \/ write_disconnect \/ network_error
  BY <1>10 DEF disconnected, write_disconnect, network_error, brokerVars, ReceiveStep
<1>11. CASE Environment
  BY <1>11 DEF Environment, request, notify_disconnect, BrokerSend, BrokerClose, clientVars,
               brokerVars, ReceiveStep
<1> QED
  BY <1>1, <1>2, <1>3, <1>4, <1>5, <1>6, <1>7, <1>8, <1>9, <1>10, <1>11
     DEF Next, Loop, Connecting, Turn, Disconnecting

\* A step leaves no byte out, adds none and changes none; it handles whole
\* packets.
LEMMA ReceiveStepKeeps ==
    ASSUME ReceiveStep, Held, Input(recv_buffer, to_client, handled, from_broker)
    PROVE  Input(recv_buffer, to_client, handled, from_broker)'
<1>1. CASE UNCHANGED <<recv_buffer, to_client, handled, from_broker>>
  BY <1>1
<1>2. CASE /\ \E b \in {flip(recv_buffer), writeable_data(recv_buffer)} : \E n \in 0 .. Len(to_client) :
                 /\ n <= Room(b)
                 /\ recv_buffer' = commit_bytes_written(b, SubSeq(to_client, 1, n))
                 /\ to_client' = SubSeq(to_client, n + 1, Len(to_client))
           /\ UNCHANGED <<handled, from_broker>>
  <2>1. PICK b \in {flip(recv_buffer), writeable_data(recv_buffer)} : \E n \in 0 .. Len(to_client) :
                 /\ n <= Room(b)
                 /\ recv_buffer' = commit_bytes_written(b, SubSeq(to_client, 1, n))
                 /\ to_client' = SubSeq(to_client, n + 1, Len(to_client))
    BY <1>2
  <2>2. PICK n \in 0 .. Len(to_client) :
                 /\ n <= Room(b)
                 /\ recv_buffer' = commit_bytes_written(b, SubSeq(to_client, 1, n))
                 /\ to_client' = SubSeq(to_client, n + 1, Len(to_client))
    BY <2>1
  <2>3. Input(b, to_client, handled, from_broker)
    BY <2>1, InputFlip
  <2>4. to_client \in Seq(Byte)
    BY DEF Input
  <2>5. n \in Nat /\ n <= Len(to_client)
    BY <2>4
  <2>6. Input(commit_bytes_written(b, SubSeq(to_client, 1, n)),
              SubSeq(to_client, n + 1, Len(to_client)), handled, from_broker)
    BY <2>2, <2>3, <2>5, InputRead
  <2> QED
    BY <1>2, <2>2, <2>6
<1>3. CASE pc \in Holding /\ drop_packet /\ UNCHANGED <<to_client, from_broker>>
  <2>1. PICK p : p = FirstPacket
    OBVIOUS
  <2>2. /\ reaable_data(recv_buffer) # <<>> /\ p = reaable_data(recv_buffer)[1][1]
        /\ Size[p] <= Len(reaable_data(recv_buffer)) /\ mapped = Size[p]
    BY <1>3, <2>1 DEF Held, Unread, FirstPacket
  <2>3. Input(add_bytes_read(recv_buffer, Size[p]), to_client, handled \o Bytes(p), from_broker)
    BY <2>2, InputDrop
  <2> QED
    BY <1>3, <2>1, <2>2, <2>3 DEF drop_packet
<1>4. CASE /\ \E p \in FromBroker : to_client' = to_client \o Bytes(p) /\ from_broker' = from_broker \o Bytes(p)
           /\ UNCHANGED <<recv_buffer, handled>>
  BY <1>4, InputSend
<1>5. CASE recv_buffer' = EmptyBuffer /\ to_client' = <<>> /\ handled' = <<>> /\ from_broker' = <<>>
  BY <1>5, InputReset
<1> QED
  BY <1>1, <1>2, <1>3, <1>4, <1>5 DEF ReceiveStep

-----------------------------------------------------------------------------
(* Where the loop is                                                         *)

\* The four results of try_read_packet().
LEMMA DecodedFacts ==
    ASSUME NEW b
    PROVE  LET bytes == reaable_data(b)
               packet == bytes[1][1]
           IN /\ Decoded(b) \in {"packet", "none", "CodecError", "BufferTooSmall"}
              /\ Decoded(b) = "packet" => bytes # <<>> /\ Size[packet] <= Len(bytes)
              /\ Decoded(b) = "BufferTooSmall" =>
                    /\ is_max_len(b)
                    /\ bytes # <<>> => packet \notin Malformed /\ ~(Size[packet] <= Len(bytes))
BY DEF Decoded

\* What follows from them.
LEMMA ReadGoes ==
    ASSUME NEW b, NEW next, NEW idle, AfterRead(b, next, idle)
    PROVE  \/ /\ Decoded(b) = "packet" /\ mapped' = Size[reaable_data(b)[1][1]]
              /\ pc' = next /\ UNCHANGED <<state, outcome>>
           \/ Decoded(b) = "none" /\ UNCHANGED mapped /\ pc' = idle /\ UNCHANGED <<state, outcome>>
           \/ Decoded(b) = "CodecError" /\ UNCHANGED mapped /\ Recover
           \/ Decoded(b) = "BufferTooSmall" /\ UNCHANGED mapped /\ Stop("BufferTooSmall")
<1>1. Decoded(b) \in {"packet", "none", "CodecError", "BufferTooSmall"}
  BY DecodedFacts
<1> QED
  BY <1>1 DEF AfterRead

\* The types of what a step of the loop decides by.
Typed ==
    /\ state \in {"None", "ConnectSent", "Connected", "Disconnected", "Error"}
    /\ pc \in {"turn", "send_connect", "await_connack", "connack", "subscribe",
               "send_subscribe", "await_suback", "suback", "nonblocking", "poll_read",
               "io", "process", "disconnect", "send_disconnect", "stopped"}
    /\ outcome \in {"running", "disconnected", "DnsFailed", "AuthenticationError",
                    "SubscribeOrUnsubscribeFailed", "BufferTooSmall", "ConnectionFailed2",
                    "TopicSizeError"}
    /\ chunk \in 0 .. Chunks
    /\ pc \in {"send_subscribe", "await_suback", "suback"} => chunk < Chunks
    /\ pending \in Seq(Requests)

Control == Typed /\ Located /\ ConnectFits /\ NoPanic

\* A read that does not panic ends at next, at idle, in a new turn or in an end
\* of run().
LEMMA ReadControl ==
    ASSUME NEW b, NEW next, NEW idle, AfterRead(b, next, idle), Control,
           UNCHANGED <<chunk, pending>>, ~panicked',
           \/ pc = "await_connack" /\ next = "connack" /\ idle = "await_connack"
           \/ pc = "await_suback" /\ next = "suback" /\ idle = "await_suback"
           \/ pc \in {"poll_read", "io"} /\ next = "process" /\ idle \in {"turn", "io"}
    PROVE  Control'
<1>1. \/ pc' = next /\ UNCHANGED <<state, outcome>>
      \/ pc' = idle /\ UNCHANGED <<state, outcome>>
      \/ state' = "Error" /\ pc' = "turn" /\ UNCHANGED outcome
      \/ outcome' = "BufferTooSmall" /\ pc' = "stopped" /\ UNCHANGED state
  BY ReadGoes DEF Recover, Stop
<1>2. Typed'
  BY <1>1 DEF Control, Typed
<1>3. Located'
  BY <1>1 DEF Control, Typed, Located, Handshake, Online
<1>4. ConnectFits'
  BY <1>1 DEF Control, Typed, Located, Handshake, Online, ConnectFits
<1> QED
  BY <1>2, <1>3, <1>4 DEF Control, NoPanic

\* A packet is awaited.
LEMMA AwaitControl ==
    ASSUME Control, Held, NEW await, NEW next, read_packet(await, next),
           \/ await = "await_connack" /\ next = "connack"
           \/ await = "await_suback" /\ next = "suback"
    PROVE  Control'
<1>1. pc = await /\ pc \notin Holding /\ UNCHANGED <<chunk, pending>>
  BY DEF read_packet, Holding
<1>2. mapped = 0
  BY <1>1 DEF Held
<1>3. ~panicked'
  BY <1>2 DEF read_packet, Asserted, NotBorrowed
<1>4. AfterRead(recv_buffer, next, await) \/ UNCHANGED <<pc, state, outcome>>
  BY DEF read_packet
<1>5. CASE AfterRead(recv_buffer, next, await)
  BY <1>1, <1>3, <1>5, ReadControl
<1>6. CASE UNCHANGED <<pc, state, outcome>>
  BY <1>1, <1>3, <1>6 DEF Control, Typed, Located, ConnectFits, NoPanic
<1> QED
  BY <1>4, <1>5, <1>6

\* One of the two loops of an established connection reads.
LEMMA OnlineControl ==
    ASSUME Control, Held, nonblocking_read \/ io_write \/ io_read
    PROVE  Control'
<1>1. pc \in {"poll_read", "io"} /\ pc \notin Holding /\ pc \in Online /\ UNCHANGED <<chunk, pending>>
  BY DEF nonblocking_read, io_write, io_read, Holding, Online
<1>2. mapped = 0 /\ state = "Connected"
  BY <1>1 DEF Held, Control, Located
<1>3. ~panicked'
  BY <1>2 DEF nonblocking_read, io_write, io_read, Asserted, NotBorrowed
<1>4. \/ AfterRead(recv_buffer', "process", "turn")
      \/ AfterRead(recv_buffer', "process", "io")
      \/ UNCHANGED <<pc, state, outcome>>
  BY DEF nonblocking_read, io_write, io_read
<1>5. PICK b : b = recv_buffer'
  OBVIOUS
<1>6. CASE \E i \in {"turn", "io"} : AfterRead(b, "process", i)
  BY <1>1, <1>3, <1>6, ReadControl
<1>7. CASE UNCHANGED <<pc, state, outcome>>
  BY <1>1, <1>3, <1>7 DEF Control, Typed, Located, ConnectFits, NoPanic
<1> QED
  BY <1>4, <1>5, <1>6, <1>7

\* Every step of the model goes from a place to one of its next places.
LEMMA NextControl ==
    ASSUME [Next]_vars, Control, Held, send_buffer \in Buffers(Byte)
    PROVE  Control'
<1> USE DEF Control, NoPanic
<1>1. CASE UNCHANGED vars
  BY <1>1 DEF vars, Typed, Located, ConnectFits
<1>2. CASE connect
  <2>1. pc = "turn" /\ state \in {"None", "Error"}
    BY <1>2 DEF connect, Located
  <2>2. ~panicked'
    BY <1>2, <2>1 DEF connect, Asserted
  <2>3. UNCHANGED <<chunk, pending>>
    BY <1>2 DEF connect
  <2>4. \/ outcome' \in {"DnsFailed", "BufferTooSmall"} /\ pc' = "stopped" /\ UNCHANGED state
        \/ state' = "Error" /\ pc' = "turn" /\ UNCHANGED outcome
        \/ ~(Size["connect"] > BufferSize) /\ pc' = "send_connect" /\ UNCHANGED <<state, outcome>>
    BY <1>2 DEF connect, Stop, Recover
  <2>5. ~(Size["connect"] > BufferSize) => Size["connect"] <= BufferSize
    BY ConnectionAssumption, BufferAssumption DEF ToBroker
  <2>6. Typed'
    BY <2>3, <2>4 DEF Typed
  <2>7. Located'
    BY <2>1, <2>4 DEF Typed, Located, Handshake, Online
  <2> QED
    BY <2>1, <2>2, <2>4, <2>5, <2>6, <2>7 DEF ConnectFits
<1>3. CASE send_connect
  BY <1>3 DEF send_connect, Typed, Located, Handshake, Online, ConnectFits
<1>4. CASE read_packet("await_connack", "connack") \/ read_packet("await_suback", "suback")
  BY <1>4, AwaitControl
<1>5. CASE process_connack
  <2>1. pc = "connack" /\ chunk' = 0 /\ UNCHANGED <<pending, panicked>>
    BY <1>5 DEF process_connack
  <2>2. \/ pc' = "subscribe" /\ UNCHANGED <<state, outcome>>
        \/ state' = "Error" /\ outcome' = "AuthenticationError" /\ pc' = "stopped"
        \/ state' = "Error" /\ pc' = "turn" /\ UNCHANGED outcome
    BY <1>5 DEF process_connack, Recover
  <2>3. Typed'
    BY <2>1, <2>2, ConnectionAssumption DEF Typed
  <2> QED
    BY <2>1, <2>2, <2>3 DEF Typed, Located, Handshake, Online, ConnectFits
<1>6. CASE subscribe_auto_subscribes
  <2>1. pc = "subscribe" /\ UNCHANGED <<chunk, pending, panicked>>
    BY <1>6 DEF subscribe_auto_subscribes
  <2>2. \/ state' = "Connected" /\ pc' = "turn" /\ UNCHANGED outcome
        \/ chunk # Chunks /\ pc' = "send_subscribe" /\ UNCHANGED <<state, outcome>>
        \/ outcome' \in {"TopicSizeError", "BufferTooSmall"} /\ pc' = "stopped" /\ UNCHANGED state
        \/ UNCHANGED <<pc, state, outcome>>
    BY <1>6 DEF subscribe_auto_subscribes, Stop
  <2>3. Typed'
    BY <2>1, <2>2, ConnectionAssumption DEF Typed
  <2> QED
    BY <2>1, <2>2, <2>3 DEF Typed, Located, Handshake, Online, ConnectFits
<1>7. CASE \/ send_all("send_subscribe", "await_suback")
           \/ send_all("disconnect", "disconnect")
           \/ send_all("send_disconnect", "send_disconnect")
  <2>1. \/ pc = "send_subscribe" /\ pc' \in {"send_subscribe", "await_suback"}
        \/ UNCHANGED pc
    BY <1>7 DEF send_all
  <2>2. UNCHANGED <<state, chunk, pending, outcome, panicked>>
    BY <1>7 DEF send_all
  <2>3. Typed'
    BY <2>1, <2>2 DEF Typed
  <2> QED
    BY <2>1, <2>2, <2>3 DEF Typed, Located, Handshake, Online, ConnectFits
<1>8. CASE process_suback
  <2>1. pc = "suback" /\ UNCHANGED <<pending, panicked>>
    BY <1>8 DEF process_suback
  <2>2. \/ pc' = "subscribe" /\ chunk' = chunk + 1 /\ UNCHANGED <<state, outcome>>
        \/ outcome' = "SubscribeOrUnsubscribeFailed" /\ pc' = "stopped" /\ UNCHANGED <<state, chunk>>
        \/ state' = "Error" /\ pc' = "turn" /\ UNCHANGED <<outcome, chunk>>
    BY <1>8 DEF process_suback, Recover, Stop
  <2>3. Typed'
    BY <2>1, <2>2, ConnectionAssumption DEF Typed
  <2> QED
    BY <2>1, <2>2, <2>3 DEF Typed, Located, Handshake, Online, ConnectFits
<1>9. CASE try_write_packet
  <2>1. pc = "turn" /\ state = "Connected" /\ UNCHANGED <<state, chunk, outcome, panicked>>
    BY <1>9 DEF try_write_packet
  <2>2. pc' \in {"turn", "nonblocking"}
    BY <1>9 DEF try_write_packet
  <2>3. pending # <<>> /\ pending' \in {Tail(pending), pending}
    BY <1>9 DEF try_write_packet
  <2>4. pending' \in Seq(Requests)
    BY <2>3, HeadTailProperties DEF Typed
  <2>5. Typed'
    BY <2>1, <2>2, <2>4 DEF Typed
  <2> QED
    BY <2>1, <2>2, <2>5 DEF Typed, Located, Handshake, Online, ConnectFits
<1>10. CASE sent_all \/ io_interrupted \/ nonblocking_send
  <2>1. /\ \/ pc = "turn" /\ state = "Connected"
           \/ pc \in {"io", "nonblocking"}
        /\ pc' \in {"io", "disconnect", "turn", "poll_read"}
        /\ UNCHANGED <<state, chunk, pending, outcome, panicked>>
    BY <1>10 DEF sent_all, io_interrupted, nonblocking_send
  <2>2. Typed'
    BY <2>1 DEF Typed
  <2> QED
    BY <2>1, <2>2 DEF Typed, Located, Handshake, Online, ConnectFits
<1>11. CASE nonblocking_read \/ io_write \/ io_read
  BY <1>11, OnlineControl
<1>12. CASE process_packet
  <2>1. /\ pc = "process" /\ UNCHANGED <<chunk, pending, panicked>>
        /\ \/ pc' = "turn" /\ (state' = "Error" \/ UNCHANGED state) /\ UNCHANGED outcome
           \/ pc' = "stopped" /\ outcome' = "TopicSizeError" /\ UNCHANGED state
    BY <1>12 DEF process_packet, Recover, Stop
  <2>2. Typed'
    BY <2>1 DEF Typed
  <2> QED
    BY <2>1, <2>2 DEF Typed, Located, Handshake, Online, ConnectFits
<1>13. CASE write_disconnect
  <2>1. pc = "disconnect" /\ ~has_remaining_len(send_buffer)
    BY <1>13 DEF write_disconnect
  <2>2. state = "Connected" /\ Size["connect"] <= BufferSize
    BY <2>1 DEF Located, Online, ConnectFits
  <2>3. Fits("disconnect")
    BY <2>1, <2>2, DisconnectFits DEF Fits
  <2>4. ~panicked' /\ pc' = "send_disconnect" /\ UNCHANGED <<state, chunk, pending, outcome>>
    BY <1>13, <2>2, <2>3 DEF write_disconnect, Asserted
  <2>5. Typed'
    BY <2>4 DEF Typed
  <2> QED
    BY <2>1, <2>2, <2>4, <2>5 DEF Typed, Located, Handshake, Online, ConnectFits
<1>14. CASE disconnected
  BY <1>14 DEF disconnected, Typed, Located, Handshake, Online, ConnectFits
<1>15. CASE network_error
  <2>1. /\ pc \in {"send_connect", "await_connack", "subscribe", "send_subscribe",
                   "await_suback", "nonblocking", "poll_read", "io", "disconnect", "send_disconnect"}
        /\ \/ outcome' = "ConnectionFailed2" /\ pc' = "stopped" /\ UNCHANGED state
           \/ state' = "Error" /\ pc' = "turn" /\ UNCHANGED outcome
        /\ UNCHANGED <<chunk, pending, panicked>>
    BY <1>15 DEF network_error, Recover, Stop
  <2>2. Typed'
    BY <2>1 DEF Typed
  <2> QED
    BY <2>1, <2>2 DEF Typed, Located, Handshake, Online, ConnectFits
<1>16. CASE Environment
  <2>1. UNCHANGED <<state, pc, chunk, outcome, panicked>>
    BY <1>16 DEF Environment, request, notify_disconnect, BrokerSend, BrokerClose, clientVars
  <2>2. UNCHANGED pending \/ \E p \in Requests : pending' = Append(pending, p)
    BY <1>16 DEF Environment, request, notify_disconnect, BrokerSend, BrokerClose, clientVars
  <2>3. pending' \in Seq(Requests)
    BY <2>2 DEF Typed
  <2>4. Typed'
    BY <2>1, <2>3 DEF Typed
  <2> QED
    BY <2>1, <2>4 DEF Located, ConnectFits
<1> QED
  BY <1>1, <1>2, <1>3, <1>4, <1>5, <1>6, <1>7, <1>8, <1>9, <1>10, <1>11, <1>12, <1>13, <1>14,
     <1>15, <1>16
     DEF Next, Loop, Connecting, Turn, Disconnecting

-----------------------------------------------------------------------------
(* The packet the loop holds                                                 *)

\* A read leaves the loop with a packet that is in the buffer in full, or with
\* none.
LEMMA ReadHeld ==
    ASSUME NEW next, NEW idle, AfterRead(recv_buffer', next, idle), mapped = 0,
           next \in Holding, idle \notin Holding
    PROVE  Held'
<1>1. PICK b : b = recv_buffer'
  OBVIOUS
<1>2. AfterRead(b, next, idle)
  BY <1>1
<1>3. \/ Decoded(b) = "packet" /\ mapped' = Size[reaable_data(b)[1][1]] /\ pc' = next
      \/ mapped' = 0 /\ pc' \in {idle, "turn", "stopped"}
  BY <1>2, ReadGoes DEF Recover, Stop
<1>4. Decoded(b) = "packet" => reaable_data(b) # <<>> /\ Size[reaable_data(b)[1][1]] <= Len(reaable_data(b))
  BY DecodedFacts
<1>5. Unread' = reaable_data(b) /\ FirstPacket' = reaable_data(b)[1][1]
  BY <1>1 DEF Unread, FirstPacket
<1>6. "turn" \notin Holding /\ "stopped" \notin Holding
  BY DEF Holding
<1> QED
  BY <1>3, <1>4, <1>5, <1>6 DEF Held

\* The loop holds a packet at three places, and nothing touches the buffer
\* there.
LEMMA NextHeld ==
    ASSUME [Next]_vars, Held
    PROVE  Held'
<1>1. CASE UNCHANGED <<pc, mapped, recv_buffer>>
  BY <1>1 DEF Held, Unread, FirstPacket
<1>2. CASE pc \notin Holding /\ pc' \notin Holding /\ UNCHANGED mapped
  BY <1>2 DEF Held
<1>3. CASE UNCHANGED vars \/ Environment
  <2>1. UNCHANGED <<pc, mapped, recv_buffer>>
    BY <1>3 DEF vars, Environment, request, notify_disconnect, BrokerSend, BrokerClose, clientVars
  <2> QED
    BY <1>1, <2>1
<1>4. CASE connect \/ send_connect
  <2>1. pc \notin Holding /\ pc' \notin Holding /\ UNCHANGED mapped
    BY <1>4 DEF connect, send_connect, Holding, Stop, Recover
  <2> QED
    BY <1>2, <2>1
<1>5. CASE read_packet("await_connack", "connack") \/ read_packet("await_suback", "suback")
  <2>1. pc \notin Holding
    BY <1>5 DEF read_packet, Holding
  <2>2. mapped = 0
    BY <2>1 DEF Held
  <2>3. \/ UNCHANGED <<pc, mapped>>
        \/ UNCHANGED recv_buffer /\ AfterRead(recv_buffer, "connack", "await_connack")
        \/ UNCHANGED recv_buffer /\ AfterRead(recv_buffer, "suback", "await_suback")
    BY <1>5 DEF read_packet
  <2>4. \/ UNCHANGED <<pc, mapped>>
        \/ AfterRead(recv_buffer', "connack", "await_connack")
        \/ AfterRead(recv_buffer', "suback", "await_suback")
    BY <2>3
  <2>5. {"connack", "suback"} \subseteq Holding /\ "await_connack" \notin Holding /\ "await_suback" \notin Holding
    BY DEF Holding
  <2>6. CASE UNCHANGED <<pc, mapped>>
    BY <1>2, <2>1, <2>6
  <2> QED
    BY <2>2, <2>4, <2>5, <2>6, ReadHeld
<1>6. CASE process_connack \/ process_suback \/ process_packet
  <2>1. mapped' = 0 /\ pc' \notin Holding
    BY <1>6 DEF process_connack, process_suback, process_packet, drop_packet, Holding, Stop, Recover
  <2> QED
    BY <2>1 DEF Held
<1>7. CASE subscribe_auto_subscribes
  <2>1. pc \notin Holding /\ pc' \notin Holding /\ UNCHANGED mapped
    BY <1>7 DEF subscribe_auto_subscribes, Holding, Stop
  <2> QED
    BY <1>2, <2>1
<1>8. CASE \/ send_all("send_subscribe", "await_suback")
           \/ send_all("disconnect", "disconnect")
           \/ send_all("send_disconnect", "send_disconnect")
  <2>1. pc \notin Holding /\ pc' \notin Holding /\ UNCHANGED mapped
    BY <1>8 DEF send_all, Holding
  <2> QED
    BY <1>2, <2>1
<1>9. CASE try_write_packet \/ sent_all \/ io_interrupted \/ nonblocking_send
  <2>1. pc \notin Holding /\ pc' \notin Holding /\ UNCHANGED mapped
    BY <1>9 DEF try_write_packet, sent_all, io_interrupted, nonblocking_send, Holding
  <2> QED
    BY <1>2, <2>1
<1>10. CASE nonblocking_read \/ io_write \/ io_read
  <2>1. pc \notin Holding
    BY <1>10 DEF nonblocking_read, io_write, io_read, Holding
  <2>2. mapped = 0
    BY <2>1 DEF Held
  <2>3. \/ UNCHANGED <<pc, mapped>>
        \/ AfterRead(recv_buffer', "process", "turn")
        \/ AfterRead(recv_buffer', "process", "io")
    BY <1>10 DEF nonblocking_read, io_write, io_read
  <2>4. "process" \in Holding /\ "turn" \notin Holding /\ "io" \notin Holding
    BY DEF Holding
  <2>5. CASE UNCHANGED <<pc, mapped>>
    BY <1>2, <2>1, <2>5
  <2> QED
    BY <2>2, <2>3, <2>4, <2>5, ReadHeld
<1>11. CASE write_disconnect \/ disconnected \/ network_error
  <2>1. pc \notin Holding /\ pc' \notin Holding /\ UNCHANGED mapped
    BY <1>11 DEF write_disconnect, disconnected, network_error, Holding, Stop, Recover
  <2> QED
    BY <1>2, <2>1
<1> QED
  BY <1>3, <1>4, <1>5, <1>6, <1>7, <1>8, <1>9, <1>10, <1>11
     DEF Next, Loop, Connecting, Turn, Disconnecting

-----------------------------------------------------------------------------
(* What the connection reports                                               *)

\* The broker's first packet on this connection accepted the CONNECT.
Greeted(h) == h # <<>> /\ h[1] = <<"connack_accepted", 1>>

\* DISCONNECT is the last packet.
EndsInDisconnect(a) == a # <<>> /\ a[Len(a)] = <<"disconnect", Size["disconnect"]>>

\* What has been acknowledged when the loop is at a place of the handshake.
Acknowledged ==
    /\ pc \in {"send_connect", "await_connack", "connack"} => handled = <<>>
    /\ pc \in {"subscribe", "send_subscribe", "await_suback", "suback"} =>
          Greeted(handled) /\ Packets({"suback_success"}, handled) >= chunk
    /\ pc = "send_disconnect" => EndsInDisconnect(accepted)

\* The number of packets is a number, and grows with every packet.
LEMMA PacketsFacts ==
    ASSUME NEW h \in Seq(Byte), NEW q
    PROVE  /\ Packets({q}, h) \in Nat
           /\ \A p \in FromBroker :
                 /\ Packets({q}, h \o Bytes(p)) \in Nat
                 /\ Packets({q}, h \o Bytes(p)) >= Packets({q}, h)
                 /\ p = q => Packets({q}, h \o Bytes(p)) >= Packets({q}, h) + 1
<1> DEFINE Ends(s) == {k \in 1 .. Len(s) : s[k] = <<q, Size[q]>>}
<1>1. \A s : Packets({q}, s) = Cardinality(Ends(s))
  BY DEF Packets
<1>2. ASSUME NEW s \in Seq(Byte) PROVE IsFiniteSet(Ends(s)) /\ Cardinality(Ends(s)) \in Nat
  <2>1. Len(s) \in Nat
    OBVIOUS
  <2>2. IsFiniteSet(1 .. Len(s))
    BY <2>1, FS_Interval
  <2>3. Ends(s) \subseteq 1 .. Len(s)
    OBVIOUS
  <2>4. IsFiniteSet(Ends(s))
    BY <2>2, <2>3, FS_Subset
  <2> QED
    BY <2>4, FS_CardinalityType
<1>3. ASSUME NEW p \in FromBroker
      PROVE  /\ Packets({q}, h \o Bytes(p)) \in Nat
             /\ Packets({q}, h \o Bytes(p)) >= Packets({q}, h)
             /\ p = q => Packets({q}, h \o Bytes(p)) >= Packets({q}, h) + 1
  <2> DEFINE b == Bytes(p)
             t == h \o b
             e == Len(h) + Len(b)
             A == Ends(h)
             B == Ends(t)
  <2>1. /\ Size[p] \in Nat /\ Size[p] > 0 /\ b \in Seq(Byte) /\ Len(b) = Size[p]
        /\ \A k \in 1 .. Size[p] : b[k] = <<p, k>>
    BY BytesFacts
  <2>2. Len(h) \in Nat /\ Len(b) \in Nat
    BY <2>1
  <2> HIDE DEF b
  <2>3. /\ t \in Seq(Byte) /\ Len(t) = Len(h) + Len(b)
        /\ \A k \in 1 .. Len(h) + Len(b) : t[k] = IF k <= Len(h) THEN h[k] ELSE b[k - Len(h)]
    BY <2>1, ConcatProperties
  <2> HIDE DEF t
  <2>4. Ends(h) \subseteq Ends(t)
    BY <2>2, <2>3
  <2>5. p = q => e \in Ends(t) /\ e \notin Ends(h)
    <3>1. e \in 1 .. Len(t) /\ ~(e <= Len(h)) /\ e - Len(h) = Size[p] /\ Size[p] \in 1 .. Size[p]
      BY <2>1, <2>2, <2>3
    <3>2. t[e] = <<p, Size[p]>>
      BY <2>1, <2>3, <3>1
    <3> QED
      BY <3>1, <3>2
  <2>6. /\ IsFiniteSet(A) /\ Cardinality(A) \in Nat
        /\ IsFiniteSet(B) /\ Cardinality(B) \in Nat
    BY <1>2, <2>3
  <2>7. A \subseteq B
    BY <2>4
  <2>8. p = q => e \in B /\ e \notin A
    BY <2>5
  <2> HIDE DEF A, B, e
  <2>9. Cardinality(A) <= Cardinality(B)
    BY <2>6, <2>7, FS_Subset
  <2>10. p = q => Cardinality(A) # Cardinality(B)
    BY <2>6, <2>7, <2>8, FS_Subset
  <2>11. Packets({q}, h) = Cardinality(A) /\ Packets({q}, t) = Cardinality(B)
    BY <1>1 DEF A, B
  <2>12. /\ Packets({q}, t) \in Nat
         /\ Packets({q}, t) >= Packets({q}, h)
         /\ p = q => Packets({q}, t) >= Packets({q}, h) + 1
    BY <2>6, <2>9, <2>10, <2>11
  <2> QED
    BY <2>12 DEF t, b
<1> QED
  BY <1>1, <1>2, <1>3

\* The first unread byte is of a packet the broker sent.
LEMMA FirstIsPacket ==
    ASSUME NEW b, NEW coming, NEW done, NEW all, Input(b, coming, done, all), reaable_data(b) # <<>>
    PROVE  reaable_data(b)[1][1] \in FromBroker
<1> DEFINE r == reaable_data(b)
           w == r \o coming
<1>1. r \in Seq(Byte) /\ coming \in Seq(Byte) /\ Whole(w) /\ r # <<>>
  BY DEF Input
<1> HIDE DEF r
<1>2. /\ w \in Seq(Byte) /\ Len(w) = Len(r) + Len(coming)
      /\ \A k \in 1 .. Len(r) + Len(coming) : w[k] = IF k <= Len(r) THEN r[k] ELSE coming[k - Len(r)]
  BY <1>1, ConcatProperties
<1> HIDE DEF w
<1>3. Len(r) \in Nat /\ Len(r) > 0 /\ Len(coming) \in Nat
  BY <1>1
<1>4. Len(w) > 0 /\ w[1] = r[1]
  BY <1>2, <1>3
<1>5. PICK q \in FromBroker : w[1] = <<q, 1>>
  BY <1>1, <1>2, <1>4, WholeFirst
<1> QED
  BY <1>4, <1>5 DEF r

\* A packet is added behind the ones that were handled: the first one and the
\* grants stay.
LEMMA HandledGrows ==
    ASSUME NEW h \in Seq(Byte), NEW p \in FromBroker
    PROVE  /\ h \o Bytes(p) \in Seq(Byte)
           /\ Greeted(h) => Greeted(h \o Bytes(p))
           /\ h = <<>> /\ p = "connack_accepted" => Greeted(h \o Bytes(p))
<1> DEFINE b == Bytes(p)
           t == h \o b
<1>1. /\ Size[p] \in Nat /\ Size[p] > 0 /\ b \in Seq(Byte) /\ Len(b) = Size[p]
      /\ \A k \in 1 .. Size[p] : b[k] = <<p, k>>
  BY BytesFacts
<1> HIDE DEF b
<1>2. /\ t \in Seq(Byte) /\ Len(t) = Len(h) + Len(b)
      /\ \A k \in 1 .. Len(h) + Len(b) : t[k] = IF k <= Len(h) THEN h[k] ELSE b[k - Len(h)]
  BY <1>1, ConcatProperties
<1> HIDE DEF t
<1>3. Len(h) \in Nat /\ Len(b) \in Nat /\ t # <<>>
  BY <1>1, <1>2
<1>4. Greeted(h) => Greeted(t)
  BY <1>2, <1>3 DEF Greeted
<1>5. h = <<>> => t[1] = <<p, 1>>
  BY <1>1, <1>2, <1>3
<1> QED
  BY <1>2, <1>3, <1>4, <1>5 DEF Greeted, t, b

\* The part of StateIsTrue that is about an established connection.
Granted(h) == Greeted(h) /\ Packets({"suback_success"}, h) >= Chunks

\* The last byte of what has been accepted after DISCONNECT.
LEMMA DisconnectIsLast ==
    ASSUME NEW a \in Seq(Byte)
    PROVE  EndsInDisconnect(a \o Bytes("disconnect"))
<1> DEFINE p == "disconnect"
           b == Bytes(p)
           t == a \o b
<1>1. /\ Size[p] \in Nat /\ Size[p] > 0 /\ b \in Seq(Byte) /\ Len(b) = Size[p]
      /\ \A k \in 1 .. Size[p] : b[k] = <<p, k>>
  BY BytesFacts DEF ToBroker
<1> HIDE DEF b, p
<1>2. /\ t \in Seq(Byte) /\ Len(t) = Len(a) + Len(b)
      /\ \A k \in 1 .. Len(a) + Len(b) : t[k] = IF k <= Len(a) THEN a[k] ELSE b[k - Len(a)]
  BY <1>1, ConcatProperties
<1> HIDE DEF t
<1>3. Len(a) \in Nat /\ Len(b) \in Nat /\ Len(t) > 0
  BY <1>1, <1>2
<1>4. Len(t) \in 1 .. Len(a) + Len(b) /\ ~(Len(t) <= Len(a)) /\ Len(t) - Len(a) = Size[p]
  BY <1>1, <1>2, <1>3
<1>5. t[Len(t)] = <<p, Size[p]>>
  <2>1. t[Len(t)] = b[Size[p]]
    BY <1>2, <1>4
  <2> QED
    BY <1>1, <2>1
<1> QED
  BY <1>2, <1>3, <1>5 DEF EndsInDisconnect, t, b, p

Reported ==
    /\ Acknowledged
    /\ state = "Connected" => Granted(handled)
    /\ state = "Disconnected" => to_broker = accepted /\ EndsInDisconnect(accepted)

ConnectionInv ==
    /\ Control /\ Held
    /\ Wire(send_buffer, to_broker, accepted)
    /\ Input(recv_buffer, to_client, handled, from_broker)
    /\ Reported /\ TooSmallIsTrue

\* Steps that change nothing that is reported.
LEMMA NothingNew ==
    ASSUME Reported, UNCHANGED <<handled, chunk>>,
           /\ pc' \in {"send_connect", "await_connack", "connack"} =>
                 pc \in {"send_connect", "await_connack", "connack"}
           /\ pc' \in {"subscribe", "send_subscribe", "await_suback", "suback"} =>
                 pc \in {"subscribe", "send_subscribe", "await_suback", "suback"}
           /\ pc' = "send_disconnect" => pc = "send_disconnect" /\ UNCHANGED accepted
           /\ state' = "Connected" => state = "Connected"
           /\ state' = "Disconnected" => state = "Disconnected" /\ UNCHANGED <<to_broker, accepted>>
    PROVE  Reported'
BY DEF Reported, Acknowledged

\* A packet of the handshake or of the session is handled.
LEMMA HandledReported ==
    ASSUME ConnectionInv, process_connack \/ process_suback \/ process_packet
    PROVE  Reported'
<1>1. PICK p : p = FirstPacket
  OBVIOUS
<1>2. pc \in Holding /\ handled' = handled \o Bytes(p)
  BY <1>1 DEF process_connack, process_suback, process_packet, drop_packet, Holding
<1>3. reaable_data(recv_buffer) # <<>> /\ p = reaable_data(recv_buffer)[1][1]
  BY <1>1, <1>2 DEF ConnectionInv, Held, Unread, FirstPacket
<1>4. p \in FromBroker
  BY <1>3, FirstIsPacket DEF ConnectionInv
<1>5. handled \in Seq(Byte)
  BY DEF ConnectionInv, Input
<1> DEFINE n == Packets({"suback_success"}, handled)
           m == Packets({"suback_success"}, handled')
<1>6. n \in Nat /\ m \in Nat /\ m >= n /\ (p = "suback_success" => m >= n + 1)
  BY <1>2, <1>4, <1>5, PacketsFacts
<1>7. /\ Greeted(handled) => Greeted(handled')
      /\ handled = <<>> /\ p = "connack_accepted" => Greeted(handled')
  BY <1>2, <1>4, <1>5, HandledGrows
<1>0. Chunks \in Nat /\ chunk \in Nat
  BY ConnectionAssumption DEF ConnectionInv, Control, Typed
<1>8. CASE process_connack
  <2>1. pc = "connack" /\ chunk' = 0 /\ handled = <<>> /\ state = "ConnectSent"
    BY <1>8 DEF process_connack, ConnectionInv, Reported, Acknowledged, Control, Located, Handshake
  <2>2. \/ p = "connack_accepted" /\ pc' = "subscribe" /\ UNCHANGED state
        \/ state' = "Error" /\ pc' \in {"stopped", "turn"}
    BY <1>1, <1>8 DEF process_connack, Recover
  <2> QED
    BY <1>6, <1>7, <2>1, <2>2 DEF Reported, Acknowledged
<1>9. CASE process_suback
  <2>1. pc = "suback" /\ state = "ConnectSent" /\ Greeted(handled) /\ n >= chunk
    BY <1>9 DEF process_suback, ConnectionInv, Reported, Acknowledged, Control, Located, Handshake
  <2>2. \/ p = "suback_success" /\ pc' = "subscribe" /\ chunk' = chunk + 1 /\ UNCHANGED state
        \/ pc' = "stopped" /\ UNCHANGED state
        \/ state' = "Error" /\ pc' = "turn"
    BY <1>1, <1>9 DEF process_suback, Recover, Stop
  <2>3. p = "suback_success" => m >= chunk + 1
    <3> HIDE DEF n, m
    <3> QED
      BY <1>0, <1>6, <2>1
  <2> QED
    BY <1>7, <2>1, <2>2, <2>3 DEF Reported, Acknowledged
<1>10. CASE process_packet
  <2>1. pc = "process" /\ state = "Connected" /\ Granted(handled)
    BY <1>10 DEF process_packet, ConnectionInv, Reported, Control, Located, Online
  <2>2. pc' \in {"turn", "stopped"} /\ state' \in {"Error", state}
    BY <1>10 DEF process_packet, Recover, Stop
  <2>3. n >= Chunks => m >= Chunks
    <3> HIDE DEF n, m
    <3> QED
      BY <1>0, <1>6
  <2>4. Granted(handled')
    BY <1>7, <2>1, <2>3 DEF Granted
  <2> QED
    BY <2>1, <2>2, <2>4 DEF Reported, Acknowledged
<1> QED
  BY <1>8, <1>9, <1>10

\* Every step keeps what is reported true.
LEMMA NextReported ==
    ASSUME [Next]_vars, ConnectionInv
    PROVE  Reported'
<1>0. Reported /\ Typed /\ Located
  BY DEF ConnectionInv, Control
<1>1. CASE UNCHANGED vars \/ Environment
  <2>1. UNCHANGED <<pc, state, handled, chunk, accepted, to_broker>>
    BY <1>1 DEF vars, Environment, request, notify_disconnect, BrokerSend, BrokerClose, clientVars
  <2> QED
    BY <1>0, <2>1, NothingNew
<1>2. CASE connect
  <2>1. pc = "turn" /\ state \in {"None", "Error"}
    BY <1>0, <1>2 DEF connect, Located
  <2>2. handled' = <<>> /\ pc' \in {"turn", "stopped", "send_connect"} /\ state' \in {state, "Error"}
    BY <1>2 DEF connect, Stop, Recover
  <2> QED
    BY <2>1, <2>2 DEF Reported, Acknowledged
<1>3. CASE send_connect
  <2>1. pc = "send_connect" /\ pc' = "await_connack" /\ state' = "ConnectSent" /\ UNCHANGED <<handled, chunk>>
    BY <1>3 DEF send_connect
  <2> QED
    BY <1>0, <2>1, NothingNew
<1>4. CASE read_packet("await_connack", "connack") \/ read_packet("await_suback", "suback")
  <2>1. UNCHANGED <<handled, chunk, accepted, to_broker>>
    BY <1>4 DEF read_packet
  <2>2. \/ UNCHANGED <<pc, state>>
        \/ pc = "await_connack" /\ AfterRead(recv_buffer, "connack", "await_connack")
        \/ pc = "await_suback" /\ AfterRead(recv_buffer, "suback", "await_suback")
    BY <1>4 DEF read_packet
  <2>3. /\ state' \in {state, "Error"}
        /\ \/ pc' \in {pc, "turn", "stopped"}
           \/ pc = "await_connack" /\ pc' = "connack"
           \/ pc = "await_suback" /\ pc' = "suback"
    BY <2>2, ReadGoes DEF Recover, Stop
  <2>4. /\ pc' \in {"send_connect", "await_connack", "connack"} =>
              pc \in {"send_connect", "await_connack", "connack"}
        /\ pc' \in {"subscribe", "send_subscribe", "await_suback", "suback"} =>
              pc \in {"subscribe", "send_subscribe", "await_suback", "suback"}
        /\ pc' = "send_disconnect" => pc = "send_disconnect"
    BY <2>3
  <2> QED
    BY <1>0, <2>1, <2>3, <2>4, NothingNew
<1>5. CASE process_connack \/ process_suback \/ process_packet
  BY <1>5, HandledReported
<1>6. CASE subscribe_auto_subscribes
  <2>1. pc = "subscribe" /\ state = "ConnectSent" /\ UNCHANGED <<handled, chunk>>
    BY <1>0, <1>6 DEF subscribe_auto_subscribes, Located, Handshake
  <2>2. \/ chunk = Chunks /\ state' = "Connected" /\ pc' = "turn"
        \/ pc' \in {"send_subscribe", "stopped", pc} /\ UNCHANGED state
    BY <1>6 DEF subscribe_auto_subscribes, Stop
  <2>3. CASE chunk = Chunks /\ state' = "Connected" /\ pc' = "turn"
    <3>1. Granted(handled)
      BY <1>0, <2>1, <2>3 DEF Reported, Acknowledged, Granted
    <3> QED
      BY <2>1, <2>3, <3>1 DEF Reported, Acknowledged
  <2>4. CASE pc' \in {"send_subscribe", "stopped", pc} /\ UNCHANGED state
    BY <1>0, <2>1, <2>4, NothingNew
  <2> QED
    BY <2>2, <2>3, <2>4
<1>7. CASE \/ send_all("send_subscribe", "await_suback")
           \/ send_all("disconnect", "disconnect")
           \/ send_all("send_disconnect", "send_disconnect")
  <2>1. /\ UNCHANGED <<state, handled, chunk, accepted>>
        /\ pc \in {"send_subscribe", "disconnect", "send_disconnect"}
        /\ \/ UNCHANGED pc
           \/ pc = "send_subscribe" /\ pc' = "await_suback"
    BY <1>7 DEF send_all
  <2>2. state \in {"ConnectSent", "Connected"}
    BY <1>0, <2>1 DEF Located, Handshake, Online
  <2> QED
    BY <1>0, <2>1, <2>2, NothingNew
<1>8. CASE try_write_packet \/ sent_all \/ io_interrupted \/ nonblocking_send
  <2>1. /\ UNCHANGED <<state, handled, chunk>>
        /\ pc \in {"turn", "io", "nonblocking"}
        /\ pc' \in {"turn", "nonblocking", "io", "disconnect", "poll_read"}
    BY <1>8 DEF try_write_packet, sent_all, io_interrupted, nonblocking_send
  <2>2. state # "Disconnected"
    BY <1>0, <2>1 DEF Located, Online
  <2> QED
    BY <1>0, <2>1, <2>2, NothingNew
<1>9. CASE nonblocking_read \/ io_write \/ io_read
  <2>1. UNCHANGED <<handled, chunk>> /\ pc \in {"poll_read", "io"} /\ state = "Connected"
    BY <1>0, <1>9 DEF nonblocking_read, io_write, io_read, Located, Online
  <2>2. PICK b : b = recv_buffer'
    OBVIOUS
  <2>3. \/ UNCHANGED <<pc, state>>
        \/ AfterRead(b, "process", "turn") \/ AfterRead(b, "process", "io")
    BY <1>9, <2>2 DEF nonblocking_read, io_write, io_read
  <2>4. pc' \in {pc, "process", "turn", "io", "stopped"} /\ state' \in {state, "Error"}
    BY <2>3, ReadGoes DEF Recover, Stop
  <2> QED
    BY <1>0, <2>1, <2>4, NothingNew
<1>10. CASE write_disconnect
  <2>1. pc = "disconnect" /\ UNCHANGED <<state, handled, chunk>>
        /\ \/ pc' = "send_disconnect" /\ accepted' = accepted \o Bytes("disconnect")
           \/ pc' = "stopped"
    BY <1>10 DEF write_disconnect, Stop
  <2>2. state = "Connected"
    BY <1>0, <2>1 DEF Located, Online
  <2>3. CASE pc' = "send_disconnect" /\ accepted' = accepted \o Bytes("disconnect")
    <3>1. EndsInDisconnect(accepted')
      BY <2>3, DisconnectIsLast DEF ConnectionInv, Wire
    <3> QED
      BY <1>0, <2>1, <2>2, <2>3, <3>1 DEF Reported, Acknowledged
  <2>4. CASE pc' = "stopped"
    BY <1>0, <2>1, <2>2, <2>4, NothingNew
  <2> QED
    BY <2>1, <2>3, <2>4
<1>11. CASE disconnected
  <2>1. /\ pc = "send_disconnect" /\ pc' = "stopped" /\ state' = "Disconnected"
        /\ UNCHANGED <<to_broker, accepted>> /\ ~has_remaining_len(send_buffer)
    BY <1>11 DEF disconnected
  <2>2. /\ send_buffer \in Buffers(Byte) /\ to_broker \in Seq(Byte)
        /\ to_broker \o reaable_data(send_buffer) = accepted
    BY DEF ConnectionInv, Wire
  <2>3. send_buffer.read \in Nat /\ send_buffer.write \in Nat
    BY <2>2, BufferFacts
  <2>4. reaable_data(send_buffer) = <<>>
    BY <2>1, <2>3, SubSeqEmpty DEF reaable_data, has_remaining_len
  <2>5. to_broker = accepted
    BY <2>2, <2>4, ConcatEmptySeq
  <2>6. EndsInDisconnect(accepted)
    BY <1>0, <2>1 DEF Reported, Acknowledged
  <2> QED
    BY <2>1, <2>5, <2>6 DEF Reported, Acknowledged
<1>12. CASE network_error
  <2>1. /\ UNCHANGED <<handled, chunk, accepted, to_broker>>
        /\ pc' \in {"stopped", "turn"} /\ state' \in {state, "Error"}
    BY <1>12 DEF network_error, Stop, Recover
  <2> QED
    BY <1>0, <2>1, NothingNew
<1> QED
  BY <1>1, <1>2, <1>3, <1>4, <1>5, <1>6, <1>7, <1>8, <1>9, <1>10, <1>11, <1>12
     DEF Next, Loop, Connecting, Turn, Disconnecting

-----------------------------------------------------------------------------
(* BufferTooSmall                                                            *)

\* It is concluded from a buffer that is full of the bytes of one packet.
LEMMA TooSmallRead ==
    ASSUME NEW b, NEW coming, NEW done, NEW all, Input(b, coming, done, all),
           Decoded(b) = "BufferTooSmall"
    PROVE  has_remaining_len(b) /\ Size[reaable_data(b)[1][1]] > BufferSize
<1> DEFINE r == reaable_data(b)
           p == r[1][1]
<1>1. b.read = 0 /\ b.write = BufferSize /\ (r # <<>> => ~(Size[p] <= Len(r)))
  BY DecodedFacts DEF is_max_len
<1>2. b \in Buffers(Byte) /\ r \in Seq(Byte)
  BY DEF Input
<1>3. BufferSize \in Nat /\ BufferSize > 0 /\ Len(r) = BufferSize
  <2>1. BufferSize \in Nat /\ BufferSize > 0
    BY BufferAssumption
  <2>2. Len(r) = b.write - b.read
    BY <1>2, UnreadFacts
  <2> HIDE DEF r
  <2> QED
    BY <1>1, <2>1, <2>2
<1>4. r # <<>>
  BY <1>2, <1>3
<1>5. p \in FromBroker
  BY <1>4, FirstIsPacket
<1>6. Size[p] \in Nat
  BY <1>5, BytesFacts
<1> HIDE DEF r, p
<1>7. Size[p] > BufferSize
  BY <1>1, <1>3, <1>4, <1>6
<1> QED
  BY <1>1, <1>3, <1>7 DEF has_remaining_len, r, p

\* A packet that the whole buffer cannot take is larger than it.
LEMMA TooSmallIsLarge ==
    ASSUME NEW p \in ToBroker, TooSmall(p)
    PROVE  Size[p] > BufferSize
<1> DEFINE b == flip(send_buffer)
<1>1. ~(Size[p] <= Room(b)) /\ is_max_capacity(b)
  BY DEF TooSmall, Fits
<1>2. Room(b) = BufferSize /\ BufferSize \in Nat
  BY <1>1, BufferAssumption DEF Room, is_max_capacity
<1>3. Size[p] \in Nat
  BY ConnectionAssumption
<1> QED
  BY <1>1, <1>2, <1>3

\* Every step that stops with BufferTooSmall has met a packet that does not fit.
LEMMA NextTooSmall ==
    ASSUME [Next]_vars, ConnectionInv, Input(recv_buffer, to_client, handled, from_broker)'
    PROVE  TooSmallIsTrue'
<1>0. Located /\ TooSmallIsTrue
  BY DEF ConnectionInv, Control
<1>1. CASE UNCHANGED <<outcome, recv_buffer>>
  BY <1>0, <1>1 DEF TooSmallIsTrue, has_remaining_len, FirstPacket
<1>2. CASE outcome' # "BufferTooSmall"
  BY <1>2 DEF TooSmallIsTrue
<1>3. CASE pc # "stopped" /\ UNCHANGED outcome
  <2>1. outcome' # "BufferTooSmall"
    BY <1>0, <1>3 DEF Located
  <2> QED
    BY <1>2, <2>1
<1>4. ASSUME pc # "stopped", NEW n, NEW i, AfterRead(recv_buffer', n, i)
      PROVE  TooSmallIsTrue'
  <2>1. PICK b : b = recv_buffer'
    OBVIOUS
  <2>2. AfterRead(b, n, i)
    BY <1>4, <2>1
  <2>3. UNCHANGED outcome \/ Decoded(b) = "BufferTooSmall"
    BY <2>2, ReadGoes DEF Recover
  <2>4. PICK coming, done, all : Input(b, coming, done, all)
    BY <2>1
  <2>5. CASE Decoded(b) = "BufferTooSmall"
    <3>1. has_remaining_len(b) /\ Size[reaable_data(b)[1][1]] > BufferSize
      BY <2>4, <2>5, TooSmallRead
    <3> QED
      BY <2>1, <3>1 DEF TooSmallIsTrue, has_remaining_len, FirstPacket
  <2> QED
    BY <1>3, <1>4, <2>3, <2>5
<1>5. CASE UNCHANGED vars \/ Environment
  <2>1. UNCHANGED <<outcome, recv_buffer>>
    BY <1>5 DEF vars, Environment, request, notify_disconnect, BrokerSend, BrokerClose, clientVars
  <2> QED
    BY <1>1, <2>1
<1>6. CASE connect
  <2>1. pc # "stopped" /\ (UNCHANGED outcome \/ outcome' = "DnsFailed" \/ Size["connect"] > BufferSize)
    BY <1>6 DEF connect, Stop, Recover
  <2>2. CASE Size["connect"] > BufferSize
    BY <2>2 DEF TooSmallIsTrue
  <2> QED
    BY <1>2, <1>3, <2>1, <2>2
<1>7. CASE subscribe_auto_subscribes
  <2>1. /\ pc # "stopped"
        /\ UNCHANGED outcome \/ outcome' = "TopicSizeError" \/ TooSmall("subscribe")
    BY <1>7 DEF subscribe_auto_subscribes, Stop
  <2>2. CASE TooSmall("subscribe")
    <3>1. "subscribe" \in ToBroker
      BY DEF ToBroker
    <3>2. Size["subscribe"] > BufferSize
      BY <2>2, <3>1, TooSmallIsLarge
    <3> QED
      BY <3>2 DEF TooSmallIsTrue
  <2> QED
    BY <1>2, <1>3, <2>1, <2>2
<1>8. CASE read_packet("await_connack", "connack") \/ read_packet("await_suback", "suback")
  <2>1. /\ pc # "stopped"
        /\ \/ UNCHANGED outcome
           \/ UNCHANGED recv_buffer /\ \E n, i : AfterRead(recv_buffer, n, i)
    BY <1>8 DEF read_packet
  <2>2. UNCHANGED outcome \/ \E n, i : AfterRead(recv_buffer', n, i)
    BY <2>1
  <2> QED
    BY <1>3, <1>4, <2>1, <2>2
<1>9. CASE nonblocking_read \/ io_write \/ io_read
  <2>1. pc # "stopped" /\ (UNCHANGED outcome \/ \E n, i : AfterRead(recv_buffer', n, i))
    BY <1>9 DEF nonblocking_read, io_write, io_read
  <2> QED
    BY <1>3, <1>4, <2>1
<1>10. CASE \/ send_connect \/ process_connack \/ process_suback \/ process_packet
            \/ disconnected \/ network_error
  <2>1. \/ outcome' \in {"disconnected", "AuthenticationError", "SubscribeOrUnsubscribeFailed",
                         "ConnectionFailed2", "TopicSizeError"}
        \/ pc # "stopped" /\ UNCHANGED outcome
    BY <1>10 DEF send_connect, process_connack, process_suback, process_packet, disconnected,
                 network_error, Stop, Recover
  <2> QED
    BY <1>2, <1>3, <2>1
<1>11. CASE \/ \E n : send_all("send_subscribe", n) \/ send_all("disconnect", n) \/ send_all("send_disconnect", n)
            \/ try_write_packet \/ sent_all \/ io_interrupted \/ nonblocking_send
  <2>1. pc # "stopped" /\ UNCHANGED outcome
    BY <1>11 DEF send_all, try_write_packet, sent_all, io_interrupted, nonblocking_send
  <2> QED
    BY <1>3, <2>1
<1>12. CASE write_disconnect
  <2>1. pc # "stopped" /\ (UNCHANGED outcome \/ ~Fits("disconnect"))
    BY <1>12 DEF write_disconnect
  <2>2. Fits("disconnect")
    BY <1>12, DisconnectFits DEF write_disconnect, Fits, ConnectionInv, Control, ConnectFits, Wire
  <2> QED
    BY <1>3, <2>1, <2>2
<1> QED
  BY <1>5, <1>6, <1>7, <1>8, <1>9, <1>10, <1>11, <1>12
     DEF Next, Loop, Connecting, Turn, Disconnecting

-----------------------------------------------------------------------------
(* The theorems                                                              *)

\* The invariant holds at first.
LEMMA InitConnection == Init => ConnectionInv
<1> SUFFICES ASSUME Init PROVE ConnectionInv
  OBVIOUS
<1>1. Control
  BY ConnectionAssumption DEF Init, Control, Typed, Located, Handshake, Online, ConnectFits, NoPanic
<1>2. Held
  BY DEF Init, Held, Holding
<1>3. Wire(send_buffer, to_broker, accepted)
  BY WireReset DEF Init
<1>4. Input(recv_buffer, to_client, handled, from_broker)
  BY InputReset DEF Init
<1>5. Reported
  BY DEF Init, Reported, Acknowledged
<1>6. TooSmallIsTrue
  BY DEF Init, TooSmallIsTrue
<1> QED
  BY <1>1, <1>2, <1>3, <1>4, <1>5, <1>6 DEF ConnectionInv

\* Every step keeps the invariant.
LEMMA NextConnection == ConnectionInv /\ [Next]_vars => ConnectionInv'
<1> SUFFICES ASSUME ConnectionInv, [Next]_vars PROVE ConnectionInv'
  OBVIOUS
<1>1. /\ Control /\ Held /\ Wire(send_buffer, to_broker, accepted)
      /\ Input(recv_buffer, to_client, handled, from_broker)
  BY DEF ConnectionInv
<1>2. send_buffer \in Buffers(Byte) /\ pending \in Seq(Requests) /\ Located /\ ConnectFits
  BY <1>1 DEF Wire, Control, Typed
<1>3. Control'
  BY <1>1, <1>2, NextControl
<1>4. Held'
  BY <1>1, NextHeld
<1>5. Wire(send_buffer, to_broker, accepted)'
  BY <1>1, <1>2, NextSends, SendStepKeeps
<1>6. Input(recv_buffer, to_client, handled, from_broker)'
  BY <1>1, NextReceives, ReceiveStepKeeps
<1>7. Reported'
  BY NextReported
<1>8. TooSmallIsTrue'
  BY <1>6, NextTooSmall
<1> QED
  BY <1>3, <1>4, <1>5, <1>6, <1>7, <1>8 DEF ConnectionInv

\* The invariant that the properties of the connection follow from.
THEOREM ConnectionInvHolds == Spec => []ConnectionInv
BY InitConnection, NextConnection, PTL DEF Spec

\* Everything the connection keeps has its type: the positions stay in the
\* arrays, and a packet that is held is within the unread bytes.
THEOREM ConnectionTyped == Spec => []TypeOK
<1>1. ConnectionInv => TypeOK
  <2> SUFFICES ASSUME ConnectionInv PROVE TypeOK
    OBVIOUS
  <2>1. Typed /\ Held
    BY DEF ConnectionInv, Control
  <2>2. /\ send_buffer \in Buffers(Byte) /\ to_broker \in Seq(Byte)
        /\ recv_buffer \in Buffers(Byte) /\ to_client \in Seq(Byte)
    BY DEF ConnectionInv, Wire, Input
  <2>3. /\ recv_buffer.write \in Nat /\ recv_buffer.read \in Nat /\ recv_buffer.read <= recv_buffer.write
        /\ Len(Unread) = recv_buffer.write - recv_buffer.read
    BY <2>2, BufferFacts, UnreadFacts DEF Unread
  <2>4. mapped \in 0 .. recv_buffer.write - recv_buffer.read
    <3>1. CASE pc \notin Holding
      BY <2>1, <2>3, <3>1 DEF Held
    <3>2. CASE pc \in Holding
      <4>1. Unread # <<>> /\ mapped = Size[FirstPacket] /\ Size[FirstPacket] <= Len(Unread)
        BY <2>1, <3>2 DEF Held
      <4>2. FirstPacket \in FromBroker
        BY <4>1, FirstIsPacket DEF ConnectionInv, Unread, FirstPacket
      <4>3. Size[FirstPacket] \in Nat
        BY <4>2, BytesFacts
      <4> QED
        BY <2>3, <4>1, <4>3
    <3> QED
      BY <3>1, <3>2
  <2> QED
    BY <2>1, <2>2, <2>4 DEF TypeOK, Typed
<1> QED
  BY <1>1, ConnectionInvHolds, PTL

\* Nothing is torn, lost or repeated on the way out: the socket took, and the
\* buffer still has, exactly the bytes of the packets that were accepted.
THEOREM WireIntactHolds == Spec => []WireIntact
<1>1. ConnectionInv => WireIntact
  BY DEF ConnectionInv, Wire, WireIntact
<1> QED
  BY <1>1, ConnectionInvHolds, PTL

\* Nor on the way in: the packets handled, the buffer and what is under way are
\* exactly what the broker sent.
THEOREM ReceivedInOrderHolds == Spec => []ReceivedInOrder
<1>1. ConnectionInv => ReceivedInOrder
  BY DEF ConnectionInv, Input, ReceivedInOrder
<1> QED
  BY <1>1, ConnectionInvHolds, PTL

\* Connected means accepted and granted by the broker, Disconnected that
\* DISCONNECT was written last and in full.
THEOREM StateIsTrueHolds == Spec => []StateIsTrue
<1>1. ConnectionInv => StateIsTrue
  BY DEF ConnectionInv, Reported, Granted, Greeted, EndsInDisconnect, StateIsTrue
<1> QED
  BY <1>1, ConnectionInvHolds, PTL

\* No assertion of connect(), run_io() or disconnect() fails, and no buffer is
\* borrowed twice.
THEOREM NoPanicHolds == Spec => []NoPanic
<1>1. ConnectionInv => NoPanic
  BY DEF ConnectionInv, Control
<1> QED
  BY <1>1, ConnectionInvHolds, PTL

\* BufferTooSmall is said only of a packet larger than the buffer.
THEOREM TooSmallIsTrueHolds == Spec => []TooSmallIsTrue
<1>1. ConnectionInv => TooSmallIsTrue
  BY DEF ConnectionInv
<1> QED
  BY <1>1, ConnectionInvHolds, PTL

=============================================================================
