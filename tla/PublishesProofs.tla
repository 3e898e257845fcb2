--------------------------- MODULE PublishesProofs ---------------------------
(***************************************************************************)
(* For every number of messages, queue capacity, pool size and send        *)
(* buffer, and whatever acknowledgements arrive (Spec of Publishes):       *)
(*   - no queue is longer than its array (push_unchecked is safe),         *)
(*   - a message is in one queue at a time and PublishDone comes once,     *)
(*   - no two messages in flight share a packet id,                        *)
(*   - the queues use the packet-id pool as PidUsers prescribes,           *)
(*   - the DUP flag marks exactly the retransmissions,                     *)
(*   - the queues keep the order of the publish() calls.                   *)
(*                                                                         *)
(* The inductive invariant PubInv has a part per queue (Sound), one for    *)
(* the history of the messages (Staged), one for the packet ids (that of   *)
(* PidUsersProofs, with pid_of for held) and the types of the rest; DupInv *)
(* and OrderInv, which adds what the loop in progress has passed over, are *)
(* inductive relative to it.                                               *)
(*                                                                         *)
(* With the network and the broker of PublishFlow (FlowSpec):              *)
(*   - QoS 2 is exactly once,                                              *)
(*   - with a prompt broker PublishDone means that the broker has the      *)
(*     message, no acknowledgement panics the event loop, and the client   *)
(*     gives up no connection by itself unless one was lost before.        *)
(*                                                                         *)
(* All of this speaks of one sequence, TheLine: what is on the way back,   *)
(* what is on the way to the broker, what is in the send buffer.  A step   *)
(* appends to it, takes its head, replaces an item by its answer or loses  *)
(* items (Thins), and OnceInv, PromptInv and Lossless relate it to the     *)
(* queues, the broker and, by packet id, to the stages of the messages.    *)
(***************************************************************************)
EXTENDS PublishFlow, HeaplessVecProofs

Pool == INSTANCE PidUsersProofs WITH
    Users <- Msgs,
    MaxAbandon <- 0,
    held <- pid_of,
    abandoned <- {},
    panicked <- FALSE

\* A queue of entries from S is sound for stage st when it fits its array, has
\* no message twice, has exactly the messages in that stage, and the packet id
\* of each entry is the one its message holds.
Sound(q, S, st, stg, pids) ==
    /\ q \in Seq(S)
    /\ Len(q) <= Queue
    /\ \A k, l \in 1 .. Len(q) : q[k].uid = q[l].uid /\ q[k].uid # NoMsg => k = l
    /\ \A k \in 1 .. Len(q) :
          q[k].uid # NoMsg => stg[q[k].uid] = st /\ q[k].pid = pids[q[k].uid]
    /\ \A m \in Msgs : stg[m] = st => \E k \in 1 .. Len(q) : q[k].uid = m

QueuesSound ==
    /\ Sound(send_publish, OwnedPublish, "send_publish", stage, pid_of)
    /\ Sound(await_puback, AwaitAck, "await_puback", stage, pid_of)
    /\ Sound(await_pubrec, AwaitAck, "await_pubrec", stage, pid_of)
    /\ Sound(send_pubrel, SendPubrel, "send_pubrel", stage, pid_of)
    /\ Sound(await_pubcomp, AwaitPubcomp, "await_pubcomp", stage, pid_of)

\* PublishDone was published exactly for the messages that are done; a stage of
\* a handshake is only reached by messages of its QoS; a message of QoS 1 or 2
\* holds a packet id exactly while it is neither new nor done.
Staged ==
    \A m \in Msgs :
        /\ done[m] = IF stage[m] = "done" THEN 1 ELSE 0
        /\ stage[m] = "await_puback" => Qos[m] = 1
        /\ stage[m] \in {"await_pubrec", "send_pubrel", "await_pubcomp", "dropped"}
              => Qos[m] = 2
        /\ pid_of[m] # NoPid <=> Qos[m] > 0 /\ stage[m] \notin {"new", "done"}

\* The types of what is not a queue of Publishes.
RestTyped ==
    /\ pc \in Phases
    /\ i \in Nat \ {0}
    /\ send_buffer \in Seq(Packets)
    /\ stage \in [Msgs -> Stages]
    /\ done \in [Msgs -> Nat]
    /\ accepted \in Seq(Msgs)
    /\ recd \in Seq(Msgs)
    /\ sent \in SUBSET Msgs

Flags == connected \in BOOLEAN /\ panicked \in BOOLEAN

PubInv == RestTyped /\ QueuesSound /\ Staged /\ Pool!PidInv

-----------------------------------------------------------------------------
(* Queues                                                                    *)

Entries(S) == \A e \in S : e.uid \in Msgs \cup {NoMsg}

\* The four kinds of entries name a message, or none.
LEMMA EntryKinds ==
    /\ Entries(OwnedPublish) /\ Entries(AwaitAck)
    /\ Entries(SendPubrel) /\ Entries(AwaitPubcomp)
BY DEF Entries, OwnedPublish, AwaitAck, SendPubrel, AwaitPubcomp

\* f and g differ at most at m.
SameBut(m, f, g) == \A n \in Msgs \ {m} : g[n] = f[n]

\* A queue that a step leaves alone stays sound if the message the step moves
\* is neither before nor afterwards in its stage.
LEMMA FrameSound ==
    ASSUME NEW S, Entries(S), NEW q, NEW st, NEW stg, NEW stg2, NEW pids, NEW pids2,
           NEW m \in Msgs,
           Sound(q, S, st, stg, pids),
           SameBut(m, stg, stg2), SameBut(m, pids, pids2),
           stg[m] # st, stg2[m] # st
    PROVE  Sound(q, S, st, stg2, pids2)
<1>1. \A k \in 1 .. Len(q) : q[k].uid \in Msgs \cup {NoMsg} /\ q[k].uid # m
  BY PublishesAssumption DEF Sound, Entries
<1> QED BY <1>1 DEF Sound, SameBut

\* A message moves into the queue.
LEMMA PushSound ==
    ASSUME NEW S, Entries(S), NEW q, NEW e \in S, NEW st, NEW stg, NEW stg2, NEW pids,
           Sound(q, S, st, stg, pids),
           e.uid \in Msgs, e.pid = pids[e.uid],
           ~IsFull(q),
           SameBut(e.uid, stg, stg2),
           stg[e.uid] # st, stg2[e.uid] = st
    PROVE  Sound(Append(q, e), S, st, stg2, pids)
<1> DEFINE r == Append(q, e)
<1>1. /\ r \in Seq(S) /\ Len(q) \in Nat /\ Len(r) = Len(q) + 1
      /\ \A j \in 1 .. Len(q) : r[j] = q[j]
      /\ r[Len(q) + 1] = e
  BY PushFacts DEF Sound
<1>2. \A k \in 1 .. Len(q) : q[k].uid \in Msgs \cup {NoMsg} /\ q[k].uid # e.uid
  BY PublishesAssumption DEF Sound, Entries
<1> HIDE DEF r
<1>3. Len(r) <= Queue
  BY <1>1, PublishesAssumption DEF IsFull
<1>4. \A k, l \in 1 .. Len(r) : r[k].uid = r[l].uid /\ r[k].uid # NoMsg => k = l
  BY <1>1, <1>2 DEF Sound
<1>5. \A k \in 1 .. Len(r) :
          r[k].uid # NoMsg => stg2[r[k].uid] = st /\ r[k].pid = pids[r[k].uid]
  BY <1>1, <1>2 DEF Sound, SameBut
<1>6. ASSUME NEW n \in Msgs, stg2[n] = st PROVE \E k \in 1 .. Len(r) : r[k].uid = n
  <2>1. CASE n = e.uid
    BY <1>1, <2>1
  <2>2. CASE n # e.uid
    <3>1. PICK k \in 1 .. Len(q) : q[k].uid = n
      BY <1>6, <2>2 DEF Sound, SameBut
    <3>2. k \in 1 .. Len(r) /\ r[k].uid = n
      BY <1>1, <3>1
    <3> QED BY <3>2
  <2> QED BY <2>1, <2>2
<1>7. Sound(r, S, st, stg2, pids)
  BY <1>1, <1>3, <1>4, <1>5, <1>6 DEF Sound
<1> QED BY <1>7 DEF r

\* A message moves out of the queue, and may lose its packet id.
LEMMA PopSound ==
    ASSUME NEW S, Entries(S), NEW q, NEW st, NEW stg, NEW stg2, NEW pids, NEW pids2,
           NEW k \in 1 .. Len(q),
           Sound(q, S, st, stg, pids),
           q[k].uid \in Msgs,
           SameBut(q[k].uid, stg, stg2), SameBut(q[k].uid, pids, pids2),
           stg2[q[k].uid] # st
    PROVE  Sound(Remove(q, k), S, st, stg2, pids2)
<1> DEFINE r == Remove(q, k)
<1>0. q \in Seq(S)
  BY DEF Sound
<1>1. /\ r \in Seq(S) /\ Len(q) \in Nat /\ Len(r) = Len(q) - 1
      /\ \A j \in 1 .. Len(q) - 1 : r[j] = IF j < k THEN q[j] ELSE q[j + 1]
  BY <1>0, RemoveFacts
<1>2b. \A j \in 1 .. Len(q) : q[j] \in S
  BY <1>0
<1>2a. \A j \in 1 .. Len(q) : q[j].uid \in Msgs \cup {NoMsg}
  BY <1>2b DEF Entries
<1>2. \A j \in 1 .. Len(q) : q[j].uid = q[k].uid => j = k
  BY PublishesAssumption DEF Sound
<1> HIDE DEF r
<1> DEFINE at(j) == IF j < k THEN j ELSE j + 1
<1>3. \A j \in 1 .. Len(r) : at(j) \in 1 .. Len(q) /\ at(j) # k /\ r[j] = q[at(j)]
  BY <1>1
<1>9. \A j, l \in 1 .. Len(r) : at(j) = at(l) => j = l
  BY <1>1
<1> HIDE DEF at
<1>4. Len(r) <= Queue
  BY <1>1, PublishesAssumption DEF Sound
<1>5. \A j, l \in 1 .. Len(r) : r[j].uid = r[l].uid /\ r[j].uid # NoMsg => j = l
  BY <1>3, <1>9 DEF Sound
<1>6. \A j \in 1 .. Len(r) :
          r[j].uid # NoMsg => stg2[r[j].uid] = st /\ r[j].pid = pids2[r[j].uid]
  <2> SUFFICES ASSUME NEW j \in 1 .. Len(r), r[j].uid # NoMsg
               PROVE  stg2[r[j].uid] = st /\ r[j].pid = pids2[r[j].uid]
    OBVIOUS
  <2>1. at(j) \in 1 .. Len(q) /\ r[j] = q[at(j)] /\ q[at(j)].uid # q[k].uid
    BY <1>2, <1>3
  <2>2. r[j].uid \in Msgs \ {q[k].uid}
    BY <1>2a, <2>1
  <2>3. stg[r[j].uid] = st /\ r[j].pid = pids[r[j].uid]
    BY <2>1 DEF Sound
  <2> QED
    BY <2>2, <2>3 DEF SameBut
<1>7. ASSUME NEW n \in Msgs, stg2[n] = st PROVE \E j \in 1 .. Len(r) : r[j].uid = n
  <2>1. n # q[k].uid /\ stg[n] = st
    BY <1>7 DEF SameBut
  <2>2. PICK l \in 1 .. Len(q) : q[l].uid = n
    BY <2>1 DEF Sound
  <2>3. l # k
    BY <2>1, <2>2
  <2>4. CASE l < k
    BY <1>1, <2>2, <2>4
  <2>5. CASE l > k
    <3>1. l - 1 \in 1 .. Len(r) /\ r[l - 1] = q[l]
      BY <1>1, <2>5
    <3> QED BY <2>2, <3>1
  <2> QED BY <1>1, <2>3, <2>4, <2>5
<1>8. Sound(r, S, st, stg2, pids2)
  BY <1>1, <1>4, <1>5, <1>6, <1>7 DEF Sound
<1> QED BY <1>8 DEF r

\* An anonymous entry comes in.
LEMMA PushAnonymous ==
    ASSUME NEW S, Entries(S), NEW q, NEW e \in S, NEW st, NEW stg, NEW pids,
           Sound(q, S, st, stg, pids), e.uid = NoMsg, ~IsFull(q)
    PROVE  Sound(Append(q, e), S, st, stg, pids)
<1> DEFINE r == Append(q, e)
<1>1. /\ r \in Seq(S) /\ Len(q) \in Nat /\ Len(r) = Len(q) + 1
      /\ \A j \in 1 .. Len(q) : r[j] = q[j]
      /\ r[Len(q) + 1] = e
  BY PushFacts DEF Sound
<1> HIDE DEF r
<1>2. Len(r) <= Queue
  BY <1>1, PublishesAssumption DEF IsFull
<1>3. \A m \in Msgs : stg[m] = st => \E k \in 1 .. Len(r) : r[k].uid = m
  BY <1>1 DEF Sound
<1>4. Sound(r, S, st, stg, pids)
  BY <1>1, <1>2, <1>3 DEF Sound
<1> QED BY <1>4 DEF r

\* An anonymous entry goes out.
LEMMA PopAnonymous ==
    ASSUME NEW S, Entries(S), NEW q, NEW st, NEW stg, NEW pids, NEW k \in 1 .. Len(q),
           Sound(q, S, st, stg, pids), q[k].uid = NoMsg
    PROVE  Sound(Remove(q, k), S, st, stg, pids)
<1> DEFINE r == Remove(q, k)
<1>0. q \in Seq(S)
  BY DEF Sound
<1>1. /\ r \in Seq(S) /\ Len(q) \in Nat /\ Len(r) = Len(q) - 1
      /\ \A j \in 1 .. Len(q) - 1 : r[j] = IF j < k THEN q[j] ELSE q[j + 1]
  BY <1>0, RemoveFacts
<1> HIDE DEF r
<1> DEFINE at(j) == IF j < k THEN j ELSE j + 1
<1>3. \A j \in 1 .. Len(r) : at(j) \in 1 .. Len(q) /\ r[j] = q[at(j)]
  BY <1>1
<1>9. \A j, l \in 1 .. Len(r) : at(j) = at(l) => j = l
  BY <1>1
<1> HIDE DEF at
<1>4. Len(r) <= Queue
  BY <1>1, PublishesAssumption DEF Sound
<1>5. \A j, l \in 1 .. Len(r) : r[j].uid = r[l].uid /\ r[j].uid # NoMsg => j = l
  BY <1>3, <1>9 DEF Sound
<1>6. ASSUME NEW j \in 1 .. Len(r), r[j].uid # NoMsg
      PROVE  stg[r[j].uid] = st /\ r[j].pid = pids[r[j].uid]
  <2>1. at(j) \in 1 .. Len(q) /\ r[j] = q[at(j)]
    BY <1>3
  <2>2. stg[q[at(j)].uid] = st /\ q[at(j)].pid = pids[q[at(j)].uid]
    BY <1>6, <2>1 DEF Sound
  <2> QED BY <2>1, <2>2
<1>7. ASSUME NEW n \in Msgs, stg[n] = st PROVE \E j \in 1 .. Len(r) : r[j].uid = n
  <2>2. PICK l \in 1 .. Len(q) : q[l].uid = n
    BY <1>7 DEF Sound
  <2>3. l # k
    BY <2>2, PublishesAssumption
  <2>4. CASE l < k
    BY <1>1, <2>2, <2>4
  <2>5. CASE l > k
    <3>1. l - 1 \in 1 .. Len(r) /\ r[l - 1] = q[l]
      BY <1>1, <2>5
    <3> QED BY <2>2, <3>1
  <2> QED BY <1>1, <2>3, <2>4, <2>5
<1>8. Sound(r, S, st, stg, pids)
  BY <1>1, <1>4, <1>5, <1>6, <1>7 DEF Sound
<1> QED BY <1>8 DEF r

\* Resending rewrites the timestamps only.
LEMMA SameSound ==
    ASSUME NEW S, NEW q, NEW r \in Seq(S), NEW st, NEW stg, NEW pids,
           Sound(q, S, st, stg, pids),
           Len(r) = Len(q),
           \A k \in 1 .. Len(q) : r[k].uid = q[k].uid /\ r[k].pid = q[k].pid
    PROVE  Sound(r, S, st, stg, pids)
BY DEF Sound

\* A new timestamp in await_puback or await_pubrec changes nothing else.
LEMMA AwaitAckDue ==
    ASSUME NEW q \in Seq(AwaitAck), NEW k \in 1 .. Len(q), NEW b \in BOOLEAN
    PROVE  LET r == [q EXCEPT ![k].due = b] IN
           /\ r \in Seq(AwaitAck)
           /\ Len(r) = Len(q)
           /\ \A j \in 1 .. Len(q) : r[j].uid = q[j].uid /\ r[j].pid = q[j].pid
<1>1. q[k] \in AwaitAck
  OBVIOUS
<1>2. [q[k] EXCEPT !.due = b] \in AwaitAck
  BY <1>1 DEF AwaitAck
<1>3. [q[k] EXCEPT !.due = b].uid = q[k].uid /\ [q[k] EXCEPT !.due = b].pid = q[k].pid
  BY <1>1 DEF AwaitAck
<1> QED BY <1>2, <1>3

\* A new timestamp in await_pubcomp changes nothing else.
LEMMA AwaitPubcompDue ==
    ASSUME NEW q \in Seq(AwaitPubcomp), NEW k \in 1 .. Len(q), NEW b \in BOOLEAN
    PROVE  LET r == [q EXCEPT ![k].due = b] IN
           /\ r \in Seq(AwaitPubcomp)
           /\ Len(r) = Len(q)
           /\ \A j \in 1 .. Len(q) : r[j].uid = q[j].uid /\ r[j].pid = q[j].pid
<1>1. q[k] \in AwaitPubcomp
  OBVIOUS
<1>2. [q[k] EXCEPT !.due = b] \in AwaitPubcomp
  BY <1>1 DEF AwaitPubcomp
<1>3. [q[k] EXCEPT !.due = b].uid = q[k].uid /\ [q[k] EXCEPT !.due = b].pid = q[k].pid
  BY <1>1 DEF AwaitPubcomp
<1> QED BY <1>2, <1>3

-----------------------------------------------------------------------------
(* Packet ids                                                                *)

PoolVars == <<pool, next_new_pid, pid_of>>

\* A step that is a step of PidUsers, or leaves the ids alone, keeps PidInv.
LEMMA PoolStep ==
    ASSUME Pool!PidInv, Pool!Next \/ UNCHANGED PoolVars
    PROVE  Pool!PidInv'
BY Pool!NextPidInv, PidAssumption DEF Pool!vars, PoolVars

\* What PidInv says of the types of the pool and of pid_of.
LEMMA PoolTyped ==
    ASSUME Pool!PidInv
    PROVE  PidTypeOK /\ pid_of \in [Msgs -> Pids \cup {NoPid}]
BY DEF Pool!PidInv, Pool!TypeOK, Pool!PidTypeOK, Pool!Pids, Pool!NoPid, PidTypeOK, Pids, NoPid

\* publish() takes an id as a user of the pool does.
LEMMA PublishTakes ==
    ASSUME PubInv, NEW m \in Msgs, publish(m)
    PROVE  Pool!Next \/ UNCHANGED PoolVars
<1>1. CASE Qos[m] = 0
  BY <1>1 DEF publish, PoolVars
<1>2. CASE Qos[m] # 0
  <2>1. PICK pid \in Pids : next_pid(pid) /\ pid_of' = [pid_of EXCEPT ![m] = pid]
    BY <1>2 DEF publish
  <2>2. pid_of[m] = NoPid
    BY DEF publish, PubInv, Staged
  <2>3. Pool!Acquire(m)
    BY <2>1, <2>2 DEF Pool!Acquire, Pool!next_pid, Pool!take, next_pid, take, Pids, Pool!Pids,
                      NoPid, Pool!NoPid
  <2> QED BY <2>3 DEF Pool!Next
<1> QED BY <1>1, <1>2

\* The last acknowledgement returns the id of its message, which holds it.
LEMMA AckReturns ==
    ASSUME NEW m \in Msgs, pid_of[m] # NoPid, free_pid(pid_of[m]),
           pid_of' = [pid_of EXCEPT ![m] = NoPid]
    PROVE  Pool!Next
BY DEF Pool!Next, Pool!Release, Pool!free_pid, free_pid, NoPid, Pool!NoPid

-----------------------------------------------------------------------------
(* Steps                                                                     *)

\* Steps of the loop counters and the connection only.
LEMMA Untouched ==
    ASSUME PubInv, RestTyped',
           UNCHANGED <<pool, next_new_pid, queueVars, pid_of, stage, done>>
    PROVE  PubInv'
<1>1. Pool!PidInv'
  BY PoolStep DEF PubInv, PoolVars
<1>2. QueuesSound' /\ Staged'
  BY DEF PubInv, QueuesSound, Staged, queueVars
<1> QED BY <1>1, <1>2 DEF PubInv

\* The queues that a step moving m leaves alone.
LEMMA Framed ==
    ASSUME QueuesSound, NEW m \in Msgs,
           SameBut(m, stage, stage'), SameBut(m, pid_of, pid_of')
    PROVE  /\ stage[m] # "send_publish" /\ stage'[m] # "send_publish"
              => Sound(send_publish, OwnedPublish, "send_publish", stage', pid_of')
           /\ stage[m] # "await_puback" /\ stage'[m] # "await_puback"
              => Sound(await_puback, AwaitAck, "await_puback", stage', pid_of')
           /\ stage[m] # "await_pubrec" /\ stage'[m] # "await_pubrec"
              => Sound(await_pubrec, AwaitAck, "await_pubrec", stage', pid_of')
           /\ stage[m] # "send_pubrel" /\ stage'[m] # "send_pubrel"
              => Sound(send_pubrel, SendPubrel, "send_pubrel", stage', pid_of')
           /\ stage[m] # "await_pubcomp" /\ stage'[m] # "await_pubcomp"
              => Sound(await_pubcomp, AwaitPubcomp, "await_pubcomp", stage', pid_of')
BY FrameSound, EntryKinds DEF QueuesSound

\* The initial state: all queues empty, all messages new.
LEMMA InitPubInv == Init => PubInv
<1> SUFFICES ASSUME Init PROVE PubInv
  OBVIOUS
<1> USE DEF Init
<1>1. RestTyped
  BY DEF RestTyped, Phases, Stages, LinkInit
<1>2. QueuesSound
  BY PublishesAssumption DEF QueuesSound, Sound
<1>3. Staged
  BY DEF Staged, NoPid
<1>4. Pool!PidInv
  BY Pool!InitPidInv, PidAssumption DEF Pool!Init, Pool!PidInit, PidInit, Pool!NoPid, NoPid
<1> QED BY <1>1, <1>2, <1>3, <1>4 DEF PubInv

\* publish(m): the packet id is taken, no queue changes.
LEMMA PublishStep ==
    ASSUME PubInv, NEW m \in Msgs, publish(m)
    PROVE  PubInv'
<1> USE DEF PubInv
<1>0. /\ stage \in [Msgs -> Stages] /\ pid_of \in [Msgs -> Pids \cup {NoPid}]
      /\ stage[m] = "new" /\ stage' = [stage EXCEPT ![m] = "waiting"]
      /\ done' = done
      /\ \/ Qos[m] = 0 /\ pid_of' = pid_of
         \/ Qos[m] > 0 /\ \E pid \in Pids : pid_of' = [pid_of EXCEPT ![m] = pid]
  <2>1. Qos[m] \in 0 .. 2
    BY PublishesAssumption
  <2>2. pid_of \in [Msgs -> Pids \cup {NoPid}]
    BY PoolTyped
  <2>3. CASE Qos[m] = 0
    BY <2>2, <2>3 DEF publish, RestTyped
  <2>4. CASE Qos[m] # 0
    <3>1. \E pid \in Pids : pid_of' = [pid_of EXCEPT ![m] = pid]
      BY <2>4 DEF publish
    <3>2. Qos[m] > 0
      BY <2>1, <2>4
    <3>3. stage \in [Msgs -> Stages] /\ stage[m] = "new"
      BY DEF publish, RestTyped
    <3>4. stage' = [stage EXCEPT ![m] = "waiting"] /\ done' = done
      BY DEF publish
    <3> QED BY <2>2, <3>1, <3>2, <3>3, <3>4
  <2> QED BY <2>3, <2>4
<1>1. RestTyped'
  BY <1>0 DEF publish, RestTyped, Stages, loopVars, connVars
<1>2. SameBut(m, stage, stage') /\ SameBut(m, pid_of, pid_of')
  BY <1>0 DEF SameBut
<1>3. stage'[m] = "waiting"
  BY <1>0
<1>4. QueuesSound'
  BY <1>0, <1>2, <1>3, Framed DEF publish, QueuesSound, queueVars
<1>5. Staged'
  <2>1. pid_of'[m] # NoPid <=> Qos[m] > 0
    BY <1>0 DEF Staged, NoPid, Pids
  <2> QED BY <1>0, <1>2, <1>3, <2>1 DEF Staged, SameBut
<1>6. Pool!PidInv'
  BY PublishTakes, PoolStep
<1> QED BY <1>1, <1>4, <1>5, <1>6

\* publish_enqueue(m): the message enters send_publish.
LEMMA EnqueueStep ==
    ASSUME PubInv, NEW m \in Msgs, publish_enqueue(m)
    PROVE  PubInv'
<1>0. stage \in [Msgs -> Stages] /\ pid_of \in [Msgs -> Pids \cup {NoPid}]
  BY PoolTyped DEF PubInv, RestTyped
<1>1. CASE m \in TooLong
  <2>1. UNCHANGED <<pool, next_new_pid, queueVars, pid_of, stage, done>>
    BY <1>1 DEF publish_enqueue, queueVars
  <2>2. RestTyped'
    BY <1>1 DEF publish_enqueue, PubInv, RestTyped, loopVars, connVars
  <2> QED BY <2>1, <2>2, Untouched
<1>2. CASE m \notin TooLong
  <2> DEFINE e == [uid |-> m, pid |-> pid_of[m], dup |-> FALSE]
  <2>1. /\ stage[m] = "waiting" /\ stage' = [stage EXCEPT ![m] = "send_publish"]
        /\ send_publish' = Append(send_publish, e) /\ ~IsFull(send_publish)
        /\ UNCHANGED <<await_puback, await_pubrec, send_pubrel, await_pubcomp, pid_of, done>>
    BY <1>2 DEF publish_enqueue
  <2>2. SameBut(m, stage, stage') /\ SameBut(m, pid_of, pid_of') /\ stage'[m] = "send_publish"
    BY <1>0, <2>1 DEF SameBut
  <2>3. RestTyped'
    <3>1. stage' \in [Msgs -> Stages]
      BY <1>0, <2>1 DEF Stages
    <3>2. accepted' \in Seq(Msgs)
      <4>1. accepted' = Append(accepted, m) /\ accepted \in Seq(Msgs)
        BY <1>2 DEF publish_enqueue, PubInv, RestTyped
      <4> QED BY <4>1
    <3> QED BY <3>1, <3>2 DEF publish_enqueue, PubInv, RestTyped, loopVars, connVars
  <2>4. e \in OwnedPublish /\ e.uid = m /\ e.pid = pid_of[m]
    BY <1>0 DEF OwnedPublish
  <2> HIDE DEF e
  <2>5. Sound(send_publish', OwnedPublish, "send_publish", stage', pid_of)
    BY <2>1, <2>2, <2>4, PushSound, EntryKinds DEF PubInv, QueuesSound
  <2>6. QueuesSound'
    BY <2>1, <2>2, <2>5, Framed DEF PubInv, QueuesSound
  <2>7. Staged'
    BY <2>1, <2>2 DEF PubInv, Staged, SameBut
  <2>8. Pool!PidInv'
    BY PoolStep DEF publish_enqueue, PubInv, PoolVars
  <2> QED BY <2>3, <2>6, <2>7, <2>8 DEF PubInv
<1> QED BY <1>1, <1>2

\* cancel(m): the packet id stays with the cancelled message.
LEMMA CancelStep ==
    ASSUME PubInv, NEW m \in Msgs, cancel(m)
    PROVE  PubInv'
<1>0. stage \in [Msgs -> Stages]
  BY DEF PubInv, RestTyped
<1>1. /\ stage[m] = "waiting" /\ stage' = [stage EXCEPT ![m] = "cancelled"]
      /\ UNCHANGED <<queueVars, pid_of, done>>
  BY DEF cancel
<1>2. SameBut(m, stage, stage') /\ SameBut(m, pid_of, pid_of') /\ stage'[m] = "cancelled"
  BY <1>0, <1>1 DEF SameBut
<1>3. RestTyped'
  <2>1. stage' \in [Msgs -> Stages]
    BY <1>0, <1>1 DEF Stages
  <2> QED BY <2>1 DEF cancel, PubInv, RestTyped, loopVars, connVars
<1>4. QueuesSound'
  BY <1>1, <1>2, Framed DEF PubInv, QueuesSound, queueVars
<1>5. Staged'
  BY <1>1, <1>2 DEF PubInv, Staged, SameBut
<1>6. Pool!PidInv'
  BY PoolStep DEF cancel, PubInv, PoolVars
<1> QED BY <1>3, <1>4, <1>5, <1>6 DEF PubInv

\* The connection loses its packets or its socket, never a queue entry.
LEMMA ConnectionStep ==
    ASSUME PubInv, Connection
    PROVE  PubInv'
<1>1. UNCHANGED <<pool, next_new_pid, queueVars, pid_of, stage, done>>
  BY DEF Connection, Transmit, connection_error, connect, histVars
<1>2. send_buffer' \in Seq(Packets)
  <2>1. /\ send_buffer \in Seq(Packets)
        /\ \/ send_buffer # <<>> /\ send_buffer' = Tail(send_buffer)
           \/ send_buffer' = send_buffer
           \/ send_buffer' = <<>>
    BY DEF Connection, Transmit, connection_error, connect, write_to_network, set_error,
           reconnect, PubInv, RestTyped
  <2>2. CASE send_buffer # <<>> /\ send_buffer' = Tail(send_buffer)
    BY <2>1, <2>2
  <2>3. CASE send_buffer' = send_buffer
    BY <2>1, <2>3
  <2>4. CASE send_buffer' = <<>>
    BY <2>4
  <2> QED BY <2>1, <2>2, <2>3, <2>4
<1>3. RestTyped'
  BY <1>2 DEF Connection, Transmit, connection_error, connect, histVars, loopVars, PubInv,
              RestTyped
<1> QED BY <1>1, <1>3, Untouched

\* The steps of send_packets that write nothing.
LEMMA LoopStep ==
    ASSUME PubInv,
           \/ send_packets
           \/ send_pubrel_skip \/ send_publish_skip
           \/ PartiallySent
           \/ \E q : ResendSkip(q)
           \/ \E q : \E next \in Phases : Continue(q, next)
    PROVE  PubInv'
<1>1. UNCHANGED <<pool, next_new_pid, queueVars, pid_of, stage, done>>
  BY DEF send_packets, send_pubrel_skip, send_publish_skip, PartiallySent, ResendSkip, Continue,
         histVars
<1>2. pc' \in Phases /\ i' \in Nat \ {0}
  BY DEF send_packets, send_pubrel_skip, send_publish_skip, PartiallySent, ResendSkip, Continue,
         Advance, Phases, PubInv, RestTyped
<1>3. UNCHANGED <<send_buffer, accepted, recd, sent>>
  BY DEF send_packets, send_pubrel_skip, send_publish_skip, PartiallySent, ResendSkip, Continue,
         histVars, connVars
<1>4. RestTyped'
  BY <1>1, <1>2, <1>3 DEF PubInv, RestTyped
<1> QED BY <1>1, <1>4, Untouched

\* An acknowledgement that nobody waits for.
LEMMA UnexpectedAckStep ==
    ASSUME PubInv, UnexpectedAck, UNCHANGED <<loopVars, accepted, recd, sent>>
    PROVE  PubInv'
<1>1. RestTyped'
  BY DEF UnexpectedAck, set_error, loopVars, PubInv, RestTyped
<1> QED BY <1>1, Untouched DEF UnexpectedAck

\* The last acknowledgement of m: it is done and its packet id is free.
LEMMA DoneFacts ==
    ASSUME PubInv, NEW m \in Msgs, PublishDone(m), Qos[m] > 0,
           stage[m] \notin {"new", "done"},
           free_pid(pid_of[m]), pid_of' = [pid_of EXCEPT ![m] = NoPid]
    PROVE  /\ SameBut(m, stage, stage') /\ SameBut(m, pid_of, pid_of') /\ stage'[m] = "done"
           /\ stage' \in [Msgs -> Stages] /\ done' \in [Msgs -> Nat]
           /\ Staged' /\ Pool!PidInv'
<1>0. /\ stage \in [Msgs -> Stages] /\ done \in [Msgs -> Nat]
      /\ pid_of \in [Msgs -> Pids \cup {NoPid}] /\ pid_of[m] # NoPid /\ done[m] = 0
  BY PoolTyped DEF PubInv, RestTyped, Staged
<1>1. /\ SameBut(m, stage, stage') /\ SameBut(m, pid_of, pid_of') /\ SameBut(m, done, done')
      /\ stage'[m] = "done" /\ pid_of'[m] = NoPid /\ done'[m] = 1
  BY <1>0 DEF PublishDone, SameBut
<1>2. stage' \in [Msgs -> Stages] /\ done' \in [Msgs -> Nat]
  BY <1>0 DEF PublishDone, Stages
<1>3. Staged'
  BY <1>1 DEF PubInv, Staged, SameBut
<1>4. Pool!PidInv'
  BY <1>0, AckReturns, PoolStep DEF PubInv
<1> QED BY <1>1, <1>2, <1>3, <1>4

\* process_puback: the message is done, or nobody waits for the PUBACK.
LEMMA PubackStep ==
    ASSUME PubInv, NEW pid \in Pids, process_puback(pid)
    PROVE  PubInv'
<1>1. CASE UnexpectedAck
  BY <1>1, UnexpectedAckStep DEF process_puback
<1>2. CASE ~UnexpectedAck
  <2>1. PICK k \in 1 .. Len(await_puback) :
           /\ await_puback' = Remove(await_puback, k)
           /\ free_pid(await_puback[k].pid)
           /\ pid_of' = [pid_of EXCEPT ![await_puback[k].uid] = NoPid]
           /\ PublishDone(await_puback[k].uid)
           /\ UNCHANGED <<send_publish, await_pubrec, send_pubrel, await_pubcomp, connVars>>
    BY <1>2 DEF process_puback
  <2> DEFINE m == await_puback[k].uid
  <2>0. Sound(await_puback, AwaitAck, "await_puback", stage, pid_of)
    BY DEF PubInv, QueuesSound
  <2>2. await_puback[k] \in AwaitAck
    BY <2>0 DEF Sound
  <2>3. m \in Msgs /\ m # NoMsg
    BY <2>2, PublishesAssumption DEF AwaitAck
  <2>4. stage[m] = "await_puback" /\ await_puback[k].pid = pid_of[m]
    BY <2>0, <2>3 DEF Sound
  <2>5. Qos[m] = 1
    BY <2>3, <2>4 DEF PubInv, Staged
  <2>6. /\ SameBut(m, stage, stage') /\ SameBut(m, pid_of, pid_of') /\ stage'[m] = "done"
        /\ stage' \in [Msgs -> Stages] /\ done' \in [Msgs -> Nat]
        /\ Staged' /\ Pool!PidInv'
    <3>1. Qos[m] > 0 /\ stage[m] \notin {"new", "done"}
      BY <2>4, <2>5
    <3>2. free_pid(pid_of[m])
      BY <2>1, <2>4
    <3>3. PublishDone(m) /\ pid_of' = [pid_of EXCEPT ![m] = NoPid]
      BY <2>1
    <3> HIDE DEF m
    <3> QED BY <2>3, <3>1, <3>2, <3>3, DoneFacts
  <2>7. Sound(await_puback', AwaitAck, "await_puback", stage', pid_of')
    <3>1. stage'[m] # "await_puback"
      BY <2>6
    <3> QED BY <2>0, <2>1, <2>3, <2>6, <3>1, PopSound, EntryKinds
  <2>8. QueuesSound'
    BY <2>1, <2>3, <2>4, <2>6, <2>7, Framed DEF PubInv, QueuesSound
  <2>9. RestTyped'
    BY <2>1, <2>6 DEF process_puback, connVars, loopVars, PubInv, RestTyped
  <2> QED BY <2>6, <2>8, <2>9 DEF PubInv
<1> QED BY <1>1, <1>2

\* process_pubcomp: the message is done, or nobody waits for the PUBCOMP.
LEMMA PubcompStep ==
    ASSUME PubInv, NEW pid \in Pids, process_pubcomp(pid)
    PROVE  PubInv'
<1>1. CASE UnexpectedAck
  BY <1>1, UnexpectedAckStep DEF process_pubcomp
<1>2. CASE ~UnexpectedAck
  <2>1. PICK k \in 1 .. Len(await_pubcomp) :
           /\ await_pubcomp' = Remove(await_pubcomp, k)
           /\ free_pid(await_pubcomp[k].pid)
           /\ pid_of' = [pid_of EXCEPT ![await_pubcomp[k].uid] = NoPid]
           /\ PublishDone(await_pubcomp[k].uid)
           /\ UNCHANGED <<send_publish, await_puback, await_pubrec, send_pubrel, connVars>>
    BY <1>2 DEF process_pubcomp
  <2> DEFINE m == await_pubcomp[k].uid
  <2>0. Sound(await_pubcomp, AwaitPubcomp, "await_pubcomp", stage, pid_of)
    BY DEF PubInv, QueuesSound
  <2>2. await_pubcomp[k] \in AwaitPubcomp
    BY <2>0 DEF Sound
  <2>3. m \in Msgs /\ m # NoMsg
    BY <2>2, PublishesAssumption DEF AwaitPubcomp
  <2>4. stage[m] = "await_pubcomp" /\ await_pubcomp[k].pid = pid_of[m]
    BY <2>0, <2>3 DEF Sound
  <2>5. Qos[m] = 2
    BY <2>3, <2>4 DEF PubInv, Staged
  <2>6. /\ SameBut(m, stage, stage') /\ SameBut(m, pid_of, pid_of') /\ stage'[m] = "done"
        /\ stage' \in [Msgs -> Stages] /\ done' \in [Msgs -> Nat]
        /\ Staged' /\ Pool!PidInv'
    <3>1. Qos[m] > 0 /\ stage[m] \notin {"new", "done"}
      BY <2>4, <2>5
    <3>2. free_pid(pid_of[m])
      BY <2>1, <2>4
    <3>3. PublishDone(m) /\ pid_of' = [pid_of EXCEPT ![m] = NoPid]
      BY <2>1
    <3> HIDE DEF m
    <3> QED BY <2>3, <3>1, <3>2, <3>3, DoneFacts
  <2>7. Sound(await_pubcomp', AwaitPubcomp, "await_pubcomp", stage', pid_of')
    <3>1. stage'[m] # "await_pubcomp"
      BY <2>6
    <3> QED BY <2>0, <2>1, <2>3, <2>6, <3>1, PopSound, EntryKinds
  <2>8. QueuesSound'
    BY <2>1, <2>3, <2>4, <2>6, <2>7, Framed DEF PubInv, QueuesSound
  <2>9. RestTyped'
    BY <2>1, <2>6 DEF process_pubcomp, connVars, loopVars, PubInv, RestTyped
  <2> QED BY <2>6, <2>8, <2>9 DEF PubInv
<1> QED BY <1>1, <1>2

\* Moving a message along the handshake of its QoS, its packet id unchanged.
LEMMA MoveFacts ==
    ASSUME PubInv, NEW m \in Msgs, NEW st \in Stages \ {"new", "done"},
           stage[m] \notin {"new", "done"},
           st = "await_puback" => Qos[m] = 1,
           st # "await_puback" => Qos[m] = 2,
           stage' = [stage EXCEPT ![m] = st], UNCHANGED <<pool, next_new_pid, pid_of, done>>
    PROVE  /\ SameBut(m, stage, stage') /\ SameBut(m, pid_of, pid_of') /\ stage'[m] = st
           /\ stage' \in [Msgs -> Stages]
           /\ Staged' /\ Pool!PidInv'
<1>0. stage \in [Msgs -> Stages]
  BY DEF PubInv, RestTyped
<1>1. SameBut(m, stage, stage') /\ SameBut(m, pid_of, pid_of') /\ stage'[m] = st
  BY <1>0 DEF SameBut
<1>2. stage' \in [Msgs -> Stages]
  BY <1>0
<1>3. Staged'
  BY <1>1 DEF PubInv, Staged, SameBut
<1>4. Pool!PidInv'
  BY PoolStep DEF PubInv, PoolVars
<1> QED BY <1>1, <1>2, <1>3, <1>4

\* process_pubrec: the entry moves to send_pubrel, or is dropped.
LEMMA PubrecStep ==
    ASSUME PubInv, NEW pid \in Pids, process_pubrec(pid)
    PROVE  PubInv'
<1>0. /\ Sound(await_pubrec, AwaitAck, "await_pubrec", stage, pid_of)
      /\ Sound(send_pubrel, SendPubrel, "send_pubrel", stage, pid_of)
  BY DEF PubInv, QueuesSound
<1>1. /\ UNCHANGED <<pool, next_new_pid, pid_of, done>>
      /\ UNCHANGED <<send_publish, await_puback, await_pubcomp>>
  BY DEF process_pubrec
<1>2. UNCHANGED <<pc, i, send_buffer, accepted, sent>>
  BY DEF process_pubrec, loopVars, connVars, set_error
<1>3. ASSUME NEW k \in 1 .. Len(await_pubrec), await_pubrec[k].pid = pid,
             await_pubrec' = Remove(await_pubrec, k),
             \/ /\ stage' = [stage EXCEPT ![await_pubrec[k].uid] = "dropped"]
                /\ UNCHANGED <<send_pubrel, recd>>
             \/ /\ ~IsFull(send_pubrel)
                /\ send_pubrel' = Append(send_pubrel, [uid |-> await_pubrec[k].uid, pid |-> pid])
                /\ stage' = [stage EXCEPT ![await_pubrec[k].uid] = "send_pubrel"]
                /\ recd' = Append(recd, await_pubrec[k].uid)
      PROVE  PubInv'
  <2> DEFINE m == await_pubrec[k].uid
  <2>1. await_pubrec[k] \in AwaitAck
    BY <1>0 DEF Sound
  <2>2. m \in Msgs /\ m # NoMsg
    BY <2>1, PublishesAssumption DEF AwaitAck
  <2>3. stage[m] = "await_pubrec" /\ pid = pid_of[m]
    BY <1>0, <1>3, <2>2 DEF Sound
  <2>4. Qos[m] = 2
    BY <2>2, <2>3 DEF PubInv, Staged
  <2>5. PICK st \in {"dropped", "send_pubrel"} : stage' = [stage EXCEPT ![m] = st]
    BY <1>3
  <2>6. /\ SameBut(m, stage, stage') /\ SameBut(m, pid_of, pid_of') /\ stage'[m] = st
        /\ stage' \in [Msgs -> Stages]
        /\ Staged' /\ Pool!PidInv'
    <3>1. /\ st \in Stages \ {"new", "done"} /\ st # "await_puback"
          /\ stage[m] \notin {"new", "done"}
      BY <2>3 DEF Stages
    <3> HIDE DEF m
    <3> QED BY <1>1, <2>2, <2>4, <2>5, <3>1, MoveFacts
  <2>7. Sound(await_pubrec', AwaitAck, "await_pubrec", stage', pid_of')
    <3>1. stage'[m] # "await_pubrec"
      BY <2>6
    <3> QED BY <1>0, <1>3, <2>2, <2>6, <3>1, PopSound, EntryKinds
  <2>8. Sound(send_pubrel', SendPubrel, "send_pubrel", stage', pid_of')
    <3>1. CASE UNCHANGED send_pubrel /\ stage' = [stage EXCEPT ![m] = "dropped"]
      <4>1. stage[m] # "send_pubrel" /\ stage'[m] # "send_pubrel"
        BY <2>2, <2>3, <3>1 DEF PubInv, RestTyped
      <4> HIDE DEF m
      <4> QED BY <2>2, <2>6, <3>1, <4>1, Framed DEF PubInv
    <3>2. CASE /\ ~IsFull(send_pubrel)
               /\ send_pubrel' = Append(send_pubrel, [uid |-> m, pid |-> pid])
               /\ stage' = [stage EXCEPT ![m] = "send_pubrel"]
      <4> DEFINE e == [uid |-> m, pid |-> pid]
      <4>1. e \in SendPubrel /\ e.uid = m /\ e.pid = pid_of[m]
        BY <2>2, <2>3 DEF SendPubrel
      <4>2. stage[m] # "send_pubrel" /\ stage'[m] = "send_pubrel"
        BY <2>2, <2>3, <3>2 DEF PubInv, RestTyped
      <4>3. send_pubrel' = Append(send_pubrel, e) /\ ~IsFull(send_pubrel)
        BY <3>2
      <4> HIDE DEF e, m
      <4> QED BY <1>0, <1>1, <2>2, <2>6, <4>1, <4>2, <4>3, PushSound, EntryKinds
    <3> QED BY <1>3, <3>1, <3>2
  <2>9. QueuesSound'
    BY <1>1, <2>2, <2>3, <2>6, <2>7, <2>8, Framed DEF PubInv, QueuesSound
  <2>10. RestTyped'
    <3>1. recd' \in Seq(Msgs)
      <4>1. recd \in Seq(Msgs) /\ (recd' = recd \/ recd' = Append(recd, m))
        BY <1>3 DEF PubInv, RestTyped
      <4> HIDE DEF m
      <4>2. Append(recd, m) \in Seq(Msgs)
        BY <2>2, <4>1
      <4> QED BY <4>1, <4>2
    <3> QED BY <1>1, <1>2, <2>6, <3>1 DEF PubInv, RestTyped
  <2> QED BY <2>6, <2>9, <2>10 DEF PubInv
<1>4. ASSUME UNCHANGED <<await_pubrec, stage, recd>>,
             \/ UNCHANGED send_pubrel
             \/ /\ ~IsFull(send_pubrel)
                /\ send_pubrel' = Append(send_pubrel, [uid |-> NoMsg, pid |-> pid])
      PROVE  PubInv'
  <2>1. Sound(send_pubrel', SendPubrel, "send_pubrel", stage, pid_of)
    <3> DEFINE e == [uid |-> NoMsg, pid |-> pid]
    <3>1. e \in SendPubrel /\ e.uid = NoMsg
      BY DEF SendPubrel
    <3>2. CASE UNCHANGED send_pubrel
      BY <1>0, <3>2
    <3>3. CASE ~IsFull(send_pubrel) /\ send_pubrel' = Append(send_pubrel, e)
      <4> HIDE DEF e
      <4> QED BY <1>0, <3>1, <3>3, PushAnonymous, EntryKinds
    <3> QED BY <1>4, <3>2, <3>3
  <2>2. QueuesSound'
    BY <1>1, <1>4, <2>1 DEF PubInv, QueuesSound
  <2>3. Staged' /\ RestTyped'
    BY <1>1, <1>2, <1>4 DEF PubInv, Staged, RestTyped
  <2>4. Pool!PidInv'
    BY <1>1, PoolStep DEF PubInv, PoolVars
  <2> QED BY <2>2, <2>3, <2>4 DEF PubInv
<1> QED BY <1>3, <1>4 DEF process_pubrec, IsPosition

\* Writing a packet keeps the types of the send buffer.
LEMMA WriteTyped ==
    ASSUME send_buffer \in Seq(Packets), NEW p \in Packets, try_write_packet(p)
    PROVE  send_buffer' \in Seq(Packets)
<1>1. send_buffer' = Append(send_buffer, p)
  BY DEF try_write_packet
<1> QED BY <1>1

\* A PUBREL goes out: its message moves to await_pubcomp.
LEMMA SendPubrelStep ==
    ASSUME PubInv, send_pubrel_entry
    PROVE  PubInv'
<1> DEFINE current == send_pubrel[i]
           m == current.uid
<1>0. /\ Sound(send_pubrel, SendPubrel, "send_pubrel", stage, pid_of)
      /\ Sound(await_pubcomp, AwaitPubcomp, "await_pubcomp", stage, pid_of)
      /\ stage \in [Msgs -> Stages]
  BY DEF PubInv, QueuesSound, RestTyped
<1>1. /\ UNCHANGED <<pool, next_new_pid, pid_of, done>>
      /\ UNCHANGED <<send_publish, await_puback, await_pubrec>>
      /\ UNCHANGED <<pc, i, accepted, recd, sent>>
      /\ ~IsFull(await_pubcomp)
      /\ send_pubrel' = Remove(send_pubrel, i)
  BY DEF send_pubrel_entry, loopVars
<1>2. i \in 1 .. Len(send_pubrel)
  <2>1. send_pubrel \in Seq(SendPubrel) /\ i \in Nat \ {0} /\ i <= Len(send_pubrel)
    BY <1>0 DEF Sound, send_pubrel_entry, PubInv, RestTyped
  <2> QED BY <2>1
<1>3. current \in SendPubrel
  BY <1>0, <1>2 DEF Sound
<1>4. send_buffer' \in Seq(Packets)
  <2> DEFINE p == [type |-> "pubrel", pid |-> current.pid]
  <2>1. p \in Packets
    BY <1>3 DEF SendPubrel, Packets
  <2>2. try_write_packet(p) /\ send_buffer \in Seq(Packets)
    BY DEF send_pubrel_entry, PubInv, RestTyped
  <2> HIDE DEF p
  <2> QED BY <2>1, <2>2, WriteTyped
<1>5. CASE m = NoMsg
  <2>1. UNCHANGED <<await_pubcomp, stage>>
    BY <1>5 DEF send_pubrel_entry
  <2>2. Sound(send_pubrel', SendPubrel, "send_pubrel", stage, pid_of)
    BY <1>0, <1>1, <1>2, <1>5, PopAnonymous, EntryKinds
  <2>3. QueuesSound'
    BY <1>1, <2>1, <2>2 DEF PubInv, QueuesSound
  <2>4. Staged' /\ RestTyped'
    BY <1>1, <1>4, <2>1 DEF PubInv, Staged, RestTyped
  <2>5. Pool!PidInv'
    BY <1>1, PoolStep DEF PubInv, PoolVars
  <2> QED BY <2>3, <2>4, <2>5 DEF PubInv
<1>6. CASE m # NoMsg
  <2> DEFINE e == [uid |-> m, pid |-> current.pid, due |-> FALSE]
  <2>1. m \in Msgs
    BY <1>3, <1>6 DEF SendPubrel
  <2>2. stage[m] = "send_pubrel" /\ current.pid = pid_of[m]
    BY <1>0, <1>2, <1>6 DEF Sound
  <2>3. Qos[m] = 2
    BY <2>1, <2>2 DEF PubInv, Staged
  <2>4. stage' = [stage EXCEPT ![m] = "await_pubcomp"] /\ await_pubcomp' = Append(await_pubcomp, e)
    BY <1>6 DEF send_pubrel_entry
  <2>5. /\ SameBut(m, stage, stage') /\ SameBut(m, pid_of, pid_of')
        /\ stage'[m] = "await_pubcomp" /\ stage' \in [Msgs -> Stages]
        /\ Staged' /\ Pool!PidInv'
    <3>1. /\ "await_pubcomp" \in Stages \ {"new", "done"} /\ "await_pubcomp" # "await_puback"
          /\ stage[m] \notin {"new", "done"}
      BY <2>2 DEF Stages
    <3> HIDE DEF m, current
    <3> QED BY <1>1, <2>1, <2>3, <2>4, <3>1, MoveFacts
  <2>6. Sound(send_pubrel', SendPubrel, "send_pubrel", stage', pid_of')
    <3>1. stage'[m] # "send_pubrel"
      BY <2>5
    <3> QED BY <1>0, <1>1, <1>2, <2>1, <2>5, <3>1, PopSound, EntryKinds
  <2>7. Sound(await_pubcomp', AwaitPubcomp, "await_pubcomp", stage', pid_of')
    <3>1. e \in AwaitPubcomp /\ e.uid = m /\ e.pid = pid_of[m]
      BY <1>3, <2>1, <2>2 DEF AwaitPubcomp, SendPubrel
    <3>2. stage[m] # "await_pubcomp"
      BY <2>2
    <3> HIDE DEF e, m, current
    <3> QED BY <1>0, <1>1, <2>1, <2>4, <2>5, <3>1, <3>2, PushSound, EntryKinds
  <2>8. QueuesSound'
    <3> HIDE DEF m, current
    <3> QED BY <1>1, <2>1, <2>2, <2>5, <2>6, <2>7, Framed DEF PubInv, QueuesSound
  <2>9. RestTyped'
    BY <1>1, <1>4, <2>5 DEF PubInv, RestTyped
  <2> QED BY <2>5, <2>8, <2>9 DEF PubInv
<1> QED BY <1>5, <1>6

\* A PUBLISH of QoS 0 goes out: it is done.
LEMMA SendQos0 ==
    ASSUME PubInv, NEW m \in Msgs, Qos[m] = 0, stage[m] = "send_publish", PublishDone(m),
           UNCHANGED <<pool, next_new_pid, pid_of>>
    PROVE  /\ SameBut(m, stage, stage') /\ SameBut(m, pid_of, pid_of') /\ stage'[m] = "done"
           /\ stage' \in [Msgs -> Stages] /\ done' \in [Msgs -> Nat]
           /\ Staged' /\ Pool!PidInv'
<1>0. /\ stage \in [Msgs -> Stages] /\ done \in [Msgs -> Nat]
      /\ pid_of[m] = NoPid /\ done[m] = 0
  BY DEF PubInv, RestTyped, Staged
<1>1. /\ SameBut(m, stage, stage') /\ SameBut(m, pid_of, pid_of') /\ SameBut(m, done, done')
      /\ stage'[m] = "done" /\ done'[m] = 1
  BY <1>0 DEF PublishDone, SameBut
<1>2. stage' \in [Msgs -> Stages] /\ done' \in [Msgs -> Nat]
  BY <1>0 DEF PublishDone, Stages
<1>3. Staged'
  BY <1>0, <1>1 DEF PubInv, Staged, SameBut
<1>4. Pool!PidInv'
  BY PoolStep DEF PubInv, PoolVars
<1> QED BY <1>1, <1>2, <1>3, <1>4

\* A PUBLISH goes out: its message moves to the queue of its QoS, or is done.
LEMMA SendPublishStep ==
    ASSUME PubInv, send_publish_entry
    PROVE  PubInv'
<1> DEFINE current == send_publish[i]
           m == current.uid
           e == AwaitEntry(current)
<1>0. /\ Sound(send_publish, OwnedPublish, "send_publish", stage, pid_of)
      /\ Sound(await_puback, AwaitAck, "await_puback", stage, pid_of)
      /\ Sound(await_pubrec, AwaitAck, "await_pubrec", stage, pid_of)
      /\ stage \in [Msgs -> Stages] /\ QueuesSound
  BY DEF PubInv, QueuesSound, RestTyped
<1>1. /\ UNCHANGED <<pool, next_new_pid, pid_of>>
      /\ UNCHANGED <<send_pubrel, await_pubcomp>>
      /\ UNCHANGED <<pc, i, accepted, recd>>
      /\ send_publish' = Remove(send_publish, i)
  BY DEF send_publish_entry, loopVars
<1>2. i \in 1 .. Len(send_publish)
  <2>1. send_publish \in Seq(OwnedPublish) /\ i \in Nat \ {0} /\ i <= Len(send_publish)
    BY <1>0 DEF Sound, send_publish_entry, PubInv, RestTyped
  <2> QED BY <2>1
<1>3. current \in OwnedPublish
  BY <1>0, <1>2 DEF Sound
<1>4. m \in Msgs /\ m # NoMsg
  BY <1>3, PublishesAssumption DEF OwnedPublish
<1>5. stage[m] = "send_publish" /\ current.pid = pid_of[m]
  BY <1>0, <1>2, <1>4 DEF Sound
<1>6. send_buffer' \in Seq(Packets) /\ sent' \in SUBSET Msgs
  <2> DEFINE p == [type |-> "publish", uid |-> m, pid |-> current.pid, dup |-> current.dup]
  <2>1. p \in Packets
    BY <1>3 DEF OwnedPublish, Packets
  <2>2. try_write_packet(p) /\ send_buffer \in Seq(Packets)
    BY DEF send_publish_entry, PubInv, RestTyped
  <2>3. sent' = sent \cup {m} /\ sent \in SUBSET Msgs
    BY DEF send_publish_entry, PubInv, RestTyped
  <2> HIDE DEF p
  <2> QED BY <1>4, <2>1, <2>2, <2>3, WriteTyped
<1>7. Qos[m] > 0 => e \in AwaitAck /\ e.uid = m /\ e.pid = pid_of[m]
  <2>1. Qos[m] > 0 => pid_of[m] # NoPid
    BY <1>4, <1>5 DEF PubInv, Staged
  <2> QED BY <1>3, <1>5, <2>1 DEF AwaitEntry, OwnedPublish, AwaitAck
<1>8. Qos[m] \in {0, 1, 2}
  BY <1>4, PublishesAssumption
<1>9. CASE Qos[m] = 0
  <2>1. PublishDone(m) /\ UNCHANGED <<await_puback, await_pubrec>>
    BY <1>9 DEF send_publish_entry
  <2>2. /\ SameBut(m, stage, stage') /\ SameBut(m, pid_of, pid_of') /\ stage'[m] = "done"
        /\ stage' \in [Msgs -> Stages] /\ done' \in [Msgs -> Nat]
        /\ Staged' /\ Pool!PidInv'
    <3> HIDE DEF m
    <3> QED BY <1>1, <1>4, <1>5, <1>9, <2>1, SendQos0
  <2>3. Sound(send_publish', OwnedPublish, "send_publish", stage', pid_of')
    <3>1. stage'[m] # "send_publish"
      BY <2>2
    <3> QED BY <1>0, <1>1, <1>2, <1>4, <2>2, <3>1, PopSound, EntryKinds
  <2>4. QueuesSound'
    <3> HIDE DEF m
    <3> QED BY <1>0, <1>1, <1>4, <1>5, <2>1, <2>2, <2>3, Framed DEF QueuesSound
  <2>5. RestTyped'
    BY <1>1, <1>6, <2>2 DEF PubInv, RestTyped
  <2> QED BY <2>2, <2>4, <2>5 DEF PubInv
<1>10. CASE Qos[m] = 1
  <2>1. /\ await_puback' = Append(await_puback, e) /\ ~IsFull(await_puback)
        /\ stage' = [stage EXCEPT ![m] = "await_puback"]
        /\ UNCHANGED <<await_pubrec, done>>
    BY <1>10 DEF send_publish_entry, has_space
  <2>2. /\ SameBut(m, stage, stage') /\ SameBut(m, pid_of, pid_of')
        /\ stage'[m] = "await_puback" /\ stage' \in [Msgs -> Stages]
        /\ Staged' /\ Pool!PidInv'
    <3>1. "await_puback" \in Stages \ {"new", "done"} /\ stage[m] \notin {"new", "done"}
      BY <1>5 DEF Stages
    <3> HIDE DEF m
    <3> QED BY <1>1, <1>4, <1>10, <2>1, <3>1, MoveFacts
  <2>3. Sound(send_publish', OwnedPublish, "send_publish", stage', pid_of')
    <3>1. stage'[m] # "send_publish"
      BY <2>2
    <3> QED BY <1>0, <1>1, <1>2, <1>4, <2>2, <3>1, PopSound, EntryKinds
  <2>4. Sound(await_puback', AwaitAck, "await_puback", stage', pid_of')
    <3>1. stage[m] # "await_puback" /\ Qos[m] > 0
      BY <1>5, <1>10
    <3> HIDE DEF m, e
    <3> QED BY <1>0, <1>1, <1>4, <1>7, <2>1, <2>2, <3>1, PushSound, EntryKinds
  <2>5. QueuesSound'
    <3> HIDE DEF m
    <3> QED BY <1>0, <1>1, <1>4, <1>5, <2>1, <2>2, <2>3, <2>4, Framed DEF QueuesSound
  <2>6. RestTyped'
    BY <1>1, <1>6, <2>1, <2>2 DEF PubInv, RestTyped
  <2> QED BY <2>2, <2>5, <2>6 DEF PubInv
<1>11. CASE Qos[m] = 2
  <2>1. /\ await_pubrec' = Append(await_pubrec, e) /\ ~IsFull(await_pubrec)
        /\ stage' = [stage EXCEPT ![m] = "await_pubrec"]
        /\ UNCHANGED <<await_puback, done>>
    BY <1>11 DEF send_publish_entry, has_space
  <2>2. /\ SameBut(m, stage, stage') /\ SameBut(m, pid_of, pid_of')
        /\ stage'[m] = "await_pubrec" /\ stage' \in [Msgs -> Stages]
        /\ Staged' /\ Pool!PidInv'
    <3>1. /\ "await_pubrec" \in Stages \ {"new", "done"} /\ "await_pubrec" # "await_puback"
          /\ stage[m] \notin {"new", "done"}
      BY <1>5 DEF Stages
    <3> HIDE DEF m
    <3> QED BY <1>1, <1>4, <1>11, <2>1, <3>1, MoveFacts
  <2>3. Sound(send_publish', OwnedPublish, "send_publish", stage', pid_of')
    <3>1. stage'[m] # "send_publish"
      BY <2>2
    <3> QED BY <1>0, <1>1, <1>2, <1>4, <2>2, <3>1, PopSound, EntryKinds
  <2>4. Sound(await_pubrec', AwaitAck, "await_pubrec", stage', pid_of')
    <3>1. stage[m] # "await_pubrec" /\ Qos[m] > 0
      BY <1>5, <1>11
    <3> HIDE DEF m, e
    <3> QED BY <1>0, <1>1, <1>4, <1>7, <2>1, <2>2, <3>1, PushSound, EntryKinds
  <2>5. QueuesSound'
    <3> HIDE DEF m
    <3> QED BY <1>0, <1>1, <1>4, <1>5, <2>1, <2>2, <2>3, <2>4, Framed DEF QueuesSound
  <2>6. RestTyped'
    BY <1>1, <1>6, <2>1, <2>2 DEF PubInv, RestTyped
  <2> QED BY <2>2, <2>5, <2>6 DEF PubInv
<1> QED BY <1>8, <1>9, <1>10, <1>11

\* Timestamps change, by the clock or by a resend: the queues stay sound.
LEMMA DueStep ==
    ASSUME PubInv, RestTyped',
           UNCHANGED <<pool, next_new_pid, pid_of, stage, done, send_publish, send_pubrel>>,
           \/ UNCHANGED await_puback
           \/ \E k \in 1 .. Len(await_puback) : \E b \in BOOLEAN :
                 await_puback' = [await_puback EXCEPT ![k].due = b],
           \/ UNCHANGED await_pubrec
           \/ \E k \in 1 .. Len(await_pubrec) : \E b \in BOOLEAN :
                 await_pubrec' = [await_pubrec EXCEPT ![k].due = b],
           \/ UNCHANGED await_pubcomp
           \/ \E k \in 1 .. Len(await_pubcomp) : \E b \in BOOLEAN :
                 await_pubcomp' = [await_pubcomp EXCEPT ![k].due = b]
    PROVE  PubInv'
<1>0. /\ Sound(await_puback, AwaitAck, "await_puback", stage, pid_of)
      /\ Sound(await_pubrec, AwaitAck, "await_pubrec", stage, pid_of)
      /\ Sound(await_pubcomp, AwaitPubcomp, "await_pubcomp", stage, pid_of)
  BY DEF PubInv, QueuesSound
<1>1. Sound(await_puback', AwaitAck, "await_puback", stage, pid_of)
  <2>1. CASE UNCHANGED await_puback
    BY <1>0, <2>1
  <2>2. ASSUME NEW k \in 1 .. Len(await_puback), NEW b \in BOOLEAN,
               await_puback' = [await_puback EXCEPT ![k].due = b]
        PROVE  Sound(await_puback', AwaitAck, "await_puback", stage, pid_of)
    <3>1. await_puback \in Seq(AwaitAck)
      BY <1>0 DEF Sound
    <3>2. /\ await_puback' \in Seq(AwaitAck)
          /\ Len(await_puback') = Len(await_puback)
          /\ \A j \in 1 .. Len(await_puback) :
                await_puback'[j].uid = await_puback[j].uid /\ await_puback'[j].pid = await_puback[j].pid
      BY <2>2, <3>1, AwaitAckDue
    <3> QED BY <1>0, <3>2, SameSound
  <2> QED BY <2>1, <2>2
<1>2. Sound(await_pubrec', AwaitAck, "await_pubrec", stage, pid_of)
  <2>1. CASE UNCHANGED await_pubrec
    BY <1>0, <2>1
  <2>2. ASSUME NEW k \in 1 .. Len(await_pubrec), NEW b \in BOOLEAN,
               await_pubrec' = [await_pubrec EXCEPT ![k].due = b]
        PROVE  Sound(await_pubrec', AwaitAck, "await_pubrec", stage, pid_of)
    <3>1. await_pubrec \in Seq(AwaitAck)
      BY <1>0 DEF Sound
    <3>2. /\ await_pubrec' \in Seq(AwaitAck)
          /\ Len(await_pubrec') = Len(await_pubrec)
          /\ \A j \in 1 .. Len(await_pubrec) :
                await_pubrec'[j].uid = await_pubrec[j].uid /\ await_pubrec'[j].pid = await_pubrec[j].pid
      BY <2>2, <3>1, AwaitAckDue
    <3> QED BY <1>0, <3>2, SameSound
  <2> QED BY <2>1, <2>2
<1>3. Sound(await_pubcomp', AwaitPubcomp, "await_pubcomp", stage, pid_of)
  <2>1. CASE UNCHANGED await_pubcomp
    BY <1>0, <2>1
  <2>2. ASSUME NEW k \in 1 .. Len(await_pubcomp), NEW b \in BOOLEAN,
               await_pubcomp' = [await_pubcomp EXCEPT ![k].due = b]
        PROVE  Sound(await_pubcomp', AwaitPubcomp, "await_pubcomp", stage, pid_of)
    <3>1. await_pubcomp \in Seq(AwaitPubcomp)
      BY <1>0 DEF Sound
    <3>2. /\ await_pubcomp' \in Seq(AwaitPubcomp)
          /\ Len(await_pubcomp') = Len(await_pubcomp)
          /\ \A j \in 1 .. Len(await_pubcomp) :
                await_pubcomp'[j].uid = await_pubcomp[j].uid /\ await_pubcomp'[j].pid = await_pubcomp[j].pid
      BY <2>2, <3>1, AwaitPubcompDue
    <3> QED BY <1>0, <3>2, SameSound
  <2> QED BY <2>1, <2>2
<1>4. QueuesSound'
  BY <1>1, <1>2, <1>3 DEF PubInv, QueuesSound
<1>5. Staged'
  BY DEF PubInv, Staged
<1>6. Pool!PidInv'
  BY PoolStep DEF PubInv, PoolVars
<1> QED BY <1>4, <1>5, <1>6 DEF PubInv

\* resend_publishes and resend_pubrel write an entry again.
LEMMA ResendStep ==
    ASSUME PubInv, resend_puback_entry \/ resend_pubrec_entry \/ resend_pubrel_entry
    PROVE  PubInv'
<1>0. /\ await_puback \in Seq(AwaitAck)
      /\ await_pubrec \in Seq(AwaitAck)
      /\ await_pubcomp \in Seq(AwaitPubcomp)
      /\ i \in Nat \ {0} /\ send_buffer \in Seq(Packets)
  BY DEF PubInv, QueuesSound, Sound, RestTyped
<1>1. /\ UNCHANGED <<pool, next_new_pid, pid_of, stage, done, send_publish, send_pubrel>>
      /\ UNCHANGED <<accepted, recd, sent, pc>> /\ i' = i + 1
  BY DEF resend_puback_entry, resend_pubrec_entry, resend_pubrel_entry, Advance, histVars
<1>2. ASSUME send_buffer' \in Seq(Packets) PROVE RestTyped'
  BY <1>0, <1>1, <1>2 DEF PubInv, RestTyped
<1>3. CASE resend_puback_entry
  <2>1. i \in 1 .. Len(await_puback)
    BY <1>0, <1>3 DEF resend_puback_entry
  <2>2. send_buffer' \in Seq(Packets)
    <3> DEFINE e == await_puback[i]
               p == [type |-> "publish", uid |-> e.uid, pid |-> e.pid, dup |-> e.dup]
    <3>1. e \in AwaitAck
      BY <1>0, <2>1
    <3>2. p \in Packets
      BY <3>1 DEF AwaitAck, Packets
    <3>3. try_write_packet(p)
      BY <1>3 DEF resend_puback_entry, Republish
    <3> HIDE DEF p
    <3> QED BY <1>0, <3>2, <3>3, WriteTyped
  <2>3. /\ await_puback' = [await_puback EXCEPT ![i].due = FALSE]
        /\ UNCHANGED <<await_pubrec, await_pubcomp>>
    BY <1>3 DEF resend_puback_entry
  <2> QED BY <1>1, <1>2, <2>1, <2>2, <2>3, DueStep
<1>4. CASE resend_pubrec_entry
  <2>1. i \in 1 .. Len(await_pubrec)
    BY <1>0, <1>4 DEF resend_pubrec_entry
  <2>2. send_buffer' \in Seq(Packets)
    <3> DEFINE e == await_pubrec[i]
               p == [type |-> "publish", uid |-> e.uid, pid |-> e.pid, dup |-> e.dup]
    <3>1. e \in AwaitAck
      BY <1>0, <2>1
    <3>2. p \in Packets
      BY <3>1 DEF AwaitAck, Packets
    <3>3. try_write_packet(p)
      BY <1>4 DEF resend_pubrec_entry, Republish
    <3> HIDE DEF p
    <3> QED BY <1>0, <3>2, <3>3, WriteTyped
  <2>3. /\ await_pubrec' = [await_pubrec EXCEPT ![i].due = FALSE]
        /\ UNCHANGED <<await_puback, await_pubcomp>>
    BY <1>4 DEF resend_pubrec_entry
  <2> QED BY <1>1, <1>2, <2>1, <2>2, <2>3, DueStep
<1>5. CASE resend_pubrel_entry
  <2>1. i \in 1 .. Len(await_pubcomp)
    BY <1>0, <1>5 DEF resend_pubrel_entry
  <2>2. send_buffer' \in Seq(Packets)
    <3> DEFINE p == [type |-> "pubrel", pid |-> await_pubcomp[i].pid]
    <3>1. await_pubcomp[i] \in AwaitPubcomp
      BY <1>0, <2>1
    <3>2. p \in Packets
      BY <3>1 DEF AwaitPubcomp, Packets
    <3>3. try_write_packet(p)
      BY <1>5 DEF resend_pubrel_entry
    <3> HIDE DEF p
    <3> QED BY <1>0, <3>2, <3>3, WriteTyped
  <2>3. /\ await_pubcomp' = [await_pubcomp EXCEPT ![i].due = FALSE]
        /\ UNCHANGED <<await_puback, await_pubrec>>
    BY <1>5 DEF resend_pubrel_entry
  <2> QED BY <1>1, <1>2, <2>1, <2>2, <2>3, DueStep
<1> QED BY <1>3, <1>4, <1>5

\* Time passes for one entry.
LEMMA ClockStep ==
    ASSUME PubInv, resend_due
    PROVE  PubInv'
<1>1. UNCHANGED <<pool, next_new_pid, pid_of, stage, done, send_publish, send_pubrel>>
  BY DEF resend_due, histVars
<1>2. RestTyped'
  BY DEF resend_due, histVars, loopVars, connVars, PubInv, RestTyped
<1>3. \/ /\ \E k \in 1 .. Len(await_puback) : await_puback' = [await_puback EXCEPT ![k].due = TRUE]
         /\ UNCHANGED <<await_pubrec, await_pubcomp>>
      \/ /\ \E k \in 1 .. Len(await_pubrec) : await_pubrec' = [await_pubrec EXCEPT ![k].due = TRUE]
         /\ UNCHANGED <<await_puback, await_pubcomp>>
      \/ /\ \E k \in 1 .. Len(await_pubcomp) : await_pubcomp' = [await_pubcomp EXCEPT ![k].due = TRUE]
         /\ UNCHANGED <<await_puback, await_pubrec>>
  BY DEF resend_due
<1> QED BY <1>1, <1>2, <1>3, DueStep

\* The steps of send_packets, loop by loop.
LEMMA SendingStep ==
    ASSUME PubInv, Sending
    PROVE  PubInv'
<1>0. {"idle", "publish", "resend_puback", "resend_pubrec", "resend_pubcomp"} \subseteq Phases
  BY DEF Phases
<1>1. CASE send_packets
  BY <1>1, LoopStep
<1>2. CASE send_pending_pubrel
  BY <1>0, <1>2, LoopStep, SendPubrelStep DEF send_pending_pubrel
<1>3. CASE send_pending_publishes
  BY <1>0, <1>3, LoopStep, SendPublishStep DEF send_pending_publishes
<1>4. CASE resend_publishes
  BY <1>0, <1>4, LoopStep, ResendStep DEF resend_publishes, ResendRefused
<1>5. CASE resend_pubrel
  BY <1>0, <1>5, LoopStep, ResendStep DEF resend_pubrel, ResendRefused
<1> QED BY <1>1, <1>2, <1>3, <1>4, <1>5 DEF Sending

\* Every step preserves the inductive invariant.
LEMMA NextPubInv == PubInv /\ [Next]_vars => PubInv'
<1> SUFFICES ASSUME PubInv, [Next]_vars PROVE PubInv'
  OBVIOUS
<1>1. CASE Client
  BY <1>1, PublishStep, EnqueueStep, CancelStep DEF Client
<1>2. CASE Incoming
  BY <1>2, PubackStep, PubrecStep, PubcompStep DEF Incoming
<1>3. CASE Sending
  BY <1>3, SendingStep
<1>4. CASE Connection
  BY <1>4, ConnectionStep
<1>5. CASE resend_due
  BY <1>5, ClockStep
<1>6. CASE UNCHANGED vars
  <2>1. RestTyped'
    BY <1>6 DEF vars, PubInv, RestTyped
  <2> QED BY <1>6, <2>1, Untouched DEF vars, queueVars
<1> QED BY <1>1, <1>2, <1>3, <1>4, <1>5, <1>6 DEF Next

-----------------------------------------------------------------------------
(* What the invariant implies                                                *)

\* The invariant gives the types,
LEMMA InvType ==
    ASSUME PubInv, Flags
    PROVE  TypeOK
<1>1. PidTypeOK /\ pid_of \in [Msgs -> Pids \cup {NoPid}]
  BY PoolTyped DEF PubInv
<1>2. /\ send_publish \in Seq(OwnedPublish)
      /\ await_puback \in Seq(AwaitAck)
      /\ await_pubrec \in Seq(AwaitAck)
      /\ send_pubrel \in Seq(SendPubrel)
      /\ await_pubcomp \in Seq(AwaitPubcomp)
  BY DEF PubInv, QueuesSound, Sound
<1> QED BY <1>1, <1>2, Zenon DEF TypeOK, PubInv, RestTyped, Flags

\* ... the bound on the queues,
LEMMA InvCapacity ==
    ASSUME PubInv
    PROVE  CapacityRespected
BY DEF PubInv, QueuesSound, Sound, CapacityRespected

\* A sound queue holds exactly the messages in its stage, none twice.
LEMMA SoundHolds ==
    ASSUME NEW S, NEW q, NEW st, NEW stg, NEW pids, Sound(q, S, st, stg, pids)
    PROVE  NoneTwice(q) /\ \A m \in Msgs : Holds(q, m) <=> stg[m] = st
<1>1. NoneTwice(q)
  BY DEF Sound, NoneTwice
<1>2. ASSUME NEW m \in Msgs PROVE Holds(q, m) <=> stg[m] = st
  BY PublishesAssumption DEF Sound, Holds
<1> QED BY <1>1, <1>2

\* ... that each message is in one place,
LEMMA InvPlace ==
    ASSUME PubInv
    PROVE  InOnePlace
<1>1. /\ NoneTwice(send_publish) /\ \A m \in Msgs : Holds(send_publish, m) <=> stage[m] = "send_publish"
      /\ NoneTwice(await_puback) /\ \A m \in Msgs : Holds(await_puback, m) <=> stage[m] = "await_puback"
      /\ NoneTwice(await_pubrec) /\ \A m \in Msgs : Holds(await_pubrec, m) <=> stage[m] = "await_pubrec"
      /\ NoneTwice(send_pubrel) /\ \A m \in Msgs : Holds(send_pubrel, m) <=> stage[m] = "send_pubrel"
      /\ NoneTwice(await_pubcomp) /\ \A m \in Msgs : Holds(await_pubcomp, m) <=> stage[m] = "await_pubcomp"
  BY SoundHolds DEF PubInv, QueuesSound
<1>2. \A m \in Msgs : done[m] = IF stage[m] = "done" THEN 1 ELSE 0
  BY DEF PubInv, Staged
<1> QED BY <1>1, <1>2 DEF InOnePlace

\* ... and that packet ids in flight are unshared.
LEMMA InvUnshared ==
    ASSUME PubInv
    PROVE  PidsUnshared
<1> SUFFICES ASSUME NEW m \in Msgs, InFlight(m), Qos[m] > 0
             PROVE  /\ pid_of[m] # NoPid
                    /\ \A n \in Msgs : InFlight(n) /\ pid_of[n] = pid_of[m] => n = m
                    /\ \A k \in 1 .. Len(pool) : pool[k] # pid_of[m]
  BY DEF PidsUnshared
<1>1. pid_of[m] # NoPid
  BY DEF PubInv, Staged, InFlight
<1>2. Pool!OneOwner
  BY Pool!PidInvImplies, PidAssumption DEF PubInv
<1>3. \A n \in Msgs : InFlight(n) /\ pid_of[n] = pid_of[m] => n = m
  BY <1>1, <1>2 DEF Pool!OneOwner, NoPid, Pool!NoPid
<1>4. \A k \in 1 .. Len(pool) : pool[k] # pid_of[m]
  BY <1>1, <1>2 DEF Pool!OneOwner, Pool!Pooled, Pool!HeldPids, NoPid, Pool!NoPid
<1> QED BY <1>1, <1>3, <1>4

\* The two Boolean variables.
LEMMA InitFlags == Init => Flags
BY Zenon DEF Init, LinkInit, Flags

\* A flag is kept or assigned a truth value by every step.
LEMMA NextFlags == Flags /\ [Next]_vars => Flags'
<1> SUFFICES ASSUME Flags, [Next]_vars PROVE connected' \in BOOLEAN /\ panicked' \in BOOLEAN
  BY DEF Flags
<1>1. connected' = connected \/ connected' = TRUE \/ connected' = FALSE
  <2>1. CASE Client
    BY <2>1, Zenon DEF Client, publish, publish_enqueue, cancel, connVars
  <2>2. CASE Incoming
    BY <2>2, Zenon DEF Incoming, process_puback, process_pubrec, process_pubcomp, UnexpectedAck,
                       set_error, connVars
  <2>3. CASE Sending
    BY <2>3, Zenon DEF Sending, send_packets, send_pending_pubrel, send_pubrel_entry,
           send_pubrel_skip, PartiallySent, Continue, send_pending_publishes, send_publish_entry,
           send_publish_skip, resend_publishes, resend_puback_entry, resend_pubrec_entry,
           ResendSkip, ResendRefused, Republish, resend_pubrel, resend_pubrel_entry,
           try_write_packet, connVars
  <2>4. CASE Connection
    BY <2>4, Zenon DEF Connection, Transmit, connection_error, connect, write_to_network,
                       set_error, reconnect
  <2>5. CASE resend_due \/ UNCHANGED vars
    BY <2>5, Zenon DEF resend_due, connVars, vars
  <2> QED BY <2>1, <2>2, <2>3, <2>4, <2>5 DEF Next
<1>2. panicked' = panicked \/ panicked' = TRUE
  <2>1. CASE Client
    BY <2>1, Zenon DEF Client, publish, publish_enqueue, cancel
  <2>2. CASE Incoming
    BY <2>2, Zenon DEF Incoming, process_puback, process_pubrec, process_pubcomp
  <2>3. CASE Sending
    BY <2>3, Zenon DEF Sending, send_packets, send_pending_pubrel, send_pubrel_entry,
           send_pubrel_skip, PartiallySent, Continue, send_pending_publishes, send_publish_entry,
           send_publish_skip, resend_publishes, resend_puback_entry, resend_pubrec_entry,
           ResendSkip, ResendRefused, resend_pubrel, resend_pubrel_entry
  <2>4. CASE Connection
    BY <2>4, Zenon DEF Connection, Transmit, connection_error, connect
  <2>5. CASE resend_due \/ UNCHANGED vars
    BY <2>5, Zenon DEF resend_due, vars
  <2> QED BY <2>1, <2>2, <2>3, <2>4, <2>5 DEF Next
<1> QED BY <1>1, <1>2, Zenon DEF Flags

\* Every step is a step of PidUsers or leaves the packet ids alone.
LEMMA NextPool == PubInv /\ [Next]_vars => Pool!Next \/ UNCHANGED PoolVars
<1> SUFFICES ASSUME PubInv, [Next]_vars PROVE Pool!Next \/ UNCHANGED PoolVars
  OBVIOUS
<1>1. ASSUME NEW m \in Msgs, publish(m) PROVE Pool!Next \/ UNCHANGED PoolVars
  BY <1>1, PublishTakes
<1>2. ASSUME NEW m \in Msgs, publish_enqueue(m) \/ cancel(m) PROVE UNCHANGED PoolVars
  BY <1>2 DEF publish_enqueue, cancel, PoolVars
<1>3. ASSUME NEW pid \in Pids, process_puback(pid) PROVE Pool!Next \/ UNCHANGED PoolVars
  <2>1. CASE UnexpectedAck
    BY <2>1 DEF UnexpectedAck, PoolVars
  <2>2. CASE ~UnexpectedAck
    <3>1. PICK k \in 1 .. Len(await_puback) :
             /\ free_pid(await_puback[k].pid)
             /\ pid_of' = [pid_of EXCEPT ![await_puback[k].uid] = NoPid]
      BY <1>3, <2>2 DEF process_puback
    <3> DEFINE m == await_puback[k].uid
    <3>2. Sound(await_puback, AwaitAck, "await_puback", stage, pid_of)
      BY DEF PubInv, QueuesSound
    <3>3. await_puback[k] \in AwaitAck
      BY <3>2 DEF Sound
    <3>4. m \in Msgs /\ m # NoMsg
      BY <3>3, PublishesAssumption DEF AwaitAck
    <3>5. stage[m] = "await_puback" /\ await_puback[k].pid = pid_of[m]
      BY <3>2, <3>4 DEF Sound
    <3>6. pid_of[m] # NoPid
      BY <3>4, <3>5 DEF PubInv, Staged
    <3>7. free_pid(pid_of[m]) /\ pid_of' = [pid_of EXCEPT ![m] = NoPid]
      BY <3>1, <3>5
    <3> HIDE DEF m
    <3> QED BY <3>4, <3>6, <3>7, AckReturns
  <2> QED BY <2>1, <2>2
<1>4. ASSUME NEW pid \in Pids, process_pubcomp(pid) PROVE Pool!Next \/ UNCHANGED PoolVars
  <2>1. CASE UnexpectedAck
    BY <2>1 DEF UnexpectedAck, PoolVars
  <2>2. CASE ~UnexpectedAck
    <3>1. PICK k \in 1 .. Len(await_pubcomp) :
             /\ free_pid(await_pubcomp[k].pid)
             /\ pid_of' = [pid_of EXCEPT ![await_pubcomp[k].uid] = NoPid]
      BY <1>4, <2>2 DEF process_pubcomp
    <3> DEFINE m == await_pubcomp[k].uid
    <3>2. Sound(await_pubcomp, AwaitPubcomp, "await_pubcomp", stage, pid_of)
      BY DEF PubInv, QueuesSound
    <3>3. await_pubcomp[k] \in AwaitPubcomp
      BY <3>2 DEF Sound
    <3>4. m \in Msgs /\ m # NoMsg
      BY <3>3, PublishesAssumption DEF AwaitPubcomp
    <3>5. stage[m] = "await_pubcomp" /\ await_pubcomp[k].pid = pid_of[m]
      BY <3>2, <3>4 DEF Sound
    <3>6. pid_of[m] # NoPid
      BY <3>4, <3>5 DEF PubInv, Staged
    <3>7. free_pid(pid_of[m]) /\ pid_of' = [pid_of EXCEPT ![m] = NoPid]
      BY <3>1, <3>5
    <3> HIDE DEF m
    <3> QED BY <3>4, <3>6, <3>7, AckReturns
  <2> QED BY <2>1, <2>2
<1>5. ASSUME NEW pid \in Pids, process_pubrec(pid) PROVE UNCHANGED PoolVars
  BY <1>5 DEF process_pubrec, PoolVars
<1>6. CASE Sending
  BY <1>6, Zenon DEF Sending, send_packets, send_pending_pubrel, send_pubrel_entry,
         send_pubrel_skip, PartiallySent, Continue, send_pending_publishes, send_publish_entry,
         send_publish_skip, resend_publishes, resend_puback_entry, resend_pubrec_entry,
         ResendSkip, ResendRefused, resend_pubrel, resend_pubrel_entry, PoolVars
<1>7. CASE Connection
  BY <1>7 DEF Connection, Transmit, connection_error, connect, PoolVars
<1>8. CASE resend_due \/ UNCHANGED vars
  BY <1>8 DEF resend_due, vars, PoolVars
<1> QED BY <1>1, <1>2, <1>3, <1>4, <1>5, <1>6, <1>7, <1>8 DEF Next, Client, Incoming

\* Pool and PidPool are the same instance of PidUsers.
LEMMA SamePool ==
    /\ Init => PidPool!Init
    /\ Pool!Next \/ UNCHANGED PoolVars => [PidPool!Next]_(PidPool!vars)
<1>1. Init => PidPool!Init
  BY DEF Init, PidInit, PidPool!Init, PidPool!PidInit, PidPool!NoPid, NoPid
<1>2. Pool!Next => PidPool!Next
  BY DEF Pool!Next, Pool!Acquire, Pool!Exhaust, Pool!Release, Pool!Abandon, Pool!next_pid,
         Pool!take, Pool!free_pid, Pool!used_complete_pid_pool, Pool!NoPid, Pool!Pids,
         PidPool!Next, PidPool!Acquire, PidPool!Exhaust, PidPool!Release, PidPool!Abandon,
         PidPool!next_pid, PidPool!take, PidPool!free_pid, PidPool!used_complete_pid_pool,
         PidPool!NoPid, PidPool!Pids
<1>3. UNCHANGED PoolVars => UNCHANGED PidPool!vars
  BY DEF PoolVars, PidPool!vars
<1> QED BY <1>1, <1>2, <1>3

-----------------------------------------------------------------------------
(* The theorems                                                              *)

\* The inductive invariant holds in every reachable state.
THEOREM PubInvHolds == Spec => [](PubInv /\ Flags)
BY InitPubInv, NextPubInv, InitFlags, NextFlags, PTL DEF Spec

\* Every variable of publish2.rs keeps its type; in particular no anonymous
\* PUBREL ever reaches await_pubcomp (send_pending_pubrel panics instead).
THEOREM PublishesTyped == Spec => []TypeOK
BY PubInvHolds, InvType, PTL

\* push_unchecked never writes past a queue's array, for every capacity.
THEOREM CapacityHolds == Spec => []CapacityRespected
BY PubInvHolds, InvCapacity, PTL

\* An accepted message is in exactly the queue its handshake has reached and
\* PublishDone is published at most once, whatever acknowledgements arrive.
THEOREM InOnePlaceHolds == Spec => []InOnePlace
BY PubInvHolds, InvPlace, PTL

\* No two publishes in flight share a packet id and none of their ids is in
\* the pool.
THEOREM PidsUnsharedHolds == Spec => []PidsUnshared
BY PubInvHolds, InvUnshared, PTL

\* The publish queues use the pool of pid.rs the way PidUsers prescribes.
THEOREM RefinesPidUsers == Spec => ImplementsPidUsers
<1>1. Spec => PidPool!Init /\ [][PidPool!Next]_(PidPool!vars)
  <2>1. Init => PidPool!Init
    BY SamePool
  <2>2. PubInv /\ [Next]_vars => [PidPool!Next]_(PidPool!vars)
    BY NextPool, SamePool
  <2> QED BY <2>1, <2>2, PubInvHolds, PTL DEF Spec
<1> QED BY <1>1 DEF ImplementsPidUsers, PidPool!Spec

-----------------------------------------------------------------------------
(* Retransmissions                                                           *)

\* Flagged(q, b): the DUP flag of every entry of q is b.
Flagged(q, b) == \A k \in 1 .. Len(q) : q[k].dup = b

\* The stages before the first PUBLISH of a message.
Unsent == {"new", "waiting", "cancelled", "send_publish"}

\* What the flags of the queue entries record: no message of send_publish was
\* written before, every message that waits for its first acknowledgement was.
DupInv ==
    /\ Flagged(send_publish, FALSE)
    /\ Flagged(await_puback, TRUE)
    /\ Flagged(await_pubrec, TRUE)
    /\ \A m \in Msgs : stage[m] \in Unsent => m \notin sent
    /\ \A m \in Msgs : stage[m] \in {"await_puback", "await_pubrec"} => m \in sent

\* A push with the flag.
LEMMA PushFlagged ==
    ASSUME NEW S, NEW q \in Seq(S), NEW e \in S, NEW b, Flagged(q, b), e.dup = b
    PROVE  Flagged(Append(q, e), b)
<1> DEFINE r == Append(q, e)
<1>1. /\ Len(q) \in Nat /\ Len(r) = Len(q) + 1
      /\ \A j \in 1 .. Len(q) : r[j] = q[j]
      /\ r[Len(q) + 1] = e
  BY PushFacts
<1> HIDE DEF r
<1>2. Flagged(r, b)
  BY <1>1 DEF Flagged
<1> QED BY <1>2 DEF r

\* A removal.
LEMMA RemoveFlagged ==
    ASSUME NEW S, NEW q \in Seq(S), NEW k \in 1 .. Len(q), NEW b, Flagged(q, b)
    PROVE  Flagged(Remove(q, k), b)
<1> DEFINE r == Remove(q, k)
<1>1. /\ Len(q) \in Nat /\ Len(r) = Len(q) - 1
      /\ \A j \in 1 .. Len(q) - 1 : r[j] = IF j < k THEN q[j] ELSE q[j + 1]
  BY RemoveFacts
<1> HIDE DEF r
<1>2. Flagged(r, b)
  BY <1>1 DEF Flagged
<1> QED BY <1>2 DEF r

\* A new timestamp keeps the flags.
LEMMA DueFlagged ==
    ASSUME NEW q \in Seq(AwaitAck), NEW k \in 1 .. Len(q), NEW b \in BOOLEAN, NEW d,
           Flagged(q, d)
    PROVE  Flagged([q EXCEPT ![k].due = b], d)
<1>1. q[k] \in AwaitAck
  OBVIOUS
<1>2. [q[k] EXCEPT !.due = b].dup = q[k].dup
  BY <1>1 DEF AwaitAck
<1> DEFINE r == [q EXCEPT ![k].due = b]
<1>3. Len(r) = Len(q) /\ \A j \in 1 .. Len(q) : r[j].dup = q[j].dup
  BY <1>2
<1> HIDE DEF r
<1>4. Flagged(r, d)
  BY <1>3 DEF Flagged
<1> QED BY <1>4 DEF r

\* How a queue of publishes may change in a step without an entry coming in.
Renewed(q, q2) ==
    \/ q2 = q
    \/ \E k \in 1 .. Len(q) : q2 = Remove(q, k)
    \/ \E k \in 1 .. Len(q) : \E b \in BOOLEAN : q2 = [q EXCEPT ![k].due = b]

\* The queues that get no new entry keep their flags.
LEMMA RenewedFlagged ==
    ASSUME NEW q \in Seq(AwaitAck), NEW q2, Renewed(q, q2), NEW d, Flagged(q, d)
    PROVE  Flagged(q2, d)
<1>1. CASE q2 = q
  BY <1>1
<1>2. ASSUME NEW k \in 1 .. Len(q), q2 = Remove(q, k) PROVE Flagged(q2, d)
  BY <1>2, RemoveFlagged
<1>3. ASSUME NEW k \in 1 .. Len(q), NEW b \in BOOLEAN, q2 = [q EXCEPT ![k].due = b]
      PROVE  Flagged(q2, d)
  BY <1>3, DueFlagged
<1> QED BY <1>1, <1>2, <1>3 DEF Renewed

\* A step that accepts or writes no message for the first time.
Later ==
    /\ UNCHANGED <<send_publish, sent>>
    /\ Renewed(await_puback, await_puback') /\ Renewed(await_pubrec, await_pubrec')
    /\ \A m \in Msgs :
          \/ stage'[m] = stage[m]
          \/ stage[m] \in Unsent /\ stage'[m] \in Unsent
          \/ stage'[m] \notin Unsent \cup {"await_puback", "await_pubrec"}

\* Such a step keeps the flags.
LEMMA LaterDup ==
    ASSUME PubInv, DupInv, Later
    PROVE  DupInv'
<1>1. await_puback \in Seq(AwaitAck) /\ await_pubrec \in Seq(AwaitAck)
  BY DEF PubInv, QueuesSound, Sound
<1>2. Flagged(await_puback', TRUE)
  BY <1>1, RenewedFlagged DEF Later, DupInv
<1>3. Flagged(await_pubrec', TRUE)
  BY <1>1, RenewedFlagged DEF Later, DupInv
<1>4. Flagged(send_publish', FALSE)
  BY DEF Later, DupInv
<1>5. \A m \in Msgs : stage'[m] \in Unsent => m \notin sent'
  BY DEF Later, DupInv
<1>6. \A m \in Msgs : stage'[m] \in {"await_puback", "await_pubrec"} => m \in sent'
  BY DEF Later, DupInv, Unsent
<1> QED BY <1>2, <1>3, <1>4, <1>5, <1>6 DEF DupInv

\* Assigning one message a stage.
LEMMA StageSet ==
    ASSUME NEW stg \in [Msgs -> Stages], NEW m, NEW st, NEW n \in Msgs
    PROVE  [stg EXCEPT ![m] = st][n] = IF n = m THEN st ELSE stg[n]
OBVIOUS

\* The acknowledgements.
LEMMA IncomingLater ==
    ASSUME PubInv, Incoming
    PROVE  Later
<1>0. stage \in [Msgs -> Stages]
  BY DEF PubInv, RestTyped
<1>1. PICK pid \in Pids : process_puback(pid) \/ process_pubrec(pid) \/ process_pubcomp(pid)
  BY DEF Incoming
<1>2. UNCHANGED <<send_publish, sent>>
  BY <1>1 DEF process_puback, process_pubrec, process_pubcomp, UnexpectedAck, queueVars
<1>3. Renewed(await_puback, await_puback')
  BY <1>1 DEF process_puback, process_pubrec, process_pubcomp, UnexpectedAck, queueVars, Renewed
<1>4. Renewed(await_pubrec, await_pubrec')
  BY <1>1 DEF process_puback, process_pubrec, process_pubcomp, UnexpectedAck, queueVars, Renewed
<1>5. stage' = stage \/ \E m : \E st \in {"done", "dropped", "send_pubrel"} :
                           stage' = [stage EXCEPT ![m] = st]
  <2>1. CASE process_puback(pid)
    BY <2>1 DEF process_puback, UnexpectedAck, PublishDone
  <2>2. CASE process_pubrec(pid)
    BY <2>2 DEF process_pubrec
  <2>3. CASE process_pubcomp(pid)
    BY <2>3 DEF process_pubcomp, UnexpectedAck, PublishDone
  <2> QED BY <1>1, <2>1, <2>2, <2>3
<1>6. \A m \in Msgs : stage'[m] = stage[m] \/ stage'[m] \in {"done", "dropped", "send_pubrel"}
  BY <1>0, <1>5, StageSet
<1> QED BY <1>2, <1>3, <1>4, <1>6 DEF Later, Unsent

\* Everything but an accepted message and a first PUBLISH.
LEMMA OtherLater ==
    ASSUME PubInv, [Next]_vars,
           ~ \E m \in Msgs : publish_enqueue(m), ~(pc = "publish" /\ send_publish_entry)
    PROVE  Later
<1>0. stage \in [Msgs -> Stages]
  BY DEF PubInv, RestTyped
<1>1. ASSUME NEW m \in Msgs, publish(m) \/ cancel(m)
      PROVE  Later
  <2>1. /\ UNCHANGED <<send_publish, sent, await_puback, await_pubrec>>
        /\ stage[m] \in {"new", "waiting"}
    BY <1>1 DEF publish, cancel, queueVars
  <2>2. PICK st \in {"waiting", "cancelled"} : stage' = [stage EXCEPT ![m] = st]
    BY <1>1 DEF publish, cancel
  <2>3. ASSUME NEW n \in Msgs
        PROVE  \/ stage'[n] = stage[n]
               \/ stage[n] \in Unsent /\ stage'[n] \in Unsent
    BY <1>0, <2>1, <2>2 DEF Unsent
  <2> QED BY <2>1, <2>3 DEF Later, Renewed
<1>2. CASE Incoming
  BY <1>2, IncomingLater
<1>3. CASE Connection \/ UNCHANGED vars
  BY <1>3 DEF Connection, Transmit, connection_error, connect, vars, queueVars, histVars, Later,
              Renewed
<1>4. CASE resend_due
  <2>1. UNCHANGED <<send_publish, sent, stage>>
    BY <1>4 DEF resend_due, histVars
  <2>2. Renewed(await_puback, await_puback') /\ Renewed(await_pubrec, await_pubrec')
    BY <1>4 DEF resend_due, Renewed
  <2> QED BY <2>1, <2>2 DEF Later
<1>5. CASE send_packets
  BY <1>5 DEF send_packets, queueVars, histVars, Later, Renewed
<1>6. CASE send_pending_pubrel
  <2>1. CASE send_pubrel_entry
    <3>1. UNCHANGED <<send_publish, sent, await_puback, await_pubrec>>
      BY <2>1 DEF send_pubrel_entry
    <3>2. stage' = stage \/ \E m : stage' = [stage EXCEPT ![m] = "await_pubcomp"]
      BY <2>1 DEF send_pubrel_entry
    <3>3. \A m \in Msgs : stage'[m] = stage[m] \/ stage'[m] = "await_pubcomp"
      BY <1>0, <3>2, StageSet
    <3> QED BY <3>1, <3>3 DEF Later, Renewed, Unsent
  <2>2. CASE ~send_pubrel_entry
    BY <1>6, <2>2 DEF send_pending_pubrel, send_pubrel_skip, PartiallySent, Continue, queueVars,
                      histVars, Later, Renewed
  <2> QED BY <2>1, <2>2
<1>7. CASE send_pending_publishes
  <2>1. ~send_publish_entry
    BY <1>7 DEF send_pending_publishes
  <2> QED
    BY <1>7, <2>1 DEF send_pending_publishes, send_publish_skip, PartiallySent, Continue,
                      queueVars, histVars, Later, Renewed
<1>8. CASE resend_publishes
  <2>1. UNCHANGED <<send_publish, sent, stage>>
    BY <1>8 DEF resend_publishes, resend_puback_entry, resend_pubrec_entry, ResendSkip,
                ResendRefused, PartiallySent, Continue, queueVars, histVars
  <2>2. i \in Nat \ {0} /\ Len(await_puback) \in Nat /\ Len(await_pubrec) \in Nat
    BY DEF PubInv, RestTyped, QueuesSound, Sound
  <2>3. Renewed(await_puback, await_puback')
    <3>1. CASE resend_puback_entry
      <4>1. i \in 1 .. Len(await_puback) /\ await_puback' = [await_puback EXCEPT ![i].due = FALSE]
        BY <2>2, <3>1 DEF resend_puback_entry
      <4> QED BY <4>1 DEF Renewed
    <3>2. CASE ~resend_puback_entry
      BY <1>8, <3>2 DEF resend_publishes, resend_pubrec_entry, ResendSkip, ResendRefused,
                        PartiallySent, Continue, queueVars, Renewed
    <3> QED BY <3>1, <3>2
  <2>4. Renewed(await_pubrec, await_pubrec')
    <3>1. CASE resend_pubrec_entry
      <4>1. i \in 1 .. Len(await_pubrec) /\ await_pubrec' = [await_pubrec EXCEPT ![i].due = FALSE]
        BY <2>2, <3>1 DEF resend_pubrec_entry
      <4> QED BY <4>1 DEF Renewed
    <3>2. CASE ~resend_pubrec_entry
      BY <1>8, <3>2 DEF resend_publishes, resend_puback_entry, ResendSkip, ResendRefused,
                        PartiallySent, Continue, queueVars, Renewed
    <3> QED BY <3>1, <3>2
  <2> QED BY <2>1, <2>3, <2>4 DEF Later
<1>9. CASE resend_pubrel
  BY <1>9 DEF resend_pubrel, resend_pubrel_entry, ResendSkip, ResendRefused, PartiallySent,
              Continue, queueVars, histVars, Later, Renewed
<1> QED BY <1>1, <1>2, <1>3, <1>4, <1>5, <1>6, <1>7, <1>8, <1>9 DEF Next, Client, Sending

\* An accepted message was never written: its call got its id just before.
LEMMA EnqueueDup ==
    ASSUME PubInv, DupInv, NEW m \in Msgs, publish_enqueue(m)
    PROVE  DupInv'
<1>0. stage \in [Msgs -> Stages] /\ pid_of \in [Msgs -> Pids \cup {NoPid}]
  BY PoolTyped DEF PubInv, RestTyped
<1>1. CASE m \in TooLong
  BY <1>1 DEF publish_enqueue, DupInv
<1>2. CASE m \notin TooLong
  <2> DEFINE e == [uid |-> m, pid |-> pid_of[m], dup |-> FALSE]
  <2>1. /\ send_publish' = Append(send_publish, e) /\ send_publish \in Seq(OwnedPublish)
        /\ UNCHANGED <<await_puback, await_pubrec, sent>>
        /\ stage[m] = "waiting" /\ stage' = [stage EXCEPT ![m] = "send_publish"]
    BY <1>2 DEF publish_enqueue, PubInv, QueuesSound, Sound
  <2>2. e \in OwnedPublish /\ e.dup = FALSE
    BY <1>0 DEF OwnedPublish
  <2> HIDE DEF e
  <2>3. Flagged(send_publish', FALSE)
    BY <2>1, <2>2, PushFlagged DEF DupInv
  <2>4. \A n \in Msgs : \/ stage'[n] = stage[n]
                        \/ stage[n] = "waiting" /\ stage'[n] = "send_publish"
    BY <1>0, <2>1
  <2> QED BY <2>1, <2>3, <2>4 DEF DupInv, Unsent
<1> QED BY <1>1, <1>2

\* A message is written for the first time.
LEMMA FirstSent ==
    ASSUME DupInv, NEW m \in Msgs, NEW st, st \notin Unsent,
           \A n \in Msgs : stage'[n] = IF n = m THEN st ELSE stage[n],
           sent' = sent \cup {m}
    PROVE  /\ \A n \in Msgs : stage'[n] \in Unsent => n \notin sent'
           /\ \A n \in Msgs : stage'[n] \in {"await_puback", "await_pubrec"} => n \in sent'
<1>1. ASSUME NEW n \in Msgs, stage'[n] \in Unsent PROVE n \notin sent'
  <2>1. n # m
    BY <1>1
  <2>2. stage[n] \in Unsent
    BY <1>1, <2>1
  <2> QED BY <2>1, <2>2 DEF DupInv
<1>2. ASSUME NEW n \in Msgs, stage'[n] \in {"await_puback", "await_pubrec"} PROVE n \in sent'
  <2>1. CASE n = m
    BY <2>1
  <2>2. CASE n # m
    BY <1>2, <2>2 DEF DupInv
  <2> QED BY <2>1, <2>2
<1> QED BY <1>1, <1>2

\* The first PUBLISH of a message is not marked, its entry is from then on.
LEMMA SendPublishDup ==
    ASSUME PubInv, DupInv, send_publish_entry
    PROVE  DupInv'
<1> DEFINE current == send_publish[i]
           m == current.uid
           e == AwaitEntry(current)
<1>0. /\ Sound(send_publish, OwnedPublish, "send_publish", stage, pid_of)
      /\ await_puback \in Seq(AwaitAck) /\ await_pubrec \in Seq(AwaitAck)
      /\ send_publish \in Seq(OwnedPublish)
      /\ stage \in [Msgs -> Stages]
  BY DEF PubInv, QueuesSound, Sound, RestTyped
<1>1. i \in 1 .. Len(send_publish) /\ send_publish' = Remove(send_publish, i)
  BY <1>0 DEF send_publish_entry, PubInv, RestTyped
<1>2. current \in OwnedPublish
  BY <1>0, <1>1
<1>3. m \in Msgs /\ m # NoMsg
  BY <1>2, PublishesAssumption DEF OwnedPublish
<1>4. stage[m] = "send_publish" /\ current.pid = pid_of[m]
  BY <1>0, <1>1, <1>3 DEF Sound
<1>5. Flagged(send_publish', FALSE)
  BY <1>0, <1>1, RemoveFlagged DEF DupInv
<1>6. sent' = sent \cup {m}
  BY DEF send_publish_entry
<1>7. Qos[m] > 0 => e \in AwaitAck /\ e.dup = TRUE
  <2>1. Qos[m] > 0 => pid_of[m] # NoPid
    BY <1>3, <1>4 DEF PubInv, Staged
  <2> QED BY <1>2, <1>4, <2>1 DEF AwaitEntry, OwnedPublish, AwaitAck
<1>8. Qos[m] \in {0, 1, 2}
  BY <1>3, PublishesAssumption
<1>9. CASE Qos[m] = 0
  <2>1. /\ stage' = [stage EXCEPT ![m] = "done"] /\ UNCHANGED <<await_puback, await_pubrec>>
    BY <1>9 DEF send_publish_entry, PublishDone
  <2> HIDE DEF m
  <2>2. \A n \in Msgs : stage'[n] = IF n = m THEN "done" ELSE stage[n]
    BY <1>0, <2>1, StageSet
  <2>4. "done" \notin Unsent
    BY DEF Unsent
  <2>5. /\ \A n \in Msgs : stage'[n] \in Unsent => n \notin sent'
        /\ \A n \in Msgs : stage'[n] \in {"await_puback", "await_pubrec"} => n \in sent'
    BY <1>3, <1>6, <2>2, <2>4, FirstSent
  <2> QED BY <1>5, <2>1, <2>2, <2>5 DEF DupInv
<1>10. CASE Qos[m] = 1
  <2>1. /\ stage' = [stage EXCEPT ![m] = "await_puback"] /\ UNCHANGED await_pubrec
        /\ await_puback' = Append(await_puback, e)
    BY <1>10 DEF send_publish_entry
  <2>2. Flagged(await_puback', TRUE)
    <3>1. e \in AwaitAck /\ e.dup = TRUE
      BY <1>7, <1>10
    <3> HIDE DEF e
    <3> QED BY <1>0, <2>1, <3>1, PushFlagged DEF DupInv
  <2> HIDE DEF m
  <2>3. \A n \in Msgs : stage'[n] = IF n = m THEN "await_puback" ELSE stage[n]
    BY <1>0, <2>1, StageSet
  <2>4. "await_puback" \notin Unsent
    BY DEF Unsent
  <2>5. /\ \A n \in Msgs : stage'[n] \in Unsent => n \notin sent'
        /\ \A n \in Msgs : stage'[n] \in {"await_puback", "await_pubrec"} => n \in sent'
    BY <1>3, <1>6, <2>3, <2>4, FirstSent
  <2> QED BY <1>5, <2>1, <2>2, <2>5 DEF DupInv
<1>11. CASE Qos[m] = 2
  <2>1. /\ stage' = [stage EXCEPT ![m] = "await_pubrec"] /\ UNCHANGED await_puback
        /\ await_pubrec' = Append(await_pubrec, e)
    BY <1>11 DEF send_publish_entry
  <2>2. Flagged(await_pubrec', TRUE)
    <3>1. e \in AwaitAck /\ e.dup = TRUE
      BY <1>7, <1>11
    <3> HIDE DEF e
    <3> QED BY <1>0, <2>1, <3>1, PushFlagged DEF DupInv
  <2> HIDE DEF m
  <2>3. \A n \in Msgs : stage'[n] = IF n = m THEN "await_pubrec" ELSE stage[n]
    BY <1>0, <2>1, StageSet
  <2>4. "await_pubrec" \notin Unsent
    BY DEF Unsent
  <2>5. /\ \A n \in Msgs : stage'[n] \in Unsent => n \notin sent'
        /\ \A n \in Msgs : stage'[n] \in {"await_puback", "await_pubrec"} => n \in sent'
    BY <1>3, <1>6, <2>3, <2>4, FirstSent
  <2> QED BY <1>5, <2>1, <2>2, <2>5 DEF DupInv
<1> QED BY <1>8, <1>9, <1>10, <1>11

\* DupInv is inductive.
LEMMA NextDupInv == PubInv /\ DupInv /\ [Next]_vars => DupInv'
<1> SUFFICES ASSUME PubInv, DupInv, [Next]_vars PROVE DupInv'
  OBVIOUS
<1>1. CASE \E m \in Msgs : publish_enqueue(m)
  BY <1>1, EnqueueDup
<1>2. CASE pc = "publish" /\ send_publish_entry
  BY <1>2, SendPublishDup
<1>3. CASE /\ ~ \E m \in Msgs : publish_enqueue(m)
           /\ ~(pc = "publish" /\ send_publish_entry)
  BY <1>3, OtherLater, LaterDup
<1> QED BY <1>1, <1>2, <1>3

\* Initially there are no entries and nothing was written.
LEMMA InitDupInv == Init => DupInv
BY DEF Init, DupInv, Flagged

\* The packet that a write puts at the end of the send buffer.
LEMMA WrittenLast ==
    ASSUME send_buffer \in Seq(Packets), NEW p \in Packets, try_write_packet(p)
    PROVE  send_buffer'[Len(send_buffer')] = p
<1>1. send_buffer' = Append(send_buffer, p)
  BY DEF try_write_packet
<1> QED BY <1>1, PushFacts

\* Only three steps write a PUBLISH.
LEMMA DupStepHolds ==
    ASSUME PubInv, DupInv, [Next]_vars
    PROVE  DupStep
<1>0. /\ send_buffer \in Seq(Packets) /\ i \in Nat \ {0}
      /\ await_puback \in Seq(AwaitAck) /\ await_pubrec \in Seq(AwaitAck)
      /\ send_publish \in Seq(OwnedPublish)
      /\ send_pubrel \in Seq(SendPubrel) /\ await_pubcomp \in Seq(AwaitPubcomp)
      /\ Sound(send_publish, OwnedPublish, "send_publish", stage, pid_of)
      /\ Sound(await_puback, AwaitAck, "await_puback", stage, pid_of)
      /\ Sound(await_pubrec, AwaitAck, "await_pubrec", stage, pid_of)
  BY DEF PubInv, QueuesSound, Sound, RestTyped
<1>1. ASSUME NEW p \in Packets, try_write_packet(p),
             p.type = "publish" => \/ p.dup = TRUE /\ p.uid \in sent
                                   \/ p.dup = FALSE /\ p.uid \notin sent
      PROVE  DupStep
  <2>1. send_buffer'[Len(send_buffer')] = p
    BY <1>0, <1>1, WrittenLast
  <2> QED BY <1>1, <2>1 DEF DupStep
<1>2. ASSUME UNCHANGED send_buffer \/ send_buffer' = <<>>
      PROVE  DupStep
  <2>1. ~(Len(send_buffer') > Len(send_buffer))
    BY <1>0, <1>2
  <2> QED BY <2>1 DEF DupStep
<1>3. CASE send_publish_entry
  <2> DEFINE e == send_publish[i]
             p == [type |-> "publish", uid |-> e.uid, pid |-> e.pid, dup |-> e.dup]
  <2>1. i \in 1 .. Len(send_publish) /\ try_write_packet(p)
    BY <1>0, <1>3 DEF send_publish_entry
  <2>2. e \in OwnedPublish
    BY <1>0, <2>1
  <2>3. p \in Packets
    BY <2>2 DEF OwnedPublish, Packets
  <2>4. e.uid \in Msgs /\ e.uid # NoMsg
    BY <2>2, PublishesAssumption DEF OwnedPublish
  <2>5. stage[e.uid] = "send_publish"
    BY <1>0, <2>1, <2>4 DEF Sound
  <2>6. e.uid \notin sent /\ e.dup = FALSE
    BY <2>1, <2>4, <2>5 DEF DupInv, Flagged, Unsent
  <2>7. p.uid \notin sent /\ p.dup = FALSE
    BY <2>6
  <2> HIDE DEF p
  <2> QED BY <1>1, <2>1, <2>3, <2>7
<1>4. ASSUME NEW q \in {await_puback, await_pubrec}, i <= Len(q), Republish(q[i])
      PROVE  DupStep
  <2> DEFINE e == q[i]
             p == [type |-> "publish", uid |-> e.uid, pid |-> e.pid, dup |-> e.dup]
  <2>1. i \in 1 .. Len(q) /\ try_write_packet(p)
    BY <1>0, <1>4 DEF Republish
  <2>2. e \in AwaitAck
    BY <1>0, <2>1
  <2>3. p \in Packets
    BY <2>2 DEF AwaitAck, Packets
  <2>4. e.uid \in Msgs /\ e.uid # NoMsg
    BY <2>2, PublishesAssumption DEF AwaitAck
  <2>5. stage[e.uid] \in {"await_puback", "await_pubrec"}
    BY <1>0, <1>4, <2>1, <2>4 DEF Sound
  <2>6. e.uid \in sent /\ e.dup = TRUE
    BY <2>1, <2>4, <2>5 DEF DupInv, Flagged
  <2>7. p.uid \in sent /\ p.dup = TRUE
    BY <2>6
  <2> HIDE DEF p
  <2> QED BY <1>1, <2>1, <2>3, <2>7
<1>5. ASSUME NEW pid \in Pids, try_write_packet([type |-> "pubrel", pid |-> pid])
      PROVE  DupStep
  <2> DEFINE p == [type |-> "pubrel", pid |-> pid]
  <2>1. p \in Packets /\ p.type # "publish"
    BY DEF Packets
  <2>2. try_write_packet(p)
    BY <1>5
  <2> HIDE DEF p
  <2> QED BY <1>1, <2>1, <2>2
<1>6. CASE send_pubrel_entry
  <2>1. i \in 1 .. Len(send_pubrel)
    BY <1>0, <1>6 DEF send_pubrel_entry
  <2>2. send_pubrel[i] \in SendPubrel
    BY <1>0, <2>1
  <2>3. send_pubrel[i].pid \in Pids
    BY <2>2 DEF SendPubrel
  <2> QED BY <1>5, <1>6, <2>3 DEF send_pubrel_entry
<1>7. CASE resend_pubrel_entry
  <2>1. i \in 1 .. Len(await_pubcomp)
    BY <1>0, <1>7 DEF resend_pubrel_entry
  <2>2. await_pubcomp[i] \in AwaitPubcomp
    BY <1>0, <2>1
  <2>3. await_pubcomp[i].pid \in Pids
    BY <2>2 DEF AwaitPubcomp
  <2> QED BY <1>5, <1>7, <2>3 DEF resend_pubrel_entry
<1>8. CASE Client \/ Incoming \/ resend_due \/ UNCHANGED vars
  BY <1>2, <1>8 DEF Client, publish, publish_enqueue, cancel, Incoming, process_puback,
         process_pubrec, process_pubcomp, UnexpectedAck, set_error, resend_due, connVars, vars
<1>9. CASE Connection
  <2>1. CASE Transmit
    <3>1. send_buffer # <<>> /\ send_buffer' = Tail(send_buffer)
      BY <2>1 DEF Transmit, write_to_network
    <3>2. ~(Len(send_buffer') > Len(send_buffer))
      BY <1>0, <3>1
    <3> QED BY <3>2 DEF DupStep
  <2>2. CASE connection_error \/ connect
    BY <1>2, <2>2 DEF connection_error, connect, set_error, reconnect
  <2> QED BY <1>9, <2>1, <2>2 DEF Connection
<1>10. CASE /\ Sending
            /\ ~send_publish_entry /\ ~resend_puback_entry /\ ~resend_pubrec_entry
            /\ ~send_pubrel_entry /\ ~resend_pubrel_entry
  BY <1>2, <1>10 DEF Sending, send_packets, send_pending_pubrel, send_pubrel_skip, PartiallySent,
         Continue, send_pending_publishes, send_publish_skip, resend_publishes, ResendSkip,
         ResendRefused, resend_pubrel, connVars
<1>11. CASE resend_puback_entry \/ resend_pubrec_entry
  BY <1>4, <1>11 DEF resend_puback_entry, resend_pubrec_entry
<1> QED BY <1>3, <1>6, <1>7, <1>8, <1>9, <1>10, <1>11 DEF Next

\* On the wire, DUP means exactly "written before", over however many
\* connections: the flag set in the queue entry is never stale.
THEOREM DupMarksRetransmissionHolds == Spec => DupMarksRetransmission
<1>1. Spec => [](PubInv /\ DupInv)
  BY InitPubInv, InitDupInv, NextPubInv, NextDupInv, PTL DEF Spec
<1>2. PubInv /\ DupInv /\ [Next]_vars => [DupStep]_vars
  BY DupStepHolds
<1> QED BY <1>1, <1>2, PTL DEF Spec, DupMarksRetransmission

-----------------------------------------------------------------------------
(* Order                                                                     *)

\* A longer history keeps what was before what.
LEMMA PrecedesGrows ==
    ASSUME NEW h \in Seq(Msgs), NEW x \in Msgs, NEW m, NEW n
    PROVE  /\ Precedes(h, m, n) => Precedes(Append(h, x), m, n)
           /\ In(h, m) => Precedes(Append(h, x), m, x)
<1> DEFINE g == Append(h, x)
<1>1. /\ Len(h) \in Nat /\ Len(g) = Len(h) + 1
      /\ \A j \in 1 .. Len(h) : g[j] = h[j]
      /\ g[Len(h) + 1] = x
  BY PushFacts
<1> HIDE DEF g
<1>2. Precedes(h, m, n) => Precedes(g, m, n)
  BY <1>1 DEF Precedes
<1>3. ASSUME In(h, m) PROVE Precedes(g, m, x)
  <2>1. PICK k \in 1 .. Len(h) : h[k] = m
    BY <1>3 DEF In
  <2>2. k \in 1 .. Len(g) /\ Len(h) + 1 \in 1 .. Len(g) /\ k < Len(h) + 1 /\ g[k] = m
    BY <1>1, <2>1
  <2> QED BY <1>1, <2>2 DEF Precedes
<1> QED BY <1>2, <1>3 DEF g

\* The next message of a history.
LEMMA ListsGrows ==
    ASSUME NEW h \in Seq(Msgs), NEW S, NEW T, NEW x \in Msgs,
           Lists(h, S), x \notin S, \A m \in Msgs : m \in T <=> m \in S \/ m = x
    PROVE  Lists(Append(h, x), T)
<1> DEFINE g == Append(h, x)
<1>1. /\ Len(h) \in Nat /\ Len(g) = Len(h) + 1
      /\ \A j \in 1 .. Len(h) : g[j] = h[j]
      /\ g[Len(h) + 1] = x
  BY PushFacts
<1>2. \A k \in 1 .. Len(h) : h[k] \in Msgs /\ h[k] # x
  BY DEF Lists
<1> HIDE DEF g
<1>3. \A m \in Msgs : m \in T <=> \E k \in 1 .. Len(g) : g[k] = m
  <2> TAKE m \in Msgs
  <2>1. m \in S <=> \E k \in 1 .. Len(h) : h[k] = m
    BY DEF Lists
  <2>2. (\E k \in 1 .. Len(g) : g[k] = m) <=> (\E k \in 1 .. Len(h) : h[k] = m) \/ m = x
    BY <1>1
  <2> QED BY <2>1, <2>2
<1>4. \A k, l \in 1 .. Len(g) : g[k] = g[l] => k = l
  BY <1>1, <1>2 DEF Lists
<1>5. Lists(g, T)
  BY <1>3, <1>4 DEF Lists
<1> QED BY <1>5 DEF g

\* The same messages, described otherwise.
LEMMA ListsSame ==
    ASSUME NEW h, NEW S, NEW T, Lists(h, S), \A m \in Msgs : m \in T <=> m \in S
    PROVE  Lists(h, T)
BY DEF Lists

\* The order of two queues does not change with the history ...
LEMMA OrderGrows ==
    ASSUME NEW h \in Seq(Msgs), NEW x \in Msgs, NEW f, NEW r, NEW S, InOrderOf(h, f, r, S)
    PROVE  InOrderOf(Append(h, x), f, r, S)
<1> DEFINE g == Append(h, x)
<1>1. \A m, n : Precedes(h, m, n) => Precedes(g, m, n)
  BY PrecedesGrows
<1> HIDE DEF g
<1>2. InOrderOf(g, f, r, S)
  BY <1>1 DEF InOrderOf
<1> QED BY <1>2 DEF g

\* ... nor with what is not about the messages.
LEMMA OrderSameUids ==
    ASSUME NEW h, NEW f, NEW r, NEW f2, NEW S, InOrderOf(h, f, r, S),
           Len(f2) = Len(f), \A k \in 1 .. Len(f) : f2[k].uid = f[k].uid
    PROVE  InOrderOf(h, f2, r, S)
BY SMTT(30) DEF InOrderOf

\* A push at the end of the second queue, with the history.
LEMMA OrderPush ==
    ASSUME NEW E, NEW h \in Seq(Msgs), NEW f, NEW r \in Seq(E), NEW e \in E, NEW S,
           InOrderOf(h, f, r, S), e.uid \in Msgs,
           \A k \in 1 .. Len(f) : In(h, f[k].uid),
           \A k \in 1 .. Len(r) : r[k].uid \in S => In(h, r[k].uid)
    PROVE  InOrderOf(Append(h, e.uid), f, Append(r, e), S)
<1> DEFINE g == Append(h, e.uid)
           q == Append(r, e)
<1>1. \A m, n : Precedes(h, m, n) => Precedes(g, m, n)
  BY PrecedesGrows
<1>2. \A m : In(h, m) => Precedes(g, m, e.uid)
  BY PrecedesGrows
<1>3. /\ Len(r) \in Nat /\ Len(q) = Len(r) + 1
      /\ \A j \in 1 .. Len(r) : q[j] = r[j]
      /\ q[Len(r) + 1] = e
  BY PushFacts
<1> HIDE DEF g, q
<1>4. \A k, l \in 1 .. Len(f) : k < l => Precedes(g, f[k].uid, f[l].uid)
  BY <1>1 DEF InOrderOf
<1>5. ASSUME NEW k \in 1 .. Len(f), NEW l \in 1 .. Len(q), q[l].uid \in S
      PROVE  Precedes(g, f[k].uid, q[l].uid)
  <2>1. CASE l = Len(r) + 1
    BY <1>2, <1>3, <2>1
  <2>2. CASE l \in 1 .. Len(r)
    BY <1>1, <1>3, <1>5, <2>2 DEF InOrderOf
  <2> QED BY <1>3, <2>1, <2>2
<1>6. ASSUME NEW k \in 1 .. Len(q), NEW l \in 1 .. Len(q), k < l, q[k].uid \in S, q[l].uid \in S
      PROVE  Precedes(g, q[k].uid, q[l].uid)
  <2>0. k \in 1 .. Len(r)
    BY <1>3, <1>6
  <2>1. CASE l = Len(r) + 1
    BY <1>2, <1>3, <1>6, <2>0, <2>1
  <2>2. CASE l \in 1 .. Len(r)
    BY <1>1, <1>3, <1>6, <2>0, <2>2 DEF InOrderOf
  <2> QED BY <1>3, <2>1, <2>2
<1>7. InOrderOf(g, f, q, S)
  BY <1>4, <1>5, <1>6 DEF InOrderOf
<1> QED BY <1>7 DEF g, q

\* A push of another kind of entry.
LEMMA OrderPushOther ==
    ASSUME NEW E, NEW h, NEW f, NEW r \in Seq(E), NEW e \in E, NEW S,
           InOrderOf(h, f, r, S), e.uid \notin S
    PROVE  InOrderOf(h, f, Append(r, e), S)
<1> DEFINE q == Append(r, e)
<1>3. /\ Len(r) \in Nat /\ Len(q) = Len(r) + 1
      /\ \A j \in 1 .. Len(r) : q[j] = r[j]
      /\ q[Len(r) + 1] = e
  BY PushFacts
<1> HIDE DEF q
<1>4. \A k \in 1 .. Len(q) : q[k].uid \in S => k \in 1 .. Len(r) /\ q[k] = r[k]
  BY <1>3
<1>5. InOrderOf(h, f, q, S)
  BY <1>4 DEF InOrderOf
<1> QED BY <1>5 DEF q

\* An entry leaves the second queue.
LEMMA OrderDropRest ==
    ASSUME NEW E, NEW h, NEW f, NEW r \in Seq(E), NEW k \in 1 .. Len(r), NEW S,
           InOrderOf(h, f, r, S)
    PROVE  InOrderOf(h, f, Remove(r, k), S)
<1> DEFINE q == Remove(r, k)
           at(j) == IF j < k THEN j ELSE j + 1
<1>1. /\ Len(r) \in Nat /\ Len(q) = Len(r) - 1
      /\ \A j \in 1 .. Len(r) - 1 : q[j] = IF j < k THEN r[j] ELSE r[j + 1]
  BY RemoveFacts
<1> HIDE DEF q
<1>2. \A j \in 1 .. Len(q) : at(j) \in 1 .. Len(r) /\ q[j] = r[at(j)]
  BY <1>1
<1>3. \A j, l \in 1 .. Len(q) : j < l => at(j) < at(l)
  BY <1>1
<1> HIDE DEF at
<1>4. InOrderOf(h, f, q, S)
  BY <1>2, <1>3 DEF InOrderOf
<1> QED BY <1>4 DEF q

\* An entry leaves the first queue.
LEMMA OrderDropFirst ==
    ASSUME NEW E, NEW h, NEW f \in Seq(E), NEW r, NEW k \in 1 .. Len(f), NEW S,
           InOrderOf(h, f, r, S)
    PROVE  InOrderOf(h, Remove(f, k), r, S)
<1> DEFINE q == Remove(f, k)
           at(j) == IF j < k THEN j ELSE j + 1
<1>1. /\ Len(f) \in Nat /\ Len(q) = Len(f) - 1
      /\ \A j \in 1 .. Len(f) - 1 : q[j] = IF j < k THEN f[j] ELSE f[j + 1]
  BY RemoveFacts
<1> HIDE DEF q
<1>2. \A j \in 1 .. Len(q) : at(j) \in 1 .. Len(f) /\ q[j] = f[at(j)]
  BY <1>1
<1>3. \A j, l \in 1 .. Len(q) : j < l => at(j) < at(l)
  BY <1>1
<1> HIDE DEF at
<1>4. InOrderOf(h, q, r, S)
  BY <1>2, <1>3 DEF InOrderOf
<1> QED BY <1>4 DEF q

\* An entry moves from the second queue to the end of the first one: in order
\* when no entry of its kind was passed over.
LEMMA OrderMove ==
    ASSUME NEW E, NEW F, NEW h, NEW f \in Seq(F), NEW r \in Seq(E), NEW k \in 1 .. Len(r), NEW S,
           NEW e \in F, e.uid = r[k].uid,
           InOrderOf(h, f, r, S), r[k].uid \in S,
           \A j \in 1 .. Len(r) : j < k => r[j].uid \notin S
    PROVE  InOrderOf(h, Append(f, e), Remove(r, k), S)
<1> DEFINE q == Remove(r, k)
           g == Append(f, e)
           at(j) == IF j < k THEN j ELSE j + 1
<1>0. InOrderOf(h, f, q, S)
  BY OrderDropRest
<1>1. /\ Len(r) \in Nat /\ Len(q) = Len(r) - 1
      /\ \A j \in 1 .. Len(r) - 1 : q[j] = IF j < k THEN r[j] ELSE r[j + 1]
  BY RemoveFacts
<1>2. /\ Len(f) \in Nat /\ Len(g) = Len(f) + 1
      /\ \A j \in 1 .. Len(f) : g[j] = f[j]
      /\ g[Len(f) + 1] = e
  BY PushFacts
<1> HIDE DEF q, g
<1>3. \A j \in 1 .. Len(q) : at(j) \in 1 .. Len(r) /\ at(j) # k /\ q[j] = r[at(j)]
  BY <1>1
<1> HIDE DEF at
<1>4. ASSUME NEW j \in 1 .. Len(g), NEW l \in 1 .. Len(g), j < l
      PROVE  Precedes(h, g[j].uid, g[l].uid)
  <2>0. j \in 1 .. Len(f) /\ g[j] = f[j]
    BY <1>2, <1>4
  <2>1. CASE l = Len(f) + 1
    <3>1. g[l].uid = r[k].uid
      BY <1>2, <2>1
    <3> QED BY <2>0, <3>1 DEF InOrderOf
  <2>2. CASE l \in 1 .. Len(f)
    BY <1>2, <1>4, <2>0, <2>2 DEF InOrderOf
  <2> QED BY <1>2, <2>1, <2>2
<1>5. ASSUME NEW j \in 1 .. Len(g), NEW l \in 1 .. Len(q), q[l].uid \in S
      PROVE  Precedes(h, g[j].uid, q[l].uid)
  <2>1. CASE j = Len(f) + 1
    <3>1. g[j].uid = r[k].uid
      BY <1>2, <2>1
    <3>2. at(l) \in 1 .. Len(r) /\ k < at(l) /\ r[at(l)] = q[l]
      BY <1>3, <1>5
    <3>3. r[at(l)].uid \in S
      BY <1>5, <3>2
    <3>4. Precedes(h, r[k].uid, r[at(l)].uid)
      BY <3>2, <3>3 DEF InOrderOf
    <3> QED BY <3>1, <3>2, <3>4
  <2>2. CASE j \in 1 .. Len(f)
    BY <1>0, <1>2, <1>5, <2>2 DEF InOrderOf
  <2> QED BY <1>2, <2>1, <2>2
<1>6. InOrderOf(h, g, q, S)
  BY <1>0, <1>4, <1>5 DEF InOrderOf
<1> QED BY <1>6 DEF g, q

\* The messages that were accepted, and those whose PUBREC came in.
AcceptedMsgs(stg) == {m \in Msgs : stg[m] \notin {"new", "waiting", "cancelled"}}
ReleasedMsgs(stg) == {m \in OfQos(2) : stg[m] \in {"send_pubrel", "await_pubcomp", "done"}}

\* The entries that the loop over send_publish has passed over have no room in
\* the queue of their QoS.  (QoS 0 is never passed over.)
PassedOver(q, k, a1, a2) ==
    \A l \in 1 .. Len(q) : l < k =>
        \/ Qos[q[l].uid] = 1 /\ IsFull(a1)
        \/ Qos[q[l].uid] = 2 /\ IsFull(a2)

\* What the two sending loops rely on: while one of them runs nobody takes an
\* entry out of an await queue, so what had no room still has none.
LoopInv ==
    /\ pc = "publish" => PassedOver(send_publish, i, await_puback, await_pubrec)
    /\ pc = "pubrel" /\ i > 1 => IsFull(await_pubcomp)

OrderInv == KeepsOrder /\ LoopInv

\* KeepsOrder, with names for the sets.
LEMMA OrderParts ==
    KeepsOrder <=> /\ Lists(accepted, AcceptedMsgs(stage))
                   /\ InOrderOf(accepted, <<>>, send_publish, OfQos(0))
                   /\ InOrderOf(accepted, await_puback, send_publish, OfQos(1))
                   /\ InOrderOf(accepted, await_pubrec, send_publish, OfQos(2))
                   /\ Lists(recd, ReleasedMsgs(stage))
                   /\ InOrderOf(recd, await_pubcomp, send_pubrel, Msgs)
BY DEF KeepsOrder, SameQosInOrder, PubrelInOrder, AcceptedMsgs, ReleasedMsgs

\* The same after a step.
LEMMA OrderPartsNext ==
    KeepsOrder' <=> /\ Lists(accepted', AcceptedMsgs(stage'))
                    /\ InOrderOf(accepted', <<>>, send_publish', OfQos(0))
                    /\ InOrderOf(accepted', await_puback', send_publish', OfQos(1))
                    /\ InOrderOf(accepted', await_pubrec', send_publish', OfQos(2))
                    /\ Lists(recd', ReleasedMsgs(stage'))
                    /\ InOrderOf(recd', await_pubcomp', send_pubrel', Msgs)
BY DEF KeepsOrder, SameQosInOrder, PubrelInOrder, AcceptedMsgs, ReleasedMsgs, OfQos

\* A queue with the same messages at the same places.
SameUids(q, q2) == Len(q2) = Len(q) /\ \A k \in 1 .. Len(q) : q2[k].uid = q[k].uid

\* Steps that move no entry.
LEMMA StillOrder ==
    ASSUME KeepsOrder,
           UNCHANGED <<send_publish, send_pubrel, accepted, recd>>,
           SameUids(await_puback, await_puback'), SameUids(await_pubrec, await_pubrec'),
           SameUids(await_pubcomp, await_pubcomp'),
           \A m \in Msgs : /\ m \in AcceptedMsgs(stage') <=> m \in AcceptedMsgs(stage)
                           /\ m \in ReleasedMsgs(stage') <=> m \in ReleasedMsgs(stage)
    PROVE  KeepsOrder'
<1>1. Lists(accepted', AcceptedMsgs(stage')) /\ Lists(recd', ReleasedMsgs(stage'))
  BY OrderParts, ListsSame
<1>2. InOrderOf(accepted', await_puback', send_publish', OfQos(1))
  BY OrderParts, OrderSameUids DEF SameUids
<1>3. InOrderOf(accepted', await_pubrec', send_publish', OfQos(2))
  BY OrderParts, OrderSameUids DEF SameUids
<1>4. InOrderOf(recd', await_pubcomp', send_pubrel', Msgs)
  BY OrderParts, OrderSameUids DEF SameUids
<1>5. InOrderOf(accepted', <<>>, send_publish', OfQos(0))
  BY OrderParts
<1> QED BY <1>1, <1>2, <1>3, <1>4, <1>5, OrderPartsNext

\* A new timestamp moves nothing.
LEMMA DueSameUids ==
    ASSUME NEW q, NEW k \in 1 .. Len(q), NEW b \in BOOLEAN,
           q \in Seq(AwaitAck) \/ q \in Seq(AwaitPubcomp)
    PROVE  SameUids(q, [q EXCEPT ![k].due = b])
BY AwaitAckDue, AwaitPubcompDue DEF SameUids

\* The loops pass over what has no room, and start again from the beginning.
LEMMA StillLoop ==
    ASSUME PubInv, LoopInv, UNCHANGED send_publish,
           SameUids(await_puback, await_puback'), SameUids(await_pubrec, await_pubrec'),
           SameUids(await_pubcomp, await_pubcomp'),
           \/ pc' \notin {"publish", "pubrel"}
           \/ i' = 1
           \/ UNCHANGED <<pc, i>>
           \/ pc = "publish" /\ pc' = pc /\ send_publish_skip
           \/ pc = "pubrel" /\ pc' = pc /\ send_pubrel_skip
    PROVE  LoopInv'
<1>0. i \in Nat \ {0} /\ send_publish \in Seq(OwnedPublish)
  BY DEF PubInv, RestTyped, QueuesSound, Sound
<1>1. /\ IsFull(await_puback') <=> IsFull(await_puback)
      /\ IsFull(await_pubrec') <=> IsFull(await_pubrec)
      /\ IsFull(await_pubcomp') <=> IsFull(await_pubcomp)
  BY DEF SameUids, IsFull
<1>2. CASE pc' \notin {"publish", "pubrel"}
  BY <1>2 DEF LoopInv
<1>3. CASE i' = 1
  <2>1. PassedOver(send_publish', i', await_puback', await_pubrec')
    BY <1>0, <1>3 DEF PassedOver
  <2> QED BY <1>3, <2>1 DEF LoopInv
<1>4. CASE UNCHANGED <<pc, i>>
  BY <1>1, <1>4 DEF LoopInv, PassedOver
<1>5. CASE pc = "publish" /\ pc' = pc /\ send_publish_skip
  <2>1. /\ i' = i + 1 /\ i <= Len(send_publish) /\ ~has_space(send_publish[i].uid)
        /\ PassedOver(send_publish, i, await_puback, await_pubrec)
    BY <1>5 DEF send_publish_skip, Advance, LoopInv
  <2>2. i \in 1 .. Len(send_publish)
    BY <1>0, <2>1
  <2>3. send_publish[i] \in OwnedPublish
    BY <1>0, <2>2
  <2>4. send_publish[i].uid \in Msgs
    BY <2>3 DEF OwnedPublish
  <2>5. Qos[send_publish[i].uid] \in {0, 1, 2}
    BY <2>4, PublishesAssumption
  <2>6. \/ Qos[send_publish[i].uid] = 1 /\ IsFull(await_puback)
        \/ Qos[send_publish[i].uid] = 2 /\ IsFull(await_pubrec)
    BY <2>1, <2>5 DEF has_space
  <2>7. ASSUME NEW l \in 1 .. Len(send_publish'), l < i'
        PROVE  \/ Qos[send_publish'[l].uid] = 1 /\ IsFull(await_puback')
               \/ Qos[send_publish'[l].uid] = 2 /\ IsFull(await_pubrec')
    <3>1. CASE l = i
      BY <1>1, <2>6, <3>1
    <3>2. CASE l < i
      BY <1>1, <2>1, <3>2 DEF PassedOver
    <3> QED BY <1>0, <2>1, <2>7, <3>1, <3>2
  <2>8. PassedOver(send_publish', i', await_puback', await_pubrec')
    BY <2>7 DEF PassedOver
  <2> QED BY <1>5, <2>8 DEF LoopInv
<1>6. CASE pc = "pubrel" /\ pc' = pc /\ send_pubrel_skip
  BY <1>1, <1>6 DEF send_pubrel_skip, LoopInv
<1> QED BY <1>2, <1>3, <1>4, <1>5, <1>6

\* What the steps below start from.
QueuesTyped ==
    /\ send_publish \in Seq(OwnedPublish)
    /\ await_puback \in Seq(AwaitAck) /\ await_pubrec \in Seq(AwaitAck)
    /\ send_pubrel \in Seq(SendPubrel) /\ await_pubcomp \in Seq(AwaitPubcomp)
    /\ accepted \in Seq(Msgs) /\ recd \in Seq(Msgs)
    /\ i \in Nat \ {0} /\ stage \in [Msgs -> Stages]

\* These are part of PubInv.
LEMMA InvQueuesTyped == PubInv => QueuesTyped
BY DEF PubInv, RestTyped, QueuesSound, Sound, QueuesTyped

\* The messages in the first queues were accepted, and those of the last two
\* queues had their PUBREC.
LEMMA QueuedListed ==
    ASSUME PubInv, KeepsOrder
    PROVE  /\ \A k \in 1 .. Len(send_publish) : In(accepted, send_publish[k].uid)
           /\ \A k \in 1 .. Len(await_puback) : In(accepted, await_puback[k].uid)
           /\ \A k \in 1 .. Len(await_pubrec) : In(accepted, await_pubrec[k].uid)
           /\ \A k \in 1 .. Len(await_pubcomp) : In(recd, await_pubcomp[k].uid)
           /\ \A k \in 1 .. Len(send_pubrel) :
                 send_pubrel[k].uid \in Msgs => In(recd, send_pubrel[k].uid)
<1>1. /\ \A m \in Msgs : m \in AcceptedMsgs(stage) => In(accepted, m)
      /\ \A m \in Msgs : m \in ReleasedMsgs(stage) => In(recd, m)
  BY OrderParts DEF Lists, In
<1>2. ASSUME NEW S, Entries(S), NEW q, NEW st, Sound(q, S, st, stage, pid_of),
             NEW k \in 1 .. Len(q), q[k].uid \in Msgs
      PROVE  stage[q[k].uid] = st
  BY <1>2, PublishesAssumption DEF Sound
<1>3. ASSUME NEW k \in 1 .. Len(send_publish) PROVE In(accepted, send_publish[k].uid)
  <2>1. send_publish[k] \in OwnedPublish
    BY InvQueuesTyped DEF QueuesTyped
  <2>2. send_publish[k].uid \in Msgs
    BY <2>1 DEF OwnedPublish
  <2>3. stage[send_publish[k].uid] = "send_publish"
    BY <1>2, <2>2, EntryKinds DEF PubInv, QueuesSound
  <2> QED BY <1>1, <2>2, <2>3 DEF AcceptedMsgs
<1>4. ASSUME NEW k \in 1 .. Len(await_puback) PROVE In(accepted, await_puback[k].uid)
  <2>1. await_puback[k] \in AwaitAck
    BY InvQueuesTyped DEF QueuesTyped
  <2>2. await_puback[k].uid \in Msgs
    BY <2>1 DEF AwaitAck
  <2>3. stage[await_puback[k].uid] = "await_puback"
    BY <1>2, <2>2, EntryKinds DEF PubInv, QueuesSound
  <2> QED BY <1>1, <2>2, <2>3 DEF AcceptedMsgs
<1>5. ASSUME NEW k \in 1 .. Len(await_pubrec) PROVE In(accepted, await_pubrec[k].uid)
  <2>1. await_pubrec[k] \in AwaitAck
    BY InvQueuesTyped DEF QueuesTyped
  <2>2. await_pubrec[k].uid \in Msgs
    BY <2>1 DEF AwaitAck
  <2>3. stage[await_pubrec[k].uid] = "await_pubrec"
    BY <1>2, <2>2, EntryKinds DEF PubInv, QueuesSound
  <2> QED BY <1>1, <2>2, <2>3 DEF AcceptedMsgs
<1>6. ASSUME NEW k \in 1 .. Len(await_pubcomp) PROVE In(recd, await_pubcomp[k].uid)
  <2>1. await_pubcomp[k] \in AwaitPubcomp
    BY InvQueuesTyped DEF QueuesTyped
  <2>2. await_pubcomp[k].uid \in Msgs
    BY <2>1 DEF AwaitPubcomp
  <2>3. stage[await_pubcomp[k].uid] = "await_pubcomp"
    BY <1>2, <2>2, EntryKinds DEF PubInv, QueuesSound
  <2>4. Qos[await_pubcomp[k].uid] = 2
    BY <2>2, <2>3 DEF PubInv, Staged
  <2> QED BY <1>1, <2>2, <2>3, <2>4 DEF ReleasedMsgs, OfQos
<1>7. ASSUME NEW k \in 1 .. Len(send_pubrel), send_pubrel[k].uid \in Msgs
      PROVE  In(recd, send_pubrel[k].uid)
  <2>3. stage[send_pubrel[k].uid] = "send_pubrel"
    BY <1>2, <1>7, EntryKinds DEF PubInv, QueuesSound
  <2>4. Qos[send_pubrel[k].uid] = 2
    BY <1>7, <2>3 DEF PubInv, Staged
  <2> QED BY <1>1, <1>7, <2>3, <2>4 DEF ReleasedMsgs, OfQos
<1> QED BY <1>3, <1>4, <1>5, <1>6, <1>7

\* The steps of the queues are taken with the mutex, the loops not running.
LEMMA IdleLoop ==
    ASSUME pc = "idle", UNCHANGED pc
    PROVE  LoopInv'
BY DEF LoopInv

\* Accepting a message: it is the last one.
LEMMA EnqueueOrder ==
    ASSUME PubInv, OrderInv, NEW m \in Msgs, publish_enqueue(m)
    PROVE  OrderInv'
<1>0. QueuesTyped /\ KeepsOrder /\ pid_of \in [Msgs -> Pids \cup {NoPid}]
  BY InvQueuesTyped, PoolTyped DEF OrderInv, PubInv
<1>1. LoopInv'
  BY IdleLoop DEF publish_enqueue, loopVars
<1>2. CASE m \in TooLong
  <2>1. /\ UNCHANGED <<send_publish, send_pubrel, accepted, recd>>
        /\ UNCHANGED <<await_puback, await_pubrec, await_pubcomp, stage>>
    BY <1>2 DEF publish_enqueue
  <2> QED BY <1>0, <1>1, <2>1, StillOrder DEF SameUids, OrderInv
<1>3. CASE m \notin TooLong
  <2> DEFINE e == [uid |-> m, pid |-> pid_of[m], dup |-> FALSE]
  <2>1. /\ stage[m] = "waiting" /\ stage' = [stage EXCEPT ![m] = "send_publish"]
        /\ send_publish' = Append(send_publish, e) /\ accepted' = Append(accepted, m)
        /\ UNCHANGED <<await_puback, await_pubrec, send_pubrel, await_pubcomp, recd>>
    BY <1>3 DEF publish_enqueue
  <2>2. e \in OwnedPublish /\ e.uid = m
    BY <1>0 DEF OwnedPublish
  <2> HIDE DEF e
  <2>3. \A n \in Msgs : stage'[n] = IF n = m THEN "send_publish" ELSE stage[n]
    BY <1>0, <2>1 DEF QueuesTyped
  <2>4. Lists(accepted', AcceptedMsgs(stage'))
    <3>1. m \notin AcceptedMsgs(stage)
      BY <2>1 DEF AcceptedMsgs
    <3>2. \A n \in Msgs : n \in AcceptedMsgs(stage') <=> n \in AcceptedMsgs(stage) \/ n = m
      BY <2>3 DEF AcceptedMsgs
    <3> QED BY <1>0, <2>1, <3>1, <3>2, OrderParts, ListsGrows DEF QueuesTyped
  <2>5. Lists(recd', ReleasedMsgs(stage'))
    <3>1. \A n \in Msgs : n \in ReleasedMsgs(stage') <=> n \in ReleasedMsgs(stage)
      BY <2>1, <2>3 DEF ReleasedMsgs
    <3> QED BY <1>0, <2>1, <3>1, OrderParts, ListsSame
  <2>6. ASSUME NEW f, NEW S, InOrderOf(accepted, f, send_publish, S),
               \A k \in 1 .. Len(f) : In(accepted, f[k].uid)
        PROVE  InOrderOf(accepted', f, send_publish', S)
    <3>1. \A k \in 1 .. Len(send_publish) : In(accepted, send_publish[k].uid)
      BY <1>0, QueuedListed
    <3>2. accepted' = Append(accepted, e.uid) /\ send_publish' = Append(send_publish, e)
      BY <2>1, <2>2
    <3> QED BY <1>0, <2>2, <2>6, <3>1, <3>2, OrderPush DEF QueuesTyped
  <2>7. InOrderOf(accepted', <<>>, send_publish', OfQos(0))
    BY <1>0, <2>6, OrderParts
  <2>8. InOrderOf(accepted', await_puback', send_publish', OfQos(1))
    BY <1>0, <2>1, <2>6, OrderParts, QueuedListed
  <2>9. InOrderOf(accepted', await_pubrec', send_publish', OfQos(2))
    BY <1>0, <2>1, <2>6, OrderParts, QueuedListed
  <2>10. InOrderOf(recd', await_pubcomp', send_pubrel', Msgs)
    BY <1>0, <2>1, OrderParts
  <2> QED BY <1>1, <2>4, <2>5, <2>7, <2>8, <2>9, <2>10, OrderPartsNext DEF OrderInv
<1> QED BY <1>2, <1>3

\* A call starts or is dropped: nothing is accepted.
LEMMA CallOrder ==
    ASSUME PubInv, OrderInv, NEW m \in Msgs, publish(m) \/ cancel(m)
    PROVE  OrderInv'
<1>0. QueuesTyped /\ KeepsOrder /\ LoopInv
  BY InvQueuesTyped DEF OrderInv
<1>1. /\ UNCHANGED <<send_publish, send_pubrel, accepted, recd, pc, i>>
      /\ UNCHANGED <<await_puback, await_pubrec, await_pubcomp>>
      /\ stage[m] \in {"new", "waiting"}
  BY DEF publish, cancel, queueVars, loopVars
<1>2. PICK st \in {"waiting", "cancelled"} : stage' = [stage EXCEPT ![m] = st]
  BY DEF publish, cancel
<1>3. \A n \in Msgs : stage'[n] = IF n = m THEN st ELSE stage[n]
  BY <1>0, <1>2 DEF QueuesTyped
<1>4. \A n \in Msgs : /\ n \in AcceptedMsgs(stage') <=> n \in AcceptedMsgs(stage)
                      /\ n \in ReleasedMsgs(stage') <=> n \in ReleasedMsgs(stage)
  BY <1>1, <1>3 DEF AcceptedMsgs, ReleasedMsgs
<1>5. KeepsOrder'
  BY <1>0, <1>1, <1>4, StillOrder DEF SameUids
<1>6. LoopInv'
  BY <1>0, <1>1 DEF LoopInv, PassedOver
<1> QED BY <1>5, <1>6 DEF OrderInv

\* A PUBACK takes an entry out of await_puback.
LEMMA PubackOrder ==
    ASSUME PubInv, OrderInv, NEW pid \in Pids, process_puback(pid)
    PROVE  OrderInv'
<1>0. QueuesTyped /\ KeepsOrder
  BY InvQueuesTyped DEF OrderInv
<1>1. LoopInv'
  BY IdleLoop DEF process_puback, Processing, loopVars
<1>2. CASE UnexpectedAck
  <2>1. /\ UNCHANGED <<send_publish, send_pubrel, accepted, recd>>
        /\ UNCHANGED <<await_puback, await_pubrec, await_pubcomp, stage>>
    BY <1>2 DEF process_puback, UnexpectedAck, queueVars
  <2> QED BY <1>0, <1>1, <2>1, StillOrder DEF SameUids, OrderInv
<1>3. CASE ~UnexpectedAck
  <2>1. PICK k \in 1 .. Len(await_puback) :
           /\ await_puback' = Remove(await_puback, k)
           /\ stage' = [stage EXCEPT ![await_puback[k].uid] = "done"]
           /\ UNCHANGED <<send_publish, await_pubrec, send_pubrel, await_pubcomp>>
    BY <1>3 DEF process_puback, PublishDone
  <2>2. UNCHANGED <<accepted, recd>>
    BY DEF process_puback
  <2> DEFINE m == await_puback[k].uid
  <2>3. await_puback[k] \in AwaitAck
    BY <1>0 DEF QueuesTyped
  <2>4. m \in Msgs /\ m # NoMsg
    BY <2>3, PublishesAssumption DEF AwaitAck
  <2>5. stage[m] = "await_puback" /\ Qos[m] = 1
    <3>1. stage[m] = "await_puback"
      BY <2>4 DEF PubInv, QueuesSound, Sound
    <3> QED BY <2>4, <3>1 DEF PubInv, Staged
  <2>6. \A n \in Msgs : stage'[n] = IF n = m THEN "done" ELSE stage[n]
    BY <1>0, <2>1 DEF QueuesTyped
  <2> HIDE DEF m
  <2>7. \A n \in Msgs : /\ n \in AcceptedMsgs(stage') <=> n \in AcceptedMsgs(stage)
                        /\ n \in ReleasedMsgs(stage') <=> n \in ReleasedMsgs(stage)
    BY <2>4, <2>5, <2>6 DEF AcceptedMsgs, ReleasedMsgs, OfQos
  <2>8. Lists(accepted', AcceptedMsgs(stage')) /\ Lists(recd', ReleasedMsgs(stage'))
    BY <1>0, <2>2, <2>7, OrderParts, ListsSame
  <2>9. InOrderOf(accepted', await_puback', send_publish', OfQos(1))
    BY <1>0, <2>1, <2>2, OrderParts, OrderDropFirst DEF QueuesTyped
  <2> QED BY <1>0, <1>1, <2>1, <2>2, <2>8, <2>9, OrderParts, OrderPartsNext DEF OrderInv
<1> QED BY <1>2, <1>3

\* A PUBCOMP takes an entry out of await_pubcomp.
LEMMA PubcompOrder ==
    ASSUME PubInv, OrderInv, NEW pid \in Pids, process_pubcomp(pid)
    PROVE  OrderInv'
<1>0. QueuesTyped /\ KeepsOrder
  BY InvQueuesTyped DEF OrderInv
<1>1. LoopInv'
  BY IdleLoop DEF process_pubcomp, Processing, loopVars
<1>2. CASE UnexpectedAck
  <2>1. /\ UNCHANGED <<send_publish, send_pubrel, accepted, recd>>
        /\ UNCHANGED <<await_puback, await_pubrec, await_pubcomp, stage>>
    BY <1>2 DEF process_pubcomp, UnexpectedAck, queueVars
  <2> QED BY <1>0, <1>1, <2>1, StillOrder DEF SameUids, OrderInv
<1>3. CASE ~UnexpectedAck
  <2>1. PICK k \in 1 .. Len(await_pubcomp) :
           /\ await_pubcomp' = Remove(await_pubcomp, k)
           /\ stage' = [stage EXCEPT ![await_pubcomp[k].uid] = "done"]
           /\ UNCHANGED <<send_publish, await_puback, await_pubrec, send_pubrel>>
    BY <1>3 DEF process_pubcomp, PublishDone
  <2>2. UNCHANGED <<accepted, recd>>
    BY DEF process_pubcomp
  <2> DEFINE m == await_pubcomp[k].uid
  <2>3. await_pubcomp[k] \in AwaitPubcomp
    BY <1>0 DEF QueuesTyped
  <2>4. m \in Msgs /\ m # NoMsg
    BY <2>3, PublishesAssumption DEF AwaitPubcomp
  <2>5. stage[m] = "await_pubcomp" /\ Qos[m] = 2
    <3>1. stage[m] = "await_pubcomp"
      BY <2>4 DEF PubInv, QueuesSound, Sound
    <3> QED BY <2>4, <3>1 DEF PubInv, Staged
  <2>6. \A n \in Msgs : stage'[n] = IF n = m THEN "done" ELSE stage[n]
    BY <1>0, <2>1 DEF QueuesTyped
  <2> HIDE DEF m
  <2>7. \A n \in Msgs : /\ n \in AcceptedMsgs(stage') <=> n \in AcceptedMsgs(stage)
                        /\ n \in ReleasedMsgs(stage') <=> n \in ReleasedMsgs(stage)
    BY <2>4, <2>5, <2>6 DEF AcceptedMsgs, ReleasedMsgs, OfQos
  <2>8. Lists(accepted', AcceptedMsgs(stage')) /\ Lists(recd', ReleasedMsgs(stage'))
    BY <1>0, <2>2, <2>7, OrderParts, ListsSame
  <2>9. InOrderOf(recd', await_pubcomp', send_pubrel', Msgs)
    BY <1>0, <2>1, <2>2, OrderParts, OrderDropFirst DEF QueuesTyped
  <2> QED BY <1>0, <1>1, <2>1, <2>2, <2>8, <2>9, OrderParts, OrderPartsNext DEF OrderInv
<1> QED BY <1>2, <1>3

\* A PUBREC takes an entry out of await_pubrec; its PUBREL is the last one.
LEMMA PubrecOrder ==
    ASSUME PubInv, OrderInv, NEW pid \in Pids, process_pubrec(pid)
    PROVE  OrderInv'
<1>0. QueuesTyped /\ KeepsOrder
  BY InvQueuesTyped DEF OrderInv
<1>1. LoopInv'
  BY IdleLoop DEF process_pubrec, Processing, loopVars
<1>2. UNCHANGED <<send_publish, await_puback, await_pubcomp, accepted>>
  BY DEF process_pubrec
<1>3. ASSUME NEW k \in 1 .. Len(await_pubrec), await_pubrec' = Remove(await_pubrec, k),
             \/ /\ stage' = [stage EXCEPT ![await_pubrec[k].uid] = "dropped"]
                /\ UNCHANGED <<send_pubrel, recd>>
             \/ /\ send_pubrel' = Append(send_pubrel, [uid |-> await_pubrec[k].uid, pid |-> pid])
                /\ stage' = [stage EXCEPT ![await_pubrec[k].uid] = "send_pubrel"]
                /\ recd' = Append(recd, await_pubrec[k].uid)
      PROVE  OrderInv'
  <2> DEFINE m == await_pubrec[k].uid
  <2>1. await_pubrec[k] \in AwaitAck
    BY <1>0 DEF QueuesTyped
  <2>2. m \in Msgs /\ m # NoMsg
    BY <2>1, PublishesAssumption DEF AwaitAck
  <2>3. stage[m] = "await_pubrec" /\ Qos[m] = 2
    <3>1. stage[m] = "await_pubrec"
      BY <2>2 DEF PubInv, QueuesSound, Sound
    <3> QED BY <2>2, <3>1 DEF PubInv, Staged
  <2>4. InOrderOf(accepted', await_pubrec', send_publish', OfQos(2))
    BY <1>0, <1>2, <1>3, OrderParts, OrderDropFirst DEF QueuesTyped
  <2>5. CASE /\ stage' = [stage EXCEPT ![m] = "dropped"]
             /\ UNCHANGED <<send_pubrel, recd>>
    <3> HIDE DEF m
    <3>1. \A n \in Msgs : stage'[n] = IF n = m THEN "dropped" ELSE stage[n]
      BY <1>0, <2>5 DEF QueuesTyped
    <3>2. \A n \in Msgs : /\ n \in AcceptedMsgs(stage') <=> n \in AcceptedMsgs(stage)
                          /\ n \in ReleasedMsgs(stage') <=> n \in ReleasedMsgs(stage)
      BY <2>2, <2>3, <3>1 DEF AcceptedMsgs, ReleasedMsgs, OfQos
    <3>3. Lists(accepted', AcceptedMsgs(stage')) /\ Lists(recd', ReleasedMsgs(stage'))
      BY <1>0, <1>2, <2>5, <3>2, OrderParts, ListsSame
    <3> QED BY <1>0, <1>1, <1>2, <2>4, <2>5, <3>3, OrderParts, OrderPartsNext DEF OrderInv
  <2>6. CASE /\ send_pubrel' = Append(send_pubrel, [uid |-> m, pid |-> pid])
             /\ stage' = [stage EXCEPT ![m] = "send_pubrel"]
             /\ recd' = Append(recd, m)
    <3> DEFINE e == [uid |-> m, pid |-> pid]
    <3>0. e \in SendPubrel /\ e.uid = m
      BY <2>2 DEF SendPubrel
    <3>4. send_pubrel' = Append(send_pubrel, e) /\ recd' = Append(recd, e.uid)
      BY <2>6
    <3> HIDE DEF m, e
    <3>1. \A n \in Msgs : stage'[n] = IF n = m THEN "send_pubrel" ELSE stage[n]
      BY <1>0, <2>6 DEF QueuesTyped
    <3>2. /\ m \notin ReleasedMsgs(stage)
          /\ \A n \in Msgs : /\ n \in AcceptedMsgs(stage') <=> n \in AcceptedMsgs(stage)
                             /\ n \in ReleasedMsgs(stage') <=> n \in ReleasedMsgs(stage) \/ n = m
      BY <2>2, <2>3, <3>1 DEF AcceptedMsgs, ReleasedMsgs, OfQos
    <3>3. Lists(accepted', AcceptedMsgs(stage'))
      BY <1>0, <1>2, <3>2, OrderParts, ListsSame
    <3>5. Lists(recd', ReleasedMsgs(stage'))
      BY <1>0, <2>2, <2>6, <3>2, OrderParts, ListsGrows DEF QueuesTyped
    <3>6. InOrderOf(recd', await_pubcomp', send_pubrel', Msgs)
      <4>1. /\ \A j \in 1 .. Len(await_pubcomp) : In(recd, await_pubcomp[j].uid)
            /\ \A j \in 1 .. Len(send_pubrel) :
                  send_pubrel[j].uid \in Msgs => In(recd, send_pubrel[j].uid)
        BY <1>0, QueuedListed
      <4>2. InOrderOf(recd, await_pubcomp, send_pubrel, Msgs)
        BY <1>0, OrderParts
      <4> QED BY <1>0, <1>2, <2>2, <3>0, <3>4, <4>1, <4>2, OrderPush DEF QueuesTyped
    <3> QED BY <1>0, <1>1, <1>2, <2>4, <3>3, <3>5, <3>6, OrderParts, OrderPartsNext DEF OrderInv
  <2> QED BY <1>3, <2>5, <2>6
<1>4. ASSUME UNCHANGED <<await_pubrec, stage, recd>>,
             \/ UNCHANGED send_pubrel
             \/ send_pubrel' = Append(send_pubrel, [uid |-> NoMsg, pid |-> pid])
      PROVE  OrderInv'
  <2>1. InOrderOf(recd', await_pubcomp', send_pubrel', Msgs)
    <3> DEFINE e == [uid |-> NoMsg, pid |-> pid]
    <3>1. e \in SendPubrel /\ e.uid \notin Msgs
      BY PublishesAssumption DEF SendPubrel
    <3>2. InOrderOf(recd, await_pubcomp, send_pubrel, Msgs)
      BY <1>0, OrderParts
    <3>3. CASE UNCHANGED send_pubrel
      BY <1>2, <1>4, <3>2, <3>3
    <3>4. CASE send_pubrel' = Append(send_pubrel, e)
      <4> HIDE DEF e
      <4> QED BY <1>0, <1>2, <1>4, <3>1, <3>2, <3>4, OrderPushOther DEF QueuesTyped
    <3> QED BY <1>4, <3>3, <3>4
  <2>2. Lists(accepted', AcceptedMsgs(stage')) /\ Lists(recd', ReleasedMsgs(stage'))
    BY <1>0, <1>2, <1>4, OrderParts
  <2> QED BY <1>0, <1>1, <1>2, <1>4, <2>1, <2>2, OrderParts, OrderPartsNext DEF OrderInv
<1> QED BY <1>3, <1>4 DEF process_pubrec

\* The PUBREL at the head of send_pubrel is the next one of await_pubcomp.  No
\* entry before it was passed over: then await_pubcomp would be full.
LEMMA SendPubrelOrder ==
    ASSUME PubInv, OrderInv, pc = "pubrel", send_pubrel_entry
    PROVE  OrderInv'
<1>0. QueuesTyped /\ KeepsOrder /\ LoopInv
  BY InvQueuesTyped DEF OrderInv
<1>1. /\ i \in 1 .. Len(send_pubrel) /\ ~IsFull(await_pubcomp)
      /\ send_pubrel' = Remove(send_pubrel, i)
      /\ UNCHANGED <<send_publish, await_puback, await_pubrec, accepted, recd, pc, i>>
  BY <1>0 DEF send_pubrel_entry, QueuesTyped, loopVars
<1>2. i = 1
  BY <1>0, <1>1 DEF LoopInv, QueuesTyped
<1>3. LoopInv'
  BY <1>1, <1>2 DEF LoopInv
<1>4. InOrderOf(recd, await_pubcomp, send_pubrel, Msgs)
  BY <1>0, OrderParts
<1> DEFINE m == send_pubrel[i].uid
<1>5. CASE m = NoMsg
  <2>1. UNCHANGED <<await_pubcomp, stage>>
    BY <1>5 DEF send_pubrel_entry
  <2>2. InOrderOf(recd', await_pubcomp', send_pubrel', Msgs)
    BY <1>0, <1>1, <1>4, <2>1, OrderDropRest DEF QueuesTyped
  <2> QED BY <1>0, <1>1, <1>3, <2>1, <2>2, OrderParts, OrderPartsNext DEF OrderInv
<1>6. CASE m # NoMsg
  <2> DEFINE e == [uid |-> send_pubrel[i].uid, pid |-> send_pubrel[i].pid, due |-> FALSE]
  <2>1. /\ await_pubcomp' = Append(await_pubcomp, e)
        /\ stage' = [stage EXCEPT ![m] = "await_pubcomp"]
    BY <1>6 DEF send_pubrel_entry
  <2>2. send_pubrel[i] \in SendPubrel
    BY <1>0, <1>1 DEF QueuesTyped
  <2>3. m \in Msgs /\ e \in AwaitPubcomp /\ e.uid = send_pubrel[i].uid
    BY <1>6, <2>2 DEF SendPubrel, AwaitPubcomp
  <2>4. stage[m] = "send_pubrel" /\ Qos[m] = 2
    <3>1. stage[m] = "send_pubrel"
      BY <1>1, <1>6 DEF PubInv, QueuesSound, Sound
    <3> QED BY <2>3, <3>1 DEF PubInv, Staged
  <2> HIDE DEF m, e
  <2>5. \A n \in Msgs : stage'[n] = IF n = m THEN "await_pubcomp" ELSE stage[n]
    BY <1>0, <2>1 DEF QueuesTyped
  <2>6. \A n \in Msgs : /\ n \in AcceptedMsgs(stage') <=> n \in AcceptedMsgs(stage)
                        /\ n \in ReleasedMsgs(stage') <=> n \in ReleasedMsgs(stage)
    BY <2>3, <2>4, <2>5 DEF AcceptedMsgs, ReleasedMsgs, OfQos
  <2>7. Lists(accepted', AcceptedMsgs(stage')) /\ Lists(recd', ReleasedMsgs(stage'))
    BY <1>0, <1>1, <2>6, OrderParts, ListsSame
  <2>8. InOrderOf(recd', await_pubcomp', send_pubrel', Msgs)
    <3>1. \A j \in 1 .. Len(send_pubrel) : j < i => send_pubrel[j].uid \notin Msgs
      BY <1>2
    <3>2. send_pubrel[i].uid \in Msgs
      BY <2>3 DEF m
    <3>3. send_pubrel \in Seq(SendPubrel) /\ await_pubcomp \in Seq(AwaitPubcomp)
      BY <1>0 DEF QueuesTyped
    <3>4. InOrderOf(recd, Append(await_pubcomp, e), Remove(send_pubrel, i), Msgs)
      BY <1>1, <1>4, <2>3, <3>1, <3>2, <3>3, OrderMove
    <3> QED BY <1>1, <2>1, <3>4
  <2> QED BY <1>0, <1>1, <1>3, <2>7, <2>8, OrderParts, OrderPartsNext DEF OrderInv
<1> QED BY <1>5, <1>6

\* What was passed over stays so when the entry after it is sent: the queues in
\* front of it only get longer.
LEMMA StillPassedOver ==
    ASSUME NEW q \in Seq(OwnedPublish), NEW k \in 1 .. Len(q), NEW a1, NEW a2, NEW b1, NEW b2,
           PassedOver(q, k, a1, a2),
           IsFull(a1) => IsFull(b1), IsFull(a2) => IsFull(b2)
    PROVE  PassedOver(Remove(q, k), k, b1, b2)
<1> DEFINE r == Remove(q, k)
<1>1. /\ Len(q) \in Nat /\ Len(r) = Len(q) - 1
      /\ \A j \in 1 .. Len(q) - 1 : r[j] = IF j < k THEN q[j] ELSE q[j + 1]
  BY RemoveFacts
<1> HIDE DEF r
<1>2. \A l \in 1 .. Len(r) : l < k => l \in 1 .. Len(q) /\ r[l] = q[l]
  BY <1>1
<1>3. PassedOver(r, k, b1, b2)
  BY <1>2 DEF PassedOver
<1> QED BY <1>3 DEF r

\* A push makes no queue less full.
LEMMA PushFull ==
    ASSUME NEW S, NEW q \in Seq(S), NEW e \in S
    PROVE  IsFull(q) => IsFull(Append(q, e))
BY PushFacts, PublishesAssumption DEF IsFull

\* A message is written for the first time: no earlier one of its QoS is left
\* behind, for then its await queue would be full.
LEMMA SendPublishOrder ==
    ASSUME PubInv, OrderInv, pc = "publish", send_publish_entry
    PROVE  OrderInv'
<1>0. QueuesTyped /\ KeepsOrder /\ LoopInv
  BY InvQueuesTyped DEF OrderInv
<1> DEFINE m == send_publish[i].uid
           e == AwaitEntry(send_publish[i])
<1>1. /\ i \in 1 .. Len(send_publish) /\ has_space(m)
      /\ send_publish' = Remove(send_publish, i)
      /\ UNCHANGED <<send_pubrel, await_pubcomp, accepted, recd, pc, i>>
  BY <1>0 DEF send_publish_entry, QueuesTyped, loopVars
<1>2. send_publish[i] \in OwnedPublish
  BY <1>0, <1>1 DEF QueuesTyped
<1>3. m \in Msgs /\ e.uid = send_publish[i].uid
  BY <1>2 DEF OwnedPublish, AwaitEntry
<1>4. stage[m] = "send_publish"
  <2>1. m # NoMsg
    BY <1>3, PublishesAssumption
  <2> QED BY <1>1, <2>1 DEF PubInv, QueuesSound, Sound
<1>5. Qos[m] \in {0, 1, 2}
  BY <1>3, PublishesAssumption
<1>6. PassedOver(send_publish, i, await_puback, await_pubrec)
  BY <1>0 DEF LoopInv
<1>7. ASSUME Qos[m] # 0 PROVE e \in AwaitAck
  <2>1. pid_of[m] # NoPid
    BY <1>3, <1>4, <1>7, <1>5 DEF PubInv, Staged
  <2>2. send_publish[i].pid = pid_of[m]
    <3>1. m # NoMsg
      BY <1>3, PublishesAssumption
    <3> QED BY <1>1, <3>1 DEF PubInv, QueuesSound, Sound
  <2>3. send_publish[i].pid \in Pids
    BY <1>2, <2>1, <2>2 DEF OwnedPublish
  <2> QED BY <1>3, <2>3 DEF AwaitEntry, AwaitAck
<1>8. /\ \A h, f, S : InOrderOf(h, f, send_publish, S) => InOrderOf(h, f, send_publish', S)
  BY <1>0, <1>1, OrderDropRest DEF QueuesTyped
<1>9. ASSUME NEW st \in {"done", "await_puback", "await_pubrec"},
             stage' = [stage EXCEPT ![m] = st], st = "done" => Qos[m] # 2
      PROVE  Lists(accepted', AcceptedMsgs(stage')) /\ Lists(recd', ReleasedMsgs(stage'))
  <2> HIDE DEF m
  <2>1. \A n \in Msgs : stage'[n] = IF n = m THEN st ELSE stage[n]
    BY <1>0, <1>9 DEF QueuesTyped
  <2>2. \A n \in Msgs : /\ n \in AcceptedMsgs(stage') <=> n \in AcceptedMsgs(stage)
                        /\ n \in ReleasedMsgs(stage') <=> n \in ReleasedMsgs(stage)
    BY <1>3, <1>4, <1>9, <2>1 DEF AcceptedMsgs, ReleasedMsgs, OfQos
  <2> QED BY <1>0, <1>1, <2>2, OrderParts, ListsSame
<1>10. ASSUME IsFull(await_puback) => IsFull(await_puback'),
              IsFull(await_pubrec) => IsFull(await_pubrec')
       PROVE  LoopInv'
  <2>1. PassedOver(send_publish', i, await_puback', await_pubrec')
    BY <1>0, <1>1, <1>6, <1>10, StillPassedOver DEF QueuesTyped
  <2> QED BY <1>1, <2>1 DEF LoopInv
<1>11. CASE Qos[m] = 0
  <2>1. stage' = [stage EXCEPT ![m] = "done"] /\ UNCHANGED <<await_puback, await_pubrec>>
    BY <1>11 DEF send_publish_entry, PublishDone
  <2>2. Lists(accepted', AcceptedMsgs(stage')) /\ Lists(recd', ReleasedMsgs(stage'))
    BY <1>9, <1>11, <2>1
  <2>3. LoopInv'
    BY <1>10, <2>1
  <2>4. /\ InOrderOf(accepted', <<>>, send_publish', OfQos(0))
        /\ InOrderOf(accepted', await_puback', send_publish', OfQos(1))
        /\ InOrderOf(accepted', await_pubrec', send_publish', OfQos(2))
    BY <1>0, <1>1, <1>8, <2>1, OrderParts
  <2> QED BY <1>0, <1>1, <2>2, <2>3, <2>4, OrderParts, OrderPartsNext DEF OrderInv
<1>12. CASE Qos[m] = 1
  <2>1. /\ stage' = [stage EXCEPT ![m] = "await_puback"]
        /\ await_puback' = Append(await_puback, e) /\ UNCHANGED await_pubrec
    BY <1>12 DEF send_publish_entry
  <2>2. Lists(accepted', AcceptedMsgs(stage')) /\ Lists(recd', ReleasedMsgs(stage'))
    BY <1>9, <1>12, <2>1
  <2>3. e \in AwaitAck
    BY <1>7, <1>12
  <2>4. LoopInv'
    BY <1>0, <1>10, <2>1, <2>3, PushFull DEF QueuesTyped
  <2>5. InOrderOf(accepted', await_puback', send_publish', OfQos(1))
    <3>1. ~IsFull(await_puback)
      BY <1>1, <1>12 DEF has_space
    <3>2. \A l \in 1 .. Len(send_publish) : l < i => send_publish[l].uid \notin OfQos(1)
      BY <1>6, <3>1 DEF PassedOver, OfQos
    <3>3. send_publish[i].uid \in OfQos(1)
      BY <1>3, <1>12 DEF OfQos
    <3>4. /\ send_publish \in Seq(OwnedPublish) /\ await_puback \in Seq(AwaitAck)
          /\ InOrderOf(accepted, await_puback, send_publish, OfQos(1))
      BY <1>0, OrderParts DEF QueuesTyped
    <3> HIDE DEF e, m
    <3>5. InOrderOf(accepted, Append(await_puback, e), Remove(send_publish, i), OfQos(1))
      BY <1>1, <1>3, <2>3, <3>2, <3>3, <3>4, OrderMove
    <3> QED BY <1>1, <2>1, <3>5
  <2>6. /\ InOrderOf(accepted', <<>>, send_publish', OfQos(0))
        /\ InOrderOf(accepted', await_pubrec', send_publish', OfQos(2))
    BY <1>0, <1>1, <1>8, <2>1, OrderParts
  <2> QED BY <1>0, <1>1, <2>2, <2>4, <2>5, <2>6, OrderParts, OrderPartsNext DEF OrderInv
<1>13. CASE Qos[m] = 2
  <2>1. /\ stage' = [stage EXCEPT ![m] = "await_pubrec"]
        /\ await_pubrec' = Append(await_pubrec, e) /\ UNCHANGED await_puback
    BY <1>13 DEF send_publish_entry
  <2>2. Lists(accepted', AcceptedMsgs(stage')) /\ Lists(recd', ReleasedMsgs(stage'))
    BY <1>9, <2>1
  <2>3. e \in AwaitAck
    BY <1>7, <1>13
  <2>4. LoopInv'
    BY <1>0, <1>10, <2>1, <2>3, PushFull DEF QueuesTyped
  <2>5. InOrderOf(accepted', await_pubrec', send_publish', OfQos(2))
    <3>1. ~IsFull(await_pubrec)
      BY <1>1, <1>13 DEF has_space
    <3>2. \A l \in 1 .. Len(send_publish) : l < i => send_publish[l].uid \notin OfQos(2)
      BY <1>6, <3>1 DEF PassedOver, OfQos
    <3>3. send_publish[i].uid \in OfQos(2)
      BY <1>3, <1>13 DEF OfQos
    <3>4. /\ send_publish \in Seq(OwnedPublish) /\ await_pubrec \in Seq(AwaitAck)
          /\ InOrderOf(accepted, await_pubrec, send_publish, OfQos(2))
      BY <1>0, OrderParts DEF QueuesTyped
    <3> HIDE DEF e, m
    <3>5. InOrderOf(accepted, Append(await_pubrec, e), Remove(send_publish, i), OfQos(2))
      BY <1>1, <1>3, <2>3, <3>2, <3>3, <3>4, OrderMove
    <3> QED BY <1>1, <2>1, <3>5
  <2>6. /\ InOrderOf(accepted', <<>>, send_publish', OfQos(0))
        /\ InOrderOf(accepted', await_puback', send_publish', OfQos(1))
    BY <1>0, <1>1, <1>8, <2>1, OrderParts
  <2> QED BY <1>0, <1>1, <2>2, <2>4, <2>5, <2>6, OrderParts, OrderPartsNext DEF OrderInv
<1> QED BY <1>5, <1>11, <1>12, <1>13

\* A step that moves no message.
Unmoved ==
    /\ UNCHANGED <<send_publish, send_pubrel, accepted, recd, stage>>
    /\ SameUids(await_puback, await_puback')
    /\ SameUids(await_pubrec, await_pubrec')
    /\ SameUids(await_pubcomp, await_pubcomp')

\* One that leaves the queues alone.
LEMMA QueuesUnmoved ==
    ASSUME UNCHANGED <<send_publish, await_puback, await_pubrec, send_pubrel, await_pubcomp,
                       accepted, recd, stage>>
    PROVE  Unmoved
BY DEF Unmoved, SameUids

\* Its loop index is 1, unchanged, or one more after an entry without room.
LEMMA UnmovedOrder ==
    ASSUME PubInv, OrderInv, Unmoved,
           \/ pc' \notin {"publish", "pubrel"}
           \/ i' = 1
           \/ UNCHANGED <<pc, i>>
           \/ pc = "publish" /\ pc' = pc /\ send_publish_skip
           \/ pc = "pubrel" /\ pc' = pc /\ send_pubrel_skip
    PROVE  OrderInv'
<1>1. KeepsOrder'
  BY StillOrder DEF OrderInv, Unmoved
<1>2. LoopInv'
  BY StillLoop DEF OrderInv, Unmoved
<1> QED BY <1>1, <1>2 DEF OrderInv

\* A resend rewrites a timestamp and moves on.
LEMMA ResendOrder ==
    ASSUME PubInv, OrderInv, resend_publishes \/ resend_pubrel
    PROVE  OrderInv'
<1>0. QueuesTyped
  BY InvQueuesTyped
<1>1. CASE resend_puback_entry /\ pc = "resend_puback"
  <2>1. /\ i \in 1 .. Len(await_puback) /\ await_puback' = [await_puback EXCEPT ![i].due = FALSE]
        /\ UNCHANGED <<send_publish, await_pubrec, send_pubrel, await_pubcomp>>
        /\ UNCHANGED <<accepted, recd, stage, pc>>
    BY <1>0, <1>1 DEF resend_puback_entry, QueuesTyped, histVars, Advance
  <2>2. SameUids(await_puback, await_puback')
    BY <1>0, <2>1, DueSameUids DEF QueuesTyped
  <2>3. Unmoved
    BY <2>1, <2>2 DEF Unmoved, SameUids
  <2> QED BY <1>1, <2>1, <2>3, UnmovedOrder
<1>2. CASE resend_pubrec_entry /\ pc = "resend_pubrec"
  <2>1. /\ i \in 1 .. Len(await_pubrec) /\ await_pubrec' = [await_pubrec EXCEPT ![i].due = FALSE]
        /\ UNCHANGED <<send_publish, await_puback, send_pubrel, await_pubcomp>>
        /\ UNCHANGED <<accepted, recd, stage, pc>>
    BY <1>0, <1>2 DEF resend_pubrec_entry, QueuesTyped, histVars, Advance
  <2>2. SameUids(await_pubrec, await_pubrec')
    BY <1>0, <2>1, DueSameUids DEF QueuesTyped
  <2>3. Unmoved
    BY <2>1, <2>2 DEF Unmoved, SameUids
  <2> QED BY <1>2, <2>1, <2>3, UnmovedOrder
<1>3. CASE resend_pubrel_entry /\ pc = "resend_pubcomp"
  <2>1. /\ i \in 1 .. Len(await_pubcomp) /\ await_pubcomp' = [await_pubcomp EXCEPT ![i].due = FALSE]
        /\ UNCHANGED <<send_publish, await_puback, await_pubrec, send_pubrel>>
        /\ UNCHANGED <<accepted, recd, stage, pc>>
    BY <1>0, <1>3 DEF resend_pubrel_entry, QueuesTyped, histVars, Advance
  <2>2. SameUids(await_pubcomp, await_pubcomp')
    BY <1>0, <2>1, DueSameUids DEF QueuesTyped
  <2>3. Unmoved
    BY <2>1, <2>2 DEF Unmoved, SameUids
  <2> QED BY <1>3, <2>1, <2>3, UnmovedOrder
<1>4. ASSUME NEW q, NEW next, ResendSkip(q) \/ ResendRefused(q) \/ Continue(q, next),
             pc \in {"resend_puback", "resend_pubrec", "resend_pubcomp"}
      PROVE  OrderInv'
  <2>1. Unmoved
    BY <1>4, QueuesUnmoved DEF ResendSkip, ResendRefused, Continue, PartiallySent, queueVars,
                               histVars
  <2>2. pc' \notin {"publish", "pubrel"} \/ i' = 1
    BY <1>4 DEF ResendSkip, ResendRefused, Continue, PartiallySent, Advance
  <2> QED BY <2>1, <2>2, UnmovedOrder
<1> QED BY <1>1, <1>2, <1>3, <1>4 DEF resend_publishes, resend_pubrel

\* A resend timer expires.
LEMMA ClockOrder ==
    ASSUME PubInv, OrderInv, resend_due
    PROVE  OrderInv'
<1>0. QueuesTyped
  BY InvQueuesTyped
<1>1. /\ UNCHANGED <<send_publish, send_pubrel>>
      /\ UNCHANGED <<accepted, recd, stage, pc, i>>
  BY DEF resend_due, histVars, loopVars
<1>2. CASE /\ \E k \in 1 .. Len(await_puback) :
                 await_puback' = [await_puback EXCEPT ![k].due = TRUE]
           /\ UNCHANGED <<await_pubrec, await_pubcomp>>
  <2>0. PICK k \in 1 .. Len(await_puback) : await_puback' = [await_puback EXCEPT ![k].due = TRUE]
    BY <1>2
  <2>1. SameUids(await_puback, await_puback')
    BY <1>0, <2>0, DueSameUids DEF QueuesTyped
  <2>2. Unmoved
    BY <1>1, <1>2, <2>1 DEF Unmoved, SameUids
  <2> QED BY <1>1, <2>2, UnmovedOrder
<1>3. CASE /\ \E k \in 1 .. Len(await_pubrec) :
                 await_pubrec' = [await_pubrec EXCEPT ![k].due = TRUE]
           /\ UNCHANGED <<await_puback, await_pubcomp>>
  <2>0. PICK k \in 1 .. Len(await_pubrec) : await_pubrec' = [await_pubrec EXCEPT ![k].due = TRUE]
    BY <1>3
  <2>1. SameUids(await_pubrec, await_pubrec')
    BY <1>0, <2>0, DueSameUids DEF QueuesTyped
  <2>2. Unmoved
    BY <1>1, <1>3, <2>1 DEF Unmoved, SameUids
  <2> QED BY <1>1, <2>2, UnmovedOrder
<1>4. CASE /\ \E k \in 1 .. Len(await_pubcomp) :
                 await_pubcomp' = [await_pubcomp EXCEPT ![k].due = TRUE]
           /\ UNCHANGED <<await_puback, await_pubrec>>
  <2>0. PICK k \in 1 .. Len(await_pubcomp) : await_pubcomp' = [await_pubcomp EXCEPT ![k].due = TRUE]
    BY <1>4
  <2>1. SameUids(await_pubcomp, await_pubcomp')
    BY <1>0, <2>0, DueSameUids DEF QueuesTyped
  <2>2. Unmoved
    BY <1>1, <1>4, <2>1 DEF Unmoved, SameUids
  <2> QED BY <1>1, <2>2, UnmovedOrder
<1> QED BY <1>2, <1>3, <1>4 DEF resend_due

\* The loops that send PUBRELs and PUBLISHes for the first time.
LEMMA SendOrder ==
    ASSUME PubInv, OrderInv, send_packets \/ send_pending_pubrel \/ send_pending_publishes
    PROVE  OrderInv'
<1>1. CASE send_packets
  BY <1>1, QueuesUnmoved, UnmovedOrder DEF send_packets, queueVars, histVars
<1>2. ASSUME NEW q, NEW next, PartiallySent \/ Continue(q, next)
      PROVE  OrderInv'
  <2>1. Unmoved
    BY <1>2, QueuesUnmoved DEF Continue, PartiallySent, queueVars, histVars
  <2> QED BY <1>2, <2>1, UnmovedOrder DEF PartiallySent, Continue
<1>3. CASE pc = "pubrel" /\ send_pubrel_skip
  BY <1>3, QueuesUnmoved, UnmovedOrder DEF send_pubrel_skip, Advance, queueVars, histVars
<1>4. CASE pc = "publish" /\ send_publish_skip
  BY <1>4, QueuesUnmoved, UnmovedOrder DEF send_publish_skip, Advance, queueVars, histVars
<1>5. CASE send_pending_pubrel
  BY <1>2, <1>3, <1>5, SendPubrelOrder DEF send_pending_pubrel
<1>6. CASE send_pending_publishes
  BY <1>2, <1>4, <1>6, SendPublishOrder DEF send_pending_publishes
<1> QED BY <1>1, <1>5, <1>6

\* Every step keeps the order.
LEMMA NextOrderInv == PubInv /\ OrderInv /\ [Next]_vars => OrderInv'
<1> SUFFICES ASSUME PubInv, OrderInv, [Next]_vars PROVE OrderInv'
  OBVIOUS
<1>1. CASE Client
  BY <1>1, EnqueueOrder, CallOrder DEF Client
<1>2. CASE Incoming
  BY <1>2, PubackOrder, PubrecOrder, PubcompOrder DEF Incoming
<1>3. CASE Sending
  BY <1>3, SendOrder, ResendOrder DEF Sending
<1>4. CASE Connection
  BY <1>4, QueuesUnmoved, UnmovedOrder
     DEF Connection, Transmit, connection_error, connect, queueVars, loopVars, histVars
<1>5. CASE resend_due
  BY <1>5, ClockOrder
<1>6. CASE UNCHANGED vars
  BY <1>6, QueuesUnmoved, UnmovedOrder DEF vars
<1> QED BY <1>1, <1>2, <1>3, <1>4, <1>5, <1>6 DEF Next

\* No queue has anything yet.
LEMMA InitOrderInv == Init => OrderInv
<1> SUFFICES ASSUME Init PROVE OrderInv
  OBVIOUS
<1>1. LoopInv
  BY DEF Init, LoopInv
<1>2. \A m \in Msgs : m \notin AcceptedMsgs(stage) /\ m \notin ReleasedMsgs(stage)
  BY DEF Init, AcceptedMsgs, ReleasedMsgs, OfQos
<1>3. Lists(accepted, AcceptedMsgs(stage)) /\ Lists(recd, ReleasedMsgs(stage))
  BY <1>2 DEF Init, Lists
<1>4. \A h, S : InOrderOf(h, <<>>, <<>>, S)
  BY DEF InOrderOf
<1>5. KeepsOrder
  BY <1>3, <1>4, OrderParts DEF Init
<1> QED BY <1>1, <1>5 DEF OrderInv

\* Within a QoS messages are first written, and resent, in the order they were
\* accepted, and PUBRELs in the order of the PUBRECs, although the loops of
\* send_packets pass over entries and stop anywhere (send_pending_publishes,
\* send_pending_pubrel).
THEOREM KeepsOrderHolds == Spec => []KeepsOrder
<1>1. PubInv /\ OrderInv /\ [Next]_vars => OrderInv'
  BY NextOrderInv
<1>2. OrderInv => KeepsOrder
  BY DEF OrderInv
<1> QED BY <1>1, <1>2, InitOrderInv, PubInvHolds, PTL DEF Spec

-----------------------------------------------------------------------------
(* The flow to a broker: types                                               *)

Ack == [type : {"puback", "pubrec", "pubcomp"}, pid : Pids]

\* A PUBLISH has a packet id exactly when its QoS asks for an answer.
Addressed == {x \in Packets : x.type = "publish" => (x.pid = NoPid <=> Qos[x.uid] = 0)}

FlowTyped ==
    /\ to_client \in Seq(Ack)
    /\ to_broker \in Seq(Addressed)
    /\ send_buffer \in Seq(Addressed)
    /\ received \in SUBSET Pids
    /\ delivered \in [Msgs -> Nat]
    /\ losses \in Nat
    /\ crossed \in BOOLEAN

\* Where a PUBLISH that was written takes its message.
SentStage(m) ==
    IF Qos[m] = 2 THEN "await_pubrec" ELSE IF Qos[m] = 1 THEN "await_puback" ELSE "done"

\* The fields of a packet.
LEMMA PacketFields ==
    ASSUME NEW x \in Packets
    PROVE  /\ x.type \in {"publish", "pubrel"}
           /\ x.type = "publish" => x.uid \in Msgs /\ x.pid \in Pids \cup {NoPid}
           /\ x.type = "pubrel" => x.pid \in Pids
BY DEF Packets

\* What is written for the first time.
LEMMA SendPublishEffect ==
    ASSUME PubInv, send_publish_entry
    PROVE  \E m \in Msgs, x \in Addressed :
              /\ x.type = "publish" /\ x.uid = m /\ x.pid = pid_of[m]
              /\ i \in 1 .. Len(send_publish) /\ send_publish[i].uid = m
              /\ stage[m] = "send_publish"
              /\ stage' = [stage EXCEPT ![m] = SentStage(m)]
              /\ send_buffer' = Append(send_buffer, x)
              /\ UNCHANGED <<pid_of, panicked, connected, send_pubrel, await_pubcomp, pc>>
<1>0. QueuesTyped
  BY InvQueuesTyped
<1> DEFINE e == send_publish[i]
           m == e.uid
           x == [type |-> "publish", uid |-> m, pid |-> e.pid, dup |-> e.dup]
<1>1. /\ i \in 1 .. Len(send_publish) /\ try_write_packet(x)
      /\ UNCHANGED <<pid_of, panicked, send_pubrel, await_pubcomp, pc>>
  BY <1>0 DEF send_publish_entry, QueuesTyped, loopVars
<1>2. e \in OwnedPublish
  BY <1>0, <1>1 DEF QueuesTyped
<1>3. m \in Msgs /\ x \in Packets /\ x.uid = m /\ x.type = "publish"
  BY <1>2 DEF OwnedPublish, Packets
<1>4. stage[m] = "send_publish" /\ e.pid = pid_of[m]
  <2>1. m # NoMsg
    BY <1>3, PublishesAssumption
  <2> QED BY <1>1, <2>1 DEF PubInv, QueuesSound, Sound
<1>5. x.pid = pid_of[m]
  BY <1>4
<1>6. Qos[m] \in {0, 1, 2}
  BY <1>3, PublishesAssumption
<1>7. x \in Addressed
  <2>1. pid_of[m] = NoPid <=> Qos[m] = 0
    BY <1>3, <1>4, <1>6 DEF PubInv, Staged
  <2> HIDE DEF x, m
  <2> QED BY <1>3, <1>5, <2>1 DEF Addressed
<1>8. stage' = [stage EXCEPT ![m] = SentStage(m)]
  <2>1. CASE Qos[m] = 0
    BY <2>1 DEF send_publish_entry, PublishDone, SentStage
  <2>2. CASE Qos[m] = 1
    BY <2>2 DEF send_publish_entry, SentStage
  <2>3. CASE Qos[m] = 2
    BY <2>3 DEF send_publish_entry, SentStage
  <2> QED BY <1>6, <2>1, <2>2, <2>3
<1>9. send_buffer' = Append(send_buffer, x) /\ UNCHANGED connected
  BY <1>1 DEF try_write_packet
<1> HIDE DEF x
<1> QED BY <1>1, <1>3, <1>4, <1>5, <1>7, <1>8, <1>9

\* What a PUBREL is.
LEMMA PubrelAddressed ==
    ASSUME NEW p \in Pids
    PROVE  [type |-> "pubrel", pid |-> p] \in Addressed
BY DEF Addressed, Packets

\* A PUBREL that is written for the first time; an anonymous one panics.
LEMMA SendPubrelEffect ==
    ASSUME PubInv, send_pubrel_entry
    PROVE  /\ i \in 1 .. Len(send_pubrel)
           /\ send_pubrel[i].pid \in Pids
           /\ send_buffer' = Append(send_buffer, [type |-> "pubrel", pid |-> send_pubrel[i].pid])
           /\ send_pubrel' = Remove(send_pubrel, i)
           /\ ~IsFull(await_pubcomp)
           /\ UNCHANGED <<pid_of, connected, await_puback, await_pubrec, pc, i>>
           /\ \/ /\ send_pubrel[i].uid = NoMsg
                 /\ panicked' = TRUE
                 /\ UNCHANGED <<stage, await_pubcomp>>
              \/ /\ send_pubrel[i].uid \in Msgs
                 /\ stage[send_pubrel[i].uid] = "send_pubrel"
                 /\ pid_of[send_pubrel[i].uid] = send_pubrel[i].pid
                 /\ stage' = [stage EXCEPT ![send_pubrel[i].uid] = "await_pubcomp"]
                 /\ await_pubcomp' = Append(await_pubcomp,
                        [uid |-> send_pubrel[i].uid, pid |-> send_pubrel[i].pid, due |-> FALSE])
                 /\ UNCHANGED panicked
<1>0. QueuesTyped
  BY InvQueuesTyped
<1> DEFINE e == send_pubrel[i]
<1>1. /\ i \in 1 .. Len(send_pubrel) /\ try_write_packet([type |-> "pubrel", pid |-> e.pid])
      /\ send_pubrel' = Remove(send_pubrel, i) /\ ~IsFull(await_pubcomp)
      /\ UNCHANGED <<pid_of, await_puback, await_pubrec, pc, i>>
  BY <1>0 DEF send_pubrel_entry, QueuesTyped, loopVars
<1>2. e \in SendPubrel
  BY <1>0, <1>1 DEF QueuesTyped
<1>3. e.uid \in Msgs \cup {NoMsg} /\ e.pid \in Pids
  BY <1>2 DEF SendPubrel
<1>4. /\ send_buffer' = Append(send_buffer, [type |-> "pubrel", pid |-> e.pid])
      /\ UNCHANGED connected
  BY <1>1 DEF try_write_packet
<1>5. CASE e.uid = NoMsg
  <2>1. panicked' = TRUE /\ UNCHANGED <<stage, await_pubcomp>>
    BY <1>5 DEF send_pubrel_entry
  <2> QED BY <1>1, <1>3, <1>4, <1>5, <2>1
<1>6. CASE e.uid # NoMsg
  <2>1. /\ stage' = [stage EXCEPT ![e.uid] = "await_pubcomp"] /\ UNCHANGED panicked
        /\ await_pubcomp' = Append(await_pubcomp, [uid |-> e.uid, pid |-> e.pid, due |-> FALSE])
    BY <1>6 DEF send_pubrel_entry
  <2>2. stage[e.uid] = "send_pubrel" /\ pid_of[e.uid] = e.pid
    BY <1>1, <1>6 DEF PubInv, QueuesSound, Sound
  <2> QED BY <1>1, <1>3, <1>4, <1>6, <2>1, <2>2
<1> QED BY <1>5, <1>6

\* What is written again, of a queue of PUBLISHes.
LEMMA RepublishEffect ==
    ASSUME PubInv, NEW q, NEW st, st \in {"await_puback", "await_pubrec"},
           Sound(q, AwaitAck, st, stage, pid_of), i <= Len(q), Republish(q[i])
    PROVE  /\ i \in 1 .. Len(q)
           /\ UNCHANGED connected
           /\ \E m \in Msgs, x \in Addressed :
                 /\ x.type = "publish" /\ x.uid = m /\ x.pid = pid_of[m]
                 /\ q[i].uid = m /\ q[i].pid = pid_of[m]
                 /\ stage[m] = st /\ Qos[m] = IF st = "await_puback" THEN 1 ELSE 2
                 /\ send_buffer' = Append(send_buffer, x)
<1> DEFINE e == q[i]
           m == e.uid
           x == [type |-> "publish", uid |-> m, pid |-> e.pid, dup |-> e.dup]
<1>1. i \in 1 .. Len(q) /\ try_write_packet(x)
  BY DEF PubInv, RestTyped, Sound, Republish
<1>2. e \in AwaitAck
  BY <1>1 DEF Sound
<1>3. m \in Msgs /\ x \in Packets /\ x.uid = m /\ x.type = "publish" /\ e.pid \in Pids
  BY <1>2 DEF AwaitAck, Packets
<1>4. stage[m] = st /\ e.pid = pid_of[m]
  <2>1. m # NoMsg
    BY <1>3, PublishesAssumption
  <2> QED BY <1>1, <2>1 DEF Sound
<1>5. x.pid = pid_of[m]
  BY <1>4
<1>6. Qos[m] = IF st = "await_puback" THEN 1 ELSE 2
  BY <1>3, <1>4 DEF PubInv, Staged
<1>7. x \in Addressed
  <2>1. pid_of[m] # NoPid
    BY <1>3, <1>4, <1>6 DEF PubInv, Staged
  <2> HIDE DEF x, m
  <2> QED BY <1>3, <1>5, <1>6, <2>1 DEF Addressed
<1>9. send_buffer' = Append(send_buffer, x) /\ UNCHANGED connected
  BY <1>1 DEF try_write_packet
<1> HIDE DEF x
<1> QED BY <1>1, <1>3, <1>4, <1>5, <1>6, <1>7, <1>9

\* A PUBREL that is written again.
LEMMA ResendPubrelEffect ==
    ASSUME PubInv, resend_pubrel_entry
    PROVE  /\ i \in 1 .. Len(await_pubcomp) /\ await_pubcomp[i].due = TRUE
           /\ await_pubcomp' = [await_pubcomp EXCEPT ![i].due = FALSE]
           /\ UNCHANGED <<connected, panicked, pid_of, stage>>
           /\ \E m \in Msgs :
                 /\ await_pubcomp[i].uid = m /\ await_pubcomp[i].pid = pid_of[m]
                 /\ pid_of[m] \in Pids /\ stage[m] = "await_pubcomp" /\ Qos[m] = 2
                 /\ send_buffer' = Append(send_buffer, [type |-> "pubrel", pid |-> pid_of[m]])
<1>0. QueuesTyped
  BY InvQueuesTyped
<1> DEFINE e == await_pubcomp[i]
           m == e.uid
<1>1. /\ i \in 1 .. Len(await_pubcomp) /\ try_write_packet([type |-> "pubrel", pid |-> e.pid])
      /\ e.due /\ await_pubcomp' = [await_pubcomp EXCEPT ![i].due = FALSE]
      /\ UNCHANGED <<panicked, pid_of, stage>>
  BY <1>0 DEF resend_pubrel_entry, QueuesTyped, histVars
<1>2. e \in AwaitPubcomp
  BY <1>0, <1>1 DEF QueuesTyped
<1>3. m \in Msgs /\ e.pid \in Pids /\ e.due \in BOOLEAN
  BY <1>2 DEF AwaitPubcomp
<1>4. stage[m] = "await_pubcomp" /\ e.pid = pid_of[m]
  <2>1. m # NoMsg
    BY <1>3, PublishesAssumption
  <2> QED BY <1>1, <2>1 DEF PubInv, QueuesSound, Sound
<1>5. Qos[m] = 2
  BY <1>3, <1>4 DEF PubInv, Staged
<1>6. e.due = TRUE
  BY <1>1, <1>3
<1>7. /\ send_buffer' = Append(send_buffer, [type |-> "pubrel", pid |-> pid_of[m]])
      /\ UNCHANGED connected
  BY <1>1, <1>4 DEF try_write_packet
<1> QED BY <1>1, <1>3, <1>4, <1>5, <1>6, <1>7

\* The steps of send_packets: five that write a packet, the others only count.
LEMMA SendingCases ==
    ASSUME Sending
    PROVE  /\ ~panicked
           /\ \/ pc = "pubrel" /\ send_pubrel_entry
              \/ pc = "publish" /\ send_publish_entry
              \/ pc = "resend_puback" /\ resend_puback_entry
              \/ pc = "resend_pubrec" /\ resend_pubrec_entry
              \/ pc = "resend_pubcomp" /\ resend_pubrel_entry
              \/ /\ UNCHANGED <<queueVars, connVars, panicked, pid_of, stage>>
                 /\ pc' = "publish" => pc = "publish" \/ (pc = "pubrel" /\ i > Len(send_pubrel))
<1>1. CASE send_packets
  BY <1>1 DEF send_packets, histVars
<1>2. CASE send_pending_pubrel
  BY <1>2 DEF send_pending_pubrel, send_pubrel_skip, PartiallySent, Continue, Advance, histVars
<1>3. CASE send_pending_publishes
  BY <1>3 DEF send_pending_publishes, send_publish_skip, PartiallySent, Continue, Advance, histVars
<1>4. CASE resend_publishes
  BY <1>4 DEF resend_publishes, ResendSkip, ResendRefused, PartiallySent, Continue, Advance, histVars
<1>5. CASE resend_pubrel
  BY <1>5 DEF resend_pubrel, ResendSkip, ResendRefused, PartiallySent, Continue, Advance, histVars
<1> QED BY <1>1, <1>2, <1>3, <1>4, <1>5 DEF Sending

\* Every step of the client with its network is a step of Publishes.
LEMMA FlowStepIsStep == FlowTyped /\ [FlowNext]_flowVars => [Next]_vars
<1> SUFFICES ASSUME FlowTyped, [FlowNext]_flowVars PROVE [Next]_vars
  OBVIOUS
<1>1. CASE process_packet
  <2>1. to_client # <<>> /\ to_client \in Seq(Ack)
    BY <1>1 DEF process_packet, FlowTyped
  <2>2. Head(to_client) \in Ack
    BY <2>1
  <2>3. Head(to_client).pid \in Pids
    BY <2>2 DEF Ack
  <2>4. Incoming
    BY <1>1, <2>3 DEF process_packet, Incoming
  <2> QED BY <2>4 DEF Next
<1>2. CASE LocalStep
  BY <1>2 DEF LocalStep, Next
<1>3. CASE Send
  BY <1>3 DEF Send, Connection, Next
<1>4. CASE Lose
  BY <1>4 DEF Lose, Connection, Next
<1>5. CASE Connect
  BY <1>5 DEF Connect, Connection, Next
<1>6. CASE Timeout
  BY <1>6 DEF Timeout, Next
<1>7. CASE Broker
  BY <1>7 DEF Broker
<1>8. CASE UNCHANGED flowVars
  BY <1>8 DEF flowVars, vars
<1> QED BY <1>1, <1>2, <1>3, <1>4, <1>5, <1>6, <1>7, <1>8 DEF FlowNext

\* What is written has a packet id when it needs one.
LEMMA SendingTyped ==
    ASSUME PubInv, send_buffer \in Seq(Addressed), Sending
    PROVE  send_buffer' \in Seq(Addressed)
<1>1. CASE send_pubrel_entry
  <2>1. /\ send_pubrel[i].pid \in Pids
        /\ send_buffer' = Append(send_buffer, [type |-> "pubrel", pid |-> send_pubrel[i].pid])
    BY <1>1, SendPubrelEffect
  <2>2. [type |-> "pubrel", pid |-> send_pubrel[i].pid] \in Addressed
    BY <2>1, PubrelAddressed
  <2> QED BY <2>1, <2>2, PushFacts
<1>2. CASE send_publish_entry
  <2>1. PICK x \in Addressed : send_buffer' = Append(send_buffer, x)
    BY <1>2, SendPublishEffect
  <2> QED BY <2>1, PushFacts
<1>3. CASE resend_puback_entry
  <2>0. Sound(await_puback, AwaitAck, "await_puback", stage, pid_of)
    BY DEF PubInv, QueuesSound
  <2>1. PICK x \in Addressed : send_buffer' = Append(send_buffer, x)
    BY <1>3, <2>0, RepublishEffect DEF resend_puback_entry
  <2> QED BY <2>1, PushFacts
<1>4. CASE resend_pubrec_entry
  <2>0. Sound(await_pubrec, AwaitAck, "await_pubrec", stage, pid_of)
    BY DEF PubInv, QueuesSound
  <2>1. PICK x \in Addressed : send_buffer' = Append(send_buffer, x)
    BY <1>4, <2>0, RepublishEffect DEF resend_pubrec_entry
  <2> QED BY <2>1, PushFacts
<1>5. CASE resend_pubrel_entry
  <2>1. PICK m \in Msgs :
           /\ pid_of[m] \in Pids
           /\ send_buffer' = Append(send_buffer, [type |-> "pubrel", pid |-> pid_of[m]])
    BY <1>5, ResendPubrelEffect
  <2>2. [type |-> "pubrel", pid |-> pid_of[m]] \in Addressed
    BY <2>1, PubrelAddressed
  <2> QED BY <2>1, <2>2, PushFacts
<1>6. CASE UNCHANGED send_buffer
  BY <1>6
<1> QED BY <1>1, <1>2, <1>3, <1>4, <1>5, <1>6, SendingCases DEF connVars

\* The broker's answer to a packet.
LEMMA BrokerTyped ==
    ASSUME FlowTyped, Broker
    PROVE  /\ to_client' \in Seq(Ack) /\ to_broker' \in Seq(Addressed)
           /\ received' \in SUBSET Pids /\ delivered' \in [Msgs -> Nat]
<1> DEFINE x == Head(to_broker)
<1>1. /\ to_broker # <<>> /\ to_broker' = Tail(to_broker)
      /\ BrokerPublish(x) \/ BrokerPubrel(x)
      /\ to_broker \in Seq(Addressed) /\ to_client \in Seq(Ack)
      /\ received \in SUBSET Pids /\ delivered \in [Msgs -> Nat]
  BY DEF Broker, FlowTyped
<1>2. x \in Addressed /\ to_broker' \in Seq(Addressed)
  <2>1. to_broker \in Seq(Addressed) /\ to_broker # <<>>
    BY <1>1
  <2>2. Tail(to_broker) \in Seq(Addressed) /\ Head(to_broker) \in Addressed
    BY <2>1, TailFacts
  <2> QED BY <1>1, <2>2
<1>3. x \in Packets
  BY <1>2 DEF Addressed
<1> HIDE DEF x
<1>4. ASSUME NEW t \in {"puback", "pubrec", "pubcomp"}, x.pid \in Pids, Reply(t, x.pid)
      PROVE  to_client' \in Seq(Ack)
  <2>1. [type |-> t, pid |-> x.pid] \in Ack
    BY <1>4 DEF Ack
  <2> QED BY <1>1, <1>4, <2>1, PushFacts DEF Reply
<1>5. CASE BrokerPubrel(x)
  <2>1. x.type = "pubrel" /\ x.pid \in Pids
    BY <1>3, <1>5, PacketFields DEF BrokerPubrel
  <2> QED BY <1>1, <1>2, <1>4, <1>5, <2>1 DEF BrokerPubrel
<1>6. CASE BrokerPublish(x)
  <2>1. x.type = "publish" /\ x.uid \in Msgs /\ x.pid \in Pids \cup {NoPid}
    BY <1>3, <1>6, PacketFields DEF BrokerPublish
  <2>2. Qos[x.uid] \in {0, 1, 2}
    BY <2>1, PublishesAssumption
  <2>3. Qos[x.uid] # 0 => x.pid \in Pids
    BY <1>2, <2>1 DEF Addressed
  <2>4. [delivered EXCEPT ![x.uid] = @ + 1] \in [Msgs -> Nat]
    BY <1>1, <2>1
  <2>5. CASE Qos[x.uid] = 0
    BY <1>1, <1>2, <1>6, <2>4, <2>5 DEF BrokerPublish
  <2>6. CASE Qos[x.uid] = 1
    <3>1. Reply("puback", x.pid) /\ UNCHANGED received /\ delivered' \in [Msgs -> Nat]
      BY <1>6, <2>4, <2>6 DEF BrokerPublish
    <3> QED BY <1>1, <1>2, <1>4, <2>3, <2>6, <3>1
  <2>7. CASE Qos[x.uid] = 2
    <3>1. /\ Reply("pubrec", x.pid) /\ received' = received \cup {x.pid}
          /\ delivered' \in [Msgs -> Nat]
      BY <1>1, <1>6, <2>4, <2>7, SMTT(30) DEF BrokerPublish
    <3> QED BY <1>1, <1>2, <1>4, <2>3, <2>7, <3>1
  <2> QED BY <2>2, <2>5, <2>6, <2>7
<1> QED BY <1>1, <1>5, <1>6

\* The types of the flow are kept by every step.
LEMMA NextFlowTyped == PubInv /\ FlowTyped /\ [FlowNext]_flowVars => FlowTyped'
<1> SUFFICES ASSUME PubInv, FlowTyped, [FlowNext]_flowVars PROVE FlowTyped'
  OBVIOUS
<1>0. /\ to_client \in Seq(Ack) /\ to_broker \in Seq(Addressed) /\ send_buffer \in Seq(Addressed)
      /\ received \in SUBSET Pids /\ delivered \in [Msgs -> Nat]
      /\ losses \in Nat /\ crossed \in BOOLEAN
  BY DEF FlowTyped
<1>1. CASE process_packet
  <2>1. to_client' \in Seq(Ack)
    BY <1>0, <1>1, TailFacts DEF process_packet
  <2>2. UNCHANGED send_buffer
    BY <1>1 DEF process_packet, process_puback, process_pubrec, process_pubcomp, UnexpectedAck,
                set_error, connVars
  <2> QED BY <1>0, <1>1, <2>1, <2>2 DEF process_packet, brokerVars, FlowTyped
<1>2. CASE LocalStep
  <2>1. send_buffer' \in Seq(Addressed)
    <3>1. CASE Sending
      BY <1>0, <3>1, SendingTyped
    <3>2. CASE Client
      BY <1>0, <3>2 DEF Client, publish, publish_enqueue, cancel, connVars
    <3> QED BY <1>2, <3>1, <3>2 DEF LocalStep
  <2> QED BY <1>0, <1>2, <2>1 DEF LocalStep, netVars, brokerVars, FlowTyped
<1>3. CASE Send
  <2>1. send_buffer # <<>> /\ send_buffer' = Tail(send_buffer)
    BY <1>3 DEF Send, Transmit, write_to_network
  <2>2. send_buffer' \in Seq(Addressed) /\ Head(send_buffer) \in Addressed
    BY <1>0, <2>1, TailFacts
  <2>3. to_broker' \in Seq(Addressed)
    BY <1>0, <1>3, <2>2, PushFacts DEF Send
  <2> QED BY <1>0, <1>3, <2>2, <2>3 DEF Send, brokerVars, FlowTyped
<1>4. CASE Lose
  BY <1>0, <1>4 DEF Lose, connection_error, set_error, netVars, brokerVars, FlowTyped
<1>5. CASE Connect
  <2>1. send_buffer' = <<>> /\ to_broker' = <<>> /\ to_client' = <<>>
    BY <1>5 DEF Connect, connect, reconnect
  <2> QED BY <1>0, <1>5, <2>1 DEF Connect, brokerVars, FlowTyped
<1>6. CASE Timeout
  <2>1. UNCHANGED send_buffer
    BY <1>6 DEF Timeout, resend_due, connVars
  <2>2. crossed' \in BOOLEAN
    BY <1>0, <1>6 DEF Timeout
  <2> QED BY <1>0, <1>6, <2>1, <2>2 DEF Timeout, netVars, brokerVars, FlowTyped
<1>7. CASE Broker
  BY <1>0, <1>7, BrokerTyped DEF Broker, vars, FlowTyped
<1>8. CASE UNCHANGED flowVars
  BY <1>0, <1>8 DEF flowVars, FlowTyped
<1> QED BY <1>1, <1>2, <1>3, <1>4, <1>5, <1>6, <1>7, <1>8 DEF FlowNext

\* And hold at the beginning.
LEMMA InitFlowTyped == FlowInit => FlowTyped
<1> SUFFICES ASSUME FlowInit PROVE FlowTyped
  OBVIOUS
<1>1. send_buffer = <<>> /\ to_broker = <<>> /\ to_client = <<>>
  BY DEF FlowInit, Init, LinkInit
<1>2. /\ received \in SUBSET Pids /\ delivered \in [Msgs -> Nat]
      /\ losses \in Nat /\ crossed \in BOOLEAN
  BY DEF FlowInit
<1> QED BY <1>1, <1>2 DEF FlowTyped

\* With a broker, losses and timeouts the client does nothing that Publishes
\* does not allow, so all that is proved of Publishes holds of the flow.
THEOREM FlowImplementsPublishes == FlowSpec => Spec
<1>1. FlowInit => PubInv /\ FlowTyped
  BY InitPubInv, InitFlowTyped DEF FlowInit
<1>2. PubInv /\ FlowTyped /\ [FlowNext]_flowVars => (PubInv /\ FlowTyped)'
  BY FlowStepIsStep, NextPubInv, NextFlowTyped
<1>3. FlowTyped /\ [FlowNext]_flowVars => [Next]_vars
  BY FlowStepIsStep
<1>4. FlowInit => Init
  BY DEF FlowInit
<1> QED BY <1>1, <1>2, <1>3, <1>4, PTL DEF FlowSpec, Spec

-----------------------------------------------------------------------------
(* The line of answers                                                       *)

\* The acknowledgement a packet is, or will be answered with.
AnswerType(x) ==
    IF x.type = "publish"
      THEN IF Qos[x.uid] = 2 THEN "pubrec" ELSE IF Qos[x.uid] = 1 THEN "puback" ELSE "none"
      ELSE IF x.type = "pubrel" THEN "pubcomp" ELSE x.type

\* The channels back and forth and the send buffer in one line, in the order in
\* which the client sees the answers: the broker takes a packet from its place
\* in the line and puts the answer there.  After a panic nothing leaves the
\* send buffer any more.
Line(c, b, s) ==
    [k \in 1 .. Len(c) + Len(b) + Len(s) |->
        IF k <= Len(c) THEN c[k]
        ELSE IF k <= Len(c) + Len(b) THEN b[k - Len(c)]
        ELSE s[k - Len(c) - Len(b)]]

Out(p, s) == IF p THEN <<>> ELSE s
TheLine == Line(to_client, to_broker, Out(panicked, send_buffer))

Item == Ack \cup Addressed

\* Two lines with the same items at the same places are the same.
LEMMA SameLine ==
    ASSUME NEW l1 \in Seq(Item), NEW l2 \in Seq(Item), Len(l1) = Len(l2),
           \A k \in 1 .. Len(l1) : l1[k] = l2[k]
    PROVE  l1 = l2
OBVIOUS

\* What is in a line.
LEMMA LineFacts ==
    ASSUME NEW c \in Seq(Ack), NEW b \in Seq(Addressed), NEW s \in Seq(Addressed)
    PROVE  /\ Line(c, b, s) \in Seq(Item)
           /\ Len(Line(c, b, s)) = Len(c) + Len(b) + Len(s)
           /\ Len(c) \in Nat /\ Len(b) \in Nat /\ Len(s) \in Nat
           /\ \A k \in 1 .. Len(c) : Line(c, b, s)[k] = c[k]
           /\ \A k \in 1 .. Len(b) : Line(c, b, s)[Len(c) + k] = b[k]
           /\ \A k \in 1 .. Len(s) : Line(c, b, s)[Len(c) + Len(b) + k] = s[k]
<1>1. /\ Len(c) \in Nat /\ Len(b) \in Nat /\ Len(s) \in Nat
      /\ \A k \in 1 .. Len(c) : c[k] \in Item
      /\ \A k \in 1 .. Len(b) : b[k] \in Item
      /\ \A k \in 1 .. Len(s) : s[k] \in Item
  BY DEF Item
<1> DEFINE n == Len(c) + Len(b) + Len(s)
           at(k) == IF k <= Len(c) THEN c[k]
                    ELSE IF k <= Len(c) + Len(b) THEN b[k - Len(c)]
                    ELSE s[k - Len(c) - Len(b)]
<1>2. n \in Nat
  BY <1>1
<1>3. ASSUME NEW k \in 1 .. n PROVE at(k) \in Item
  <2>1. CASE k <= Len(c)
    BY <1>1, <2>1
  <2>2. CASE k > Len(c) /\ k <= Len(c) + Len(b)
    <3>1. k - Len(c) \in 1 .. Len(b)
      BY <1>1, <2>2
    <3> QED BY <1>1, <2>2, <3>1
  <2>3. CASE k > Len(c) + Len(b)
    <3>1. k - Len(c) - Len(b) \in 1 .. Len(s) /\ ~(k <= Len(c)) /\ ~(k <= Len(c) + Len(b))
      BY <1>1, <2>3
    <3> QED BY <1>1, <3>1
  <2> QED BY <1>1, <2>1, <2>2, <2>3
<1>4. Line(c, b, s) = [k \in 1 .. n |-> at(k)]
  BY DEF Line
<1>5. Line(c, b, s) \in Seq(Item) /\ Len(Line(c, b, s)) = n
  <2> HIDE DEF n, at
  <2> QED BY <1>2, <1>3, <1>4
<1>6. \A k \in 1 .. Len(c) : k \in 1 .. n /\ at(k) = c[k]
  BY <1>1
<1>7. \A k \in 1 .. Len(b) : Len(c) + k \in 1 .. n /\ at(Len(c) + k) = b[k]
  <2> TAKE k \in 1 .. Len(b)
  <2>1. /\ Len(c) + k \in 1 .. n /\ ~(Len(c) + k <= Len(c)) /\ Len(c) + k <= Len(c) + Len(b)
        /\ Len(c) + k - Len(c) = k
    BY <1>1
  <2> QED BY <2>1
<1>8. \A k \in 1 .. Len(s) : Len(c) + Len(b) + k \in 1 .. n /\ at(Len(c) + Len(b) + k) = s[k]
  <2> TAKE k \in 1 .. Len(s)
  <2>1. /\ Len(c) + Len(b) + k \in 1 .. n /\ ~(Len(c) + Len(b) + k <= Len(c))
        /\ ~(Len(c) + Len(b) + k <= Len(c) + Len(b))
        /\ Len(c) + Len(b) + k - Len(c) - Len(b) = k
    BY <1>1
  <2> QED BY <2>1
<1>9. \A k \in 1 .. n : Line(c, b, s)[k] = at(k)
  BY <1>4
<1> HIDE DEF at
<1> QED BY <1>1, <1>5, <1>6, <1>7, <1>8, <1>9

\* Every place of a line is in one of its three parts.
LEMMA LinePlace ==
    ASSUME NEW c \in Seq(Ack), NEW b \in Seq(Addressed), NEW s \in Seq(Addressed),
           NEW k \in 1 .. Len(Line(c, b, s))
    PROVE  \/ k \in 1 .. Len(c)
           \/ \E j \in 1 .. Len(b) : k = Len(c) + j
           \/ \E j \in 1 .. Len(s) : k = Len(c) + Len(b) + j
<1>1. /\ Len(Line(c, b, s)) = Len(c) + Len(b) + Len(s)
      /\ Len(c) \in Nat /\ Len(b) \in Nat /\ Len(s) \in Nat
  BY LineFacts
<1>2. CASE k <= Len(c)
  BY <1>1, <1>2
<1>3. CASE k > Len(c) /\ k <= Len(c) + Len(b)
  <2>1. k - Len(c) \in 1 .. Len(b) /\ k = Len(c) + (k - Len(c))
    BY <1>1, <1>3
  <2> QED BY <2>1
<1>4. CASE k > Len(c) + Len(b)
  <2>1. /\ k - Len(c) - Len(b) \in 1 .. Len(s)
        /\ k = Len(c) + Len(b) + (k - Len(c) - Len(b))
    BY <1>1, <1>4
  <2> QED BY <2>1
<1> QED BY <1>1, <1>2, <1>3, <1>4

\* A line of which some items are gone.  The first n1 items of the one and the
\* first n2 items of the other are acknowledgements on the way back.
Thins(l2, n2, l1, n1) ==
    \E at \in [1 .. Len(l2) -> 1 .. Len(l1)] :
        /\ \A j, k \in 1 .. Len(l2) : j < k => at[j] < at[k]
        /\ \A k \in 1 .. Len(l2) : l2[k] = l1[at[k]] /\ (k > n2 <=> at[k] > n1)

\* A line in which the item after the first n1 was replaced by its answer.
Answered(l2, n2, l1, n1) ==
    /\ n2 = n1 + 1
    /\ n2 \in 1 .. Len(l1)
    /\ Len(l2) = Len(l1)
    /\ \A k \in 1 .. Len(l1) : k # n2 => l2[k] = l1[k]
    /\ l2[n2] = [type |-> AnswerType(l1[n2]), pid |-> l1[n2].pid]

\* The send buffer is written to the socket: the line stays.
LEMMA SendLine ==
    ASSUME NEW c \in Seq(Ack), NEW b \in Seq(Addressed), NEW s \in Seq(Addressed), s # <<>>
    PROVE  Line(c, Append(b, Head(s)), Tail(s)) = Line(c, b, s)
<1> DEFINE b2 == Append(b, Head(s))
           s2 == Tail(s)
           l1 == Line(c, b, s)
           l2 == Line(c, b2, s2)
<1>1. /\ s2 \in Seq(Addressed) /\ Len(s) \in Nat \ {0} /\ Len(s2) = Len(s) - 1
      /\ \A j \in 1 .. Len(s2) : s2[j] = s[j + 1]
      /\ Head(s) = s[1] /\ s[1] \in Addressed
  BY TailFacts
<1>2. /\ b2 \in Seq(Addressed) /\ Len(b2) = Len(b) + 1 /\ Len(b) \in Nat
      /\ \A j \in 1 .. Len(b) : b2[j] = b[j]
      /\ b2[Len(b) + 1] = s[1]
  BY <1>1, PushFacts
<1>3. /\ Len(l1) = Len(c) + Len(b) + Len(s) /\ Len(c) \in Nat
      /\ \A k \in 1 .. Len(c) : l1[k] = c[k]
      /\ \A k \in 1 .. Len(b) : l1[Len(c) + k] = b[k]
      /\ \A k \in 1 .. Len(s) : l1[Len(c) + Len(b) + k] = s[k]
  BY LineFacts
<1> HIDE DEF b2, s2
<1>4. /\ Len(l2) = Len(c) + Len(b2) + Len(s2)
      /\ \A k \in 1 .. Len(c) : l2[k] = c[k]
      /\ \A k \in 1 .. Len(b2) : l2[Len(c) + k] = b2[k]
      /\ \A k \in 1 .. Len(s2) : l2[Len(c) + Len(b2) + k] = s2[k]
  <2>1. b2 \in Seq(Addressed) /\ s2 \in Seq(Addressed)
    BY <1>1, <1>2
  <2> QED BY <2>1, LineFacts, ZenonT(60)
<1>5. l1 \in Seq(Item) /\ l2 \in Seq(Item)
  BY <1>1, <1>2, LineFacts
<1>6. \A k \in 1 .. Len(l1) : \/ k \in 1 .. Len(c)
                              \/ \E j \in 1 .. Len(b) : k = Len(c) + j
                              \/ \E j \in 1 .. Len(s) : k = Len(c) + Len(b) + j
  BY LinePlace
<1> HIDE DEF l1, l2
<1>7. Len(l1) = Len(l2)
  BY <1>1, <1>2, <1>3, <1>4
<1>8. ASSUME NEW k \in 1 .. Len(l1) PROVE l1[k] = l2[k]
  <2>1. CASE k \in 1 .. Len(c)
    BY <1>3, <1>4, <2>1
  <2>2. ASSUME NEW j \in 1 .. Len(b), k = Len(c) + j PROVE l1[k] = l2[k]
    <3>1. j \in 1 .. Len(b2)
      BY <1>2
    <3> QED BY <1>2, <1>3, <1>4, <2>2, <3>1
  <2>3. ASSUME NEW j \in 1 .. Len(s), k = Len(c) + Len(b) + j PROVE l1[k] = l2[k]
    <3>1. CASE j = 1
      <4>1. k = Len(c) + (Len(b) + 1) /\ Len(b) + 1 \in 1 .. Len(b2)
        BY <1>2, <1>3, <2>3, <3>1
      <4> QED BY <1>2, <1>3, <1>4, <2>3, <3>1, <4>1
    <3>2. CASE j # 1
      <4>1. k = Len(c) + Len(b2) + (j - 1) /\ j - 1 \in 1 .. Len(s2) /\ j - 1 + 1 = j
        BY <1>1, <1>2, <1>3, <2>3, <3>2
      <4>2. l2[k] = s2[j - 1]
        BY <1>4, <4>1
      <4>3. s2[j - 1] = s[j - 1 + 1]
        BY <1>1, <4>1
      <4>4. l1[k] = s[j]
        BY <1>3, <2>3
      <4> QED BY <4>1, <4>2, <4>3, <4>4
    <3> QED BY <3>1, <3>2
  <2> QED BY <1>6, <2>1, <2>2, <2>3
<1>9. l1 = l2
  BY <1>5, <1>7, <1>8
<1> QED BY <1>9 DEF l1, l2, b2, s2

\* A packet is written: it is the last of the line.
LEMMA WriteLine ==
    ASSUME NEW c \in Seq(Ack), NEW b \in Seq(Addressed), NEW s \in Seq(Addressed),
           NEW x \in Addressed
    PROVE  Line(c, b, Append(s, x)) = Append(Line(c, b, s), x)
<1> DEFINE s2 == Append(s, x)
           l1 == Line(c, b, s)
           l2 == Line(c, b, s2)
           l3 == Append(l1, x)
<1>1. /\ s2 \in Seq(Addressed) /\ Len(s2) = Len(s) + 1 /\ Len(s) \in Nat
      /\ \A j \in 1 .. Len(s) : s2[j] = s[j]
      /\ s2[Len(s) + 1] = x
  BY PushFacts
<1>2. /\ Len(l1) = Len(c) + Len(b) + Len(s) /\ Len(c) \in Nat /\ Len(b) \in Nat
      /\ l1 \in Seq(Item)
      /\ \A k \in 1 .. Len(c) : l1[k] = c[k]
      /\ \A k \in 1 .. Len(b) : l1[Len(c) + k] = b[k]
      /\ \A k \in 1 .. Len(s) : l1[Len(c) + Len(b) + k] = s[k]
  BY LineFacts
<1> HIDE DEF s2
<1>3. /\ Len(l2) = Len(c) + Len(b) + Len(s2) /\ l2 \in Seq(Item)
      /\ \A k \in 1 .. Len(c) : l2[k] = c[k]
      /\ \A k \in 1 .. Len(b) : l2[Len(c) + k] = b[k]
      /\ \A k \in 1 .. Len(s2) : l2[Len(c) + Len(b) + k] = s2[k]
  BY <1>1, LineFacts, ZenonT(60)
<1>4. \A k \in 1 .. Len(l2) : \/ k \in 1 .. Len(c)
                              \/ \E j \in 1 .. Len(b) : k = Len(c) + j
                              \/ \E j \in 1 .. Len(s2) : k = Len(c) + Len(b) + j
  BY <1>1, LinePlace
<1> HIDE DEF l1, l2
<1>5. /\ Len(l3) = Len(l1) + 1 /\ l3 \in Seq(Item)
      /\ \A j \in 1 .. Len(l1) : l3[j] = l1[j]
      /\ l3[Len(l1) + 1] = x
  <2>1. x \in Item
    BY DEF Item
  <2> QED BY <1>2, <2>1, PushFacts
<1> HIDE DEF l3
<1>6. ASSUME NEW k \in 1 .. Len(l2) PROVE l2[k] = l3[k]
  <2>1. CASE k \in 1 .. Len(c)
    <3>1. k \in 1 .. Len(l1)
      BY <1>1, <1>2, <2>1
    <3> QED BY <1>2, <1>3, <1>5, <2>1, <3>1
  <2>2. ASSUME NEW j \in 1 .. Len(b), k = Len(c) + j PROVE l2[k] = l3[k]
    <3>1. k \in 1 .. Len(l1)
      BY <1>1, <1>2, <2>2
    <3> QED BY <1>2, <1>3, <1>5, <2>2, <3>1
  <2>3. ASSUME NEW j \in 1 .. Len(s2), k = Len(c) + Len(b) + j PROVE l2[k] = l3[k]
    <3>1. CASE j = Len(s) + 1
      <4>1. k = Len(l1) + 1
        BY <1>1, <1>2, <2>3, <3>1
      <4> QED BY <1>1, <1>3, <1>5, <2>3, <3>1, <4>1
    <3>2. CASE j # Len(s) + 1
      <4>1. k \in 1 .. Len(l1) /\ j \in 1 .. Len(s)
        BY <1>1, <1>2, <2>3, <3>2
      <4> QED BY <1>1, <1>2, <1>3, <1>5, <2>3, <4>1
    <3> QED BY <3>1, <3>2
  <2> QED BY <1>4, <2>1, <2>2, <2>3
<1>7. Len(l2) = Len(l3)
  BY <1>1, <1>2, <1>3, <1>5
<1>8. l2 = l3
  BY <1>3, <1>5, <1>6, <1>7, SameLine, ZenonT(60)
<1> QED BY <1>8 DEF l1, l2, l3, s2

\* The client takes an acknowledgement: the first of the line.
LEMMA TakeLine ==
    ASSUME NEW c \in Seq(Ack), NEW b \in Seq(Addressed), NEW s \in Seq(Addressed), c # <<>>
    PROVE  LET l1 == Line(c, b, s)
               l2 == Line(Tail(c), b, s) IN
           /\ l1 # <<>> /\ l1 \in Seq(Item) /\ l1[1] = Head(c)
           /\ l2 = Tail(l1)
           /\ Len(c) \in Nat \ {0} /\ Len(Tail(c)) = Len(c) - 1
<1> DEFINE c2 == Tail(c)
           l1 == Line(c, b, s)
           l2 == Line(c2, b, s)
           l3 == Tail(l1)
<1>1. /\ c2 \in Seq(Ack) /\ Len(c2) = Len(c) - 1 /\ Len(c) \in Nat \ {0}
      /\ \A j \in 1 .. Len(c2) : c2[j] = c[j + 1]
      /\ Head(c) = c[1]
  BY TailFacts
<1>2. /\ Len(l1) = Len(c) + Len(b) + Len(s) /\ Len(b) \in Nat /\ Len(s) \in Nat
      /\ l1 \in Seq(Item)
      /\ \A k \in 1 .. Len(c) : l1[k] = c[k]
      /\ \A k \in 1 .. Len(b) : l1[Len(c) + k] = b[k]
      /\ \A k \in 1 .. Len(s) : l1[Len(c) + Len(b) + k] = s[k]
  BY LineFacts
<1> HIDE DEF c2
<1>3. /\ Len(l2) = Len(c2) + Len(b) + Len(s) /\ l2 \in Seq(Item)
      /\ \A k \in 1 .. Len(c2) : l2[k] = c2[k]
      /\ \A k \in 1 .. Len(b) : l2[Len(c2) + k] = b[k]
      /\ \A k \in 1 .. Len(s) : l2[Len(c2) + Len(b) + k] = s[k]
  BY <1>1, LineFacts, ZenonT(60)
<1>4. \A k \in 1 .. Len(l2) : \/ k \in 1 .. Len(c2)
                              \/ \E j \in 1 .. Len(b) : k = Len(c2) + j
                              \/ \E j \in 1 .. Len(s) : k = Len(c2) + Len(b) + j
  BY <1>1, LinePlace
<1> HIDE DEF l1, l2
<1>0. Len(l1) \in Nat \ {0} /\ l1 # <<>>
  BY <1>1, <1>2
<1>5. /\ Len(l3) = Len(l1) - 1 /\ l3 \in Seq(Item)
      /\ \A j \in 1 .. Len(l1) - 1 : l3[j] = l1[j + 1]
  BY <1>0, <1>2, TailFacts
<1> HIDE DEF l3
<1>6. ASSUME NEW k \in 1 .. Len(l2) PROVE l2[k] = l3[k]
  <2>0. k \in 1 .. Len(l1) - 1
    BY <1>1, <1>2, <1>3
  <2>4. l3[k] = l1[k + 1]
    BY <1>5, <2>0
  <2>1. CASE k \in 1 .. Len(c2)
    <3>1. k + 1 \in 1 .. Len(c)
      BY <1>1, <2>1
    <3> QED BY <1>1, <1>2, <1>3, <2>1, <2>4, <3>1
  <2>2. ASSUME NEW j \in 1 .. Len(b), k = Len(c2) + j PROVE l2[k] = l3[k]
    <3>1. k + 1 = Len(c) + j
      BY <1>1, <1>2, <2>2
    <3> QED BY <1>2, <1>3, <2>2, <2>4, <3>1
  <2>3. ASSUME NEW j \in 1 .. Len(s), k = Len(c2) + Len(b) + j PROVE l2[k] = l3[k]
    <3>1. k + 1 = Len(c) + Len(b) + j
      BY <1>1, <1>2, <2>3
    <3> QED BY <1>2, <1>3, <2>3, <2>4, <3>1
  <2> QED BY <1>4, <2>1, <2>2, <2>3
<1>7. Len(l2) = Len(l3)
  BY <1>1, <1>2, <1>3, <1>5
<1>8. l2 = l3
  BY <1>3, <1>5, <1>6, <1>7
<1>9. l1[1] = Head(c)
  BY <1>1, <1>2
<1> QED BY <1>0, <1>1, <1>2, <1>8, <1>9 DEF l1, l2, l3, c2

\* The broker answers the next packet.
LEMMA AnswerLine ==
    ASSUME NEW c \in Seq(Ack), NEW b \in Seq(Addressed), NEW s \in Seq(Addressed), b # <<>>,
           NEW a \in Ack, a = [type |-> AnswerType(Head(b)), pid |-> Head(b).pid]
    PROVE  /\ Answered(Line(Append(c, a), Tail(b), s), Len(Append(c, a)), Line(c, b, s), Len(c))
           /\ Line(c, b, s)[Len(c) + 1] = Head(b)
<1> DEFINE c2 == Append(c, a)
           b2 == Tail(b)
           l1 == Line(c, b, s)
           l2 == Line(c2, b2, s)
<1>1. /\ b2 \in Seq(Addressed) /\ Len(b2) = Len(b) - 1 /\ Len(b) \in Nat \ {0}
      /\ \A j \in 1 .. Len(b2) : b2[j] = b[j + 1]
      /\ Head(b) = b[1]
  BY TailFacts
<1>2. /\ c2 \in Seq(Ack) /\ Len(c2) = Len(c) + 1 /\ Len(c) \in Nat
      /\ \A j \in 1 .. Len(c) : c2[j] = c[j]
      /\ c2[Len(c) + 1] = a
  BY PushFacts
<1>3. /\ Len(l1) = Len(c) + Len(b) + Len(s) /\ Len(s) \in Nat
      /\ \A k \in 1 .. Len(c) : l1[k] = c[k]
      /\ \A k \in 1 .. Len(b) : l1[Len(c) + k] = b[k]
      /\ \A k \in 1 .. Len(s) : l1[Len(c) + Len(b) + k] = s[k]
  BY LineFacts
<1> HIDE DEF b2, c2
<1>4. /\ Len(l2) = Len(c2) + Len(b2) + Len(s)
      /\ \A k \in 1 .. Len(c2) : l2[k] = c2[k]
      /\ \A k \in 1 .. Len(b2) : l2[Len(c2) + k] = b2[k]
      /\ \A k \in 1 .. Len(s) : l2[Len(c2) + Len(b2) + k] = s[k]
  <2>1. b2 \in Seq(Addressed) /\ c2 \in Seq(Ack)
    BY <1>1, <1>2
  <2> QED BY <2>1, LineFacts, ZenonT(60)
<1>6. \A k \in 1 .. Len(l1) : \/ k \in 1 .. Len(c)
                              \/ \E j \in 1 .. Len(b) : k = Len(c) + j
                              \/ \E j \in 1 .. Len(s) : k = Len(c) + Len(b) + j
  BY LinePlace
<1> HIDE DEF l1, l2
<1>7. Len(l1) = Len(l2) /\ Len(c2) \in 1 .. Len(l1)
  BY <1>1, <1>2, <1>3, <1>4
<1>8. l1[Len(c2)] = Head(b)
  <2>1. Len(c2) = Len(c) + 1 /\ 1 \in 1 .. Len(b)
    BY <1>1, <1>2
  <2> QED BY <1>1, <1>3, <2>1
<1>9. l2[Len(c2)] = a
  <2>1. Len(c2) = Len(c) + 1 /\ Len(c2) \in 1 .. Len(c2)
    BY <1>2
  <2> QED BY <1>2, <1>4, <2>1
<1>10. ASSUME NEW k \in 1 .. Len(l1), k # Len(c2) PROVE l2[k] = l1[k]
  <2>1. CASE k \in 1 .. Len(c)
    <3>1. k \in 1 .. Len(c2)
      BY <1>2, <2>1
    <3> QED BY <1>2, <1>3, <1>4, <2>1, <3>1
  <2>2. ASSUME NEW j \in 1 .. Len(b), k = Len(c) + j PROVE l2[k] = l1[k]
    <3>1. k = Len(c2) + (j - 1) /\ j - 1 \in 1 .. Len(b2) /\ j - 1 + 1 = j
      BY <1>1, <1>2, <1>10, <2>2
    <3>2. l2[k] = b2[j - 1]
      BY <1>4, <3>1
    <3>3. b2[j - 1] = b[j - 1 + 1]
      BY <1>1, <3>1
    <3>4. l1[k] = b[j]
      BY <1>3, <2>2
    <3> QED BY <3>1, <3>2, <3>3, <3>4
  <2>3. ASSUME NEW j \in 1 .. Len(s), k = Len(c) + Len(b) + j PROVE l2[k] = l1[k]
    <3>1. k = Len(c2) + Len(b2) + j
      BY <1>1, <1>2, <1>3, <2>3
    <3> QED BY <1>3, <1>4, <2>3, <3>1
  <2> QED BY <1>6, <2>1, <2>2, <2>3
<1>11. Answered(l2, Len(c2), l1, Len(c))
  <2>1. Len(c2) = Len(c) + 1
    BY <1>2
  <2> QED BY <1>7, <1>8, <1>9, <1>10, <2>1 DEF Answered
<1>12. l1[Len(c) + 1] = Head(b)
  BY <1>2, <1>8
<1> QED BY <1>11, <1>12 DEF l1, l2, b2, c2

\* A removal thins a line, as does taking its head.
LEMMA RemoveThins ==
    ASSUME NEW l1 \in Seq(Item), NEW n \in Nat, n + 1 \in 1 .. Len(l1)
    PROVE  Thins(Remove(l1, n + 1), n, l1, n)
<1> DEFINE l2 == Remove(l1, n + 1)
           at == [k \in 1 .. Len(l2) |-> IF k < n + 1 THEN k ELSE k + 1]
<1>1. /\ Len(l1) \in Nat /\ Len(l2) = Len(l1) - 1
      /\ \A j \in 1 .. Len(l1) - 1 : l2[j] = IF j < n + 1 THEN l1[j] ELSE l1[j + 1]
  BY RemoveFacts
<1> HIDE DEF l2
<1>2. /\ at \in [1 .. Len(l2) -> 1 .. Len(l1)]
      /\ \A k \in 1 .. Len(l2) : at[k] = IF k < n + 1 THEN k ELSE k + 1
  BY <1>1
<1> HIDE DEF at
<1>3. \A j, k \in 1 .. Len(l2) : j < k => at[j] < at[k]
  BY <1>1, <1>2
<1>4. \A k \in 1 .. Len(l2) : l2[k] = l1[at[k]] /\ (k > n <=> at[k] > n)
  BY <1>1, <1>2
<1>5. Thins(l2, n, l1, n)
  BY <1>2, <1>3, <1>4 DEF Thins
<1> QED BY <1>5 DEF l2

\* So does taking its head.
LEMMA TailThins ==
    ASSUME NEW l1 \in Seq(Item), NEW n \in Nat \ {0}, l1 # <<>>
    PROVE  Thins(Tail(l1), n - 1, l1, n)
<1> DEFINE l2 == Tail(l1)
           at == [k \in 1 .. Len(l2) |-> k + 1]
<1>1. /\ Len(l1) \in Nat \ {0} /\ Len(l2) = Len(l1) - 1
      /\ \A j \in 1 .. Len(l1) - 1 : l2[j] = l1[j + 1]
  BY TailFacts
<1> HIDE DEF l2
<1>2. /\ at \in [1 .. Len(l2) -> 1 .. Len(l1)]
      /\ \A k \in 1 .. Len(l2) : at[k] = k + 1
  BY <1>1
<1> HIDE DEF at
<1>3. \A j, k \in 1 .. Len(l2) : j < k => at[j] < at[k]
  BY <1>1, <1>2
<1>4. \A k \in 1 .. Len(l2) : l2[k] = l1[at[k]] /\ (k > n - 1 <=> at[k] > n)
  BY <1>1, <1>2
<1>5. Thins(l2, n - 1, l1, n)
  BY <1>2, <1>3, <1>4 DEF Thins
<1> QED BY <1>5 DEF l2

\* The broker takes a packet that needs no answer.
LEMMA SwallowLine ==
    ASSUME NEW c \in Seq(Ack), NEW b \in Seq(Addressed), NEW s \in Seq(Addressed), b # <<>>
    PROVE  /\ Len(c) + 1 \in 1 .. Len(Line(c, b, s))
           /\ Line(c, Tail(b), s) = Remove(Line(c, b, s), Len(c) + 1)
<1> DEFINE b2 == Tail(b)
           l1 == Line(c, b, s)
           l2 == Line(c, b2, s)
           n == Len(c) + 1
           l3 == Remove(l1, n)
<1>1. /\ b2 \in Seq(Addressed) /\ Len(b2) = Len(b) - 1 /\ Len(b) \in Nat \ {0}
      /\ \A j \in 1 .. Len(b2) : b2[j] = b[j + 1]
  BY TailFacts
<1>3. /\ Len(l1) = Len(c) + Len(b) + Len(s) /\ Len(s) \in Nat /\ Len(c) \in Nat
      /\ l1 \in Seq(Item)
      /\ \A k \in 1 .. Len(c) : l1[k] = c[k]
      /\ \A k \in 1 .. Len(b) : l1[Len(c) + k] = b[k]
      /\ \A k \in 1 .. Len(s) : l1[Len(c) + Len(b) + k] = s[k]
  BY LineFacts
<1> HIDE DEF b2
<1>4. /\ Len(l2) = Len(c) + Len(b2) + Len(s) /\ l2 \in Seq(Item)
      /\ \A k \in 1 .. Len(c) : l2[k] = c[k]
      /\ \A k \in 1 .. Len(b2) : l2[Len(c) + k] = b2[k]
      /\ \A k \in 1 .. Len(s) : l2[Len(c) + Len(b2) + k] = s[k]
  BY <1>1, LineFacts, ZenonT(60)
<1>6. \A k \in 1 .. Len(l2) : \/ k \in 1 .. Len(c)
                              \/ \E j \in 1 .. Len(b2) : k = Len(c) + j
                              \/ \E j \in 1 .. Len(s) : k = Len(c) + Len(b2) + j
  BY <1>1, LinePlace
<1> HIDE DEF l1, l2
<1>7. n \in 1 .. Len(l1)
  BY <1>1, <1>3
<1>8. /\ l3 \in Seq(Item) /\ Len(l3) = Len(l1) - 1
      /\ \A j \in 1 .. Len(l1) - 1 : l3[j] = IF j < n THEN l1[j] ELSE l1[j + 1]
  <2> HIDE DEF n
  <2> QED BY <1>3, <1>7, RemoveFacts
<1> HIDE DEF l3
<1>9. Len(l3) = Len(l2)
  BY <1>1, <1>3, <1>4, <1>8
<1>10. ASSUME NEW k \in 1 .. Len(l2) PROVE l2[k] = l3[k]
  <2>0. k \in 1 .. Len(l1) - 1
    BY <1>8, <1>9
  <2>1. CASE k \in 1 .. Len(c)
    <3>0. k < n
      BY <1>3, <2>1
    <3>1. l3[k] = l1[k]
      BY <1>8, <2>0, <3>0
    <3> QED BY <1>3, <1>4, <2>1, <3>1
  <2>4. ASSUME k > Len(c) PROVE l3[k] = l1[k + 1]
    <3>1. ~(k < n)
      BY <1>3, <2>4
    <3> QED BY <1>8, <2>0, <3>1
  <2>2. ASSUME NEW j \in 1 .. Len(b2), k = Len(c) + j PROVE l2[k] = l3[k]
    <3>1. k + 1 = Len(c) + (j + 1) /\ j + 1 \in 1 .. Len(b) /\ k > Len(c)
      BY <1>1, <1>3, <2>2
    <3>2. l1[k + 1] = b[j + 1]
      BY <1>3, <3>1
    <3> QED BY <1>1, <1>4, <2>2, <2>4, <3>1, <3>2
  <2>3. ASSUME NEW j \in 1 .. Len(s), k = Len(c) + Len(b2) + j PROVE l2[k] = l3[k]
    <3>1. k + 1 = Len(c) + Len(b) + j /\ k > Len(c)
      BY <1>1, <1>3, <2>3
    <3>2. l1[k + 1] = s[j]
      BY <1>3, <3>1
    <3> QED BY <1>4, <2>3, <2>4, <3>1, <3>2
  <2> QED BY <1>6, <2>1, <2>2, <2>3
<1>11. l2 = l3
  <2>1. l2 \in Seq(Item) /\ l3 \in Seq(Item) /\ Len(l2) = Len(l3)
    BY <1>4, <1>8, <1>9
  <2>2. \A k \in 1 .. Len(l2) : l2[k] = l3[k]
    BY <1>10
  <2> QED BY <2>1, <2>2, SameLine
<1> QED BY <1>7, <1>11 DEF l1, l2, l3, b2

\* The client panics: what it has not sent is not sent any more.
LEMMA PanicLine ==
    ASSUME NEW c \in Seq(Ack), NEW b \in Seq(Addressed), NEW s \in Seq(Addressed)
    PROVE  Thins(Line(c, b, <<>>), Len(c), Line(c, b, s), Len(c))
<1> DEFINE e == <<>>
           l1 == Line(c, b, s)
           l2 == Line(c, b, e)
           at == [k \in 1 .. Len(l2) |-> k]
<1>1. e \in Seq(Addressed) /\ Len(e) = 0
  OBVIOUS
<1> HIDE DEF e
<1>2. /\ Len(l1) = Len(c) + Len(b) + Len(s)
      /\ Len(s) \in Nat /\ Len(c) \in Nat /\ Len(b) \in Nat
      /\ \A k \in 1 .. Len(c) : l1[k] = c[k]
      /\ \A k \in 1 .. Len(b) : l1[Len(c) + k] = b[k]
  BY LineFacts
<1>3. /\ Len(l2) = Len(c) + Len(b)
      /\ \A k \in 1 .. Len(c) : l2[k] = c[k]
      /\ \A k \in 1 .. Len(b) : l2[Len(c) + k] = b[k]
  <2>1. /\ Len(l2) = Len(c) + Len(b) + Len(e)
        /\ \A k \in 1 .. Len(c) : l2[k] = c[k]
        /\ \A k \in 1 .. Len(b) : l2[Len(c) + k] = b[k]
    <3>1. e \in Seq(Addressed)
      BY <1>1
    <3> QED BY <3>1, LineFacts
  <2> QED BY <1>1, <1>2, <2>1
<1>4. \A k \in 1 .. Len(l2) : \/ k \in 1 .. Len(c)
                              \/ \E j \in 1 .. Len(b) : k = Len(c) + j
  <2>1. \A k \in 1 .. Len(l2) : \/ k \in 1 .. Len(c)
                                \/ \E j \in 1 .. Len(b) : k = Len(c) + j
                                \/ \E j \in 1 .. Len(e) : k = Len(c) + Len(b) + j
    <3>1. e \in Seq(Addressed)
      BY <1>1
    <3> QED BY <3>1, LinePlace
  <2> QED BY <1>1, <2>1
<1> HIDE DEF l1, l2
<1>5. /\ at \in [1 .. Len(l2) -> 1 .. Len(l1)]
      /\ \A k \in 1 .. Len(l2) : at[k] = k
  BY <1>2, <1>3
<1> HIDE DEF at
<1>6. ASSUME NEW k \in 1 .. Len(l2) PROVE l2[k] = l1[at[k]]
  <2>1. CASE k \in 1 .. Len(c)
    BY <1>2, <1>3, <1>5, <2>1
  <2>2. ASSUME NEW j \in 1 .. Len(b), k = Len(c) + j PROVE l2[k] = l1[k]
    BY <1>2, <1>3, <2>2
  <2>3. at[k] = k
    BY <1>5
  <2> QED BY <1>4, <2>1, <2>2, <2>3
<1>7. Thins(l2, Len(c), l1, Len(c))
  BY <1>5, <1>6 DEF Thins
<1> QED BY <1>7 DEF l1, l2, e

\* A new connection: nothing is on the way.
LEMMA EmptyLine ==
    /\ Line(<<>>, <<>>, <<>>) = <<>>
    /\ \A l1, n : Thins(<<>>, 0, l1, n)
<1> DEFINE e == <<>>
<1>1. Len(e) = 0 /\ e \in Seq(Ack) /\ e \in Seq(Addressed)
  OBVIOUS
<1> HIDE DEF e
<1>2. Len(Line(e, e, e)) = 0 /\ Line(e, e, e) \in Seq(Item)
  <2>1. e \in Seq(Ack) /\ e \in Seq(Addressed)
    BY <1>1
  <2>2. Len(Line(e, e, e)) = Len(e) + Len(e) + Len(e) /\ Line(e, e, e) \in Seq(Item)
    BY <2>1, LineFacts
  <2> QED BY <1>1, <2>2
<1>3. Line(<<>>, <<>>, <<>>) = <<>>
  <2>1. Line(e, e, e) = <<>>
    BY <1>2
  <2> QED BY <2>1 DEF e
<1>4. ASSUME NEW l1, NEW n PROVE Thins(<<>>, 0, l1, n)
  <2>1. 1 .. Len(<<>>) = {}
    OBVIOUS
  <2> DEFINE at == [k \in {} |-> 1]
  <2>2. at \in [1 .. Len(<<>>) -> 1 .. Len(l1)]
    BY <2>1
  <2> QED BY <2>1, <2>2 DEF Thins
<1> QED BY <1>3, <1>4

-----------------------------------------------------------------------------
(* Exactly once                                                              *)

Brings(x, t, p) == AnswerType(x) = t /\ x.pid = p
NoneOf(l, t, p) == \A k \in 1 .. Len(l) : ~Brings(l[k], t, p)
NotBefore(l, t, u, p) ==
    \A j, k \in 1 .. Len(l) : j < k => ~(Brings(l[j], t, p) /\ Brings(l[k], u, p))
OnWay(l, n, t, p) == \E k \in 1 .. Len(l) : k > n /\ Brings(l[k], t, p)

\* The stages between the first PUBLISH of QoS 2 and its PUBCOMP.
Mid == {"await_pubrec", "send_pubrel", "await_pubcomp", "dropped"}

\* A packet that brings a PUBREC belongs to a message in the middle of its
\* handshake.
HasOwner(l, stg, pids) ==
    \A k \in 1 .. Len(l) : AnswerType(l[k]) = "pubrec" =>
        \E m \in Msgs : Qos[m] = 2 /\ pids[m] = l[k].pid /\ stg[m] \in Mid

\* No PUBREL is on the way that was not sent.
Unreleased(l, stg, pids) ==
    \A m \in Msgs : stg[m] \in {"send_pubrel", "dropped"} => NoneOf(l, "pubcomp", pids[m])

\* What is left of the last user of the packet id comes before what belongs to
\* this one, and the PUBLISHes come before the PUBRELs.
InTurn(l, stg, pids) ==
    \A m \in Msgs :
        /\ stg[m] = "await_pubrec" => NotBefore(l, "pubrec", "pubcomp", pids[m])
        /\ stg[m] = "await_pubcomp" => NotBefore(l, "pubcomp", "pubrec", pids[m])

OwnPid(l, n, stg, pids) ==
    \A k \in 1 .. Len(l) : k > n /\ l[k].type = "publish" /\ Qos[l[k].uid] = 2 =>
        pids[l[k].uid] = l[k].pid /\ stg[l[k].uid] \in Mid

\* A message the broker has passed on is remembered by its packet id as long as
\* its PUBLISH may come again.
OnceOnly(l, n, stg, pids, del, rec) ==
    \A m \in Msgs : Qos[m] = 2 =>
        /\ del[m] <= 1
        /\ stg[m] \in Unsent => del[m] = 0
        /\ stg[m] = "await_pubrec" /\ OnWay(l, n, "pubcomp", pids[m]) => del[m] = 0
        /\ stg[m] = "await_pubrec" /\ del[m] > 0 => pids[m] \in rec
        /\ stg[m] \in Mid /\ OnWay(l, n, "pubrec", pids[m]) /\ del[m] > 0 => pids[m] \in rec

\* What has not reached the broker names a message.
UidsKnown(l, n) ==
    \A k \in 1 .. Len(l) : k > n /\ l[k].type = "publish" => l[k].uid \in Msgs

OnceInv(l, n, stg, pids, del, rec) ==
    /\ HasOwner(l, stg, pids)
    /\ Unreleased(l, stg, pids)
    /\ InTurn(l, stg, pids)
    /\ OwnPid(l, n, stg, pids)
    /\ OnceOnly(l, n, stg, pids, del, rec)

\* No two messages hold the same packet id.
Unique(pids) == \A m, n \in Msgs : pids[m] = pids[n] /\ pids[m] # NoPid => m = n

\* When packets or answers are lost or taken, less is on the way.
LEMMA ThinOnce ==
    ASSUME NEW l1, NEW n1, NEW l2, NEW n2, NEW stg, NEW pids, NEW del, NEW rec,
           OnceInv(l1, n1, stg, pids, del, rec), Thins(l2, n2, l1, n1)
    PROVE  OnceInv(l2, n2, stg, pids, del, rec)
<1>1. PICK at \in [1 .. Len(l2) -> 1 .. Len(l1)] :
         /\ \A j, k \in 1 .. Len(l2) : j < k => at[j] < at[k]
         /\ \A k \in 1 .. Len(l2) : l2[k] = l1[at[k]] /\ (k > n2 <=> at[k] > n1)
  BY DEF Thins
<1>2. \A k \in 1 .. Len(l2) : at[k] \in 1 .. Len(l1)
  OBVIOUS
<1>3. HasOwner(l2, stg, pids)
  BY <1>1, <1>2 DEF OnceInv, HasOwner
<1>4. \A t, p : NoneOf(l1, t, p) => NoneOf(l2, t, p)
  BY <1>1, <1>2 DEF NoneOf
<1>5. \A t, u, p : NotBefore(l1, t, u, p) => NotBefore(l2, t, u, p)
  BY <1>1, <1>2 DEF NotBefore
<1>6. \A t, p : OnWay(l2, n2, t, p) => OnWay(l1, n1, t, p)
  BY <1>1, <1>2 DEF OnWay
<1>7. OwnPid(l2, n2, stg, pids)
  BY <1>1, <1>2 DEF OnceInv, OwnPid
<1>8. Unreleased(l2, stg, pids) /\ InTurn(l2, stg, pids)
  BY <1>4, <1>5 DEF OnceInv, Unreleased, InTurn
<1>9. OnceOnly(l2, n2, stg, pids, del, rec)
  BY <1>6 DEF OnceInv, OnceOnly
<1> QED BY <1>3, <1>7, <1>8, <1>9 DEF OnceInv

\* An answer brings what its packet would have brought.
LEMMA AnswerSame ==
    ASSUME NEW l1 \in Seq(Item), NEW n1, NEW l2, NEW n2, Answered(l2, n2, l1, n1),
           n1 \in Nat, l1[n2] \in Addressed, AnswerType(l1[n2]) # "none"
    PROVE  /\ Len(l2) = Len(l1)
           /\ \A k \in 1 .. Len(l1) : AnswerType(l2[k]) = AnswerType(l1[k]) /\ l2[k].pid = l1[k].pid
           /\ \A k \in 1 .. Len(l1) : k > n2 => k > n1 /\ l2[k] = l1[k]
           /\ n2 \in 1 .. Len(l1) /\ n2 > n1
<1>1. /\ n2 = n1 + 1 /\ n2 \in 1 .. Len(l1) /\ Len(l2) = Len(l1)
      /\ \A k \in 1 .. Len(l1) : k # n2 => l2[k] = l1[k]
      /\ l2[n2] = [type |-> AnswerType(l1[n2]), pid |-> l1[n2].pid]
  BY DEF Answered
<1>2. AnswerType(l1[n2]) \in {"puback", "pubrec", "pubcomp"}
  <2>1. l1[n2].type \in {"publish", "pubrel"}
    BY PacketFields DEF Addressed
  <2> QED BY <2>1 DEF AnswerType
<1>3. AnswerType(l2[n2]) = AnswerType(l1[n2]) /\ l2[n2].pid = l1[n2].pid
  <2> DEFINE t == AnswerType(l1[n2])
  <2>1. l2[n2].type = t /\ l2[n2].pid = l1[n2].pid
    BY <1>1
  <2>2. t \in {"puback", "pubrec", "pubcomp"}
    BY <1>2
  <2> HIDE DEF t
  <2>3. AnswerType(l2[n2]) = t
    BY <2>1, <2>2 DEF AnswerType
  <2> QED BY <2>1, <2>3 DEF t
<1> QED BY <1>1, <1>3

\* So an answer changes nothing but what the broker remembers.
LEMMA AnswerOnce ==
    ASSUME NEW l1 \in Seq(Item), NEW n1 \in Nat, NEW l2, NEW n2, Answered(l2, n2, l1, n1),
           l1[n2] \in Addressed, AnswerType(l1[n2]) # "none",
           NEW stg, NEW pids, NEW del, NEW rec,
           OnceInv(l1, n1, stg, pids, del, rec)
    PROVE  OnceInv(l2, n2, stg, pids, del, rec)
<1>1. /\ Len(l2) = Len(l1)
      /\ \A k \in 1 .. Len(l1) : AnswerType(l2[k]) = AnswerType(l1[k]) /\ l2[k].pid = l1[k].pid
      /\ \A k \in 1 .. Len(l1) : k > n2 => k > n1 /\ l2[k] = l1[k]
  BY AnswerSame
<1>2. \A k \in 1 .. Len(l1) : \A t, p : Brings(l2[k], t, p) <=> Brings(l1[k], t, p)
  BY <1>1 DEF Brings
<1>3. HasOwner(l2, stg, pids)
  BY <1>1 DEF OnceInv, HasOwner
<1>4. \A t, p : NoneOf(l1, t, p) => NoneOf(l2, t, p)
  BY <1>1, <1>2 DEF NoneOf
<1>5. \A t, u, p : NotBefore(l1, t, u, p) => NotBefore(l2, t, u, p)
  BY <1>1, <1>2 DEF NotBefore
<1>6. \A t, p : OnWay(l2, n2, t, p) => OnWay(l1, n1, t, p)
  BY <1>1, <1>2 DEF OnWay
<1>7. OwnPid(l2, n2, stg, pids)
  BY <1>1 DEF OnceInv, OwnPid
<1>8. Unreleased(l2, stg, pids) /\ InTurn(l2, stg, pids)
  BY <1>4, <1>5 DEF OnceInv, Unreleased, InTurn
<1>9. OnceOnly(l2, n2, stg, pids, del, rec)
  BY <1>6 DEF OnceInv, OnceOnly
<1> QED BY <1>3, <1>7, <1>8, <1>9 DEF OnceInv

\* The broker's memory of the other QoS is not about QoS 2.
LEMMA OtherDelivered ==
    ASSUME NEW l, NEW n, NEW stg, NEW pids, NEW del, NEW rec, NEW del2,
           OnceInv(l, n, stg, pids, del, rec), \A m \in Msgs : Qos[m] = 2 => del2[m] = del[m]
    PROVE  OnceInv(l, n, stg, pids, del2, rec)
BY DEF OnceInv, OnceOnly

\* The broker takes a PUBLISH of QoS 2, and passes the message on if it does not
\* remember the packet id.
LEMMA BrokerPublishOnce ==
    ASSUME NEW l1 \in Seq(Item), NEW n1 \in Nat, NEW l2, NEW n2, Answered(l2, n2, l1, n1),
           NEW x \in Addressed, l1[n2] = x, x.type = "publish", Qos[x.uid] = 2,
           NEW stg, NEW pids, NEW del \in [Msgs -> Nat], NEW rec, NEW del2,
           del2 = IF x.pid \in rec THEN del ELSE [del EXCEPT ![x.uid] = @ + 1],
           OnceInv(l1, n1, stg, pids, del, rec)
    PROVE  OnceInv(l2, n2, stg, pids, del2, rec \cup {x.pid})
<1>0. x.uid \in Msgs
  BY PacketFields DEF Addressed
<1>1. AnswerType(x) = "pubrec"
  BY DEF AnswerType
<1>2. OnceInv(l2, n2, stg, pids, del, rec)
  BY <1>1, AnswerOnce
<1>3. /\ Len(l2) = Len(l1) /\ n2 \in 1 .. Len(l1) /\ n2 > n1
      /\ \A k \in 1 .. Len(l1) : k > n2 => k > n1 /\ l2[k] = l1[k]
  BY <1>1, AnswerSame
<1>4. pids[x.uid] = x.pid /\ stg[x.uid] \in Mid
  BY <1>3 DEF OnceInv, OwnPid
<1>5. OnWay(l1, n1, "pubrec", x.pid)
  BY <1>1, <1>3 DEF OnWay, Brings
<1>6. x.pid \notin rec => del[x.uid] = 0
  <2>1. del[x.uid] \in Nat
    BY <1>0
  <2> QED BY <1>0, <1>4, <1>5, <2>1 DEF OnceInv, OnceOnly
<1>7. stg[x.uid] = "await_pubrec" => ~OnWay(l2, n2, "pubcomp", x.pid)
  <2> SUFFICES ASSUME stg[x.uid] = "await_pubrec", NEW k \in 1 .. Len(l2), k > n2,
                      Brings(l2[k], "pubcomp", x.pid)
               PROVE  FALSE
    BY DEF OnWay
  <2>1. NotBefore(l1, "pubrec", "pubcomp", x.pid)
    BY <1>0, <1>4 DEF OnceInv, InTurn
  <2>2. Brings(l1[k], "pubcomp", x.pid) /\ Brings(l1[n2], "pubrec", x.pid) /\ n2 < k
    BY <1>1, <1>3 DEF Brings
  <2> QED BY <1>3, <2>1, <2>2 DEF NotBefore
<1>8. \A m \in Msgs : del2[m] = IF m = x.uid /\ x.pid \notin rec THEN del[m] + 1 ELSE del[m]
  BY <1>0
<1>9. OnceOnly(l2, n2, stg, pids, del2, rec \cup {x.pid})
  <2> SUFFICES ASSUME NEW m \in Msgs, Qos[m] = 2
               PROVE  /\ del2[m] <= 1
                      /\ stg[m] \in Unsent => del2[m] = 0
                      /\ stg[m] = "await_pubrec" /\ OnWay(l2, n2, "pubcomp", pids[m]) => del2[m] = 0
                      /\ stg[m] = "await_pubrec" /\ del2[m] > 0 => pids[m] \in rec \cup {x.pid}
                      /\ stg[m] \in Mid /\ OnWay(l2, n2, "pubrec", pids[m]) /\ del2[m] > 0
                            => pids[m] \in rec \cup {x.pid}
    BY DEF OnceOnly
  <2>1. CASE m = x.uid /\ x.pid \notin rec
    <3>1. del2[m] = 1 /\ stg[m] \in Mid /\ pids[m] = x.pid
      BY <1>4, <1>6, <1>8, <2>1
    <3>2. stg[m] \notin Unsent
      BY <3>1 DEF Mid, Unsent
    <3> QED BY <1>7, <2>1, <3>1, <3>2
  <2>2. CASE ~(m = x.uid /\ x.pid \notin rec)
    <3>1. del2[m] = del[m]
      BY <1>8, <2>2
    <3> QED BY <1>2, <3>1 DEF OnceInv, OnceOnly
  <2> QED BY <2>1, <2>2
<1> QED BY <1>2, <1>9 DEF OnceInv

\* The broker takes a PUBREL and forgets the packet id.
LEMMA BrokerPubrelOnce ==
    ASSUME NEW l1 \in Seq(Item), NEW n1 \in Nat, NEW l2, NEW n2, Answered(l2, n2, l1, n1),
           NEW x \in Addressed, l1[n2] = x, x.type = "pubrel",
           NEW stg, NEW pids, NEW del, NEW rec,
           OnceInv(l1, n1, stg, pids, del, rec)
    PROVE  OnceInv(l2, n2, stg, pids, del, rec \ {x.pid})
<1>1. AnswerType(x) = "pubcomp"
  BY DEF AnswerType
<1>2. OnceInv(l2, n2, stg, pids, del, rec)
  BY <1>1, AnswerOnce
<1>3. /\ Len(l2) = Len(l1) /\ n2 \in 1 .. Len(l1) /\ n2 > n1
      /\ \A k \in 1 .. Len(l1) : k > n2 => k > n1 /\ l2[k] = l1[k]
  BY <1>1, AnswerSame
<1>4. Brings(l1[n2], "pubcomp", x.pid) /\ OnWay(l1, n1, "pubcomp", x.pid)
  BY <1>1, <1>3 DEF OnWay, Brings
<1>5. ASSUME NEW m \in Msgs, Qos[m] = 2, pids[m] = x.pid, stg[m] = "await_pubrec"
      PROVE  del[m] = 0
  BY <1>4, <1>5 DEF OnceInv, OnceOnly
<1>6. ASSUME NEW m \in Msgs, Qos[m] = 2, pids[m] = x.pid, stg[m] \in Mid,
             OnWay(l2, n2, "pubrec", x.pid)
      PROVE  del[m] = 0
  <2>1. PICK k \in 1 .. Len(l2) : k > n2 /\ Brings(l2[k], "pubrec", x.pid)
    BY <1>6 DEF OnWay
  <2>2. k \in 1 .. Len(l1) /\ n2 < k /\ Brings(l1[k], "pubrec", x.pid)
    BY <1>3, <2>1
  <2>3. stg[m] # "await_pubcomp"
    BY <1>3, <1>4, <1>6, <2>2 DEF OnceInv, InTurn, NotBefore
  <2>4. stg[m] \notin {"send_pubrel", "dropped"}
    BY <1>3, <1>4, <1>6 DEF OnceInv, Unreleased, NoneOf
  <2> QED BY <1>5, <1>6, <2>3, <2>4 DEF Mid
<1>7. OnceOnly(l2, n2, stg, pids, del, rec \ {x.pid})
  <2> SUFFICES ASSUME NEW m \in Msgs, Qos[m] = 2
               PROVE  /\ del[m] <= 1
                      /\ stg[m] \in Unsent => del[m] = 0
                      /\ stg[m] = "await_pubrec" /\ OnWay(l2, n2, "pubcomp", pids[m]) => del[m] = 0
                      /\ stg[m] = "await_pubrec" /\ del[m] > 0 => pids[m] \in rec \ {x.pid}
                      /\ stg[m] \in Mid /\ OnWay(l2, n2, "pubrec", pids[m]) /\ del[m] > 0
                            => pids[m] \in rec \ {x.pid}
    BY DEF OnceOnly
  <2>1. /\ del[m] <= 1
        /\ stg[m] \in Unsent => del[m] = 0
        /\ stg[m] = "await_pubrec" /\ OnWay(l2, n2, "pubcomp", pids[m]) => del[m] = 0
        /\ stg[m] = "await_pubrec" /\ del[m] > 0 => pids[m] \in rec
        /\ stg[m] \in Mid /\ OnWay(l2, n2, "pubrec", pids[m]) /\ del[m] > 0 => pids[m] \in rec
    BY <1>2 DEF OnceInv, OnceOnly
  <2>2. CASE pids[m] = x.pid
    BY <1>5, <1>6, <2>1, <2>2
  <2>3. CASE pids[m] # x.pid
    BY <2>1, <2>3
  <2> QED BY <2>2, <2>3
<1> QED BY <1>2, <1>7 DEF OnceInv

\* A packet comes to the end of the line.
LEMMA AppendedLine ==
    ASSUME NEW l \in Seq(Item), NEW n \in Nat, n <= Len(l), NEW x \in Addressed
    PROVE  /\ Len(Append(l, x)) = Len(l) + 1 /\ Len(l) \in Nat
           /\ \A k \in 1 .. Len(l) : Append(l, x)[k] = l[k]
           /\ Append(l, x)[Len(l) + 1] = x
           /\ \A t, p : ~Brings(x, t, p) =>
                 /\ NoneOf(l, t, p) => NoneOf(Append(l, x), t, p)
                 /\ OnWay(Append(l, x), n, t, p) => OnWay(l, n, t, p)
           /\ \A t, u, p : NotBefore(l, t, u, p) /\ (~Brings(x, u, p) \/ NoneOf(l, t, p))
                              => NotBefore(Append(l, x), t, u, p)
<1> DEFINE r == Append(l, x)
<1>1. /\ Len(r) = Len(l) + 1 /\ Len(l) \in Nat
      /\ \A k \in 1 .. Len(l) : r[k] = l[k]
      /\ r[Len(l) + 1] = x
  <2>1. x \in Item
    BY DEF Item
  <2> QED BY <2>1, PushFacts
<1> HIDE DEF r
<1>2. \A k \in 1 .. Len(r) : k \in 1 .. Len(l) \/ k = Len(l) + 1
  BY <1>1
<1>3. ASSUME NEW t, NEW p, ~Brings(x, t, p)
      PROVE  /\ NoneOf(l, t, p) => NoneOf(r, t, p)
             /\ OnWay(r, n, t, p) => OnWay(l, n, t, p)
  BY <1>1, <1>2, <1>3 DEF NoneOf, OnWay
<1>4. ASSUME NEW t, NEW u, NEW p, NotBefore(l, t, u, p), ~Brings(x, u, p) \/ NoneOf(l, t, p)
      PROVE  NotBefore(r, t, u, p)
  <2> SUFFICES ASSUME NEW j \in 1 .. Len(r), NEW k \in 1 .. Len(r), j < k,
                      Brings(r[j], t, p), Brings(r[k], u, p)
               PROVE  FALSE
    BY DEF NotBefore
  <2>1. j \in 1 .. Len(l) /\ Brings(l[j], t, p)
    BY <1>1
  <2>2. CASE k \in 1 .. Len(l)
    BY <1>1, <1>4, <2>1, <2>2 DEF NotBefore
  <2>3. CASE k = Len(l) + 1
    BY <1>1, <1>4, <2>1, <2>3 DEF NoneOf
  <2> QED BY <1>2, <2>2, <2>3
<1> QED BY <1>1, <1>3, <1>4 DEF r

\* A PUBLISH of QoS 0 or 1 is written.
LEMMA WriteOther ==
    ASSUME NEW l \in Seq(Item), NEW n \in Nat, n <= Len(l), NEW x \in Addressed,
           x.type = "publish", Qos[x.uid] # 2,
           NEW stg, NEW pids, NEW del, NEW rec, OnceInv(l, n, stg, pids, del, rec)
    PROVE  OnceInv(Append(l, x), n, stg, pids, del, rec)
<1> DEFINE r == Append(l, x)
<1>0. \A p : ~Brings(x, "pubrec", p) /\ ~Brings(x, "pubcomp", p) /\ AnswerType(x) # "pubrec"
  BY DEF Brings, AnswerType
<1>1. /\ Len(r) = Len(l) + 1 /\ Len(l) \in Nat
      /\ \A k \in 1 .. Len(l) : r[k] = l[k]
      /\ r[Len(l) + 1] = x
      /\ \A p : /\ NoneOf(l, "pubcomp", p) => NoneOf(r, "pubcomp", p)
                /\ OnWay(r, n, "pubrec", p) => OnWay(l, n, "pubrec", p)
                /\ OnWay(r, n, "pubcomp", p) => OnWay(l, n, "pubcomp", p)
                /\ NotBefore(l, "pubrec", "pubcomp", p) => NotBefore(r, "pubrec", "pubcomp", p)
                /\ NotBefore(l, "pubcomp", "pubrec", p) => NotBefore(r, "pubcomp", "pubrec", p)
  BY <1>0, AppendedLine
<1> HIDE DEF r
<1>2. \A k \in 1 .. Len(r) : (k \in 1 .. Len(l) /\ r[k] = l[k]) \/ r[k] = x
  BY <1>1
<1>3. HasOwner(r, stg, pids)
  BY <1>0, <1>2 DEF OnceInv, HasOwner
<1>4. OwnPid(r, n, stg, pids)
  BY <1>2 DEF OnceInv, OwnPid
<1>5. Unreleased(r, stg, pids) /\ InTurn(r, stg, pids)
  BY <1>1 DEF OnceInv, Unreleased, InTurn
<1>6. OnceOnly(r, n, stg, pids, del, rec)
  BY <1>1 DEF OnceInv, OnceOnly
<1>7. OnceInv(r, n, stg, pids, del, rec)
  BY <1>3, <1>4, <1>5, <1>6 DEF OnceInv
<1> QED BY <1>7 DEF r

\* A PUBLISH of QoS 2 is written, by the message that waits for its PUBREC.
LEMMA WritePublish ==
    ASSUME NEW l \in Seq(Item), NEW n \in Nat, n <= Len(l), NEW x \in Addressed,
           x.type = "publish", Qos[x.uid] = 2,
           NEW stg, NEW pids, NEW del, NEW rec, OnceInv(l, n, stg, pids, del, rec),
           Unique(pids), x.pid # NoPid, pids[x.uid] = x.pid, stg[x.uid] = "await_pubrec"
    PROVE  OnceInv(Append(l, x), n, stg, pids, del, rec)
<1> DEFINE r == Append(l, x)
           m == x.uid
<1>9. m \in Msgs
  BY PacketFields DEF Addressed
<1>0. /\ AnswerType(x) = "pubrec"
      /\ \A p : ~Brings(x, "pubcomp", p) /\ (Brings(x, "pubrec", p) <=> p = x.pid)
  BY DEF Brings, AnswerType
<1>1. /\ Len(r) = Len(l) + 1 /\ Len(l) \in Nat
      /\ \A k \in 1 .. Len(l) : r[k] = l[k]
      /\ r[Len(l) + 1] = x
      /\ \A p : /\ NoneOf(l, "pubcomp", p) => NoneOf(r, "pubcomp", p)
                /\ OnWay(r, n, "pubrec", p) /\ p # x.pid => OnWay(l, n, "pubrec", p)
                /\ OnWay(r, n, "pubcomp", p) => OnWay(l, n, "pubcomp", p)
                /\ NotBefore(l, "pubrec", "pubcomp", p) => NotBefore(r, "pubrec", "pubcomp", p)
                /\ NotBefore(l, "pubcomp", "pubrec", p) /\ p # x.pid
                      => NotBefore(r, "pubcomp", "pubrec", p)
  BY <1>0, AppendedLine
<1>2. \A o \in Msgs : pids[o] = x.pid => o = m
  BY <1>9 DEF Unique
<1> HIDE DEF r, m
<1>3. \A k \in 1 .. Len(r) : (k \in 1 .. Len(l) /\ r[k] = l[k]) \/ r[k] = x
  BY <1>1
<1>4. HasOwner(r, stg, pids)
  <2>1. Qos[m] = 2 /\ pids[m] = x.pid /\ stg[m] \in Mid
    BY DEF m, Mid
  <2> QED BY <1>3, <1>9, <2>1 DEF OnceInv, HasOwner
<1>5. OwnPid(r, n, stg, pids)
  <2>1. pids[x.uid] = x.pid /\ stg[x.uid] \in Mid
    BY DEF Mid
  <2> QED BY <1>3, <2>1 DEF OnceInv, OwnPid
<1>6. Unreleased(r, stg, pids)
  BY <1>1 DEF OnceInv, Unreleased
<1>7. InTurn(r, stg, pids)
  <2>1. \A o \in Msgs : stg[o] = "await_pubcomp" => pids[o] # x.pid
    BY <1>2 DEF m
  <2> QED BY <1>1, <2>1 DEF OnceInv, InTurn
<1>8. OnceOnly(r, n, stg, pids, del, rec)
  <2> SUFFICES ASSUME NEW o \in Msgs, Qos[o] = 2, stg[o] \in Mid, OnWay(r, n, "pubrec", pids[o]),
                      del[o] > 0
               PROVE  pids[o] \in rec
    BY <1>1 DEF OnceInv, OnceOnly
  <2>1. CASE o = m
    BY <2>1 DEF m, OnceInv, OnceOnly
  <2>2. CASE o # m
    BY <1>1, <1>2, <2>2 DEF OnceInv, OnceOnly
  <2> QED BY <2>1, <2>2
<1>10. OnceInv(r, n, stg, pids, del, rec)
  BY <1>4, <1>5, <1>6, <1>7, <1>8 DEF OnceInv
<1> QED BY <1>10 DEF r

\* A PUBREL is written, for the message that waits for its PUBCOMP.
LEMMA WritePubrel ==
    ASSUME NEW l \in Seq(Item), NEW n \in Nat, n <= Len(l), NEW x \in Addressed, x.type = "pubrel",
           NEW stg, NEW pids, NEW del, NEW rec, OnceInv(l, n, stg, pids, del, rec),
           Unique(pids), x.pid # NoPid, NEW m \in Msgs, pids[m] = x.pid, stg[m] = "await_pubcomp"
    PROVE  OnceInv(Append(l, x), n, stg, pids, del, rec)
<1> DEFINE r == Append(l, x)
<1>0. /\ AnswerType(x) = "pubcomp"
      /\ \A p : ~Brings(x, "pubrec", p) /\ (Brings(x, "pubcomp", p) <=> p = x.pid)
  BY DEF Brings, AnswerType
<1>1. /\ Len(r) = Len(l) + 1 /\ Len(l) \in Nat
      /\ \A k \in 1 .. Len(l) : r[k] = l[k]
      /\ r[Len(l) + 1] = x
      /\ \A p : /\ NoneOf(l, "pubcomp", p) /\ p # x.pid => NoneOf(r, "pubcomp", p)
                /\ OnWay(r, n, "pubrec", p) => OnWay(l, n, "pubrec", p)
                /\ OnWay(r, n, "pubcomp", p) /\ p # x.pid => OnWay(l, n, "pubcomp", p)
                /\ NotBefore(l, "pubrec", "pubcomp", p) /\ p # x.pid
                      => NotBefore(r, "pubrec", "pubcomp", p)
                /\ NotBefore(l, "pubcomp", "pubrec", p) => NotBefore(r, "pubcomp", "pubrec", p)
  BY <1>0, AppendedLine
<1>2. \A o \in Msgs : stg[o] # "await_pubcomp" => pids[o] # x.pid
  BY DEF Unique
<1> HIDE DEF r
<1>3. \A k \in 1 .. Len(r) : (k \in 1 .. Len(l) /\ r[k] = l[k]) \/ r[k] = x
  BY <1>1
<1>4. HasOwner(r, stg, pids)
  BY <1>0, <1>3 DEF OnceInv, HasOwner
<1>5. OwnPid(r, n, stg, pids)
  BY <1>3 DEF OnceInv, OwnPid
<1>6. Unreleased(r, stg, pids)
  BY <1>1, <1>2 DEF OnceInv, Unreleased
<1>7. InTurn(r, stg, pids)
  BY <1>1, <1>2 DEF OnceInv, InTurn
<1>8. OnceOnly(r, n, stg, pids, del, rec)
  BY <1>1, <1>2 DEF OnceInv, OnceOnly
<1>10. OnceInv(r, n, stg, pids, del, rec)
  BY <1>4, <1>5, <1>6, <1>7, <1>8 DEF OnceInv
<1> QED BY <1>10 DEF r

\* A message that is not in the middle of the handshake of QoS 2 changes its
\* stage, and may take or return a packet id.
LEMMA MoveOutside ==
    ASSUME NEW l, NEW n, UidsKnown(l, n), NEW stg, NEW pids, NEW del, NEW rec, OnceInv(l, n, stg, pids, del, rec),
           NEW stg2, NEW pids2, NEW m \in Msgs, SameBut(m, stg, stg2), SameBut(m, pids, pids2),
           stg[m] \notin Mid, stg2[m] \notin Mid,
           Qos[m] = 2 => stg[m] \in Unsent
    PROVE  OnceInv(l, n, stg2, pids2, del, rec)
<1>1. \A o \in Msgs : o = m \/ (stg2[o] = stg[o] /\ pids2[o] = pids[o])
  BY DEF SameBut
<1>2. HasOwner(l, stg2, pids2)
  BY <1>1 DEF OnceInv, HasOwner
<1>3. \A o \in Msgs : stg2[o] \in Mid => o # m
  OBVIOUS
<1>4. Unreleased(l, stg2, pids2)
  BY <1>1, <1>3 DEF OnceInv, Unreleased, Mid
<1>5. InTurn(l, stg2, pids2)
  BY <1>1, <1>3 DEF OnceInv, InTurn, Mid
<1>6. OwnPid(l, n, stg2, pids2)
  <2> SUFFICES ASSUME NEW k \in 1 .. Len(l), k > n, l[k].type = "publish", Qos[l[k].uid] = 2
               PROVE  pids2[l[k].uid] = l[k].pid /\ stg2[l[k].uid] \in Mid
    BY DEF OwnPid
  <2>1. pids[l[k].uid] = l[k].pid /\ stg[l[k].uid] \in Mid
    BY DEF OnceInv, OwnPid
  <2>2. l[k].uid \in Msgs
    BY DEF UidsKnown
  <2> QED BY <1>1, <2>1, <2>2
<1>7. OnceOnly(l, n, stg2, pids2, del, rec)
  <2>1. Qos[m] = 2 => del[m] <= 1 /\ del[m] = 0
    BY DEF OnceInv, OnceOnly
  <2> QED BY <1>1, <1>3, <2>1 DEF OnceInv, OnceOnly, Mid
<1> QED BY <1>2, <1>4, <1>5, <1>6, <1>7 DEF OnceInv


\* A message of QoS 2 goes on in its handshake.
LEMMA MoveMid ==
    ASSUME NEW l, NEW n, UidsKnown(l, n), NEW stg, NEW pids, NEW del, NEW rec,
           OnceInv(l, n, stg, pids, del, rec),
           NEW stg2, NEW m \in Msgs, SameBut(m, stg, stg2), stg2[m] \in Mid,
           stg[m] \in Mid \/ del[m] = 0,
           stg2[m] # "await_pubrec" => NoneOf(l, "pubcomp", pids[m]),
           stg2[m] = "await_pubrec" => NoneOf(l, "pubrec", pids[m]) /\ del[m] = 0
    PROVE  OnceInv(l, n, stg2, pids, del, rec)
<1>1. \A o \in Msgs : o = m \/ stg2[o] = stg[o]
  BY DEF SameBut
<1>2. HasOwner(l, stg2, pids)
  BY <1>1 DEF OnceInv, HasOwner
<1>3. Unreleased(l, stg2, pids)
  BY <1>1 DEF OnceInv, Unreleased
<1>4. InTurn(l, stg2, pids)
  <2> SUFFICES ASSUME NEW o \in Msgs
               PROVE  /\ stg2[o] = "await_pubrec" => NotBefore(l, "pubrec", "pubcomp", pids[o])
                      /\ stg2[o] = "await_pubcomp" => NotBefore(l, "pubcomp", "pubrec", pids[o])
    BY DEF InTurn
  <2>1. CASE o = m
    BY <2>1 DEF NoneOf, NotBefore
  <2>2. CASE o # m
    BY <1>1, <2>2 DEF OnceInv, InTurn
  <2> QED BY <2>1, <2>2
<1>5. OwnPid(l, n, stg2, pids)
  BY <1>1 DEF OnceInv, OwnPid, UidsKnown
<1>6. OnceOnly(l, n, stg2, pids, del, rec)
  <2> SUFFICES ASSUME NEW o \in Msgs, Qos[o] = 2
               PROVE  /\ del[o] <= 1
                      /\ stg2[o] \in Unsent => del[o] = 0
                      /\ stg2[o] = "await_pubrec" /\ OnWay(l, n, "pubcomp", pids[o]) => del[o] = 0
                      /\ stg2[o] = "await_pubrec" /\ del[o] > 0 => pids[o] \in rec
                      /\ stg2[o] \in Mid /\ OnWay(l, n, "pubrec", pids[o]) /\ del[o] > 0
                            => pids[o] \in rec
    BY DEF OnceOnly
  <2>0. del[o] <= 1
    BY DEF OnceInv, OnceOnly
  <2>1. CASE o = m
    <3>1. stg2[m] \notin Unsent
      BY DEF Mid, Unsent
    <3>2. stg[m] \in Mid /\ OnWay(l, n, "pubrec", pids[m]) /\ del[m] > 0 => pids[m] \in rec
      BY <2>1 DEF OnceInv, OnceOnly
    <3> QED BY <2>0, <2>1, <3>1, <3>2
  <2>2. CASE o # m
    BY <1>1, <2>2 DEF OnceInv, OnceOnly
  <2> QED BY <2>1, <2>2
<1> QED BY <1>2, <1>3, <1>4, <1>5, <1>6 DEF OnceInv

\* The PUBCOMP ends the handshake and returns the packet id.
LEMMA MoveDone ==
    ASSUME NEW l, NEW n, UidsKnown(l, n), NEW stg, NEW pids, NEW del, NEW rec,
           OnceInv(l, n, stg, pids, del, rec),
           NEW stg2, NEW pids2, NEW m \in Msgs, SameBut(m, stg, stg2), SameBut(m, pids, pids2),
           stg2[m] = "done", NoneOf(l, "pubrec", pids[m])
    PROVE  OnceInv(l, n, stg2, pids2, del, rec)
<1>1. \A o \in Msgs : o = m \/ (stg2[o] = stg[o] /\ pids2[o] = pids[o])
  BY DEF SameBut
<1>2. \A o \in Msgs : stg2[o] \in Mid \cup Unsent => o # m
  BY DEF Mid, Unsent
<1>3. \A k \in 1 .. Len(l) : AnswerType(l[k]) = "pubrec" => l[k].pid # pids[m]
  BY DEF NoneOf, Brings
<1>4. HasOwner(l, stg2, pids2)
  BY <1>1, <1>3 DEF OnceInv, HasOwner
<1>5. Unreleased(l, stg2, pids2)
  BY <1>1, <1>2 DEF OnceInv, Unreleased, Mid
<1>6. InTurn(l, stg2, pids2)
  BY <1>1, <1>2 DEF OnceInv, InTurn, Mid
<1>7. OwnPid(l, n, stg2, pids2)
  <2> SUFFICES ASSUME NEW k \in 1 .. Len(l), k > n, l[k].type = "publish", Qos[l[k].uid] = 2
               PROVE  pids2[l[k].uid] = l[k].pid /\ stg2[l[k].uid] \in Mid
    BY DEF OwnPid
  <2>1. pids[l[k].uid] = l[k].pid /\ stg[l[k].uid] \in Mid /\ l[k].uid \in Msgs
    BY DEF OnceInv, OwnPid, UidsKnown
  <2>2. AnswerType(l[k]) = "pubrec"
    BY DEF AnswerType
  <2> QED BY <1>1, <1>3, <2>1, <2>2
<1>8. OnceOnly(l, n, stg2, pids2, del, rec)
  <2>1. \A o \in Msgs : Qos[o] = 2 => del[o] <= 1
    BY DEF OnceInv, OnceOnly
  <2> QED BY <1>1, <1>2, <2>1 DEF OnceInv, OnceOnly, Mid
<1> QED BY <1>4, <1>5, <1>6, <1>7, <1>8 DEF OnceInv


-----------------------------------------------------------------------------
(* The steps of the flow, as they change the line                            *)

\* What the line is made of: acknowledgements, then packets.
LEMMA TheLineTyped ==
    ASSUME FlowTyped, Flags
    PROVE  /\ TheLine \in Seq(Item)
           /\ Len(to_client) \in Nat /\ Len(to_client) <= Len(TheLine) /\ Len(TheLine) \in Nat
           /\ Out(panicked, send_buffer) \in Seq(Addressed)
           /\ \A k \in 1 .. Len(to_client) : TheLine[k] \in Ack
           /\ \A k \in 1 .. Len(TheLine) : k > Len(to_client) => TheLine[k] \in Addressed
           /\ UidsKnown(TheLine, Len(to_client))
<1> DEFINE s == Out(panicked, send_buffer)
           c == to_client
           b == to_broker
           l == Line(c, b, s)
<1>1. c \in Seq(Ack) /\ b \in Seq(Addressed) /\ s \in Seq(Addressed)
  BY DEF FlowTyped, Out
<1>2. TheLine = l
  BY DEF TheLine
<1> HIDE DEF s, c, b, l
<1>3. /\ l \in Seq(Item) /\ Len(l) = Len(c) + Len(b) + Len(s)
      /\ Len(c) \in Nat /\ Len(b) \in Nat /\ Len(s) \in Nat
      /\ \A k \in 1 .. Len(c) : l[k] = c[k]
      /\ \A k \in 1 .. Len(b) : l[Len(c) + k] = b[k]
      /\ \A k \in 1 .. Len(s) : l[Len(c) + Len(b) + k] = s[k]
  BY <1>1, LineFacts DEF l
<1>8. /\ \A k \in 1 .. Len(c) : c[k] \in Ack
      /\ \A k \in 1 .. Len(b) : b[k] \in Addressed
      /\ \A k \in 1 .. Len(s) : s[k] \in Addressed
  BY <1>1
<1>4. \A k \in 1 .. Len(c) : l[k] \in Ack
  BY <1>3, <1>8
<1>5. ASSUME NEW k \in 1 .. Len(l), k > Len(c) PROVE l[k] \in Addressed
  <2>1. \/ k \in 1 .. Len(c)
        \/ \E j \in 1 .. Len(b) : k = Len(c) + j
        \/ \E j \in 1 .. Len(s) : k = Len(c) + Len(b) + j
    BY <1>1, LinePlace, ZenonT(60) DEF l
  <2>2. ASSUME NEW j \in 1 .. Len(b), k = Len(c) + j PROVE l[k] \in Addressed
    BY <1>3, <1>8, <2>2
  <2>3. ASSUME NEW j \in 1 .. Len(s), k = Len(c) + Len(b) + j PROVE l[k] \in Addressed
    BY <1>3, <1>8, <2>3
  <2> QED BY <1>5, <2>1, <2>2, <2>3
<1>6. UidsKnown(l, Len(c))
  BY <1>5, PacketFields DEF UidsKnown, Addressed
<1>7. Len(c) <= Len(l) /\ Len(l) \in Nat
  BY <1>3
<1> QED BY <1>1, <1>2, <1>3, <1>4, <1>5, <1>6, <1>7 DEF s, c

\* Nothing is written, sent or taken.
LEMMA LineStays ==
    ASSUME UNCHANGED <<netVars, send_buffer, panicked>>
    PROVE  TheLine' = TheLine /\ Len(to_client') = Len(to_client)
BY DEF TheLine, netVars

\* The client panics.
LEMMA LinePanics ==
    ASSUME FlowTyped, Flags, UNCHANGED netVars, ~panicked, panicked' = TRUE
    PROVE  Thins(TheLine', Len(to_client'), TheLine, Len(to_client))
<1>1. /\ TheLine = Line(to_client, to_broker, send_buffer)
      /\ TheLine' = Line(to_client, to_broker, <<>>)
      /\ to_client' = to_client
  BY DEF TheLine, Out, netVars
<1>2. to_client \in Seq(Ack) /\ to_broker \in Seq(Addressed) /\ send_buffer \in Seq(Addressed)
  BY DEF FlowTyped
<1>3. Thins(Line(to_client, to_broker, <<>>), Len(to_client),
            Line(to_client, to_broker, send_buffer), Len(to_client))
  BY <1>2, PanicLine
<1> QED BY <1>1, <1>3

\* A packet is written into the send buffer.
LEMMA LineWritten ==
    ASSUME FlowTyped, Flags, UNCHANGED <<netVars, panicked>>, ~panicked, NEW x \in Addressed,
           send_buffer' = Append(send_buffer, x)
    PROVE  TheLine' = Append(TheLine, x) /\ Len(to_client') = Len(to_client)
<1>1. /\ TheLine = Line(to_client, to_broker, send_buffer)
      /\ TheLine' = Line(to_client, to_broker, Append(send_buffer, x))
      /\ to_client' = to_client
  BY DEF TheLine, Out, netVars
<1>2. to_client \in Seq(Ack) /\ to_broker \in Seq(Addressed) /\ send_buffer \in Seq(Addressed)
  BY DEF FlowTyped
<1>3. Line(to_client, to_broker, Append(send_buffer, x))
         = Append(Line(to_client, to_broker, send_buffer), x)
  BY <1>2, WriteLine
<1> QED BY <1>1, <1>3

\* A packet is sent.
LEMMA LineSent ==
    ASSUME FlowTyped, Flags, Send
    PROVE  /\ TheLine' = TheLine /\ Len(to_client') = Len(to_client)
           /\ UNCHANGED <<queueVars, pc, stage, pid_of, connected, panicked, brokerVars, losses,
                          crossed>>
           /\ ~panicked
<1>1. /\ ~panicked /\ panicked' = panicked
      /\ send_buffer # <<>> /\ send_buffer' = Tail(send_buffer)
      /\ to_broker' = Append(to_broker, Head(send_buffer)) /\ to_client' = to_client
      /\ UNCHANGED <<queueVars, pc, stage, pid_of, connected, brokerVars, losses, crossed>>
  BY DEF Send, Transmit, write_to_network, histVars, loopVars
<1>2. to_client \in Seq(Ack) /\ to_broker \in Seq(Addressed) /\ send_buffer \in Seq(Addressed)
  BY DEF FlowTyped
<1>3. Line(to_client, Append(to_broker, Head(send_buffer)), Tail(send_buffer))
         = Line(to_client, to_broker, send_buffer)
  BY <1>1, <1>2, SendLine
<1>4. /\ TheLine = Line(to_client, to_broker, send_buffer)
      /\ TheLine' = Line(to_client, Append(to_broker, Head(send_buffer)), Tail(send_buffer))
  BY <1>1 DEF TheLine, Out
<1> QED BY <1>1, <1>3, <1>4

\* The client takes an acknowledgement.
LEMMA LineTaken ==
    ASSUME FlowTyped, Flags, ~panicked, to_client # <<>>, to_client' = Tail(to_client),
           UNCHANGED <<to_broker, send_buffer, panicked>>
    PROVE  /\ TheLine' = Tail(TheLine) /\ TheLine # <<>> /\ TheLine[1] = Head(to_client)
           /\ Head(to_client) \in Ack
           /\ Len(to_client) \in Nat \ {0} /\ Len(to_client') = Len(to_client) - 1
           /\ Thins(TheLine', Len(to_client'), TheLine, Len(to_client))
<1>1. /\ TheLine = Line(to_client, to_broker, send_buffer)
      /\ TheLine' = Line(Tail(to_client), to_broker, send_buffer)
  BY DEF TheLine, Out
<1>2. to_client \in Seq(Ack) /\ to_broker \in Seq(Addressed) /\ send_buffer \in Seq(Addressed)
  BY DEF FlowTyped
<1>3. Head(to_client) \in Ack
  BY <1>2
<1> DEFINE l == Line(to_client, to_broker, send_buffer)
<1>4. /\ l # <<>> /\ l \in Seq(Item) /\ l[1] = Head(to_client)
      /\ Line(Tail(to_client), to_broker, send_buffer) = Tail(l)
      /\ Len(to_client) \in Nat \ {0} /\ Len(Tail(to_client)) = Len(to_client) - 1
  BY <1>2, TakeLine
<1>5. Thins(Tail(l), Len(to_client) - 1, l, Len(to_client))
  BY <1>4, TailThins
<1> QED BY <1>1, <1>3, <1>4, <1>5

\* The broker takes a packet.
LEMMA LineAnswered ==
    ASSUME FlowTyped, Flags, Broker
    PROVE  /\ Head(to_broker) \in Addressed
           /\ BrokerPublish(Head(to_broker)) \/ BrokerPubrel(Head(to_broker))
           /\ Len(to_client) + 1 \in 1 .. Len(TheLine)
           /\ TheLine[Len(to_client) + 1] = Head(to_broker)
           /\ AnswerType(Head(to_broker)) = "none" =>
                 /\ TheLine' = Remove(TheLine, Len(to_client) + 1)
                 /\ Len(to_client') = Len(to_client)
                 /\ Thins(TheLine', Len(to_client'), TheLine, Len(to_client))
           /\ AnswerType(Head(to_broker)) # "none" =>
                 Answered(TheLine', Len(to_client'), TheLine, Len(to_client))
<1> DEFINE s == Out(panicked, send_buffer)
           x == Head(to_broker)
<1>1. /\ to_client \in Seq(Ack) /\ to_broker \in Seq(Addressed) /\ s \in Seq(Addressed)
      /\ to_broker # <<>> /\ to_broker' = Tail(to_broker)
      /\ BrokerPublish(x) \/ BrokerPubrel(x)
  BY DEF FlowTyped, Out, Broker
<1>2. x \in Addressed /\ x \in Packets
  <2>1. x \in Addressed
    BY <1>1
  <2> QED BY <2>1 DEF Addressed
<1>3. TheLine = Line(to_client, to_broker, s) /\ TheLine' = Line(to_client', Tail(to_broker), s)
  BY <1>1 DEF TheLine, Out, Broker, vars
<1> HIDE DEF s
<1>4. Len(to_client) + 1 \in 1 .. Len(Line(to_client, to_broker, s))
  BY <1>1, SwallowLine
<1>5. /\ Line(to_client, to_broker, s)[Len(to_client) + 1] = Head(to_broker)
      /\ Len(to_client) \in Nat /\ Line(to_client, to_broker, s) \in Seq(Item)
  <2>1. /\ Line(to_client, to_broker, s) \in Seq(Item) /\ Len(to_client) \in Nat
        /\ \A k \in 1 .. Len(to_broker) :
              Line(to_client, to_broker, s)[Len(to_client) + k] = to_broker[k]
    BY <1>1, LineFacts
  <2>2. 1 \in 1 .. Len(to_broker) /\ Head(to_broker) = to_broker[1]
    BY <1>1, TailFacts
  <2> QED BY <2>1, <2>2
<1>6. CASE AnswerType(x) = "none"
  <2>1. UNCHANGED to_client
    <3>1. x.type \in {"publish", "pubrel"}
      BY <1>2, PacketFields
    <3>2. x.type = "publish" /\ Qos[x.uid] # 2 /\ Qos[x.uid] # 1
      BY <1>6, <3>1 DEF AnswerType
    <3>3. x.uid \in Msgs
      BY <1>2, <3>2, PacketFields
    <3>4. Qos[x.uid] = 0
      BY <3>2, <3>3, PublishesAssumption
    <3> HIDE DEF x
    <3> QED BY <1>1, <3>2, <3>4 DEF BrokerPublish, BrokerPubrel
  <2>2. Line(to_client, Tail(to_broker), s) = Remove(Line(to_client, to_broker, s), Len(to_client) + 1)
    BY <1>1, SwallowLine
  <2>3. Thins(Remove(TheLine, Len(to_client) + 1), Len(to_client), TheLine, Len(to_client))
    BY <1>3, <1>4, <1>5, RemoveThins
  <2> QED BY <1>1, <1>2, <1>3, <1>4, <1>5, <1>6, <2>1, <2>2, <2>3
<1>7. CASE AnswerType(x) # "none"
  <2> DEFINE a == [type |-> AnswerType(x), pid |-> x.pid]
  <2>1. to_client' = Append(to_client, a)
    <3>1. CASE BrokerPubrel(x)
      BY <3>1 DEF BrokerPubrel, Reply, AnswerType
    <3>2. CASE BrokerPublish(x)
      <4>1. x.type = "publish" /\ x.uid \in Msgs
        BY <1>2, <3>2, PacketFields DEF BrokerPublish
      <4>2. Qos[x.uid] \in {0, 1, 2}
        BY <4>1, PublishesAssumption
      <4>3. Qos[x.uid] \in {1, 2}
        BY <1>7, <4>1, <4>2 DEF AnswerType
      <4>4. CASE Qos[x.uid] = 1
        BY <3>2, <4>1, <4>4 DEF BrokerPublish, Reply, AnswerType
      <4>5. CASE Qos[x.uid] = 2
        BY <3>2, <4>1, <4>5 DEF BrokerPublish, Reply, AnswerType
      <4> QED BY <4>3, <4>4, <4>5
    <3> QED BY <1>1, <3>1, <3>2
  <2>2. a \in Ack
    <3>1. x.type = "publish" => x.pid \in Pids
      <4>1. x.type = "publish" => Qos[x.uid] # 0 /\ x.pid \in Pids \cup {NoPid}
        BY <1>2, <1>7, PacketFields DEF AnswerType
      <4> QED BY <1>2, <4>1 DEF Addressed
    <3>2. x.pid \in Pids /\ AnswerType(x) \in {"puback", "pubrec", "pubcomp"}
      BY <1>2, <1>7, <3>1, PacketFields DEF AnswerType
    <3> QED BY <3>2 DEF Ack
  <2>3. Answered(Line(Append(to_client, a), Tail(to_broker), s), Len(Append(to_client, a)),
                 Line(to_client, to_broker, s), Len(to_client))
    <3> HIDE DEF a
    <3>1. a = [type |-> AnswerType(Head(to_broker)), pid |-> Head(to_broker).pid]
      BY DEF a
    <3> QED BY <1>1, <2>2, <3>1, AnswerLine
  <2>4. Answered(TheLine', Len(to_client'), TheLine, Len(to_client))
    BY <1>3, <2>1, <2>3
  <2> HIDE DEF x
  <2>5. TheLine[Len(to_client) + 1] = x /\ Len(to_client) + 1 \in 1 .. Len(TheLine)
    BY <1>3, <1>4, <1>5 DEF x
  <2> QED BY <1>1, <1>2, <1>7, <2>4, <2>5 DEF x
<1> QED BY <1>6, <1>7


\* An entry of a queue stands for a message in the queue's stage.
LEMMA EntryOf ==
    ASSUME NEW S \in {AwaitAck, AwaitPubcomp}, NEW q, NEW st, NEW stg, NEW pids,
           Sound(q, S, st, stg, pids)
    PROVE  /\ \A k \in 1 .. Len(q) :
                 /\ q[k].uid \in Msgs /\ stg[q[k].uid] = st /\ q[k].pid = pids[q[k].uid]
                 /\ q[k] \in S /\ q[k].pid \in Pids
           /\ \A m \in Msgs : stg[m] = st => \E k \in 1 .. Len(q) : q[k].uid = m /\ q[k].pid = pids[m]
           /\ \A k, l \in 1 .. Len(q) : q[k].uid = q[l].uid => k = l
<1>1. \A k \in 1 .. Len(q) : q[k] \in S
  BY DEF Sound
<1>2. \A e \in S : e.uid \in Msgs /\ e.pid \in Pids
  <2>1. CASE S = AwaitAck
    BY <2>1 DEF AwaitAck
  <2>2. CASE S = AwaitPubcomp
    BY <2>2 DEF AwaitPubcomp
  <2> QED BY <2>1, <2>2
<1>3. \A k \in 1 .. Len(q) : q[k].uid \in Msgs /\ q[k].uid # NoMsg
  BY <1>1, <1>2, PublishesAssumption
<1> QED BY <1>1, <1>2, <1>3 DEF Sound

\* process_puback, in terms of the messages.
LEMMA PubackEffect ==
    ASSUME PubInv, NEW p \in Pids, process_puback(p)
    PROVE  /\ ~panicked /\ connected /\ pc = "idle"
           /\ UNCHANGED <<pc, panicked, send_buffer>>
           /\ \/ \E m \in Msgs, k \in 1 .. Len(await_puback) :
                    /\ await_puback[k].uid = m /\ pid_of[m] = p
                    /\ stage[m] = "await_puback" /\ Qos[m] = 1
                    /\ stage' = [stage EXCEPT ![m] = "done"]
                    /\ pid_of' = [pid_of EXCEPT ![m] = NoPid]
                    /\ await_puback' = Remove(await_puback, k)
                    /\ UNCHANGED <<send_publish, await_pubrec, send_pubrel, await_pubcomp, connected>>
              \/ /\ \A m \in Msgs : stage[m] = "await_puback" => pid_of[m] # p
                 /\ connected' = FALSE
                 /\ UNCHANGED <<queueVars, pid_of, stage>>
<1>0. Sound(await_puback, AwaitAck, "await_puback", stage, pid_of)
  BY DEF PubInv, QueuesSound
<1>1. /\ \A k \in 1 .. Len(await_puback) :
            /\ await_puback[k].uid \in Msgs /\ stage[await_puback[k].uid] = "await_puback"
            /\ await_puback[k].pid = pid_of[await_puback[k].uid]
      /\ \A m \in Msgs : stage[m] = "await_puback" =>
            \E k \in 1 .. Len(await_puback) : await_puback[k].pid = pid_of[m]
  BY <1>0, EntryOf
<1>2. /\ ~panicked /\ connected /\ pc = "idle"
      /\ UNCHANGED <<pc, panicked, send_buffer>>
  BY DEF process_puback, Processing, loopVars, connVars, UnexpectedAck, set_error
<1>3. ASSUME NEW k \in 1 .. Len(await_puback), IsPosition(await_puback, p, k),
             await_puback' = Remove(await_puback, k),
             pid_of' = [pid_of EXCEPT ![await_puback[k].uid] = NoPid],
             PublishDone(await_puback[k].uid),
             UNCHANGED <<send_publish, await_pubrec, send_pubrel, await_pubcomp, connVars>>
      PROVE  \E m \in Msgs, kk \in 1 .. Len(await_puback) :
                /\ await_puback[kk].uid = m /\ pid_of[m] = p
                /\ stage[m] = "await_puback" /\ Qos[m] = 1
                /\ stage' = [stage EXCEPT ![m] = "done"]
                /\ pid_of' = [pid_of EXCEPT ![m] = NoPid]
                /\ await_puback' = Remove(await_puback, kk)
                /\ UNCHANGED <<send_publish, await_pubrec, send_pubrel, await_pubcomp, connected>>
  <2> DEFINE m == await_puback[k].uid
  <2>1. m \in Msgs /\ stage[m] = "await_puback" /\ pid_of[m] = p
    BY <1>1, <1>3 DEF IsPosition
  <2>2. Qos[m] = 1
    BY <2>1 DEF PubInv, Staged
  <2>3. stage' = [stage EXCEPT ![m] = "done"]
    BY <1>3 DEF PublishDone
  <2> QED BY <1>3, <2>1, <2>2, <2>3 DEF connVars
<1>4. CASE \A k \in 1 .. Len(await_puback) : await_puback[k].pid # p
  <2>1. UnexpectedAck
    BY <1>4 DEF process_puback, IsPosition
  <2> QED BY <1>1, <1>2, <1>4, <2>1 DEF UnexpectedAck, set_error
<1>5. CASE ~(\A k \in 1 .. Len(await_puback) : await_puback[k].pid # p)
  BY <1>2, <1>3, <1>5 DEF process_puback
<1> QED BY <1>4, <1>5

\* process_pubcomp, in terms of the messages.
LEMMA PubcompEffect ==
    ASSUME PubInv, NEW p \in Pids, process_pubcomp(p)
    PROVE  /\ ~panicked /\ connected /\ pc = "idle"
           /\ UNCHANGED <<pc, panicked, send_buffer>>
           /\ \/ \E m \in Msgs, k \in 1 .. Len(await_pubcomp) :
                    /\ await_pubcomp[k].uid = m /\ pid_of[m] = p
                    /\ stage[m] = "await_pubcomp" /\ Qos[m] = 2
                    /\ stage' = [stage EXCEPT ![m] = "done"]
                    /\ pid_of' = [pid_of EXCEPT ![m] = NoPid]
                    /\ await_pubcomp' = Remove(await_pubcomp, k)
                    /\ UNCHANGED <<send_publish, await_puback, await_pubrec, send_pubrel, connected>>
              \/ /\ \A m \in Msgs : stage[m] = "await_pubcomp" => pid_of[m] # p
                 /\ connected' = FALSE
                 /\ UNCHANGED <<queueVars, pid_of, stage>>
<1>0. Sound(await_pubcomp, AwaitPubcomp, "await_pubcomp", stage, pid_of)
  BY DEF PubInv, QueuesSound
<1>1. /\ \A k \in 1 .. Len(await_pubcomp) :
            /\ await_pubcomp[k].uid \in Msgs /\ stage[await_pubcomp[k].uid] = "await_pubcomp"
            /\ await_pubcomp[k].pid = pid_of[await_pubcomp[k].uid]
      /\ \A m \in Msgs : stage[m] = "await_pubcomp" =>
            \E k \in 1 .. Len(await_pubcomp) : await_pubcomp[k].pid = pid_of[m]
  BY <1>0, EntryOf
<1>2. /\ ~panicked /\ connected /\ pc = "idle"
      /\ UNCHANGED <<pc, panicked, send_buffer>>
  BY DEF process_pubcomp, Processing, loopVars, connVars, UnexpectedAck, set_error
<1>3. ASSUME NEW k \in 1 .. Len(await_pubcomp), IsPosition(await_pubcomp, p, k),
             await_pubcomp' = Remove(await_pubcomp, k),
             pid_of' = [pid_of EXCEPT ![await_pubcomp[k].uid] = NoPid],
             PublishDone(await_pubcomp[k].uid),
             UNCHANGED <<send_publish, await_puback, await_pubrec, send_pubrel, connVars>>
      PROVE  \E m \in Msgs, kk \in 1 .. Len(await_pubcomp) :
                /\ await_pubcomp[kk].uid = m /\ pid_of[m] = p
                /\ stage[m] = "await_pubcomp" /\ Qos[m] = 2
                /\ stage' = [stage EXCEPT ![m] = "done"]
                /\ pid_of' = [pid_of EXCEPT ![m] = NoPid]
                /\ await_pubcomp' = Remove(await_pubcomp, kk)
                /\ UNCHANGED <<send_publish, await_puback, await_pubrec, send_pubrel, connected>>
  <2> DEFINE m == await_pubcomp[k].uid
  <2>1. m \in Msgs /\ stage[m] = "await_pubcomp" /\ pid_of[m] = p
    BY <1>1, <1>3 DEF IsPosition
  <2>2. Qos[m] = 2
    BY <2>1 DEF PubInv, Staged
  <2>3. stage' = [stage EXCEPT ![m] = "done"]
    BY <1>3 DEF PublishDone
  <2> QED BY <1>3, <2>1, <2>2, <2>3 DEF connVars
<1>4. CASE \A k \in 1 .. Len(await_pubcomp) : await_pubcomp[k].pid # p
  <2>1. UnexpectedAck
    BY <1>4 DEF process_pubcomp, IsPosition
  <2> QED BY <1>1, <1>2, <1>4, <2>1 DEF UnexpectedAck, set_error
<1>5. CASE ~(\A k \in 1 .. Len(await_pubcomp) : await_pubcomp[k].pid # p)
  BY <1>2, <1>3, <1>5 DEF process_pubcomp
<1> QED BY <1>4, <1>5

\* process_pubrec, in terms of the messages.
LEMMA PubrecEffect ==
    ASSUME PubInv, NEW p \in Pids, process_pubrec(p)
    PROVE  /\ ~panicked /\ connected /\ pc = "idle"
           /\ UNCHANGED <<pc, panicked, send_buffer, pid_of, send_publish, await_puback, await_pubcomp>>
           /\ \/ \E m \in Msgs, k \in 1 .. Len(await_pubrec) :
                    /\ await_pubrec[k].uid = m /\ pid_of[m] = p /\ await_pubrec[k].pid = p
                    /\ stage[m] = "await_pubrec" /\ Qos[m] = 2
                    /\ await_pubrec' = Remove(await_pubrec, k)
                    /\ \/ /\ IsFull(send_pubrel)
                          /\ stage' = [stage EXCEPT ![m] = "dropped"]
                          /\ connected' = FALSE /\ UNCHANGED send_pubrel
                       \/ /\ ~IsFull(send_pubrel)
                          /\ stage' = [stage EXCEPT ![m] = "send_pubrel"]
                          /\ send_pubrel' = Append(send_pubrel, [uid |-> m, pid |-> p])
                          /\ UNCHANGED connected
              \/ /\ \A m \in Msgs : stage[m] = "await_pubrec" => pid_of[m] # p
                 /\ UNCHANGED <<await_pubrec, stage>>
<1>0. Sound(await_pubrec, AwaitAck, "await_pubrec", stage, pid_of)
  BY DEF PubInv, QueuesSound
<1>1. /\ \A k \in 1 .. Len(await_pubrec) :
            /\ await_pubrec[k].uid \in Msgs /\ stage[await_pubrec[k].uid] = "await_pubrec"
            /\ await_pubrec[k].pid = pid_of[await_pubrec[k].uid]
      /\ \A m \in Msgs : stage[m] = "await_pubrec" =>
            \E k \in 1 .. Len(await_pubrec) : await_pubrec[k].pid = pid_of[m]
  BY <1>0, EntryOf
<1>2. /\ ~panicked /\ connected /\ pc = "idle"
      /\ UNCHANGED <<pc, panicked, send_buffer, pid_of, send_publish, await_puback, await_pubcomp>>
  BY DEF process_pubrec, Processing, loopVars, connVars, set_error
<1>3. ASSUME NEW k \in 1 .. Len(await_pubrec), IsPosition(await_pubrec, p, k),
             await_pubrec' = Remove(await_pubrec, k),
             IF IsFull(send_pubrel)
               THEN /\ set_error
                    /\ stage' = [stage EXCEPT ![await_pubrec[k].uid] = "dropped"]
                    /\ UNCHANGED send_pubrel
               ELSE /\ send_pubrel' = Append(send_pubrel, [uid |-> await_pubrec[k].uid, pid |-> p])
                    /\ stage' = [stage EXCEPT ![await_pubrec[k].uid] = "send_pubrel"]
                    /\ UNCHANGED connVars
      PROVE  \E m \in Msgs, kk \in 1 .. Len(await_pubrec) :
                /\ await_pubrec[kk].uid = m /\ pid_of[m] = p /\ await_pubrec[kk].pid = p
                /\ stage[m] = "await_pubrec" /\ Qos[m] = 2
                /\ await_pubrec' = Remove(await_pubrec, kk)
                /\ \/ /\ IsFull(send_pubrel)
                      /\ stage' = [stage EXCEPT ![m] = "dropped"]
                      /\ connected' = FALSE /\ UNCHANGED send_pubrel
                   \/ /\ ~IsFull(send_pubrel)
                      /\ stage' = [stage EXCEPT ![m] = "send_pubrel"]
                      /\ send_pubrel' = Append(send_pubrel, [uid |-> m, pid |-> p])
                      /\ UNCHANGED connected
  <2> DEFINE m == await_pubrec[k].uid
  <2>1. m \in Msgs /\ stage[m] = "await_pubrec" /\ pid_of[m] = p /\ await_pubrec[k].pid = p
    BY <1>1, <1>3 DEF IsPosition
  <2>2. Qos[m] = 2
    BY <2>1 DEF PubInv, Staged
  <2>3. CASE IsFull(send_pubrel)
    BY <1>3, <2>1, <2>2, <2>3 DEF set_error
  <2>4. CASE ~IsFull(send_pubrel)
    BY <1>3, <2>1, <2>2, <2>4 DEF connVars
  <2> QED BY <2>3, <2>4
<1>4. CASE \A k \in 1 .. Len(await_pubrec) : await_pubrec[k].pid # p
  <2>1. UNCHANGED <<await_pubrec, stage>>
    BY <1>4 DEF process_pubrec, IsPosition
  <2> QED BY <1>1, <1>2, <1>4, <2>1
<1>5. CASE ~(\A k \in 1 .. Len(await_pubrec) : await_pubrec[k].pid # p)
  <2>1. \E k \in 1 .. Len(await_pubrec) :
             /\ IsPosition(await_pubrec, p, k)
             /\ await_pubrec' = Remove(await_pubrec, k)
             /\ IF IsFull(send_pubrel)
                  THEN /\ set_error
                       /\ stage' = [stage EXCEPT ![await_pubrec[k].uid] = "dropped"]
                       /\ UNCHANGED send_pubrel
                  ELSE /\ send_pubrel' = Append(send_pubrel, [uid |-> await_pubrec[k].uid, pid |-> p])
                       /\ stage' = [stage EXCEPT ![await_pubrec[k].uid] = "send_pubrel"]
                       /\ UNCHANGED connVars
    BY <1>5 DEF process_pubrec
  <2> QED BY <1>2, <1>3, <2>1
<1> QED BY <1>4, <1>5

\* No two messages hold the same packet id.
LEMMA PidsUnique ==
    ASSUME PubInv
    PROVE  Unique(pid_of) /\ pid_of \in [Msgs -> Pids \cup {NoPid}]
BY PoolTyped DEF PubInv, Pool!PidInv, Pool!Apart, Pool!NoPid, NoPid, Unique


\* The publish() call, in terms of the messages.
LEMMA ClientEffect ==
    ASSUME PubInv, Client
    PROVE  /\ ~panicked
           /\ UNCHANGED <<await_puback, await_pubrec, send_pubrel, await_pubcomp, send_buffer,
                          connected, pc>>
           /\ \/ panicked' = TRUE /\ TooLong # {} /\ UNCHANGED <<stage, pid_of>>
              \/ /\ UNCHANGED panicked
                 /\ \E m \in Msgs :
                       /\ stage[m] \in {"new", "waiting"}
                       /\ stage'[m] \in {"waiting", "send_publish", "cancelled"}
                       /\ SameBut(m, stage, stage') /\ SameBut(m, pid_of, pid_of')
                       /\ stage[m] = "waiting" => pid_of' = pid_of
<1>1. /\ stage \in [Msgs -> Stages] /\ pid_of \in [Msgs -> Pids \cup {NoPid}]
  BY PoolTyped DEF PubInv, RestTyped
<1>2. PICK m \in Msgs : publish(m) \/ publish_enqueue(m) \/ cancel(m)
  BY DEF Client
<1>3. /\ ~panicked
      /\ UNCHANGED <<await_puback, await_pubrec, send_pubrel, await_pubcomp, send_buffer,
                     connected, pc>>
  BY <1>2 DEF publish, publish_enqueue, cancel, queueVars, connVars, loopVars
<1>4. CASE publish(m)
  <2>1. stage[m] = "new" /\ stage' = [stage EXCEPT ![m] = "waiting"] /\ UNCHANGED panicked
    BY <1>4 DEF publish
  <2>2. SameBut(m, pid_of, pid_of')
    <3>1. CASE Qos[m] = 0
      BY <1>4, <3>1 DEF publish, SameBut
    <3>2. CASE Qos[m] # 0
      <4>1. PICK pid \in Pids : pid_of' = [pid_of EXCEPT ![m] = pid]
        BY <1>4, <3>2 DEF publish
      <4> QED BY <1>1, <4>1 DEF SameBut
    <3> QED BY <3>1, <3>2
  <2>3. SameBut(m, stage, stage') /\ stage'[m] = "waiting"
    BY <1>1, <2>1 DEF SameBut
  <2> QED BY <1>3, <2>1, <2>2, <2>3
<1>5. CASE publish_enqueue(m)
  <2>1. stage[m] = "waiting" /\ UNCHANGED pid_of
    BY <1>5 DEF publish_enqueue
  <2>2. CASE m \in TooLong
    BY <1>3, <1>5, <2>1, <2>2 DEF publish_enqueue
  <2>3. CASE m \notin TooLong
    <3>1. stage' = [stage EXCEPT ![m] = "send_publish"] /\ UNCHANGED panicked
      BY <1>5, <2>3 DEF publish_enqueue
    <3>2. SameBut(m, stage, stage') /\ SameBut(m, pid_of, pid_of') /\ stage'[m] = "send_publish"
      BY <1>1, <2>1, <3>1 DEF SameBut
    <3> QED BY <1>3, <2>1, <3>1, <3>2
  <2> QED BY <2>2, <2>3
<1>6. CASE cancel(m)
  <2>1. /\ stage[m] = "waiting" /\ stage' = [stage EXCEPT ![m] = "cancelled"]
        /\ UNCHANGED <<pid_of, panicked>>
    BY <1>6 DEF cancel
  <2>2. SameBut(m, stage, stage') /\ SameBut(m, pid_of, pid_of') /\ stage'[m] = "cancelled"
    BY <1>1, <2>1 DEF SameBut
  <2> QED BY <1>3, <2>1, <2>2
<1> QED BY <1>2, <1>4, <1>5, <1>6

\* What an update of the stages changes.
LEMMA StageMoves ==
    ASSUME PubInv, NEW m \in Msgs, NEW st, stage' = [stage EXCEPT ![m] = st]
    PROVE  SameBut(m, stage, stage') /\ stage'[m] = st
BY DEF PubInv, RestTyped, SameBut

\* What the return of a packet id changes.
LEMMA PidReturns ==
    ASSUME PubInv, NEW m \in Msgs, pid_of' = [pid_of EXCEPT ![m] = NoPid]
    PROVE  SameBut(m, pid_of, pid_of') /\ pid_of'[m] = NoPid
BY PoolTyped DEF PubInv, SameBut

-----------------------------------------------------------------------------
(* Exactly once: the steps                                                   *)

OnceHere == OnceInv(TheLine, Len(to_client), stage, pid_of, delivered, received)

\* What every step below starts from.
FlowBase == PubInv /\ Flags /\ FlowTyped

\* The publish() call.
LEMMA OnceClient ==
    ASSUME FlowBase, OnceHere, Client, UNCHANGED <<netVars, brokerVars>>
    PROVE  OnceHere'
<1> USE DEF FlowBase
<1>0. /\ delivered' = delivered /\ received' = received
  BY DEF brokerVars
<1>1. CASE panicked' = TRUE /\ UNCHANGED <<stage, pid_of>>
  <2>1. ~panicked
    BY ClientEffect
  <2>2. Thins(TheLine', Len(to_client'), TheLine, Len(to_client))
    BY <1>1, <2>1, LinePanics
  <2>3. OnceInv(TheLine', Len(to_client'), stage, pid_of, delivered, received)
    BY <2>2, ThinOnce DEF OnceHere
  <2> QED BY <1>0, <1>1, <2>3 DEF OnceHere
<1>2. ASSUME UNCHANGED <<panicked, send_buffer>>, NEW m \in Msgs,
             stage[m] \in {"new", "waiting"}, stage'[m] \in {"waiting", "send_publish", "cancelled"},
             SameBut(m, stage, stage'), SameBut(m, pid_of, pid_of')
      PROVE  OnceHere'
  <2>1. TheLine' = TheLine /\ Len(to_client') = Len(to_client)
    BY <1>2, LineStays
  <2>2. UidsKnown(TheLine, Len(to_client))
    BY TheLineTyped
  <2>3. stage[m] \notin Mid /\ stage'[m] \notin Mid /\ stage[m] \in Unsent
    BY <1>2 DEF Mid, Unsent
  <2>4. OnceInv(TheLine, Len(to_client), stage', pid_of', delivered, received)
    BY <1>2, <2>2, <2>3, MoveOutside DEF OnceHere
  <2> QED BY <1>0, <2>1, <2>4 DEF OnceHere
<1> QED BY <1>1, <1>2, ClientEffect

\* A packet is written into the send buffer.
LEMMA OnceSending ==
    ASSUME FlowBase, OnceHere, Sending, UNCHANGED <<netVars, brokerVars>>
    PROVE  OnceHere'
<1> USE DEF FlowBase
<1> DEFINE n == Len(to_client)
<1>0. /\ delivered' = delivered /\ received' = received /\ ~panicked
  BY SendingCases DEF brokerVars
<1>1. /\ TheLine \in Seq(Item) /\ n \in Nat /\ n <= Len(TheLine) /\ UidsKnown(TheLine, n)
  BY TheLineTyped
<1>2. Unique(pid_of) /\ pid_of \in [Msgs -> Pids \cup {NoPid}]
  BY PidsUnique
<1>3. OnceInv(TheLine, n, stage, pid_of, delivered, received)
  BY DEF OnceHere
<1>4. NoPid \notin Pids
  BY DEF NoPid, Pids
<1>5. CASE send_publish_entry
  <2>1. PICK m \in Msgs, x \in Addressed :
           /\ x.type = "publish" /\ x.uid = m /\ x.pid = pid_of[m]
           /\ stage[m] = "send_publish" /\ stage' = [stage EXCEPT ![m] = SentStage(m)]
           /\ send_buffer' = Append(send_buffer, x)
           /\ UNCHANGED <<pid_of, panicked>>
    BY <1>5, SendPublishEffect
  <2>2. TheLine' = Append(TheLine, x) /\ Len(to_client') = n
    BY <1>0, <2>1, LineWritten
  <2>3. SameBut(m, stage, stage') /\ stage'[m] = SentStage(m) /\ SameBut(m, pid_of, pid_of)
    BY <2>1, StageMoves DEF SameBut
  <2>4. CASE Qos[m] # 2
    <3>1. stage[m] \notin Mid /\ stage'[m] \notin Mid
      BY <2>1, <2>3, <2>4 DEF Mid, SentStage
    <3>2. OnceInv(TheLine, n, stage', pid_of, delivered, received)
      BY <1>1, <1>3, <2>3, <2>4, <3>1, MoveOutside
    <3>3. OnceInv(Append(TheLine, x), n, stage', pid_of, delivered, received)
      BY <1>1, <2>1, <2>4, <3>2, WriteOther
    <3> QED BY <1>0, <2>1, <2>2, <3>3 DEF OnceHere
  <2>5. CASE Qos[m] = 2
    <3>1. stage'[m] = "await_pubrec" /\ stage'[m] \in Mid
      BY <2>3, <2>5 DEF Mid, SentStage
    <3>2. pid_of[m] # NoPid
      BY <2>1, <2>5 DEF PubInv, Staged
    <3>3. delivered[m] = 0
      BY <1>3, <2>1, <2>5 DEF OnceInv, OnceOnly, Unsent
    <3>4. NoneOf(TheLine, "pubrec", pid_of[m])
      <4> SUFFICES ASSUME NEW k \in 1 .. Len(TheLine), Brings(TheLine[k], "pubrec", pid_of[m])
                   PROVE  FALSE
        BY DEF NoneOf
      <4>1. PICK o \in Msgs : pid_of[o] = TheLine[k].pid /\ stage[o] \in Mid
        BY <1>3 DEF OnceInv, HasOwner, Brings
      <4>2. o = m
        BY <1>2, <3>2, <4>1 DEF Unique, Brings
      <4> QED BY <2>1, <4>1, <4>2 DEF Mid
    <3>5. OnceInv(TheLine, n, stage', pid_of, delivered, received)
      BY <1>1, <1>3, <2>3, <3>1, <3>3, <3>4, MoveMid
    <3>6. OnceInv(Append(TheLine, x), n, stage', pid_of, delivered, received)
      BY <1>1, <1>2, <2>1, <2>5, <3>1, <3>2, <3>5, WritePublish
    <3> QED BY <1>0, <2>1, <2>2, <3>6 DEF OnceHere
  <2> QED BY <2>4, <2>5
<1>6. CASE send_pubrel_entry
  <2> DEFINE e == send_pubrel[i]
             x == [type |-> "pubrel", pid |-> e.pid]
  <2>1. /\ e.pid \in Pids /\ send_buffer' = Append(send_buffer, x) /\ UNCHANGED pid_of
        /\ \/ panicked' = TRUE /\ UNCHANGED stage
           \/ /\ e.uid \in Msgs /\ stage[e.uid] = "send_pubrel" /\ pid_of[e.uid] = e.pid
              /\ stage' = [stage EXCEPT ![e.uid] = "await_pubcomp"] /\ UNCHANGED panicked
    BY <1>6, SendPubrelEffect
  <2>2. x \in Addressed /\ x.type = "pubrel" /\ x.pid = e.pid
    BY <2>1, PubrelAddressed
  <2> HIDE DEF e, x
  <2>3. CASE panicked' = TRUE /\ UNCHANGED stage
    <3>1. Thins(TheLine', Len(to_client'), TheLine, n)
      BY <1>0, <2>3, LinePanics
    <3>2. OnceInv(TheLine', Len(to_client'), stage, pid_of, delivered, received)
      BY <1>3, <3>1, ThinOnce
    <3> QED BY <1>0, <2>1, <2>3, <3>2 DEF OnceHere
  <2>4. CASE /\ e.uid \in Msgs /\ stage[e.uid] = "send_pubrel" /\ pid_of[e.uid] = e.pid
             /\ stage' = [stage EXCEPT ![e.uid] = "await_pubcomp"] /\ UNCHANGED panicked
    <3>1. TheLine' = Append(TheLine, x) /\ Len(to_client') = n
      BY <1>0, <2>1, <2>2, <2>4, LineWritten
    <3>2. SameBut(e.uid, stage, stage') /\ stage'[e.uid] = "await_pubcomp"
      BY <2>4, StageMoves
    <3>3. NoneOf(TheLine, "pubcomp", pid_of[e.uid])
      BY <1>3, <2>4 DEF OnceInv, Unreleased
    <3>4. OnceInv(TheLine, n, stage', pid_of, delivered, received)
      <4>1. stage'[e.uid] \in Mid /\ stage[e.uid] \in Mid /\ stage'[e.uid] # "await_pubrec"
        BY <2>4, <3>2 DEF Mid
      <4> QED BY <1>1, <1>3, <2>4, <3>2, <3>3, <4>1, MoveMid
    <3>5. OnceInv(Append(TheLine, x), n, stage', pid_of, delivered, received)
      <4>1. x.pid # NoPid /\ pid_of[e.uid] = x.pid
        BY <1>4, <2>1, <2>2, <2>4
      <4> QED BY <1>1, <1>2, <2>2, <2>4, <3>2, <3>4, <4>1, WritePubrel
    <3> QED BY <1>0, <2>1, <3>1, <3>5 DEF OnceHere
  <2> QED BY <2>1, <2>3, <2>4
<1>7. ASSUME NEW q, NEW st \in {"await_puback", "await_pubrec"},
             Sound(q, AwaitAck, st, stage, pid_of), i <= Len(q), Republish(q[i]),
             UNCHANGED <<panicked, pid_of, stage>>
      PROVE  OnceHere'
  <2>1. PICK m \in Msgs, x \in Addressed :
           /\ x.type = "publish" /\ x.uid = m /\ x.pid = pid_of[m]
           /\ stage[m] = st /\ Qos[m] = IF st = "await_puback" THEN 1 ELSE 2
           /\ send_buffer' = Append(send_buffer, x)
    BY <1>7, RepublishEffect
  <2>2. TheLine' = Append(TheLine, x) /\ Len(to_client') = n
    BY <1>0, <1>7, <2>1, LineWritten
  <2>3. CASE st = "await_puback"
    <3>1. OnceInv(Append(TheLine, x), n, stage, pid_of, delivered, received)
      BY <1>1, <1>3, <2>1, <2>3, WriteOther
    <3> QED BY <1>0, <1>7, <2>2, <3>1 DEF OnceHere
  <2>4. CASE st = "await_pubrec"
    <3>0. pid_of[m] # NoPid
      BY <2>1, <2>4 DEF PubInv, Staged
    <3>1. OnceInv(Append(TheLine, x), n, stage, pid_of, delivered, received)
      BY <1>1, <1>2, <1>3, <2>1, <2>4, <3>0, WritePublish
    <3> QED BY <1>0, <1>7, <2>2, <3>1 DEF OnceHere
  <2> QED BY <1>7, <2>3, <2>4
<1>8. CASE resend_puback_entry
  <2>1. Sound(await_puback, AwaitAck, "await_puback", stage, pid_of)
    BY DEF PubInv, QueuesSound
  <2>2. i <= Len(await_puback) /\ Republish(await_puback[i]) /\ UNCHANGED <<panicked, pid_of, stage>>
    BY <1>8 DEF resend_puback_entry, histVars
  <2> QED BY <1>7, <2>1, <2>2
<1>9. CASE resend_pubrec_entry
  <2>1. Sound(await_pubrec, AwaitAck, "await_pubrec", stage, pid_of)
    BY DEF PubInv, QueuesSound
  <2>2. i <= Len(await_pubrec) /\ Republish(await_pubrec[i]) /\ UNCHANGED <<panicked, pid_of, stage>>
    BY <1>9 DEF resend_pubrec_entry, histVars
  <2> QED BY <1>7, <2>1, <2>2
<1>10. CASE resend_pubrel_entry
  <2>0. UNCHANGED <<panicked, pid_of, stage>>
    BY <1>10, ResendPubrelEffect
  <2>1. PICK m \in Msgs :
           /\ pid_of[m] \in Pids /\ stage[m] = "await_pubcomp"
           /\ send_buffer' = Append(send_buffer, [type |-> "pubrel", pid |-> pid_of[m]])
    BY <1>10, ResendPubrelEffect
  <2> DEFINE x == [type |-> "pubrel", pid |-> pid_of[m]]
  <2>2. x \in Addressed /\ x.type = "pubrel" /\ x.pid = pid_of[m] /\ x.pid # NoPid
    BY <1>4, <2>1, PubrelAddressed
  <2>3. send_buffer' = Append(send_buffer, x)
    BY <2>1
  <2> HIDE DEF x
  <2>4. TheLine' = Append(TheLine, x) /\ Len(to_client') = n
    BY <1>0, <2>0, <2>2, <2>3, LineWritten
  <2>5. OnceInv(Append(TheLine, x), n, stage, pid_of, delivered, received)
    BY <1>1, <1>2, <1>3, <2>1, <2>2, WritePubrel
  <2> QED BY <1>0, <2>0, <2>4, <2>5 DEF OnceHere
<1>11. CASE UNCHANGED <<send_buffer, panicked, pid_of, stage>>
  BY <1>0, <1>3, <1>11, LineStays DEF OnceHere
<1> QED BY <1>5, <1>6, <1>8, <1>9, <1>10, <1>11, SendingCases DEF connVars


\* When less is on the way, it names known messages still.
LEMMA ThinUids ==
    ASSUME NEW l1, NEW n1, NEW l2, NEW n2, Thins(l2, n2, l1, n1), UidsKnown(l1, n1)
    PROVE  UidsKnown(l2, n2)
<1>1. PICK at \in [1 .. Len(l2) -> 1 .. Len(l1)] :
         \A k \in 1 .. Len(l2) : l2[k] = l1[at[k]] /\ (k > n2 <=> at[k] > n1)
  BY DEF Thins
<1>2. \A k \in 1 .. Len(l2) : at[k] \in 1 .. Len(l1)
  OBVIOUS
<1> QED BY <1>1, <1>2 DEF UidsKnown

\* The head of the line is gone: what could not come after it is not there.
LEMMA TailNone ==
    ASSUME NEW l \in Seq(Item), l # <<>>, NEW t, NEW u, NEW p, Brings(l[1], t, p),
           NotBefore(l, t, u, p)
    PROVE  NoneOf(Tail(l), u, p)
<1>1. /\ Len(l) \in Nat \ {0} /\ Len(Tail(l)) = Len(l) - 1
      /\ \A j \in 1 .. Len(l) - 1 : Tail(l)[j] = l[j + 1]
  BY TailFacts
<1>2. ASSUME NEW k \in 1 .. Len(Tail(l)), Brings(Tail(l)[k], u, p) PROVE FALSE
  <2>1. k + 1 \in 1 .. Len(l) /\ 1 \in 1 .. Len(l) /\ 1 < k + 1 /\ Tail(l)[k] = l[k + 1]
    BY <1>1, <1>2
  <2> QED BY <1>2, <2>1 DEF NotBefore
<1> QED BY <1>2 DEF NoneOf

\* An acknowledgement is processed.
LEMMA OncePacket ==
    ASSUME FlowBase, OnceHere, process_packet
    PROVE  OnceHere'
<1> USE DEF FlowBase
<1> DEFINE ack == Head(to_client)
           p == ack.pid
           l2 == TheLine'
           n2 == Len(to_client')
<1>1. /\ to_client # <<>> /\ to_client' = Tail(to_client) /\ to_broker' = to_broker
      /\ delivered' = delivered /\ received' = received
      /\ \/ ack.type = "puback" /\ process_puback(p)
         \/ ack.type = "pubrec" /\ process_pubrec(p)
         \/ ack.type = "pubcomp" /\ process_pubcomp(p)
  BY DEF process_packet, brokerVars
<1>2. ack \in Ack
  BY <1>1 DEF FlowTyped
<1>3. p \in Pids
  BY <1>2 DEF Ack
<1> HIDE DEF p
<1>4. ~panicked /\ UNCHANGED <<panicked, send_buffer>>
  BY <1>1, <1>3, PubackEffect, PubrecEffect, PubcompEffect
<1>5. /\ l2 = Tail(TheLine) /\ TheLine # <<>> /\ TheLine[1] = ack
      /\ Thins(l2, n2, TheLine, Len(to_client))
  BY <1>1, <1>4, LineTaken
<1>6. OnceInv(l2, n2, stage, pid_of, delivered, received)
  BY <1>5, ThinOnce DEF OnceHere
<1>7. UidsKnown(l2, n2)
  <2>1. UidsKnown(TheLine, Len(to_client))
    BY TheLineTyped
  <2> QED BY <1>5, <2>1, ThinUids
<1>8. TheLine \in Seq(Item)
  BY TheLineTyped
<1>9. CASE UNCHANGED <<stage, pid_of>>
  BY <1>1, <1>6, <1>9 DEF OnceHere
<1>10. CASE ack.type = "puback" /\ process_puback(p)
  <2>1. ASSUME NEW m \in Msgs, stage[m] = "await_puback", Qos[m] = 1,
               stage' = [stage EXCEPT ![m] = "done"], pid_of' = [pid_of EXCEPT ![m] = NoPid]
        PROVE  OnceHere'
    <3>1. SameBut(m, stage, stage') /\ stage'[m] = "done" /\ SameBut(m, pid_of, pid_of')
      BY <2>1, StageMoves, PidReturns
    <3>2. stage[m] \notin Mid /\ stage'[m] \notin Mid /\ (Qos[m] = 2 => stage[m] \in Unsent)
      BY <2>1, <3>1 DEF Mid
    <3>3. OnceInv(l2, n2, stage', pid_of', delivered, received)
      BY <1>6, <1>7, <3>1, <3>2, MoveOutside
    <3> QED BY <1>1, <3>3 DEF OnceHere
  <2> QED BY <1>3, <1>9, <1>10, <2>1, PubackEffect
<1>11. CASE ack.type = "pubrec" /\ process_pubrec(p)
  <2>1. ASSUME NEW m \in Msgs, pid_of[m] = p, stage[m] = "await_pubrec", UNCHANGED pid_of,
               NEW st \in {"send_pubrel", "dropped"}, stage' = [stage EXCEPT ![m] = st]
        PROVE  OnceHere'
    <3>1. SameBut(m, stage, stage') /\ stage'[m] = st
      BY <2>1, StageMoves
    <3>2. NotBefore(TheLine, "pubrec", "pubcomp", p)
      BY <2>1 DEF OnceHere, OnceInv, InTurn
    <3>3. Brings(TheLine[1], "pubrec", p)
      BY <1>5, <1>11 DEF Brings, AnswerType, p
    <3>4. NoneOf(l2, "pubcomp", pid_of[m])
      BY <1>5, <1>8, <2>1, <3>2, <3>3, TailNone
    <3>5. stage[m] \in Mid /\ stage'[m] \in Mid /\ stage'[m] # "await_pubrec"
      BY <2>1, <3>1 DEF Mid
    <3>6. OnceInv(l2, n2, stage', pid_of, delivered, received)
      BY <1>6, <1>7, <3>1, <3>4, <3>5, MoveMid
    <3> QED BY <1>1, <2>1, <3>6 DEF OnceHere
  <2>2. UNCHANGED pid_of
    BY <1>3, <1>11, PubrecEffect
  <2>3. CASE UNCHANGED stage
    BY <1>9, <2>2, <2>3
  <2>4. ASSUME NEW m \in Msgs, pid_of[m] = p, stage[m] = "await_pubrec",
               \/ stage' = [stage EXCEPT ![m] = "dropped"]
               \/ stage' = [stage EXCEPT ![m] = "send_pubrel"]
        PROVE  OnceHere'
    BY <2>1, <2>2, <2>4
  <2> QED BY <1>3, <1>11, <2>3, <2>4, PubrecEffect, ZenonT(60)
<1>12. CASE ack.type = "pubcomp" /\ process_pubcomp(p)
  <2>1. ASSUME NEW m \in Msgs, pid_of[m] = p, stage[m] = "await_pubcomp",
               stage' = [stage EXCEPT ![m] = "done"], pid_of' = [pid_of EXCEPT ![m] = NoPid]
        PROVE  OnceHere'
    <3>1. SameBut(m, stage, stage') /\ stage'[m] = "done" /\ SameBut(m, pid_of, pid_of')
      BY <2>1, StageMoves, PidReturns
    <3>2. NotBefore(TheLine, "pubcomp", "pubrec", p)
      BY <2>1 DEF OnceHere, OnceInv, InTurn
    <3>3. Brings(TheLine[1], "pubcomp", p)
      BY <1>5, <1>12 DEF Brings, AnswerType, p
    <3>4. NoneOf(l2, "pubrec", pid_of[m])
      BY <1>5, <1>8, <2>1, <3>2, <3>3, TailNone
    <3>6. OnceInv(l2, n2, stage', pid_of', delivered, received)
      BY <1>6, <1>7, <3>1, <3>4, MoveDone
    <3> QED BY <1>1, <3>6 DEF OnceHere
  <2> QED BY <1>3, <1>9, <1>12, <2>1, PubcompEffect
<1> QED BY <1>1, <1>10, <1>11, <1>12

\* The broker takes a packet and answers it.
LEMMA OnceBroker ==
    ASSUME FlowBase, OnceHere, Broker
    PROVE  OnceHere'
<1> USE DEF FlowBase
<1> DEFINE x == Head(to_broker)
           n == Len(to_client)
           n2 == Len(to_client')
<1>0. stage' = stage /\ pid_of' = pid_of
  BY DEF Broker, vars
<1>1. /\ x \in Addressed
      /\ BrokerPublish(x) \/ BrokerPubrel(x)
      /\ n + 1 \in 1 .. Len(TheLine)
      /\ TheLine[n + 1] = x
      /\ AnswerType(x) = "none" => Thins(TheLine', n2, TheLine, n)
      /\ AnswerType(x) # "none" => Answered(TheLine', n2, TheLine, n)
  BY LineAnswered
<1>2. TheLine \in Seq(Item) /\ n \in Nat
  BY TheLineTyped
<1>3. x \in Packets
  BY <1>1 DEF Addressed
<1>4. OnceInv(TheLine, n, stage, pid_of, delivered, received) /\ delivered \in [Msgs -> Nat]
  BY DEF OnceHere, FlowTyped
<1> HIDE DEF x, n, n2
<1>5. Answered(TheLine', n2, TheLine, n) => TheLine[n2] = x
  BY <1>1 DEF Answered
<1>6. CASE BrokerPubrel(x)
  <2>1. x.type = "pubrel" /\ received' = received \ {x.pid} /\ UNCHANGED delivered
    BY <1>6 DEF BrokerPubrel
  <2>2. AnswerType(x) # "none"
    BY <2>1 DEF AnswerType
  <2>3. OnceInv(TheLine', n2, stage, pid_of, delivered, received \ {x.pid})
    BY <1>1, <1>2, <1>4, <1>5, <2>1, <2>2, BrokerPubrelOnce
  <2> QED BY <1>0, <2>1, <2>3 DEF OnceHere, n2
<1>7. CASE BrokerPublish(x)
  <2>1. x.type = "publish" /\ x.uid \in Msgs
    BY <1>3, <1>7, PacketFields DEF BrokerPublish
  <2>2. Qos[x.uid] \in {0, 1, 2}
    BY <2>1, PublishesAssumption
  <2>3. CASE Qos[x.uid] = 2
    <3>1. /\ delivered' = IF x.pid \in received THEN delivered
                          ELSE [delivered EXCEPT ![x.uid] = @ + 1]
          /\ received' = received \cup {x.pid}
      BY <1>7, <2>3 DEF BrokerPublish
    <3>2. AnswerType(x) # "none"
      BY <2>1, <2>3 DEF AnswerType
    <3>3. OnceInv(TheLine', n2, stage, pid_of, delivered', received \cup {x.pid})
      BY <1>1, <1>2, <1>4, <1>5, <2>1, <2>3, <3>1, <3>2, BrokerPublishOnce
    <3> QED BY <1>0, <3>1, <3>3 DEF OnceHere, n2
  <2>4. CASE Qos[x.uid] # 2
    <3>1. delivered' = [delivered EXCEPT ![x.uid] = @ + 1] /\ UNCHANGED received
      BY <1>7, <2>2, <2>4 DEF BrokerPublish
    <3>2. \A m \in Msgs : Qos[m] = 2 => delivered'[m] = delivered[m]
      BY <1>4, <2>4, <3>1
    <3>3. OnceInv(TheLine', n2, stage, pid_of, delivered, received)
      <4>1. CASE AnswerType(x) = "none"
        BY <1>1, <1>4, <4>1, ThinOnce
      <4>2. CASE AnswerType(x) # "none"
        BY <1>1, <1>2, <1>4, <1>5, <4>2, AnswerOnce
      <4> QED BY <4>1, <4>2
    <3>4. OnceInv(TheLine', n2, stage, pid_of, delivered', received)
      BY <3>2, <3>3, OtherDelivered
    <3> QED BY <1>0, <3>1, <3>4 DEF OnceHere, n2
  <2> QED BY <2>3, <2>4
<1> QED BY <1>1, <1>6, <1>7

\* All that happens on the way is gone with the connection.
LEMMA ConnectLine ==
    ASSUME Connect
    PROVE  /\ TheLine' = <<>> /\ Len(to_client') = 0 /\ ~panicked
           /\ UNCHANGED <<queueVars, pc, panicked, pid_of, stage, brokerVars, losses, crossed>>
           /\ ~connected
<1>1. /\ ~panicked /\ UNCHANGED panicked /\ send_buffer' = <<>>
      /\ to_client' = <<>> /\ to_broker' = <<>> /\ ~connected
      /\ UNCHANGED <<queueVars, pc, panicked, pid_of, stage, brokerVars, losses, crossed>>
  BY DEF Connect, connect, reconnect, loopVars, histVars
<1>2. TheLine' = Line(<<>>, <<>>, <<>>)
  BY <1>1 DEF TheLine, Out
<1> QED BY <1>1, <1>2, EmptyLine

\* Every step keeps what makes QoS 2 exactly once.
LEMMA NextOnce ==
    FlowBase /\ FlowBase' /\ OnceHere /\ [FlowNext]_flowVars => OnceHere'
<1> SUFFICES ASSUME FlowBase, FlowBase', OnceHere, [FlowNext]_flowVars PROVE OnceHere'
  OBVIOUS
<1>1. CASE LocalStep
  BY <1>1, OnceClient, OnceSending DEF LocalStep
<1>2. CASE Send
  <2>1. /\ TheLine' = TheLine /\ Len(to_client') = Len(to_client)
        /\ UNCHANGED <<stage, pid_of, brokerVars>>
    BY <1>2, LineSent DEF FlowBase
  <2> QED BY <2>1 DEF OnceHere, brokerVars
<1>3. CASE process_packet
  BY <1>3, OncePacket
<1>4. CASE Lose
  <2>1. UNCHANGED <<netVars, send_buffer, panicked, stage, pid_of, brokerVars>>
    BY <1>4 DEF Lose, connection_error, set_error, histVars
  <2> QED BY <2>1, LineStays DEF OnceHere, brokerVars
<1>5. CASE Connect
  <2>1. TheLine' = <<>> /\ Len(to_client') = 0 /\ UNCHANGED <<pid_of, stage, brokerVars>>
    BY <1>5, ConnectLine
  <2>2. Thins(<<>>, 0, TheLine, Len(to_client))
    BY EmptyLine
  <2>3. OnceInv(<<>>, 0, stage, pid_of, delivered, received)
    BY <2>2, ThinOnce DEF OnceHere
  <2> QED BY <2>1, <2>3 DEF OnceHere, brokerVars
<1>6. CASE Timeout
  <2>1. UNCHANGED <<netVars, send_buffer, panicked, stage, pid_of, brokerVars>>
    BY <1>6 DEF Timeout, resend_due, connVars, histVars
  <2> QED BY <2>1, LineStays DEF OnceHere, brokerVars
<1>7. CASE Broker
  BY <1>7, OnceBroker
<1>8. CASE UNCHANGED flowVars
  <2>1. UNCHANGED <<netVars, send_buffer, panicked, stage, pid_of, brokerVars>>
    BY <1>8 DEF flowVars, netVars, brokerVars
  <2> QED BY <2>1, LineStays DEF OnceHere, brokerVars
<1> QED BY <1>1, <1>2, <1>3, <1>4, <1>5, <1>6, <1>7, <1>8 DEF FlowNext

\* At the beginning nothing is on the way and nothing was sent.
LEMMA InitOnce == FlowInit => OnceHere
<1> SUFFICES ASSUME FlowInit PROVE OnceHere
  OBVIOUS
<1>1. /\ stage = [m \in Msgs |-> "new"] /\ delivered = [m \in Msgs |-> 0]
      /\ to_client = <<>> /\ to_broker = <<>> /\ send_buffer = <<>> /\ panicked = FALSE
  BY DEF FlowInit, Init, LinkInit
<1>2. TheLine = <<>> /\ Len(to_client) = 0
  BY <1>1, EmptyLine DEF TheLine, Out
<1>3. 1 .. Len(TheLine) = {}
  BY <1>2
<1>4. \A m \in Msgs : stage[m] = "new" /\ stage[m] \notin Mid /\ delivered[m] = 0
  BY <1>1 DEF Mid
<1>5. HasOwner(TheLine, stage, pid_of) /\ OwnPid(TheLine, Len(to_client), stage, pid_of)
  BY <1>3 DEF HasOwner, OwnPid
<1>6. Unreleased(TheLine, stage, pid_of) /\ InTurn(TheLine, stage, pid_of)
  BY <1>4 DEF Unreleased, InTurn, Mid
<1>7. OnceOnly(TheLine, Len(to_client), stage, pid_of, delivered, received)
  BY <1>4 DEF OnceOnly, Mid
<1> QED BY <1>5, <1>6, <1>7 DEF OnceHere, OnceInv

\* The types and queues of the client, with its network.
LEMMA NextFlowBase == FlowBase /\ [FlowNext]_flowVars => FlowBase'
BY FlowStepIsStep, NextPubInv, NextFlags, NextFlowTyped DEF FlowBase

\* They hold at the beginning.
LEMMA InitFlowBase == FlowInit => FlowBase
BY InitPubInv, InitFlags, InitFlowTyped DEF FlowInit, FlowBase

\* QoS 2 is exactly once: however many connections are lost, however often
\* the PUBLISH and the PUBREL are sent again and cross their answers, and
\* although packet ids are used again, the broker passes a message on at most
\* once.
THEOREM ExactlyOnceHolds == FlowSpec => []ExactlyOnce
<1>1. FlowInit => FlowBase /\ OnceHere
  BY InitFlowBase, InitOnce
<1>2. FlowBase /\ OnceHere /\ [FlowNext]_flowVars => (FlowBase /\ OnceHere)'
  BY NextFlowBase, NextOnce
<1>3. OnceHere => ExactlyOnce
  BY DEF OnceHere, OnceInv, OnceOnly, ExactlyOnce
<1> QED BY <1>1, <1>2, <1>3, PTL DEF FlowSpec

-----------------------------------------------------------------------------
(* A prompt broker: one packet or answer on the way for each packet id       *)

Asks(x) == AnswerType(x) # "none"
Clear(l, p) == \A k \in 1 .. Len(l) : Asks(l[k]) => l[k].pid # p

\* Where a message waits for the answer.
AwaitStage(t) ==
    IF t = "puback" THEN "await_puback" ELSE IF t = "pubrec" THEN "await_pubrec" ELSE "await_pubcomp"
AwaitStages == {"await_puback", "await_pubrec", "await_pubcomp"}

\* No packet id is asked for twice.
OneEach(l) ==
    \A j, k \in 1 .. Len(l) : Asks(l[j]) /\ Asks(l[k]) /\ l[j].pid = l[k].pid => j = k

\* Somebody waits for every answer.
Awaited(l, stg, pids) ==
    \A k \in 1 .. Len(l) : Asks(l[k]) =>
        \E m \in Msgs : /\ Qos[m] > 0 /\ pids[m] = l[k].pid
                        /\ stg[m] = AwaitStage(AnswerType(l[k]))

UidPid(l, n, pids) ==
    \A k \in 1 .. Len(l) : k > n /\ l[k].type = "publish" /\ Asks(l[k]) =>
        pids[l[k].uid] = l[k].pid

\* A PUBACK or PUBREC on the way means that the broker has the message, a
\* PUBCOMP that it has forgotten the packet id.
Truthful(l, n, pids, del, rec) ==
    \A k \in 1 .. Len(l) : ~(k > n) /\ Asks(l[k]) =>
        /\ AnswerType(l[k]) # "pubcomp" => \A m \in Msgs : pids[m] = l[k].pid => del[m] > 0
        /\ AnswerType(l[k]) = "pubcomp" => l[k].pid \notin rec

\* A packet id the broker remembers belongs to a message it has passed on.
HeldBy(pids, del, rec) ==
    \A p \in rec : \E m \in Msgs : Qos[m] = 2 /\ pids[m] = p /\ del[m] > 0

Past == {"send_pubrel", "await_pubcomp", "dropped", "done"}

\* A message whose PUBREC or last acknowledgement was processed was passed on.
Got(stg, del) == \A m \in Msgs : Qos[m] > 0 /\ stg[m] \in Past => del[m] > 0

PromptInv(l, n, stg, pids, del, rec) ==
    /\ OneEach(l)
    /\ Awaited(l, stg, pids)
    /\ UidPid(l, n, pids)
    /\ Truthful(l, n, pids, del, rec)
    /\ HeldBy(pids, del, rec)
    /\ Got(stg, del)

\* What is due to be sent again is not on the way.
Quiet(q, l) == \A k \in 1 .. Len(q) : q[k].due = TRUE => Clear(l, q[k].pid)

\* What is lost or taken.
LEMMA ThinPrompt ==
    ASSUME NEW l1, NEW n1, NEW l2, NEW n2, NEW stg, NEW pids, NEW del, NEW rec,
           Thins(l2, n2, l1, n1), PromptInv(l1, n1, stg, pids, del, rec)
    PROVE  PromptInv(l2, n2, stg, pids, del, rec)
<1>1. PICK at \in [1 .. Len(l2) -> 1 .. Len(l1)] :
         /\ \A j, k \in 1 .. Len(l2) : j < k => at[j] < at[k]
         /\ \A k \in 1 .. Len(l2) : l2[k] = l1[at[k]] /\ (k > n2 <=> at[k] > n1)
  BY DEF Thins
<1>2. \A k \in 1 .. Len(l2) : at[k] \in 1 .. Len(l1)
  OBVIOUS
<1>3. OneEach(l2)
  <2> SUFFICES ASSUME NEW j \in 1 .. Len(l2), NEW k \in 1 .. Len(l2),
                      Asks(l2[j]), Asks(l2[k]), l2[j].pid = l2[k].pid
               PROVE  j = k
    BY DEF OneEach
  <2>1. at[j] = at[k]
    BY <1>1, <1>2 DEF PromptInv, OneEach
  <2>2. ~(j < k) /\ ~(k < j)
    BY <1>1, <1>2, <2>1
  <2> QED BY <2>2
<1>4. Awaited(l2, stg, pids)
  <2> SUFFICES ASSUME NEW k \in 1 .. Len(l2), Asks(l2[k])
               PROVE  \E m \in Msgs : /\ Qos[m] > 0 /\ pids[m] = l2[k].pid
                                      /\ stg[m] = AwaitStage(AnswerType(l2[k]))
    BY DEF Awaited
  <2>1. l2[k] = l1[at[k]] /\ at[k] \in 1 .. Len(l1)
    BY <1>1, <1>2
  <2> QED BY <2>1 DEF PromptInv, Awaited
<1>5. UidPid(l2, n2, pids)
  BY <1>1, <1>2 DEF PromptInv, UidPid
<1>6. Truthful(l2, n2, pids, del, rec)
  BY <1>1, <1>2 DEF PromptInv, Truthful
<1> QED BY <1>3, <1>4, <1>5, <1>6 DEF PromptInv

\* The same for what is due.
LEMMA ThinClear ==
    ASSUME NEW l1, NEW n1, NEW l2, NEW n2, Thins(l2, n2, l1, n1)
    PROVE  /\ \A p : Clear(l1, p) => Clear(l2, p)
           /\ \A q : Quiet(q, l1) => Quiet(q, l2)
<1>1. PICK at \in [1 .. Len(l2) -> 1 .. Len(l1)] : \A k \in 1 .. Len(l2) : l2[k] = l1[at[k]]
  BY DEF Thins
<1>2. \A k \in 1 .. Len(l2) : at[k] \in 1 .. Len(l1)
  OBVIOUS
<1>3. \A p : Clear(l1, p) => Clear(l2, p)
  BY <1>1, <1>2 DEF Clear
<1> QED BY <1>3 DEF Quiet

\* The head of the line is taken: its packet id is not asked for any more.
LEMMA TailClear ==
    ASSUME NEW l \in Seq(Item), l # <<>>, Asks(l[1]), OneEach(l)
    PROVE  Clear(Tail(l), l[1].pid)
<1>1. /\ Len(l) \in Nat \ {0} /\ Len(Tail(l)) = Len(l) - 1
      /\ \A j \in 1 .. Len(l) - 1 : Tail(l)[j] = l[j + 1]
  BY TailFacts
<1>2. ASSUME NEW k \in 1 .. Len(Tail(l)), Asks(Tail(l)[k]), Tail(l)[k].pid = l[1].pid PROVE FALSE
  <2>1. k + 1 \in 1 .. Len(l) /\ 1 \in 1 .. Len(l) /\ 1 # k + 1 /\ Tail(l)[k] = l[k + 1]
    BY <1>1, <1>2
  <2> QED BY <1>2, <2>1 DEF OneEach
<1> QED BY <1>2 DEF Clear

\* A message that waits for nothing has nothing on the way.
LEMMA ClearUnlessAwaited ==
    ASSUME NEW l, NEW stg, NEW pids, Awaited(l, stg, pids), Unique(pids),
           NEW m \in Msgs, stg[m] \notin AwaitStages
    PROVE  Clear(l, pids[m]) \/ pids[m] = NoPid
<1> SUFFICES ASSUME pids[m] # NoPid, NEW k \in 1 .. Len(l), Asks(l[k]), l[k].pid = pids[m]
             PROVE  FALSE
  BY DEF Clear
<1>1. PICK o \in Msgs : pids[o] = l[k].pid /\ stg[o] = AwaitStage(AnswerType(l[k]))
  BY DEF Awaited
<1>2. o = m
  BY <1>1 DEF Unique
<1> QED BY <1>1, <1>2 DEF AwaitStage, AwaitStages

\* A message moves on while nothing with its packet id is on the way.
LEMMA MovePrompt ==
    ASSUME NEW l, NEW n, NEW stg, NEW pids, NEW del, NEW rec, UidsKnown(l, n),
           PromptInv(l, n, stg, pids, del, rec),
           NEW stg2, NEW pids2, NEW m \in Msgs, SameBut(m, stg, stg2), SameBut(m, pids, pids2),
           Clear(l, pids[m]), Clear(l, pids2[m]),
           pids2[m] = pids[m] \/ pids[m] \notin rec,
           Qos[m] > 0 /\ stg2[m] \in Past => del[m] > 0
    PROVE  PromptInv(l, n, stg2, pids2, del, rec)
<1>1. \A o \in Msgs : o = m \/ (stg2[o] = stg[o] /\ pids2[o] = pids[o])
  BY DEF SameBut
<1>2. \A k \in 1 .. Len(l) : Asks(l[k]) => l[k].pid # pids[m] /\ l[k].pid # pids2[m]
  BY DEF Clear
<1>3. Awaited(l, stg2, pids2)
  <2> SUFFICES ASSUME NEW k \in 1 .. Len(l), Asks(l[k])
               PROVE  \E o \in Msgs : /\ Qos[o] > 0 /\ pids2[o] = l[k].pid
                                      /\ stg2[o] = AwaitStage(AnswerType(l[k]))
    BY DEF Awaited
  <2>1. PICK o \in Msgs : /\ Qos[o] > 0 /\ pids[o] = l[k].pid
                          /\ stg[o] = AwaitStage(AnswerType(l[k]))
    BY DEF PromptInv, Awaited
  <2> QED BY <1>1, <1>2, <2>1
<1>4. UidPid(l, n, pids2)
  <2> SUFFICES ASSUME NEW k \in 1 .. Len(l), k > n, l[k].type = "publish", Asks(l[k])
               PROVE  pids2[l[k].uid] = l[k].pid
    BY DEF UidPid
  <2>1. pids[l[k].uid] = l[k].pid /\ l[k].uid \in Msgs
    BY DEF PromptInv, UidPid, UidsKnown
  <2> QED BY <1>1, <1>2, <2>1
<1>5. Truthful(l, n, pids2, del, rec)
  <2> SUFFICES ASSUME NEW k \in 1 .. Len(l), ~(k > n), Asks(l[k])
               PROVE  /\ AnswerType(l[k]) # "pubcomp" =>
                            \A o \in Msgs : pids2[o] = l[k].pid => del[o] > 0
                      /\ AnswerType(l[k]) = "pubcomp" => l[k].pid \notin rec
    BY DEF Truthful
  <2>1. /\ AnswerType(l[k]) # "pubcomp" => \A o \in Msgs : pids[o] = l[k].pid => del[o] > 0
        /\ AnswerType(l[k]) = "pubcomp" => l[k].pid \notin rec
    BY DEF PromptInv, Truthful
  <2> QED BY <1>1, <1>2, <2>1
<1>6. HeldBy(pids2, del, rec)
  BY <1>1 DEF PromptInv, HeldBy
<1>7. Got(stg2, del)
  BY <1>1 DEF PromptInv, Got
<1> QED BY <1>3, <1>4, <1>5, <1>6, <1>7 DEF PromptInv

\* A packet is written whose packet id is not on the way.
LEMMA WritePrompt ==
    ASSUME NEW l \in Seq(Item), NEW n \in Nat, n <= Len(l), NEW x \in Addressed,
           NEW stg, NEW pids, NEW del, NEW rec, PromptInv(l, n, stg, pids, del, rec),
           Asks(x) => Clear(l, x.pid),
           Asks(x) => \E m \in Msgs : /\ Qos[m] > 0 /\ pids[m] = x.pid
                                      /\ stg[m] = AwaitStage(AnswerType(x)),
           x.type = "publish" => pids[x.uid] = x.pid
    PROVE  PromptInv(Append(l, x), n, stg, pids, del, rec)
<1> DEFINE r == Append(l, x)
<1>1. /\ Len(r) = Len(l) + 1 /\ Len(l) \in Nat
      /\ \A k \in 1 .. Len(l) : r[k] = l[k]
      /\ r[Len(l) + 1] = x
  BY AppendedLine
<1> HIDE DEF r
<1>2. \A k \in 1 .. Len(r) : (k \in 1 .. Len(l) /\ r[k] = l[k])
                             \/ (k = Len(l) + 1 /\ k > n /\ r[k] = x)
  BY <1>1
<1>3. OneEach(r)
  <2> SUFFICES ASSUME NEW j \in 1 .. Len(r), NEW k \in 1 .. Len(r),
                      Asks(r[j]), Asks(r[k]), r[j].pid = r[k].pid
               PROVE  j = k
    BY DEF OneEach
  <2>1. CASE j \in 1 .. Len(l) /\ r[j] = l[j] /\ k \in 1 .. Len(l) /\ r[k] = l[k]
    BY <2>1 DEF PromptInv, OneEach
  <2>2. CASE j \in 1 .. Len(l) /\ r[j] = l[j] /\ r[k] = x
    BY <2>2 DEF Clear
  <2>3. CASE k \in 1 .. Len(l) /\ r[k] = l[k] /\ r[j] = x
    BY <2>3 DEF Clear
  <2> QED BY <1>2, <2>1, <2>2, <2>3
<1>4. Awaited(r, stg, pids)
  BY <1>2 DEF PromptInv, Awaited
<1>5. UidPid(r, n, pids)
  BY <1>2 DEF PromptInv, UidPid
<1>6. Truthful(r, n, pids, del, rec)
  BY <1>2 DEF PromptInv, Truthful
<1>7. PromptInv(r, n, stg, pids, del, rec)
  BY <1>3, <1>4, <1>5, <1>6 DEF PromptInv
<1> QED BY <1>7 DEF r

\* What is due is another packet id.
LEMMA WriteQuiet ==
    ASSUME NEW l \in Seq(Item), NEW n \in Nat, n <= Len(l), NEW x \in Addressed, NEW q, Quiet(q, l),
           Asks(x) => \A k \in 1 .. Len(q) : q[k].due = TRUE => q[k].pid # x.pid
    PROVE  Quiet(q, Append(l, x))
<1> DEFINE r == Append(l, x)
<1>1. /\ Len(r) = Len(l) + 1 /\ Len(l) \in Nat
      /\ \A k \in 1 .. Len(l) : r[k] = l[k]
      /\ r[Len(l) + 1] = x
  BY AppendedLine
<1> HIDE DEF r
<1>2. \A k \in 1 .. Len(r) : (k \in 1 .. Len(l) /\ r[k] = l[k]) \/ r[k] = x
  BY <1>1
<1>4. Quiet(q, r)
  BY <1>2 DEF Quiet, Clear
<1> QED BY <1>4 DEF r

\* Queues: a removed entry, one that was just written, one that is renewed.
LEMMA QuietRemove ==
    ASSUME NEW S, NEW q \in Seq(S), NEW k \in 1 .. Len(q), NEW l, Quiet(q, l)
    PROVE  Quiet(Remove(q, k), l)
<1> DEFINE r == Remove(q, k)
<1>1. /\ Len(r) = Len(q) - 1 /\ Len(q) \in Nat
      /\ \A j \in 1 .. Len(q) - 1 : r[j] = IF j < k THEN q[j] ELSE q[j + 1]
  BY RemoveFacts
<1> HIDE DEF r
<1>2. \A j \in 1 .. Len(r) : \E h \in 1 .. Len(q) : r[j] = q[h]
  BY <1>1
<1>3. Quiet(r, l)
  BY <1>2 DEF Quiet
<1> QED BY <1>3 DEF r

\* An entry that was just written is not due.
LEMMA QuietPush ==
    ASSUME NEW S, NEW q \in Seq(S), NEW e \in S, e.due = FALSE, NEW l, Quiet(q, l)
    PROVE  Quiet(Append(q, e), l)
<1> DEFINE r == Append(q, e)
<1>1. /\ Len(q) \in Nat /\ Len(r) = Len(q) + 1
      /\ \A j \in 1 .. Len(q) : r[j] = q[j]
      /\ r[Len(q) + 1] = e
  BY PushFacts
<1> HIDE DEF r
<1>2. \A j \in 1 .. Len(r) : (j \in 1 .. Len(q) /\ r[j] = q[j]) \/ r[j] = e
  BY <1>1
<1>3. Quiet(r, l)
  BY <1>2 DEF Quiet
<1> QED BY <1>3 DEF r

\* The timestamp of one entry changes.
LEMMA DueFacts ==
    ASSUME NEW S \in {AwaitAck, AwaitPubcomp}, NEW q \in Seq(S), NEW k \in 1 .. Len(q),
           NEW b \in BOOLEAN
    PROVE  LET r == [q EXCEPT ![k].due = b] IN
           /\ r \in Seq(S) /\ Len(r) = Len(q)
           /\ \A j \in 1 .. Len(q) : /\ r[j].uid = q[j].uid /\ r[j].pid = q[j].pid
                                     /\ j # k => r[j] = q[j]
           /\ r[k].due = b
<1>1. q[k] \in S
  OBVIOUS
<1>2. CASE S = AwaitAck
  <2>1. /\ [q[k] EXCEPT !.due = b] \in AwaitAck /\ [q[k] EXCEPT !.due = b].due = b
        /\ [q[k] EXCEPT !.due = b].uid = q[k].uid /\ [q[k] EXCEPT !.due = b].pid = q[k].pid
    BY <1>1, <1>2 DEF AwaitAck
  <2> QED BY <1>2, <2>1
<1>3. CASE S = AwaitPubcomp
  <2>1. /\ [q[k] EXCEPT !.due = b] \in AwaitPubcomp /\ [q[k] EXCEPT !.due = b].due = b
        /\ [q[k] EXCEPT !.due = b].uid = q[k].uid /\ [q[k] EXCEPT !.due = b].pid = q[k].pid
    BY <1>1, <1>3 DEF AwaitPubcomp
  <2> QED BY <1>3, <2>1
<1> QED BY <1>2, <1>3

\* Entries of other messages have other packet ids.
LEMMA OtherPids ==
    ASSUME NEW S \in {AwaitAck, AwaitPubcomp}, NEW q, NEW st, NEW stg, NEW pids,
           Sound(q, S, st, stg, pids), Unique(pids), NEW m \in Msgs, pids[m] # NoPid
    PROVE  /\ \A k \in 1 .. Len(q) : q[k].uid # m => q[k].pid # pids[m]
           /\ stg[m] # st => \A k \in 1 .. Len(q) : q[k].pid # pids[m]
<1>1. \A k \in 1 .. Len(q) :
         q[k].uid \in Msgs /\ stg[q[k].uid] = st /\ q[k].pid = pids[q[k].uid]
  BY EntryOf
<1> QED BY <1>1 DEF Unique

\* The answers change neither who asks nor for what.
LEMMA AnswerQuiet ==
    ASSUME NEW l1 \in Seq(Item), NEW n1 \in Nat, NEW l2, NEW n2, Answered(l2, n2, l1, n1),
           l1[n2] \in Addressed, Asks(l1[n2])
    PROVE  \A q : Quiet(q, l1) => Quiet(q, l2)
<1>1. /\ Len(l2) = Len(l1)
      /\ \A k \in 1 .. Len(l1) : AnswerType(l2[k]) = AnswerType(l1[k]) /\ l2[k].pid = l1[k].pid
  BY AnswerSame DEF Asks
<1> QED BY <1>1 DEF Quiet, Clear, Asks

\* The broker passes more messages on.
LEMMA MoreDelivered ==
    ASSUME NEW l, NEW n, NEW stg, NEW pids, NEW del, NEW rec, NEW del2,
           PromptInv(l, n, stg, pids, del, rec), \A m \in Msgs : del[m] > 0 => del2[m] > 0
    PROVE  PromptInv(l, n, stg, pids, del2, rec)
<1>1. Truthful(l, n, pids, del2, rec)
  BY DEF PromptInv, Truthful
<1>2. HeldBy(pids, del2, rec)
  BY DEF PromptInv, HeldBy
<1>3. Got(stg, del2)
  BY DEF PromptInv, Got
<1> QED BY <1>1, <1>2, <1>3 DEF PromptInv

\* The broker answers a packet, truthfully.
LEMMA AnswerPrompt ==
    ASSUME NEW l1 \in Seq(Item), NEW n1 \in Nat, NEW l2, NEW n2, Answered(l2, n2, l1, n1),
           NEW x \in Addressed, l1[n2] = x, Asks(x),
           NEW stg, NEW pids, NEW del, NEW rec, NEW del2, NEW rec2,
           PromptInv(l1, n1, stg, pids, del, rec),
           \A m \in Msgs : del[m] > 0 => del2[m] > 0,
           AnswerType(x) # "pubcomp" => \A m \in Msgs : pids[m] = x.pid => del2[m] > 0,
           AnswerType(x) = "pubcomp" => x.pid \notin rec2,
           \A p \in rec2 : p = x.pid \/ p \in rec,
           HeldBy(pids, del2, rec2)
    PROVE  PromptInv(l2, n2, stg, pids, del2, rec2)
<1>1. /\ Len(l2) = Len(l1) /\ n2 \in 1 .. Len(l1) /\ n2 > n1
      /\ \A k \in 1 .. Len(l1) : AnswerType(l2[k]) = AnswerType(l1[k]) /\ l2[k].pid = l1[k].pid
      /\ \A k \in 1 .. Len(l1) : k > n2 => k > n1 /\ l2[k] = l1[k]
  BY AnswerSame DEF Asks
<1>2. n2 = n1 + 1
  BY DEF Answered
<1>3. OneEach(l2)
  BY <1>1 DEF PromptInv, OneEach, Asks
<1>4. Awaited(l2, stg, pids)
  <2> SUFFICES ASSUME NEW k \in 1 .. Len(l2), Asks(l2[k])
               PROVE  \E m \in Msgs : /\ Qos[m] > 0 /\ pids[m] = l2[k].pid
                                      /\ stg[m] = AwaitStage(AnswerType(l2[k]))
    BY DEF Awaited
  <2>1. k \in 1 .. Len(l1) /\ Asks(l1[k]) /\ AnswerType(l2[k]) = AnswerType(l1[k])
        /\ l2[k].pid = l1[k].pid
    BY <1>1 DEF Asks
  <2>2. PICK m \in Msgs : /\ Qos[m] > 0 /\ pids[m] = l1[k].pid
                          /\ stg[m] = AwaitStage(AnswerType(l1[k]))
    BY <2>1 DEF PromptInv, Awaited
  <2> QED BY <2>1, <2>2
<1>5. UidPid(l2, n2, pids)
  BY <1>1 DEF PromptInv, UidPid
<1>6. Truthful(l2, n2, pids, del2, rec2)
  <2> SUFFICES ASSUME NEW k \in 1 .. Len(l2), ~(k > n2), Asks(l2[k])
               PROVE  /\ AnswerType(l2[k]) # "pubcomp" =>
                            \A m \in Msgs : pids[m] = l2[k].pid => del2[m] > 0
                      /\ AnswerType(l2[k]) = "pubcomp" => l2[k].pid \notin rec2
    BY DEF Truthful
  <2>1. k \in 1 .. Len(l1) /\ Asks(l1[k]) /\ AnswerType(l2[k]) = AnswerType(l1[k])
        /\ l2[k].pid = l1[k].pid
    BY <1>1 DEF Asks
  <2>2. CASE k = n2
    BY <2>1, <2>2
  <2>3. CASE k # n2
    <3>1. ~(k > n1)
      BY <1>2, <2>1, <2>3
    <3>2. /\ AnswerType(l1[k]) # "pubcomp" => \A m \in Msgs : pids[m] = l1[k].pid => del[m] > 0
          /\ AnswerType(l1[k]) = "pubcomp" => l1[k].pid \notin rec
      BY <2>1, <3>1 DEF PromptInv, Truthful
    <3>3. l1[k].pid # x.pid
      BY <1>1, <2>1, <2>3 DEF PromptInv, OneEach
    <3> QED BY <2>1, <3>2, <3>3
  <2> QED BY <2>2, <2>3
<1>7. Got(stg, del2)
  BY DEF PromptInv, Got
<1> QED BY <1>3, <1>4, <1>5, <1>6, <1>7 DEF PromptInv


\* An entry is written again.
LEMMA RenewQuiet ==
    ASSUME NEW S \in {AwaitAck, AwaitPubcomp}, NEW q, NEW st, NEW stg, NEW pids,
           Sound(q, S, st, stg, pids), Unique(pids), NEW k \in 1 .. Len(q), pids[q[k].uid] # NoPid,
           NEW l \in Seq(Item), NEW n \in Nat, n <= Len(l), NEW x \in Addressed,
           x.pid = pids[q[k].uid], Quiet(q, l)
    PROVE  Quiet([q EXCEPT ![k].due = FALSE], Append(l, x))
<1> DEFINE r == [q EXCEPT ![k].due = FALSE]
<1>0. q \in Seq(S)
  BY DEF Sound
<1>1. /\ Len(r) = Len(q) /\ r[k].due = FALSE
      /\ \A j \in 1 .. Len(q) : r[j].pid = q[j].pid /\ (j # k => r[j] = q[j])
  BY <1>0, DueFacts
<1> HIDE DEF r
<1>2. q[k].uid \in Msgs /\ \A j \in 1 .. Len(q) : j # k => q[j].uid # q[k].uid
  BY EntryOf
<1>3. \A j \in 1 .. Len(q) : q[j].uid # q[k].uid => q[j].pid # x.pid
  BY <1>2, OtherPids
<1>4. Quiet(r, l)
  BY <1>1 DEF Quiet
<1>5. \A j \in 1 .. Len(r) : r[j].due = TRUE => r[j].pid # x.pid
  BY <1>1, <1>2, <1>3
<1>6. Quiet(r, Append(l, x))
  BY <1>4, <1>5, WriteQuiet
<1> QED BY <1>6 DEF r

\* The queues after a PUBLISH was written for the first time.
LEMMA SendPublishQueues ==
    ASSUME PubInv, send_publish_entry
    PROVE  /\ \/ UNCHANGED await_puback
              \/ \E e \in AwaitAck : e.due = FALSE /\ await_puback' = Append(await_puback, e)
           /\ \/ UNCHANGED await_pubrec /\ Qos[send_publish[i].uid] # 2
              \/ \E e \in AwaitAck :
                    /\ e.due = FALSE /\ e.uid = send_publish[i].uid /\ e.pid = pid_of[e.uid]
                    /\ await_pubrec' = Append(await_pubrec, e)
                    /\ Qos[e.uid] = 2 /\ ~IsFull(await_pubrec)
           /\ Qos[send_publish[i].uid] # 2 => UNCHANGED await_pubrec
<1>0. QueuesTyped
  BY InvQueuesTyped
<1> DEFINE c == send_publish[i]
           m == c.uid
           e == AwaitEntry(c)
<1>1. i \in 1 .. Len(send_publish)
  BY <1>0 DEF send_publish_entry, QueuesTyped
<1>2. c \in OwnedPublish
  BY <1>0, <1>1 DEF QueuesTyped
<1>3. m \in Msgs
  BY <1>2 DEF OwnedPublish
<1>4. Qos[m] \in {0, 1, 2}
  BY <1>3, PublishesAssumption
<1>5. stage[m] = "send_publish" /\ c.pid = pid_of[m]
  <2>1. m # NoMsg
    BY <1>3, PublishesAssumption
  <2> QED BY <1>1, <2>1 DEF PubInv, QueuesSound, Sound
<1>6. Qos[m] > 0 => pid_of[m] # NoPid
  BY <1>3, <1>5 DEF PubInv, Staged
<1>7. Qos[m] > 0 => c.pid \in Pids
  BY <1>2, <1>5, <1>6 DEF OwnedPublish
<1>8. Qos[m] > 0 => /\ e \in AwaitAck /\ e.due = FALSE /\ e.uid = m /\ e.pid = pid_of[m]
  BY <1>3, <1>5, <1>7 DEF AwaitEntry, AwaitAck
<1>9. CASE Qos[m] = 0
  BY <1>9 DEF send_publish_entry
<1>10. CASE Qos[m] = 1
  <2>1. await_puback' = Append(await_puback, e) /\ UNCHANGED await_pubrec
    BY <1>10 DEF send_publish_entry
  <2>2. e \in AwaitAck /\ e.due = FALSE
    BY <1>8, <1>10
  <2> HIDE DEF e
  <2> QED BY <1>10, <2>1, <2>2
<1>11. CASE Qos[m] = 2
  <2>1. await_pubrec' = Append(await_pubrec, e) /\ UNCHANGED await_puback /\ ~IsFull(await_pubrec)
    BY <1>11 DEF send_publish_entry, has_space
  <2>2. e \in AwaitAck /\ e.due = FALSE /\ e.uid = m /\ e.pid = pid_of[m]
    BY <1>8, <1>11
  <2> HIDE DEF e
  <2> QED BY <1>11, <2>1, <2>2
<1> QED BY <1>4, <1>9, <1>10, <1>11

-----------------------------------------------------------------------------
(* A prompt broker: the steps                                                *)

PromptHere == PromptInv(TheLine, Len(to_client), stage, pid_of, delivered, received)
QuietHere ==
    Quiet(await_puback, TheLine) /\ Quiet(await_pubrec, TheLine) /\ Quiet(await_pubcomp, TheLine)

\* No PUBREL is queued for nobody.
AllNamed == \A k \in 1 .. Len(send_pubrel) : send_pubrel[k].uid # NoMsg

Prompt == PromptHere /\ QuietHere /\ AllNamed

\* Nothing on the way asks for no packet id.
LEMMA NothingClear ==
    ASSUME PubInv, NEW l, Awaited(l, stage, pid_of)
    PROVE  Clear(l, NoPid)
<1> SUFFICES ASSUME NEW k \in 1 .. Len(l), Asks(l[k]), l[k].pid = NoPid PROVE FALSE
  BY DEF Clear
<1>1. PICK m \in Msgs : /\ Qos[m] > 0 /\ pid_of[m] = l[k].pid
                        /\ stage[m] = AwaitStage(AnswerType(l[k]))
  BY DEF Awaited
<1>2. stage[m] \notin {"new", "done"}
  BY <1>1 DEF AwaitStage
<1> QED BY <1>1, <1>2 DEF PubInv, Staged

\* Nor for the packet id of a message that waits for no answer.
LEMMA IdleClear ==
    ASSUME PubInv, NEW l, Awaited(l, stage, pid_of), NEW m \in Msgs, stage[m] \notin AwaitStages
    PROVE  Clear(l, pid_of[m])
<1>1. Unique(pid_of)
  BY PidsUnique
<1>2. CASE pid_of[m] = NoPid
  BY <1>2, NothingClear
<1>3. CASE pid_of[m] # NoPid
  BY <1>1, <1>3, ClearUnlessAwaited
<1> QED BY <1>2, <1>3

\* The packet ids are unique after the step as well.
LEMMA PidsUniqueNext == ASSUME PubInv' PROVE Unique(pid_of')
BY DEF PubInv, Pool!PidInv, Pool!Apart, Pool!NoPid, NoPid, Unique

\* The publish() call.
LEMMA PromptClient ==
    ASSUME FlowBase, PubInv', Prompt, Client, UNCHANGED <<netVars, brokerVars>>
    PROVE  Prompt'
<1> USE DEF FlowBase
<1> DEFINE l == TheLine
           n == Len(to_client)
<1>0. delivered' = delivered /\ received' = received
  BY DEF brokerVars
<1>1. /\ ~panicked
      /\ UNCHANGED <<await_puback, await_pubrec, send_pubrel, await_pubcomp, send_buffer>>
  BY ClientEffect
<1>2. AllNamed'
  BY <1>1 DEF Prompt, AllNamed
<1>3. CASE panicked' = TRUE /\ UNCHANGED <<stage, pid_of>>
  <2>1. Thins(TheLine', Len(to_client'), l, n)
    BY <1>1, <1>3, LinePanics
  <2>2. PromptInv(TheLine', Len(to_client'), stage, pid_of, delivered, received)
    BY <2>1, ThinPrompt DEF Prompt, PromptHere
  <2>3. QuietHere'
    BY <1>1, <2>1, ThinClear DEF Prompt, QuietHere
  <2> QED BY <1>0, <1>2, <1>3, <2>2, <2>3 DEF Prompt, PromptHere
<1>4. ASSUME UNCHANGED panicked, NEW m \in Msgs,
             stage[m] \in {"new", "waiting"}, stage'[m] \in {"waiting", "send_publish", "cancelled"},
             SameBut(m, stage, stage'), SameBut(m, pid_of, pid_of'),
             stage[m] = "waiting" => pid_of' = pid_of
      PROVE  Prompt'
  <2>1. TheLine' = l /\ Len(to_client') = n
    BY <1>1, <1>4, LineStays
  <2>2. UidsKnown(l, n) /\ PromptInv(l, n, stage, pid_of, delivered, received)
    BY TheLineTyped DEF Prompt, PromptHere
  <2>3. Awaited(l, stage, pid_of)
    BY <2>2 DEF PromptInv
  <2>4. stage[m] \notin AwaitStages
    BY <1>4 DEF AwaitStages
  <2>5. Clear(l, pid_of[m])
    BY <2>3, <2>4, IdleClear
  <2>6. Clear(l, pid_of'[m])
    <3>1. CASE stage[m] = "waiting"
      BY <1>4, <2>5, <3>1
    <3>2. CASE pid_of'[m] = NoPid
      BY <2>3, <3>2, NothingClear
    <3>3. CASE stage[m] = "new" /\ pid_of'[m] # NoPid
      <4> SUFFICES ASSUME NEW k \in 1 .. Len(l), Asks(l[k]), l[k].pid = pid_of'[m] PROVE FALSE
        BY DEF Clear
      <4>1. PICK o \in Msgs : /\ Qos[o] > 0 /\ pid_of[o] = l[k].pid
                              /\ stage[o] = AwaitStage(AnswerType(l[k]))
        BY <2>3 DEF Awaited
      <4>2. o # m
        BY <3>3, <4>1 DEF AwaitStage
      <4>3. pid_of'[o] = pid_of'[m]
        BY <1>4, <4>1, <4>2 DEF SameBut
      <4> QED BY <3>3, <4>2, <4>3, PidsUniqueNext DEF Unique
    <3> QED BY <1>4, <3>1, <3>2, <3>3
  <2>7. pid_of'[m] = pid_of[m] \/ pid_of[m] \notin received
    <3>1. CASE stage[m] = "waiting"
      BY <1>4, <3>1
    <3>2. CASE stage[m] = "new"
      <4>1. pid_of[m] = NoPid
        BY <3>2 DEF PubInv, Staged
      <4>2. NoPid \notin received
        BY DEF FlowTyped, NoPid, Pids
      <4> QED BY <4>1, <4>2
    <3> QED BY <1>4, <3>1, <3>2
  <2>8. stage'[m] \notin Past
    BY <1>4 DEF Past
  <2>9. PromptInv(l, n, stage', pid_of', delivered, received)
    BY <1>4, <2>2, <2>5, <2>6, <2>7, <2>8, MovePrompt
  <2>10. QuietHere'
    BY <1>1, <2>1 DEF Prompt, QuietHere
  <2> QED BY <1>0, <1>2, <2>1, <2>9, <2>10 DEF Prompt, PromptHere
<1> QED BY <1>3, <1>4, ClientEffect


\* The first PUBLISH of a message is written.
LEMMA PromptSendPublish ==
    ASSUME FlowBase, Prompt, ~panicked, send_publish_entry, UNCHANGED <<netVars, brokerVars>>
    PROVE  Prompt'
<1> USE DEF FlowBase
<1> DEFINE l == TheLine
           n == Len(to_client)
<1>0. delivered' = delivered /\ received' = received
  BY DEF brokerVars
<1>1. PICK m \in Msgs, x \in Addressed :
         /\ x.type = "publish" /\ x.uid = m /\ x.pid = pid_of[m]
         /\ stage[m] = "send_publish" /\ stage' = [stage EXCEPT ![m] = SentStage(m)]
         /\ send_buffer' = Append(send_buffer, x)
         /\ UNCHANGED <<pid_of, panicked, send_pubrel, await_pubcomp>>
  BY SendPublishEffect
<1>2. TheLine' = Append(l, x) /\ Len(to_client') = n
  BY <1>1, LineWritten
<1>3. /\ l \in Seq(Item) /\ n \in Nat /\ n <= Len(l) /\ UidsKnown(l, n)
      /\ PromptInv(l, n, stage, pid_of, delivered, received)
  BY TheLineTyped DEF Prompt, PromptHere
<1>4. Unique(pid_of)
  BY PidsUnique
<1>5. Clear(l, pid_of[m])
  BY <1>1, <1>3, IdleClear DEF PromptInv, AwaitStages
<1>6. SameBut(m, stage, stage') /\ stage'[m] = SentStage(m) /\ SameBut(m, pid_of, pid_of)
  BY <1>1, StageMoves DEF SameBut
<1>7. Qos[m] \in {0, 1, 2}
  BY PublishesAssumption
<1>8. PromptInv(l, n, stage', pid_of, delivered, received)
  <2>1. ~(Qos[m] > 0 /\ stage'[m] \in Past)
    BY <1>6, <1>7 DEF SentStage, Past
  <2> QED BY <1>3, <1>5, <1>6, <2>1, MovePrompt
<1>9. /\ Asks(x) => Qos[m] > 0 /\ stage'[m] = AwaitStage(AnswerType(x)) /\ pid_of[m] # NoPid
  <2>1. AnswerType(x) = IF Qos[m] = 2 THEN "pubrec" ELSE IF Qos[m] = 1 THEN "puback" ELSE "none"
    BY <1>1 DEF AnswerType
  <2>2. Qos[m] > 0 => pid_of[m] # NoPid
    BY <1>1 DEF PubInv, Staged
  <2> QED BY <1>6, <1>7, <2>1, <2>2 DEF Asks, SentStage, AwaitStage
<1>10. PromptInv(Append(l, x), n, stage', pid_of, delivered, received)
  BY <1>1, <1>3, <1>5, <1>8, <1>9, WritePrompt
<1>11. ASSUME NEW S \in {AwaitAck, AwaitPubcomp}, NEW q, NEW st, st # "send_publish",
              Sound(q, S, st, stage, pid_of), Quiet(q, l)
       PROVE  Quiet(q, Append(l, x))
  <2>1. Asks(x) => \A k \in 1 .. Len(q) : q[k].pid # x.pid
    BY <1>1, <1>4, <1>9, <1>11, OtherPids
  <2> QED BY <1>3, <1>11, <2>1, WriteQuiet
<1>12. /\ Sound(await_puback, AwaitAck, "await_puback", stage, pid_of)
       /\ Sound(await_pubrec, AwaitAck, "await_pubrec", stage, pid_of)
       /\ Sound(await_pubcomp, AwaitPubcomp, "await_pubcomp", stage, pid_of)
       /\ await_puback \in Seq(AwaitAck) /\ await_pubrec \in Seq(AwaitAck)
  BY DEF PubInv, QueuesSound, Sound
<1>13. Quiet(await_puback, l) /\ Quiet(await_pubrec, l) /\ Quiet(await_pubcomp, l)
  BY DEF Prompt, QuietHere
<1>14. Quiet(await_puback', Append(l, x))
  <2>1. Quiet(await_puback, Append(l, x))
    BY <1>11, <1>12, <1>13
  <2> QED BY <1>12, <2>1, SendPublishQueues, QuietPush
<1>15. Quiet(await_pubrec', Append(l, x))
  <2>1. Quiet(await_pubrec, Append(l, x))
    BY <1>11, <1>12, <1>13
  <2> QED BY <1>12, <2>1, SendPublishQueues, QuietPush
<1>16. Quiet(await_pubcomp', Append(l, x))
  BY <1>1, <1>11, <1>12, <1>13
<1>17. AllNamed'
  BY <1>1 DEF Prompt, AllNamed
<1> QED BY <1>0, <1>1, <1>2, <1>10, <1>14, <1>15, <1>16, <1>17 DEF Prompt, PromptHere, QuietHere

\* A PUBREL is written for the first time.
LEMMA PromptSendPubrel ==
    ASSUME FlowBase, Prompt, ~panicked, send_pubrel_entry, UNCHANGED <<netVars, brokerVars>>
    PROVE  Prompt' /\ UNCHANGED panicked
<1> USE DEF FlowBase
<1> DEFINE l == TheLine
           n == Len(to_client)
           m == send_pubrel[i].uid
           p == send_pubrel[i].pid
           x == [type |-> "pubrel", pid |-> p]
           e == [uid |-> m, pid |-> p, due |-> FALSE]
<1>0. delivered' = delivered /\ received' = received
  BY DEF brokerVars
<1>1. /\ i \in 1 .. Len(send_pubrel) /\ p \in Pids /\ send_pubrel' = Remove(send_pubrel, i)
      /\ send_buffer' = Append(send_buffer, x)
      /\ UNCHANGED <<pid_of, await_puback, await_pubrec>>
  BY SendPubrelEffect
<1>2. m # NoMsg
  BY <1>1 DEF Prompt, AllNamed
<1>3. /\ m \in Msgs /\ stage[m] = "send_pubrel" /\ pid_of[m] = p
      /\ stage' = [stage EXCEPT ![m] = "await_pubcomp"]
      /\ await_pubcomp' = Append(await_pubcomp, e)
      /\ UNCHANGED panicked
  BY <1>2, SendPubrelEffect
<1>4. x \in Addressed /\ x.type = "pubrel" /\ x.pid = pid_of[m] /\ pid_of[m] # NoPid
  BY <1>1, <1>3, PubrelAddressed DEF NoPid, Pids
<1>5. e \in AwaitPubcomp /\ e.due = FALSE
  BY <1>1, <1>3 DEF AwaitPubcomp
<1> HIDE DEF m, p, x, e
<1>6. TheLine' = Append(l, x) /\ Len(to_client') = n
  BY <1>1, <1>3, <1>4, LineWritten
<1>7. /\ l \in Seq(Item) /\ n \in Nat /\ n <= Len(l) /\ UidsKnown(l, n)
      /\ PromptInv(l, n, stage, pid_of, delivered, received)
  BY TheLineTyped DEF Prompt, PromptHere
<1>8. Unique(pid_of)
  BY PidsUnique
<1>9. Clear(l, pid_of[m])
  BY <1>3, <1>7, IdleClear DEF PromptInv, AwaitStages
<1>10. SameBut(m, stage, stage') /\ stage'[m] = "await_pubcomp" /\ SameBut(m, pid_of, pid_of)
  BY <1>3, StageMoves DEF SameBut
<1>11. Qos[m] = 2
  BY <1>3 DEF PubInv, Staged
<1>12. PromptInv(l, n, stage', pid_of, delivered, received)
  <2>1. delivered[m] > 0
    BY <1>3, <1>7, <1>11 DEF PromptInv, Got, Past
  <2> QED BY <1>3, <1>7, <1>9, <1>10, <2>1, MovePrompt
<1>13. PromptInv(Append(l, x), n, stage', pid_of, delivered, received)
  <2>1. Qos[m] > 0 /\ pid_of[m] = x.pid /\ stage'[m] = AwaitStage(AnswerType(x)) /\ m \in Msgs
    BY <1>3, <1>4, <1>10, <1>11 DEF AnswerType, AwaitStage
  <2>2. \E o \in Msgs : /\ Qos[o] > 0 /\ pid_of[o] = x.pid
                        /\ stage'[o] = AwaitStage(AnswerType(x))
    BY <2>1
  <2> QED BY <1>4, <1>7, <1>9, <1>12, <2>2, WritePrompt
<1>14. ASSUME NEW S \in {AwaitAck, AwaitPubcomp}, NEW q, NEW st, st # "send_pubrel",
              Sound(q, S, st, stage, pid_of), Quiet(q, l)
       PROVE  Quiet(q, Append(l, x))
  <2>1. \A k \in 1 .. Len(q) : q[k].pid # x.pid
    BY <1>3, <1>4, <1>8, <1>14, OtherPids
  <2> QED BY <1>4, <1>7, <1>14, <2>1, WriteQuiet
<1>15. /\ Sound(await_puback, AwaitAck, "await_puback", stage, pid_of)
       /\ Sound(await_pubrec, AwaitAck, "await_pubrec", stage, pid_of)
       /\ Sound(await_pubcomp, AwaitPubcomp, "await_pubcomp", stage, pid_of)
       /\ await_pubcomp \in Seq(AwaitPubcomp) /\ send_pubrel \in Seq(SendPubrel)
  BY DEF PubInv, QueuesSound, Sound
<1>16. /\ Quiet(await_puback, Append(l, x)) /\ Quiet(await_pubrec, Append(l, x))
       /\ Quiet(await_pubcomp, Append(l, x))
  BY <1>14, <1>15 DEF Prompt, QuietHere
<1>17. Quiet(await_pubcomp', Append(l, x))
  BY <1>3, <1>5, <1>15, <1>16, QuietPush
<1>18. AllNamed'
  <2>1. /\ Len(send_pubrel') = Len(send_pubrel) - 1 /\ Len(send_pubrel) \in Nat
        /\ \A j \in 1 .. Len(send_pubrel) - 1 :
              send_pubrel'[j] = IF j < i THEN send_pubrel[j] ELSE send_pubrel[j + 1]
    BY <1>1, <1>15, RemoveFacts
  <2>2. \A j \in 1 .. Len(send_pubrel') : \E h \in 1 .. Len(send_pubrel) :
           send_pubrel'[j] = send_pubrel[h]
    BY <2>1
  <2> QED BY <2>2 DEF Prompt, AllNamed
<1> QED BY <1>0, <1>1, <1>3, <1>6, <1>13, <1>16, <1>17, <1>18 DEF Prompt, PromptHere, QuietHere

\* A packet is written again.
LEMMA PromptWriteAgain ==
    ASSUME FlowBase, Prompt, ~panicked, UNCHANGED <<netVars, brokerVars, panicked, pid_of, stage>>,
           NEW S \in {AwaitAck, AwaitPubcomp}, NEW q, NEW st \in AwaitStages,
           Sound(q, S, st, stage, pid_of), Quiet(q, TheLine), NEW k \in 1 .. Len(q), q[k].due = TRUE,
           NEW m \in Msgs, q[k].uid = m, NEW x \in Addressed, x.pid = pid_of[m],
           st = AwaitStage(AnswerType(x)), Asks(x), x.type = "publish" => x.uid = m,
           Qos[m] > 0, send_buffer' = Append(send_buffer, x)
    PROVE  /\ PromptHere'
           /\ Quiet([q EXCEPT ![k].due = FALSE], TheLine')
           /\ \A T \in {AwaitAck, AwaitPubcomp} : \A r, tt :
                 Sound(r, T, tt, stage, pid_of) /\ tt # st /\ Quiet(r, TheLine) => Quiet(r, TheLine')
<1> USE DEF FlowBase
<1> DEFINE l == TheLine
           n == Len(to_client)
<1>0. delivered' = delivered /\ received' = received
  BY DEF brokerVars
<1>1. TheLine' = Append(l, x) /\ Len(to_client') = n
  BY LineWritten
<1>2. /\ l \in Seq(Item) /\ n \in Nat /\ n <= Len(l)
      /\ PromptInv(l, n, stage, pid_of, delivered, received)
  BY TheLineTyped DEF Prompt, PromptHere
<1>3. Unique(pid_of)
  BY PidsUnique
<1>4. stage[m] = st /\ q[k].pid = pid_of[m]
  BY EntryOf
<1>5. pid_of[m] # NoPid
  BY <1>4 DEF PubInv, Staged, AwaitStages
<1>6. Clear(l, x.pid)
  BY <1>4 DEF Quiet
<1>7. PromptInv(Append(l, x), n, stage, pid_of, delivered, received)
  <2>1. \E o \in Msgs : /\ Qos[o] > 0 /\ pid_of[o] = x.pid
                        /\ stage[o] = AwaitStage(AnswerType(x))
    BY <1>4
  <2> QED BY <1>2, <1>6, <2>1, WritePrompt
<1>8. Quiet([q EXCEPT ![k].due = FALSE], Append(l, x))
  BY <1>2, <1>3, <1>5, RenewQuiet
<1>9. ASSUME NEW T \in {AwaitAck, AwaitPubcomp}, NEW r, NEW tt,
             Sound(r, T, tt, stage, pid_of), tt # st, Quiet(r, l)
      PROVE  Quiet(r, Append(l, x))
  <2>1. \A j \in 1 .. Len(r) : r[j].pid # x.pid
    BY <1>3, <1>4, <1>5, <1>9, OtherPids
  <2> QED BY <1>2, <1>9, <2>1, WriteQuiet
<1> QED BY <1>0, <1>1, <1>7, <1>8, <1>9 DEF PromptHere


\* What is due of other messages is still not on the way.
LEMMA WriteOthers ==
    ASSUME FlowBase, ~panicked, UNCHANGED <<netVars, brokerVars, panicked, pid_of, stage>>,
           NEW m \in Msgs, pid_of[m] # NoPid,
           NEW x \in Addressed, x.pid = pid_of[m], send_buffer' = Append(send_buffer, x),
           NEW T \in {AwaitAck, AwaitPubcomp}, NEW r, NEW tt,
           Sound(r, T, tt, stage, pid_of), tt # stage[m], Quiet(r, TheLine)
    PROVE  Quiet(r, TheLine')
<1>1. TheLine' = Append(TheLine, x)
  BY LineWritten DEF FlowBase
<1>2. TheLine \in Seq(Item) /\ Len(to_client) \in Nat /\ Len(to_client) <= Len(TheLine)
  BY TheLineTyped DEF FlowBase
<1>3. Unique(pid_of)
  BY PidsUnique DEF FlowBase
<1>4. \A j \in 1 .. Len(r) : r[j].pid # x.pid
  BY <1>3, OtherPids
<1> QED BY <1>1, <1>2, <1>4, WriteQuiet

\* The steps of send_packets.
LEMMA PromptSending ==
    ASSUME FlowBase, Prompt, Sending, UNCHANGED <<netVars, brokerVars>>
    PROVE  Prompt' /\ UNCHANGED panicked
<1> USE DEF FlowBase
<1>0. ~panicked
  BY SendingCases
<1>1. /\ Sound(await_puback, AwaitAck, "await_puback", stage, pid_of)
      /\ Sound(await_pubrec, AwaitAck, "await_pubrec", stage, pid_of)
      /\ Sound(await_pubcomp, AwaitPubcomp, "await_pubcomp", stage, pid_of)
  BY DEF PubInv, QueuesSound
<1>2. Quiet(await_puback, TheLine) /\ Quiet(await_pubrec, TheLine) /\ Quiet(await_pubcomp, TheLine)
  BY DEF Prompt, QuietHere
<1>3. CASE send_publish_entry
  BY <1>0, <1>3, PromptSendPublish, SendPublishEffect
<1>4. CASE send_pubrel_entry
  BY <1>0, <1>4, PromptSendPubrel
<1>5. CASE resend_puback_entry
  <2>1. /\ i <= Len(await_puback) /\ await_puback[i].due /\ Republish(await_puback[i])
        /\ await_puback' = [await_puback EXCEPT ![i].due = FALSE]
        /\ UNCHANGED <<panicked, pid_of, stage, await_pubrec, send_pubrel, await_pubcomp>>
    BY <1>5 DEF resend_puback_entry, histVars
  <2>2. i \in 1 .. Len(await_puback)
    BY <1>1, <2>1, RepublishEffect
  <2>3. PICK m \in Msgs, x \in Addressed :
           /\ x.type = "publish" /\ x.uid = m /\ x.pid = pid_of[m]
           /\ await_puback[i].uid = m /\ Qos[m] = 1
           /\ send_buffer' = Append(send_buffer, x)
    BY <1>1, <2>1, RepublishEffect
  <2>4. Asks(x) /\ "await_puback" = AwaitStage(AnswerType(x)) /\ Qos[m] > 0
    BY <2>3 DEF Asks, AnswerType, AwaitStage
  <2>5. await_puback[i].due = TRUE
    <3>1. await_puback[i] \in AwaitAck
      BY <1>1, <2>2 DEF Sound
    <3>2. await_puback[i].due \in BOOLEAN
      BY <3>1 DEF AwaitAck
    <3> QED BY <2>1, <3>2
  <2>6. /\ PromptHere' /\ Quiet([await_puback EXCEPT ![i].due = FALSE], TheLine')
        /\ \A T \in {AwaitAck, AwaitPubcomp} : \A r, tt :
              Sound(r, T, tt, stage, pid_of) /\ tt # "await_puback" /\ Quiet(r, TheLine)
                 => Quiet(r, TheLine')
    <3>1. "await_puback" \in AwaitStages
      BY DEF AwaitStages
    <3> QED BY <1>0, <1>1, <1>2, <2>1, <2>2, <2>3, <2>4, <2>5, <3>1, PromptWriteAgain, ZenonT(60)
  <2>7. QuietHere'
    BY <1>1, <1>2, <2>1, <2>6 DEF QuietHere
  <2> QED BY <2>1, <2>6, <2>7 DEF Prompt, AllNamed
<1>6. CASE resend_pubrec_entry
  <2>1. /\ i <= Len(await_pubrec) /\ await_pubrec[i].due /\ Republish(await_pubrec[i])
        /\ await_pubrec' = [await_pubrec EXCEPT ![i].due = FALSE]
        /\ UNCHANGED <<panicked, pid_of, stage, await_puback, send_pubrel, await_pubcomp>>
    BY <1>6 DEF resend_pubrec_entry, histVars
  <2>2. i \in 1 .. Len(await_pubrec)
    BY <1>1, <2>1, RepublishEffect
  <2>3. PICK m \in Msgs, x \in Addressed :
           /\ x.type = "publish" /\ x.uid = m /\ x.pid = pid_of[m]
           /\ await_pubrec[i].uid = m /\ Qos[m] = 2
           /\ send_buffer' = Append(send_buffer, x)
    BY <1>1, <2>1, RepublishEffect
  <2>4. Asks(x) /\ "await_pubrec" = AwaitStage(AnswerType(x)) /\ Qos[m] > 0
    BY <2>3 DEF Asks, AnswerType, AwaitStage
  <2>5. await_pubrec[i].due = TRUE
    <3>1. await_pubrec[i] \in AwaitAck
      BY <1>1, <2>2 DEF Sound
    <3>2. await_pubrec[i].due \in BOOLEAN
      BY <3>1 DEF AwaitAck
    <3> QED BY <2>1, <3>2
  <2>6. /\ PromptHere' /\ Quiet([await_pubrec EXCEPT ![i].due = FALSE], TheLine')
        /\ \A T \in {AwaitAck, AwaitPubcomp} : \A r, tt :
              Sound(r, T, tt, stage, pid_of) /\ tt # "await_pubrec" /\ Quiet(r, TheLine)
                 => Quiet(r, TheLine')
    <3>1. "await_pubrec" \in AwaitStages
      BY DEF AwaitStages
    <3> QED BY <1>0, <1>1, <1>2, <2>1, <2>2, <2>3, <2>4, <2>5, <3>1, PromptWriteAgain, ZenonT(60)
  <2>7. QuietHere'
    BY <1>1, <1>2, <2>1, <2>6 DEF QuietHere
  <2> QED BY <2>1, <2>6, <2>7 DEF Prompt, AllNamed
<1>7. CASE resend_pubrel_entry
  <2>1. /\ i \in 1 .. Len(await_pubcomp) /\ await_pubcomp[i].due = TRUE
        /\ await_pubcomp' = [await_pubcomp EXCEPT ![i].due = FALSE]
        /\ UNCHANGED <<panicked, pid_of, stage>>
    BY <1>7, ResendPubrelEffect
  <2>2. UNCHANGED <<await_puback, await_pubrec, send_pubrel>>
    BY <1>7 DEF resend_pubrel_entry
  <2>3. PICK m \in Msgs :
           /\ await_pubcomp[i].uid = m /\ pid_of[m] \in Pids /\ Qos[m] = 2
           /\ send_buffer' = Append(send_buffer, [type |-> "pubrel", pid |-> pid_of[m]])
    BY <1>7, ResendPubrelEffect
  <2> DEFINE x == [type |-> "pubrel", pid |-> pid_of[m]]
  <2>4. x \in Addressed /\ x.pid = pid_of[m] /\ x.type = "pubrel"
    BY <2>3, PubrelAddressed
  <2>5. send_buffer' = Append(send_buffer, x)
    BY <2>3
  <2> HIDE DEF x
  <2>6. /\ Asks(x) /\ "await_pubcomp" = AwaitStage(AnswerType(x)) /\ Qos[m] > 0
        /\ "await_pubcomp" \in AwaitStages /\ x.type # "publish"
    BY <2>3, <2>4 DEF Asks, AnswerType, AwaitStage, AwaitStages
  <2>7. /\ PromptHere' /\ Quiet([await_pubcomp EXCEPT ![i].due = FALSE], TheLine')
        /\ Quiet(await_puback, TheLine') /\ Quiet(await_pubrec, TheLine')
    <3>1. UNCHANGED <<netVars, brokerVars, panicked, pid_of, stage>>
      BY <2>1
    <3>2. /\ Sound(await_pubcomp, AwaitPubcomp, "await_pubcomp", stage, pid_of)
          /\ Quiet(await_pubcomp, TheLine) /\ await_pubcomp[i].uid = m
          /\ i \in 1 .. Len(await_pubcomp) /\ await_pubcomp[i].due = TRUE
          /\ x \in Addressed /\ x.pid = pid_of[m] /\ (x.type = "publish" => x.uid = m)
      BY <1>1, <1>2, <2>1, <2>3, <2>4, <2>6
    <3>3. AwaitPubcomp \in {AwaitAck, AwaitPubcomp} /\ AwaitAck \in {AwaitAck, AwaitPubcomp}
      OBVIOUS
    <3>4. /\ PromptHere'
          /\ Quiet([await_pubcomp EXCEPT ![i].due = FALSE], TheLine')
      BY <1>0, <2>5, <2>6, <3>1, <3>2, <3>3, PromptWriteAgain
    <3>7. stage[m] = "await_pubcomp" /\ pid_of[m] # NoPid
      BY <1>1, <2>1, <2>3, EntryOf DEF NoPid, Pids
    <3>8. "await_puback" # stage[m] /\ "await_pubrec" # stage[m]
      BY <3>7
    <3>5. Quiet(await_puback, TheLine')
      BY <1>0, <1>1, <1>2, <2>5, <3>1, <3>2, <3>3, <3>7, <3>8, WriteOthers
    <3>6. Quiet(await_pubrec, TheLine')
      BY <1>0, <1>1, <1>2, <2>5, <3>1, <3>2, <3>3, <3>7, <3>8, WriteOthers
    <3> QED BY <1>1, <1>2, <3>4, <3>5, <3>6
  <2>8. QuietHere'
    BY <2>1, <2>2, <2>7 DEF QuietHere
  <2> QED BY <2>1, <2>2, <2>7, <2>8 DEF Prompt, AllNamed
<1>8. CASE UNCHANGED <<queueVars, connVars, panicked, pid_of, stage>>
  <2>1. TheLine' = TheLine /\ Len(to_client') = Len(to_client)
    BY <1>8, LineStays DEF connVars
  <2> QED BY <1>8, <2>1 DEF Prompt, PromptHere, QuietHere, AllNamed, queueVars, brokerVars
<1> QED BY <1>3, <1>4, <1>5, <1>6, <1>7, <1>8, SendingCases

\* An acknowledgement is processed: somebody waits for it.  The connection is
\* closed over it only if send_pubrel is full.
LEMMA PromptPacket ==
    ASSUME FlowBase, Prompt, process_packet
    PROVE  /\ Prompt' /\ UNCHANGED panicked
           /\ \/ UNCHANGED connected
              \/ /\ IsFull(send_pubrel)
                 /\ \E m \in Msgs : /\ stage[m] = "await_pubrec" /\ stage'[m] = "dropped"
                                    /\ Brings(TheLine[1], "pubrec", pid_of[m]) /\ TheLine # <<>>
<1> USE DEF FlowBase
<1> DEFINE ack == Head(to_client)
           p == ack.pid
           l == TheLine
           n == Len(to_client)
           l2 == TheLine'
           n2 == Len(to_client')
<1>1. /\ to_client # <<>> /\ to_client' = Tail(to_client) /\ to_broker' = to_broker
      /\ delivered' = delivered /\ received' = received
      /\ \/ ack.type = "puback" /\ process_puback(p)
         \/ ack.type = "pubrec" /\ process_pubrec(p)
         \/ ack.type = "pubcomp" /\ process_pubcomp(p)
  BY DEF process_packet, brokerVars
<1>2. ack \in Ack
  BY <1>1 DEF FlowTyped
<1>3. p \in Pids
  BY <1>2 DEF Ack
<1> HIDE DEF p
<1>4. ~panicked /\ UNCHANGED <<panicked, send_buffer>>
  BY <1>1, <1>3, PubackEffect, PubrecEffect, PubcompEffect
<1>5. /\ l2 = Tail(l) /\ l # <<>> /\ l[1] = ack /\ n \in Nat \ {0}
      /\ Thins(l2, n2, l, n)
  BY <1>1, <1>4, LineTaken
<1>6. l \in Seq(Item) /\ UidsKnown(l, n) /\ PromptInv(l, n, stage, pid_of, delivered, received)
  BY TheLineTyped DEF Prompt, PromptHere
<1>7. AnswerType(l[1]) = ack.type /\ Asks(l[1]) /\ l[1].pid = p /\ 1 \in 1 .. Len(l) /\ ~(1 > n)
  <2>1. ack.type \in {"puback", "pubrec", "pubcomp"}
    BY <1>2 DEF Ack
  <2>2. AnswerType(ack) = ack.type
    BY <2>1 DEF AnswerType
  <2>3. 1 \in 1 .. Len(l)
    BY <1>5, <1>6, TailFacts
  <2> QED BY <1>5, <2>1, <2>2, <2>3 DEF Asks, p
<1>8. /\ PromptInv(l2, n2, stage, pid_of, delivered, received) /\ UidsKnown(l2, n2)
      /\ \A q : Quiet(q, l) => Quiet(q, l2)
  BY <1>5, <1>6, ThinPrompt, ThinUids, ThinClear
<1>9. Clear(l2, p)
  BY <1>5, <1>6, <1>7, TailClear DEF PromptInv
<1>10. PICK o \in Msgs : Qos[o] > 0 /\ pid_of[o] = p /\ stage[o] = AwaitStage(ack.type)
  BY <1>6, <1>7 DEF PromptInv, Awaited
<1>11. ack.type # "pubcomp" => delivered[o] > 0
  BY <1>6, <1>7, <1>10 DEF PromptInv, Truthful
<1>12. Unique(pid_of) /\ p # NoPid
  BY <1>3, PidsUnique DEF NoPid, Pids
<1>13. \A m \in Msgs : pid_of[m] = p => m = o
  BY <1>10, <1>12 DEF Unique
<1>14. Quiet(await_puback, l2) /\ Quiet(await_pubrec, l2) /\ Quiet(await_pubcomp, l2)
  BY <1>8 DEF Prompt, QuietHere
<1>15. /\ await_puback \in Seq(AwaitAck) /\ await_pubrec \in Seq(AwaitAck)
       /\ await_pubcomp \in Seq(AwaitPubcomp) /\ send_pubrel \in Seq(SendPubrel)
  BY InvQueuesTyped DEF QueuesTyped
<1>16. Clear(l2, NoPid)
  BY <1>8, NothingClear DEF PromptInv
<1>17. ASSUME stage' = [stage EXCEPT ![o] = "done"], pid_of' = [pid_of EXCEPT ![o] = NoPid],
              p \notin received, delivered[o] > 0
       PROVE  PromptHere'
  <2>1. SameBut(o, stage, stage') /\ SameBut(o, pid_of, pid_of') /\ pid_of'[o] = NoPid
    BY <1>17, StageMoves, PidReturns
  <2>2. PromptInv(l2, n2, stage', pid_of', delivered, received)
    <3>1. Clear(l2, pid_of[o]) /\ Clear(l2, pid_of'[o]) /\ pid_of[o] \notin received
      BY <1>9, <1>10, <1>16, <1>17, <2>1
    <3> QED BY <1>8, <1>17, <2>1, <3>1, MovePrompt
  <2> QED BY <1>1, <2>2 DEF PromptHere
<1>18. CASE ack.type = "puback" /\ process_puback(p)
  <2>1. stage[o] = "await_puback"
    BY <1>10, <1>18 DEF AwaitStage
  <2>2. PICK k \in 1 .. Len(await_puback) :
           /\ Qos[o] = 1
           /\ stage' = [stage EXCEPT ![o] = "done"] /\ pid_of' = [pid_of EXCEPT ![o] = NoPid]
           /\ await_puback' = Remove(await_puback, k)
           /\ UNCHANGED <<await_pubrec, send_pubrel, await_pubcomp, connected>>
    <3>1. ~(\A m \in Msgs : stage[m] = "await_puback" => pid_of[m] # p)
      BY <1>10, <2>1
    <3>2. PICK m \in Msgs, k \in 1 .. Len(await_puback) :
             /\ await_puback[k].uid = m /\ pid_of[m] = p
             /\ stage[m] = "await_puback" /\ Qos[m] = 1
             /\ stage' = [stage EXCEPT ![m] = "done"]
             /\ pid_of' = [pid_of EXCEPT ![m] = NoPid]
             /\ await_puback' = Remove(await_puback, k)
             /\ UNCHANGED <<send_publish, await_pubrec, send_pubrel, await_pubcomp, connected>>
      BY <1>3, <1>18, <3>1, PubackEffect
    <3>3. m = o
      BY <1>13, <3>2
    <3> QED BY <3>2, <3>3
  <2>3. p \notin received
    <3> SUFFICES ASSUME p \in received PROVE FALSE
      OBVIOUS
    <3>1. PICK m \in Msgs : Qos[m] = 2 /\ pid_of[m] = p
      BY <1>6 DEF PromptInv, HeldBy
    <3> QED BY <1>13, <2>2, <3>1
  <2>4. PromptHere'
    BY <1>11, <1>17, <1>18, <2>2, <2>3
  <2>5. Quiet(await_puback', l2)
    BY <1>14, <1>15, <2>2, QuietRemove
  <2> QED BY <1>4, <1>14, <2>2, <2>4, <2>5 DEF Prompt, QuietHere, AllNamed
<1>19. CASE ack.type = "pubcomp" /\ process_pubcomp(p)
  <2>1. stage[o] = "await_pubcomp"
    BY <1>10, <1>19 DEF AwaitStage
  <2>2. PICK k \in 1 .. Len(await_pubcomp) :
           /\ stage' = [stage EXCEPT ![o] = "done"] /\ pid_of' = [pid_of EXCEPT ![o] = NoPid]
           /\ await_pubcomp' = Remove(await_pubcomp, k)
           /\ UNCHANGED <<await_puback, await_pubrec, send_pubrel, connected>>
    <3>1. ~(\A m \in Msgs : stage[m] = "await_pubcomp" => pid_of[m] # p)
      BY <1>10, <2>1
    <3>2. PICK m \in Msgs, k \in 1 .. Len(await_pubcomp) :
             /\ await_pubcomp[k].uid = m /\ pid_of[m] = p
             /\ stage[m] = "await_pubcomp" /\ Qos[m] = 2
             /\ stage' = [stage EXCEPT ![m] = "done"]
             /\ pid_of' = [pid_of EXCEPT ![m] = NoPid]
             /\ await_pubcomp' = Remove(await_pubcomp, k)
             /\ UNCHANGED <<send_publish, await_puback, await_pubrec, send_pubrel, connected>>
      BY <1>3, <1>19, <3>1, PubcompEffect
    <3>3. m = o
      BY <1>13, <3>2
    <3> QED BY <3>2, <3>3
  <2>3. p \notin received
    BY <1>6, <1>7, <1>19 DEF PromptInv, Truthful
  <2>4. delivered[o] > 0
    BY <1>6, <1>10, <2>1 DEF PromptInv, Got, Past
  <2>5. PromptHere'
    BY <1>17, <2>2, <2>3, <2>4
  <2>6. Quiet(await_pubcomp', l2)
    BY <1>14, <1>15, <2>2, QuietRemove
  <2> QED BY <1>4, <1>14, <2>2, <2>5, <2>6 DEF Prompt, QuietHere, AllNamed
<1>20. CASE ack.type = "pubrec" /\ process_pubrec(p)
  <2>1. stage[o] = "await_pubrec"
    BY <1>10, <1>20 DEF AwaitStage
  <2>0. UNCHANGED <<pid_of, await_puback, await_pubcomp>>
    BY <1>3, <1>20, PubrecEffect
  <2>2. PICK k \in 1 .. Len(await_pubrec) :
           /\ await_pubrec' = Remove(await_pubrec, k)
           /\ \/ /\ IsFull(send_pubrel)
                 /\ stage' = [stage EXCEPT ![o] = "dropped"]
                 /\ UNCHANGED send_pubrel
              \/ /\ stage' = [stage EXCEPT ![o] = "send_pubrel"]
                 /\ send_pubrel' = Append(send_pubrel, [uid |-> o, pid |-> p])
                 /\ UNCHANGED connected
    <3>1. ~(\A m \in Msgs : stage[m] = "await_pubrec" => pid_of[m] # p)
      BY <1>10, <2>1
    <3>2. PICK m \in Msgs, k \in 1 .. Len(await_pubrec) :
             /\ await_pubrec[k].uid = m /\ pid_of[m] = p /\ await_pubrec[k].pid = p
             /\ stage[m] = "await_pubrec" /\ Qos[m] = 2
             /\ await_pubrec' = Remove(await_pubrec, k)
             /\ \/ /\ IsFull(send_pubrel)
                   /\ stage' = [stage EXCEPT ![m] = "dropped"]
                   /\ connected' = FALSE /\ UNCHANGED send_pubrel
                \/ /\ ~IsFull(send_pubrel)
                   /\ stage' = [stage EXCEPT ![m] = "send_pubrel"]
                   /\ send_pubrel' = Append(send_pubrel, [uid |-> m, pid |-> p])
                   /\ UNCHANGED connected
      BY <1>3, <1>20, <3>1, PubrecEffect
    <3>3. m = o
      BY <1>13, <3>2
    <3> QED BY <3>2, <3>3
  <2>3. SameBut(o, stage, stage')
    BY <2>2, StageMoves
  <2>4. PromptHere'
    <3>1. PromptInv(l2, n2, stage', pid_of, delivered, received)
      <4>1. Clear(l2, pid_of[o]) /\ delivered[o] > 0 /\ SameBut(o, pid_of, pid_of)
        BY <1>9, <1>10, <1>11, <1>20 DEF SameBut
      <4> QED BY <1>8, <2>3, <4>1, MovePrompt
    <3> QED BY <1>1, <2>0, <3>1 DEF PromptHere
  <2>5. Quiet(await_pubrec', l2)
    BY <1>14, <1>15, <2>2, QuietRemove
  <2>6. QuietHere'
    BY <1>14, <2>0, <2>5 DEF QuietHere
  <2>7. CASE IsFull(send_pubrel) /\ stage' = [stage EXCEPT ![o] = "dropped"] /\ UNCHANGED send_pubrel
    <3>1. AllNamed'
      BY <2>7 DEF Prompt, AllNamed
    <3>2. stage'[o] = "dropped"
      BY <2>7, StageMoves
    <3>3. Brings(l[1], "pubrec", pid_of[o])
      BY <1>7, <1>10, <1>20 DEF Brings
    <3> QED BY <1>4, <1>5, <2>1, <2>4, <2>6, <2>7, <3>1, <3>2, <3>3 DEF Prompt
  <2>8. CASE /\ send_pubrel' = Append(send_pubrel, [uid |-> o, pid |-> p])
             /\ UNCHANGED connected
    <3> DEFINE e == [uid |-> o, pid |-> p]
    <3>1. e \in SendPubrel /\ e.uid = o /\ o # NoMsg
      BY <1>3, PublishesAssumption DEF SendPubrel
    <3>2. send_pubrel' = Append(send_pubrel, e)
      BY <2>8
    <3> HIDE DEF e
    <3>3. /\ Len(send_pubrel) \in Nat /\ Len(send_pubrel') = Len(send_pubrel) + 1
          /\ \A j \in 1 .. Len(send_pubrel) : send_pubrel'[j] = send_pubrel[j]
          /\ send_pubrel'[Len(send_pubrel) + 1] = e
      BY <1>15, <3>1, <3>2, PushFacts
    <3>4. \A j \in 1 .. Len(send_pubrel') :
             (j \in 1 .. Len(send_pubrel) /\ send_pubrel'[j] = send_pubrel[j]) \/ send_pubrel'[j] = e
      BY <3>3
    <3>5. AllNamed'
      BY <3>1, <3>4 DEF Prompt, AllNamed
    <3> QED BY <1>4, <2>4, <2>6, <2>8, <3>5 DEF Prompt
  <2> QED BY <2>2, <2>7, <2>8
<1> QED BY <1>1, <1>18, <1>19, <1>20

\* The broker takes a packet: its answer is true.
LEMMA PromptBroker ==
    ASSUME FlowBase, Prompt, Broker
    PROVE  Prompt'
<1> USE DEF FlowBase
<1> DEFINE x == Head(to_broker)
           l == TheLine
           n == Len(to_client)
           l2 == TheLine'
           n2 == Len(to_client')
<1>0. UNCHANGED <<stage, pid_of, await_puback, await_pubrec, send_pubrel, await_pubcomp>>
  BY DEF Broker, vars
<1>1. /\ x \in Addressed
      /\ BrokerPublish(x) \/ BrokerPubrel(x)
      /\ n + 1 \in 1 .. Len(l)
      /\ l[n + 1] = x
      /\ AnswerType(x) = "none" => Thins(l2, n2, l, n)
      /\ AnswerType(x) # "none" => Answered(l2, n2, l, n)
  BY LineAnswered
<1>2. l \in Seq(Item) /\ n \in Nat
  BY TheLineTyped
<1>3. x \in Packets
  BY <1>1 DEF Addressed
<1>4. PromptInv(l, n, stage, pid_of, delivered, received) /\ delivered \in [Msgs -> Nat]
  BY DEF Prompt, PromptHere, FlowTyped
<1>5. Unique(pid_of)
  BY PidsUnique
<1>6. AllNamed'
  BY <1>0 DEF Prompt, AllNamed
<1>7. Quiet(await_puback, l) /\ Quiet(await_pubrec, l) /\ Quiet(await_pubcomp, l)
  BY DEF Prompt, QuietHere
<1> HIDE DEF x, n, n2, l, l2
<1>8. Answered(l2, n2, l, n) => l[n2] = x
  BY <1>1 DEF Answered
<1>9. \A q : Quiet(q, l) => Quiet(q, l2)
  <2>1. CASE AnswerType(x) = "none"
    BY <1>1, <2>1, ThinClear
  <2>2. CASE AnswerType(x) # "none"
    BY <1>1, <1>2, <1>8, <2>2, AnswerQuiet DEF Asks
  <2> QED BY <2>1, <2>2
<1>10. QuietHere'
  BY <1>0, <1>7, <1>9 DEF QuietHere, l2
<1> SUFFICES PromptInv(l2, n2, stage, pid_of, delivered', received')
  BY <1>0, <1>6, <1>10 DEF Prompt, PromptHere, l2, n2
<1>11. CASE BrokerPubrel(x)
  <2>1. x.type = "pubrel" /\ received' = received \ {x.pid} /\ UNCHANGED delivered
    BY <1>11 DEF BrokerPubrel
  <2>2. AnswerType(x) = "pubcomp" /\ Asks(x)
    BY <2>1 DEF AnswerType, Asks
  <2>3. Answered(l2, n2, l, n) /\ l[n2] = x
    BY <1>1, <1>8, <2>2
  <2>4. HeldBy(pid_of, delivered, received')
    BY <1>4, <2>1 DEF PromptInv, HeldBy
  <2>5. x.pid \notin received' /\ \A p \in received' : p \in received
    BY <2>1
  <2>6. PromptInv(l2, n2, stage, pid_of, delivered, received')
    BY <1>1, <1>2, <1>4, <2>2, <2>3, <2>4, <2>5, AnswerPrompt
  <2> QED BY <2>1, <2>6
<1>12. CASE BrokerPublish(x)
  <2>1. x.type = "publish" /\ x.uid \in Msgs
    BY <1>3, <1>12, PacketFields DEF BrokerPublish
  <2>2. Qos[x.uid] \in {0, 1, 2}
    BY <2>1, PublishesAssumption
  <2>3. CASE Qos[x.uid] = 0
    <3>1. delivered' = [delivered EXCEPT ![x.uid] = @ + 1] /\ UNCHANGED received
      BY <1>12, <2>3 DEF BrokerPublish
    <3>2. AnswerType(x) = "none"
      BY <2>1, <2>3 DEF AnswerType
    <3>3. \A m \in Msgs : delivered[m] > 0 => delivered'[m] > 0
      BY <1>4, <2>1, <3>1
    <3>4. PromptInv(l2, n2, stage, pid_of, delivered, received)
      BY <1>1, <1>4, <3>2, ThinPrompt
    <3>5. PromptInv(l2, n2, stage, pid_of, delivered', received)
      BY <3>3, <3>4, MoreDelivered
    <3> QED BY <3>1, <3>5
  <2>4. CASE Qos[x.uid] # 0
    <3>1. Asks(x) /\ AnswerType(x) # "pubcomp" /\ AnswerType(x) # "none"
      BY <2>1, <2>2, <2>4 DEF AnswerType, Asks
    <3>2. Answered(l2, n2, l, n) /\ l[n2] = x
      BY <1>1, <1>8, <3>1
    <3>3. x.pid # NoPid
      BY <1>1, <2>1, <2>4 DEF Addressed
    <3>4. pid_of[x.uid] = x.pid
      <4>1. n + 1 > n
        BY <1>2
      <4> QED BY <1>1, <1>4, <2>1, <3>1, <4>1 DEF PromptInv, UidPid
    <3>5. \A m \in Msgs : pid_of[m] = x.pid => m = x.uid
      BY <1>5, <2>1, <3>3, <3>4 DEF Unique
    <3>6. /\ \A m \in Msgs : delivered[m] > 0 => delivered'[m] > 0
          /\ delivered'[x.uid] > 0
          /\ received' = received \/ (received' = received \cup {x.pid} /\ Qos[x.uid] = 2)
      <4>1. CASE Qos[x.uid] = 2 /\ x.pid \in received
        <5>1. delivered' = delivered /\ received' = received \cup {x.pid}
          BY <1>12, <4>1 DEF BrokerPublish
        <5>2. PICK o \in Msgs : pid_of[o] = x.pid /\ delivered[o] > 0
          BY <1>4, <4>1 DEF PromptInv, HeldBy
        <5> QED BY <3>5, <4>1, <5>1, <5>2
      <4>2. CASE Qos[x.uid] = 2 /\ x.pid \notin received
        <5>1. /\ delivered' = [delivered EXCEPT ![x.uid] = @ + 1]
              /\ received' = received \cup {x.pid}
          BY <1>12, <4>2 DEF BrokerPublish
        <5>2. delivered'[x.uid] = delivered[x.uid] + 1 /\ delivered[x.uid] \in Nat
          BY <1>4, <2>1, <5>1
        <5>3. \A m \in Msgs : m # x.uid => delivered'[m] = delivered[m]
          BY <1>4, <2>1, <5>1
        <5> QED BY <4>2, <5>1, <5>2, <5>3
      <4>3. CASE Qos[x.uid] = 1
        <5>1. delivered' = [delivered EXCEPT ![x.uid] = @ + 1] /\ received' = received
          BY <1>12, <4>3 DEF BrokerPublish
        <5>2. delivered'[x.uid] = delivered[x.uid] + 1 /\ delivered[x.uid] \in Nat
          BY <1>4, <2>1, <5>1
        <5>3. \A m \in Msgs : m # x.uid => delivered'[m] = delivered[m]
          BY <1>4, <2>1, <5>1
        <5> QED BY <4>3, <5>1, <5>2, <5>3
      <4> QED BY <2>2, <2>4, <4>1, <4>2, <4>3
    <3>7. HeldBy(pid_of, delivered', received')
      <4> SUFFICES ASSUME NEW p \in received'
                   PROVE  \E m \in Msgs : Qos[m] = 2 /\ pid_of[m] = p /\ delivered'[m] > 0
        BY DEF HeldBy
      <4>1. CASE p \in received
        BY <1>4, <3>6, <4>1 DEF PromptInv, HeldBy
      <4>2. CASE p \notin received
        BY <2>1, <3>4, <3>6, <4>2
      <4> QED BY <4>1, <4>2
    <3>8. /\ \A m \in Msgs : pid_of[m] = x.pid => delivered'[m] > 0
          /\ \A p \in received' : p = x.pid \/ p \in received
      BY <3>5, <3>6
    <3> QED BY <1>1, <1>2, <1>4, <3>1, <3>2, <3>6, <3>7, <3>8, AnswerPrompt
  <2> QED BY <2>3, <2>4
<1> QED BY <1>1, <1>11, <1>12

\* A timer of a silent connection expires: nothing is on the way.
LEMMA PromptTimeout ==
    ASSUME FlowBase, Prompt, Timeout, ~crossed'
    PROVE  Prompt'
<1>1. /\ UNCHANGED <<netVars, send_buffer, panicked, stage, pid_of, brokerVars, send_pubrel>>
      /\ Silent
  BY DEF Timeout, resend_due, connVars, histVars
<1>2. TheLine' = TheLine /\ Len(to_client') = Len(to_client)
  BY <1>1, LineStays
<1>3. TheLine = <<>>
  BY <1>1, EmptyLine DEF TheLine, Out, Silent
<1>4. \A p : Clear(TheLine', p)
  <2>1. 1 .. Len(<<>>) = {}
    OBVIOUS
  <2> QED BY <1>2, <1>3, <2>1 DEF Clear
<1>5. QuietHere'
  BY <1>4 DEF QuietHere, Quiet
<1> QED BY <1>1, <1>2, <1>5 DEF Prompt, PromptHere, AllNamed, brokerVars

\* Every step keeps it as long as no timer has crossed an answer.
LEMMA NextPrompt ==
    ASSUME FlowBase, FlowBase', Prompt, [FlowNext]_flowVars, ~crossed'
    PROVE  Prompt'
<1>1. CASE LocalStep
  BY <1>1, PromptClient, PromptSending DEF LocalStep, FlowBase
<1>2. CASE Send
  <2>1. /\ TheLine' = TheLine /\ Len(to_client') = Len(to_client)
        /\ UNCHANGED <<stage, pid_of, brokerVars, queueVars>>
    BY <1>2, LineSent DEF FlowBase
  <2> QED BY <2>1 DEF Prompt, PromptHere, QuietHere, AllNamed, brokerVars, queueVars
<1>3. CASE process_packet
  BY <1>3, PromptPacket
<1>4. CASE Lose
  <2>1. UNCHANGED <<netVars, send_buffer, panicked, stage, pid_of, brokerVars, queueVars>>
    BY <1>4 DEF Lose, connection_error, set_error, histVars
  <2>2. TheLine' = TheLine /\ Len(to_client') = Len(to_client)
    BY <2>1, LineStays
  <2> QED BY <2>1, <2>2 DEF Prompt, PromptHere, QuietHere, AllNamed, brokerVars, queueVars
<1>5. CASE Connect
  <2>1. /\ TheLine' = <<>> /\ Len(to_client') = 0
        /\ UNCHANGED <<pid_of, stage, brokerVars, queueVars>>
    BY <1>5, ConnectLine
  <2>2. Thins(<<>>, 0, TheLine, Len(to_client))
    BY EmptyLine
  <2>3. PromptInv(<<>>, 0, stage, pid_of, delivered, received)
    BY <2>2, ThinPrompt DEF Prompt, PromptHere
  <2>4. /\ Quiet(await_puback, <<>>) /\ Quiet(await_pubrec, <<>>) /\ Quiet(await_pubcomp, <<>>)
    BY <2>2, ThinClear DEF Prompt, QuietHere
  <2> QED BY <2>1, <2>3, <2>4 DEF Prompt, PromptHere, QuietHere, AllNamed, brokerVars, queueVars
<1>6. CASE Timeout
  BY <1>6, PromptTimeout
<1>7. CASE Broker
  BY <1>7, PromptBroker
<1>8. CASE UNCHANGED flowVars
  <2>1. UNCHANGED <<netVars, send_buffer, panicked, stage, pid_of, brokerVars, queueVars>>
    BY <1>8 DEF flowVars, netVars, brokerVars, queueVars
  <2>2. TheLine' = TheLine /\ Len(to_client') = Len(to_client)
    BY <2>1, LineStays
  <2> QED BY <2>1, <2>2 DEF Prompt, PromptHere, QuietHere, AllNamed, brokerVars, queueVars
<1> QED BY <1>1, <1>2, <1>3, <1>4, <1>5, <1>6, <1>7, <1>8 DEF FlowNext

\* A crossed timer is never forgotten.
LEMMA CrossedStays ==
    ASSUME FlowBase, [FlowNext]_flowVars, ~crossed'
    PROVE  ~crossed
<1>1. CASE LocalStep
  BY <1>1 DEF LocalStep
<1>2. CASE Send
  BY <1>2 DEF Send
<1>3. CASE process_packet
  BY <1>3 DEF process_packet
<1>4. CASE Lose
  BY <1>4 DEF Lose
<1>5. CASE Connect
  BY <1>5 DEF Connect
<1>6. CASE Timeout
  BY <1>6 DEF Timeout
<1>7. CASE Broker
  BY <1>7 DEF Broker
<1>8. CASE UNCHANGED flowVars
  BY <1>8 DEF flowVars
<1> QED BY <1>1, <1>2, <1>3, <1>4, <1>5, <1>6, <1>7, <1>8 DEF FlowNext

\* At the beginning nothing is on the way.
LEMMA InitPrompt == FlowInit => Prompt
<1> SUFFICES ASSUME FlowInit PROVE Prompt
  OBVIOUS
<1>1. /\ stage = [m \in Msgs |-> "new"] /\ received = {}
      /\ to_client = <<>> /\ to_broker = <<>> /\ send_buffer = <<>> /\ panicked = FALSE
      /\ await_puback = <<>> /\ await_pubrec = <<>> /\ send_pubrel = <<>> /\ await_pubcomp = <<>>
  BY DEF FlowInit, Init, LinkInit
<1>2. TheLine = <<>> /\ Len(to_client) = 0
  BY <1>1, EmptyLine DEF TheLine, Out
<1>3. 1 .. Len(<<>>) = {}
  OBVIOUS
<1>4. \A m \in Msgs : stage[m] \notin Past
  BY <1>1 DEF Past
<1>5. PromptHere
  <2>1. OneEach(TheLine) /\ Awaited(TheLine, stage, pid_of) /\ UidPid(TheLine, Len(to_client), pid_of)
    BY <1>2, <1>3 DEF OneEach, Awaited, UidPid
  <2>2. Truthful(TheLine, Len(to_client), pid_of, delivered, received)
    BY <1>2, <1>3 DEF Truthful
  <2>3. HeldBy(pid_of, delivered, received) /\ Got(stage, delivered)
    BY <1>1, <1>4 DEF HeldBy, Got
  <2> QED BY <2>1, <2>2, <2>3 DEF PromptHere, PromptInv
<1>6. QuietHere /\ AllNamed
  BY <1>1, <1>3 DEF QuietHere, Quiet, AllNamed
<1> QED BY <1>5, <1>6 DEF Prompt

\* The two together, in a form that is inductive.
LEMMA PromptInvariant == FlowSpec => [](FlowBase /\ (~crossed => Prompt))
<1>1. FlowInit => FlowBase /\ (~crossed => Prompt)
  BY InitFlowBase, InitPrompt
<1>2. FlowBase /\ (~crossed => Prompt) /\ [FlowNext]_flowVars => (FlowBase /\ (~crossed => Prompt))'
  BY NextFlowBase, NextPrompt, CrossedStays
<1> QED BY <1>1, <1>2, PTL DEF FlowSpec

\* PublishDone of QoS 1 and 2 implies that the broker passed the message on,
\* for every pool of packet ids, queue length, number of messages, losses and
\* resends, as long as no resend timer expired while the packet or its answer
\* was on the way.
THEOREM DoneMeansDeliveredHolds == FlowSpec => []DoneMeansDelivered
<1>1. FlowBase /\ (~crossed => Prompt) => DoneMeansDelivered
  <2> SUFFICES ASSUME FlowBase, Prompt, NEW m \in Msgs, Qos[m] > 0, done[m] > 0
               PROVE  delivered[m] > 0
    BY DEF DoneMeansDelivered
  <2>1. stage[m] = "done"
    BY DEF FlowBase, PubInv, Staged
  <2> QED BY <2>1 DEF Prompt, PromptHere, PromptInv, Got, Past
<1> QED BY <1>1, PromptInvariant, PTL

\* The event loop panics over no acknowledgement of a prompt broker, whatever
\* is lost and sent again: in process_pubrec the packet always has an entry.
\* TooLong = {} leaves out the other panic, of a message that does not fit
\* into its buffer, which publish() meets before anything is sent.
THEOREM NoPanicIfPromptHolds ==
    ASSUME TooLong = {}
    PROVE  FlowSpec => []NoPanicIfPrompt
<1> DEFINE J == FlowBase /\ (~crossed => Prompt)
<1>1. FlowInit => NoPanicIfPrompt
  BY DEF FlowInit, Init, NoPanicIfPrompt
<1>2. J /\ J' /\ NoPanicIfPrompt /\ [FlowNext]_flowVars => NoPanicIfPrompt'
  <2> SUFFICES ASSUME FlowBase, Prompt, ~panicked, [FlowNext]_flowVars, ~crossed'
               PROVE  UNCHANGED panicked
    BY CrossedStays DEF NoPanicIfPrompt
  <2>1. CASE LocalStep
    BY <2>1, ClientEffect, PromptSending DEF LocalStep, FlowBase
  <2>2. CASE Send
    BY <2>2, LineSent DEF FlowBase
  <2>3. CASE process_packet
    BY <2>3, PromptPacket
  <2>4. CASE Lose
    BY <2>4 DEF Lose, connection_error, set_error
  <2>5. CASE Connect
    BY <2>5, ConnectLine
  <2>6. CASE Timeout
    BY <2>6 DEF Timeout, resend_due
  <2>7. CASE Broker
    BY <2>7 DEF Broker, vars
  <2>8. CASE UNCHANGED flowVars
    BY <2>8 DEF flowVars
  <2> QED BY <2>1, <2>2, <2>3, <2>4, <2>5, <2>6, <2>7, <2>8 DEF FlowNext
<1> QED BY <1>1, <1>2, PromptInvariant, PTL DEF FlowSpec

-----------------------------------------------------------------------------
(* Without a loss send_pubrel never overflows                                *)

\* The answers come in the order of the queue,
LineOrder(l, q, t) ==
    \A x, y \in 1 .. Len(q) : \A j, k \in 1 .. Len(l) :
        x < y /\ Brings(l[j], t, q[x].pid) /\ Brings(l[k], t, q[y].pid) => j < k

\* and for every entry one is on the way.
OnLine(l, q, t) == \A x \in 1 .. Len(q) : \E k \in 1 .. Len(l) : Brings(l[k], t, q[x].pid)

\* A PUBREC that comes before a PUBCOMP finds room although that PUBCOMP has
\* not yet made any: await_pubcomp, then the entries of await_pubrec up to its own.
Behind(l, ap, ns, ac) ==
    \A x \in 1 .. Len(ap), y \in 1 .. Len(ac) : \A j, k \in 1 .. Len(l) :
        j < k /\ Brings(l[j], "pubrec", ap[x].pid) /\ Brings(l[k], "pubcomp", ac[y].pid)
           => x + ns + Len(ac) - y + 1 <= Queue

\* ap, ac: await_pubrec and await_pubcomp; ns: the length of send_pubrel.
Lossless(l, ap, ns, ac) ==
    /\ LineOrder(l, ap, "pubrec") /\ OnLine(l, ap, "pubrec")
    /\ LineOrder(l, ac, "pubcomp") /\ OnLine(l, ac, "pubcomp")
    /\ Len(ap) > 0 => Len(ap) + ns <= Queue
    /\ ns > 0 => ns + Len(ac) <= Queue
    /\ Behind(l, ap, ns, ac)

\* A line of which only the item at h is gone, and others may be answered.
Drops(l2, l1, h) ==
    \E at \in [1 .. Len(l2) -> 1 .. Len(l1)] :
        /\ \A j, k \in 1 .. Len(l2) : j < k => at[j] < at[k]
        /\ \A k \in 1 .. Len(l2) :
              AnswerType(l2[k]) = AnswerType(l1[at[k]]) /\ l2[k].pid = l1[at[k]].pid
        /\ \A j \in 1 .. Len(l1) : j = h \/ \E k \in 1 .. Len(l2) : at[k] = j

\* Removing one item.
LEMMA RemoveDrops ==
    ASSUME NEW l1 \in Seq(Item), NEW h \in 1 .. Len(l1)
    PROVE  Drops(Remove(l1, h), l1, h)
<1> DEFINE l2 == Remove(l1, h)
           at == [k \in 1 .. Len(l2) |-> IF k < h THEN k ELSE k + 1]
<1>1. /\ Len(l1) \in Nat /\ Len(l2) = Len(l1) - 1
      /\ \A j \in 1 .. Len(l1) - 1 : l2[j] = IF j < h THEN l1[j] ELSE l1[j + 1]
  BY RemoveFacts
<1> HIDE DEF l2
<1>2. /\ at \in [1 .. Len(l2) -> 1 .. Len(l1)]
      /\ \A k \in 1 .. Len(l2) : at[k] = IF k < h THEN k ELSE k + 1
  BY <1>1
<1> HIDE DEF at
<1>3. \A j, k \in 1 .. Len(l2) : j < k => at[j] < at[k]
  BY <1>1, <1>2
<1>4. \A k \in 1 .. Len(l2) : l2[k] = l1[at[k]]
  BY <1>1, <1>2
<1>5. ASSUME NEW j \in 1 .. Len(l1), j # h PROVE \E k \in 1 .. Len(l2) : at[k] = j
  <2>1. CASE j < h
    <3>1. j \in 1 .. Len(l2) /\ at[j] = j
      BY <1>1, <1>2, <2>1
    <3> QED BY <3>1
  <2>2. CASE j > h
    <3>1. j - 1 \in 1 .. Len(l2) /\ at[j - 1] = j
      BY <1>1, <1>2, <2>2
    <3> QED BY <3>1
  <2> QED BY <1>1, <1>5, <2>1, <2>2
<1>6. Drops(l2, l1, h)
  BY <1>2, <1>3, <1>4, <1>5 DEF Drops
<1> QED BY <1>6 DEF l2

\* Taking the head.
LEMMA TailDrops ==
    ASSUME NEW l1 \in Seq(Item), l1 # <<>>
    PROVE  Drops(Tail(l1), l1, 1)
<1> DEFINE l2 == Tail(l1)
           at == [k \in 1 .. Len(l2) |-> k + 1]
<1>1. /\ Len(l1) \in Nat \ {0} /\ Len(l2) = Len(l1) - 1
      /\ \A j \in 1 .. Len(l1) - 1 : l2[j] = l1[j + 1]
  BY TailFacts
<1> HIDE DEF l2
<1>2. /\ at \in [1 .. Len(l2) -> 1 .. Len(l1)]
      /\ \A k \in 1 .. Len(l2) : at[k] = k + 1
  BY <1>1
<1> HIDE DEF at
<1>3. \A j, k \in 1 .. Len(l2) : j < k => at[j] < at[k]
  BY <1>1, <1>2
<1>4. \A k \in 1 .. Len(l2) : l2[k] = l1[at[k]]
  BY <1>1, <1>2
<1>5. ASSUME NEW j \in 1 .. Len(l1), j # 1 PROVE \E k \in 1 .. Len(l2) : at[k] = j
  <2>1. j - 1 \in 1 .. Len(l2) /\ at[j - 1] = j
    BY <1>1, <1>2, <1>5
  <2> QED BY <2>1
<1>6. Drops(l2, l1, 1)
  BY <1>2, <1>3, <1>4, <1>5 DEF Drops
<1> QED BY <1>6 DEF l2

\* An answer takes the place of its packet.
LEMMA AnswerDrops ==
    ASSUME NEW l1 \in Seq(Item), NEW n1 \in Nat, NEW l2, NEW n2, Answered(l2, n2, l1, n1),
           l1[n2] \in Addressed, Asks(l1[n2])
    PROVE  Drops(l2, l1, 0)
<1> DEFINE at == [k \in 1 .. Len(l2) |-> k]
<1>1. /\ Len(l2) = Len(l1)
      /\ \A k \in 1 .. Len(l1) : AnswerType(l2[k]) = AnswerType(l1[k]) /\ l2[k].pid = l1[k].pid
  BY AnswerSame DEF Asks
<1>2. /\ at \in [1 .. Len(l2) -> 1 .. Len(l1)]
      /\ \A k \in 1 .. Len(l2) : at[k] = k
  BY <1>1
<1> HIDE DEF at
<1>3. \A j, k \in 1 .. Len(l2) : j < k => at[j] < at[k]
  BY <1>2
<1>4. \A j \in 1 .. Len(l1) : \E k \in 1 .. Len(l2) : at[k] = j
  BY <1>1, <1>2
<1> QED BY <1>1, <1>2, <1>3, <1>4 DEF Drops

\* What is left of the order when an item is gone.
LEMMA DropOrder ==
    ASSUME NEW l1, NEW l2, NEW h, Drops(l2, l1, h), NEW q, NEW t
    PROVE  /\ LineOrder(l1, q, t) => LineOrder(l2, q, t)
           /\ /\ OnLine(l1, q, t)
              /\ h \in 1 .. Len(l1) => \A x \in 1 .. Len(q) : ~Brings(l1[h], t, q[x].pid)
              => OnLine(l2, q, t)
<1>1. PICK at \in [1 .. Len(l2) -> 1 .. Len(l1)] :
        /\ \A j, k \in 1 .. Len(l2) : j < k => at[j] < at[k]
        /\ \A k \in 1 .. Len(l2) :
              AnswerType(l2[k]) = AnswerType(l1[at[k]]) /\ l2[k].pid = l1[at[k]].pid
        /\ \A j \in 1 .. Len(l1) : j = h \/ \E k \in 1 .. Len(l2) : at[k] = j
  BY DEF Drops
<1>2. \A k \in 1 .. Len(l2) : at[k] \in 1 .. Len(l1)
  OBVIOUS
<1>3. \A k \in 1 .. Len(l2) : \A u, p : Brings(l2[k], u, p) <=> Brings(l1[at[k]], u, p)
  BY <1>1 DEF Brings
<1>4. ASSUME LineOrder(l1, q, t), NEW x \in 1 .. Len(q), NEW y \in 1 .. Len(q),
             NEW j \in 1 .. Len(l2), NEW k \in 1 .. Len(l2), x < y,
             Brings(l2[j], t, q[x].pid), Brings(l2[k], t, q[y].pid)
      PROVE  j < k
  <2>1. at[j] < at[k]
    BY <1>2, <1>3, <1>4 DEF LineOrder
  <2>2. ~(k < j) /\ k # j
    BY <1>1, <1>2, <2>1
  <2> QED BY <2>2
<1>5. ASSUME OnLine(l1, q, t),
             h \in 1 .. Len(l1) => \A x \in 1 .. Len(q) : ~Brings(l1[h], t, q[x].pid),
             NEW x \in 1 .. Len(q)
      PROVE  \E k \in 1 .. Len(l2) : Brings(l2[k], t, q[x].pid)
  <2>1. PICK j \in 1 .. Len(l1) : Brings(l1[j], t, q[x].pid)
    BY <1>5 DEF OnLine
  <2>2. j # h
    BY <1>5, <2>1
  <2>3. PICK k \in 1 .. Len(l2) : at[k] = j
    BY <1>1, <2>2
  <2> QED BY <1>3, <2>1, <2>3
<1> QED BY <1>4, <1>5 DEF LineOrder, OnLine

\* The same for what is behind.
LEMMA DropBehind ==
    ASSUME NEW l1, NEW l2, NEW h, Drops(l2, l1, h), NEW ap, NEW ns, NEW ac,
           Behind(l1, ap, ns, ac)
    PROVE  Behind(l2, ap, ns, ac)
<1>1. PICK at \in [1 .. Len(l2) -> 1 .. Len(l1)] :
        /\ \A j, k \in 1 .. Len(l2) : j < k => at[j] < at[k]
        /\ \A k \in 1 .. Len(l2) :
              AnswerType(l2[k]) = AnswerType(l1[at[k]]) /\ l2[k].pid = l1[at[k]].pid
  BY DEF Drops
<1>2. \A k \in 1 .. Len(l2) : at[k] \in 1 .. Len(l1)
  OBVIOUS
<1>3. \A k \in 1 .. Len(l2) : \A u, p : Brings(l2[k], u, p) <=> Brings(l1[at[k]], u, p)
  BY <1>1 DEF Brings
<1> SUFFICES ASSUME NEW x \in 1 .. Len(ap), NEW y \in 1 .. Len(ac),
                    NEW j \in 1 .. Len(l2), NEW k \in 1 .. Len(l2), j < k,
                    Brings(l2[j], "pubrec", ap[x].pid), Brings(l2[k], "pubcomp", ac[y].pid)
             PROVE  x + ns + Len(ac) - y + 1 <= Queue
  BY DEF Behind
<1>4. at[j] < at[k] /\ at[j] \in 1 .. Len(l1) /\ at[k] \in 1 .. Len(l1)
  BY <1>1, <1>2
<1>5. Brings(l1[at[j]], "pubrec", ap[x].pid) /\ Brings(l1[at[k]], "pubcomp", ac[y].pid)
  BY <1>3
<1> QED BY <1>4, <1>5 DEF Behind

\* A packet is written for a new entry at the end of the queue.
LEMMA PushWrite ==
    ASSUME NEW l \in Seq(Item), NEW n \in Nat, n <= Len(l), NEW x \in Addressed,
           NEW S, NEW q \in Seq(S), NEW e \in S, NEW t, LineOrder(l, q, t), OnLine(l, q, t),
           Brings(x, t, e.pid), NoneOf(l, t, e.pid),
           \A y \in 1 .. Len(q) : q[y].pid # e.pid
    PROVE  LineOrder(Append(l, x), Append(q, e), t) /\ OnLine(Append(l, x), Append(q, e), t)
<1> DEFINE r == Append(l, x)
           s == Append(q, e)
<1>1. /\ Len(r) = Len(l) + 1 /\ Len(l) \in Nat
      /\ \A k \in 1 .. Len(l) : r[k] = l[k]
      /\ r[Len(l) + 1] = x
  BY AppendedLine
<1>2. /\ Len(q) \in Nat /\ Len(s) = Len(q) + 1
      /\ \A j \in 1 .. Len(q) : s[j] = q[j]
      /\ s[Len(q) + 1] = e
  BY PushFacts
<1> HIDE DEF r, s
<1>3. \A k \in 1 .. Len(r) : (k \in 1 .. Len(l) /\ r[k] = l[k]) \/ (k = Len(l) + 1 /\ r[k] = x)
  BY <1>1
<1>4. \A j \in 1 .. Len(s) : (j \in 1 .. Len(q) /\ s[j] = q[j]) \/ (j = Len(q) + 1 /\ s[j] = e)
  BY <1>2
<1>5. \A y \in 1 .. Len(q) : ~Brings(x, t, q[y].pid)
  BY DEF Brings
<1>6. \A k \in 1 .. Len(l) : ~Brings(l[k], t, e.pid)
  BY DEF NoneOf
<1>7. ASSUME NEW u \in 1 .. Len(s), NEW v \in 1 .. Len(s), NEW j \in 1 .. Len(r),
             NEW k \in 1 .. Len(r), u < v, Brings(r[j], t, s[u].pid), Brings(r[k], t, s[v].pid)
      PROVE  j < k
  <2>1. u \in 1 .. Len(q) /\ s[u] = q[u]
    BY <1>2, <1>4, <1>7
  <2>2. j \in 1 .. Len(l) /\ r[j] = l[j]
    BY <1>3, <1>5, <1>7, <2>1
  <2>3. CASE k = Len(l) + 1
    BY <1>1, <2>2, <2>3
  <2>4. CASE k \in 1 .. Len(l) /\ r[k] = l[k]
    <3>1. v \in 1 .. Len(q) /\ s[v] = q[v]
      BY <1>4, <1>6, <1>7, <2>4
    <3> QED BY <1>7, <2>1, <2>2, <2>4, <3>1 DEF LineOrder
  <2> QED BY <1>3, <2>3, <2>4
<1>8. ASSUME NEW u \in 1 .. Len(s) PROVE \E k \in 1 .. Len(r) : Brings(r[k], t, s[u].pid)
  <2>1. CASE u \in 1 .. Len(q) /\ s[u] = q[u]
    <3>1. PICK k \in 1 .. Len(l) : Brings(l[k], t, q[u].pid)
      BY <2>1 DEF OnLine
    <3>2. k \in 1 .. Len(r) /\ r[k] = l[k]
      BY <1>1
    <3> QED BY <2>1, <3>1, <3>2
  <2>2. CASE s[u] = e
    <3>1. Len(l) + 1 \in 1 .. Len(r)
      BY <1>1
    <3> QED BY <1>1, <2>2, <3>1
  <2> QED BY <1>4, <2>1, <2>2
<1>9. LineOrder(r, s, t) /\ OnLine(r, s, t)
  BY <1>7, <1>8 DEF LineOrder, OnLine
<1> QED BY <1>9 DEF r, s

\* A packet is written that the queue does not wait for.
LEMMA WriteBeside ==
    ASSUME NEW l \in Seq(Item), NEW n \in Nat, n <= Len(l), NEW x \in Addressed,
           NEW q, NEW t, LineOrder(l, q, t), OnLine(l, q, t), AnswerType(x) # t
    PROVE  LineOrder(Append(l, x), q, t) /\ OnLine(Append(l, x), q, t)
<1> DEFINE r == Append(l, x)
<1>1. /\ Len(r) = Len(l) + 1 /\ Len(l) \in Nat
      /\ \A k \in 1 .. Len(l) : r[k] = l[k]
      /\ r[Len(l) + 1] = x
  BY AppendedLine
<1> HIDE DEF r
<1>2. \A k \in 1 .. Len(r) : (k \in 1 .. Len(l) /\ r[k] = l[k]) \/ r[k] = x
  BY <1>1
<1>3. \A k \in 1 .. Len(r) : \A p : Brings(r[k], t, p) => k \in 1 .. Len(l) /\ r[k] = l[k]
  BY <1>2 DEF Brings
<1>4. LineOrder(r, q, t)
  BY <1>3 DEF LineOrder
<1>5. ASSUME NEW u \in 1 .. Len(q) PROVE \E k \in 1 .. Len(r) : Brings(r[k], t, q[u].pid)
  <2>1. PICK k \in 1 .. Len(l) : Brings(l[k], t, q[u].pid)
    BY DEF OnLine
  <2>2. k \in 1 .. Len(r) /\ r[k] = l[k]
    BY <1>1
  <2> QED BY <2>1, <2>2
<1>6. OnLine(r, q, t)
  BY <1>5 DEF OnLine
<1> QED BY <1>4, <1>6 DEF r

\* A packet that brings no PUBCOMP is behind nothing.
LEMMA WriteBehind ==
    ASSUME NEW l \in Seq(Item), NEW n \in Nat, n <= Len(l), NEW x \in Addressed,
           NEW ap, NEW ns, NEW ac, Behind(l, ap, ns, ac), AnswerType(x) # "pubcomp"
    PROVE  Behind(Append(l, x), ap, ns, ac)
<1> DEFINE r == Append(l, x)
<1>1. /\ Len(r) = Len(l) + 1 /\ Len(l) \in Nat
      /\ \A k \in 1 .. Len(l) : r[k] = l[k]
      /\ r[Len(l) + 1] = x
  BY AppendedLine
<1> HIDE DEF r
<1>2. \A k \in 1 .. Len(r) : (k \in 1 .. Len(l) /\ r[k] = l[k]) \/ r[k] = x
  BY <1>1
<1>3. \A k \in 1 .. Len(r) : \A p : Brings(r[k], "pubcomp", p) => k \in 1 .. Len(l) /\ r[k] = l[k]
  BY <1>2 DEF Brings
<1>4. \A k \in 1 .. Len(l) : \A j \in 1 .. Len(r) : j < k => j \in 1 .. Len(l) /\ r[j] = l[j]
  BY <1>1
<1>5. Behind(r, ap, ns, ac)
  BY <1>3, <1>4 DEF Behind
<1> QED BY <1>5 DEF r

\* An entry that nothing on the way belongs to.
LEMMA PushBehind ==
    ASSUME NEW l, NEW S, NEW ap \in Seq(S), NEW e \in S, NEW ns, NEW ac, Behind(l, ap, ns, ac),
           NoneOf(l, "pubrec", e.pid)
    PROVE  Behind(l, Append(ap, e), ns, ac)
<1> DEFINE s == Append(ap, e)
<1>1. /\ Len(ap) \in Nat /\ Len(s) = Len(ap) + 1
      /\ \A j \in 1 .. Len(ap) : s[j] = ap[j]
      /\ s[Len(ap) + 1] = e
  BY PushFacts
<1> HIDE DEF s
<1>2. \A j \in 1 .. Len(s) : (j \in 1 .. Len(ap) /\ s[j] = ap[j]) \/ s[j] = e
  BY <1>1
<1>3. \A k \in 1 .. Len(l) : \A j \in 1 .. Len(s) :
         Brings(l[k], "pubrec", s[j].pid) => j \in 1 .. Len(ap) /\ s[j] = ap[j]
  BY <1>2 DEF NoneOf
<1>4. Behind(l, s, ns, ac)
  BY <1>3 DEF Behind
<1> QED BY <1>4 DEF s

\* A PUBREL is written: its entry moves from send_pubrel to await_pubcomp.
LEMMA PubrelBehind ==
    ASSUME NEW l \in Seq(Item), NEW n \in Nat, n <= Len(l), NEW x \in Addressed,
           NEW S, NEW ac \in Seq(S), NEW e \in S, NEW T, NEW ap \in Seq(T), NEW ns \in Nat \ {0},
           Behind(l, ap, ns, ac), Len(ap) > 0 => Len(ap) + ns <= Queue,
           Brings(x, "pubcomp", e.pid), NoneOf(l, "pubcomp", e.pid),
           \A y \in 1 .. Len(ac) : ac[y].pid # e.pid
    PROVE  Behind(Append(l, x), ap, ns - 1, Append(ac, e))
<1> DEFINE r == Append(l, x)
           s == Append(ac, e)
<1>1. /\ Len(r) = Len(l) + 1 /\ Len(l) \in Nat
      /\ \A k \in 1 .. Len(l) : r[k] = l[k]
      /\ r[Len(l) + 1] = x
  BY AppendedLine
<1>2. /\ Len(ac) \in Nat /\ Len(s) = Len(ac) + 1
      /\ \A j \in 1 .. Len(ac) : s[j] = ac[j]
      /\ s[Len(ac) + 1] = e
  BY PushFacts
<1> HIDE DEF r, s
<1>3. \A k \in 1 .. Len(r) : (k \in 1 .. Len(l) /\ r[k] = l[k]) \/ (k = Len(l) + 1 /\ r[k] = x)
  BY <1>1
<1>4. \A j \in 1 .. Len(s) : (j \in 1 .. Len(ac) /\ s[j] = ac[j]) \/ (j = Len(ac) + 1 /\ s[j] = e)
  BY <1>2
<1>5. \A y \in 1 .. Len(ac) : ~Brings(x, "pubcomp", ac[y].pid)
  BY DEF Brings
<1>6. Len(ap) \in Nat /\ Queue \in Nat
  BY PublishesAssumption
<1>7. ASSUME NEW u \in 1 .. Len(ap), NEW y \in 1 .. Len(s), NEW j \in 1 .. Len(r),
             NEW k \in 1 .. Len(r), j < k,
             Brings(r[j], "pubrec", ap[u].pid), Brings(r[k], "pubcomp", s[y].pid)
      PROVE  u + (ns - 1) + Len(s) - y + 1 <= Queue
  <2>1. CASE y = Len(ac) + 1
    BY <1>2, <1>6, <2>1
  <2>2. CASE y \in 1 .. Len(ac) /\ s[y] = ac[y]
    <3>1. k \in 1 .. Len(l) /\ r[k] = l[k]
      BY <1>3, <1>5, <1>7, <2>2
    <3>4. Len(l) \in Nat /\ j \in Nat /\ 1 <= j /\ j < k /\ k <= Len(l)
      BY <1>1, <1>7, <3>1
    <3>5. j \in 1 .. Len(l)
      BY <3>4
    <3>2. j \in 1 .. Len(l) /\ r[j] = l[j]
      BY <1>1, <3>5
    <3>3. u + ns + Len(ac) - y + 1 <= Queue
      BY <1>7, <2>2, <3>1, <3>2 DEF Behind
    <3> QED BY <1>2, <1>6, <3>3
  <2> QED BY <1>4, <2>1, <2>2
<1>8. Behind(r, ap, ns - 1, s)
  BY <1>7 DEF Behind
<1> QED BY <1>8 DEF r, s

\* The first entry of a queue is removed.
LEMMA RemoveFirst ==
    ASSUME NEW l, NEW S, NEW q \in Seq(S), 1 \in 1 .. Len(q), NEW t
    PROVE  /\ LineOrder(l, q, t) => LineOrder(l, Remove(q, 1), t)
           /\ OnLine(l, q, t) => OnLine(l, Remove(q, 1), t)
           /\ Len(Remove(q, 1)) = Len(q) - 1 /\ Len(q) \in Nat
           /\ \A j \in 1 .. Len(Remove(q, 1)) : j + 1 \in 1 .. Len(q) /\ Remove(q, 1)[j] = q[j + 1]
<1> DEFINE r == Remove(q, 1)
<1>1. /\ Len(r) = Len(q) - 1 /\ Len(q) \in Nat
      /\ \A j \in 1 .. Len(q) - 1 : r[j] = IF j < 1 THEN q[j] ELSE q[j + 1]
  BY RemoveFacts
<1> HIDE DEF r
<1>2. \A j \in 1 .. Len(r) : j + 1 \in 1 .. Len(q) /\ r[j] = q[j + 1]
  BY <1>1
<1>3. OnLine(l, q, t) => OnLine(l, r, t)
  BY <1>2 DEF OnLine
<1>4. ASSUME LineOrder(l, q, t), NEW u \in 1 .. Len(r), NEW v \in 1 .. Len(r),
             NEW j \in 1 .. Len(l), NEW k \in 1 .. Len(l), u < v,
             Brings(l[j], t, r[u].pid), Brings(l[k], t, r[v].pid)
      PROVE  j < k
  <2>1. u + 1 < v + 1
    BY <1>1, <1>4
  <2> QED BY <1>2, <1>4, <2>1 DEF LineOrder
<1>5. LineOrder(l, q, t) => LineOrder(l, r, t)
  BY <1>4 DEF LineOrder
<1> QED BY <1>1, <1>2, <1>3, <1>5 DEF r

\* The answer at the head of the line is for the first entry of its queue.
LEMMA HeadIsFirst ==
    ASSUME NEW l, 1 \in 1 .. Len(l), NEW S, NEW q \in Seq(S), NEW t, LineOrder(l, q, t), OnLine(l, q, t),
           NEW k \in 1 .. Len(q), Brings(l[1], t, q[k].pid)
    PROVE  k = 1
<1> SUFFICES ASSUME k # 1 PROVE FALSE
  OBVIOUS
<1>1. 1 \in 1 .. Len(q) /\ 1 < k
  OBVIOUS
<1>2. PICK j \in 1 .. Len(l) : Brings(l[j], t, q[1].pid)
  BY <1>1 DEF OnLine
<1>3. j < 1
  BY <1>1, <1>2 DEF LineOrder
<1> QED BY <1>3

\* An item is gone that no entry waits for, or none.
LEMMA LosslessDrop ==
    ASSUME NEW l, NEW l2, NEW h, Drops(l2, l, h),
           h \in 1 .. Len(l) => AnswerType(l[h]) \notin {"pubrec", "pubcomp"},
           NEW ap, NEW ns, NEW ac, Lossless(l, ap, ns, ac)
    PROVE  Lossless(l2, ap, ns, ac)
<1>1. h \in 1 .. Len(l) => \A p : ~Brings(l[h], "pubrec", p) /\ ~Brings(l[h], "pubcomp", p)
  BY DEF Brings
<1>2. LineOrder(l2, ap, "pubrec") /\ OnLine(l2, ap, "pubrec")
  BY <1>1, DropOrder DEF Lossless
<1>3. LineOrder(l2, ac, "pubcomp") /\ OnLine(l2, ac, "pubcomp")
  BY <1>1, DropOrder DEF Lossless
<1>4. Behind(l2, ap, ns, ac)
  BY DropBehind DEF Lossless
<1> QED BY <1>2, <1>3, <1>4 DEF Lossless

\* A packet is written that no entry of the QoS 2 queues waits for.
LEMMA LosslessBeside ==
    ASSUME NEW l \in Seq(Item), NEW n \in Nat, n <= Len(l), NEW x \in Addressed,
           AnswerType(x) \notin {"pubrec", "pubcomp"},
           NEW ap, NEW ns, NEW ac, Lossless(l, ap, ns, ac)
    PROVE  Lossless(Append(l, x), ap, ns, ac)
<1>1. AnswerType(x) # "pubrec" /\ AnswerType(x) # "pubcomp"
  OBVIOUS
<1>2. LineOrder(Append(l, x), ap, "pubrec") /\ OnLine(Append(l, x), ap, "pubrec")
  BY <1>1, WriteBeside DEF Lossless
<1>3. LineOrder(Append(l, x), ac, "pubcomp") /\ OnLine(Append(l, x), ac, "pubcomp")
  BY <1>1, WriteBeside DEF Lossless
<1>4. Behind(Append(l, x), ap, ns, ac)
  BY <1>1, WriteBehind DEF Lossless
<1> QED BY <1>2, <1>3, <1>4 DEF Lossless

\* A PUBLISH of QoS 2 is written while send_pubrel is empty.
LEMMA LosslessPublish ==
    ASSUME NEW l \in Seq(Item), NEW n \in Nat, n <= Len(l), NEW x \in Addressed,
           NEW S, NEW ap \in Seq(S), NEW e \in S, NEW ac, Lossless(l, ap, 0, ac),
           Brings(x, "pubrec", e.pid), NoneOf(l, "pubrec", e.pid),
           \A y \in 1 .. Len(ap) : ap[y].pid # e.pid, ~IsFull(ap)
    PROVE  Lossless(Append(l, x), Append(ap, e), 0, ac)
<1>1. AnswerType(x) = "pubrec" /\ AnswerType(x) # "pubcomp"
  BY DEF Brings
<1>2. /\ LineOrder(Append(l, x), Append(ap, e), "pubrec")
      /\ OnLine(Append(l, x), Append(ap, e), "pubrec")
  BY PushWrite DEF Lossless
<1>3. LineOrder(Append(l, x), ac, "pubcomp") /\ OnLine(Append(l, x), ac, "pubcomp")
  BY <1>1, WriteBeside DEF Lossless
<1>4. Behind(l, Append(ap, e), 0, ac)
  BY PushBehind DEF Lossless
<1>5. Behind(Append(l, x), Append(ap, e), 0, ac)
  BY <1>1, <1>4, WriteBehind
<1>6. Len(Append(ap, e)) + 0 <= Queue
  <2>1. Len(ap) \in Nat /\ Len(Append(ap, e)) = Len(ap) + 1
    BY PushFacts
  <2> QED BY <2>1, PublishesAssumption DEF IsFull
<1> QED BY <1>2, <1>3, <1>5, <1>6 DEF Lossless

\* A PUBREL is written.
LEMMA LosslessPubrel ==
    ASSUME NEW l \in Seq(Item), NEW n \in Nat, n <= Len(l), NEW x \in Addressed,
           NEW S, NEW ac \in Seq(S), NEW e \in S, NEW T, NEW ap \in Seq(T), NEW ns \in Nat \ {0},
           Lossless(l, ap, ns, ac),
           Brings(x, "pubcomp", e.pid), NoneOf(l, "pubcomp", e.pid),
           \A y \in 1 .. Len(ac) : ac[y].pid # e.pid
    PROVE  Lossless(Append(l, x), ap, ns - 1, Append(ac, e))
<1>1. AnswerType(x) # "pubrec"
  BY DEF Brings
<1>2. LineOrder(Append(l, x), ap, "pubrec") /\ OnLine(Append(l, x), ap, "pubrec")
  BY <1>1, WriteBeside DEF Lossless
<1>3. /\ LineOrder(Append(l, x), Append(ac, e), "pubcomp")
      /\ OnLine(Append(l, x), Append(ac, e), "pubcomp")
  BY PushWrite DEF Lossless
<1>4. Len(ap) > 0 => Len(ap) + ns <= Queue
  BY DEF Lossless
<1>5. Behind(Append(l, x), ap, ns - 1, Append(ac, e))
  <2>1. Behind(l, ap, ns, ac)
    BY DEF Lossless
  <2> QED BY <1>4, <2>1, PubrelBehind
<1>6. Len(ac) \in Nat /\ Len(Append(ac, e)) = Len(ac) + 1
  BY PushFacts
<1>7. ns + Len(ac) <= Queue
  BY DEF Lossless
<1>8. (ns - 1) + Len(Append(ac, e)) <= Queue
  BY <1>6, <1>7, PublishesAssumption
<1>9. Len(ap) > 0 => Len(ap) + (ns - 1) <= Queue
  <2>1. Len(ap) \in Nat
    OBVIOUS
  <2> QED BY <1>4, <2>1, PublishesAssumption
<1> QED BY <1>2, <1>3, <1>5, <1>8, <1>9 DEF Lossless

\* A PUBREC is processed: send_pubrel has room.
LEMMA LosslessPubrec ==
    ASSUME NEW l \in Seq(Item), 1 \in 1 .. Len(l), NEW l2, Drops(l2, l, 1),
           NEW S, NEW ac \in Seq(S), NEW T, NEW ap \in Seq(T), NEW ns \in Nat,
           Lossless(l, ap, ns, ac), NEW k \in 1 .. Len(ap), Brings(l[1], "pubrec", ap[k].pid),
           \A y \in 1 .. Len(ap) : y # k => ap[y].pid # ap[k].pid
    PROVE  ns < Queue /\ Lossless(l2, Remove(ap, k), ns + 1, ac)
<1>1. LineOrder(l, ap, "pubrec") /\ OnLine(l, ap, "pubrec")
  BY DEF Lossless
<1>2. k = 1
  BY <1>1, HeadIsFirst
<1>3. /\ Len(ap) \in Nat /\ Len(Remove(ap, 1)) = Len(ap) - 1
      /\ \A j \in 1 .. Len(Remove(ap, 1)) : j + 1 \in 1 .. Len(ap) /\ Remove(ap, 1)[j] = ap[j + 1]
  BY <1>2, RemoveFirst
<1>4. LineOrder(l, Remove(ap, 1), "pubrec") /\ OnLine(l, Remove(ap, 1), "pubrec")
  BY <1>1, <1>2, RemoveFirst
<1> DEFINE r == Remove(ap, 1)
<1>5. Len(ap) + ns <= Queue /\ Queue \in Nat /\ Len(ac) \in Nat
  BY <1>2, <1>3, PublishesAssumption DEF Lossless
<1>6. ns < Queue /\ Len(r) + (ns + 1) <= Queue
  BY <1>2, <1>3, <1>5
<1> HIDE DEF r
<1>7. (ns + 1) + Len(ac) <= Queue
  <2>1. CASE Len(ac) = 0
    BY <1>5, <1>6, <2>1
  <2>2. CASE Len(ac) # 0
    <3>1. 1 \in 1 .. Len(ac)
      BY <1>5, <2>2
    <3>2. PICK j \in 1 .. Len(l) : Brings(l[j], "pubcomp", ac[1].pid)
      BY <3>1 DEF Lossless, OnLine
    <3>3. j # 1
      BY <3>2 DEF Brings
    <3>4. 1 < j
      BY <3>3
    <3>5. 1 + ns + Len(ac) - 1 + 1 <= Queue
      BY <1>2, <3>1, <3>2, <3>4 DEF Lossless, Behind
    <3> QED BY <1>5, <3>5
  <2> QED BY <2>1, <2>2
<1>8. \A j \in 1 .. Len(r) : ~Brings(l[1], "pubrec", r[j].pid)
  <2> SUFFICES ASSUME NEW j \in 1 .. Len(r), Brings(l[1], "pubrec", r[j].pid) PROVE FALSE
    OBVIOUS
  <2>1. j + 1 \in 1 .. Len(ap) /\ r[j] = ap[j + 1] /\ j + 1 # 1
    BY <1>3 DEF r
  <2> QED BY <1>2, <2>1 DEF Brings
<1>9. LineOrder(l2, r, "pubrec") /\ OnLine(l2, r, "pubrec")
  BY <1>4, <1>8, DropOrder DEF r
<1>10. \A y \in 1 .. Len(ac) : ~Brings(l[1], "pubcomp", ac[y].pid)
  BY DEF Brings
<1>11. LineOrder(l2, ac, "pubcomp") /\ OnLine(l2, ac, "pubcomp")
  BY <1>10, DropOrder DEF Lossless
<1>12. Behind(l, r, ns + 1, ac)
  <2> SUFFICES ASSUME NEW x \in 1 .. Len(r), NEW y \in 1 .. Len(ac), NEW i1 \in 1 .. Len(l),
                      NEW i2 \in 1 .. Len(l), i1 < i2, Brings(l[i1], "pubrec", r[x].pid),
                      Brings(l[i2], "pubcomp", ac[y].pid)
               PROVE  x + (ns + 1) + Len(ac) - y + 1 <= Queue
    BY DEF Behind
  <2>1. x + 1 \in 1 .. Len(ap) /\ r[x] = ap[x + 1]
    BY <1>3 DEF r
  <2>2. (x + 1) + ns + Len(ac) - y + 1 <= Queue
    BY <2>1 DEF Lossless, Behind
  <2> QED BY <1>5, <2>2
<1>13. Behind(l2, r, ns + 1, ac)
  BY <1>12, DropBehind
<1>14. Lossless(l2, r, ns + 1, ac)
  BY <1>6, <1>7, <1>9, <1>11, <1>13 DEF Lossless
<1> QED BY <1>2, <1>6, <1>14 DEF r

\* A PUBCOMP is processed.
LEMMA LosslessPubcomp ==
    ASSUME NEW l \in Seq(Item), 1 \in 1 .. Len(l), NEW l2, Drops(l2, l, 1),
           NEW S, NEW ac \in Seq(S), NEW T, NEW ap \in Seq(T), NEW ns \in Nat,
           Lossless(l, ap, ns, ac), NEW k \in 1 .. Len(ac), Brings(l[1], "pubcomp", ac[k].pid),
           \A y \in 1 .. Len(ac) : y # k => ac[y].pid # ac[k].pid
    PROVE  Lossless(l2, ap, ns, Remove(ac, k))
<1>1. LineOrder(l, ac, "pubcomp") /\ OnLine(l, ac, "pubcomp")
  BY DEF Lossless
<1>2. k = 1
  BY <1>1, HeadIsFirst
<1>3. /\ Len(ac) \in Nat /\ Len(Remove(ac, 1)) = Len(ac) - 1
      /\ \A j \in 1 .. Len(Remove(ac, 1)) : j + 1 \in 1 .. Len(ac) /\ Remove(ac, 1)[j] = ac[j + 1]
  BY <1>2, RemoveFirst
<1>4. LineOrder(l, Remove(ac, 1), "pubcomp") /\ OnLine(l, Remove(ac, 1), "pubcomp")
  BY <1>1, <1>2, RemoveFirst
<1> DEFINE r == Remove(ac, 1)
<1>5. ns > 0 => ns + Len(ac) <= Queue
  BY DEF Lossless
<1>6. ns > 0 => ns + Len(r) <= Queue
  BY <1>3, <1>5, PublishesAssumption
<1> HIDE DEF r
<1>8. \A j \in 1 .. Len(r) : ~Brings(l[1], "pubcomp", r[j].pid)
  <2> SUFFICES ASSUME NEW j \in 1 .. Len(r), Brings(l[1], "pubcomp", r[j].pid) PROVE FALSE
    OBVIOUS
  <2>1. j + 1 \in 1 .. Len(ac) /\ r[j] = ac[j + 1] /\ j + 1 # 1
    BY <1>3 DEF r
  <2> QED BY <1>2, <2>1 DEF Brings
<1>9. LineOrder(l2, r, "pubcomp") /\ OnLine(l2, r, "pubcomp")
  BY <1>4, <1>8, DropOrder DEF r
<1>10. \A y \in 1 .. Len(ap) : ~Brings(l[1], "pubrec", ap[y].pid)
  BY DEF Brings
<1>11. LineOrder(l2, ap, "pubrec") /\ OnLine(l2, ap, "pubrec")
  BY <1>10, DropOrder DEF Lossless
<1>12. Behind(l, ap, ns, r)
  <2> SUFFICES ASSUME NEW x \in 1 .. Len(ap), NEW y \in 1 .. Len(r), NEW i1 \in 1 .. Len(l),
                      NEW i2 \in 1 .. Len(l), i1 < i2, Brings(l[i1], "pubrec", ap[x].pid),
                      Brings(l[i2], "pubcomp", r[y].pid)
               PROVE  x + ns + Len(r) - y + 1 <= Queue
    BY DEF Behind
  <2>1. y + 1 \in 1 .. Len(ac) /\ r[y] = ac[y + 1] /\ Len(r) = Len(ac) - 1
    BY <1>3 DEF r
  <2>2. x + ns + Len(ac) - (y + 1) + 1 <= Queue
    BY <2>1 DEF Lossless, Behind
  <2> QED BY <1>3, <2>1, <2>2, PublishesAssumption
<1>13. Behind(l2, ap, ns, r)
  BY <1>12, DropBehind
<1>14. Lossless(l2, ap, ns, r)
  BY <1>6, <1>9, <1>11, <1>13 DEF Lossless
<1> QED BY <1>2, <1>14 DEF r

-----------------------------------------------------------------------------
(* Without a loss: the steps                                                 *)

\* The publish loop of send_packets starts with an empty send_pubrel, the
\* pubrel loop passes over no entry, and what waits was sent on this connection.
LosslessHere ==
    /\ Lossless(TheLine, await_pubrec, Len(send_pubrel), await_pubcomp)
    /\ pc = "publish" => send_pubrel = <<>>
    /\ pc = "pubrel" => i = 1
    /\ pc # "idle" => connected
    /\ ~connected => await_pubrec = <<>> /\ send_pubrel = <<>> /\ await_pubcomp = <<>>

\* No two entries of a queue have the same packet id.
LEMMA DistinctPids ==
    ASSUME NEW S \in {AwaitAck, AwaitPubcomp}, NEW q, NEW st, NEW stg, NEW pids,
           Sound(q, S, st, stg, pids), Unique(pids), NEW j \in 1 .. Len(q), NEW k \in 1 .. Len(q),
           q[j].pid = q[k].pid
    PROVE  j = k
<1>1. /\ q[j].uid \in Msgs /\ q[j].pid = pids[q[j].uid] /\ q[j].pid \in Pids
      /\ q[k].uid \in Msgs /\ q[k].pid = pids[q[k].uid]
  BY EntryOf
<1>2. q[j].pid # NoPid
  BY <1>1 DEF NoPid, Pids
<1>3. q[j].uid = q[k].uid
  BY <1>1, <1>2 DEF Unique
<1> QED BY <1>3, EntryOf

\* An entry whose answer is on the way is not due.
LEMMA OnLineNotDue ==
    ASSUME NEW l, NEW q, NEW t, t # "none", OnLine(l, q, t), Quiet(q, l), NEW k \in 1 .. Len(q)
    PROVE  q[k].due # TRUE
<1>1. PICK j \in 1 .. Len(l) : Brings(l[j], t, q[k].pid)
  BY DEF OnLine
<1>2. Asks(l[j]) /\ l[j].pid = q[k].pid
  BY <1>1 DEF Brings, Asks
<1> QED BY <1>2 DEF Quiet, Clear

\* Nothing is on the way with a packet id that is clear.
LEMMA ClearIsNone ==
    ASSUME NEW l, NEW p, Clear(l, p), NEW t, t # "none"
    PROVE  NoneOf(l, t, p)
BY DEF Clear, NoneOf, Brings, Asks

\* The queues as the lemmas above want them.
LEMMA LosslessTyped ==
    ASSUME FlowBase
    PROVE  /\ TheLine \in Seq(Item) /\ Len(to_client) \in Nat /\ Len(to_client) <= Len(TheLine)
           /\ await_pubrec \in Seq(AwaitAck) /\ await_pubcomp \in Seq(AwaitPubcomp)
           /\ send_pubrel \in Seq(SendPubrel) /\ Len(send_pubrel) \in Nat
           /\ Sound(await_pubrec, AwaitAck, "await_pubrec", stage, pid_of)
           /\ Sound(await_pubcomp, AwaitPubcomp, "await_pubcomp", stage, pid_of)
           /\ Unique(pid_of)
<1>1. TheLine \in Seq(Item) /\ Len(to_client) \in Nat /\ Len(to_client) <= Len(TheLine)
  BY TheLineTyped DEF FlowBase
<1>2. /\ Sound(await_pubrec, AwaitAck, "await_pubrec", stage, pid_of)
      /\ Sound(await_pubcomp, AwaitPubcomp, "await_pubcomp", stage, pid_of)
  BY DEF FlowBase, PubInv, QueuesSound
<1>3. /\ await_pubrec \in Seq(AwaitAck) /\ await_pubcomp \in Seq(AwaitPubcomp)
      /\ send_pubrel \in Seq(SendPubrel)
  BY InvQueuesTyped DEF QueuesTyped, FlowBase
<1>4. Unique(pid_of)
  BY PidsUnique DEF FlowBase
<1> QED BY <1>1, <1>2, <1>3, <1>4

\* How send_packets goes from loop to loop.
LEMMA PhaseStep ==
    ASSUME Sending
    PROVE  /\ pc' = "pubrel" => \/ i' = 1
                                \/ i' = i /\ pc = "pubrel"
                                \/ pc = "pubrel" /\ i <= Len(send_pubrel) /\ IsFull(await_pubcomp)
           /\ pc' # "idle" => pc # "idle" \/ connected
<1>1. CASE send_packets
  BY <1>1 DEF send_packets
<1>2. CASE send_pending_pubrel
  BY <1>2 DEF send_pending_pubrel, send_pubrel_entry, send_pubrel_skip, PartiallySent, Continue,
              Advance, loopVars
<1>3. CASE send_pending_publishes
  BY <1>3 DEF send_pending_publishes, send_publish_entry, send_publish_skip, PartiallySent,
              Continue, Advance, loopVars
<1>4. CASE resend_publishes
  BY <1>4 DEF resend_publishes, resend_puback_entry, resend_pubrec_entry, ResendSkip,
              ResendRefused, PartiallySent, Continue, Advance
<1>5. CASE resend_pubrel
  BY <1>5 DEF resend_pubrel, resend_pubrel_entry, ResendSkip, ResendRefused, PartiallySent,
              Continue, Advance
<1> QED BY <1>1, <1>2, <1>3, <1>4, <1>5 DEF Sending

\* The steps of send_packets.
LEMMA LosslessSending ==
    ASSUME FlowBase, Prompt, LosslessHere, Sending, UNCHANGED netVars, ~panicked'
    PROVE  LosslessHere'
<1> DEFINE l == TheLine
           n == Len(to_client)
           ns == Len(send_pubrel)
<1>0. ~panicked
  BY SendingCases
<1>1. /\ l \in Seq(Item) /\ n \in Nat /\ n <= Len(l)
      /\ await_pubrec \in Seq(AwaitAck) /\ await_pubcomp \in Seq(AwaitPubcomp)
      /\ send_pubrel \in Seq(SendPubrel) /\ ns \in Nat
      /\ Sound(await_pubrec, AwaitAck, "await_pubrec", stage, pid_of)
      /\ Sound(await_pubcomp, AwaitPubcomp, "await_pubcomp", stage, pid_of)
      /\ Unique(pid_of)
  BY LosslessTyped
<1>2. Lossless(l, await_pubrec, ns, await_pubcomp)
  BY DEF LosslessHere
<1>3. Quiet(await_pubrec, l) /\ Quiet(await_pubcomp, l) /\ Awaited(l, stage, pid_of)
  BY DEF Prompt, QuietHere, PromptHere, PromptInv
<1>4. CASE pc = "pubrel" /\ send_pubrel_entry
  <2> DEFINE m == send_pubrel[i].uid
             p == send_pubrel[i].pid
             x == [type |-> "pubrel", pid |-> p]
             e == [uid |-> m, pid |-> p, due |-> FALSE]
  <2>1. /\ i \in 1 .. Len(send_pubrel) /\ p \in Pids /\ send_pubrel' = Remove(send_pubrel, i)
        /\ send_buffer' = Append(send_buffer, x)
        /\ UNCHANGED <<pid_of, await_pubrec, connected, pc, i>>
    BY <1>4, SendPubrelEffect DEF FlowBase
  <2>2. m # NoMsg
    BY <2>1 DEF Prompt, AllNamed
  <2>3. /\ m \in Msgs /\ stage[m] = "send_pubrel" /\ pid_of[m] = p
        /\ await_pubcomp' = Append(await_pubcomp, e)
        /\ UNCHANGED panicked
    BY <1>4, <2>2, SendPubrelEffect DEF FlowBase
  <2>4. x \in Addressed /\ Brings(x, "pubcomp", p) /\ pid_of[m] # NoPid
    BY <2>1, <2>3, PubrelAddressed DEF Brings, AnswerType, NoPid, Pids
  <2>5. e \in AwaitPubcomp /\ e.pid = p
    BY <2>1, <2>3 DEF AwaitPubcomp
  <2> HIDE DEF m, p, x, e
  <2>6. TheLine' = Append(l, x)
    BY <1>0, <2>1, <2>3, <2>4, LineWritten DEF FlowBase
  <2>7. NoneOf(l, "pubcomp", p)
    <3>1. Clear(l, pid_of[m])
      BY <1>3, <2>3, IdleClear DEF AwaitStages, FlowBase
    <3> QED BY <2>3, <3>1, ClearIsNone
  <2>8. \A y \in 1 .. Len(await_pubcomp) : await_pubcomp[y].pid # p
    <3>1. /\ Sound(await_pubcomp, AwaitPubcomp, "await_pubcomp", stage, pid_of) /\ Unique(pid_of)
          /\ m \in Msgs /\ pid_of[m] # NoPid /\ stage[m] # "await_pubcomp"
          /\ AwaitPubcomp \in {AwaitAck, AwaitPubcomp}
      BY <1>1, <2>3, <2>4
    <3>2. \A y \in 1 .. Len(await_pubcomp) : await_pubcomp[y].pid # pid_of[m]
      BY <3>1, OtherPids
    <3> QED BY <2>3, <3>2
  <2>9. Len(send_pubrel') = ns - 1 /\ ns \in Nat \ {0}
    <3>1. Len(Remove(send_pubrel, i)) = Len(send_pubrel) - 1
      BY <1>1, <2>1, RemoveFacts
    <3> QED BY <1>1, <2>1, <3>1
  <2>10. Lossless(Append(l, x), await_pubrec, ns - 1, Append(await_pubcomp, e))
    BY <1>1, <1>2, <2>4, <2>5, <2>7, <2>8, <2>9, LosslessPubrel
  <2> QED BY <1>4, <2>1, <2>3, <2>6, <2>9, <2>10 DEF LosslessHere
<1>5. CASE pc = "publish" /\ send_publish_entry
  <2>1. PICK m \in Msgs, x \in Addressed :
           /\ x.type = "publish" /\ x.uid = m /\ x.pid = pid_of[m]
           /\ send_publish[i].uid = m /\ stage[m] = "send_publish"
           /\ send_buffer' = Append(send_buffer, x)
           /\ UNCHANGED <<pid_of, panicked, connected, send_pubrel, await_pubcomp, pc>>
    BY <1>5, SendPublishEffect DEF FlowBase
  <2>2. TheLine' = Append(l, x)
    BY <1>0, <2>1, LineWritten DEF FlowBase
  <2>3. send_pubrel = <<>> /\ ns = 0 /\ connected
    BY <1>5 DEF LosslessHere
  <2>4. Lossless(l, await_pubrec, 0, await_pubcomp)
    BY <1>2, <2>3
  <2>5. CASE Qos[m] = 2
    <3>1. PICK e \in AwaitAck : /\ e.uid = m /\ e.pid = pid_of[m]
                                /\ await_pubrec' = Append(await_pubrec, e)
                                /\ ~IsFull(await_pubrec)
      BY <1>5, <2>1, <2>5, SendPublishQueues DEF FlowBase
    <3>2. Brings(x, "pubrec", e.pid)
      BY <2>1, <2>5, <3>1 DEF Brings, AnswerType
    <3>3. NoneOf(l, "pubrec", e.pid)
      <4>1. Clear(l, pid_of[m])
        BY <1>3, <2>1, IdleClear DEF AwaitStages, FlowBase
      <4> QED BY <3>1, <4>1, ClearIsNone
    <3>4. pid_of[m] # NoPid
      BY <2>1, <2>5 DEF FlowBase, PubInv, Staged
    <3>5. \A y \in 1 .. Len(await_pubrec) : await_pubrec[y].pid # e.pid
      <4>1. /\ Sound(await_pubrec, AwaitAck, "await_pubrec", stage, pid_of) /\ Unique(pid_of)
            /\ m \in Msgs /\ pid_of[m] # NoPid /\ stage[m] # "await_pubrec"
            /\ AwaitAck \in {AwaitAck, AwaitPubcomp}
        BY <1>1, <2>1, <3>4
      <4>2. \A y \in 1 .. Len(await_pubrec) : await_pubrec[y].pid # pid_of[m]
        BY <4>1, OtherPids
      <4> QED BY <3>1, <4>2
    <3>6. Lossless(Append(l, x), Append(await_pubrec, e), 0, await_pubcomp)
      BY <1>1, <2>4, <3>1, <3>2, <3>3, <3>5, LosslessPublish
    <3> QED BY <1>5, <2>1, <2>2, <2>3, <3>1, <3>6 DEF LosslessHere
  <2>6. CASE Qos[m] # 2
    <3>1. UNCHANGED await_pubrec
      BY <1>5, <2>1, <2>6, SendPublishQueues DEF FlowBase
    <3>2. AnswerType(x) \notin {"pubrec", "pubcomp"}
      BY <2>1, <2>6 DEF AnswerType
    <3>3. Lossless(Append(l, x), await_pubrec, 0, await_pubcomp)
      BY <1>1, <2>4, <3>2, LosslessBeside
    <3> QED BY <1>5, <2>1, <2>2, <2>3, <3>1, <3>3 DEF LosslessHere
  <2> QED BY <2>5, <2>6
<1>6. CASE pc = "resend_puback" /\ resend_puback_entry
  <2>1. /\ i <= Len(await_puback) /\ Republish(await_puback[i])
        /\ UNCHANGED <<panicked, await_pubrec, send_pubrel, await_pubcomp, pc>>
    BY <1>6 DEF resend_puback_entry, Advance
  <2>2. Sound(await_puback, AwaitAck, "await_puback", stage, pid_of)
    BY DEF FlowBase, PubInv, QueuesSound
  <2>3. PICK m \in Msgs, x \in Addressed :
           /\ x.type = "publish" /\ x.uid = m /\ Qos[m] = 1
           /\ send_buffer' = Append(send_buffer, x)
    BY <2>1, <2>2, RepublishEffect DEF FlowBase
  <2>4. UNCHANGED connected
    BY <2>1, <2>2, RepublishEffect DEF FlowBase
  <2>5. TheLine' = Append(l, x)
    BY <1>0, <2>1, <2>3, LineWritten DEF FlowBase
  <2>6. AnswerType(x) \notin {"pubrec", "pubcomp"}
    BY <2>3 DEF AnswerType
  <2>7. Lossless(Append(l, x), await_pubrec, ns, await_pubcomp)
    BY <1>1, <1>2, <2>3, <2>6, LosslessBeside
  <2> QED BY <1>6, <2>1, <2>4, <2>5, <2>7 DEF LosslessHere
<1>7. CASE resend_pubrec_entry
  <2>1. i \in 1 .. Len(await_pubrec) /\ await_pubrec[i].due
    BY <1>7 DEF resend_pubrec_entry, FlowBase, PubInv, RestTyped
  <2>2. await_pubrec[i].due # TRUE
    BY <1>2, <1>3, <2>1, OnLineNotDue DEF Lossless
  <2>3. await_pubrec[i] \in AwaitAck
    BY <1>1, <2>1
  <2>4. await_pubrec[i].due \in BOOLEAN
    BY <2>3 DEF AwaitAck
  <2> QED BY <2>1, <2>2, <2>4
<1>8. CASE resend_pubrel_entry
  <2>1. i \in 1 .. Len(await_pubcomp) /\ await_pubcomp[i].due = TRUE
    BY <1>8, ResendPubrelEffect DEF FlowBase
  <2>2. await_pubcomp[i].due # TRUE
    BY <1>2, <1>3, <2>1, OnLineNotDue DEF Lossless
  <2> QED BY <2>1, <2>2
<1>9. CASE /\ UNCHANGED <<queueVars, connVars, panicked, pid_of, stage>>
           /\ pc' = "publish" => pc = "publish" \/ (pc = "pubrel" /\ i > Len(send_pubrel))
  <2>1. TheLine' = TheLine
    BY <1>9, LineStays DEF connVars
  <2>2. UNCHANGED <<await_pubrec, send_pubrel, await_pubcomp, connected>>
    BY <1>9 DEF queueVars, connVars
  <2>3. Lossless(TheLine', await_pubrec', Len(send_pubrel'), await_pubcomp')
    BY <1>2, <2>1, <2>2
  <2>4. pc' = "publish" => send_pubrel' = <<>>
    <3>1. CASE pc = "publish"
      BY <2>2, <3>1 DEF LosslessHere
    <3>2. CASE pc = "pubrel" /\ i > Len(send_pubrel)
      <4>1. i = 1
        BY <3>2 DEF LosslessHere
      <4>2. Len(send_pubrel) = 0
        BY <1>1, <3>2, <4>1
      <4> QED BY <1>1, <2>2, <4>2
    <3> QED BY <1>9, <3>1, <3>2
  <2>5. pc' = "pubrel" => i' = 1
    <3>1. CASE pc = "pubrel" /\ i <= Len(send_pubrel) /\ IsFull(await_pubcomp)
      <4>1. ns > 0
        BY <1>1, <3>1 DEF LosslessHere
      <4>2. ns + Len(await_pubcomp) <= Queue
        BY <1>2, <4>1 DEF Lossless
      <4>3. Len(await_pubcomp) >= Queue /\ Len(await_pubcomp) \in Nat
        BY <1>1, <3>1 DEF IsFull
      <4> QED BY <1>1, <4>1, <4>2, <4>3, PublishesAssumption
    <3> QED BY <3>1, PhaseStep DEF LosslessHere
  <2>6. pc' # "idle" => connected'
    BY <2>2, PhaseStep DEF LosslessHere
  <2> QED BY <2>2, <2>3, <2>4, <2>5, <2>6 DEF LosslessHere
<1> QED BY <1>4, <1>5, <1>6, <1>7, <1>8, <1>9, SendingCases

\* The publish() call.
LEMMA LosslessClient ==
    ASSUME FlowBase, LosslessHere, Client, UNCHANGED netVars, ~panicked'
    PROVE  LosslessHere'
<1>1. /\ ~panicked
      /\ UNCHANGED <<await_pubrec, send_pubrel, await_pubcomp, send_buffer, connected, pc>>
  BY ClientEffect DEF FlowBase
<1>2. UNCHANGED i
  BY DEF Client, publish, publish_enqueue, cancel, loopVars
<1>3. panicked' = panicked
  BY <1>1, ClientEffect DEF FlowBase
<1>4. TheLine' = TheLine
  BY <1>1, <1>3, LineStays
<1> QED BY <1>1, <1>2, <1>4 DEF LosslessHere

\* An acknowledgement is processed: the connection stays.
LEMMA LosslessPacket ==
    ASSUME FlowBase, Prompt, LosslessHere, process_packet
    PROVE  LosslessHere' /\ UNCHANGED connected
<1> USE DEF FlowBase
<1> DEFINE ack == Head(to_client)
           p == ack.pid
           l == TheLine
           n == Len(to_client)
           l2 == TheLine'
           ns == Len(send_pubrel)
<1>1. /\ to_client # <<>> /\ to_client' = Tail(to_client) /\ to_broker' = to_broker
      /\ \/ ack.type = "puback" /\ process_puback(p)
         \/ ack.type = "pubrec" /\ process_pubrec(p)
         \/ ack.type = "pubcomp" /\ process_pubcomp(p)
  BY DEF process_packet
<1>2. ack \in Ack
  BY <1>1 DEF FlowTyped
<1>3. p \in Pids
  BY <1>2 DEF Ack
<1> HIDE DEF p
<1>4. /\ ~panicked /\ UNCHANGED <<panicked, send_buffer, pc>>
      /\ connected /\ pc = "idle"
  BY <1>1, <1>3, PubackEffect, PubrecEffect, PubcompEffect
<1>5. l2 = Tail(l) /\ l # <<>> /\ l[1] = ack
  BY <1>1, <1>4, LineTaken
<1>6. /\ l \in Seq(Item)
      /\ await_pubrec \in Seq(AwaitAck) /\ await_pubcomp \in Seq(AwaitPubcomp)
      /\ send_pubrel \in Seq(SendPubrel) /\ ns \in Nat
      /\ Sound(await_pubrec, AwaitAck, "await_pubrec", stage, pid_of)
      /\ Sound(await_pubcomp, AwaitPubcomp, "await_pubcomp", stage, pid_of)
      /\ Unique(pid_of)
  BY LosslessTyped
<1>7. AnswerType(l[1]) = ack.type /\ Asks(l[1]) /\ l[1].pid = p /\ 1 \in 1 .. Len(l)
  <2>1. ack.type \in {"puback", "pubrec", "pubcomp"}
    BY <1>2 DEF Ack
  <2>2. AnswerType(ack) = ack.type
    BY <2>1 DEF AnswerType
  <2>3. 1 \in 1 .. Len(l)
    BY <1>5, <1>6, TailFacts
  <2> QED BY <1>5, <2>1, <2>2, <2>3 DEF Asks, p
<1>8. Drops(l2, l, 1)
  BY <1>5, <1>6, TailDrops
<1>9. Lossless(l, await_pubrec, ns, await_pubcomp)
  BY DEF LosslessHere
<1>10. PICK o \in Msgs : pid_of[o] = p /\ stage[o] = AwaitStage(ack.type)
  BY <1>7 DEF Prompt, PromptHere, PromptInv, Awaited
<1> SUFFICES /\ Lossless(l2, await_pubrec', Len(send_pubrel'), await_pubcomp')
             /\ UNCHANGED connected
  BY <1>4 DEF LosslessHere
<1>11. CASE ack.type = "puback" /\ process_puback(p)
  <2>1. stage[o] = "await_puback"
    BY <1>10, <1>11 DEF AwaitStage
  <2>2. UNCHANGED <<await_pubrec, send_pubrel, await_pubcomp, connected>>
    BY <1>3, <1>10, <1>11, <2>1, PubackEffect
  <2>3. Lossless(l2, await_pubrec, ns, await_pubcomp)
    BY <1>7, <1>8, <1>9, <1>11, LosslessDrop
  <2> QED BY <2>2, <2>3
<1>12. CASE ack.type = "pubrec" /\ process_pubrec(p)
  <2>1. stage[o] = "await_pubrec"
    BY <1>10, <1>12 DEF AwaitStage
  <2>2. ~(\A m \in Msgs : stage[m] = "await_pubrec" => pid_of[m] # p)
    BY <1>10, <2>1
  <2>3. PICK k \in 1 .. Len(await_pubrec) :
           /\ await_pubrec[k].pid = p /\ await_pubrec' = Remove(await_pubrec, k)
           /\ \/ IsFull(send_pubrel)
              \/ \E m \in Msgs : /\ send_pubrel' = Append(send_pubrel, [uid |-> m, pid |-> p])
                                 /\ UNCHANGED connected
    <3>1. PICK m \in Msgs, k \in 1 .. Len(await_pubrec) :
             /\ await_pubrec[k].pid = p
             /\ await_pubrec' = Remove(await_pubrec, k)
             /\ \/ IsFull(send_pubrel)
                \/ /\ send_pubrel' = Append(send_pubrel, [uid |-> m, pid |-> p])
                   /\ UNCHANGED connected
      BY <1>3, <1>12, <2>2, PubrecEffect
    <3> QED BY <3>1
  <2>4. UNCHANGED await_pubcomp
    BY <1>3, <1>12, PubrecEffect
  <2>5. \A y \in 1 .. Len(await_pubrec) : y # k => await_pubrec[y].pid # await_pubrec[k].pid
    <3>1. AwaitAck \in {AwaitAck, AwaitPubcomp}
      OBVIOUS
    <3> QED BY <1>6, <3>1, DistinctPids
  <2>6. Brings(l[1], "pubrec", await_pubrec[k].pid)
    BY <1>7, <1>12, <2>3 DEF Brings
  <2>7. ns < Queue /\ Lossless(l2, Remove(await_pubrec, k), ns + 1, await_pubcomp)
    BY <1>6, <1>7, <1>8, <1>9, <2>5, <2>6, LosslessPubrec
  <2>8. ~IsFull(send_pubrel)
    BY <1>6, <2>7, PublishesAssumption DEF IsFull
  <2>9. PICK m \in Msgs : /\ send_pubrel' = Append(send_pubrel, [uid |-> m, pid |-> p])
                          /\ UNCHANGED connected
    BY <2>3, <2>8
  <2>10. Len(send_pubrel') = ns + 1
    <3> DEFINE e == [uid |-> m, pid |-> p]
    <3>1. e \in SendPubrel
      BY <1>3 DEF SendPubrel
    <3>2. send_pubrel' = Append(send_pubrel, e)
      BY <2>9
    <3> HIDE DEF e
    <3> QED BY <1>6, <3>1, <3>2, PushFacts
  <2> QED BY <2>3, <2>4, <2>7, <2>9, <2>10
<1>13. CASE ack.type = "pubcomp" /\ process_pubcomp(p)
  <2>1. stage[o] = "await_pubcomp"
    BY <1>10, <1>13 DEF AwaitStage
  <2>2. ~(\A m \in Msgs : stage[m] = "await_pubcomp" => pid_of[m] # p)
    BY <1>10, <2>1
  <2>3. PICK m \in Msgs, k \in 1 .. Len(await_pubcomp) :
           /\ await_pubcomp[k].uid = m /\ pid_of[m] = p
           /\ stage[m] = "await_pubcomp" /\ Qos[m] = 2
           /\ stage' = [stage EXCEPT ![m] = "done"]
           /\ pid_of' = [pid_of EXCEPT ![m] = NoPid]
           /\ await_pubcomp' = Remove(await_pubcomp, k)
           /\ UNCHANGED <<send_publish, await_puback, await_pubrec, send_pubrel, connected>>
    BY <1>3, <1>13, <2>2, PubcompEffect
  <2>0. AwaitPubcomp \in {AwaitAck, AwaitPubcomp}
    OBVIOUS
  <2>4. await_pubcomp[k].pid = p
    BY <1>6, <2>0, <2>3, EntryOf
  <2>5. \A y \in 1 .. Len(await_pubcomp) : y # k => await_pubcomp[y].pid # await_pubcomp[k].pid
    <3>1. /\ Sound(await_pubcomp, AwaitPubcomp, "await_pubcomp", stage, pid_of)
          /\ Unique(pid_of)
      BY <1>6
    <3> SUFFICES ASSUME NEW y \in 1 .. Len(await_pubcomp),
                        await_pubcomp[y].pid = await_pubcomp[k].pid
                 PROVE  y = k
      OBVIOUS
    <3> QED BY <2>0, <3>1, DistinctPids
  <2>6. Brings(l[1], "pubcomp", await_pubcomp[k].pid)
    BY <1>7, <1>13, <2>4 DEF Brings
  <2>7. Lossless(l2, await_pubrec, ns, Remove(await_pubcomp, k))
    BY <1>6, <1>7, <1>8, <1>9, <2>5, <2>6, LosslessPubcomp
  <2> QED BY <2>3, <2>7
<1> QED BY <1>1, <1>11, <1>12, <1>13

\* The broker answers.
LEMMA LosslessBroker ==
    ASSUME FlowBase, LosslessHere, Broker
    PROVE  LosslessHere'
<1> DEFINE x == Head(to_broker)
           l == TheLine
           n == Len(to_client)
<1>0. UNCHANGED <<await_pubrec, send_pubrel, await_pubcomp, connected, pc, i>>
  BY DEF Broker, vars
<1>1. /\ x \in Addressed
      /\ n + 1 \in 1 .. Len(l)
      /\ l[n + 1] = x
      /\ AnswerType(x) = "none" => TheLine' = Remove(l, n + 1)
      /\ AnswerType(x) # "none" => Answered(TheLine', Len(to_client'), l, n)
  BY LineAnswered DEF FlowBase
<1>2. l \in Seq(Item) /\ n \in Nat
  BY LosslessTyped
<1>3. Lossless(l, await_pubrec, Len(send_pubrel), await_pubcomp)
  BY DEF LosslessHere
<1> HIDE DEF x, l, n
<1>4. CASE AnswerType(x) = "none"
  <2>1. Drops(TheLine', l, n + 1)
    BY <1>1, <1>2, <1>4, RemoveDrops
  <2>2. AnswerType(l[n + 1]) \notin {"pubrec", "pubcomp"}
    BY <1>1, <1>4
  <2>3. Lossless(TheLine', await_pubrec, Len(send_pubrel), await_pubcomp)
    BY <1>3, <2>1, <2>2, LosslessDrop
  <2> QED BY <1>0, <2>3 DEF LosslessHere
<1>5. CASE AnswerType(x) # "none"
  <2>1. Answered(TheLine', Len(to_client'), l, n)
    BY <1>1, <1>5
  <2>2. l[Len(to_client')] = x
    BY <1>1, <2>1 DEF Answered
  <2>3. Drops(TheLine', l, 0)
    BY <1>1, <1>2, <1>5, <2>1, <2>2, AnswerDrops DEF Asks
  <2>4. 0 \notin 1 .. Len(l)
    OBVIOUS
  <2>5. Lossless(TheLine', await_pubrec, Len(send_pubrel), await_pubcomp)
    BY <1>3, <2>3, <2>4, LosslessDrop
  <2> QED BY <1>0, <2>5 DEF LosslessHere
<1> QED BY <1>4, <1>5

\* A timer of a silent connection expires: no QoS 2 message waits.
LEMMA LosslessTimeout ==
    ASSUME FlowBase, LosslessHere, Timeout, ~crossed'
    PROVE  LosslessHere'
<1>1. /\ UNCHANGED <<netVars, send_buffer, panicked, send_pubrel, connected, pc, i>>
      /\ Silent
  BY DEF Timeout, resend_due, connVars, loopVars
<1>2. TheLine' = TheLine
  BY <1>1, LineStays
<1>3. TheLine = <<>>
  BY <1>1, EmptyLine DEF TheLine, Out, Silent
<1>4. 1 .. Len(TheLine) = {}
  BY <1>3
<1>5. 1 .. Len(await_pubrec) = {} /\ 1 .. Len(await_pubcomp) = {}
  BY <1>4 DEF LosslessHere, Lossless, OnLine
<1>6. UNCHANGED <<await_pubrec, await_pubcomp>>
  BY <1>5 DEF Timeout, resend_due
<1> QED BY <1>1, <1>2, <1>6 DEF LosslessHere

\* The first connection.
LEMMA LosslessConnect ==
    ASSUME LosslessHere, Connect
    PROVE  LosslessHere'
<1>1. /\ TheLine' = <<>> /\ ~connected
      /\ UNCHANGED <<queueVars, pc>>
  BY ConnectLine
<1>2. pc = "idle" /\ await_pubrec = <<>> /\ send_pubrel = <<>> /\ await_pubcomp = <<>>
  BY <1>1 DEF LosslessHere
<1>3. await_pubrec' = <<>> /\ send_pubrel' = <<>> /\ await_pubcomp' = <<>> /\ pc' = "idle"
  BY <1>1, <1>2 DEF queueVars
<1>4. 1 .. Len(<<>>) = {} /\ Len(<<>>) = 0
  OBVIOUS
<1>5. Lossless(<<>>, <<>>, 0, <<>>)
  BY <1>4 DEF Lossless, LineOrder, OnLine, Behind
<1>6. Lossless(TheLine', await_pubrec', Len(send_pubrel'), await_pubcomp')
  BY <1>1, <1>3, <1>4, <1>5
<1> QED BY <1>3, <1>6 DEF LosslessHere

\* send_packets leaves the connection alone.
LEMMA SendingConnected ==
    ASSUME Sending
    PROVE  UNCHANGED connected
<1>1. CASE send_packets
  BY <1>1 DEF send_packets, connVars
<1>2. CASE send_pending_pubrel
  BY <1>2 DEF send_pending_pubrel, send_pubrel_entry, send_pubrel_skip, PartiallySent, Continue,
              try_write_packet, connVars
<1>3. CASE send_pending_publishes
  BY <1>3 DEF send_pending_publishes, send_publish_entry, send_publish_skip, PartiallySent,
              Continue, try_write_packet, connVars
<1>4. CASE resend_publishes
  BY <1>4 DEF resend_publishes, resend_puback_entry, resend_pubrec_entry, ResendSkip, Republish,
              ResendRefused, PartiallySent, Continue, try_write_packet, connVars
<1>5. CASE resend_pubrel
  BY <1>5 DEF resend_pubrel, resend_pubrel_entry, ResendSkip, ResendRefused, PartiallySent,
              Continue, try_write_packet, connVars
<1> QED BY <1>1, <1>2, <1>3, <1>4, <1>5 DEF Sending

\* What holds as long as nothing is lost, no timer crossed an answer and the
\* client runs.
LosslessSoFar == losses = 0 /\ ~crossed /\ ~panicked => LosslessHere

\* Every step keeps it.
LEMMA NextLossless ==
    ASSUME FlowBase, Prompt, LosslessHere, ~crossed', [FlowNext]_flowVars, losses' = 0, ~panicked'
    PROVE  LosslessHere'
<1>1. CASE LocalStep
  BY <1>1, LosslessClient, LosslessSending DEF LocalStep
<1>2. CASE Send
  <2>1. TheLine' = TheLine /\ UNCHANGED <<queueVars, pc, connected>>
    BY <1>2, LineSent DEF FlowBase
  <2>2. UNCHANGED i
    BY <1>2 DEF Send, Transmit, loopVars
  <2> QED BY <2>1, <2>2 DEF LosslessHere, queueVars
<1>3. CASE process_packet
  BY <1>3, LosslessPacket
<1>4. CASE Lose
  BY <1>4 DEF Lose, FlowBase, FlowTyped
<1>5. CASE Connect
  BY <1>5, LosslessConnect
<1>6. CASE Timeout
  BY <1>6, LosslessTimeout
<1>7. CASE Broker
  BY <1>7, LosslessBroker
<1>8. CASE UNCHANGED flowVars
  <2>1. /\ UNCHANGED <<netVars, send_buffer, panicked>>
        /\ UNCHANGED <<await_pubrec, send_pubrel, await_pubcomp, connected, pc, i>>
    BY <1>8 DEF flowVars, netVars
  <2>2. TheLine' = TheLine
    BY <2>1, LineStays
  <2> QED BY <2>1, <2>2 DEF LosslessHere
<1> QED BY <1>1, <1>2, <1>3, <1>4, <1>5, <1>6, <1>7, <1>8 DEF FlowNext

\* A loss is not forgotten, and a panic is the end.
LEMMA LossStays ==
    ASSUME FlowBase, [FlowNext]_flowVars
    PROVE  (losses' = 0 => losses = 0) /\ (~panicked' => ~panicked)
<1>1. CASE LocalStep
  BY <1>1, SendingCases, ClientEffect DEF LocalStep, FlowBase
<1>2. CASE Send
  BY <1>2 DEF Send, Transmit
<1>3. CASE process_packet
  BY <1>3 DEF process_packet, process_puback, process_pubrec, process_pubcomp, Processing
<1>4. CASE Lose
  BY <1>4 DEF Lose, connection_error, FlowBase, FlowTyped
<1>5. CASE Connect
  BY <1>5 DEF Connect, connect
<1>6. CASE Timeout
  BY <1>6 DEF Timeout, resend_due
<1>7. CASE Broker
  BY <1>7 DEF Broker, vars
<1>8. CASE UNCHANGED flowVars
  BY <1>8 DEF flowVars
<1> QED BY <1>1, <1>2, <1>3, <1>4, <1>5, <1>6, <1>7, <1>8 DEF FlowNext

\* At the beginning nothing is queued.
LEMMA InitLossless == FlowInit => LosslessHere
<1> SUFFICES ASSUME FlowInit PROVE LosslessHere
  OBVIOUS
<1>1. /\ to_client = <<>> /\ to_broker = <<>> /\ send_buffer = <<>> /\ panicked = FALSE
      /\ await_pubrec = <<>> /\ send_pubrel = <<>> /\ await_pubcomp = <<>> /\ pc = "idle"
  BY DEF FlowInit, Init, LinkInit
<1>2. TheLine = <<>>
  BY <1>1, EmptyLine DEF TheLine, Out
<1>3. 1 .. Len(<<>>) = {} /\ Len(<<>>) = 0
  OBVIOUS
<1>4. Lossless(<<>>, <<>>, 0, <<>>)
  BY <1>3 DEF Lossless, LineOrder, OnLine, Behind
<1>5. Lossless(TheLine, await_pubrec, Len(send_pubrel), await_pubcomp)
  BY <1>1, <1>2, <1>3, <1>4
<1> QED BY <1>1, <1>5 DEF LosslessHere

\* The client closes the connection over no acknowledgement of a prompt broker
\* (UnexpectedAck, QueueFull) unless a connection was lost before, send_pubrel
\* is full of PUBRELs and the message of the PUBREC is dropped: for every pool
\* of packet ids, queue length, send buffer and number of messages.
THEOREM NoSelfInflictedErrorHolds == FlowSpec => NoSelfInflictedError
<1> DEFINE J == FlowBase /\ (~crossed => Prompt)
<1>1. FlowInit => LosslessSoFar
  BY InitLossless DEF LosslessSoFar
<1>2. J /\ J' /\ LosslessSoFar /\ [FlowNext]_flowVars => LosslessSoFar'
  BY CrossedStays, LossStays, NextLossless DEF LosslessSoFar
<1>3. J /\ LosslessSoFar /\ [FlowNext]_flowVars => [NoSelfInflictedStep]_flowVars
  <2> SUFFICES ASSUME FlowBase, ~crossed => Prompt, LosslessSoFar, FlowNext,
                      connected, ~connected', ~crossed, losses' = losses
               PROVE  /\ losses > 0
                      /\ IsFull(send_pubrel)
                      /\ \E m \in Msgs : stage[m] = "await_pubrec" /\ stage'[m] = "dropped"
    BY DEF NoSelfInflictedStep
  <2>1. ~LocalStep
    <3>1. CASE Client
      BY <3>1, ClientEffect DEF FlowBase
    <3>2. CASE Sending
      BY <3>2, SendingConnected
    <3> QED BY <3>1, <3>2 DEF LocalStep
  <2>2. ~Send
    BY LineSent DEF FlowBase
  <2>3. ~Lose
    BY DEF Lose, FlowBase, FlowTyped
  <2>4. ~Connect
    BY ConnectLine
  <2>5. ~Timeout
    BY DEF Timeout, resend_due, connVars
  <2>6. ~Broker
    BY DEF Broker, vars
  <2>7. process_packet
    BY <2>1, <2>2, <2>3, <2>4, <2>5, <2>6 DEF FlowNext
  <2>8. ~panicked
    BY <2>7 DEF process_packet, process_puback, process_pubrec, process_pubcomp, Processing
  <2>9. losses # 0
    <3> SUFFICES ASSUME losses = 0 PROVE FALSE
      OBVIOUS
    <3>1. LosslessHere
      BY <2>8 DEF LosslessSoFar
    <3>2. UNCHANGED connected
      BY <2>7, <3>1, LosslessPacket
    <3> QED BY <3>2
  <2>10. losses > 0
    BY <2>9 DEF FlowBase, FlowTyped
  <2>11. /\ IsFull(send_pubrel)
         /\ \E m \in Msgs : stage[m] = "await_pubrec" /\ stage'[m] = "dropped"
    BY <2>7, PromptPacket
  <2> QED BY <2>10, <2>11
<1> QED BY <1>1, <1>2, <1>3, PromptInvariant, PTL DEF FlowSpec, NoSelfInflictedError

=============================================================================
