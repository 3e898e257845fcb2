---------------------------- MODULE ReceiveProofs ----------------------------
(***************************************************************************)
(* Proofs about the incoming publishes and the broker that sends them, for *)
(* any messages, packet ids, queue length and number of connections:       *)
(*                                                                         *)
(*   ReceivesTyped             no push of a handler overflows its queue    *)
(*   AtMostOnceHolds           QoS 2 messages reach the application once   *)
(*   AckedMeansDeliveredHolds  over one connection what was acknowledged   *)
(*                             was handed over                             *)
(*   NothingLeftBehindHolds    ... and no id stays in await_pubrel         *)
(*                                                                         *)
(* AtMostOnce rests on OnceInv: while the broker may still repeat a QoS 2  *)
(* message that was handed over, its id is in send_pubrec or await_pubrel, *)
(* also with older PUBLISH and PUBREL packets under way.  The two results  *)
(* about the first connection rest on FirstInv: each id is at one step of  *)
(* its handshake, and only the place for that step has it.  Steps and      *)
(* places are not state of the program: FirstInv says that they exist.     *)
(***************************************************************************)
EXTENDS ReceiveFlow, HeaplessVecProofs

-----------------------------------------------------------------------------
(* The invariant for AtMostOnce                                              *)

\* Packet k of c is a PUBREL with id p, or the PUBLISH of message m.
Releasing(c, k, p) == c[k].type = "pubrel" /\ c[k].pid = p
Publishing(c, k, m) == c[k].type = "publish" /\ c[k].uid = m

\* The client is between a PUBLISH and its PUBREL.
Open(rec, rel, p) == Has(rec, p) \/ Has(rel, p)

\* The messages in flight are of QoS 1 or 2, each is there once, under an id of
\* its own, and is not yet acknowledged.
BrokerSound ==
    /\ \A k \in 1 .. Len(inflight) : Qos[inflight[k].uid] > 0
    /\ \A k, l \in 1 .. Len(inflight) : inflight[k].uid = inflight[l].uid => k = l
    /\ \A k, l \in 1 .. Len(inflight) : inflight[k].pid = inflight[l].pid => k = l

\* The client knows no message that the broker does not know, and a message is
\* on its way to the client at most once.
ClientBehind ==
    /\ \A m \in Msgs : delivered[m] > 0 => m \in Known
    /\ \A k \in 1 .. Len(to_client) :
          to_client[k].type = "publish" => to_client[k].uid \in Known
    /\ \A k, l \in 1 .. Len(to_client) :
          to_client[k].type = "publish" /\ Publishing(to_client, l, to_client[k].uid) => k = l
    /\ \A k \in 1 .. Len(to_client), l \in 1 .. Len(inflight) :
          Publishing(to_client, k, inflight[l].uid) => to_client[k].pid = inflight[l].pid

\* The id of a message that was handed over and that the broker would send again
RemembersRepeat ==
    \A k \in 1 .. Len(inflight) :
       Qos[inflight[k].uid] = 2 /\ ~inflight[k].released /\ delivered[inflight[k].uid] > 0
       => Open(send_pubrec, await_pubrel, inflight[k].pid)

\* ... or has sent again is remembered until that PUBLISH is handled: no PUBREL
\* with the id is before it.
RemembersComing ==
    \A k \in 1 .. Len(to_client) :
       to_client[k].type = "publish" /\ Qos[to_client[k].uid] = 2
          /\ delivered[to_client[k].uid] > 0
       => /\ Open(send_pubrec, await_pubrel, to_client[k].pid)
          /\ \A j \in 1 .. k - 1 : ~Releasing(to_client, j, to_client[k].pid)

\* A PUBREL that does not belong to the message now using its id is before the
\* PUBLISH of that message.
ForeignPubrel ==
    \A k \in 1 .. Len(to_client), l \in 1 .. Len(inflight) :
       Releasing(to_client, k, inflight[l].pid) /\ ~inflight[l].released
       => /\ delivered[inflight[l].uid] = 0
          /\ \E j \in k + 1 .. Len(to_client) : Publishing(to_client, j, inflight[l].uid)

Remembered == RemembersRepeat /\ RemembersComing /\ ForeignPubrel

OnceParts == AtMostOnce /\ BrokerSound /\ ClientBehind /\ Remembered
OnceInv == FlowTypeOK /\ OnceParts

-----------------------------------------------------------------------------
(* Queues and types                                                          *)

\* Has of the handlers is the membership of HeaplessVecProofs.
LEMMA HasIn == \A q, p : Has(q, p) <=> In(q, p)
BY DEF Has, In

\* The entry of the broker's table for a PUBLISH or PUBREL on its way.
LEMMA PacketTypes ==
    ASSUME FlowTypeOK
    PROVE  /\ \A k \in 1 .. Len(to_client) :
                 /\ to_client[k].type \in {"publish", "pubrel"}
                 /\ to_client[k].pid \in PidSet
                 /\ to_client[k].type = "publish" => to_client[k].uid \in Msgs
           /\ \A k \in 1 .. Len(inflight) :
                 /\ inflight[k].uid \in Msgs
                 /\ inflight[k].pid \in PidSet
                 /\ inflight[k].released \in BOOLEAN
           /\ \A k \in 1 .. Len(to_broker) :
                 /\ to_broker[k].type \in {"puback", "pubrec", "pubcomp"}
                 /\ to_broker[k].pid \in PidSet
           /\ Len(to_client) \in Nat /\ Len(inflight) \in Nat /\ Len(to_broker) \in Nat
           /\ \A m \in Msgs : delivered[m] \in Nat
           /\ \A m \in Msgs : Qos[m] \in 0 .. 2
<1>1. \A k \in 1 .. Len(to_client) : to_client[k] \in FromBroker
  BY DEF FlowTypeOK
<1>2. \A k \in 1 .. Len(inflight) : inflight[k] \in InFlight
  BY DEF FlowTypeOK
<1>3. \A k \in 1 .. Len(to_broker) : to_broker[k] \in Packets
  BY DEF FlowTypeOK
<1>4. Len(to_client) \in Nat /\ Len(inflight) \in Nat /\ Len(to_broker) \in Nat
  BY DEF FlowTypeOK
<1>5. \A k \in 1 .. Len(to_client) :
                 /\ to_client[k].type \in {"publish", "pubrel"}
                 /\ to_client[k].pid \in PidSet
                 /\ to_client[k].type = "publish" => to_client[k].uid \in Msgs
  BY <1>1 DEF FromBroker
<1>6. \A k \in 1 .. Len(inflight) :
                 /\ inflight[k].uid \in Msgs
                 /\ inflight[k].pid \in PidSet
                 /\ inflight[k].released \in BOOLEAN
  BY <1>2 DEF InFlight
<1>7. \A k \in 1 .. Len(to_broker) :
                 /\ to_broker[k].type \in {"puback", "pubrec", "pubcomp"}
                 /\ to_broker[k].pid \in PidSet
  BY <1>3 DEF Packets
<1> QED BY <1>4, <1>5, <1>6, <1>7, ReceivesAssumption DEF FlowTypeOK, TypeOK

QueuesTyped ==
    /\ send_puback \in Seq(PidSet) /\ Len(send_puback) <= Queue
    /\ send_pubrec \in Seq(PidSet) /\ Len(send_pubrec) <= Queue
    /\ await_pubrel \in Seq(PidSet) /\ Len(await_pubrel) <= Queue
    /\ send_pubcomp \in Seq(PidSet) /\ Len(send_pubcomp) <= Queue

ClientTyped ==
    /\ QueuesTyped
    /\ pc \in {"idle", "puback", "pubrec", "pubcomp"}
    /\ i \in Nat \ {0}
    /\ send_buffer \in Seq(Packets)
    /\ connected \in BOOLEAN
    /\ stopped \in BOOLEAN
    /\ delivered \in [Msgs -> Nat]

\* The type invariant, queue by queue, before and after a step.
LEMMA TypeSplit == TypeOK <=> ClientTyped
BY DEF TypeOK, QueuesTyped, ClientTyped

\* The same in the next state.
LEMMA TypeSplitNext == TypeOK' <=> ClientTyped'
<1>1. QueuesTyped' <=>
        \A queue \in {send_puback', send_pubrec', await_pubrel', send_pubcomp'} :
          queue \in Seq(PidSet) /\ Len(queue) <= Queue
  BY DEF QueuesTyped
<1> QED BY <1>1, Zenon DEF TypeOK, ClientTyped

\* A push behind IsFull keeps a queue within its array.
LEMMA PushTyped ==
    ASSUME NEW q \in Seq(PidSet), ~IsFull(q), NEW p \in PidSet
    PROVE  Append(q, p) \in Seq(PidSet) /\ Len(Append(q, p)) <= Queue
BY PushFacts, ReceivesAssumption DEF IsFull

\* Vec::remove keeps a queue within its array.
LEMMA RemoveTyped ==
    ASSUME NEW q \in Seq(PidSet), Len(q) <= Queue, NEW k \in 1 .. Len(q)
    PROVE  Remove(q, k) \in Seq(PidSet) /\ Len(Remove(q, k)) <= Queue
<1>1. /\ Remove(q, k) \in Seq(PidSet) /\ Len(Remove(q, k)) = Len(q) - 1 /\ Len(q) \in Nat
  BY RemoveFacts
<1> QED BY <1>1, ReceivesAssumption

\* The loops of send_packets: an index moves, or an acknowledgement is written
\* and its id leaves its queue.
Written(type, pid) ==
    /\ try_write_packet([type |-> type, pid |-> pid])
    /\ i' = i + 1
    /\ UNCHANGED <<pc, stopped, delivered>>
    /\ UNCHANGED <<netVars, brokerVars, connections>>

WritePuback ==
    /\ pc = "puback" /\ i \in 1 .. Len(send_puback)
    /\ Written("puback", send_puback[i])
    /\ send_puback' = Remove(send_puback, i)
    /\ UNCHANGED <<send_pubrec, await_pubrel, send_pubcomp>>

WritePubrec ==
    /\ pc = "pubrec" /\ i \in 1 .. Len(send_pubrec) /\ ~IsFull(await_pubrel)
    /\ Written("pubrec", send_pubrec[i])
    /\ send_pubrec' = Remove(send_pubrec, i)
    /\ await_pubrel' = Append(await_pubrel, send_pubrec[i])
    /\ UNCHANGED <<send_puback, send_pubcomp>>

WritePubcomp ==
    /\ pc = "pubcomp" /\ i \in 1 .. Len(send_pubcomp)
    /\ Written("pubcomp", send_pubcomp[i])
    /\ send_pubcomp' = Remove(send_pubcomp, i)
    /\ UNCHANGED <<send_puback, send_pubrec, await_pubrel>>

Scan ==
    /\ pc' \in {"idle", "puback", "pubrec", "pubcomp"}
    /\ pc' = "puback" => ~stopped /\ connected
    /\ pc = "idle" /\ pc' # "idle" => pc' = "puback"
    /\ i' = 1
    /\ UNCHANGED <<queueVars, connVars, stopped, delivered, netVars, brokerVars, connections>>

\* Every step of the loops is one of the four above.
LEMMA SendCases ==
    ASSUME FlowTypeOK, SendStep
    PROVE  WritePuback \/ WritePubrec \/ WritePubcomp \/ Scan
<1>1. i \in Nat \ {0} /\ pc \in {"idle", "puback", "pubrec", "pubcomp"}
  BY TypeSplit DEF FlowTypeOK, ClientTyped
<1>2. CASE send_packets
  BY <1>2 DEF SendStep, send_packets, Processing, Scan
<1>3. CASE send_pubacks
  <2>1. Len(send_puback) \in Nat
    BY TypeSplit DEF FlowTypeOK, ClientTyped, QueuesTyped
  <2> QED BY <1>1, <1>3, <2>1 DEF SendStep, send_pubacks, WriteAck, Written, WritePuback,
            Scan, PartiallySent, Continue
<1>4. CASE send_pubrecs
  <2>1. Len(send_pubrec) \in Nat
    BY TypeSplit DEF FlowTypeOK, ClientTyped, QueuesTyped
  <2> QED BY <1>1, <1>4, <2>1 DEF SendStep, send_pubrecs, WriteAck, Written, WritePubrec,
            Scan, PartiallySent, Continue
<1>5. CASE send_pubcomps
  <2>1. Len(send_pubcomp) \in Nat
    BY TypeSplit DEF FlowTypeOK, ClientTyped, QueuesTyped
  <2> QED BY <1>1, <1>5, <2>1 DEF SendStep, send_pubcomps, WriteAck, Written, WritePubcomp,
            Scan, PartiallySent, Continue
<1> QED BY <1>2, <1>3, <1>4, <1>5 DEF SendStep, Sending

\* The packets of the broker, case by case.
Took ==
    /\ Processing
    /\ to_client # <<>>
    /\ to_client' = Tail(to_client)
    /\ UNCHANGED <<to_broker, brokerVars, connections, loopVars, send_buffer>>

Given(m) == delivered' = [delivered EXCEPT ![m] = @ + 1] /\ UNCHANGED stopped

\* A full queue, or a message of QoS 0 or 1 that is too long.
Refused ==
    /\ Took
    /\ UNCHANGED <<queueVars, delivered>>
    /\ connected' \in BOOLEAN /\ stopped' \in BOOLEAN

\* Handed over and not acknowledged: QoS 0, or QoS 1 and QueueFull.
GotQuietly ==
    /\ Took
    /\ to_client[1].type = "publish" /\ Qos[to_client[1].uid] < 2
    /\ Given(to_client[1].uid)
    /\ UNCHANGED queueVars
    /\ connected' \in BOOLEAN

Got1 ==
    /\ Took
    /\ to_client[1].type = "publish" /\ Qos[to_client[1].uid] = 1
    /\ Given(to_client[1].uid)
    /\ ~IsFull(send_puback)
    /\ send_puback' = Append(send_puback, to_client[1].pid)
    /\ UNCHANGED <<send_pubrec, await_pubrel, send_pubcomp, connected>>

Queued2 ==
    /\ Took
    /\ to_client[1].type = "publish" /\ Qos[to_client[1].uid] = 2
    /\ ~IsFull(send_pubrec)
    /\ send_pubrec' = Append(send_pubrec, to_client[1].pid)
    /\ UNCHANGED <<send_puback, await_pubrel, send_pubcomp, connected>>

Repeated == Queued2 /\ is_dup(to_client[1].pid) /\ UNCHANGED <<stopped, delivered>>
Unfit == Queued2 /\ ~is_dup(to_client[1].pid) /\ stopped' = TRUE /\ UNCHANGED delivered
Got2 == Queued2 /\ ~is_dup(to_client[1].pid) /\ Given(to_client[1].uid)

Released ==
    /\ Took
    /\ to_client[1].type = "pubrel"
    /\ ~IsFull(send_pubcomp)
    /\ send_pubcomp' = Append(send_pubcomp, to_client[1].pid)
    /\ forget(to_client[1].pid)
    /\ UNCHANGED <<send_puback, send_pubrec, stopped, delivered, connected>>

\* What a handler does to the queues and to the application.
LEMMA TakeCases ==
    ASSUME FlowTypeOK, process_packet
    PROVE  Refused \/ GotQuietly \/ Got1 \/ Repeated \/ Unfit \/ Got2 \/ Released
<1> DEFINE p == to_client[1]
<1>1. to_client # <<>> /\ Head(to_client) = p /\ p \in FromBroker
  BY TailFacts DEF FlowTypeOK, process_packet
<1>2. connected \in BOOLEAN /\ stopped \in BOOLEAN
  BY TypeSplit DEF FlowTypeOK, ClientTyped
<1>3. p.type = "publish" => Qos[p.uid] \in 0 .. 2
  BY <1>1, ReceivesAssumption DEF FromBroker
<1>4. /\ to_client' = Tail(to_client)
      /\ UNCHANGED <<to_broker, brokerVars, connections>>
  BY DEF process_packet
<1>5. \/ p.type = "publish" /\ on_publish(p.uid, p.pid)
      \/ p.type = "pubrel" /\ on_pubrel(p.pid)
  BY <1>1 DEF process_packet
<1> HIDE DEF p
<1>6. CASE p.type = "publish" /\ Qos[p.uid] = 0 /\ on_qos_0_publish(p.uid) /\ Turn /\ Processing
  <2>1. Took /\ UNCHANGED <<queueVars, connected>>
    BY <1>1, <1>4, <1>6 DEF Took, on_qos_0_publish, Turn, connVars
  <2>2. connected' \in BOOLEAN
    BY <1>2, <2>1
  <2>3. CASE p.uid \in TooLong
    <3>1. stopped' = TRUE /\ UNCHANGED delivered
      BY <1>6, <2>3 DEF on_qos_0_publish, Deliver
    <3> QED BY <2>1, <2>2, <3>1 DEF Refused
  <2>4. CASE p.uid \notin TooLong
    <3>1. Given(p.uid)
      BY <1>6, <2>4 DEF on_qos_0_publish, Deliver, Given
    <3>2. Qos[p.uid] < 2
      BY <1>6
    <3> QED BY <1>6, <2>1, <2>2, <3>1, <3>2 DEF GotQuietly, p
  <2> QED BY <2>3, <2>4
<1>7. CASE p.type = "publish" /\ Qos[p.uid] = 1 /\ on_qos_1_publish(p.uid, p.pid) /\ Turn /\ Processing
  <2>1. Took
    BY <1>1, <1>4, <1>7 DEF Took, on_qos_1_publish, Turn, connVars, set_error
  <2>2. connected' \in BOOLEAN
    BY <1>2, <1>7 DEF on_qos_1_publish, connVars, set_error
  <2>3. CASE p.uid \in TooLong
    <3>1. stopped' = TRUE /\ UNCHANGED <<delivered, queueVars>>
      BY <1>7, <2>3 DEF on_qos_1_publish, Deliver, queueVars
    <3> QED BY <2>1, <2>2, <3>1 DEF Refused
  <2>4. CASE p.uid \notin TooLong
    <3>1. Given(p.uid)
      BY <1>7, <2>4 DEF on_qos_1_publish, Deliver, Given
    <3>2. Qos[p.uid] < 2
      BY <1>7
    <3>3. CASE IsFull(send_puback)
      <4>1. UNCHANGED queueVars
        BY <1>7, <2>4, <3>3 DEF on_qos_1_publish, queueVars
      <4> QED BY <1>7, <2>1, <2>2, <3>1, <3>2, <4>1 DEF GotQuietly, p
    <3>4. CASE ~IsFull(send_puback)
      <4>1. /\ send_puback' = Append(send_puback, p.pid)
            /\ UNCHANGED <<send_pubrec, await_pubrel, send_pubcomp, connected>>
        BY <1>7, <2>4, <3>4 DEF on_qos_1_publish, connVars
      <4> QED BY <1>7, <2>1, <3>1, <3>4, <4>1 DEF Got1, p
    <3> QED BY <3>3, <3>4
  <2> QED BY <2>3, <2>4
<1>8. CASE p.type = "publish" /\ Qos[p.uid] = 2 /\ on_qos_2_publish(p.uid, p.pid) /\ Turn /\ Processing
  <2>1. Took
    BY <1>1, <1>4, <1>8 DEF Took, on_qos_2_publish, Turn, connVars, set_error
  <2>2. CASE IsFull(send_pubrec)
    <3>1. UNCHANGED <<delivered, queueVars, stopped>> /\ connected' = FALSE
      BY <1>8, <2>2 DEF on_qos_2_publish, queueVars, set_error
    <3>2. connected' \in BOOLEAN /\ stopped' \in BOOLEAN
      BY <1>2, <3>1
    <3> QED BY <2>1, <3>1, <3>2 DEF Refused
  <2>3. CASE ~IsFull(send_pubrec)
    <3>1. Queued2
      BY <1>8, <2>1, <2>3 DEF on_qos_2_publish, connVars, Queued2, p
    <3>2. CASE is_dup(p.pid)
      <4>1. UNCHANGED <<stopped, delivered>>
        BY <1>8, <2>3, <3>2 DEF on_qos_2_publish
      <4> QED BY <3>1, <3>2, <4>1 DEF Repeated, p
    <3>3. CASE ~is_dup(p.pid)
      <4>1. Deliver(p.uid)
        BY <1>8, <2>3, <3>3 DEF on_qos_2_publish
      <4>2. (stopped' = TRUE /\ UNCHANGED delivered) \/ Given(p.uid)
        BY <4>1 DEF Deliver, Given
      <4> QED BY <3>1, <3>3, <4>2 DEF Unfit, Got2, p
    <3> QED BY <3>2, <3>3
  <2> QED BY <2>2, <2>3
<1>9. CASE p.type = "pubrel" /\ on_pubrel(p.pid)
  BY <1>1, <1>2, <1>4, <1>9 DEF on_pubrel, Turn, Refused, Took, Released, connVars,
     queueVars, set_error, p
<1> QED BY <1>3, <1>5, <1>6, <1>7, <1>8, <1>9 DEF on_publish

\* The broker's steps, case by case.
NewMessage(m, pid) ==
    /\ connected /\ m \in Msgs /\ m \notin Known
    /\ pid \in PidSet /\ pid \notin UsedPids
    /\ to_client' = Append(to_client, [type |-> "publish", uid |-> m, pid |-> pid])
    /\ UNCHANGED <<vars, to_broker, connections>>

Sent0(m, pid) ==
    /\ NewMessage(m, pid) /\ Qos[m] = 0
    /\ completed' = completed \cup {m} /\ UNCHANGED inflight

Sent12(m, pid) ==
    /\ NewMessage(m, pid) /\ Qos[m] > 0
    /\ inflight' = Append(inflight, [uid |-> m, pid |-> pid, released |-> FALSE])
    /\ UNCHANGED completed

GotAck ==
    /\ to_broker # <<>>
    /\ to_broker' = Tail(to_broker)
    /\ UNCHANGED <<vars, connections>>

GotPubrec(k) ==
    /\ GotAck /\ k \in 1 .. Len(inflight)
    /\ to_broker[1].type = "pubrec" /\ inflight[k].pid = to_broker[1].pid
    /\ Qos[inflight[k].uid] = 2
    /\ inflight' = [inflight EXCEPT ![k].released = TRUE]
    /\ to_client' = Append(to_client, [type |-> "pubrel", pid |-> inflight[k].pid])
    /\ UNCHANGED completed

GotLast(k) ==
    /\ GotAck /\ k \in 1 .. Len(inflight)
    /\ inflight[k].pid = to_broker[1].pid
    /\ \/ to_broker[1].type = "puback" /\ Qos[inflight[k].uid] = 1
       \/ to_broker[1].type = "pubcomp" /\ Qos[inflight[k].uid] = 2 /\ inflight[k].released
    /\ inflight' = Remove(inflight, k)
    /\ completed' = completed \cup {inflight[k].uid}
    /\ UNCHANGED to_client

Ignored == GotAck /\ UNCHANGED <<inflight, completed, to_client>>

\* A new message gets an id, if it needs one, that nothing in flight has.
LEMMA SendMessageCases ==
    ASSUME FlowTypeOK, NEW m \in Msgs, BrokerSend(m)
    PROVE  \E pid \in PidSet : Sent0(m, pid) \/ Sent12(m, pid)
<1>1. Qos[m] \in 0 .. 2
  BY ReceivesAssumption
<1>2. PICK pid \in PidSet \ UsedPids :
         LET e == [uid |-> m, pid |-> pid, released |-> FALSE] IN
          /\ to_client' = Append(to_client, Publish(e))
          /\ IF Qos[m] = 0
               THEN completed' = completed \cup {m} /\ UNCHANGED inflight
               ELSE inflight' = Append(inflight, e) /\ UNCHANGED completed
  BY DEF BrokerSend
<1>3. Publish([uid |-> m, pid |-> pid, released |-> FALSE])
        = [type |-> "publish", uid |-> m, pid |-> pid]
  BY DEF Publish
<1>4. NewMessage(m, pid)
  BY <1>2, <1>3 DEF NewMessage, BrokerSend
<1>5. CASE Qos[m] = 0
  <2>1. completed' = completed \cup {m} /\ UNCHANGED inflight
    BY <1>2, <1>5
  <2> QED BY <1>4, <1>5, <2>1 DEF Sent0
<1>6. CASE Qos[m] # 0
  <2>1. /\ inflight' = Append(inflight, [uid |-> m, pid |-> pid, released |-> FALSE])
        /\ UNCHANGED completed
    BY <1>2, <1>6
  <2>2. Qos[m] > 0
    BY <1>1, <1>6
  <2> QED BY <1>4, <2>1, <2>2 DEF Sent12
<1> QED BY <1>5, <1>6

\* An acknowledgement moves one entry of the broker's table on, or is ignored.
LEMMA AckCases ==
    ASSUME FlowTypeOK, BrokerReceive
    PROVE  Ignored \/ \E k \in 1 .. Len(inflight) : GotPubrec(k) \/ GotLast(k)
<1> DEFINE ack == to_broker[1]
<1>1. to_broker # <<>> /\ Head(to_broker) = ack /\ ack \in Packets
  BY TailFacts DEF FlowTypeOK, BrokerReceive
<1>2. GotAck
  BY DEF BrokerReceive, GotAck
<1>3. ack.type \in {"puback", "pubrec", "pubcomp"}
  BY <1>1 DEF Packets
<1>4. CASE UNCHANGED <<inflight, completed, to_client>>
  BY <1>2, <1>4 DEF Ignored
<1>5. ASSUME NEW k \in 1 .. Len(inflight), Fits(ack, inflight[k]),
             IF ack.type = "pubrec"
                     THEN /\ inflight' = [inflight EXCEPT ![k].released = TRUE]
                          /\ to_client' = Append(to_client, Pubrel(inflight[k]))
                          /\ UNCHANGED completed
                     ELSE Complete(k)
      PROVE  GotPubrec(k) \/ GotLast(k)
  <2>1. CASE ack.type = "pubrec"
    BY <1>2, <1>5, <2>1 DEF Fits, GotPubrec, Pubrel
  <2>2. CASE ack.type = "puback"
    BY <1>2, <1>5, <2>2 DEF Fits, GotLast, Complete
  <2>3. CASE ack.type = "pubcomp"
    <3>1. inflight[k].pid = ack.pid /\ Qos[inflight[k].uid] = 2 /\ inflight[k].released
      BY <1>5, <2>3, Zenon DEF Fits
    <3>2. Complete(k)
      BY <1>5, <2>3
    <3> QED BY <1>2, <2>3, <3>1, <3>2, Zenon DEF GotLast, Complete
  <2> QED BY <1>3, <2>1, <2>2, <2>3
<1> QED BY <1>1, <1>4, <1>5 DEF BrokerReceive

-----------------------------------------------------------------------------
(* Types                                                                     *)

\* Types in the initial state, and after each kind of step.
LEMMA FlowInitTyped == FlowInit => FlowTypeOK
<1> SUFFICES ASSUME FlowInit PROVE FlowTypeOK
  OBVIOUS
<1>1. QueuesTyped
  BY ReceivesAssumption DEF FlowInit, Init, QueuesTyped
<1>2. delivered \in [Msgs -> Nat] /\ send_buffer \in Seq(Packets) /\ i \in Nat \ {0}
      /\ pc \in {"idle", "puback", "pubrec", "pubcomp"}
  BY DEF FlowInit, Init, LinkInit
<1>3. connected \in BOOLEAN /\ stopped \in BOOLEAN
  BY DEF FlowInit, Init, LinkInit
<1>4. TypeOK
  BY <1>1, <1>2, <1>3, TypeSplit DEF ClientTyped
<1> QED BY <1>4, FlowAssumption DEF FlowInit, FlowTypeOK

\* An acknowledgement is written.
LEMMA WriteTyped ==
    ASSUME FlowTypeOK, WritePuback \/ WritePubrec \/ WritePubcomp
    PROVE  FlowTypeOK'
<1>1. QueuesTyped /\ i \in Nat \ {0} /\ send_buffer \in Seq(Packets) /\ delivered \in [Msgs -> Nat]
      /\ pc \in {"idle", "puback", "pubrec", "pubcomp"}
  BY TypeSplit DEF FlowTypeOK, ClientTyped
<1>2. connected \in BOOLEAN /\ stopped \in BOOLEAN
  BY TypeSplit DEF FlowTypeOK, ClientTyped
<1>3. QueuesTyped' /\ send_buffer' \in Seq(Packets)
  <2>1. CASE WritePuback
    <3>1. [type |-> "puback", pid |-> send_puback[i]] \in Packets
      BY <1>1, <2>1 DEF WritePuback, Packets, QueuesTyped
    <3> QED BY <1>1, <2>1, <3>1, RemoveTyped, PushFacts DEF WritePuback, QueuesTyped, Written, try_write_packet
  <2>2. CASE WritePubrec
    <3>1. [type |-> "pubrec", pid |-> send_pubrec[i]] \in Packets /\ send_pubrec[i] \in PidSet
      BY <1>1, <2>2 DEF WritePubrec, Packets, QueuesTyped
    <3> QED BY <1>1, <2>2, <3>1, RemoveTyped, PushTyped, PushFacts
            DEF WritePubrec, QueuesTyped, Written, try_write_packet
  <2>3. CASE WritePubcomp
    <3>1. [type |-> "pubcomp", pid |-> send_pubcomp[i]] \in Packets
      BY <1>1, <2>3 DEF WritePubcomp, Packets, QueuesTyped
    <3> QED BY <1>1, <2>3, <3>1, RemoveTyped, PushFacts DEF WritePubcomp, QueuesTyped, Written, try_write_packet
  <2> QED BY <2>1, <2>2, <2>3
<1>4. /\ i' = i + 1
      /\ UNCHANGED <<pc, stopped, delivered, connected, to_client, to_broker, inflight, completed, connections>>
  BY DEF WritePuback, WritePubrec, WritePubcomp, Written, try_write_packet, netVars, brokerVars
<1>5. i' \in Nat \ {0}
  BY <1>1, <1>4
<1>6. connected' \in BOOLEAN /\ stopped' \in BOOLEAN
  BY <1>2, <1>4
<1>7. TypeOK'
  BY <1>1, <1>3, <1>4, <1>5, <1>6, TypeSplitNext DEF ClientTyped
<1> QED BY <1>4, <1>7 DEF FlowTypeOK

\* A step of send_packets or of the connection.
LEMMA QuietTyped ==
    ASSUME FlowTypeOK, SendStep \/ Send \/ Lose \/ Connect
    PROVE  FlowTypeOK'
<1>1. /\ QueuesTyped /\ i \in Nat \ {0} /\ send_buffer \in Seq(Packets) /\ delivered \in [Msgs -> Nat]
      /\ pc \in {"idle", "puback", "pubrec", "pubcomp"}
      /\ connected \in BOOLEAN /\ stopped \in BOOLEAN
  BY TypeSplit DEF FlowTypeOK, ClientTyped
<1>2. CASE Scan
  <2>1. /\ UNCHANGED <<send_puback, send_pubrec, await_pubrel, send_pubcomp, send_buffer,
             connected, stopped, delivered, to_client, to_broker, inflight, completed, connections>>
        /\ i' = 1 /\ pc' \in {"idle", "puback", "pubrec", "pubcomp"}
    BY <1>2 DEF Scan, queueVars, connVars, netVars, brokerVars
  <2>2. TypeOK'
    BY <1>1, <2>1, TypeSplitNext DEF QueuesTyped, ClientTyped
  <2> QED BY <2>1, <2>2 DEF FlowTypeOK
<1>3. CASE Send
  <2>1. /\ UNCHANGED <<send_puback, send_pubrec, await_pubrel, send_pubcomp, pc, i,
             connected, stopped, delivered, to_client, inflight, completed, connections>>
        /\ send_buffer # <<>> /\ send_buffer' = Tail(send_buffer)
        /\ to_broker' = Append(to_broker, Head(send_buffer))
    BY <1>3 DEF Send, write_to_network, queueVars, loopVars, brokerVars
  <2>2. send_buffer' \in Seq(Packets) /\ Head(send_buffer) \in Packets
    BY <1>1, <2>1, TailFacts
  <2>3. to_broker' \in Seq(Packets)
    BY <2>1, <2>2 DEF FlowTypeOK
  <2>4. TypeOK'
    BY <1>1, <2>1, <2>2, TypeSplitNext DEF QueuesTyped, ClientTyped
  <2> QED BY <2>1, <2>3, <2>4 DEF FlowTypeOK
<1>4. CASE Lose
  <2>1. /\ UNCHANGED <<send_puback, send_pubrec, await_pubrel, send_pubcomp, pc, i, send_buffer,
             stopped, delivered, to_client, to_broker, inflight, completed, connections>>
        /\ connected' = FALSE
    BY <1>4 DEF Lose, set_error, queueVars, loopVars, netVars, brokerVars
  <2>2. TypeOK'
    BY <1>1, <2>1, TypeSplitNext DEF QueuesTyped, ClientTyped
  <2> QED BY <2>1, <2>2 DEF FlowTypeOK
<1>5. CASE Connect
  <2>1. /\ UNCHANGED <<send_puback, send_pubrec, await_pubrel, send_pubcomp, pc, i,
             stopped, delivered, inflight, completed>>
        /\ connected' = TRUE
        /\ send_buffer' = <<>> /\ to_broker' = <<>>
        /\ connections < MaxConnections /\ connections' = connections + 1
    BY <1>5 DEF Connect, reconnect, queueVars, loopVars, brokerVars
  <2>2. TypeOK'
    BY <1>1, <2>1, TypeSplitNext DEF QueuesTyped, ClientTyped
  <2>3. \A k \in 1 .. Len(inflight) :
           Pubrel(inflight[k]) \in FromBroker /\ Publish(inflight[k]) \in FromBroker
    BY PacketTypes DEF Pubrel, Publish, FromBroker
  <2>4. to_client' \in Seq(FromBroker)
    <3>1. Len(inflight) \in Nat
      BY DEF FlowTypeOK
    <3>2. \A k \in 1 .. Len(inflight) :
        (IF inflight[k].released THEN Pubrel(inflight[k]) ELSE Publish(inflight[k])) \in FromBroker
      BY <2>3
    <3> QED BY <1>5, <3>1, <3>2 DEF Connect
  <2>5. connections' \in 0 .. MaxConnections
    BY <2>1, FlowAssumption DEF FlowTypeOK
  <2>6. to_broker' \in Seq(Packets) /\ inflight' \in Seq(InFlight) /\ completed' \in SUBSET Msgs
    BY <2>1 DEF FlowTypeOK
  <2> QED BY <2>2, <2>4, <2>5, <2>6 DEF FlowTypeOK
<1> QED BY <1>2, <1>3, <1>4, <1>5, SendCases, WriteTyped

\* A handler takes a packet.
LEMMA TakeTyped ==
    ASSUME FlowTypeOK, process_packet
    PROVE  FlowTypeOK'
<1> DEFINE p == to_client[1]
<1>1. /\ QueuesTyped /\ i \in Nat \ {0} /\ send_buffer \in Seq(Packets) /\ delivered \in [Msgs -> Nat]
      /\ pc \in {"idle", "puback", "pubrec", "pubcomp"}
      /\ connected \in BOOLEAN /\ stopped \in BOOLEAN
  BY TypeSplit DEF FlowTypeOK, ClientTyped
<1>2. Took
  BY TakeCases DEF Refused, GotQuietly, Got1, Repeated, Unfit, Got2, Queued2, Released
<1>3. to_client' \in Seq(FromBroker) /\ p \in FromBroker
  BY <1>2, TailFacts DEF FlowTypeOK, Took
<1>4. p.pid \in PidSet /\ (p.type = "publish" => p.uid \in Msgs)
  BY <1>3 DEF FromBroker
<1>5. UNCHANGED <<to_broker, inflight, completed, connections, pc, i, send_buffer>>
  BY <1>2 DEF Took, brokerVars, loopVars
<1>6. ASSUME NEW m \in Msgs, Given(m)
      PROVE  delivered' \in [Msgs -> Nat] /\ stopped' \in BOOLEAN
  <2>1. delivered[m] + 1 \in Nat
    BY <1>1
  <2> QED BY <1>1, <1>6, <2>1 DEF Given
<1> HIDE DEF p
<1>7. QueuesTyped'
  <2>1. CASE Refused \/ GotQuietly
    BY <1>1, <2>1 DEF Refused, GotQuietly, queueVars, QueuesTyped
  <2>2. CASE Got1
    BY <1>1, <1>4, <2>2, PushTyped DEF Got1, QueuesTyped, p
  <2>3. CASE Queued2
    BY <1>1, <1>4, <2>3, PushTyped DEF Queued2, QueuesTyped, p
  <2>4. CASE Released
    <3>1. await_pubrel' \in Seq(PidSet) /\ Len(await_pubrel') <= Queue
      BY <1>1, <2>4, RemoveTyped DEF Released, forget, QueuesTyped
    <3> QED BY <1>1, <1>4, <2>4, <3>1, PushTyped DEF Released, QueuesTyped, p
  <2> QED BY <2>1, <2>2, <2>3, <2>4, TakeCases DEF Repeated, Unfit, Got2
<1>8. delivered' \in [Msgs -> Nat] /\ stopped' \in BOOLEAN
  <2>1. CASE Refused \/ Released \/ Repeated
    BY <1>1, <2>1 DEF Refused, Released, Repeated
  <2>2. CASE Unfit
    BY <1>1, <2>2 DEF Unfit
  <2>3. CASE GotQuietly \/ Got1 \/ Got2
    BY <1>4, <1>6, <2>3 DEF GotQuietly, Got1, Got2, Queued2, p
  <2> QED BY <2>1, <2>2, <2>3, TakeCases
<1>9. connected' \in BOOLEAN
  BY <1>1, TakeCases DEF Refused, GotQuietly, Got1, Repeated, Unfit, Got2, Queued2, Released
<1>10. TypeOK'
  BY <1>1, <1>5, <1>7, <1>8, <1>9, TypeSplitNext DEF ClientTyped
<1> QED BY <1>3, <1>5, <1>10 DEF FlowTypeOK

\* The broker sends a message or takes an acknowledgement.
LEMMA BrokerTyped ==
    ASSUME FlowTypeOK, BrokerReceive \/ \E m \in Msgs : BrokerSend(m)
    PROVE  FlowTypeOK'
<1>1. UNCHANGED vars /\ UNCHANGED connections => TypeOK' /\ connections' \in 0 .. MaxConnections
  <2>1. UNCHANGED vars => TypeOK'
    BY TypeSplit, TypeSplitNext DEF FlowTypeOK, vars, ClientTyped, QueuesTyped
  <2> QED BY <2>1 DEF FlowTypeOK
<1>2. ASSUME NEW m \in Msgs, NEW pid \in PidSet, Sent0(m, pid) \/ Sent12(m, pid)
      PROVE  FlowTypeOK'
  <2>1. NewMessage(m, pid)
    BY <1>2 DEF Sent0, Sent12
  <2>2. [type |-> "publish", uid |-> m, pid |-> pid] \in FromBroker
    BY DEF FromBroker
  <2>3. to_client' \in Seq(FromBroker) /\ to_broker' \in Seq(Packets)
    BY <2>1, <2>2, PushFacts DEF NewMessage, FlowTypeOK
  <2>4. [uid |-> m, pid |-> pid, released |-> FALSE] \in InFlight
    BY DEF InFlight
  <2>5. inflight' \in Seq(InFlight) /\ completed' \in SUBSET Msgs
    BY <1>2, <2>4, PushFacts DEF Sent0, Sent12, FlowTypeOK
  <2> QED BY <1>1, <2>1, <2>3, <2>5 DEF FlowTypeOK, NewMessage
<1>3. ASSUME NEW k \in 1 .. Len(inflight), GotPubrec(k) \/ GotLast(k)
      PROVE  FlowTypeOK'
  <2>0. GotAck
    BY <1>3, Zenon DEF GotPubrec, GotLast
  <2>1. to_broker' \in Seq(Packets)
    BY <2>0, TailFacts DEF GotAck, FlowTypeOK
  <2>2. inflight[k].pid \in PidSet /\ inflight[k].uid \in Msgs /\ inflight[k] \in InFlight
    BY PacketTypes DEF FlowTypeOK
  <2>3. to_client' \in Seq(FromBroker)
    <3>1. [type |-> "pubrel", pid |-> inflight[k].pid] \in FromBroker
      BY <2>2 DEF FromBroker
    <3>2. CASE GotPubrec(k)
      BY <3>1, <3>2, PushFacts DEF GotPubrec, FlowTypeOK
    <3>3. CASE GotLast(k)
      BY <3>3 DEF GotLast, FlowTypeOK
    <3> QED BY <1>3, <3>2, <3>3
  <2>4. inflight' \in Seq(InFlight)
    <3>1. CASE GotPubrec(k)
      <4>1. [inflight[k] EXCEPT !.released = TRUE] \in InFlight
        BY <2>2 DEF InFlight
      <4>2. inflight' = [inflight EXCEPT ![k] = [inflight[k] EXCEPT !.released = TRUE]]
        BY <3>1 DEF GotPubrec
      <4> QED BY <4>1, <4>2 DEF FlowTypeOK
    <3>2. CASE GotLast(k)
      BY <3>2, RemoveFacts DEF GotLast, FlowTypeOK
    <3> QED BY <1>3, <3>1, <3>2
  <2>5. completed' \in SUBSET Msgs
    BY <1>3, <2>2 DEF GotPubrec, GotLast, FlowTypeOK
  <2> QED BY <1>1, <1>3, <2>1, <2>3, <2>4, <2>5 DEF FlowTypeOK, GotPubrec, GotLast, GotAck
<1>4. CASE Ignored
  <2>1. to_broker' \in Seq(Packets)
    BY <1>4, TailFacts DEF Ignored, GotAck, FlowTypeOK
  <2> QED BY <1>1, <1>4, <2>1 DEF FlowTypeOK, Ignored, GotAck
<1> QED BY <1>2, <1>3, <1>4, AckCases, SendMessageCases

\* Nothing happens.
LEMMA StutterTyped == FlowTypeOK /\ UNCHANGED flowVars => FlowTypeOK'
BY TypeSplit, TypeSplitNext DEF FlowTypeOK, flowVars, ClientTyped, QueuesTyped

\* FlowTypeOK: every push into a queue of receives2.rs finds room in its array,
\* whatever the broker repeats and whenever the connection breaks.
THEOREM ReceivesTyped == FlowSpec => []FlowTypeOK
<1>1. FlowTypeOK /\ [FlowNext]_flowVars => FlowTypeOK'
  BY QuietTyped, TakeTyped, BrokerTyped, StutterTyped DEF FlowNext
<1> QED BY <1>1, FlowInitTyped, PTL DEF FlowSpec

-----------------------------------------------------------------------------
(* At most once                                                              *)

Channel == <<to_client, inflight, completed, delivered>>

\* No step but a PUBREL makes the client forget an id.
LEMMA OpenKept ==
    ASSUME FlowTypeOK, SendStep \/ Send \/ Lose \/ Connect
    PROVE  \A p : Open(send_pubrec, await_pubrel, p) => Open(send_pubrec', await_pubrel', p)
<1>1. QueuesTyped
  BY TypeSplit DEF FlowTypeOK, ClientTyped
<1>2. CASE WritePubrec
  <2>1. /\ \A p : In(send_pubrec, p) => In(send_pubrec', p) \/ p = send_pubrec[i]
        /\ send_pubrec[i] \in PidSet
    BY <1>1, <1>2, RemoveIn DEF WritePubrec, QueuesTyped
  <2>2. \A p : In(await_pubrel', p) <=> In(await_pubrel, p) \/ p = send_pubrec[i]
    BY <1>1, <1>2, <2>1, PushIn DEF WritePubrec, QueuesTyped
  <2> QED BY <2>1, <2>2, HasIn DEF Open
<1>3. CASE UNCHANGED <<send_pubrec, await_pubrel>>
  BY <1>3 DEF Open, Has
<1>4. WritePubrec \/ UNCHANGED <<send_pubrec, await_pubrel>>
  BY SendCases DEF Send, Lose, Connect, WritePuback, WritePubcomp, Scan, queueVars
<1> QED BY <1>2, <1>3, <1>4

\* A step that leaves the handed over messages and the broker alone.
LEMMA QuietOnce ==
    ASSUME OnceInv, UNCHANGED Channel, \A p : Open(send_pubrec, await_pubrel, p) => Open(send_pubrec', await_pubrel', p)
    PROVE  OnceParts'
<1>1. Known' = Known /\ \A k, x : (Releasing(to_client', k, x) <=> Releasing(to_client, k, x))
                                /\ (Publishing(to_client', k, x) <=> Publishing(to_client, k, x))
  BY DEF Channel, Known, Releasing, Publishing
<1>2. to_client' = to_client /\ inflight' = inflight /\ completed' = completed /\ delivered' = delivered
  BY DEF Channel
<1>3. AtMostOnce' /\ BrokerSound'
  BY <1>2 DEF OnceInv, OnceParts, AtMostOnce, BrokerSound
<1>4. ClientBehind'
  BY <1>1, <1>2 DEF OnceInv, OnceParts, ClientBehind
<1>5. Remembered'
  BY <1>1, <1>2 DEF OnceInv, OnceParts, Remembered, RemembersRepeat, RemembersComing, ForeignPubrel
<1> QED BY <1>3, <1>4, <1>5 DEF OnceParts

\* The client handles the first packet under way.  If it is a PUBLISH whose
\* message is handed over, the id is remembered from then on.
LEMMA TakeOnce ==
    ASSUME OnceInv, Took,
           \A p : Open(send_pubrec, await_pubrel, p) /\ ~Releasing(to_client, 1, p) => Open(send_pubrec', await_pubrel', p),
           \/ UNCHANGED delivered
           \/ /\ to_client[1].type = "publish" /\ Given(to_client[1].uid)
              /\ Qos[to_client[1].uid] = 2 =>
                    delivered[to_client[1].uid] = 0 /\ Open(send_pubrec', await_pubrel', to_client[1].pid)
    PROVE  OnceParts'
<1> DEFINE n == Len(to_client)
           h == to_client[1]
<1>1. /\ n \in Nat \ {0}
      /\ Len(to_client') = n - 1
      /\ \A k \in 1 .. n - 1 : to_client'[k] = to_client[k + 1]
      /\ UNCHANGED <<inflight, completed>>
  BY TailFacts DEF OnceInv, FlowTypeOK, Took, brokerVars
<1>2. Known' = Known
  BY <1>1 DEF Known
<1>3. /\ \A k, x : k \in 1 .. n - 1 => (Releasing(to_client', k, x) <=> Releasing(to_client, k + 1, x))
      /\ \A k, x : k \in 1 .. n - 1 => (Publishing(to_client', k, x) <=> Publishing(to_client, k + 1, x))
  BY <1>1 DEF Releasing, Publishing
<1>4. h.type = "publish" => h.uid \in Msgs
  BY <1>1, PacketTypes DEF OnceInv
<1>5. /\ \A m \in Msgs : delivered[m] \in Nat /\ delivered'[m] \in Nat
      /\ \A m \in Msgs : delivered'[m] # delivered[m] => Publishing(to_client, 1, m)
      /\ \A m \in Msgs : delivered'[m] # delivered[m] /\ Qos[m] = 2
            => delivered[m] = 0 /\ delivered'[m] = 1 /\ Open(send_pubrec', await_pubrel', h.pid)
  <2>1. delivered \in [Msgs -> Nat]
    BY DEF OnceInv, FlowTypeOK, TypeOK
  <2>2. CASE UNCHANGED delivered
    BY <2>1, <2>2
  <2>3. CASE /\ h.type = "publish" /\ Given(h.uid)
             /\ Qos[h.uid] = 2 => delivered[h.uid] = 0 /\ Open(send_pubrec', await_pubrel', h.pid)
    <3>1. \A m \in Msgs : delivered'[m] = IF m = h.uid THEN delivered[m] + 1 ELSE delivered[m]
      BY <2>1, <2>3 DEF Given
    <3>2. \A m \in Msgs : delivered[m] \in Nat /\ delivered'[m] \in Nat
      BY <2>1, <3>1
    <3>3. \A m \in Msgs : delivered'[m] # delivered[m] => m = h.uid
      BY <3>1
    <3> QED BY <2>3, <3>1, <3>2, <3>3 DEF Publishing
  <2> QED BY <2>2, <2>3
<1>6. \A m \in Msgs : delivered'[m] # delivered[m] /\ Qos[m] = 2
            => delivered[m] = 0 /\ delivered'[m] = 1 /\ Open(send_pubrec', await_pubrel', h.pid)
  BY <1>5
<1> HIDE DEF n, h
<1>7. AtMostOnce'
  BY <1>5, <1>6 DEF OnceInv, OnceParts, AtMostOnce
<1>8. BrokerSound'
  BY <1>1 DEF OnceInv, OnceParts, BrokerSound
<1>9. ClientBehind'
  <2>1. ASSUME NEW m \in Msgs, delivered'[m] > 0 PROVE m \in Known'
    <3>1. delivered[m] > 0 \/ Publishing(to_client, 1, m)
      BY <1>5, <2>1
    <3>2. 1 \in 1 .. Len(to_client)
      BY <1>1 DEF n
    <3> QED BY <1>2, <3>1, <3>2 DEF OnceInv, OnceParts, ClientBehind, Publishing
  <2>2. \A k \in 1 .. Len(to_client)' : (to_client[k].type = "publish")' => to_client[k].uid' \in Known'
    BY <1>1, <1>2 DEF OnceInv, OnceParts, ClientBehind, n
  <2>3. ASSUME NEW k \in 1 .. Len(to_client)', NEW l \in 1 .. Len(to_client)',
               to_client'[k].type = "publish", Publishing(to_client', l, to_client'[k].uid)
        PROVE  k = l
    BY <1>1, <2>3 DEF OnceInv, OnceParts, ClientBehind, n, Publishing
  <2>4. ASSUME NEW k \in 1 .. Len(to_client)', NEW l \in 1 .. Len(inflight)',
               Publishing(to_client', k, inflight'[l].uid)
        PROVE  to_client'[k].pid = inflight'[l].pid
    <3>1. l \in 1 .. Len(inflight) /\ inflight'[l] = inflight[l]
      BY <1>1
    <3>2. k \in 1 .. n - 1 /\ k + 1 \in 1 .. Len(to_client) /\ to_client'[k] = to_client[k + 1]
      BY <1>1 DEF n
    <3>3. Publishing(to_client, k + 1, inflight[l].uid)
      BY <2>4, <3>1, <3>2 DEF Publishing
    <3> QED BY <3>1, <3>2, <3>3 DEF OnceInv, OnceParts, ClientBehind
  <2> QED BY <2>1, <2>2, <2>3, <2>4 DEF ClientBehind
<1>10. RemembersRepeat'
  <2> SUFFICES ASSUME NEW k \in 1 .. Len(inflight), Qos[inflight[k].uid] = 2,
                      ~inflight[k].released, delivered'[inflight[k].uid] > 0
               PROVE  Open(send_pubrec', await_pubrel', inflight[k].pid)
    BY <1>1 DEF RemembersRepeat, Open
  <2>1. inflight[k].uid \in Msgs
    BY PacketTypes DEF OnceInv
  <2>2. 1 \in 1 .. Len(to_client)
    BY <1>1 DEF n
  <2>3. CASE delivered'[inflight[k].uid] # delivered[inflight[k].uid]
    <3>1. Publishing(to_client, 1, inflight[k].uid) /\ Open(send_pubrec', await_pubrel', h.pid)
      BY <1>5, <1>6, <2>1, <2>3
    <3>2. h.pid = inflight[k].pid
      BY <2>2, <3>1 DEF OnceInv, OnceParts, ClientBehind, h
    <3> QED BY <3>1, <3>2
  <2>4. CASE delivered'[inflight[k].uid] = delivered[inflight[k].uid]
    <3>1. Open(send_pubrec, await_pubrel, inflight[k].pid)
      BY <2>4 DEF OnceInv, OnceParts, Remembered, RemembersRepeat
    <3>2. delivered[inflight[k].uid] # 0
      BY <1>5, <2>1, <2>4
    <3>3. ~Releasing(to_client, 1, inflight[k].pid)
      BY <2>2, <3>2 DEF OnceInv, OnceParts, Remembered, ForeignPubrel
    <3> QED BY <3>1, <3>3
  <2> QED BY <2>3, <2>4
<1>11. RemembersComing'
  <2> SUFFICES ASSUME NEW k \in 1 .. n - 1, to_client[k + 1].type = "publish",
                      Qos[to_client[k + 1].uid] = 2, delivered'[to_client[k + 1].uid] > 0
               PROVE  /\ Open(send_pubrec', await_pubrel', to_client[k + 1].pid)
                      /\ \A j \in 1 .. k - 1 : ~Releasing(to_client, j + 1, to_client[k + 1].pid)
    <3> SUFFICES ASSUME NEW k \in 1 .. Len(to_client'), to_client'[k].type = "publish",
                        Qos[to_client'[k].uid] = 2, delivered'[to_client'[k].uid] > 0
                 PROVE  /\ Open(send_pubrec', await_pubrel', to_client'[k].pid)
                        /\ \A j \in 1 .. k - 1 : ~Releasing(to_client', j, to_client'[k].pid)
      BY DEF RemembersComing
    <3>1. k \in 1 .. n - 1 /\ to_client'[k] = to_client[k + 1]
          /\ \A j \in 1 .. k - 1 : j \in 1 .. n - 1
      BY <1>1
    <3> QED BY <1>3, <3>1
  <2> DEFINE q == to_client[k + 1]
  <2>1. k + 1 \in 1 .. Len(to_client) /\ 1 \in 1 .. Len(to_client) /\ k + 1 # 1 /\ 1 \in 1 .. (k + 1) - 1
    BY <1>1 DEF n
  <2>2. q.uid \in Msgs
    BY <2>1, PacketTypes DEF OnceInv
  <2>3. ~Publishing(to_client, 1, q.uid)
    BY <2>1 DEF OnceInv, OnceParts, ClientBehind
  <2>4. delivered[q.uid] > 0
    BY <1>5, <2>2, <2>3
  <2>5. Open(send_pubrec, await_pubrel, q.pid) /\ \A j \in 1 .. (k + 1) - 1 : ~Releasing(to_client, j, q.pid)
    BY <2>1, <2>4 DEF OnceInv, OnceParts, Remembered, RemembersComing
  <2>6. Open(send_pubrec', await_pubrel', q.pid)
    BY <2>1, <2>5
  <2>7. \A j \in 1 .. k - 1 : j + 1 \in 1 .. (k + 1) - 1
    BY <1>1
  <2> QED BY <2>5, <2>6, <2>7
<1>12. ForeignPubrel'
  <2> SUFFICES ASSUME NEW k \in 1 .. n - 1, NEW l \in 1 .. Len(inflight),
                      Releasing(to_client, k + 1, inflight[l].pid), ~inflight[l].released
               PROVE  /\ delivered'[inflight[l].uid] = 0
                      /\ \E j \in k + 1 .. n - 1 : Publishing(to_client, j + 1, inflight[l].uid)
    <3> SUFFICES ASSUME NEW k \in 1 .. Len(to_client'), NEW l \in 1 .. Len(inflight),
                        Releasing(to_client', k, inflight[l].pid), ~inflight[l].released
                 PROVE  /\ delivered'[inflight[l].uid] = 0
                        /\ \E j \in k + 1 .. Len(to_client') : Publishing(to_client', j, inflight[l].uid)
      BY <1>1 DEF ForeignPubrel
    <3>1. k \in 1 .. n - 1 /\ Len(to_client') = n - 1
          /\ \A j \in k + 1 .. n - 1 : j \in 1 .. n - 1
      BY <1>1
    <3> QED BY <1>3, <3>1
  <2>1. k + 1 \in 1 .. Len(to_client) /\ 1 \in 1 .. Len(to_client)
    BY <1>1 DEF n
  <2>2. /\ delivered[inflight[l].uid] = 0
        /\ \E j \in (k + 1) + 1 .. n : Publishing(to_client, j, inflight[l].uid)
    BY <2>1 DEF OnceInv, OnceParts, Remembered, ForeignPubrel, n
  <2>3. PICK j \in (k + 1) + 1 .. n : Publishing(to_client, j, inflight[l].uid)
    BY <2>2
  <2>4. j \in 1 .. Len(to_client) /\ j # 1 /\ j - 1 \in k + 1 .. n - 1 /\ (j - 1) + 1 = j
    BY <1>1 DEF n
  <2>5. ~Publishing(to_client, 1, inflight[l].uid)
    BY <2>1, <2>3, <2>4 DEF OnceInv, OnceParts, ClientBehind, Publishing
  <2>6. inflight[l].uid \in Msgs
    BY PacketTypes DEF OnceInv
  <2> QED BY <1>5, <2>2, <2>3, <2>4, <2>5, <2>6
<1> QED BY <1>7, <1>8, <1>9, <1>10, <1>11, <1>12 DEF OnceParts, Remembered

\* A handler of the client, with what it remembers.
LEMMA PacketOnce ==
    ASSUME OnceInv, process_packet
    PROVE  OnceParts'
<1> DEFINE p == to_client[1].pid
           m == to_client[1].uid
<1>1. QueuesTyped /\ FlowTypeOK
  BY TypeSplit DEF OnceInv, FlowTypeOK, ClientTyped
<1>2. Took
  BY <1>1, TakeCases DEF Refused, GotQuietly, Got1, Repeated, Unfit, Got2, Queued2, Released
<1>3. 1 \in 1 .. Len(to_client) /\ p \in PidSet /\ (to_client[1].type = "publish" => m \in Msgs)
  <2>1. 1 \in 1 .. Len(to_client)
    BY <1>1, <1>2, TailFacts DEF Took, FlowTypeOK
  <2> QED BY <1>1, <2>1, PacketTypes
<1> HIDE DEF p, m
<1>4. CASE UNCHANGED <<send_pubrec, await_pubrel>> /\ UNCHANGED delivered
  BY <1>2, <1>4, TakeOnce
<1>5. CASE GotQuietly \/ Got1
  <2>1. to_client[1].type = "publish" /\ Given(to_client[1].uid) /\ Qos[to_client[1].uid] # 2
        /\ UNCHANGED <<send_pubrec, await_pubrel>>
    BY <1>3, <1>5, ReceivesAssumption DEF GotQuietly, Got1, queueVars, m
  <2> QED BY <1>2, <2>1, TakeOnce
<1>6. ASSUME Queued2
      PROVE  \A x : Open(send_pubrec', await_pubrel', x)
                      <=> Open(send_pubrec, await_pubrel, x) \/ x = p
  <2>1. \A x : In(send_pubrec', x) <=> In(send_pubrec, x) \/ x = p
    BY <1>1, <1>3, <1>6, PushIn DEF Queued2, QueuesTyped, p
  <2>2. UNCHANGED await_pubrel
    BY <1>6 DEF Queued2
  <2> QED BY <2>1, <2>2, HasIn DEF Open
<1>7. CASE Repeated \/ Unfit
  <2>1. Queued2 /\ UNCHANGED delivered
    BY <1>7 DEF Repeated, Unfit
  <2> QED BY <1>2, <1>6, <2>1, TakeOnce
<1>8. CASE Got2
  <2>1. Queued2 /\ to_client[1].type = "publish" /\ Given(to_client[1].uid) /\ ~is_dup(p) /\ Qos[m] = 2
    BY <1>8 DEF Got2, Queued2, p, m
  <2>2. ~Open(send_pubrec, await_pubrel, p)
    BY <2>1 DEF is_dup, Open
  <2>3. ~(delivered[m] > 0)
    BY <1>3, <2>1, <2>2 DEF OnceInv, OnceParts, Remembered, RemembersComing, p, m
  <2>4. delivered[m] \in Nat
    BY <1>1, <1>3, <2>1, PacketTypes
  <2>5. delivered[m] = 0
    BY <2>3, <2>4
  <2>6. Open(send_pubrec', await_pubrel', p)
    BY <1>6, <2>1
  <2>7. \A x : Open(send_pubrec, await_pubrel, x) /\ ~Releasing(to_client, 1, x)
                 => Open(send_pubrec', await_pubrel', x)
    BY <1>6, <2>1
  <2> QED BY <1>2, <2>1, <2>5, <2>6, <2>7, TakeOnce DEF p, m
<1>9. CASE Released
  <2>1. \A x : x # p /\ In(await_pubrel, x) => In(await_pubrel', x)
    <3>1. CASE UNCHANGED await_pubrel
      BY <3>1
    <3>2. ASSUME NEW k \in 1 .. Len(await_pubrel), await_pubrel[k] = p,
                 await_pubrel' = Remove(await_pubrel, k)
          PROVE  \A x : x # p /\ In(await_pubrel, x) => In(await_pubrel', x)
      BY <1>1, <3>2, RemoveIn DEF QueuesTyped
    <3> QED BY <1>9, <3>1, <3>2 DEF Released, forget, p
  <2>2. UNCHANGED <<send_pubrec, delivered>> /\ Releasing(to_client, 1, p)
    BY <1>9 DEF Released, Releasing, p
  <2>3. \A x : Open(send_pubrec, await_pubrel, x) /\ ~Releasing(to_client, 1, x)
                 => Open(send_pubrec', await_pubrel', x)
    BY <2>1, <2>2, HasIn DEF Open
  <2> QED BY <1>2, <2>2, <2>3, TakeOnce
<1>10. Refused => UNCHANGED <<send_pubrec, await_pubrel>> /\ UNCHANGED delivered
  BY DEF Refused, queueVars
<1> QED BY <1>1, <1>4, <1>5, <1>7, <1>8, <1>9, <1>10, TakeCases

\* A message in flight is known to the broker.
LEMMA KnownUids ==
    ASSUME FlowTypeOK
    PROVE  \A k \in 1 .. Len(inflight) : inflight[k].uid \in Known /\ inflight[k].pid \in UsedPids
BY DEF Known, UsedPids

\* A new message: nobody has heard of it, and no message in flight has its id.
LEMMA SentOnce ==
    ASSUME OnceInv, NEW m \in Msgs, NEW pid \in PidSet, Sent0(m, pid) \/ Sent12(m, pid)
    PROVE  OnceParts'
<1> DEFINE n == Len(to_client)
           c == to_client'
           f == inflight'
           r == Len(inflight)
           new == [type |-> "publish", uid |-> m, pid |-> pid]
           entry == [uid |-> m, pid |-> pid, released |-> FALSE]
<1>1. FlowTypeOK /\ NewMessage(m, pid) /\ UNCHANGED <<send_pubrec, await_pubrel, delivered>>
  BY DEF OnceInv, Sent0, Sent12, NewMessage, vars
<1>2. /\ n \in Nat /\ Len(c) = n + 1
      /\ \A k \in 1 .. n : c[k] = to_client[k]
      /\ c[n + 1] = new
  <2>1. new \in FromBroker
    BY DEF FromBroker
  <2> QED BY <1>1, <2>1, PushFacts DEF FlowTypeOK, NewMessage
<1>3. /\ r \in Nat /\ (Len(f) = r \/ (Len(f) = r + 1 /\ f[r + 1] = entry /\ Qos[m] > 0))
      /\ \A k \in 1 .. r : f[k] = inflight[k]
  <2>1. entry \in InFlight
    BY DEF InFlight
  <2>2. CASE Sent0(m, pid)
    BY <1>1, <2>2 DEF FlowTypeOK, Sent0
  <2>3. CASE Sent12(m, pid)
    BY <1>1, <2>1, <2>3, PushFacts DEF FlowTypeOK, Sent12
  <2> QED BY <2>2, <2>3
<1>4. entry.uid = m /\ entry.pid = pid /\ new.uid = m /\ new.pid = pid /\ new.type = "publish"
      /\ entry.released = FALSE
  OBVIOUS
<1>5. \A x : x \in Known' <=> x \in Known \/ x = m
  <2>1. CASE Sent0(m, pid)
    BY <2>1 DEF Sent0, Known
  <2>2. CASE Sent12(m, pid)
    <3>1. completed' = completed /\ Len(f) = r + 1
      BY <1>1, <2>2, PushFacts DEF Sent12, FlowTypeOK, InFlight
    <3>2. \A x : (\E k \in 1 .. Len(f) : f[k].uid = x) <=> (\E k \in 1 .. r : inflight[k].uid = x) \/ x = m
      <4> HIDE DEF f, r, entry
      <4>1. \A x : (\E k \in 1 .. Len(f) : f[k].uid = x) => (\E k \in 1 .. r : inflight[k].uid = x) \/ x = m
        BY <1>3, <1>4, <3>1
      <4>2. r + 1 \in 1 .. Len(f) /\ f[r + 1].uid = m /\ \A k \in 1 .. r : k \in 1 .. Len(f)
        BY <1>3, <1>4, <3>1
      <4> QED BY <1>3, <4>1, <4>2
    <3> QED BY <3>1, <3>2 DEF Known
  <2> QED BY <2>1, <2>2
<1>6. /\ \A k \in 1 .. n : /\ to_client[k].type = "publish" => to_client[k].uid # m
                           /\ ~Publishing(to_client, k, m)
      /\ \A k \in 1 .. r : inflight[k].uid # m /\ inflight[k].pid # pid
      /\ ~(delivered[m] > 0) /\ delivered[m] \in Nat
  BY <1>1, KnownUids, PacketTypes DEF OnceInv, OnceParts, ClientBehind, NewMessage, Publishing
<1>7. delivered[m] = 0
  BY <1>6
<1>8. /\ \A x : \A k \in 1 .. n : /\ Publishing(c, k, x) <=> Publishing(to_client, k, x)
                                  /\ Releasing(c, k, x) <=> Releasing(to_client, k, x)
      /\ \A x : ~Releasing(c, n + 1, x)
      /\ \A x : Publishing(c, n + 1, x) <=> x = m
  BY <1>2, <1>4 DEF Publishing, Releasing
<1>9. AtMostOnce'
  BY <1>1 DEF OnceInv, OnceParts, AtMostOnce
<1>10. BrokerSound'
  <2> HIDE DEF f, r, entry
  <2>1. \A k \in 1 .. Len(f) : Qos[f[k].uid] > 0
    BY <1>3, <1>4 DEF OnceInv, OnceParts, BrokerSound, r
  <2>2. \A k, l \in 1 .. Len(f) : f[k].uid = f[l].uid => k = l
    BY <1>3, <1>4, <1>6 DEF OnceInv, OnceParts, BrokerSound, r
  <2>3. \A k, l \in 1 .. Len(f) : f[k].pid = f[l].pid => k = l
    BY <1>3, <1>4, <1>6 DEF OnceInv, OnceParts, BrokerSound, r
  <2> QED BY <2>1, <2>2, <2>3 DEF BrokerSound, f
<1>11. ClientBehind'
  <2> HIDE DEF f, r, entry, c, n, new
  <2>1. \A x \in Msgs : delivered[x] > 0 => x \in Known'
    BY <1>5 DEF OnceInv, OnceParts, ClientBehind
  <2>2. \A k \in 1 .. Len(c) : c[k].type = "publish" => c[k].uid \in Known'
    BY <1>2, <1>4, <1>5 DEF OnceInv, OnceParts, ClientBehind, n
  <2>3. \A k, l \in 1 .. Len(c) : c[k].type = "publish" /\ Publishing(c, l, c[k].uid) => k = l
    <3>1. ASSUME NEW k \in 1 .. n, NEW l \in 1 .. n, c[k].type = "publish", Publishing(c, l, c[k].uid)
          PROVE  k = l
      BY <1>2, <1>8, <3>1 DEF OnceInv, OnceParts, ClientBehind, n
    <3>2. \A k \in 1 .. n : c[k].type = "publish" => ~Publishing(c, n + 1, c[k].uid)
      BY <1>2, <1>6, <1>8
    <3>3. \A k \in 1 .. n : ~Publishing(c, k, c[n + 1].uid)
      BY <1>2, <1>4, <1>6, <1>8
    <3>4. \A k \in 1 .. Len(c) : k \in 1 .. n \/ k = n + 1
      BY <1>2
    <3> QED BY <3>1, <3>2, <3>3, <3>4
  <2>4. \A k \in 1 .. Len(c), l \in 1 .. Len(f) : Publishing(c, k, f[l].uid) => c[k].pid = f[l].pid
    <3>1. \A k \in 1 .. n, l \in 1 .. r : Publishing(c, k, f[l].uid) => c[k].pid = f[l].pid
      BY <1>2, <1>3, <1>8 DEF OnceInv, OnceParts, ClientBehind, n, r
    <3>2. \A l \in 1 .. r : ~Publishing(c, n + 1, f[l].uid)
      BY <1>3, <1>6, <1>8
    <3>3. \A k \in 1 .. n : ~Publishing(c, k, m)
      BY <1>6, <1>8
    <3>4. \A l \in 1 .. Len(f) : l \in 1 .. r \/ f[l] = entry
      BY <1>3
    <3>5. \A k \in 1 .. Len(c) : k \in 1 .. n \/ (k = n + 1 /\ c[k].pid = pid)
      BY <1>2, <1>4
    <3> QED BY <1>4, <3>1, <3>2, <3>3, <3>4, <3>5
  <2> QED BY <1>1, <2>1, <2>2, <2>3, <2>4 DEF ClientBehind, c, f
<1>12. RemembersRepeat'
  <2> HIDE DEF f, r, entry
  <2>1. \A k \in 1 .. Len(f) : Qos[f[k].uid] = 2 /\ ~f[k].released /\ delivered[f[k].uid] > 0
           => Open(send_pubrec, await_pubrel, f[k].pid)
    BY <1>3, <1>4, <1>6 DEF OnceInv, OnceParts, Remembered, RemembersRepeat, r
  <2> QED BY <1>1, <2>1 DEF RemembersRepeat, f
<1>13. RemembersComing'
  <2> HIDE DEF c, n, new
  <2>1. \A k \in 1 .. n : c[k].type = "publish" /\ Qos[c[k].uid] = 2 /\ delivered[c[k].uid] > 0
           => /\ Open(send_pubrec, await_pubrel, c[k].pid)
              /\ \A j \in 1 .. k - 1 : ~Releasing(c, j, c[k].pid)
    <3>1. \A k \in 1 .. n : \A j \in 1 .. k - 1 : j \in 1 .. n
      BY <1>2
    <3> QED BY <1>2, <1>8, <3>1 DEF OnceInv, OnceParts, Remembered, RemembersComing, n
  <2>2. \A k \in 1 .. Len(c) : k \in 1 .. n \/ ~(delivered[c[k].uid] > 0)
    BY <1>2, <1>4, <1>6
  <2> QED BY <1>1, <2>1, <2>2 DEF RemembersComing, c
<1>14. ForeignPubrel'
  <2> HIDE DEF f, r, entry, c, n, new
  <2> SUFFICES ASSUME NEW k \in 1 .. Len(c), NEW l \in 1 .. Len(f),
                      Releasing(c, k, f[l].pid), ~f[l].released
               PROVE  /\ delivered[f[l].uid] = 0
                      /\ \E j \in k + 1 .. Len(c) : Publishing(c, j, f[l].uid)
    BY <1>1 DEF ForeignPubrel, c, f
  <2>1. k \in 1 .. n
    <3>1. k # n + 1
      BY <1>8
    <3> QED BY <1>2, <3>1
  <2>2. CASE l \in 1 .. r
    <3>1. f[l] = inflight[l] /\ Releasing(to_client, k, inflight[l].pid)
      BY <1>3, <1>8, <2>1, <2>2
    <3>2. /\ delivered[f[l].uid] = 0
          /\ \E j \in k + 1 .. n : Publishing(to_client, j, f[l].uid)
      BY <2>1, <2>2, <3>1 DEF OnceInv, OnceParts, Remembered, ForeignPubrel, n, r
    <3>3. \A j \in k + 1 .. n : j \in 1 .. n /\ j \in k + 1 .. Len(c)
      BY <1>2, <2>1
    <3> QED BY <1>8, <3>2, <3>3
  <2>3. CASE f[l] = entry
    <3>1. n + 1 \in k + 1 .. Len(c)
      BY <1>2, <2>1
    <3> QED BY <1>4, <1>7, <1>8, <2>3, <3>1
  <2>4. l \in 1 .. r \/ f[l] = entry
    BY <1>3
  <2> QED BY <2>2, <2>3, <2>4
<1> QED BY <1>9, <1>10, <1>11, <1>12, <1>13, <1>14 DEF OnceParts, Remembered

\* The broker takes a PUBREC: it will not repeat the PUBLISH any more.
LEMMA PubrecOnce ==
    ASSUME OnceInv, NEW k0 \in 1 .. Len(inflight), GotPubrec(k0)
    PROVE  OnceParts'
<1> DEFINE n == Len(to_client)
           c == to_client'
           f == inflight'
           r == Len(inflight)
           p == inflight[k0].pid
           new == [type |-> "pubrel", pid |-> p]
<1>1. FlowTypeOK /\ UNCHANGED <<send_pubrec, await_pubrel, delivered, completed>>
  BY DEF OnceInv, GotPubrec, GotAck, vars
<1>2. /\ n \in Nat /\ Len(c) = n + 1
      /\ \A k \in 1 .. n : c[k] = to_client[k]
      /\ c[n + 1] = new
  <2>1. new \in FromBroker
    BY <1>1, PacketTypes DEF FromBroker
  <2> QED BY <1>1, <2>1, PushFacts DEF FlowTypeOK, GotPubrec
<1>3. /\ r \in Nat /\ Len(f) = r
      /\ \A k \in 1 .. r : f[k].uid = inflight[k].uid /\ f[k].pid = inflight[k].pid
      /\ \A k \in 1 .. r : k # k0 => f[k] = inflight[k]
  <2>1. \A k \in 1 .. r : inflight[k] \in InFlight
    BY <1>1 DEF FlowTypeOK
  <2>2. f = [inflight EXCEPT ![k0] = [inflight[k0] EXCEPT !.released = TRUE]]
    BY DEF GotPubrec
  <2> QED BY <1>1, <2>1, <2>2 DEF FlowTypeOK, InFlight
<1>4. f[k0].released
  BY <1>1 DEF GotPubrec, FlowTypeOK, InFlight
<1>5. Known' = Known
  BY <1>1, <1>3 DEF Known
<1>6. new.type = "pubrel" /\ new.pid = p
  OBVIOUS
<1>7. /\ \A x : \A k \in 1 .. n : /\ Publishing(c, k, x) <=> Publishing(to_client, k, x)
                                  /\ Releasing(c, k, x) <=> Releasing(to_client, k, x)
      /\ \A x : ~Publishing(c, n + 1, x)
      /\ \A x : Releasing(c, n + 1, x) <=> x = p
  BY <1>2, <1>6 DEF Publishing, Releasing
<1>8. AtMostOnce'
  BY <1>1 DEF OnceInv, OnceParts, AtMostOnce
<1> HIDE DEF f, c, n, r, new, p
<1>9. BrokerSound'
  <2>1. \A k \in 1 .. Len(f) : Qos[f[k].uid] > 0
    BY <1>3 DEF OnceInv, OnceParts, BrokerSound, r
  <2>2. \A k, l \in 1 .. Len(f) : f[k].uid = f[l].uid => k = l
    BY <1>3 DEF OnceInv, OnceParts, BrokerSound, r
  <2>3. \A k, l \in 1 .. Len(f) : f[k].pid = f[l].pid => k = l
    BY <1>3 DEF OnceInv, OnceParts, BrokerSound, r
  <2> QED BY <2>1, <2>2, <2>3 DEF BrokerSound, f
<1>10. \A k \in 1 .. Len(c) : k \in 1 .. n \/ (k = n + 1 /\ c[k].type # "publish")
  BY <1>2, <1>6
<1>11. ClientBehind'
  <2>1. \A x \in Msgs : delivered[x] > 0 => x \in Known'
    BY <1>5 DEF OnceInv, OnceParts, ClientBehind
  <2>2. \A k \in 1 .. Len(c) : c[k].type = "publish" => c[k].uid \in Known'
    BY <1>2, <1>5, <1>10 DEF OnceInv, OnceParts, ClientBehind, n
  <2>3. \A k, l \in 1 .. Len(c) : c[k].type = "publish" /\ Publishing(c, l, c[k].uid) => k = l
    <3>1. ASSUME NEW k \in 1 .. n, NEW l \in 1 .. n, c[k].type = "publish", Publishing(c, l, c[k].uid)
          PROVE  k = l
      BY <1>2, <1>7, <3>1 DEF OnceInv, OnceParts, ClientBehind, n
    <3> QED BY <1>7, <1>10, <3>1
  <2>4. \A k \in 1 .. Len(c), l \in 1 .. Len(f) : Publishing(c, k, f[l].uid) => c[k].pid = f[l].pid
    <3>1. \A k \in 1 .. n, l \in 1 .. r : Publishing(c, k, f[l].uid) => c[k].pid = f[l].pid
      BY <1>2, <1>3, <1>7 DEF OnceInv, OnceParts, ClientBehind, n, r
    <3> QED BY <1>3, <1>7, <1>10, <3>1
  <2> QED BY <1>1, <2>1, <2>2, <2>3, <2>4 DEF ClientBehind, c, f
<1>12. RemembersRepeat'
  <2>1. \A k \in 1 .. Len(f) : Qos[f[k].uid] = 2 /\ ~f[k].released /\ delivered[f[k].uid] > 0
           => Open(send_pubrec, await_pubrel, f[k].pid)
    BY <1>3, <1>4 DEF OnceInv, OnceParts, Remembered, RemembersRepeat, r
  <2> QED BY <1>1, <2>1 DEF RemembersRepeat, f
<1>13. RemembersComing'
  <2>1. \A k \in 1 .. n : c[k].type = "publish" /\ Qos[c[k].uid] = 2 /\ delivered[c[k].uid] > 0
           => /\ Open(send_pubrec, await_pubrel, c[k].pid)
              /\ \A j \in 1 .. k - 1 : ~Releasing(c, j, c[k].pid)
    <3>1. \A k \in 1 .. n : \A j \in 1 .. k - 1 : j \in 1 .. n
      BY <1>2
    <3> QED BY <1>2, <1>7, <3>1 DEF OnceInv, OnceParts, Remembered, RemembersComing, n
  <2> QED BY <1>1, <1>10, <2>1 DEF RemembersComing, c
<1>14. ForeignPubrel'
  <2> SUFFICES ASSUME NEW k \in 1 .. Len(c), NEW l \in 1 .. Len(f),
                      Releasing(c, k, f[l].pid), ~f[l].released
               PROVE  /\ delivered[f[l].uid] = 0
                      /\ \E j \in k + 1 .. Len(c) : Publishing(c, j, f[l].uid)
    BY <1>1 DEF ForeignPubrel, c, f
  <2>1. l \in 1 .. r /\ l # k0 /\ f[l] = inflight[l]
    BY <1>3, <1>4
  <2>2. inflight[l].pid # p
    BY <2>1 DEF OnceInv, OnceParts, BrokerSound, p, r
  <2>3. k \in 1 .. n
    BY <1>7, <1>10, <2>1, <2>2
  <2>4. Releasing(to_client, k, inflight[l].pid)
    BY <1>7, <2>1, <2>3
  <2>5. /\ delivered[f[l].uid] = 0
        /\ \E j \in k + 1 .. n : Publishing(to_client, j, f[l].uid)
    BY <2>1, <2>3, <2>4 DEF OnceInv, OnceParts, Remembered, ForeignPubrel, n, r
  <2>6. \A j \in k + 1 .. n : j \in 1 .. n /\ j \in k + 1 .. Len(c)
    BY <1>2, <2>3
  <2> QED BY <1>7, <2>5, <2>6
<1> QED BY <1>8, <1>9, <1>11, <1>12, <1>13, <1>14 DEF OnceParts, Remembered

\* The broker takes a PUBACK or PUBCOMP: the entry and its id are free.
LEMMA LastOnce ==
    ASSUME OnceInv, NEW k0 \in 1 .. Len(inflight), GotLast(k0)
    PROVE  OnceParts'
<1> DEFINE f == inflight'
           r == Len(inflight)
           old(k) == IF k < k0 THEN k ELSE k + 1
<1>1. FlowTypeOK /\ UNCHANGED <<send_pubrec, await_pubrel, delivered, to_client>>
      /\ completed' = completed \cup {inflight[k0].uid}
  BY DEF OnceInv, GotLast, GotAck, vars
<1>2. /\ r \in Nat /\ Len(f) = r - 1
      /\ \A k \in 1 .. r - 1 : f[k] = IF k < k0 THEN inflight[k] ELSE inflight[k + 1]
  BY <1>1, RemoveFacts DEF FlowTypeOK, GotLast
<1>3. /\ \A k \in 1 .. Len(f) : old(k) \in 1 .. r /\ f[k] = inflight[old(k)]
      /\ \A k, l \in 1 .. Len(f) : old(k) = old(l) => k = l
  BY <1>2
<1>4. Known' = Known
  <2>1. \A x : (\E k \in 1 .. r : inflight[k].uid = x)
                 <=> (\E k \in 1 .. Len(f) : f[k].uid = x) \/ x = inflight[k0].uid
    <3> SUFFICES ASSUME NEW x, NEW k \in 1 .. r, inflight[k].uid = x, k # k0
                 PROVE  \E l \in 1 .. Len(f) : f[l].uid = x
      BY <1>3
    <3>1. CASE k < k0
      <4>1. k \in 1 .. Len(f) /\ f[k] = inflight[k]
        BY <1>2, <3>1
      <4> QED BY <4>1
    <3>2. CASE k > k0
      <4>1. k - 1 \in 1 .. Len(f) /\ f[k - 1] = inflight[k]
        BY <1>2, <3>2
      <4> QED BY <4>1
    <3> QED BY <3>1, <3>2
  <2> QED BY <1>1, <2>1 DEF Known
<1> HIDE DEF f, r, old
<1>5. BrokerSound'
  <2>1. \A k \in 1 .. Len(f) : Qos[f[k].uid] > 0
    BY <1>3 DEF OnceInv, OnceParts, BrokerSound, r
  <2>2. ASSUME NEW k \in 1 .. Len(f), NEW l \in 1 .. Len(f), f[k].uid = f[l].uid
        PROVE  k = l
    <3>1. old(k) \in 1 .. Len(inflight) /\ old(l) \in 1 .. Len(inflight)
          /\ inflight[old(k)].uid = inflight[old(l)].uid
      BY <1>3, <2>2 DEF r
    <3>2. old(k) = old(l)
      BY <3>1 DEF OnceInv, OnceParts, BrokerSound
    <3> QED BY <1>3, <3>2
  <2>3. ASSUME NEW k \in 1 .. Len(f), NEW l \in 1 .. Len(f), f[k].pid = f[l].pid
        PROVE  k = l
    <3>1. old(k) \in 1 .. Len(inflight) /\ old(l) \in 1 .. Len(inflight)
          /\ inflight[old(k)].pid = inflight[old(l)].pid
      BY <1>3, <2>3 DEF r
    <3>2. old(k) = old(l)
      BY <3>1 DEF OnceInv, OnceParts, BrokerSound
    <3> QED BY <1>3, <3>2
  <2> QED BY <2>1, <2>2, <2>3 DEF BrokerSound, f
<1>6. ClientBehind'
  <2>1. \A k \in 1 .. Len(to_client), l \in 1 .. Len(f) :
           Publishing(to_client, k, f[l].uid) => to_client[k].pid = f[l].pid
    BY <1>3 DEF OnceInv, OnceParts, ClientBehind, r
  <2> QED BY <1>1, <1>4, <2>1 DEF OnceInv, OnceParts, ClientBehind, f
<1>7. RemembersRepeat'
  <2>1. \A k \in 1 .. Len(f) : Qos[f[k].uid] = 2 /\ ~f[k].released /\ delivered[f[k].uid] > 0
           => Open(send_pubrec, await_pubrel, f[k].pid)
    BY <1>3 DEF OnceInv, OnceParts, Remembered, RemembersRepeat, r
  <2> QED BY <1>1, <2>1 DEF RemembersRepeat, f
<1>8. RemembersComing'
  BY <1>1 DEF OnceInv, OnceParts, Remembered, RemembersComing
<1>9. ForeignPubrel'
  <2>1. \A k \in 1 .. Len(to_client), l \in 1 .. Len(f) :
           Releasing(to_client, k, f[l].pid) /\ ~f[l].released
           => /\ delivered[f[l].uid] = 0
              /\ \E j \in k + 1 .. Len(to_client) : Publishing(to_client, j, f[l].uid)
    BY <1>3 DEF OnceInv, OnceParts, Remembered, ForeignPubrel, r
  <2> QED BY <1>1, <2>1 DEF ForeignPubrel, f
<1>10. AtMostOnce'
  BY <1>1 DEF OnceInv, OnceParts, AtMostOnce
<1> QED BY <1>5, <1>6, <1>7, <1>8, <1>9, <1>10 DEF OnceParts, Remembered

\* A new connection: each message in flight is on the way once, as a PUBLISH or
\* as a PUBREL, under an id of its own.
LEMMA ConnectOnce ==
    ASSUME OnceInv, Connect
    PROVE  OnceParts'
<1> DEFINE c == to_client'
           r == Len(inflight)
<1>1. FlowTypeOK /\ UNCHANGED <<send_pubrec, await_pubrel, delivered, inflight, completed>>
  BY DEF OnceInv, Connect, queueVars, brokerVars
<1>2. /\ r \in Nat /\ Len(c) = r
      /\ \A k \in 1 .. r : c[k] = IF inflight[k].released THEN Pubrel(inflight[k])
                                                        ELSE Publish(inflight[k])
  <2>1. r \in Nat
    BY <1>1 DEF FlowTypeOK
  <2> QED BY <2>1 DEF Connect
<1>3. \A k \in 1 .. r :
         /\ c[k].pid = inflight[k].pid
         /\ c[k].type = "pubrel" => inflight[k].released
         /\ c[k].type = "publish" => ~inflight[k].released /\ c[k].uid = inflight[k].uid
         /\ ~inflight[k].released => c[k].type = "publish" /\ c[k].uid = inflight[k].uid
  <2> TAKE k \in 1 .. r
  <2>1. CASE inflight[k].released
    <3>1. c[k] = [type |-> "pubrel", pid |-> inflight[k].pid]
      BY <1>2, <2>1 DEF Pubrel
    <3>2. c[k].type = "pubrel" /\ c[k].type # "publish" /\ c[k].pid = inflight[k].pid
      BY <3>1
    <3> HIDE DEF c
    <3> QED BY <2>1, <3>2, Zenon
  <2>2. CASE ~inflight[k].released
    <3>1. c[k] = [type |-> "publish", uid |-> inflight[k].uid, pid |-> inflight[k].pid]
      BY <1>2, <2>2 DEF Publish
    <3>2. c[k].type = "publish" /\ c[k].type # "pubrel" /\ c[k].pid = inflight[k].pid
          /\ c[k].uid = inflight[k].uid
      BY <3>1
    <3> HIDE DEF c
    <3> QED BY <2>2, <3>2, Zenon
  <2> QED BY <2>1, <2>2
<1>4. Known' = Known
  BY <1>1 DEF Known
<1> HIDE DEF c, r
<1>5. \A k, l \in 1 .. r : /\ inflight[k].uid = inflight[l].uid => k = l
                           /\ inflight[k].pid = inflight[l].pid => k = l
  BY DEF OnceInv, OnceParts, BrokerSound, r
<1>6. ClientBehind'
  <2>1. \A x \in Msgs : delivered[x] > 0 => x \in Known
    BY DEF OnceInv, OnceParts, ClientBehind
  <2>2. \A k \in 1 .. r : c[k].type = "publish" => c[k].uid \in Known
    BY <1>1, <1>3, KnownUids DEF r
  <2>3. \A k, l \in 1 .. r : c[k].type = "publish" /\ Publishing(c, l, c[k].uid) => k = l
    BY <1>3, <1>5 DEF Publishing
  <2>4. \A k, l \in 1 .. r : Publishing(c, k, inflight[l].uid) => c[k].pid = inflight[l].pid
    BY <1>3, <1>5 DEF Publishing
  <2> QED BY <1>1, <1>2, <1>4, <2>1, <2>2, <2>3, <2>4 DEF ClientBehind, c, r
<1>7. RemembersRepeat'
  BY <1>1 DEF OnceInv, OnceParts, Remembered, RemembersRepeat
<1>8. RemembersComing'
  <2>1. ASSUME NEW k \in 1 .. r, c[k].type = "publish", Qos[c[k].uid] = 2, delivered[c[k].uid] > 0
        PROVE  /\ Open(send_pubrec, await_pubrel, c[k].pid)
               /\ \A j \in 1 .. k - 1 : ~Releasing(c, j, c[k].pid)
    <3>1. ~inflight[k].released /\ c[k].uid = inflight[k].uid /\ c[k].pid = inflight[k].pid
      BY <1>3, <2>1
    <3>2. Open(send_pubrec, await_pubrel, c[k].pid)
      BY <2>1, <3>1 DEF OnceInv, OnceParts, Remembered, RemembersRepeat, r
    <3>3. \A j \in 1 .. k - 1 : j \in 1 .. r /\ j # k
      BY <1>2
    <3>4. \A j \in 1 .. k - 1 : c[j].pid # c[k].pid
      BY <1>3, <1>5, <3>1, <3>3
    <3> QED BY <3>2, <3>4 DEF Releasing
  <2> QED BY <1>1, <1>2, <2>1 DEF RemembersComing, c
<1>9. ForeignPubrel'
  <2>1. \A k, l \in 1 .. r : ~(Releasing(c, k, inflight[l].pid) /\ ~inflight[l].released)
    BY <1>3, <1>5 DEF Releasing
  <2> QED BY <1>1, <1>2, <2>1 DEF ForeignPubrel, c, r
<1>10. AtMostOnce' /\ BrokerSound'
  BY <1>1 DEF OnceInv, OnceParts, AtMostOnce, BrokerSound
<1> QED BY <1>6, <1>7, <1>8, <1>9, <1>10 DEF OnceParts, Remembered

\* An acknowledgement that is ignored changes nothing but the network.
LEMMA IgnoredOnce ==
    ASSUME OnceInv, Ignored
    PROVE  OnceParts'
<1>1. UNCHANGED Channel /\ UNCHANGED <<send_pubrec, await_pubrel>>
  BY DEF Ignored, GotAck, vars, Channel
<1> QED BY <1>1, QuietOnce

\* Every step keeps the parts of OnceInv.
LEMMA NextOnce == OnceInv /\ [FlowNext]_flowVars => OnceParts'
<1> SUFFICES ASSUME OnceInv, [FlowNext]_flowVars PROVE OnceParts'
  OBVIOUS
<1>1. FlowTypeOK
  BY DEF OnceInv
<1>2. CASE SendStep \/ Send \/ Lose
  <2>1. UNCHANGED Channel
    BY <1>1, <1>2, SendCases DEF Channel, WritePuback, WritePubrec, WritePubcomp, Written, Scan,
       Send, Lose, netVars, brokerVars
  <2> QED BY <1>1, <1>2, <2>1, OpenKept, QuietOnce
<1>3. CASE UNCHANGED flowVars
  <2>1. UNCHANGED Channel /\ UNCHANGED <<send_pubrec, await_pubrel>>
    BY <1>3 DEF Channel, flowVars
  <2> QED BY <2>1, QuietOnce
<1>4. CASE BrokerReceive
  BY <1>1, <1>4, AckCases, IgnoredOnce, PubrecOnce, LastOnce
<1>5. CASE \E m \in Msgs : BrokerSend(m)
  BY <1>1, <1>5, SendMessageCases, SentOnce
<1> QED BY <1>2, <1>3, <1>4, <1>5, PacketOnce, ConnectOnce DEF FlowNext

\* They hold when nothing was sent yet.
LEMMA InitOnce == FlowInit => OnceParts
<1> SUFFICES ASSUME FlowInit PROVE OnceParts
  OBVIOUS
<1>1. Len(inflight) = 0 /\ Len(to_client) = 0 /\ \A m \in Msgs : delivered[m] = 0
  BY DEF FlowInit, Init
<1>2. 1 .. 0 = {}
  OBVIOUS
<1> QED BY <1>1, <1>2 DEF OnceParts, AtMostOnce, BrokerSound, ClientBehind, Remembered,
        RemembersRepeat, RemembersComing, ForeignPubrel

\* OnceInv is an invariant: on_publish and on_pubrel, with send_packets, keep
\* the id of a handed over QoS 2 message as long as the broker can repeat it.
THEOREM OnceInvHolds == FlowSpec => []OnceInv
<1>1. FlowInit => OnceInv
  BY FlowInitTyped, InitOnce DEF OnceInv
<1>2. OnceInv /\ [FlowNext]_flowVars => OnceInv'
  <2>1. FlowTypeOK /\ [FlowNext]_flowVars => FlowTypeOK'
    BY QuietTyped, TakeTyped, BrokerTyped, StutterTyped DEF FlowNext
  <2> QED BY <2>1, NextOnce DEF OnceInv
<1> QED BY <1>1, <1>2, PTL DEF FlowSpec

\* The application gets a QoS 2 message at most once, over any number of lost
\* connections and repeated PUBLISH packets: on_publish finds the id of a
\* repeated one in send_pubrec or await_pubrel.
THEOREM AtMostOnceHolds == FlowSpec => []AtMostOnce
<1>1. OnceInv => AtMostOnce
  BY DEF OnceInv, OnceParts
<1> QED BY <1>1, OnceInvHolds, PTL

-----------------------------------------------------------------------------
(* The first connection                                                      *)

\* How far the handshake of an id has come, and where its packet is: under way
\* to the client, queued by it, in its send buffer, or under way to the broker.
Steps == {"none", "publish", "puback", "pubrec", "pubrel", "pubcomp"}
Places == {"way", "queued", "written", "sent"}

\* A queue of the client has each of its ids once, and they are at that step.
Holds(q, type, step, place) ==
    /\ \A k, l \in 1 .. Len(q) : q[k] = q[l] => k = l
    /\ \A k \in 1 .. Len(q) : step[q[k]] = type /\ place[q[k]] = "queued"

\* Acknowledgements in the send buffer or under way.
Carries(q, where, step, place) ==
    /\ \A k, l \in 1 .. Len(q) : q[k].pid = q[l].pid => k = l
    /\ \A k \in 1 .. Len(q) : step[q[k].pid] = q[k].type /\ place[q[k].pid] = where

\* await_pubrel has an id from the PUBREC in the send buffer to the PUBREL.
Awaits(q, step, place) ==
    /\ \A k, l \in 1 .. Len(q) : q[k] = q[l] => k = l
    /\ \A k \in 1 .. Len(q) :
          \/ step[q[k]] = "pubrec" /\ place[q[k]] \in {"written", "sent"}
          \/ step[q[k]] = "pubrel"

\* Packets of the broker under way.
Brings(c, f, step) ==
    /\ \A k \in 1 .. Len(c) :
          c[k].type = "publish" /\ Qos[c[k].uid] > 0 =>
             /\ step[c[k].pid] = "publish"
             /\ \E l \in 1 .. Len(f) : f[l].uid = c[k].uid /\ f[l].pid = c[k].pid
    /\ \A k \in 1 .. Len(c) : c[k].type = "pubrel" => step[c[k].pid] = "pubrel"
    /\ \A k, l \in 1 .. Len(c) :
          c[k].type = "pubrel" /\ c[l].type = "pubrel" /\ c[k].pid = c[l].pid => k = l

\* Only ids in flight are at a step; from the second step on the message was
\* handed over, unless the client stopped in between.
Backed(f, step, place, given, halted) ==
    /\ \A p \in PidSet : step[p] # "none" => \E l \in 1 .. Len(f) : f[l].pid = p
    /\ \A l \in 1 .. Len(f) :
          /\ step[f[l].pid] \in {"puback", "pubrel", "pubcomp"} => given[f[l].uid] > 0
          /\ step[f[l].pid] = "pubrec" =>
                given[f[l].uid] > 0 \/ (halted = TRUE /\ place[f[l].pid] = "queued")

\* Every queue of the client, its send buffer and the network agree with step
\* and place.
Traced(step, place) ==
    /\ Holds(send_puback, "puback", step, place)
    /\ Holds(send_pubrec, "pubrec", step, place)
    /\ Holds(send_pubcomp, "pubcomp", step, place)
    /\ Carries(send_buffer, "written", step, place)
    /\ Carries(to_broker, "sent", step, place)
    /\ Awaits(await_pubrel, step, place)
    /\ Brings(to_client, inflight, step)
    /\ Backed(inflight, step, place, delivered, stopped)

\* Before the first connection.
Unused ==
    /\ inflight = <<>> /\ to_client = <<>> /\ to_broker = <<>> /\ send_buffer = <<>>
    /\ send_puback = <<>> /\ send_pubrec = <<>> /\ send_pubcomp = <<>> /\ await_pubrel = <<>>
    /\ completed = {} /\ pc = "idle" /\ connected = FALSE

FirstParts ==
    /\ stopped = TRUE => pc = "idle"
    /\ connections = 0 => Unused
    /\ connections <= 1 =>
          /\ AckedMeansDelivered
          /\ \E step \in [PidSet -> Steps], place \in [PidSet -> Places] : Traced(step, place)

FirstInv == OnceInv /\ FirstParts

\* s and s2 differ at most at p.
SameBut(p, s, s2) == \A x \in PidSet : x # p => s2[x] = s[x]

\* A queue without p does not mind that p moves on.
LEMMA HoldsFrame ==
    ASSUME NEW q \in Seq(PidSet), NEW t, NEW s, NEW w, NEW s2, NEW w2, NEW p,
           Holds(q, t, s, w), SameBut(p, s, s2), SameBut(p, w, w2), s[p] # t \/ w[p] # "queued"
    PROVE  Holds(q, t, s2, w2)
<1>1. \A k \in 1 .. Len(q) : q[k] \in PidSet
  OBVIOUS
<1> QED BY <1>1 DEF Holds, SameBut

\* p enters a queue.
LEMMA HoldsPush ==
    ASSUME NEW q \in Seq(PidSet), NEW t, NEW s, NEW w, NEW s2, NEW w2, NEW p \in PidSet,
           Holds(q, t, s, w), SameBut(p, s, s2), SameBut(p, w, w2), s[p] # t \/ w[p] # "queued",
           s2[p] = t, w2[p] = "queued"
    PROVE  Holds(Append(q, p), t, s2, w2)
<1> DEFINE r == Append(q, p)
<1>1. /\ Len(q) \in Nat /\ Len(r) = Len(q) + 1
      /\ \A j \in 1 .. Len(q) : r[j] = q[j]
      /\ r[Len(q) + 1] = p
  BY PushFacts
<1>2. \A k \in 1 .. Len(q) : q[k] \in PidSet /\ q[k] # p
  BY DEF Holds
<1> HIDE DEF r
<1>3. \A k, l \in 1 .. Len(r) : r[k] = r[l] => k = l
  BY <1>1, <1>2 DEF Holds
<1>4. \A k \in 1 .. Len(r) : s2[r[k]] = t /\ w2[r[k]] = "queued"
  BY <1>1, <1>2 DEF Holds, SameBut
<1> QED BY <1>3, <1>4 DEF Holds, r

\* p leaves the queue for the next place.
LEMMA HoldsPop ==
    ASSUME NEW q \in Seq(PidSet), NEW t, NEW s, NEW w, NEW s2, NEW w2, NEW k0 \in 1 .. Len(q),
           Holds(q, t, s, w), SameBut(q[k0], s, s2), SameBut(q[k0], w, w2)
    PROVE  Holds(Remove(q, k0), t, s2, w2)
<1> DEFINE r == Remove(q, k0)
           old(k) == IF k < k0 THEN k ELSE k + 1
<1>1. /\ Len(q) \in Nat /\ Len(r) = Len(q) - 1
      /\ \A j \in 1 .. Len(q) - 1 : r[j] = IF j < k0 THEN q[j] ELSE q[j + 1]
  BY RemoveFacts
<1>2. /\ \A k \in 1 .. Len(r) : old(k) \in 1 .. Len(q) /\ r[k] = q[old(k)] /\ old(k) # k0
      /\ \A k, l \in 1 .. Len(r) : old(k) = old(l) => k = l
  BY <1>1
<1> HIDE DEF r, old
<1>3. ASSUME NEW k \in 1 .. Len(r), NEW l \in 1 .. Len(r), r[k] = r[l]
      PROVE  k = l
  <2>1. old(k) = old(l)
    BY <1>2, <1>3 DEF Holds
  <2> QED BY <1>2, <2>1
<1>4. \A k \in 1 .. Len(q) : q[k] \in PidSet
  OBVIOUS
<1>5. \A k \in 1 .. Len(r) : s2[r[k]] = t /\ w2[r[k]] = "queued"
  BY <1>2, <1>4 DEF Holds, SameBut
<1> QED BY <1>3, <1>5 DEF Holds, r

\* The ids of acknowledgements are ids.
LEMMA PacketPids ==
    ASSUME NEW q \in Seq(Packets)
    PROVE  \A k \in 1 .. Len(q) : q[k].pid \in PidSet
<1>1. \A k \in 1 .. Len(q) : q[k] \in Packets
  OBVIOUS
<1> QED BY <1>1 DEF Packets

\* The same for the acknowledgements in the send buffer or under way.
LEMMA CarriesFrame ==
    ASSUME NEW q \in Seq(Packets), NEW at, NEW s, NEW w, NEW s2, NEW w2, NEW p,
           Carries(q, at, s, w), SameBut(p, s, s2), SameBut(p, w, w2), w[p] # at
    PROVE  Carries(q, at, s2, w2)
<1>1. \A k \in 1 .. Len(q) : q[k].pid \in PidSet
  BY PacketPids
<1> QED BY <1>1 DEF Carries, SameBut

\* An acknowledgement for p joins them.
LEMMA CarriesPush ==
    ASSUME NEW q \in Seq(Packets), NEW at, NEW s, NEW w, NEW s2, NEW w2, NEW e \in Packets,
           Carries(q, at, s, w), SameBut(e.pid, s, s2), SameBut(e.pid, w, w2), w[e.pid] # at,
           s2[e.pid] = e.type, w2[e.pid] = at
    PROVE  Carries(Append(q, e), at, s2, w2)
<1> DEFINE r == Append(q, e)
<1>1. /\ Len(q) \in Nat /\ Len(r) = Len(q) + 1
      /\ \A j \in 1 .. Len(q) : r[j] = q[j]
      /\ r[Len(q) + 1] = e
  BY PushFacts
<1>2. \A k \in 1 .. Len(q) : q[k].pid \in PidSet /\ q[k].pid # e.pid
  BY PacketPids DEF Carries
<1> HIDE DEF r
<1>3. \A k, l \in 1 .. Len(r) : r[k].pid = r[l].pid => k = l
  BY <1>1, <1>2 DEF Carries
<1>4. \A k \in 1 .. Len(r) : s2[r[k].pid] = r[k].type /\ w2[r[k].pid] = at
  BY <1>1, <1>2 DEF Carries, SameBut
<1> QED BY <1>3, <1>4 DEF Carries, r

\* The first one leaves.
LEMMA CarriesPop ==
    ASSUME NEW q \in Seq(Packets), q # <<>>, NEW at, NEW s, NEW w, NEW s2, NEW w2,
           Carries(q, at, s, w), SameBut(q[1].pid, s, s2), SameBut(q[1].pid, w, w2)
    PROVE  Carries(Tail(q), at, s2, w2)
<1> DEFINE r == Tail(q)
<1>1. /\ Len(q) \in Nat \ {0} /\ Len(r) = Len(q) - 1
      /\ \A j \in 1 .. Len(q) - 1 : r[j] = q[j + 1]
  BY TailFacts
<1>2. \A k \in 1 .. Len(q) : q[k].pid \in PidSet
  BY PacketPids
<1> HIDE DEF r
<1>3. \A k \in 1 .. Len(r) : k + 1 \in 1 .. Len(q) /\ k + 1 # 1 /\ r[k] = q[k + 1]
  BY <1>1
<1>4. 1 \in 1 .. Len(q)
  BY <1>1
<1>5. ASSUME NEW k \in 1 .. Len(r), NEW l \in 1 .. Len(r), r[k].pid = r[l].pid
      PROVE  k = l
  <2>1. k + 1 = l + 1
    BY <1>3, <1>5 DEF Carries
  <2> QED BY <1>1, <2>1
<1>6. \A k \in 1 .. Len(r) : s2[r[k].pid] = r[k].type /\ w2[r[k].pid] = at
  <2> TAKE k \in 1 .. Len(r)
  <2>1. q[k + 1].pid # q[1].pid
    BY <1>3, <1>4 DEF Carries
  <2> QED BY <1>2, <1>3, <2>1 DEF Carries, SameBut
<1> QED BY <1>5, <1>6 DEF Carries, r

\* The same for await_pubrel: p is not in it, or stays at a step that belongs there.
LEMMA AwaitsFrame ==
    ASSUME NEW q \in Seq(PidSet), NEW s, NEW w, NEW s2, NEW w2, NEW p,
           Awaits(q, s, w), SameBut(p, s, s2), SameBut(p, w, w2),
           \/ \A k \in 1 .. Len(q) : q[k] # p
           \/ s2[p] = "pubrec" /\ w2[p] \in {"written", "sent"}
           \/ s2[p] = "pubrel"
    PROVE  Awaits(q, s2, w2)
<1>1. \A k \in 1 .. Len(q) : q[k] \in PidSet
  OBVIOUS
<1> QED BY <1>1 DEF Awaits, SameBut

\* p enters await_pubrel with its PUBREC.
LEMMA AwaitsPush ==
    ASSUME NEW q \in Seq(PidSet), NEW s, NEW w, NEW s2, NEW w2, NEW p \in PidSet,
           Awaits(q, s, w), SameBut(p, s, s2), SameBut(p, w, w2),
           s[p] = "pubrec", w[p] = "queued", s2[p] = "pubrec", w2[p] = "written"
    PROVE  Awaits(Append(q, p), s2, w2)
<1> DEFINE r == Append(q, p)
<1>1. /\ Len(q) \in Nat /\ Len(r) = Len(q) + 1
      /\ \A j \in 1 .. Len(q) : r[j] = q[j]
      /\ r[Len(q) + 1] = p
  BY PushFacts
<1>2. \A k \in 1 .. Len(q) : q[k] \in PidSet /\ q[k] # p
  BY DEF Awaits
<1> HIDE DEF r
<1>3. \A k, l \in 1 .. Len(r) : r[k] = r[l] => k = l
  BY <1>1, <1>2 DEF Awaits
<1>4. \A k \in 1 .. Len(r) : \/ s2[r[k]] = "pubrec" /\ w2[r[k]] \in {"written", "sent"}
                             \/ s2[r[k]] = "pubrel"
  BY <1>1, <1>2 DEF Awaits, SameBut
<1> QED BY <1>3, <1>4 DEF Awaits, r

\* p leaves it with its PUBREL.
LEMMA AwaitsPop ==
    ASSUME NEW q \in Seq(PidSet), NEW s, NEW w, NEW s2, NEW w2, NEW k0 \in 1 .. Len(q),
           Awaits(q, s, w), SameBut(q[k0], s, s2), SameBut(q[k0], w, w2)
    PROVE  Awaits(Remove(q, k0), s2, w2)
<1> DEFINE r == Remove(q, k0)
           old(k) == IF k < k0 THEN k ELSE k + 1
<1>1. /\ Len(q) \in Nat /\ Len(r) = Len(q) - 1
      /\ \A j \in 1 .. Len(q) - 1 : r[j] = IF j < k0 THEN q[j] ELSE q[j + 1]
  BY RemoveFacts
<1>2. /\ \A k \in 1 .. Len(r) : old(k) \in 1 .. Len(q) /\ r[k] = q[old(k)] /\ old(k) # k0
      /\ \A k, l \in 1 .. Len(r) : old(k) = old(l) => k = l
  BY <1>1
<1> HIDE DEF r, old
<1>3. ASSUME NEW k \in 1 .. Len(r), NEW l \in 1 .. Len(r), r[k] = r[l]
      PROVE  k = l
  <2>1. old(k) = old(l)
    BY <1>2, <1>3 DEF Awaits
  <2> QED BY <1>2, <2>1
<1>4. \A k \in 1 .. Len(q) : q[k] \in PidSet
  OBVIOUS
<1>5. \A k \in 1 .. Len(r) : q[old(k)] # q[k0]
  BY <1>2 DEF Awaits
<1>6. \A k \in 1 .. Len(r) : \/ s2[r[k]] = "pubrec" /\ w2[r[k]] \in {"written", "sent"}
                             \/ s2[r[k]] = "pubrel"
  <2> TAKE k \in 1 .. Len(r)
  <2>1. s2[r[k]] = s[q[old(k)]] /\ w2[r[k]] = w[q[old(k)]]
    BY <1>2, <1>4, <1>5 DEF SameBut
  <2> QED BY <1>2, <2>1 DEF Awaits
<1> QED BY <1>3, <1>6 DEF Awaits, r

\* Entry for entry, f2 has the ids and messages of f but those of p.
Keeps(f, f2, p) ==
    \A l \in 1 .. Len(f) : f[l].pid # p =>
        \E l2 \in 1 .. Len(f2) : f2[l2].uid = f[l].uid /\ f2[l2].pid = f[l].pid

\* p moves on while none of the packets under way to the client is about it.
LEMMA BringsFrame ==
    ASSUME NEW c \in Seq(FromBroker), NEW f, NEW f2, NEW s, NEW s2, NEW p,
           Brings(c, f, s), SameBut(p, s, s2), s[p] # "publish", s[p] # "pubrel", Keeps(f, f2, p)
    PROVE  Brings(c, f2, s2)
<1>1. \A k \in 1 .. Len(c) : c[k] \in FromBroker
  OBVIOUS
<1>2. \A k \in 1 .. Len(c) : c[k].pid \in PidSet
  BY <1>1 DEF FromBroker
<1>3. \A k \in 1 .. Len(c) : c[k].type = "publish" /\ Qos[c[k].uid] > 0 =>
             /\ s2[c[k].pid] = "publish"
             /\ \E l \in 1 .. Len(f2) : f2[l].uid = c[k].uid /\ f2[l].pid = c[k].pid
  <2> SUFFICES ASSUME NEW k \in 1 .. Len(c), c[k].type = "publish", Qos[c[k].uid] > 0
               PROVE  /\ s2[c[k].pid] = "publish"
                      /\ \E l \in 1 .. Len(f2) : f2[l].uid = c[k].uid /\ f2[l].pid = c[k].pid
    OBVIOUS
  <2>1. s[c[k].pid] = "publish" /\ \E l \in 1 .. Len(f) : f[l].uid = c[k].uid /\ f[l].pid = c[k].pid
    BY DEF Brings
  <2>2. s2[c[k].pid] = "publish"
    BY <1>2, <2>1 DEF SameBut
  <2> QED BY <2>1, <2>2 DEF Keeps
<1>4. \A k \in 1 .. Len(c) : c[k].type = "pubrel" => s2[c[k].pid] = "pubrel"
  BY <1>2 DEF Brings, SameBut
<1> QED BY <1>3, <1>4 DEF Brings

\* A packet that needs no acknowledgement is taken.
LEMMA BringsTail ==
    ASSUME NEW c \in Seq(FromBroker), c # <<>>, NEW f, NEW s, Brings(c, f, s)
    PROVE  Brings(Tail(c), f, s)
<1> DEFINE r == Tail(c)
<1>1. /\ Len(c) \in Nat \ {0} /\ Len(r) = Len(c) - 1
      /\ \A j \in 1 .. Len(c) - 1 : r[j] = c[j + 1]
  BY TailFacts
<1> HIDE DEF r
<1>2. \A k \in 1 .. Len(r) : k + 1 \in 1 .. Len(c) /\ r[k] = c[k + 1]
  BY <1>1
<1>3. \A k, l \in 1 .. Len(r) :
          r[k].type = "pubrel" /\ r[l].type = "pubrel" /\ r[k].pid = r[l].pid => k = l
  <2>1. \A k, l \in 1 .. Len(r) : k + 1 = l + 1 => k = l
    BY <1>1
  <2> QED BY <1>2, <2>1 DEF Brings
<1> QED BY <1>2, <1>3 DEF Brings, r

\* The client takes a packet: no other with its id is under way.
LEMMA BringsTake ==
    ASSUME NEW c \in Seq(FromBroker), c # <<>>, NEW f, NEW s, NEW s2,
           Brings(c, f, s), SameBut(c[1].pid, s, s2),
           c[1].type = "pubrel" \/ (c[1].type = "publish" /\ Qos[c[1].uid] > 0),
           \A k, l \in 1 .. Len(c) : c[k].type = "publish" /\ Publishing(c, l, c[k].uid) => k = l,
           \A k, l \in 1 .. Len(f) : f[k].pid = f[l].pid => k = l
    PROVE  Brings(Tail(c), f, s2)
<1> DEFINE r == Tail(c)
<1>1. /\ Len(c) \in Nat \ {0} /\ Len(r) = Len(c) - 1
      /\ \A j \in 1 .. Len(c) - 1 : r[j] = c[j + 1]
  BY TailFacts
<1>2. \A k \in 1 .. Len(c) : c[k] \in FromBroker
  OBVIOUS
<1>3. \A k \in 1 .. Len(c) : c[k].pid \in PidSet
  BY <1>2 DEF FromBroker
<1> HIDE DEF r
<1>4. 1 \in 1 .. Len(c) /\ \A k \in 1 .. Len(r) : k + 1 \in 1 .. Len(c) /\ k + 1 # 1 /\ r[k] = c[k + 1]
  BY <1>1
<1>5. Brings(r, f, s)
  BY BringsTail DEF r
<1>6. \A k \in 1 .. Len(r) : r[k].type = "pubrel" => r[k].pid # c[1].pid
  BY <1>4 DEF Brings
<1>7. ASSUME NEW k \in 1 .. Len(r), r[k].type = "publish", Qos[r[k].uid] > 0
      PROVE  r[k].pid # c[1].pid
  <2> SUFFICES ASSUME r[k].pid = c[1].pid PROVE FALSE
    OBVIOUS
  <2>1. s[c[1].pid] = "publish" /\ \E l \in 1 .. Len(f) : f[l].uid = r[k].uid /\ f[l].pid = c[1].pid
    BY <1>5, <1>7 DEF Brings
  <2>2. c[1].type = "publish" /\ Qos[c[1].uid] > 0
    BY <1>4, <2>1 DEF Brings
  <2>3. \E l \in 1 .. Len(f) : f[l].uid = c[1].uid /\ f[l].pid = c[1].pid
    BY <1>4, <2>2 DEF Brings
  <2>4. r[k].uid = c[1].uid
    BY <2>1, <2>3
  <2> QED BY <1>4, <1>7, <2>2, <2>4 DEF Publishing
<1>8. \A k \in 1 .. Len(r) : r[k].pid \in PidSet
  BY <1>3, <1>4
<1>9. \A k \in 1 .. Len(r) : r[k].pid # c[1].pid => s2[r[k].pid] = s[r[k].pid]
  BY <1>8 DEF SameBut
<1> QED BY <1>5, <1>6, <1>7, <1>9 DEF Brings, r

\* The broker sends a packet with id p.
LEMMA BringsPush ==
    ASSUME NEW c \in Seq(FromBroker), NEW f, NEW s, NEW e \in FromBroker,
           Brings(c, f, s),
           e.type = "publish" /\ Qos[e.uid] > 0 =>
               s[e.pid] = "publish" /\ \E l \in 1 .. Len(f) : f[l].uid = e.uid /\ f[l].pid = e.pid,
           e.type = "pubrel" =>
               s[e.pid] = "pubrel" /\ \A k \in 1 .. Len(c) : c[k].type = "pubrel" => c[k].pid # e.pid
    PROVE  Brings(Append(c, e), f, s)
<1> DEFINE r == Append(c, e)
<1>1. /\ Len(c) \in Nat /\ Len(r) = Len(c) + 1
      /\ \A j \in 1 .. Len(c) : r[j] = c[j]
      /\ r[Len(c) + 1] = e
  BY PushFacts
<1> HIDE DEF r
<1>2. \A k \in 1 .. Len(r) : (k \in 1 .. Len(c) /\ r[k] = c[k]) \/ (k = Len(c) + 1 /\ r[k] = e)
  BY <1>1
<1>3. \A k \in 1 .. Len(r) : r[k].type = "publish" /\ Qos[r[k].uid] > 0 =>
             /\ s[r[k].pid] = "publish"
             /\ \E l \in 1 .. Len(f) : f[l].uid = r[k].uid /\ f[l].pid = r[k].pid
  BY <1>2 DEF Brings
<1>4. \A k \in 1 .. Len(r) : r[k].type = "pubrel" => s[r[k].pid] = "pubrel"
  BY <1>2 DEF Brings
<1>5. \A k, l \in 1 .. Len(r) :
          r[k].type = "pubrel" /\ r[l].type = "pubrel" /\ r[k].pid = r[l].pid => k = l
  BY <1>2 DEF Brings
<1> QED BY <1>3, <1>4, <1>5 DEF Brings, r

\* p moves to a step that its entry in flight justifies.
LEMMA BackedStep ==
    ASSUME NEW f \in Seq(InFlight), NEW f2 \in Seq(InFlight), NEW s, NEW w, NEW g, NEW h,
           NEW s2, NEW w2, NEW g2, NEW h2, NEW p,
           Backed(f, s, w, g, h), SameBut(p, s, s2), SameBut(p, w, w2),
           \A m \in Msgs : g[m] > 0 => g2[m] > 0,
           h = TRUE => h2 = TRUE,
           Keeps(f, f2, p), Keeps(f2, f, p),
           s2[p] # "none" => \E l \in 1 .. Len(f2) : f2[l].pid = p,
           \A l \in 1 .. Len(f2) : f2[l].pid = p =>
              /\ s2[p] \in {"puback", "pubrel", "pubcomp"} => g2[f2[l].uid] > 0
              /\ s2[p] = "pubrec" => g2[f2[l].uid] > 0 \/ (h2 = TRUE /\ w2[p] = "queued")
    PROVE  Backed(f2, s2, w2, g2, h2)
<1>1. \A l \in 1 .. Len(f2) : f2[l] \in InFlight
  OBVIOUS
<1>2. \A l \in 1 .. Len(f2) : f2[l].uid \in Msgs /\ f2[l].pid \in PidSet
  BY <1>1 DEF InFlight
<1>3. ASSUME NEW x \in PidSet, s2[x] # "none"
      PROVE  \E l \in 1 .. Len(f2) : f2[l].pid = x
  <2>1. CASE x = p
    BY <1>3, <2>1
  <2>2. CASE x # p
    <3>1. \E l \in 1 .. Len(f) : f[l].pid = x
      BY <1>3, <2>2 DEF SameBut, Backed
    <3> QED BY <2>2, <3>1 DEF Keeps
  <2> QED BY <2>1, <2>2
<1>4. ASSUME NEW l \in 1 .. Len(f2), f2[l].pid # p
      PROVE  /\ s2[f2[l].pid] \in {"puback", "pubrel", "pubcomp"} => g2[f2[l].uid] > 0
             /\ s2[f2[l].pid] = "pubrec" =>
                   g2[f2[l].uid] > 0 \/ (h2 = TRUE /\ w2[f2[l].pid] = "queued")
  <2>1. PICK j \in 1 .. Len(f) : f[j].uid = f2[l].uid /\ f[j].pid = f2[l].pid
    BY <1>4 DEF Keeps
  <2>2. s2[f2[l].pid] = s[f[j].pid] /\ w2[f2[l].pid] = w[f[j].pid]
    BY <1>2, <1>4, <2>1 DEF SameBut
  <2>3. /\ s[f[j].pid] \in {"puback", "pubrel", "pubcomp"} => g[f[j].uid] > 0
        /\ s[f[j].pid] = "pubrec" => g[f[j].uid] > 0 \/ (h = TRUE /\ w[f[j].pid] = "queued")
    BY DEF Backed
  <2>4. g[f[j].uid] > 0 => g2[f2[l].uid] > 0
    BY <1>2, <2>1
  <2> QED BY <2>2, <2>3, <2>4
<1> QED BY <1>3, <1>4 DEF Backed

\* The state has a trace of every id.
Traceable == \E step \in [PidSet -> Steps], place \in [PidSet -> Places] : Traced(step, place)

\* A function can be changed at p.
LEMMA Update ==
    ASSUME NEW S, NEW s \in [PidSet -> S], NEW p \in PidSet, NEW t \in S
    PROVE  \E s2 \in [PidSet -> S] : s2[p] = t /\ SameBut(p, s, s2)
<1>1. /\ [s EXCEPT ![p] = t] \in [PidSet -> S]
      /\ [s EXCEPT ![p] = t][p] = t
      /\ SameBut(p, s, [s EXCEPT ![p] = t])
  BY DEF SameBut
<1> QED BY <1>1

\* The table is not changed.
LEMMA KeepsAll == \A f, p : Keeps(f, f, p)
BY DEF Keeps

\* The types the steps below use.
LEMMA FirstTypes ==
    ASSUME FirstInv
    PROVE  /\ QueuesTyped /\ send_buffer \in Seq(Packets) /\ to_broker \in Seq(Packets)
           /\ to_client \in Seq(FromBroker) /\ inflight \in Seq(InFlight)
BY TypeSplit DEF FirstInv, OnceInv, FlowTypeOK, ClientTyped

\* The packet of p moves on within the client or to the broker.
LEMMA BackedSame ==
    ASSUME NEW f \in Seq(InFlight), NEW s, NEW w, NEW w2, NEW g, NEW h, NEW p \in PidSet,
           Backed(f, s, w, g, h), SameBut(p, w, w2), s[p] # "none", w2[p] # "queued",
           w[p] = "queued" => s[p] # "pubrec" \/ h # TRUE
    PROVE  Backed(f, s, w2, g, h)
<1>1. SameBut(p, s, s) /\ Keeps(f, f, p)
  BY KeepsAll DEF SameBut
<1>2. \E l \in 1 .. Len(f) : f[l].pid = p
  BY DEF Backed
<1>3. \A l \in 1 .. Len(f) : f[l].pid = p =>
              /\ s[p] \in {"puback", "pubrel", "pubcomp"} => g[f[l].uid] > 0
              /\ s[p] = "pubrec" => g[f[l].uid] > 0 \/ (h = TRUE /\ w2[p] = "queued")
  BY DEF Backed
<1> QED BY <1>1, <1>2, <1>3, BackedStep

\* An acknowledgement is written: its id moves from the queue to the buffer.
LEMMA WritePubackTraced ==
    ASSUME FirstInv, Traceable, WritePuback
    PROVE  Traceable'
<1>1. PICK step \in [PidSet -> Steps], place \in [PidSet -> Places] : Traced(step, place)
  BY DEF Traceable
<1>2. i \in 1 .. Len(send_puback) /\ send_puback[i] \in PidSet
  BY FirstTypes DEF WritePuback, QueuesTyped
<1>3. PICK p \in PidSet : p = send_puback[i]
  BY <1>2
<1>4. PICK e \in Packets : e = [type |-> "puback", pid |-> p]
  BY DEF Packets
<1>5. /\ send_puback' = Remove(send_puback, i) /\ send_buffer' = Append(send_buffer, e)
      /\ UNCHANGED <<send_pubrec, await_pubrel, send_pubcomp, to_broker, to_client, inflight,
                     delivered, stopped>>
  BY <1>3, <1>4 DEF WritePuback, Written, try_write_packet, netVars, brokerVars
<1>6. PICK w2 \in [PidSet -> Places] : w2[p] = "written" /\ SameBut(p, place, w2)
  BY Update DEF Places
<1>7. step[p] = "puback" /\ place[p] = "queued" /\ SameBut(p, step, step)
  BY <1>1, <1>2, <1>3 DEF Traced, Holds, SameBut
<1>8. \A k \in 1 .. Len(await_pubrel) : await_pubrel[k] # p
  BY <1>1, <1>7 DEF Traced, Awaits
<1>9. Holds(send_puback', "puback", step, w2)
  BY <1>1, <1>2, <1>3, <1>5, <1>6, <1>7, FirstTypes, HoldsPop DEF Traced, QueuesTyped
<1>10. Holds(send_pubrec, "pubrec", step, w2) /\ Holds(send_pubcomp, "pubcomp", step, w2)
  BY <1>1, <1>6, <1>7, FirstTypes, HoldsFrame DEF Traced, QueuesTyped
<1>11. Carries(send_buffer', "written", step, w2)
  BY <1>1, <1>4, <1>5, <1>6, <1>7, FirstTypes, CarriesPush DEF Traced
<1>12. Carries(to_broker, "sent", step, w2)
  BY <1>1, <1>6, <1>7, FirstTypes, CarriesFrame DEF Traced
<1>13. Awaits(await_pubrel, step, w2)
  BY <1>1, <1>6, <1>7, <1>8, FirstTypes, AwaitsFrame DEF Traced, QueuesTyped
<1>14. Backed(inflight, step, w2, delivered, stopped)
  BY <1>1, <1>6, <1>7, FirstTypes, BackedSame DEF Traced
<1>15. Brings(to_client, inflight, step)
  BY <1>1 DEF Traced
<1>16. Traced(step, w2)'
  BY <1>5, <1>9, <1>10, <1>11, <1>12, <1>13, <1>14, <1>15 DEF Traced
<1> QED BY <1>6, <1>16 DEF Traceable

\* The same for a PUBREC, whose id enters await_pubrel, ...
LEMMA WritePubrecTraced ==
    ASSUME FirstInv, Traceable, WritePubrec
    PROVE  Traceable'
<1>1. PICK step \in [PidSet -> Steps], place \in [PidSet -> Places] : Traced(step, place)
  BY DEF Traceable
<1>2. i \in 1 .. Len(send_pubrec) /\ send_pubrec[i] \in PidSet
  BY FirstTypes DEF WritePubrec, QueuesTyped
<1>3. PICK p \in PidSet : p = send_pubrec[i]
  BY <1>2
<1>4. PICK e \in Packets : e = [type |-> "pubrec", pid |-> p]
  BY DEF Packets
<1>5. /\ send_pubrec' = Remove(send_pubrec, i) /\ send_buffer' = Append(send_buffer, e)
      /\ await_pubrel' = Append(await_pubrel, p)
      /\ UNCHANGED <<send_puback, send_pubcomp, to_broker, to_client, inflight,
                     delivered, stopped>>
  BY <1>3, <1>4 DEF WritePubrec, Written, try_write_packet, netVars, brokerVars
<1>6. PICK w2 \in [PidSet -> Places] : w2[p] = "written" /\ SameBut(p, place, w2)
  BY Update DEF Places
<1>7. step[p] = "pubrec" /\ place[p] = "queued" /\ SameBut(p, step, step)
  BY <1>1, <1>2, <1>3 DEF Traced, Holds, SameBut
<1>8. stopped # TRUE
  BY DEF FirstInv, FirstParts, WritePubrec
<1>9. Holds(send_pubrec', "pubrec", step, w2)
  BY <1>1, <1>2, <1>3, <1>5, <1>6, <1>7, FirstTypes, HoldsPop DEF Traced, QueuesTyped
<1>10. Holds(send_puback, "puback", step, w2) /\ Holds(send_pubcomp, "pubcomp", step, w2)
  BY <1>1, <1>6, <1>7, FirstTypes, HoldsFrame DEF Traced, QueuesTyped
<1>11. Carries(send_buffer', "written", step, w2)
  BY <1>1, <1>4, <1>5, <1>6, <1>7, FirstTypes, CarriesPush DEF Traced
<1>12. Carries(to_broker, "sent", step, w2)
  BY <1>1, <1>6, <1>7, FirstTypes, CarriesFrame DEF Traced
<1>13. Awaits(await_pubrel', step, w2)
  BY <1>1, <1>5, <1>6, <1>7, FirstTypes, AwaitsPush DEF Traced, QueuesTyped
<1>14. Backed(inflight, step, w2, delivered, stopped)
  BY <1>1, <1>6, <1>7, <1>8, FirstTypes, BackedSame DEF Traced
<1>15. Brings(to_client, inflight, step)
  BY <1>1 DEF Traced
<1>16. Traced(step, w2)'
  BY <1>5, <1>9, <1>10, <1>11, <1>12, <1>13, <1>14, <1>15 DEF Traced
<1> QED BY <1>6, <1>16 DEF Traceable

\* ... and for a PUBCOMP.
LEMMA WritePubcompTraced ==
    ASSUME FirstInv, Traceable, WritePubcomp
    PROVE  Traceable'
<1>1. PICK step \in [PidSet -> Steps], place \in [PidSet -> Places] : Traced(step, place)
  BY DEF Traceable
<1>2. i \in 1 .. Len(send_pubcomp) /\ send_pubcomp[i] \in PidSet
  BY FirstTypes DEF WritePubcomp, QueuesTyped
<1>3. PICK p \in PidSet : p = send_pubcomp[i]
  BY <1>2
<1>4. PICK e \in Packets : e = [type |-> "pubcomp", pid |-> p]
  BY DEF Packets
<1>5. /\ send_pubcomp' = Remove(send_pubcomp, i) /\ send_buffer' = Append(send_buffer, e)
      /\ UNCHANGED <<send_puback, send_pubrec, await_pubrel, to_broker, to_client, inflight,
                     delivered, stopped>>
  BY <1>3, <1>4 DEF WritePubcomp, Written, try_write_packet, netVars, brokerVars
<1>6. PICK w2 \in [PidSet -> Places] : w2[p] = "written" /\ SameBut(p, place, w2)
  BY Update DEF Places
<1>7. step[p] = "pubcomp" /\ place[p] = "queued" /\ SameBut(p, step, step)
  BY <1>1, <1>2, <1>3 DEF Traced, Holds, SameBut
<1>8. \A k \in 1 .. Len(await_pubrel) : await_pubrel[k] # p
  BY <1>1, <1>7 DEF Traced, Awaits
<1>9. Holds(send_pubcomp', "pubcomp", step, w2)
  BY <1>1, <1>2, <1>3, <1>5, <1>6, <1>7, FirstTypes, HoldsPop DEF Traced, QueuesTyped
<1>10. Holds(send_pubrec, "pubrec", step, w2) /\ Holds(send_puback, "puback", step, w2)
  BY <1>1, <1>6, <1>7, FirstTypes, HoldsFrame DEF Traced, QueuesTyped
<1>11. Carries(send_buffer', "written", step, w2)
  BY <1>1, <1>4, <1>5, <1>6, <1>7, FirstTypes, CarriesPush DEF Traced
<1>12. Carries(to_broker, "sent", step, w2)
  BY <1>1, <1>6, <1>7, FirstTypes, CarriesFrame DEF Traced
<1>13. Awaits(await_pubrel, step, w2)
  BY <1>1, <1>6, <1>7, <1>8, FirstTypes, AwaitsFrame DEF Traced, QueuesTyped
<1>14. Backed(inflight, step, w2, delivered, stopped)
  BY <1>1, <1>6, <1>7, FirstTypes, BackedSame DEF Traced
<1>15. Brings(to_client, inflight, step)
  BY <1>1 DEF Traced
<1>16. Traced(step, w2)'
  BY <1>5, <1>9, <1>10, <1>11, <1>12, <1>13, <1>14, <1>15 DEF Traced
<1> QED BY <1>6, <1>16 DEF Traceable

\* The socket takes a packet.
LEMMA SendTraced ==
    ASSUME FirstInv, Traceable, Send
    PROVE  Traceable'
<1>1. PICK step \in [PidSet -> Steps], place \in [PidSet -> Places] : Traced(step, place)
  BY DEF Traceable
<1>2. /\ send_buffer # <<>> /\ send_buffer' = Tail(send_buffer)
      /\ to_broker' = Append(to_broker, Head(send_buffer))
      /\ UNCHANGED <<send_puback, send_pubrec, await_pubrel, send_pubcomp, to_client, inflight,
                     delivered, stopped>>
  BY DEF Send, write_to_network, queueVars, brokerVars
<1>3. send_buffer[1] \in Packets /\ Head(send_buffer) = send_buffer[1] /\ 1 \in 1 .. Len(send_buffer)
  BY <1>2, FirstTypes, TailFacts
<1>4. PICK e \in Packets : e = send_buffer[1]
  BY <1>3
<1>5. PICK p \in PidSet : p = e.pid
  BY DEF Packets
<1>6. PICK w2 \in [PidSet -> Places] : w2[p] = "sent" /\ SameBut(p, place, w2)
  BY Update DEF Places
<1>7. step[p] = e.type /\ place[p] = "written" /\ SameBut(p, step, step)
      /\ step[p] \in {"puback", "pubrec", "pubcomp"}
  BY <1>1, <1>3, <1>4, <1>5 DEF Traced, Carries, SameBut, Packets
<1>8. \/ \A k \in 1 .. Len(await_pubrel) : await_pubrel[k] # p
      \/ step[p] = "pubrec" /\ w2[p] \in {"written", "sent"}
  BY <1>1, <1>6, <1>7 DEF Traced, Awaits
<1>9. Holds(send_puback, "puback", step, w2) /\ Holds(send_pubrec, "pubrec", step, w2)
      /\ Holds(send_pubcomp, "pubcomp", step, w2)
  BY <1>1, <1>6, <1>7, FirstTypes, HoldsFrame DEF Traced, QueuesTyped
<1>10. Carries(send_buffer', "written", step, w2)
  BY <1>1, <1>2, <1>4, <1>5, <1>6, <1>7, FirstTypes, CarriesPop DEF Traced
<1>11. Carries(to_broker', "sent", step, w2)
  BY <1>1, <1>2, <1>3, <1>4, <1>5, <1>6, <1>7, FirstTypes, CarriesPush DEF Traced
<1>12. Awaits(await_pubrel, step, w2)
  BY <1>1, <1>6, <1>7, <1>8, FirstTypes, AwaitsFrame DEF Traced, QueuesTyped
<1>13. Backed(inflight, step, w2, delivered, stopped)
  BY <1>1, <1>6, <1>7, FirstTypes, BackedSame DEF Traced
<1>14. Brings(to_client, inflight, step)
  BY <1>1 DEF Traced
<1>15. Traced(step, w2)'
  BY <1>2, <1>9, <1>10, <1>11, <1>12, <1>13, <1>14 DEF Traced
<1> QED BY <1>6, <1>15 DEF Traceable

\* Nothing but the connection changes, or a packet without an effect is taken.
LEMMA SameTraced ==
    ASSUME FirstInv, Traceable,
           UNCHANGED <<queueVars, send_buffer, inflight>>,
           UNCHANGED to_broker \/ (to_broker # <<>> /\ to_broker' = Tail(to_broker)),
           UNCHANGED to_client \/ (to_client # <<>> /\ to_client' = Tail(to_client)),
           \A m \in Msgs : delivered[m] > 0 => delivered'[m] > 0,
           stopped = TRUE => stopped' = TRUE
    PROVE  Traceable'
<1>1. PICK step \in [PidSet -> Steps], place \in [PidSet -> Places] : Traced(step, place)
  BY DEF Traceable
<1>2. Brings(to_client', inflight, step)
  BY <1>1, FirstTypes, BringsTail DEF Traced
<1>3. Carries(to_broker', "sent", step, place)
  <2>1. \A p : SameBut(p, step, step) /\ SameBut(p, place, place)
    BY DEF SameBut
  <2> QED BY <1>1, <2>1, FirstTypes, CarriesPop DEF Traced
<1>4. Backed(inflight, step, place, delivered', stopped')
  <2>1. Backed(inflight, step, place, delivered, stopped)
    BY <1>1 DEF Traced
  <2>2. \A l \in 1 .. Len(inflight) : inflight[l].uid \in Msgs
    BY PacketTypes DEF FirstInv, OnceInv
  <2> QED BY <2>1, <2>2 DEF Backed
<1>5. Traced(step, place)'
  BY <1>1, <1>2, <1>3, <1>4 DEF Traced, queueVars
<1> QED BY <1>5 DEF Traceable

\* The message of the entry with the id of a PUBLISH under way is that one.
LEMMA EntryOf ==
    ASSUME FirstInv, NEW step, Brings(to_client, inflight, step), 1 \in 1 .. Len(to_client),
           to_client[1].type = "publish", Qos[to_client[1].uid] > 0
    PROVE  /\ step[to_client[1].pid] = "publish"
           /\ \E l \in 1 .. Len(inflight) : inflight[l].pid = to_client[1].pid
           /\ \A l \in 1 .. Len(inflight) :
                 inflight[l].pid = to_client[1].pid => inflight[l].uid = to_client[1].uid
<1>1. step[to_client[1].pid] = "publish"
      /\ \E l \in 1 .. Len(inflight) : inflight[l].uid = to_client[1].uid /\ inflight[l].pid = to_client[1].pid
  BY DEF Brings
<1>2. \A k, l \in 1 .. Len(inflight) : inflight[k].pid = inflight[l].pid => k = l
  BY DEF FirstInv, OnceInv, OnceParts, BrokerSound
<1> QED BY <1>1, <1>2

\* What a packet with id p taken from the broker leaves behind in the other places.
Elsewhere(p, s2, w2) ==
    /\ Carries(send_buffer, "written", s2, w2)
    /\ Carries(to_broker, "sent", s2, w2)
    /\ Brings(Tail(to_client), inflight, s2)

\* What taking a packet with id p leaves alone.
LEMMA TakeElsewhere ==
    ASSUME FirstInv, NEW step, NEW place, Traced(step, place), to_client # <<>>,
           to_client[1].type = "pubrel" \/ (to_client[1].type = "publish" /\ Qos[to_client[1].uid] > 0),
           NEW s2, NEW w2, SameBut(to_client[1].pid, step, s2), SameBut(to_client[1].pid, place, w2)
    PROVE  Elsewhere(to_client[1].pid, s2, w2)
<1> DEFINE p == to_client[1].pid
<1>1. 1 \in 1 .. Len(to_client)
  BY FirstTypes, TailFacts
<1>2. step[p] \in {"publish", "pubrel"}
  BY <1>1 DEF Traced, Brings
<1>3. \A k, l \in 1 .. Len(to_client) :
         to_client[k].type = "publish" /\ Publishing(to_client, l, to_client[k].uid) => k = l
  BY DEF FirstInv, OnceInv, OnceParts, ClientBehind
<1>4. \A k, l \in 1 .. Len(inflight) : inflight[k].pid = inflight[l].pid => k = l
  BY DEF FirstInv, OnceInv, OnceParts, BrokerSound
<1>5. Brings(Tail(to_client), inflight, s2)
  BY <1>3, <1>4, FirstTypes, BringsTake DEF Traced
<1>6. ASSUME NEW q \in Seq(Packets), NEW at, Carries(q, at, step, place)
      PROVE  Carries(q, at, s2, w2)
  <2>1. \A k \in 1 .. Len(q) : q[k] \in Packets
    OBVIOUS
  <2>2. \A k \in 1 .. Len(q) : q[k].type # "publish" /\ q[k].type # "pubrel" /\ q[k].pid \in PidSet
    BY <2>1 DEF Packets
  <2>3. \A k \in 1 .. Len(q) : q[k].pid # p
    BY <1>2, <1>6, <2>2 DEF Carries
  <2> QED BY <1>6, <2>2, <2>3 DEF Carries, SameBut
<1> QED BY <1>5, <1>6, FirstTypes DEF Traced, Elsewhere

\* Handing over a message takes no other one back.
LEMMA GivenMore ==
    ASSUME FlowTypeOK, NEW m \in Msgs, Given(m)
    PROVE  delivered'[m] > 0 /\ \A x \in Msgs : delivered[x] > 0 => delivered'[x] > 0
<1>1. delivered \in [Msgs -> Nat]
  BY DEF FlowTypeOK, TypeOK
<1>2. \A x \in Msgs : delivered'[x] = IF x = m THEN delivered[x] + 1 ELSE delivered[x]
  BY <1>1 DEF Given
<1>3. \A x \in Msgs : delivered[x] \in Nat
  BY <1>1
<1> QED BY <1>2, <1>3

\* A QoS 1 message is handed over and its PUBACK queued.
LEMMA Got1Traced ==
    ASSUME FirstInv, Traceable, Got1
    PROVE  Traceable'
<1>1. PICK step \in [PidSet -> Steps], place \in [PidSet -> Places] : Traced(step, place)
  BY DEF Traceable
<1>2. /\ to_client # <<>> /\ to_client' = Tail(to_client) /\ to_client[1].type = "publish"
      /\ Qos[to_client[1].uid] > 0 /\ Given(to_client[1].uid)
      /\ send_puback' = Append(send_puback, to_client[1].pid)
      /\ UNCHANGED <<send_pubrec, await_pubrel, send_pubcomp, send_buffer, to_broker, inflight, stopped>>
  BY DEF Got1, Took, brokerVars, Given
<1>3. 1 \in 1 .. Len(to_client) /\ to_client[1].pid \in PidSet /\ to_client[1].uid \in Msgs /\ FlowTypeOK
  <2>1. 1 \in 1 .. Len(to_client)
    BY <1>2, FirstTypes, TailFacts
  <2> QED BY <1>2, <2>1, PacketTypes DEF FirstInv, OnceInv
<1>4. PICK p \in PidSet : p = to_client[1].pid
  BY <1>3
<1>5. PICK s2 \in [PidSet -> Steps] : s2[p] = "puback" /\ SameBut(p, step, s2)
  BY Update DEF Steps
<1>6. PICK w2 \in [PidSet -> Places] : w2[p] = "queued" /\ SameBut(p, place, w2)
  BY Update DEF Places
<1>7. /\ step[p] = "publish"
      /\ \E l \in 1 .. Len(inflight) : inflight[l].pid = p
      /\ \A l \in 1 .. Len(inflight) : inflight[l].pid = p => inflight[l].uid = to_client[1].uid
  BY <1>1, <1>2, <1>3, <1>4, EntryOf DEF Traced
<1>8. delivered'[to_client[1].uid] > 0 /\ \A x \in Msgs : delivered[x] > 0 => delivered'[x] > 0
  BY <1>2, <1>3, GivenMore
<1>9. Elsewhere(p, s2, w2)
  BY <1>1, <1>2, <1>4, <1>5, <1>6, TakeElsewhere
<1>10. Holds(send_puback', "puback", s2, w2)
  BY <1>1, <1>2, <1>4, <1>5, <1>6, <1>7, FirstTypes, HoldsPush DEF Traced, QueuesTyped
<1>11. Holds(send_pubrec, "pubrec", s2, w2) /\ Holds(send_pubcomp, "pubcomp", s2, w2)
  BY <1>1, <1>5, <1>6, <1>7, FirstTypes, HoldsFrame DEF Traced, QueuesTyped
<1>12. Awaits(await_pubrel, s2, w2)
  <2>1. \A k \in 1 .. Len(await_pubrel) : await_pubrel[k] # p
    BY <1>1, <1>7 DEF Traced, Awaits
  <2> QED BY <1>1, <1>5, <1>6, <2>1, FirstTypes, AwaitsFrame DEF Traced, QueuesTyped
<1>13. Backed(inflight, s2, w2, delivered', stopped)
  <2>1. \A l \in 1 .. Len(inflight) : inflight[l].pid = p =>
              /\ s2[p] \in {"puback", "pubrel", "pubcomp"} => delivered'[inflight[l].uid] > 0
              /\ s2[p] = "pubrec" => delivered'[inflight[l].uid] > 0 \/ (stopped = TRUE /\ w2[p] = "queued")
    BY <1>5, <1>7, <1>8
  <2>2. Backed(inflight, step, place, delivered, stopped)
    BY <1>1 DEF Traced
  <2> QED BY <1>5, <1>6, <1>7, <1>8, <2>1, <2>2, FirstTypes, BackedStep, KeepsAll
<1>14. Traced(s2, w2)'
  BY <1>2, <1>9, <1>10, <1>11, <1>12, <1>13 DEF Traced, Elsewhere
<1> QED BY <1>14 DEF Traceable

\* In the first connection no PUBLISH is taken for a repeated one.
LEMMA Queued2Traced ==
    ASSUME FirstInv, Traceable, Repeated \/ Unfit \/ Got2
    PROVE  Traceable'
<1>1. PICK step \in [PidSet -> Steps], place \in [PidSet -> Places] : Traced(step, place)
  BY DEF Traceable
<1>2. /\ to_client # <<>> /\ to_client' = Tail(to_client) /\ to_client[1].type = "publish"
      /\ Qos[to_client[1].uid] > 0
      /\ send_pubrec' = Append(send_pubrec, to_client[1].pid)
      /\ UNCHANGED <<send_puback, await_pubrel, send_pubcomp, send_buffer, to_broker, inflight>>
      /\ ~stopped
  BY DEF Repeated, Unfit, Got2, Queued2, Took, brokerVars, Processing
<1>3. 1 \in 1 .. Len(to_client) /\ to_client[1].pid \in PidSet /\ to_client[1].uid \in Msgs /\ FlowTypeOK
  <2>1. 1 \in 1 .. Len(to_client)
    BY <1>2, FirstTypes, TailFacts
  <2> QED BY <1>2, <2>1, PacketTypes DEF FirstInv, OnceInv
<1>4. PICK p \in PidSet : p = to_client[1].pid
  BY <1>3
<1>5. PICK s2 \in [PidSet -> Steps] : s2[p] = "pubrec" /\ SameBut(p, step, s2)
  BY Update DEF Steps
<1>6. PICK w2 \in [PidSet -> Places] : w2[p] = "queued" /\ SameBut(p, place, w2)
  BY Update DEF Places
<1>7. /\ step[p] = "publish"
      /\ \E l \in 1 .. Len(inflight) : inflight[l].pid = p
      /\ \A l \in 1 .. Len(inflight) : inflight[l].pid = p => inflight[l].uid = to_client[1].uid
  BY <1>1, <1>2, <1>3, <1>4, EntryOf DEF Traced
<1>8. /\ delivered'[to_client[1].uid] > 0 \/ stopped' = TRUE
      /\ \A x \in Msgs : delivered[x] > 0 => delivered'[x] > 0
  <2>1. ~is_dup(p)
    BY <1>1, <1>7 DEF is_dup, Has, Traced, Holds, Awaits
  <2>2. CASE Unfit
    BY <2>2 DEF Unfit
  <2>3. CASE Got2
    BY <1>3, <2>3, GivenMore DEF Got2
  <2> QED BY <1>4, <2>1, <2>2, <2>3 DEF Repeated
<1>9. Elsewhere(p, s2, w2)
  BY <1>1, <1>2, <1>4, <1>5, <1>6, TakeElsewhere
<1>10. Holds(send_pubrec', "pubrec", s2, w2)
  BY <1>1, <1>2, <1>4, <1>5, <1>6, <1>7, FirstTypes, HoldsPush DEF Traced, QueuesTyped
<1>11. Holds(send_puback, "puback", s2, w2) /\ Holds(send_pubcomp, "pubcomp", s2, w2)
  BY <1>1, <1>5, <1>6, <1>7, FirstTypes, HoldsFrame DEF Traced, QueuesTyped
<1>12. Awaits(await_pubrel, s2, w2)
  <2>1. \A k \in 1 .. Len(await_pubrel) : await_pubrel[k] # p
    BY <1>1, <1>7 DEF Traced, Awaits
  <2> QED BY <1>1, <1>5, <1>6, <2>1, FirstTypes, AwaitsFrame DEF Traced, QueuesTyped
<1>13. Backed(inflight, s2, w2, delivered', stopped')
  <2>1. \A l \in 1 .. Len(inflight) : inflight[l].pid = p =>
              /\ s2[p] \in {"puback", "pubrel", "pubcomp"} => delivered'[inflight[l].uid] > 0
              /\ s2[p] = "pubrec" => delivered'[inflight[l].uid] > 0 \/ (stopped' = TRUE /\ w2[p] = "queued")
    BY <1>5, <1>6, <1>7, <1>8
  <2>2. Backed(inflight, step, place, delivered, stopped)
    BY <1>1 DEF Traced
  <2>3. stopped = TRUE => stopped' = TRUE
    BY <1>2
  <2> QED BY <1>5, <1>6, <1>7, <1>8, <2>1, <2>2, <2>3, FirstTypes, BackedStep, KeepsAll
<1>14. Traced(s2, w2)'
  BY <1>2, <1>9, <1>10, <1>11, <1>12, <1>13 DEF Traced, Elsewhere
<1> QED BY <1>14 DEF Traceable

\* A PUBREL moves its id from await_pubrel to send_pubcomp.
LEMMA ReleasedTraced ==
    ASSUME FirstInv, Traceable, Released
    PROVE  Traceable'
<1>1. PICK step \in [PidSet -> Steps], place \in [PidSet -> Places] : Traced(step, place)
  BY DEF Traceable
<1>2. /\ to_client # <<>> /\ to_client' = Tail(to_client) /\ to_client[1].type = "pubrel"
      /\ send_pubcomp' = Append(send_pubcomp, to_client[1].pid)
      /\ UNCHANGED <<send_puback, send_pubrec, send_buffer, to_broker, inflight, delivered, stopped>>
  BY DEF Released, Took, brokerVars
<1>3. 1 \in 1 .. Len(to_client) /\ to_client[1].pid \in PidSet
  <2>1. 1 \in 1 .. Len(to_client)
    BY <1>2, FirstTypes, TailFacts
  <2> QED BY <1>2, <2>1, PacketTypes DEF FirstInv, OnceInv
<1>4. PICK p \in PidSet : p = to_client[1].pid
  BY <1>3
<1>5. PICK s2 \in [PidSet -> Steps] : s2[p] = "pubcomp" /\ SameBut(p, step, s2)
  BY Update DEF Steps
<1>6. PICK w2 \in [PidSet -> Places] : w2[p] = "queued" /\ SameBut(p, place, w2)
  BY Update DEF Places
<1>7. step[p] = "pubrel"
  BY <1>1, <1>2, <1>3, <1>4 DEF Traced, Brings
<1>8. Elsewhere(p, s2, w2)
  BY <1>1, <1>2, <1>4, <1>5, <1>6, TakeElsewhere
<1>9. Holds(send_pubcomp', "pubcomp", s2, w2)
  BY <1>1, <1>2, <1>4, <1>5, <1>6, <1>7, FirstTypes, HoldsPush DEF Traced, QueuesTyped
<1>10. Holds(send_pubrec, "pubrec", s2, w2) /\ Holds(send_puback, "puback", s2, w2)
  BY <1>1, <1>5, <1>6, <1>7, FirstTypes, HoldsFrame DEF Traced, QueuesTyped
<1>11. Awaits(await_pubrel', s2, w2)
  <2>1. ASSUME NEW k \in 1 .. Len(await_pubrel), await_pubrel[k] = p,
               await_pubrel' = Remove(await_pubrel, k)
        PROVE  Awaits(await_pubrel', s2, w2)
    BY <1>1, <1>5, <1>6, <2>1, FirstTypes, AwaitsPop DEF Traced, QueuesTyped
  <2>2. CASE ~Has(await_pubrel, p) /\ UNCHANGED await_pubrel
    <3>1. \A k \in 1 .. Len(await_pubrel) : await_pubrel[k] # p
      BY <2>2 DEF Has
    <3> QED BY <1>1, <1>5, <1>6, <2>2, <3>1, FirstTypes, AwaitsFrame DEF Traced, QueuesTyped
  <2>3. forget(p)
    BY <1>4 DEF Released, forget
  <2> QED BY <2>1, <2>2, <2>3 DEF forget
<1>12. Backed(inflight, s2, w2, delivered, stopped)
  <2>1. Backed(inflight, step, place, delivered, stopped)
    BY <1>1 DEF Traced
  <2>2. \A l \in 1 .. Len(inflight) : inflight[l].pid = p =>
              /\ s2[p] \in {"puback", "pubrel", "pubcomp"} => delivered[inflight[l].uid] > 0
              /\ s2[p] = "pubrec" => delivered[inflight[l].uid] > 0 \/ (stopped = TRUE /\ w2[p] = "queued")
    BY <1>5, <1>7, <2>1 DEF Backed
  <2>3. \E l \in 1 .. Len(inflight) : inflight[l].pid = p
    BY <1>7, <2>1 DEF Backed
  <2> QED BY <1>5, <1>6, <2>1, <2>2, <2>3, FirstTypes, BackedStep, KeepsAll
<1>13. Traced(s2, w2)'
  BY <1>2, <1>8, <1>9, <1>10, <1>11, <1>12 DEF Traced, Elsewhere
<1> QED BY <1>13 DEF Traceable

\* A QoS 0 message has no handshake.
LEMMA Sent0Traced ==
    ASSUME FirstInv, Traceable, NEW m \in Msgs, NEW pid \in PidSet, Sent0(m, pid)
    PROVE  Traceable'
<1>1. PICK step \in [PidSet -> Steps], place \in [PidSet -> Places] : Traced(step, place)
  BY DEF Traceable
<1>2. PICK e \in FromBroker : e = [type |-> "publish", uid |-> m, pid |-> pid]
  BY DEF FromBroker
<1>3. /\ to_client' = Append(to_client, e) /\ e.type = "publish" /\ ~(Qos[e.uid] > 0)
      /\ UNCHANGED <<send_puback, send_pubrec, await_pubrel, send_pubcomp, send_buffer, to_broker,
                     inflight, delivered, stopped>>
  BY <1>2 DEF Sent0, NewMessage, vars
<1>4. Brings(to_client', inflight, step)
  BY <1>1, <1>3, FirstTypes, BringsPush DEF Traced
<1>5. Traced(step, place)'
  BY <1>1, <1>3, <1>4 DEF Traced
<1> QED BY <1>5 DEF Traceable

\* No packet is at a step with an id that nothing in flight has.
LEMMA AbsentFrame ==
    ASSUME FirstInv, NEW step, NEW place, Traced(step, place), NEW p \in PidSet, step[p] = "none",
           NEW s2, NEW w2, SameBut(p, step, s2), SameBut(p, place, w2)
    PROVE  /\ Holds(send_puback, "puback", s2, w2)
           /\ Holds(send_pubrec, "pubrec", s2, w2)
           /\ Holds(send_pubcomp, "pubcomp", s2, w2)
           /\ Carries(send_buffer, "written", s2, w2)
           /\ Carries(to_broker, "sent", s2, w2)
           /\ Awaits(await_pubrel, s2, w2)
<1>1. Holds(send_puback, "puback", s2, w2) /\ Holds(send_pubrec, "pubrec", s2, w2)
      /\ Holds(send_pubcomp, "pubcomp", s2, w2)
  BY FirstTypes, HoldsFrame DEF Traced, QueuesTyped
<1>2. Awaits(await_pubrel, s2, w2)
  <2>1. \A k \in 1 .. Len(await_pubrel) : await_pubrel[k] # p
    BY DEF Traced, Awaits
  <2> QED BY <2>1, FirstTypes, AwaitsFrame DEF Traced, QueuesTyped
<1>3. ASSUME NEW q \in Seq(Packets), NEW at, Carries(q, at, step, place)
      PROVE  Carries(q, at, s2, w2)
  <2>1. \A k \in 1 .. Len(q) : q[k] \in Packets
    OBVIOUS
  <2>2. \A k \in 1 .. Len(q) : q[k].type # "none" /\ q[k].pid \in PidSet
    BY <2>1 DEF Packets
  <2>3. \A k \in 1 .. Len(q) : q[k].pid # p
    BY <1>3, <2>2 DEF Carries
  <2> QED BY <1>3, <2>2, <2>3 DEF Carries, SameBut
<1> QED BY <1>1, <1>2, <1>3, FirstTypes DEF Traced

\* A handshake begins under an id that was at no step.
LEMMA Sent12Traced ==
    ASSUME FirstInv, Traceable, NEW m \in Msgs, NEW pid \in PidSet, Sent12(m, pid)
    PROVE  Traceable'
<1>1. PICK step \in [PidSet -> Steps], place \in [PidSet -> Places] : Traced(step, place)
  BY DEF Traceable
<1>2. PICK e \in FromBroker : e = [type |-> "publish", uid |-> m, pid |-> pid]
  BY DEF FromBroker
<1>3. PICK n \in InFlight : n = [uid |-> m, pid |-> pid, released |-> FALSE]
  BY DEF InFlight
<1>4. /\ to_client' = Append(to_client, e) /\ e.type = "publish" /\ e.uid = m /\ e.pid = pid
      /\ inflight' = Append(inflight, n) /\ n.uid = m /\ n.pid = pid
      /\ pid \notin UsedPids
      /\ UNCHANGED <<send_puback, send_pubrec, await_pubrel, send_pubcomp, send_buffer, to_broker,
                     delivered, stopped>>
  BY <1>2, <1>3 DEF Sent12, NewMessage, vars
<1>5. step[pid] = "none"
  BY <1>1, <1>4 DEF Traced, Backed, UsedPids
<1>6. PICK s2 \in [PidSet -> Steps] : s2[pid] = "publish" /\ SameBut(pid, step, s2)
  BY Update DEF Steps
<1>7. SameBut(pid, place, place)
  BY DEF SameBut
<1>8. /\ Len(inflight) \in Nat /\ Len(inflight') = Len(inflight) + 1
      /\ \A j \in 1 .. Len(inflight) : inflight'[j] = inflight[j]
      /\ inflight'[Len(inflight) + 1] = n
      /\ inflight' \in Seq(InFlight)
  BY <1>4, FirstTypes, PushFacts
<1>9. Keeps(inflight, inflight', pid) /\ Keeps(inflight', inflight, pid)
  BY <1>4, <1>8 DEF Keeps
<1>10. Len(inflight) + 1 \in 1 .. Len(inflight')
  BY <1>8
<1>11. Brings(to_client', inflight', s2)
  <2>1. Brings(to_client, inflight', s2)
    BY <1>1, <1>5, <1>6, <1>9, FirstTypes, BringsFrame DEF Traced
  <2> QED BY <1>4, <1>6, <1>8, <1>10, <2>1, FirstTypes, BringsPush
<1>12. Backed(inflight', s2, place, delivered, stopped)
  <2>1. Backed(inflight, step, place, delivered, stopped)
    BY <1>1 DEF Traced
  <2>2. \E l \in 1 .. Len(inflight') : inflight'[l].pid = pid
    BY <1>4, <1>8, <1>10
  <2> QED BY <1>6, <1>7, <1>8, <1>9, <2>1, <2>2, FirstTypes, BackedStep
<1>13. Traced(s2, place)'
  BY <1>1, <1>4, <1>5, <1>6, <1>7, <1>11, <1>12, AbsentFrame DEF Traced
<1> QED BY <1>13 DEF Traceable

\* What an acknowledgement with id p taken by the broker leaves behind.
LEMMA AckElsewhere ==
    ASSUME FirstInv, NEW step, NEW place, Traced(step, place), to_broker # <<>>,
           NEW s2, NEW w2, SameBut(to_broker[1].pid, step, s2), SameBut(to_broker[1].pid, place, w2)
    PROVE  /\ step[to_broker[1].pid] = to_broker[1].type /\ place[to_broker[1].pid] = "sent"
           /\ to_broker[1].pid \in PidSet
           /\ Holds(send_puback, "puback", s2, w2)
           /\ Holds(send_pubrec, "pubrec", s2, w2)
           /\ Holds(send_pubcomp, "pubcomp", s2, w2)
           /\ Carries(send_buffer, "written", s2, w2)
           /\ Carries(Tail(to_broker), "sent", s2, w2)
<1>1. 1 \in 1 .. Len(to_broker)
  BY FirstTypes, TailFacts
<1>2. step[to_broker[1].pid] = to_broker[1].type /\ place[to_broker[1].pid] = "sent"
  BY <1>1 DEF Traced, Carries
<1>3. to_broker[1].pid \in PidSet
  BY <1>1, FirstTypes, PacketPids
<1>4. Holds(send_puback, "puback", s2, w2) /\ Holds(send_pubrec, "pubrec", s2, w2)
      /\ Holds(send_pubcomp, "pubcomp", s2, w2)
  BY <1>2, FirstTypes, HoldsFrame DEF Traced, QueuesTyped
<1>5. Carries(send_buffer, "written", s2, w2)
  BY <1>2, FirstTypes, CarriesFrame DEF Traced
<1>6. Carries(Tail(to_broker), "sent", s2, w2)
  BY FirstTypes, CarriesPop DEF Traced
<1> QED BY <1>2, <1>3, <1>4, <1>5, <1>6

\* The broker answers the PUBREC with a PUBREL.
LEMMA PubrecTraced ==
    ASSUME FirstInv, Traceable, NEW k0 \in 1 .. Len(inflight), GotPubrec(k0)
    PROVE  Traceable'
<1>1. PICK step \in [PidSet -> Steps], place \in [PidSet -> Places] : Traced(step, place)
  BY DEF Traceable
<1>2. to_broker[1].pid \in PidSet /\ to_broker # <<>> /\ to_broker' = Tail(to_broker)
      /\ to_broker[1].type = "pubrec" /\ inflight[k0].pid = to_broker[1].pid
  <2>1. to_broker # <<>> /\ to_broker' = Tail(to_broker)
        /\ to_broker[1].type = "pubrec" /\ inflight[k0].pid = to_broker[1].pid
    BY Zenon DEF GotPubrec, GotAck
  <2>2. inflight[k0].pid \in PidSet
    BY PacketTypes DEF FirstInv, OnceInv
  <2> QED BY <2>1, <2>2
<1>3. PICK p \in PidSet : p = to_broker[1].pid
  BY <1>2
<1>4. PICK e \in FromBroker : e = [type |-> "pubrel", pid |-> p]
  BY DEF FromBroker
<1>5. /\ to_client' = Append(to_client, e) /\ e.type = "pubrel" /\ e.pid = p
      /\ UNCHANGED <<send_puback, send_pubrec, await_pubrel, send_pubcomp, send_buffer,
                     delivered, stopped>>
  BY <1>2, <1>3, <1>4 DEF GotPubrec, GotAck, vars
<1>6. PICK s2 \in [PidSet -> Steps] : s2[p] = "pubrel" /\ SameBut(p, step, s2)
  BY Update DEF Steps
<1>7. PICK w2 \in [PidSet -> Places] : w2[p] = "way" /\ SameBut(p, place, w2)
  BY Update DEF Places
<1>8. /\ step[p] = "pubrec" /\ place[p] = "sent"
      /\ Holds(send_puback, "puback", s2, w2) /\ Holds(send_pubrec, "pubrec", s2, w2)
      /\ Holds(send_pubcomp, "pubcomp", s2, w2) /\ Carries(send_buffer, "written", s2, w2)
      /\ Carries(to_broker', "sent", s2, w2)
  BY <1>1, <1>2, <1>3, <1>6, <1>7, AckElsewhere
<1>9. /\ Len(inflight') = Len(inflight) /\ inflight' \in Seq(InFlight)
      /\ \A l \in 1 .. Len(inflight) : inflight'[l].uid = inflight[l].uid /\ inflight'[l].pid = inflight[l].pid
  <2>1. inflight' = [inflight EXCEPT ![k0] = [inflight[k0] EXCEPT !.released = TRUE]]
    BY DEF GotPubrec
  <2>2. \A l \in 1 .. Len(inflight) : inflight[l] \in InFlight
    BY FirstTypes
  <2>3. [inflight[k0] EXCEPT !.released = TRUE] \in InFlight
        /\ [inflight[k0] EXCEPT !.released = TRUE].uid = inflight[k0].uid
        /\ [inflight[k0] EXCEPT !.released = TRUE].pid = inflight[k0].pid
    BY <2>2 DEF InFlight
  <2> QED BY <2>1, <2>3, FirstTypes
<1>10. Keeps(inflight, inflight', p) /\ Keeps(inflight', inflight, p)
  BY <1>9 DEF Keeps
<1>11. Awaits(await_pubrel, s2, w2)
  BY <1>1, <1>6, <1>7, FirstTypes, AwaitsFrame DEF Traced, QueuesTyped
<1>12. Brings(to_client', inflight', s2)
  <2>1. Brings(to_client, inflight', s2)
    BY <1>1, <1>6, <1>8, <1>10, FirstTypes, BringsFrame DEF Traced
  <2>2. \A k \in 1 .. Len(to_client) : to_client[k].type = "pubrel" => to_client[k].pid # e.pid
    BY <1>1, <1>5, <1>8 DEF Traced, Brings
  <2> QED BY <1>5, <1>6, <2>1, <2>2, FirstTypes, BringsPush
<1>13. Backed(inflight', s2, w2, delivered, stopped)
  <2>1. Backed(inflight, step, place, delivered, stopped)
    BY <1>1 DEF Traced
  <2>2. \E l \in 1 .. Len(inflight') : inflight'[l].pid = p
    BY <1>2, <1>3, <1>9
  <2>3. \A l \in 1 .. Len(inflight) : inflight[l].pid = p => delivered[inflight[l].uid] > 0
    BY <1>8, <2>1 DEF Backed
  <2>4. \A l \in 1 .. Len(inflight') : inflight'[l].pid = p =>
              /\ s2[p] \in {"puback", "pubrel", "pubcomp"} => delivered[inflight'[l].uid] > 0
              /\ s2[p] = "pubrec" => delivered[inflight'[l].uid] > 0 \/ (stopped = TRUE /\ w2[p] = "queued")
    BY <1>6, <1>9, <2>3
  <2> QED BY <1>6, <1>7, <1>9, <1>10, <2>1, <2>2, <2>4, FirstTypes, BackedStep
<1>14. Traced(s2, w2)'
  BY <1>5, <1>8, <1>11, <1>12, <1>13 DEF Traced
<1> QED BY <1>14 DEF Traceable

\* The last acknowledgement: the id becomes free, and no queue still has it.
LEMMA LastTraced ==
    ASSUME FirstInv, Traceable, AckedMeansDelivered, NEW k0 \in 1 .. Len(inflight), GotLast(k0)
    PROVE  Traceable' /\ AckedMeansDelivered'
<1>1. PICK step \in [PidSet -> Steps], place \in [PidSet -> Places] : Traced(step, place)
  BY DEF Traceable
<1>2. /\ to_broker # <<>> /\ to_broker' = Tail(to_broker)
      /\ to_broker[1].type \in {"puback", "pubcomp"} /\ inflight[k0].pid = to_broker[1].pid
  BY Zenon DEF GotLast, GotAck
<1>3. inflight[k0].pid \in PidSet
  BY PacketTypes DEF FirstInv, OnceInv
<1>4. PICK p \in PidSet : p = to_broker[1].pid
  BY <1>2, <1>3
<1>5. /\ inflight' = Remove(inflight, k0) /\ completed' = completed \cup {inflight[k0].uid}
      /\ UNCHANGED <<send_puback, send_pubrec, await_pubrel, send_pubcomp, send_buffer, to_client,
                     delivered, stopped>>
  BY DEF GotLast, GotAck, vars
<1>6. PICK s2 \in [PidSet -> Steps] : s2[p] = "none" /\ SameBut(p, step, s2)
  BY Update DEF Steps
<1>7. SameBut(p, place, place)
  BY DEF SameBut
<1>8. /\ step[p] \in {"puback", "pubcomp"} /\ place[p] = "sent"
      /\ Holds(send_puback, "puback", s2, place) /\ Holds(send_pubrec, "pubrec", s2, place)
      /\ Holds(send_pubcomp, "pubcomp", s2, place) /\ Carries(send_buffer, "written", s2, place)
      /\ Carries(to_broker', "sent", s2, place)
  BY <1>1, <1>2, <1>4, <1>6, <1>7, AckElsewhere
<1>9. /\ Len(inflight) \in Nat /\ Len(inflight') = Len(inflight) - 1
      /\ inflight' \in Seq(InFlight)
      /\ \A j \in 1 .. Len(inflight) - 1 :
            inflight'[j] = IF j < k0 THEN inflight[j] ELSE inflight[j + 1]
  BY <1>5, FirstTypes, RemoveFacts
<1>10. ASSUME NEW l \in 1 .. Len(inflight), l # k0
       PROVE  \E j \in 1 .. Len(inflight') : inflight'[j] = inflight[l]
  <2>1. CASE l < k0
    <3>1. l \in 1 .. Len(inflight') /\ inflight'[l] = inflight[l]
      BY <1>9, <2>1
    <3> QED BY <3>1
  <2>2. CASE l > k0
    <3>1. l - 1 \in 1 .. Len(inflight') /\ inflight'[l - 1] = inflight[l]
      BY <1>9, <2>2
    <3> QED BY <3>1
  <2> QED BY <1>10, <2>1, <2>2
<1>11. ASSUME NEW j \in 1 .. Len(inflight')
       PROVE  \E l \in 1 .. Len(inflight) : l # k0 /\ inflight'[j] = inflight[l]
  <2>1. CASE j < k0
    <3>1. j \in 1 .. Len(inflight) /\ j # k0 /\ inflight'[j] = inflight[j]
      BY <1>9, <2>1
    <3> QED BY <3>1
  <2>2. CASE ~(j < k0)
    <3>1. j + 1 \in 1 .. Len(inflight) /\ j + 1 # k0 /\ inflight'[j] = inflight[j + 1]
      BY <1>9, <2>2
    <3> QED BY <3>1
  <2> QED BY <2>1, <2>2
<1>12. \A k, l \in 1 .. Len(inflight) : inflight[k].pid = inflight[l].pid => k = l
  BY DEF FirstInv, OnceInv, OnceParts, BrokerSound
<1>13. Keeps(inflight, inflight', p) /\ Keeps(inflight', inflight, p)
  <2>1. ASSUME NEW l \in 1 .. Len(inflight), inflight[l].pid # p
        PROVE  \E j \in 1 .. Len(inflight') : inflight'[j] = inflight[l]
    <3>1. l # k0
      BY <1>2, <1>4, <2>1
    <3> QED BY <1>10, <3>1
  <2>2. ASSUME NEW j \in 1 .. Len(inflight')
        PROVE  \E l \in 1 .. Len(inflight) : inflight[l] = inflight'[j]
    BY <1>11
  <2>3. Keeps(inflight, inflight', p)
    BY <2>1 DEF Keeps
  <2>4. Keeps(inflight', inflight, p)
    BY <2>2 DEF Keeps
  <2> QED BY <2>3, <2>4
<1>14. ASSUME NEW j \in 1 .. Len(inflight')
       PROVE  inflight'[j].pid # p
  <2>1. PICK l \in 1 .. Len(inflight) : l # k0 /\ inflight'[j] = inflight[l]
    BY <1>11
  <2>2. inflight[l].pid # inflight[k0].pid
    BY <1>12, <2>1
  <2> QED BY <1>2, <1>4, <2>1, <2>2
<1>15. Awaits(await_pubrel, s2, place)
  <2>1. \A k \in 1 .. Len(await_pubrel) : await_pubrel[k] # p
    BY <1>1, <1>8 DEF Traced, Awaits
  <2> QED BY <1>1, <1>6, <1>7, <2>1, FirstTypes, AwaitsFrame DEF Traced, QueuesTyped
<1>16. Brings(to_client, inflight', s2)
  BY <1>1, <1>6, <1>8, <1>13, FirstTypes, BringsFrame DEF Traced
<1>17. Backed(inflight, step, place, delivered, stopped)
  BY <1>1 DEF Traced
<1>18. Backed(inflight', s2, place, delivered, stopped)
  BY <1>6, <1>7, <1>9, <1>13, <1>14, <1>17, FirstTypes, BackedStep
<1>19. Traced(s2, place)'
  BY <1>5, <1>8, <1>15, <1>16, <1>18 DEF Traced
<1>20. AckedMeansDelivered'
  <2>1. delivered[inflight[k0].uid] > 0
    BY <1>2, <1>4, <1>8, <1>17 DEF Backed
  <2> QED BY <1>5, <2>1 DEF AckedMeansDelivered
<1> QED BY <1>19, <1>20 DEF Traceable

\* The first connection starts with no id at any step.
LEMMA ConnectTraced ==
    ASSUME FirstInv, Unused, Connect
    PROVE  Traceable'
<1>1. /\ inflight' = <<>> /\ to_broker' = <<>> /\ send_buffer' = <<>>
      /\ send_puback' = <<>> /\ send_pubrec' = <<>> /\ send_pubcomp' = <<>> /\ await_pubrel' = <<>>
  BY DEF Unused, Connect, reconnect, queueVars, brokerVars
<1>2. Len(to_client') = 0
  BY DEF Unused, Connect
<1>3. PICK step \in [PidSet -> Steps] : step = [p \in PidSet |-> "none"]
  BY DEF Steps
<1>4. PICK place \in [PidSet -> Places] : place = [p \in PidSet |-> "way"]
  BY DEF Places
<1>5. 1 .. 0 = {} /\ Len(<<>>) = 0
  OBVIOUS
<1>6. Traced(step, place)'
  BY <1>1, <1>2, <1>3, <1>5 DEF Traced, Holds, Carries, Awaits, Brings, Backed
<1> QED BY <1>6 DEF Traceable

\* FirstParts in the initial state.
LEMMA InitFirst == FlowInit => FirstParts
<1> SUFFICES ASSUME FlowInit PROVE FirstParts
  OBVIOUS
<1>1. stopped = TRUE => pc = "idle"
  BY DEF FlowInit, Init
<1>2. Unused
  BY DEF FlowInit, Init, LinkInit, Unused
<1>3. AckedMeansDelivered
  BY <1>2 DEF Unused, AckedMeansDelivered
<1>4. PICK step \in [PidSet -> Steps] : step = [p \in PidSet |-> "none"]
  BY DEF Steps
<1>5. PICK place \in [PidSet -> Places] : place = [p \in PidSet |-> "way"]
  BY DEF Places
<1>6. 1 .. 0 = {} /\ Len(<<>>) = 0
  OBVIOUS
<1>7. Traced(step, place)
  BY <1>2, <1>4, <1>6 DEF Traced, Holds, Carries, Awaits, Brings, Backed, Unused
<1> QED BY <1>1, <1>2, <1>3, <1>7 DEF FirstParts

\* The parts of FirstInv, step by step.
LEMMA NextStopped ==
    ASSUME FirstInv, [FlowNext]_flowVars
    PROVE  stopped' = TRUE => pc' = "idle"
<1>1. FlowTypeOK /\ (stopped = TRUE => pc = "idle")
  BY DEF FirstInv, OnceInv, FirstParts
<1>2. CASE UNCHANGED <<pc, stopped>>
  BY <1>1, <1>2
<1>3. CASE process_packet
  <2>1. Took
    BY <1>1, <1>3, TakeCases DEF Refused, GotQuietly, Got1, Repeated, Unfit, Got2, Queued2, Released
  <2> QED BY <2>1 DEF Took, Processing, loopVars
<1>4. CASE SendStep
  <2>1. CASE Scan
    BY <1>1, <2>1 DEF Scan
  <2>2. CASE WritePuback \/ WritePubrec \/ WritePubcomp
    BY <1>2, <2>2 DEF WritePuback, WritePubrec, WritePubcomp, Written
  <2> QED BY <1>1, <1>4, <2>1, <2>2, SendCases
<1>5. Send \/ Lose \/ Connect \/ BrokerReceive \/ (\E m \in Msgs : BrokerSend(m)) \/ UNCHANGED flowVars
        => UNCHANGED <<pc, stopped>>
  BY DEF Send, Lose, Connect, BrokerReceive, BrokerSend, loopVars, vars, flowVars
<1> QED BY <1>2, <1>3, <1>4, <1>5 DEF FlowNext

\* Nothing happens before the first connection.
LEMMA NextUnused ==
    ASSUME FirstInv, [FlowNext]_flowVars
    PROVE  connections' = 0 => connections = 0 /\ Unused'
<1>1. FlowTypeOK /\ (connections = 0 => Unused) /\ connections \in Nat
  BY FlowAssumption DEF FirstInv, OnceInv, FirstParts, FlowTypeOK
<1>2. Connect => connections' # 0
  BY <1>1 DEF Connect
<1>3. ~Connect => connections' = connections
  BY DEF FlowNext, SendStep, Send, process_packet, Lose, BrokerSend, BrokerReceive, flowVars
<1>4. Unused => ~Send /\ ~Lose /\ ~process_packet /\ ~BrokerReceive /\ ~\E m \in Msgs : BrokerSend(m)
  BY DEF Unused, Send, Lose, Processing, process_packet, BrokerReceive, BrokerSend
<1>5. Unused => ~SendStep
  BY DEF Unused, SendStep, Sending, send_packets, send_pubacks, send_pubrecs, send_pubcomps, Processing
<1>6. Unused /\ UNCHANGED flowVars => Unused'
  BY DEF Unused, flowVars
<1> QED BY <1>1, <1>2, <1>3, <1>4, <1>5, <1>6 DEF FlowNext

\* Every step of the first connection has its trace.
LEMMA NextTraced ==
    ASSUME FirstInv, [FlowNext]_flowVars, connections' <= 1
    PROVE  Traceable' /\ AckedMeansDelivered'
<1>1. FlowTypeOK /\ connections \in Nat /\ (connections = 0 => Unused)
  BY FlowAssumption DEF FirstInv, OnceInv, FirstParts, FlowTypeOK
<1>2. CASE Connect
  <2>1. connections = 0
    BY <1>1, <1>2 DEF Connect
  <2>2. completed' = {}
    BY <1>1, <1>2, <2>1 DEF Connect, Unused, brokerVars
  <2>3. AckedMeansDelivered'
    BY <2>2 DEF AckedMeansDelivered
  <2> QED BY <1>1, <1>2, <2>1, <2>3, ConnectTraced
<1>3. CASE ~Connect
  <2>1. connections' = connections
    BY <1>3 DEF FlowNext, SendStep, Send, process_packet, Lose, BrokerSend, BrokerReceive, flowVars
  <2>2. Traceable /\ AckedMeansDelivered
    BY <2>1 DEF FirstInv, FirstParts, Traceable
  <2>3. CASE SendStep
    <3>1. UNCHANGED <<completed, delivered>>
      BY <1>1, <2>3, SendCases DEF WritePuback, WritePubrec, WritePubcomp, Written, Scan, brokerVars
    <3>2. AckedMeansDelivered'
      BY <2>2, <3>1 DEF AckedMeansDelivered
    <3>3. Scan => Traceable'
      BY <2>2, SameTraced DEF Scan, connVars, netVars, brokerVars
    <3> QED BY <1>1, <2>2, <2>3, <3>2, <3>3, SendCases, WritePubackTraced, WritePubrecTraced, WritePubcompTraced
  <2>4. CASE Send
    <3>1. UNCHANGED <<completed, delivered>>
      BY <2>4 DEF Send, brokerVars
    <3>2. AckedMeansDelivered'
      BY <2>2, <3>1 DEF AckedMeansDelivered
    <3> QED BY <2>2, <2>4, <3>2, SendTraced
  <2>5. CASE Lose \/ UNCHANGED flowVars \/ Ignored
    <3>1. /\ UNCHANGED <<queueVars, send_buffer, inflight, to_client, completed, delivered, stopped>>
          /\ UNCHANGED to_broker \/ (to_broker # <<>> /\ to_broker' = Tail(to_broker))
      BY <2>5 DEF Lose, flowVars, Ignored, GotAck, queueVars, netVars, brokerVars, set_error, vars
    <3>2. AckedMeansDelivered'
      BY <2>2, <3>1 DEF AckedMeansDelivered
    <3> QED BY <2>2, <3>1, <3>2, SameTraced
  <2>6. CASE process_packet
    <3>1. Took
      BY <1>1, <2>6, TakeCases DEF Refused, GotQuietly, Got1, Repeated, Unfit, Got2, Queued2, Released
    <3>2. /\ to_client # <<>> /\ to_client' = Tail(to_client) /\ UNCHANGED <<completed, inflight, to_broker, send_buffer>>
          /\ ~stopped
      BY <3>1 DEF Took, brokerVars, Processing
    <3>3. 1 \in 1 .. Len(to_client)
      BY <1>1, <3>2, TailFacts DEF FlowTypeOK
    <3>4. to_client[1].type = "publish" => to_client[1].uid \in Msgs
      BY <1>1, <3>3, PacketTypes
    <3>5. \A m \in Msgs : delivered[m] > 0 => delivered'[m] > 0
      BY <1>1, <2>6, <3>4, TakeCases, GivenMore
         DEF Refused, GotQuietly, Got1, Repeated, Unfit, Got2, Queued2, Released
    <3>6. AckedMeansDelivered'
      BY <1>1, <2>2, <3>2, <3>5 DEF AckedMeansDelivered, FlowTypeOK
    <3>7. Refused \/ GotQuietly => Traceable'
      BY <2>2, <3>2, <3>5, SameTraced DEF Refused, GotQuietly
    <3> QED BY <1>1, <2>2, <2>6, <3>6, <3>7, TakeCases, Got1Traced, Queued2Traced, ReleasedTraced
  <2>7. ASSUME NEW m \in Msgs, BrokerSend(m) PROVE Traceable' /\ AckedMeansDelivered'
    <3>1. PICK pid \in PidSet : Sent0(m, pid) \/ Sent12(m, pid)
      BY <1>1, <2>7, SendMessageCases
    <3>2. AckedMeansDelivered'
      <4>1. CASE Sent0(m, pid)
        BY <2>2, <4>1 DEF AckedMeansDelivered, Sent0, NewMessage, vars
      <4>2. CASE Sent12(m, pid)
        BY <2>2, <4>2 DEF AckedMeansDelivered, Sent12, NewMessage, vars
      <4> QED BY <3>1, <4>1, <4>2
    <3> QED BY <2>2, <3>1, <3>2, Sent0Traced, Sent12Traced
  <2>8. ASSUME NEW k \in 1 .. Len(inflight), GotPubrec(k) \/ GotLast(k) PROVE Traceable' /\ AckedMeansDelivered'
    <3>1. GotPubrec(k) => AckedMeansDelivered'
      BY <2>2 DEF AckedMeansDelivered, GotPubrec, GotAck, vars
    <3> QED BY <2>2, <2>8, <3>1, PubrecTraced, LastTraced
  <2>9. CASE BrokerReceive
    BY <1>1, <2>5, <2>8, <2>9, AckCases
  <2> QED BY <1>3, <2>3, <2>4, <2>5, <2>6, <2>7, <2>9 DEF FlowNext
<1> QED BY <1>2, <1>3

\* FirstInv is an invariant: over one connection the queues of ReceivesInner,
\* the send buffer and the network have each id at one place.
THEOREM FirstInvHolds == FlowSpec => []FirstInv
<1>1. FlowInit => FirstInv
  BY FlowInitTyped, InitOnce, InitFirst DEF FirstInv, OnceInv
<1>2. FirstInv /\ [FlowNext]_flowVars => FirstInv'
  <2> SUFFICES ASSUME FirstInv, [FlowNext]_flowVars PROVE FirstInv'
    OBVIOUS
  <2>1. OnceInv'
    BY QuietTyped, TakeTyped, BrokerTyped, StutterTyped, NextOnce DEF FlowNext, FirstInv, OnceInv
  <2>2. FirstParts'
    BY NextStopped, NextUnused, NextTraced DEF FirstParts, Traceable
  <2> QED BY <2>1, <2>2 DEF FirstInv
<1> QED BY <1>1, <1>2, PTL DEF FlowSpec

\* As long as no connection was lost, a QoS 1 or 2 message whose PUBACK or
\* PUBCOMP the broker got was handed to the application: on_publish takes no
\* new message for a repeated one, although ids are reused and queues fill up.
THEOREM AckedMeansDeliveredHolds == FlowSpec => []AckedMeansDeliveredAtFirst
<1>1. FirstInv => AckedMeansDeliveredAtFirst
  BY DEF FirstInv, FirstParts, AckedMeansDeliveredAtFirst
<1> QED BY <1>1, FirstInvHolds, PTL

\* Over one connection await_pubrel has each id once and only ids of messages
\* in flight: on_pubrel removes the entry that send_pubrecs added, before the
\* broker can use the id again.
THEOREM NothingLeftBehindHolds == FlowSpec => []NothingLeftBehind
<1>1. FirstInv => NothingLeftBehind
  <2> SUFFICES ASSUME FirstInv, connections <= 1
               PROVE  /\ \A k \in 1 .. Len(await_pubrel) : await_pubrel[k] \in UsedPids
                      /\ \A k, l \in 1 .. Len(await_pubrel) : await_pubrel[k] = await_pubrel[l] => k = l
    BY DEF NothingLeftBehind
  <2>1. PICK step \in [PidSet -> Steps], place \in [PidSet -> Places] : Traced(step, place)
    BY DEF FirstInv, FirstParts
  <2>2. \A k \in 1 .. Len(await_pubrel) : await_pubrel[k] \in PidSet
    BY FirstTypes DEF QueuesTyped
  <2>3. \A k \in 1 .. Len(await_pubrel) : step[await_pubrel[k]] # "none"
    BY <2>1 DEF Traced, Awaits
  <2>4. \A p \in PidSet : step[p] # "none" => p \in UsedPids
    BY <2>1 DEF Traced, Backed, UsedPids
  <2> QED BY <2>1, <2>2, <2>3, <2>4 DEF Traced, Awaits
<1> QED BY <1>1, FirstInvHolds, PTL

=============================================================================
