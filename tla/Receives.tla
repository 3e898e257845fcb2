------------------------------ MODULE Receives ------------------------------
(***************************************************************************)
(* Incoming publishes: ReceivesInner and Receives of                       *)
(* src/state/receives2.rs.  The event loop passes every PUBLISH and PUBREL *)
(* of the broker to on_publish and on_pubrel, which hand the message to    *)
(* the application and queue an acknowledgement.  send_packets writes the  *)
(* queued acknowledgements at the start of a turn of the event loop,       *)
(* unless the outgoing publishes, which go first, filled the send buffer.  *)
(* Only the event loop uses the queues, so a handler is one step.  The     *)
(* hand-over waits until the application has taken the previous message;   *)
(* nothing here can happen during that wait, so it is part of the step.    *)
(***************************************************************************)
EXTENDS Link, HeaplessVec

CONSTANTS
    Msgs,       \* the messages of the broker
    Qos,        \* Qos[m]: the quality of service m is delivered with
    TooLong,    \* the messages that do not fit into a ReceivedPublish
    PidSet,     \* the packet ids the broker uses
    Queue       \* PARALLEL_RECEIVES, the capacity of each queue

ASSUME ReceivesAssumption ==
    /\ Qos \in [Msgs -> 0 .. 2]
    /\ TooLong \subseteq Msgs
    /\ Queue \in Nat \ {0}

VARIABLES
    send_puback, send_pubrec, await_pubrel, send_pubcomp,
    pc,         \* the loop send_packets() is in, or "idle"
    i,          \* the index of that loop
    stopped,    \* run() returned with an error it does not recover from
    delivered   \* history: how often the application was given m

queueVars == <<send_puback, send_pubrec, await_pubrel, send_pubcomp>>
loopVars == <<pc, i>>
vars == <<send_puback, send_pubrec, await_pubrel, send_pubcomp, pc, i,
          send_buffer, connected, stopped, delivered>>

Packets == [type : {"puback", "pubrec", "pubcomp"}, pid : PidSet]

TypeOK ==
    /\ \A queue \in {send_puback, send_pubrec, await_pubrel, send_pubcomp} :
          queue \in Seq(PidSet) /\ Len(queue) <= Queue
    /\ pc \in {"idle", "puback", "pubrec", "pubcomp"}
    /\ i \in Nat \ {0}
    /\ send_buffer \in Seq(Packets)
    /\ connected \in BOOLEAN
    /\ stopped \in BOOLEAN
    /\ delivered \in [Msgs -> Nat]

Init ==
    /\ send_puback = <<>>
    /\ send_pubrec = <<>>
    /\ await_pubrel = <<>>
    /\ send_pubcomp = <<>>
    /\ pc = "idle"
    /\ i = 1
    /\ LinkInit
    /\ stopped = FALSE
    /\ delivered = [m \in Msgs |-> 0]

\* mutant: one entry more than the array has
IsFull_off_by_one(queue) == Len(queue) > Queue

IsFull(queue) == Len(queue) >= Queue
Has(queue, pid) == \E k \in 1 .. Len(queue) : queue[k] = pid

-----------------------------------------------------------------------------
(* Incoming packets                                                         *)

Processing == ~stopped /\ connected /\ pc = "idle"

\* The packet ends the turn of the event loop.
Turn == UNCHANGED loopVars

\* publisher.publish(publish.try_into()?): TopicSizeError and BufferTooSmall
\* are not among the errors run() recovers from.
Deliver(m) ==
    IF m \in TooLong
      THEN stopped' = TRUE /\ UNCHANGED delivered
      ELSE delivered' = [delivered EXCEPT ![m] = @ + 1] /\ UNCHANGED stopped

on_qos_0_publish(m) ==
    /\ Deliver(m)
    /\ UNCHANGED <<queueVars, connVars>>

\* Hand over first, then acknowledge; QueueFull makes run() reconnect.
on_qos_1_publish(m, pid) ==
    /\ Deliver(m)
    /\ \/ m \in TooLong /\ UNCHANGED <<send_puback, connVars>>
       \/ /\ m \notin TooLong /\ ~IsFull(send_puback)
          /\ send_puback' = Append(send_puback, pid)
          /\ UNCHANGED connVars
       \/ m \notin TooLong /\ IsFull(send_puback) /\ set_error /\ UNCHANGED send_puback
    /\ UNCHANGED <<send_pubrec, await_pubrel, send_pubcomp>>

\* mutant: only the ids whose PUBREC was sent count as duplicates
is_dup_after_pubrec(pid) == Has(await_pubrel, pid)

is_dup(pid) == Has(await_pubrel, pid) \/ Has(send_pubrec, pid) \/ Has(send_pubcomp, pid)

\* The PUBREC is queued before the message is converted and handed over.
on_qos_2_publish(m, pid) ==
    /\ \/ /\ IsFull(send_pubrec)
          /\ set_error
          /\ UNCHANGED <<send_pubrec, stopped, delivered>>
       \/ /\ ~IsFull(send_pubrec)
          /\ send_pubrec' = Append(send_pubrec, pid)
          /\ IF is_dup(pid) THEN UNCHANGED <<stopped, delivered>> ELSE Deliver(m)
          /\ UNCHANGED connVars
    /\ UNCHANGED <<send_puback, await_pubrel, send_pubcomp>>

on_publish(m, pid) ==
    /\ Processing
    /\ \/ Qos[m] = 0 /\ on_qos_0_publish(m)
       \/ Qos[m] = 1 /\ on_qos_1_publish(m, pid)
       \/ Qos[m] = 2 /\ on_qos_2_publish(m, pid)
    /\ Turn

\* mutant: the id is not removed from await_pubrel
forget_nothing(pid) == UNCHANGED await_pubrel

\* position() and remove(): one entry with that id, the first.
forget(pid) ==
    \/ \E k \in 1 .. Len(await_pubrel) :
          /\ await_pubrel[k] = pid
          /\ \A j \in 1 .. k - 1 : await_pubrel[j] # pid
          /\ await_pubrel' = Remove(await_pubrel, k)
    \/ ~Has(await_pubrel, pid) /\ UNCHANGED await_pubrel

on_pubrel(pid) ==
    /\ Processing
    /\ \/ /\ IsFull(send_pubcomp)
          /\ set_error
          /\ UNCHANGED <<send_pubcomp, await_pubrel>>
       \/ /\ ~IsFull(send_pubcomp)
          /\ send_pubcomp' = Append(send_pubcomp, pid)
          /\ forget(pid)
          /\ UNCHANGED connVars
    /\ Turn
    /\ UNCHANGED <<send_puback, send_pubrec, stopped, delivered>>

-----------------------------------------------------------------------------
(* send_packets: three loops.  After a removal the index still advances, so  *)
(* the entry that moved into the gap is passed over until the next call.     *)

send_packets ==
    /\ Processing
    /\ pc' = "puback"
    /\ i' = 1
    /\ UNCHANGED <<queueVars, connVars, stopped, delivered>>

PartiallySent ==
    /\ pc' = "idle"
    /\ i' = 1
    /\ UNCHANGED <<queueVars, connVars, stopped, delivered>>

Continue(next) ==
    /\ pc' = next
    /\ i' = 1
    /\ UNCHANGED <<queueVars, connVars, stopped, delivered>>

WriteAck(type, pid) ==
    /\ try_write_packet([type |-> type, pid |-> pid])
    /\ i' = i + 1
    /\ UNCHANGED <<pc, stopped, delivered>>

send_pubacks ==
    /\ pc = "puback"
    /\ \/ /\ i <= Len(send_puback)
          /\ WriteAck("puback", send_puback[i])
          /\ send_puback' = Remove(send_puback, i)
          /\ UNCHANGED <<send_pubrec, await_pubrel, send_pubcomp>>
       \/ i <= Len(send_puback) /\ PartiallySent
       \/ i > Len(send_puback) /\ Continue("pubrec")

\* A full await_pubrel ends the loop; its push then cannot fail.
send_pubrecs ==
    /\ pc = "pubrec"
    /\ \/ /\ i <= Len(send_pubrec) /\ ~IsFull(await_pubrel)
          /\ WriteAck("pubrec", send_pubrec[i])
          /\ send_pubrec' = Remove(send_pubrec, i)
          /\ await_pubrel' = Append(await_pubrel, send_pubrec[i])
          /\ UNCHANGED <<send_puback, send_pubcomp>>
       \/ i <= Len(send_pubrec) /\ ~IsFull(await_pubrel) /\ PartiallySent
       \/ i > Len(send_pubrec) /\ Continue("pubcomp")
       \/ i <= Len(send_pubrec) /\ IsFull(await_pubrel) /\ Continue("pubcomp")

send_pubcomps ==
    /\ pc = "pubcomp"
    /\ \/ /\ i <= Len(send_pubcomp)
          /\ WriteAck("pubcomp", send_pubcomp[i])
          /\ send_pubcomp' = Remove(send_pubcomp, i)
          /\ UNCHANGED <<send_puback, send_pubrec, await_pubrel>>
       \/ i <= Len(send_pubcomp) /\ PartiallySent
       \/ i > Len(send_pubcomp) /\ Continue("idle")

Sending == send_packets \/ send_pubacks \/ send_pubrecs \/ send_pubcomps

=============================================================================
