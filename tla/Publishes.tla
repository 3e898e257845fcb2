------------------------------ MODULE Publishes ------------------------------
(***************************************************************************)
(* Outgoing publishes: PublishesInner and Publishes of                     *)
(* src/state/publish2.rs, State::publish of src/state/mod.rs and the part  *)
(* of the connection they use.                                             *)
(*                                                                         *)
(* Every publish() call is a message m.  The call takes a packet id, waits *)
(* for room in send_publish and then for the PublishDone event.  The event *)
(* loop runs send_packets() (pending PUBRELs, pending PUBLISHes, resends), *)
(* writing into the connection's send buffer, and hands acknowledgements   *)
(* to process_puback, process_pubrec and process_pubcomp.  send_packets    *)
(* holds the mutex of Publishes from start to end and may wait in the      *)
(* middle (the event channel), so it is one step per packet, and nobody    *)
(* touches the queues unless pc = "idle".                                  *)
(*                                                                         *)
(* The broker is not restricted here: any acknowledgement may arrive at    *)
(* any time.  PublishFlow adds a broker that follows the protocol.         *)
(***************************************************************************)
EXTENDS Pid, Link, HeaplessVec

CONSTANTS
    Msgs,       \* the publish() calls
    NoMsg,      \* the unique_id None of an anonymous SendPubrel
    Qos,        \* Qos[m]: the quality of service of m
    TooLong,    \* the messages whose topic or payload exceeds its buffer
    Queue       \* PARALLEL_PUBLISHES, the capacity of each queue

ASSUME PublishesAssumption ==
    /\ NoMsg \notin Msgs
    /\ Qos \in [Msgs -> 0 .. 2]
    /\ TooLong \subseteq Msgs
    /\ Queue \in Nat \ {0}

NoPid == 0

VARIABLES
    send_publish, await_puback, await_pubrec, send_pubrel, await_pubcomp,
    pc,             \* the loop send_packets() is in; "idle": mutex not held
    i,              \* the index of that loop
    panicked,
    pid_of,         \* the packet id m holds, as known to the pool
    stage,          \* history: where m is
    done,           \* history: how often PublishDone(m) was published
    accepted,       \* history: messages in the order they entered send_publish
    recd,           \* history: messages in the order of their PUBRECs
    sent            \* history: messages whose PUBLISH was written once

queueVars == <<send_publish, await_puback, await_pubrec, send_pubrel, await_pubcomp>>
loopVars == <<pc, i>>
histVars == <<stage, done, accepted, recd, sent>>
vars == <<pool, next_new_pid, send_publish, await_puback, await_pubrec, send_pubrel,
          await_pubcomp, pc, i, send_buffer, connected, panicked, pid_of,
          stage, done, accepted, recd, sent>>

Stages == {"new", "waiting", "send_publish", "await_puback", "await_pubrec",
           "send_pubrel", "await_pubcomp", "done", "cancelled", "dropped"}

Phases == {"idle", "pubrel", "publish", "resend_puback", "resend_pubrec",
           "resend_pubcomp"}

\* OwnedPublish, AwaitPuback / AwaitPubrec, SendPubrel, AwaitPubcomp.  The
\* timestamps are abstracted to due: RESEND_DURATION has passed since.
OwnedPublish == [uid : Msgs, pid : Pids \cup {NoPid}, dup : BOOLEAN]
AwaitAck == [uid : Msgs, pid : Pids, dup : BOOLEAN, due : BOOLEAN]
SendPubrel == [uid : Msgs \cup {NoMsg}, pid : Pids]
AwaitPubcomp == [uid : Msgs, pid : Pids, due : BOOLEAN]

Packets ==
    [type : {"publish"}, uid : Msgs, pid : Pids \cup {NoPid}, dup : BOOLEAN]
        \cup [type : {"pubrel"}, pid : Pids]

TypeOK ==
    /\ PidTypeOK
    /\ send_publish \in Seq(OwnedPublish)
    /\ await_puback \in Seq(AwaitAck)
    /\ await_pubrec \in Seq(AwaitAck)
    /\ send_pubrel \in Seq(SendPubrel)
    /\ await_pubcomp \in Seq(AwaitPubcomp)
    /\ pc \in Phases
    /\ i \in Nat \ {0}
    /\ send_buffer \in Seq(Packets)
    /\ connected \in BOOLEAN
    /\ panicked \in BOOLEAN
    /\ pid_of \in [Msgs -> Pids \cup {NoPid}]
    /\ stage \in [Msgs -> Stages]
    /\ done \in [Msgs -> Nat]
    /\ accepted \in Seq(Msgs)
    /\ recd \in Seq(Msgs)
    /\ sent \in SUBSET Msgs

Init ==
    /\ PidInit
    /\ send_publish = <<>>
    /\ await_puback = <<>>
    /\ await_pubrec = <<>>
    /\ send_pubrel = <<>>
    /\ await_pubcomp = <<>>
    /\ pc = "idle"
    /\ i = 1
    /\ LinkInit
    /\ panicked = FALSE
    /\ pid_of = [m \in Msgs |-> NoPid]
    /\ stage = [m \in Msgs |-> "new"]
    /\ done = [m \in Msgs |-> 0]
    /\ accepted = <<>>
    /\ recd = <<>>
    /\ sent = {}

-----------------------------------------------------------------------------
\* iter().position(): the first entry with that packet id.
IsPosition(q, pid, k) ==
    /\ k \in 1 .. Len(q)
    /\ q[k].pid = pid
    /\ \A j \in 1 .. k - 1 : q[j].pid # pid

IsFull(q) == Len(q) >= Queue

-----------------------------------------------------------------------------
(* The client's side: State::publish and Publishes::publish                 *)

\* The packet id is taken before the call knows whether there is room.  When
\* none is left the call panics: that is Exhaust of PidUsers.
publish(m) ==
    /\ ~panicked
    /\ stage[m] = "new"
    /\ IF Qos[m] = 0
         THEN UNCHANGED <<pool, next_new_pid, pid_of>>
         ELSE \E pid \in Pids : next_pid(pid) /\ pid_of' = [pid_of EXCEPT ![m] = pid]
    /\ stage' = [stage EXCEPT ![m] = "waiting"]
    /\ UNCHANGED <<queueVars, loopVars, connVars, panicked, done, accepted, recd, sent>>

\* mutant: the ignored result of push() without the capacity check before it
publish_enqueue_unchecked(m) ==
    /\ ~panicked /\ pc = "idle" /\ stage[m] = "waiting"
    /\ send_publish' = IF IsFull(send_publish) THEN send_publish
                       ELSE Append(send_publish, [uid |-> m, pid |-> pid_of[m], dup |-> FALSE])
    /\ stage' = [stage EXCEPT ![m] = "send_publish"]
    /\ accepted' = Append(accepted, m)
    /\ UNCHANGED <<pool, next_new_pid, pid_of, await_puback, await_pubrec, send_pubrel,
                   await_pubcomp, loopVars, connVars, done, recd, sent, panicked>>

\* try_with_lock: needs the mutex and a free slot.  A message that cannot be
\* copied into its buffers makes the closure fail, and the unwrap() panics.
publish_enqueue(m) ==
    /\ ~panicked
    /\ pc = "idle"
    /\ stage[m] = "waiting"
    /\ ~IsFull(send_publish)
    /\ IF m \in TooLong
         THEN /\ panicked' = TRUE
              /\ UNCHANGED <<send_publish, stage, accepted>>
         ELSE /\ send_publish' = Append(send_publish,
                                        [uid |-> m, pid |-> pid_of[m], dup |-> FALSE])
              /\ stage' = [stage EXCEPT ![m] = "send_publish"]
              /\ accepted' = Append(accepted, m)
              /\ UNCHANGED panicked
    /\ UNCHANGED <<pool, next_new_pid, pid_of, await_puback, await_pubrec, send_pubrel,
                   await_pubcomp, loopVars, connVars, done, recd, sent>>

\* The future of a waiting call is dropped: nobody returns its packet id.
cancel(m) ==
    /\ ~panicked
    /\ stage[m] = "waiting"
    /\ stage' = [stage EXCEPT ![m] = "cancelled"]
    /\ UNCHANGED <<pool, next_new_pid, queueVars, loopVars, connVars, panicked, pid_of,
                   done, accepted, recd, sent>>

-----------------------------------------------------------------------------
(* The connection                                                           *)

\* The event loop does input and output between two calls of send_packets.
Transmit ==
    /\ ~panicked
    /\ pc = "idle"
    /\ write_to_network
    /\ UNCHANGED <<pool, next_new_pid, queueVars, loopVars, panicked, pid_of, histVars>>

\* A socket operation of the event loop fails.
connection_error ==
    /\ ~panicked
    /\ pc = "idle"
    /\ connected
    /\ set_error
    /\ UNCHANGED <<pool, next_new_pid, queueVars, loopVars, panicked, pid_of, histVars>>

\* The queues are kept over a reconnect: there is no reset of PublishesInner.
connect ==
    /\ ~panicked
    /\ reconnect
    /\ UNCHANGED <<pool, next_new_pid, queueVars, loopVars, panicked, pid_of, histVars>>

-----------------------------------------------------------------------------
(* Acknowledgements.  They are processed one at a time by the event loop,   *)
(* between two runs of send_packets.                                        *)

\* publisher.publish(MqttEvent::PublishDone(uid))
PublishDone(m) ==
    /\ done' = [done EXCEPT ![m] = @ + 1]
    /\ stage' = [stage EXCEPT ![m] = "done"]

Processing == ~panicked /\ connected /\ pc = "idle"

\* Err(UnexpectedAck): run() closes the connection over it.
UnexpectedAck ==
    /\ set_error
    /\ UNCHANGED <<pool, next_new_pid, queueVars, pid_of, stage, done>>

process_puback(pid) ==
    /\ Processing
    /\ \/ \E k \in 1 .. Len(await_puback) :
             LET m == await_puback[k].uid IN
             /\ IsPosition(await_puback, pid, k)
             /\ await_puback' = Remove(await_puback, k)
             /\ free_pid(await_puback[k].pid)
             /\ pid_of' = [pid_of EXCEPT ![m] = NoPid]
             /\ PublishDone(m)
             /\ UNCHANGED <<send_publish, await_pubrec, send_pubrel, await_pubcomp, connVars>>
       \/ /\ \A k \in 1 .. Len(await_puback) : await_puback[k].pid # pid
          /\ UnexpectedAck
    /\ UNCHANGED <<loopVars, panicked, accepted, recd, sent>>

\* mutant: the publish stays in await_pubrec
process_pubrec_keeping(pid) ==
    /\ Processing
    /\ \E k \in 1 .. Len(await_pubrec) :
          /\ IsPosition(await_pubrec, pid, k)
          /\ ~IsFull(send_pubrel)
          /\ send_pubrel' = Append(send_pubrel, [uid |-> await_pubrec[k].uid, pid |-> pid])
    /\ UNCHANGED <<pool, next_new_pid, send_publish, await_puback, await_pubrec, await_pubcomp,
                   loopVars, connVars, panicked, pid_of, stage, done, accepted, recd, sent>>

\* The entry is removed before the push that may fail: on Err(QueueFull) it is
\* in no queue any more.  An unknown PUBREC is answered with an anonymous PUBREL.
process_pubrec(pid) ==
    /\ Processing
    /\ \/ \E k \in 1 .. Len(await_pubrec) :
             LET m == await_pubrec[k].uid IN
             /\ IsPosition(await_pubrec, pid, k)
             /\ await_pubrec' = Remove(await_pubrec, k)
             /\ IF IsFull(send_pubrel)
                  THEN /\ set_error
                       /\ stage' = [stage EXCEPT ![m] = "dropped"]
                       /\ UNCHANGED <<send_pubrel, recd>>
                  ELSE /\ send_pubrel' = Append(send_pubrel, [uid |-> m, pid |-> pid])
                       /\ stage' = [stage EXCEPT ![m] = "send_pubrel"]
                       /\ recd' = Append(recd, m)
                       /\ UNCHANGED connVars
       \/ /\ \A k \in 1 .. Len(await_pubrec) : await_pubrec[k].pid # pid
          /\ IF IsFull(send_pubrel)
               THEN set_error /\ UNCHANGED send_pubrel
               ELSE /\ send_pubrel' = Append(send_pubrel, [uid |-> NoMsg, pid |-> pid])
                    /\ UNCHANGED connVars
          /\ UNCHANGED <<await_pubrec, stage, recd>>
    /\ UNCHANGED <<pool, next_new_pid, send_publish, await_puback, await_pubcomp, loopVars,
                   panicked, pid_of, done, accepted, sent>>

process_pubcomp(pid) ==
    /\ Processing
    /\ \/ \E k \in 1 .. Len(await_pubcomp) :
             LET m == await_pubcomp[k].uid IN
             /\ IsPosition(await_pubcomp, pid, k)
             /\ await_pubcomp' = Remove(await_pubcomp, k)
             /\ free_pid(await_pubcomp[k].pid)
             /\ pid_of' = [pid_of EXCEPT ![m] = NoPid]
             /\ PublishDone(m)
             /\ UNCHANGED <<send_publish, await_puback, await_pubrec, send_pubrel, connVars>>
       \/ /\ \A k \in 1 .. Len(await_pubcomp) : await_pubcomp[k].pid # pid
          /\ UnexpectedAck
    /\ UNCHANGED <<loopVars, panicked, accepted, recd, sent>>

-----------------------------------------------------------------------------
(* send_packets: the five loops in order.  A refused packet ends the whole   *)
(* call (PartiallySent), as does an error of try_write_packet.               *)

send_packets ==
    /\ ~panicked
    /\ connected
    /\ pc = "idle"
    /\ pc' = "pubrel"
    /\ i' = 1
    /\ UNCHANGED <<pool, next_new_pid, queueVars, connVars, panicked, pid_of, histVars>>

Advance == i' = i + 1 /\ UNCHANGED pc

Continue(queue, next) ==
    /\ i > Len(queue)
    /\ pc' = next
    /\ i' = 1
    /\ UNCHANGED <<pool, next_new_pid, queueVars, connVars, panicked, pid_of, histVars>>

\* mutant: a refused packet is passed over instead of ending the call
PartiallySent_continuing ==
    /\ Advance
    /\ UNCHANGED <<pool, next_new_pid, queueVars, connVars, panicked, pid_of, histVars>>

PartiallySent ==
    /\ pc' = "idle"
    /\ i' = 1
    /\ UNCHANGED <<pool, next_new_pid, queueVars, connVars, panicked, pid_of, histVars>>

\* mutant: an anonymous entry is queued like any other
send_pubrel_entry_anonymous ==
    LET current == send_pubrel[i] IN
    /\ i <= Len(send_pubrel)
    /\ ~IsFull(await_pubcomp)
    /\ try_write_packet([type |-> "pubrel", pid |-> current.pid])
    /\ send_pubrel' = Remove(send_pubrel, i)
    /\ await_pubcomp' = Append(await_pubcomp,
             [uid |-> current.uid, pid |-> current.pid, due |-> FALSE])
    /\ stage' = [m \in Msgs |-> IF m = current.uid THEN "await_pubcomp" ELSE stage[m]]
    /\ UNCHANGED <<pool, next_new_pid, send_publish, await_puback, await_pubrec, loopVars,
                   pid_of, done, accepted, recd, sent, panicked>>

\* The packet is in the send buffer and the entry removed when the conversion
\* of an anonymous entry into an AwaitPubcomp panics.
send_pubrel_entry ==
    LET current == send_pubrel[i] IN
    /\ i <= Len(send_pubrel)
    /\ ~IsFull(await_pubcomp)
    /\ try_write_packet([type |-> "pubrel", pid |-> current.pid])
    /\ send_pubrel' = Remove(send_pubrel, i)
    /\ IF current.uid = NoMsg
         THEN panicked' = TRUE /\ UNCHANGED <<await_pubcomp, stage>>
         ELSE /\ await_pubcomp' = Append(await_pubcomp,
                      [uid |-> current.uid, pid |-> current.pid, due |-> FALSE])
              /\ stage' = [stage EXCEPT ![current.uid] = "await_pubcomp"]
              /\ UNCHANGED panicked
    /\ UNCHANGED <<pool, next_new_pid, send_publish, await_puback, await_pubrec, loopVars,
                   pid_of, done, accepted, recd, sent>>

send_pubrel_skip ==
    /\ i <= Len(send_pubrel)
    /\ IsFull(await_pubcomp)
    /\ Advance
    /\ UNCHANGED <<pool, next_new_pid, queueVars, connVars, panicked, pid_of, histVars>>

send_pending_pubrel ==
    /\ ~panicked
    /\ pc = "pubrel"
    /\ \/ send_pubrel_entry
       \/ send_pubrel_skip
       \/ i <= Len(send_pubrel) /\ ~IsFull(await_pubcomp) /\ PartiallySent
       \/ Continue(send_pubrel, "publish")

\* mutant: no test of the queue the message moves to
has_space_ignored(m) == TRUE

\* Is there room in the queue the message moves to?
has_space(m) ==
    CASE Qos[m] = 0 -> TRUE
      [] Qos[m] = 1 -> ~IsFull(await_puback)
      [] Qos[m] = 2 -> ~IsFull(await_pubrec)

\* mutant: the DUP flag stays what it was
AwaitEntry_same_dup(current) ==
    [uid |-> current.uid, pid |-> current.pid, dup |-> current.dup, due |-> FALSE]

\* The entry of a publish that was sent: "all subsequent publishes are dups".
AwaitEntry(current) ==
    [uid |-> current.uid, pid |-> current.pid, dup |-> TRUE, due |-> FALSE]

send_publish_entry ==
    LET current == send_publish[i]
        m == current.uid
    IN
    /\ i <= Len(send_publish)
    /\ has_space(m)
    /\ try_write_packet([type |-> "publish", uid |-> m, pid |-> current.pid,
                         dup |-> current.dup])
    /\ send_publish' = Remove(send_publish, i)
    /\ sent' = sent \cup {m}
    /\ CASE Qos[m] = 0 -> /\ PublishDone(m)
                          /\ UNCHANGED <<await_puback, await_pubrec>>
         [] Qos[m] = 1 -> /\ await_puback' = Append(await_puback, AwaitEntry(current))
                          /\ stage' = [stage EXCEPT ![m] = "await_puback"]
                          /\ UNCHANGED <<await_pubrec, done>>
         [] Qos[m] = 2 -> /\ await_pubrec' = Append(await_pubrec, AwaitEntry(current))
                          /\ stage' = [stage EXCEPT ![m] = "await_pubrec"]
                          /\ UNCHANGED <<await_puback, done>>
    /\ UNCHANGED <<pool, next_new_pid, send_pubrel, await_pubcomp, loopVars, panicked, pid_of,
                   accepted, recd>>

send_publish_skip ==
    /\ i <= Len(send_publish)
    /\ ~has_space(send_publish[i].uid)
    /\ Advance
    /\ UNCHANGED <<pool, next_new_pid, queueVars, connVars, panicked, pid_of, histVars>>

send_pending_publishes ==
    /\ ~panicked
    /\ pc = "publish"
    /\ \/ send_publish_entry
       \/ send_publish_skip
       \/ i <= Len(send_publish) /\ has_space(send_publish[i].uid) /\ PartiallySent
       \/ Continue(send_publish, "resend_puback")

\* RESEND_DURATION passes for one entry.  The resend loops read the clock once,
\* so time passes outside send_packets or while it waits for the event channel.
resend_due ==
    /\ ~panicked
    /\ pc \in {"idle", "publish"}
    /\ \/ /\ \E k \in 1 .. Len(await_puback) :
                /\ ~await_puback[k].due
                /\ await_puback' = [await_puback EXCEPT ![k].due = TRUE]
          /\ UNCHANGED <<await_pubrec, await_pubcomp>>
       \/ /\ \E k \in 1 .. Len(await_pubrec) :
                /\ ~await_pubrec[k].due
                /\ await_pubrec' = [await_pubrec EXCEPT ![k].due = TRUE]
          /\ UNCHANGED <<await_puback, await_pubcomp>>
       \/ /\ \E k \in 1 .. Len(await_pubcomp) :
                /\ ~await_pubcomp[k].due
                /\ await_pubcomp' = [await_pubcomp EXCEPT ![k].due = TRUE]
          /\ UNCHANGED <<await_puback, await_pubrec>>
    /\ UNCHANGED <<pool, next_new_pid, send_publish, send_pubrel, loopVars, connVars, panicked,
                   pid_of, histVars>>

\* One turn of a resend loop over a queue: an entry that is not due is passed
\* over, a due one is written again or refused.
ResendSkip(queue) ==
    /\ i <= Len(queue)
    /\ ~queue[i].due
    /\ Advance
    /\ UNCHANGED <<pool, next_new_pid, queueVars, connVars, panicked, pid_of, histVars>>

ResendRefused(queue) == i <= Len(queue) /\ queue[i].due /\ PartiallySent

Republish(entry) ==
    try_write_packet([type |-> "publish", uid |-> entry.uid, pid |-> entry.pid,
                      dup |-> entry.dup])

\* mutants: publish_sent is not renewed
resend_puback_entry_timeless ==
    /\ i <= Len(await_puback)
    /\ await_puback[i].due
    /\ Republish(await_puback[i])
    /\ Advance
    /\ UNCHANGED <<pool, next_new_pid, queueVars, panicked, pid_of, histVars>>

resend_pubrec_entry_timeless ==
    /\ i <= Len(await_pubrec)
    /\ await_pubrec[i].due
    /\ Republish(await_pubrec[i])
    /\ Advance
    /\ UNCHANGED <<pool, next_new_pid, queueVars, panicked, pid_of, histVars>>

resend_puback_entry ==
    /\ i <= Len(await_puback)
    /\ await_puback[i].due
    /\ Republish(await_puback[i])
    /\ await_puback' = [await_puback EXCEPT ![i].due = FALSE]
    /\ Advance
    /\ UNCHANGED <<pool, next_new_pid, send_publish, await_pubrec, send_pubrel, await_pubcomp,
                   panicked, pid_of, histVars>>

resend_pubrec_entry ==
    /\ i <= Len(await_pubrec)
    /\ await_pubrec[i].due
    /\ Republish(await_pubrec[i])
    /\ await_pubrec' = [await_pubrec EXCEPT ![i].due = FALSE]
    /\ Advance
    /\ UNCHANGED <<pool, next_new_pid, send_publish, await_puback, send_pubrel, await_pubcomp,
                   panicked, pid_of, histVars>>

resend_publishes ==
    /\ ~panicked
    /\ \/ /\ pc = "resend_puback"
          /\ \/ resend_puback_entry
             \/ ResendSkip(await_puback)
             \/ ResendRefused(await_puback)
             \/ Continue(await_puback, "resend_pubrec")
       \/ /\ pc = "resend_pubrec"
          /\ \/ resend_pubrec_entry
             \/ ResendSkip(await_pubrec)
             \/ ResendRefused(await_pubrec)
             \/ Continue(await_pubrec, "resend_pubcomp")

resend_pubrel_entry ==
    /\ i <= Len(await_pubcomp)
    /\ await_pubcomp[i].due
    /\ try_write_packet([type |-> "pubrel", pid |-> await_pubcomp[i].pid])
    /\ await_pubcomp' = [await_pubcomp EXCEPT ![i].due = FALSE]
    /\ Advance
    /\ UNCHANGED <<pool, next_new_pid, send_publish, await_puback, await_pubrec, send_pubrel,
                   panicked, pid_of, histVars>>

resend_pubrel ==
    /\ ~panicked
    /\ pc = "resend_pubcomp"
    /\ \/ resend_pubrel_entry
       \/ ResendSkip(await_pubcomp)
       \/ ResendRefused(await_pubcomp)
       \/ Continue(await_pubcomp, "idle")

-----------------------------------------------------------------------------
Client == \E m \in Msgs : publish(m) \/ publish_enqueue(m) \/ cancel(m)

Incoming ==
    \E pid \in Pids : process_puback(pid) \/ process_pubrec(pid) \/ process_pubcomp(pid)

Sending ==
    send_packets \/ send_pending_pubrel \/ send_pending_publishes
        \/ resend_publishes \/ resend_pubrel

Connection == Transmit \/ connection_error \/ connect

Next == Client \/ Incoming \/ Sending \/ Connection \/ resend_due

Spec == Init /\ [][Next]_vars

-----------------------------------------------------------------------------
(* Properties                                                                *)

\* push_unchecked is called on await_puback, await_pubrec and await_pubcomp
\* under an is_full() test made before the packet was written: no queue is
\* ever longer than its array.
CapacityRespected ==
    /\ Len(send_publish) <= Queue
    /\ Len(await_puback) <= Queue
    /\ Len(await_pubrec) <= Queue
    /\ Len(send_pubrel) <= Queue
    /\ Len(await_pubcomp) <= Queue

Holds(queue, m) == \E k \in 1 .. Len(queue) : queue[k].uid = m
NoneTwice(queue) ==
    \A k, l \in 1 .. Len(queue) :
        queue[k].uid = queue[l].uid /\ queue[k].uid # NoMsg => k = l

\* Every accepted message is in one queue, the one its handshake has reached,
\* until PublishDone is published for it, once, or QueueFull drops it: the
\* moves between the queues neither lose nor duplicate a message, whatever
\* acknowledgements arrive and wherever send_packets stops.
InOnePlace ==
    /\ \A m \in Msgs :
          /\ Holds(send_publish, m) <=> stage[m] = "send_publish"
          /\ Holds(await_puback, m) <=> stage[m] = "await_puback"
          /\ Holds(await_pubrec, m) <=> stage[m] = "await_pubrec"
          /\ Holds(send_pubrel, m) <=> stage[m] = "send_pubrel"
          /\ Holds(await_pubcomp, m) <=> stage[m] = "await_pubcomp"
          /\ done[m] = IF stage[m] = "done" THEN 1 ELSE 0
    /\ NoneTwice(send_publish) /\ NoneTwice(await_puback) /\ NoneTwice(await_pubrec)
    /\ NoneTwice(send_pubrel) /\ NoneTwice(await_pubcomp)

InFlight(m) ==
    stage[m] \in {"waiting", "send_publish", "await_puback", "await_pubrec",
                  "send_pubrel", "await_pubcomp"}

\* Two messages in flight never share a packet id, and the id of a message in
\* flight is never in the pool, although the id is taken before the message
\* has a slot and returned by whichever acknowledgement comes last.
PidsUnshared ==
    \A m \in Msgs : InFlight(m) /\ Qos[m] > 0 =>
        /\ pid_of[m] # NoPid
        /\ \A n \in Msgs : InFlight(n) /\ pid_of[n] = pid_of[m] => n = m
        /\ \A k \in 1 .. Len(pool) : pool[k] # pid_of[m]

\* history lists every message of S, none of them twice, and no other.
Lists(history, S) ==
    /\ \A m \in Msgs : m \in S <=> \E k \in 1 .. Len(history) : history[k] = m
    /\ \A k, l \in 1 .. Len(history) : history[k] = history[l] => k = l

Precedes(history, m, n) ==
    \E k, l \in 1 .. Len(history) : k < l /\ history[k] = m /\ history[l] = n

\* The queue first, followed by what the queue rest has of the messages of S,
\* is in the order of history.
InOrderOf(history, first, rest, S) ==
    /\ \A k, l \in 1 .. Len(first) :
          k < l => Precedes(history, first[k].uid, first[l].uid)
    /\ \A k \in 1 .. Len(first), l \in 1 .. Len(rest) :
          rest[l].uid \in S => Precedes(history, first[k].uid, rest[l].uid)
    /\ \A k, l \in 1 .. Len(rest) :
          k < l /\ rest[k].uid \in S /\ rest[l].uid \in S
              => Precedes(history, rest[k].uid, rest[l].uid)

OfQos(q) == {m \in Msgs : Qos[m] = q}

SameQosInOrder ==
    /\ Lists(accepted, {m \in Msgs : stage[m] \notin {"new", "waiting", "cancelled"}})
    /\ InOrderOf(accepted, <<>>, send_publish, OfQos(0))
    /\ InOrderOf(accepted, await_puback, send_publish, OfQos(1))
    /\ InOrderOf(accepted, await_pubrec, send_publish, OfQos(2))

PubrelInOrder ==
    /\ Lists(recd, {m \in OfQos(2) : stage[m] \in {"send_pubrel", "await_pubcomp", "done"}})
    /\ InOrderOf(recd, await_pubcomp, send_pubrel, Msgs)

\* Messages of one QoS are written for the first time in the order they were
\* accepted, and each await queue (so each resend) keeps that order: a message
\* that waits because its await queue is full is not overtaken by others of its
\* QoS.  PUBRELs are sent, and resent, in the order in which the PUBRECs came in.
KeepsOrder == SameQosInOrder /\ PubrelInOrder

\* A PUBLISH carries DUP if and only if the same message was written before,
\* over however many connections.
DupStep ==
    Len(send_buffer') > Len(send_buffer) =>
        LET packet == send_buffer'[Len(send_buffer')] IN
        packet.type = "publish" => (packet.dup <=> packet.uid \in sent)
DupMarksRetransmission == [][DupStep]_vars

\* Seen from the packet ids, a publish is a user of the pool that takes one
\* id and returns it, once, at its last acknowledgement: the queues use the
\* pool as PidUsers prescribes.  The id of a cancelled or dropped publish stays
\* with it for ever.
PidPool == INSTANCE PidUsers WITH
    Users <- Msgs,
    MaxAbandon <- 0,
    held <- pid_of,
    abandoned <- {},
    panicked <- FALSE
ImplementsPidUsers == PidPool!Spec

=============================================================================
