-------------------------------- MODULE Subs --------------------------------
(***************************************************************************)
(* Subscribe and unsubscribe requests: SubsInner and Subs of               *)
(* src/state/sub2.rs.  A client call adds its request to send_request, the *)
(* event loop sends it, keeps it in await_ack until the SUBACK or UNSUBACK *)
(* comes, and publishes the result of the call.  The queues are behind a   *)
(* mutex: a client's closure and a handler of an acknowledgement are one   *)
(* step each, send() is one step per packet.  Calls, handlers and packets  *)
(* take from the shared pool of module Pid and write to Link.              *)
(*                                                                         *)
(* Any SUBACK or UNSUBACK may arrive at any time.  A request stands for    *)
(* its topics; a SUBACK is a success or has a failure among its codes.     *)
(***************************************************************************)
EXTENDS Pid, Link, HeaplessVec

CONSTANTS
    Requests,       \* the subscribe() and unsubscribe() calls
    Kind,           \* Kind[r]: "sub" or "unsub"
    TooLong,        \* the requests with a topic longer than TOPIC
    Unencodable,    \* the requests with a topic the packet cannot hold
    Queue           \* PARALLEL_REQUESTS, the capacity of both queues

ASSUME SubsAssumption ==
    /\ Kind \in [Requests -> {"sub", "unsub"}]
    /\ TooLong \subseteq Requests
    /\ Unencodable \subseteq Requests
    /\ Queue \in Nat \ {0}

VARIABLES
    send_request, await_ack,
    pc,         \* the loop send() is in; "idle": mutex not held
    i,          \* the index of the resend loop
    ended,      \* the program panicked, or run() returned with an error
    result,     \* result[r]: the event published for r, or "none"
    accepted    \* history: the requests in the order they were added

queueVars == <<send_request, await_ack>>
vars == <<pool, next_new_pid, send_request, await_ack, pc, i, send_buffer, connected,
          ended, result, accepted>>

SubRequest == [uid : Requests, pid : Pids]
AwaitAck == [uid : Requests, pid : Pids, due : BOOLEAN]
Packets == [type : {"sub", "unsub"}, uid : Requests, pid : Pids]
Results == {"none", "subscribed", "failed", "unsubscribed"}

TypeOK ==
    /\ PidTypeOK
    /\ send_request \in Seq(SubRequest) /\ Len(send_request) <= Queue
    /\ await_ack \in Seq(AwaitAck) /\ Len(await_ack) <= Queue
    /\ pc \in {"idle", "send", "resend"}
    /\ i \in Nat \ {0}
    /\ send_buffer \in Seq(Packets)
    /\ connected \in BOOLEAN
    /\ ended \in BOOLEAN
    /\ result \in [Requests -> Results]
    /\ accepted \in Seq(Requests)

Init ==
    /\ PidInit
    /\ send_request = <<>>
    /\ await_ack = <<>>
    /\ pc = "idle"
    /\ i = 1
    /\ LinkInit
    /\ ended = FALSE
    /\ result = [r \in Requests |-> "none"]
    /\ accepted = <<>>

\* mutant: one entry more than the array has
IsFull_off_by_one(queue) == Len(queue) > Queue

IsFull(queue) == Len(queue) >= Queue

-----------------------------------------------------------------------------
(* The client: add_subscribe_request, add_unsubscribe_request               *)

\* try_with_lock: needs the mutex and room.  Topics are copied before the
\* packet id is taken; one that does not fit panics.
add_request(r) ==
    /\ ~ended
    /\ pc = "idle"
    /\ \A k \in 1 .. Len(accepted) : accepted[k] # r
    /\ ~IsFull(send_request)
    /\ IF r \in TooLong
         THEN ended' = TRUE /\ UNCHANGED <<pool, next_new_pid, send_request, accepted>>
         ELSE \E pid \in Pids :
                 /\ next_pid(pid)
                 /\ send_request' = Append(send_request, [uid |-> r, pid |-> pid])
                 /\ accepted' = Append(accepted, r)
                 /\ UNCHANGED ended
    /\ UNCHANGED <<await_ack, pc, i, connVars, result>>

-----------------------------------------------------------------------------
(* Acknowledgements                                                         *)

Processing == ~ended /\ connected /\ pc = "idle"

\* The first entry with that packet id whose request is of that kind.
IsFirst(k, pid, kind) ==
    LET fits(j) == await_ack[j].pid = pid /\ Kind[await_ack[j].uid] = kind IN
    /\ k \in 1 .. Len(await_ack)
    /\ fits(k)
    /\ \A j \in 1 .. k - 1 : ~fits(j)

\* The request is answered: it leaves await_ack and its id is returned.
Answer(k, event) ==
    /\ await_ack' = Remove(await_ack, k)
    /\ free_pid(await_ack[k].pid)
    /\ result' = [result EXCEPT ![await_ack[k].uid] = event]

\* check_suback(): one failure among the codes fails the call.
check_suback(success) == IF success THEN "subscribed" ELSE "failed"

\* mutants: the kind of the request is not looked at; the id is returned
\* although no request waits for it
on_suback_any_kind(pid, success) ==
    /\ Processing
    /\ \/ \E k \in 1 .. Len(await_ack) :
             await_ack[k].pid = pid /\ Answer(k, check_suback(success))
       \/ /\ \A k \in 1 .. Len(await_ack) : await_ack[k].pid # pid
          /\ UNCHANGED <<pool, next_new_pid, await_ack, result>>
    /\ UNCHANGED <<send_request, pc, i, connVars, ended, accepted>>

on_suback_freeing_always(pid, success) ==
    /\ Processing
    /\ \/ \E k \in 1 .. Len(await_ack) :
             IsFirst(k, pid, "sub") /\ Answer(k, check_suback(success))
       \/ /\ \A k \in 1 .. Len(await_ack) : ~IsFirst(k, pid, "sub")
          /\ free_pid(pid)
          /\ UNCHANGED <<await_ack, result>>
    /\ UNCHANGED <<send_request, pc, i, connVars, ended, accepted>>

\* An acknowledgement no request waits for is ignored.
on_suback(pid, success) ==
    /\ Processing
    /\ \/ \E k \in 1 .. Len(await_ack) :
             IsFirst(k, pid, "sub") /\ Answer(k, check_suback(success))
       \/ /\ \A k \in 1 .. Len(await_ack) : ~IsFirst(k, pid, "sub")
          /\ UNCHANGED <<pool, next_new_pid, await_ack, result>>
    /\ UNCHANGED <<send_request, pc, i, connVars, ended, accepted>>

\* mutant: the id is not returned
on_unsuback_keeping_pid(pid) ==
    /\ Processing
    /\ \/ \E k \in 1 .. Len(await_ack) :
             /\ IsFirst(k, pid, "unsub")
             /\ await_ack' = Remove(await_ack, k)
             /\ result' = [result EXCEPT ![await_ack[k].uid] = "unsubscribed"]
       \/ /\ \A k \in 1 .. Len(await_ack) : ~IsFirst(k, pid, "unsub")
          /\ UNCHANGED <<await_ack, result>>
    /\ UNCHANGED <<pool, next_new_pid, send_request, pc, i, connVars, ended, accepted>>

on_unsuback(pid) ==
    /\ Processing
    /\ \/ \E k \in 1 .. Len(await_ack) :
             IsFirst(k, pid, "unsub") /\ Answer(k, "unsubscribed")
       \/ /\ \A k \in 1 .. Len(await_ack) : ~IsFirst(k, pid, "unsub")
          /\ UNCHANGED <<pool, next_new_pid, await_ack, result>>
    /\ UNCHANGED <<send_request, pc, i, connVars, ended, accepted>>

-----------------------------------------------------------------------------
(* send(): new requests, then the ones that were not answered in time        *)

send ==
    /\ Processing
    /\ pc' = "send"
    /\ UNCHANGED <<pool, next_new_pid, queueVars, i, connVars, ended, result, accepted>>

\* Leave the loop for another one, or for the end of the call.
Goto(next) ==
    /\ pc' = next
    /\ i' = 1
    /\ UNCHANGED <<pool, next_new_pid, queueVars, connVars, ended, result, accepted>>

PartiallySent == Goto("idle")

Packet(e) == [type |-> Kind[e.uid], uid |-> e.uid, pid |-> e.pid]

\* mutant: without the test for room the failing push loses the request
send_front_unchecked ==
    LET request == Head(send_request) IN
    /\ request.uid \notin Unencodable
    /\ try_write_packet(Packet(request))
    /\ send_request' = Tail(send_request)
    /\ await_ack' = IF IsFull(await_ack) THEN await_ack
                    ELSE Append(await_ack, [uid |-> request.uid, pid |-> request.pid,
                                            due |-> FALSE])
    /\ UNCHANGED <<pool, next_new_pid, pc, i, ended, result, accepted>>

send_front ==
    LET request == Head(send_request) IN
    /\ ~IsFull(await_ack)
    /\ request.uid \notin Unencodable
    /\ try_write_packet(Packet(request))
    /\ send_request' = Tail(send_request)
    /\ await_ack' = Append(await_ack, [uid |-> request.uid, pid |-> request.pid,
                                       due |-> FALSE])
    /\ UNCHANGED <<pool, next_new_pid, pc, i, ended, result, accepted>>

\* create_packet() fails: run() ends with TopicSizeError and the request stays
\* at the front of the queue.
create_packet_fails ==
    /\ ~IsFull(await_ack)
    /\ Head(send_request).uid \in Unencodable
    /\ ended' = TRUE
    /\ UNCHANGED <<pool, next_new_pid, queueVars, pc, i, connVars, result, accepted>>

send_requests ==
    /\ ~ended
    /\ pc = "send"
    /\ \/ send_request # <<>> /\ send_front
       \/ send_request # <<>> /\ create_packet_fails
       \/ /\ send_request # <<>>
          /\ IsFull(await_ack) \/ Head(send_request).uid \notin Unencodable
          /\ PartiallySent
       \/ send_request = <<>> /\ Goto("resend")

resend_request ==
    /\ await_ack[i].due
    /\ try_write_packet(Packet(await_ack[i]))
    /\ await_ack' = [await_ack EXCEPT ![i].due = FALSE]
    /\ i' = i + 1
    /\ UNCHANGED <<pool, next_new_pid, send_request, pc, ended, result, accepted>>

resend_skip ==
    /\ ~await_ack[i].due
    /\ i' = i + 1
    /\ UNCHANGED <<pool, next_new_pid, queueVars, pc, connVars, ended, result, accepted>>

resend_requests ==
    /\ ~ended
    /\ pc = "resend"
    /\ \/ i <= Len(await_ack) /\ resend_request
       \/ i <= Len(await_ack) /\ resend_skip
       \/ i <= Len(await_ack) /\ await_ack[i].due /\ PartiallySent
       \/ i > Len(await_ack) /\ Goto("idle")

\* RESEND_DURATION passes for one entry.  send() does not wait anywhere.
resend_due ==
    /\ ~ended
    /\ pc = "idle"
    /\ \E k \in 1 .. Len(await_ack) :
          /\ ~await_ack[k].due
          /\ await_ack' = [await_ack EXCEPT ![k].due = TRUE]
    /\ UNCHANGED <<pool, next_new_pid, send_request, pc, i, connVars, ended, result, accepted>>

-----------------------------------------------------------------------------
(* The connection                                                           *)

Unchanging == UNCHANGED <<pool, next_new_pid, queueVars, pc, i, ended, result, accepted>>

Transmit == Processing /\ write_to_network /\ Unchanging

connection_error == Processing /\ set_error /\ Unchanging

\* Requests wait for their acknowledgement over a reconnect.
connect == ~ended /\ pc = "idle" /\ reconnect /\ Unchanging

-----------------------------------------------------------------------------
Client == \E r \in Requests : add_request(r)

Incoming ==
    \E pid \in Pids :
        on_unsuback(pid) \/ \E success \in BOOLEAN : on_suback(pid, success)

Sending == send \/ send_requests \/ resend_requests

Connection == Transmit \/ connection_error \/ connect

Next == Client \/ Incoming \/ Sending \/ Connection \/ resend_due

Spec == Init /\ [][Next]_vars

-----------------------------------------------------------------------------
(* Properties                                                                *)

UidsOf(queue) == [k \in 1 .. Len(queue) |-> queue[k].uid]

\* The accepted requests without a result are exactly the ones in the two
\* queues, each once, in the order of the calls: refused packets, a full
\* await_ack, lost connections and stray acknowledgements neither lose nor
\* reorder one.
QueuedInOrder ==
    LET queued == UidsOf(await_ack) \o UidsOf(send_request) IN
    /\ {queued[k] : k \in 1 .. Len(queued)} =
          {r \in Requests : result[r] = "none" /\ \E n \in 1 .. Len(accepted) : accepted[n] = r}
    /\ \A k, l \in 1 .. Len(queued), m, n \in 1 .. Len(accepted) :
          k < l /\ accepted[m] = queued[k] /\ accepted[n] = queued[l] => m < n

\* A SUBACK ends only subscribe() calls and an UNSUBACK only unsubscribe()
\* calls, although both kinds share the queue and the packet ids, and an
\* acknowledgement may come late, for an id that was given to the other kind.
AnswersOwnKind ==
    \A r \in Requests :
        result[r] # "none" =>
            (Kind[r] = "sub" <=> result[r] \in {"subscribed", "failed"})

\* Every packet id that was ever taken is in the pool or with one queued
\* request, as long as the pool has room for all requests of both queues: the
\* acknowledgements, whatever they say, return each id exactly once.
NothingLeaks ==
    PoolSize >= 2 * Queue =>
        next_new_pid - 1 = Len(pool) + Len(send_request) + Len(await_ack)

Queued == {[uid |-> send_request[k].uid, pid |-> send_request[k].pid] :
               k \in 1 .. Len(send_request)}
              \cup {[uid |-> await_ack[k].uid, pid |-> await_ack[k].pid] :
                        k \in 1 .. Len(await_ack)}

PidOf(r) ==
    IF \E e \in Queued : e.uid = r THEN (CHOOSE e \in Queued : e.uid = r).pid ELSE 0

\* A request is a user of the pool that takes an id when it is queued and
\* returns it, once, with its answer: PidUsers, where what a request holds is
\* read off the queues.
PidPool == INSTANCE PidUsers WITH
    Users <- Requests,
    MaxAbandon <- 0,
    held <- [r \in Requests |-> PidOf(r)],
    abandoned <- {},
    panicked <- FALSE
ImplementsPidUsers == PidPool!Spec

=============================================================================
