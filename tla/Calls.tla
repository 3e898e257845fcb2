------------------------------- MODULE Calls -------------------------------
(***************************************************************************)
(* The client calls and the event loop between them: MqttClient of         *)
(* src/client.rs, publish(), subscribe() and run_once() of                 *)
(* src/state/mod.rs, with the mutexes, the notification, the unique ids    *)
(* and the event channel they wait on and wake each other with.            *)
(*                                                                         *)
(* The tasks share one executor (State is not Sync): a task in ready is    *)
(* polled, and a task that returned Pending leaves ready until something   *)
(* wakes it.  A poll of a call is one step; a poll of the event loop is a  *)
(* series of steps that nothing interrupts before it may return Pending.   *)
(* Packets are reduced to "sent" and "answered": a request of the          *)
(* publishes or of the subscribes is written and then completes at once    *)
(* (QoS 0) or with the broker's answer.  The connection stays up.          *)
(*                                                                         *)
(* The event channel is PubSubChannel of embassy-sync (external): every    *)
(* subscriber has the events since it subscribed that it has not read;     *)
(* publish() waits while some subscriber has EventCap of them,             *)
(* publish_immediate() discards the oldest instead.                        *)
(***************************************************************************)
EXTENDS AsyncMutex, HeaplessVec, Request, UniqueId

CONSTANTS
    Clients,            \* the calls, each of them a task
    Kind,               \* Kind[c]: "qos0", "qos1" or "sub"
    Queue,              \* QUEUE, capacity of the queues
    EventCap,           \* events the channel holds, 8
    MaxSubscribers,     \* subscribers the channel has, 16
    MaxRefused,         \* bound: packets the send buffer refuses
    MaxCancelled        \* bound: calls the application gives up

ASSUME CallsAssumption ==
    /\ Kind \in [Clients -> {"qos0", "qos1", "sub"}]
    /\ "loop" \notin Clients
    /\ {Queue, EventCap, MaxSubscribers} \subseteq Nat \ {0}
    /\ {MaxRefused, MaxCancelled} \subseteq Nat

Queues == {"publishes", "subscribes"}
QueueOf(c) == IF Kind[c] = "sub" THEN "subscribes" ELSE "publishes"

VARIABLES
    ready,          \* the tasks that will be polled
    mutex,          \* mutex[q]
    queue,          \* queue[q]: requests to send
    awaiting,       \* awaiting[q]: requests sent and not answered
    on_requst_added,
    backlog,        \* backlog[c]: the events c has not read
    subscribed,     \* the calls that hold a subscriber
    event_wakers,   \* the calls that wait for an event
    ids, uid,       \* the unique ids and the one of each call
    pc, cur,        \* where the event loop is, and in which queue
    done,           \* the call whose PublishDone is being published
    handling,       \* it is published by the handler of an acknowledgement
    inbox,          \* acknowledgements that have arrived
    step,           \* step[c]: where the call is
    panicked,
    refused,        \* history: packets refused
    completed,      \* history: calls whose completion was published
    overrun,        \* history: calls whose completion was discarded unread
    disconnecting   \* history: disconnect() was called

loopVars == <<pc, cur, done, handling, refused>>
idVars == <<ids, uid, panicked>>
eventVars == <<backlog, subscribed, event_wakers, overrun>>
vars == <<ready, mutex, queue, awaiting, on_requst_added, backlog, subscribed, event_wakers,
          ids, uid, pc, cur, done, handling, inbox, step, panicked, refused, completed,
          overrun, disconnecting>>

Requests == [call : Clients, uid : Nat]
Events == [kind : {"PublishDone", "SubscribeDone"}, uid : Nat]

TypeOK ==
    /\ ready \subseteq Clients \cup {"loop"}
    /\ mutex \in [Queues -> [locked : BOOLEAN, wakers : SUBSET Clients]]
    /\ \A q \in Queues : /\ queue[q] \in Seq(Requests) /\ Len(queue[q]) <= Queue
                         /\ awaiting[q] \in Seq(Requests) /\ Len(awaiting[q]) <= Queue
                         /\ Cardinality(mutex[q].wakers) <= WAKERS
    /\ on_requst_added \in [notification : {"None", "NewRequest", "Disconnect"}, waker : BOOLEAN]
    /\ \A c \in Clients : backlog[c] \in Seq(Events) /\ Len(backlog[c]) <= EventCap
    /\ subscribed \subseteq Clients /\ Cardinality(subscribed) <= MaxSubscribers
    /\ event_wakers \subseteq Clients
    /\ pc \in {"send", "publish", "publish_pending", "nonblocking", "select", "stopped"}
    /\ cur \in Queues
    /\ step \in [Clients -> {"new", "enqueue", "await", "returned", "failed", "cancelled"}]

Init ==
    /\ ready = {"loop"}
    /\ mutex = [q \in Queues |-> IF q = "publishes" THEN poll_lock(NewMutex) ELSE NewMutex]
    /\ queue = [q \in Queues |-> <<>>] /\ awaiting = [q \in Queues |-> <<>>]
    /\ on_requst_added = NoRequest
    /\ backlog = [c \in Clients |-> <<>>] /\ subscribed = {} /\ event_wakers = {}
    /\ ids = NewIds /\ uid = [c \in Clients |-> 0]
    /\ pc = "send" /\ cur = "publishes" /\ done = <<>> /\ handling = FALSE
    /\ inbox = <<>>
    /\ step = [c \in Clients |-> "new"]
    /\ panicked = FALSE /\ refused = 0
    /\ completed = {} /\ overrun = {} /\ disconnecting = FALSE

-----------------------------------------------------------------------------
(* The event channel                                                        *)

ChannelFull == \E c \in subscribed : Len(backlog[c]) >= EventCap

Event(request) ==
    [kind |-> IF Kind[request.call] = "sub" THEN "SubscribeDone" ELSE "PublishDone",
     uid |-> request.uid]

\* The event goes to every subscriber; those that lag behind by EventCap lose
\* their oldest one.  Waiting subscribers are woken.
Publish(request) ==
    LET late == {c \in subscribed : Len(backlog[c]) >= EventCap} IN
    /\ backlog' = [c \in Clients |->
                     IF c \notin subscribed THEN <<>>
                     ELSE Append(IF c \in late THEN Tail(backlog[c]) ELSE backlog[c],
                                 Event(request))]
    /\ overrun' = overrun \cup {c \in late : Head(backlog[c]).uid = uid[c]}
    /\ event_wakers' = {}
    /\ completed' = completed \cup {request.call}

\* A publisher that waits is woken when an event has been read by all.
Awaken(subscribers, unread) ==
    IF ChannelFull /\ \A c \in subscribers : Len(unread[c]) < EventCap
         /\ pc = "publish_pending"
      THEN {"loop"} ELSE {}

-----------------------------------------------------------------------------
(* run_once()                                                               *)

Polled == "loop" \in ready /\ ~panicked

\* The loop has returned Pending, or may do so: the other tasks are polled.
\* What the calls do after run() has returned is left out: they only wait.
BetweenPolls == ~panicked /\ pc \in {"publish_pending", "nonblocking", "select"}

\* The event loop holds the Lock of `from` and goes on to send the packets of
\* queue `to`: one Lock is dropped and the other taken, which is free because
\* nobody else holds a mutex across an await.
LockNext(from, to) ==
    LET dropped == [mutex EXCEPT ![from] = LockDrop(@)] IN
    /\ mutex' = [dropped EXCEPT ![to] = poll_lock(@)]
    /\ cur' = to /\ pc' = "send"

\* A new turn, with no Lock held.
run_once ==
    /\ mutex' = [mutex EXCEPT !["publishes"] = poll_lock(@)]
    /\ cur' = "publishes" /\ pc' = "send"

Unlock(q) == mutex' = [mutex EXCEPT ![q] = LockDrop(@)]

\* The k-th request is the next to send: a publish whose target queue is full
\* is passed over, a subscribe request is not.
HasSpace(k) ==
    Kind[queue[cur][k].call] = "qos0" \/ Len(awaiting[cur]) < Queue
IsNext(k) ==
    /\ HasSpace(k)
    /\ \A j \in 1 .. k - 1 : ~HasSpace(j)

\* A packet is written: QoS 0 is done, everything else waits for an answer.
send(k) ==
    LET request == queue[cur][k] IN
    /\ Polled /\ pc = "send" /\ IsNext(k)
    /\ queue' = [queue EXCEPT ![cur] = Remove(@, k)]
    /\ IF Kind[request.call] = "qos0"
         THEN /\ done' = <<request>> /\ handling' = FALSE /\ pc' = "publish"
              /\ UNCHANGED awaiting
         ELSE /\ awaiting' = [awaiting EXCEPT ![cur] = Append(@, request)]
              /\ UNCHANGED <<pc, done, handling>>
    /\ UNCHANGED <<ready, mutex, on_requst_added, eventVars, idVars, cur, refused, inbox, step,
                   completed, disconnecting>>

\* SentAll: the next queue, or select3.
sent_all ==
    /\ Polled /\ pc = "send"
    /\ \A k \in 1 .. Len(queue[cur]) : ~HasSpace(k)
    /\ cur = "publishes" \/ queue[cur] = <<>>
    /\ ready' = ready \cup Woken_by_drop(mutex[cur])
    /\ IF cur = "publishes" THEN LockNext("publishes", "subscribes")
                            ELSE Unlock(cur) /\ pc' = "select" /\ UNCHANGED cur
    /\ UNCHANGED <<queue, awaiting, on_requst_added, eventVars, idVars, done, handling, refused,
                   inbox, step, completed, disconnecting>>

\* PartiallySent: the buffer refuses the next packet, or a subscribe request has
\* nowhere to go.
partially_sent ==
    /\ Polled /\ pc = "send"
    /\ \/ /\ \E k \in 1 .. Len(queue[cur]) : IsNext(k)
          /\ refused < MaxRefused /\ refused' = refused + 1
       \/ /\ cur = "subscribes" /\ queue[cur] # <<>> /\ ~HasSpace(1)
          /\ UNCHANGED refused
    /\ Unlock(cur) /\ ready' = ready \cup Woken_by_drop(mutex[cur])
    /\ pc' = "nonblocking"
    /\ UNCHANGED <<queue, awaiting, on_requst_added, eventVars, idVars, cur, done, handling, inbox,
                   step, completed, disconnecting>>

\* publisher.publish().await, with the mutex held.
publish ==
    /\ Polled /\ pc \in {"publish", "publish_pending"}
    /\ IF ChannelFull
         THEN /\ ready' = ready \ {"loop"} /\ pc' = "publish_pending"
              /\ UNCHANGED <<mutex, eventVars, completed, cur, done>>
         ELSE /\ Publish(done[1])
              /\ done' = <<>>
              /\ IF handling
                   THEN /\ LockNext("publishes", "publishes")
                        /\ ready' = ready \cup event_wakers \cup Woken_by_drop(mutex["publishes"])
                   ELSE /\ pc' = "send" /\ UNCHANGED <<mutex, cur>>
                        /\ ready' = ready \cup event_wakers
              /\ UNCHANGED subscribed
    /\ UNCHANGED <<queue, awaiting, on_requst_added, idVars, handling, refused, inbox, step,
                   disconnecting>>

\* Where the request is that an acknowledgement is for.
position(s, request) == CHOOSE k \in 1 .. Len(s) : s[k] = request

\* process_packet(): the request leaves the queue.  PublishDone is published with
\* publish(), SubscribeDone with publish_immediate().
process_packet ==
    LET request == Head(inbox)
        q == QueueOf(request.call)
    IN
    /\ inbox' = Tail(inbox)
    /\ awaiting' = [awaiting EXCEPT ![q] = Remove(@, position(@, request))]
    /\ IF q = "publishes"
         THEN /\ mutex' = [mutex EXCEPT ![q] = poll_lock(@)]
              /\ done' = <<request>> /\ handling' = TRUE /\ pc' = "publish"
              /\ UNCHANGED <<ready, cur, eventVars, completed>>
         ELSE /\ Publish(request) /\ UNCHANGED subscribed
              /\ LockNext(q, "publishes")
              /\ ready' = ready \cup event_wakers \cup Woken_by_drop(mutex[q])
              /\ UNCHANGED <<done, handling>>

\* run_io_nonblocking(): a packet that has arrived, or the next turn.
nonblocking ==
    /\ Polled /\ pc = "nonblocking"
    /\ IF inbox # <<>>
         THEN process_packet
         ELSE /\ run_once
              /\ UNCHANGED <<ready, awaiting, eventVars, done, handling, inbox, completed>>
    /\ UNCHANGED <<queue, on_requst_added, idVars, refused, step, disconnecting>>

\* select3, in its order: the notification, then the packet; or Pending.
select3 ==
    /\ Polled /\ pc = "select"
    /\ IF IsReady(on_requst_added)
         THEN /\ on_requst_added' = Consume(on_requst_added)
              /\ IF on_requst_added.notification = "Disconnect"
                   THEN pc' = "stopped" /\ UNCHANGED <<cur, mutex>>
                   ELSE run_once
              /\ UNCHANGED <<ready, awaiting, eventVars, done, handling, inbox, completed>>
         ELSE /\ on_requst_added' = AwaitNotification(on_requst_added)
              /\ IF inbox # <<>>
                   THEN process_packet
                   ELSE /\ ready' = ready \ {"loop"}
                        /\ UNCHANGED <<mutex, awaiting, eventVars, pc, cur, done, handling, inbox,
                                       completed>>
    /\ UNCHANGED <<queue, idVars, refused, step, disconnecting>>

Loop ==
    \/ sent_all \/ partially_sent \/ publish \/ nonblocking \/ select3
    \/ \E k \in 1 .. Len(queue[cur]) : send(k)

-----------------------------------------------------------------------------
(* The client calls                                                         *)

\* mutant: the id of a call that gets no subscriber is given back
IdsAfterFailure_freed == FreeId(AfterNext(ids), NextId(ids))

\* The id of a call that gets no subscriber is lost.
IdsAfterFailure == AfterNext(ids)

\* UniqueID::new(), then subscribe_events(), which fails when all subscribers
\* are taken.
start(c) ==
    /\ BetweenPolls /\ step[c] = "new"
    /\ uid' = [uid EXCEPT ![c] = NextId(ids)]
    /\ IF Cardinality(subscribed) < MaxSubscribers
         THEN /\ ids' = AfterNext(ids)
              /\ subscribed' = subscribed \cup {c}
              /\ ready' = ready \cup {c}
              /\ step' = [step EXCEPT ![c] = "enqueue"]
         ELSE /\ ids' = IdsAfterFailure
              /\ step' = [step EXCEPT ![c] = "failed"]
              /\ UNCHANGED <<subscribed, ready>>
    /\ UNCHANGED <<mutex, queue, awaiting, on_requst_added, backlog, event_wakers, overrun, panicked,
                   loopVars, inbox, completed, disconnecting>>

Notify(notification) ==
    /\ on_requst_added' = notify(on_requst_added, notification)
    /\ ready' = ready \cup (IF on_requst_added.waker THEN {"loop"} ELSE {})

\* mutant: only the lock is looked at
Busy_if_locked(q) == mutex[q].locked

\* The operation of try_with_lock() has to wait.
Busy(q) == mutex[q].locked \/ Len(queue[q]) >= Queue

\* poll_try_with_lock() of the queue, then notify_new_request().
enqueue(c) ==
    LET q == QueueOf(c) IN
    /\ BetweenPolls /\ c \in ready /\ step[c] = "enqueue"
    /\ IF Busy(q)
         THEN /\ mutex' = [mutex EXCEPT ![q] = register(@, c)]
              /\ ready' = (ready \ {c}) \cup Evicted(mutex[q], c)
              /\ UNCHANGED <<queue, on_requst_added, step>>
         ELSE /\ queue' = [queue EXCEPT ![q] = Append(@, [call |-> c, uid |-> uid[c]])]
              /\ Notify("NewRequest")
              /\ step' = [step EXCEPT ![c] = "await"]
              /\ UNCHANGED mutex
    /\ UNCHANGED <<awaiting, eventVars, idVars, loopVars, inbox, completed, disconnecting>>

\* The subscriber is dropped, and with it the events it has not read.
DropSubscriber(c) ==
    /\ subscribed' = subscribed \ {c}
    /\ backlog' = [backlog EXCEPT ![c] = <<>>]

\* await_event(): events are read until the one with the call's id; then the id
\* is freed.
await_event(c) ==
    LET event == Head(backlog[c])
        own == [kind |-> IF Kind[c] = "sub" THEN "SubscribeDone" ELSE "PublishDone",
                uid |-> uid[c]]
    IN
    /\ BetweenPolls /\ c \in ready /\ step[c] = "await"
    /\ IF backlog[c] = <<>>
         THEN /\ event_wakers' = event_wakers \cup {c} /\ ready' = ready \ {c}
              /\ UNCHANGED <<backlog, subscribed, ids, panicked, step>>
         ELSE IF event # own
         THEN /\ backlog' = [backlog EXCEPT ![c] = Tail(@)]
              /\ ready' = ready \cup Awaken(subscribed, backlog')
              /\ UNCHANGED <<subscribed, event_wakers, ids, panicked, step>>
         ELSE /\ DropSubscriber(c)
              /\ ready' = (ready \ {c}) \cup Awaken(subscribed', backlog')
              /\ panicked' = ~CanFree(ids) /\ ids' = FreeId(ids, uid[c])
              /\ step' = [step EXCEPT ![c] = "returned"]
              /\ UNCHANGED event_wakers
    /\ UNCHANGED <<mutex, queue, awaiting, on_requst_added, overrun, uid, loopVars, inbox,
                   completed, disconnecting>>

Cancel(c) ==
    /\ BetweenPolls /\ step[c] \in {"enqueue", "await"}
    /\ Cardinality({d \in Clients : step[d] = "cancelled"}) < MaxCancelled
    /\ DropSubscriber(c)
    /\ ready' = (ready \ {c}) \cup Awaken(subscribed', backlog')
    /\ step' = [step EXCEPT ![c] = "cancelled"]
    /\ UNCHANGED <<mutex, queue, awaiting, on_requst_added, event_wakers, overrun, uid, loopVars,
                   inbox, completed, disconnecting>>

\* mutant: the id of a cancelled call is given back
cancel_freeing(c) ==
    /\ Cancel(c)
    /\ CanFree(ids) /\ ids' = FreeId(ids, uid[c]) /\ UNCHANGED panicked

\* The future of the call is dropped, in a select or a timeout of the
\* application: the subscriber goes, the id and the request stay.
cancel(c) == Cancel(c) /\ UNCHANGED <<ids, panicked>>

disconnect ==
    /\ BetweenPolls /\ ~disconnecting
    /\ disconnecting' = TRUE
    /\ Notify("Disconnect")
    /\ UNCHANGED <<mutex, queue, awaiting, eventVars, idVars, loopVars, inbox, step, completed>>

\* The broker answers a request; the socket wakes the loop that waits for it.
broker_answer ==
    /\ BetweenPolls
    /\ \E q \in Queues : \E k \in 1 .. Len(awaiting[q]) :
          /\ \A j \in 1 .. Len(inbox) : inbox[j] # awaiting[q][k]
          /\ inbox' = Append(inbox, awaiting[q][k])
    /\ ready' = ready \cup (IF pc = "select" THEN {"loop"} ELSE {})
    /\ UNCHANGED <<mutex, queue, awaiting, on_requst_added, eventVars, idVars, loopVars, step,
                   completed, disconnecting>>

Client(c) == enqueue(c) \/ await_event(c)

Next ==
    \/ Loop
    \/ \E c \in Clients : start(c) \/ Client(c) \/ cancel(c)
    \/ disconnect
    \/ broker_answer

\* The executor polls every task that was woken, and the broker answers.  The
\* application owes nothing.
Spec ==
    /\ Init /\ [][Next]_vars
    /\ WF_vars(Loop) /\ WF_vars(broker_answer)
    /\ \A c \in Clients : WF_vars(Client(c))

-----------------------------------------------------------------------------
(* Properties                                                               *)

\* A call returns because its own request was completed, not because of an event
\* that was meant for a call with the same unique id.
ReturnsForOwn == \A c \in Clients : step[c] = "returned" => c \in completed

\* The pool of unique ids never overflows: it holds as many as there are
\* subscribers, and only a call that had a subscriber gives its id back.
IdPoolSuffices == ~panicked

\* A call that has begun returns: no wake-up is lost between the queues, the
\* mutexes, the notification and the event channel.  The exceptions are a call
\* that is cancelled, the end of run() and a completion that publish_immediate()
\* discarded before the call read it.
EveryCallReturns ==
    \A c \in Clients :
        step[c] = "enqueue"
            ~> step[c] \in {"returned", "cancelled"} \/ pc = "stopped" \/ c \in overrun

\* disconnect() ends the event loop, whatever notifications come before, after
\* or at the same time.
DisconnectHonoured == disconnecting ~> pc = "stopped"

=============================================================================
