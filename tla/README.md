# TLA+ verification of embedded-mqttc

`embedded-mqttc` is an asynchronous MQTT 3.1.1 client for embedded systems. An
application holds one `State` (event loop, connection, queues) and any number of
`MqttClient` handles. This directory holds TLA+ models of its core, TLC runs
that check them on small instances, and TLAPS proofs for every instance.

## The system

All paths are below `src/src`.

| Component | State | Operations |
|---|---|---|
| Packet-id pool (`state/pid.rs`) | FIFO of returned ids (16), counter of new ids; one static for the program | `next_pid`, `take`, `free_pid` |
| Outgoing publishes (`state/publish2.rs`) | `send_publish`, `await_puback`, `await_pubrec`, `send_pubrel`, `await_pubcomp`, each an array of QUEUE entries, behind one async mutex | `publish`; `send_packets` (five loops); `process_puback`, `process_pubrec`, `process_pubcomp` |
| Incoming publishes (`state/receives2.rs`) | `send_puback`, `send_pubrec`, `await_pubrel`, `send_pubcomp`; a channel of one message to the application | `on_publish`, `on_pubrel`, `send_packets` (three loops) |
| Subscribe requests (`state/sub2.rs`) | `send_request`, `await_ack` | `add_(un)subscribe_request`, `send`, `on_suback`, `on_unsuback` |
| Connection (`state/connection/mod.rs`) | none, `ConnectSent`, `Connected`, `Disconnected`, `Error`; socket, send and receive buffer | `connect` with the auto-subscribes, `try_write_packet` (two of them), `run_io`, `run_io_nonblocking`, `set_error`, `disconnect` |
| Event loop (`state/mod.rs`) | which step of a turn it is in | `run`, `run_once`, `process_packet` |
| Keep-alive (`state/ping.rs`) | time of the last PINGREQ and PINGRESP | `send`, `ping_pause`, `on_ping_response` |
| Request notification (`state/request.rs`) | pending notification, waker | `notify_new_request`, `notify_disconnect`, `next_notification` |
| Mutex (`mutex.rs`) | locked, wakers | `lock`, `try_with_lock`, unlock |
| Buffer (`buffer.rs`) | read and write position | write, read, flip, reset |
| Client handle (`client.rs`), unique ids (`lib.rs`) | a unique id and an event subscription per call | `publish`, `subscribe`, `unsubscribe`, `disconnect` |

**How they interact.** A client call takes a unique id, subscribes to the event
channel, puts a request into a queue (waiting on the mutex for room), wakes the
loop through `RequestState`, and waits for its event. One turn of the loop
(`run_once`) connects if necessary, lets publishes, receives, subscribes and
ping write into the send buffer, in that order and only as long as each returns
`SentAll`, and then waits for a request, the ping timer or a packet, which
`process_packet` hands to the queue it belongs to. An error makes `run` call
`set_error` and connect again, or stop. The queues survive a reconnect, the
buffers do not.

**What is hard.** Acknowledgements come for packets sent twice, or on another
connection; packet ids are reused as soon as they are acknowledged; the send
buffer may refuse a packet at any point of any loop; the queues are short arrays
that are removed from while they are iterated, and some pushes are unchecked; a
client call may be dropped at every await; the loop waits for the application
while holding locks. `PROJECT.json` lists these hazards line by line.

**What makes each part correct.** Pool: an id has one owner and ids are lost only
where the code says so. Outgoing: no overflow, no publish lost, duplicated or
overtaken by a move between queues, DUP exactly on retransmissions, `publish()`
returns only for what the broker has, QoS 2 once. Incoming: QoS 2 delivered at
most once, everything acknowledged was delivered. Subscribes: each call gets its
own result. Connection: every packet that `try_write_packet` accepted is written
whole and in order, or the connection ends. Event loop, mutex and notification:
no wake-up is lost and nobody waits on everybody.

## The modules

| Module | Models |
|---|---|
| `Pid` | `PidPool`: the pool and the counter; `next_pid`, `take`, `free_pid` as actions that other modules conjoin with their own |
| `PidUsers` | the pool with the requests that hold ids: take, return, abandon, panic. It is both the model of the pool and the abstract specification of a user of it |
| `Link` | what the queues see of the connection: connected or not, a FIFO send buffer that may refuse a packet, cleared on reconnect |
| `HeaplessVec` | `heapless::Vec::remove` |
| `Publishes` | `State::publish`, `Publishes`, `PublishesInner`; any acknowledgement may arrive at any time |
| `PublishFlow` | `Publishes` with both directions of a TCP connection and a broker that follows the protocol |
| `Receives` | `Receives`, `ReceivesInner` |
| `ReceiveFlow` | `Receives` with the network and a broker that follows the protocol and repeats what is unacknowledged after a reconnect |
| `Subs` | `Subs`, `SubsInner`; any SUBACK or UNSUBACK may arrive at any time |
| `StackBuffer` | `StackBuffer`: the array and its positions; flip, reset, commit, read, as operators that return the new buffer |
| `Connection` | `TcpConnectionState` with `run` and `run_once` around it: both buffers byte by byte, the socket, a broker that answers each CONNECT and SUBSCRIBE once, or refuses or closes, and otherwise sends any packets |
| `Ping` | `PingState` over a clock, in the turns of `run_once` |
| `AsyncMutex`, `Request`, `UniqueId` | `mutex.rs`, `state/request.rs` and `UniqueIDPool`, as operators on records |
| `Calls` | `MqttClient::publish`, `subscribe` and `disconnect` as tasks of one executor, with the event loop, two mutexes, the notification, the unique ids and the event channel between them |
| `PidUsersProofs`, `PublishesProofs`, `ReceiveProofs`, `SubsProofs`, `ConnectionProofs`, `PingProofs`, `CallsProofs` | the theorems about these components (`PublishesProofs` about `Publishes` and `PublishFlow`, `ReceiveProofs` about `Receives` and `ReceiveFlow`, `ConnectionProofs` about `StackBuffer` and `Connection`) |
| `HeaplessVecProofs` | what a push, a removal and a tail do to a queue; used by the proofs about `Publishes`, `Receives`, `Subs` and `Calls` |
| `MC*` | constants of the runs |

`Publishes` extends `Pid` and `Link`, `PublishFlow` extends `Publishes`;
`Receives` extends `Link`, `ReceiveFlow` extends `Receives`; `Subs` extends `Pid`
and `Link`; `Connection` extends `StackBuffer`; `Calls` extends `AsyncMutex`,
`Request`, `UniqueId` and `HeaplessVec`. `Publishes` and `Subs` instantiate `PidUsers` as the
specification of how they use packet ids.

### Correspondence and atomicity

*Pool.* Every call runs in a critical section and is one step. The counter is
the `u16` with `MaxPid` for `u16::MAX`; `take` panics there (`Exhaust`) before
it changes anything, so there is no overflow.

*Publishes.* A call of `publish()` is a message `m`. It is three steps:
`publish` takes the id (with the counter exhausted it is disabled: that panic is `Exhaust` of
`PidUsers`), `publish_enqueue` is the critical closure of
`try_with_lock` (with the panic of its `unwrap` when the message does not fit),
and the event `PublishDone` is counted in `done`. `cancel` is the future being
dropped while it waits. A handler of an acknowledgement is one step: it locks,
changes the queues and publishes the event, and nobody can use the queues before
it unlocks. `send_packets` holds the mutex but may wait in the middle, so it is
one step per packet: `pc` says in which of its loops it is, `i` is the loop's
index, and nobody touches the queues unless `pc` is `idle`. A packet that is
refused ends the whole call (`PartiallySent`). Topic, payload and retain flag
are abstracted to the identity of the message, timestamps to `due`: more than
`RESEND_DURATION` has passed since the packet was sent. `stage`, `done`,
`accepted`, `recd` and `sent` are history: no guard of a code step other than
"has this call been made" reads them.

*Subs.* The closure of `add_(un)subscribe_request` and the handlers of
acknowledgements are one step each; `send` is one step per packet. A packet id is
taken inside the closure, so a call that is dropped while it waits for room holds
none. A topic longer than `TOPIC` panics; one that does not fit the packet makes
`create_packet` fail, which ends `run` with the request still queued. A request
stands for its topics, a SUBACK is a success or contains a failure.

*Receives.* Only the event loop uses these queues, so a handler, with the
hand-over to the application in it, is one step; `send_packets` is one step per
packet. The index of its loops advances after a removal as it does in the code.
An error that `run` does not recover from (`TopicSizeError`, `BufferTooSmall`)
sets `stopped`.

*Link.* The send buffer holds whole packets. How many fit depends on sizes and
on positions in the buffer, so a refusal is possible in every state. An error
leaves the buffer alone, the next `connect` clears it. The network takes packets
only between two calls of `send_packets`, as the event loop is one task.

*Network and broker (external).* Both directions are FIFO and lose what is under
way when the connection is lost. The broker keeps its session (`clean_session`
is false): it remembers the QoS 2 ids it has received, never gives one id to two
messages in flight, and repeats PUBLISH and PUBREL after a reconnect.

*Connection and StackBuffer.* A step goes from one await to the next; `pc` names
the await. A byte is `<<p, k>>`, the k-th byte of packet `p`, so that a byte that
is torn off, lost or repeated shows. The buffers are the code's: an array with two
positions, `flip` as the rotation of the whole array, `writeable_data` flipping
only a write position at the end. A byte that was read is replaced by `Unused`,
so that one that is read twice would show. The socket takes and delivers
any number of bytes, also 0 after the broker closed. `mapped` is the borrow that a
`MappedBufferRef` holds on the receive buffer while a packet is processed. What the
queues want to send is the sequence `pending`. The histories `accepted`, `handled`
and `from_broker` hold the bytes of the packets accepted for sending, handled and
sent by the broker on this connection; `Packets` counts packets by their last byte.
`ConnectionAssumption` says of sizes only that a packet has at least one byte and that
DISCONNECT (2 bytes) is not longer than CONNECT (at least 14): a buffer that took the
one has room for the other when it is empty. The error that each path returns is
kept as far as `run` distinguishes it: recover with `set_error`, or return. Two paths
are left out. The broker sends one CONNACK for a CONNECT, so that `process_packet` never
meets another one, for which it panics (`state/mod.rs:253`). A packet that the codec
cannot encode (`connection/mod.rs:257` and `:505`) is not sent: the error makes `run`
connect again, as `network_error` does from the awaits of the same turn, and as a
refusal followed by `connection_error` does in `Link`. A SUBSCRIBE is refused only
behind bytes of a CONNECT that was not sent in full, which this broker does not answer;
the branch is modelled and proved about, and no run reaches it.

*Ping.* Time passes at every await, in units no longer than
`ERROR_CORRECTING_DURATION`. Two things are assumed: a sleep ends on time, and a ping is
answered within `MaxAnswer` or not at all. Any PINGRESP counts, also a late one of an
earlier ping. Nothing bounds a turn, in the code or in the model: a send buffer that is
stuck refuses every ping (`connection_stuck`), and a full `await_ack` with a request
behind it makes `Subs::send` return `PartiallySent` before the resends
(`state/sub2.rs:95`), so that `run_once` does not reach `ping.send()`; both are
`send_refused`, as often as one likes. The history variables `busy_since` and `longest`
record how long the loop has been in a turn since the last packet, and `KeepAliveKept`
is about silences whose turns are short enough (`RoomForTurns`). In the program, with
`KEEP_ALIVE` of 60 s, each may take almost 15 s less half of `MaxAnswer`.

*Calls.* The tasks share one executor. `ready` are the tasks that were woken; a poll
of a call is one step, a poll of the loop a series of steps that nothing interrupts
until it may return `Pending` (`BetweenPolls`). Packets are reduced to written and
answered. `PubSubChannel` and `MultiWakerRegistration` of `embassy-sync` are external:
`publish()` waits while some subscriber has a full backlog, `publish_immediate()`
discards that subscriber's oldest event, a registration without a free slot wakes
those it holds. A packet that arrives while the loop waits is processed at once; the code
reads the socket before it decodes what its buffer holds, which `Connection` models. The
ping timer does not wake this loop, which can only delay it. `start` is a step of its own,
although the code subscribes and first tries to enqueue in one poll: that only adds
interleavings.

## The runs

Deadlock checking is off, because the models have a bounded number of messages
and end when these are handled, when `run()` returns, or in a panic.

| Run | Instance | Shows |
|---|---|---|
| `pid` | 3 requests, pool of 1, ids 1..6, 1 abandoned id | ids have one owner, are lost only on a full pool or by abandoning, and the counter runs ahead only by what was lost; up to the panic |
| `publishes` | 3 QoS 2 messages and a QoS 0 message too long for its buffers; queues of 2, send buffer of 1 packet, pool of 1 | no queue overflows, every message in the one queue of its stage, ids unshared, order kept on first transmission, resend and PUBREL, DUP exactly on retransmissions, `PidUsers` implemented |
| `flow` | 1 QoS 1 and 2 QoS 2 messages, queues of 2, 1 lost connection, 1 resend at any time | QoS 2 is passed on at most once; unless a resend crossed its answer, `publish()` returns only for delivered messages, nothing panics and the client gives up no connection |
| `subs` | 2 subscribe and 1 unsubscribe call, one with a topic that is too long, one with a topic that cannot be encoded; queues of 2, pool of 4 | no request lost, reordered or answered by the other kind's acknowledgement, every id returned once, `PidUsers` implemented |
| `receive` | messages of QoS 0 (too long), 1, 2, 2; 2 ids, queues of 2, 3 connections | QoS 2 is delivered at most once, through `QueueFull` too; on the first connection everything acknowledged was delivered and nothing stays in `await_pubrel` |
| `connection` | buffers of 4 bytes; packets of 1 to 3 bytes, one of 5, one malformed; 2 auto-subscribe packets, 2 connections, 4 packets from the broker on each | packets leave and arrive whole and in order, `Connected` and `Disconnected` are true, no assertion fails, `BufferTooSmall` is said only of what is too large, accepted bytes are sent (liveness) |
| `ping` | keep-alive of 16 units, retry 2, answers up to 3, turns of any length, 36 units of time | the loop never wakes for nothing, the connection is silent for longer than the keep-alive only after a long turn, pings are spaced |
| `calls` | a QoS 0 publish, a QoS 1 publish and a subscribe; queues of 1, 2 events, 2 subscribers, 1 waker slot, 1 refusal, 1 cancelled call | a call returns for its own completion, the id pool suffices, every call returns and `disconnect()` ends the loop (liveness) |

*Why these bounds.* The hazards of the queues need one entry that moves while
another one is before or behind it, a full target queue, a refused packet, and an
id that is used twice: queues of one or two, three messages and a pool smaller
than the number of messages have them all. The send buffer may refuse at any time,
so a call of `send_packets` can stop after each packet. One or two lost connections
are enough for a packet to be sent on one, answered on another and repeated on a
third. (QoS 1 is in `flow` but not in `publishes`; its queue is the shorter half of
the QoS 2 path, and the invariants of `publishes` that are proved cover it.) A buffer
of four bytes has packets that fit once, twice, only after a flip and not at all, at
every position. A keep-alive of 16 leaves room for two turns of 2: the half interval, a
late answer and the correction are 8, 3 and 1; 36 units of time hold two such silences. Three calls are one more than there are
subscribers, and two more than there are slots in a queue or for wakers. Messages of
one QoS, and calls of one kind, are interchangeable, which is the symmetry used in
the `pid`, `publishes` and `subs` runs.

*What `crossed` means.* The history variable of `PublishFlow` becomes true when the
resend timer expires although something with that packet id (the packet, its answer, or
any other packet of the id in either direction) is still under way: the broker was slower
than `RESEND_DURATION` (5 s). The properties of `flow` that say
`~crossed` hold for a prompt broker, over lost packets and reconnects;
`flow_dup_pubrec` shows what happens otherwise.

*The exception in `NoSelfInflictedError`.* With a prompt broker the client still
gives up a connection by itself in one case: a PUBREL is lost with a connection,
its message waits in `await_pubcomp` for the resend, the PUBRELs of the next
messages have no room there and fill `send_pubrel`, and a further PUBREC is a
`QueueFull`. Three messages of QoS 2 and queues of one are enough; `flow` has too few
messages for its queues of two. The proof showed that the case exists, and that without
an earlier loss there is always room.

*Fairness.* `Connection` assumes weak fairness of the event loop (`Loop`): its task is
polled whenever it can go on, and a socket that is open takes a byte sooner or later
or fails. `Calls` assumes it of the loop and of each call (an executor polls every
task that was woken, and no other) and of the broker's answers. The application owes
nothing: it may never start, continue or end a call, and never calls `disconnect()`.
The other modules assume none; their properties are safety properties.

### Runs that end in a violation

Each states what the repository itself says and shows that the code does
otherwise.

* `flow_dup_pubrec`: a resend crosses the PUBREC; the second PUBREC is queued as
  an anonymous `SendPubrel` and sending it panics
  (`publish2.rs:100`; "Not an error because dup pubrec can occure").
* `receive_stale_pubrel`: a PUBLISH repeated after its PUBREC was sent enters
  `await_pubrel` twice, one copy outlives the PUBREL, and the next message with
  that id is acknowledged but never delivered.
* `connection_stuck`: `try_write_packet` of the trait does not flip the send buffer.
  With everything sent and the write position in the middle, a packet larger than
  the rest is refused for ever (`connection/mod.rs:499`; "the send sould be tried
  later"). Under fairness of the loop; the inherent `try_write_packet` flips.
* `calls_deadlock`: three QoS 0 calls and a channel of one event (ten and eight in the
  program). A call that subscribed to the events waits for the publishes' mutex and
  does not read; the loop holds that mutex and waits in `publish()` for the full
  channel (`publish2.rs:248`).

Further weaknesses are visible in the models without a run of their own:

* the second PUBACK of a resent publish can complete a later publish that reuses the
  packet id and has not reached the broker (why `DoneMeansDelivered` says `~crossed`);
* a PUBREC that finds `send_pubrel` full has already removed the publish from
  `await_pubrec` (stage `dropped`: the call never returns and its id is lost);
* the loops of `ReceivesInner::send_packets` advance the index after a removal, so one
  call skips every second acknowledgement and still returns `SentAll`
  (`receives2.rs:106`);
* a PUBACK that stays queued over a reconnect is sent after the repeated PUBLISH was
  acknowledged, so that it can complete another message with the same id;
* `SubscribeDone` can be discarded by `publish_immediate` (`overrun` in `Calls`), and
  its call then waits for ever;
* a read of 0 bytes is not taken for the end of the connection; a CONNECT the socket
  takes only in part is not completed while the loop waits for CONNACK;
* a full `await_ack` whose packets were lost with a connection is never emptied once
  another request waits: every turn is `PartiallySent` before the resends
  (`sub2.rs:95`), and no ping, no `disconnect()` and no later request is looked at. In
  `Ping` and `Calls` this is a refusal; `Subs` has the queues but no broker;
* `run_io` reads the socket before it decodes what is buffered (`connection/mod.rs:516`),
  so that the second packet of one read waits for further bytes;
* the pool of unique ids is one static for all `State`s: `IdPoolSuffices` is about one.

## The proofs

The proofs hold for every value of the constants allowed by the assumptions, which TLC
evaluates in the runs: `PidAssumption` (`PoolSize` is a natural number, `MaxPid` a
positive one), `LinkAssumption`, `PublishesAssumption`, `SubsAssumption` and
`ReceivesAssumption` (QoS is 0, 1 or 2; queues hold at least one entry),
`FlowAssumption`, `UsersAssumption`, `PingAssumption` and `ConnectionAssumption`
(above), `BufferAssumption` (the array has at least one byte), `CallsAssumption`,
`WakersAssumption` and `IdAssumption` (capacities are natural numbers). Three theorems have a
hypothesis of their own: `NoCreepHolds` (finitely many requests),
`IdPoolSufficesHolds` (`MaxSubscribers <= IdPoolSize`; both are 16, `state/mod.rs:99`
and `lib.rs:256`) and `NoPanicIfPromptHolds` (`TooLong = {}`: a message that does not fit
its buffer panics in `publish()` itself, whatever the broker does). The brokers of
`PublishFlow` and `ReceiveFlow` and the bounds `Max...` are part of the specification the
theorems are about; the bounds are arbitrary there.

`PidUsersProofs` (`TypeOK`, `OneOwner`, `LossOnlyWhenFull`, `NoCreep`). `OneOwner` is not
inductive: nothing in it keeps the counter from handing out an id that is still
held. `PidInv == TypeOK /\ Apart /\ Below` adds that every id held, pooled or
abandoned is below `next_new_pid`, and says of single ids and positions what
`OneOwner` says of sets. Each action has a lemma that it keeps `PidInv`;
`LossOnlyWhenFull` follows from `PidInv` step by step.
`NoCreep` counts: the ids below the counter are held, pooled or lost, so a counter that
moves finds the pool empty and one request without an id. It is proved for every
finite set of requests (`ASSUME IsFiniteSet(Users)`), which is the only set of requests
with a number.

`PublishesProofs`, the client with arbitrary acknowledgements (`TypeOK`,
`CapacityRespected`, `InOnePlace`, `PidsUnshared`, `ImplementsPidUsers`). None of them is inductive alone: that a move does not
duplicate a message needs that it was in one queue only; that the id returned by
an acknowledgement is the right one needs that the id in the queue entry is the
one the message took; that it is returned once needs that ids are unshared. So
`PubInv == RestTyped /\ QueuesSound /\ Staged /\ Pool!PidInv` says them together:

* `QueuesSound`: each queue fits its array, names no message twice, holds exactly
  the messages whose `stage` it is, and each entry has the id its message holds;
* `Staged`: `PublishDone` was published for exactly the messages that are done,
  and a message of QoS 1 or 2 holds an id while it is neither new nor done;
* `Pool!PidInv`: the invariant of `PidUsersProofs` under the refinement mapping.

A step changes the queues in one of few ways (append, remove, replace an entry,
or nothing), each with a lemma about `Sound`; every step of `Publishes` is shown
to be a step of `PidUsers` or to leave the ids alone, which gives both
`Pool!PidInv'` (from `NextPidInv`, proved once) and the refinement theorem
`RefinesPidUsers`.

`DupMarksRetransmission` and `KeepsOrder` need an invariant of their own beside `PubInv`:

* `DupInv`: the flag in a queue entry says whether its message was written before, that
  is, it is false in `send_publish` and true in `await_puback` and `await_pubrec`;
* `OrderInv == KeepsOrder /\ LoopInv`. `send_packets` passes over an entry whose await
  queue is full and goes on. That the next message of the same QoS does not overtake it
  is because that queue is still full when the loop gets there: `LoopInv` says of every
  entry before the index that the queue it would move to is full.

`PublishesProofs`, the client with the network and a broker (`ExactlyOnce`,
`DoneMeansDelivered`, `NoPanicIfPrompt`, `NoSelfInflictedError`). `FlowImplementsPublishes`
shows that every step of the flow is a step of `Publishes`, so that `PubInv` is at hand.
The rest speaks of one sequence, `TheLine`: the acknowledgements on the way back, the
packets on the way to the broker and those in the send buffer, the oldest first. The
client appends to it, takes its first item, the broker replaces an item by its answer
where it stands, and a lost connection or a cleared buffer thins it out; everything is
FIFO, so nothing else happens. Three invariants relate the line to the queues by packet id:

* `OnceInv` (for `ExactlyOnce`, whatever is crossed): a packet of a QoS 2 handshake on the
  line belongs to the message that holds its id; while a PUBLISH is under way and was
  delivered once, the broker remembers its id, because the PUBREL that makes it forget is
  only written after a PUBREC and therefore behind every PUBLISH of that id (`InTurn`).
  That is the argument for reusing ids, and the FIFO of the connection carries it;
* `Prompt` (for `DoneMeansDelivered` and `NoPanicIfPrompt`, while `~crossed`): of each id
  at most one packet or answer is on the line, the message that holds the id waits for
  exactly this answer, and an answer comes from a broker that has the message. An entry
  that is due to be resent has nothing on the line (`Quiet`), which is what `~crossed`
  means, and no PUBREL is queued for nobody;
* `LosslessSoFar` (for `NoSelfInflictedError`, while moreover nothing was lost): the
  answers come in the order of `await_pubrec` and `await_pubcomp`, each entry has its
  answer on the line, and a counting argument: a PUBREC that will come before a PUBCOMP
  has room in `send_pubrel` together with everything queued there and awaited before that
  PUBCOMP (`Behind`). It is what fails after a loss.

`ReceiveProofs` (`FlowTypeOK`, `AtMostOnce`, `AckedMeansDeliveredAtFirst`,
`NothingLeftBehind`). `AtMostOnce` says nothing of why a repeated PUBLISH is known for
one. `OnceInv` says it: while the broker may still repeat a QoS 2 message that was
handed over, its id is in `send_pubrec` or `await_pubrel`, also with older PUBLISH and
PUBREL packets under way in both directions, and an id in flight is at one message
only. That holds over any number of connections. What holds on the first connection
only needs more: `FirstInv` says that there is an assignment of a step of the handshake
to each id, such that exactly the place (queue, buffer, network, broker's table) of that
step has the id, once. The assignment is no state of the program, so the invariant says
that it exists, and each step of the proof gives the next one.

`SubsProofs` (`TypeOK`, `QueuedInOrder`, `AnswersOwnKind`, `NothingLeaks`,
`ImplementsPidUsers`). `await_ack` followed by `send_request` is one line. A call joins
it at its end, an acknowledgement takes one request out of it, and everything else,
`send` included, which moves a request from the front of one queue to the end of the
other, leaves the line as it is. `SubsInv` says of the line that it has exactly the
accepted requests without a result, in the order in which they were accepted, and that
their ids, the pool and the counter add up.

`ConnectionProofs` (`TypeOK`, `WireIntact`, `ReceivedInOrder`, `StateIsTrue`, `NoPanic`,
`TooSmallIsTrue`, and four theorems about `StackBuffer`). The theorems about the buffer
come first (`FlipKeepsUnread`, `WriteableUnlessFull`, `CommitAppends`,
`ReadTakesFromFront`): for every array and all positions an operation does to the unread
bytes what a FIFO queue does. The only part that is not a matter of copying is that the
rotation in `flip` does not wrap around within the unread bytes. `ConnectionInv` has:

* `Wire`: what was sent and what is in the send buffer are what was accepted;
* `Input`: what was handled, what is in the receive buffer and what is under way are
  what the broker sent, and what is not handled is whole packets (`Whole`). Without the
  last part nothing would keep a drop of a `MappedBufferRef` from tearing a packet;
* `Control`, `Held`: which values of `state` go with which place of the loop (from which
  no assertion fails), and that a borrow is the first whole packet of the buffer;
* `Reported`: how many acknowledgements were handled at which place of the loop, from
  which `Connected` and `Disconnected` are true; and `TooSmallIsTrue` itself.

Every step does one of a few things to the bytes of either direction (nothing, flip,
commit, read, reset, add, drop), each with its lemma. Keeping the histories as bytes
makes both properties equations between sequences, for which no induction is needed.

`PingProofs` (`TypeOK`, `PauseIsEnough`, `KeepAliveKept`, `PingsSpaced`, and
`SilenceBounded`). `SilenceBounded` is the stronger form of `KeepAliveKept`: on a
connection the silence is at most
`MaxAnswer + HalfKeepAlive + ERROR_CORRECTING_DURATION + 2 * longest`, whatever `longest`
is. It compares the clock with the last packet and says nothing of why the next one is in
time. `PingInv == TypeOK /\ Past /\ Turns /\ Sleeps /\ TimedOut` follows the lateness
through a turn: the timer counts from an instant at most `MaxAnswer` after the last packet,
the sleep ends at most one turn and the correction after the ping is due, and a turn that
waits again began before it was due or has just sent. `PingAssumption` says of the
durations only that the correction is positive and the retry not longer than half the
keep-alive. `PauseIsEnough` needs that the sleep ends strictly after the ping is due,
`PingsSpaced` that the timer never counts from before the last ping.

`CallsProofs` (`TypeOK`, `ReturnsForOwn`, `IdPoolSuffices`). A call returns when it reads
an event with its unique id. That this is its own event takes the whole of `CallsInv`:

* `Ids`: the calls that have an id (also those that were cancelled or got no subscriber,
  which never give it back) have different ones, none of them in the pool;
* `Shape`, `DoneAt`: a request is in one queue of its kind, waits for its answer or is
  being published, once; an acknowledgement that has arrived is for one that waits;
* `Owned`: a request belongs to a call that still has its id and is not completed;
* `Unread`: an event with the id of a call is unread only after the completion of that
  call was published, and a call without a subscriber has no events;
* `Subscribers`: the calls that wait are the subscribers, and the ids in the pool and
  the subscribers together are no more than the channel has subscribers. This is why
  a pool of that size never overflows.

Every step of the event loop is shown to be a `LoopStep`: it moves requests without
adding one, and publishes the completion of at most one request, which is then nowhere.

*Only model-checked:* the liveness properties `AcceptedIsSent`, `EveryCallReturns` and
`DisconnectHonoured`, since liveness under fairness is out of the prover's reach. Every
other property of a passing run is stated by a theorem. The four violations are
counterexamples of TLC.

## What is not modelled, and the plan

Written in this order: `Pid`/`PidUsers`, `Publishes`, `PublishFlow`, `Receives`,
`ReceiveFlow`, the proofs about the first two, `Subs`; then `StackBuffer` and
`Connection`, `Ping`, the mutex, the notification and the unique ids with `Calls`, and
the proofs about `Ping` and `StackBuffer`; then the proofs about `Receives`, `Subs`,
`Connection` and `Calls`; then those about order, DUP and `PublishFlow`. Left to do:

1. A flow of `Subs` with a broker that answers late: whether `subscribe()` can
   return before the broker has seen the request, as `publish()` can.
2. A second call of `run()`: after an error that ended the first, and after
   `disconnect()`.
3. The application's channel of one received message: who waits for whom when the
   application publishes before it reads. The models' application always reads.
4. Abstract specifications of at-least-once and exactly-once delivery, shown to be
   implemented by the flows where the findings above do not apply.

Left out for good: `fmt.rs` (logging), `packet.rs` (commented out), test utilities and
the clock for tests in `time.rs`, the hardware example, the integration tests, and
the codec of the external crate `mqttrs2` (a packet is its identity and its size, and
decodes or does not).
