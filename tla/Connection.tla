----------------------------- MODULE Connection -----------------------------
(***************************************************************************)
(* TcpConnectionState of src/state/connection/mod.rs, down to the bytes in *)
(* its two buffers, driven by run() and run_once() of src/state/mod.rs.    *)
(*                                                                         *)
(* The event loop is one task; a step goes from one await to the next, and *)
(* pc says at which await it is.  The queues of packets are reduced to     *)
(* pending, the packets they want to send (a ping that became due          *)
(* included); module Publishes and its siblings model them.  The socket    *)
(* takes and delivers any number of bytes at a time.  A byte is <<p, k>>,  *)
(* the k-th byte of packet p, so that a torn, lost or repeated byte shows. *)
(***************************************************************************)
EXTENDS StackBuffer, FiniteSets

CONSTANTS
    Requests,       \* the packets the queues send
    Incoming,       \* the packets the broker sends on its own
    Malformed,      \* those of them that cannot be decoded
    Size,           \* Size[p]: the length of packet p in bytes
    Chunks,         \* SUBSCRIBE packets needed for the auto-subscribes
    MaxConnections, \* bound: calls of connect()
    MaxSent         \* bound: packets the broker sends on one connection

Connacks == {"connack_accepted", "connack_refused", "connack_unauthorized"}
Subacks == {"suback_success", "suback_failure"}
ToBroker == Requests \cup {"connect", "subscribe", "disconnect"}
FromBroker == Incoming \cup Connacks \cup Subacks

ASSUME ConnectionAssumption ==
    /\ \A p \in ToBroker \cup FromBroker : Size[p] \in Nat \ {0}
    /\ Size["disconnect"] <= Size["connect"]
    /\ Malformed \subseteq Incoming
    /\ {Chunks, MaxConnections, MaxSent} \subseteq Nat

VARIABLES
    state,          \* ConnectionStateValue, or "None"
    send_buffer, recv_buffer,
    mapped,         \* length of the packet a MappedBufferRef holds; 0: none
    pc,             \* where the event loop is
    chunk,          \* auto-subscribe packets that were acknowledged
    pending,        \* packets to send, in order
    disconnecting,  \* notify_disconnect() was called
    outcome,        \* why run() returned, or "running"
    panicked,
    to_broker,      \* bytes the socket took on this connection
    to_client,      \* bytes on their way to the client
    closed,         \* the broker has closed the connection
    accepted,       \* history: bytes of the packets written to the buffer ...
    from_broker,    \* history: ... of the packets the broker sent ...
    handled,        \* history: ... of the packets processed on this connection
    requested,      \* history: requests made
    connections     \* history: calls of connect()

clientVars == <<state, send_buffer, recv_buffer, mapped, pc, chunk, pending, outcome,
                panicked, accepted, handled, connections>>
brokerVars == <<closed, from_broker>>
appVars == <<disconnecting, requested>>
vars == <<state, send_buffer, recv_buffer, mapped, pc, chunk, pending, disconnecting,
          outcome, panicked, to_broker, to_client, closed, accepted, from_broker,
          handled, requested, connections>>

Bytes(p) == [k \in 1 .. Size[p] |-> <<p, k>>]
Byte == UNION {{<<p, k>> : k \in 1 .. Size[p]} : p \in ToBroker \cup FromBroker}

\* The number of packets of P whose last byte is among these.
Packets(P, bytes) ==
    Cardinality({k \in 1 .. Len(bytes) : \E p \in P : bytes[k] = <<p, Size[p]>>})

TypeOK ==
    /\ state \in {"None", "ConnectSent", "Connected", "Disconnected", "Error"}
    /\ send_buffer \in Buffers(Byte)
    /\ recv_buffer \in Buffers(Byte)
    /\ mapped \in 0 .. recv_buffer.write - recv_buffer.read
    /\ pc \in {"turn", "send_connect", "await_connack", "connack", "subscribe",
               "send_subscribe", "await_suback", "suback", "nonblocking", "poll_read",
               "io", "process", "disconnect", "send_disconnect", "stopped"}
    /\ chunk \in 0 .. Chunks
    /\ pending \in Seq(Requests)
    /\ outcome \in {"running", "disconnected", "DnsFailed", "AuthenticationError",
                    "SubscribeOrUnsubscribeFailed", "BufferTooSmall", "ConnectionFailed2",
                    "TopicSizeError"}
    /\ to_broker \in Seq(Byte) /\ to_client \in Seq(Byte)

Init ==
    /\ state = "None"
    /\ send_buffer = EmptyBuffer /\ recv_buffer = EmptyBuffer
    /\ mapped = 0 /\ pc = "turn" /\ chunk = 0 /\ pending = <<>>
    /\ disconnecting = FALSE /\ outcome = "running" /\ panicked = FALSE
    /\ to_broker = <<>> /\ to_client = <<>> /\ closed = FALSE
    /\ accepted = <<>> /\ from_broker = <<>> /\ handled = <<>>
    /\ requested = {} /\ connections = 0

-----------------------------------------------------------------------------
(* The buffers and the socket                                                *)

\* assert!, and borrow() of a buffer cell that is still borrowed.
Asserted(holds) == panicked' = ~holds
NotBorrowed == mapped = 0

\* mutant: a partial write counts as a complete one
network_write_in_full ==
    \E n \in 1 .. send_buffer.write - send_buffer.read :
        /\ to_broker' = to_broker \o SubSeq(reaable_data(send_buffer), 1, n)
        /\ send_buffer' = add_bytes_read(send_buffer, send_buffer.write - send_buffer.read)

\* The socket takes some of the unsent bytes.
network_write ==
    \E n \in 1 .. send_buffer.write - send_buffer.read :
        /\ to_broker' = to_broker \o SubSeq(reaable_data(send_buffer), 1, n)
        /\ send_buffer' = add_bytes_read(send_buffer, n)

\* A read into the free part of a buffer: at least min bytes, unless the
\* socket is at its end or the free part is empty.
network_read(buffer, min, after) ==
    \E n \in 0 .. Len(to_client) :
        /\ n <= Room(buffer)
        /\ n >= min \/ Room(buffer) = 0 \/ (closed /\ to_client = <<>>)
        /\ to_client' = SubSeq(to_client, n + 1, Len(to_client))
        /\ after = commit_bytes_written(buffer, SubSeq(to_client, 1, n))

\* try_read_packet(), with decode_slice_with_len of the codec.
Decoded(buffer) ==
    LET bytes == reaable_data(buffer)
        packet == bytes[1][1]
    IN CASE bytes # <<>> /\ packet \in Malformed -> "CodecError"
         [] bytes # <<>> /\ packet \notin Malformed /\ Size[packet] <= Len(bytes) -> "packet"
         [] OTHER -> IF is_max_len(buffer) THEN "BufferTooSmall" ELSE "none"

FirstPacket == reaable_data(recv_buffer)[1][1]

\* Drop of the MappedBufferRef: the packet's bytes are read, the borrow ends.
drop_packet ==
    /\ recv_buffer' = add_bytes_read(recv_buffer, mapped)
    /\ mapped' = 0
    /\ handled' = handled \o Bytes(FirstPacket)

-----------------------------------------------------------------------------
(* run(): errors                                                             *)

\* mutant: an error leaves the state as it is
Recover_without_set_error == pc' = "turn" /\ UNCHANGED <<state, outcome>>

\* set_error(), sleep, next turn.
Recover == state' = "Error" /\ pc' = "turn" /\ UNCHANGED outcome

\* An error that run() returns.
Stop(error) == outcome' = error /\ pc' = "stopped" /\ UNCHANGED state

\* What becomes of the read that left buffer: the packet goes to next, without
\* one the loop is at idle.
AfterRead(buffer, next, idle) ==
    CASE Decoded(buffer) = "packet" ->
            /\ mapped' = Size[reaable_data(buffer)[1][1]]
            /\ pc' = next /\ UNCHANGED <<state, outcome>>
      [] Decoded(buffer) = "none" -> UNCHANGED mapped /\ pc' = idle /\ UNCHANGED <<state, outcome>>
      [] Decoded(buffer) = "CodecError" -> UNCHANGED mapped /\ Recover
      [] Decoded(buffer) = "BufferTooSmall" -> UNCHANGED mapped /\ Stop("BufferTooSmall")

\* The inherent try_write_packet() flips first; it refuses a packet that does not
\* fit, which is an error when the whole buffer was free.
Fits(p) == Size[p] <= Room(flip(send_buffer))
TooSmall(p) == ~Fits(p) /\ is_max_capacity(flip(send_buffer))

\* An operation on the socket fails; at "subscribe" it is the send() that makes
\* room for a refused packet.
network_error ==
    /\ pc \in {"send_connect", "await_connack", "subscribe", "send_subscribe", "await_suback",
               "nonblocking", "poll_read", "io", "disconnect", "send_disconnect"}
    /\ pc = "subscribe" => chunk < Chunks /\ ~Fits("subscribe") /\ ~TooSmall("subscribe")
    /\ IF pc \in {"disconnect", "send_disconnect"}
         THEN Stop("ConnectionFailed2") ELSE Recover
    /\ UNCHANGED <<send_buffer, recv_buffer, mapped, chunk, pending, panicked, to_broker,
                   to_client, accepted, handled, connections, brokerVars, appVars>>

-----------------------------------------------------------------------------
(* connect()                                                                 *)

\* The buffers are reset; the name is resolved and the socket connected, or one
\* of the two fails; CONNECT is put into the buffer, if it fits.
connect ==
    /\ pc = "turn" /\ state # "Connected" /\ connections < MaxConnections
    /\ connections' = connections + 1
    /\ Asserted(state \in {"None", "Error"})
    /\ recv_buffer' = reset(recv_buffer)
    /\ to_broker' = <<>> /\ to_client' = <<>> /\ closed' = FALSE
    /\ from_broker' = <<>> /\ handled' = <<>>
    /\ \/ Stop("DnsFailed") /\ send_buffer' = reset(send_buffer) /\ accepted' = <<>>
       \/ Recover /\ send_buffer' = reset(send_buffer) /\ accepted' = <<>>
       \/ IF Size["connect"] > BufferSize
            THEN Stop("BufferTooSmall") /\ send_buffer' = reset(send_buffer) /\ accepted' = <<>>
            ELSE /\ send_buffer' = commit_bytes_written(flip(reset(send_buffer)), Bytes("connect"))
                 /\ accepted' = Bytes("connect")
                 /\ pc' = "send_connect" /\ UNCHANGED <<state, outcome>>
    /\ UNCHANGED <<mapped, chunk, pending, appVars>>

\* send(): one write, whatever it takes of the CONNECT.
send_connect ==
    /\ pc = "send_connect"
    /\ network_write
    /\ state' = "ConnectSent" /\ pc' = "await_connack"
    /\ UNCHANGED <<recv_buffer, mapped, chunk, pending, outcome, panicked, to_client, accepted,
                   handled, connections, brokerVars, appVars>>

\* read_packet(): first what is in the buffer, then the network, in a loop.
read_packet(await, next) ==
    /\ pc = await
    /\ Asserted(NotBorrowed)
    /\ IF Decoded(recv_buffer) # "none"
         THEN AfterRead(recv_buffer, next, await) /\ UNCHANGED <<recv_buffer, to_client>>
         ELSE /\ network_read(writeable_data(recv_buffer), 1, recv_buffer')
              /\ UNCHANGED <<mapped, pc, state, outcome>>
    /\ UNCHANGED <<send_buffer, chunk, pending, to_broker, accepted, handled, connections,
                   brokerVars, appVars>>

process_connack ==
    /\ pc = "connack"
    /\ drop_packet
    /\ chunk' = 0
    /\ CASE FirstPacket = "connack_accepted" -> pc' = "subscribe" /\ UNCHANGED <<state, outcome>>
         [] FirstPacket = "connack_unauthorized" ->
               state' = "Error" /\ outcome' = "AuthenticationError" /\ pc' = "stopped"
         [] OTHER -> Recover
    /\ UNCHANGED <<send_buffer, pending, panicked, to_broker, to_client, accepted,
                   connections, brokerVars, appVars>>

\* subscribe_auto_subscribes(): the next chunk, or Connected.  A topic may be too
\* long for the packet; write_packet_async() sends and tries again while the
\* packet is refused.
subscribe_auto_subscribes ==
    /\ pc = "subscribe"
    /\ IF chunk = Chunks
         THEN /\ state' = "Connected" /\ pc' = "turn"
              /\ UNCHANGED <<send_buffer, accepted, to_broker, outcome>>
         ELSE \/ Stop("TopicSizeError") /\ UNCHANGED <<send_buffer, accepted, to_broker>>
              \/ /\ Fits("subscribe")
                 /\ send_buffer' = commit_bytes_written(flip(send_buffer), Bytes("subscribe"))
                 /\ accepted' = accepted \o Bytes("subscribe")
                 /\ pc' = "send_subscribe"
                 /\ UNCHANGED <<to_broker, state, outcome>>
              \/ /\ ~Fits("subscribe")
                 /\ IF TooSmall("subscribe")
                      THEN Stop("BufferTooSmall") /\ UNCHANGED <<send_buffer, to_broker>>
                      ELSE network_write /\ UNCHANGED <<pc, state, outcome>>
                 /\ UNCHANGED accepted
    /\ UNCHANGED <<recv_buffer, mapped, chunk, pending, panicked, to_client, handled,
                   connections, brokerVars, appVars>>

\* send_all(): until the buffer is empty, then on to next.
send_all(await, next) ==
    /\ pc = await
    /\ IF has_remaining_len(send_buffer)
         THEN network_write /\ UNCHANGED pc
         ELSE pc' = next /\ UNCHANGED <<send_buffer, to_broker>>
    /\ UNCHANGED <<state, recv_buffer, mapped, chunk, pending, outcome, panicked, to_client,
                   accepted, handled, connections, brokerVars, appVars>>

\* mutant: a failure code is logged and passed over
process_suback_lenient ==
    /\ pc = "suback" /\ FirstPacket \in Subacks
    /\ drop_packet
    /\ pc' = "subscribe" /\ chunk' = chunk + 1
    /\ UNCHANGED <<state, outcome, send_buffer, pending, panicked, to_broker, to_client,
                   accepted, connections, brokerVars, appVars>>

\* Any packet but a SUBACK is an error, so is a failure code in it.
process_suback ==
    /\ pc = "suback"
    /\ drop_packet
    /\ CASE FirstPacket = "suback_success" ->
               pc' = "subscribe" /\ chunk' = chunk + 1 /\ UNCHANGED <<state, outcome>>
         [] FirstPacket = "suback_failure" ->
               Stop("SubscribeOrUnsubscribeFailed") /\ UNCHANGED chunk
         [] OTHER -> Recover /\ UNCHANGED chunk
    /\ UNCHANGED <<send_buffer, pending, panicked, to_broker, to_client, accepted,
                   connections, brokerVars, appVars>>

Connecting ==
    \/ connect \/ send_connect \/ read_packet("await_connack", "connack") \/ process_connack
    \/ subscribe_auto_subscribes \/ send_all("send_subscribe", "await_suback")
    \/ read_packet("await_suback", "suback") \/ process_suback

-----------------------------------------------------------------------------
(* A turn of the event loop on an established connection                     *)

\* The trait's try_write_packet() does not flip; writeable_data() does, and only
\* when the write position is at the very end.
SendSpace == writeable_data(send_buffer)

\* A sender writes its next packet or, refused, ends the sending.
try_write_packet ==
    LET packet == Head(pending)
        fits == Size[packet] <= Room(SendSpace)
    IN
    /\ pc = "turn" /\ state = "Connected" /\ pending # <<>>
    /\ IF fits
         THEN /\ send_buffer' = commit_bytes_written(SendSpace, Bytes(packet))
              /\ accepted' = accepted \o Bytes(packet)
              /\ pending' = Tail(pending)
              /\ UNCHANGED pc
         ELSE send_buffer' = SendSpace /\ pc' = "nonblocking" /\ UNCHANGED <<accepted, pending>>
    /\ UNCHANGED <<state, recv_buffer, mapped, chunk, outcome, panicked, to_broker, to_client,
                   handled, connections, brokerVars, appVars>>

\* SentAll: wait in run_io() for a packet, a request or the ping timer.
sent_all ==
    /\ pc = "turn" /\ state = "Connected" /\ pending = <<>>
    /\ pc' = "io"
    /\ UNCHANGED <<state, send_buffer, recv_buffer, mapped, chunk, pending, outcome, panicked,
                   to_broker, to_client, accepted, handled, connections, brokerVars, appVars>>

\* mutant: only the socket's input is looked at
nonblocking_send_omitted ==
    /\ pc = "nonblocking" /\ pc' = "poll_read"
    /\ UNCHANGED <<state, send_buffer, recv_buffer, mapped, chunk, pending, outcome, panicked,
                   to_broker, to_client, accepted, handled, connections, brokerVars, appVars>>

\* run_io_nonblocking() after PartiallySent: send() ...
nonblocking_send ==
    /\ pc = "nonblocking"
    /\ IF has_remaining_len(send_buffer) THEN network_write
                                         ELSE UNCHANGED <<send_buffer, to_broker>>
    /\ pc' = "poll_read"
    /\ UNCHANGED <<state, recv_buffer, mapped, chunk, pending, outcome, panicked, to_client,
                   accepted, handled, connections, brokerVars, appVars>>

\* ... then network_try_read(), which may find nothing, and try_read_packet().
nonblocking_read ==
    /\ pc = "poll_read"
    /\ Asserted(NotBorrowed /\ state = "Connected")
    /\ network_read(writeable_data(recv_buffer), 0, recv_buffer')
    /\ AfterRead(recv_buffer', "process", "turn")
    /\ UNCHANGED <<send_buffer, chunk, pending, to_broker, accepted, handled, connections,
                   brokerVars, appVars>>

\* send_receive(): while there is something to send, write and poll the input;
\* bytes received end the loop.
io_write ==
    /\ pc = "io" /\ has_remaining_len(send_buffer)
    /\ Asserted(NotBorrowed /\ state = "Connected")
    /\ network_write
    /\ network_read(flip(recv_buffer), 0, recv_buffer')
    /\ IF to_client' = to_client THEN UNCHANGED <<mapped, pc, state, outcome>>
                                 ELSE AfterRead(recv_buffer', "process", "io")
    /\ UNCHANGED <<chunk, pending, accepted, handled, connections, brokerVars, appVars>>

\* With nothing to send: wait for input, and only then look for a packet.
io_read ==
    /\ pc = "io" /\ ~has_remaining_len(send_buffer)
    /\ Asserted(NotBorrowed /\ state = "Connected")
    /\ network_read(flip(recv_buffer), 1, recv_buffer')
    /\ AfterRead(recv_buffer', "process", "io")
    /\ UNCHANGED <<send_buffer, chunk, pending, to_broker, accepted, handled, connections,
                   brokerVars, appVars>>

\* select3 drops the other futures: a request or the timer starts a new turn,
\* a disconnect ends the loop.
io_interrupted ==
    /\ pc = "io"
    /\ \/ disconnecting /\ pc' = "disconnect"
       \/ pending # <<>> /\ pc' = "turn"
    /\ UNCHANGED <<state, send_buffer, recv_buffer, mapped, chunk, pending, outcome, panicked,
                   to_broker, to_client, accepted, handled, connections, brokerVars, appVars>>

\* process_packet(): the handlers are those of the other modules; an error of
\* theirs, one that run() recovers from or one that ends it (a topic that is too
\* long; a payload always fits an array as large as the buffer), is possible for
\* every packet.
process_packet ==
    /\ pc = "process"
    /\ drop_packet
    /\ Recover \/ Stop("TopicSizeError") \/ (pc' = "turn" /\ UNCHANGED <<state, outcome>>)
    /\ UNCHANGED <<send_buffer, chunk, pending, panicked, to_broker, to_client, accepted,
                   connections, brokerVars, appVars>>

Turn ==
    \/ try_write_packet \/ sent_all \/ nonblocking_send \/ nonblocking_read
    \/ io_write \/ io_read \/ io_interrupted \/ process_packet

-----------------------------------------------------------------------------
(* disconnect()                                                              *)

\* The buffer is emptied first, so DISCONNECT always fits; a refusal that is no
\* error panics.
write_disconnect ==
    /\ pc = "disconnect" /\ ~has_remaining_len(send_buffer)
    /\ Asserted(state = "Connected" /\ (Fits("disconnect") \/ TooSmall("disconnect")))
    /\ IF Fits("disconnect")
         THEN /\ send_buffer' = commit_bytes_written(flip(send_buffer), Bytes("disconnect"))
              /\ accepted' = accepted \o Bytes("disconnect")
              /\ pc' = "send_disconnect" /\ UNCHANGED <<state, outcome>>
         ELSE Stop("BufferTooSmall") /\ UNCHANGED <<send_buffer, accepted>>
    /\ UNCHANGED <<recv_buffer, mapped, chunk, pending, to_broker, to_client,
                   handled, connections, brokerVars, appVars>>

disconnected ==
    /\ pc = "send_disconnect" /\ ~has_remaining_len(send_buffer)
    /\ state' = "Disconnected" /\ pc' = "stopped" /\ outcome' = "disconnected"
    /\ UNCHANGED <<send_buffer, recv_buffer, mapped, chunk, pending, panicked, to_broker,
                   to_client, accepted, handled, connections, brokerVars, appVars>>

Disconnecting ==
    \/ has_remaining_len(send_buffer) /\ send_all("disconnect", "disconnect")
    \/ write_disconnect
    \/ has_remaining_len(send_buffer) /\ send_all("send_disconnect", "send_disconnect")
    \/ disconnected

Loop == ~panicked /\ (Connecting \/ Turn \/ Disconnecting)

-----------------------------------------------------------------------------
(* The application, the broker and the network                               *)

\* A queue gets something to send.
request(p) ==
    /\ p \notin requested
    /\ requested' = requested \cup {p}
    /\ pending' = Append(pending, p)
    /\ UNCHANGED <<state, send_buffer, recv_buffer, mapped, pc, chunk, disconnecting, outcome,
                   panicked, to_broker, to_client, accepted, handled, connections, brokerVars>>

notify_disconnect ==
    /\ ~disconnecting
    /\ disconnecting' = TRUE
    /\ UNCHANGED <<clientVars, to_broker, to_client, brokerVars, requested>>

\* The packets of one kind the broker has got in full, and those it has sent.
Got(p) == Packets({p}, to_broker)
Sent(P) == Packets(P, from_broker)

\* One CONNACK for the CONNECT, one SUBACK for every SUBSCRIBE, and in between
\* whatever packets of the session it has.
BrokerMaySend(p) ==
    \/ p \in Connacks /\ Got("connect") > Sent(Connacks)
    \/ p \in Subacks /\ Got("subscribe") > Sent(Subacks)
    \/ p \in Incoming /\ Sent({"connack_accepted"}) > 0

BrokerSend(p) ==
    /\ ~closed /\ BrokerMaySend(p)
    /\ Sent(FromBroker) < MaxSent
    /\ to_client' = to_client \o Bytes(p)
    /\ from_broker' = from_broker \o Bytes(p)
    /\ UNCHANGED <<clientVars, to_broker, closed, appVars>>

BrokerClose ==
    /\ ~closed /\ to_broker # <<>>
    /\ closed' = TRUE
    /\ UNCHANGED <<clientVars, to_broker, to_client, from_broker, appVars>>

Environment ==
    \/ \E p \in Requests : request(p)
    \/ notify_disconnect
    \/ \E p \in FromBroker : BrokerSend(p)
    \/ BrokerClose

Next == Loop \/ network_error \/ Environment

\* The loop is polled whenever it can go on, and a broker reads what it is
\* sent: the socket takes some byte sooner or later.
Spec == Init /\ [][Next]_vars /\ WF_vars(Loop)

-----------------------------------------------------------------------------
(* Properties                                                                *)

\* What the socket took on this connection, followed by the unsent bytes of the
\* buffer, is exactly the packets that were accepted, whole and in order,
\* through partial writes, flips, cancelled run_io() calls and reconnects.
WireIntact == to_broker \o reaable_data(send_buffer) = accepted

\* The packets handled on this connection, then the bytes in the buffer, then
\* those under way are exactly what the broker sent: no packet is torn, lost,
\* repeated or taken over from an earlier connection.
ReceivedInOrder == handled \o reaable_data(recv_buffer) \o to_client = from_broker

\* The state that is reported is true.  Connected (on_auto_subscribes_done()
\* returns): on this connection the broker accepted the CONNECT and granted every
\* auto-subscribe.  Disconnected: DISCONNECT is the last thing the broker was
\* sent, after every packet that had been accepted.
StateIsTrue ==
    /\ state = "Connected" =>
        /\ handled # <<>> /\ handled[1] = <<"connack_accepted", 1>>
        /\ Packets({"suback_success"}, handled) >= Chunks
    /\ state = "Disconnected" =>
        /\ to_broker = accepted /\ accepted # <<>>
        /\ accepted[Len(accepted)] = <<"disconnect", Size["disconnect"]>>

\* No assertion of connect(), run_io() or disconnect() fails and no buffer is
\* borrowed twice, for one call of run().
NoPanic == ~panicked

\* BufferTooSmall is said of a packet that does not fit the buffer (CONNECT, an
\* auto-subscribe or the one being received), not of one that only waits for
\* the buffer to be flipped.
TooSmallIsTrue ==
    outcome = "BufferTooSmall" =>
        \/ Size["connect"] > BufferSize \/ Size["subscribe"] > BufferSize
        \/ has_remaining_len(recv_buffer) /\ Size[FirstPacket] > BufferSize

\* Bytes that are in the send buffer of an established connection are written
\* sooner or later, whichever of the two input-output loops runs.
AcceptedIsSent ==
    state = "Connected" /\ has_remaining_len(send_buffer)
        ~> ~has_remaining_len(send_buffer) \/ state # "Connected" \/ pc = "stopped"

\* "This method may return without sending the packet returning Ok(false). This
\* indicates that the send sould be tried later" (try_write_packet): a packet
\* that fits the buffer is accepted when it is tried again and again.
TriedLaterIsAccepted ==
    \A p \in Requests :
        (Size[p] <= BufferSize /\ pending # <<>> /\ Head(pending) = p /\ state = "Connected")
            ~> (pending = <<>> \/ Head(pending) # p \/ state # "Connected" \/ pc = "stopped")

=============================================================================
