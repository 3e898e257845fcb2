----------------------------- MODULE PublishFlow -----------------------------
(***************************************************************************)
(* The outgoing publishes of module Publishes over a TCP connection to a   *)
(* broker that follows MQTT 3.1.1.  Both directions are FIFO; a connection *)
(* may be lost at any moment with what is still on the way, and connect()  *)
(* starts a new one in the same session (clean_session is false, so the    *)
(* broker keeps its QoS 2 state).  The broker is external: it does what    *)
(* the tests' broker and the standard make it do.                          *)
(***************************************************************************)
EXTENDS Publishes

CONSTANTS
    MaxLosses,  \* bound: connections lost
    MaxResends  \* bound: resend timers that expire

ASSUME FlowAssumption ==
    /\ MaxLosses \in Nat
    /\ MaxResends \in Nat

VARIABLES
    to_broker,  \* packets on their way to the broker
    to_client,  \* acknowledgements on their way back
    received,   \* the broker's QoS 2 packet ids between PUBLISH and PUBREL
    delivered,  \* how often the broker passed m on to its subscribers
    losses,
    resends,
    crossed     \* history: a resend timer expired although the packet or its
                \* answer was still under way

netVars == <<to_broker, to_client>>
brokerVars == <<received, delivered>>
flowVars == <<pool, next_new_pid, send_publish, await_puback, await_pubrec, send_pubrel,
              await_pubcomp, pc, i, send_buffer, connected, panicked, pid_of,
              stage, done, accepted, recd, sent,
              to_broker, to_client, received, delivered, losses, resends, crossed>>

FlowInit ==
    /\ Init
    /\ to_broker = <<>>
    /\ to_client = <<>>
    /\ received = {}
    /\ delivered = [m \in Msgs |-> 0]
    /\ losses = 0
    /\ resends = 0
    /\ crossed = FALSE

-----------------------------------------------------------------------------
(* The client, connected to the network                                     *)

LocalStep ==
    /\ Client \/ Sending
    /\ UNCHANGED <<netVars, brokerVars, losses, resends, crossed>>

\* send() and send_receive() write the send buffer to the socket in order.
Send ==
    /\ Transmit
    /\ to_broker' = Append(to_broker, Head(send_buffer))
    /\ UNCHANGED <<to_client, brokerVars, losses, resends, crossed>>

\* process_packet() passes the acknowledgement to process_incoming_packet().
process_packet ==
    /\ to_client # <<>>
    /\ LET ack == Head(to_client) IN
          \/ ack.type = "puback" /\ process_puback(ack.pid)
          \/ ack.type = "pubrec" /\ process_pubrec(ack.pid)
          \/ ack.type = "pubcomp" /\ process_pubcomp(ack.pid)
    /\ to_client' = Tail(to_client)
    /\ UNCHANGED <<to_broker, brokerVars, losses, resends, crossed>>

\* A read or write on the socket fails.
Lose ==
    /\ losses < MaxLosses
    /\ connection_error
    /\ losses' = losses + 1
    /\ UNCHANGED <<netVars, brokerVars, resends, crossed>>

Connect ==
    /\ connect
    /\ to_broker' = <<>>
    /\ to_client' = <<>>
    /\ UNCHANGED <<brokerVars, losses, resends, crossed>>

Silent == connected /\ send_buffer = <<>> /\ to_broker = <<>> /\ to_client = <<>>

\* RESEND_DURATION is over for an entry.  With a prompt broker that happens only
\* when the packet or its answer was lost: then nothing is on the way.
Timeout ==
    /\ resends < MaxResends
    /\ resend_due
    /\ resends' = resends + 1
    /\ crossed' = (crossed \/ ~Silent)
    /\ UNCHANGED <<netVars, brokerVars, losses>>

-----------------------------------------------------------------------------
(* The broker                                                                *)

Reply(type, pid) == to_client' = Append(to_client, [type |-> type, pid |-> pid])

BrokerPublish(p) ==
    /\ p.type = "publish"
    /\ CASE Qos[p.uid] = 0 ->
              /\ delivered' = [delivered EXCEPT ![p.uid] = @ + 1]
              /\ UNCHANGED <<received, to_client>>
         [] Qos[p.uid] = 1 ->
              /\ delivered' = [delivered EXCEPT ![p.uid] = @ + 1]
              /\ Reply("puback", p.pid)
              /\ UNCHANGED received
         [] Qos[p.uid] = 2 ->
              /\ delivered' = IF p.pid \in received THEN delivered
                              ELSE [delivered EXCEPT ![p.uid] = @ + 1]
              /\ received' = received \cup {p.pid}
              /\ Reply("pubrec", p.pid)

BrokerPubrel(p) ==
    /\ p.type = "pubrel"
    /\ received' = received \ {p.pid}
    /\ Reply("pubcomp", p.pid)
    /\ UNCHANGED delivered

Broker ==
    /\ to_broker # <<>>
    /\ BrokerPublish(Head(to_broker)) \/ BrokerPubrel(Head(to_broker))
    /\ to_broker' = Tail(to_broker)
    /\ UNCHANGED <<vars, losses, resends, crossed>>

FlowNext ==
    LocalStep \/ Send \/ process_packet \/ Lose \/ Connect \/ Timeout \/ Broker

FlowSpec == FlowInit /\ [][FlowNext]_flowVars

-----------------------------------------------------------------------------
(* Properties                                                                *)

\* The publish() call returns only for a message the broker has: PublishDone
\* of QoS 1 and 2 implies that the broker passed the message on.  ("Waits
\* until there is a successful publish result", client.rs.)  A resend that
\* crossed its answer is the exception: the second PUBACK may find the id reused.
DoneMeansDelivered ==
    ~crossed => \A m \in Msgs : Qos[m] > 0 /\ done[m] > 0 => delivered[m] > 0

\* QoS 2 is exactly once: whatever is lost, resent and crossed, the broker
\* passes a QoS 2 message on at most once, although packet ids are reused.
ExactlyOnce == \A m \in Msgs : Qos[m] = 2 => delivered[m] <= 1

\* The client never closes the connection over an acknowledgement of a broker
\* that keeps to the protocol and is prompt (UnexpectedAck, QueueFull): only a
\* lost connection is given up.  The exception needs an earlier loss: PUBRELs
\* that wait for the resend of a lost one fill send_pubrel, process_pubrec has
\* no room, and the message it belongs to is dropped with the connection.
NoSelfInflictedStep ==
    connected /\ ~connected' /\ ~crossed =>
        \/ losses' # losses
        \/ /\ losses > 0
           /\ IsFull(send_pubrel)
           /\ \E m \in Msgs : stage[m] = "await_pubrec" /\ stage'[m] = "dropped"
NoSelfInflictedError == [][NoSelfInflictedStep]_flowVars

\* "Not an error because dup pubrec can occure" (publish2.rs, process_pubrec):
\* no PUBREC makes the event loop panic.
NoPanic == ~panicked

\* With a prompt broker no sequence of losses, resends and reconnects does.
NoPanicIfPrompt == ~crossed => ~panicked

=============================================================================
