----------------------------- MODULE ReceiveFlow -----------------------------
(***************************************************************************)
(* The incoming side of module Receives with a broker that follows MQTT    *)
(* 3.1.1: it gives every message a packet id that none of its messages in  *)
(* flight uses, keeps them in order, and after a reconnect (clean_session  *)
(* is false) sends every unacknowledged PUBLISH and PUBREL again.  Both    *)
(* directions of the connection are FIFO and end with it.                  *)
(***************************************************************************)
EXTENDS Receives, FiniteSets

CONSTANT MaxConnections     \* bound: connections the client makes

ASSUME FlowAssumption == MaxConnections \in Nat

VARIABLES
    to_client, to_broker,   \* packets under way
    inflight,   \* the broker's messages in flight: message, packet id, and
                \* whether the PUBREC has come ("released")
    completed,  \* the messages the broker has removed as acknowledged
    connections \* how many connections were made

netVars == <<to_client, to_broker>>
brokerVars == <<inflight, completed>>
flowVars == <<send_puback, send_pubrec, await_pubrel, send_pubcomp, pc, i,
              send_buffer, connected, stopped, delivered,
              to_client, to_broker, inflight, completed, connections>>

InFlight == [uid : Msgs, pid : PidSet, released : BOOLEAN]
FromBroker == [type : {"publish"}, uid : Msgs, pid : PidSet]
                  \cup [type : {"pubrel"}, pid : PidSet]

FlowTypeOK ==
    /\ TypeOK
    /\ to_client \in Seq(FromBroker)
    /\ to_broker \in Seq(Packets)
    /\ inflight \in Seq(InFlight)
    /\ completed \in SUBSET Msgs
    /\ connections \in 0 .. MaxConnections

FlowInit ==
    /\ Init
    /\ to_client = <<>>
    /\ to_broker = <<>>
    /\ inflight = <<>>
    /\ completed = {}
    /\ connections = 0

-----------------------------------------------------------------------------
(* The client, connected to the network                                     *)

SendStep ==
    /\ Sending
    /\ UNCHANGED <<netVars, brokerVars, connections>>

\* The event loop does input and output between two calls of send_packets.
Send ==
    /\ Processing
    /\ write_to_network
    /\ to_broker' = Append(to_broker, Head(send_buffer))
    /\ UNCHANGED <<queueVars, loopVars, stopped, delivered, to_client, brokerVars, connections>>

process_packet ==
    /\ to_client # <<>>
    /\ LET p == Head(to_client) IN
          \/ p.type = "publish" /\ on_publish(p.uid, p.pid)
          \/ p.type = "pubrel" /\ on_pubrel(p.pid)
    /\ to_client' = Tail(to_client)
    /\ UNCHANGED <<to_broker, brokerVars, connections>>

\* A socket operation of the event loop fails.
Lose ==
    /\ Processing
    /\ set_error
    /\ UNCHANGED <<queueVars, loopVars, stopped, delivered, netVars, brokerVars, connections>>

Publish(e) == [type |-> "publish", uid |-> e.uid, pid |-> e.pid]
Pubrel(e) == [type |-> "pubrel", pid |-> e.pid]

\* The queues of Receives are kept; the broker repeats what is in flight.
Connect ==
    /\ ~stopped
    /\ connections < MaxConnections
    /\ connections' = connections + 1
    /\ reconnect
    /\ to_broker' = <<>>
    /\ to_client' = [k \in 1 .. Len(inflight) |->
                        IF inflight[k].released THEN Pubrel(inflight[k])
                                                ELSE Publish(inflight[k])]
    /\ UNCHANGED <<queueVars, loopVars, stopped, delivered, brokerVars>>

-----------------------------------------------------------------------------
(* The broker                                                                *)

UsedPids == {inflight[k].pid : k \in 1 .. Len(inflight)}
Known == completed \cup {inflight[k].uid : k \in 1 .. Len(inflight)}

BrokerSend(m) ==
    /\ connected
    /\ m \notin Known
    /\ \E pid \in PidSet \ UsedPids :
          LET e == [uid |-> m, pid |-> pid, released |-> FALSE] IN
          /\ to_client' = Append(to_client, Publish(e))
          /\ IF Qos[m] = 0
               THEN completed' = completed \cup {m} /\ UNCHANGED inflight
               ELSE inflight' = Append(inflight, e) /\ UNCHANGED completed
    /\ UNCHANGED <<vars, to_broker, connections>>

Complete(k) ==
    /\ inflight' = Remove(inflight, k)
    /\ completed' = completed \cup {inflight[k].uid}
    /\ UNCHANGED to_client

\* Which message in flight an acknowledgement fits.
Fits(ack, e) ==
    /\ e.pid = ack.pid
    /\ CASE ack.type = "puback" -> Qos[e.uid] = 1
         [] ack.type = "pubrec" -> Qos[e.uid] = 2
         [] ack.type = "pubcomp" -> Qos[e.uid] = 2 /\ e.released

\* An acknowledgement that fits no message in flight is ignored; a repeated
\* PUBREC is answered again.
BrokerReceive ==
    /\ to_broker # <<>>
    /\ LET ack == Head(to_broker) IN
          \/ \E k \in 1 .. Len(inflight) :
                /\ Fits(ack, inflight[k])
                /\ IF ack.type = "pubrec"
                     THEN /\ inflight' = [inflight EXCEPT ![k].released = TRUE]
                          /\ to_client' = Append(to_client, Pubrel(inflight[k]))
                          /\ UNCHANGED completed
                     ELSE Complete(k)
          \/ /\ \A k \in 1 .. Len(inflight) : ~Fits(ack, inflight[k])
             /\ UNCHANGED <<inflight, completed, to_client>>
    /\ to_broker' = Tail(to_broker)
    /\ UNCHANGED <<vars, connections>>

FlowNext ==
    \/ SendStep \/ Send \/ process_packet \/ Lose \/ Connect
    \/ \E m \in Msgs : BrokerSend(m)
    \/ BrokerReceive

FlowSpec == FlowInit /\ [][FlowNext]_flowVars

-----------------------------------------------------------------------------
(* Properties                                                                *)

\* The application gets a QoS 2 message at most once, whatever connections
\* are lost and however often the broker repeats its PUBLISH.
AtMostOnce == \A m \in Msgs : Qos[m] = 2 => delivered[m] <= 1

\* A message the broker considers acknowledged was given to the application:
\* an acknowledgement never covers a message that on_publish took for a
\* duplicate of another one.
AckedMeansDelivered ==
    \A m \in completed : Qos[m] > 0 => delivered[m] > 0

\* So it is as long as no connection was lost, with ids reused and queues full.
AckedMeansDeliveredAtFirst == connections <= 1 => AckedMeansDelivered

\* Over one connection, await_pubrel holds exactly ids of messages
\* whose handshake is open at the broker, each once: nothing is left behind
\* that would make a later message with the same id look like a duplicate.
NothingLeftBehind ==
    connections <= 1 =>
        /\ \A k \in 1 .. Len(await_pubrel) : await_pubrel[k] \in UsedPids
        /\ \A k, l \in 1 .. Len(await_pubrel) : await_pubrel[k] = await_pubrel[l] => k = l

=============================================================================
