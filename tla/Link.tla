-------------------------------- MODULE Link --------------------------------
(***************************************************************************)
(* What the packet queues see of TcpConnectionState in                     *)
(* src/state/connection/mod.rs: whether the state is Connected, and a send *)
(* buffer into which they write packets.  The buffer holds whole packets;  *)
(* how bytes are laid out in it is left out.                               *)
(***************************************************************************)
EXTENDS Naturals, Sequences

CONSTANT SendCap    \* bound: packets the send buffer can hold

ASSUME LinkAssumption == SendCap \in Nat \ {0}

VARIABLES
    send_buffer,    \* packets written and not yet taken by the network
    connected       \* ConnectionStateValue is Connected

connVars == <<send_buffer, connected>>

LinkInit ==
    /\ send_buffer = <<>>
    /\ connected = FALSE

\* Ok(true): the packet is in the buffer.  How many packets fit depends on
\* their sizes and on where the buffer's write position stands, so Ok(false)
\* is possible in every state; callers have a branch of their own for it.
try_write_packet(packet) ==
    /\ Len(send_buffer) < SendCap
    /\ send_buffer' = Append(send_buffer, packet)
    /\ UNCHANGED connected

\* send() and send_receive(): the socket takes the oldest packet.
write_to_network ==
    /\ connected
    /\ send_buffer # <<>>
    /\ send_buffer' = Tail(send_buffer)
    /\ UNCHANGED connected

\* run() answers an error with set_error() and leaves the buffers alone ...
set_error == connected' = FALSE /\ UNCHANGED send_buffer

\* ... until connect() resets them and starts over.
reconnect ==
    /\ ~connected
    /\ connected' = TRUE
    /\ send_buffer' = <<>>

=============================================================================
