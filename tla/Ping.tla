-------------------------------- MODULE Ping --------------------------------
(***************************************************************************)
(* The keep-alive ping: PingStateInner and PingState of src/state/ping.rs  *)
(* with now() and sleep() of src/time.rs, in the turns of run_once() of    *)
(* src/state/mod.rs.  A turn tries to send a ping that is due, computes    *)
(* the pause and waits for it, for a request or for a packet.  The ping    *)
(* state outlives the connection; the PINGRESPs on the way do not.         *)
(*                                                                         *)
(* Time is a clock in units no longer than ERROR_CORRECTING_DURATION.  It  *)
(* passes at every await.  Two things are assumed of it: a sleep ends on   *)
(* time, and a ping is answered within MaxAnswer or not at all.  A turn    *)
(* may last for ever: nothing in the code bounds how often its packets are *)
(* refused, so `longest` records how long the turns were.                  *)
(***************************************************************************)
EXTENDS Integers

CONSTANTS
    KEEP_ALIVE_DURATION, PING_RETRY_DURATION, ERROR_CORRECTING_DURATION,
    MaxAnswer,          \* bound: the broker's answer to a ping
    MaxTime             \* bound: the end of the clock

HalfKeepAlive == KEEP_ALIVE_DURATION \div 2

ASSUME PingAssumption ==
    /\ {KEEP_ALIVE_DURATION, PING_RETRY_DURATION, MaxAnswer, MaxTime} \subseteq Nat
    /\ ERROR_CORRECTING_DURATION \in Nat \ {0}
    /\ HalfKeepAlive \in Nat
    /\ PING_RETRY_DURATION <= HalfKeepAlive

VARIABLES
    now,
    ping,           \* PingStateInner: kind, and the instant its timing counts from
                    \* (last_success is never read)
    pc,             \* "down": no connection; "send", "nonblocking", "pause": in a
                    \* turn; "wait": in select3
    wake_at,        \* the end of the sleep
    timed_out,      \* the sleep ended the last wait
    responses,      \* PINGRESPs the broker may still send
    last_ping,      \* history: when the last PINGREQ was written
    last_sent,      \* history: when the last packet was written on this connection
    busy_since,     \* history: when the loop woke up, or wrote a packet after that
    longest         \* history: since last_sent, the longest time the loop spent in a turn

vars == <<now, ping, pc, wake_at, timed_out, responses,
          last_ping, last_sent, busy_since, longest>>

Init ==
    /\ now = 0
    /\ ping = [kind |-> "PingSuccess", since |-> 0]
    /\ pc = "down" /\ wake_at = 0 /\ timed_out = FALSE
    /\ responses = 0
    /\ last_ping = 0 - PING_RETRY_DURATION - 1 /\ last_sent = 0
    /\ busy_since = 0 /\ longest = 0

-----------------------------------------------------------------------------
(* PingStateInner                                                           *)

\* mutant: the whole keep-alive interval
Limit_whole_interval ==
    IF ping.kind = "PingSuccess" THEN KEEP_ALIVE_DURATION ELSE PING_RETRY_DURATION

\* How long after ping.since the next ping is due.
Limit == IF ping.kind = "PingSuccess" THEN HalfKeepAlive ELSE PING_RETRY_DURATION

Due == now - ping.since > Limit

\* mutants: without the correction the sleep ends when the ping is not yet due;
\* a ping that is already due is not looked for
ping_pause_exact == IF Due THEN 0 ELSE Limit - (now - ping.since)

ping_pause_unchecked == Limit - (now - ping.since) + ERROR_CORRECTING_DURATION

\* The duration of the sleep; strictly longer than what is left, because Due
\* compares with >.
ping_pause == IF Due THEN 0 ELSE Limit - (now - ping.since) + ERROR_CORRECTING_DURATION

on_ping_response == ping' = [kind |-> "PingSuccess", since |-> now]

\* mutant: the instant of the first request is kept when it is repeated
AwaitResponse_from_first ==
    ping' = [kind |-> "AwaitingResponse",
             since |-> IF ping.kind = "PingSuccess" THEN now ELSE ping.since]

AwaitResponse == ping' = [kind |-> "AwaitingResponse", since |-> now]

\* A packet ends the silence, and what is recorded of it.
Written == last_sent' = now /\ busy_since' = now /\ longest' = 0

\* send(): a ping that is due is written or refused; nothing due is SentAll.
send ==
    /\ pc = "send"
    /\ \/ /\ Due
          /\ AwaitResponse
          /\ pc' = "pause"
          /\ responses' = responses + 1
          /\ last_ping' = now /\ Written
       \/ /\ ~Due
          /\ pc' = "pause"
          /\ UNCHANGED <<ping, responses, last_ping, last_sent, busy_since, longest>>
    /\ UNCHANGED <<now, wake_at, timed_out>>

InTurn == pc \in {"send", "nonblocking", "pause"}

TypeOK ==
    /\ now \in 0 .. MaxTime
    /\ ping \in [kind : {"PingSuccess", "AwaitingResponse"}, since : Nat]
    /\ pc \in {"down", "send", "nonblocking", "pause", "wait"}
    /\ wake_at \in Nat /\ timed_out \in BOOLEAN
    /\ pc = "pause" => ping_pause \in Nat     \* a Duration, which must not underflow
    /\ responses \in Nat
    /\ last_ping \in Int /\ last_sent \in Nat /\ busy_since \in Nat /\ longest \in Nat

-----------------------------------------------------------------------------
(* The turns of the event loop                                              *)

\* The ping, or an earlier packet of the turn, finds the send buffer full, or a
\* waiting request finds await_ack full: PartiallySent, and the loop comes back
\* after run_io_nonblocking(), as often as that happens.
send_refused ==
    /\ pc = "send"
    /\ pc' = "nonblocking"
    /\ UNCHANGED <<now, ping, wake_at, timed_out, responses,
                   last_ping, last_sent, busy_since, longest>>

run_io_nonblocking ==
    /\ pc = "nonblocking"
    /\ pc' = "send"
    /\ UNCHANGED <<now, ping, wake_at, timed_out, responses,
                   last_ping, last_sent, busy_since, longest>>

\* sleep(): the wait begins.
pause ==
    /\ pc = "pause"
    /\ wake_at' = now + ping_pause
    /\ pc' = "wait"
    /\ UNCHANGED <<now, ping, timed_out, responses,
                   last_ping, last_sent, busy_since, longest>>

\* select3: the timer, or a request or a packet that is no PINGRESP.
wake ==
    /\ pc = "wait"
    /\ \/ now >= wake_at /\ timed_out' = TRUE
       \/ timed_out' = FALSE
    /\ pc' = "send" /\ busy_since' = now
    /\ UNCHANGED <<now, ping, wake_at, responses, last_ping, last_sent, longest>>

\* A PINGRESP is processed; a late one answers an earlier request.
pingresp ==
    /\ responses > 0 /\ now <= last_ping + MaxAnswer
    /\ pc \in {"nonblocking", "wait"}
    /\ responses' = responses - 1
    /\ on_ping_response
    /\ pc' = "send"
    /\ busy_since' = IF pc = "wait" THEN now ELSE busy_since
    /\ timed_out' = FALSE
    /\ UNCHANGED <<now, wake_at, last_ping, last_sent, longest>>

-----------------------------------------------------------------------------
(* The connection and the clock                                             *)

\* Another packet is written in the turn.
other_packet ==
    /\ pc = "send"
    /\ Written
    /\ UNCHANGED <<now, ping, pc, wake_at, timed_out, responses, last_ping>>

connect ==
    /\ pc = "down"
    /\ pc' = "send" /\ Written
    /\ UNCHANGED <<now, ping, wake_at, timed_out, responses, last_ping>>

connection_lost ==
    /\ pc # "down"
    /\ pc' = "down" /\ responses' = 0 /\ timed_out' = FALSE
    /\ UNCHANGED <<now, ping, wake_at, last_ping, last_sent, busy_since, longest>>

Tick ==
    /\ now < MaxTime
    /\ pc = "wait" => now < wake_at
    /\ now' = now + 1
    /\ longest' = IF InTurn /\ now' - busy_since > longest THEN now' - busy_since ELSE longest
    /\ UNCHANGED <<ping, pc, wake_at, timed_out, responses, last_ping, last_sent, busy_since>>

Next ==
    \/ send \/ send_refused \/ run_io_nonblocking \/ pause \/ wake \/ pingresp
    \/ other_packet \/ connect \/ connection_lost \/ Tick

Spec == Init /\ [][Next]_vars

-----------------------------------------------------------------------------
(* Properties                                                               *)

\* When the sleep ended the wait, the ping is due: the loop does not wake up
\* for nothing, whatever passed between computing the pause and the wake-up.
PauseIsEnough == timed_out /\ pc \in {"send", "nonblocking"} => Due

\* What an interval leaves for the turns of a silence: the one in which the pause
\* was computed and the one that writes the ping.
RoomForTurns ==
    KEEP_ALIVE_DURATION - (MaxAnswer + HalfKeepAlive + ERROR_CORRECTING_DURATION)

\* The broker closes after one and a half keep-alive intervals of silence: on a
\* connection, no more than one interval passes without a packet, although
\* responses are late or lost and the ping state comes from an earlier connection.
\* The exception is a long turn.  The code does not bound a turn: a send buffer
\* that is stuck refuses every ping (try_write_packet), and a full await_ack with
\* a request behind it ends every turn before ping.send() (Subs::send).
KeepAliveKept ==
    pc # "down" /\ 2 * longest <= RoomForTurns => now - last_sent <= KEEP_ALIVE_DURATION

\* PINGREQs are more than PING_RETRY_DURATION apart, across late responses and
\* reconnects: an unanswered ping is repeated, not fired in every turn.
PingsSpaced ==
    [][last_ping' # last_ping => last_ping' - last_ping > PING_RETRY_DURATION]_vars

=============================================================================
