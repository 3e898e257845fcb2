----------------------------- MODULE PingProofs -----------------------------
(***************************************************************************)
(* How long a connection can be silent, and that pings are spaced, for all *)
(* durations that PingAssumption allows.                                   *)
(*                                                                         *)
(* The code does not bound a turn, so neither does the model, and the      *)
(* silence is bounded by what its turns took.  SilenceBounded is not       *)
(* inductive: it does not say why a turn begins early enough.  The silence *)
(* is the sum of four parts: the age of the last PINGRESP (MaxAnswer), the *)
(* limit counted from it, the wait's overshoot (the correction and the     *)
(* turn in which the pause was computed) and the turn that writes the      *)
(* ping.  PingInv bounds each where it arises.                             *)
(***************************************************************************)
EXTENDS Ping, TLAPS

\* The latest instant at which a ping that counts from ping.since becomes due.
DueBy == last_sent + MaxAnswer + HalfKeepAlive

\* No recorded instant lies in the future; the ping timer counts from the last
\* PINGREQ or from its response.
Past ==
    /\ last_sent <= busy_since /\ busy_since <= now /\ ping.since <= now
    /\ last_ping <= ping.since /\ last_ping <= last_sent
    /\ ping.since <= last_sent + MaxAnswer

\* No turn of the silence took longer than `longest`.  It began at most one wait
\* after the ping was due; one that got past send() began before it was due or
\* has just sent it.
Turns ==
    /\ InTurn => now <= busy_since + longest
    /\ pc \in {"send", "nonblocking"} =>
          busy_since <= DueBy + longest + ERROR_CORRECTING_DURATION
    /\ pc = "pause" => busy_since <= DueBy

\* The sleep ends after the ping is due, and not much later.
Sleeps ==
    pc = "wait" =>
        /\ now <= wake_at
        /\ wake_at > ping.since + Limit
        /\ wake_at <= DueBy + longest + ERROR_CORRECTING_DURATION

\* Only a turn on a connection was begun by the timer.
TimedOut ==
    /\ pc = "down" => ~timed_out
    /\ PauseIsEnough

PingInv == TypeOK /\ Past /\ Turns /\ Sleeps /\ TimedOut

-----------------------------------------------------------------------------
\* The timer's limit is at least the retry interval, at most half the keep-alive.
LEMMA LimitBounds ==
    Limit \in Nat /\ PING_RETRY_DURATION <= Limit /\ Limit <= HalfKeepAlive
BY PingAssumption DEF Limit

\* The constants are natural numbers.
LEMMA Durations ==
    /\ KEEP_ALIVE_DURATION \in Nat /\ PING_RETRY_DURATION \in Nat
    /\ MaxAnswer \in Nat /\ MaxTime \in Nat /\ HalfKeepAlive \in Nat
    /\ ERROR_CORRECTING_DURATION \in Nat /\ ERROR_CORRECTING_DURATION > 0
BY PingAssumption

\* A bound that allows for the longest turn grows with it.
LEMMA LongerTurn ==
    ASSUME NEW a \in Nat, NEW b \in Nat, NEW c \in Nat, NEW d \in Nat, b <= c
    PROVE  \A n \in Nat : n <= a + b + d => n <= a + c + d
OBVIOUS

\* The pause never underflows as long as ping.since is not in the future.
LEMMA PauseTyped ==
    ASSUME now \in Nat, ping.since \in Nat, ping.since <= now
    PROVE  ping_pause \in Nat
BY LimitBounds, Durations DEF ping_pause, Due

\* The clock starts with the ping timer.
LEMMA InitPingInv == Init => PingInv
<1> SUFFICES ASSUME Init PROVE PingInv
  OBVIOUS
<1>1. TypeOK
  <2>1. timed_out \in BOOLEAN
    BY Zenon DEF Init
  <2>2. ping \in [kind : {"PingSuccess", "AwaitingResponse"}, since : Nat]
    BY DEF Init
  <2> QED
    BY <2>1, <2>2, Durations DEF Init, TypeOK
<1>2. Past /\ Turns /\ Sleeps /\ TimedOut
  BY Durations DEF Init, Past, Turns, Sleeps, TimedOut, InTurn, DueBy, PauseIsEnough
<1> QED
  BY <1>1, <1>2 DEF PingInv

\* send(): what was due is written, what is not leaves the turn early.
LEMMA SendPingInv == PingInv /\ send => PingInv'
<1> SUFFICES ASSUME PingInv, send PROVE PingInv'
  OBVIOUS
<1> USE LimitBounds, Durations DEF PingInv
<1>1. CASE Due
  <2>1. ping' = [kind |-> "AwaitingResponse", since |-> now] /\ pc' = "pause"
        /\ last_ping' = now /\ last_sent' = now /\ busy_since' = now /\ longest' = 0
        /\ responses' = responses + 1 /\ UNCHANGED <<now, wake_at, timed_out>>
    BY <1>1 DEF send, AwaitResponse, Written
  <2>2. ping'.since = now /\ Limit' = PING_RETRY_DURATION
    BY <2>1 DEF Limit
  <2>3. ping_pause' \in Nat
    BY <2>1, <2>2 DEF TypeOK, ping_pause, Due
  <2>4. TypeOK'
    BY <2>1, <2>3 DEF TypeOK
  <2>5. Past'
    BY <2>1, <2>2 DEF Past, TypeOK
  <2>6. Turns' /\ Sleeps' /\ TimedOut'
    BY <2>1 DEF Turns, Past, TypeOK, DueBy, InTurn, Sleeps, TimedOut, PauseIsEnough, send
  <2> QED
    BY <2>4, <2>5, <2>6
<1>2. CASE ~Due
  <2>1. pc = "send" /\ pc' = "pause"
        /\ UNCHANGED <<now, ping, wake_at, timed_out, responses,
                       last_ping, last_sent, busy_since, longest>>
    BY <1>2 DEF send
  <2>2. ping_pause \in Nat /\ ping_pause' = ping_pause
    BY <2>1, PauseTyped DEF TypeOK, Past, ping_pause, Due, Limit
  <2>3. TypeOK'
    BY <2>1, <2>2 DEF TypeOK
  <2>4. now <= ping.since + Limit
    BY <1>2 DEF Due, TypeOK
  <2>5. Past' /\ Sleeps' /\ TimedOut'
    BY <2>1 DEF Past, Sleeps, TimedOut, PauseIsEnough
  <2>6. Turns'
    BY <2>1, <2>4 DEF Past, Turns, TypeOK, DueBy, InTurn
  <2> QED
    BY <2>3, <2>5, <2>6
<1> QED
  BY <1>1, <1>2

\* The pause is computed and the wait begins.
LEMMA PausePingInv == PingInv /\ pause => PingInv'
<1> SUFFICES ASSUME PingInv, pause PROVE PingInv'
  OBVIOUS
<1> USE LimitBounds, Durations DEF PingInv
<1>1. pc = "pause" /\ pc' = "wait" /\ wake_at' = now + ping_pause
      /\ UNCHANGED <<now, ping, timed_out, responses,
                     last_ping, last_sent, busy_since, longest>>
  BY DEF pause
<1>2. ping_pause \in Nat /\ now \in Nat /\ ping.since \in Nat
  BY <1>1 DEF TypeOK
<1>3. TypeOK'
  BY <1>1, <1>2 DEF TypeOK
<1>4. Past' /\ Turns' /\ TimedOut'
  BY <1>1 DEF Past, Turns, TimedOut, InTurn, PauseIsEnough
<1>5. Limit' = Limit
  BY <1>1 DEF Limit
<1>6. wake_at' > ping.since + Limit
  BY <1>1, <1>2 DEF ping_pause, Due
<1>7. wake_at' <= DueBy + longest + ERROR_CORRECTING_DURATION
  <2>1. now <= DueBy + longest
    BY <1>1 DEF Turns, InTurn, DueBy, TypeOK
  <2>2. ping.since + Limit <= DueBy
    BY <1>2 DEF Past, DueBy, TypeOK
  <2> QED
    BY <2>1, <2>2, <1>1, <1>2 DEF ping_pause, Due, DueBy, TypeOK
<1>8. Sleeps'
  BY <1>1, <1>2, <1>5, <1>6, <1>7 DEF Sleeps, DueBy
<1> QED
  BY <1>3, <1>4, <1>8

\* The wait ends: by the timer only when the ping is due.
LEMMA WakePingInv == PingInv /\ wake => PingInv'
<1> SUFFICES ASSUME PingInv, wake PROVE PingInv'
  OBVIOUS
<1> USE LimitBounds, Durations DEF PingInv
<1>0. timed_out' \in BOOLEAN
  BY Zenon DEF wake
<1>1. pc = "wait" /\ pc' = "send" /\ busy_since' = now
      /\ (timed_out' => now >= wake_at)
      /\ UNCHANGED <<now, ping, wake_at, responses, last_ping, last_sent, longest>>
  BY DEF wake
<1>2. TypeOK' /\ Past' /\ Sleeps'
  BY <1>0, <1>1 DEF TypeOK, Past, Sleeps
<1>3. Turns'
  BY <1>1 DEF Turns, Sleeps, InTurn, DueBy, TypeOK
<1>4. TimedOut'
  BY <1>1 DEF TimedOut, PauseIsEnough, Sleeps, Due, Limit, TypeOK
<1> QED
  BY <1>2, <1>3, <1>4

\* A PINGRESP moves the timer, by no more than its age.
LEMMA PingrespPingInv == PingInv /\ pingresp => PingInv'
<1> SUFFICES ASSUME PingInv, pingresp PROVE PingInv'
  OBVIOUS
<1> USE LimitBounds, Durations DEF PingInv
<1>1. responses > 0 /\ now <= last_ping + MaxAnswer /\ pc \in {"nonblocking", "wait"}
      /\ responses' = responses - 1 /\ ping' = [kind |-> "PingSuccess", since |-> now]
      /\ pc' = "send" /\ busy_since' = (IF pc = "wait" THEN now ELSE busy_since)
      /\ timed_out' = FALSE /\ UNCHANGED <<now, wake_at, last_ping, last_sent, longest>>
  BY DEF pingresp, on_ping_response
<1>2. TypeOK'
  <2>1. timed_out' \in BOOLEAN
    BY <1>1, Zenon
  <2> QED
    BY <1>1, <2>1 DEF TypeOK
<1>3. Past'
  BY <1>1 DEF Past, TypeOK
<1>4. Turns'
  BY <1>1 DEF Turns, Sleeps, InTurn, DueBy, TypeOK
<1>5. Sleeps' /\ TimedOut'
  BY <1>1 DEF Sleeps, TimedOut, PauseIsEnough
<1> QED
  BY <1>2, <1>3, <1>4, <1>5

\* A refused packet, and run_io_nonblocking().
LEMMA RefusedPingInv == PingInv /\ (send_refused \/ run_io_nonblocking) => PingInv'
<1> SUFFICES ASSUME PingInv, send_refused \/ run_io_nonblocking PROVE PingInv'
  OBVIOUS
<1>1. /\ pc \in {"send", "nonblocking"} /\ pc' \in {"send", "nonblocking"}
      /\ UNCHANGED <<now, ping, wake_at, timed_out, responses,
                       last_ping, last_sent, busy_since, longest>>
  BY DEF send_refused, run_io_nonblocking
<1>2. TypeOK' /\ Past' /\ Sleeps'
  BY <1>1, Durations DEF PingInv, TypeOK, Past, Sleeps
<1>3. Turns'
  BY <1>1, Durations DEF PingInv, Turns, InTurn, DueBy, HalfKeepAlive
<1>4. TimedOut'
  BY <1>1 DEF PingInv, TimedOut, PauseIsEnough, Due, Limit, HalfKeepAlive
<1> QED
  BY <1>2, <1>3, <1>4 DEF PingInv

\* A packet other than a ping ends the silence.
LEMMA OtherPacketPingInv == PingInv /\ other_packet => PingInv'
<1> SUFFICES ASSUME PingInv, other_packet PROVE PingInv'
  OBVIOUS
<1> USE LimitBounds, Durations DEF PingInv
<1>1. /\ pc = "send" /\ last_sent' = now /\ busy_since' = now /\ longest' = 0
      /\ UNCHANGED <<now, ping, pc, wake_at, timed_out, responses, last_ping>>
  BY DEF other_packet, Written
<1>2. TypeOK' /\ Past' /\ Sleeps'
  BY <1>1 DEF TypeOK, Past, Sleeps
<1>3. Turns'
  BY <1>1 DEF Turns, InTurn, DueBy, TypeOK, Past
<1>4. TimedOut'
  BY <1>1 DEF TimedOut, PauseIsEnough, Due, Limit
<1> QED
  BY <1>2, <1>3, <1>4

\* A connection is made or lost; the ping state stays.
LEMMA ConnectionPingInv == PingInv /\ (connect \/ connection_lost) => PingInv'
<1> SUFFICES ASSUME PingInv, connect \/ connection_lost PROVE PingInv'
  OBVIOUS
<1> USE LimitBounds, Durations DEF PingInv
<1>1. CASE connect
  <2>1. pc = "down" /\ pc' = "send"
        /\ last_sent' = now /\ busy_since' = now /\ longest' = 0
        /\ UNCHANGED <<now, ping, wake_at, timed_out, responses, last_ping>>
    BY <1>1 DEF connect, Written
  <2>2. TypeOK' /\ Past' /\ Sleeps'
    BY <2>1 DEF TypeOK, Past, Sleeps
  <2>3. Turns' /\ TimedOut'
    BY <2>1 DEF Turns, TimedOut, InTurn, DueBy, TypeOK, PauseIsEnough
  <2> QED
    BY <2>2, <2>3
<1>2. CASE connection_lost
  <2>1. pc' = "down" /\ responses' = 0 /\ timed_out' = FALSE
        /\ UNCHANGED <<now, ping, wake_at, last_ping, last_sent, busy_since, longest>>
    BY <1>2 DEF connection_lost
  <2>2. TypeOK' /\ Past'
    BY <2>1 DEF TypeOK, Past
  <2>3. Turns' /\ Sleeps' /\ TimedOut'
    BY <2>1 DEF Turns, Sleeps, TimedOut, InTurn, PauseIsEnough
  <2> QED
    BY <2>2, <2>3
<1> QED
  BY <1>1, <1>2

\* Time passes, within the turn and within the sleep.
LEMMA TickPingInv == PingInv /\ Tick => PingInv'
<1> SUFFICES ASSUME PingInv, Tick PROVE PingInv'
  OBVIOUS
<1> USE LimitBounds, Durations DEF PingInv
<1>1. now < MaxTime /\ (pc = "wait" => now < wake_at) /\ now' = now + 1
      /\ UNCHANGED <<ping, pc, wake_at, timed_out, responses, last_ping, last_sent, busy_since>>
  BY DEF Tick
<1>2. longest' \in Nat /\ longest <= longest'
  BY <1>1 DEF Tick, TypeOK
<1>3. InTurn => now' <= busy_since + longest'
  BY <1>1 DEF Tick, TypeOK
<1>4. Limit' = Limit /\ InTurn' = InTurn /\ DueBy' = DueBy
  BY <1>1 DEF Limit, InTurn, DueBy
<1>5. now \in Nat /\ ping.since \in Nat /\ ping.since <= now
  BY DEF TypeOK, Past
<1>6. ping_pause' \in Nat
  BY <1>1, <1>4, <1>5 DEF ping_pause, Due
<1>7. TypeOK'
  BY <1>1, <1>2, <1>6 DEF TypeOK
<1>8. Past'
  BY <1>1 DEF Past, TypeOK
<1>9. \A n \in Nat : n <= DueBy + longest + ERROR_CORRECTING_DURATION
                        => n <= DueBy + longest' + ERROR_CORRECTING_DURATION
  <2>1. DueBy \in Nat /\ longest \in Nat
    BY DEF DueBy, TypeOK
  <2> QED
    BY <1>2, <2>1, Durations, LongerTurn
<1>10. Turns'
  BY <1>1, <1>3, <1>4, <1>9 DEF Turns, TypeOK
<1>11. Sleeps'
  BY <1>1, <1>4, <1>9 DEF Sleeps, TypeOK
<1>12. TimedOut'
  BY <1>1, <1>4, <1>5 DEF TimedOut, PauseIsEnough, Due
<1> QED
  BY <1>7, <1>8, <1>10, <1>11, <1>12

\* PingInv is inductive.
LEMMA NextPingInv == PingInv /\ [Next]_vars => PingInv'
<1> SUFFICES ASSUME PingInv, [Next]_vars PROVE PingInv'
  OBVIOUS
<1>1. CASE UNCHANGED vars
  BY <1>1 DEF vars, PingInv, TypeOK, Past, Turns, Sleeps, TimedOut, PauseIsEnough,
              InTurn, DueBy, Due, Limit, ping_pause
<1> QED
  BY <1>1, SendPingInv, PausePingInv, WakePingInv, PingrespPingInv, RefusedPingInv,
     OtherPacketPingInv, ConnectionPingInv, TickPingInv DEF Next

\* PingInv holds in every reachable state.
THEOREM PingInvHolds == Spec => []PingInv
BY InitPingInv, NextPingInv, PTL DEF Spec

\* The ping state keeps its type and the pause of ping_pause() never underflows.
THEOREM PingTypeCorrect == Spec => []TypeOK
<1>1. PingInv => TypeOK
  BY DEF PingInv
<1> QED
  BY <1>1, PingInvHolds, PTL

\* The sleep of run_once() never ends before the ping is due.
THEOREM PauseIsEnoughHolds == Spec => []PauseIsEnough
<1>1. PingInv => PauseIsEnough
  BY DEF PingInv, TimedOut
<1> QED
  BY <1>1, PingInvHolds, PTL

\* A connection is silent for no longer than the age of a response, the limit, the
\* correction and twice the longest turn of the silence together.
SilenceBounded ==
    pc # "down" =>
        now - last_sent <= MaxAnswer + HalfKeepAlive + ERROR_CORRECTING_DURATION + 2 * longest

\* The silence on a connection is bounded by the durations of the ping timer and
\* by how long the turns of run_once() took, whatever they took.
THEOREM SilenceBoundedHolds == Spec => []SilenceBounded
<1>1. PingInv => SilenceBounded
  <2> SUFFICES ASSUME PingInv, pc # "down"
               PROVE  now - last_sent <=
                        MaxAnswer + HalfKeepAlive + ERROR_CORRECTING_DURATION + 2 * longest
    BY DEF SilenceBounded
  <2> USE Durations DEF PingInv
  <2>1. CASE pc = "wait"
    BY <2>1 DEF Sleeps, DueBy, TypeOK
  <2>2. CASE InTurn
    BY <2>2 DEF Turns, InTurn, DueBy, TypeOK
  <2> QED
    BY <2>1, <2>2 DEF TypeOK, InTurn
<1> QED
  BY <1>1, PingInvHolds, PTL

\* No connection is silent for longer than KEEP_ALIVE_DURATION while its turns are
\* shorter than half of what the ping timer leaves of the interval.
THEOREM KeepAliveHolds == Spec => []KeepAliveKept
<1>1. TypeOK /\ SilenceBounded => KeepAliveKept
  <2> SUFFICES ASSUME TypeOK, SilenceBounded, pc # "down", 2 * longest <= RoomForTurns
               PROVE  now - last_sent <= KEEP_ALIVE_DURATION
    BY DEF KeepAliveKept
  <2> QED
    BY Durations DEF SilenceBounded, RoomForTurns, TypeOK
<1> QED
  BY <1>1, PingTypeCorrect, SilenceBoundedHolds, PTL

\* Two PINGREQs are more than PING_RETRY_DURATION apart.
THEOREM PingsSpacedHolds == Spec => PingsSpaced
<1>1. PingInv /\ [Next]_vars =>
          [last_ping' # last_ping => last_ping' - last_ping > PING_RETRY_DURATION]_vars
  <2> SUFFICES ASSUME PingInv, Next, last_ping' # last_ping
               PROVE  last_ping' - last_ping > PING_RETRY_DURATION
    OBVIOUS
  <2>1. send /\ Due /\ last_ping' = now
    BY DEF Next, send, send_refused, run_io_nonblocking, pause, wake, pingresp,
           other_packet, connect, connection_lost, Tick
  <2>2. now - ping.since > Limit /\ last_ping <= ping.since
    BY <2>1 DEF Due, PingInv, Past
  <2> QED
    BY <2>1, <2>2, LimitBounds, Durations DEF PingInv, TypeOK
<1> QED
  BY <1>1, PingInvHolds, PTL DEF Spec, PingsSpaced

=============================================================================
