------------------------------ MODULE Request ------------------------------
(***************************************************************************)
(* The notification of src/state/request.rs, as operators on a record: one *)
(* slot, one waker, read by the event loop and set by the client calls.    *)
(***************************************************************************)

NoRequest == [notification |-> "None", waker |-> FALSE]

\* poll_notification(): a NewRequest is consumed, a Disconnect stays; None
\* registers the waker.
IsReady(r) == r.notification # "None"
Consume(r) == IF r.notification = "Disconnect" THEN r ELSE [r EXCEPT !.notification = "None"]
AwaitNotification(r) == [r EXCEPT !.waker = TRUE]

\* mutant: the last notification wins
notify_overwriting(r, notification) == [notification |-> notification, waker |-> FALSE]

\* notify(): a disconnect is never overwritten; the caller wakes the loop if
\* r.waker.
notify(r, notification) ==
    [notification |-> IF r.notification = "Disconnect" THEN "Disconnect" ELSE notification,
     waker |-> FALSE]

=============================================================================
