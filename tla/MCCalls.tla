------------------------------ MODULE MCCalls ------------------------------
(* Three calls that contend for one slot of each kind. *)
EXTENDS Calls, TLC

Mixed == "a" :> "qos0" @@ "b" :> "qos1" @@ "c" :> "sub"
Qos0s == "a" :> "qos0" @@ "b" :> "qos0" @@ "c" :> "qos0"
=============================================================================
