--------------------------- MODULE MCReceiveFlow ---------------------------
(* Two or four messages of a broker that has one or two packet ids to give. *)
EXTENDS ReceiveFlow, TLC

CONSTANTS m1, m2, m3, m4

Two == {m1, m2}
Four == {m1, m2, m3, m4}

Qos22 == m1 :> 2 @@ m2 :> 2
Qos0122 == m1 :> 0 @@ m2 :> 1 @@ m3 :> 2 @@ m4 :> 2
=============================================================================
