--------------------------- MODULE MCPublishFlow ---------------------------
(* One or three messages, a protocol-abiding broker, bounded losses and resends. *)
EXTENDS PublishFlow, TLC

CONSTANTS m1, m2, m3

One == {m1}
Three == {m1, m2, m3}

Qos2 == m1 :> 2
Qos122 == m1 :> 1 @@ m2 :> 2 @@ m3 :> 2
=============================================================================
