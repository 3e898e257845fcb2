---------------------------- MODULE MCConnection ----------------------------
(* Packets of one to three bytes in buffers of four, and one of five bytes. *)
EXTENDS Connection, TLC

Sizes == "connect" :> 2 @@ "subscribe" :> 2 @@ "disconnect" :> 1
    @@ "connack_accepted" :> 1 @@ "connack_refused" :> 1 @@ "connack_unauthorized" :> 1
    @@ "suback_success" :> 2 @@ "suback_failure" :> 2
    @@ "ping" :> 2 @@ "publish" :> 3 @@ "ack" :> 3 @@ "garbage" :> 1 @@ "large" :> 5
=============================================================================
