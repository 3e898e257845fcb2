---------------------------- MODULE MCPublishes ----------------------------
(* Four messages over short queues, any acknowledgement at any time. *)
EXTENDS Publishes, TLC

CONSTANTS m1, m2, m3, m4

Three == {m1, m2, m3}
Four == {m1, m2, m3, m4}
Qos2220 == m1 :> 2 @@ m2 :> 2 @@ m3 :> 2 @@ m4 :> 0

\* The messages of QoS 2 can be exchanged.
SymmetryThree == Permutations(Three)
=============================================================================
