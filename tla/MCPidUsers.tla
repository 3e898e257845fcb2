---------------------------- MODULE MCPidUsers ----------------------------
(* Three requests over a pool that is too small for them. *)
EXTENDS PidUsers, TLC

CONSTANTS u1, u2, u3

MCUsers == {u1, u2, u3}
Symmetry == Permutations(MCUsers)
=============================================================================
