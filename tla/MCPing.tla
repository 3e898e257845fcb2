------------------------------- MODULE MCPing -------------------------------
(* A keep-alive of 16 units: half of it, a late answer and two late turns just *)
(* fit.                                                                        *)
EXTENDS Ping
=============================================================================
