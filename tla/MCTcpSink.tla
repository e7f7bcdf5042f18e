----------------------------- MODULE MCTcpSink -----------------------------
(* Instances of TcpSink: one client that closes and forces its source      *)
(* port, one with --no-close.                                              *)
EXTENDS TcpSink

CONSTANTS c1, c2

Counts == [c \in Clients |-> IF c = c1 THEN 2 ELSE 1]
=============================================================================
