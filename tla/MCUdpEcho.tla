----------------------------- MODULE MCUdpEcho -----------------------------
(* Instances of UdpEcho: clients of one family, which can be given the     *)
(* same port; those of two families are never taken for each other.        *)
EXTENDS UdpEcho

OneFamily == {[c \in Clients |-> f] : f \in {"v4", "v6"}}
=============================================================================
