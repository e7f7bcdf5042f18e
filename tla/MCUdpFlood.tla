---------------------------- MODULE MCUdpFlood ----------------------------
(* Command lines for UdpFlood.                                             *)
EXTENDS UdpFlood

Options == [run_flag |-> {}, count |-> 3, batch |-> 2, pktgen_hdr |-> TRUE]

(* Batches that divide --count.                                            *)
Batched == {[Options EXCEPT !.run_flag = {"sendMmsg"}, !.count = 4]}
=============================================================================
