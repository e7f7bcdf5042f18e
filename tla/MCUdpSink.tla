----------------------------- MODULE MCUdpSink -----------------------------
(* Command lines for UdpSink.                                              *)
EXTENDS UdpSink

Options == [run_flag |-> {}, count |-> 2, repeat |-> 1, batch |-> 2,
            dontwait |-> FALSE, sk_timeout |-> FALSE, waitforone |-> FALSE,
            timeout |-> FALSE, check |-> 0]

(* Accounting: every test once, non-blocking or with a socket timeout;     *)
(* recvMmsg with short batches, at the end of the queue and anywhere.      *)
Accounting ==
    {[Options EXCEPT !.dontwait = TRUE],
     [Options EXCEPT !.sk_timeout = TRUE, !.run_flag = {"read", "recvMmsg"}],
     [Options EXCEPT !.run_flag = {"recvMmsg"}, !.waitforone = TRUE, !.count = 3],
     [Options EXCEPT !.run_flag = {"recvMmsg"}, !.timeout = TRUE, !.count = 3,
                     !.batch = 3]}

(* Checks: the two functions that check, repeated, at each level.          *)
Both == [Options EXCEPT !.run_flag = {"recvMmsg", "recvmsg"}, !.waitforone = TRUE]

Checks ==
    {[Both EXCEPT !.check = 1, !.count = 1], [Both EXCEPT !.check = 3],
     [Options EXCEPT !.run_flag = {"recvmsg"}, !.check = 2, !.repeat = 2,
                     !.count = 1]}

(* --waitforone --dontwait with recvMmsg.                                  *)
Polling == {[Options EXCEPT !.run_flag = {"recvMmsg"}, !.dontwait = TRUE]}

(* Level 3 with both checking functions.                                   *)
Strict == {[Options EXCEPT !.run_flag = {"recvMmsg", "recvmsg"}, !.check = 3]}
=============================================================================
