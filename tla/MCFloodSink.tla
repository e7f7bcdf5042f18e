---------------------------- MODULE MCFloodSink ----------------------------
(* Command lines for both ends.                                            *)
EXTENDS FloodSink

Flood == [run_flag |-> {}, count |-> 3, batch |-> 2, pktgen_hdr |-> TRUE]

Sink == [run_flag |-> {"recvmsg"}, count |-> 2, repeat |-> 1, batch |-> 2,
         dontwait |-> FALSE, sk_timeout |-> FALSE, waitforone |-> FALSE,
         timeout |-> FALSE, check |-> 1]

(* Floods without a sink: all tests, and some; batches that divide         *)
(* --count, that do not, that are larger, and none; an empty flood.        *)
Alone ==
    {[Flood EXCEPT !.count = c, !.batch = b, !.pktgen_hdr = h] :
         c \in {0, 3, 4, 7}, b \in {0, 2, 3, 5}, h \in BOOLEAN}
    \cup {[Flood EXCEPT !.run_flag = f, !.count = 5] :
              f \in {{"sendto", "write"}, {"send", "sendmsg"}, {"sendMmsg", "write"}}}

(* Floods with one: a remainder between single packets, zero headers       *)
(* before numbered ones, only consecutive numbers (around the wrap).       *)
Met ==
    {[Flood EXCEPT !.run_flag = {"sendmsg", "sendMmsg", "write"}],
     [Flood EXCEPT !.run_flag = {"send", "sendto"}],
     [Flood EXCEPT !.run_flag = {"sendto", "write"}, !.count = 5],
     [Flood EXCEPT !.run_flag = {"sendto"}, !.pktgen_hdr = FALSE]}

Sinks ==
    {Sink,
     [Sink EXCEPT !.run_flag = {"recvMmsg", "recvmsg"}, !.check = 2,
                  !.count = 1, !.repeat = 2],
     [Sink EXCEPT !.count = 4, !.repeat = 2, !.check = 3]}

AllSetups ==
    {[flood |-> f, sink |-> Sink, running |-> FALSE] : f \in Alone}
    \cup {[flood |-> f, sink |-> s, running |-> TRUE] : f \in Met, s \in Sinks}

AllFloods == Alone \cup Met
=============================================================================
