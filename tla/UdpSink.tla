------------------------------ MODULE UdpSink ------------------------------
(***************************************************************************)
(* src/udp_sink.c: main() runs the selected receive tests one after the    *)
(* other on one UDP socket.  time_function() waits for a first packet,     *)
(* which is not part of any measurement, and then repeats a measured run:  *)
(* one of five receive loops, after which the number of packets is         *)
(* divided into the elapsed time.  The kernel's socket queue fills         *)
(* concurrently; the network loses, reorders and duplicates packets.       *)
(*                                                                         *)
(* A packet is what the checks can tell apart.  kind is                    *)
(*   "good"   a pktgen header repeated over the whole payload,             *)
(*   "torn"   the same, but a repetition differs,                          *)
(*   "zero"   an all-zero payload (udp_flood's send() test sends these),   *)
(*   "short"  shorter than one header,                                     *)
(*   "alien"  good, but from another sender or without the requested       *)
(*            ancillary data.                                              *)
(* The seconds and microseconds of the header are one number, ts.          *)
(***************************************************************************)
EXTENDS Integers, Sequences

CONSTANTS Params,      \* the command lines considered, a set of records
          SEQ_MOD,     \* 2^32: seq_num is a uint32_t
          WRAP_LIMIT,  \* the 3*1000*1000*1000u of __check_pkt
          FirstSeqs,   \* sequence numbers the sender may start with
          Kinds,       \* the kinds of packet on the wire
          MaxQueue,    \* bound: packets the socket buffer holds
          MaxPackets,  \* bound: packets the sender sends
          MaxTs,       \* bound: the sender's clock
          MaxGap,      \* bound: packets lost in a row
          MaxTry       \* bound: EAGAIN results per run

(* The command line: selected tests, --count, --repeat, --batch,           *)
(* --dontwait, --sk-timeout, --waitforone, --timeout, --check-pktgen.      *)
(* --batch 0, which gives recvMmsg arrays of length zero, is left out.     *)
ParamsType ==
    [run_flag : SUBSET {"recvMmsg", "recvmsg", "read", "recvfrom", "recv"},
     count : Nat, repeat : Nat, batch : Nat \ {0},
     dontwait : BOOLEAN, sk_timeout : BOOLEAN, waitforone : BOOLEAN,
     timeout : BOOLEAN, check : 0 .. 3]

ASSUME SinkAssumption ==
    /\ Params \subseteq ParamsType
    /\ SEQ_MOD \in Nat \ {0} /\ WRAP_LIMIT \in 0 .. SEQ_MOD
    /\ FirstSeqs \subseteq 0 .. SEQ_MOD - 1
    /\ Kinds \subseteq {"good", "torn", "zero", "short", "alien"}
    /\ MaxQueue \in Nat /\ MaxPackets \in Nat /\ MaxTs \in Nat
    /\ MaxGap \in Nat /\ MaxTry \in Nat

VARIABLES
    p,             \* struct sink_params, the options
    pc,
    t,             \* which of the tests of main() is next or running
    j,             \* time_function: the measured run
    i,             \* the loop counter (cnt in recvMmsg)
    try_again,     \* r->try_again
    vec,           \* packets received and not yet checked
    ooo, bad_magic, bad_repeat,
    last,          \* static struct pktgen_hdr last of __check_pkt
    report,        \* what the run that just ended printed
    queue,         \* the kernel's socket queue
    seq, ts, gap, sent,     \* the sender, and the packets it just lost
    clean,         \* history: the network only lost packets, all were good,
                   \* and the sender's clock was never set back
    got,           \* history: packets received in this run
    chk, runFirst  \* history: headers checked in this run, seq_num of the first

sinkVars == <<p, pc, t, j, i, try_again, vec, ooo, bad_magic, bad_repeat, last,
              report, got, chk, runFirst>>
wireVars == <<seq, ts, gap, sent, clean>>
vars == <<sinkVars, queue, wireVars>>

(* The order in which main() tests the bits of run_flag.                   *)
Tests == <<"recvMmsg", "recvmsg", "read", "recvfrom", "recv">>

(* init_params(), getopt: no test selected means all of them (RUN_ALL).    *)
Selected == IF p.run_flag = {} THEN {Tests[k] : k \in 1 .. 5} ELSE p.run_flag

Test == Tests[t]

(* exit_fail_count is the EXIT_FAIL_RECV of "failed to recv packets".      *)
Ended == pc \in {"exit_ok", "exit_fail_sock", "exit_fail_recv", "exit_fail_count",
                 "exit_fail_file", "sigfpe"}

NoReport == [test |-> "none", packets |-> 0, got |-> 0, try_again |-> 0]

Zero == [magic |-> 0, seq |-> 0, ts |-> 0]

Init ==
    /\ p \in Params
    /\ pc = "main" /\ t = 1 /\ j = 0 /\ i = 0 /\ try_again = 0 /\ vec = <<>>
    /\ ooo = 0 /\ bad_magic = 0 /\ bad_repeat = 0 /\ last = Zero
    /\ report = NoReport
    /\ queue = <<>>
    /\ seq \in FirstSeqs /\ ts = 0 /\ gap = 0 /\ sent = 0
    /\ clean = TRUE /\ got = 0 /\ chk = 0 /\ runFirst = 0

-----------------------------------------------------------------------------
(* The sender and the network.                                             *)

Header(kind) == IF kind = "zero" THEN Zero ELSE [magic |-> 1, seq |-> seq, ts |-> ts]

(* The sender sends one packet: it is lost, it arrives, or it overtakes    *)
(* the packet before it, or it arrives twice.                              *)
Send(kind) ==
    LET pkt == [kind |-> kind, hdr |-> Header(kind)]
        n == Len(queue)
    IN  /\ ~Ended /\ sent < MaxPackets
        /\ sent' = sent + 1 /\ seq' = (seq + 1) % SEQ_MOD /\ UNCHANGED ts
        /\ \/ /\ gap < MaxGap                          \* lost
              /\ gap' = gap + 1
              /\ UNCHANGED <<queue, clean>>
           \/ /\ n < MaxQueue                          \* in order
              /\ queue' = Append(queue, pkt) /\ gap' = 0
              /\ clean' = (clean /\ kind = "good")
           \/ /\ n \in 1 .. MaxQueue - 1               \* reordered
              /\ queue' = Append([queue EXCEPT ![n] = pkt], queue[n])
              /\ gap' = 0 /\ clean' = FALSE
           \/ /\ n + 1 < MaxQueue                      \* duplicated
              /\ queue' = queue \o <<pkt, pkt>>
              /\ gap' = 0 /\ clean' = FALSE
        /\ UNCHANGED sinkVars

(* The sender's clock, CLOCK_REALTIME_COARSE, moves on or is set, also     *)
(* back.                                                                   *)
SenderTick ==
    /\ ~Ended
    /\ ts' \in (0 .. MaxTs) \ {ts}
    /\ clean' = (clean /\ ts' > ts)
    /\ UNCHANGED <<sinkVars, queue, seq, gap, sent>>

-----------------------------------------------------------------------------
(* main() and time_function().                                             *)

(* main(): the next bit of run_flag; init_stats() before a test.           *)
MainNext ==
    /\ pc = "main"
    /\ IF t > 5
       THEN pc' = "exit_ok" /\ UNCHANGED <<t, ooo, bad_magic, bad_repeat, j>>
       ELSE IF Test \in Selected
            THEN /\ pc' = "first" /\ j' = 0 /\ UNCHANGED t
                 /\ ooo' = 0 /\ bad_magic' = 0 /\ bad_repeat' = 0
            ELSE /\ t' = t + 1
                 /\ UNCHANGED <<pc, j, ooo, bad_magic, bad_repeat>>
    /\ UNCHANGED <<p, i, try_again, vec, last, report, got, chk, runFirst, queue,
                   wireVars>>

(* time_function(): the blocking recvfrom() of the first packet, which is  *)
(* neither counted nor checked.  With --connect the socket is connected to *)
(* its sender, so that only packets from there reach the queue afterwards. *)
WaitFirst ==
    /\ pc = "first" /\ queue # <<>>
    /\ queue' = Tail(queue)
    /\ pc' = "run"
    /\ UNCHANGED <<p, t, j, i, try_again, vec, ooo, bad_magic, bad_repeat, last,
                   report, got, chk, runFirst, wireVars>>

(* It fails, with SO_RCVTIMEO or another error; or its packet was taken    *)
(* and inet_ntop() or Connect() fails, or sa_family is neither of the two. *)
WaitFirstFails ==
    /\ pc = "first"
    /\ \/ pc' = "exit_fail_sock" /\ UNCHANGED queue
       \/ /\ queue # <<>> /\ queue' = Tail(queue)
          /\ pc' \in {"exit_fail_sock", "exit_fail_recv"}
    /\ UNCHANGED <<p, t, j, i, try_again, vec, ooo, bad_magic, bad_repeat, last,
                   report, got, chk, runFirst, wireVars>>

(* The head of the repeat loop: time_bench_record_setting() clears the     *)
(* record, and the receive function starts.                                *)
StartRun ==
    /\ pc = "run"
    /\ IF j < p.repeat
       THEN /\ pc' = "recv" /\ i' = 0 /\ try_again' = 0
            /\ got' = 0 /\ chk' = 0 /\ UNCHANGED t
       ELSE /\ pc' = "main" /\ t' = t + 1
            /\ UNCHANGED <<i, try_again, got, chk>>
    /\ UNCHANGED <<p, j, vec, ooo, bad_magic, bad_repeat, last, report, runFirst,
                   queue, wireVars>>

(* read_ip_early_demux(), which time_bench_record_setting() calls, opens   *)
(* its file but cannot read or parse it; a file that is not there is 0.    *)
SettingFails ==
    /\ pc = "run" /\ j < p.repeat
    /\ pc' = "exit_fail_file"
    /\ UNCHANGED <<p, t, j, i, try_again, vec, ooo, bad_magic, bad_repeat, last,
                   report, got, chk, runFirst, queue, wireVars>>

-----------------------------------------------------------------------------
(* The receive loops.                                                      *)

(* A receive call returns EAGAIN when the queue is empty and the call does *)
(* not block (MSG_DONTWAIT, which read() does not know) or SO_RCVTIMEO     *)
(* expires.                                                                *)
MayEAGAIN == queue = <<>> /\ ((p.dontwait /\ Test # "read") \/ p.sk_timeout)

(* read(), recvfrom() and recv() only count.                               *)
RecvPlain ==
    /\ pc = "recv" /\ Test \in {"read", "recvfrom", "recv"} /\ i < p.count
    /\ queue # <<>>
    /\ queue' = Tail(queue)
    /\ i' = i + 1 /\ got' = got + 1
    /\ UNCHANGED <<p, pc, t, j, try_again, vec, ooo, bad_magic, bad_repeat, last,
                   report, chk, runFirst, wireVars>>

(* recvmsg() leaves one packet for the checks.                             *)
RecvMsg ==
    /\ pc = "recv" /\ Test = "recvmsg" /\ i < p.count
    /\ queue # <<>>
    /\ queue' = Tail(queue) /\ vec' = <<Head(queue)>>
    /\ pc' = "check"
    /\ UNCHANGED <<p, t, j, i, try_again, ooo, bad_magic, bad_repeat, last,
                   report, got, chk, runFirst, wireVars>>

(* recvmmsg(): a full batch; fewer packets only where the queue is drained *)
(* and the call need not wait for more (MSG_DONTWAIT, MSG_WAITFORONE) or   *)
(* SO_RCVTIMEO expires, or where its own timeout has passed, which it      *)
(* looks at after each packet.  Left out is a batch cut short by an error  *)
(* behind its first packet, also that of --use-bad-ptr: the next call      *)
(* returns the error, and RecvError ends the program without a report.     *)
RecvMmsg ==
    /\ pc = "recv" /\ Test = "recvMmsg" /\ i < p.count
    /\ queue # <<>>
    /\ \E n \in 1 .. p.batch :
          /\ n <= Len(queue)
          /\ n < p.batch => \/ p.timeout
                            \/ /\ n = Len(queue)
                               /\ p.dontwait \/ p.waitforone \/ p.sk_timeout
          /\ vec' = SubSeq(queue, 1, n)
          /\ queue' = SubSeq(queue, n + 1, Len(queue))
    /\ pc' = "check"
    /\ UNCHANGED <<p, t, j, i, try_again, ooo, bad_magic, bad_repeat, last,
                   report, got, chk, runFirst, wireVars>>

(* EAGAIN: the single-packet loops "continue" to the i++ of the for        *)
(* statement; the loop of recvMmsg has none.                               *)
MUT_EAGAIN_NotCounted ==
    /\ pc = "recv" /\ i < p.count /\ MayEAGAIN /\ try_again < MaxTry
    /\ try_again' = try_again + 1
    /\ UNCHANGED <<p, pc, t, j, i, vec, ooo, bad_magic, bad_repeat, last, report,
                   got, chk, runFirst, queue, wireVars>>

RecvEAGAIN ==
    /\ pc = "recv" /\ i < p.count /\ MayEAGAIN /\ try_again < MaxTry
    /\ try_again' = try_again + 1
    /\ i' = IF Test = "recvMmsg" THEN i ELSE i + 1
    /\ UNCHANGED <<p, pc, t, j, vec, ooo, bad_magic, bad_repeat, last, report,
                   got, chk, runFirst, queue, wireVars>>

(* Any other error ends the program.                                       *)
RecvError ==
    /\ pc = "recv" /\ i < p.count
    /\ pc' = "exit_fail_sock"
    /\ UNCHANGED <<p, t, j, i, try_again, vec, ooo, bad_magic, bad_repeat, last,
                   report, got, chk, runFirst, queue, wireVars>>

-----------------------------------------------------------------------------
(* check_pkt(), check_msg_name() and check_cmsg() of one packet.           *)

(* The first comparison of __check_pkt: older than the previous packet,    *)
(* unless the sequence number has just wrapped.                            *)
MUT_OlderNoWrap(h) ==
    last.magic # 0 /\ (h.ts < last.ts \/ (h.ts = last.ts /\ h.seq < last.seq))

Older(h) ==
    /\ last.magic # 0
    /\ \/ h.ts < last.ts
       \/ h.ts = last.ts /\ h.seq < last.seq /\ last.seq < WRAP_LIMIT

(* Level 3: not the successor of the previous packet (uint32_t addition).  *)
MUT_NotSuccessorNoWrap(h) == last.magic # 0 /\ h.seq # last.seq + 1

MUT_NotSuccessor(h) == last.magic # 0 /\ h.seq < (last.seq + 1) % SEQ_MOD

NotSuccessor(h) == last.magic # 0 /\ h.seq # (last.seq + 1) % SEQ_MOD

Bit(b) == IF b THEN 1 ELSE 0

(* __check_pkt() on the packet at the head of vec.  A packet shorter than  *)
(* a header is not looked at.  The walk over the repeated headers is       *)
(* HeaderWalk's subject.                                                   *)
CheckStats(pkt) ==
    LET h == pkt.hdr
        checked == p.check # 0 /\ pkt.kind # "short"
    IN  IF checked
        THEN /\ bad_magic' = bad_magic + Bit(h.magic # 1)
             /\ ooo' = ooo + Bit(Older(h)) + Bit(p.check > 2 /\ NotSuccessor(h))
             /\ bad_repeat' = bad_repeat + Bit(p.check >= 2 /\ pkt.kind = "torn")
             /\ last' = h
             /\ chk' = chk + 1 /\ runFirst' = (IF chk = 0 THEN h.seq ELSE runFirst)
        ELSE UNCHANGED <<bad_magic, ooo, bad_repeat, last, chk, runFirst>>

(* One round of the checks.  At level 3 any failure ends the program, and  *)
(* so does a packet of the wrong sender.                                   *)
CheckPkt ==
    /\ pc = "check" /\ vec # <<>>
    /\ LET pkt == Head(vec)
       IN  /\ CheckStats(pkt)
           /\ pc' = CASE p.check > 2 /\ ooo' + bad_repeat' + bad_magic' > 0 -> "exit_fail_recv"
                      [] pkt.kind = "alien" -> "exit_fail_sock"
                      [] OTHER -> "check"
    /\ vec' = Tail(vec)
    /\ i' = i + 1 /\ got' = got + 1
    /\ UNCHANGED <<p, t, j, try_again, report, queue, wireVars>>

(* All packets of the call are checked: back to the loop condition.        *)
CheckDone ==
    /\ pc = "check" /\ vec = <<>>
    /\ pc' = "recv"
    /\ UNCHANGED <<p, t, j, i, try_again, vec, ooo, bad_magic, bad_repeat, last,
                   report, got, chk, runFirst, queue, wireVars>>

-----------------------------------------------------------------------------
(* The end of a run: the value the receive function returns, the division  *)
(* by it in time_bench_calc_stats(), the printed result, init_stats().     *)

MUT_CntRecv == i

CntRecv == i - try_again

MUT_NoResetStop ==
    /\ pc = "recv" /\ i >= p.count
    /\ IF CntRecv < 0
       THEN pc' = "exit_fail_count" /\ UNCHANGED <<j, ooo, bad_magic, bad_repeat, report>>
       ELSE IF CntRecv = 0
       THEN pc' = "sigfpe" /\ UNCHANGED <<j, ooo, bad_magic, bad_repeat, report>>
       ELSE /\ pc' = "run" /\ j' = j + 1
            /\ report' = [test |-> Test, packets |-> CntRecv, got |-> got,
                          try_again |-> try_again]
            /\ UNCHANGED <<ooo, bad_magic, bad_repeat>>
    /\ UNCHANGED <<p, t, i, try_again, vec, last, got, chk, runFirst, queue, wireVars>>

StopRun ==
    /\ pc = "recv" /\ i >= p.count
    /\ IF CntRecv < 0
       THEN pc' = "exit_fail_count" /\ UNCHANGED <<j, ooo, bad_magic, bad_repeat, report>>
       ELSE IF CntRecv = 0
       THEN pc' = "sigfpe" /\ UNCHANGED <<j, ooo, bad_magic, bad_repeat, report>>
       ELSE /\ pc' = "run" /\ j' = j + 1
            /\ report' = [test |-> Test, packets |-> CntRecv, got |-> got,
                          try_again |-> try_again]
            /\ ooo' = 0 /\ bad_magic' = 0 /\ bad_repeat' = 0
    /\ UNCHANGED <<p, t, i, try_again, vec, last, got, chk, runFirst, queue, wireVars>>

Sink ==
    \/ MainNext \/ WaitFirst \/ StartRun
    \/ RecvPlain \/ RecvMsg \/ RecvMmsg \/ RecvEAGAIN
    \/ CheckPkt \/ CheckDone \/ StopRun

Failure == WaitFirstFails \/ SettingFails \/ RecvError

Terminated == Ended /\ UNCHANGED vars

Next ==
    \/ Sink \/ Failure
    \/ \E kind \in Kinds : Send(kind)
    \/ SenderTick
    \/ Terminated

Spec == Init /\ [][Next]_vars

(* The sink runs whenever a call can return; nothing is assumed of the     *)
(* sender, the network or errors.                                          *)
FairSpec == Spec /\ WF_vars(Sink)

-----------------------------------------------------------------------------
(* Properties.                                                             *)

HeaderType == [magic : {0, 1}, seq : 0 .. SEQ_MOD - 1, ts : 0 .. MaxTs]
PacketType == [kind : {"good", "torn", "zero", "short", "alien"}, hdr : HeaderType]

TypeOK ==
    /\ p \in Params
    /\ pc \in {"main", "first", "run", "recv", "check", "exit_ok", "exit_fail_sock",
               "exit_fail_recv", "exit_fail_count", "exit_fail_file", "sigfpe"}
    /\ t \in 1 .. 6 /\ j \in Nat /\ i \in Nat /\ try_again \in 0 .. MaxTry
    /\ vec \in Seq(PacketType) /\ queue \in Seq(PacketType)
    /\ Len(queue) <= MaxQueue
    /\ ooo \in Nat /\ bad_magic \in Nat /\ bad_repeat \in Nat
    /\ last \in HeaderType
    /\ report.packets \in Nat
    /\ seq \in 0 .. SEQ_MOD - 1 /\ ts \in 0 .. MaxTs /\ gap \in 0 .. MaxGap
    /\ sent \in 0 .. MaxPackets /\ clean \in BOOLEAN
    /\ got \in Nat /\ chk \in 0 .. got /\ runFirst \in 0 .. SEQ_MOD - 1

(* The EAGAIN results that are subtracted although they were never added:  *)
(* all of recvMmsg's, none of the single-packet loops'.                    *)
Surplus(test, eagain) == IF test = "recvMmsg" THEN eagain ELSE 0

(* The number of packets a run divides its time by is the number of        *)
(* packets it received in the four single-packet loops, whose EAGAIN       *)
(* results are taken out again, and too small by exactly the EAGAIN        *)
(* results in recvMmsg.                                                    *)
ReportedIsReceived ==
    report.packets = report.got - Surplus(report.test, report.try_again)

(* A run of a single-packet loop makes exactly --count calls, and one of   *)
(* recvMmsg may pass --count by less than a batch, since the last call     *)
(* still asks for a full one.                                              *)
CallsBounded ==
    /\ pc = "recv" /\ Test # "recvMmsg" => i = got + try_again /\ i <= p.count
    /\ pc \in {"recv", "check"} =>
          got + Len(vec) <= p.count + (IF Test = "recvMmsg" THEN p.batch - 1 ELSE 0)

(* What was received is reported.  The division by the packet count in     *)
(* time_bench_calc_stats() traps in a single-packet run only when nothing  *)
(* was received, and in recvMmsg only when there were as many EAGAIN       *)
(* results as packets; "failed to recv packets" is never said of a         *)
(* single-packet run, and of recvMmsg only when there were more.           *)
ReceivedIsReported ==
    /\ pc = "sigfpe" => got = Surplus(Test, try_again)
    /\ pc = "exit_fail_count" => got < Surplus(Test, try_again)

(* Both directions: how far what time_function() prints is from what was   *)
(* received, and when a run that received something prints nothing.        *)
AccountingExact == ReportedIsReceived /\ ReceivedIsReported

(* Levels 1 and 2 raise no false alarm: while the network only loses       *)
(* packets and the sender's clock is not set back, the out-of-order count  *)
(* stays 0, across tests, repeats, ticks of that clock and the wrap of the *)
(* 32-bit sequence number.  WRAP_LIMIT must leave room for what can lie    *)
(* between two packets that are checked: where recvmsg follows recvMmsg,   *)
(* the unchecked packet that starts the test, and the packets lost in a    *)
(* row on either side of it.                                               *)
NoFalseOoO ==
    clean /\ p.check < 3 /\ 2 * (MaxGap + 1) <= SEQ_MOD - WRAP_LIMIT => ooo = 0

(* Level 3 lets no gap, duplicate or reordering inside a run pass: the     *)
(* headers checked so far are consecutive numbers, or the program has      *)
(* ended.                                                                  *)
Level3Consecutive ==
    p.check > 2 /\ pc \in {"recv", "check"} /\ chk > 0 =>
        last.seq = (runFirst + chk - 1) % SEQ_MOD

(* The check results printed after a run are about that run's packets:     *)
(* nothing is left over from an earlier repeat or test.                    *)
ChecksOfThisRun ==
    pc \in {"recv", "check"} => bad_magic <= chk /\ bad_repeat <= chk /\ ooo <= 2 * chk

(* With --dontwait a run of a single-packet loop ends although nothing     *)
(* arrives, because EAGAIN uses up an iteration.                           *)
DontwaitRunEnds ==
    (pc = "recv" /\ p.dontwait /\ Test \in {"recvmsg", "recvfrom", "recv"})
        ~> (pc \notin {"recv", "check"})

(* Documented: the tool "measures the incoming packet rate", i.e. every    *)
(* run divides its time by the packets it received.  recvMmsg subtracts    *)
(* EAGAIN results that its loop never added.                               *)
MeasuresReceived == report.packets = report.got

(* "Failed pktgen checks OoO": on a network that neither loses nor         *)
(* reorders anything no packet is out of order.                            *)
OoOMeansDisorder == clean /\ MaxGap = 0 => ooo = 0
=============================================================================
