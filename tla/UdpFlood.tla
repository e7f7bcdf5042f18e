----------------------------- MODULE UdpFlood -----------------------------
(***************************************************************************)
(* src/udp_flood.c: main() runs the selected send tests one after the      *)
(* other on one connected UDP socket; time_function() divides the time of  *)
(* a test by the packet count its loop returned.  The socket is connected  *)
(* so that ICMP errors are seen: any send call may fail, and a sendmmsg()  *)
(* that has sent something before the error returns how much.              *)
(*                                                                         *)
(* Bytes are counted in units of --msg-sz.                                 *)
(***************************************************************************)
EXTENDS Integers, Sequences

CONSTANTS Params,    \* the command lines considered, a set of records
          SEQ_MOD    \* 2^32: the static sequence of fill_buf() is a uint32_t

ParamsType ==
    [run_flag : SUBSET {"send", "sendto", "sendmsg", "sendMmsg", "write"},
     count : Nat, batch : Nat, pktgen_hdr : BOOLEAN]

(* A batch, an int, is smaller than the range of the uint32_t.             *)
ASSUME FloodAssumption ==
    /\ Params \subseteq ParamsType
    /\ SEQ_MOD \in Nat \ {0, 1}
    /\ \A q \in Params : q.batch < SEQ_MOD

VARIABLES
    p,          \* struct flood_params
    pc,
    t,          \* which of the tests of main()
    cnt,        \* the loop counter: packets, in sendMmsg batches
    sequence,   \* static, in fill_buf()
    bytes,      \* total
    report,     \* what the test that just ended printed
    onwire,     \* history: packets of this test the kernel has taken
    refused,    \* history: it has refused some
    wire        \* history: the sequence numbers of all headers sent

vars == <<p, pc, t, cnt, sequence, bytes, report, onwire, refused, wire>>

(* The order in which main() tests the bits of run_flag.                   *)
MUT_Tests == <<"sendto", "sendmsg", "sendMmsg", "write", "send">>

Tests == <<"send", "sendto", "sendmsg", "sendMmsg", "write">>
Single == {"send", "sendto", "sendmsg", "write"}

Test == Tests[t]

Selected == IF p.run_flag = {} THEN {Tests[k] : k \in 1 .. 5} ELSE p.run_flag

Ended == pc \in {"exit_ok", "exit_fail_send", "sigfpe"}

NoReport == [test |-> "none", packets |-> 0, bytes |-> 0, onwire |-> 0, refused |-> FALSE]

Init ==
    /\ p \in Params
    /\ pc = "main" /\ t = 1 /\ cnt = 0 /\ sequence = 0 /\ bytes = 0
    /\ report = NoReport
    /\ onwire = 0 /\ refused = FALSE /\ wire = <<>>

(* main(): the next bit of run_flag; the record is zeroed.                 *)
MainNext ==
    /\ pc = "main"
    /\ IF t > 5 THEN pc' = "exit_ok" /\ UNCHANGED <<t, cnt, bytes, onwire, refused>>
       ELSE IF Test \in Selected
       THEN /\ pc' = "loop" /\ cnt' = 0 /\ bytes' = 0 /\ onwire' = 0 /\ refused' = FALSE
            /\ UNCHANGED t
       ELSE t' = t + 1 /\ UNCHANGED <<pc, cnt, bytes, onwire, refused>>
    /\ UNCHANGED <<p, sequence, report, wire>>

(* fill_buf() of n packets, of which the kernel takes res.                 *)
MUT_FillOncePerBatch(n, res) ==
    IF p.pktgen_hdr
    THEN /\ sequence' = (sequence + 1) % SEQ_MOD
         /\ wire' = wire \o [k \in 1 .. res |-> (sequence + k - 1) % SEQ_MOD]
    ELSE UNCHANGED <<sequence, wire>>

FillAndSend(n, res) ==
    IF p.pktgen_hdr
    THEN /\ sequence' = (sequence + n) % SEQ_MOD
         /\ wire' = wire \o [k \in 1 .. res |-> (sequence + k - 1) % SEQ_MOD]
    ELSE UNCHANGED <<sequence, wire>>

-----------------------------------------------------------------------------
(* sendto(), send(), sendmsg() and write().                                *)

(* flood_with_send() does not call fill_buf().                             *)
SendOne ==
    /\ pc = "loop" /\ Test \in Single /\ cnt < p.count
    /\ IF Test = "send" THEN UNCHANGED <<sequence, wire>> ELSE FillAndSend(1, 1)
    /\ cnt' = cnt + 1 /\ bytes' = bytes + 1 /\ onwire' = onwire + 1
    /\ UNCHANGED <<p, pc, t, report, refused>>

(* A negative result is returned as it is and ends the program.            *)
SendOneFails ==
    /\ pc = "loop" /\ Test \in Single /\ cnt < p.count
    /\ IF Test = "send" THEN UNCHANGED <<sequence, wire>> ELSE FillAndSend(1, 0)
    /\ refused' = TRUE
    /\ pc' = "exit_fail_send"
    /\ UNCHANGED <<p, t, cnt, bytes, report, onwire>>

-----------------------------------------------------------------------------
(* sendmmsg().                                                             *)

Batches == p.count \div p.batch
MUT_LastBatch == 0
LastBatch == p.count - Batches * p.batch

MUT_SendBatch(res) ==
    /\ pc = "loop" /\ Test = "sendMmsg" /\ p.batch > 0 /\ cnt <= Batches
    /\ FillAndSend(p.batch, res)
    /\ onwire' = onwire + res /\ refused' = (refused \/ res < p.batch)
    /\ cnt' = cnt + 1 /\ bytes' = bytes + res
    /\ UNCHANGED <<p, pc, t, report>>

(* A full batch; the kernel may take only the first res packets of it.     *)
SendBatch(res) ==
    /\ pc = "loop" /\ Test = "sendMmsg" /\ p.batch > 0 /\ cnt < Batches
    /\ FillAndSend(p.batch, res)
    /\ onwire' = onwire + res /\ refused' = (refused \/ res < p.batch)
    /\ cnt' = cnt + 1 /\ bytes' = bytes + res
    /\ UNCHANGED <<p, pc, t, report>>

(* The remainder: p.batch headers are filled, LastBatch packets are sent,  *)
(* after r->bytes has been set.                                            *)
SendLast(res) ==
    /\ pc = "loop" /\ Test = "sendMmsg" /\ p.batch > 0 /\ cnt = Batches
    /\ LastBatch # 0 /\ res <= LastBatch
    /\ FillAndSend(p.batch, res)
    /\ onwire' = onwire + res /\ refused' = (refused \/ res < LastBatch)
    /\ pc' = "sent_last"
    /\ UNCHANGED <<p, t, cnt, bytes, report>>

(* A call that sends nothing fails.                                        *)
SendMmsgFails ==
    /\ pc = "loop" /\ Test = "sendMmsg" /\ p.batch > 0
    /\ cnt < Batches \/ LastBatch # 0
    /\ FillAndSend(p.batch, 0)
    /\ refused' = TRUE
    /\ pc' = "exit_fail_send"
    /\ UNCHANGED <<p, t, cnt, bytes, report, onwire>>

(* count / batch with --batch 0.                                           *)
BatchOfZero ==
    /\ pc = "loop" /\ Test = "sendMmsg" /\ p.batch = 0
    /\ pc' = "sigfpe"
    /\ UNCHANGED <<p, t, cnt, sequence, bytes, report, onwire, refused, wire>>

-----------------------------------------------------------------------------
(* The loop is over and returns its packet count: time_bench_calc_stats()  *)
(* divides by it.                                                          *)

MUT_CntSend == IF Test = "sendMmsg" THEN p.count ELSE cnt - 1
CntSend == IF Test = "sendMmsg" THEN p.count ELSE cnt

LoopOver ==
    \/ pc = "loop" /\ Test \in Single /\ cnt >= p.count
    \/ pc = "loop" /\ Test = "sendMmsg" /\ p.batch > 0 /\ cnt >= Batches /\ LastBatch = 0
    \/ pc = "sent_last"

Finish ==
    /\ LoopOver
    /\ IF CntSend = 0
       THEN pc' = "sigfpe" /\ UNCHANGED <<t, report>>
       ELSE /\ report' = [test |-> Test, packets |-> CntSend, bytes |-> bytes,
                          onwire |-> onwire, refused |-> refused]
            /\ pc' = "main" /\ t' = t + 1
    /\ UNCHANGED <<p, cnt, sequence, bytes, onwire, refused, wire>>

Step ==
    \/ MainNext \/ SendOne \/ Finish \/ BatchOfZero
    \/ \E res \in 1 .. p.batch : SendBatch(res) \/ SendLast(res)

Failure == SendOneFails \/ SendMmsgFails

Next == Step \/ Failure \/ (Ended /\ UNCHANGED vars)

Spec == Init /\ [][Next]_vars

-----------------------------------------------------------------------------
TypeOK ==
    /\ p \in Params
    /\ pc \in {"main", "loop", "sent_last", "exit_ok", "exit_fail_send", "sigfpe"}
    /\ t \in 1 .. 6 /\ cnt \in Nat /\ sequence \in 0 .. SEQ_MOD - 1
    /\ bytes \in Nat /\ onwire \in Nat /\ refused \in BOOLEAN

(* The tests that send one packet per call report exactly the packets and  *)
(* bytes the kernel took; so does sendMmsg if no batch was cut short, for  *)
(* the packets: full batches and remainder add up to --count.              *)
ReportedIsSent ==
    /\ report.test \in Single => report.packets = report.onwire /\ report.bytes = report.onwire
    /\ ~report.refused => report.packets = report.onwire

(* No test sends more than --count packets, whatever the batch size.       *)
AtMostCount == onwire <= p.count

(* With --pktgen-hdr, the numbers on the wire go up by one, by at most a   *)
(* batch if sendMmsg is among the tests, from the first test to the last   *)
(* and across the wrap: nothing is sent twice or out of order, and a sink  *)
(* never sees a step it could take for a wrap.                             *)
WireOrder ==
    \A k \in 1 .. Len(wire) - 1 :
        (wire[k + 1] - wire[k]) % SEQ_MOD
            \in 1 .. (IF "sendMmsg" \in Selected /\ p.batch > 0 THEN p.batch ELSE 1)

(* Documented: "measures the outgoing packet rate".  flood_with_sendMmsg() *)
(* returns p->count although the kernel may have taken fewer.              *)
MeasuresSent == report.packets = report.onwire
=============================================================================
