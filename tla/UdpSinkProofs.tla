--------------------------- MODULE UdpSinkProofs ---------------------------
EXTENDS UdpSink, SequenceTheorems, TLAPS

(* Where the loop counter, the packets received and the EAGAIN results     *)
(* stand while a run is going on.                                          *)
Tally ==
    /\ pc \in {"first", "run", "recv", "check"} => t \in 1 .. 5
    /\ pc = "check" => Test \in {"recvMmsg", "recvmsg"}
    /\ pc # "check" /\ ~Ended => vec = <<>>
    /\ pc \in {"recv", "check"} /\ Test = "recvMmsg" =>
          /\ i = got
          /\ got + Len(vec) <= p.count + p.batch - 1
    /\ pc \in {"recv", "check"} /\ Test # "recvMmsg" =>
          /\ i = got + try_again
          /\ i + Len(vec) <= p.count

IInv == TypeOK /\ Tally /\ ReportedIsReceived /\ ReceivedIsReported

LEMMA ParamsFact ==
    ASSUME p \in Params
    PROVE  /\ p.count \in Nat /\ p.repeat \in Nat /\ p.batch \in Nat \ {0}
           /\ p.check \in 0 .. 3
  BY SinkAssumption DEF ParamsType

LEMMA TailType ==
    ASSUME NEW S, NEW s \in Seq(S), s # <<>>
    PROVE  /\ Tail(s) \in Seq(S) /\ Head(s) \in S
           /\ Len(s) \in Nat \ {0} /\ Len(Tail(s)) = Len(s) - 1
  OBVIOUS

(* The two parts recvmmsg() splits the queue into.                         *)
LEMMA SplitType ==
    ASSUME NEW S, NEW s \in Seq(S), NEW n \in 0 .. Len(s)
    PROVE  /\ SubSeq(s, 1, n) \in Seq(S) /\ Len(SubSeq(s, 1, n)) = n
           /\ SubSeq(s, n + 1, Len(s)) \in Seq(S)
           /\ Len(SubSeq(s, n + 1, Len(s))) = Len(s) - n
  OBVIOUS

LEMMA HeaderTypeLemma ==
    ASSUME TypeOK, NEW kind \in Kinds
    PROVE  /\ Zero \in HeaderType
           /\ [kind |-> kind, hdr |-> Header(kind)] \in PacketType
  BY SinkAssumption DEF TypeOK, Header, Zero, HeaderType, PacketType

-----------------------------------------------------------------------------
(* Initial states and the steps, one lemma per action.                     *)

LEMMA InitIInv == Init => IInv
  BY SinkAssumption DEF Init, IInv, TypeOK, Tally, ReportedIsReceived,
     ReceivedIsReported, Surplus, NoReport, Zero, HeaderType, Ended, Test, Tests

LEMMA SendIInv ==
    ASSUME IInv, NEW kind \in Kinds, Send(kind)
    PROVE  IInv'
<1> DEFINE pkt == [kind |-> kind, hdr |-> Header(kind)]
           n == Len(queue)
<1>1. TypeOK /\ pkt \in PacketType
  BY HeaderTypeLemma DEF IInv
<1>2. queue \in Seq(PacketType) /\ n \in Nat /\ MaxQueue \in Nat
  BY <1>1, SinkAssumption DEF TypeOK
<1> HIDE DEF pkt
<1>3. queue' \in Seq(PacketType) /\ Len(queue') <= MaxQueue
  <2>1. CASE queue' = queue
    BY <2>1, <1>1 DEF TypeOK
  <2>2. CASE n < MaxQueue /\ queue' = Append(queue, pkt)
    BY <2>2, <1>1, <1>2
  <2>3. CASE n \in 1 .. MaxQueue - 1 /\ queue' = Append([queue EXCEPT ![n] = pkt], queue[n])
    <3>1. queue[n] \in PacketType
      BY <2>3, <1>2
    <3>2. [queue EXCEPT ![n] = pkt] \in Seq(PacketType) /\ Len([queue EXCEPT ![n] = pkt]) = n
      BY <2>3, <1>1, <1>2
    <3> QED BY <3>1, <3>2, <2>3, <1>2
  <2>4. CASE n + 1 < MaxQueue /\ queue' = queue \o <<pkt, pkt>>
    <3>1. <<pkt, pkt>> \in Seq(PacketType) /\ Len(<<pkt, pkt>>) = 2
      BY <1>1
    <3> QED BY <3>1, <2>4, <1>2
  <2> QED BY <2>1, <2>2, <2>3, <2>4 DEF Send, pkt
<1>4. clean' \in BOOLEAN
  BY <1>1, Zenon DEF Send, TypeOK
<1>5. gap' \in 0 .. MaxGap /\ sent' \in 0 .. MaxPackets
  BY <1>1, SinkAssumption DEF Send, TypeOK
<1>6. seq' \in 0 .. SEQ_MOD - 1 /\ ts' = ts
  BY <1>1, SinkAssumption DEF Send, TypeOK
<1>7. UNCHANGED sinkVars
  BY DEF Send
<1> QED
  BY <1>1, <1>3, <1>4, <1>5, <1>6, <1>7 DEF IInv, TypeOK, Tally, ReportedIsReceived,
     ReceivedIsReported, sinkVars, Ended, Test

LEMMA TickIInv ==
    ASSUME IInv, SenderTick
    PROVE  IInv'
<1>1. ts' \in 0 .. MaxTs
  BY DEF SenderTick
<1>2. clean' \in BOOLEAN
  BY Zenon DEF IInv, TypeOK, SenderTick
<1>3. TypeOK'
  BY <1>1, <1>2 DEF IInv, TypeOK, SenderTick, sinkVars
<1>4. Tally' /\ ReportedIsReceived' /\ ReceivedIsReported'
  BY DEF IInv, Tally, ReportedIsReceived, ReceivedIsReported, SenderTick, sinkVars,
     Ended, Test
<1> QED BY <1>3, <1>4 DEF IInv

LEMMA MainNextIInv ==
    ASSUME IInv, MainNext
    PROVE  IInv'
<1>1. t \in 1 .. 6 /\ j \in Nat /\ ooo \in Nat /\ bad_magic \in Nat /\ bad_repeat \in Nat
  BY DEF IInv, TypeOK
<1>2. /\ t' \in 1 .. 6 /\ j' \in Nat /\ ooo' \in Nat /\ bad_magic' \in Nat
      /\ bad_repeat' \in Nat /\ pc' \in {"main", "exit_ok", "first"}
      /\ (pc' = "first" => t' \in 1 .. 5)
  BY <1>1 DEF MainNext
<1>3. TypeOK'
  BY <1>2 DEF IInv, TypeOK, MainNext, wireVars
<1>4. Tally' /\ ReportedIsReceived' /\ ReceivedIsReported'
  BY <1>2 DEF IInv, Tally, ReportedIsReceived, ReceivedIsReported, MainNext, Ended
<1> QED BY <1>3, <1>4 DEF IInv

LEMMA WaitFirstIInv ==
    ASSUME IInv, WaitFirst \/ WaitFirstFails \/ SettingFails
    PROVE  IInv'
<1>1. CASE WaitFirst
  <2>1. queue' \in Seq(PacketType) /\ Len(queue') <= MaxQueue
    BY <1>1, TailType, SinkAssumption DEF IInv, TypeOK, WaitFirst
  <2>2. TypeOK'
    BY <1>1, <2>1 DEF IInv, TypeOK, WaitFirst, wireVars
  <2>3. Tally' /\ ReportedIsReceived' /\ ReceivedIsReported'
    BY <1>1 DEF IInv, Tally, ReportedIsReceived, ReceivedIsReported, WaitFirst, Ended, Test
  <2> QED BY <2>2, <2>3 DEF IInv
<1>2. CASE WaitFirstFails
  <2>1. queue' \in Seq(PacketType) /\ Len(queue') <= MaxQueue
    BY <1>2, TailType, SinkAssumption DEF IInv, TypeOK, WaitFirstFails
  <2>2. TypeOK'
    BY <1>2, <2>1 DEF IInv, TypeOK, WaitFirstFails, wireVars
  <2>3. Tally' /\ ReportedIsReceived' /\ ReceivedIsReported'
    BY <1>2 DEF IInv, Tally, ReportedIsReceived, ReceivedIsReported, WaitFirstFails,
       Ended, Test
  <2> QED BY <2>2, <2>3 DEF IInv
<1>3. CASE SettingFails
  BY <1>3 DEF IInv, TypeOK, Tally, ReportedIsReceived, ReceivedIsReported,
     SettingFails, wireVars, Ended, Test
<1> QED BY <1>1, <1>2, <1>3

LEMMA StartRunIInv ==
    ASSUME IInv, StartRun
    PROVE  IInv'
<1>1. p.count \in Nat /\ p.batch \in Nat \ {0} /\ MaxTry \in Nat
  BY ParamsFact, SinkAssumption DEF IInv, TypeOK
<1>2. vec = <<>> /\ t \in 1 .. 5 /\ vec' = <<>> /\ Len(<<>>) = 0
  BY DEF IInv, TypeOK, Tally, StartRun, Ended
<1>3. TypeOK'
  <2>1. clean' \in BOOLEAN
    BY Zenon DEF IInv, TypeOK, StartRun, wireVars
  <2>2. got' \in Nat /\ chk' \in 0 .. got' /\ i' \in Nat /\ try_again' \in 0 .. MaxTry
    <3>1. got \in Nat /\ chk \in 0 .. got /\ i \in Nat /\ try_again \in 0 .. MaxTry
      BY DEF IInv, TypeOK
    <3>2. CASE j < p.repeat
      BY <3>2, <1>1 DEF StartRun
    <3>3. CASE ~(j < p.repeat)
      BY <3>1, <3>3 DEF StartRun
    <3> QED BY <3>2, <3>3
  <2>3. pc' \in {"main", "recv"} /\ t' \in 1 .. 6
    BY <1>2 DEF StartRun
  <2> QED BY <2>1, <2>2, <2>3 DEF IInv, TypeOK, StartRun, wireVars
<1>4. Tally'
  BY <1>1, <1>2 DEF StartRun, Tally, Ended, Test
<1>5. ReportedIsReceived' /\ ReceivedIsReported'
  BY DEF IInv, ReportedIsReceived, ReceivedIsReported, StartRun
<1> QED BY <1>3, <1>4, <1>5 DEF IInv

(* The single-packet calls and recvmmsg().                                 *)
LEMMA RecvIInv ==
    ASSUME IInv, RecvPlain \/ RecvMsg \/ RecvMmsg
    PROVE  IInv'
<1>1. /\ p.count \in Nat /\ p.batch \in Nat \ {0} /\ MaxQueue \in Nat
      /\ queue \in Seq(PacketType) /\ Len(queue) <= MaxQueue
      /\ got \in Nat /\ chk \in 0 .. got /\ i \in Nat /\ try_again \in Nat
      /\ vec = <<>> /\ t \in 1 .. 5 /\ pc = "recv"
  BY ParamsFact, SinkAssumption DEF IInv, TypeOK, Tally, RecvPlain, RecvMsg, RecvMmsg, Ended
<1>2. CASE RecvPlain
  <2>1. queue' \in Seq(PacketType) /\ Len(queue') <= MaxQueue
    BY <1>1, <1>2, TailType DEF RecvPlain
  <2>2. got' \in Nat /\ chk' \in 0 .. got' /\ i' \in Nat
    BY <1>1, <1>2 DEF RecvPlain
  <2>3. TypeOK'
    BY <1>2, <2>1, <2>2 DEF IInv, TypeOK, RecvPlain, wireVars
  <2>4. Tally'
    <3>1. Test # "recvMmsg" /\ i = got + try_again /\ i < p.count
      BY <1>1, <1>2 DEF IInv, Tally, RecvPlain
    <3>2. /\ Test' = Test /\ i' = i + 1 /\ got' = got + 1 /\ try_again' = try_again
          /\ p' = p /\ t' = t /\ pc' = pc /\ vec' = vec
      BY <1>2 DEF RecvPlain, Test
    <3>3. Len(vec') = 0 /\ i' = got' + try_again' /\ i' <= p.count
      BY <1>1, <3>1, <3>2
    <3> QED BY <1>1, <3>1, <3>2, <3>3 DEF Tally, Ended
  <2>5. ReportedIsReceived' /\ ReceivedIsReported'
    BY <1>1, <1>2 DEF IInv, ReportedIsReceived, ReceivedIsReported, RecvPlain
  <2> QED BY <2>3, <2>4, <2>5 DEF IInv
<1>3. CASE RecvMsg
  <2>1. /\ queue' \in Seq(PacketType) /\ Len(queue') <= MaxQueue
        /\ vec' \in Seq(PacketType) /\ Len(vec') = 1
    BY <1>1, <1>3, TailType DEF RecvMsg
  <2>3. TypeOK'
    BY <1>3, <2>1 DEF IInv, TypeOK, RecvMsg, wireVars
  <2>4. Tally'
    BY <1>1, <1>3, <2>1 DEF IInv, Tally, RecvMsg, Test, Ended
  <2>5. ReportedIsReceived' /\ ReceivedIsReported'
    BY <1>1, <1>3 DEF IInv, ReportedIsReceived, ReceivedIsReported, RecvMsg
  <2> QED BY <2>3, <2>4, <2>5 DEF IInv
<1>4. CASE RecvMmsg
  <2>2. PICK n \in 1 .. p.batch :
          /\ n <= Len(queue)
          /\ vec' = SubSeq(queue, 1, n) /\ queue' = SubSeq(queue, n + 1, Len(queue))
    BY <1>4 DEF RecvMmsg
  <2>1. n \in 0 .. Len(queue) /\ n <= p.batch
    BY <1>1, <2>2
  <2>3. /\ queue' \in Seq(PacketType) /\ Len(queue') <= MaxQueue
        /\ vec' \in Seq(PacketType) /\ Len(vec') <= p.batch /\ Len(vec') \in Nat
    BY <1>1, <2>1, <2>2, SplitType
  <2>4. TypeOK'
    BY <1>4, <2>3 DEF IInv, TypeOK, RecvMmsg, wireVars
  <2>5. Tally'
    <3>1. Test = "recvMmsg" /\ i = got /\ i < p.count
      BY <1>1, <1>4 DEF IInv, Tally, RecvMmsg
    <3>2. /\ Test' = Test /\ i' = i /\ got' = got /\ p' = p /\ t' = t
          /\ pc' = "check"
      BY <1>4 DEF RecvMmsg, Test
    <3> QED BY <1>1, <2>3, <3>1, <3>2 DEF Tally, Ended
  <2>6. ReportedIsReceived' /\ ReceivedIsReported'
    BY <1>1, <1>4 DEF IInv, ReportedIsReceived, ReceivedIsReported, RecvMmsg
  <2> QED BY <2>4, <2>5, <2>6 DEF IInv
<1> QED BY <1>2, <1>3, <1>4

LEMMA EAGAINIInv ==
    ASSUME IInv, RecvEAGAIN \/ RecvError
    PROVE  IInv'
<1>1. /\ p.count \in Nat /\ p.batch \in Nat \ {0} /\ MaxTry \in Nat
      /\ got \in Nat /\ i \in Nat /\ try_again \in 0 .. MaxTry
      /\ vec = <<>> /\ t \in 1 .. 5 /\ pc = "recv" /\ Len(<<>>) = 0
  BY ParamsFact, SinkAssumption DEF IInv, TypeOK, Tally, RecvEAGAIN, RecvError, Ended
<1>2. CASE RecvEAGAIN
  <2>1. i' \in Nat /\ try_again' \in 0 .. MaxTry
    BY <1>1, <1>2 DEF RecvEAGAIN
  <2>2. TypeOK'
    BY <1>2, <2>1 DEF IInv, TypeOK, RecvEAGAIN, wireVars
  <2>3. Tally'
    BY <1>1, <1>2 DEF IInv, Tally, RecvEAGAIN, Test, Ended
  <2>4. ReportedIsReceived' /\ ReceivedIsReported'
    BY <1>1, <1>2 DEF IInv, ReportedIsReceived, ReceivedIsReported, RecvEAGAIN
  <2> QED BY <2>2, <2>3, <2>4 DEF IInv
<1>3. CASE RecvError
  <2>1. TypeOK'
    BY <1>3 DEF IInv, TypeOK, RecvError, wireVars
  <2>2. Tally' /\ ReportedIsReceived' /\ ReceivedIsReported'
    BY <1>3 DEF IInv, Tally, ReportedIsReceived, ReceivedIsReported, RecvError, Ended
  <2> QED BY <2>1, <2>2 DEF IInv
<1> QED BY <1>2, <1>3

LEMMA CheckIInv ==
    ASSUME IInv, CheckPkt \/ CheckDone
    PROVE  IInv'
<1>1. /\ p.count \in Nat /\ p.batch \in Nat \ {0} /\ MaxTry \in Nat /\ p.check \in 0 .. 3
      /\ got \in Nat /\ chk \in 0 .. got /\ i \in Nat /\ try_again \in 0 .. MaxTry
      /\ vec \in Seq(PacketType) /\ t \in 1 .. 5 /\ pc = "check"
      /\ ooo \in Nat /\ bad_magic \in Nat /\ bad_repeat \in Nat
      /\ last \in HeaderType /\ runFirst \in 0 .. SEQ_MOD - 1
  BY ParamsFact, SinkAssumption DEF IInv, TypeOK, Tally, CheckPkt, CheckDone
<1>2. CASE CheckPkt
  <2>1. /\ vec' \in Seq(PacketType) /\ Len(vec) \in Nat \ {0} /\ Len(vec') = Len(vec) - 1
        /\ Head(vec) \in PacketType
    BY <1>1, <1>2, TailType DEF CheckPkt
  <2>2. Head(vec).hdr \in HeaderType /\ Head(vec).hdr.seq \in 0 .. SEQ_MOD - 1
    BY <2>1 DEF PacketType, HeaderType
  <2>3. CheckStats(Head(vec)) /\ i' = i + 1 /\ got' = got + 1
    BY <1>2 DEF CheckPkt
  <2>4. /\ ooo' \in Nat /\ bad_magic' \in Nat /\ bad_repeat' \in Nat
        /\ last' \in HeaderType /\ runFirst' \in 0 .. SEQ_MOD - 1
        /\ chk' \in 0 .. got'
    <3>1. CASE p.check # 0 /\ Head(vec).kind # "short"
      <4>1. /\ chk' = chk + 1 /\ last' = Head(vec).hdr
            /\ runFirst' = IF chk = 0 THEN Head(vec).hdr.seq ELSE runFirst
        BY <2>3, <3>1 DEF CheckStats
      <4>2. ooo' \in Nat
        BY <2>3, <3>1, <1>1 DEF CheckStats, Bit
      <4>3. bad_magic' \in Nat
        BY <2>3, <3>1, <1>1 DEF CheckStats, Bit
      <4>4. bad_repeat' \in Nat
        BY <2>3, <3>1, <1>1 DEF CheckStats, Bit
      <4> QED BY <4>1, <4>2, <4>3, <4>4, <1>1, <2>2, <2>3
    <3>2. CASE ~(p.check # 0 /\ Head(vec).kind # "short")
      <4>1. UNCHANGED <<bad_magic, ooo, bad_repeat, last, chk, runFirst>>
        BY <2>3, <3>2 DEF CheckStats
      <4> QED BY <4>1, <1>1, <2>3
    <3> QED BY <3>1, <3>2
  <2>5. pc' \in {"check", "exit_fail_recv", "exit_fail_sock"}
    BY <1>2 DEF CheckPkt
  <2>6. UNCHANGED <<p, t, j, try_again, report, queue, wireVars>>
    BY <1>2 DEF CheckPkt
  <2>7. TypeOK'
    BY <1>1, <2>1, <2>3, <2>4, <2>5, <2>6 DEF IInv, TypeOK, wireVars
  <2>8. Tally'
    <3>1. Test' = Test /\ Len(vec') \in Nat /\ Len(vec) \in Nat
      BY <2>6, <2>1 DEF Test
    <3>2. Test = "recvMmsg" => i = got /\ got + Len(vec) <= p.count + p.batch - 1
      BY <1>1 DEF IInv, Tally
    <3>3. Test # "recvMmsg" => i = got + try_again /\ i + Len(vec) <= p.count
      BY <1>1 DEF IInv, Tally
    <3>4. Test \in {"recvMmsg", "recvmsg"}
      BY <1>1 DEF IInv, Tally
    <3> QED
      BY <1>1, <2>1, <2>3, <2>5, <2>6, <3>1, <3>2, <3>3, <3>4 DEF Tally, Ended
  <2>9. ReportedIsReceived' /\ ReceivedIsReported'
    BY <2>5, <2>6 DEF IInv, ReportedIsReceived, ReceivedIsReported
  <2> QED BY <2>7, <2>8, <2>9 DEF IInv
<1>3. CASE CheckDone
  <2>1. TypeOK'
    BY <1>3 DEF IInv, TypeOK, CheckDone, wireVars
  <2>2. Tally' /\ ReportedIsReceived' /\ ReceivedIsReported'
    BY <1>3, <1>1 DEF IInv, Tally, ReportedIsReceived, ReceivedIsReported, CheckDone, Test, Ended
  <2> QED BY <2>1, <2>2 DEF IInv
<1> QED BY <1>2, <1>3

LEMMA StopRunIInv ==
    ASSUME IInv, StopRun
    PROVE  IInv'
<1>1. /\ MaxTry \in Nat /\ got \in Nat /\ i \in Nat /\ j \in Nat /\ try_again \in 0 .. MaxTry
      /\ vec = <<>> /\ t \in 1 .. 5 /\ pc = "recv" /\ CntRecv \in Int
      /\ ooo \in Nat /\ bad_magic \in Nat /\ bad_repeat \in Nat
      /\ report.packets \in Nat
  BY SinkAssumption DEF IInv, TypeOK, Tally, StopRun, Ended, CntRecv
<1>2. IF Test = "recvMmsg" THEN i = got ELSE i = got + try_again
  BY <1>1 DEF IInv, Tally
<1>3. /\ ooo' \in Nat /\ bad_magic' \in Nat /\ bad_repeat' \in Nat
      /\ report'.packets \in Nat /\ j' \in Nat
      /\ pc' \in {"run", "exit_fail_count", "sigfpe"}
  BY <1>1 DEF StopRun
<1>4. TypeOK'
  BY <1>3 DEF IInv, TypeOK, StopRun, wireVars
<1>5. Tally'
  BY <1>1, <1>3 DEF StopRun, Tally, Ended
<1>6. ReportedIsReceived'
  <2>1. CASE report' = report
    BY <2>1 DEF IInv, ReportedIsReceived
  <2>2. CASE report' = [test |-> Test, packets |-> CntRecv, got |-> got,
                        try_again |-> try_again]
    BY <2>2, <1>1, <1>2 DEF ReportedIsReceived, CntRecv, Surplus
  <2> QED BY <2>1, <2>2 DEF StopRun
<1>7. ReceivedIsReported'
  <2>1. /\ pc' = "exit_fail_count" => CntRecv < 0
        /\ pc' = "sigfpe" => CntRecv = 0
        /\ Test' = Test /\ got' = got /\ try_again' = try_again
    BY DEF StopRun, Test
  <2> QED BY <1>1, <1>2, <2>1 DEF ReceivedIsReported, CntRecv, Surplus
<1> QED BY <1>4, <1>5, <1>6, <1>7 DEF IInv

-----------------------------------------------------------------------------
(* Loop counter, EAGAIN results and packets received agree at every point  *)
(* of every receive loop.                                                  *)
THEOREM Inductive == Spec => []IInv
<1>1. Init => IInv
  BY InitIInv
<1>2. IInv /\ [Next]_vars => IInv'
  <2> SUFFICES ASSUME IInv, [Next]_vars PROVE IInv'
    OBVIOUS
  <2>1. CASE UNCHANGED vars
    <3>1. TypeOK'
      BY <2>1 DEF vars, sinkVars, wireVars, IInv, TypeOK
    <3>2. Tally' /\ ReportedIsReceived' /\ ReceivedIsReported'
      BY <2>1 DEF vars, sinkVars, IInv, Tally, ReportedIsReceived, ReceivedIsReported,
         Test, Ended
    <3> QED BY <3>1, <3>2 DEF IInv
  <2>2. CASE \E kind \in Kinds : Send(kind)
    BY <2>2, SendIInv
  <2>3. CASE SenderTick
    BY <2>3, TickIInv
  <2>4. CASE MainNext
    BY <2>4, MainNextIInv
  <2>5. CASE WaitFirst \/ WaitFirstFails \/ SettingFails
    BY <2>5, WaitFirstIInv
  <2>6. CASE StartRun
    BY <2>6, StartRunIInv
  <2>7. CASE RecvPlain \/ RecvMsg \/ RecvMmsg
    BY <2>7, RecvIInv
  <2>8. CASE RecvEAGAIN \/ RecvError
    BY <2>8, EAGAINIInv
  <2>9. CASE CheckPkt \/ CheckDone
    BY <2>9, CheckIInv
  <2>10. CASE StopRun
    BY <2>10, StopRunIInv
  <2> QED
    BY <2>1, <2>2, <2>3, <2>4, <2>5, <2>6, <2>7, <2>8, <2>9, <2>10
    DEF Next, Sink, Failure, Terminated
<1> QED BY <1>1, <1>2, PTL DEF Spec

(* Types: in particular the count a report carries is never negative.      *)
THEOREM TypeCorrect == Spec => []TypeOK
<1>1. IInv => TypeOK
  BY DEF IInv
<1> QED BY <1>1, Inductive, PTL

(* What time_function() divides a run's time by: the packets it received,  *)
(* and in recvMmsg exactly the EAGAIN results fewer.                       *)
THEOREM AccountingIsExact == Spec => []AccountingExact
<1>1. IInv => AccountingExact
  BY DEF IInv, AccountingExact
<1> QED BY <1>1, Inductive, PTL

(* The loops stop at --count; recvMmsg passes it by less than a batch.     *)
THEOREM CallsAreBounded == Spec => []CallsBounded
<1>1. ASSUME IInv PROVE CallsBounded
  <2>1. /\ p.count \in Nat /\ p.batch \in Nat \ {0} /\ MaxTry \in Nat
        /\ got \in Nat /\ try_again \in 0 .. MaxTry /\ i \in Nat /\ Len(vec) \in Nat
    BY <1>1, ParamsFact, SinkAssumption DEF IInv, TypeOK
  <2>2. pc = "recv" => Len(vec) = 0
    BY <1>1 DEF IInv, Tally, Ended
  <2>3. CASE Test = "recvMmsg"
    BY <1>1, <2>1, <2>3 DEF IInv, Tally, CallsBounded
  <2>4. CASE Test # "recvMmsg"
    BY <1>1, <2>1, <2>2, <2>4 DEF IInv, Tally, CallsBounded
  <2> QED BY <2>3, <2>4
<1> QED BY <1>1, Inductive, PTL

-----------------------------------------------------------------------------
(* The checks.                                                             *)

(* A remainder is determined by the division it comes from.                *)
LEMMA ModUnique ==
    ASSUME NEW m \in Nat \ {0}, NEW q \in Int, NEW r \in 0 .. m - 1
    PROVE  (m * q + r) % m = r
<1> DEFINE a == m * q + r
           d == a \div m
           b == a % m
<1>1. a \in Int
  OBVIOUS
<1>2. d \in Int /\ b \in 0 .. m - 1 /\ a = m * d + b
  BY <1>1
<1> HIDE DEF d, b
<1>3. m * (q - d) = b - r
  BY <1>2
<1>4. q - d \in Int /\ b - r < m /\ b - r > -m
  BY <1>2
<1>5. CASE q - d >= 1
  <2>1. m * (q - d) >= m
    BY <1>4, <1>5
  <2> QED BY <2>1, <1>3, <1>4
<1>6. CASE q - d <= -1
  <2>1. m * (q - d) <= -m
    BY <1>4, <1>6
  <2> QED BY <2>1, <1>3, <1>4
<1>7. CASE q - d = 0
  <2>1. b - r = 0
    BY <1>3, <1>7
  <2>2. b = r
    BY <2>1, <1>2
  <2> QED BY <2>2 DEF b
<1> QED BY <1>4, <1>5, <1>6, <1>7

(* Adding to a number that has wrapped.                                    *)
LEMMA ModAdd ==
    ASSUME NEW m \in Nat \ {0}, NEW a \in Int, NEW e \in Int
    PROVE  ((a % m) + e) % m = (a + e) % m
<1> DEFINE x == a % m  qa == a \div m
           z == (x + e) % m  qz == (x + e) \div m
<1>1. x \in 0 .. m - 1 /\ qa \in Int /\ a = m * qa + x
  OBVIOUS
<1>2. x + e \in Int
  BY <1>1
<1> HIDE DEF x, qa
<1>3. z \in 0 .. m - 1 /\ qz \in Int /\ x + e = m * qz + z
  BY <1>2
<1> HIDE DEF z, qz
<1>4. qa + qz \in Int /\ a + e = m * (qa + qz) + z
  BY <1>1, <1>3
<1>5. (m * (qa + qz) + z) % m = z
  BY <1>3, <1>4, ModUnique
<1> QED BY <1>4, <1>5 DEF z, x

LEMMA ModSmall == ASSUME NEW m \in Nat \ {0}, NEW a \in 0 .. m - 1 PROVE a % m = a
<1>1. (m * 0 + a) % m = a
  BY ModUnique
<1> QED BY <1>1

(* The counters are clear when a run starts.  At level 3 a header that was *)
(* let pass has the magic number, so the next one is compared with it.     *)
Cleared == pc \in {"first", "run"} => ooo = 0 /\ bad_magic = 0 /\ bad_repeat = 0

MagicSeen ==
    p.check > 2 /\ pc \in {"recv", "check"} /\ chk > 0 => last.magic = 1

Checks == Cleared /\ MagicSeen /\ ChecksOfThisRun /\ Level3Consecutive

CInv == IInv /\ Checks

LEMMA InitChecks == ASSUME Init PROVE Checks
  BY DEF Init, Checks, Cleared, MagicSeen, ChecksOfThisRun, Level3Consecutive

(* Steps that leave the counters alone and start no run.                   *)
LEMMA QuietChecks ==
    ASSUME Checks, UNCHANGED <<p, ooo, bad_magic, bad_repeat, last, chk, runFirst>>,
           pc' \in {"first", "run"} => pc \in {"first", "run"},
           pc' \in {"recv", "check"} => pc \in {"recv", "check"}
    PROVE  Checks'
  BY DEF Checks, Cleared, MagicSeen, ChecksOfThisRun, Level3Consecutive

LEMMA StartRunChecks == ASSUME CInv, StartRun PROVE Checks'
<1>1. /\ pc = "run" /\ ooo = 0 /\ bad_magic = 0 /\ bad_repeat = 0
      /\ UNCHANGED <<p, ooo, bad_magic, bad_repeat, last, runFirst>>
  BY DEF CInv, Checks, Cleared, StartRun
<1>2. CASE pc' = "recv" /\ chk' = 0
  BY <1>1, <1>2 DEF Checks, Cleared, MagicSeen, ChecksOfThisRun, Level3Consecutive
<1>3. CASE pc' = "main"
  BY <1>1, <1>3 DEF Checks, Cleared, MagicSeen, ChecksOfThisRun, Level3Consecutive
<1> QED BY <1>2, <1>3 DEF StartRun

LEMMA ResetChecks == ASSUME CInv, MainNext \/ StopRun PROVE Checks'
<1>1. /\ UNCHANGED <<p, last, chk, runFirst>> /\ pc' \notin {"recv", "check"}
      /\ pc' \in {"first", "run"} => ooo' = 0 /\ bad_magic' = 0 /\ bad_repeat' = 0
  BY DEF MainNext, StopRun
<1> QED BY <1>1 DEF Checks, Cleared, MagicSeen, ChecksOfThisRun, Level3Consecutive

(* One round of the checks adds at most one to the counters of magic       *)
(* numbers and repetitions and two to the out-of-order count.              *)
LEMMA CheckPktChecks == ASSUME CInv, CheckPkt PROVE Checks'
<1> DEFINE h == Head(vec).hdr
           M == SEQ_MOD
<1>1. /\ chk \in Nat /\ ooo \in Nat /\ bad_magic \in Nat /\ bad_repeat \in Nat
      /\ p.check \in 0 .. 3 /\ vec \in Seq(PacketType) /\ vec # <<>> /\ pc = "check"
      /\ runFirst \in 0 .. M - 1 /\ M \in Nat \ {0} /\ last.seq \in 0 .. M - 1
      /\ UNCHANGED p
  BY ParamsFact, SinkAssumption DEF CInv, IInv, TypeOK, CheckPkt, HeaderType
<1>2. h.seq \in 0 .. M - 1
  <2>1. Head(vec) \in PacketType
    BY <1>1, TailType
  <2> QED BY <2>1 DEF PacketType, HeaderType
<1>3. /\ bad_magic <= chk /\ bad_repeat <= chk /\ ooo <= 2 * chk
      /\ p.check > 2 /\ chk > 0 => last.magic = 1 /\ last.seq = (runFirst + chk - 1) % M
  BY <1>1 DEF CInv, Checks, MagicSeen, ChecksOfThisRun, Level3Consecutive
<1>4. CheckStats(Head(vec)) /\ pc' \in {"check", "exit_fail_recv", "exit_fail_sock"}
      /\ (pc' = "check" /\ p.check > 2 => ~(ooo' + bad_repeat' + bad_magic' > 0))
  BY DEF CheckPkt
<1>5. CASE p.check # 0 /\ Head(vec).kind # "short"
  <2> DEFINE b1 == Bit(h.magic # 1)
             b2 == Bit(Older(h))
             b3 == Bit(p.check > 2 /\ NotSuccessor(h))
             b4 == Bit(p.check >= 2 /\ Head(vec).kind = "torn")
  <2>1. /\ bad_magic' = bad_magic + b1 /\ ooo' = ooo + b2 + b3 /\ bad_repeat' = bad_repeat + b4
        /\ last' = h /\ chk' = chk + 1 /\ runFirst' = (IF chk = 0 THEN h.seq ELSE runFirst)
    BY <1>4, <1>5 DEF CheckStats
  <2>2. /\ b1 \in 0 .. 1 /\ b2 \in 0 .. 1 /\ b3 \in 0 .. 1 /\ b4 \in 0 .. 1
        /\ b1 = 0 => h.magic = 1
        /\ b3 = 0 => ~(p.check > 2 /\ NotSuccessor(h))
    BY DEF Bit
  <2> HIDE DEF b1, b2, b3, b4, h
  <2>3. ChecksOfThisRun' /\ Cleared'
    <3>1. bad_magic' <= chk' /\ bad_repeat' <= chk' /\ ooo' <= 2 * chk'
      BY <1>1, <1>3, <2>1, <2>2
    <3> QED BY <3>1, <1>4 DEF ChecksOfThisRun, Cleared
  <2>4. ASSUME p.check > 2, pc' = "check"
        PROVE  h.magic = 1 /\ h.seq = (runFirst' + chk' - 1) % M
    <3>1. b1 = 0 /\ b3 = 0
      BY <1>1, <1>4, <2>1, <2>2, <2>4
    <3>2. h.magic = 1 /\ ~NotSuccessor(h)
      BY <2>2, <2>4, <3>1
    <3>3. CASE chk = 0
      <4>1. runFirst' + chk' - 1 = h.seq
        BY <1>2, <2>1, <3>3
      <4>2. h.seq % M = h.seq
        BY <1>1, <1>2, ModSmall
      <4> QED BY <3>2, <4>1, <4>2
    <3>4. CASE chk # 0
      <4> DEFINE a == runFirst + chk - 1
      <4>1. a \in Int /\ runFirst' + chk' - 1 = a + 1
        BY <1>1, <2>1, <3>4
      <4>2. last.magic = 1 /\ last.seq = a % M
        BY <1>1, <1>3, <2>4, <3>4
      <4>3. h.seq = (last.seq + 1) % M
        BY <3>2, <4>2 DEF NotSuccessor
      <4> HIDE DEF a
      <4>4. ((a % M) + 1) % M = (a + 1) % M
        <5>1. a \in Int /\ M \in Nat \ {0} /\ 1 \in Int
          BY <1>1, <4>1
        <5> HIDE DEF M
        <5> QED BY ONLY <5>1, ModAdd
      <4> QED BY <3>2, <4>1, <4>2, <4>3, <4>4
    <3> QED BY <3>3, <3>4
  <2>5. MagicSeen' /\ Level3Consecutive'
    BY <1>1, <1>4, <2>1, <2>4 DEF MagicSeen, Level3Consecutive
  <2> QED BY <2>3, <2>5 DEF Checks
<1>6. CASE ~(p.check # 0 /\ Head(vec).kind # "short")
  <2>1. UNCHANGED <<bad_magic, ooo, bad_repeat, last, chk, runFirst>>
    BY <1>4, <1>6 DEF CheckStats
  <2> QED BY <2>1, <1>1, <1>4, QuietChecks DEF CInv
<1> QED BY <1>5, <1>6

(* The counters of the checks start a run at zero and grow only with the   *)
(* packets checked in it.                                                  *)
THEOREM ChecksInductive == Spec => []CInv
<1>1. Init => CInv
  BY InitIInv, InitChecks DEF CInv
<1>2. CInv /\ [Next]_vars => Checks'
  <2> SUFFICES ASSUME CInv, [Next]_vars PROVE Checks'
    OBVIOUS
  <2>1. Checks
    BY DEF CInv
  <2>2. CASE UNCHANGED sinkVars
    BY <2>1, <2>2, QuietChecks DEF sinkVars
  <2>3. CASE (\E kind \in Kinds : Send(kind)) \/ SenderTick \/ UNCHANGED vars
    BY <2>2, <2>3 DEF Send, SenderTick, vars
  <2>4. CASE MainNext \/ StopRun
    BY <2>4, ResetChecks
  <2>5. CASE WaitFirst \/ WaitFirstFails \/ SettingFails \/ RecvError
    BY <2>1, <2>5, QuietChecks DEF WaitFirst, WaitFirstFails, SettingFails, RecvError
  <2>6. CASE StartRun
    BY <2>6, StartRunChecks
  <2>7. CASE RecvPlain \/ RecvMsg \/ RecvMmsg \/ RecvEAGAIN \/ CheckDone
    BY <2>1, <2>7, QuietChecks DEF RecvPlain, RecvMsg, RecvMmsg, RecvEAGAIN, CheckDone
  <2>8. CASE CheckPkt
    BY <2>8, CheckPktChecks
  <2> QED BY <2>3, <2>4, <2>5, <2>6, <2>7, <2>8 DEF Next, Sink, Failure, Terminated
<1> QED BY <1>1, <1>2, Inductive, PTL DEF Spec, CInv

(* The counters printed after a run are of that run's packets.             *)
THEOREM ChecksAreOfThisRun == Spec => []ChecksOfThisRun
<1>1. CInv => ChecksOfThisRun
  BY DEF CInv, Checks
<1> QED BY <1>1, ChecksInductive, PTL

(* Level 3 lets only consecutive numbers pass, through the wrap.           *)
THEOREM Level3IsConsecutive == Spec => []Level3Consecutive
<1>1. CInv => Level3Consecutive
  BY DEF CInv, Checks
<1> QED BY <1>1, ChecksInductive, PTL

-----------------------------------------------------------------------------
(* No false alarm: how far apart packets are.                              *)

(* The largest step a network that only loses packets makes.               *)
Room == MaxGap + 1

(* y follows x by at most m numbers, and is no older.                      *)
Near(x, y, m) == x.ts <= y.ts /\ \E d \in 1 .. m : y.seq = (x.seq + d) % SEQ_MOD

(* The sender's next header follows x, with e numbers and those just lost  *)
(* in between.                                                             *)
Sender(x, e) == x.ts <= ts /\ seq = (x.seq + e + gap + 1) % SEQ_MOD

Chained(f) ==
    /\ \A k \in 1 .. Len(f) : f[k].kind = "good" /\ f[k].hdr.magic = 1
    /\ \A k \in 1 .. Len(f) - 1 : Near(f[k].hdr, f[k + 1].hdr, Room)
    /\ f # <<>> => Sender(f[Len(f)].hdr, 0)

(* What comes after x is the first of f or, if there is none, the sender.  *)
Ahead(x, f, m) ==
    IF f = <<>> THEN \E e \in 0 .. m - Room : Sender(x, e) ELSE Near(x, f[1].hdr, m)

(* Packets that have arrived and are not checked yet.                      *)
Arrived == vec \o queue

(* recvmsg runs after recvMmsg and its first packet is not checked.        *)
Reach == IF t = 2 /\ pc \in {"run", "recv", "check"} THEN 2 * Room ELSE Room

Line ==
    /\ t = 1 /\ pc \in {"main", "first"} => last.magic = 0
    /\ clean /\ ~Ended => Chained(Arrived)
    /\ clean /\ ~Ended /\ p.check # 0 /\ last.magic # 0 /\ t <= 2 => Ahead(last, Arrived, Reach)

LInv == IInv /\ Line /\ NoFalseOoO

LEMMA Constants ==
    /\ SEQ_MOD \in Nat \ {0} /\ MaxGap \in Nat /\ Room \in Nat \ {0} /\ Room = MaxGap + 1
    /\ WRAP_LIMIT \in 0 .. SEQ_MOD
  BY SinkAssumption DEF Room

LEMMA HeaderInts ==
    ASSUME NEW x \in HeaderType
    PROVE  x.seq \in 0 .. SEQ_MOD - 1 /\ x.seq \in Int /\ x.ts \in Int /\ x.magic \in {0, 1}
  BY SinkAssumption DEF HeaderType

LEMMA NearTrans ==
    ASSUME NEW x \in HeaderType, NEW y \in HeaderType, NEW z \in HeaderType,
           NEW a \in Nat, NEW b \in Nat, Near(x, y, a), Near(y, z, b)
    PROVE  Near(x, z, a + b)
<1>1. PICK d \in 1 .. a : y.seq = (x.seq + d) % SEQ_MOD
  BY DEF Near
<1>2. PICK e \in 1 .. b : z.seq = (y.seq + e) % SEQ_MOD
  BY DEF Near
<1>3. x.seq + d \in Int /\ e \in Int /\ SEQ_MOD \in Nat \ {0}
  BY HeaderInts, Constants
<1>4. (((x.seq + d) % SEQ_MOD) + e) % SEQ_MOD = (x.seq + d + e) % SEQ_MOD
  BY <1>3, ModAdd
<1>5. d + e \in 1 .. a + b /\ x.seq + d + e = x.seq + (d + e)
  BY HeaderInts
<1>6. z.seq = (x.seq + (d + e)) % SEQ_MOD
  BY <1>1, <1>2, <1>4, <1>5
<1>7. x.ts <= z.ts
  BY HeaderInts DEF Near
<1> QED BY <1>5, <1>6, <1>7 DEF Near

LEMMA NearMono ==
    ASSUME NEW x, NEW y, NEW a \in Nat, NEW b \in Nat, a <= b, Near(x, y, a)
    PROVE  Near(x, y, b)
<1>1. \A d \in 1 .. a : d \in 1 .. b
  OBVIOUS
<1> QED BY <1>1 DEF Near

LEMMA NearSender ==
    ASSUME TypeOK, NEW x \in HeaderType, NEW y \in HeaderType, NEW a \in Nat,
           Near(x, y, a), Sender(y, 0)
    PROVE  \E e \in 0 .. a : Sender(x, e)
<1>1. PICK d \in 1 .. a : y.seq = (x.seq + d) % SEQ_MOD
  BY DEF Near
<1>2. gap \in Int /\ ts \in Int /\ SEQ_MOD \in Nat \ {0}
  BY Constants, SinkAssumption DEF TypeOK
<1>3. /\ x.seq + d \in Int /\ gap + 1 \in Int /\ d \in 0 .. a
      /\ y.seq + 0 + gap + 1 = y.seq + (gap + 1)
      /\ x.seq + d + gap + 1 = x.seq + d + (gap + 1)
  BY HeaderInts, <1>2
<1>4. (((x.seq + d) % SEQ_MOD) + (gap + 1)) % SEQ_MOD = (x.seq + d + (gap + 1)) % SEQ_MOD
  BY <1>2, <1>3, ModAdd
<1>5. seq = (y.seq + (gap + 1)) % SEQ_MOD
  BY <1>3 DEF Sender
<1>6. seq = (x.seq + d + gap + 1) % SEQ_MOD
  BY <1>1, <1>3, <1>4, <1>5
<1>7. x.ts <= ts
  BY HeaderInts, <1>2 DEF Near, Sender
<1> QED BY <1>3, <1>6, <1>7 DEF Sender

LEMMA AheadMono ==
    ASSUME NEW x, NEW f, NEW a \in Nat, NEW b \in Nat, a <= b, Ahead(x, f, a)
    PROVE  Ahead(x, f, b)
<1>1. \A e \in 0 .. a - Room : e \in 0 .. b - Room
  BY Constants
<1> QED BY <1>1, NearMono DEF Ahead

LEMMA TailElements ==
    ASSUME NEW S, NEW f \in Seq(S), f # <<>>
    PROVE  /\ f[1] \in S /\ Head(f) = f[1] /\ Tail(f) \in Seq(S) /\ Len(f) \in Nat \ {0}
           /\ Len(Tail(f)) = Len(f) - 1
           /\ \A k \in 1 .. Len(Tail(f)) : k + 1 \in 1 .. Len(f) /\ Tail(f)[k] = f[k + 1]
           /\ Tail(f) = <<>> => Len(f) = 1
           /\ Tail(f) # <<>> => /\ Len(f) >= 2 /\ Len(Tail(f)) >= 1 /\ Tail(f)[1] = f[2]
                                /\ f[2] \in S
<1>1. /\ f[1] \in S /\ Head(f) = f[1] /\ Tail(f) \in Seq(S) /\ Len(f) \in Nat \ {0}
      /\ Len(Tail(f)) = Len(f) - 1
      /\ \A k \in 1 .. Len(Tail(f)) : k + 1 \in 1 .. Len(f) /\ Tail(f)[k] = f[k + 1]
  OBVIOUS
<1>2. Tail(f) = <<>> => Len(f) = 1
  <2> SUFFICES ASSUME Tail(f) = <<>> PROVE Len(f) = 1
    OBVIOUS
  <2>1. Len(Tail(f)) = 0
    BY EmptySeq
  <2> QED BY <2>1, <1>1
<1>3. Tail(f) # <<>> => Len(f) >= 2
  <2> SUFFICES ASSUME Tail(f) # <<>> PROVE Len(f) >= 2
    OBVIOUS
  <2>1. Len(Tail(f)) \in Nat \ {0}
    BY <1>1, EmptySeq
  <2> QED BY <2>1, <1>1
<1>4. Len(f) >= 2 => /\ Len(Tail(f)) >= 1 /\ Tail(f)[1] = f[2] /\ f[2] \in S
  <2> SUFFICES ASSUME Len(f) >= 2 PROVE Len(Tail(f)) >= 1 /\ Tail(f)[1] = f[2] /\ f[2] \in S
    OBVIOUS
  <2>1. 1 \in 1 .. Len(Tail(f)) /\ 1 + 1 = 2 /\ 2 \in 1 .. Len(f) /\ Len(Tail(f)) >= 1
    BY <1>1
  <2>2. f[2] \in S
    BY <2>1, ElementOfSeq
  <2> QED BY <1>1, <2>1, <2>2
<1> QED BY <1>1, <1>2, <1>3, <1>4

LEMMA PacketHeader == ASSUME NEW k \in PacketType PROVE k.hdr \in HeaderType
  BY DEF PacketType

(* Taking the oldest packet.                                               *)
LEMMA ChainTail ==
    ASSUME NEW f \in Seq(PacketType), f # <<>>, Chained(f)
    PROVE  Chained(Tail(f))
<1> DEFINE g == Tail(f)
<1>1. /\ Len(f) \in Nat \ {0} /\ Len(g) = Len(f) - 1
      /\ \A k \in 1 .. Len(g) : k + 1 \in 1 .. Len(f) /\ g[k] = f[k + 1]
      /\ g # <<>> => Len(g) >= 1
  BY TailElements
<1> HIDE DEF g
<1>2. \A k \in 1 .. Len(g) : g[k].kind = "good" /\ g[k].hdr.magic = 1
  BY <1>1 DEF Chained
<1>3. \A k \in 1 .. Len(g) - 1 : Near(g[k].hdr, g[k + 1].hdr, Room)
  <2> TAKE k \in 1 .. Len(g) - 1
  <2>1. k \in 1 .. Len(g) /\ k + 1 \in 1 .. Len(g) /\ k + 1 \in 1 .. Len(f) - 1
    BY <1>1
  <2>2. g[k] = f[k + 1] /\ g[k + 1] = f[(k + 1) + 1]
    BY <2>1, <1>1
  <2> QED BY <2>1, <2>2 DEF Chained
<1>4. g # <<>> => Sender(g[Len(g)].hdr, 0)
  <2> SUFFICES ASSUME g # <<>> PROVE Sender(g[Len(g)].hdr, 0)
    OBVIOUS
  <2>1. Len(g) \in 1 .. Len(g) /\ Len(g) + 1 = Len(f)
    BY <1>1
  <2>2. g[Len(g)] = f[Len(f)]
    BY <2>1, <1>1
  <2> QED BY <2>2 DEF Chained
<1>5. Chained(g)
  BY <1>2, <1>3, <1>4 DEF Chained
<1> QED BY <1>5 DEF g

LEMMA AheadTail ==
    ASSUME TypeOK, NEW f \in Seq(PacketType), f # <<>>, Chained(f),
           NEW x \in HeaderType, NEW a \in Nat, Ahead(x, f, a)
    PROVE  Ahead(x, Tail(f), a + Room)
<1>1. Near(x, f[1].hdr, a)
  BY DEF Ahead
<1>2. f[1].hdr \in HeaderType /\ Len(f) \in Nat \ {0}
  BY TailElements, PacketHeader
<1>3. CASE Tail(f) = <<>>
  <2>1. Len(f) = 1
    BY <1>3, TailElements
  <2>2. Sender(f[1].hdr, 0)
    BY <2>1 DEF Chained
  <2>3. \E e \in 0 .. a : Sender(x, e)
    BY <1>1, <1>2, <2>2, NearSender
  <2>4. (a + Room) - Room = a
    BY Constants
  <2> QED BY <1>3, <2>3, <2>4 DEF Ahead
<1>4. CASE Tail(f) # <<>>
  <2>1. Tail(f)[1] = f[2] /\ f[2].hdr \in HeaderType /\ 1 \in 1 .. Len(f) - 1 /\ 1 + 1 = 2
    BY <1>4, TailElements, PacketHeader
  <2>2. Near(f[1].hdr, f[2].hdr, Room)
    BY <2>1 DEF Chained
  <2>3. Near(x, f[2].hdr, a + Room)
    BY <1>1, <1>2, <2>1, <2>2, NearTrans, Constants
  <2> QED BY <1>4, <2>1, <2>3 DEF Ahead
<1> QED BY <1>3, <1>4

LEMMA AheadHead ==
    ASSUME NEW f \in Seq(PacketType), f # <<>>, Chained(f)
    PROVE  Ahead(f[1].hdr, Tail(f), Room)
<1>1. CASE Tail(f) = <<>>
  <2>1. Len(f) = 1
    BY <1>1, TailElements
  <2>2. Sender(f[1].hdr, 0)
    BY <2>1 DEF Chained
  <2>3. 0 \in 0 .. Room - Room
    BY Constants
  <2> QED BY <1>1, <2>2, <2>3 DEF Ahead
<1>2. CASE Tail(f) # <<>>
  <2>1. Tail(f)[1] = f[2] /\ 1 \in 1 .. Len(f) - 1 /\ 1 + 1 = 2
    BY <1>2, TailElements
  <2>2. Near(f[1].hdr, f[2].hdr, Room)
    BY <2>1 DEF Chained
  <2> QED BY <1>2, <2>1, <2>2 DEF Ahead
<1> QED BY <1>1, <1>2

(* A packet that follows closely is not called older: where its number is  *)
(* smaller, that of the previous one has passed WRAP_LIMIT.                *)
LEMMA NotOlder ==
    ASSUME last \in HeaderType, NEW h \in HeaderType, NEW a \in Nat,
           a <= SEQ_MOD - WRAP_LIMIT, Near(last, h, a)
    PROVE  ~Older(h)
<1>1. PICK d \in 1 .. a : h.seq = (last.seq + d) % SEQ_MOD
  BY DEF Near
<1> DEFINE s == last.seq
<1>2. /\ s \in 0 .. SEQ_MOD - 1 /\ last.ts \in Int /\ h.ts \in Int /\ SEQ_MOD \in Nat \ {0}
      /\ WRAP_LIMIT \in 0 .. SEQ_MOD /\ last.ts <= h.ts
  BY HeaderInts, Constants DEF Near
<1>3. CASE s + d < SEQ_MOD
  <2>1. s + d \in 0 .. SEQ_MOD - 1
    BY <1>2, <1>3
  <2>2. h.seq = s + d
    BY <1>1, <1>2, <2>1, ModSmall
  <2>3. ~(h.seq < s) /\ ~(h.ts < last.ts)
    BY <1>2, <2>2
  <2> QED BY <2>3 DEF Older
<1>4. CASE ~(s + d < SEQ_MOD)
  <2>1. ~(s < WRAP_LIMIT) /\ ~(h.ts < last.ts)
    BY <1>2, <1>4
  <2> QED BY <2>1 DEF Older
<1> QED BY <1>3, <1>4

(* Sequence facts: what the actions do to vec and queue, seen on Arrived.  *)
LEMMA ArrivedAppend ==
    ASSUME NEW S, NEW v \in Seq(S), NEW q \in Seq(S), NEW e \in S
    PROVE  v \o Append(q, e) = Append(v \o q, e)
<1>1. <<e>> \in Seq(S) /\ v \o q \in Seq(S)
  BY ConcatProperties
<1>2. Append(q, e) = q \o <<e>> /\ Append(v \o q, e) = (v \o q) \o <<e>>
  BY <1>1, AppendIsConcat
<1> QED BY <1>1, <1>2, ConcatAssociative

LEMMA ArrivedTail ==
    ASSUME NEW S, NEW v \in Seq(S), NEW q \in Seq(S), v # <<>>
    PROVE  /\ v \o q # <<>> /\ (v \o q)[1] = Head(v)
           /\ Tail(v) \o q = Tail(v \o q)
<1> DEFINE a == Tail(v) \o q
           b == Tail(v \o q)
<1>1. /\ Tail(v) \in Seq(S) /\ Len(Tail(v)) = Len(v) - 1 /\ Head(v) = v[1]
      /\ \A k \in 1 .. Len(Tail(v)) : Tail(v)[k] = v[k + 1]
      /\ Len(v) \in Nat \ {0} /\ Len(q) \in Nat
  BY TailElements
<1>2. /\ v \o q \in Seq(S) /\ Len(v \o q) = Len(v) + Len(q)
      /\ \A k \in 1 .. Len(v) + Len(q) :
            (v \o q)[k] = IF k <= Len(v) THEN v[k] ELSE q[k - Len(v)]
  BY ConcatProperties
<1>3. v \o q # <<>>
  BY <1>1, <1>2, EmptySeq
<1>4. (v \o q)[1] = Head(v)
  <2>1. 1 \in 1 .. Len(v) + Len(q) /\ 1 <= Len(v)
    BY <1>1
  <2> QED BY <1>1, <1>2, <2>1
<1>5. /\ b \in Seq(S) /\ Len(b) = Len(v) + Len(q) - 1
      /\ \A k \in 1 .. Len(b) : b[k] = (v \o q)[k + 1]
  <2>1. /\ b \in Seq(S) /\ Len(b) = Len(v \o q) - 1
        /\ \A k \in 1 .. Len(b) : b[k] = (v \o q)[k + 1]
    BY <1>2, <1>3, HeadTailProperties
  <2> QED BY <1>2, <2>1
<1>6. /\ a \in Seq(S) /\ Len(a) = Len(v) - 1 + Len(q)
      /\ \A k \in 1 .. Len(v) - 1 + Len(q) :
            a[k] = IF k <= Len(v) - 1 THEN Tail(v)[k] ELSE q[k - (Len(v) - 1)]
  BY <1>1, ConcatProperties
<1> HIDE DEF a, b
<1>7. \A k \in 1 .. Len(a) : a[k] = b[k]
  <2> TAKE k \in 1 .. Len(a)
  <2>1. /\ k \in 1 .. Len(v) - 1 + Len(q) /\ k \in 1 .. Len(b)
        /\ k + 1 \in 1 .. Len(v) + Len(q)
        /\ k <= Len(v) - 1 <=> k + 1 <= Len(v)
        /\ k - (Len(v) - 1) = (k + 1) - Len(v)
    BY <1>1, <1>5, <1>6
  <2>2. b[k] = IF k + 1 <= Len(v) THEN v[k + 1] ELSE q[(k + 1) - Len(v)]
    BY <1>2, <1>5, <2>1
  <2>3. CASE k <= Len(v) - 1
    <3>1. k \in 1 .. Len(Tail(v))
      BY <1>1, <2>1, <2>3
    <3>2. a[k] = Tail(v)[k] /\ Tail(v)[k] = v[k + 1]
      BY <1>1, <1>6, <2>1, <2>3, <3>1
    <3> QED BY <2>1, <2>2, <2>3, <3>2
  <2>4. CASE ~(k <= Len(v) - 1)
    BY <1>6, <2>1, <2>2, <2>4
  <2> QED BY <2>3, <2>4
<1>8. Len(a) = Len(b)
  BY <1>1, <1>5, <1>6
<1>9. a = b
  BY <1>5, <1>6, <1>7, <1>8, SeqEqual
<1> QED BY <1>3, <1>4, <1>9 DEF a, b

LEMMA ArrivedSplit ==
    ASSUME NEW S, NEW q \in Seq(S), NEW n \in 0 .. Len(q)
    PROVE  SubSeq(q, 1, n) \o SubSeq(q, n + 1, Len(q)) = q
<1>1. /\ Len(q) \in Nat /\ 1 \in 1 .. Len(q) + 1 /\ n \in 1 - 1 .. Len(q)
      /\ Len(q) \in n .. Len(q)
  OBVIOUS
<1>2. SubSeq(q, 1, n) \o SubSeq(q, n + 1, Len(q)) = SubSeq(q, 1, Len(q))
  BY <1>1, ConcatAdjacentSubSeq
<1> QED BY <1>2, SubSeqFull

LEMMA ArrivedHead ==
    ASSUME NEW S, NEW q \in Seq(S), q # <<>>
    PROVE  <<Head(q)>> \o Tail(q) = q
<1>1. /\ Len(q) \in Nat \ {0} /\ Head(q) = q[1]
  BY TailElements
<1>2. 1 \in 1 .. Len(q) /\ Len(q) \in 1 .. Len(q) /\ 1 + 1 = 2
  BY <1>1
<1>3. SubSeq(q, 1, Len(q)) = <<q[1]>> \o SubSeq(q, 2, Len(q))
  BY <1>2, SubSeqRecursiveFirst
<1> QED BY <1>1, <1>3, SubSeqFull, TailIsSubSeq

-----------------------------------------------------------------------------
(* No false alarm: the steps.                                              *)

(* The sender's clock moves forward; its numbers stand still, or one is    *)
(* used up and counted as lost.                                            *)
WireKeeps ==
    /\ ts' \in Int /\ ts <= ts'
    /\ \/ seq' = seq /\ gap' = gap
       \/ seq' = (seq + 1) % SEQ_MOD /\ gap' = gap + 1

LEMMA SenderKeeps ==
    ASSUME TypeOK, WireKeeps, NEW x \in HeaderType, NEW e \in Int, Sender(x, e)
    PROVE  Sender(x, e)'
<1>1. gap \in Int /\ ts \in Int /\ SEQ_MOD \in Nat \ {0} /\ x.seq \in Int /\ x.ts \in Int
  BY Constants, HeaderInts, SinkAssumption DEF TypeOK
<1>2. x.ts <= ts'
  BY <1>1 DEF WireKeeps, Sender
<1>3. CASE seq' = seq /\ gap' = gap
  BY <1>2, <1>3 DEF Sender
<1>4. CASE seq' = (seq + 1) % SEQ_MOD /\ gap' = gap + 1
  <2> DEFINE a == x.seq + e + gap + 1
  <2>1. a \in Int /\ seq = a % SEQ_MOD /\ x.seq + e + gap' + 1 = a + 1
    BY <1>1, <1>4 DEF Sender
  <2> HIDE DEF a
  <2>2. ((a % SEQ_MOD) + 1) % SEQ_MOD = (a + 1) % SEQ_MOD
    <3>1. a \in Int /\ SEQ_MOD \in Nat \ {0} /\ 1 \in Int
      BY <1>1, <2>1
    <3> QED BY ONLY <3>1, ModAdd
  <2>3. seq' = (x.seq + e + gap' + 1) % SEQ_MOD
    BY <1>4, <2>1, <2>2
  <2> QED BY <1>2, <2>3 DEF Sender
<1> QED BY <1>3, <1>4 DEF WireKeeps

LEMMA ChainKeeps ==
    ASSUME TypeOK, WireKeeps, NEW f \in Seq(PacketType), Chained(f)
    PROVE  Chained(f)'
<1>1. f # <<>> => Sender(f[Len(f)].hdr, 0)'
  <2> SUFFICES ASSUME f # <<>> PROVE Sender(f[Len(f)].hdr, 0)'
    OBVIOUS
  <2>1. f[Len(f)] \in PacketType
    <3>1. Len(f) \in 1 .. Len(f)
      BY TailElements
    <3> QED BY <3>1, ElementOfSeq
  <2>2. f[Len(f)].hdr \in HeaderType /\ 0 \in Int
    BY <2>1, PacketHeader
  <2>3. Sender(f[Len(f)].hdr, 0)
    BY DEF Chained
  <2> QED BY <2>2, <2>3, SenderKeeps
<1> QED BY <1>1 DEF Chained, Near

LEMMA AheadKeeps ==
    ASSUME TypeOK, WireKeeps, NEW x \in HeaderType, NEW f, NEW m \in Nat, Ahead(x, f, m)
    PROVE  Ahead(x, f, m)'
<1>1. CASE f = <<>>
  <2>1. PICK e \in 0 .. m - Room : Sender(x, e)
    BY <1>1 DEF Ahead
  <2>2. e \in Int
    BY Constants
  <2>3. Sender(x, e)'
    BY <2>1, <2>2, SenderKeeps
  <2> QED BY <1>1, <2>3 DEF Ahead
<1>2. CASE f # <<>>
  BY <1>2 DEF Ahead, Near
<1> QED BY <1>1, <1>2

(* e is the packet the sender sends now, and it arrives.                   *)
Arrives(e) ==
    /\ e.kind = "good" /\ e.hdr.magic = 1 /\ e.hdr.seq = seq /\ e.hdr.ts = ts
    /\ seq' = (seq + 1) % SEQ_MOD /\ gap' = 0 /\ ts' = ts

LEMMA NearNew ==
    ASSUME TypeOK, NEW x \in HeaderType, NEW e, Arrives(e), NEW m \in Nat,
           NEW k \in 0 .. m - Room, Sender(x, k)
    PROVE  Near(x, e.hdr, m)
<1>1. gap \in 0 .. MaxGap /\ Room = MaxGap + 1 /\ MaxGap \in Nat /\ x.seq \in Int
  BY Constants, HeaderInts DEF TypeOK
<1>2. k + gap + 1 \in 1 .. m /\ x.seq + (k + gap + 1) = x.seq + k + gap + 1
  BY <1>1
<1> QED BY <1>2 DEF Near, Sender, Arrives

LEMMA SenderNew ==
    ASSUME TypeOK, NEW e \in PacketType, Arrives(e)
    PROVE  Sender(e.hdr, 0)'
<1>1. seq \in Int /\ ts \in Int
  BY Constants, SinkAssumption DEF TypeOK
<1>2. seq + 0 + 0 + 1 = seq + 1 /\ ts <= ts
  BY <1>1
<1> QED BY <1>2 DEF Sender, Arrives

LEMMA ChainAppend ==
    ASSUME TypeOK, NEW f \in Seq(PacketType), Chained(f), NEW e \in PacketType, Arrives(e)
    PROVE  Chained(Append(f, e))'
<1> DEFINE g == Append(f, e)
           n == Len(f)
<1>1. /\ Len(g) = n + 1 /\ n \in Nat /\ g[n + 1] = e /\ g # <<>>
      /\ \A k \in 1 .. n : g[k] = f[k]
  BY AppendProperties
<1> HIDE DEF g
<1>2. \A k \in 1 .. Len(g) : g[k].kind = "good" /\ g[k].hdr.magic = 1
  <2> TAKE k \in 1 .. Len(g)
  <2>1. CASE k \in 1 .. n
    BY <2>1, <1>1 DEF Chained
  <2>2. CASE k = n + 1
    BY <2>2, <1>1 DEF Arrives
  <2> QED BY <2>1, <2>2, <1>1
<1>3. \A k \in 1 .. Len(g) - 1 : Near(g[k].hdr, g[k + 1].hdr, Room)
  <2> TAKE k \in 1 .. Len(g) - 1
  <2>1. CASE k \in 1 .. n - 1
    <3>1. k \in 1 .. n /\ k + 1 \in 1 .. n
      BY <2>1, <1>1
    <3>2. g[k] = f[k] /\ g[k + 1] = f[k + 1]
      BY <3>1, <1>1
    <3> QED BY <2>1, <3>2 DEF Chained
  <2>2. CASE k = n
    <3>1. n \in 1 .. n /\ f # <<>>
      BY <1>1, <2>2, EmptySeq
    <3>2. f[n].hdr \in HeaderType
      BY <3>1, ElementOfSeq, PacketHeader
    <3>3. Sender(f[n].hdr, 0)
      BY <3>1 DEF Chained
    <3>4. Room \in Nat /\ 0 \in 0 .. Room - Room
      BY Constants
    <3>5. Near(f[n].hdr, e.hdr, Room)
      BY <3>2, <3>3, <3>4, NearNew
    <3> QED BY <1>1, <2>2, <3>1, <3>5
  <2> QED BY <2>1, <2>2, <1>1
<1>4. Sender(e.hdr, 0)'
  BY SenderNew
<1>5. Chained(g)'
  BY <1>1, <1>2, <1>3, <1>4 DEF Chained, Near
<1> QED BY <1>5 DEF g

LEMMA AheadAppend ==
    ASSUME TypeOK, NEW f \in Seq(PacketType), NEW e \in PacketType, Arrives(e),
           NEW x \in HeaderType, NEW m \in Nat, Ahead(x, f, m)
    PROVE  Ahead(x, Append(f, e), m)'
<1> DEFINE g == Append(f, e)
<1>1. g # <<>> /\ (f = <<>> => g[1] = e) /\ (f # <<>> => g[1] = f[1])
  <2>1. /\ g # <<>> /\ g[Len(f) + 1] = e /\ Len(f) \in Nat
        /\ \A k \in 1 .. Len(f) : g[k] = f[k]
    BY AppendProperties
  <2> HIDE DEF g
  <2>2. f = <<>> => Len(f) + 1 = 1
    BY EmptySeq
  <2>3. f # <<>> => 1 \in 1 .. Len(f)
    BY TailElements
  <2> QED BY <2>1, <2>2, <2>3
<1> HIDE DEF g
<1>2. Near(x, g[1].hdr, m)
  <2>1. CASE f = <<>>
    <3>1. PICK k \in 0 .. m - Room : Sender(x, k)
      BY <2>1 DEF Ahead
    <3> QED BY <1>1, <2>1, <3>1, NearNew
  <2>2. CASE f # <<>>
    BY <1>1, <2>2 DEF Ahead
  <2> QED BY <2>1, <2>2
<1>3. Ahead(x, g, m)'
  BY <1>1, <1>2 DEF Ahead, Near
<1> QED BY <1>3 DEF g

(* Line in the next state, from the values its parts have there.           *)
LEMMA LineStep ==
    ASSUME NEW g, NEW l, NEW r, Arrived' = g, last' = l, Reach' = r,
           t' = 1 /\ pc' \in {"main", "first"} => l.magic = 0,
           clean' /\ ~Ended' => Chained(g)',
           clean' /\ ~Ended' /\ p'.check # 0 /\ l.magic # 0 /\ t' <= 2 => Ahead(l, g, r)'
    PROVE  Line'
  BY DEF Line, Chained, Ahead, Sender, Near

LEMMA LineTypes ==
    ASSUME TypeOK
    PROVE  Arrived \in Seq(PacketType) /\ Reach \in Nat /\ last \in HeaderType
<1>1. Arrived \in Seq(PacketType)
  BY ConcatProperties DEF TypeOK, Arrived
<1>2. Reach \in Nat
  BY Constants DEF Reach
<1> QED BY <1>1, <1>2 DEF TypeOK

LEMMA InitLine == ASSUME Init PROVE Line /\ NoFalseOoO
<1>1. /\ last.magic = 0 /\ vec = <<>> /\ queue = <<>> /\ ooo = 0
  BY DEF Init, Zero
<1>2. Arrived = <<>>
  <2>1. <<>> \in Seq(PacketType)
    BY EmptySeq
  <2> QED BY <1>1, <2>1, ConcatEmptySeq DEF Arrived
<1>3. Chained(<<>>)
  <2>1. Len(<<>>) = 0
    OBVIOUS
  <2>2. \A k \in 1 .. 0 : FALSE
    OBVIOUS
  <2>3. \A k \in 1 .. 0 - 1 : FALSE
    OBVIOUS
  <2> QED BY <2>1, <2>2, <2>3 DEF Chained
<1> QED BY <1>1, <1>2, <1>3 DEF Line, NoFalseOoO

(* Steps that keep what has arrived and what was checked last.             *)
LEMMA QuietLine ==
    ASSUME LInv, TypeOK', WireKeeps, UNCHANGED <<p, last, Arrived>>,
           clean' => clean, Ended => Ended', t <= t',
           t' = 1 /\ pc' \in {"main", "first"} => pc \in {"main", "first"},
           t' <= 2 /\ ~Ended' => Reach <= Reach',
           ooo' \in {0, ooo}
    PROVE  Line' /\ NoFalseOoO'
<1>1. NoFalseOoO'
  BY DEF LInv, NoFalseOoO
<1>2. PICK g : g = Arrived
  OBVIOUS
<1>3. PICK l : l = last
  OBVIOUS
<1>4. PICK r : r = Reach
  OBVIOUS
<1>5. PICK s : s = Reach'
  OBVIOUS
<1>6. /\ TypeOK /\ g \in Seq(PacketType) /\ r \in Nat /\ l \in HeaderType
      /\ t \in 1 .. 6 /\ t' \in 1 .. 6
  BY <1>2, <1>3, <1>4, LineTypes DEF LInv, IInv, TypeOK
<1>7. s \in Nat
  BY <1>5, Constants DEF Reach
<1>8. t' = 1 /\ pc' \in {"main", "first"} => l.magic = 0
  BY <1>3, <1>6 DEF LInv, Line
<1>9. clean' /\ ~Ended' => Chained(g)'
  <2> SUFFICES ASSUME clean', ~Ended' PROVE Chained(g)'
    OBVIOUS
  <2>1. Chained(g)
    BY <1>2 DEF LInv, Line
  <2> QED BY <1>6, <2>1, ChainKeeps
<1>10. clean' /\ ~Ended' /\ p'.check # 0 /\ l.magic # 0 /\ t' <= 2 => Ahead(l, g, s)'
  <2> SUFFICES ASSUME clean', ~Ended', p'.check # 0, l.magic # 0, t' <= 2
               PROVE  Ahead(l, g, s)'
    OBVIOUS
  <2>1. t <= 2 /\ clean /\ ~Ended /\ p.check # 0
    BY <1>6
  <2>2. Ahead(l, g, r)
    BY <1>2, <1>3, <1>4, <2>1 DEF LInv, Line
  <2>3. Ahead(l, g, s)
    BY <1>4, <1>5, <1>6, <1>7, <2>2, AheadMono
  <2> QED BY <1>6, <1>7, <2>3, AheadKeeps
<1>11. Line'
  BY <1>2, <1>3, <1>5, <1>8, <1>9, <1>10, LineStep
<1> QED BY <1>1, <1>11

LEMMA SendLine ==
    ASSUME LInv, TypeOK', NEW kind \in Kinds, Send(kind)
    PROVE  Line' /\ NoFalseOoO'
<1> DEFINE pkt == [kind |-> kind, hdr |-> Header(kind)]
<1>1. /\ TypeOK /\ ts \in Int /\ ts <= ts
  BY SinkAssumption DEF LInv, IInv, TypeOK
<1>2. /\ UNCHANGED <<p, pc, t, vec, last, ooo, ts>> /\ seq' = (seq + 1) % SEQ_MOD
      /\ Ended' = Ended /\ Reach' = Reach
  BY DEF Send, sinkVars, Ended, Reach
<1>3. CASE gap' = gap + 1 /\ UNCHANGED <<queue, clean>>
  <2>1. WireKeeps
    BY <1>1, <1>2, <1>3 DEF WireKeeps
  <2>2. t <= t' /\ Reach <= Reach'
    <3>1. t \in 1 .. 6 /\ Reach \in Nat
      BY <1>1, LineTypes DEF TypeOK
    <3> QED BY <3>1, <1>2
  <2>3. UNCHANGED <<p, last, Arrived>>
    BY <1>2, <1>3 DEF Arrived
  <2> QED BY <1>2, <1>3, <2>1, <2>2, <2>3, QuietLine
<1>4. CASE queue' = Append(queue, pkt) /\ gap' = 0 /\ clean' = (clean /\ kind = "good")
  <2>1. NoFalseOoO'
    BY <1>2, <1>4 DEF LInv, NoFalseOoO
  <2>2. PICK e : e = pkt
    OBVIOUS
  <2>3. PICK g : g = Arrived
    OBVIOUS
  <2>4. PICK l : l = last
    OBVIOUS
  <2>5. PICK r : r = Reach
    OBVIOUS
  <2>6. /\ e \in PacketType /\ g \in Seq(PacketType) /\ r \in Nat /\ l \in HeaderType
    BY <1>1, <2>2, <2>3, <2>4, <2>5, LineTypes, HeaderTypeLemma
  <2>7. kind = "good" => Arrives(e)
    BY <1>2, <1>4, <2>2 DEF Arrives, Header
  <2>8. Arrived' = Append(g, e)
    <3>1. vec \in Seq(PacketType) /\ queue \in Seq(PacketType)
      BY <1>1 DEF TypeOK
    <3>2. vec \o Append(queue, e) = Append(vec \o queue, e)
      BY <2>6, <3>1, ArrivedAppend
    <3> QED BY <1>2, <1>4, <2>2, <2>3, <3>2 DEF Arrived
  <2>9. last' = l /\ Reach' = r
    BY <1>2, <2>4, <2>5
  <2>10. t' = 1 /\ pc' \in {"main", "first"} => l.magic = 0
    BY <1>2, <2>4 DEF LInv, Line
  <2>11. clean' /\ ~Ended' => Chained(Append(g, e))'
    <3> SUFFICES ASSUME clean', ~Ended' PROVE Chained(Append(g, e))'
      OBVIOUS
    <3>1. Chained(g) /\ Arrives(e)
      BY <1>2, <1>4, <2>3, <2>7 DEF LInv, Line
    <3> QED BY <1>1, <2>6, <3>1, ChainAppend
  <2>12. clean' /\ ~Ended' /\ p'.check # 0 /\ l.magic # 0 /\ t' <= 2
            => Ahead(l, Append(g, e), r)'
    <3> SUFFICES ASSUME clean', ~Ended', p'.check # 0, l.magic # 0, t' <= 2
                 PROVE  Ahead(l, Append(g, e), r)'
      OBVIOUS
    <3>1. Ahead(l, g, r) /\ Arrives(e)
      BY <1>2, <1>4, <2>3, <2>4, <2>5, <2>7 DEF LInv, Line
    <3> QED BY <1>1, <2>6, <3>1, AheadAppend
  <2>13. Line'
    BY <2>8, <2>9, <2>10, <2>11, <2>12, LineStep
  <2> QED BY <2>1, <2>13
<1>5. CASE clean' = FALSE
  <2>1. t' = 1 /\ pc' \in {"main", "first"} => last'.magic = 0
    BY <1>2 DEF LInv, Line
  <2> QED BY <1>5, <2>1 DEF Line, NoFalseOoO
<1> QED BY <1>3, <1>4, <1>5 DEF Send

(* A packet is taken that nobody checks: the first one of a test, and      *)
(* those of read(), recvfrom() and recv().                                 *)
LEMMA TakeLine ==
    ASSUME LInv, TypeOK', WaitFirst \/ RecvPlain
    PROVE  Line' /\ NoFalseOoO'
<1>1. /\ TypeOK /\ ts \in Int /\ ts <= ts
  BY SinkAssumption DEF LInv, IInv, TypeOK
<1>2. /\ UNCHANGED <<p, t, vec, last, ooo, clean, seq, ts, gap>> /\ queue # <<>>
      /\ queue' = Tail(queue) /\ pc \in {"first", "recv"}
      /\ pc' = (IF pc = "first" THEN "run" ELSE "recv")
      /\ pc = "recv" => Test \in {"read", "recvfrom", "recv"}
  BY DEF WaitFirst, RecvPlain, wireVars
<1>3. t \in 1 .. 5 /\ vec = <<>> /\ ~Ended
  BY <1>2 DEF LInv, IInv, Tally, Ended
<1>4. pc = "recv" => t \notin {1, 2}
  BY <1>2, <1>3 DEF Test, Tests
<1>5. WireKeeps
  BY <1>1, <1>2 DEF WireKeeps
<1>6. NoFalseOoO'
  BY <1>2 DEF LInv, NoFalseOoO
<1>7. PICK g : g = queue
  OBVIOUS
<1>8. PICK l : l = last
  OBVIOUS
<1>9. PICK r : r = Reach'
  OBVIOUS
<1>10. /\ g \in Seq(PacketType) /\ g # <<>> /\ l \in HeaderType /\ Tail(g) \in Seq(PacketType)
  BY <1>1, <1>2, <1>7, <1>8, LineTypes, TailElements DEF TypeOK
<1>11. Arrived = g /\ Arrived' = Tail(g)
  <2>1. <<>> \o g = g /\ <<>> \o Tail(g) = Tail(g)
    BY <1>10, ConcatEmptySeq
  <2> QED BY <1>2, <1>3, <1>7, <2>1 DEF Arrived
<1>12. clean => Chained(g)
  BY <1>3, <1>11 DEF LInv, Line
<1>13. t' = 1 /\ pc' \in {"main", "first"} => l.magic = 0
  BY <1>2
<1>14. clean' /\ ~Ended' => Chained(Tail(g))'
  <2> SUFFICES ASSUME clean PROVE Chained(Tail(g))'
    BY <1>2
  <2>1. Chained(Tail(g))
    BY <1>10, <1>12, ChainTail
  <2> QED BY <1>1, <1>5, <1>10, <2>1, ChainKeeps
<1>15. clean' /\ ~Ended' /\ p'.check # 0 /\ l.magic # 0 /\ t' <= 2 => Ahead(l, Tail(g), r)'
  <2> SUFFICES ASSUME clean, p.check # 0, l.magic # 0, t <= 2 PROVE Ahead(l, Tail(g), r)'
    BY <1>2
  <2>1. pc = "first" /\ pc' = "run" /\ t = 2 /\ t' = 2
    BY <1>2, <1>3, <1>4, <1>8 DEF LInv, Line
  <2>2. Reach = Room /\ r = Room + Room
    BY <1>9, <2>1, Constants DEF Reach
  <2>3. Ahead(l, g, Room)
    BY <1>3, <1>8, <1>11, <2>2 DEF LInv, Line
  <2>4. Ahead(l, Tail(g), Room + Room)
    BY <1>1, <1>10, <1>12, <2>3, AheadTail, Constants
  <2>5. r \in Nat
    BY <2>2, Constants
  <2> QED BY <1>1, <1>5, <1>10, <2>2, <2>4, <2>5, AheadKeeps
<1>16. Line'
  BY <1>2, <1>8, <1>9, <1>11, <1>13, <1>14, <1>15, LineStep
<1> QED BY <1>6, <1>16

(* A receive call hands its packets to the checks.                         *)
LEMMA RecvLine ==
    ASSUME LInv, TypeOK', RecvMsg \/ RecvMmsg
    PROVE  Line' /\ NoFalseOoO'
<1>1. /\ TypeOK /\ ts \in Int /\ ts <= ts /\ t \in Int /\ t <= t
      /\ queue \in Seq(PacketType)
  BY SinkAssumption DEF LInv, IInv, TypeOK
<1>2. /\ UNCHANGED <<p, t, last, ooo, clean, seq, ts, gap>>
      /\ pc = "recv" /\ pc' = "check" /\ queue # <<>>
  BY DEF RecvMsg, RecvMmsg, wireVars
<1>3. vec = <<>> /\ ~Ended /\ Reach' = Reach /\ Reach <= Reach
  BY <1>1, <1>2, LineTypes DEF LInv, IInv, Tally, Ended, Reach
<1>4. Arrived = queue
  BY <1>1, <1>3, ConcatEmptySeq DEF Arrived
<1>5. Arrived' = queue
  <2>1. CASE RecvMsg
    BY <1>1, <1>2, <2>1, ArrivedHead DEF RecvMsg, Arrived
  <2>2. CASE RecvMmsg
    <3>2. PICK n \in 1 .. p.batch :
            /\ n <= Len(queue)
            /\ vec' = SubSeq(queue, 1, n) /\ queue' = SubSeq(queue, n + 1, Len(queue))
      BY <2>2 DEF RecvMmsg
    <3>1. n \in 0 .. Len(queue)
      <4>1. p.batch \in Nat
        BY <1>1, ParamsFact DEF TypeOK
      <4>2. Len(queue) \in Nat
        BY <1>1
      <4> QED BY <3>2, <4>1, <4>2
    <3> QED BY <1>1, <3>1, <3>2, ArrivedSplit DEF Arrived
  <2> QED BY <2>1, <2>2
<1>6. WireKeeps
  BY <1>1, <1>2 DEF WireKeeps
<1> QED BY <1>1, <1>2, <1>3, <1>4, <1>5, <1>6, QuietLine

(* A failure ends the program; what is in the queue no longer matters.     *)
LEMMA FailureLine ==
    ASSUME LInv, Failure
    PROVE  Line' /\ NoFalseOoO'
<1>1. /\ UNCHANGED <<p, ooo, clean>>
      /\ pc' \in {"exit_fail_sock", "exit_fail_recv", "exit_fail_file"}
  BY DEF Failure, WaitFirstFails, SettingFails, RecvError, wireVars
<1> QED BY <1>1 DEF LInv, Line, NoFalseOoO, Ended

(* The clock moves on, or is set back and the history is no longer clean.  *)
LEMMA TickLine ==
    ASSUME LInv, TypeOK', SenderTick
    PROVE  Line' /\ NoFalseOoO'
<1>1. TypeOK /\ ts \in Int /\ ts' \in Int /\ t \in 1 .. 6 /\ Reach \in Nat
  BY SinkAssumption, LineTypes DEF LInv, IInv, TypeOK
<1>2. /\ UNCHANGED <<p, pc, t, last, vec, queue, ooo, seq, gap>>
      /\ Ended' = Ended /\ Reach' = Reach /\ clean' = (clean /\ ts' > ts)
  BY DEF SenderTick, sinkVars, Ended, Reach
<1>3. CASE ts' > ts
  <2>1. WireKeeps
    BY <1>1, <1>2, <1>3 DEF WireKeeps
  <2>2. UNCHANGED <<p, last, Arrived>>
    BY <1>2 DEF Arrived
  <2>3. t <= t' /\ Reach <= Reach' /\ ooo' \in {0, ooo}
    BY <1>1, <1>2
  <2> QED BY <1>2, <2>1, <2>2, <2>3, QuietLine
<1>4. CASE ~(ts' > ts)
  <2>1. clean' = FALSE
    BY <1>2, <1>4
  <2>2. t' = 1 /\ pc' \in {"main", "first"} => last'.magic = 0
    BY <1>2 DEF LInv, Line
  <2> QED BY <2>1, <2>2 DEF Line, NoFalseOoO
<1> QED BY <1>3, <1>4

(* The rest of the sink: main() and the loops' control.                    *)
LEMMA ControlLine ==
    ASSUME LInv, TypeOK',
           \/ MainNext \/ StartRun \/ RecvEAGAIN \/ CheckDone \/ StopRun
           \/ UNCHANGED vars
    PROVE  Line' /\ NoFalseOoO'
<1>1. TypeOK /\ ts \in Int /\ t \in 1 .. 6 /\ Reach \in Nat /\ Reach' \in Nat
  BY SinkAssumption, LineTypes, Constants DEF LInv, IInv, TypeOK, Reach
<1>2. UNCHANGED <<p, last, vec, queue, clean, seq, gap, ts>> /\ ooo' \in {0, ooo}
  BY DEF MainNext, StartRun, RecvEAGAIN, CheckDone, StopRun, vars, sinkVars, wireVars
<1>3. WireKeeps
  BY <1>1, <1>2 DEF WireKeeps
<1>4. UNCHANGED <<p, last, Arrived>>
  BY <1>2 DEF Arrived
<1>5. /\ Ended => Ended'
      /\ t' \in {t, t + 1}
      /\ t' = 1 /\ pc' \in {"main", "first"} => pc \in {"main", "first"}
      /\ t' <= 2 /\ ~Ended' => Reach <= Reach'
  <2>1. CASE UNCHANGED <<pc, t>>
    BY <1>1, <2>1 DEF Ended, Reach
  <2>2. CASE MainNext
    BY <1>1, <2>2, Constants DEF MainNext, Ended, Reach
  <2>3. CASE StartRun
    BY <1>1, <2>3, Constants DEF StartRun, Ended, Reach
  <2>4. CASE CheckDone
    BY <1>1, <2>4, Constants DEF CheckDone, Ended, Reach
  <2>5. CASE StopRun
    BY <1>1, <2>5, Constants DEF StopRun, Ended, Reach
  <2>6. RecvEAGAIN \/ UNCHANGED vars => UNCHANGED <<pc, t>>
    BY DEF RecvEAGAIN, vars, sinkVars
  <2> QED BY <2>1, <2>2, <2>3, <2>4, <2>5, <2>6
<1>6. t <= t'
  BY <1>1, <1>5
<1> QED BY <1>2, <1>3, <1>4, <1>5, <1>6, QuietLine

(* The check itself: the packet is close enough behind the previous one.   *)
LEMMA CheckLine ==
    ASSUME LInv, TypeOK', CheckPkt
    PROVE  Line' /\ NoFalseOoO'
<1>1. /\ TypeOK /\ ts \in Int /\ ts <= ts /\ vec \in Seq(PacketType) /\ vec # <<>>
      /\ queue \in Seq(PacketType) /\ p.check \in 0 .. 3
  BY SinkAssumption, ParamsFact DEF LInv, IInv, TypeOK, CheckPkt
<1>2. /\ UNCHANGED <<p, t, queue, clean, seq, ts, gap>> /\ vec' = Tail(vec)
      /\ pc = "check" /\ pc' \in {"check", "exit_fail_recv", "exit_fail_sock"}
      /\ CheckStats(Head(vec))
  BY DEF CheckPkt, wireVars
<1>3. t \in {1, 2} /\ ~Ended
  BY <1>2 DEF LInv, IInv, Tally, Test, Tests, Ended
<1>4. WireKeeps
  BY <1>1, <1>2 DEF WireKeeps
<1>5. PICK g : g = Arrived
  OBVIOUS
<1>6. PICK l : l = last'
  OBVIOUS
<1>7. PICK r : r = Reach'
  OBVIOUS
<1>8. /\ g \in Seq(PacketType) /\ g # <<>> /\ g[1] = Head(vec) /\ Arrived' = Tail(g)
      /\ Tail(g) \in Seq(PacketType) /\ g[1].hdr \in HeaderType /\ last \in HeaderType
  BY <1>1, <1>2, <1>5, LineTypes, ArrivedTail, TailElements, PacketHeader DEF Arrived
<1>9. clean => Chained(g) /\ g[1].kind = "good" /\ g[1].hdr.magic = 1
  <2> SUFFICES ASSUME clean PROVE Chained(g) /\ g[1].kind = "good" /\ g[1].hdr.magic = 1
    OBVIOUS
  <2>1. Chained(g)
    BY <1>3, <1>5 DEF LInv, Line
  <2>2. 1 \in 1 .. Len(g)
    BY <1>8, TailElements
  <2> QED BY <2>1, <2>2 DEF Chained
<1>10. clean /\ p.check # 0 /\ last.magic # 0 => Near(last, g[1].hdr, 2 * Room)
  <2> SUFFICES ASSUME clean, p.check # 0, last.magic # 0 PROVE Near(last, g[1].hdr, 2 * Room)
    OBVIOUS
  <2>1. Ahead(last, g, Reach)
    BY <1>3, <1>5 DEF LInv, Line
  <2>2. Near(last, g[1].hdr, Reach)
    BY <1>8, <2>1 DEF Ahead
  <2>3. Reach \in Nat /\ 2 * Room \in Nat /\ Reach <= 2 * Room
    BY Constants DEF Reach
  <2> QED BY <2>2, <2>3, NearMono
<1>11. NoFalseOoO'
  <2> SUFFICES ASSUME clean, p.check < 3, 2 * (MaxGap + 1) <= SEQ_MOD - WRAP_LIMIT
               PROVE  ooo' = 0
    BY <1>2 DEF NoFalseOoO
  <2>1. ooo = 0
    BY DEF LInv, NoFalseOoO
  <2>2. CASE p.check # 0
    <3>1. ~Older(g[1].hdr)
      <4>1. CASE last.magic = 0
        BY <4>1 DEF Older
      <4>2. CASE last.magic # 0
        <5>1. 2 * Room \in Nat /\ 2 * Room <= SEQ_MOD - WRAP_LIMIT
          BY Constants
        <5> QED BY <1>8, <1>10, <2>2, <4>2, <5>1, NotOlder
      <4> QED BY <4>1, <4>2
    <3>2. ~(p.check > 2)
      BY <1>1
    <3>3. ooo' = ooo + Bit(Older(g[1].hdr)) + Bit(p.check > 2 /\ NotSuccessor(g[1].hdr))
      BY <1>2, <1>8, <1>9, <2>2 DEF CheckStats
    <3> QED BY <2>1, <3>1, <3>2, <3>3 DEF Bit
  <2>3. CASE p.check = 0
    BY <1>2, <2>1, <2>3 DEF CheckStats
  <2> QED BY <2>2, <2>3
<1>12. t' = 1 /\ pc' \in {"main", "first"} => l.magic = 0
  BY <1>2
<1>13. clean' /\ ~Ended' => Chained(Tail(g))'
  <2> SUFFICES ASSUME clean PROVE Chained(Tail(g))'
    BY <1>2
  <2>1. Chained(Tail(g))
    BY <1>8, <1>9, ChainTail
  <2> QED BY <1>1, <1>4, <1>8, <2>1, ChainKeeps
<1>14. clean' /\ ~Ended' /\ p'.check # 0 /\ l.magic # 0 /\ t' <= 2 => Ahead(l, Tail(g), r)'
  <2> SUFFICES ASSUME clean, p.check # 0 PROVE Ahead(l, Tail(g), r)'
    BY <1>2
  <2>1. l = g[1].hdr
    BY <1>2, <1>6, <1>8, <1>9 DEF CheckStats
  <2>2. Ahead(l, Tail(g), Room)
    BY <1>8, <1>9, <2>1, AheadHead
  <2>3. r \in Nat /\ Room \in Nat /\ Room <= r
    BY <1>7, Constants DEF Reach
  <2>4. Ahead(l, Tail(g), r)
    BY <2>2, <2>3, AheadMono
  <2> QED BY <1>1, <1>4, <1>8, <2>1, <2>3, <2>4, AheadKeeps
<1>15. Line'
  BY <1>6, <1>7, <1>8, <1>12, <1>13, <1>14, LineStep
<1> QED BY <1>11, <1>15

(* While the network only loses packets and the sender's clock is not set  *)
(* back, the packets that have arrived and the one checked last follow     *)
(* each other closely.                                                     *)
THEOREM LineInductive == Spec => []LInv
<1>1. Init => LInv
  BY InitIInv, InitLine DEF LInv
<1>2. LInv /\ TypeOK' /\ [Next]_vars => Line' /\ NoFalseOoO'
  BY SendLine, TakeLine, RecvLine, FailureLine, TickLine, ControlLine, CheckLine
  DEF Next, Sink, Terminated
<1>3. IInv => TypeOK
  BY DEF IInv
<1> QED BY <1>1, <1>2, <1>3, Inductive, PTL DEF Spec, LInv

(* Levels 1 and 2 count nothing out of order while the network only loses  *)
(* packets and the sender's clock is not set back, through the wrap of the *)
(* sequence number.                                                        *)
THEOREM NoFalseAlarm == Spec => []NoFalseOoO
<1>1. LInv => NoFalseOoO
  BY DEF LInv
<1> QED BY <1>1, LineInductive, PTL
=============================================================================
