-------------------------- MODULE UdpFloodProofs --------------------------
EXTENDS FloodSink, SequenceTheorems, TLAPS

(* What the loop counter says of the packets on the wire, at each point of *)
(* a test.                                                                 *)
Tally ==
    /\ pc \in {"loop", "sent_last"} => t \in 1 .. 5
    /\ pc = "loop" /\ Test \in Single => cnt <= p.count /\ onwire = cnt /\ bytes = cnt
    /\ pc = "loop" /\ Test = "sendMmsg" /\ p.batch > 0 =>
          /\ cnt <= Batches
          /\ onwire <= cnt * p.batch
          /\ refused \/ onwire = cnt * p.batch
    /\ pc = "loop" /\ Test = "sendMmsg" /\ p.batch = 0 => onwire = 0
    /\ pc = "sent_last" => Test = "sendMmsg" /\ (refused \/ onwire = p.count)

IInv == TypeOK /\ Tally /\ ReportedIsSent /\ AtMostCount

LEMMA ParamsFact ==
    ASSUME p \in Params
    PROVE  p.count \in Nat /\ p.batch \in Nat
  BY FloodAssumption DEF ParamsType

LEMMA MulNat == ASSUME NEW a \in Nat, NEW b \in Nat PROVE a * b \in Nat
  OBVIOUS

LEMMA MulSucc == ASSUME NEW a \in Nat, NEW b \in Nat PROVE (a + 1) * b = a * b + b
  OBVIOUS

LEMMA MulMono ==
    ASSUME NEW a \in Nat, NEW b \in Nat, NEW c \in Nat, a <= b
    PROVE  a * c <= b * c
  OBVIOUS

(* count / batch full batches and a remainder smaller than one.            *)
LEMMA BatchesAddUp ==
    ASSUME NEW c \in Nat, NEW b \in Nat \ {0}
    PROVE  /\ (c \div b) \in Nat
           /\ (c \div b) * b <= c
           /\ c - (c \div b) * b \in 0 .. b - 1
<1>1. c >= 0 /\ c \in Int
  OBVIOUS
<1>2. (c \div b) \in Int /\ (c % b) \in 0 .. b - 1 /\ c = b * (c \div b) + (c % b)
  BY <1>1
<1>3. (c \div b) \in Nat
  BY <1>1
<1> QED BY <1>2, <1>3

LEMMA SeqType ==
    ASSUME TypeOK, NEW n \in Nat, NEW res, FillAndSend(n, res)
    PROVE  sequence' \in 0 .. SEQ_MOD - 1
  BY FloodAssumption DEF FillAndSend, TypeOK

(* The test a step runs is one of the two shapes.                          *)
LEMMA TestShape == ASSUME t \in 1 .. 5 PROVE Test \in Single \/ Test = "sendMmsg"
  BY DEF Test, Tests, Single

LEMMA InitIInv == ASSUME Init PROVE IInv
<1>1. refused \in BOOLEAN
  BY Zenon DEF Init
<1>2. p.count \in Nat
  BY ParamsFact DEF Init
<1>3. TypeOK
  BY <1>1, FloodAssumption DEF Init, TypeOK
<1>4. Tally
  BY DEF Init, Tally
<1>5. ReportedIsSent /\ AtMostCount
  BY <1>2 DEF Init, ReportedIsSent, AtMostCount, NoReport
<1> QED BY <1>3, <1>4, <1>5 DEF IInv

LEMMA MainNextIInv == ASSUME IInv, MainNext PROVE IInv'
<1>1. /\ p.count \in Nat /\ p.batch \in Nat /\ t \in 1 .. 6 /\ cnt \in Nat /\ bytes \in Nat
      /\ onwire \in Nat /\ onwire <= p.count
  BY ParamsFact DEF IInv, TypeOK, AtMostCount
<1>2. refused' \in BOOLEAN
  BY Zenon DEF IInv, TypeOK, MainNext
<1>3. /\ t' \in 1 .. 6 /\ cnt' \in Nat /\ bytes' \in Nat /\ onwire' \in Nat
      /\ pc' \in {"main", "loop", "exit_ok"} /\ onwire' <= p.count
      /\ pc' = "loop" => t' \in 1 .. 5 /\ cnt' = 0 /\ onwire' = 0 /\ bytes' = 0
  BY <1>1 DEF MainNext
<1>4. UNCHANGED <<p, sequence, report, wire>>
  BY DEF MainNext
<1>5. TypeOK'
  BY <1>2, <1>3, <1>4 DEF IInv, TypeOK
<1>6. Tally'
  <2>1. CASE pc' = "loop"
    <3>1. ASSUME p.batch # 0
          PROVE  Batches' \in Nat /\ 0 <= Batches' /\ 0 * p.batch = 0
      <4>1. p.count \div p.batch \in Nat
        BY <3>1, <1>1, BatchesAddUp
      <4>2. Batches' = p.count \div p.batch
        BY <1>4 DEF Batches
      <4> QED BY <4>1, <4>2, <1>1
    <3> QED BY <2>1, <1>1, <1>3, <1>4, <3>1 DEF Tally
  <2>2. CASE pc' # "loop"
    BY <2>2, <1>3 DEF Tally
  <2> QED BY <2>1, <2>2
<1>7. ReportedIsSent' /\ AtMostCount'
  BY <1>3, <1>4 DEF IInv, ReportedIsSent, AtMostCount
<1> QED BY <1>5, <1>6, <1>7 DEF IInv

LEMMA SendOneIInv == ASSUME IInv, SendOne PROVE IInv'
<1>1. /\ p.count \in Nat /\ cnt \in Nat /\ bytes \in Nat /\ onwire \in Nat /\ cnt < p.count
      /\ t \in 1 .. 5 /\ onwire = cnt /\ bytes = cnt /\ Test \in Single /\ pc = "loop"
  BY ParamsFact DEF IInv, TypeOK, Tally, SendOne
<1>2. sequence' \in 0 .. SEQ_MOD - 1
  <2>1. CASE Test = "send"
    BY <2>1 DEF SendOne, IInv, TypeOK
  <2>2. CASE Test # "send"
    BY <2>2, SeqType DEF SendOne, IInv
  <2> QED BY <2>1, <2>2
<1>3. /\ cnt' = cnt + 1 /\ bytes' = bytes + 1 /\ onwire' = onwire + 1
      /\ UNCHANGED <<p, pc, t, report, refused>> /\ Test' = Test
  BY DEF SendOne, Test
<1>4. TypeOK'
  BY <1>1, <1>2, <1>3 DEF IInv, TypeOK
<1>5. Tally'
  BY <1>1, <1>3 DEF Tally, Single
<1>6. ReportedIsSent' /\ AtMostCount'
  BY <1>1, <1>3 DEF IInv, ReportedIsSent, AtMostCount
<1> QED BY <1>4, <1>5, <1>6 DEF IInv

LEMMA FailsIInv ==
    ASSUME IInv, SendOneFails \/ SendMmsgFails \/ BatchOfZero
    PROVE  IInv'
<1>1. sequence' \in 0 .. SEQ_MOD - 1
  <2>1. CASE SendOneFails /\ Test # "send"
    BY <2>1, SeqType DEF SendOneFails, IInv
  <2>2. CASE SendMmsgFails
    BY <2>2, SeqType, ParamsFact DEF SendMmsgFails, IInv, TypeOK
  <2>3. CASE BatchOfZero \/ (SendOneFails /\ Test = "send")
    BY <2>3 DEF BatchOfZero, SendOneFails, IInv, TypeOK
  <2> QED BY <2>1, <2>2, <2>3
<1>2. refused' \in BOOLEAN
  BY Zenon DEF SendOneFails, SendMmsgFails, BatchOfZero, IInv, TypeOK
<1>3. /\ pc' \in {"exit_fail_send", "sigfpe"}
      /\ UNCHANGED <<p, t, cnt, bytes, report, onwire>>
  BY DEF SendOneFails, SendMmsgFails, BatchOfZero, IInv, TypeOK
<1>4. TypeOK'
  BY <1>1, <1>2, <1>3 DEF IInv, TypeOK
<1>5. Tally' /\ ReportedIsSent' /\ AtMostCount'
  BY <1>3 DEF IInv, Tally, ReportedIsSent, AtMostCount
<1> QED BY <1>4, <1>5 DEF IInv

(* A full batch, or the first res packets of it.                           *)
LEMMA SendBatchIInv ==
    ASSUME IInv, NEW res \in 1 .. p.batch, SendBatch(res)
    PROVE  IInv'
<1> DEFINE C == cnt * p.batch
<1>1. /\ p.count \in Nat /\ p.batch \in Nat \ {0} /\ cnt \in Nat /\ bytes \in Nat
      /\ onwire \in Nat /\ t \in 1 .. 5 /\ pc = "loop" /\ Test = "sendMmsg" /\ cnt < Batches
      /\ onwire <= C /\ (refused \/ onwire = C) /\ res \in Nat /\ res <= p.batch
  BY ParamsFact DEF IInv, TypeOK, Tally, SendBatch
<1>2. sequence' \in 0 .. SEQ_MOD - 1
  BY <1>1, SeqType DEF SendBatch, IInv
<1>3. refused' \in BOOLEAN
  <2>1. refused \in BOOLEAN /\ refused' = (refused \/ res < p.batch)
    BY DEF SendBatch, IInv, TypeOK
  <2> QED BY <2>1, Zenon
<1>4. /\ cnt' = cnt + 1 /\ bytes' = bytes + res /\ onwire' = onwire + res
      /\ UNCHANGED <<p, pc, t, report>> /\ Test' = Test /\ Batches' = Batches
      /\ refused' \/ (~refused /\ ~(res < p.batch))
  BY DEF SendBatch, Test, Batches
<1>5. Batches \in Nat /\ Batches * p.batch <= p.count
  BY <1>1, BatchesAddUp DEF Batches
<1>6. C \in Nat /\ (cnt + 1) * p.batch = C + p.batch
  BY <1>1, MulNat, MulSucc
<1>7. C + p.batch <= p.count
  <2>1. (cnt + 1) * p.batch <= Batches * p.batch
    BY <1>1, <1>5, MulMono
  <2>2. Batches * p.batch \in Nat
    BY <1>1, <1>5, MulNat
  <2> QED BY <2>1, <2>2, <1>1, <1>5, <1>6
<1> HIDE DEF C
<1>8. TypeOK'
  BY <1>1, <1>2, <1>3, <1>4 DEF IInv, TypeOK
<1>9. Tally'
  <2>1. cnt' * p'.batch = C + p.batch
    BY <1>4, <1>6
  <2>2. onwire' <= C + p.batch /\ (refused' \/ onwire' = C + p.batch)
    BY <1>1, <1>4, <1>6
  <2>3. cnt' <= Batches'
    BY <1>1, <1>4, <1>5
  <2>4. p'.batch # 0 /\ Test' \notin Single /\ Test' = "sendMmsg" /\ pc' = "loop" /\ t' \in 1 .. 5
    BY <1>1, <1>4 DEF Single
  <2> QED BY <2>1, <2>2, <2>3, <2>4 DEF Tally
<1>10. ReportedIsSent' /\ AtMostCount'
  <2>1. onwire' <= p'.count
    BY <1>1, <1>4, <1>6, <1>7
  <2> QED BY <2>1, <1>4 DEF IInv, ReportedIsSent, AtMostCount
<1> QED BY <1>8, <1>9, <1>10 DEF IInv

(* The remainder fills up to --count and no further.                       *)
LEMMA SendLastIInv ==
    ASSUME IInv, NEW res \in 1 .. p.batch, SendLast(res)
    PROVE  IInv'
<1> DEFINE C == Batches * p.batch
<1>1. /\ p.count \in Nat /\ p.batch \in Nat \ {0} /\ cnt \in Nat /\ bytes \in Nat
      /\ onwire \in Nat /\ t \in 1 .. 5 /\ pc = "loop" /\ Test = "sendMmsg" /\ cnt = Batches
      /\ onwire <= C /\ (refused \/ onwire = C) /\ res \in Nat /\ res <= p.count - C
  BY ParamsFact DEF IInv, TypeOK, Tally, SendLast, LastBatch
<1>2. sequence' \in 0 .. SEQ_MOD - 1
  BY <1>1, SeqType DEF SendLast, IInv
<1>3. refused' \in BOOLEAN
  <2>1. refused \in BOOLEAN /\ refused' = (refused \/ res < LastBatch)
    BY DEF SendLast, IInv, TypeOK
  <2> QED BY <2>1, Zenon
<1>4. Batches \in Nat /\ C \in Nat /\ C <= p.count
  BY <1>1, BatchesAddUp, MulNat DEF Batches
<1>5. /\ pc' = "sent_last" /\ onwire' = onwire + res
      /\ UNCHANGED <<p, t, cnt, bytes, report>> /\ Test' = Test
      /\ refused' \/ (~refused /\ ~(res < p.count - C))
  BY DEF SendLast, Test, LastBatch
<1> HIDE DEF C
<1>6. TypeOK'
  BY <1>1, <1>2, <1>3, <1>5 DEF IInv, TypeOK
<1>7. onwire' <= p.count /\ (refused' \/ onwire' = p.count)
  BY <1>1, <1>4, <1>5
<1>8. Tally'
  BY <1>1, <1>5, <1>7 DEF Tally
<1>9. ReportedIsSent' /\ AtMostCount'
  BY <1>5, <1>7 DEF IInv, ReportedIsSent, AtMostCount
<1> QED BY <1>6, <1>8, <1>9 DEF IInv

LEMMA FinishIInv == ASSUME IInv, Finish PROVE IInv'
<1>1. /\ p.count \in Nat /\ p.batch \in Nat /\ cnt \in Nat /\ onwire \in Nat
      /\ t \in 1 .. 5 /\ pc \in {"loop", "sent_last"}
  BY ParamsFact DEF IInv, TypeOK, Tally, Finish, LoopOver
<1>2. /\ Test \in Single => CntSend = onwire /\ bytes = onwire
      /\ refused \/ CntSend = onwire
  <2>1. CASE pc = "loop" /\ Test \in Single /\ cnt >= p.count
    BY <2>1, <1>1 DEF IInv, Tally, CntSend, Single
  <2>2. CASE pc = "loop" /\ Test = "sendMmsg" /\ p.batch > 0 /\ cnt >= Batches /\ LastBatch = 0
    <3>1. Batches \in Nat /\ Batches * p.batch \in Nat
      BY <2>2, <1>1, BatchesAddUp, MulNat DEF Batches
    <3>2. cnt = Batches /\ (refused \/ onwire = cnt * p.batch)
      BY <2>2, <1>1, <3>1 DEF IInv, Tally
    <3>3. p.count = Batches * p.batch
      <4> HIDE DEF Batches
      <4> QED BY <2>2, <3>1, <1>1 DEF LastBatch
    <3> QED BY <2>2, <3>2, <3>3 DEF CntSend, Single
  <2>3. CASE pc = "sent_last"
    BY <2>3 DEF IInv, Tally, CntSend, Single
  <2> QED BY <2>1, <2>2, <2>3 DEF Finish, LoopOver
<1>3. /\ t' \in 1 .. 6 /\ pc' \in {"main", "sigfpe"}
      /\ UNCHANGED <<p, cnt, sequence, bytes, onwire, refused, wire>>
  BY <1>1 DEF Finish
<1>4. TypeOK'
  BY <1>3 DEF IInv, TypeOK
<1>5. Tally' /\ AtMostCount'
  BY <1>3 DEF IInv, Tally, AtMostCount
<1>6. ReportedIsSent'
  <2>1. CASE report' = report
    BY <2>1 DEF IInv, ReportedIsSent
  <2>2. CASE report' = [test |-> Test, packets |-> CntSend, bytes |-> bytes,
                        onwire |-> onwire, refused |-> refused]
    BY <2>2, <1>2 DEF ReportedIsSent
  <2> QED BY <2>1, <2>2 DEF Finish
<1> QED BY <1>4, <1>5, <1>6 DEF IInv

-----------------------------------------------------------------------------
(* Loop counter, packets taken and bytes agree at every point of every     *)
(* test.                                                                   *)
THEOREM Inductive == Spec => []IInv
<1>1. Init => IInv
  BY InitIInv
<1>2. IInv /\ [Next]_vars => IInv'
  <2> SUFFICES ASSUME IInv, [Next]_vars PROVE IInv'
    OBVIOUS
  <2>1. CASE UNCHANGED vars
    BY <2>1 DEF vars, IInv, TypeOK, Tally, ReportedIsSent, AtMostCount, Test, Batches
  <2>2. CASE MainNext
    BY <2>2, MainNextIInv
  <2>3. CASE SendOne
    BY <2>3, SendOneIInv
  <2>4. CASE Finish
    BY <2>4, FinishIInv
  <2>5. CASE Failure \/ BatchOfZero
    BY <2>5, FailsIInv DEF Failure
  <2>6. CASE \E res \in 1 .. p.batch : SendBatch(res)
    BY <2>6, SendBatchIInv
  <2>7. CASE \E res \in 1 .. p.batch : SendLast(res)
    BY <2>7, SendLastIInv
  <2> QED BY <2>1, <2>2, <2>3, <2>4, <2>5, <2>6, <2>7 DEF Next, Step
<1> QED BY <1>1, <1>2, PTL DEF Spec

(* The count time_function() divides by is what the kernel took, unless    *)
(* sendmmsg() came back early, for every count and batch size.             *)
THEOREM ReportIsExact == Spec => []ReportedIsSent
<1>1. IInv => ReportedIsSent
  BY DEF IInv
<1> QED BY <1>1, Inductive, PTL

(* Batches and remainder never exceed --count.                             *)
THEOREM CountIsBound == Spec => []AtMostCount
<1>1. IInv => AtMostCount
  BY DEF IInv
<1> QED BY <1>1, Inductive, PTL

-----------------------------------------------------------------------------
(* The numbers on the wire.                                                *)

(* A remainder is determined by the division it comes from.                *)
LEMMA ModUnique ==
    ASSUME NEW m \in Nat \ {0}, NEW q \in Int, NEW r \in 0 .. m - 1
    PROVE  (m * q + r) % m = r
<1> DEFINE a == m * q + r
           d == a \div m
           b == a % m
<1>1. a \in Int
  OBVIOUS
<1>2. d \in Int /\ b \in 0 .. m - 1 /\ a = m * d + b
  BY <1>1
<1> HIDE DEF d, b
<1>3. m * (q - d) = b - r
  BY <1>2
<1>4. q - d \in Int /\ b - r < m /\ b - r > -m
  BY <1>2
<1>5. CASE q - d >= 1
  <2>1. m * (q - d) >= m
    BY <1>4, <1>5
  <2> QED BY <2>1, <1>3, <1>4
<1>6. CASE q - d <= -1
  <2>1. m * (q - d) <= -m
    BY <1>4, <1>6
  <2> QED BY <2>1, <1>3, <1>4
<1>7. CASE q - d = 0
  <2>1. b - r = 0
    BY <1>3, <1>7
  <2>2. b = r
    BY <2>1, <1>2
  <2> QED BY <2>2 DEF b
<1> QED BY <1>4, <1>5, <1>6, <1>7

(* Differences smaller than the modulus survive the wrap of both numbers.  *)
LEMMA ModDiff ==
    ASSUME NEW m \in Nat \ {0}, NEW a \in Int, NEW b \in Int, a - b \in 0 .. m - 1
    PROVE  /\ ((a % m) - (b % m)) % m = a - b
           /\ (a % m) \in 0 .. m - 1
<1> DEFINE x == a % m  qa == a \div m
           y == b % m  qb == b \div m
<1>1. x \in 0 .. m - 1 /\ qa \in Int /\ a = m * qa + x
  OBVIOUS
<1>2. y \in 0 .. m - 1 /\ qb \in Int /\ b = m * qb + y
  OBVIOUS
<1> HIDE DEF x, y, qa, qb
<1>3. qb - qa \in Int /\ x - y = m * (qb - qa) + (a - b)
  BY <1>1, <1>2
<1>4. (m * (qb - qa) + (a - b)) % m = a - b
  BY <1>3, ModUnique
<1>5. (x - y) % m = a - b
  BY <1>3, <1>4
<1> QED BY <1>1, <1>5 DEF x, y

LEMMA ModSmall == ASSUME NEW m \in Nat \ {0}, NEW a \in 0 .. m - 1 PROVE a % m = a
<1>1. (m * 0 + a) % m = a
  BY ModUnique
<1> QED BY <1>1

LEMMA ConcatFacts ==
    ASSUME NEW S, NEW s \in Seq(S), NEW u \in Seq(S)
    PROVE  /\ s \o u \in Seq(S) /\ Len(s \o u) = Len(s) + Len(u)
           /\ \A k \in 1 .. Len(s) + Len(u) :
                 (s \o u)[k] = IF k <= Len(s) THEN s[k] ELSE u[k - Len(s)]
  OBVIOUS

(* The longest step from one number on the wire to the next.               *)
Stride == IF "sendMmsg" \in Selected /\ p.batch > 0 THEN p.batch ELSE 1

(* The next number to be given out follows the last one sent, at most a    *)
(* cut-off batch later.                                                    *)
Follows ==
    /\ wire \in Seq(0 .. SEQ_MOD - 1)
    /\ pc \in {"loop", "sent_last"} => Test \in Selected
    /\ pc # "exit_fail_send" /\ wire # <<>> =>
          (sequence - wire[Len(wire)]) % SEQ_MOD \in 1 .. Stride

WInv == IInv /\ Follows /\ WireOrder

LEMMA StrideFact == ASSUME TypeOK PROVE Stride \in 1 .. SEQ_MOD - 1
<1>1. p.batch \in Nat /\ p.batch < SEQ_MOD /\ SEQ_MOD \in Nat /\ SEQ_MOD > 1
  BY ParamsFact, FloodAssumption DEF TypeOK
<1> QED BY <1>1 DEF Stride

LEMMA WireOrderStride == WireOrder <=>
    \A k \in 1 .. Len(wire) - 1 : (wire[k + 1] - wire[k]) % SEQ_MOD \in 1 .. Stride
  BY DEF WireOrder, Stride

(* What a call that fills n headers and sends the first res of them does.  *)
LEMMA FillAndSendWire ==
    ASSUME WInv, pc # "exit_fail_send", NEW n \in 1 .. Stride, NEW res \in 0 .. n,
           FillAndSend(n, res), UNCHANGED p
    PROVE  /\ wire' \in Seq(0 .. SEQ_MOD - 1) /\ WireOrder'
           /\ res > 0 /\ wire' # <<>> =>
                 (sequence' - wire'[Len(wire')]) % SEQ_MOD \in 1 .. Stride
<1> DEFINE M == SEQ_MOD
           S == 0 .. M - 1
           u == [k \in 1 .. res |-> (sequence + k - 1) % M]
           l == Len(wire)
<1>1. /\ M \in Nat \ {0} /\ M > 1 /\ sequence \in S /\ wire \in Seq(S) /\ l \in Nat
      /\ Stride \in 1 .. M - 1 /\ n \in Nat /\ res \in Nat /\ res <= n /\ n <= Stride
  BY StrideFact, FloodAssumption DEF WInv, IInv, TypeOK, Follows
<1>2. Stride' = Stride
  BY DEF Stride, Selected
<1>3. CASE UNCHANGED <<sequence, wire>>
  BY <1>3, <1>2, WireOrderStride DEF WInv, Follows, WireOrder, Stride, Selected
<1>4. CASE sequence' = (sequence + n) % M /\ wire' = wire \o u
  <2>1. \A k \in 1 .. res : (sequence + k - 1) % M \in S
    BY <1>1
  <2>2. u \in Seq(S) /\ Len(u) = res
    BY <1>1, <2>1
  <2>3. \A k \in 1 .. res : u[k] = (sequence + k - 1) % M
    OBVIOUS
  <2> HIDE DEF u
  <2>4. /\ wire' \in Seq(S) /\ Len(wire') = l + res
        /\ \A k \in 1 .. l + res : wire'[k] = IF k <= l THEN wire[k] ELSE u[k - l]
    BY <1>1, <1>4, <2>2, ConcatFacts
  <2>5. \A k \in 1 .. (l + res) - 1 : (wire'[k + 1] - wire'[k]) % M \in 1 .. Stride
    <3> TAKE k \in 1 .. (l + res) - 1
    <3>1. CASE k + 1 <= l
      <4>0. k \in 1 .. l - 1 /\ k \in 1 .. l + res /\ k + 1 \in 1 .. l + res /\ k <= l
        BY <1>1, <3>1
      <4>1. wire'[k + 1] = wire[k + 1] /\ wire'[k] = wire[k] /\ k \in 1 .. l - 1
        BY <2>4, <3>1, <4>0
      <4> QED BY <4>1, WireOrderStride DEF WInv
    <3>2. CASE k = l
      <4>0. /\ l \in 1 .. l + res /\ l + 1 \in 1 .. l + res /\ l <= l /\ ~(l + 1 <= l)
            /\ l + 1 - l = 1 /\ 1 \in 1 .. res /\ l # 0
        BY <1>1, <3>2
      <4>1. wire'[k + 1] = u[1] /\ wire'[k] = wire[l] /\ 1 \in 1 .. res /\ l # 0
        BY <2>4, <3>2, <4>0
      <4>2. u[1] = sequence
        <5>1. u[1] = (sequence + 1 - 1) % M
          BY <2>3, <4>1
        <5>2. sequence + 1 - 1 = sequence
          BY <1>1
        <5>3. sequence % M = sequence
          BY <1>1, ModSmall
        <5> QED BY <5>1, <5>2, <5>3
      <4>3. wire # <<>>
        BY <4>1
      <4> QED BY <4>1, <4>2, <4>3 DEF WInv, Follows
    <3>3. CASE k > l
      <4>1. k - l \in 1 .. res /\ k + 1 - l \in 1 .. res /\ k + 1 - l = (k - l) + 1
        BY <1>1, <3>3
      <4>2. wire'[k + 1] = u[k + 1 - l] /\ wire'[k] = u[k - l]
        BY <1>1, <2>4, <3>3
      <4> DEFINE a == sequence + (k + 1 - l) - 1
                 b == sequence + (k - l) - 1
      <4>3. a \in Int /\ b \in Int /\ a - b = 1
        BY <1>1, <4>1
      <4>4. wire'[k + 1] = a % M /\ wire'[k] = b % M
        BY <2>3, <4>1, <4>2
      <4> HIDE DEF a, b
      <4>5. ((a % M) - (b % M)) % M = 1
        <5>1. a - b \in 0 .. M - 1
          BY <1>1, <4>3
        <5>2. ((a % M) - (b % M)) % M = a - b
          BY <1>1, <4>3, <5>1, ModDiff
        <5> QED BY <4>3, <5>2
      <4> QED BY <1>1, <4>4, <4>5
    <3> QED BY <1>1, <3>1, <3>2, <3>3
  <2>6. ASSUME res > 0 PROVE (sequence' - wire'[Len(wire')]) % M \in 1 .. Stride
    <3> DEFINE a == sequence + n
               b == sequence + res - 1
    <3>1. a \in Int /\ b \in Int /\ a - b = n - res + 1 /\ a - b \in 0 .. M - 1
      BY <1>1, <2>6
    <3>2. wire'[Len(wire')] = b % M
      <4>1. l + res \in 1 .. l + res /\ ~(l + res <= l) /\ l + res - l = res /\ res \in 1 .. res
        BY <1>1, <2>6
      <4>2. wire'[l + res] = u[res]
        BY <2>4, <4>1
      <4> QED BY <2>3, <2>4, <4>1, <4>2
    <3>3. sequence' = a % M
      BY <1>4
    <3> HIDE DEF a, b
    <3>4. ((a % M) - (b % M)) % M = n - res + 1
      BY <1>1, <3>1, ModDiff
    <3> QED BY <1>1, <2>6, <3>2, <3>3, <3>4
  <2>7. WireOrder'
    BY <1>1, <1>2, <2>4, <2>5, WireOrderStride DEF WireOrder, Stride
  <2> QED BY <2>4, <2>6, <2>7
<1> QED BY <1>3, <1>4 DEF FillAndSend

(* Steps that send nothing with a header.                                  *)
LEMMA QuietWire ==
    ASSUME WInv, UNCHANGED <<p, sequence, wire>>, pc # "exit_fail_send",
           pc' \in {"loop", "sent_last"} => Test' \in Selected'
    PROVE  Follows' /\ WireOrder'
  BY DEF WInv, Follows, WireOrder, Stride, Selected

LEMMA MainNextWire == ASSUME WInv, MainNext PROVE Follows' /\ WireOrder'
<1>1. UNCHANGED <<p, sequence, wire>> /\ pc = "main"
  BY DEF MainNext
<1>2. pc' \in {"loop", "sent_last"} => Test' \in Selected'
  BY DEF MainNext, Test, Selected
<1> QED BY <1>1, <1>2, QuietWire

LEMMA SendOneWire == ASSUME WInv, SendOne \/ SendOneFails PROVE Follows' /\ WireOrder'
<1>1. /\ pc = "loop" /\ Test \in Selected /\ UNCHANGED <<p, t>> /\ Test' = Test
      /\ Selected' = Selected /\ pc' \in {"loop", "exit_fail_send"}
      /\ TypeOK
  BY DEF WInv, IInv, Follows, SendOne, SendOneFails, Test, Selected
<1>2. CASE UNCHANGED <<sequence, wire>>
  BY <1>1, <1>2, QuietWire
<1>3. 1 \in 1 .. Stride /\ Stride' = Stride
  BY <1>1, StrideFact DEF Stride
<1>4. CASE SendOne /\ FillAndSend(1, 1)
  <2>1. /\ wire' \in Seq(0 .. SEQ_MOD - 1) /\ WireOrder'
        /\ wire' # <<>> => (sequence' - wire'[Len(wire')]) % SEQ_MOD \in 1 .. Stride
    BY <1>1, <1>3, <1>4, FillAndSendWire
  <2> QED BY <1>1, <1>3, <2>1 DEF Follows
<1>5. CASE SendOneFails /\ FillAndSend(1, 0)
  <2>1. /\ wire' \in Seq(0 .. SEQ_MOD - 1) /\ WireOrder'
    BY <1>1, <1>3, <1>5, FillAndSendWire
  <2>2. pc' = "exit_fail_send"
    BY <1>5 DEF SendOneFails
  <2> QED BY <2>1, <2>2 DEF Follows
<1> QED BY <1>2, <1>4, <1>5 DEF SendOne, SendOneFails

LEMMA SendMmsgWire ==
    ASSUME WInv, NEW res \in 1 .. p.batch,
           SendBatch(res) \/ SendLast(res)
    PROVE  Follows' /\ WireOrder'
<1>1. /\ pc = "loop" /\ Test = "sendMmsg" /\ Test \in Selected /\ UNCHANGED <<p, t>>
      /\ Test' = Test /\ Selected' = Selected /\ pc' \in {"loop", "sent_last"}
      /\ TypeOK /\ p.batch > 0 /\ FillAndSend(p.batch, res)
  BY DEF WInv, IInv, Follows, SendBatch, SendLast, Test, Selected
<1>2. Stride = p.batch /\ Stride' = Stride /\ p.batch \in Nat
  BY <1>1, ParamsFact DEF Stride, TypeOK
<1>3. p.batch \in 1 .. Stride /\ res \in 0 .. p.batch /\ res > 0
  BY <1>1, <1>2
<1>4. /\ wire' \in Seq(0 .. SEQ_MOD - 1) /\ WireOrder'
      /\ wire' # <<>> => (sequence' - wire'[Len(wire')]) % SEQ_MOD \in 1 .. Stride
  BY <1>1, <1>3, FillAndSendWire
<1> QED BY <1>1, <1>2, <1>4 DEF Follows

LEMMA SendMmsgFailsWire == ASSUME WInv, SendMmsgFails PROVE Follows' /\ WireOrder'
<1>1. /\ pc = "loop" /\ Test = "sendMmsg" /\ Test \in Selected /\ UNCHANGED p
      /\ pc' = "exit_fail_send" /\ TypeOK /\ p.batch > 0 /\ FillAndSend(p.batch, 0)
  BY DEF WInv, IInv, Follows, SendMmsgFails
<1>2. Stride = p.batch /\ p.batch \in Nat
  BY <1>1, ParamsFact DEF Stride, TypeOK
<1>3. p.batch \in 1 .. Stride /\ 0 \in 0 .. p.batch
  BY <1>1, <1>2
<1>4. wire' \in Seq(0 .. SEQ_MOD - 1) /\ WireOrder'
  BY <1>1, <1>3, FillAndSendWire
<1> QED BY <1>1, <1>4 DEF Follows

(* The number fill_buf() gives out next follows the last one on the wire.  *)
THEOREM WireInductive == Spec => []WInv
<1>1. Init => WInv
  <2> SUFFICES ASSUME Init PROVE WInv
    OBVIOUS
  <2>1. wire = <<>> /\ pc = "main" /\ Len(<<>>) = 0
    BY DEF Init
  <2>2. Follows /\ WireOrder
    BY <2>1 DEF Follows, WireOrder
  <2> QED BY <2>2, InitIInv DEF WInv
<1>2. WInv /\ [Next]_vars => Follows' /\ WireOrder'
  <2> SUFFICES ASSUME WInv, [Next]_vars PROVE Follows' /\ WireOrder'
    OBVIOUS
  <2>1. CASE UNCHANGED vars
    BY <2>1 DEF WInv, Follows, WireOrder, Stride, Selected, Test, vars
  <2>2. CASE MainNext
    BY <2>2, MainNextWire
  <2>3. CASE SendOne \/ SendOneFails
    BY <2>3, SendOneWire
  <2>4. CASE Finish \/ BatchOfZero
    <3>1. /\ UNCHANGED <<p, sequence, wire>> /\ pc # "exit_fail_send"
          /\ pc' \notin {"loop", "sent_last"}
      BY <2>4 DEF Finish, LoopOver, BatchOfZero
    <3> QED BY <3>1, QuietWire
  <2>5. CASE SendMmsgFails
    BY <2>5, SendMmsgFailsWire
  <2>6. CASE \E res \in 1 .. p.batch : SendBatch(res) \/ SendLast(res)
    BY <2>6, SendMmsgWire
  <2> QED BY <2>1, <2>2, <2>3, <2>4, <2>5, <2>6 DEF Next, Step, Failure
<1> QED BY <1>1, <1>2, Inductive, PTL DEF Spec, WInv

(* With --pktgen-hdr the numbers on the wire go up by one, or at most by a *)
(* batch where sendmmsg() cut one short, through all tests and the wrap.   *)
THEOREM WireIsOrdered == Spec => []WireOrder
<1>1. WInv => WireOrder
  BY DEF WInv
<1> QED BY <1>1, WireInductive, PTL

-----------------------------------------------------------------------------
(* The flood with a sink.                                                  *)

(* Packets that have arrived and are not checked.                          *)
Arrived == kvec \o kqueue

Meets == \E s \in Setups : p = s.flood /\ kp = s.sink /\ (s.running \/ K!Ended)

SinkTypes ==
    /\ kpc \in {"main", "first", "run", "recv", "check", "exit_ok", "exit_fail_sock",
                "exit_fail_recv", "exit_fail_count", "exit_fail_file", "sigfpe"}
    /\ kt \in 1 .. 6 /\ kvec \in Seq(K!PacketType) /\ kqueue \in Seq(K!PacketType)
    /\ Len(kqueue) <= MaxQueue /\ klast \in K!HeaderType /\ now \in 0 .. MaxTs
    /\ kooo \in Nat /\ kbad_magic \in Nat

SinkPlace ==
    /\ kpc \in {"first", "run", "recv", "check"} => kt \in 1 .. 5 /\ K!Test \in K!Selected
    /\ kpc = "check" => kt <= 2
    /\ kpc # "check" /\ ~K!Ended => kvec = <<>>

(* What a flood puts on the link; zeros: it sends payloads without header. *)
Legal(zeros, e) ==
    \/ e.kind = "good" /\ e.hdr.magic = 1
    \/ e.kind = "zero" /\ e.hdr = K!Zero /\ zeros

OnlyLegal ==
    /\ \A k \in 1 .. Len(kvec) : Legal(SendsZero, kvec[k])
    /\ \A k \in 1 .. Len(kqueue) : Legal(SendsZero, kqueue[k])

(* Payloads without a header are sent before all others, or only they are. *)
Unnumbered == t = 1 \/ ~p.pktgen_hdr => wire = <<>>

(* With the numbers w on the link and the clock at n: the packets f, and   *)
(* the header l checked last, are in the order they were sent in, and f is *)
(* the end of what was sent.                                               *)
Fits(w, n, f, l) ==
    /\ \A k \in 1 .. Len(f) :
          /\ f[k].hdr.ts <= n
          /\ l.magic # 0 => l.ts <= f[k].hdr.ts
          /\ Len(w) - Len(f) + k <= 0 => f[k].hdr.magic = 0
          /\ Len(w) - Len(f) + k > 0 => f[k].hdr.seq = w[Len(w) - Len(f) + k]
    /\ \A j, k \in 1 .. Len(f) : j < k => f[j].hdr.ts <= f[k].hdr.ts
    /\ l.ts <= n
    /\ l.magic # 0 => Len(w) > 0

(* l was sent just before f, or one earlier.                               *)
Before(w, f, l) == Len(w) > Len(f) /\ l.seq = w[Len(w) - Len(f)]
TwoBefore(w, f, l) == Len(w) > Len(f) + 1 /\ l.seq = w[Len(w) - Len(f) - 1]

(* recvmsg's test has started, after recvMmsg's.                           *)
Passed ==
    /\ kt = 2 /\ kpc \in {"run", "recv", "check"}
    /\ "recvMmsg" \in K!Selected /\ "recvmsg" \in K!Selected

LastSeen ==
    /\ kt = 1 /\ kpc \in {"main", "first"} => klast.magic = 0
    /\ kt = 2 /\ kpc \in {"main", "first"} /\ klast.magic # 0 => "recvMmsg" \in K!Selected
    /\ kt <= 2 /\ kp.check # 0 /\ klast.magic # 0 =>
          Before(wire, Arrived, klast) \/ (Passed /\ TwoBefore(wire, Arrived, klast))

BInv ==
    /\ Meets /\ SinkTypes /\ SinkPlace /\ OnlyLegal /\ Unnumbered
    /\ Perfect /\ ~K!Ended => Fits(wire, now, Arrived, klast) /\ LastSeen
    /\ FloodRaisesNoAlarm /\ Level3AlarmIsReal

-----------------------------------------------------------------------------
(* With a sink or without one, the flood takes the same steps.             *)
THEOREM SameFlood == SpecBoth => Spec
<1>1. InitBoth => Init
  <2> SUFFICES ASSUME InitBoth PROVE Init
    OBVIOUS
  <2>1. p \in Params
    BY MeetAssumption DEF InitBoth
  <2> QED BY <2>1 DEF InitBoth, Init
<1>2. [NextBoth]_allVars => [Next]_vars
  <2> SUFFICES ASSUME [NextBoth]_allVars PROVE [Next]_vars
    OBVIOUS
  <2>1. CASE FloodStep
    BY <2>1 DEF FloodStep, Next
  <2>2. CASE SinkStep \/ SinkFails \/ Tick
    BY <2>2 DEF SinkStep, SinkFails, Tick
  <2>3. CASE UNCHANGED allVars
    BY <2>3 DEF allVars
  <2> QED BY <2>1, <2>2, <2>3 DEF NextBoth, Done
<1> QED BY <1>1, <1>2, PTL DEF SpecBoth, Spec

LEMMA FillPrefix ==
    ASSUME wire \in Seq(0 .. SEQ_MOD - 1), sequence \in 0 .. SEQ_MOD - 1,
           NEW n, NEW res \in Nat, FillAndSend(n, res)
    PROVE  /\ \A k \in 1 .. Len(wire) : wire'[k] = wire[k]
           /\ Len(wire') = (IF p.pktgen_hdr THEN Len(wire) + res ELSE Len(wire))
           /\ ~p.pktgen_hdr => wire' = wire
<1> DEFINE S == 0 .. SEQ_MOD - 1
           u == [k \in 1 .. res |-> (sequence + k - 1) % SEQ_MOD]
<1>1. CASE ~p.pktgen_hdr
  BY <1>1 DEF FillAndSend
<1>2. CASE p.pktgen_hdr
  <2>1. wire' = wire \o u
    BY <1>2 DEF FillAndSend
  <2>2. \A k \in 1 .. res : (sequence + k - 1) % SEQ_MOD \in S
    BY FloodAssumption
  <2>3. u \in Seq(S) /\ Len(u) = res
    BY <2>2
  <2> HIDE DEF u
  <2>4. Len(wire) \in Nat
    OBVIOUS
  <2>5. /\ Len(wire') = Len(wire) + res
        /\ \A k \in 1 .. Len(wire) + res : k <= Len(wire) => wire'[k] = wire[k]
    BY <2>1, <2>3, ConcatFacts
  <2>6. \A k \in 1 .. Len(wire) : k \in 1 .. Len(wire) + res /\ k <= Len(wire)
    BY <2>4
  <2> QED BY <1>2, <2>5, <2>6
<1> QED BY <1>1, <1>2

(* What a step of the flood sends: numbered packets, or payloads without a *)
(* header while there are no others.                                       *)
LEMMA FloodSends ==
    ASSUME WInv, Unnumbered, Step \/ Failure
    PROVE  /\ p' = p /\ Unnumbered' /\ Len(wire') >= Len(wire)
           /\ \A k \in 1 .. Len(wire) : wire'[k] = wire[k]
           /\ Len(wire') = Len(wire) /\ onwire' > onwire => wire = <<>> /\ SendsZero
<1>1. /\ wire \in Seq(0 .. SEQ_MOD - 1) /\ sequence \in 0 .. SEQ_MOD - 1 /\ onwire \in Nat
      /\ t \in 1 .. 6 /\ p.batch \in Nat
      /\ pc \in {"loop", "sent_last"} => t \in 1 .. 5 /\ Test \in Selected
  BY FloodAssumption DEF WInv, IInv, TypeOK, Tally, Follows, ParamsType
<1>2. Len(wire) \in Nat
  BY <1>1
<1>3. ASSUME pc = "loop" PROVE Test = "send" <=> t = 1
  BY <1>1, <1>3 DEF Test, Tests
<1>4. CASE MainNext \/ Finish \/ BatchOfZero
  <2>1. wire' = wire /\ p' = p /\ t' \in {t, t + 1} /\ onwire' \in {0, onwire}
    BY <1>4 DEF MainNext, Finish, BatchOfZero
  <2>2. t' = 1 => t = 1
    BY <1>1, <2>1
  <2>3. Unnumbered'
    BY <2>1, <2>2 DEF Unnumbered
  <2>4. ~(onwire' > onwire)
    BY <1>1, <2>1
  <2> QED BY <1>2, <2>1, <2>3, <2>4
<1>5. CASE (SendOne \/ SendOneFails) /\ Test = "send"
  <2>1. p' = p /\ wire' = wire /\ t' = t /\ pc = "loop"
    BY <1>5 DEF SendOne, SendOneFails
  <2>2. t = 1 /\ "send" \in Selected
    BY <1>1, <1>3, <1>5, <2>1
  <2> QED BY <1>2, <2>1, <2>2 DEF Unnumbered, SendsZero
<1>6. ASSUME NEW n, NEW res \in Nat, FillAndSend(n, res), t' = t, p' = p, t # 1,
             onwire' = onwire + res
      PROVE  /\ Unnumbered' /\ Len(wire') >= Len(wire)
             /\ \A k \in 1 .. Len(wire) : wire'[k] = wire[k]
             /\ Len(wire') = Len(wire) /\ onwire' > onwire => wire = <<>> /\ SendsZero
  <2>1. /\ \A k \in 1 .. Len(wire) : wire'[k] = wire[k]
        /\ Len(wire') = (IF p.pktgen_hdr THEN Len(wire) + res ELSE Len(wire))
        /\ ~p.pktgen_hdr => wire' = wire
    BY <1>1, <1>6, FillPrefix
  <2>2. Unnumbered'
    BY <1>6, <2>1 DEF Unnumbered
  <2>3. CASE p.pktgen_hdr
    BY <1>1, <1>2, <1>6, <2>1, <2>2, <2>3
  <2>4. CASE ~p.pktgen_hdr
    BY <1>2, <2>1, <2>2, <2>4 DEF Unnumbered, SendsZero
  <2> QED BY <2>3, <2>4
<1>7. CASE (SendOne \/ SendOneFails) /\ Test # "send"
  <2>1. PICK res \in {0, 1} : FillAndSend(1, res) /\ onwire' = onwire + res
    BY <1>1, <1>7 DEF SendOne, SendOneFails
  <2>2. t' = t /\ p' = p /\ t # 1
    BY <1>3, <1>7 DEF SendOne, SendOneFails
  <2>3. res \in Nat
    OBVIOUS
  <2> QED BY <1>6, <2>1, <2>2, <2>3
<1>8. CASE (\E res \in 1 .. p.batch : SendBatch(res) \/ SendLast(res)) \/ SendMmsgFails
  <2>1. PICK res \in 0 .. p.batch : FillAndSend(p.batch, res) /\ onwire' = onwire + res
    BY <1>1, <1>8 DEF SendBatch, SendLast, SendMmsgFails
  <2>2. t' = t /\ p' = p /\ pc = "loop" /\ Test = "sendMmsg"
    BY <1>8 DEF SendBatch, SendLast, SendMmsgFails
  <2>3. t # 1 /\ res \in Nat
    BY <1>1, <1>3, <2>2
  <2> QED BY <1>6, <2>1, <2>2, <2>3
<1> QED BY <1>4, <1>5, <1>7, <1>8 DEF Step, Failure

LEMMA SinkConstants ==
    /\ SEQ_MOD \in Nat \ {0} /\ WRAP_LIMIT \in 0 .. SEQ_MOD /\ MaxQueue \in Nat
    /\ MaxTs \in Nat \ {0} /\ K!Zero \in K!HeaderType /\ K!Zero.magic = 0 /\ K!Zero.ts = 0
  BY FloodAssumption, MeetAssumption DEF K!Zero, K!HeaderType

LEMMA DiffPositive ==
    ASSUME NEW a \in Nat, NEW b \in Nat, NEW d, d = b - a, d > 0 PROVE b > a
  OBVIOUS

(* The packets of a step.                                                  *)
LEMMA PacketsFacts ==
    ASSUME WInv, WInv', Unnumbered, Step \/ Failure, now \in 0 .. MaxTs
    PROVE  /\ Packets \in Seq(K!PacketType) /\ Len(Packets) \in Nat
           /\ \A k \in 1 .. Len(Packets) : Legal(SendsZero, Packets[k]) /\ Packets[k].hdr.ts <= now
           /\ \/ /\ Len(wire') = Len(wire) + Len(Packets)
                 /\ \A k \in 1 .. Len(Packets) :
                       Packets[k].hdr.seq = wire'[Len(wire) + k] /\ Packets[k].hdr.ts = now
              \/ /\ Len(wire') = Len(wire) /\ wire = <<>>
                 /\ \A k \in 1 .. Len(Packets) : Packets[k].hdr = K!Zero
<1>1. /\ wire \in Seq(0 .. SEQ_MOD - 1) /\ wire' \in Seq(0 .. SEQ_MOD - 1)
      /\ onwire \in Nat /\ onwire' \in Nat /\ now \in Nat
  BY SinkConstants DEF WInv, IInv, TypeOK, Follows
<1>2. PICK l \in Nat, m \in Nat, n \in Int : l = Len(wire) /\ m = Len(wire') /\ n = onwire' - onwire
  <2>1. Len(wire) \in Nat /\ Len(wire') \in Nat /\ onwire' - onwire \in Int
    BY <1>1
  <2> QED BY <2>1
<1>3. m >= l /\ (m = l /\ n > 0 => wire = <<>> /\ SendsZero)
  <2>0. /\ Len(wire') >= Len(wire)
        /\ Len(wire') = Len(wire) /\ onwire' > onwire => wire = <<>> /\ SendsZero
    BY FloodSends
  <2>1. m >= l /\ (m = l /\ onwire' > onwire => wire = <<>> /\ SendsZero)
    BY ONLY <2>0, <1>2
  <2>2. n > 0 => onwire' > onwire
    <3>1. onwire \in Nat /\ onwire' \in Nat /\ n = onwire' - onwire
      BY <1>1, <1>2
    <3> QED BY ONLY <3>1, DiffPositive
  <2> QED BY <2>1, <2>2
<1>4. CASE m > l
  <2> DEFINE P(k) == [kind |-> "good", hdr |-> [magic |-> 1, seq |-> wire'[l + k], ts |-> now]]
  <2>1. Packets = [k \in 1 .. m - l |-> P(k)]
    BY <1>2, <1>4 DEF Packets
  <2>2. ASSUME NEW k \in 1 .. m - l PROVE wire'[l + k] \in 0 .. SEQ_MOD - 1
    <3>1. l + k \in 1 .. Len(wire')
      BY <1>2, <2>2
    <3> QED BY <1>1, <3>1, ElementOfSeq
  <2>3. \A k \in 1 .. m - l : /\ P(k) \in K!PacketType /\ Legal(SendsZero, P(k)) /\ P(k).hdr.ts = now
                              /\ P(k).hdr.seq = wire'[l + k]
    BY <2>2 DEF K!PacketType, K!HeaderType, Legal
  <2> HIDE DEF P
  <2>4. m - l \in Nat
    BY <1>2, <1>4
  <2>5. Packets \in Seq(K!PacketType) /\ Len(Packets) = m - l
        /\ \A k \in 1 .. m - l : Packets[k] = P(k)
    BY <2>1, <2>3, <2>4
  <2>6. now <= now /\ m = l + (m - l)
    BY <1>1, <1>2
  <2> QED BY <1>2, <2>3, <2>4, <2>5, <2>6
<1>5. CASE m = l
  <2> DEFINE z == [kind |-> "zero", hdr |-> K!Zero]
  <2>1. Packets = [k \in 1 .. n |-> z]
    BY <1>2, <1>5 DEF Packets
  <2>2. z \in K!PacketType /\ z.hdr = K!Zero /\ (SendsZero => Legal(SendsZero, z)) /\ K!Zero.ts <= now
    BY <1>1, SinkConstants DEF K!PacketType, Legal
  <2> HIDE DEF z
  <2>3. CASE n > 0
    <3>1. n \in Nat
      BY <2>3
    <3>2. Packets \in Seq(K!PacketType) /\ Len(Packets) = n /\ \A k \in 1 .. n : Packets[k] = z
      BY <2>1, <2>2, <3>1
    <3> QED BY <1>2, <1>3, <1>5, <2>2, <2>3, <3>1, <3>2
  <2>4. CASE ~(n > 0)
    <3>1. 1 .. n = {}
      BY <1>2, <2>4
    <3>2. Packets = <<>>
      BY <2>1, <3>1
    <3>3. Packets \in Seq(K!PacketType) /\ Len(Packets) = 0
      BY <3>2, EmptySeq
    <3> QED BY <1>2, <1>5, <3>3
  <2> QED BY <2>3, <2>4
<1> QED BY <1>2, <1>3, <1>4, <1>5

-----------------------------------------------------------------------------
(* Sequences, and the order of the packets.                                *)

LEMMA TailElements ==
    ASSUME NEW S, NEW f \in Seq(S), f # <<>>
    PROVE  /\ f[1] \in S /\ Head(f) = f[1] /\ Tail(f) \in Seq(S) /\ Len(f) \in Nat \ {0}
           /\ Len(Tail(f)) = Len(f) - 1
           /\ \A k \in 1 .. Len(Tail(f)) : k + 1 \in 1 .. Len(f) /\ Tail(f)[k] = f[k + 1]
           /\ Tail(f) = <<>> => Len(f) = 1
           /\ Tail(f) # <<>> => /\ Len(f) >= 2 /\ Len(Tail(f)) >= 1 /\ Tail(f)[1] = f[2]
                                /\ f[2] \in S
<1>1. /\ f[1] \in S /\ Head(f) = f[1] /\ Tail(f) \in Seq(S) /\ Len(f) \in Nat \ {0}
      /\ Len(Tail(f)) = Len(f) - 1
      /\ \A k \in 1 .. Len(Tail(f)) : k + 1 \in 1 .. Len(f) /\ Tail(f)[k] = f[k + 1]
  OBVIOUS
<1>2. Tail(f) = <<>> => Len(f) = 1
  <2> SUFFICES ASSUME Tail(f) = <<>> PROVE Len(f) = 1
    OBVIOUS
  <2>1. Len(Tail(f)) = 0
    BY EmptySeq
  <2> QED BY <2>1, <1>1
<1>3. Tail(f) # <<>> => Len(f) >= 2
  <2> SUFFICES ASSUME Tail(f) # <<>> PROVE Len(f) >= 2
    OBVIOUS
  <2>1. Len(Tail(f)) \in Nat \ {0}
    BY <1>1, EmptySeq
  <2> QED BY <2>1, <1>1
<1>4. Len(f) >= 2 => /\ Len(Tail(f)) >= 1 /\ Tail(f)[1] = f[2] /\ f[2] \in S
  <2> SUFFICES ASSUME Len(f) >= 2 PROVE Len(Tail(f)) >= 1 /\ Tail(f)[1] = f[2] /\ f[2] \in S
    OBVIOUS
  <2>1. 1 \in 1 .. Len(Tail(f)) /\ 1 + 1 = 2 /\ 2 \in 1 .. Len(f) /\ Len(Tail(f)) >= 1
    BY <1>1
  <2>2. f[2] \in S
    BY <2>1, ElementOfSeq
  <2> QED BY <1>1, <2>1, <2>2
<1> QED BY <1>1, <1>2, <1>3, <1>4

LEMMA ArrivedTail ==
    ASSUME NEW S, NEW v \in Seq(S), NEW q \in Seq(S), v # <<>>
    PROVE  /\ v \o q # <<>> /\ (v \o q)[1] = Head(v)
           /\ Tail(v) \o q = Tail(v \o q)
<1> DEFINE a == Tail(v) \o q
           b == Tail(v \o q)
<1>1. /\ Tail(v) \in Seq(S) /\ Len(Tail(v)) = Len(v) - 1 /\ Head(v) = v[1]
      /\ \A k \in 1 .. Len(Tail(v)) : Tail(v)[k] = v[k + 1]
      /\ Len(v) \in Nat \ {0} /\ Len(q) \in Nat
  BY TailElements
<1>2. /\ v \o q \in Seq(S) /\ Len(v \o q) = Len(v) + Len(q)
      /\ \A k \in 1 .. Len(v) + Len(q) :
            (v \o q)[k] = IF k <= Len(v) THEN v[k] ELSE q[k - Len(v)]
  BY ConcatProperties
<1>3. v \o q # <<>>
  BY <1>1, <1>2, EmptySeq
<1>4. (v \o q)[1] = Head(v)
  <2>1. 1 \in 1 .. Len(v) + Len(q) /\ 1 <= Len(v)
    BY <1>1
  <2> QED BY <1>1, <1>2, <2>1
<1>5. /\ b \in Seq(S) /\ Len(b) = Len(v) + Len(q) - 1
      /\ \A k \in 1 .. Len(b) : b[k] = (v \o q)[k + 1]
  <2>1. /\ b \in Seq(S) /\ Len(b) = Len(v \o q) - 1
        /\ \A k \in 1 .. Len(b) : b[k] = (v \o q)[k + 1]
    BY <1>2, <1>3, HeadTailProperties
  <2> QED BY <1>2, <2>1
<1>6. /\ a \in Seq(S) /\ Len(a) = Len(v) - 1 + Len(q)
      /\ \A k \in 1 .. Len(v) - 1 + Len(q) :
            a[k] = IF k <= Len(v) - 1 THEN Tail(v)[k] ELSE q[k - (Len(v) - 1)]
  BY <1>1, ConcatProperties
<1> HIDE DEF a, b
<1>7. \A k \in 1 .. Len(a) : a[k] = b[k]
  <2> TAKE k \in 1 .. Len(a)
  <2>1. /\ k \in 1 .. Len(v) - 1 + Len(q) /\ k \in 1 .. Len(b)
        /\ k + 1 \in 1 .. Len(v) + Len(q)
        /\ k <= Len(v) - 1 <=> k + 1 <= Len(v)
        /\ k - (Len(v) - 1) = (k + 1) - Len(v)
    BY <1>1, <1>5, <1>6
  <2>2. b[k] = IF k + 1 <= Len(v) THEN v[k + 1] ELSE q[(k + 1) - Len(v)]
    BY <1>2, <1>5, <2>1
  <2>3. CASE k <= Len(v) - 1
    <3>1. k \in 1 .. Len(Tail(v))
      BY <1>1, <2>1, <2>3
    <3>2. a[k] = Tail(v)[k] /\ Tail(v)[k] = v[k + 1]
      BY <1>1, <1>6, <2>1, <2>3, <3>1
    <3> QED BY <2>1, <2>2, <2>3, <3>2
  <2>4. CASE ~(k <= Len(v) - 1)
    BY <1>6, <2>1, <2>2, <2>4
  <2> QED BY <2>3, <2>4
<1>8. Len(a) = Len(b)
  BY <1>1, <1>5, <1>6
<1>9. a = b
  BY <1>5, <1>6, <1>7, <1>8, SeqEqual
<1> QED BY <1>3, <1>4, <1>9 DEF a, b

LEMMA ArrivedSplit ==
    ASSUME NEW S, NEW q \in Seq(S), NEW n \in 0 .. Len(q)
    PROVE  SubSeq(q, 1, n) \o SubSeq(q, n + 1, Len(q)) = q
<1>1. /\ Len(q) \in Nat /\ 1 \in 1 .. Len(q) + 1 /\ n \in 1 - 1 .. Len(q)
      /\ Len(q) \in n .. Len(q)
  OBVIOUS
<1>2. SubSeq(q, 1, n) \o SubSeq(q, n + 1, Len(q)) = SubSeq(q, 1, Len(q))
  BY <1>1, ConcatAdjacentSubSeq
<1> QED BY <1>2, SubSeqFull

LEMMA ArrivedHead ==
    ASSUME NEW S, NEW q \in Seq(S), q # <<>>
    PROVE  <<Head(q)>> \o Tail(q) = q
<1>1. /\ Len(q) \in Nat \ {0} /\ Head(q) = q[1]
  BY TailElements
<1>2. 1 \in 1 .. Len(q) /\ Len(q) \in 1 .. Len(q) /\ 1 + 1 = 2
  BY <1>1
<1>3. SubSeq(q, 1, Len(q)) = <<q[1]>> \o SubSeq(q, 2, Len(q))
  BY <1>2, SubSeqRecursiveFirst
<1> QED BY <1>1, <1>3, SubSeqFull, TailIsSubSeq

LEMMA HeaderInts ==
    ASSUME NEW x \in K!HeaderType
    PROVE  x.seq \in 0 .. SEQ_MOD - 1 /\ x.seq \in Int /\ x.ts \in Nat /\ x.magic \in {0, 1}
  BY FloodAssumption, MeetAssumption DEF K!HeaderType

LEMMA PacketHeader == ASSUME NEW e \in K!PacketType PROVE e.hdr \in K!HeaderType
  BY DEF K!PacketType

(* Numbered packets are appended to the link and to what has arrived.      *)
LEMMA FitsAppend ==
    ASSUME NEW w, NEW v, Len(w) \in Nat, NEW n \in Nat, NEW l \in K!HeaderType,
           NEW f \in Seq(K!PacketType), NEW u \in Seq(K!PacketType),
           Fits(w, n, f, l), Len(v) = Len(w) + Len(u),
           \A k \in 1 .. Len(w) : v[k] = w[k],
           \A k \in 1 .. Len(u) : u[k].hdr.seq = v[Len(w) + k] /\ u[k].hdr.ts = n
    PROVE  Fits(v, n, f \o u, l)
<1> DEFINE g == f \o u
           a == Len(f)
           b == Len(u)
           c == Len(w)
<1>1. /\ a \in Nat /\ b \in Nat /\ c \in Nat /\ Len(g) = a + b /\ Len(v) = c + b
      /\ \A k \in 1 .. a + b : g[k] = IF k <= a THEN f[k] ELSE u[k - a]
  BY ConcatFacts
<1>2. /\ \A k \in 1 .. a :
            /\ f[k].hdr.ts <= n
            /\ l.magic # 0 => l.ts <= f[k].hdr.ts
            /\ c - a + k <= 0 => f[k].hdr.magic = 0
            /\ c - a + k > 0 => f[k].hdr.seq = w[c - a + k]
      /\ \A j, k \in 1 .. a : j < k => f[j].hdr.ts <= f[k].hdr.ts
      /\ l.ts <= n
      /\ l.magic # 0 => c > 0
  BY DEF Fits
<1>3. \A k \in 1 .. b : u[k].hdr.seq = v[c + k] /\ u[k].hdr.ts = n
  OBVIOUS
<1>4. \A k \in 1 .. c : v[k] = w[k]
  OBVIOUS
<1> HIDE DEF g, a, b, c
<1>5. ASSUME NEW k \in 1 .. a + b
      PROVE  /\ g[k].hdr.ts <= n
             /\ l.magic # 0 => l.ts <= g[k].hdr.ts
             /\ (c + b) - (a + b) + k <= 0 => g[k].hdr.magic = 0
             /\ (c + b) - (a + b) + k > 0 => g[k].hdr.seq = v[(c + b) - (a + b) + k]
  <2>0. (c + b) - (a + b) + k = c - a + k /\ c - a + k \in Int
    BY <1>1, <1>5
  <2>1. CASE k <= a
    <3>1. k \in 1 .. a /\ g[k] = f[k] /\ (c - a + k > 0 => c - a + k \in 1 .. c)
      BY <1>1, <1>5, <2>1
    <3>2. PICK x : x = c - a + k
      OBVIOUS
    <3>3. /\ f[k].hdr.ts <= n
          /\ l.magic # 0 => l.ts <= f[k].hdr.ts
          /\ x <= 0 => f[k].hdr.magic = 0
          /\ x > 0 => f[k].hdr.seq = w[x]
      <4>1. k \in 1 .. a
        BY <3>1
      <4>2. /\ f[k].hdr.ts <= n
            /\ l.magic # 0 => l.ts <= f[k].hdr.ts
            /\ c - a + k <= 0 => f[k].hdr.magic = 0
            /\ c - a + k > 0 => f[k].hdr.seq = w[c - a + k]
        BY ONLY <1>2, <4>1, Zenon
      <4> QED BY ONLY <4>2, <3>2, Zenon
    <3>4. (c + b) - (a + b) + k = x /\ (x > 0 => v[x] = w[x])
      BY <1>4, <2>0, <3>1, <3>2
    <3> QED BY <3>1, <3>3, <3>4
  <2>2. CASE ~(k <= a)
    <3>1. k - a \in 1 .. b /\ g[k] = u[k - a] /\ c + (k - a) = c - a + k /\ c - a + k > 0
      BY <1>1, <1>5, <2>2
    <3>2. g[k].hdr.seq = v[c - a + k] /\ g[k].hdr.ts = n
      BY <1>3, <3>1
    <3>3. ~(c - a + k <= 0) /\ n <= n
      BY <2>0, <3>1
    <3> QED BY <1>2, <2>0, <3>2, <3>3
  <2> QED BY <2>1, <2>2
<1>6. ASSUME NEW j \in 1 .. a + b, NEW k \in 1 .. a + b, j < k
      PROVE  g[j].hdr.ts <= g[k].hdr.ts
  <2>1. CASE k <= a
    <3>1. j \in 1 .. a /\ k \in 1 .. a /\ g[j] = f[j] /\ g[k] = f[k]
      BY <1>1, <1>6, <2>1
    <3> QED BY <1>2, <1>6, <3>1
  <2>2. CASE ~(k <= a)
    <3>1. k - a \in 1 .. b /\ g[k] = u[k - a]
      BY <1>1, <1>6, <2>2
    <3>2. g[k].hdr.ts = n
      BY <1>3, <3>1
    <3> QED BY <1>5, <3>2
  <2> QED BY <2>1, <2>2
<1>7. l.magic # 0 => c + b > 0
  BY <1>1, <1>2
<1>8. Fits(v, n, g, l)
  <2>1. Len(g) = a + b /\ Len(v) = c + b /\ l.ts <= n
    BY <1>1, <1>2
  <2>2. \A k \in 1 .. Len(g) :
           /\ g[k].hdr.ts <= n
           /\ l.magic # 0 => l.ts <= g[k].hdr.ts
           /\ Len(v) - Len(g) + k <= 0 => g[k].hdr.magic = 0
           /\ Len(v) - Len(g) + k > 0 => g[k].hdr.seq = v[Len(v) - Len(g) + k]
    <3> TAKE k \in 1 .. Len(g)
    <3>1. k \in 1 .. a + b
      BY <2>1
    <3>2. /\ g[k].hdr.ts <= n
          /\ l.magic # 0 => l.ts <= g[k].hdr.ts
          /\ (c + b) - (a + b) + k <= 0 => g[k].hdr.magic = 0
          /\ (c + b) - (a + b) + k > 0 => g[k].hdr.seq = v[(c + b) - (a + b) + k]
      BY ONLY <1>5, <3>1, Zenon
    <3>3. Len(v) - Len(g) + k = (c + b) - (a + b) + k
      BY ONLY <2>1, Zenon
    <3> QED BY ONLY <3>2, <3>3, Zenon
  <2>3. \A j, k \in 1 .. Len(g) : j < k => g[j].hdr.ts <= g[k].hdr.ts
    BY ONLY <2>1, <1>6
  <2>4. l.magic # 0 => Len(v) > 0
    BY ONLY <2>1, <1>7
  <2> QED BY ONLY <2>1, <2>2, <2>3, <2>4 DEF Fits
<1> QED BY <1>8 DEF g

(* The header checked last stays where it is.                              *)
LEMMA BeforeAppend ==
    ASSUME NEW w, NEW v, Len(w) \in Nat, NEW l,
           NEW f \in Seq(K!PacketType), NEW u \in Seq(K!PacketType),
           Len(v) = Len(w) + Len(u), \A k \in 1 .. Len(w) : v[k] = w[k]
    PROVE  /\ Before(w, f, l) => Before(v, f \o u, l)
           /\ TwoBefore(w, f, l) => TwoBefore(v, f \o u, l)
<1>1. /\ Len(f) \in Nat /\ Len(u) \in Nat /\ Len(f \o u) = Len(f) + Len(u)
  BY ConcatFacts
<1>2. PICK a \in Nat, b \in Nat, c \in Nat : a = Len(f) /\ b = Len(u) /\ c = Len(w)
  BY <1>1
<1>3. Len(f \o u) = a + b /\ Len(v) = c + b
  BY <1>1, <1>2
<1>4. (c > a => c - a \in 1 .. c) /\ (c > a + 1 => c - a - 1 \in 1 .. c)
  BY <1>2
<1>5. /\ (c + b) - (a + b) = c - a /\ (c + b) - (a + b) - 1 = c - a - 1
      /\ (c > a => c + b > a + b) /\ (c > a + 1 => c + b > a + b + 1)
  BY <1>2
<1>6. (c > a => v[c - a] = w[c - a]) /\ (c > a + 1 => v[c - a - 1] = w[c - a - 1])
  BY <1>2, <1>4
<1> QED BY <1>2, <1>3, <1>5, <1>6 DEF Before, TwoBefore

(* Payloads without a header are appended while there are no others.       *)
LEMMA FitsZero ==
    ASSUME NEW w, Len(w) = 0, NEW n \in Nat, NEW l \in K!HeaderType,
           NEW f \in Seq(K!PacketType), NEW u \in Seq(K!PacketType), Fits(w, n, f, l),
           \A k \in 1 .. Len(f) : Legal(SendsZero, f[k]),
           \A k \in 1 .. Len(u) : u[k].hdr = K!Zero
    PROVE  Fits(w, n, f \o u, l) /\ l.magic = 0
<1> DEFINE g == f \o u
           a == Len(f)
           b == Len(u)
<1>1. /\ a \in Nat /\ b \in Nat /\ Len(g) = a + b
      /\ \A k \in 1 .. a + b : g[k] = IF k <= a THEN f[k] ELSE u[k - a]
  BY ConcatFacts
<1>2. l.magic = 0 /\ l.ts <= n
  BY DEF Fits
<1>3. ASSUME NEW k \in 1 .. a PROVE f[k].hdr = K!Zero
  <2>1. 0 - a + k <= 0 /\ k \in 1 .. Len(f)
    BY <1>1, <1>3
  <2>2. f[k].hdr.magic = 0 /\ Legal(SendsZero, f[k])
    BY <2>1 DEF Fits
  <2> QED BY <2>2 DEF Legal
<1>4. \A k \in 1 .. b : u[k].hdr = K!Zero
  OBVIOUS
<1> HIDE DEF g, a, b
<1>5. ASSUME NEW k \in 1 .. a + b PROVE g[k].hdr = K!Zero
  <2>1. CASE k <= a
    <3>1. k \in 1 .. a
      BY <1>1, <1>5, <2>1
    <3> QED BY <1>1, <1>3, <2>1, <3>1
  <2>2. CASE ~(k <= a)
    <3>1. k - a \in 1 .. b
      BY <1>1, <1>5, <2>2
    <3> QED BY <1>1, <1>4, <2>2, <3>1
  <2> QED BY <2>1, <2>2
<1>6. ASSUME NEW k \in 1 .. a + b PROVE 0 - (a + b) + k <= 0 /\ ~(0 - (a + b) + k > 0)
  BY <1>1, <1>6
<1>7. K!Zero.magic = 0 /\ K!Zero.ts = 0 /\ 0 <= 0 /\ 0 <= n
  BY SinkConstants
<1>8. Fits(w, n, g, l)
  BY <1>1, <1>2, <1>5, <1>6, <1>7 DEF Fits
<1> QED BY <1>2, <1>8 DEF g

(* The oldest packet is taken, unchecked ...                               *)
LEMMA FitsTail ==
    ASSUME NEW w, Len(w) \in Nat, NEW n, NEW l, NEW f \in Seq(K!PacketType), f # <<>>,
           Fits(w, n, f, l)
    PROVE  /\ Fits(w, n, Tail(f), l)
           /\ Before(w, f, l) => TwoBefore(w, Tail(f), l)
<1> DEFINE g == Tail(f)
<1>1. /\ Len(f) \in Nat \ {0} /\ Len(g) = Len(f) - 1
      /\ \A k \in 1 .. Len(g) : k + 1 \in 1 .. Len(f) /\ g[k] = f[k + 1]
  BY TailElements
<1> HIDE DEF g
<1>2. PICK a \in Nat, c \in Nat : a = Len(g) /\ c = Len(w) /\ a + 1 = Len(f)
  BY <1>1
<1>3. \A k \in 1 .. a : k + 1 \in 1 .. a + 1 /\ g[k] = f[k + 1] /\ c - (a + 1) + (k + 1) = c - a + k
  BY <1>1, <1>2
<1>4. \A j, k \in 1 .. a : j < k => j + 1 < k + 1
  BY <1>2
<1>5. /\ \A k \in 1 .. a + 1 :
            /\ f[k].hdr.ts <= n
            /\ l.magic # 0 => l.ts <= f[k].hdr.ts
            /\ c - (a + 1) + k <= 0 => f[k].hdr.magic = 0
            /\ c - (a + 1) + k > 0 => f[k].hdr.seq = w[c - (a + 1) + k]
      /\ \A j, k \in 1 .. a + 1 : j < k => f[j].hdr.ts <= f[k].hdr.ts
      /\ l.ts <= n
      /\ l.magic # 0 => c > 0
  BY <1>2 DEF Fits
<1>6. ASSUME NEW k \in 1 .. a
      PROVE  /\ g[k].hdr.ts <= n
             /\ l.magic # 0 => l.ts <= g[k].hdr.ts
             /\ c - a + k <= 0 => g[k].hdr.magic = 0
             /\ c - a + k > 0 => g[k].hdr.seq = w[c - a + k]
  <2>1. PICK m : m = k + 1
    OBVIOUS
  <2>2. m \in 1 .. a + 1 /\ g[k] = f[m] /\ c - (a + 1) + m = c - a + k
    BY <1>3, <2>1
  <2>3. PICK x : x = c - a + k
    OBVIOUS
  <2>4. c - (a + 1) + m = x
    BY <2>2, <2>3
  <2>5. /\ f[m].hdr.ts <= n
        /\ l.magic # 0 => l.ts <= f[m].hdr.ts
        /\ c - (a + 1) + m <= 0 => f[m].hdr.magic = 0
        /\ c - (a + 1) + m > 0 => f[m].hdr.seq = w[c - (a + 1) + m]
    <3>1. m \in 1 .. a + 1
      BY <2>2
    <3> QED BY ONLY <1>5, <3>1, Zenon
  <2>6. /\ f[m].hdr.ts <= n
        /\ l.magic # 0 => l.ts <= f[m].hdr.ts
        /\ x <= 0 => f[m].hdr.magic = 0
        /\ x > 0 => f[m].hdr.seq = w[x]
    BY ONLY <2>4, <2>5
  <2> QED BY ONLY <2>2, <2>3, <2>6
<1>7. ASSUME NEW j \in 1 .. a, NEW k \in 1 .. a, j < k PROVE g[j].hdr.ts <= g[k].hdr.ts
  <2>1. /\ j + 1 \in 1 .. a + 1 /\ k + 1 \in 1 .. a + 1 /\ j + 1 < k + 1
        /\ g[j] = f[j + 1] /\ g[k] = f[k + 1]
    BY <1>3, <1>4, <1>7
  <2> QED BY <1>5, <2>1
<1>8. Fits(w, n, g, l)
  BY <1>2, <1>5, <1>6, <1>7 DEF Fits
<1>9. Before(w, f, l) => TwoBefore(w, g, l)
  <2>1. c - (a + 1) = c - a - 1
    BY <1>2
  <2> QED BY <1>2, <2>1 DEF Before, TwoBefore
<1> QED BY <1>8, <1>9 DEF g

(* ... or checked.                                                         *)
LEMMA FitsHead ==
    ASSUME NEW w, Len(w) \in Nat, NEW n, NEW l, NEW f \in Seq(K!PacketType), f # <<>>,
           Fits(w, n, f, l)
    PROVE  /\ Fits(w, n, Tail(f), f[1].hdr)
           /\ f[1].hdr.magic # 0 => Before(w, Tail(f), f[1].hdr)
<1> DEFINE g == Tail(f)
           h == f[1].hdr
<1>1. /\ Len(f) \in Nat \ {0} /\ Len(g) = Len(f) - 1
      /\ \A k \in 1 .. Len(g) : k + 1 \in 1 .. Len(f) /\ g[k] = f[k + 1]
  BY TailElements
<1>2. Fits(w, n, g, l)
  BY FitsTail
<1> HIDE DEF g, h
<1>3. 1 \in 1 .. Len(f) /\ \A k \in 1 .. Len(g) : 1 < k + 1
  BY <1>1
<1>4. \A k \in 1 .. Len(g) : h.ts <= g[k].hdr.ts
  BY <1>1, <1>3 DEF Fits, h
<1>5. /\ h.ts <= n
      /\ Len(w) - Len(f) + 1 <= 0 => h.magic = 0
      /\ Len(w) - Len(f) + 1 > 0 => h.seq = w[Len(w) - Len(f) + 1]
  BY <1>3 DEF Fits, h
<1>6. h.magic # 0 => /\ Len(w) > Len(g) /\ Len(w) > 0
                     /\ Len(w) - Len(f) + 1 > 0 /\ Len(w) - Len(f) + 1 = Len(w) - Len(g)
  BY <1>1, <1>5
<1>7. Fits(w, n, g, h)
  BY <1>2, <1>4, <1>5, <1>6 DEF Fits
<1>8. h.magic # 0 => Before(w, g, h)
  BY <1>5, <1>6 DEF Before
<1> QED BY <1>7, <1>8 DEF g, h

(* A step between two numbers on the wire, with or without a wrap.         *)
LEMMA WrapStep ==
    ASSUME NEW m \in Nat \ {0}, NEW x \in 0 .. m - 1, NEW y \in 0 .. m - 1, NEW d,
           d = (y - x) % m
    PROVE  y - x = d \/ y - x = d - m
<1>1. CASE y - x >= 0
  <2>1. y - x \in 0 .. m - 1
    BY <1>1
  <2>2. (y - x) % m = y - x
    BY <2>1, ModSmall
  <2> QED BY <2>2
<1>2. CASE ~(y - x >= 0)
  <2>1. (y - x) + m \in 0 .. m - 1 /\ m * (-1) + ((y - x) + m) = y - x /\ -1 \in Int
    BY <1>2
  <2>2. (m * (-1) + ((y - x) + m)) % m = (y - x) + m
    BY <2>1, ModUnique
  <2>3. d = (y - x) + m
    BY <2>1, <2>2
  <2> QED BY <2>3
<1> QED BY <1>1, <1>2

(* Numbers up to r apart are not taken for older ones.                     *)
LEMMA NotTakenForOlder ==
    ASSUME NEW m \in Nat \ {0}, NEW g \in 0 .. m, NEW x \in 0 .. m - 1, NEW y \in 0 .. m - 1,
           NEW d \in Nat, d > 0, d <= m - g,
           y - x = d \/ y - x = d - m \/ y - x = d - m - m
    PROVE  ~(y < x /\ x < g)
  OBVIOUS

LEMMA TwoSteps ==
    ASSUME NEW m \in Nat \ {0}, NEW x \in 0 .. m - 1, NEW y \in 0 .. m - 1, NEW z \in 0 .. m - 1,
           NEW d \in Nat, NEW e \in Nat,
           y - x = d \/ y - x = d - m, z - y = e \/ z - y = e - m
    PROVE  z - x = d + e \/ z - x = (d + e) - m \/ z - x = (d + e) - m - m
  OBVIOUS

LEMMA OneStepBack ==
    ASSUME NEW m \in Nat \ {0}, NEW x \in 0 .. m - 1, NEW y \in 0 .. m - 1,
           NEW d \in Nat, y - x = d \/ y - x = d - m
    PROVE  y - x = d \/ y - x = d - m \/ y - x = d - m - m
  OBVIOUS

LEMMA StrideRoom ==
    ASSUME TypeOK, Meets, ~K!Ended PROVE 2 * Stride <= SEQ_MOD - WRAP_LIMIT
<1>1. PICK s \in Setups : p = s.flood /\ s.running
  BY DEF Meets
<1>2. \A b \in {1, p.batch} : 2 * b <= SEQ_MOD - WRAP_LIMIT
  BY <1>1, MeetAssumption
<1>3. Stride \in {1, p.batch}
  BY DEF Stride
<1> QED BY <1>2, <1>3

(* Neighbours on the wire, and the number after next.                      *)
LEMMA WireNeighbours ==
    ASSUME WInv, NEW k \in 1 .. Len(wire) - 1
    PROVE  /\ wire[k] \in 0 .. SEQ_MOD - 1 /\ wire[k + 1] \in 0 .. SEQ_MOD - 1
           /\ \E d \in 1 .. Stride :
                 wire[k + 1] - wire[k] = d \/ wire[k + 1] - wire[k] = d - SEQ_MOD
<1>1. wire \in Seq(0 .. SEQ_MOD - 1) /\ Len(wire) \in Nat
  BY DEF WInv, Follows
<1>2. k \in 1 .. Len(wire) /\ k + 1 \in 1 .. Len(wire)
  BY <1>1
<1>3. wire[k] \in 0 .. SEQ_MOD - 1 /\ wire[k + 1] \in 0 .. SEQ_MOD - 1
  BY <1>1, <1>2, ElementOfSeq
<1>4. (wire[k + 1] - wire[k]) % SEQ_MOD \in 1 .. Stride
  BY WireOrderStride DEF WInv
<1>5. PICK d : d = (wire[k + 1] - wire[k]) % SEQ_MOD
  OBVIOUS
<1>6. wire[k + 1] - wire[k] = d \/ wire[k + 1] - wire[k] = d - SEQ_MOD
  BY <1>3, <1>5, WrapStep, SinkConstants
<1> QED BY <1>3, <1>4, <1>5, <1>6

(* A packet that follows the one checked last, directly or with one in     *)
(* between, is not called older than that one.                             *)
LEMMA NotOlder ==
    ASSUME WInv, Meets, ~K!Ended, NEW f \in Seq(K!PacketType), f # <<>>,
           klast \in K!HeaderType, Fits(wire, now, f, klast),
           Before(wire, f, klast) \/ TwoBefore(wire, f, klast)
    PROVE  ~K!Older(f[1].hdr)
<1>1. /\ wire \in Seq(0 .. SEQ_MOD - 1) /\ Len(wire) \in Nat /\ Len(f) \in Nat \ {0}
      /\ f[1].hdr \in K!HeaderType /\ TypeOK
  BY TailElements, PacketHeader DEF WInv, IInv, Follows
<1>2. PICK a \in Nat, c \in Nat : a = Len(f) /\ c = Len(wire)
  BY <1>1
<1>3. a > 0 /\ c > a /\ 1 \in 1 .. a
  BY <1>1, <1>2 DEF Before, TwoBefore
<1> DEFINE h == f[1].hdr
           y == h.seq
           x == klast.seq
<1>4. x \in 0 .. SEQ_MOD - 1 /\ y \in 0 .. SEQ_MOD - 1 /\ h.ts \in Nat /\ klast.ts \in Nat
  BY <1>1, HeaderInts
<1>5. c - a + 1 > 0 => y = wire[c - a + 1]
  BY <1>2, <1>3 DEF Fits
<1>6. klast.magic # 0 => klast.ts <= h.ts
  BY <1>2, <1>3 DEF Fits
<1> HIDE DEF h, x, y
<1>7. y = wire[c - a + 1]
  BY <1>3, <1>5
<1>8. Stride \in 1 .. SEQ_MOD - 1 /\ 2 * Stride <= SEQ_MOD - WRAP_LIMIT
  BY <1>1, StrideFact, StrideRoom
<1>9. ~(y < x /\ x < WRAP_LIMIT)
  <2>1. CASE Before(wire, f, klast)
    <3>1. x = wire[c - a] /\ c - a \in 1 .. Len(wire) - 1
      BY <1>2, <1>3, <2>1 DEF Before, x
    <3>2. PICK d \in 1 .. Stride : y - x = d \/ y - x = d - SEQ_MOD
      BY <1>7, <3>1, WireNeighbours
    <3>3. d \in Nat /\ d > 0 /\ d <= SEQ_MOD - WRAP_LIMIT
      BY <1>8, SinkConstants
    <3>4. y - x = d \/ y - x = d - SEQ_MOD \/ y - x = d - SEQ_MOD - SEQ_MOD
      BY <1>4, <3>2, <3>3, OneStepBack, SinkConstants
    <3> QED BY <1>4, <3>3, <3>4, NotTakenForOlder, SinkConstants
  <2>2. CASE TwoBefore(wire, f, klast)
    <3>1. x = wire[c - a - 1] /\ c - a - 1 \in 1 .. Len(wire) - 1 /\ c - a \in 1 .. Len(wire) - 1
      BY <1>2, <1>3, <2>2 DEF TwoBefore, x
    <3>2. PICK z : z = wire[c - a]
      OBVIOUS
    <3>3. (c - a - 1) + 1 = c - a
      BY <1>2
    <3>4. PICK d \in 1 .. Stride : z - x = d \/ z - x = d - SEQ_MOD
      BY <3>1, <3>2, <3>3, WireNeighbours
    <3>5. PICK e \in 1 .. Stride : y - z = e \/ y - z = e - SEQ_MOD
      BY <1>7, <3>1, <3>2, WireNeighbours
    <3>6. z \in 0 .. SEQ_MOD - 1
      BY <3>1, <3>2, WireNeighbours
    <3>7. /\ d \in Nat /\ e \in Nat /\ d + e \in Nat /\ d + e > 0
          /\ d + e <= SEQ_MOD - WRAP_LIMIT
      BY <1>8, SinkConstants
    <3>8. y - x = d + e \/ y - x = (d + e) - SEQ_MOD \/ y - x = (d + e) - SEQ_MOD - SEQ_MOD
      BY <1>4, <3>4, <3>5, <3>6, <3>7, TwoSteps, SinkConstants
    <3> QED BY <1>4, <3>7, <3>8, NotTakenForOlder, SinkConstants
  <2> QED BY <2>1, <2>2
<1>10. klast.magic # 0 => ~(h.ts < klast.ts)
  BY <1>4, <1>6
<1> QED BY <1>9, <1>10 DEF K!Older, h, x, y

(* If the flood has skipped no number, the next packet is the successor.   *)
LEMMA IsSuccessor ==
    ASSUME WInv, ~Skips, NEW f \in Seq(K!PacketType), f # <<>>,
           Fits(wire, now, f, klast), Before(wire, f, klast)
    PROVE  ~K!NotSuccessor(f[1].hdr)
<1>1. Len(wire) \in Nat /\ Len(f) \in Nat \ {0}
  BY TailElements DEF WInv, Follows
<1>2. PICK a \in Nat, c \in Nat : a = Len(f) /\ c = Len(wire)
  BY <1>1
<1>3. /\ a > 0 /\ c > a /\ 1 \in 1 .. a /\ c - a \in 1 .. c - 1 /\ c - a + 1 > 0
      /\ klast.seq = wire[c - a]
  BY <1>1, <1>2 DEF Before
<1>4. f[1].hdr.seq = wire[c - a + 1]
  BY <1>2, <1>3 DEF Fits
<1>5. wire[c - a + 1] = (wire[c - a] + 1) % SEQ_MOD
  BY <1>2, <1>3 DEF Skips
<1> QED BY <1>3, <1>4, <1>5 DEF K!NotSuccessor

-----------------------------------------------------------------------------
(* The steps of both.                                                      *)

(* A skipped number stays skipped.                                         *)
LEMMA SkipsKeeps ==
    ASSUME Skips, Len(wire) \in Nat, Len(wire') \in Nat, Len(wire') >= Len(wire),
           \A k \in 1 .. Len(wire) : wire'[k] = wire[k]
    PROVE  Skips'
<1>1. PICK k \in 1 .. Len(wire) - 1 : wire[k + 1] # (wire[k] + 1) % SEQ_MOD
  BY DEF Skips
<1>2. k \in 1 .. Len(wire) /\ k + 1 \in 1 .. Len(wire) /\ k \in 1 .. Len(wire') - 1
  BY <1>1
<1>3. wire'[k] = wire[k] /\ wire'[k + 1] = wire[k + 1]
  BY <1>2
<1>4. wire'[k + 1] # (wire'[k] + 1) % SEQ_MOD
  BY <1>1, <1>3
<1> QED BY <1>2, <1>4 DEF Skips

(* What the socket buffer takes of the packets u.                          *)
LEMMA Takes ==
    ASSUME NEW S, NEW q \in Seq(S), NEW u \in Seq(S), NEW m \in Nat, Len(q) <= m,
           NEW n, n = (IF Len(u) < m - Len(q) THEN Len(u) ELSE m - Len(q))
    PROVE  /\ n \in 0 .. Len(u) /\ q \o SubSeq(u, 1, n) \in Seq(S)
           /\ Len(q \o SubSeq(u, 1, n)) = Len(q) + n /\ Len(q) + n <= m
           /\ \A k \in 1 .. Len(q) + n :
                 (q \o SubSeq(u, 1, n))[k] = IF k <= Len(q) THEN q[k] ELSE u[k - Len(q)]
           /\ ~(Len(u) > m - Len(q)) => SubSeq(u, 1, n) = u
<1>1. Len(q) \in Nat /\ Len(u) \in Nat
  OBVIOUS
<1>2. n \in 0 .. Len(u) /\ Len(q) + n <= m /\ n \in Nat /\ (~(Len(u) > m - Len(q)) => n = Len(u))
  BY <1>1
<1> DEFINE r == SubSeq(u, 1, n)
<1>3. r \in Seq(S) /\ Len(r) = n /\ \A k \in 1 .. n : r[k] = u[k]
  <2>1. \A k \in 1 .. n : u[k] \in S
    BY <1>1, <1>2, ElementOfSeq
  <2>2. /\ Len(r) = (IF 1 <= n THEN n - 1 + 1 ELSE 0)
        /\ r \in Seq(S)
        /\ \A k \in 1 .. n - 1 + 1 : r[k] = u[1 + k - 1]
    BY <1>1, <1>2, <2>1, SubSeqProperties
  <2>3. n - 1 + 1 = n /\ (~(1 <= n) => n = 0) /\ \A k \in 1 .. n : 1 + k - 1 = k
    BY <1>2
  <2> QED BY <2>2, <2>3
<1>4. n = Len(u) => r = u
  BY SubSeqFull
<1> HIDE DEF r
<1>5. /\ q \o r \in Seq(S) /\ Len(q \o r) = Len(q) + n
      /\ \A k \in 1 .. Len(q) + n : (q \o r)[k] = IF k <= Len(q) THEN q[k] ELSE r[k - Len(q)]
  BY <1>3, ConcatFacts
<1>6. \A k \in 1 .. Len(q) + n : ~(k <= Len(q)) => k - Len(q) \in 1 .. n
  BY <1>1, <1>2
<1>7. \A k \in 1 .. Len(q) + n : (q \o r)[k] = IF k <= Len(q) THEN q[k] ELSE u[k - Len(q)]
  BY <1>3, <1>5, <1>6
<1> QED BY <1>2, <1>4, <1>5, <1>7 DEF r

LEMMA ArrivedLegal ==
    ASSUME SinkTypes, OnlyLegal
    PROVE  /\ Arrived \in Seq(K!PacketType)
           /\ \A k \in 1 .. Len(Arrived) : Legal(SendsZero, Arrived[k])
<1>1. /\ kvec \in Seq(K!PacketType) /\ kqueue \in Seq(K!PacketType)
      /\ Len(kvec) \in Nat /\ Len(kqueue) \in Nat
  BY DEF SinkTypes
<1>2. /\ Arrived \in Seq(K!PacketType) /\ Len(Arrived) = Len(kvec) + Len(kqueue)
      /\ \A k \in 1 .. Len(kvec) + Len(kqueue) :
            Arrived[k] = IF k <= Len(kvec) THEN kvec[k] ELSE kqueue[k - Len(kvec)]
  BY <1>1, ConcatFacts DEF Arrived
<1>3. ASSUME NEW k \in 1 .. Len(kvec) + Len(kqueue) PROVE Legal(SendsZero, Arrived[k])
  <2>1. CASE k <= Len(kvec)
    <3>1. k \in 1 .. Len(kvec)
      BY <1>1, <1>3, <2>1
    <3> QED BY <1>2, <2>1, <3>1 DEF OnlyLegal
  <2>2. CASE ~(k <= Len(kvec))
    <3>1. k - Len(kvec) \in 1 .. Len(kqueue)
      BY <1>1, <1>3, <2>2
    <3> QED BY <1>2, <2>2, <3>1 DEF OnlyLegal
  <2> QED BY <2>1, <2>2
<1> QED BY <1>2, <1>3

(* The flood sends, and the socket buffer takes what it has room for.      *)
LEMMA FloodStepMeets ==
    ASSUME WInv, WInv', BInv, FloodStep
    PROVE  BInv'
<1>0. PICK u : u = Packets
  OBVIOUS
<1>1. PICK n : n = (IF Len(u) < MaxQueue - Len(kqueue) THEN Len(u) ELSE MaxQueue - Len(kqueue))
  OBVIOUS
<1>2. /\ Step \/ Failure
      /\ UNCHANGED <<kp, kpc, kt, kvec, kooo, kbad_magic, klast, now, setback>>
      /\ K!Ended => UNCHANGED <<kqueue, dropped>>
      /\ ~K!Ended => /\ kqueue' = kqueue \o SubSeq(u, 1, n)
                     /\ dropped' = (dropped \/ Len(u) > MaxQueue - Len(kqueue))
  BY <1>0, <1>1 DEF FloodStep, sinkVars
<1>3. /\ kvec \in Seq(K!PacketType) /\ kqueue \in Seq(K!PacketType) /\ MaxQueue \in Nat
      /\ Len(kqueue) <= MaxQueue /\ klast \in K!HeaderType /\ now \in 0 .. MaxTs /\ now \in Nat
      /\ Unnumbered /\ OnlyLegal
  BY SinkConstants DEF BInv, SinkTypes
<1>4. /\ p' = p /\ Unnumbered' /\ Len(wire') >= Len(wire)
      /\ \A k \in 1 .. Len(wire) : wire'[k] = wire[k]
      /\ Len(wire) \in Nat /\ Len(wire') \in Nat
  BY <1>2, <1>3, FloodSends DEF WInv, Follows
<1>5. /\ u \in Seq(K!PacketType) /\ Len(u) \in Nat
      /\ \A k \in 1 .. Len(u) : Legal(SendsZero, u[k]) /\ u[k].hdr.ts <= now
      /\ \/ /\ Len(wire') = Len(wire) + Len(u)
            /\ \A k \in 1 .. Len(u) : u[k].hdr.seq = wire'[Len(wire) + k] /\ u[k].hdr.ts = now
         \/ /\ Len(wire') = Len(wire) /\ wire = <<>>
            /\ \A k \in 1 .. Len(u) : u[k].hdr = K!Zero
  BY <1>0, <1>2, <1>3, PacketsFacts
<1>6. K!Ended' = K!Ended /\ K!Selected' = K!Selected /\ K!Test' = K!Test /\ SendsZero' = SendsZero
  BY <1>2, <1>4 DEF K!Ended, K!Selected, K!Test, K!Tests, SendsZero, Selected, Tests
<1>7. Meets' /\ SinkPlace'
  <2>1. Meets /\ SinkPlace
    BY DEF BInv
  <2>2. Meets'
    BY <1>2, <1>4, <1>6, <2>1 DEF Meets
  <2>3. SinkPlace'
    BY <1>2, <1>6, <2>1 DEF SinkPlace
  <2> QED BY <2>2, <2>3
<1>8. /\ n \in 0 .. Len(u) /\ kqueue \o SubSeq(u, 1, n) \in Seq(K!PacketType)
      /\ Len(kqueue \o SubSeq(u, 1, n)) = Len(kqueue) + n /\ Len(kqueue) + n <= MaxQueue
      /\ \A k \in 1 .. Len(kqueue) + n :
            (kqueue \o SubSeq(u, 1, n))[k] = IF k <= Len(kqueue) THEN kqueue[k] ELSE u[k - Len(kqueue)]
      /\ ~(Len(u) > MaxQueue - Len(kqueue)) => SubSeq(u, 1, n) = u
  <2>1. PICK q : q = kqueue
    OBVIOUS
  <2>2. q \in Seq(K!PacketType) /\ Len(q) <= MaxQueue /\ MaxQueue \in Nat
    BY <1>3, <2>1
  <2>3. u \in Seq(K!PacketType) /\ n = (IF Len(u) < MaxQueue - Len(q) THEN Len(u) ELSE MaxQueue - Len(q))
    BY <1>1, <1>5, <2>1
  <2>4. /\ n \in 0 .. Len(u) /\ q \o SubSeq(u, 1, n) \in Seq(K!PacketType)
        /\ Len(q \o SubSeq(u, 1, n)) = Len(q) + n /\ Len(q) + n <= MaxQueue
        /\ \A k \in 1 .. Len(q) + n :
              (q \o SubSeq(u, 1, n))[k] = IF k <= Len(q) THEN q[k] ELSE u[k - Len(q)]
        /\ ~(Len(u) > MaxQueue - Len(q)) => SubSeq(u, 1, n) = u
    BY ONLY <2>2, <2>3, Takes
  <2> QED BY ONLY <2>1, <2>4
<1>9. /\ kqueue' \in Seq(K!PacketType) /\ Len(kqueue') <= MaxQueue
      /\ \A k \in 1 .. Len(kqueue') : Legal(SendsZero, kqueue'[k])
  <2>1. CASE K!Ended
    BY <1>2, <1>3, <2>1 DEF OnlyLegal
  <2>2. CASE ~K!Ended
    <3>1. /\ kqueue' \in Seq(K!PacketType) /\ Len(kqueue') = Len(kqueue) + n
          /\ Len(kqueue') <= MaxQueue
      BY <1>2, <1>8, <2>2
    <3>2. ASSUME NEW k \in 1 .. Len(kqueue) + n PROVE Legal(SendsZero, kqueue'[k])
      <4>1. Len(kqueue) \in Nat /\ n \in Nat /\ n <= Len(u)
        BY <1>3, <1>5, <1>8
      <4>2. kqueue'[k] = IF k <= Len(kqueue) THEN kqueue[k] ELSE u[k - Len(kqueue)]
        BY <1>2, <1>8, <2>2, <3>2
      <4>3. CASE k <= Len(kqueue)
        <5>1. k \in 1 .. Len(kqueue)
          BY <3>2, <4>1, <4>3
        <5> QED BY <1>3, <4>2, <4>3, <5>1 DEF OnlyLegal
      <4>4. CASE ~(k <= Len(kqueue))
        <5>1. k - Len(kqueue) \in 1 .. Len(u)
          BY <1>5, <3>2, <4>1, <4>4
        <5> QED BY <1>5, <4>2, <4>4, <5>1
      <4> QED BY <4>3, <4>4
    <3> QED BY <3>1, <3>2
  <2> QED BY <2>1, <2>2
<1>10. SinkTypes'
  BY <1>2, <1>9 DEF BInv, SinkTypes, K!PacketType, K!HeaderType
<1>11. OnlyLegal'
  <2>1. OnlyLegal
    BY DEF BInv
  <2> QED BY <1>2, <1>6, <1>9, <2>1 DEF OnlyLegal
<1>12. Perfect' /\ ~K!Ended' => Fits(wire, now, Arrived, klast)' /\ LastSeen'
  <2> SUFFICES ASSUME Perfect', ~K!Ended' PROVE Fits(wire, now, Arrived, klast)' /\ LastSeen'
    OBVIOUS
  <2>1. Perfect /\ ~K!Ended /\ kqueue' = kqueue \o u
    BY <1>2, <1>6, <1>8 DEF Perfect
  <2>2. PICK f : f = Arrived
    OBVIOUS
  <2>3. /\ f \in Seq(K!PacketType) /\ Arrived' = f \o u
        /\ \A k \in 1 .. Len(f) : Legal(SendsZero, f[k])
    <3>1. SinkTypes /\ OnlyLegal
      BY DEF BInv
    <3>2. f \in Seq(K!PacketType) /\ \A k \in 1 .. Len(f) : Legal(SendsZero, f[k])
      BY <2>2, <3>1, ArrivedLegal
    <3>3. kvec \o (kqueue \o u) = (kvec \o kqueue) \o u
      <4>1. /\ kvec \in Seq(K!PacketType) /\ kqueue \in Seq(K!PacketType)
            /\ u \in Seq(K!PacketType)
        BY <1>3, <1>5
      <4> QED BY ONLY <4>1, ConcatAssociative
    <3>4. Arrived' = f \o u
      BY <1>2, <2>1, <2>2, <3>3 DEF Arrived
    <3> QED BY <3>2, <3>4
  <2>4. Fits(wire, now, f, klast) /\ LastSeen
    BY <2>1, <2>2 DEF BInv
  <2>5. PICK l : l = klast
    OBVIOUS
  <2>6. /\ Fits(wire', now, f \o u, l)
        /\ l.magic # 0 => /\ Before(wire, f, l) => Before(wire', f \o u, l)
                          /\ TwoBefore(wire, f, l) => TwoBefore(wire', f \o u, l)
    <3>1. CASE /\ Len(wire') = Len(wire) + Len(u)
               /\ \A k \in 1 .. Len(u) : u[k].hdr.seq = wire'[Len(wire) + k] /\ u[k].hdr.ts = now
      <4>1. Fits(wire', now, f \o u, l)
        BY <1>3, <1>4, <1>5, <2>3, <2>4, <2>5, <3>1, FitsAppend
      <4>2. /\ Before(wire, f, l) => Before(wire', f \o u, l)
            /\ TwoBefore(wire, f, l) => TwoBefore(wire', f \o u, l)
        BY <1>4, <1>5, <2>3, <3>1, BeforeAppend
      <4> QED BY <4>1, <4>2
    <3>2. CASE /\ Len(wire') = Len(wire) /\ wire = <<>>
               /\ \A k \in 1 .. Len(u) : u[k].hdr = K!Zero
      <4>1. Len(wire') = 0 /\ Len(wire) = 0
        BY <3>2
      <4>2. wire' = wire
        <5>1. wire' \in Seq(0 .. SEQ_MOD - 1)
          BY DEF WInv, Follows
        <5> QED BY <3>2, <4>1, <5>1, EmptySeq
      <4>3. Fits(wire, now, f \o u, l) /\ l.magic = 0
        BY <1>3, <1>5, <2>3, <2>4, <2>5, <3>2, <4>1, FitsZero
      <4> QED BY <4>2, <4>3
    <3> QED BY <1>5, <3>1, <3>2
  <2>7. Passed' = Passed
    BY <1>2, <1>6 DEF Passed
  <2>8. Fits(wire, now, Arrived, klast)'
    BY <1>2, <2>3, <2>5, <2>6
  <2>9. LastSeen'
    <3>1. kt <= 2 /\ kp.check # 0 /\ l.magic # 0 =>
             Before(wire', f \o u, l) \/ (Passed /\ TwoBefore(wire', f \o u, l))
      BY <2>2, <2>4, <2>5, <2>6 DEF LastSeen
    <3>2. /\ kt = 1 /\ kpc \in {"main", "first"} => klast.magic = 0
          /\ kt = 2 /\ kpc \in {"main", "first"} /\ klast.magic # 0 => "recvMmsg" \in K!Selected
      BY <2>4 DEF LastSeen
    <3> QED BY <1>2, <1>6, <2>3, <2>5, <2>7, <3>1, <3>2 DEF LastSeen
  <2> QED BY <2>8, <2>9
<1>13. FloodRaisesNoAlarm' /\ Level3AlarmIsReal'
  <2>1. Perfect' => Perfect
    BY <1>2 DEF Perfect
  <2>2. Skips => Skips'
    BY <1>4, SkipsKeeps
  <2> QED BY <1>2, <1>6, <2>1, <2>2 DEF BInv, FloodRaisesNoAlarm, Level3AlarmIsReal
<1> QED BY <1>4, <1>7, <1>10, <1>11, <1>12, <1>13 DEF BInv

(* What no step of the sink changes.                                       *)
LEMMA SinkFrame ==
    ASSUME BInv, UNCHANGED <<vars, kp>>, K!Ended => K!Ended'
    PROVE  /\ Meets' /\ Unnumbered' /\ SendsZero' = SendsZero /\ Skips' = Skips
           /\ K!Selected' = K!Selected
<1>1. UNCHANGED <<p, t, wire>>
  BY DEF vars
<1>2. Meets /\ Unnumbered
  BY DEF BInv
<1>3. Meets'
  BY <1>1, <1>2 DEF Meets
<1>4. Unnumbered'
  BY <1>1, <1>2 DEF Unnumbered
<1> QED BY <1>1, <1>3, <1>4 DEF SendsZero, Selected, Skips, K!Selected, K!Tests, Tests

LEMMA VerdictsKeep ==
    ASSUME BInv, UNCHANGED <<vars, kp>>, K!Ended => K!Ended', Perfect' => Perfect,
           kooo' \in {0, kooo}, kbad_magic' \in {0, kbad_magic}
    PROVE  FloodRaisesNoAlarm' /\ Level3AlarmIsReal'
<1>1. SendsZero' = SendsZero /\ Skips' = Skips /\ K!Selected' = K!Selected
  BY SinkFrame
<1>2. FloodRaisesNoAlarm /\ Level3AlarmIsReal
  BY DEF BInv
<1> QED BY <1>1, <1>2 DEF FloodRaisesNoAlarm, Level3AlarmIsReal

(* Steps of the sink that receive and check nothing.                       *)
LEMMA ControlMeets ==
    ASSUME BInv, UNCHANGED <<vars, dropped, setback, short>>,
           \/ K!MainNext \/ K!StartRun \/ K!RecvEAGAIN \/ K!CheckDone \/ K!StopRun
    PROVE  BInv'
<1>0. Perfect' = Perfect
  BY DEF Perfect
<1>1. /\ UNCHANGED <<kp, klast, kvec, kqueue, now>> /\ kooo' \in {0, kooo}
      /\ kbad_magic' \in {0, kbad_magic}
  BY DEF K!MainNext, K!StartRun, K!RecvEAGAIN, K!CheckDone, K!StopRun, K!wireVars
<1>2. SinkTypes /\ SinkPlace /\ OnlyLegal
  BY DEF BInv
<1>3. kt \in 1 .. 6 /\ ~K!Ended
  BY <1>2 DEF SinkTypes, K!Ended, K!MainNext, K!StartRun, K!RecvEAGAIN, K!CheckDone,
     K!StopRun
<1>4. /\ Meets' /\ Unnumbered' /\ SendsZero' = SendsZero /\ K!Selected' = K!Selected
      /\ FloodRaisesNoAlarm' /\ Level3AlarmIsReal'
  BY <1>0, <1>1, <1>3, SinkFrame, VerdictsKeep
<1>5. OnlyLegal'
  BY <1>1, <1>2, <1>4 DEF OnlyLegal
<1>6. PICK S : S = K!Selected
  OBVIOUS
<1>7. \/ K!Ended' /\ kt' = kt
      \/ kpc = "main" /\ kpc' = "first" /\ kt' = kt /\ kt \in 1 .. 5 /\ K!Test \in S
      \/ kpc = "main" /\ kpc' = "main" /\ kt' = kt + 1 /\ kt \in 1 .. 5
      \/ kpc = "run" /\ kpc' = "recv" /\ kt' = kt
      \/ kpc = "run" /\ kpc' = "main" /\ kt' = kt + 1
      \/ kpc = "recv" /\ kpc' \in {"recv", "run"} /\ kt' = kt
      \/ kpc = "check" /\ kpc' = "recv" /\ kt' = kt /\ kvec = <<>>
  <2>1. CASE K!MainNext
    BY <1>3, <1>6, <2>1 DEF K!MainNext, K!Ended
  <2>2. CASE K!StartRun
    BY <2>2 DEF K!StartRun
  <2>3. CASE K!RecvEAGAIN \/ K!CheckDone
    BY <2>3 DEF K!RecvEAGAIN, K!CheckDone
  <2>4. CASE K!StopRun
    BY <2>4 DEF K!StopRun, K!Ended
  <2> QED BY <2>1, <2>2, <2>3, <2>4
<1>8. /\ kpc \in {"first", "run", "recv", "check"} => kt \in 1 .. 5 /\ K!Test \in S
      /\ kpc = "check" => kt <= 2
      /\ kpc # "check" => kvec = <<>>
  BY <1>2, <1>3, <1>6 DEF SinkPlace
<1>9. /\ kpc' \in {"main", "first", "run", "recv", "check", "exit_ok", "exit_fail_sock",
                   "exit_fail_recv", "exit_fail_count", "exit_fail_file", "sigfpe"}
      /\ kt' \in 1 .. 6
  BY <1>3, <1>7, <1>8 DEF K!Ended
<1>10. SinkTypes'
  BY <1>1, <1>2, <1>9 DEF SinkTypes, K!PacketType, K!HeaderType
<1>11. kt' = kt => K!Test' = K!Test
  BY DEF K!Test, K!Tests
<1>12. SinkPlace'
  BY <1>1, <1>3, <1>4, <1>6, <1>7, <1>8, <1>11 DEF SinkPlace, K!Ended
<1>13. Perfect' /\ ~K!Ended' => Fits(wire, now, Arrived, klast)' /\ LastSeen'
  <2> SUFFICES ASSUME Perfect, ~K!Ended' PROVE Fits(wire, now, Arrived, klast)' /\ LastSeen'
    BY <1>0
  <2>1. Arrived' = Arrived /\ wire' = wire
    BY <1>1 DEF Arrived, vars
  <2>2. Fits(wire, now, Arrived, klast) /\ LastSeen
    BY <1>3 DEF BInv
  <2>3. Fits(wire, now, Arrived, klast)'
    BY <1>1, <2>1, <2>2
  <2>4. PICK A, B : A = Before(wire, Arrived, klast) /\ B = TwoBefore(wire, Arrived, klast)
    OBVIOUS
  <2>5. /\ kt = 1 /\ kpc \in {"main", "first"} => klast.magic = 0
        /\ kt = 2 /\ kpc \in {"main", "first"} /\ klast.magic # 0 => "recvMmsg" \in S
        /\ kt <= 2 /\ kp.check # 0 /\ klast.magic # 0 => A \/ (Passed /\ B)
    BY <1>6, <2>2, <2>4 DEF LastSeen
  <2>6. (kt = 1 <=> K!Test = "recvMmsg") \/ kt \notin 1 .. 5
    BY DEF K!Test, K!Tests
  <2>7. kt' = kt /\ kt <= 2 /\ Passed => Passed'
    BY <1>1, <1>4, <1>7 DEF Passed, K!Ended
  <2>8. kt' = kt + 1 /\ kt' <= 2 => kt = 1 /\ kt' = 2 /\ ~Passed
    BY <1>3 DEF Passed
  <2>9. LastSeen'
    <3>1. kt' = 1 /\ kpc' \in {"main", "first"} => klast.magic = 0
      BY <1>3, <1>7, <2>5 DEF K!Ended
    <3>2. kt' = 2 /\ kpc' \in {"main", "first"} /\ klast.magic # 0 => "recvMmsg" \in S
      <4>1. CASE kt' = kt
        BY <1>7, <2>5, <4>1, <1>3 DEF K!Ended
      <4>2. CASE kt' = kt + 1
        BY <1>3, <1>7, <1>8, <2>5, <2>6, <4>2
      <4> QED BY <1>7, <4>1, <4>2
    <3>3. kt' <= 2 /\ kp.check # 0 /\ klast.magic # 0 => A \/ (Passed' /\ B)
      <4>1. CASE kt' = kt
        BY <2>5, <2>7, <4>1
      <4>2. CASE kt' = kt + 1
        BY <1>3, <2>5, <2>8, <4>2
      <4> QED BY <1>7, <4>1, <4>2
    <3>4. A = Before(wire, Arrived, klast)' /\ B = TwoBefore(wire, Arrived, klast)'
      BY <1>1, <2>1, <2>4
    <3> QED BY <1>1, <1>4, <1>6, <3>1, <3>2, <3>3, <3>4 DEF LastSeen
  <2> QED BY <2>3, <2>9
<1> QED BY <1>4, <1>5, <1>10, <1>12, <1>13 DEF BInv

(* A failure ends the sink.                                                *)
LEMMA FailureMeets ==
    ASSUME BInv, UNCHANGED <<vars, dropped, setback, short>>, K!Failure
    PROVE  BInv'
<1>0. Perfect' = Perfect
  BY DEF Perfect
<1>1. /\ UNCHANGED <<kp, kt, klast, kvec, now, kooo, kbad_magic>>
      /\ kqueue' = kqueue \/ (kqueue # <<>> /\ kqueue' = Tail(kqueue))
      /\ kpc' \in {"exit_fail_sock", "exit_fail_recv", "exit_fail_file"}
  BY DEF K!Failure, K!WaitFirstFails, K!SettingFails, K!RecvError, K!wireVars
<1>2. SinkTypes /\ OnlyLegal
  BY DEF BInv
<1>3. K!Ended'
  BY <1>1 DEF K!Ended
<1>4. /\ Meets' /\ Unnumbered' /\ SendsZero' = SendsZero
      /\ FloodRaisesNoAlarm' /\ Level3AlarmIsReal'
  BY <1>0, <1>1, <1>3, SinkFrame, VerdictsKeep
<1>5. /\ kqueue' \in Seq(K!PacketType) /\ Len(kqueue') <= MaxQueue
      /\ \A k \in 1 .. Len(kqueue') : Legal(SendsZero, kqueue'[k])
  <2>1. CASE kqueue' = kqueue
    BY <1>2, <2>1 DEF SinkTypes, OnlyLegal
  <2>2. CASE kqueue # <<>> /\ kqueue' = Tail(kqueue)
    <3>1. /\ Tail(kqueue) \in Seq(K!PacketType) /\ Len(Tail(kqueue)) = Len(kqueue) - 1
          /\ \A k \in 1 .. Len(Tail(kqueue)) :
                k + 1 \in 1 .. Len(kqueue) /\ Tail(kqueue)[k] = kqueue[k + 1]
          /\ Len(kqueue) \in Nat /\ Len(kqueue) <= MaxQueue /\ MaxQueue \in Nat
      BY <1>2, <2>2, TailElements, SinkConstants DEF SinkTypes
    <3>2. \A k \in 1 .. Len(Tail(kqueue)) : Legal(SendsZero, Tail(kqueue)[k])
      BY <1>2, <3>1 DEF OnlyLegal
    <3>3. Len(Tail(kqueue)) <= MaxQueue
      BY <3>1
    <3> QED BY <2>2, <3>1, <3>2, <3>3
  <2> QED BY <1>1, <2>1, <2>2
<1>6. SinkTypes'
  BY <1>1, <1>2, <1>5 DEF SinkTypes, K!PacketType, K!HeaderType
<1>7. OnlyLegal'
  BY <1>1, <1>2, <1>4, <1>5 DEF OnlyLegal
<1>8. SinkPlace'
  BY <1>1, <1>3 DEF SinkPlace
<1> QED BY <1>3, <1>4, <1>6, <1>7, <1>8 DEF BInv

(* The clock of the flood.                                                 *)
LEMMA TickMeets == ASSUME BInv, Tick \/ UNCHANGED allVars PROVE BInv'
<1>1. /\ UNCHANGED <<vars, sinkVars, kqueue, dropped>> /\ now' \in 0 .. MaxTs /\ now \in Nat
      /\ Perfect' => Perfect /\ now <= now'
  <2>1. now \in 0 .. MaxTs /\ MaxTs \in Nat
    BY SinkConstants DEF BInv, SinkTypes
  <2>2. CASE Tick
    <3>1. /\ UNCHANGED <<vars, sinkVars, kqueue, dropped>> /\ now' \in 1 .. MaxTs
          /\ setback' = (setback \/ now' < now)
      BY <2>2 DEF Tick
    <3>2. Perfect' => Perfect /\ ~(now' < now)
      BY <3>1, Zenon DEF Perfect
    <3>3. ~(now' < now) => now <= now'
      BY <2>1, <3>1
    <3>4. now' \in 0 .. MaxTs /\ now \in Nat
      BY <2>1, <3>1
    <3> QED BY <3>1, <3>2, <3>3, <3>4
  <2>3. CASE UNCHANGED allVars
    BY <2>1, <2>3 DEF allVars, Perfect
  <2> QED BY <2>2, <2>3
<1>2. /\ UNCHANGED <<kp, kpc, kt, kvec, kooo, kbad_magic, klast, wire>>
      /\ K!Ended' = K!Ended /\ K!Test' = K!Test /\ Arrived' = Arrived
  BY <1>1 DEF sinkVars, vars, K!Ended, K!Test, K!Tests, Arrived
<1>3. /\ Meets' /\ Unnumbered' /\ SendsZero' = SendsZero /\ K!Selected' = K!Selected
      /\ FloodRaisesNoAlarm' /\ Level3AlarmIsReal'
  BY <1>1, <1>2, SinkFrame, VerdictsKeep
<1>4. SinkTypes /\ SinkPlace /\ OnlyLegal
  BY DEF BInv
<1>5. SinkTypes' /\ OnlyLegal'
  BY <1>1, <1>2, <1>3, <1>4 DEF SinkTypes, OnlyLegal, K!PacketType, K!HeaderType
<1>6. SinkPlace'
  BY <1>2, <1>3, <1>4 DEF SinkPlace
<1>7. Passed' = Passed
  BY <1>2, <1>3 DEF Passed
<1>8. LastSeen' = LastSeen
  BY <1>2, <1>3, <1>7 DEF LastSeen
<1>9. Perfect' /\ Fits(wire, now, Arrived, klast) => Fits(wire, now, Arrived, klast)'
  <2> SUFFICES ASSUME Perfect', Fits(wire, now, Arrived, klast)
               PROVE  Fits(wire, now', Arrived, klast)
    BY <1>2
  <2>1. Arrived \in Seq(K!PacketType) /\ klast \in K!HeaderType
    BY <1>4, ArrivedLegal DEF SinkTypes
  <2>2. \A k \in 1 .. Len(Arrived) : Arrived[k].hdr.ts \in Nat
    BY <2>1, ElementOfSeq, PacketHeader, HeaderInts
  <2>3. klast.ts \in Nat /\ now' \in Nat
    BY <1>1, <2>1, HeaderInts
  <2>4. \A k \in 1 .. Len(Arrived) : Arrived[k].hdr.ts <= now => Arrived[k].hdr.ts <= now'
    BY <1>1, <2>2, <2>3
  <2>5. klast.ts <= now => klast.ts <= now'
    BY <1>1, <2>3
  <2> QED BY <2>4, <2>5 DEF Fits
<1> QED BY <1>1, <1>2, <1>3, <1>5, <1>6, <1>8, <1>9 DEF BInv

(* A packet is taken that nobody checks: the first one of a test, and      *)
(* those of read(), recvfrom() and recv().                                 *)
LEMMA TakeMeets ==
    ASSUME WInv, BInv, UNCHANGED <<vars, dropped, setback, short>>, K!WaitFirst \/ K!RecvPlain
    PROVE  BInv'
<1>0. Perfect' = Perfect
  BY DEF Perfect
<1>1. /\ UNCHANGED <<kp, kt, klast, kvec, now, kooo, kbad_magic>>
      /\ kqueue # <<>> /\ kqueue' = Tail(kqueue)
      /\ \/ kpc = "first" /\ kpc' = "run"
         \/ kpc = "recv" /\ kpc' = "recv" /\ K!Test \in {"read", "recvfrom", "recv"}
  BY DEF K!WaitFirst, K!RecvPlain, K!wireVars
<1>2. SinkTypes /\ SinkPlace /\ OnlyLegal
  BY DEF BInv
<1>3. /\ ~K!Ended /\ ~K!Ended' /\ kvec = <<>> /\ kt \in 1 .. 5 /\ K!Test \in K!Selected
      /\ K!Test' = K!Test
  BY <1>1, <1>2 DEF SinkPlace, K!Ended, K!Test, K!Tests
<1>4. /\ Meets' /\ Unnumbered' /\ SendsZero' = SendsZero /\ K!Selected' = K!Selected
      /\ FloodRaisesNoAlarm' /\ Level3AlarmIsReal'
  BY <1>0, <1>1, <1>3, SinkFrame, VerdictsKeep
<1>5. PICK f : f = kqueue
  OBVIOUS
<1>6. /\ f \in Seq(K!PacketType) /\ f # <<>> /\ Tail(f) \in Seq(K!PacketType)
      /\ Len(f) \in Nat /\ Len(f) <= MaxQueue /\ Len(Tail(f)) = Len(f) - 1
      /\ \A k \in 1 .. Len(Tail(f)) : k + 1 \in 1 .. Len(f) /\ Tail(f)[k] = f[k + 1]
  BY <1>1, <1>2, <1>5, TailElements DEF SinkTypes
<1>7. kqueue' \in Seq(K!PacketType) /\ Len(kqueue') <= MaxQueue
  BY <1>1, <1>5, <1>6, SinkConstants
<1>8. SinkTypes' /\ SinkPlace'
  <2>1. SinkTypes'
    BY <1>1, <1>2, <1>7 DEF SinkTypes, K!PacketType, K!HeaderType
  <2>2. SinkPlace'
    BY <1>1, <1>3, <1>4 DEF SinkPlace
  <2> QED BY <2>1, <2>2
<1>9. OnlyLegal'
  <2>1. \A k \in 1 .. Len(Tail(f)) : Legal(SendsZero, Tail(f)[k])
    BY <1>2, <1>5, <1>6 DEF OnlyLegal
  <2> QED BY <1>1, <1>2, <1>4, <1>5, <2>1 DEF OnlyLegal
<1>10. Arrived = f /\ Arrived' = Tail(f)
  <2>1. <<>> \o f = f /\ <<>> \o Tail(f) = Tail(f)
    BY <1>6, ConcatEmptySeq
  <2> QED BY <1>1, <1>3, <1>5, <2>1 DEF Arrived
<1>11. Perfect' => Fits(wire, now, Arrived, klast)' /\ LastSeen'
  <2> SUFFICES ASSUME Perfect PROVE Fits(wire, now, Arrived, klast)' /\ LastSeen'
    BY <1>0
  <2>1. Fits(wire, now, f, klast) /\ LastSeen
    BY <1>3, <1>10 DEF BInv
  <2>2. PICK w, l : w = wire /\ l = klast /\ wire' = w /\ klast' = l /\ Len(w) \in Nat
    BY <1>1 DEF vars, WInv, Follows
  <2>3. Fits(w, now, Tail(f), l) /\ (Before(w, f, l) => TwoBefore(w, Tail(f), l))
    BY <1>6, <2>1, <2>2, FitsTail
  <2>4. kpc = "recv" => kt \notin {1, 2}
    BY <1>1, <1>3 DEF K!Test, K!Tests
  <2>5. kpc = "first" /\ kt <= 2 /\ kp.check # 0 /\ l.magic # 0 => Passed' /\ TwoBefore(w, Tail(f), l)
    <3> SUFFICES ASSUME kpc = "first", kt <= 2, kp.check # 0, l.magic # 0
                 PROVE  Passed' /\ TwoBefore(w, Tail(f), l)
      OBVIOUS
    <3>1. kt = 2 /\ "recvMmsg" \in K!Selected
      BY <1>3, <2>1, <2>2 DEF LastSeen
    <3>2. "recvmsg" \in K!Selected
      BY <1>3, <3>1 DEF K!Test, K!Tests
    <3>3. Passed' /\ ~Passed
      BY <1>1, <1>4, <3>1, <3>2 DEF Passed
    <3>4. Before(w, f, l)
      BY <1>10, <2>1, <2>2, <3>1, <3>3 DEF LastSeen
    <3> QED BY <2>3, <3>3, <3>4
  <2>6. LastSeen'
    BY <1>1, <1>3, <1>10, <2>2, <2>4, <2>5 DEF LastSeen
  <2> QED BY <1>1, <1>10, <2>2, <2>3, <2>6
<1> QED BY <1>4, <1>8, <1>9, <1>11 DEF BInv

(* A receive call hands its packets to the checks.                         *)
LEMMA RecvMeets ==
    ASSUME BInv, UNCHANGED <<vars, dropped, setback, short>>, K!RecvMsg \/ K!RecvMmsg
    PROVE  BInv'
<1>0. Perfect' = Perfect
  BY DEF Perfect
<1>1. /\ UNCHANGED <<kp, kt, klast, now, kooo, kbad_magic>>
      /\ kqueue # <<>> /\ kpc = "recv" /\ kpc' = "check" /\ K!Test \in {"recvMmsg", "recvmsg"}
  BY DEF K!RecvMsg, K!RecvMmsg, K!wireVars
<1>2. SinkTypes /\ SinkPlace /\ OnlyLegal /\ Meets
  BY DEF BInv
<1>3. /\ ~K!Ended /\ ~K!Ended' /\ kvec = <<>> /\ kt \in 1 .. 5 /\ kt <= 2
      /\ K!Test \in K!Selected /\ K!Test' = K!Test
  BY <1>1, <1>2 DEF SinkPlace, K!Ended, K!Test, K!Tests
<1>4. /\ Meets' /\ Unnumbered' /\ SendsZero' = SendsZero /\ K!Selected' = K!Selected
      /\ FloodRaisesNoAlarm' /\ Level3AlarmIsReal'
  BY <1>0, <1>1, <1>3, SinkFrame, VerdictsKeep
<1>5. PICK f : f = kqueue
  OBVIOUS
<1>6. f \in Seq(K!PacketType) /\ f # <<>> /\ Len(f) <= MaxQueue /\ Len(f) \in Nat
  BY <1>1, <1>2, <1>5 DEF SinkTypes
<1>7. kp.batch \in Nat
  BY <1>2, MeetAssumption DEF Meets, K!ParamsType
<1>8. PICK m \in 0 .. Len(f) : /\ kvec' = SubSeq(f, 1, m) /\ kqueue' = SubSeq(f, m + 1, Len(f))
  <2>1. CASE K!RecvMmsg
    <3>1. PICK n \in 1 .. kp.batch :
            /\ n <= Len(f)
            /\ kvec' = SubSeq(f, 1, n) /\ kqueue' = SubSeq(f, n + 1, Len(f))
      BY <1>5, <2>1 DEF K!RecvMmsg
    <3>2. n \in 0 .. Len(f)
      BY <1>6, <1>7, <3>1
    <3> QED BY <3>1, <3>2
  <2>2. CASE K!RecvMsg
    <3>1. kvec' = <<Head(f)>> /\ kqueue' = Tail(f)
      BY <1>5, <2>2 DEF K!RecvMsg
    <3>2. Len(f) \in Nat \ {0} /\ Head(f) = f[1] /\ f[1] \in K!PacketType
      BY <1>6, TailElements
    <3>3. SubSeq(f, 1, 1) = <<f[1]>>
      <4>1. 1 \in 1 .. Len(f)
        BY <3>2
      <4>2. /\ SubSeq(f, 1, 1) \in Seq(K!PacketType) /\ Len(SubSeq(f, 1, 1)) = 1
            /\ SubSeq(f, 1, 1)[1] = f[1]
        BY <1>6, <4>1, SubSeqProperties
      <4>3. /\ <<f[1]>> \in Seq(K!PacketType) /\ Len(<<f[1]>>) = 1 /\ <<f[1]>>[1] = f[1]
        BY <3>2
      <4>4. \A k \in 1 .. 1 : k = 1
        OBVIOUS
      <4> QED BY ONLY <4>2, <4>3, <4>4, SeqEqual
    <3>4. Tail(f) = SubSeq(f, 1 + 1, Len(f)) /\ 1 \in 0 .. Len(f)
      BY <1>6, <3>2, TailIsSubSeq
    <3> QED BY <3>1, <3>2, <3>3, <3>4
  <2> QED BY <2>1, <2>2
<1>9. /\ kvec' \in Seq(K!PacketType) /\ Len(kvec') = m
      /\ \A k \in 1 .. m : kvec'[k] = f[k] /\ k \in 1 .. Len(f)
  <2>1. SubSeq(f, 1, m) \in Seq(K!PacketType) /\ Len(SubSeq(f, 1, m)) = m
        /\ \A k \in 1 .. m : SubSeq(f, 1, m)[k] = f[k]
    BY <1>6
  <2> QED BY <1>6, <1>8, <2>1
<1>10. /\ kqueue' \in Seq(K!PacketType) /\ Len(kqueue') = Len(f) - m
       /\ \A k \in 1 .. Len(f) - m : kqueue'[k] = f[m + k] /\ m + k \in 1 .. Len(f)
  <2>1. SubSeq(f, m + 1, Len(f)) \in Seq(K!PacketType) /\ Len(SubSeq(f, m + 1, Len(f))) = Len(f) - m
        /\ \A k \in 1 .. Len(f) - m : SubSeq(f, m + 1, Len(f))[k] = f[m + k]
    BY <1>6
  <2> QED BY <1>6, <1>8, <2>1
<1>11. SinkTypes' /\ SinkPlace'
  <2>1. Len(kqueue') <= MaxQueue
    BY <1>6, <1>10, SinkConstants
  <2>2. SinkTypes'
    BY <1>1, <1>2, <1>9, <1>10, <2>1 DEF SinkTypes, K!PacketType, K!HeaderType
  <2>3. SinkPlace'
    BY <1>1, <1>3, <1>4 DEF SinkPlace
  <2> QED BY <2>2, <2>3
<1>12. OnlyLegal'
  <2>1. \A k \in 1 .. Len(f) : Legal(SendsZero, f[k])
    BY <1>2, <1>5 DEF OnlyLegal
  <2> QED BY <1>4, <1>9, <1>10, <2>1 DEF OnlyLegal
<1>13. Arrived' = Arrived
  <2>1. Arrived = f
    BY <1>3, <1>5, <1>6, ConcatEmptySeq DEF Arrived
  <2>2. Arrived' = f
    BY <1>6, <1>8, ArrivedSplit DEF Arrived
  <2> QED BY <2>1, <2>2
<1>14. wire' = wire /\ Passed' = Passed
  BY <1>1, <1>4 DEF vars, Passed
<1>15. Perfect' => Fits(wire, now, Arrived, klast)' /\ LastSeen'
  <2> SUFFICES ASSUME Perfect PROVE Fits(wire, now, Arrived, klast)' /\ LastSeen'
    BY <1>0
  <2>1. Fits(wire, now, Arrived, klast) /\ LastSeen
    BY <1>3 DEF BInv
  <2>2. Fits(wire, now, Arrived, klast)'
    BY <1>1, <1>13, <1>14, <2>1
  <2>3. kt <= 2 /\ kp.check # 0 /\ klast.magic # 0 =>
           Before(wire, Arrived, klast) \/ (Passed /\ TwoBefore(wire, Arrived, klast))
    BY <2>1 DEF LastSeen
  <2>4. LastSeen'
    BY <1>1, <1>13, <1>14, <2>3 DEF LastSeen
  <2> QED BY <2>2, <2>4
<1> QED BY <1>4, <1>11, <1>12, <1>15 DEF BInv

(* The check of a packet.                                                  *)
LEMMA CheckMeets ==
    ASSUME WInv, BInv, UNCHANGED <<vars, dropped, setback, short>>, K!CheckPkt
    PROVE  BInv'
<1>0. Perfect' = Perfect
  BY DEF Perfect
<1>1. /\ UNCHANGED <<kp, kt, kqueue, now>> /\ kpc = "check" /\ kvec # <<>> /\ kvec' = Tail(kvec)
      /\ K!CheckStats(Head(kvec))
      /\ kpc' \in {"check", "exit_fail_recv", "exit_fail_sock"}
  BY DEF K!CheckPkt, K!wireVars
<1>2. SinkTypes /\ SinkPlace /\ OnlyLegal /\ Meets /\ FloodRaisesNoAlarm /\ Level3AlarmIsReal
  BY DEF BInv
<1>3. ~K!Ended /\ kt \in 1 .. 2 /\ K!Test \in K!Selected /\ K!Test' = K!Test
  BY <1>1, <1>2 DEF SinkPlace, K!Ended, K!Test, K!Tests
<1>4. /\ Meets' /\ Unnumbered' /\ SendsZero' = SendsZero /\ K!Selected' = K!Selected
      /\ Skips' = Skips /\ wire' = wire
  BY <1>1, <1>3, SinkFrame DEF vars
<1>5. kp.check \in 0 .. 3
  BY <1>2, MeetAssumption DEF Meets, K!ParamsType
<1>6. PICK f : f = Arrived
  OBVIOUS
<1>7. /\ f \in Seq(K!PacketType) /\ f # <<>> /\ f[1] = Head(kvec) /\ Arrived' = Tail(f)
      /\ f[1].hdr \in K!HeaderType /\ f[1] \in K!PacketType /\ Tail(f) \in Seq(K!PacketType)
      /\ Legal(SendsZero, f[1]) /\ klast \in K!HeaderType
  <2>1. kvec \in Seq(K!PacketType) /\ kqueue \in Seq(K!PacketType) /\ klast \in K!HeaderType
    BY <1>2 DEF SinkTypes
  <2>2. f \in Seq(K!PacketType) /\ f # <<>> /\ f[1] = Head(kvec) /\ Arrived' = Tail(f)
    BY <1>1, <1>6, <2>1, ArrivedTail, ConcatProperties DEF Arrived
  <2>3. /\ f[1] \in K!PacketType /\ Tail(f) \in Seq(K!PacketType) /\ Head(kvec) = kvec[1]
        /\ 1 \in 1 .. Len(kvec)
    BY <1>1, <2>1, <2>2, TailElements
  <2>4. f[1].hdr \in K!HeaderType
    BY <2>3, PacketHeader
  <2>5. Legal(SendsZero, f[1])
    BY <1>2, <2>2, <2>3 DEF OnlyLegal
  <2> QED BY <2>1, <2>2, <2>3, <2>4, <2>5
<1>8. PICK h : h = f[1].hdr
  OBVIOUS
<1>9. /\ h \in K!HeaderType /\ f[1].kind \in {"good", "zero"}
      /\ ~SendsZero => h.magic = 1
  BY <1>7, <1>8 DEF Legal
<1>10. kp.check = 0 => UNCHANGED <<klast, kooo, kbad_magic>>
  BY <1>1 DEF K!CheckStats
<1>11. kp.check # 0 =>
         /\ kbad_magic' = kbad_magic + K!Bit(h.magic # 1)
         /\ kooo' = kooo + K!Bit(K!Older(h)) + K!Bit(kp.check > 2 /\ K!NotSuccessor(h))
         /\ klast' = h
  BY <1>1, <1>7, <1>8, <1>9 DEF K!CheckStats
<1>12. kooo \in Nat /\ kbad_magic \in Nat
  BY <1>2 DEF SinkTypes
<1>13. \A b : K!Bit(b) \in {0, 1} /\ (~b => K!Bit(b) = 0)
  BY DEF K!Bit
<1>14. SinkTypes'
  <2>1. kooo' \in Nat /\ kbad_magic' \in Nat /\ klast' \in K!HeaderType
    BY <1>7, <1>9, <1>10, <1>11, <1>12, <1>13
  <2>2. kvec' \in Seq(K!PacketType)
    BY <1>1, <1>2, TailElements DEF SinkTypes
  <2> QED BY <1>1, <1>2, <2>1, <2>2 DEF SinkTypes, K!PacketType, K!HeaderType
<1>15. SinkPlace'
  BY <1>1, <1>3, <1>4 DEF SinkPlace, K!Ended
<1>16. OnlyLegal'
  <2>1. \A k \in 1 .. Len(Tail(kvec)) : k + 1 \in 1 .. Len(kvec) /\ Tail(kvec)[k] = kvec[k + 1]
    BY <1>1, <1>2, TailElements DEF SinkTypes
  <2>2. \A k \in 1 .. Len(Tail(kvec)) : Legal(SendsZero, Tail(kvec)[k])
    BY <1>2, <2>1 DEF OnlyLegal
  <2> QED BY <1>1, <1>2, <1>4, <2>2 DEF OnlyLegal
<1>17. Perfect => Fits(wire, now, f, klast) /\ LastSeen
  BY <1>3, <1>6 DEF BInv
<1>18. Perfect /\ kp.check # 0 => ~K!Older(h)
  <2> SUFFICES ASSUME Perfect, kp.check # 0 PROVE ~K!Older(h)
    OBVIOUS
  <2>1. CASE klast.magic = 0
    BY <2>1 DEF K!Older
  <2>2. CASE klast.magic # 0
    <3>1. Before(wire, f, klast) \/ TwoBefore(wire, f, klast)
      BY <1>3, <1>6, <1>17, <2>2 DEF LastSeen
    <3> QED BY <1>2, <1>3, <1>7, <1>8, <1>17, <3>1, NotOlder
  <2> QED BY <2>1, <2>2
<1>19. Perfect /\ kp.check # 0 /\ ~Skips /\ (\E x \in K!Selected : K!Selected = {x}) => ~K!NotSuccessor(h)
  <2> SUFFICES ASSUME Perfect, kp.check # 0, ~Skips, \E x \in K!Selected : K!Selected = {x}
               PROVE  ~K!NotSuccessor(h)
    OBVIOUS
  <2>1. CASE klast.magic = 0
    BY <2>1 DEF K!NotSuccessor
  <2>2. CASE klast.magic # 0
    <3>1. ~Passed
      BY DEF Passed
    <3>2. Before(wire, f, klast)
      BY <1>3, <1>6, <1>17, <2>2, <3>1 DEF LastSeen
    <3> QED BY <1>7, <1>8, <1>17, <3>2, IsSuccessor
  <2> QED BY <2>1, <2>2
<1>20. FloodRaisesNoAlarm'
  <2>1. Perfect /\ kp.check < 3 => kooo' = 0
    <3> SUFFICES ASSUME Perfect, kp.check < 3 PROVE kooo' = 0
      OBVIOUS
    <3>1. kooo = 0 /\ ~(kp.check > 2)
      BY <1>2, <1>5 DEF FloodRaisesNoAlarm
    <3>2. CASE kp.check = 0
      BY <1>10, <3>1, <3>2
    <3>3. CASE kp.check # 0
      <4>1. K!Bit(K!Older(h)) = 0 /\ K!Bit(kp.check > 2 /\ K!NotSuccessor(h)) = 0
        BY <1>18, <3>1, <3>3 DEF K!Bit
      <4> QED BY <1>11, <3>1, <3>3, <4>1
    <3> QED BY <3>2, <3>3
  <2>2. kbad_magic' > 0 => SendsZero
    <3> SUFFICES ASSUME ~SendsZero PROVE ~(kbad_magic' > 0)
      OBVIOUS
    <3>1. kbad_magic = 0
      BY <1>2, <1>12 DEF FloodRaisesNoAlarm
    <3>2. K!Bit(h.magic # 1) = 0
      BY <1>9 DEF K!Bit
    <3>3. kbad_magic' = 0
      BY <1>10, <1>11, <3>1, <3>2
    <3> QED BY <3>3
  <2> QED BY <1>0, <1>1, <1>4, <2>1, <2>2 DEF FloodRaisesNoAlarm
<1>21. Level3AlarmIsReal'
  <2> SUFFICES ASSUME \E x \in K!Selected : K!Selected = {x}, Perfect, ~Skips, ~SendsZero
               PROVE  ~(kooo' > 0)
    BY <1>0, <1>4 DEF Level3AlarmIsReal
  <2>1. kooo = 0
    BY <1>2, <1>12 DEF Level3AlarmIsReal
  <2>2. CASE kp.check = 0
    BY <1>10, <2>1, <2>2
  <2>3. CASE kp.check # 0
    <3>1. K!Bit(K!Older(h)) = 0 /\ K!Bit(kp.check > 2 /\ K!NotSuccessor(h)) = 0
      BY <1>18, <1>19, <2>3 DEF K!Bit
    <3> QED BY <1>11, <2>1, <2>3, <3>1
  <2> QED BY <2>2, <2>3
<1>22. Perfect' /\ ~K!Ended' => Fits(wire, now, Arrived, klast)' /\ LastSeen'
  <2> SUFFICES ASSUME Perfect PROVE Fits(wire, now, Arrived, klast)' /\ LastSeen'
    BY <1>0
  <2>1. PICK w, l, n : w = wire /\ l = klast /\ n = now /\ Len(w) \in Nat
    BY DEF WInv, Follows
  <2>2. Fits(w, n, f, l)
    BY <1>17, <2>1
  <2>3. kpc' \notin {"main", "first"} /\ wire' = w /\ now' = n
    BY <1>1, <1>4, <2>1
  <2>4. CASE kp.check = 0
    <3>1. Fits(w, n, Tail(f), l)
      BY <1>7, <2>1, <2>2, FitsTail
    <3> QED BY <1>1, <1>7, <1>10, <2>1, <2>3, <2>4, <3>1 DEF LastSeen
  <2>5. CASE kp.check # 0
    <3>1. Fits(w, n, Tail(f), h) /\ (h.magic # 0 => Before(w, Tail(f), h))
      BY <1>7, <1>8, <2>1, <2>2, FitsHead
    <3> QED BY <1>1, <1>7, <1>11, <2>3, <2>5, <3>1 DEF LastSeen
  <2> QED BY <2>4, <2>5
<1> QED BY <1>4, <1>14, <1>15, <1>16, <1>20, <1>21, <1>22 DEF BInv

LEMMA InitMeets == ASSUME InitBoth PROVE BInv
<1>1. /\ kvec = <<>> /\ kqueue = <<>> /\ klast = K!Zero /\ wire = <<>> /\ now = 1 /\ kt = 1
      /\ kooo = 0 /\ kbad_magic = 0 /\ kpc \in {"main", "exit_ok"}
  BY DEF InitBoth
<1>2. Meets
  BY DEF InitBoth, Meets, K!Ended
<1>3. Len(<<>>) = 0 /\ <<>> \in Seq(K!PacketType) /\ 1 .. 0 = {}
  BY EmptySeq
<1>4. SinkTypes
  <2>1. 0 <= MaxQueue /\ 1 \in 0 .. MaxTs
    BY SinkConstants
  <2> QED BY <1>1, <1>3, <2>1, SinkConstants DEF SinkTypes
<1>5. SinkPlace /\ OnlyLegal /\ Unnumbered
  BY <1>1, <1>3 DEF SinkPlace, OnlyLegal, Unnumbered
<1>6. Arrived = <<>>
  BY <1>1, <1>3, ConcatEmptySeq DEF Arrived
<1>7. Fits(wire, now, Arrived, klast)
  <2>1. klast.magic = 0 /\ klast.ts <= now
    BY <1>1, SinkConstants
  <2> QED BY <1>1, <1>3, <1>6, <2>1 DEF Fits
<1>8. LastSeen
  BY <1>1, SinkConstants DEF LastSeen
<1>9. FloodRaisesNoAlarm /\ Level3AlarmIsReal
  BY <1>1 DEF FloodRaisesNoAlarm, Level3AlarmIsReal
<1> QED BY <1>2, <1>4, <1>5, <1>7, <1>8, <1>9 DEF BInv

(* While the sink's buffer keeps every packet and the clock is not set     *)
(* back, the packets that have arrived are the end of what the flood has   *)
(* sent, and the one checked last comes directly before them, or one       *)
(* packet earlier.                                                         *)
THEOREM MeetInductive == SpecBoth => []BInv
<1>1. InitBoth => BInv
  BY InitMeets
<1>2. WInv /\ WInv' /\ BInv /\ [NextBoth]_allVars => BInv'
  <2> SUFFICES ASSUME WInv, WInv', BInv, [NextBoth]_allVars PROVE BInv'
    OBVIOUS
  <2>1. CASE FloodStep
    BY <2>1, FloodStepMeets
  <2>2. CASE SinkStep \/ SinkFails
    <3>1. UNCHANGED <<vars, dropped, setback, short>>
      BY <2>2 DEF SinkStep, SinkFails
    <3>2. \/ K!MainNext \/ K!StartRun \/ K!RecvEAGAIN \/ K!CheckDone \/ K!StopRun \/ K!Failure
          \/ K!WaitFirst \/ K!RecvPlain \/ K!RecvMsg \/ K!RecvMmsg \/ K!CheckPkt
      BY <2>2 DEF SinkStep, SinkFails, K!Sink
    <3> QED BY <3>1, <3>2, ControlMeets, FailureMeets, TakeMeets, RecvMeets, CheckMeets
  <2>3. CASE Tick \/ Done \/ UNCHANGED allVars
    BY <2>3, TickMeets DEF Done
  <2> QED BY <2>1, <2>2, <2>3 DEF NextBoth
<1>3. SpecBoth => []WInv
  BY SameFlood, WireInductive, PTL
<1> QED BY <1>1, <1>2, <1>3, PTL DEF SpecBoth

(* The two programs agree on what a sequence is: a link that keeps every   *)
(* packet raises no out-of-order alarm at levels 1 and 2 unless the        *)
(* flood's clock is set back, and only the flood's own payloads without a  *)
(* header have a wrong magic number.                                       *)
THEOREM NoAlarmBetweenThem == SpecBoth => []FloodRaisesNoAlarm
<1>1. BInv => FloodRaisesNoAlarm
  BY DEF BInv
<1> QED BY <1>1, MeetInductive, PTL

(* An alarm of level 3 in a sink with one test means that a number or a    *)
(* header is missing, or that the flood's clock was set back.              *)
THEOREM Level3IsRight == SpecBoth => []Level3AlarmIsReal
<1>1. BInv => Level3AlarmIsReal
  BY DEF BInv
<1> QED BY <1>1, MeetInductive, PTL

(* What is proved of the flood alone holds of a flood that meets a sink.   *)
THEOREM FloodKeepsItsPromises == SpecBoth => [](ReportedIsSent /\ AtMostCount /\ WireOrder)
  BY SameFlood, ReportIsExact, CountIsBound, WireIsOrdered, PTL
=============================================================================
