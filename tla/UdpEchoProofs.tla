--------------------------- MODULE UdpEchoProofs ---------------------------
EXTENDS UdpEcho, TLAPS

(* A client's port, address and length stay what they are once it has a    *)
(* connected socket; a datagram of its exchange exists once it has sent.   *)
Started(c) == cpc[c] \notin {"start", "exit_setup"}
Sent(c) == cpc[c] \in {"wait", "ok", "exit_1", "exit_5"}

(* What the server's frame holds of a client's request.                    *)
Cut(c) == Min({LenSend(c), FRAME})

(* A request, or the ICMP error that quotes it.                            *)
Asked(d) ==
    /\ d.cl \in Clients /\ Sent(d.cl)
    /\ d.port = port[d.cl] /\ d.addr = dest[d.cl] /\ d.len = LenSend(d.cl)

Answer(d) ==
    /\ d.cl \in Clients /\ Sent(d.cl)
    /\ d.port = port[d.cl] /\ d.len = Cut(d.cl)
    /\ d.addr = dest[d.cl] \/ d.cl \in noaddr

OnTheWay(d) ==
    \/ d.kind \in {"request", "icmp"} /\ Asked(d)
    \/ d.kind = "reply" /\ Answer(d)

(* What pktinfo says of a request of c.                                    *)
Source(c, spec_dst) == spec_dst = dest[c] \/ (spec_dst = None /\ c \in noaddr)

Queued(e) ==
    /\ e.cl \in Clients /\ Sent(e.cl)
    /\ e.port = port[e.cl] /\ e.len = LenSend(e.cl) /\ Source(e.cl, e.spec_dst)

Sockets == \A c \in Clients : Started(c) => port[c] \in Ports /\ dest[c] \in Addrs

NetOK == \A d \in net : OnTheWay(d)

QueueOK == \A k \in 1 .. Len(sockq) : Queued(sockq[k])

(* msghdr between recvmsg() and sendmsg(); else the io-vector is set up.   *)
MsgOK ==
    IF spc = "send"
    THEN /\ msg.cl \in Clients /\ Sent(msg.cl)
         /\ msg.name = port[msg.cl] /\ iov_len = Cut(msg.cl)
         /\ Source(msg.cl, msg.spec_dst)
    ELSE iov_len = FRAME

(* What a connected socket lets through.                                   *)
RcvdOK ==
    \A c \in Clients :
        \/ rcvd[c] = NoDatagram
        \/ /\ Started(c) /\ Answer(rcvd[c]) /\ family[rcvd[c].cl] = family[c]
           /\ rcvd[c].port = port[c] /\ rcvd[c].addr = dest[c]

Verdict ==
    \A c \in Clients :
        /\ cpc[c] = "ok" => rcvd[c] # NoDatagram /\ LenRecv(c) = LenSend(c)
        /\ cpc[c] = "exit_1" => rcvd[c] # NoDatagram /\ LenRecv(c) # LenSend(c)

IInv == TypeOK /\ Sockets /\ NetOK /\ QueueOK /\ MsgOK /\ RcvdOK /\ Verdict

-----------------------------------------------------------------------------
LEMMA MinPair ==
    ASSUME NEW a \in Int, NEW b \in Int
    PROVE  Min({a, b}) = IF a <= b THEN a ELSE b
<1>1. \E x \in {a, b} : \A y \in {a, b} : x <= y
  OBVIOUS
<1>2. Min({a, b}) \in {a, b} /\ \A y \in {a, b} : Min({a, b}) <= y
  BY <1>1 DEF Min
<1> QED BY <1>2

LEMMA TailFacts ==
    ASSUME NEW S, NEW s \in Seq(S), s # <<>>
    PROVE  /\ Tail(s) \in Seq(S) /\ Head(s) \in S /\ Head(s) = s[1] /\ 1 \in 1 .. Len(s)
           /\ Len(s) \in Nat \ {0} /\ Len(Tail(s)) = Len(s) - 1
           /\ \A k \in 1 .. Len(Tail(s)) : k + 1 \in 1 .. Len(s) /\ Tail(s)[k] = s[k + 1]
  OBVIOUS

LEMMA AppendFacts ==
    ASSUME NEW S, NEW s \in Seq(S), NEW e \in S
    PROVE  /\ Append(s, e) \in Seq(S) /\ Len(Append(s, e)) = Len(s) + 1
           /\ \A k \in 1 .. Len(s) : Append(s, e)[k] = s[k]
           /\ Append(s, e)[Len(s) + 1] = e
  OBVIOUS

LEMMA Lengths ==
    ASSUME TypeOK, NEW c \in Clients
    PROVE  LenSend(c) \in 0 .. U16 - 1 /\ Cut(c) \in 0 .. FRAME /\ FRAME < U16 /\ U16 \in Nat
           /\ Cut(c) = (IF LenSend(c) <= FRAME THEN LenSend(c) ELSE FRAME)
<1>1. size[c] \in Int /\ U16 \in Nat \ {0} /\ FRAME \in Nat /\ FRAME < U16
  BY EchoAssumption DEF TypeOK
<1>2. (size[c] % U16) \in 0 .. U16 - 1
  BY <1>1
<1>3. LenSend(c) \in 0 .. U16 - 1
  BY <1>2 DEF LenSend
<1>4. Cut(c) = IF LenSend(c) <= FRAME THEN LenSend(c) ELSE FRAME
  BY <1>1, <1>3, MinPair DEF Cut
<1> QED BY <1>1, <1>3, <1>4

(* What no step undoes.                                                    *)
Kept ==
    /\ noaddr \subseteq noaddr'
    /\ \A k \in Clients :
          /\ Started(k) => /\ Started(k)'
                           /\ port'[k] = port[k] /\ dest'[k] = dest[k] /\ size'[k] = size[k]
          /\ Sent(k) => Sent(k)'

LEMMA KeptFacts ==
    ASSUME Kept
    PROVE  /\ \A d : Asked(d) => Asked(d)'
           /\ \A d : Answer(d) => Answer(d)'
           /\ \A d : OnTheWay(d) => OnTheWay(d)'
           /\ \A e : Queued(e) => Queued(e)'
           /\ \A c \in Clients : Sent(c) =>
                 Cut(c)' = Cut(c) /\ \A s : Source(c, s) => Source(c, s)'
<1>1. \A k \in Clients : Sent(k) =>
          /\ Sent(k)' /\ port'[k] = port[k] /\ dest'[k] = dest[k]
          /\ LenSend(k)' = LenSend(k) /\ Cut(k)' = Cut(k)
  BY DEF Kept, Started, Sent, LenSend, Cut
<1>2. \A d : Asked(d) => Asked(d)'
  BY <1>1 DEF Asked
<1>3. \A d : Answer(d) => Answer(d)'
  BY <1>1 DEF Answer, Kept
<1>4. \A c \in Clients : Sent(c) => \A s : Source(c, s) => Source(c, s)'
  BY <1>1 DEF Source, Kept
<1>5. \A e : Queued(e) => Queued(e)'
  BY <1>1, <1>4 DEF Queued
<1>6. \A d : OnTheWay(d) => OnTheWay(d)'
  BY <1>2, <1>3 DEF OnTheWay
<1> QED BY <1>1, <1>2, <1>3, <1>4, <1>5, <1>6

(* The clients' sockets do not change.                                     *)
LEMMA KeptBySame ==
    ASSUME UNCHANGED <<cpc, port, dest, size>>, noaddr \subseteq noaddr'
    PROVE  Kept
  BY DEF Kept, Started, Sent

(* Parts of the invariant a step does not touch.                           *)
LEMMA NetFrame ==
    ASSUME NetOK, Kept, \A d \in net' : d \in net \/ OnTheWay(d)'
    PROVE  NetOK'
  BY KeptFacts DEF NetOK

LEMMA QueueFrame ==
    ASSUME QueueOK, Kept, sockq' = sockq \/ sockq' = <<>>
    PROVE  QueueOK'
<1>1. Len(<<>>) = 0
  OBVIOUS
<1> QED BY <1>1, KeptFacts DEF QueueOK

LEMMA MsgFrame ==
    ASSUME MsgOK, Kept, UNCHANGED <<msg, iov_len>>, spc' = "send" <=> spc = "send"
    PROVE  MsgOK'
<1> SUFFICES ASSUME spc' = "send"
             PROVE  /\ msg.cl \in Clients /\ Sent(msg.cl)'
                    /\ msg.name = port'[msg.cl] /\ iov_len = Cut(msg.cl)'
                    /\ Source(msg.cl, msg.spec_dst)'
  BY DEF MsgOK, Sent, Cut, Source, LenSend
<1>1. /\ msg.cl \in Clients /\ Sent(msg.cl) /\ msg.name = port[msg.cl] /\ iov_len = Cut(msg.cl)
      /\ Source(msg.cl, msg.spec_dst)
  BY DEF MsgOK
<1>2. Sent(msg.cl)' /\ port'[msg.cl] = port[msg.cl]
  BY <1>1 DEF Kept, Sent, Started
<1> QED BY <1>1, <1>2, KeptFacts

LEMMA RcvdFrame ==
    ASSUME RcvdOK, Kept, UNCHANGED <<rcvd, family>>
    PROVE  RcvdOK'
<1> SUFFICES ASSUME NEW c \in Clients, rcvd[c] # NoDatagram
             PROVE  /\ Started(c)' /\ Answer(rcvd[c])' /\ family[rcvd[c].cl] = family[c]
                    /\ rcvd[c].port = port'[c] /\ rcvd[c].addr = dest'[c]
  BY DEF RcvdOK, Answer
<1>1. /\ Started(c) /\ Answer(rcvd[c]) /\ family[rcvd[c].cl] = family[c]
      /\ rcvd[c].port = port[c] /\ rcvd[c].addr = dest[c]
  BY DEF RcvdOK
<1> QED BY <1>1, KeptFacts DEF Kept

LEMMA VerdictFrame ==
    ASSUME Verdict, UNCHANGED <<cpc, size>>,
           \A c \in Clients : cpc[c] \in {"ok", "exit_1"} => rcvd'[c] = rcvd[c]
    PROVE  Verdict'
  BY DEF Verdict, LenRecv, LenSend

LEMMA SocketsFrame ==
    ASSUME Sockets, UNCHANGED <<cpc, port, dest>>
    PROVE  Sockets'
  BY DEF Sockets, Started

-----------------------------------------------------------------------------
(* The properties follow from the invariant in each state.                 *)

(* A socket that no other client can be mistaken for got its own answer.   *)
LEMMA AloneGotOwn ==
    ASSUME IInv, NEW c \in Clients, rcvd[c] # NoDatagram
    PROVE  /\ rcvd[c].addr = dest[c] /\ rcvd[c].len \in 0 .. FRAME
           /\ Alone(c) => rcvd[c].cl = c /\ rcvd[c].len = Cut(c)
<1> DEFINE k == rcvd[c].cl
<1>1. /\ Answer(rcvd[c]) /\ family[k] = family[c]
      /\ rcvd[c].port = port[c] /\ rcvd[c].addr = dest[c]
  BY DEF IInv, RcvdOK
<1>2. k \in Clients /\ port[k] = port[c] /\ rcvd[c].len = Cut(k) /\ (dest[c] = dest[k] \/ k \in noaddr)
  BY <1>1 DEF Answer
<1>3. Cut(k) \in 0 .. FRAME
  BY <1>2, Lengths DEF IInv
<1>4. Alone(c) => k = c
  BY <1>1, <1>2 DEF Alone
<1> QED BY <1>1, <1>2, <1>3, <1>4

LEMMA OKFollows == ASSUME IInv PROVE OKMeansEchoed
<1> SUFFICES ASSUME NEW c \in Clients, cpc[c] = "ok"
             PROVE  /\ LenSend(c) <= FRAME /\ rcvd[c].addr = dest[c]
                    /\ Alone(c) => rcvd[c].cl = c /\ rcvd[c].len = LenSend(c)
  BY DEF OKMeansEchoed
<1>1. rcvd[c] # NoDatagram /\ LenRecv(c) = LenSend(c)
  BY DEF IInv, Verdict
<1>2. /\ LenSend(c) \in Int /\ FRAME \in Int
      /\ Cut(c) = (IF LenSend(c) <= FRAME THEN LenSend(c) ELSE FRAME)
  BY Lengths, EchoAssumption DEF IInv
<1>3. /\ rcvd[c].addr = dest[c] /\ rcvd[c].len \in Int /\ rcvd[c].len <= FRAME
      /\ Alone(c) => rcvd[c].cl = c /\ rcvd[c].len = Cut(c)
  BY <1>1, <1>2, AloneGotOwn
<1>4. LenRecv(c) = IF rcvd[c].len <= LenSend(c) THEN rcvd[c].len ELSE LenSend(c)
  BY <1>2, <1>3, MinPair DEF LenRecv
<1> QED BY <1>1, <1>2, <1>3, <1>4

LEMMA SizeFailureFollows == ASSUME IInv PROVE SizeFailureMeansTooLong
<1> SUFFICES ASSUME NEW c \in Clients, cpc[c] = "exit_1", Alone(c)
             PROVE  LenSend(c) > FRAME
  BY DEF SizeFailureMeansTooLong
<1>1. rcvd[c] # NoDatagram /\ LenRecv(c) # LenSend(c)
  BY DEF IInv, Verdict
<1>2. /\ LenSend(c) \in Int /\ FRAME \in Int
      /\ Cut(c) = (IF LenSend(c) <= FRAME THEN LenSend(c) ELSE FRAME)
  BY Lengths, EchoAssumption DEF IInv
<1>3. rcvd[c].len = Cut(c)
  BY <1>1, AloneGotOwn
<1>4. LenRecv(c) = IF rcvd[c].len <= LenSend(c) THEN rcvd[c].len ELSE LenSend(c)
  BY <1>2, <1>3, MinPair DEF LenRecv
<1> QED BY <1>1, <1>2, <1>3, <1>4

LEMMA RightSourceFollows == ASSUME IInv PROVE RightSource
  BY DEF IInv, NetOK, OnTheWay, Answer, RightSource

-----------------------------------------------------------------------------
(* Initial states and the steps.                                           *)

LEMMA InitIInv == ASSUME Init PROVE IInv
<1>1. err \in [Clients -> BOOLEAN]
  BY Zenon DEF Init
<1>2. sockq = <<>> /\ Len(<<>>) = 0
  BY DEF Init
<1>3. NoDatagram \in DatagramType
  BY EchoAssumption DEF NoDatagram, Datagram, DatagramType
<1>4. rcvd \in [Clients -> DatagramType]
  BY <1>3 DEF Init
<1>5. TypeOK
  BY <1>1, <1>2, <1>4, EchoAssumption DEF Init, TypeOK, NoMsg
<1>6. Sockets /\ Verdict
  BY DEF Init, Sockets, Verdict, Started
<1>7. NetOK /\ QueueOK /\ MsgOK /\ RcvdOK
  BY <1>2 DEF Init, NetOK, QueueOK, MsgOK, RcvdOK
<1> QED BY <1>5, <1>6, <1>7 DEF IInv

(* Steps of the server that leave clients and network alone.               *)
LEMMA ServerStepIInv ==
    ASSUME IInv, TypeOK', UNCHANGED <<family, clientVars, noaddr>>, net' = net,
           sockq' = sockq \/ sockq' = <<>>, MsgOK'
    PROVE  IInv'
<1>1. UNCHANGED <<cpc, port, dest, size, rcvd>>
  BY DEF clientVars
<1>2. Kept
  BY <1>1, KeptBySame
<1>3. Sockets' /\ RcvdOK' /\ Verdict'
  BY <1>1, <1>2, SocketsFrame, RcvdFrame, VerdictFrame DEF IInv
<1>4. NetOK' /\ QueueOK'
  BY <1>2, NetFrame, QueueFrame DEF IInv
<1> QED BY <1>3, <1>4 DEF IInv

(* The clients whose datagrams the queue holds.                            *)
LEMMA QueueClients ==
    ASSUME IInv
    PROVE  {sockq[k].cl : k \in 1 .. Len(sockq)} \subseteq Clients
  BY DEF IInv, QueueOK, Queued

LEMMA EmptyQueue ==
    /\ <<>> \in Seq([port : Ports, spec_dst : Addrs \cup {None}, len : 0 .. U16 - 1, cl : Clients])
    /\ Len(<<>>) <= MaxQueue
  BY EchoAssumption

LEMMA ServerStartIInv == ASSUME IInv, ServerStart \/ SetPktinfo \/ RecvMsgFails PROVE IInv'
<1>1. TypeOK' /\ sockq' \in {sockq, <<>>} /\ spc # "send" /\ spc' # "send"
  <2>1. CASE ServerStart
    <3>1. count' \in Int /\ starts' \in 0 .. MaxStarts
      BY <2>1, EchoAssumption DEF ServerStart, IInv, TypeOK
    <3> QED BY <2>1, <3>1 DEF ServerStart, IInv, TypeOK, clientVars, netVars
  <2>2. CASE SetPktinfo
    <3>1. \A c \in Clients : family[c] \in {"v4", "v6"}
      BY EchoAssumption DEF IInv, TypeOK
    <3>2. pktinfo' \subseteq {"v4", "v6"}
      BY <2>2, <3>1 DEF SetPktinfo
    <3> QED BY <2>2, <3>2 DEF SetPktinfo, IInv, TypeOK, clientVars, netVars
  <2>3. CASE RecvMsgFails
    <3>1. lost' \subseteq Clients
      BY <2>3, QueueClients DEF RecvMsgFails, ServerEnds, IInv, TypeOK
    <3> QED BY <2>3, <3>1, EmptyQueue DEF RecvMsgFails, ServerEnds, IInv, TypeOK, clientVars, netVars
  <2> QED BY <2>1, <2>2, <2>3
<1>2. UNCHANGED <<family, clientVars, noaddr, msg, iov_len>> /\ net' = net
  BY DEF ServerStart, SetPktinfo, RecvMsgFails, netVars
<1>3. MsgOK'
  BY <1>1, <1>2 DEF IInv, MsgOK
<1> QED BY <1>1, <1>2, <1>3, ServerStepIInv

(* The answer is as long as what the frame holds of the request, whatever  *)
(* the lengths before it.                                                  *)
LEMMA RecvMsgIInv == ASSUME IInv, RecvMsg PROVE IInv'
<1> DEFINE E == [port : Ports, spec_dst : Addrs \cup {None}, len : 0 .. U16 - 1, cl : Clients]
<1> PICK d : d = Head(sockq)
  OBVIOUS
<1>1. sockq \in Seq(E) /\ sockq # <<>> /\ Len(sockq) <= MaxQueue /\ MaxQueue \in Nat
  BY EchoAssumption DEF IInv, TypeOK, RecvMsg, RecvInto
<1> HIDE DEF E
<1>2. /\ d \in E /\ d = sockq[1] /\ 1 \in 1 .. Len(sockq)
      /\ Tail(sockq) \in Seq(E) /\ Len(sockq) \in Nat /\ Len(Tail(sockq)) = Len(sockq) - 1
      /\ \A k \in 1 .. Len(Tail(sockq)) :
            k + 1 \in 1 .. Len(sockq) /\ Tail(sockq)[k] = sockq[k + 1]
  BY <1>1, TailFacts
<1>3. Queued(d)
  BY <1>2 DEF IInv, QueueOK
<1> USE DEF E
<1>4. /\ d.cl \in Clients /\ d.port \in Ports /\ d.spec_dst \in Addrs \cup {None}
      /\ d.len \in 0 .. U16 - 1
  BY <1>2
<1> HIDE DEF E
<1> PICK a : a = LocalAddr(d)
  OBVIOUS
<1>5. /\ iov_len' = Min({d.len, FRAME}) /\ sockq' = Tail(sockq) /\ spc' = "send"
      /\ msg' = [name |-> d.port, spec_dst |-> a, cl |-> d.cl]
      /\ noaddr' = (IF a = None THEN noaddr \cup {d.cl} ELSE noaddr)
      /\ UNCHANGED <<family, pktinfo, count, starts, clientVars, netVars, lost>>
  <2>1. iov_len = FRAME
    BY DEF RecvMsg, RecvInto, IInv, MsgOK
  <2> QED BY <2>1 DEF RecvMsg, RecvInto
<1>6. UNCHANGED <<cpc, port, dest, size, rcvd, err, net, dups>>
  BY <1>5 DEF clientVars, netVars
<1>7. Kept
  BY <1>5, <1>6, KeptBySame
<1> a \in {d.spec_dst, None}
  BY DEF LocalAddr
<1>8. iov_len' = Cut(d.cl) /\ iov_len' \in 0 .. FRAME
  BY <1>3, <1>4, <1>5, Lengths DEF Queued, Cut, IInv
<1>9. msg' \in [name : Ports \cup {None}, spec_dst : Addrs \cup {None}, cl : Clients \cup {None}]
  BY <1>4, <1>5
<1>10. sockq' \in Seq(E) /\ Len(sockq') <= MaxQueue
  BY <1>1, <1>2, <1>5
<1>11. TypeOK'
  <2>1. noaddr' \subseteq Clients
    BY <1>4, <1>5 DEF IInv, TypeOK
  <2> QED BY <2>1, <1>5, <1>6, <1>8, <1>9, <1>10 DEF IInv, TypeOK, E
<1>12. MsgOK'
  <2>1. msg'.cl = d.cl /\ msg'.name = d.port /\ msg'.spec_dst = a
    BY <1>5
  <2>2. Sent(d.cl)' /\ port'[d.cl] = d.port /\ Cut(d.cl)' = Cut(d.cl) /\ Source(d.cl, d.spec_dst)'
    BY <1>3, <1>4, <1>6, <1>7, KeptFacts DEF Queued, Kept
  <2>3. Source(d.cl, a)'
    BY <2>2, <1>5 DEF Source
  <2> QED BY <2>1, <2>2, <2>3, <1>4, <1>5, <1>8 DEF MsgOK, Sent, Cut, Source, LenSend
<1>13. QueueOK'
  <2> SUFFICES ASSUME NEW k \in 1 .. Len(sockq') PROVE Queued(sockq[k])'
    BY DEF QueueOK
  <2>1. k + 1 \in 1 .. Len(sockq) /\ sockq'[k] = sockq[k + 1]
    BY <1>2, <1>5
  <2> PICK e : e = sockq[k + 1]
    OBVIOUS
  <2>2. Queued(e)'
    BY <2>1, <1>7, KeptFacts DEF IInv, QueueOK
  <2> QED BY <2>1, <2>2 DEF Queued, Sent, Source, LenSend
<1>14. Sockets' /\ RcvdOK' /\ Verdict' /\ NetOK'
  BY <1>5, <1>6, <1>7, SocketsFrame, RcvdFrame, VerdictFrame, NetFrame DEF IInv
<1> QED BY <1>11, <1>12, <1>13, <1>14 DEF IInv

(* What the end of the loop's body leaves behind.                          *)
ServerTypes ==
    /\ spc \in {"down", "bound", "recv", "send"} /\ count \in Int
    /\ pktinfo \subseteq {"v4", "v6"} /\ iov_len \in 0 .. FRAME
    /\ msg \in [name : Ports \cup {None}, spec_dst : Addrs \cup {None},
                cl : Clients \cup {None}]
    /\ sockq \in Seq([port : Ports, spec_dst : Addrs \cup {None},
                      len : 0 .. U16 - 1, cl : Clients])
    /\ Len(sockq) <= MaxQueue /\ lost \subseteq Clients

LEMMA CountDownFacts ==
    ASSUME IInv, NEW gone \in SUBSET Clients, CountDown(gone), LoopHead
    PROVE  ServerTypes' /\ sockq' \in {sockq, <<>>} /\ MsgOK'
<1>1. /\ sockq' \in {sockq, <<>>} /\ lost' \subseteq Clients /\ count' \in Int
      /\ spc' \in {"recv", "down"} /\ pktinfo' \subseteq {"v4", "v6"}
  BY QueueClients DEF CountDown, ServerEnds, IInv, TypeOK
<1>2. /\ sockq' \in Seq([port : Ports, spec_dst : Addrs \cup {None}, len : 0 .. U16 - 1, cl : Clients])
      /\ Len(sockq') <= MaxQueue
  BY <1>1, EmptyQueue DEF IInv, TypeOK
<1>3. iov_len' = FRAME /\ iov_len' \in 0 .. FRAME /\ msg' = NoMsg
  BY EchoAssumption DEF LoopHead
<1>4. MsgOK'
  BY <1>1, <1>3 DEF MsgOK
<1> QED BY <1>1, <1>2, <1>3, <1>4 DEF ServerTypes, NoMsg

(* The answer leaves from the address asked, or pktinfo was missing.       *)
LEMMA SendMsgIInv == ASSUME IInv, SendMsg PROVE IInv'
<1> PICK r : r = Datagram("reply", msg.name, ReplyFrom, iov_len, msg.cl)
  OBVIOUS
<1> PICK c : c = msg.cl
  OBVIOUS
<1>1. /\ c \in Clients /\ Sent(c) /\ msg.name = port[c] /\ iov_len = Cut(c)
      /\ Source(c, msg.spec_dst) /\ port[c] \in Ports /\ dest[c] \in Addrs
  BY DEF IInv, MsgOK, SendMsg, Sockets, Sent, Started
<1>2. ReplyFrom \in Addrs /\ (ReplyFrom = dest[c] \/ c \in noaddr)
  BY <1>1, EchoAssumption DEF ReplyFrom, Source
<1>3. /\ r.kind = "reply" /\ r.cl = c /\ r.port = port[c] /\ r.len = Cut(c) /\ r.addr = ReplyFrom
  BY <1>1 DEF Datagram
<1>4. Answer(r)
  BY <1>1, <1>2, <1>3 DEF Answer
<1>5. r \in DatagramType
  <2>1. iov_len \in 0 .. U16 - 1
    BY EchoAssumption DEF IInv, TypeOK
  <2> QED BY <2>1, <1>1, <1>2 DEF Datagram, DatagramType
<1>6. /\ net' = net \cup {r} /\ CountDown({}) /\ LoopHead
      /\ UNCHANGED <<family, starts, clientVars, dups, noaddr>>
  BY DEF SendMsg
<1>7. ServerTypes' /\ sockq' \in {sockq, <<>>} /\ MsgOK'
  BY <1>6, CountDownFacts
<1>9. UNCHANGED <<cpc, port, dest, size, rcvd, err>>
  BY <1>6 DEF clientVars
<1>10. TypeOK'
  BY <1>5, <1>6, <1>7, <1>9 DEF IInv, TypeOK, ServerTypes
<1>11. Kept
  BY <1>6, <1>9, KeptBySame
<1>12. NetOK'
  <2>1. OnTheWay(r)'
    <3>1. OnTheWay(r)
      BY <1>3, <1>4 DEF OnTheWay
    <3> QED BY <3>1, <1>11, KeptFacts
  <2> QED BY <2>1, <1>6, <1>11, NetFrame DEF IInv
<1>13. QueueOK'
  BY <1>7, <1>11, QueueFrame DEF IInv
<1>14. Sockets' /\ RcvdOK' /\ Verdict'
  BY <1>6, <1>9, <1>11, SocketsFrame, RcvdFrame, VerdictFrame DEF IInv
<1> QED BY <1>7, <1>10, <1>12, <1>13, <1>14 DEF IInv

LEMMA SendMsgFailsIInv == ASSUME IInv, SendMsgFails PROVE IInv'
<1>1. /\ CountDown({msg.cl}) /\ LoopHead
      /\ UNCHANGED <<family, starts, clientVars, netVars, noaddr>>
  BY DEF SendMsgFails
<1>2. {msg.cl} \subseteq Clients
  BY DEF SendMsgFails, IInv, MsgOK
<1>3. ServerTypes' /\ sockq' \in {sockq, <<>>} /\ MsgOK'
  BY <1>1, <1>2, CountDownFacts
<1>4. TypeOK'
  BY <1>1, <1>3 DEF IInv, TypeOK, ServerTypes, clientVars, netVars
<1> QED BY <1>1, <1>3, <1>4, ServerStepIInv DEF netVars

(* The kernel gives c a port; nothing of c is on its way yet.              *)
LEMMA ClientStartIInv == ASSUME IInv, NEW c \in Clients, ClientStart(c) PROVE IInv'
<1>1. PICK prt \in Ports, addr \in Addrs, s \in Sizes :
          /\ port' = [port EXCEPT ![c] = prt] /\ dest' = [dest EXCEPT ![c] = addr]
          /\ size' = [size EXCEPT ![c] = s]
  BY DEF ClientStart
<1>2. /\ cpc[c] = "start" /\ cpc' = [cpc EXCEPT ![c] = "connected"]
      /\ UNCHANGED <<rcvd, err, serverVars, netVars, lost, noaddr>>
  BY DEF ClientStart
<1>3. TypeOK
  BY DEF IInv
<1>4. /\ cpc'[c] = "connected" /\ port'[c] = prt /\ dest'[c] = addr
      /\ \A k \in Clients \ {c} : /\ cpc'[k] = cpc[k] /\ port'[k] = port[k]
                                  /\ dest'[k] = dest[k] /\ size'[k] = size[k]
  BY <1>1, <1>2, <1>3 DEF TypeOK
<1>5. TypeOK'
  <2>1. /\ cpc' \in [Clients -> {"start", "connected", "wait", "ok", "exit_1", "exit_5", "exit_setup"}]
        /\ port' \in [Clients -> Ports \cup {None}] /\ dest' \in [Clients -> Addrs \cup {None}]
        /\ size' \in [Clients -> Int]
    BY <1>1, <1>2, <1>3, EchoAssumption DEF TypeOK
  <2> QED BY <2>1, <1>2, <1>3 DEF TypeOK, serverVars, netVars
<1>6. Kept
  BY <1>2, <1>4 DEF Kept, Started, Sent
<1>7. Sockets'
  BY <1>4 DEF IInv, Sockets, Started
<1>8. NetOK' /\ QueueOK' /\ MsgOK' /\ RcvdOK'
  BY <1>2, <1>6, NetFrame, QueueFrame, MsgFrame, RcvdFrame DEF IInv, serverVars, netVars
<1>9. Verdict'
  BY <1>2, <1>4 DEF IInv, Verdict, LenRecv, LenSend
<1> QED BY <1>5, <1>7, <1>8, <1>9 DEF IInv

(* A client's own steps change its state, and may send its request.        *)
LEMMA ClientStepIInv ==
    ASSUME IInv, NEW c \in Clients, NEW to \in {"wait", "ok", "exit_1", "exit_5", "exit_setup"},
           cpc' = [cpc EXCEPT ![c] = to],
           to = "exit_setup" => cpc[c] = "start",
           to # "exit_setup" => cpc[c] \in {"connected", "wait"},
           to = "ok" => rcvd[c] # NoDatagram /\ LenRecv(c) = LenSend(c),
           to = "exit_1" => rcvd[c] # NoDatagram /\ LenRecv(c) # LenSend(c),
           UNCHANGED <<port, dest, size, rcvd, err, serverVars, dups, lost, noaddr>>,
           net' \subseteq DatagramType, \A d \in net' : d \in net \/ OnTheWay(d)'
    PROVE  IInv'
<1>1. TypeOK
  BY DEF IInv
<1>2. cpc'[c] = to /\ \A k \in Clients \ {c} : cpc'[k] = cpc[k]
  BY <1>1 DEF TypeOK
<1>3. TypeOK'
  <2>1. cpc' \in [Clients -> {"start", "connected", "wait", "ok", "exit_1", "exit_5", "exit_setup"}]
    BY <1>1 DEF TypeOK
  <2> QED BY <2>1, <1>1 DEF TypeOK, serverVars
<1>4. Kept
  BY <1>2 DEF Kept, Started, Sent
<1>5. Sockets'
  BY <1>2 DEF IInv, Sockets, Started
<1>6. NetOK' /\ QueueOK' /\ MsgOK' /\ RcvdOK'
  BY <1>4, NetFrame, QueueFrame, MsgFrame, RcvdFrame DEF IInv, serverVars
<1>7. Verdict'
  BY <1>2 DEF IInv, Verdict, LenRecv, LenSend
<1> QED BY <1>3, <1>5, <1>6, <1>7 DEF IInv

LEMMA ClientIInv == ASSUME IInv, NEW c \in Clients, Client(c) \/ ClientSetupFails(c) PROVE IInv'
<1>1. TypeOK /\ net \subseteq DatagramType
  BY DEF IInv, TypeOK
<1>2. CASE ClientSetupFails(c)
  <2>1. /\ cpc[c] = "start" /\ cpc' = [cpc EXCEPT ![c] = "exit_setup"]
        /\ UNCHANGED <<port, dest, size, rcvd, err, serverVars, dups, lost, noaddr>> /\ net' = net
    BY <1>2 DEF ClientSetupFails, netVars
  <2> QED BY <2>1, <1>1, ClientStepIInv
<1>3. CASE SendPacketFails(c)
  <2>1. /\ cpc[c] = "connected" /\ cpc' = [cpc EXCEPT ![c] = "exit_5"]
        /\ UNCHANGED <<port, dest, size, rcvd, err, serverVars, dups, lost, noaddr>> /\ net' = net
    BY <1>3 DEF SendPacketFails, netVars
  <2> QED BY <2>1, <1>1, ClientStepIInv
<1>4. CASE RecvPacket(c)
  <2> DEFINE to == IF err[c] THEN "exit_5" ELSE IF LenRecv(c) # LenSend(c) THEN "exit_1" ELSE "ok"
  <2>1. /\ cpc[c] = "wait" /\ (err[c] \/ rcvd[c] # NoDatagram) /\ cpc' = [cpc EXCEPT ![c] = to]
        /\ UNCHANGED <<port, dest, size, rcvd, err, serverVars, dups, lost, noaddr>> /\ net' = net
    BY <1>4 DEF RecvPacket, netVars
  <2>2. /\ to \in {"wait", "ok", "exit_1", "exit_5", "exit_setup"} /\ to # "exit_setup"
        /\ to = "ok" => ~err[c] /\ LenRecv(c) = LenSend(c)
        /\ to = "exit_1" => ~err[c] /\ LenRecv(c) # LenSend(c)
    OBVIOUS
  <2> HIDE DEF to
  <2>3. /\ to = "ok" => rcvd[c] # NoDatagram /\ LenRecv(c) = LenSend(c)
        /\ to = "exit_1" => rcvd[c] # NoDatagram /\ LenRecv(c) # LenSend(c)
    BY <2>1, <2>2
  <2> QED BY <2>1, <2>2, <2>3, <1>1, ClientStepIInv
<1>5. CASE SendPacket(c)
  <2> PICK r : r = Datagram("request", port[c], dest[c], LenSend(c), c)
    OBVIOUS
  <2>1. /\ cpc[c] = "connected" /\ cpc' = [cpc EXCEPT ![c] = "wait"] /\ net' = net \cup {r}
        /\ UNCHANGED <<port, dest, size, rcvd, err, serverVars, dups, lost, noaddr>>
    BY <1>5 DEF SendPacket
  <2>2. /\ r.kind = "request" /\ r.cl = c /\ r.port = port[c] /\ r.addr = dest[c]
        /\ r.len = LenSend(c)
    BY DEF Datagram
  <2>3. r \in DatagramType
    <3>1. port[c] \in Ports /\ dest[c] \in Addrs /\ LenSend(c) \in 0 .. U16 - 1
      BY <2>1, <1>1, Lengths DEF IInv, Sockets, Started
    <3> QED BY <3>1 DEF Datagram, DatagramType
  <2>4. cpc'[c] = "wait"
    BY <2>1, <1>1 DEF TypeOK
  <2>5. OnTheWay(r)'
    BY <2>1, <2>2, <2>4 DEF OnTheWay, Asked, Sent, LenSend
  <2>6. net' \subseteq DatagramType /\ \A d \in net' : d \in net \/ OnTheWay(d)'
    BY <2>1, <2>3, <2>5, <1>1
  <2> QED BY <2>1, <2>6, <1>1, ClientStepIInv
<1> QED BY <1>2, <1>3, <1>4, <1>5 DEF Client

-----------------------------------------------------------------------------
(* The network.                                                            *)

LEMMA ArriveRequestIInv ==
    ASSUME IInv, NEW d \in net, NEW rest \in SUBSET net, ArriveRequest(d, rest),
           UNCHANGED <<family, spc, pktinfo, count, iov_len, msg, starts, cpc, port, dest, size>>,
           dups' \in 0 .. MaxDups
    PROVE  IInv'
<1> DEFINE E == [port : Ports, spec_dst : Addrs \cup {None}, len : 0 .. U16 - 1, cl : Clients]
<1>1. /\ TypeOK /\ d \in DatagramType /\ d.kind = "request" /\ Asked(d)
      /\ UNCHANGED <<rcvd, err>>
  BY DEF IInv, TypeOK, NetOK, OnTheWay, ArriveRequest
<1>2. /\ d.cl \in Clients /\ Sent(d.cl) /\ d.port = port[d.cl] /\ d.addr = dest[d.cl]
      /\ d.len = LenSend(d.cl) /\ d.len \in 0 .. U16 - 1
      /\ d.port \in Ports /\ d.addr \in Addrs
  <2>1. d.len \in 0 .. U16 - 1
    BY <1>1 DEF DatagramType
  <2> QED BY <2>1, <1>1 DEF Asked, IInv, Sockets, Sent, Started
<1>3. ASSUME noaddr \subseteq noaddr' PROVE Kept
  BY <1>3, KeptBySame
<1>4. ASSUME noaddr \subseteq noaddr'
      PROVE  Sockets' /\ MsgOK' /\ RcvdOK' /\ Verdict'
  BY <1>1, <1>3, <1>4, SocketsFrame, MsgFrame, RcvdFrame, VerdictFrame DEF IInv
<1>5. CASE spc = "down" /\ net' = rest \cup {[d EXCEPT !.kind = "icmp"]}
           /\ UNCHANGED <<sockq, lost, noaddr>>
  <2> PICK r : r = [d EXCEPT !.kind = "icmp"]
    OBVIOUS
  <2>1. /\ r \in DatagramType /\ r.kind = "icmp" /\ r.cl = d.cl /\ r.port = d.port
        /\ r.addr = d.addr /\ r.len = d.len
    BY <1>1 DEF DatagramType
  <2>2. OnTheWay(r)
    BY <2>1, <1>2 DEF OnTheWay, Asked
  <2>3. OnTheWay(r)'
    BY <2>2, <1>3, <1>5, KeptFacts
  <2>4. NetOK' /\ QueueOK'
    BY <2>3, <1>3, <1>5, NetFrame, QueueFrame DEF IInv
  <2>5. TypeOK'
    BY <2>1, <1>1, <1>5 DEF TypeOK
  <2> QED BY <2>4, <2>5, <1>4, <1>5 DEF IInv
<1>6. CASE Len(sockq) >= MaxQueue /\ net' = rest /\ lost' = lost \cup {d.cl}
           /\ UNCHANGED <<sockq, noaddr>>
  <2>1. NetOK' /\ QueueOK'
    BY <1>3, <1>6, NetFrame, QueueFrame DEF IInv
  <2>2. TypeOK'
    BY <1>1, <1>2, <1>6 DEF TypeOK
  <2> QED BY <2>1, <2>2, <1>4, <1>6 DEF IInv
<1>7. CASE /\ Len(sockq) < MaxQueue
           /\ sockq' = Append(sockq, [port |-> d.port, spec_dst |-> SpecDst(d),
                                      len |-> d.len, cl |-> d.cl])
           /\ noaddr' = (IF SpecDst(d) = None THEN noaddr \cup {d.cl} ELSE noaddr)
           /\ net' = rest /\ UNCHANGED lost
  <2> PICK e : e = [port |-> d.port, spec_dst |-> SpecDst(d), len |-> d.len, cl |-> d.cl]
    OBVIOUS
  <2>1. SpecDst(d) \in {d.addr, None}
    BY DEF SpecDst
  <2>2. /\ e \in E /\ e.cl = d.cl /\ e.port = d.port /\ e.len = d.len /\ e.spec_dst = SpecDst(d)
    BY <2>1, <1>2
  <2>3. noaddr \subseteq noaddr' /\ noaddr' \subseteq Clients
    BY <1>1, <1>2, <1>7 DEF TypeOK
  <2>4. Source(d.cl, e.spec_dst)'
    <3>1. dest'[d.cl] = d.addr
      BY <1>2
    <3> QED BY <3>1, <2>1, <2>2, <1>7 DEF Source
  <2>5. Queued(e)'
    BY <2>2, <2>4, <1>2 DEF Queued, Sent, LenSend
  <2>6. /\ sockq \in Seq(E) /\ Len(sockq) \in Nat /\ MaxQueue \in Nat
    BY <1>1, EchoAssumption DEF TypeOK
  <2> HIDE DEF E
  <2>7. /\ sockq' \in Seq(E) /\ Len(sockq') = Len(sockq) + 1
        /\ \A k \in 1 .. Len(sockq) : sockq'[k] = sockq[k]
        /\ sockq'[Len(sockq) + 1] = e
    BY <2>2, <2>6, <1>7, AppendFacts
  <2>8. QueueOK'
    <3> SUFFICES ASSUME NEW k \in 1 .. Len(sockq') PROVE Queued(sockq[k])'
      BY DEF QueueOK
    <3>1. CASE k = Len(sockq) + 1
      BY <3>1, <2>5, <2>7 DEF Queued, Sent, Source, LenSend
    <3>2. CASE k \in 1 .. Len(sockq)
      <4> PICK x : x = sockq[k]
        OBVIOUS
      <4>1. Queued(x)'
        BY <3>2, <2>3, <1>3, KeptFacts DEF IInv, QueueOK
      <4>2. sockq'[k] = x
        BY <3>2, <2>7
      <4> QED BY <4>1, <4>2 DEF Queued, Sent, Source, LenSend
    <3> QED BY <3>1, <3>2, <2>6, <2>7
  <2>9. TypeOK'
    <3>1. Len(sockq') <= MaxQueue
      BY <2>6, <2>7, <1>7
    <3> QED BY <3>1, <2>3, <2>7, <1>1, <1>7 DEF TypeOK, E
  <2>10. NetOK'
    BY <2>3, <1>3, <1>7, NetFrame DEF IInv
  <2> QED BY <2>3, <2>8, <2>9, <2>10, <1>4 DEF IInv
<1> QED BY <1>5, <1>6, <1>7 DEF ArriveRequest

LEMMA ArriveBackIInv ==
    ASSUME IInv, NEW d \in net, NEW rest \in SUBSET net, ArriveBack(d, rest),
           UNCHANGED <<family, spc, pktinfo, count, iov_len, msg, starts, cpc, port, dest, size>>,
           dups' \in 0 .. MaxDups
    PROVE  IInv'
<1>1. TypeOK /\ d \in DatagramType /\ OnTheWay(d)
  BY DEF IInv, TypeOK, NetOK
<1>2. err' \in [Clients -> BOOLEAN]
  BY Zenon DEF ArriveBack
<1>3. /\ rcvd' = [c \in Clients |->
                     IF d.kind = "reply" /\ Accepts(c, d) /\ rcvd[c] = NoDatagram
                     THEN d ELSE rcvd[c]]
      /\ net' = rest /\ UNCHANGED <<sockq, lost, noaddr>>
  BY DEF ArriveBack
<1>4. rcvd' \in [Clients -> DatagramType]
  BY <1>1, <1>3 DEF TypeOK
<1>5. TypeOK'
  BY <1>1, <1>2, <1>3, <1>4 DEF TypeOK
<1>6. Kept
  BY <1>3, KeptBySame
<1>7. Sockets' /\ NetOK' /\ QueueOK' /\ MsgOK'
  BY <1>3, <1>6, SocketsFrame, NetFrame, QueueFrame, MsgFrame DEF IInv
<1>8. \A c \in Clients :
          \/ rcvd'[c] = rcvd[c]
          \/ rcvd'[c] = d /\ d.kind = "reply" /\ Accepts(c, d)
  BY <1>3
<1>9. RcvdOK'
  <2> SUFFICES ASSUME NEW c \in Clients
               PROVE  \/ rcvd'[c] = NoDatagram
                      \/ /\ Started(c)' /\ Answer(rcvd[c])' /\ family[rcvd'[c].cl] = family[c]
                         /\ rcvd'[c].port = port'[c] /\ rcvd'[c].addr = dest'[c]
    BY DEF RcvdOK
  <2>1. CASE rcvd'[c] = rcvd[c] /\ rcvd[c] # NoDatagram
    <3> PICK x : x = rcvd[c]
      OBVIOUS
    <3>1. /\ Started(c) /\ Answer(x) /\ family[x.cl] = family[c]
          /\ x.port = port[c] /\ x.addr = dest[c]
      BY <2>1 DEF IInv, RcvdOK
    <3>2. Started(c)' /\ Answer(x)'
      BY <3>1, <1>6, KeptFacts DEF Started
    <3> QED BY <2>1, <3>1, <3>2 DEF Answer, Sent, Cut, LenSend
  <2>2. CASE rcvd'[c] = d /\ d.kind = "reply" /\ Accepts(c, d)
    <3>1. Started(c)' /\ family[d.cl] = family[c] /\ d.port = port[c] /\ d.addr = dest[c]
      BY <2>2 DEF Accepts, Running, Started
    <3>2. Answer(d)'
      BY <2>2, <1>1, <1>6, KeptFacts DEF OnTheWay
    <3> QED BY <2>2, <3>1, <3>2 DEF Answer, Sent, Cut, LenSend
  <2> QED BY <2>1, <2>2, <1>8
<1>10. Verdict'
  <2>1. \A c \in Clients : cpc[c] \in {"ok", "exit_1"} => rcvd'[c] = rcvd[c]
    BY <1>8 DEF Accepts, Running
  <2> QED BY <2>1, VerdictFrame DEF IInv
<1> QED BY <1>5, <1>7, <1>9, <1>10 DEF IInv

LEMMA NetworkIInv ==
    ASSUME IInv, NEW d \in net, Deliver(d) \/ DeliverTwice(d) \/ Lose(d)
    PROVE  IInv'
<1>1. dups \in 0 .. MaxDups /\ MaxDups \in Nat
  BY EchoAssumption DEF IInv, TypeOK
<1>2. CASE Deliver(d) \/ DeliverTwice(d)
  <2>1. PICK rest \in SUBSET net : Arrive(d, rest)
    BY <1>2 DEF Deliver, DeliverTwice
  <2>2. dups' \in 0 .. MaxDups
    BY <1>1, <1>2 DEF Deliver, DeliverTwice
  <2> QED BY <2>1, <2>2, ArriveRequestIInv, ArriveBackIInv DEF Arrive
<1>3. CASE Lose(d)
  <2>1. /\ net' = net \ {d} /\ lost' = lost \cup {d.cl}
        /\ UNCHANGED <<serverVars, cpc, port, dest, size, rcvd, err, dups, noaddr>>
    BY <1>3 DEF Lose, clientVars
  <2>2. d.cl \in Clients
    BY DEF IInv, NetOK, OnTheWay, Asked, Answer
  <2>3. TypeOK'
    BY <2>1, <2>2 DEF IInv, TypeOK, serverVars
  <2>4. Kept
    BY <2>1, KeptBySame
  <2>5. Sockets' /\ NetOK' /\ QueueOK' /\ MsgOK' /\ RcvdOK' /\ Verdict'
    BY <2>1, <2>4, SocketsFrame, NetFrame, QueueFrame, MsgFrame, RcvdFrame, VerdictFrame
       DEF IInv, serverVars
  <2> QED BY <2>3, <2>5 DEF IInv
<1> QED BY <1>2, <1>3

-----------------------------------------------------------------------------
(* The inductive invariant: every datagram, wherever it is, is part of the *)
(* exchange of the client in its cl.                                       *)
THEOREM Inductive == Spec => []IInv
<1>1. Init => IInv
  BY InitIInv
<1>2. IInv /\ [Next]_vars => IInv'
  <2> SUFFICES ASSUME IInv, [Next]_vars PROVE IInv'
    OBVIOUS
  <2>1. CASE UNCHANGED vars
    <3>1. UNCHANGED <<family, spc, pktinfo, count, iov_len, msg, sockq, starts, cpc, port, dest, size,
                      rcvd, err, net, dups, lost, noaddr>>
      BY <2>1 DEF vars, serverVars, clientVars, netVars
    <3>2. TypeOK'
      BY <3>1 DEF IInv, TypeOK
    <3>3. Kept
      BY <3>1, KeptBySame
    <3>4. MsgOK'
      BY <3>1, <3>3, MsgFrame DEF IInv
    <3> QED BY <3>1, <3>2, <3>4, ServerStepIInv DEF clientVars
  <2>2. CASE ServerStart \/ SetPktinfo \/ RecvMsgFails
    BY <2>2, ServerStartIInv
  <2>3. CASE RecvMsg
    BY <2>3, RecvMsgIInv
  <2>4. CASE SendMsg
    BY <2>4, SendMsgIInv
  <2>5. CASE SendMsgFails
    BY <2>5, SendMsgFailsIInv
  <2>6. CASE \E c \in Clients : ClientStart(c) \/ ClientSetupFails(c) \/ Client(c)
    BY <2>6, ClientStartIInv, ClientIInv
  <2>7. CASE \E d \in net : Deliver(d) \/ DeliverTwice(d) \/ Lose(d)
    BY <2>7, NetworkIInv
  <2> QED BY <2>1, <2>2, <2>3, <2>4, <2>5, <2>6, <2>7 DEF Next, Server
<1> QED BY <1>1, <1>2, PTL DEF Spec

(* Types: an answer never exceeds the server's frame, and every datagram   *)
(* belongs to a client.                                                    *)
THEOREM TypeCorrect == Spec => []TypeOK
<1>1. IInv => TypeOK
  BY DEF IInv
<1> QED BY <1>1, Inductive, PTL

(* "OK: valid size" is about the client's own datagram, echoed whole from  *)
(* the address it asked, unless its port had another owner.                *)
THEOREM OKIsEcho == Spec => []OKMeansEchoed
<1>1. IInv => OKMeansEchoed
  BY OKFollows
<1> QED BY <1>1, Inductive, PTL

(* "size check" fails only for datagrams longer than the server's frame.   *)
THEOREM SizeFailureIsTooLong == Spec => []SizeFailureMeansTooLong
<1>1. IInv => SizeFailureMeansTooLong
  BY SizeFailureFollows
<1> QED BY <1>1, Inductive, PTL

(* The pktinfo that recvmsg() delivered makes sendmsg() answer from the    *)
(* address that was asked, whichever clients came in between.              *)
THEOREM SourceIsRight == Spec => []RightSource
<1>1. IInv => RightSource
  BY RightSourceFollows
<1> QED BY <1>1, Inductive, PTL
=============================================================================
