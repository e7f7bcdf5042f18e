------------------------------ MODULE UdpEcho ------------------------------
(***************************************************************************)
(* src/udp_echo.c (and src/udp_example02.c, its IPv4 example) serving      *)
(* clients of src/udp_client_echo.c.  The server is bound to every address *)
(* of its host and answers a datagram from the address it was sent to,     *)
(* because sendmsg() gets the pktinfo back that recvmsg() delivered.  A    *)
(* client sends one datagram on a connected socket, waits without a        *)
(* timeout and compares the lengths.  The network delays, loses and        *)
(* duplicates datagrams; a closed port is answered with an ICMP error.     *)
(*                                                                         *)
(* A datagram carries the client's port (which stands for its address and  *)
(* port), the server's address and a length, all of the client's family.   *)
(* cl is history: the client whose request it is, or answers.              *)
(***************************************************************************)
EXTENDS Integers, Sequences, FiniteSetsExt

CONSTANTS Clients,      \* runs of udp_client_echo
          Ports,        \* ephemeral ports the kernel hands out
          Addrs,        \* addresses of the server's host
          None,         \* no port, address or client
          Primary,      \* the one a reply without pktinfo leaves from
          Sizes,        \* values of -s
          Counts,       \* values of the server's -c
          Families,     \* which clients use IPv4 and which IPv6
          FRAME,        \* 8192: sizeof(frame) of the server
          U16,          \* 2^16: pkt_size is an int, send_packet takes a uint16_t
          MaxQueue,     \* bound: datagrams in the server's socket queue
          MaxDups,      \* bound: datagrams the network delivers again
          MaxStarts     \* bound: starts of the server

ASSUME EchoAssumption ==
    /\ None \notin Clients \cup Ports \cup Addrs
    /\ Primary \in Addrs /\ Sizes \subseteq Int /\ Counts \subseteq Int
    /\ Families \subseteq [Clients -> {"v4", "v6"}]
    /\ FRAME \in Nat /\ U16 \in Nat \ {0} /\ FRAME < U16
    /\ MaxQueue \in Nat /\ MaxDups \in Nat /\ MaxStarts \in Nat

VARIABLES
    family,     \* of the clients' addresses; with -4 all are "v4"
    spc,        \* the server's main()
    pktinfo,    \* families for which recvmsg() delivers the local address
    count,      \* answers left before it stops
    iov_len,    \* vec[0].iov_len
    msg,        \* msghdr between recvmsg() and sendmsg()
    sockq,      \* the server's socket queue
    starts,     \* how often it was started
    cpc,        \* the clients' main()
    port, dest, size,   \* their connected sockets, and -s
    rcvd,       \* the first datagram their socket accepted
    err,        \* their socket holds an ICMP error
    net,        \* datagrams on the way
    dups,
    lost,       \* history: clients that lost a request, an answer or an ICMP error
    noaddr      \* history: those whose request's local address the server was not told

serverVars == <<family, spc, pktinfo, count, iov_len, msg, sockq, starts>>
clientVars == <<cpc, port, dest, size, rcvd, err>>
netVars == <<net, dups>>
vars == <<serverVars, clientVars, netVars, lost, noaddr>>

Datagram(kind, prt, addr, len, c) ==
    [kind |-> kind, port |-> prt, addr |-> addr, len |-> len, cl |-> c]

NoDatagram == Datagram("none", None, None, 0, None)
NoMsg == [name |-> None, spec_dst |-> None, cl |-> None]

Init ==
    /\ family \in Families
    /\ spc = "down" /\ pktinfo = {} /\ count = 0 /\ starts = 0 /\ sockq = <<>>
    /\ iov_len = FRAME /\ msg = NoMsg
    /\ cpc = [c \in Clients |-> "start"]
    /\ port = [c \in Clients |-> None] /\ dest = [c \in Clients |-> None]
    /\ size = [c \in Clients |-> 0]
    /\ rcvd = [c \in Clients |-> NoDatagram] /\ err = [c \in Clients |-> FALSE]
    /\ net = {} /\ dups = 0 /\ lost = {} /\ noaddr = {}

-----------------------------------------------------------------------------
(* The server.                                                             *)

(* Socket() and bind(): from here on datagrams are queued.                 *)
ServerStart ==
    /\ spc = "down" /\ starts < MaxStarts
    /\ starts' = starts + 1 /\ spc' = "bound"
    /\ count' \in Counts /\ pktinfo' = {}
    /\ UNCHANGED <<family, iov_len, msg, sockq, clientVars, netVars, lost, noaddr>>

(* The setsockopt() calls, whose results are not looked at: the server     *)
(* goes on without pktinfo for the families where they failed.             *)
SetPktinfo ==
    /\ spc = "bound"
    /\ pktinfo' \in SUBSET {family[c] : c \in Clients}
    /\ spc' = "recv"
    /\ UNCHANGED <<family, count, iov_len, msg, sockq, starts, clientVars, netVars,
                   lost, noaddr>>

(* The head of the loop: msghdr and the io-vector are set up anew.         *)
MUT_LoopHead == msg' = NoMsg /\ UNCHANGED iov_len
LoopHead == msg' = NoMsg /\ iov_len' = FRAME

(* IPv6 looks the local address up in recvmsg().                           *)
LocalAddr(d) ==
    IF family[d.cl] = "v6" /\ "v6" \notin pktinfo THEN None ELSE d.spec_dst

(* recvmsg() takes a datagram and cuts it to the io-vector; its length     *)
(* becomes the length of the answer.                                       *)
RecvInto(room) ==
    /\ spc = "recv" /\ sockq # <<>>
    /\ LET d == Head(sockq)
       IN  /\ iov_len' = Min({d.len, room})
           /\ msg' = [name |-> d.port, spec_dst |-> LocalAddr(d), cl |-> d.cl]
           /\ noaddr' = IF LocalAddr(d) = None THEN noaddr \cup {d.cl} ELSE noaddr
    /\ sockq' = Tail(sockq) /\ spc' = "send"
    /\ UNCHANGED <<family, pktinfo, count, starts, clientVars, netVars, lost>>

MUT_RecvMsgUncut == RecvInto(U16)

RecvMsg == RecvInto(iov_len)

(* The process ends; what its socket holds is lost, and the datagrams of   *)
(* the clients in gone.                                                    *)
ServerEnds(gone) ==
    /\ spc' = "down" /\ sockq' = <<>> /\ pktinfo' = {} /\ count' = 0
    /\ lost' = lost \cup gone \cup {sockq[k].cl : k \in 1 .. Len(sockq)}

(* A failing recvmsg() ends the server.                                    *)
RecvMsgFails ==
    /\ spc = "recv"
    /\ ServerEnds({})
    /\ UNCHANGED <<family, iov_len, msg, starts, clientVars, netVars, noaddr>>

(* The source address of the answer: what recvmsg() put in the pktinfo.    *)
MUT_ReplyFrom == Primary
ReplyFrom == IF msg.spec_dst = None THEN Primary ELSE msg.spec_dst

(* --count == 0: the loop is left; a count of 0 or less never gets there.  *)
CountDown(gone) ==
    IF count - 1 = 0 THEN ServerEnds(gone)
    ELSE /\ count' = count - 1 /\ spc' = "recv" /\ lost' = lost \cup gone
         /\ UNCHANGED <<sockq, pktinfo>>

SendMsg ==
    /\ spc = "send"
    /\ net' = net \cup {Datagram("reply", msg.name, ReplyFrom, iov_len, msg.cl)}
    /\ CountDown({}) /\ LoopHead
    /\ UNCHANGED <<family, starts, clientVars, dups, noaddr>>

(* The result of sendmsg() is not looked at: a failure counts as an answer. *)
SendMsgFails ==
    /\ spc = "send"
    /\ CountDown({msg.cl}) /\ LoopHead
    /\ UNCHANGED <<family, starts, clientVars, netVars, noaddr>>

Server == SetPktinfo \/ RecvMsg \/ SendMsg

-----------------------------------------------------------------------------
(* The clients.                                                            *)

Running(c) == cpc[c] \in {"connected", "wait"}
ClientEnded(c) == cpc[c] \in {"ok", "exit_1", "exit_5", "exit_setup"}

(* Socket(), Setsockopt() and Connect(): the kernel picks a free port.     *)
ClientStart(c) ==
    /\ cpc[c] = "start"
    /\ \E prt \in Ports \ {port[k] : k \in {k \in Clients : Running(k)}},
          addr \in Addrs, s \in Sizes :
          /\ port' = [port EXCEPT ![c] = prt]
          /\ dest' = [dest EXCEPT ![c] = addr]
          /\ size' = [size EXCEPT ![c] = s]
    /\ cpc' = [cpc EXCEPT ![c] = "connected"]
    /\ UNCHANGED <<rcvd, err, serverVars, netVars, lost, noaddr>>

(* One of them fails, or the address cannot be parsed.                     *)
ClientSetupFails(c) ==
    /\ cpc[c] = "start"
    /\ cpc' = [cpc EXCEPT ![c] = "exit_setup"]
    /\ UNCHANGED <<port, dest, size, rcvd, err, serverVars, netVars, lost, noaddr>>

(* The length that is sent: the uint16_t parameter cuts -s.                *)
LenSend(c) == size[c] % U16

(* send_packet().                                                          *)
SendPacket(c) ==
    /\ cpc[c] = "connected" /\ ~err[c]
    /\ cpc' = [cpc EXCEPT ![c] = "wait"]
    /\ net' = net \cup {Datagram("request", port[c], dest[c], LenSend(c), c)}
    /\ UNCHANGED <<port, dest, size, rcvd, err, serverVars, dups, lost, noaddr>>

(* A failing sendto() ends the client: too long, no route, or the ICMP     *)
(* error to a datagram of the port's earlier owner.                        *)
SendPacketFails(c) ==
    /\ cpc[c] = "connected"
    /\ cpc' = [cpc EXCEPT ![c] = "exit_5"]
    /\ UNCHANGED <<port, dest, size, rcvd, err, serverVars, netVars, lost, noaddr>>

(* recv_packet() into a buffer of len_send bytes, and validate_packet().   *)
LenRecv(c) == Min({rcvd[c].len, LenSend(c)})

MUT_RecvPacketNoICMP(c) ==
    /\ cpc[c] = "wait" /\ rcvd[c] # NoDatagram
    /\ cpc' = [cpc EXCEPT ![c] = IF LenRecv(c) # LenSend(c) THEN "exit_1" ELSE "ok"]
    /\ UNCHANGED <<port, dest, size, rcvd, err, serverVars, netVars, lost, noaddr>>

RecvPacket(c) ==
    /\ cpc[c] = "wait" /\ (err[c] \/ rcvd[c] # NoDatagram)
    /\ cpc' = [cpc EXCEPT ![c] = IF err[c] THEN "exit_5"
                                 ELSE IF LenRecv(c) # LenSend(c) THEN "exit_1"
                                 ELSE "ok"]
    /\ UNCHANGED <<port, dest, size, rcvd, err, serverVars, netVars, lost, noaddr>>

Client(c) == SendPacket(c) \/ SendPacketFails(c) \/ RecvPacket(c)

-----------------------------------------------------------------------------
(* The network and the kernels of both hosts.                              *)

(* The IPv4 stack notes the local address of a datagram when it queues it, *)
(* and only if pktinfo is on, which it is not right after bind().          *)
SpecDst(d) == IF family[d.cl] = "v4" /\ "v4" \notin pktinfo THEN None ELSE d.addr

(* A request reaches the server's host.  A closed port answers with ICMP.  *)
ArriveRequest(d, rest) ==
    /\ d.kind = "request"
    /\ \/ /\ spc = "down"
          /\ net' = rest \cup {[d EXCEPT !.kind = "icmp"]}
          /\ UNCHANGED <<sockq, lost, noaddr>>
       \/ /\ spc # "down" /\ Len(sockq) < MaxQueue
          /\ sockq' = Append(sockq, [port |-> d.port, spec_dst |-> SpecDst(d),
                                     len |-> d.len, cl |-> d.cl])
          /\ noaddr' = IF SpecDst(d) = None THEN noaddr \cup {d.cl} ELSE noaddr
          /\ net' = rest /\ UNCHANGED lost
       \/ /\ spc # "down" /\ Len(sockq) >= MaxQueue
          /\ net' = rest /\ lost' = lost \cup {d.cl}
          /\ UNCHANGED <<sockq, noaddr>>
    /\ UNCHANGED <<rcvd, err>>

(* An answer or an ICMP error reaches the client's host: it goes to the    *)
(* socket bound to that port and connected to that address, if any, which  *)
(* are of one family.                                                      *)
MUT_Accepts(c, d) == Running(c) /\ family[c] = family[d.cl] /\ port[c] = d.port
Accepts(c, d) ==
    Running(c) /\ family[c] = family[d.cl] /\ port[c] = d.port /\ dest[c] = d.addr

ArriveBack(d, rest) ==
    /\ d.kind # "request"
    /\ err' = [c \in Clients |-> err[c] \/ (d.kind = "icmp" /\ Accepts(c, d))]
    /\ rcvd' = [c \in Clients |->
                   IF d.kind = "reply" /\ Accepts(c, d) /\ rcvd[c] = NoDatagram
                   THEN d ELSE rcvd[c]]
    /\ net' = rest
    /\ UNCHANGED <<sockq, lost, noaddr>>

Arrive(d, rest) ==
    /\ ArriveRequest(d, rest) \/ ArriveBack(d, rest)
    /\ UNCHANGED <<family, spc, pktinfo, count, iov_len, msg, starts, cpc, port, dest, size>>

Deliver(d) == Arrive(d, net \ {d}) /\ UNCHANGED dups

(* It arrives, and will once more.                                         *)
DeliverTwice(d) == dups < MaxDups /\ Arrive(d, net) /\ dups' = dups + 1

Lose(d) ==
    /\ net' = net \ {d}
    /\ lost' = lost \cup {d.cl}
    /\ UNCHANGED <<serverVars, clientVars, dups, noaddr>>

-----------------------------------------------------------------------------
(* Everyone has stopped: clients may wait for ever.                        *)
Next ==
    \/ ServerStart \/ Server \/ RecvMsgFails \/ SendMsgFails
    \/ \E c \in Clients : ClientStart(c) \/ ClientSetupFails(c) \/ Client(c)
    \/ \E d \in net : Deliver(d) \/ DeliverTwice(d) \/ Lose(d)

Spec == Init /\ [][Next]_vars

(* Both programs take the step they can take and the network gets round to *)
(* every datagram.  Nobody need start a server or a client.                *)
FairSpec ==
    /\ Spec
    /\ WF_vars(Server)
    /\ \A c \in Clients : WF_vars(Client(c))
    /\ WF_vars(\E d \in net : Deliver(d))

-----------------------------------------------------------------------------
DatagramType ==
    [kind : {"request", "reply", "icmp", "none"}, port : Ports \cup {None},
     addr : Addrs \cup {None}, len : 0 .. U16 - 1, cl : Clients \cup {None}]

TypeOK ==
    /\ family \in Families /\ pktinfo \subseteq {"v4", "v6"}
    /\ spc \in {"down", "bound", "recv", "send"} /\ count \in Int
    /\ iov_len \in 0 .. FRAME /\ starts \in 0 .. MaxStarts
    /\ msg \in [name : Ports \cup {None}, spec_dst : Addrs \cup {None},
                cl : Clients \cup {None}]
    /\ sockq \in Seq([port : Ports, spec_dst : Addrs \cup {None},
                      len : 0 .. U16 - 1, cl : Clients])
    /\ Len(sockq) <= MaxQueue
    /\ cpc \in [Clients -> {"start", "connected", "wait", "ok", "exit_1", "exit_5",
                            "exit_setup"}]
    /\ port \in [Clients -> Ports \cup {None}]
    /\ dest \in [Clients -> Addrs \cup {None}] /\ size \in [Clients -> Int]
    /\ rcvd \in [Clients -> DatagramType] /\ err \in [Clients -> BOOLEAN]
    /\ net \subseteq DatagramType /\ dups \in 0 .. MaxDups
    /\ lost \subseteq Clients /\ noaddr \subseteq Clients

(* No other run of the client had the same port and could be answered from *)
(* the same address.                                                       *)
Alone(c) ==
    \A k \in Clients \ {c} :
        family[k] # family[c] \/ port[k] # port[c] \/ (dest[k] # dest[c] /\ k \notin noaddr)

(* "OK: valid size" is about this client's own datagram: the server has    *)
(* received the whole of it and answered from the address that was asked,  *)
(* unless the client was given the port of an earlier one, whose late      *)
(* answer its connected socket cannot tell apart.                          *)
OKMeansEchoed ==
    \A c \in Clients : cpc[c] = "ok" =>
        /\ LenSend(c) <= FRAME /\ rcvd[c].addr = dest[c]
        /\ Alone(c) => rcvd[c].cl = c /\ rcvd[c].len = LenSend(c)

(* "Packet validation failed: size check" has one cause: the datagram did  *)
(* not fit in the server's frame.  What the server handled before, whose   *)
(* lengths its io-vector has held, does not cut an answer.                 *)
SizeFailureMeansTooLong ==
    \A c \in Clients : cpc[c] = "exit_1" /\ Alone(c) => LenSend(c) > FRAME

(* "use the 'right' source address": every answer on the way leaves from   *)
(* the address its request was sent to and goes to the port that sent it,  *)
(* except those to requests whose local address the server was not told:   *)
(* queued before the setsockopt() calls, or one of these failed.           *)
RightSource ==
    \A d \in net : d.kind = "reply" =>
        d.port = port[d.cl] /\ (d.cl \notin noaddr => d.addr = dest[d.cl])

(* A waiting client ends, with its answer or with the ICMP error of a      *)
(* server that is not there: it hangs only when a datagram of its exchange *)
(* was lost, or the server was not told the local address of its request.  *)
WaitingEnds ==
    \A c \in Clients :
        cpc[c] = "wait" ~> ClientEnded(c) \/ c \in lost \/ c \in noaddr
=============================================================================
