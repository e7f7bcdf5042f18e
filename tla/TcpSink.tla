------------------------------ MODULE TcpSink ------------------------------
(***************************************************************************)
(* src/tcp_sink.c, src/tcp_sink_epoll.c and src/tcp_sink_client.c: sinks   *)
(* that share a port (SO_REUSEPORT), each with its own queue of            *)
(* established connections, and clients that connect and close in a loop.  *)
(*                                                                         *)
(* A plain sink (tcp_sink, or tcp_sink_epoll without --epoll) accepts and  *)
(* closes one connection at a time.  An epoll sink accepts on one event    *)
(* and closes on another, edge-triggered one, which comes when the client  *)
(* closes; the kernel reuses the lowest free descriptor.                   *)
(***************************************************************************)
EXTENDS Integers, Sequences, FiniteSets

CONSTANTS Clients, Sinks,
          EpollSinks,    \* the sinks run with --epoll
          ClientCount,   \* --count of each client
          SinkCount,     \* --count of the sinks
          NoClose,       \* the clients run with --no-close
          SourcePort,    \* the clients run with -s, which forces a source port
          MAX_EVENTS,
          Backlog        \* connections a listen queue holds

ASSUME TcpAssumption ==
    /\ EpollSinks \subseteq Sinks /\ IsFiniteSet(Clients)
    /\ ClientCount \in [Clients -> Nat] /\ SinkCount \in Nat
    /\ MAX_EVENTS \in Nat \ {0} /\ Backlog \in Nat \ {0}
    /\ NoClose \subseteq Clients /\ SourcePort \subseteq Clients

VARIABLES
    cpc, ci, retries,     \* the clients: main() and connect_retries()
    client, server,       \* the two ends of every connection
    spc, si,              \* the sinks: main() and the counter i
    queue,                \* listen queues
    fds,                  \* descriptor table: connection or NoConn
    edge,                 \* descriptors with an undelivered event
    events                \* descriptors epoll_wait() returned, not yet handled

clientVars == <<cpc, ci, retries>>
sinkVars == <<spc, si, fds, events>>
vars == <<clientVars, client, server, queue, edge, sinkVars>>

ConnsOf(c) == {c} \X (1 .. ClientCount[c])
Conns == UNION {ConnsOf(c) : c \in Clients}
NoConn == <<>>
ListenFd == 0
Fds == 1 .. Cardinality(Conns)
max_retries == 2

Init ==
    /\ cpc = [c \in Clients |-> "socket"] /\ ci = [c \in Clients |-> 0]
    /\ retries = [c \in Clients |-> 0]
    /\ client = [x \in Conns |-> "none"] /\ server = [x \in Conns |-> "none"]
    /\ spc = [s \in Sinks |-> "wait"] /\ si = [s \in Sinks |-> 1]
    /\ queue = [s \in Sinks |-> <<>>]
    /\ fds = [s \in Sinks |-> [f \in Fds |-> NoConn]]
    /\ edge = [s \in Sinks |-> {}] /\ events = [s \in Sinks |-> <<>>]

ExitCodes == {"exit_fail_sock", "exit_fail_sockopt", "exit_fail_reuseport"}
ClientEnded(c) == cpc[c] \in ExitCodes \cup {"done"}
SinkEnded(s) == spc[s] = "exit"

-----------------------------------------------------------------------------
(* The clients.                                                            *)

Conn(c) == <<c, ci[c] + 1>>

(* The client ends of X are closed: an epoll sink gets an event for those  *)
(* it has accepted.                                                        *)
CloseClients(X) ==
    /\ client' = [x \in Conns |-> IF x \in X /\ client[x] = "open" THEN "closed" ELSE client[x]]
    /\ edge' = [s \in Sinks |->
                  edge[s] \cup {f \in Fds : s \in EpollSinks /\ fds[s][f] \in X
                                            /\ client[fds[s][f]] = "open"}]

(* The for loop of main(); at its end, return closes what is still open.   *)
ClientLoop(c) ==
    /\ cpc[c] = "socket"
    /\ IF ci[c] < ClientCount[c]
       THEN /\ cpc' = [cpc EXCEPT ![c] = "connect"] /\ retries' = [retries EXCEPT ![c] = 0]
            /\ UNCHANGED <<client, edge>>
       ELSE /\ cpc' = [cpc EXCEPT ![c] = "done"] /\ UNCHANGED retries
            /\ CloseClients(ConnsOf(c))
    /\ UNCHANGED <<ci, server, queue, sinkVars>>

(* Socket(), or Setsockopt() and Bind() of bind_source_port(), exit.       *)
SetupFails(c) ==
    /\ cpc[c] = "socket" /\ ci[c] < ClientCount[c]
    /\ \E code \in {"exit_fail_sock"} \cup
                   (IF c \in SourcePort THEN {"exit_fail_sockopt"} ELSE {}) :
          cpc' = [cpc EXCEPT ![c] = code]
    /\ CloseClients(ConnsOf(c))
    /\ UNCHANGED <<ci, retries, server, queue, sinkVars>>

(* The handshake ends in the queue of one of the listening sinks, and      *)
(* connect_retries() returns.                                              *)
ConnectOk(c, s) ==
    /\ cpc[c] = "connect" /\ ~SinkEnded(s) /\ Len(queue[s]) < Backlog
    /\ queue' = [queue EXCEPT ![s] = Append(@, Conn(c))]
    /\ client' = [client EXCEPT ![Conn(c)] = "open"]
    /\ server' = [server EXCEPT ![Conn(c)] = "queued"]
    /\ cpc' = [cpc EXCEPT ![c] = "close"] /\ retries' = [retries EXCEPT ![c] = 0]
    /\ UNCHANGED <<ci, edge, sinkVars>>

(* An error: the limit is tested before errno, and only EADDRNOTAVAIL,     *)
(* which a fast reuse of the source port provokes, is tried again.         *)
MUT_NoRetryLimit(c, errno) ==
    /\ cpc[c] = "connect"
    /\ retries' = [retries EXCEPT ![c] = (@ % max_retries) + 1]
    /\ \/ /\ errno = "EADDRNOTAVAIL" /\ UNCHANGED <<cpc, client, edge>>
       \/ /\ errno # "EADDRNOTAVAIL"
          /\ cpc' = [cpc EXCEPT ![c] = IF errno = "ECONNRESET" THEN "exit_fail_reuseport"
                                       ELSE "exit_fail_sock"]
          /\ CloseClients(ConnsOf(c))
    /\ UNCHANGED <<ci, server, queue, sinkVars>>

ConnectError(c, errno) ==
    /\ cpc[c] = "connect"
    /\ retries' = [retries EXCEPT ![c] = @ + 1]
    /\ \/ /\ retries[c] + 1 <= max_retries /\ errno = "EADDRNOTAVAIL"
          /\ UNCHANGED <<cpc, client, edge>>
       \/ /\ retries[c] + 1 > max_retries \/ errno # "EADDRNOTAVAIL"
          /\ cpc' = [cpc EXCEPT ![c] =
                       IF retries[c] + 1 <= max_retries /\ errno = "ECONNRESET"
                       THEN "exit_fail_reuseport" ELSE "exit_fail_sock"]
          /\ CloseClients(ConnsOf(c))
    /\ UNCHANGED <<ci, server, queue, sinkVars>>

(* What connect() may fail with: no free port, or the forced one still in  *)
(* use by an earlier connection; no answer, because the queue is full or   *)
(* the handshake was lost; a sink that has gone; nobody there.             *)
ConnectErrors(c) ==
    {"EADDRNOTAVAIL", "ETIMEDOUT"}
        \cup (IF \E s \in Sinks : SinkEnded(s) THEN {"ECONNRESET"} ELSE {})
        \cup (IF \A s \in Sinks : SinkEnded(s) THEN {"ECONNREFUSED"} ELSE {})

(* if (close_conn) Close(sockfd);                                          *)
ClientClose(c) ==
    /\ cpc[c] = "close"
    /\ IF c \in NoClose THEN UNCHANGED <<client, edge>> ELSE CloseClients({Conn(c)})
    /\ ci' = [ci EXCEPT ![c] = @ + 1]
    /\ cpc' = [cpc EXCEPT ![c] = "socket"]
    /\ UNCHANGED <<retries, server, queue, sinkVars>>

(* Close() exits when close() reports an error.                            *)
ClientCloseFails(c) ==
    /\ cpc[c] = "close" /\ c \notin NoClose
    /\ cpc' = [cpc EXCEPT ![c] = "exit_fail_sock"]
    /\ CloseClients(ConnsOf(c))
    /\ UNCHANGED <<ci, retries, server, queue, sinkVars>>

-----------------------------------------------------------------------------
(* The end of a sink: what is in its queue is reset, what is open closed.  *)
SinkExit(s) ==
    /\ spc' = [spc EXCEPT ![s] = "exit"]
    /\ server' = [x \in Conns |->
                    IF \E k \in 1 .. Len(queue[s]) : queue[s][k] = x THEN "reset"
                    ELSE IF \E f \in Fds : fds[s][f] = x THEN "closed" ELSE server[x]]
    /\ queue' = [queue EXCEPT ![s] = <<>>]
    /\ fds' = [fds EXCEPT ![s] = [f \in Fds |-> NoConn]]
    /\ edge' = [edge EXCEPT ![s] = {}] /\ events' = [events EXCEPT ![s] = <<>>]
    /\ UNCHANGED <<clientVars, client, si>>

(* for (i = 1; i <= count; i++), of all three loops; then close(listenfd)  *)
(* and return.                                                             *)
MUT_InLoop(s) == spc[s] = "wait" /\ si[s] - 1 <= SinkCount
InLoop(s) == spc[s] = "wait" /\ si[s] <= SinkCount

SinkReturns(s) == spc[s] = "wait" /\ ~InLoop(s) /\ SinkExit(s)

(* accept(): the lowest free descriptor.                                   *)
FreeFd(s) == CHOOSE f \in Fds : fds[s][f] = NoConn /\ \A g \in Fds : g < f => fds[s][g] # NoConn

Accept(s) ==
    /\ queue[s] # <<>>
    /\ queue' = [queue EXCEPT ![s] = Tail(@)]
    /\ fds' = [fds EXCEPT ![s][FreeFd(s)] = Head(queue[s])]
    /\ server' = [server EXCEPT ![Head(queue[s])] = "open"]

Close(s, f) ==
    /\ server' = [server EXCEPT ![fds[s][f]] = "closed"]
    /\ fds' = [fds EXCEPT ![s][f] = NoConn]

(* wait_for_connections(), and the same loop of tcp_sink: accept(), an     *)
(* optional write, close().                                                *)
PlainAccept(s) ==
    /\ s \notin EpollSinks /\ InLoop(s)
    /\ Accept(s)
    /\ spc' = [spc EXCEPT ![s] = "close"]
    /\ UNCHANGED <<clientVars, client, edge, si, events>>

MUT_PlainNoClose(s) ==
    /\ s \notin EpollSinks /\ spc[s] = "close"
    /\ UNCHANGED <<server, fds>>
    /\ si' = [si EXCEPT ![s] = @ + 1]
    /\ spc' = [spc EXCEPT ![s] = "wait"]
    /\ UNCHANGED <<clientVars, client, edge, queue, events>>

PlainClose(s) ==
    /\ s \notin EpollSinks /\ spc[s] = "close"
    /\ \E f \in Fds : fds[s][f] # NoConn /\ Close(s, f)
    /\ si' = [si EXCEPT ![s] = @ + 1]
    /\ spc' = [spc EXCEPT ![s] = "wait"]
    /\ UNCHANGED <<clientVars, client, edge, queue, events>>

(* A failing accept() is not noticed and counted: write() and close() of   *)
(* descriptor -1 fail.                                                     *)
PlainAcceptFails(s) ==
    /\ s \notin EpollSinks /\ InLoop(s)
    /\ si' = [si EXCEPT ![s] = @ + 1]
    /\ UNCHANGED <<clientVars, client, server, edge, queue, spc, fds, events>>

-----------------------------------------------------------------------------
(* epoll_connections().                                                    *)

Ready(s) == edge[s] \cup (IF queue[s] # <<>> THEN {ListenFd} ELSE {})

(* epoll_wait(): up to MAX_EVENTS ready descriptors, each once, in any     *)
(* order; edge-triggered ones are not reported again.                      *)
EpollWait(s) ==
    /\ s \in EpollSinks /\ InLoop(s) /\ Ready(s) # {}
    /\ LET nfds == IF Cardinality(Ready(s)) < MAX_EVENTS THEN Cardinality(Ready(s))
                   ELSE MAX_EVENTS
       IN  \E ev \in [1 .. nfds -> Ready(s)] :
              /\ \A a, b \in 1 .. nfds : ev[a] = ev[b] => a = b
              /\ events' = [events EXCEPT ![s] = ev]
              /\ edge' = [edge EXCEPT ![s] = @ \ {ev[k] : k \in 1 .. nfds}]
    /\ spc' = [spc EXCEPT ![s] = "handle"]
    /\ UNCHANGED <<clientVars, client, server, queue, si, fds>>

Handling(s) == s \in EpollSinks /\ spc[s] = "handle" /\ events[s] # <<>>

(* An event of the listen socket: accept4() and EPOLL_CTL_ADD, which       *)
(* reports at once a connection its client has already closed.             *)
MUT_AcceptForgetsOldEvents(s) ==
    /\ Handling(s) /\ Head(events[s]) = ListenFd
    /\ Accept(s)
    /\ UNCHANGED edge
    /\ events' = [events EXCEPT ![s] = Tail(@)]
    /\ UNCHANGED <<clientVars, client, spc, si>>

MUT_AcceptAlwaysReady(s) ==
    /\ Handling(s) /\ Head(events[s]) = ListenFd
    /\ Accept(s)
    /\ edge' = [edge EXCEPT ![s] = @ \cup {FreeFd(s)}]
    /\ events' = [events EXCEPT ![s] = Tail(@)]
    /\ UNCHANGED <<clientVars, client, spc, si>>

EpollAccept(s) ==
    /\ Handling(s) /\ Head(events[s]) = ListenFd
    /\ Accept(s)
    /\ edge' = [edge EXCEPT ![s] =
                  IF client[Head(queue[s])] = "closed" THEN @ \cup {FreeFd(s)} ELSE @]
    /\ events' = [events EXCEPT ![s] = Tail(@)]
    /\ UNCHANGED <<clientVars, client, spc, si>>

(* An event of a connection: an optional write, close().                   *)
EpollClose(s) ==
    /\ Handling(s) /\ Head(events[s]) # ListenFd
    /\ Close(s, Head(events[s]))
    /\ edge' = [edge EXCEPT ![s] = @ \ {Head(events[s])}]
    /\ events' = [events EXCEPT ![s] = Tail(@)]
    /\ UNCHANGED <<clientVars, client, queue, spc, si>>

(* All events of this wake-up are handled: i counts wake-ups.              *)
EpollNext(s) ==
    /\ s \in EpollSinks /\ spc[s] = "handle" /\ events[s] = <<>>
    /\ si' = [si EXCEPT ![s] = @ + 1]
    /\ spc' = [spc EXCEPT ![s] = "wait"]
    /\ UNCHANGED <<clientVars, client, server, queue, edge, fds, events>>

(* epoll_wait(), accept4() or epoll_ctl() fails.                           *)
EpollFails(s) ==
    /\ s \in EpollSinks
    /\ InLoop(s) \/ (Handling(s) /\ Head(events[s]) = ListenFd)
    /\ SinkExit(s)

-----------------------------------------------------------------------------
ClientStep(c) ==
    \/ ClientLoop(c) \/ ClientClose(c)
    \/ \E s \in Sinks : ConnectOk(c, s)
    \/ \E errno \in ConnectErrors(c) : ConnectError(c, errno)

SinkStep(s) ==
    \/ PlainAccept(s) \/ PlainClose(s)
    \/ EpollWait(s) \/ EpollAccept(s) \/ EpollClose(s) \/ EpollNext(s)
    \/ SinkReturns(s)

Failure ==
    \/ \E s \in Sinks : PlainAcceptFails(s) \/ EpollFails(s)
    \/ \E c \in Clients : SetupFails(c) \/ ClientCloseFails(c)

(* Every process has ended, or the sinks wait for the next client.         *)
Quiet ==
    /\ \A c \in Clients : ClientEnded(c)
    /\ \A s \in Sinks : SinkEnded(s) \/ (InLoop(s) /\ Ready(s) = {})
    /\ UNCHANGED vars

Next ==
    \/ \E c \in Clients : ClientStep(c)
    \/ \E s \in Sinks : SinkStep(s)
    \/ Failure \/ Quiet

Spec == Init /\ [][Next]_vars

(* Every process that can go on does.                                      *)
FairSpec ==
    Spec /\ (\A c \in Clients : WF_vars(ClientStep(c))) /\ (\A s \in Sinks : WF_vars(SinkStep(s)))

-----------------------------------------------------------------------------
TypeOK ==
    /\ cpc \in [Clients -> {"socket", "connect", "close", "done"} \cup ExitCodes]
    /\ ci \in [Clients -> Nat] /\ (\A c \in Clients : ci[c] <= ClientCount[c])
    /\ retries \in [Clients -> 0 .. max_retries + 1]
    /\ client \in [Conns -> {"none", "open", "closed"}]
    /\ server \in [Conns -> {"none", "queued", "open", "closed", "reset"}]
    /\ spc \in [Sinks -> {"wait", "close", "handle", "exit"}]
    /\ si \in [Sinks -> 1 .. SinkCount + 1]
    /\ fds \in [Sinks -> [Fds -> Conns \cup {NoConn}]]
    /\ edge \in [Sinks -> SUBSET Fds]
    /\ \A s \in Sinks : \A k \in 1 .. Len(queue[s]) : queue[s][k] \in Conns

(* Descriptors and connections agree: a connection the sinks have open is  *)
(* behind exactly one descriptor, so nothing leaks and nothing is closed   *)
(* twice, although descriptors are reused while events are pending.        *)
DescriptorsExact ==
    /\ \A x \in Conns :
          Cardinality({sf \in Sinks \X Fds : fds[sf[1]][sf[2]] = x})
              = (IF server[x] = "open" THEN 1 ELSE 0)
    /\ \A s \in Sinks \ EpollSinks :
          Cardinality({f \in Fds : fds[s][f] # NoConn}) = (IF spc[s] = "close" THEN 1 ELSE 0)

(* An event in hand is still true when the loop gets to it.  One for a     *)
(* connection is for the one it was reported for: the descriptor has not   *)
(* been reused, and the client has closed.  One for the listen socket      *)
(* finds a connection, so that the blocking accept4() does not block.      *)
EventsNotStale ==
    \A s \in EpollSinks :
        /\ \A f \in edge[s] \cup {events[s][k] : k \in 1 .. Len(events[s])} :
              f # ListenFd => fds[s][f] # NoConn /\ client[fds[s][f]] = "closed"
        /\ \A k \in 1 .. Len(events[s]) : events[s][k] = ListenFd => queue[s] # <<>>

(* A connection that both sides are through with is closed by the sink,    *)
(* although its edge-triggered event is reported only once: no event is    *)
(* lost between accept4(), EPOLL_CTL_ADD and the client's close.           *)
NothingLeftOpen ==
    \A x \in Conns : (server[x] \in {"queued", "open"} /\ client[x] = "closed")
                        ~> (server[x] \in {"closed", "reset"})

(* Clients are never stuck: connects are accepted, refused, or given up    *)
(* after max_retries.                                                      *)
ClientsEnd == \A c \in Clients : <>ClientEnded(c)
=============================================================================
