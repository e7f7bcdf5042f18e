--------------------------- MODULE TcpSinkProofs ---------------------------
EXTENDS TcpSink, FiniteSetTheorems, SequenceTheorems, WellFoundedInduction, TLAPS

(* What TypeOK leaves open: sequences, and where the counters stand inside *)
(* the loops.                                                              *)
Shape ==
    /\ queue \in [Sinks -> Seq(Conns)]
    /\ events \in [Sinks -> Seq(Fds \cup {ListenFd})]
    /\ \A c \in Clients :
          /\ cpc[c] \in {"connect", "close"} => ci[c] < ClientCount[c]
          /\ cpc[c] = "connect" => retries[c] <= max_retries
    /\ \A s \in Sinks : spc[s] \in {"close", "handle"} => si[s] <= SinkCount

(* Connections a client has not yet made.                                  *)
Fresh ==
    \A c \in Clients : \A k \in 1 .. ClientCount[c] :
        k > ci[c] /\ (k > ci[c] + 1 \/ cpc[c] \in {"socket", "connect"}) => server[<<c, k>>] = "none"

(* Descriptors and open connections, one to one.                           *)
Owned ==
    /\ \A s \in Sinks, f \in Fds : fds[s][f] # NoConn => server[fds[s][f]] = "open"
    /\ \A s, u \in Sinks, f, g \in Fds :
          fds[s][f] # NoConn /\ fds[s][f] = fds[u][g] => s = u /\ f = g
    /\ \A x \in Conns : server[x] = "open" => \E s \in Sinks, f \in Fds : fds[s][f] = x

(* A connection waits in one place of one queue.                           *)
Queued ==
    /\ \A s \in Sinks : \A k \in 1 .. Len(queue[s]) : server[queue[s][k]] = "queued"
    /\ \A s, u \in Sinks : \A k \in 1 .. Len(queue[s]), m \in 1 .. Len(queue[u]) :
          queue[s][k] = queue[u][m] => s = u /\ k = m

(* A sink without epoll has a descriptor only between accept and close.    *)
OneAtATime ==
    \A s \in Sinks \ EpollSinks :
        IF spc[s] = "close" THEN \E f \in Fds : \A g \in Fds : fds[s][g] # NoConn <=> g = f
        ELSE \A g \in Fds : fds[s][g] = NoConn

(* epoll_wait() reports a descriptor once.                                 *)
EachOnce ==
    \A s \in EpollSinks : \A k, m \in 1 .. Len(events[s]) : events[s][k] = events[s][m] => k = m

IInv ==
    /\ TypeOK /\ Shape /\ Fresh /\ Owned /\ Queued /\ OneAtATime /\ EachOnce
    /\ EventsNotStale

-----------------------------------------------------------------------------
(* Connections and descriptors.                                            *)

LEMMA ConnsFinite == IsFiniteSet(Conns)
<1>1. ASSUME NEW c \in Clients PROVE IsFiniteSet(ConnsOf(c))
  <2>1. ClientCount[c] \in Nat
    BY TcpAssumption
  <2>2. IsFiniteSet({c})
    BY FS_Singleton
  <2>3. IsFiniteSet(1 .. ClientCount[c])
    <3>1. 1 \in Int /\ ClientCount[c] \in Int
      BY <2>1
    <3> QED BY <3>1, FS_Interval
  <2> QED BY <2>2, <2>3, FS_Product DEF ConnsOf
<1> DEFINE S == {ConnsOf(c) : c \in Clients}
           h == [c \in Clients |-> ConnsOf(c)]
<1>2. h \in Surjection(Clients, S)
  BY DEF Surjection
<1>3. IsFiniteSet(S)
  BY <1>2, TcpAssumption, FS_Surjection
<1>4. \A T \in S : IsFiniteSet(T)
  BY <1>1
<1> HIDE DEF S
<1>5. IsFiniteSet(UNION S)
  BY <1>3, <1>4, FS_UNION
<1> QED BY <1>5 DEF S, Conns

LEMMA ConnsFacts ==
    /\ NoConn \notin Conns
    /\ \A c \in Clients : ClientCount[c] \in Nat
    /\ \A c \in Clients : \A k \in 1 .. ClientCount[c] : <<c, k>> \in Conns
    /\ \A x \in Conns : \E c \in Clients : \E k \in 1 .. ClientCount[c] : x = <<c, k>>
<1>1. \A c \in Clients : ClientCount[c] \in Nat
  BY TcpAssumption
<1>2. \A x : x \in Conns <=> \E c \in Clients : x \in ConnsOf(c)
  BY DEF Conns
<1>3. \A x : \A c \in Clients : x \in ConnsOf(c) <=> \E k \in 1 .. ClientCount[c] : x = <<c, k>>
  BY DEF ConnsOf
<1>4. \A c, k : <<c, k>> # NoConn
  BY DEF NoConn
<1> QED BY <1>1, <1>2, <1>3, <1>4

LEMMA FdsFacts ==
    /\ Cardinality(Conns) \in Nat /\ Cardinality(Fds) = Cardinality(Conns)
    /\ IsFiniteSet(Fds) /\ Fds \subseteq Nat /\ ListenFd \notin Fds
<1>1. Cardinality(Conns) \in Nat
  BY ConnsFinite, FS_CardinalityType
<1>2. IsFiniteSet(Fds) /\ Cardinality(Fds) = Cardinality(Conns)
  BY <1>1, FS_Interval DEF Fds
<1> QED BY <1>1, <1>2 DEF Fds, ListenFd

LEMMA Least ==
    ASSUME NEW S \in SUBSET Nat, S # {}
    PROVE  \E x \in S : \A y \in S : x <= y
<1> DEFINE R == OpToRel(<, Nat)
<1>1. IsWellFoundedOn(R, Nat)
  BY NatLessThanWellFounded
<1>2. \A x, y \in Nat : y < x => <<y, x>> \in R
  BY DEF OpToRel
<1> HIDE DEF R
<1>3. PICK x \in S : \A y \in S : ~(<<y, x>> \in R)
  BY <1>1, WFMin
<1>4. \A y \in S : x <= y
  <2> TAKE y \in S
  <2>1. x \in Nat /\ y \in Nat /\ ~(y < x)
    BY <1>2, <1>3
  <2> QED BY <2>1
<1> QED BY <1>4

LEMMA TailElements ==
    ASSUME NEW S, NEW q \in Seq(S), q # <<>>
    PROVE  /\ Head(q) \in S /\ Head(q) = q[1] /\ Tail(q) \in Seq(S) /\ Len(q) \in Nat \ {0}
           /\ Len(Tail(q)) = Len(q) - 1
           /\ \A k \in 1 .. Len(Tail(q)) : k + 1 \in 1 .. Len(q) /\ Tail(q)[k] = q[k + 1]
  OBVIOUS

(* There is always a descriptor for a connection in the queue: the open    *)
(* ones are fewer than the connections there are.                          *)
LEMMA FreeFdFacts ==
    ASSUME IInv, NEW s \in Sinks, queue[s] # <<>>
    PROVE  /\ FreeFd(s) \in Fds /\ fds[s][FreeFd(s)] = NoConn
           /\ Head(queue[s]) \in Conns /\ server[Head(queue[s])] = "queued"
<1> DEFINE x == Head(queue[s])
           free == {f \in Fds : fds[s][f] = NoConn}
<1>1. queue[s] \in Seq(Conns) /\ fds[s] \in [Fds -> Conns \cup {NoConn}]
  BY DEF IInv, Shape, TypeOK
<1>2. x = queue[s][1] /\ 1 \in 1 .. Len(queue[s]) /\ x \in Conns
  BY <1>1
<1>3. server[x] = "queued"
  BY <1>2 DEF IInv, Queued
<1>4. free # {}
  <2> SUFFICES ASSUME free = {} PROVE FALSE
    OBVIOUS
  <2>1. \A f \in Fds : fds[s][f] # NoConn
    OBVIOUS
  <2>2. \A f \in Fds : fds[s][f] # x
    BY <1>3, <2>1 DEF IInv, Owned
  <2> HIDE DEF x
  <2>3. fds[s] \in [Fds -> Conns \ {x}]
    BY <1>1, <2>1, <2>2
  <2>4. /\ IsFiniteSet(Conns \ {x})
        /\ Cardinality(Conns \ {x}) = Cardinality(Conns) - 1
    BY <1>2, ConnsFinite, FS_RemoveElement
  <2>5. Cardinality(Conns \ {x}) < Cardinality(Fds) /\ IsFiniteSet(Fds)
    BY <2>4, FdsFacts
  <2>6. \E f, g \in Fds : f # g /\ fds[s][f] = fds[s][g]
    BY <2>3, <2>4, <2>5, FS_PigeonHole
  <2> QED BY <2>1, <2>6 DEF IInv, Owned
<1>5. \E f \in free : \A g \in free : f <= g
  BY <1>4, FdsFacts, Least
<1>6. \E f \in Fds : fds[s][f] = NoConn /\ \A g \in Fds : g < f => fds[s][g] # NoConn
  <2>1. PICK f \in free : \A g \in free : f <= g
    BY <1>5
  <2>2. ASSUME NEW g \in Fds, g < f PROVE fds[s][g] # NoConn
    <3>1. f \in Nat /\ g \in Nat
      BY FdsFacts
    <3> QED BY <2>1, <2>2, <3>1
  <2> QED BY <2>2
<1> QED BY <1>2, <1>3, <1>6 DEF FreeFd

-----------------------------------------------------------------------------
(* What accept(), close() and the end of a sink do to descriptors, queues  *)
(* and connections.                                                        *)

ConnInv == Fresh /\ Owned /\ Queued

ConnTypes ==
    /\ server \in [Conns -> {"none", "queued", "open", "closed", "reset"}]
    /\ fds \in [Sinks -> [Fds -> Conns \cup {NoConn}]]
    /\ queue \in [Sinks -> Seq(Conns)]

LEMMA AcceptEffect ==
    ASSUME IInv, NEW s \in Sinks, Accept(s)
    PROVE  /\ FreeFd(s) \in Fds /\ Head(queue[s]) \in Conns /\ ConnTypes'
           /\ fds[s][FreeFd(s)] = NoConn /\ server[Head(queue[s])] = "queued"
           /\ \A u \in Sinks, f \in Fds :
                 fds'[u][f] = IF u = s /\ f = FreeFd(s) THEN Head(queue[s]) ELSE fds[u][f]
           /\ \A x \in Conns :
                 server'[x] = IF x = Head(queue[s]) THEN "open" ELSE server[x]
           /\ \A u \in Sinks : queue'[u] = IF u = s THEN Tail(queue[s]) ELSE queue[u]
<1> DEFINE x == Head(queue[s])
           g == FreeFd(s)
<1>1. queue[s] # <<>> /\ queue' = [queue EXCEPT ![s] = Tail(queue[s])]
      /\ fds' = [fds EXCEPT ![s][g] = x] /\ server' = [server EXCEPT ![x] = "open"]
  BY DEF Accept
<1>2. g \in Fds /\ fds[s][g] = NoConn /\ x \in Conns /\ server[x] = "queued"
  BY <1>1, FreeFdFacts
<1>3. /\ server \in [Conns -> {"none", "queued", "open", "closed", "reset"}]
      /\ fds \in [Sinks -> [Fds -> Conns \cup {NoConn}]]
      /\ queue \in [Sinks -> Seq(Conns)]
  BY DEF IInv, TypeOK, Shape
<1>4. Tail(queue[s]) \in Seq(Conns)
  BY <1>1, <1>3
<1> HIDE DEF x, g
<1>5. queue' \in [Sinks -> Seq(Conns)]
      /\ \A u \in Sinks : queue'[u] = IF u = s THEN Tail(queue[s]) ELSE queue[u]
  BY <1>1, <1>3, <1>4
<1>6. server' \in [Conns -> {"none", "queued", "open", "closed", "reset"}]
      /\ \A y \in Conns : server'[y] = IF y = x THEN "open" ELSE server[y]
  BY <1>1, <1>2, <1>3
<1>7. fds' \in [Sinks -> [Fds -> Conns \cup {NoConn}]]
      /\ \A u \in Sinks, f \in Fds : fds'[u][f] = IF u = s /\ f = g THEN x ELSE fds[u][f]
  BY <1>1, <1>2, <1>3
<1> QED BY <1>2, <1>5, <1>6, <1>7 DEF x, g, ConnTypes

LEMMA AcceptConn ==
    ASSUME IInv, NEW s \in Sinks, Accept(s), UNCHANGED <<cpc, ci>>
    PROVE  ConnInv'
<1> DEFINE x == Head(queue[s])
           g == FreeFd(s)
<1>1. /\ g \in Fds /\ x \in Conns /\ fds[s][g] = NoConn /\ server[x] = "queued"
      /\ \A u \in Sinks, f \in Fds : fds'[u][f] = IF u = s /\ f = g THEN x ELSE fds[u][f]
      /\ \A y \in Conns : server'[y] = IF y = x THEN "open" ELSE server[y]
      /\ \A u \in Sinks : queue'[u] = IF u = s THEN Tail(queue[s]) ELSE queue[u]
  BY AcceptEffect
<1>2. /\ fds \in [Sinks -> [Fds -> Conns \cup {NoConn}]] /\ queue \in [Sinks -> Seq(Conns)]
      /\ queue[s] # <<>>
  BY DEF IInv, TypeOK, Shape, Accept
<1>3. /\ Len(queue[s]) \in Nat \ {0} /\ x = queue[s][1]
      /\ Len(Tail(queue[s])) = Len(queue[s]) - 1
      /\ \A k \in 1 .. Len(Tail(queue[s])) : Tail(queue[s])[k] = queue[s][k + 1]
  <2>1. queue[s] \in Seq(Conns)
    BY <1>2
  <2> QED BY <1>2, <2>1, TailElements
<1>4. NoConn \notin Conns
  BY ConnsFacts
<1> HIDE DEF x, g
<1>5. Fresh'
  <2> SUFFICES ASSUME NEW c \in Clients, NEW k \in 1 .. ClientCount[c],
                      k > ci[c] /\ (k > ci[c] + 1 \/ cpc[c] \in {"socket", "connect"})
               PROVE  server'[<<c, k>>] = "none"
    BY DEF Fresh
  <2>1. server[<<c, k>>] = "none" /\ <<c, k>> \in Conns
    BY ConnsFacts DEF IInv, Fresh
  <2> QED BY <1>1, <2>1
<1>6. \A u \in Sinks, f \in Fds : fds[u][f] # x
  BY <1>1, <1>4 DEF IInv, Owned
<1>7. Owned'
  <2>1. \A u \in Sinks, f \in Fds : fds'[u][f] # NoConn => server'[fds'[u][f]] = "open"
    BY <1>1, <1>2, <1>4 DEF IInv, Owned
  <2>2. \A u, v \in Sinks, f, h \in Fds :
            fds'[u][f] # NoConn /\ fds'[u][f] = fds'[v][h] => u = v /\ f = h
    BY <1>1, <1>6 DEF IInv, Owned
  <2>3. ASSUME NEW y \in Conns, server'[y] = "open"
        PROVE  \E u \in Sinks, f \in Fds : fds'[u][f] = y
    <3>1. CASE y = x
      BY <1>1, <3>1
    <3>2. CASE y # x
      <4>1. PICK u \in Sinks, f \in Fds : fds[u][f] = y
        BY <1>1, <2>3, <3>2 DEF IInv, Owned
      <4>2. ~(u = s /\ f = g)
        BY <1>1, <1>4, <4>1
      <4>3. fds'[u][f] = fds[u][f]
        BY <1>1, <4>2
      <4> QED BY <4>1, <4>3
    <3> QED BY <3>1, <3>2
  <2> QED BY <2>1, <2>2, <2>3 DEF Owned
<1>8. \A u \in Sinks : \A k \in 1 .. Len(queue'[u]) :
          \E m \in 1 .. Len(queue[u]) :
              /\ queue'[u][k] = queue[u][m] /\ m = (IF u = s THEN k + 1 ELSE k)
  <2> TAKE u \in Sinks
  <2> TAKE k \in 1 .. Len(queue'[u])
  <2>1. CASE u = s
    <3>1. queue'[u] = Tail(queue[s])
      BY <1>1, <2>1
    <3>2. k + 1 \in 1 .. Len(queue[s]) /\ queue'[u][k] = queue[s][k + 1]
      BY <1>3, <3>1
    <3> QED BY <2>1, <3>2
  <2>2. CASE u # s
    <3>1. queue'[u] = queue[u]
      BY <1>1, <2>2
    <3>2. k \in 1 .. Len(queue[u]) /\ queue'[u][k] = queue[u][k]
      BY <3>1
    <3> QED BY <2>2, <3>2
  <2> QED BY <2>1, <2>2
<1>9. Queued'
  <2>1. ASSUME NEW u \in Sinks, NEW k \in 1 .. Len(queue'[u])
        PROVE  server'[queue'[u][k]] = "queued"
    <3>1. PICK m \in 1 .. Len(queue[u]) : /\ queue'[u][k] = queue[u][m]
                                          /\ m = (IF u = s THEN k + 1 ELSE k)
      BY <1>8, <2>1
    <3>2. queue[u][m] \in Conns /\ server[queue[u][m]] = "queued"
      BY <1>2, ElementOfSeq DEF IInv, Queued
    <3>3. queue[u][m] # x
      <4> SUFFICES ASSUME queue[u][m] = queue[s][1] PROVE FALSE
        BY <1>3
      <4>1. 1 \in 1 .. Len(queue[s])
        BY <1>3
      <4>2. u = s /\ m = 1
        BY <4>1 DEF IInv, Queued
      <4>3. Len(queue'[u]) = Len(queue[s]) - 1
        BY <1>1, <1>3, <4>2
      <4> QED BY <1>3, <3>1, <4>2, <4>3
    <3> QED BY <1>1, <3>1, <3>2, <3>3
  <2>2. ASSUME NEW u \in Sinks, NEW v \in Sinks, NEW k \in 1 .. Len(queue'[u]),
               NEW m \in 1 .. Len(queue'[v]), queue'[u][k] = queue'[v][m]
        PROVE  u = v /\ k = m
    <3>1. PICK k1 \in 1 .. Len(queue[u]) : /\ queue'[u][k] = queue[u][k1]
                                           /\ k1 = (IF u = s THEN k + 1 ELSE k)
      BY <1>8
    <3>2. PICK m1 \in 1 .. Len(queue[v]) : /\ queue'[v][m] = queue[v][m1]
                                           /\ m1 = (IF v = s THEN m + 1 ELSE m)
      BY <1>8
    <3>3. u = v /\ k1 = m1
      <4>1. queue[u][k1] = queue[v][m1]
        BY <2>2, <3>1, <3>2
      <4>2. \A a, b \in Sinks : \A y \in 1 .. Len(queue[a]), z \in 1 .. Len(queue[b]) :
                queue[a][y] = queue[b][z] => a = b /\ y = z
        BY DEF IInv, Queued
      <4> QED BY <4>1, <4>2
    <3>4. k \in Int /\ m \in Int
      OBVIOUS
    <3> QED BY <3>1, <3>2, <3>3, <3>4
  <2> QED BY <2>1, <2>2 DEF Queued
<1> QED BY <1>5, <1>7, <1>9 DEF ConnInv

LEMMA CloseEffect ==
    ASSUME IInv, NEW s \in Sinks, NEW g \in Fds, fds[s][g] # NoConn, Close(s, g),
           UNCHANGED queue
    PROVE  /\ ConnTypes' /\ fds[s][g] \in Conns
           /\ \A u \in Sinks, f \in Fds :
                 fds'[u][f] = IF u = s /\ f = g THEN NoConn ELSE fds[u][f]
           /\ \A x \in Conns : server'[x] = IF x = fds[s][g] THEN "closed" ELSE server[x]
<1> DEFINE x == fds[s][g]
<1>1. fds' = [fds EXCEPT ![s][g] = NoConn] /\ server' = [server EXCEPT ![x] = "closed"]
  BY DEF Close
<1>2. /\ server \in [Conns -> {"none", "queued", "open", "closed", "reset"}]
      /\ fds \in [Sinks -> [Fds -> Conns \cup {NoConn}]]
      /\ queue \in [Sinks -> Seq(Conns)]
  BY DEF IInv, TypeOK, Shape
<1>3. x \in Conns
  BY <1>2
<1> HIDE DEF x
<1>4. server' \in [Conns -> {"none", "queued", "open", "closed", "reset"}]
      /\ \A y \in Conns : server'[y] = IF y = x THEN "closed" ELSE server[y]
  BY <1>1, <1>2, <1>3
<1>5. fds' \in [Sinks -> [Fds -> Conns \cup {NoConn}]]
      /\ \A u \in Sinks, f \in Fds : fds'[u][f] = IF u = s /\ f = g THEN NoConn ELSE fds[u][f]
  BY <1>1, <1>2
<1> QED BY <1>2, <1>3, <1>4, <1>5 DEF x, ConnTypes

LEMMA CloseConn ==
    ASSUME IInv, NEW s \in Sinks, NEW g \in Fds, fds[s][g] # NoConn, Close(s, g),
           UNCHANGED <<cpc, ci, queue>>
    PROVE  ConnInv'
<1> DEFINE x == fds[s][g]
<1>1. /\ x \in Conns
      /\ \A u \in Sinks, f \in Fds : fds'[u][f] = IF u = s /\ f = g THEN NoConn ELSE fds[u][f]
      /\ \A y \in Conns : server'[y] = IF y = x THEN "closed" ELSE server[y]
  BY CloseEffect
<1>2. /\ fds \in [Sinks -> [Fds -> Conns \cup {NoConn}]] /\ queue \in [Sinks -> Seq(Conns)]
      /\ server[x] = "open" /\ NoConn \notin Conns
  BY ConnsFacts DEF IInv, TypeOK, Shape, Owned
<1>3. \A u \in Sinks, f \in Fds : fds[u][f] = x => u = s /\ f = g
  BY DEF IInv, Owned
<1> HIDE DEF x
<1>4. Fresh'
  <2> SUFFICES ASSUME NEW c \in Clients, NEW k \in 1 .. ClientCount[c],
                      k > ci[c] /\ (k > ci[c] + 1 \/ cpc[c] \in {"socket", "connect"})
               PROVE  server'[<<c, k>>] = "none"
    BY DEF Fresh
  <2>1. server[<<c, k>>] = "none" /\ <<c, k>> \in Conns
    BY ConnsFacts DEF IInv, Fresh
  <2> QED BY <1>1, <1>2, <2>1
<1>5. Owned'
  <2>1. \A u \in Sinks, f \in Fds : fds'[u][f] # NoConn => server'[fds'[u][f]] = "open"
    BY <1>1, <1>2, <1>3 DEF IInv, Owned
  <2>2. \A u, v \in Sinks, f, h \in Fds :
            fds'[u][f] # NoConn /\ fds'[u][f] = fds'[v][h] => u = v /\ f = h
    BY <1>1 DEF IInv, Owned
  <2>3. ASSUME NEW y \in Conns, server'[y] = "open"
        PROVE  \E u \in Sinks, f \in Fds : fds'[u][f] = y
    <3>1. y # x /\ server[y] = "open"
      BY <1>1, <2>3
    <3>2. PICK u \in Sinks, f \in Fds : fds[u][f] = y
      BY <3>1 DEF IInv, Owned
    <3>3. fds'[u][f] = y
      BY <1>1, <3>1, <3>2 DEF x
    <3> QED BY <3>3
  <2> QED BY <2>1, <2>2, <2>3 DEF Owned
<1>6. Queued'
  <2>1. ASSUME NEW u \in Sinks, NEW k \in 1 .. Len(queue[u])
        PROVE  server'[queue[u][k]] = "queued"
    <3>1. queue[u][k] \in Conns /\ server[queue[u][k]] = "queued"
      BY <1>2, ElementOfSeq DEF IInv, Queued
    <3> QED BY <1>1, <1>2, <3>1
  <2> QED BY <2>1 DEF IInv, Queued
<1> QED BY <1>4, <1>5, <1>6 DEF ConnInv

LEMMA ExitEffect ==
    ASSUME IInv, NEW s \in Sinks, SinkExit(s)
    PROVE  /\ ConnTypes'
           /\ \A u \in Sinks, f \in Fds : fds'[u][f] = IF u = s THEN NoConn ELSE fds[u][f]
           /\ \A u \in Sinks : queue'[u] = IF u = s THEN <<>> ELSE queue[u]
           /\ \A x \in Conns :
                 \/ /\ server'[x] = server[x]
                    /\ \A k \in 1 .. Len(queue[s]) : queue[s][k] # x
                    /\ \A f \in Fds : fds[s][f] # x
                 \/ /\ server'[x] = "reset"
                    /\ \E k \in 1 .. Len(queue[s]) : queue[s][k] = x
                 \/ /\ server'[x] = "closed"
                    /\ \E f \in Fds : fds[s][f] = x
<1>1. /\ server \in [Conns -> {"none", "queued", "open", "closed", "reset"}]
      /\ fds \in [Sinks -> [Fds -> Conns \cup {NoConn}]]
      /\ queue \in [Sinks -> Seq(Conns)]
  BY DEF IInv, TypeOK, Shape
<1>2. /\ queue' = [queue EXCEPT ![s] = <<>>]
      /\ fds' = [fds EXCEPT ![s] = [f \in Fds |-> NoConn]]
  BY DEF SinkExit
<1>3. <<>> \in Seq(Conns)
  BY EmptySeq
<1>4. queue' \in [Sinks -> Seq(Conns)]
      /\ \A u \in Sinks : queue'[u] = IF u = s THEN <<>> ELSE queue[u]
  BY <1>1, <1>2, <1>3
<1>5. fds' \in [Sinks -> [Fds -> Conns \cup {NoConn}]]
      /\ \A u \in Sinks, f \in Fds : fds'[u][f] = IF u = s THEN NoConn ELSE fds[u][f]
  BY <1>1, <1>2
<1> DEFINE InQueue(x) == \E k \in 1 .. Len(queue[s]) : queue[s][k] = x
           HasFd(x) == \E f \in Fds : fds[s][f] = x
<1>6. server' = [x \in Conns |-> IF InQueue(x) THEN "reset"
                                 ELSE IF HasFd(x) THEN "closed" ELSE server[x]]
  BY DEF SinkExit
<1>7. \A x \in Conns : \/ server'[x] = server[x] /\ ~InQueue(x) /\ ~HasFd(x)
                       \/ server'[x] = "reset" /\ InQueue(x)
                       \/ server'[x] = "closed" /\ HasFd(x)
  <2> HIDE DEF InQueue, HasFd
  <2> QED BY <1>6
<1>8. server' \in [Conns -> {"none", "queued", "open", "closed", "reset"}]
  <2> HIDE DEF InQueue, HasFd
  <2> QED BY <1>1, <1>6
<1> QED BY <1>4, <1>5, <1>7, <1>8 DEF ConnTypes

LEMMA ExitConn ==
    ASSUME IInv, NEW s \in Sinks, SinkExit(s)
    PROVE  ConnInv'
<1>1. /\ \A u \in Sinks, f \in Fds : fds'[u][f] = IF u = s THEN NoConn ELSE fds[u][f]
      /\ \A u \in Sinks : queue'[u] = IF u = s THEN <<>> ELSE queue[u]
      /\ UNCHANGED <<cpc, ci>>
  BY ExitEffect DEF SinkExit, clientVars
<1>2. \A x \in Conns :
          \/ /\ server'[x] = server[x]
             /\ \A k \in 1 .. Len(queue[s]) : queue[s][k] # x
             /\ \A f \in Fds : fds[s][f] # x
          \/ /\ server'[x] = "reset"
             /\ \E k \in 1 .. Len(queue[s]) : queue[s][k] = x
          \/ /\ server'[x] = "closed"
             /\ \E f \in Fds : fds[s][f] = x
  BY ExitEffect
<1>3. /\ fds \in [Sinks -> [Fds -> Conns \cup {NoConn}]] /\ queue \in [Sinks -> Seq(Conns)]
      /\ NoConn \notin Conns /\ Len(<<>>) = 0
  BY ConnsFacts DEF IInv, TypeOK, Shape
<1>4. /\ \A u \in Sinks : \A k \in 1 .. Len(queue[u]) : server[queue[u][k]] = "queued"
      /\ \A u, v \in Sinks : \A k \in 1 .. Len(queue[u]), m \in 1 .. Len(queue[v]) :
            queue[u][k] = queue[v][m] => u = v /\ k = m
  BY DEF IInv, Queued
<1>5. /\ \A u \in Sinks, f \in Fds : fds[u][f] # NoConn => server[fds[u][f]] = "open"
      /\ \A u, v \in Sinks, f, g \in Fds :
            fds[u][f] # NoConn /\ fds[u][f] = fds[v][g] => u = v /\ f = g
      /\ \A x \in Conns : server[x] = "open" => \E u \in Sinks, f \in Fds : fds[u][f] = x
  BY DEF IInv, Owned
<1>6. Fresh'
  <2> SUFFICES ASSUME NEW c \in Clients, NEW k \in 1 .. ClientCount[c],
                      k > ci[c] /\ (k > ci[c] + 1 \/ cpc[c] \in {"socket", "connect"})
               PROVE  server'[<<c, k>>] = "none"
    BY <1>1 DEF Fresh
  <2>1. server[<<c, k>>] = "none" /\ <<c, k>> \in Conns
    BY ConnsFacts DEF IInv, Fresh
  <2>2. PICK x \in Conns : x = <<c, k>>
    BY <2>1
  <2>3. server[x] = "none"
    BY <2>1, <2>2
  <2>4. /\ ~ \E m \in 1 .. Len(queue[s]) : queue[s][m] = x
        /\ ~ \E f \in Fds : fds[s][f] = x
    <3>1. \A m \in 1 .. Len(queue[s]) : queue[s][m] # x
      BY <1>4, <2>3
    <3>2. \A f \in Fds : fds[s][f] # x
      BY <1>3, <1>5, <2>3
    <3> QED BY <3>1, <3>2
  <2>5. server'[x] = server[x]
    BY <1>2, <2>4
  <2> QED BY <2>2, <2>3, <2>5
<1>7. Owned'
  <2>1. ASSUME NEW u \in Sinks, NEW f \in Fds, fds'[u][f] # NoConn
        PROVE  server'[fds'[u][f]] = "open"
    <3>1. u # s /\ fds'[u][f] = fds[u][f] /\ fds[u][f] \in Conns
      BY <1>1, <1>3, <2>1
    <3>2. server[fds[u][f]] = "open"
      BY <1>5, <2>1, <3>1
    <3>3. \A g \in Fds : fds[s][g] # fds[u][f]
      BY <1>5, <2>1, <3>1
    <3>4. \A k \in 1 .. Len(queue[s]) : queue[s][k] # fds[u][f]
      BY <1>4, <3>2
    <3>5. server'[fds[u][f]] = server[fds[u][f]]
      BY <1>2, <3>1, <3>3, <3>4
    <3> QED BY <3>1, <3>2, <3>5
  <2>2. \A u, v \in Sinks, f, g \in Fds :
            fds'[u][f] # NoConn /\ fds'[u][f] = fds'[v][g] => u = v /\ f = g
    BY <1>1, <1>5
  <2>3. ASSUME NEW x \in Conns, server'[x] = "open"
        PROVE  \E u \in Sinks, f \in Fds : fds'[u][f] = x
    <3>1. server[x] = "open" /\ \A f \in Fds : fds[s][f] # x
      BY <1>2, <2>3
    <3>2. PICK u \in Sinks, f \in Fds : fds[u][f] = x
      BY <1>5, <3>1
    <3>3. fds'[u][f] = x
      BY <1>1, <3>1, <3>2
    <3> QED BY <3>3
  <2> QED BY <2>1, <2>2, <2>3 DEF Owned
<1>8. \A u \in Sinks : \A k \in 1 .. Len(queue'[u]) : u # s /\ queue'[u] = queue[u]
  <2> TAKE u \in Sinks
  <2> TAKE k \in 1 .. Len(queue'[u])
  <2>1. CASE u = s
    <3>1. Len(queue'[u]) = 0
      BY <1>1, <1>3, <2>1
    <3> QED BY <3>1
  <2>2. CASE u # s
    BY <1>1, <2>2
  <2> QED BY <2>1, <2>2
<1>9. Queued'
  <2>1. ASSUME NEW u \in Sinks, NEW k \in 1 .. Len(queue'[u])
        PROVE  server'[queue'[u][k]] = "queued"
    <3>1. u # s /\ queue'[u] = queue[u] /\ k \in 1 .. Len(queue[u])
      BY <1>8
    <3>2. queue[u][k] \in Conns /\ server[queue[u][k]] = "queued"
      BY <1>3, <1>4, <3>1, ElementOfSeq
    <3>3. \A m \in 1 .. Len(queue[s]) : queue[s][m] # queue[u][k]
      BY <1>4, <3>1
    <3>4. \A f \in Fds : fds[s][f] # queue[u][k]
      BY <1>3, <1>5, <3>2
    <3>5. server'[queue[u][k]] = server[queue[u][k]]
      BY <1>2, <3>2, <3>3, <3>4
    <3> QED BY <3>1, <3>2, <3>5
  <2>2. ASSUME NEW u \in Sinks, NEW v \in Sinks, NEW k \in 1 .. Len(queue'[u]),
               NEW m \in 1 .. Len(queue'[v]), queue'[u][k] = queue'[v][m]
        PROVE  u = v /\ k = m
    <3>1. queue'[u] = queue[u] /\ queue'[v] = queue[v]
      BY <1>8
    <3>2. k \in 1 .. Len(queue[u]) /\ m \in 1 .. Len(queue[v]) /\ queue[u][k] = queue[v][m]
      BY <2>2, <3>1
    <3> QED BY <1>4, <3>2
  <2> QED BY <2>1, <2>2 DEF Queued
<1> QED BY <1>6, <1>7, <1>9 DEF ConnInv

-----------------------------------------------------------------------------
(* The invariant in the parts that the actions change together.            *)

ClientTypes ==
    /\ cpc \in [Clients -> {"socket", "connect", "close", "done"} \cup ExitCodes]
    /\ ci \in [Clients -> Nat] /\ retries \in [Clients -> 0 .. max_retries + 1]
    /\ \A c \in Clients :
          /\ ci[c] <= ClientCount[c]
          /\ cpc[c] \in {"connect", "close"} => ci[c] < ClientCount[c]
          /\ cpc[c] = "connect" => retries[c] <= max_retries

SinkTypes ==
    /\ spc \in [Sinks -> {"wait", "close", "handle", "exit"}]
    /\ si \in [Sinks -> 1 .. SinkCount + 1]
    /\ \A s \in Sinks : spc[s] \in {"close", "handle"} => si[s] <= SinkCount

EventTypes ==
    /\ client \in [Conns -> {"none", "open", "closed"}]
    /\ edge \in [Sinks -> SUBSET Fds]
    /\ events \in [Sinks -> Seq(Fds \cup {ListenFd})]

LEMMA Parts == ASSUME IInv PROVE ClientTypes /\ SinkTypes /\ EventTypes /\ ConnTypes
<1>1. ClientTypes
  BY DEF IInv, TypeOK, Shape, ClientTypes
<1>2. SinkTypes
  BY DEF IInv, TypeOK, Shape, SinkTypes
<1>3. EventTypes /\ ConnTypes
  BY DEF IInv, TypeOK, Shape, EventTypes, ConnTypes
<1> QED BY <1>1, <1>2, <1>3

LEMMA Whole ==
    ASSUME ClientTypes', SinkTypes', EventTypes', ConnTypes', ConnInv', OneAtATime',
           EachOnce', EventsNotStale'
    PROVE  IInv'
<1>1. \A s \in Sinks : \A k \in 1 .. Len(queue'[s]) : queue'[s][k] \in Conns
  <2> TAKE s \in Sinks
  <2> TAKE k \in 1 .. Len(queue'[s])
  <2>1. queue'[s] \in Seq(Conns)
    BY DEF ConnTypes
  <2> QED BY <2>1, ElementOfSeq
<1>2. TypeOK'
  BY <1>1 DEF TypeOK, ClientTypes, SinkTypes, EventTypes, ConnTypes
<1>3. Shape'
  BY DEF Shape, ClientTypes, SinkTypes, EventTypes, ConnTypes
<1> QED BY <1>2, <1>3 DEF IInv, ConnInv

LEMMA EventFd ==
    ASSUME IInv, NEW s \in EpollSinks,
           NEW f \in edge[s] \cup {events[s][k] : k \in 1 .. Len(events[s])}, f # ListenFd
    PROVE  f \in Fds
<1>1. s \in Sinks
  BY TcpAssumption
<1>2. events[s] \in Seq(Fds \cup {ListenFd}) /\ edge[s] \subseteq Fds
  BY <1>1, Parts DEF EventTypes
<1>3. \A k \in 1 .. Len(events[s]) : events[s][k] \in Fds \cup {ListenFd}
  BY <1>2, ElementOfSeq
<1> QED BY <1>2, <1>3

LEMMA InitIInv == Init => IInv
<1> SUFFICES ASSUME Init PROVE IInv
  OBVIOUS
<1>1. /\ <<>> \in Seq(Conns) /\ <<>> \in Seq(Fds \cup {ListenFd}) /\ Len(<<>>) = 0
      /\ ~ \E k \in 1 .. 0 : TRUE
  BY EmptySeq
<1>2. \A s \in Sinks : queue[s] = <<>> /\ events[s] = <<>> /\ edge[s] = {}
  BY DEF Init
<1>3. Shape
  <2>1. queue \in [Sinks -> Seq(Conns)] /\ events \in [Sinks -> Seq(Fds \cup {ListenFd})]
    BY <1>1 DEF Init
  <2> QED BY <2>1, TcpAssumption DEF Init, Shape, max_retries
<1>4. TypeOK
  <2>1. \A s \in Sinks : \A k \in 1 .. Len(queue[s]) : queue[s][k] \in Conns
    BY <1>1, <1>2
  <2>2. si \in [Sinks -> 1 .. SinkCount + 1]
    BY TcpAssumption DEF Init
  <2>3. ci \in [Clients -> Nat] /\ (\A c \in Clients : ci[c] <= ClientCount[c])
    BY ConnsFacts DEF Init
  <2>4. fds \in [Sinks -> [Fds -> Conns \cup {NoConn}]] /\ edge \in [Sinks -> SUBSET Fds]
    BY DEF Init
  <2> QED BY <2>1, <2>2, <2>3, <2>4 DEF Init, TypeOK, max_retries
<1>5. Fresh
  BY ConnsFacts DEF Init, Fresh
<1>6. Owned
  BY DEF Init, Owned
<1>7. Queued
  BY <1>1, <1>2 DEF Queued
<1>8. OneAtATime
  BY DEF Init, OneAtATime
<1>9. EachOnce /\ EventsNotStale
  BY <1>1, <1>2, TcpAssumption DEF EachOnce, EventsNotStale
<1> QED BY <1>3, <1>4, <1>5, <1>6, <1>7, <1>8, <1>9 DEF IInv

-----------------------------------------------------------------------------
(* The clients.                                                            *)

(* Connections close or stay; the sinks do nothing.                        *)
LEMMA CloseClientsEvents ==
    ASSUME IInv, NEW X \in SUBSET Conns, CloseClients(X), UNCHANGED <<queue, fds, events>>
    PROVE  EventTypes' /\ EventsNotStale'
<1>1. EventTypes /\ fds \in [Sinks -> [Fds -> Conns \cup {NoConn}]] /\ NoConn \notin Conns
  BY Parts, ConnsFacts DEF ConnTypes
<1>2. /\ client' = [x \in Conns |-> IF x \in X /\ client[x] = "open" THEN "closed" ELSE client[x]]
      /\ edge' = [s \in Sinks |->
                    edge[s] \cup {f \in Fds : s \in EpollSinks /\ fds[s][f] \in X
                                              /\ client[fds[s][f]] = "open"}]
  BY DEF CloseClients
<1>3. EventTypes'
  BY <1>1, <1>2 DEF EventTypes
<1>4. \A x \in Conns : client[x] = "closed" => client'[x] = "closed"
  BY <1>2
<1>5. ASSUME NEW s \in EpollSinks, NEW f \in edge'[s] \cup {events[s][k] : k \in 1 .. Len(events[s])},
             f # ListenFd
      PROVE  fds[s][f] # NoConn /\ client'[fds[s][f]] = "closed"
  <2>1. s \in Sinks
    BY TcpAssumption
  <2>2. CASE f \in edge[s] \cup {events[s][k] : k \in 1 .. Len(events[s])}
    <3>1. fds[s][f] # NoConn /\ client[fds[s][f]] = "closed"
      BY <1>5, <2>2 DEF IInv, EventsNotStale
    <3>2. f \in Fds
      BY <1>5, <2>2, EventFd
    <3>3. fds[s][f] \in Conns
      BY <1>1, <2>1, <3>1, <3>2
    <3> QED BY <1>4, <3>1, <3>3
  <2>3. CASE f \in Fds /\ fds[s][f] \in X /\ client[fds[s][f]] = "open"
    BY <1>1, <1>2, <2>3
  <2> QED BY <1>2, <1>5, <2>1, <2>2, <2>3
<1>6. EventsNotStale'
  BY <1>5 DEF IInv, EventsNotStale
<1> QED BY <1>3, <1>6

LEMMA ConnIsConn ==
    ASSUME ClientTypes, NEW c \in Clients, cpc[c] \in {"connect", "close"}
    PROVE  Conn(c) \in Conns /\ ci[c] + 1 \in 1 .. ClientCount[c] /\ ci[c] \in Nat
<1>1. ci[c] \in Nat /\ ClientCount[c] \in Nat /\ ci[c] < ClientCount[c]
  BY ConnsFacts DEF ClientTypes
<1>2. ci[c] + 1 \in 1 .. ClientCount[c]
  BY <1>1
<1> QED BY <1>1, <1>2, ConnsFacts DEF Conn

LEMMA ConnsOfSubset == ASSUME NEW c \in Clients PROVE ConnsOf(c) \in SUBSET Conns
  BY DEF Conns

(* A client moves on from a connection only when it has made it.           *)
Moves(c) ==
    \/ ci'[c] = ci[c] + 1
    \/ ci'[c] = ci[c] /\ (cpc'[c] \in {"socket", "connect"} => cpc[c] \in {"socket", "connect"})

LEMMA FreshKeeps ==
    ASSUME IInv, NEW c \in Clients, UNCHANGED <<server, queue, fds>>,
           \A d \in Clients \ {c} : cpc'[d] = cpc[d] /\ ci'[d] = ci[d],
           Moves(c)
    PROVE  ConnInv' /\ ConnTypes'
<1>1. Fresh'
  <2> SUFFICES ASSUME NEW d \in Clients, NEW k \in 1 .. ClientCount[d],
                      k > ci'[d] /\ (k > ci'[d] + 1 \/ cpc'[d] \in {"socket", "connect"})
               PROVE  server[<<d, k>>] = "none"
    BY DEF Fresh
  <2>1. ci[d] \in Nat /\ k \in Nat
    BY Parts, ConnsFacts DEF ClientTypes
  <2>2. k > ci[d] /\ (k > ci[d] + 1 \/ cpc[d] \in {"socket", "connect"})
    <3>1. CASE d = c
      BY <2>1, <3>1 DEF Moves
    <3>2. CASE d # c
      BY <3>2
    <3> QED BY <3>1, <3>2
  <2> QED BY <2>2 DEF IInv, Fresh
<1>2. Owned' /\ Queued'
  BY DEF IInv, Owned, Queued
<1>3. ConnTypes'
  BY Parts DEF ConnTypes
<1> QED BY <1>1, <1>2, <1>3 DEF ConnInv

(* Steps of a client that no sink takes part in.                           *)
LEMMA ClientOnly ==
    ASSUME IInv, NEW c \in Clients, UNCHANGED <<server, queue, sinkVars>>,
           ClientTypes',
           \A d \in Clients \ {c} : cpc'[d] = cpc[d] /\ ci'[d] = ci[d],
           Moves(c),
           \/ UNCHANGED <<client, edge>>
           \/ \E X \in SUBSET Conns : CloseClients(X)
    PROVE  IInv'
<1>1. UNCHANGED <<spc, si, fds, events>>
  BY DEF sinkVars
<1>2. SinkTypes' /\ OneAtATime' /\ EachOnce'
  <2>1. SinkTypes'
    BY <1>1, Parts DEF SinkTypes
  <2>2. OneAtATime' /\ EachOnce'
    BY <1>1 DEF IInv, OneAtATime, EachOnce
  <2> QED BY <2>1, <2>2
<1>3. ConnInv' /\ ConnTypes'
  BY <1>1, FreshKeeps
<1>4. EventTypes' /\ EventsNotStale'
  <2>1. CASE UNCHANGED <<client, edge>>
    <3>1. EventTypes'
      BY <1>1, <2>1, Parts DEF EventTypes
    <3>2. EventsNotStale'
      BY <1>1, <2>1 DEF IInv, EventsNotStale
    <3> QED BY <3>1, <3>2
  <2>2. CASE \E X \in SUBSET Conns : CloseClients(X)
    BY <1>1, <2>2, CloseClientsEvents
  <2> QED BY <2>1, <2>2
<1> QED BY <1>2, <1>3, <1>4, Whole

LEMMA ClientLoopIInv == ASSUME IInv, NEW c \in Clients, ClientLoop(c) PROVE IInv'
<1>1. ClientTypes /\ cpc[c] = "socket" /\ ClientCount[c] \in Nat
  BY Parts, ConnsFacts DEF ClientLoop
<1>2. UNCHANGED <<ci, server, queue, sinkVars>>
  BY DEF ClientLoop
<1>3. CASE ci[c] < ClientCount[c]
  <2>1. /\ cpc' = [cpc EXCEPT ![c] = "connect"] /\ retries' = [retries EXCEPT ![c] = 0]
        /\ UNCHANGED <<client, edge>>
    BY <1>3 DEF ClientLoop
  <2>2. ClientTypes'
    BY <1>1, <1>2, <1>3, <2>1 DEF ClientTypes, max_retries
  <2>3. \A d \in Clients \ {c} : cpc'[d] = cpc[d] /\ ci'[d] = ci[d]
    BY <1>1, <1>2, <2>1 DEF ClientTypes
  <2>4. Moves(c)
    BY <1>1, <1>2 DEF Moves
  <2> QED BY <1>1, <1>2, <2>1, <2>2, <2>3, <2>4, ClientOnly
<1>4. CASE ~(ci[c] < ClientCount[c])
  <2>1. /\ cpc' = [cpc EXCEPT ![c] = "done"] /\ UNCHANGED retries
        /\ CloseClients(ConnsOf(c))
    BY <1>4 DEF ClientLoop
  <2>2. ClientTypes'
    BY <1>1, <1>2, <2>1 DEF ClientTypes
  <2>3. \A d \in Clients \ {c} : cpc'[d] = cpc[d] /\ ci'[d] = ci[d]
    BY <1>1, <1>2, <2>1 DEF ClientTypes
  <2>4. Moves(c)
    BY <1>1, <1>2 DEF Moves
  <2> QED BY <1>1, <1>2, <2>1, <2>2, <2>3, <2>4, ClientOnly, ConnsOfSubset
<1> QED BY <1>3, <1>4

LEMMA SetupFailsIInv == ASSUME IInv, NEW c \in Clients, SetupFails(c) PROVE IInv'
<1>1. ClientTypes /\ cpc[c] = "socket" /\ UNCHANGED <<ci, retries, server, queue, sinkVars>>
      /\ CloseClients(ConnsOf(c))
  BY Parts DEF SetupFails
<1>2. PICK code \in ExitCodes : cpc' = [cpc EXCEPT ![c] = code]
  BY DEF SetupFails, ExitCodes
<1>3. ClientTypes'
  <2>1. code \notin {"connect", "close"}
    BY DEF ExitCodes
  <2> QED BY <1>1, <1>2, <2>1 DEF ClientTypes
<1>4. \A d \in Clients \ {c} : cpc'[d] = cpc[d] /\ ci'[d] = ci[d]
  BY <1>1, <1>2 DEF ClientTypes
<1>5. Moves(c)
  BY <1>1 DEF Moves
<1> QED BY <1>1, <1>3, <1>4, <1>5, ClientOnly, ConnsOfSubset

LEMMA ClientCloseFailsIInv == ASSUME IInv, NEW c \in Clients, ClientCloseFails(c) PROVE IInv'
<1>1. /\ ClientTypes /\ cpc[c] = "close" /\ UNCHANGED <<ci, retries, server, queue, sinkVars>>
      /\ CloseClients(ConnsOf(c)) /\ cpc' = [cpc EXCEPT ![c] = "exit_fail_sock"]
  BY Parts DEF ClientCloseFails
<1>2. ClientTypes'
  BY <1>1 DEF ClientTypes, ExitCodes
<1>3. \A d \in Clients \ {c} : cpc'[d] = cpc[d] /\ ci'[d] = ci[d]
  BY <1>1 DEF ClientTypes
<1>4. Moves(c)
  BY <1>1 DEF ClientTypes, Moves
<1> QED BY <1>1, <1>2, <1>3, <1>4, ClientOnly, ConnsOfSubset

LEMMA ConnectErrorIInv ==
    ASSUME IInv, NEW c \in Clients, NEW errno, ConnectError(c, errno)
    PROVE  IInv'
<1>1. /\ ClientTypes /\ cpc[c] = "connect" /\ UNCHANGED <<ci, server, queue, sinkVars>>
      /\ retries' = [retries EXCEPT ![c] = retries[c] + 1]
      /\ retries[c] \in Nat /\ retries[c] <= max_retries
  BY Parts DEF ConnectError, ClientTypes, max_retries
<1>2. retries' \in [Clients -> 0 .. max_retries + 1]
  BY <1>1 DEF ClientTypes, max_retries
<1>3. CASE retries[c] + 1 <= max_retries /\ UNCHANGED <<cpc, client, edge>>
  <2>1. ClientTypes'
    BY <1>1, <1>2, <1>3 DEF ClientTypes
  <2>2. \A d \in Clients \ {c} : cpc'[d] = cpc[d] /\ ci'[d] = ci[d]
    BY <1>1, <1>3
  <2>3. Moves(c)
    BY <1>1 DEF Moves
  <2> QED BY <1>1, <1>3, <2>1, <2>2, <2>3, ClientOnly
<1>4. CASE /\ CloseClients(ConnsOf(c))
           /\ \E code \in ExitCodes : cpc' = [cpc EXCEPT ![c] = code]
  <2>1. PICK code \in ExitCodes : cpc' = [cpc EXCEPT ![c] = code]
    BY <1>4
  <2>2. code \notin {"connect", "close"}
    BY DEF ExitCodes
  <2>3. ClientTypes'
    BY <1>1, <1>2, <2>1, <2>2 DEF ClientTypes
  <2>4. \A d \in Clients \ {c} : cpc'[d] = cpc[d] /\ ci'[d] = ci[d]
    BY <1>1, <2>1 DEF ClientTypes
  <2>5. Moves(c)
    BY <1>1 DEF Moves
  <2> QED BY <1>1, <1>4, <2>3, <2>4, <2>5, ClientOnly, ConnsOfSubset
<1> QED BY <1>3, <1>4 DEF ConnectError, ExitCodes

LEMMA ClientCloseIInv == ASSUME IInv, NEW c \in Clients, ClientClose(c) PROVE IInv'
<1>1. /\ ClientTypes /\ cpc[c] = "close" /\ UNCHANGED <<retries, server, queue, sinkVars>>
      /\ ci' = [ci EXCEPT ![c] = ci[c] + 1] /\ cpc' = [cpc EXCEPT ![c] = "socket"]
  BY Parts DEF ClientClose
<1>2. /\ Conn(c) \in Conns /\ ci[c] \in Nat /\ ClientCount[c] \in Nat
      /\ ci[c] + 1 \in 1 .. ClientCount[c]
  BY <1>1, ConnIsConn, ConnsFacts
<1>3. ClientTypes'
  BY <1>1, <1>2 DEF ClientTypes
<1>4. /\ \A d \in Clients \ {c} : cpc'[d] = cpc[d] /\ ci'[d] = ci[d]
      /\ ci'[c] = ci[c] + 1
  BY <1>1 DEF ClientTypes
<1>5. UNCHANGED <<client, edge>> \/ \E X \in SUBSET Conns : CloseClients(X)
  <2>1. {Conn(c)} \in SUBSET Conns
    BY <1>2
  <2> QED BY <2>1 DEF ClientClose
<1>6. Moves(c)
  BY <1>4 DEF Moves
<1> QED BY <1>1, <1>3, <1>4, <1>5, <1>6, ClientOnly

LEMMA ConnectOkIInv ==
    ASSUME IInv, NEW c \in Clients, NEW s \in Sinks, ConnectOk(c, s)
    PROVE  IInv'
<1> DEFINE x == Conn(c)
<1>1. /\ ClientTypes /\ SinkTypes /\ EventTypes /\ ConnTypes
      /\ cpc[c] = "connect" /\ UNCHANGED <<ci, edge, spc, si, fds, events>>
      /\ retries' = [retries EXCEPT ![c] = 0]
      /\ queue' = [queue EXCEPT ![s] = Append(queue[s], x)]
      /\ client' = [client EXCEPT ![x] = "open"]
      /\ server' = [server EXCEPT ![x] = "queued"]
      /\ cpc' = [cpc EXCEPT ![c] = "close"]
  BY Parts DEF ConnectOk, sinkVars
<1>2. /\ x \in Conns /\ x = <<c, ci[c] + 1>> /\ ci[c] + 1 \in 1 .. ClientCount[c]
      /\ ci[c] \in Nat
  BY <1>1, ConnIsConn DEF Conn
<1>3. server[x] = "none"
  <2>1. ci[c] + 1 > ci[c]
    BY <1>2
  <2> QED BY <1>1, <1>2, <2>1 DEF IInv, Fresh
<1>4. NoConn \notin Conns
  BY ConnsFacts
<1> HIDE DEF x
<1>5. /\ \A y \in Conns : server'[y] = IF y = x THEN "queued" ELSE server[y]
      /\ \A y \in Conns : client'[y] = IF y = x THEN "open" ELSE client[y]
      /\ \A u \in Sinks : queue'[u] = IF u = s THEN Append(queue[s], x) ELSE queue[u]
  BY <1>1, <1>2 DEF ConnTypes, EventTypes
<1>6. /\ Append(queue[s], x) \in Seq(Conns) /\ Append(queue[s], x) # <<>>
      /\ Len(queue[s]) \in Nat
      /\ Len(Append(queue[s], x)) = Len(queue[s]) + 1
      /\ \A k \in 1 .. Len(queue[s]) : Append(queue[s], x)[k] = queue[s][k]
      /\ Append(queue[s], x)[Len(queue[s]) + 1] = x
  <2>1. PICK q \in Seq(Conns) : q = queue[s]
    BY <1>1 DEF ConnTypes
  <2>2. /\ Append(q, x) \in Seq(Conns) /\ Append(q, x) # <<>> /\ Len(q) \in Nat
        /\ Len(Append(q, x)) = Len(q) + 1
        /\ \A k \in 1 .. Len(q) : Append(q, x)[k] = q[k]
        /\ Append(q, x)[Len(q) + 1] = x
    <3>1. Len(q) \in Nat
      OBVIOUS
    <3>2. x \in Conns
      BY <1>2
    <3> QED BY ONLY q \in Seq(Conns), <3>1, <3>2, AppendProperties
  <2> QED BY <2>1, <2>2
<1>7. ClientTypes' /\ SinkTypes'
  BY <1>1 DEF ClientTypes, SinkTypes, max_retries
<1>8. ConnTypes' /\ EventTypes'
  BY <1>1, <1>2, <1>6 DEF ConnTypes, EventTypes
<1>9. Fresh'
  <2> SUFFICES ASSUME NEW d \in Clients, NEW k \in 1 .. ClientCount[d],
                      k > ci[d] /\ (k > ci[d] + 1 \/ cpc'[d] \in {"socket", "connect"})
               PROVE  server'[<<d, k>>] = "none"
    BY <1>1 DEF Fresh
  <2>1. <<d, k>> \in Conns /\ k \in Int
    BY ConnsFacts
  <2>2. <<d, k>> # x
    <3>1. CASE d = c
      <4>1. cpc'[d] = "close"
        BY <1>1, <3>1 DEF ClientTypes
      <4>2. k # ci[c] + 1
        BY <1>2, <2>1, <3>1, <4>1
      <4> QED BY <1>2, <3>1, <4>2
    <3>2. CASE d # c
      BY <1>2, <3>2
    <3> QED BY <3>1, <3>2
  <2>3. k > ci[d] /\ (k > ci[d] + 1 \/ cpc[d] \in {"socket", "connect"})
    BY <1>1 DEF ClientTypes
  <2>4. server[<<d, k>>] = "none"
    BY <2>3 DEF IInv, Fresh
  <2> QED BY <1>5, <2>1, <2>2, <2>4
<1>10. \A u \in Sinks, f \in Fds : fds[u][f] # x
  BY <1>2, <1>3, <1>4 DEF IInv, Owned
<1>11. Owned'
  <2>1. \A u \in Sinks, f \in Fds : fds[u][f] # NoConn => server'[fds[u][f]] = "open"
    BY <1>1, <1>5, <1>10 DEF IInv, Owned, ConnTypes
  <2>2. \A y \in Conns : server'[y] = "open" => server[y] = "open"
    BY <1>5
  <2> QED BY <1>1, <2>1, <2>2 DEF IInv, Owned
<1>12. \A u \in Sinks : \A k \in 1 .. Len(queue[u]) : queue[u][k] \in Conns /\ queue[u][k] # x
                                                      /\ server[queue[u][k]] = "queued"
  <2> TAKE u \in Sinks
  <2> TAKE k \in 1 .. Len(queue[u])
  <2>1. server[queue[u][k]] = "queued"
    BY DEF IInv, Queued
  <2>2. queue[u][k] \in Conns
    <3>1. queue[u] \in Seq(Conns)
      BY <1>1 DEF ConnTypes
    <3> QED BY <3>1, ElementOfSeq
  <2> QED BY <1>3, <2>1, <2>2
<1>13. \A u \in Sinks : \A k \in 1 .. Len(queue'[u]) :
           \/ u = s /\ k = Len(queue[s]) + 1 /\ queue'[u][k] = x
           \/ k \in 1 .. Len(queue[u]) /\ queue'[u][k] = queue[u][k]
  <2> TAKE u \in Sinks
  <2> TAKE k \in 1 .. Len(queue'[u])
  <2>1. CASE u = s
    <3>1. queue'[u] = Append(queue[s], x) /\ k \in 1 .. Len(queue[s]) + 1
      BY <1>5, <1>6, <2>1
    <3>2. k \in 1 .. Len(queue[s]) \/ k = Len(queue[s]) + 1
      BY <1>6, <3>1
    <3> QED BY <1>6, <2>1, <3>1, <3>2
  <2>2. CASE u # s
    BY <1>5, <2>2
  <2> QED BY <2>1, <2>2
<1>14. Queued'
  <2>1. ASSUME NEW u \in Sinks, NEW k \in 1 .. Len(queue'[u])
        PROVE  server'[queue'[u][k]] = "queued"
    <3>1. CASE queue'[u][k] = x
      BY <1>2, <1>5, <3>1
    <3>2. CASE k \in 1 .. Len(queue[u]) /\ queue'[u][k] = queue[u][k]
      BY <1>5, <1>12, <3>2
    <3> QED BY <1>13, <3>1, <3>2
  <2>2. ASSUME NEW u \in Sinks, NEW v \in Sinks, NEW k \in 1 .. Len(queue'[u]),
               NEW m \in 1 .. Len(queue'[v]), queue'[u][k] = queue'[v][m]
        PROVE  u = v /\ k = m
    <3>1. CASE queue'[u][k] = x
      <4>1. u = s /\ k = Len(queue[s]) + 1
        BY <1>12, <1>13, <3>1
      <4>2. v = s /\ m = Len(queue[s]) + 1
        <5>1. queue'[v][m] = x
          BY <2>2, <3>1
        <5> QED BY <1>12, <1>13, <5>1
      <4> QED BY <4>1, <4>2
    <3>2. CASE queue'[u][k] # x
      <4>1. k \in 1 .. Len(queue[u]) /\ queue'[u][k] = queue[u][k]
        BY <1>13, <3>2
      <4>2. m \in 1 .. Len(queue[v]) /\ queue'[v][m] = queue[v][m]
        BY <1>13, <2>2, <3>2
      <4>3. \A a, b \in Sinks : \A y \in 1 .. Len(queue[a]), z \in 1 .. Len(queue[b]) :
                queue[a][y] = queue[b][z] => a = b /\ y = z
        BY DEF IInv, Queued
      <4>4. queue[u][k] = queue[v][m]
        BY <2>2, <4>1, <4>2
      <4> QED BY <4>1, <4>2, <4>3, <4>4
    <3> QED BY <3>1, <3>2
  <2> QED BY <2>1, <2>2 DEF Queued
<1>15. OneAtATime' /\ EachOnce'
  BY <1>1 DEF IInv, OneAtATime, EachOnce
<1>16. EventsNotStale'
  <2> SUFFICES ASSUME NEW u \in EpollSinks
               PROVE  /\ \A f \in edge[u] \cup {events[u][k] : k \in 1 .. Len(events[u])} :
                            f # ListenFd => fds[u][f] # NoConn /\ client'[fds[u][f]] = "closed"
                      /\ \A k \in 1 .. Len(events[u]) : events[u][k] = ListenFd => queue'[u] # <<>>
    BY <1>1 DEF EventsNotStale
  <2>1. u \in Sinks
    BY TcpAssumption
  <2>2. ASSUME NEW f \in edge[u] \cup {events[u][k] : k \in 1 .. Len(events[u])}, f # ListenFd
        PROVE  fds[u][f] # NoConn /\ client'[fds[u][f]] = "closed"
    <3>1. fds[u][f] # NoConn /\ client[fds[u][f]] = "closed"
      BY <2>2 DEF IInv, EventsNotStale
    <3>2. f \in Fds
      BY <2>2, EventFd
    <3>3. fds[u][f] \in Conns /\ fds[u][f] # x
      BY <1>1, <1>10, <2>1, <3>1, <3>2 DEF ConnTypes
    <3> QED BY <1>5, <3>1, <3>3
  <2>3. ASSUME NEW k \in 1 .. Len(events[u]), events[u][k] = ListenFd
        PROVE  queue'[u] # <<>>
    <3>1. queue[u] # <<>>
      BY <2>3 DEF IInv, EventsNotStale
    <3> QED BY <1>5, <1>6, <2>1, <3>1
  <2> QED BY <2>2, <2>3
<1> QED BY <1>7, <1>8, <1>9, <1>11, <1>14, <1>15, <1>16, Whole DEF ConnInv

-----------------------------------------------------------------------------
(* The sinks.                                                              *)

(* The parts of OneAtATime, EachOnce and EventsNotStale about one sink.    *)
Single(s) ==
    IF spc[s] = "close" THEN \E f \in Fds : \A g \in Fds : fds[s][g] # NoConn <=> g = f
    ELSE \A g \in Fds : fds[s][g] = NoConn

Once(s) == \A k, m \in 1 .. Len(events[s]) : events[s][k] = events[s][m] => k = m

NotStale(s) ==
    /\ \A f \in edge[s] \cup {events[s][k] : k \in 1 .. Len(events[s])} :
          f # ListenFd => fds[s][f] # NoConn /\ client[fds[s][f]] = "closed"
    /\ \A k \in 1 .. Len(events[s]) : events[s][k] = ListenFd => queue[s] # <<>>

(* A step of one sink leaves the others alone.                             *)
LEMMA SinkFrame ==
    ASSUME IInv, NEW s \in Sinks, UNCHANGED <<clientVars, client>>,
           SinkTypes', EventTypes', ConnTypes', ConnInv',
           \A u \in Sinks \ {s} : /\ spc'[u] = spc[u] /\ edge'[u] = edge[u]
                                  /\ events'[u] = events[u] /\ queue'[u] = queue[u]
                                  /\ \A f \in Fds : fds'[u][f] = fds[u][f],
           s \in EpollSinks => Once(s)' /\ NotStale(s)',
           s \notin EpollSinks => Single(s)'
    PROVE  IInv'
<1>1. ClientTypes'
  BY Parts DEF ClientTypes, clientVars
<1>2. OneAtATime'
  <2> SUFFICES ASSUME NEW u \in Sinks \ EpollSinks PROVE Single(u)'
    BY DEF OneAtATime, Single
  <2>1. CASE u = s
    BY <2>1
  <2>2. CASE u # s
    <3>1. Single(u)
      BY DEF IInv, OneAtATime, Single
    <3> QED BY <2>2, <3>1 DEF Single
  <2> QED BY <2>1, <2>2
<1>3. EachOnce'
  <2> SUFFICES ASSUME NEW u \in EpollSinks PROVE Once(u)'
    BY DEF EachOnce, Once
  <2>1. CASE u = s
    BY <2>1
  <2>2. CASE u # s
    <3>1. Once(u) /\ u \in Sinks
      BY TcpAssumption DEF IInv, EachOnce, Once
    <3>2. events'[u] = events[u]
      BY <2>2, <3>1
    <3> QED BY <3>1, <3>2 DEF Once
  <2> QED BY <2>1, <2>2
<1>4. EventsNotStale'
  <2> SUFFICES ASSUME NEW u \in EpollSinks PROVE NotStale(u)'
    BY DEF EventsNotStale, NotStale
  <2>1. CASE u = s
    BY <2>1
  <2>2. CASE u # s
    <3>1. NotStale(u) /\ u \in Sinks
      BY TcpAssumption DEF IInv, EventsNotStale, NotStale
    <3>2. /\ edge'[u] = edge[u] /\ events'[u] = events[u] /\ queue'[u] = queue[u]
          /\ client' = client /\ \A f \in Fds : fds'[u][f] = fds[u][f]
      BY <2>2, <3>1
    <3>3. \A f \in edge[u] \cup {events[u][k] : k \in 1 .. Len(events[u])} :
              f # ListenFd => f \in Fds
      BY EventFd
    <3> QED BY <3>1, <3>2, <3>3 DEF NotStale
  <2> QED BY <2>1, <2>2
<1> QED BY <1>1, <1>2, <1>3, <1>4, Whole

LEMMA ExitIInv == ASSUME IInv, NEW s \in Sinks, SinkExit(s) PROVE IInv'
<1>1. /\ SinkTypes /\ EventTypes /\ spc' = [spc EXCEPT ![s] = "exit"] /\ si' = si
      /\ edge' = [edge EXCEPT ![s] = {}] /\ events' = [events EXCEPT ![s] = <<>>]
      /\ UNCHANGED <<clientVars, client>>
  BY Parts DEF SinkExit
<1>2. /\ ConnTypes' /\ ConnInv'
      /\ \A u \in Sinks, f \in Fds : fds'[u][f] = IF u = s THEN NoConn ELSE fds[u][f]
      /\ \A u \in Sinks : queue'[u] = IF u = s THEN <<>> ELSE queue[u]
  BY ExitEffect, ExitConn
<1>3. SinkTypes'
  BY <1>1 DEF SinkTypes
<1>4. EventTypes'
  <2>1. <<>> \in Seq(Fds \cup {ListenFd})
    BY EmptySeq
  <2> QED BY <1>1, <2>1 DEF EventTypes
<1>5. \A u \in Sinks \ {s} : /\ spc'[u] = spc[u] /\ edge'[u] = edge[u]
                             /\ events'[u] = events[u] /\ queue'[u] = queue[u]
                             /\ \A f \in Fds : fds'[u][f] = fds[u][f]
  BY <1>1, <1>2 DEF SinkTypes, EventTypes
<1>6. spc'[s] = "exit" /\ edge'[s] = {} /\ events'[s] = <<>> /\ Len(events'[s]) = 0
  BY <1>1 DEF SinkTypes, EventTypes
<1>7. Once(s)' /\ NotStale(s)'
  <2>1. \A k \in 1 .. Len(events'[s]) : FALSE
    BY <1>6
  <2> QED BY <1>6, <2>1 DEF Once, NotStale
<1>8. Single(s)'
  BY <1>2, <1>6 DEF Single
<1> QED BY <1>1, <1>2, <1>3, <1>4, <1>5, <1>7, <1>8, SinkFrame

LEMMA PlainAcceptIInv == ASSUME IInv, NEW s \in Sinks, PlainAccept(s) PROVE IInv'
<1>1. /\ SinkTypes /\ EventTypes /\ s \notin EpollSinks /\ spc[s] = "wait" /\ si[s] <= SinkCount
      /\ Accept(s) /\ spc' = [spc EXCEPT ![s] = "close"]
      /\ UNCHANGED <<clientVars, client, edge, si, events>>
  BY Parts DEF PlainAccept, InLoop
<1>2. /\ ConnTypes' /\ FreeFd(s) \in Fds /\ Head(queue[s]) \in Conns
      /\ \A u \in Sinks, f \in Fds :
            fds'[u][f] = IF u = s /\ f = FreeFd(s) THEN Head(queue[s]) ELSE fds[u][f]
      /\ \A u \in Sinks : queue'[u] = IF u = s THEN Tail(queue[s]) ELSE queue[u]
  BY <1>1, AcceptEffect
<1>3. ConnInv'
  BY <1>1, AcceptConn DEF clientVars
<1>4. SinkTypes' /\ EventTypes'
  BY <1>1 DEF SinkTypes, EventTypes
<1>5. \A u \in Sinks \ {s} : /\ spc'[u] = spc[u] /\ edge'[u] = edge[u]
                             /\ events'[u] = events[u] /\ queue'[u] = queue[u]
                             /\ \A f \in Fds : fds'[u][f] = fds[u][f]
  BY <1>1, <1>2 DEF SinkTypes
<1>6. Single(s)'
  <2>1. spc'[s] = "close"
    BY <1>1 DEF SinkTypes
  <2>2. \A f \in Fds : fds[s][f] = NoConn
    BY <1>1 DEF IInv, OneAtATime
  <2>3. \A f \in Fds : fds'[s][f] # NoConn <=> f = FreeFd(s)
    BY <1>2, <2>2, ConnsFacts
  <2> QED BY <1>2, <2>1, <2>3 DEF Single
<1> QED BY <1>1, <1>2, <1>3, <1>4, <1>5, <1>6, SinkFrame

LEMMA PlainCloseIInv == ASSUME IInv, NEW s \in Sinks, PlainClose(s) PROVE IInv'
<1>1. /\ SinkTypes /\ EventTypes /\ s \notin EpollSinks /\ spc[s] = "close"
      /\ si' = [si EXCEPT ![s] = si[s] + 1] /\ spc' = [spc EXCEPT ![s] = "wait"]
      /\ UNCHANGED <<clientVars, client, edge, queue, events>>
  BY Parts DEF PlainClose
<1>2. PICK g \in Fds : fds[s][g] # NoConn /\ Close(s, g)
  BY DEF PlainClose
<1>3. /\ ConnTypes' /\ ConnInv'
      /\ \A u \in Sinks, f \in Fds :
            fds'[u][f] = IF u = s /\ f = g THEN NoConn ELSE fds[u][f]
  BY <1>1, <1>2, CloseEffect, CloseConn DEF clientVars
<1>4. SinkTypes' /\ EventTypes'
  BY <1>1, TcpAssumption DEF SinkTypes, EventTypes
<1>5. \A u \in Sinks \ {s} : /\ spc'[u] = spc[u] /\ edge'[u] = edge[u]
                             /\ events'[u] = events[u] /\ queue'[u] = queue[u]
                             /\ \A f \in Fds : fds'[u][f] = fds[u][f]
  BY <1>1, <1>3 DEF SinkTypes
<1>6. Single(s)'
  <2>1. spc'[s] = "wait"
    BY <1>1 DEF SinkTypes
  <2>2. \E f \in Fds : \A h \in Fds : fds[s][h] # NoConn <=> h = f
    BY <1>1 DEF IInv, OneAtATime
  <2>3. \A h \in Fds : fds'[s][h] = NoConn
    BY <1>2, <1>3, <2>2
  <2> QED BY <2>1, <2>3 DEF Single
<1> QED BY <1>1, <1>3, <1>4, <1>5, <1>6, SinkFrame

(* Steps that only count.                                                  *)
LEMMA CountIInv ==
    ASSUME IInv, NEW s \in Sinks, PlainAcceptFails(s) \/ EpollNext(s)
    PROVE  IInv'
<1>1. /\ SinkTypes /\ EventTypes /\ ConnTypes /\ si' = [si EXCEPT ![s] = si[s] + 1]
      /\ si[s] <= SinkCount /\ spc' = [spc EXCEPT ![s] = "wait"]
      /\ spc[s] = (IF s \in EpollSinks THEN "handle" ELSE "wait")
      /\ UNCHANGED <<clientVars, client, server, edge, queue, fds, events>>
  BY Parts DEF PlainAcceptFails, EpollNext, InLoop, SinkTypes
<1>2. SinkTypes' /\ EventTypes' /\ ConnTypes'
  <2>1. SinkTypes'
    BY <1>1, TcpAssumption DEF SinkTypes
  <2> QED BY <1>1, <2>1 DEF EventTypes, ConnTypes
<1>3. ConnInv'
  BY <1>1 DEF IInv, ConnInv, Fresh, Owned, Queued, clientVars
<1>4. \A u \in Sinks \ {s} : /\ spc'[u] = spc[u] /\ edge'[u] = edge[u]
                             /\ events'[u] = events[u] /\ queue'[u] = queue[u]
                             /\ \A f \in Fds : fds'[u][f] = fds[u][f]
  BY <1>1 DEF SinkTypes
<1>5. s \in EpollSinks => Once(s)' /\ NotStale(s)'
  BY <1>1 DEF IInv, EachOnce, EventsNotStale, Once, NotStale
<1>6. s \notin EpollSinks => Single(s)'
  BY <1>1 DEF IInv, OneAtATime, Single, SinkTypes
<1> QED BY <1>1, <1>2, <1>3, <1>4, <1>5, <1>6, SinkFrame

LEMMA EpollWaitIInv == ASSUME IInv, NEW s \in Sinks, EpollWait(s) PROVE IInv'
<1> DEFINE n == IF Cardinality(Ready(s)) < MAX_EVENTS THEN Cardinality(Ready(s)) ELSE MAX_EVENTS
<1>1. /\ SinkTypes /\ EventTypes /\ ConnTypes
      /\ s \in EpollSinks /\ si[s] <= SinkCount /\ spc' = [spc EXCEPT ![s] = "handle"]
      /\ UNCHANGED <<clientVars, client, server, queue, si, fds>>
  BY Parts DEF EpollWait, InLoop
<1>2. PICK ev \in [1 .. n -> Ready(s)] :
          /\ \A a, b \in 1 .. n : ev[a] = ev[b] => a = b
          /\ events' = [events EXCEPT ![s] = ev]
          /\ edge' = [edge EXCEPT ![s] = edge[s] \ {ev[k] : k \in 1 .. n}]
  BY DEF EpollWait
<1>3. Ready(s) \subseteq Fds \cup {ListenFd}
  BY <1>1 DEF EventTypes, Ready
<1>4. n \in Nat
  <2>1. IsFiniteSet(Ready(s))
    BY <1>3, FdsFacts, FS_AddElement, FS_Subset
  <2>2. Cardinality(Ready(s)) \in Nat
    BY <2>1, FS_CardinalityType
  <2> QED BY <2>2, TcpAssumption
<1> HIDE DEF n
<1>5. ev \in Seq(Fds \cup {ListenFd}) /\ Len(ev) = n
  <2>1. ev \in [1 .. n -> Fds \cup {ListenFd}]
    BY <1>2, <1>3
  <2> QED BY <1>4, <2>1, SeqDef, LenProperties
<1>6. SinkTypes' /\ EventTypes' /\ ConnTypes'
  <2>1. SinkTypes'
    BY <1>1 DEF SinkTypes
  <2>2. EventTypes'
    BY <1>1, <1>2, <1>5 DEF EventTypes
  <2> QED BY <1>1, <2>1, <2>2 DEF ConnTypes
<1>7. ConnInv'
  BY <1>1 DEF IInv, ConnInv, Fresh, Owned, Queued, clientVars
<1>8. \A u \in Sinks \ {s} : /\ spc'[u] = spc[u] /\ edge'[u] = edge[u]
                             /\ events'[u] = events[u] /\ queue'[u] = queue[u]
                             /\ \A f \in Fds : fds'[u][f] = fds[u][f]
  BY <1>1, <1>2 DEF SinkTypes, EventTypes
<1>9. events'[s] = ev /\ edge'[s] \subseteq edge[s]
  BY <1>1, <1>2 DEF EventTypes
<1>10. Once(s)'
  BY <1>2, <1>5, <1>9 DEF Once
<1>11. NotStale(s)'
  <2>1. \A k \in 1 .. n : ev[k] \in Ready(s)
    BY <1>2
  <2>2. ASSUME NEW f \in edge'[s] \cup {ev[k] : k \in 1 .. n}, f # ListenFd
        PROVE  fds[s][f] # NoConn /\ client[fds[s][f]] = "closed"
    <3>1. f \in edge[s]
      BY <1>9, <2>1, <2>2 DEF Ready
    <3> QED BY <1>1, <2>2, <3>1 DEF IInv, EventsNotStale
  <2>3. ASSUME NEW k \in 1 .. n, ev[k] = ListenFd PROVE queue[s] # <<>>
    <3>1. edge[s] \subseteq Fds
      BY <1>1 DEF EventTypes
    <3> QED BY <2>1, <2>3, <3>1, FdsFacts DEF Ready
  <2> QED BY <1>1, <1>5, <1>9, <2>2, <2>3 DEF NotStale
<1> QED BY <1>1, <1>6, <1>7, <1>8, <1>10, <1>11, SinkFrame

(* The events left after the first one.                                    *)
LEMMA EventsTail ==
    ASSUME IInv, NEW s \in Sinks, Handling(s), events' = [events EXCEPT ![s] = Tail(@)]
    PROVE  /\ events'[s] = Tail(events[s]) /\ events' \in [Sinks -> Seq(Fds \cup {ListenFd})]
           /\ Head(events[s]) \in {events[s][k] : k \in 1 .. Len(events[s])}
           /\ Once(s)'
           /\ \A k \in 1 .. Len(events'[s]) :
                 /\ events'[s][k] \in {events[s][m] : m \in 1 .. Len(events[s])}
                 /\ events'[s][k] # Head(events[s])
<1>1. /\ events \in [Sinks -> Seq(Fds \cup {ListenFd})] /\ events[s] # <<>>
      /\ \A k, m \in 1 .. Len(events[s]) : events[s][k] = events[s][m] => k = m
  BY Parts DEF Handling, EventTypes, IInv, EachOnce
<1>2. PICK q \in Seq(Fds \cup {ListenFd}) : q = events[s]
  BY <1>1
<1>3. /\ Head(q) = q[1] /\ Tail(q) \in Seq(Fds \cup {ListenFd}) /\ Len(q) \in Nat \ {0}
      /\ Len(Tail(q)) = Len(q) - 1
      /\ \A k \in 1 .. Len(Tail(q)) : k + 1 \in 1 .. Len(q) /\ Tail(q)[k] = q[k + 1]
  BY <1>1, <1>2, TailElements
<1>4. events'[s] = Tail(q) /\ events' \in [Sinks -> Seq(Fds \cup {ListenFd})]
  BY <1>1, <1>2, <1>3
<1>5. 1 \in 1 .. Len(q)
  BY <1>3
<1>6. \A k, m \in 1 .. Len(q) : q[k] = q[m] => k = m
  BY <1>1, <1>2
<1>7. \A k \in 1 .. Len(Tail(q)) : k + 1 # 1
  BY <1>3
<1>8. Once(s)'
  <2>1. ASSUME NEW k \in 1 .. Len(Tail(q)), NEW m \in 1 .. Len(Tail(q)),
               Tail(q)[k] = Tail(q)[m]
        PROVE  k = m
    <3>1. k + 1 = m + 1
      BY <1>3, <1>6, <2>1
    <3> QED BY <3>1
  <2>2. PICK r : r = Tail(q)
    OBVIOUS
  <2>3. events'[s] = r /\ \A k, m \in 1 .. Len(r) : r[k] = r[m] => k = m
    BY ONLY <1>4, <2>1, <2>2
  <2>4. \A k, m \in 1 .. Len(events'[s]) : events'[s][k] = events'[s][m] => k = m
    BY ONLY <2>3
  <2> QED BY <2>4 DEF Once
<1>9. ASSUME NEW k \in 1 .. Len(Tail(q))
      PROVE  Tail(q)[k] \in {q[m] : m \in 1 .. Len(q)} /\ Tail(q)[k] # Head(q)
  BY <1>3, <1>5, <1>6, <1>7
<1> QED BY <1>2, <1>3, <1>4, <1>5, <1>8, <1>9

LEMMA EpollAcceptIInv == ASSUME IInv, NEW s \in Sinks, EpollAccept(s) PROVE IInv'
<1>1. /\ SinkTypes /\ EventTypes /\ ConnTypes /\ Handling(s) /\ s \in EpollSinks
      /\ Head(events[s]) = ListenFd /\ Accept(s)
      /\ edge' = [edge EXCEPT ![s] =
                    IF client[Head(queue[s])] = "closed" THEN edge[s] \cup {FreeFd(s)} ELSE edge[s]]
      /\ events' = [events EXCEPT ![s] = Tail(@)]
      /\ UNCHANGED <<clientVars, client, spc, si>>
  BY Parts DEF EpollAccept, Handling
<1>2. PICK g, x : g = FreeFd(s) /\ x = Head(queue[s])
  OBVIOUS
<1>3. /\ ConnTypes' /\ g \in Fds /\ x \in Conns /\ fds[s][g] = NoConn
      /\ \A u \in Sinks, f \in Fds :
            fds'[u][f] = IF u = s /\ f = g THEN x ELSE fds[u][f]
      /\ \A u \in Sinks : queue'[u] = IF u = s THEN Tail(queue[s]) ELSE queue[u]
  BY <1>1, <1>2, AcceptEffect
<1>4. ConnInv'
  BY <1>1, AcceptConn DEF clientVars
<1>5. /\ events' \in [Sinks -> Seq(Fds \cup {ListenFd})] /\ Once(s)'
      /\ \A k \in 1 .. Len(events'[s]) :
            /\ events'[s][k] \in {events[s][m] : m \in 1 .. Len(events[s])}
            /\ events'[s][k] # ListenFd
  BY <1>1, EventsTail
<1>6. /\ edge' \in [Sinks -> SUBSET Fds]
      /\ \A u \in Sinks \ {s} : edge'[u] = edge[u]
      /\ \A f \in edge'[s] : f \in edge[s] \/ (f = g /\ client[x] = "closed")
  BY <1>1, <1>2, <1>3 DEF EventTypes
<1>7. SinkTypes' /\ EventTypes'
  BY <1>1, <1>5, <1>6 DEF SinkTypes, EventTypes
<1>8. \A u \in Sinks \ {s} : /\ spc'[u] = spc[u] /\ edge'[u] = edge[u]
                             /\ events'[u] = events[u] /\ queue'[u] = queue[u]
                             /\ \A f \in Fds : fds'[u][f] = fds[u][f]
  BY <1>1, <1>3, <1>6 DEF SinkTypes, EventTypes
<1>9. NotStale(s)'
  <2>1. ASSUME NEW f \in edge'[s] \cup {events'[s][k] : k \in 1 .. Len(events'[s])}, f # ListenFd
        PROVE  fds'[s][f] # NoConn /\ client'[fds'[s][f]] = "closed"
    <3>1. CASE f = g /\ client[x] = "closed"
      <4>1. fds'[s][f] = x
        BY <1>3, <3>1
      <4> QED BY <1>1, <1>3, <3>1, <4>1, ConnsFacts
    <3>2. CASE f \in edge[s] \cup {events[s][k] : k \in 1 .. Len(events[s])}
      <4>1. fds[s][f] # NoConn /\ client[fds[s][f]] = "closed"
        BY <1>1, <2>1, <3>2 DEF IInv, EventsNotStale
      <4>2. f \in Fds
        BY <1>1, <2>1, <3>2, EventFd
      <4>3. fds'[s][f] = fds[s][f]
        BY <1>3, <4>1, <4>2
      <4> QED BY <1>1, <4>1, <4>3
    <3> QED BY <1>5, <1>6, <2>1, <3>1, <3>2
  <2> QED BY <1>5, <2>1 DEF NotStale
<1> QED BY <1>1, <1>3, <1>4, <1>5, <1>7, <1>8, <1>9, SinkFrame

LEMMA EpollCloseIInv == ASSUME IInv, NEW s \in Sinks, EpollClose(s) PROVE IInv'
<1>1. PICK g : g = Head(events[s])
  OBVIOUS
<1>2. /\ SinkTypes /\ EventTypes /\ ConnTypes /\ Handling(s) /\ s \in EpollSinks
      /\ g # ListenFd /\ Close(s, g)
      /\ edge' = [edge EXCEPT ![s] = edge[s] \ {g}]
      /\ events' = [events EXCEPT ![s] = Tail(@)]
      /\ UNCHANGED <<clientVars, client, queue, spc, si>>
  BY <1>1, Parts DEF EpollClose, Handling
<1>3. /\ events' \in [Sinks -> Seq(Fds \cup {ListenFd})] /\ Once(s)'
      /\ g \in {events[s][k] : k \in 1 .. Len(events[s])}
      /\ \A k \in 1 .. Len(events'[s]) :
            /\ events'[s][k] \in {events[s][m] : m \in 1 .. Len(events[s])}
            /\ events'[s][k] # g
  BY <1>1, <1>2, EventsTail
<1>4. g \in Fds /\ fds[s][g] # NoConn
  <2>1. g \in Fds
    BY <1>2, <1>3, EventFd
  <2> QED BY <1>2, <1>3, <2>1 DEF IInv, EventsNotStale
<1>5. /\ ConnTypes' /\ ConnInv'
      /\ \A u \in Sinks, f \in Fds :
            fds'[u][f] = IF u = s /\ f = g THEN NoConn ELSE fds[u][f]
  BY <1>2, <1>4, CloseEffect, CloseConn DEF clientVars
<1>6. /\ edge' \in [Sinks -> SUBSET Fds]
      /\ \A u \in Sinks \ {s} : edge'[u] = edge[u]
      /\ edge'[s] = edge[s] \ {g}
  BY <1>2 DEF EventTypes
<1>7. SinkTypes' /\ EventTypes'
  BY <1>2, <1>3, <1>6 DEF SinkTypes, EventTypes
<1>8. \A u \in Sinks \ {s} : /\ spc'[u] = spc[u] /\ edge'[u] = edge[u]
                             /\ events'[u] = events[u] /\ queue'[u] = queue[u]
                             /\ \A f \in Fds : fds'[u][f] = fds[u][f]
  BY <1>2, <1>5, <1>6 DEF SinkTypes, EventTypes
<1>9. NotStale(s)'
  <2>1. ASSUME NEW f \in edge'[s] \cup {events'[s][k] : k \in 1 .. Len(events'[s])}, f # ListenFd
        PROVE  fds'[s][f] # NoConn /\ client'[fds'[s][f]] = "closed"
    <3>1. f \in edge[s] \cup {events[s][k] : k \in 1 .. Len(events[s])} /\ f # g
      BY <1>3, <1>6, <2>1
    <3>2. fds[s][f] # NoConn /\ client[fds[s][f]] = "closed"
      BY <1>2, <2>1, <3>1 DEF IInv, EventsNotStale
    <3>3. f \in Fds
      BY <1>2, <2>1, <3>1, EventFd
    <3>4. fds'[s][f] = fds[s][f]
      BY <1>5, <3>1, <3>3
    <3> QED BY <1>2, <3>2, <3>4
  <2>2. ASSUME NEW k \in 1 .. Len(events'[s]), events'[s][k] = ListenFd
        PROVE  queue[s] # <<>>
    <3>1. PICK m \in 1 .. Len(events[s]) : events[s][m] = ListenFd
      BY <1>3, <2>2
    <3> QED BY <1>2, <3>1 DEF IInv, EventsNotStale
  <2> QED BY <1>2, <2>1, <2>2 DEF NotStale
<1> QED BY <1>2, <1>3, <1>5, <1>7, <1>8, <1>9, SinkFrame

-----------------------------------------------------------------------------
(* The invariant, and what it implies.                                     *)

LEMMA NextIInv == ASSUME IInv, [Next]_vars PROVE IInv'
<1>1. ASSUME NEW c \in Clients, ClientStep(c) PROVE IInv'
  <2>1. CASE ClientLoop(c)
    BY <2>1, ClientLoopIInv
  <2>2. CASE ClientClose(c)
    BY <2>2, ClientCloseIInv
  <2>3. CASE \E s \in Sinks : ConnectOk(c, s)
    BY <2>3, ConnectOkIInv
  <2>4. CASE \E errno \in ConnectErrors(c) : ConnectError(c, errno)
    BY <2>4, ConnectErrorIInv
  <2> QED BY <1>1, <2>1, <2>2, <2>3, <2>4 DEF ClientStep
<1>2. ASSUME NEW s \in Sinks, SinkStep(s) PROVE IInv'
  <2>1. CASE PlainAccept(s)
    BY <2>1, PlainAcceptIInv
  <2>2. CASE PlainClose(s)
    BY <2>2, PlainCloseIInv
  <2>3. CASE EpollWait(s)
    BY <2>3, EpollWaitIInv
  <2>4. CASE EpollAccept(s)
    BY <2>4, EpollAcceptIInv
  <2>5. CASE EpollClose(s)
    BY <2>5, EpollCloseIInv
  <2>6. CASE EpollNext(s)
    BY <2>6, CountIInv
  <2>7. CASE SinkReturns(s)
    BY <2>7, ExitIInv DEF SinkReturns
  <2> QED BY <1>2, <2>1, <2>2, <2>3, <2>4, <2>5, <2>6, <2>7 DEF SinkStep
<1>3. CASE Failure
  <2>1. ASSUME NEW s \in Sinks, PlainAcceptFails(s) \/ EpollFails(s) PROVE IInv'
    BY <2>1, CountIInv, ExitIInv DEF EpollFails
  <2>2. ASSUME NEW c \in Clients, SetupFails(c) \/ ClientCloseFails(c) PROVE IInv'
    BY <2>2, SetupFailsIInv, ClientCloseFailsIInv
  <2> QED BY <1>3, <2>1, <2>2 DEF Failure
<1>4. CASE UNCHANGED vars
  <2>1. UNCHANGED <<cpc, ci, retries, client, server, queue, edge, spc, si, fds, events>>
    BY <1>4 DEF vars, clientVars, sinkVars
  <2>2. TypeOK' /\ Shape'
    BY <2>1 DEF IInv, TypeOK, Shape
  <2>3. Fresh' /\ Owned' /\ Queued'
    BY <2>1 DEF IInv, Fresh, Owned, Queued
  <2>4. OneAtATime' /\ EachOnce' /\ EventsNotStale'
    BY <2>1 DEF IInv, OneAtATime, EachOnce, EventsNotStale
  <2> QED BY <2>2, <2>3, <2>4 DEF IInv
<1> QED BY <1>1, <1>2, <1>3, <1>4 DEF Next, Quiet

(* Whatever clients and sinks do, and in whatever order: descriptors and   *)
(* open connections are one to one, a connection waits in one queue, and   *)
(* the events in hand are true.                                            *)
THEOREM Inductive == Spec => []IInv
<1>1. IInv /\ [Next]_vars => IInv'
  BY NextIInv
<1> QED BY <1>1, InitIInv, PTL DEF Spec

(* Every variable of clients and sinks keeps its type: no counter passes   *)
(* the end of its loop, and no descriptor is written outside the table.    *)
THEOREM TypeCorrect == Spec => []TypeOK
<1>1. IInv => TypeOK
  BY DEF IInv
<1> QED BY <1>1, Inductive, PTL

(* An event that epoll_wait() has returned is still true when the loop     *)
(* handles it: the descriptor belongs to the connection the client has     *)
(* closed, and the blocking accept4() finds a connection.                  *)
THEOREM EventsAreNotStale == Spec => []EventsNotStale
<1>1. IInv => EventsNotStale
  BY DEF IInv
<1> QED BY <1>1, Inductive, PTL

LEMMA ExactFromOwned == IInv => DescriptorsExact
<1> SUFFICES ASSUME IInv PROVE DescriptorsExact
  OBVIOUS
<1>1. ASSUME NEW x \in Conns
      PROVE  Cardinality({sf \in Sinks \X Fds : fds[sf[1]][sf[2]] = x})
                 = (IF server[x] = "open" THEN 1 ELSE 0)
  <2> DEFINE T == {sf \in Sinks \X Fds : fds[sf[1]][sf[2]] = x}
  <2>1. x # NoConn
    BY ConnsFacts
  <2>2. \A sf \in T : sf = <<sf[1], sf[2]>> /\ sf[1] \in Sinks /\ sf[2] \in Fds
                     /\ fds[sf[1]][sf[2]] = x
    OBVIOUS
  <2>3. CASE server[x] = "open"
    <3>1. PICK s \in Sinks, f \in Fds : fds[s][f] = x
      BY <2>3 DEF IInv, Owned
    <3>2. <<s, f>> \in T
      BY <3>1
    <3>3. ASSUME NEW sf \in T PROVE sf = <<s, f>>
      <4>1. sf[1] = s /\ sf[2] = f
        BY <2>1, <2>2, <3>1 DEF IInv, Owned
      <4> QED BY <2>2, <4>1
    <3> HIDE DEF T
    <3>4. T = {<<s, f>>}
      BY <3>2, <3>3
    <3>5. Cardinality(T) = 1
      BY <3>4, FS_Singleton
    <3> QED BY <2>3, <3>5 DEF T
  <2>4. CASE server[x] # "open"
    <3>1. T = {}
      BY <2>1, <2>2, <2>4 DEF IInv, Owned
    <3> HIDE DEF T
    <3>2. Cardinality(T) = 0
      BY <3>1, FS_EmptySet
    <3> QED BY <2>4, <3>2 DEF T
  <2> QED BY <2>3, <2>4
<1>2. ASSUME NEW s \in Sinks \ EpollSinks
      PROVE  Cardinality({f \in Fds : fds[s][f] # NoConn}) = (IF spc[s] = "close" THEN 1 ELSE 0)
  <2> DEFINE T == {f \in Fds : fds[s][f] # NoConn}
  <2>1. CASE spc[s] = "close"
    <3>1. PICK f \in Fds : \A g \in Fds : fds[s][g] # NoConn <=> g = f
      BY <2>1 DEF IInv, OneAtATime
    <3>2. T = {f}
      BY <3>1
    <3> HIDE DEF T
    <3>3. Cardinality(T) = 1
      BY <3>2, FS_Singleton
    <3> QED BY <2>1, <3>3 DEF T
  <2>2. CASE spc[s] # "close"
    <3>1. T = {}
      BY <2>2 DEF IInv, OneAtATime
    <3> HIDE DEF T
    <3>2. Cardinality(T) = 0
      BY <3>1, FS_EmptySet
    <3> QED BY <2>2, <3>2 DEF T
  <2> QED BY <2>1, <2>2
<1> QED BY <1>1, <1>2 DEF DescriptorsExact

(* A connection the sinks have open is behind exactly one descriptor of    *)
(* one sink, and a sink without epoll has one descriptor between accept()  *)
(* and close() and none otherwise: close() leaks nothing and closes        *)
(* nothing twice, for any number of clients, sinks and connections.        *)
THEOREM DescriptorsAreExact == Spec => []DescriptorsExact
<1> QED BY ExactFromOwned, Inductive, PTL
=============================================================================
