---------------------------- MODULE MpRqProofs ----------------------------
EXTENDS MpRq, TLAPS

(* No descriptor appears from nowhere: those posted at start-up are in the *)
(* ring, completed, in main()'s hands or lost.                             *)
Conserved ==
    /\ n = Len(rq) + Len(cq) + Len(wc) + lost
    /\ pc = "repost" => Len(wc) = 1
    /\ pc # "exit" /\ pc # "repost" => Len(wc) = 0

IInv == TypeOK /\ Conserved /\ NoOverrun /\ OwnBuffer

LEMMA TailFacts ==
    ASSUME NEW S, NEW s \in Seq(S), s # <<>>
    PROVE  /\ Tail(s) \in Seq(S) /\ Head(s) \in S
           /\ Len(s) \in Nat \ {0} /\ Len(Tail(s)) = Len(s) - 1
           /\ \A k \in 1 .. Len(Tail(s)) : Tail(s)[k] = s[k + 1]
  OBVIOUS

LEMMA AppendFacts ==
    ASSUME NEW S, NEW s \in Seq(S), NEW e \in S
    PROVE  /\ Append(s, e) \in Seq(S) /\ Len(Append(s, e)) = Len(s) + 1
           /\ \A k \in 1 .. Len(s) : Append(s, e)[k] = s[k]
           /\ Append(s, e)[Len(s) + 1] = e
  OBVIOUS

LEMMA ElementFact == ASSUME NEW S, NEW s \in Seq(S), NEW k \in 1 .. Len(s) PROVE s[k] \in S
  OBVIOUS

LEMMA Lengths ==
    ASSUME TypeOK
    PROVE  /\ Len(rq) \in Nat /\ Len(cq) \in Nat /\ Len(wc) \in Nat /\ lost \in Nat
           /\ n \in 0 .. RQ_NUM_DESC /\ RQ_NUM_DESC \in Nat
  BY RingAssumption DEF TypeOK

(* A descriptor is posted, or lost, at start-up and from main()'s hands.   *)
LEMMA OneMore ==
    ASSUME NEW r \in Nat, NEW q \in Nat, NEW w \in Nat, NEW l \in Nat
    PROVE  /\ (r + 1) + q + w + l = r + q + w + l + 1
           /\ r + q + w + (l + 1) = r + q + w + l + 1
  OBVIOUS

LEMMA OneBack ==
    ASSUME NEW r \in Nat, NEW q \in Nat, NEW l \in Nat
    PROVE  /\ (r + 1) + q + 0 + l = r + q + 1 + l
           /\ r + q + 0 + (l + 1) = r + q + 1 + l
  OBVIOUS

LEMMA InitIInv == ASSUME Init PROVE IInv
<1>1. flow \in BOOLEAN /\ overrun \in BOOLEAN /\ ~overrun
  BY Zenon DEF Init
<1>2. Len(<<>>) = 0
  OBVIOUS
<1>3. TypeOK
  BY <1>1, RingAssumption DEF Init, TypeOK
<1>4. Conserved
  BY <1>2 DEF Init, Conserved
<1>5. OwnBuffer
  BY <1>2 DEF Init, OwnBuffer
<1> QED BY <1>1, <1>3, <1>4, <1>5 DEF IInv, NoOverrun

(* Posting a descriptor that points to its own buffer.                     *)
LEMMA PostRecvLemma ==
    ASSUME TypeOK, OwnBuffer, NEW id \in Ids, NEW at \in Nat, at = id * ENTRY_SIZE,
           PostRecv(id, at)
    PROVE  /\ rq' \in Seq([id : Ids, addr : Nat]) /\ lost' \in Nat
           /\ \/ Len(rq') = Len(rq) + 1 /\ lost' = lost
              \/ Len(rq') = Len(rq) /\ lost' = lost + 1
           /\ OwnBuffer'
<1>1. rq \in Seq([id : Ids, addr : Nat]) /\ lost \in Nat /\ Len(rq) \in Nat
  BY DEF TypeOK
<1>2. CASE rq' = Append(rq, [id |-> id, addr |-> at]) /\ lost' = lost
  <2> DEFINE e == [id |-> id, addr |-> at]
  <2>1. e \in [id : Ids, addr : Nat] /\ e.addr = e.id * ENTRY_SIZE
    OBVIOUS
  <2> HIDE DEF e
  <2>2. rq' = Append(rq, e)
    BY <1>2 DEF e
  <2>3. rq' \in Seq([id : Ids, addr : Nat]) /\ Len(rq') = Len(rq) + 1
    BY <1>1, <2>1, <2>2, AppendFacts
  <2>4. \A k \in 1 .. Len(rq) + 1 : rq'[k].addr = rq'[k].id * ENTRY_SIZE
    <3> TAKE k \in 1 .. Len(rq) + 1
    <3>1. CASE k = Len(rq) + 1
      BY <3>1, <1>1, <2>1, <2>2, AppendFacts
    <3>2. CASE k \in 1 .. Len(rq)
      <4>1. rq'[k] = rq[k]
        BY <3>2, <1>1, <2>1, <2>2, AppendFacts
      <4> QED BY <3>2, <4>1 DEF OwnBuffer
    <3> QED BY <3>1, <3>2, <1>1
  <2> QED BY <1>1, <1>2, <2>3, <2>4 DEF OwnBuffer
<1>3. CASE rq' = rq /\ lost' = lost + 1
  BY <1>1, <1>3 DEF OwnBuffer
<1> QED BY <1>2, <1>3 DEF PostRecv

LEMMA SetupIInv ==
    ASSUME IInv,
           OpenDevice \/ ModifyInit \/ ModifyRtr \/ AllocBuffers \/ CreateFlow \/ PollError
    PROVE  IInv'
<1>1. UNCHANGED <<n, wr_id, addr, wc, lost, rq, cq, overrun>>
  BY DEF OpenDevice, AllocBuffers, Checked, ModifyInit, ModifyRtr, ModifyQp, CreateFlow,
         PollError, nicVars
<1>2. flow' \in BOOLEAN
  <2>1. CASE UNCHANGED flow
    BY <2>1 DEF IInv, TypeOK
  <2>2. CASE CreateFlow
    BY <2>2, Zenon DEF CreateFlow, IInv, TypeOK
  <2> QED BY <2>1, <2>2 DEF OpenDevice, AllocBuffers, Checked, ModifyInit, ModifyRtr,
                            ModifyQp, PollError, nicVars
<1>3. /\ pc' \in {"modify_init", "modify_rtr", "alloc", "post", "poll", "exit"} /\ pc # "exit" /\ pc # "repost"
      /\ qp_state' \in {"RESET", "INIT", "RTR", "ERR"}
  BY DEF OpenDevice, AllocBuffers, Checked, ModifyInit, ModifyRtr, ModifyQp, CreateFlow,
         PollError, nicVars, IInv, TypeOK
<1>4. TypeOK'
  BY <1>1, <1>2, <1>3 DEF IInv, TypeOK
<1>5. Conserved' /\ NoOverrun' /\ OwnBuffer'
  BY <1>1, <1>3 DEF IInv, Conserved, NoOverrun, OwnBuffer
<1> QED BY <1>4, <1>5 DEF IInv

LEMMA PostInitialIInv == ASSUME IInv, PostInitial PROVE IInv'
<1>1. TypeOK /\ OwnBuffer /\ Conserved /\ NoOverrun /\ pc = "post"
  BY DEF IInv, PostInitial
<1>2. UNCHANGED <<wc, qp_state, flow, cq, overrun>>
  BY DEF PostInitial
<1>3. CASE n < RQ_NUM_DESC
  <2>1. addr' = ENTRY_SIZE * n /\ wr_id' = n /\ PostRecv(wr_id', addr') /\ n' = n + 1 /\ pc' = pc
    BY <1>3 DEF PostInitial
  <2>2. wr_id' \in Ids /\ addr' \in Nat /\ addr' = wr_id' * ENTRY_SIZE
    BY <1>1, <1>3, <2>1, RingAssumption DEF TypeOK, Ids
  <2>3. /\ rq' \in Seq([id : Ids, addr : Nat]) /\ lost' \in Nat
        /\ \/ Len(rq') = Len(rq) + 1 /\ lost' = lost
           \/ Len(rq') = Len(rq) /\ lost' = lost + 1
        /\ OwnBuffer'
    BY <1>1, <2>1, <2>2, PostRecvLemma
  <2>4. n' \in 0 .. RQ_NUM_DESC /\ wr_id' \in Nat
    BY <1>1, <1>3, <2>1, <2>2, Lengths DEF Ids
  <2>5. TypeOK'
    BY <1>1, <1>2, <2>1, <2>2, <2>3, <2>4 DEF TypeOK
  <2>6. Conserved'
    <3> DEFINE r == Len(rq) r2 == Len(rq') q == Len(cq) w == Len(wc)
    <3>1. r \in Nat /\ r2 \in Nat /\ q \in Nat /\ w \in Nat /\ lost \in Nat /\ lost' \in Nat
      BY <1>1, <2>3, Lengths
    <3>2. n = r + q + w + lost /\ w = 0
      BY <1>1 DEF Conserved
    <3>3. n' = n + 1 /\ Len(cq') = q /\ Len(wc') = w /\ pc' = pc
      BY <1>2, <2>1
    <3>4. (r2 = r + 1 /\ lost' = lost) \/ (r2 = r /\ lost' = lost + 1)
      BY <2>3
    <3> HIDE DEF r, r2, q, w
    <3>5. n' = r2 + q + w + lost'
      <4>1. n' = r + q + w + lost + 1
        BY <3>2, <3>3
      <4>2. CASE r2 = r + 1 /\ lost' = lost
        BY ONLY <3>1, <4>1, <4>2, OneMore
      <4>3. CASE r2 = r /\ lost' = lost + 1
        BY ONLY <3>1, <4>1, <4>3, OneMore
      <4> QED BY <3>4, <4>2, <4>3
    <3> USE DEF r, r2, q, w
    <3>6. n' = Len(rq') + Len(cq') + Len(wc') + lost'
      BY <3>3, <3>5
    <3> QED BY <1>1, <3>2, <3>3, <3>6 DEF Conserved
  <2> QED BY <1>1, <1>2, <2>3, <2>5, <2>6 DEF IInv, NoOverrun
<1>4. CASE ~(n < RQ_NUM_DESC)
  <2>1. pc' = "flow" /\ UNCHANGED <<addr, wr_id, n, rq, lost>>
    BY <1>4 DEF PostInitial
  <2>2. TypeOK'
    BY <1>1, <1>2, <2>1 DEF TypeOK
  <2> QED BY <1>1, <1>2, <2>1, <2>2 DEF IInv, Conserved, NoOverrun, OwnBuffer
<1> QED BY <1>3, <1>4

LEMMA PollIInv == ASSUME IInv, Poll PROVE IInv'
<1> DEFINE C == [id : Ids, status : {"received", "flushed"}]
<1>1. TypeOK /\ OwnBuffer /\ Conserved /\ NoOverrun /\ pc = "poll" /\ Len(wc) = 0
  BY DEF IInv, Poll, Conserved
<1>2. cq \in Seq(C) /\ cq # <<>> /\ wc' = <<Head(cq)>> /\ cq' = Tail(cq)
  BY <1>1 DEF TypeOK, Poll
<1>3. Head(cq) \in C /\ cq' \in Seq(C) /\ Len(cq) \in Nat \ {0} /\ Len(cq') = Len(cq) - 1
  BY <1>2, TailFacts
<1>4. wc' \in Seq(C) /\ Len(wc') = 1
  BY <1>2, <1>3
<1>5. pc' = "repost"
  BY <1>3 DEF Poll
<1>6. UNCHANGED <<n, wr_id, addr, lost, qp_state, flow, rq, overrun>>
  BY DEF Poll
<1>7. TypeOK'
  BY <1>1, <1>3, <1>4, <1>5, <1>6 DEF TypeOK
<1>8. Conserved'
  BY <1>1, <1>3, <1>4, <1>5, <1>6, Lengths DEF Conserved
<1> QED BY <1>1, <1>6, <1>7, <1>8 DEF IInv, NoOverrun, OwnBuffer

LEMMA RepostIInv == ASSUME IInv, Repost PROVE IInv'
<1>1. TypeOK /\ OwnBuffer /\ Conserved /\ NoOverrun /\ pc = "repost" /\ Len(wc) = 1
  BY DEF IInv, Repost, Conserved
<1>2. wc[1] \in [id : Ids, status : {"received", "flushed"}]
  <2>1. wc \in Seq([id : Ids, status : {"received", "flushed"}]) /\ 1 \in 1 .. Len(wc)
    BY <1>1 DEF TypeOK
  <2> QED BY <2>1, ElementFact
<1>3. wr_id' \in Ids /\ wr_id' \in Nat /\ addr' \in Nat /\ addr' = wr_id' * ENTRY_SIZE
  BY <1>2, RingAssumption DEF Repost, Ids
<1>4. PostRecv(wr_id', addr') /\ wc' = <<>> /\ pc' = "poll" /\ Len(<<>>) = 0
  BY DEF Repost
<1>5. /\ rq' \in Seq([id : Ids, addr : Nat]) /\ lost' \in Nat
      /\ \/ Len(rq') = Len(rq) + 1 /\ lost' = lost
         \/ Len(rq') = Len(rq) /\ lost' = lost + 1
      /\ OwnBuffer'
  BY <1>1, <1>3, <1>4, PostRecvLemma
<1>6. UNCHANGED <<n, qp_state, flow, cq, overrun>>
  BY DEF Repost
<1>7. Len(rq') \in Nat
  BY <1>5
<1>8. TypeOK'
  BY <1>1, <1>3, <1>4, <1>5, <1>6 DEF TypeOK
<1>9. Conserved'
  <2> DEFINE r == Len(rq) r2 == Len(rq') q == Len(cq)
  <2>1. r \in Nat /\ r2 \in Nat /\ q \in Nat /\ lost \in Nat /\ lost' \in Nat
    BY <1>1, <1>5, <1>7, Lengths
  <2>2. n = r + q + 1 + lost
    BY <1>1 DEF Conserved
  <2>3. n' = n /\ Len(cq') = q /\ Len(wc') = 0
    BY <1>4, <1>6
  <2>4. (r2 = r + 1 /\ lost' = lost) \/ (r2 = r /\ lost' = lost + 1)
    BY <1>5
  <2> HIDE DEF r, r2, q
  <2>5. n' = r2 + q + 0 + lost'
    <3>1. n' = r + q + 1 + lost
      BY <2>2, <2>3
    <3>2. CASE r2 = r + 1 /\ lost' = lost
      BY ONLY <2>1, <3>1, <3>2, OneBack
    <3>3. CASE r2 = r /\ lost' = lost + 1
      BY ONLY <2>1, <3>1, <3>3, OneBack
    <3> QED BY <2>4, <3>2, <3>3
  <2> USE DEF r, r2, q
  <2>6. n' = Len(rq') + Len(cq') + Len(wc') + lost'
    BY <2>3, <2>5
  <2> QED BY <1>4, <2>3, <2>6 DEF Conserved
<1> QED BY <1>1, <1>5, <1>6, <1>8, <1>9 DEF IInv, NoOverrun

(* The card: there is room in the completion queue because the descriptor  *)
(* it completes was itself counted in n.                                   *)
LEMMA CompleteIInv ==
    ASSUME IInv, NEW status \in {"received", "flushed"}, Complete(status), UNCHANGED qp_state
    PROVE  IInv'
<1> DEFINE C == [id : Ids, status : {"received", "flushed"}]
           D == [id : Ids, addr : Nat]
<1>1. TypeOK /\ OwnBuffer /\ Conserved /\ NoOverrun
  BY DEF IInv
<1>2. rq \in Seq(D) /\ rq # <<>> /\ rq' = Tail(rq) /\ cq \in Seq(C)
  BY <1>1 DEF TypeOK, Complete
<1>3. /\ Head(rq) \in D /\ rq' \in Seq(D) /\ Len(rq) \in Nat \ {0} /\ Len(rq') = Len(rq) - 1
      /\ \A k \in 1 .. Len(rq') : rq'[k] = rq[k + 1]
  BY <1>2, TailFacts
<1>4. Len(cq) < RQ_NUM_DESC
  BY <1>1, <1>3, Lengths DEF Conserved
<1>5. cq' = Append(cq, [id |-> Head(rq).id, status |-> status]) /\ UNCHANGED overrun
  BY <1>4 DEF Complete
<1>6. cq' \in Seq(C) /\ Len(cq') = Len(cq) + 1
  <2>1. [id |-> Head(rq).id, status |-> status] \in C
    BY <1>3
  <2> QED BY <2>1, <1>2, <1>5, AppendFacts
<1>7. UNCHANGED <<pc, n, wr_id, addr, wc, lost, flow, qp_state>>
  BY DEF Complete, progVars
<1>8. TypeOK'
  BY <1>1, <1>3, <1>5, <1>6, <1>7 DEF TypeOK
<1>9. Conserved'
  BY <1>1, <1>3, <1>6, <1>7, Lengths DEF Conserved
<1>10. OwnBuffer'
  <2> SUFFICES ASSUME NEW k \in 1 .. Len(rq')
               PROVE  rq'[k].addr = rq'[k].id * ENTRY_SIZE
    BY DEF OwnBuffer
  <2>1. k + 1 \in 1 .. Len(rq) /\ rq'[k] = rq[k + 1]
    BY <1>3
  <2> QED BY <1>1, <2>1 DEF OwnBuffer
<1> QED BY <1>1, <1>5, <1>8, <1>9, <1>10 DEF IInv, NoOverrun

-----------------------------------------------------------------------------
(* Descriptors are conserved between program, ring and completion queue,   *)
(* in every reachable state.                                               *)
THEOREM Inductive == Spec => []IInv
<1>1. Init => IInv
  BY InitIInv
<1>2. IInv /\ [Next]_vars => IInv'
  <2> SUFFICES ASSUME IInv, [Next]_vars PROVE IInv'
    OBVIOUS
  <2>1. CASE UNCHANGED vars
    <3>1. TypeOK'
      BY <2>1 DEF vars, progVars, nicVars, IInv, TypeOK
    <3>2. Conserved' /\ NoOverrun' /\ OwnBuffer'
      BY <2>1 DEF vars, progVars, nicVars, IInv, Conserved, NoOverrun, OwnBuffer
    <3> QED BY <3>1, <3>2 DEF IInv
  <2>2. CASE OpenDevice \/ ModifyInit \/ ModifyRtr \/ AllocBuffers \/ CreateFlow \/ PollError
    BY <2>2, SetupIInv
  <2>3. CASE PostInitial
    BY <2>3, PostInitialIInv
  <2>4. CASE Poll
    BY <2>4, PollIInv
  <2>5. CASE Repost
    BY <2>5, RepostIInv
  <2>6. CASE Receive
    BY <2>6, CompleteIInv DEF Receive
  <2>7. CASE Flush
    BY <2>7, CompleteIInv DEF Flush
  <2>8. CASE Fault
    <3>1. UNCHANGED <<pc, n, wr_id, addr, wc, lost, flow, rq, cq, overrun>>
          /\ qp_state' = "ERR"
      BY <2>8 DEF Fault, progVars
    <3>2. TypeOK'
      BY <3>1 DEF IInv, TypeOK
    <3> QED BY <3>1, <3>2 DEF IInv, Conserved, NoOverrun, OwnBuffer
  <2> QED BY <2>1, <2>2, <2>3, <2>4, <2>5, <2>6, <2>7, <2>8 DEF Next, Program, Card, Idle
<1> QED BY <1>1, <1>2, PTL DEF Spec

(* Types: identifiers of descriptors stay below RQ_NUM_DESC.               *)
THEOREM TypeCorrect == Spec => []TypeOK
<1>1. IInv => TypeOK
  BY DEF IInv
<1> QED BY <1>1, Inductive, PTL

(* No descriptor leaks: those posted at start-up are in the ring,          *)
(* completed or in main()'s hands, or a post of theirs has failed.         *)
THEOREM NothingLeaks == Spec => [](n = Len(rq) + Len(cq) + Len(wc) + lost)
<1>1. IInv => n = Len(rq) + Len(cq) + Len(wc) + lost
  BY DEF IInv, Conserved
<1> QED BY <1>1, Inductive, PTL

(* The completion queue, as long as the ring, never overruns.              *)
THEOREM RoomForCompletions == Spec => []NoOverrun
<1>1. IInv => NoOverrun
  BY DEF IInv
<1> QED BY <1>1, Inductive, PTL

(* Every descriptor in the ring points to its own buffer.                  *)
THEOREM BuffersAreOwn == Spec => []OwnBuffer
<1>1. IInv => OwnBuffer
  BY DEF IInv
<1> QED BY <1>1, Inductive, PTL

-----------------------------------------------------------------------------
(* Where the identifiers are.  Those handed out at start-up are below n;   *)
(* no two places hold the same one.                                        *)
Apart(s, u) == \A i \in 1 .. Len(s) : \A j \in 1 .. Len(u) : s[i].id # u[j].id

Once(s) == \A i, j \in 1 .. Len(s) : s[i].id = s[j].id => i = j

HandedOut(s) == \A i \in 1 .. Len(s) : s[i].id < n

Distinct ==
    /\ Once(rq) /\ Once(cq) /\ Len(wc) <= 1
    /\ Apart(rq, cq) /\ Apart(rq, wc) /\ Apart(cq, wc)
    /\ HandedOut(rq) /\ HandedOut(cq) /\ HandedOut(wc)

DInv == IInv /\ Distinct

(* An element of a sequence after Append is the new one or an old one.     *)
LEMMA AppendElement ==
    ASSUME NEW S, NEW s \in Seq(S), NEW e \in S, NEW k \in 1 .. Len(Append(s, e))
    PROVE  \/ k = Len(s) + 1 /\ Append(s, e)[k] = e
           \/ k \in 1 .. Len(s) /\ Append(s, e)[k] = s[k]
<1>1. Len(s) \in Nat /\ Len(Append(s, e)) = Len(s) + 1
  BY AppendFacts
<1>2. CASE k = Len(s) + 1
  BY <1>2, AppendFacts
<1>3. CASE k # Len(s) + 1
  <2>1. k \in 1 .. Len(s)
    BY <1>1, <1>3
  <2> QED BY <2>1, AppendFacts
<1> QED BY <1>2, <1>3

(* A descriptor whose identifier is nowhere in s may join s.               *)
LEMMA AppendOnce ==
    ASSUME NEW S, NEW s \in Seq(S), NEW e \in S, Once(s),
           \A k \in 1 .. Len(s) : s[k].id # e.id
    PROVE  Once(Append(s, e))
<1> DEFINE a == Append(s, e)
<1>1. \A k \in 1 .. Len(a) :
          (k = Len(s) + 1 /\ a[k] = e) \/ (k \in 1 .. Len(s) /\ a[k] = s[k])
  BY AppendElement
<1> HIDE DEF a
<1>2. Once(a)
  BY <1>1 DEF Once
<1> QED BY <1>2 DEF a

LEMMA AppendApart ==
    ASSUME NEW S, NEW s \in Seq(S), NEW e \in S, NEW u, Apart(s, u),
           \A k \in 1 .. Len(u) : u[k].id # e.id
    PROVE  Apart(Append(s, e), u)
<1> DEFINE a == Append(s, e)
<1>1. \A k \in 1 .. Len(a) :
          (k = Len(s) + 1 /\ a[k] = e) \/ (k \in 1 .. Len(s) /\ a[k] = s[k])
  BY AppendElement
<1> HIDE DEF a
<1>2. Apart(a, u)
  BY <1>1 DEF Apart
<1> QED BY <1>2 DEF a

LEMMA ApartSym == ASSUME NEW s, NEW u, Apart(s, u) PROVE Apart(u, s)
  BY DEF Apart

(* Taking the head: it is nowhere in the rest.                             *)
LEMMA TailOnce ==
    ASSUME NEW S, NEW s \in Seq(S), s # <<>>, Once(s)
    PROVE  /\ Once(Tail(s))
           /\ \A k \in 1 .. Len(Tail(s)) : Tail(s)[k].id # Head(s).id
<1> DEFINE u == Tail(s)
<1>1. /\ Len(s) \in Nat \ {0} /\ Len(u) = Len(s) - 1
      /\ \A k \in 1 .. Len(u) : u[k] = s[k + 1]
  BY TailFacts
<1>2. Head(s) = s[1]
  OBVIOUS
<1> HIDE DEF u
<1>3. \A k \in 1 .. Len(u) : k + 1 \in 1 .. Len(s) /\ 1 \in 1 .. Len(s) /\ k \in Int /\ k # 0
  BY <1>1
<1>4. Once(u)
  <2> SUFFICES ASSUME NEW i \in 1 .. Len(u), NEW j \in 1 .. Len(u), u[i].id = u[j].id
               PROVE  i = j
    BY DEF Once
  <2>1. i + 1 = j + 1
    BY <1>1, <1>3 DEF Once
  <2> QED BY <2>1, <1>3
<1>5. \A k \in 1 .. Len(u) : u[k].id # Head(s).id
  <2> SUFFICES ASSUME NEW k \in 1 .. Len(u), u[k].id = Head(s).id PROVE FALSE
    OBVIOUS
  <2>1. k + 1 = 1
    BY <1>1, <1>2, <1>3 DEF Once
  <2> QED BY <2>1, <1>3
<1> QED BY <1>4, <1>5 DEF u

LEMMA TailApart ==
    ASSUME NEW S, NEW s \in Seq(S), s # <<>>, NEW u, Apart(s, u)
    PROVE  /\ Apart(Tail(s), u)
           /\ \A k \in 1 .. Len(u) : u[k].id # Head(s).id
<1>1. /\ Len(s) \in Nat \ {0} /\ Len(Tail(s)) = Len(s) - 1
      /\ \A k \in 1 .. Len(Tail(s)) : Tail(s)[k] = s[k + 1]
  BY TailFacts
<1>2. Head(s) = s[1] /\ 1 \in 1 .. Len(s)
  BY <1>1
<1>3. \A k \in 1 .. Len(Tail(s)) : k + 1 \in 1 .. Len(s)
  BY <1>1
<1>4. Apart(Tail(s), u)
  BY <1>1, <1>3 DEF Apart
<1>5. \A k \in 1 .. Len(u) : u[k].id # Head(s).id
  BY <1>2 DEF Apart
<1> QED BY <1>4, <1>5

LEMMA InitDistinct == ASSUME Init PROVE Distinct
<1>1. Len(<<>>) = 0
  OBVIOUS
<1> QED BY <1>1 DEF Init, Distinct, Once, Apart, HandedOut

(* A descriptor that is nowhere is posted, or lost.                        *)
LEMMA PostRecvDistinct ==
    ASSUME TypeOK, NEW id \in Ids, NEW at \in Nat, PostRecv(id, at),
           Once(rq), Apart(rq, cq),
           \A k \in 1 .. Len(rq) : rq[k].id # id,
           \A k \in 1 .. Len(cq) : cq[k].id # id
    PROVE  /\ Once(rq') /\ Apart(rq', cq)
           /\ \A k \in 1 .. Len(rq') : rq'[k].id = id \/ (k \in 1 .. Len(rq) /\ rq'[k].id = rq[k].id)
<1> DEFINE D == [id : Ids, addr : Nat]
           e == [id |-> id, addr |-> at]
<1>1. rq \in Seq(D) /\ e \in D /\ e.id = id
  BY DEF TypeOK
<1> HIDE DEF e, D
<1>2. CASE rq' = Append(rq, e)
  BY <1>1, <1>2, AppendOnce, AppendApart, AppendElement
<1>3. CASE rq' = rq
  BY <1>3
<1> QED BY <1>2, <1>3 DEF PostRecv, e

LEMMA PostInitialDistinct == ASSUME DInv, PostInitial PROVE Distinct'
<1>1. /\ TypeOK /\ Distinct /\ UNCHANGED <<wc, cq>> /\ Len(wc) = 0 /\ n \in Nat
      /\ \A k \in 1 .. Len(rq) : rq[k].id \in Int /\ rq[k].id < n
      /\ \A k \in 1 .. Len(cq) : cq[k].id \in Int /\ cq[k].id < n
  <2>1. TypeOK /\ Distinct /\ UNCHANGED <<wc, cq>> /\ Len(wc) = 0 /\ n \in Nat
    BY RingAssumption DEF DInv, IInv, TypeOK, Conserved, PostInitial
  <2>2. /\ \A k \in 1 .. Len(rq) : rq[k] \in [id : Ids, addr : Nat]
        /\ \A k \in 1 .. Len(cq) : cq[k] \in [id : Ids, status : {"received", "flushed"}]
    BY <2>1, ElementFact DEF TypeOK
  <2>3. Ids \subseteq Int
    BY DEF Ids
  <2> QED BY <2>1, <2>2, <2>3 DEF Distinct, HandedOut
<1>2. CASE n < RQ_NUM_DESC
  <2>1. /\ addr' = ENTRY_SIZE * n /\ wr_id' = n /\ PostRecv(wr_id', addr') /\ n' = n + 1
        /\ n \in Ids /\ addr' \in Nat
    BY <1>1, <1>2, RingAssumption DEF PostInitial, Ids
  <2>2. PostRecv(n, addr')
    BY <2>1
  <2>3. /\ \A k \in 1 .. Len(rq) : rq[k].id # n
        /\ \A k \in 1 .. Len(cq) : cq[k].id # n
    BY <1>1
  <2>4. /\ Once(rq') /\ Apart(rq', cq)
        /\ \A k \in 1 .. Len(rq') : rq'[k].id = n \/ (k \in 1 .. Len(rq) /\ rq'[k].id = rq[k].id)
    BY <1>1, <2>1, <2>2, <2>3, PostRecvDistinct DEF Distinct
  <2>5. HandedOut(rq)' /\ HandedOut(cq)'
    BY <1>1, <2>1, <2>4 DEF HandedOut
  <2>6. /\ Apart(rq', wc) /\ HandedOut(wc)'
    BY <1>1 DEF Apart, HandedOut
  <2> QED BY <1>1, <2>4, <2>5, <2>6 DEF Distinct, Once, Apart
<1>3. CASE ~(n < RQ_NUM_DESC)
  <2>1. UNCHANGED <<rq, cq, wc, n>>
    BY <1>3 DEF PostInitial
  <2> QED BY <1>1, <2>1 DEF Distinct, Once, Apart, HandedOut
<1> QED BY <1>2, <1>3

LEMMA PollDistinct == ASSUME DInv, Poll PROVE Distinct'
<1> DEFINE C == [id : Ids, status : {"received", "flushed"}]
<1>1. /\ Distinct /\ cq \in Seq(C) /\ cq # <<>> /\ UNCHANGED <<rq, n>>
      /\ wc' = <<Head(cq)>> /\ cq' = Tail(cq)
  BY DEF DInv, IInv, TypeOK, Poll
<1> HIDE DEF C
<1>2. Len(wc') = 1 /\ wc'[1] = Head(cq) /\ Head(cq) = cq[1] /\ 1 \in 1 .. Len(cq)
  BY <1>1, TailFacts
<1>3. \A k \in 1 .. Len(wc') : wc'[k] = Head(cq)
  BY <1>2
<1>4. Once(cq') /\ \A k \in 1 .. Len(cq') : cq'[k].id # Head(cq).id
  BY <1>1, TailOnce DEF Distinct
<1>5. Apart(cq, rq)
  BY <1>1, ApartSym DEF Distinct
<1>6. Apart(cq', rq) /\ \A k \in 1 .. Len(rq) : rq[k].id # Head(cq).id
  BY <1>1, <1>5, TailApart
<1>7. Apart(rq, cq') /\ Apart(rq, wc') /\ Apart(cq', wc')
  BY <1>3, <1>4, <1>6 DEF Apart
<1>8. /\ \A k \in 1 .. Len(cq') : k + 1 \in 1 .. Len(cq) /\ cq'[k] = cq[k + 1]
  BY <1>1, TailFacts
<1>9. HandedOut(cq)' /\ HandedOut(wc)'
  BY <1>1, <1>2, <1>3, <1>8 DEF Distinct, HandedOut
<1> QED BY <1>1, <1>2, <1>4, <1>7, <1>9 DEF Distinct, Once, Apart, HandedOut

LEMMA RepostDistinct == ASSUME DInv, Repost PROVE Distinct'
<1>1. /\ TypeOK /\ Distinct /\ UNCHANGED <<cq, n>> /\ Len(wc) = 1 /\ wc' = <<>> /\ Len(wc') = 0
      /\ 1 \in 1 .. Len(wc)
  <2>1. TypeOK /\ Distinct /\ UNCHANGED <<cq, n>> /\ Len(wc) = 1 /\ wc' = <<>>
    BY DEF DInv, IInv, Conserved, Repost
  <2>2. Len(wc') = 0
    BY <2>1
  <2>3. 1 \in 1 .. Len(wc)
    BY <2>1
  <2> QED BY <2>1, <2>2, <2>3
<1>2. wc[1] \in [id : Ids, status : {"received", "flushed"}]
  BY <1>1, ElementFact DEF TypeOK
<1>3. /\ wc[1].id \in Ids /\ addr' = wc[1].id * ENTRY_SIZE /\ addr' \in Nat
      /\ PostRecv(wc[1].id, addr')
  BY <1>2, RingAssumption DEF Repost, Ids
<1>4. /\ \A k \in 1 .. Len(rq) : rq[k].id # wc[1].id
      /\ \A k \in 1 .. Len(cq) : cq[k].id # wc[1].id
      /\ wc[1].id < n
  BY <1>1 DEF Distinct, Apart, HandedOut
<1>5. /\ Once(rq') /\ Apart(rq', cq)
      /\ \A k \in 1 .. Len(rq') :
            rq'[k].id = wc[1].id \/ (k \in 1 .. Len(rq) /\ rq'[k].id = rq[k].id)
  BY <1>1, <1>3, <1>4, PostRecvDistinct DEF Distinct
<1>6. HandedOut(rq)'
  BY <1>1, <1>4, <1>5 DEF Distinct, HandedOut
<1>7. Apart(rq', wc') /\ Apart(cq, wc') /\ HandedOut(wc)'
  BY <1>1 DEF Apart, HandedOut
<1> QED BY <1>1, <1>5, <1>6, <1>7 DEF Distinct, Once, Apart, HandedOut

LEMMA CompleteDistinct ==
    ASSUME DInv, NEW status \in {"received", "flushed"}, Complete(status)
    PROVE  Distinct'
<1> DEFINE C == [id : Ids, status : {"received", "flushed"}]
           D == [id : Ids, addr : Nat]
           e == [id |-> Head(rq).id, status |-> status]
<1>1. /\ Distinct /\ rq \in Seq(D) /\ rq # <<>> /\ rq' = Tail(rq) /\ cq \in Seq(C)
      /\ UNCHANGED <<wc, n>>
  BY DEF DInv, IInv, TypeOK, Complete, progVars
<1>2. Head(rq) \in D /\ Head(rq) = rq[1] /\ 1 \in 1 .. Len(rq)
  <2> HIDE DEF D
  <2>1. Head(rq) \in D /\ Len(rq) \in Nat \ {0}
    BY <1>1, TailFacts
  <2> QED BY <2>1, <1>1
<1>3. e \in C /\ e.id = Head(rq).id
  BY <1>2
<1>4. cq' = Append(cq, e) \/ cq' = cq
  BY DEF Complete
<1> HIDE DEF C, D, e
<1>5. Once(rq') /\ \A k \in 1 .. Len(rq') : rq'[k].id # e.id
  BY <1>1, <1>3, TailOnce DEF Distinct
<1>6. Apart(rq', cq) /\ \A k \in 1 .. Len(cq) : cq[k].id # e.id
  BY <1>1, <1>3, TailApart DEF Distinct
<1>7. Apart(rq', wc) /\ \A k \in 1 .. Len(wc) : wc[k].id # e.id
  BY <1>1, <1>3, TailApart DEF Distinct
<1>8. /\ \A k \in 1 .. Len(rq') : k + 1 \in 1 .. Len(rq) /\ rq'[k] = rq[k + 1]
  BY <1>1, TailFacts
<1>9. HandedOut(rq)' /\ e.id < n
  BY <1>1, <1>2, <1>3, <1>8 DEF Distinct, HandedOut
<1>10. Once(cq') /\ Apart(cq', rq') /\ Apart(cq', wc) /\ HandedOut(cq)'
  <2>1. CASE cq' = cq
    <3>1. Apart(cq, rq')
      BY <1>6, ApartSym
    <3> QED BY <1>1, <2>1, <3>1 DEF Distinct, HandedOut
  <2>2. CASE cq' = Append(cq, e)
    <3>1. Once(cq')
      BY <1>1, <1>3, <1>6, <2>2, AppendOnce DEF Distinct
    <3>2. Apart(cq, rq')
      BY <1>6, ApartSym
    <3>3. Apart(cq', rq')
      BY <1>1, <1>3, <1>5, <2>2, <3>2, AppendApart
    <3>4. Apart(cq', wc)
      BY <1>1, <1>3, <1>7, <2>2, AppendApart DEF Distinct
    <3>5. \A k \in 1 .. Len(cq') : cq'[k] = e \/ (k \in 1 .. Len(cq) /\ cq'[k] = cq[k])
      BY <1>1, <1>3, <2>2, AppendElement
    <3>6. HandedOut(cq)'
      BY <1>1, <1>9, <3>5 DEF Distinct, HandedOut
    <3> QED BY <3>1, <3>3, <3>4, <3>6
  <2> QED BY <1>4, <2>1, <2>2
<1>11. Apart(rq', cq')
  BY <1>10, ApartSym
<1> QED BY <1>1, <1>5, <1>7, <1>9, <1>10, <1>11 DEF Distinct, Once, Apart, HandedOut

LEMMA ConcatFacts ==
    ASSUME NEW S, NEW s \in Seq(S), NEW u \in Seq(S)
    PROVE  /\ s \o u \in Seq(S) /\ Len(s \o u) = Len(s) + Len(u)
           /\ \A k \in 1 .. Len(s) + Len(u) :
                 (s \o u)[k] = IF k <= Len(s) THEN s[k] ELSE u[k - Len(s)]
  OBVIOUS

(* The identifiers of three sequences one after the other.                 *)
LEMMA DistinctPlaces == ASSUME TypeOK, Distinct PROVE NoDuplicates
<1> DEFINE R == [k \in 1 .. Len(rq) |-> rq[k].id]
           Q == [k \in 1 .. Len(cq) |-> cq[k].id]
           W == [k \in 1 .. Len(wc) |-> wc[k].id]
           r == Len(rq)  q == Len(cq)  w == Len(wc)
<1>1. r \in Nat /\ q \in Nat /\ w \in Nat
  BY Lengths
<1>2. /\ \A k \in 1 .. Len(rq) : rq[k] \in [id : Ids, addr : Nat]
      /\ \A k \in 1 .. Len(cq) : cq[k] \in [id : Ids, status : {"received", "flushed"}]
      /\ \A k \in 1 .. Len(wc) : wc[k] \in [id : Ids, status : {"received", "flushed"}]
  BY ElementFact DEF TypeOK
<1>3. R \in Seq(Ids) /\ Len(R) = r
  BY <1>1, <1>2
<1>4. Q \in Seq(Ids) /\ Len(Q) = q
  BY <1>1, <1>2
<1>5. W \in Seq(Ids) /\ Len(W) = w
  BY <1>1, <1>2
<1>6. /\ \A i, j \in 1 .. r : R[i] = R[j] => i = j
      /\ \A i, j \in 1 .. q : Q[i] = Q[j] => i = j
      /\ \A i \in 1 .. r, j \in 1 .. q : R[i] # Q[j]
      /\ \A i \in 1 .. r, j \in 1 .. w : R[i] # W[j]
      /\ \A i \in 1 .. q, j \in 1 .. w : Q[i] # W[j]
      /\ w <= 1
  BY DEF Distinct, Once, Apart
<1>7. Places = R \o Q \o W
  BY DEF Places
<1> HIDE DEF R, Q, W, r, q, w
<1>8. /\ Len(Places) = r + q + w
      /\ \A k \in 1 .. r + q + w :
            Places[k] = IF k <= r THEN R[k] ELSE IF k <= r + q THEN Q[k - r] ELSE W[k - (r + q)]
  <2> DEFINE T == R \o Q
  <2>1. T \in Seq(Ids) /\ Len(T) = r + q
    BY <1>3, <1>4, ConcatFacts
  <2>2. \A k \in 1 .. r + q : T[k] = IF k <= r THEN R[k] ELSE Q[k - r]
    BY <1>3, <1>4, ConcatFacts
  <2> HIDE DEF T
  <2>3. Places = T \o W
    BY <1>7 DEF T
  <2>4. Len(Places) = r + q + w
    BY <1>5, <2>1, <2>3, ConcatFacts
  <2>5. \A k \in 1 .. r + q + w : Places[k] = IF k <= r + q THEN T[k] ELSE W[k - (r + q)]
    BY <1>5, <2>1, <2>3, ConcatFacts
  <2> QED BY <1>1, <2>2, <2>4, <2>5
<1> SUFFICES ASSUME NEW a \in 1 .. r + q + w, NEW b \in 1 .. r + q + w, Places[a] = Places[b]
             PROVE  a = b
  BY <1>8 DEF NoDuplicates
<1>9. \A k \in 1 .. r + q + w :
          \/ k \in 1 .. r /\ Places[k] = R[k]
          \/ k - r \in 1 .. q /\ Places[k] = Q[k - r]
          \/ k - (r + q) \in 1 .. w /\ Places[k] = W[k - (r + q)]
  BY <1>1, <1>8
<1>10. a - r = b - r \/ a - (r + q) = b - (r + q) \/ a = b
  BY <1>1, <1>6, <1>9
<1> QED BY <1>1, <1>10

(* No two of ring, completion queue and main()'s hands share a             *)
(* descriptor, and one not yet posted is nowhere.                          *)
THEOREM DistinctInductive == Spec => []DInv
<1>1. Init => DInv
  BY InitIInv, InitDistinct DEF DInv
<1>2. Distinct /\ IInv /\ IInv' /\ [Next]_vars => Distinct'
  <2> SUFFICES ASSUME Distinct, IInv, IInv', [Next]_vars PROVE Distinct'
    OBVIOUS
  <2>1. DInv
    BY DEF DInv
  <2>2. CASE UNCHANGED <<rq, cq, wc, n>>
    BY <2>2 DEF Distinct, Once, Apart, HandedOut
  <2>3. CASE \/ OpenDevice \/ ModifyInit \/ ModifyRtr \/ AllocBuffers \/ CreateFlow
             \/ PollError \/ Fault \/ UNCHANGED vars
    BY <2>2, <2>3 DEF OpenDevice, AllocBuffers, Checked, ModifyInit, ModifyRtr, ModifyQp,
                      CreateFlow, PollError, Fault, vars, progVars, nicVars
  <2>4. CASE PostInitial
    BY <2>1, <2>4, PostInitialDistinct
  <2>5. CASE Poll
    BY <2>1, <2>5, PollDistinct
  <2>6. CASE Repost
    BY <2>1, <2>6, RepostDistinct
  <2>7. CASE Receive \/ Flush
    BY <2>1, <2>7, CompleteDistinct DEF Receive, Flush
  <2> QED BY <2>3, <2>4, <2>5, <2>6, <2>7 DEF Next, Program, Card, Idle
<1> QED BY <1>1, <1>2, Inductive, PTL DEF Spec, DInv

(* A descriptor is in the ring, completed or in main()'s hands, never in   *)
(* two of these places nor twice in one: two packets never share a buffer. *)
THEOREM NoDescriptorTwice == Spec => []NoDuplicates
<1>1. DInv => NoDuplicates
  BY DistinctPlaces DEF DInv, IInv
<1> QED BY <1>1, DistinctInductive, PTL
=============================================================================
