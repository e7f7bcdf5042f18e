------------------------------- MODULE MpRq -------------------------------
(***************************************************************************)
(* rdma/mp_rq.c: a receive ring shared with the network card.  main()      *)
(* posts one descriptor per buffer, steers packets to the ring and then    *)
(* polls the completion queue for ever; every completed descriptor is      *)
(* posted again.  The card takes descriptors in order, writes the packet   *)
(* to the address in the descriptor and completes it, concurrently.        *)
(*                                                                         *)
(* There is one struct ibv_recv_wr and one struct ibv_sge, filled in anew  *)
(* before every ibv_post_recv().                                           *)
(***************************************************************************)
EXTENDS Integers, Sequences

CONSTANTS RQ_NUM_DESC,   \* length of the ring and of the completion queue
          ENTRY_SIZE     \* bytes in a packet buffer

ASSUME RingAssumption == RQ_NUM_DESC \in Nat \ {0} /\ ENTRY_SIZE \in Nat \ {0}

VARIABLES
    pc,
    qp_state,      \* "RESET", "INIT", "RTR", "ERR"
    flow,          \* the steering rule is in place
    n,             \* descriptors posted at start-up
    wr_id, addr,   \* wr.wr_id, sg_entry.addr (relative to buf)
    wc,            \* the completion being handled, a sequence of at most one
    rq, cq,        \* the card's ring and the completion queue
    lost,          \* descriptors whose ibv_post_recv() failed
    overrun        \* history: the card had no room for a completion

progVars == <<pc, n, wr_id, addr, wc, lost>>
nicVars == <<qp_state, flow, rq, cq, overrun>>
vars == <<progVars, nicVars>>

Init ==
    /\ pc = "open" /\ qp_state = "RESET" /\ flow = FALSE
    /\ n = 0 /\ wr_id = 0 /\ addr = 0 /\ wc = <<>>
    /\ rq = <<>> /\ cq = <<>>
    /\ lost = 0 /\ overrun = FALSE

Exit == pc = "exit"

-----------------------------------------------------------------------------
(* Set-up: calls whose failure ends the program.                           *)
Checked(from, next) ==
    /\ pc = from
    /\ pc' \in {next, "exit"}
    /\ UNCHANGED <<n, wr_id, addr, wc, lost, nicVars>>

(* The device, its protection domain, the completion queue and the ring.   *)
OpenDevice == Checked("open", "modify_init")

(* ibv_modify_qp() fails with a negative result, which ends the program,   *)
(* or with a positive error number, which "ret < 0" lets pass.             *)
ModifyQp(from, to, next) ==
    /\ pc = from
    /\ \/ qp_state' = to /\ pc' = next
       \/ UNCHANGED qp_state /\ pc' \in {next, "exit"}
    /\ UNCHANGED <<n, wr_id, addr, wc, lost, flow, rq, cq, overrun>>

ModifyInit == ModifyQp("modify_init", "INIT", "modify_rtr")

(* Only a ring in INIT becomes ready to receive.                           *)
ModifyRtr ==
    ModifyQp("modify_rtr", IF qp_state = "INIT" THEN "RTR" ELSE qp_state, "alloc")

(* malloc() and ibv_reg_mr() of all packet buffers.                        *)
AllocBuffers == Checked("alloc", "post")

(* ibv_post_recv(qp, &wr, &bad_wr): the descriptor joins the ring, or the  *)
(* call fails and the result is ignored.                                   *)
PostRecv(id, at) ==
    \/ /\ qp_state # "RESET" /\ Len(rq) < RQ_NUM_DESC
       /\ rq' = Append(rq, [id |-> id, addr |-> at])
       /\ UNCHANGED lost
    \/ lost' = lost + 1 /\ UNCHANGED rq

(* for (n = 0; n < RQ_NUM_DESC; n++)                                       *)
PostInitial ==
    /\ pc = "post"
    /\ IF n < RQ_NUM_DESC
       THEN /\ addr' = ENTRY_SIZE * n /\ wr_id' = n
            /\ PostRecv(wr_id', addr')
            /\ n' = n + 1 /\ UNCHANGED pc
       ELSE pc' = "flow" /\ UNCHANGED <<addr, wr_id, n, rq, lost>>
    /\ UNCHANGED <<wc, qp_state, flow, cq, overrun>>

CreateFlow ==
    /\ pc = "flow"
    /\ \/ flow' = TRUE /\ pc' = "poll"
       \/ UNCHANGED flow /\ pc' = "exit"
    /\ UNCHANGED <<n, wr_id, addr, wc, lost, qp_state, rq, cq, overrun>>

-----------------------------------------------------------------------------
(* The polling loop.                                                       *)

(* ibv_poll_cq() returns one completion, which is printed as a message     *)
(* received whatever its status.                                           *)
MUT_PollSkipsErrors ==
    /\ pc = "poll" /\ cq # <<>>
    /\ cq' = Tail(cq)
    /\ IF Head(cq).status = "received"
       THEN wc' = <<Head(cq)>> /\ pc' = "repost"
       ELSE UNCHANGED <<wc, pc>>
    /\ UNCHANGED <<n, wr_id, addr, lost, qp_state, flow, rq, overrun>>

Poll ==
    /\ pc = "poll" /\ cq # <<>>
    /\ wc' = <<Head(cq)>> /\ cq' = Tail(cq)
    /\ pc' = "repost"
    /\ UNCHANGED <<n, wr_id, addr, lost, qp_state, flow, rq, overrun>>

PollError ==
    /\ pc = "poll"
    /\ pc' = "exit"
    /\ UNCHANGED <<n, wr_id, addr, wc, lost, nicVars>>

(* The completed buffer is posted back.                                    *)
MUT_RepostStaleAddr ==
    /\ pc = "repost"
    /\ wr_id' = wc[1].id /\ UNCHANGED addr
    /\ PostRecv(wr_id', addr)
    /\ wc' = <<>> /\ pc' = "poll"
    /\ UNCHANGED <<n, qp_state, flow, cq, overrun>>

MUT_RepostStaleId ==
    /\ pc = "repost"
    /\ addr' = wc[1].id * ENTRY_SIZE /\ UNCHANGED wr_id
    /\ PostRecv(wr_id, addr')
    /\ wc' = <<>> /\ pc' = "poll"
    /\ UNCHANGED <<n, qp_state, flow, cq, overrun>>

MUT_RepostTwice ==
    /\ pc = "repost"
    /\ addr' = wc[1].id * ENTRY_SIZE /\ wr_id' = wc[1].id
    /\ PostRecv(wr_id', addr')
    /\ pc' \in {"poll", "repost"} /\ wc' = (IF pc' = "poll" THEN <<>> ELSE wc)
    /\ UNCHANGED <<n, qp_state, flow, cq, overrun>>

Repost ==
    /\ pc = "repost"
    /\ addr' = wc[1].id * ENTRY_SIZE /\ wr_id' = wc[1].id
    /\ PostRecv(wr_id', addr')
    /\ wc' = <<>> /\ pc' = "poll"
    /\ UNCHANGED <<n, qp_state, flow, cq, overrun>>

-----------------------------------------------------------------------------
(* The card.                                                               *)

Complete(status) ==
    /\ rq # <<>>
    /\ rq' = Tail(rq)
    /\ IF Len(cq) < RQ_NUM_DESC
       THEN cq' = Append(cq, [id |-> Head(rq).id, status |-> status]) /\ UNCHANGED overrun
       ELSE overrun' = TRUE /\ UNCHANGED cq
    /\ UNCHANGED <<progVars, flow>>

(* A packet arrives and fills the oldest descriptor; without one it is     *)
(* dropped.                                                                *)
Receive == ~Exit /\ qp_state = "RTR" /\ flow /\ Complete("received") /\ UNCHANGED qp_state

(* A packet that does not fit its buffer, or another fault: the ring goes  *)
(* into the error state, where descriptors are flushed.                    *)
Fault == ~Exit /\ qp_state = "RTR" /\ qp_state' = "ERR" /\ UNCHANGED <<progVars, flow, rq, cq, overrun>>

Flush == ~Exit /\ qp_state = "ERR" /\ Complete("flushed") /\ UNCHANGED qp_state

Program ==
    \/ OpenDevice \/ ModifyInit \/ ModifyRtr \/ AllocBuffers \/ PostInitial
    \/ CreateFlow \/ Poll \/ Repost

Card == Receive \/ Fault \/ Flush

(* An empty poll changes nothing.                                          *)
Idle == (Exit \/ (pc = "poll" /\ cq = <<>>)) /\ UNCHANGED vars

Next == Program \/ PollError \/ Card \/ Idle

Spec == Init /\ [][Next]_vars

(* main() never sleeps.  Packets need not arrive.                          *)
FairSpec == Spec /\ WF_vars(Program)

-----------------------------------------------------------------------------
Ids == 0 .. RQ_NUM_DESC - 1

TypeOK ==
    /\ pc \in {"open", "modify_init", "modify_rtr", "alloc", "post", "flow", "poll",
               "repost", "exit"}
    /\ qp_state \in {"RESET", "INIT", "RTR", "ERR"} /\ flow \in BOOLEAN
    /\ n \in 0 .. RQ_NUM_DESC /\ wr_id \in Nat /\ addr \in Nat
    /\ rq \in Seq([id : Ids, addr : Nat])
    /\ cq \in Seq([id : Ids, status : {"received", "flushed"}])
    /\ wc \in Seq([id : Ids, status : {"received", "flushed"}])
    /\ lost \in Nat /\ overrun \in BOOLEAN

(* The card always has room to complete what was posted, although the      *)
(* program never waits for room: each descriptor is posted again only      *)
(* after its completion has been taken.                                    *)
NoOverrun == ~overrun

(* Where every descriptor is: in the ring, completed, or in main()'s       *)
(* hands, and only once; none is duplicated.                               *)
Places ==
    [k \in 1 .. Len(rq) |-> rq[k].id] \o [k \in 1 .. Len(cq) |-> cq[k].id]
        \o [k \in 1 .. Len(wc) |-> wc[k].id]

NoDuplicates ==
    \A a, b \in 1 .. Len(Places) : Places[a] = Places[b] => a = b

(* A descriptor in the ring points to the buffer of its identifier,        *)
(* although all of them are posted through one sg_entry.  Together with    *)
(* NoDuplicates: the card never writes to a buffer that the program is     *)
(* reading, nor two packets to one buffer.                                 *)
OwnBuffer ==
    \A k \in 1 .. Len(rq) : rq[k].addr = rq[k].id * ENTRY_SIZE

InRing(id) == \E k \in 1 .. Len(rq) : rq[k].id = id
InQueue(id) == \E k \in 1 .. Len(cq) : cq[k].id = id

(* Buffers come back: a completed descriptor, received or flushed after a  *)
(* fault, is posted again, however fast the card completes others.  Only   *)
(* failing posts (more of them than the k so far) take buffers away from   *)
(* the card, so that it does not run dry.                                  *)
BuffersComeBack ==
    \A id \in Ids, k \in 0 .. RQ_NUM_DESC - 1 :
        InQueue(id) /\ lost = k ~> Exit \/ InRing(id) \/ lost > k
=============================================================================
