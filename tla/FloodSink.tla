----------------------------- MODULE FloodSink -----------------------------
(***************************************************************************)
(* A measurement with both ends: src/udp_flood.c sends to src/udp_sink.c   *)
(* over a link that keeps the order and drops what the sink's socket       *)
(* buffer has no room for.  The flood is UdpFlood as it is; the sink is an *)
(* instance of UdpSink, whose own sender and network take no steps: its    *)
(* variables are those with a leading "k".                                 *)
(***************************************************************************)
EXTENDS UdpFlood

CONSTANTS SinkParams,   \* the sink's command lines
          Setups,       \* which flood meets which sink: records
          WRAP_LIMIT,   \* as in UdpSink
          MaxQueue,     \* bound: packets the sink's socket buffer holds
          MaxTs,        \* bound: the clock the flood stamps its headers with
          MaxTry        \* bound: EAGAIN results per run of the sink

VARIABLES kp, kpc, kt, kj, ki, ktry_again, kvec, kooo, kbad_magic, kbad_repeat,
          klast, kreport, kqueue, kgot, kchk, krunFirst,
          now,          \* the clock
          dropped,      \* history: the sink's socket buffer was full
          setback,      \* history: the clock was set back
          short         \* history: the flood's kernel has refused packets

sinkVars == <<kp, kpc, kt, kj, ki, ktry_again, kvec, kooo, kbad_magic, kbad_repeat,
              klast, kreport, kgot, kchk, krunFirst>>
allVars == <<vars, sinkVars, kqueue, now, dropped, setback, short>>

(* The flood sends payloads without a header: --pktgen-hdr is not given,   *)
(* or its send() test runs, which never calls fill_buf().                  *)
SendsZero == ~p.pktgen_hdr \/ "send" \in Selected

K == INSTANCE UdpSink WITH
         Params <- SinkParams, FirstSeqs <- {0}, Kinds <- {"good", "zero"},
         MaxPackets <- 0, MaxGap <- 0,
         p <- kp, pc <- kpc, t <- kt, j <- kj, i <- ki, try_again <- ktry_again,
         vec <- kvec, ooo <- kooo, bad_magic <- kbad_magic, bad_repeat <- kbad_repeat,
         last <- klast, report <- kreport, queue <- kqueue,
         got <- kgot, chk <- kchk, runFirst <- krunFirst,
         seq <- 0, ts <- now, gap <- 0, sent <- 0, clean <- ~SendsZero

(* The tolerance of the sink's checks, some 10^9 numbers, is room for two  *)
(* batches: the payloads of a batch, 18 bytes each by default, are         *)
(* allocated as one buffer whose size is an int.                           *)
ASSUME MeetAssumption ==
    /\ SinkParams \subseteq K!ParamsType /\ WRAP_LIMIT \in 0 .. SEQ_MOD
    /\ MaxQueue \in Nat /\ MaxTs \in Nat \ {0} /\ MaxTry \in Nat
    /\ \A s \in Setups :
          /\ s.flood \in Params /\ s.sink \in SinkParams /\ s.running \in BOOLEAN
          /\ s.running => \A b \in {1, s.flood.batch} : 2 * b <= SEQ_MOD - WRAP_LIMIT

(* The sink is there from the start, or has already ended.                 *)
InitBoth ==
    /\ \E s \in Setups :
          /\ p = s.flood /\ kp = s.sink
          /\ kpc = IF s.running THEN "main" ELSE "exit_ok"
    /\ pc = "main" /\ t = 1 /\ cnt = 0 /\ sequence = 0 /\ bytes = 0
    /\ report = NoReport /\ onwire = 0 /\ refused = FALSE /\ wire = <<>>
    /\ kt = 1 /\ kj = 0 /\ ki = 0 /\ ktry_again = 0 /\ kvec = <<>>
    /\ kooo = 0 /\ kbad_magic = 0 /\ kbad_repeat = 0 /\ klast = K!Zero
    /\ kreport = K!NoReport /\ kgot = 0 /\ kchk = 0 /\ krunFirst = 0
    /\ kqueue = <<>> /\ now = 1
    /\ dropped = FALSE /\ setback = FALSE /\ short = FALSE

(* What a step of the flood puts on the link.  A payload that fill_buf()   *)
(* did not touch is all zero, as malloc_payload_buffer() left it.          *)
Packets ==
    IF Len(wire') > Len(wire)
    THEN [k \in 1 .. Len(wire') - Len(wire) |->
             [kind |-> "good",
              hdr |-> [magic |-> 1, seq |-> wire'[Len(wire) + k], ts |-> now]]]
    ELSE [k \in 1 .. onwire' - onwire |-> [kind |-> "zero", hdr |-> K!Zero]]

(* The socket buffer takes what it has room for.                           *)
FloodStep ==
    /\ Step \/ Failure
    /\ LET room == MaxQueue - Len(kqueue)
           n == Len(Packets)
       IN  IF K!Ended
           THEN UNCHANGED <<kqueue, dropped>>
           ELSE /\ kqueue' = kqueue \o SubSeq(Packets, 1, IF n < room THEN n ELSE room)
                /\ dropped' = (dropped \/ n > room)
    /\ short' = (short \/ refused')
    /\ UNCHANGED <<sinkVars, now, setback>>

SinkStep == UNCHANGED <<vars, dropped, setback, short>> /\ K!Sink

SinkFails == UNCHANGED <<vars, dropped, setback, short>> /\ K!Failure

(* CLOCK_REALTIME_COARSE moves on or is set, also back.                    *)
Tick ==
    /\ now' \in (1 .. MaxTs) \ {now}
    /\ setback' = (setback \/ now' < now)
    /\ UNCHANGED <<vars, sinkVars, kqueue, dropped, short>>

Done == Ended /\ UNCHANGED allVars

NextBoth == FloodStep \/ SinkStep \/ SinkFails \/ Tick \/ Done

(* Both processes run; a blocking receive call returns when it can.        *)
SpecBoth ==
    /\ InitBoth /\ [][NextBoth]_allVars
    /\ WF_allVars(FloodStep) /\ WF_allVars(SinkStep)

-----------------------------------------------------------------------------
(* The flood has skipped a number by itself: a remainder or a short batch. *)
Skips == \E k \in 1 .. Len(wire) - 1 : wire[k + 1] # (wire[k] + 1) % SEQ_MOD

(* The link kept every packet, and the flood's clock was not set back.     *)
Perfect == ~dropped /\ ~setback

(* The two programs agree on what a sequence is.  At levels 1 and 2 a link *)
(* that keeps every packet raises no out-of-order alarm, whichever tests   *)
(* run on either side: not at the gaps after a short batch, not at the     *)
(* wrap, and not where the send() test's zero headers meet numbered ones,  *)
(* unless the flood's clock is set back.  A wrong magic number means that  *)
(* the flood sends payloads without one.                                   *)
FloodRaisesNoAlarm ==
    /\ Perfect /\ kp.check < 3 => kooo = 0
    /\ kbad_magic > 0 => SendsZero

(* At level 3 a sink with one test calls a packet out of order only for a  *)
(* reason: a packet was dropped, the flood skipped a number or sent a      *)
(* payload without header, or its clock was set back.                      *)
Level3AlarmIsReal ==
    kooo > 0 /\ (\E x \in K!Selected : K!Selected = {x})
        => ~Perfect \/ Skips \/ SendsZero

(* Packets a sink wants before it ends: for each of its tests one that     *)
(* starts it and --repeat times --count, in whole batches for recvMmsg     *)
(* (without --dontwait, --waitforone, --sk-timeout and --timeout).         *)
Wanted ==
    LET PerRun(x) == IF x = "recvMmsg"
                     THEN ((kp.count + kp.batch - 1) \div kp.batch) * kp.batch
                     ELSE kp.count
        W[k \in 0 .. 5] ==
            IF k = 0 THEN 0
            ELSE W[k - 1] + (IF K!Tests[k] \in K!Selected
                             THEN 1 + kp.repeat * PerRun(K!Tests[k]) ELSE 0)
    IN  W[5]

(* Packets the flood reports when all its tests have run.                  *)
Reported == p.count * Len(SelectSeq(Tests, LAMBDA x : x \in Selected))

(* A blocking sink ends if it is offered enough: a flood whose reports add *)
(* up to what the sink wants has really put that many on the link, and     *)
(* each of them counts.                                                    *)
EnoughIsEnough ==
    (pc = "exit_ok" /\ ~short /\ Reported >= Wanted) ~> (K!Ended \/ dropped)
=============================================================================
