------------------------------ MODULE Timespec ------------------------------
(***************************************************************************)
(* The struct timespec arithmetic of src/udp_pacer.c.  The two unit sizes  *)
(* are constants, so that TLC can run with a "second" of a few             *)
(* nanoseconds and still see every carry; the C values are 1000 and        *)
(* 1000000.                                                                *)
(***************************************************************************)
EXTENDS Integers

CONSTANTS NSEC_PER_USEC,   \* the literal 1000 in calcdiff and timer_thread
          USEC_PER_SEC

ASSUME UnitsAssumption ==
    /\ NSEC_PER_USEC \in Nat \ {0}
    /\ USEC_PER_SEC \in Nat \ {0}

NSEC_PER_SEC == NSEC_PER_USEC * USEC_PER_SEC

(* A normalised struct timespec, as the kernel's clock returns it.         *)
Timespecs == [sec : Nat, nsec : 0 .. NSEC_PER_SEC - 1]

(* The instant a timespec stands for, in nanoseconds.                      *)
Nanosec(ts) == ts.sec * NSEC_PER_SEC + ts.nsec

(* What clock_gettime() stores when the clock shows t nanoseconds.         *)
ClockGettime(t) == [sec |-> t \div NSEC_PER_SEC, nsec |-> t % NSEC_PER_SEC]

(* C's integer division: truncates towards zero, TLA+'s \div rounds down.  *)
CDiv(a, b) == IF a >= 0 THEN a \div b ELSE -((-a) \div b)

(* The loop of tsnorm(): whole seconds move from nsec to sec.  Two         *)
(* normalised timespecs add up to less than two seconds of nsec, so in     *)
(* udp_pacer.c the loop body runs at most once.                            *)
tsnorm(ts) ==
    IF ts.nsec >= NSEC_PER_SEC
    THEN [sec |-> ts.sec + 1, nsec |-> ts.nsec - NSEC_PER_SEC]
    ELSE ts

(* par->interval microseconds as a timespec.                               *)
IntervalTimespec(usec) ==
    [sec |-> usec \div USEC_PER_SEC,
     nsec |-> (usec % USEC_PER_SEC) * NSEC_PER_USEC]

(* next += interval, normalised.                                           *)
Advance(ts, usec) ==
    LET i == IntervalTimespec(usec)
    IN  tsnorm([sec |-> ts.sec + i.sec, nsec |-> ts.nsec + i.nsec])

(* calcdiff(): t1 - t2 in microseconds.  The seconds and the nanoseconds   *)
(* are subtracted separately, and only the second difference is rounded.   *)
MUT_calcdiff_unscaled(t1, t2) ==
    USEC_PER_SEC * (t1.sec - t2.sec) + (t1.nsec - t2.nsec)

calcdiff(t1, t2) ==
    USEC_PER_SEC * (t1.sec - t2.sec) + CDiv(t1.nsec - t2.nsec, NSEC_PER_USEC)
=============================================================================
