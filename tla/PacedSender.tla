----------------------------- MODULE PacedSender -----------------------------
(***************************************************************************)
(* What a pacer promises, without threads, signals or timespecs: a batch   *)
(* is clocked out at most once per Period, counted from the moment the     *)
(* pacer started (batch number k never before start + k * Period), and no  *)
(* batch leaves once the pacer has stopped.  A late batch does not move    *)
(* the schedule of the later ones.                                         *)
(***************************************************************************)
EXTENDS Integers

CONSTANT Period          \* nanoseconds between two batches

VARIABLES clock,         \* the monotonic clock
          phase,         \* "setup", "pacing" or "stopped"
          start,         \* the instant pacing began
          cycles         \* batches clocked out so far

vars == <<clock, phase, start, cycles>>

Init ==
    /\ clock \in Nat
    /\ phase = "setup"
    /\ start = 0
    /\ cycles = 0

Tick ==
    /\ clock' > clock
    /\ UNCHANGED <<phase, start, cycles>>

Begin ==
    /\ phase = "setup"
    /\ phase' = "pacing"
    /\ start' = clock
    /\ UNCHANGED <<clock, cycles>>

Emit ==
    /\ phase = "pacing"
    /\ clock >= start + (cycles + 1) * Period
    /\ cycles' = cycles + 1
    /\ UNCHANGED <<clock, phase, start>>

Stop ==
    /\ phase' = "stopped"
    /\ UNCHANGED <<clock, start, cycles>>

Next == Tick \/ Begin \/ Emit \/ Stop

Spec == Init /\ [][Next]_vars
=============================================================================
