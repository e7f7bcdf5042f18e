------------------------------ MODULE UdpPacer ------------------------------
(***************************************************************************)
(* src/udp_pacer.c: the main thread, the timer thread that clocks out one  *)
(* batch of packets per interval, and the signal handler that either of    *)
(* them may run.  The three share shutdown_global and the heap-allocated   *)
(* struct thread_stat, without a lock.                                     *)
(*                                                                         *)
(* mpc and tpc are the program counters of main() and timer_thread().  The *)
(* clock is CLOCK_MONOTONIC in nanoseconds; it advances between any two    *)
(* steps, so a wake-up may be arbitrarily late (up to MaxLate).            *)
(***************************************************************************)
EXTENDS Timespec

CONSTANTS Counts,       \* values of --count to consider; 0 means "no limit"
          Interval,     \* --interval, microseconds
          Batch,        \* --batch, packets per interval
          InitMin,      \* the 1000000 (usec) that stat->min starts from
          StartClock,   \* what the clock shows when main() starts
          MaxLate,      \* bound: how far the clock runs ahead of the schedule
          MaxCycles,    \* bound: cycles of a run without --count
          MaxSignals    \* bound: signals the user sends to the process

ASSUME PacerAssumption ==
    /\ Counts \subseteq Nat
    /\ Interval \in Nat
    /\ Batch \in Nat
    /\ InitMin \in Nat
    /\ StartClock \in Nat
    /\ MaxLate \in Nat
    /\ MaxCycles \in Nat
    /\ MaxSignals \in Nat

VARIABLES shutdown_global,
          mpc, tpc,
          max_cycles,       \* par->max_cycles
          thread_started,   \* stat->thread_started
          cycles,           \* stat->cycles
          min, max, act,    \* stat->min, stat->max, stat->act (usec)
          now, next,        \* the thread's two timespecs
          freed,            \* main() has freed thread->stats and thread
          killPending,      \* the SIGTERM of pthread_kill() is on its way
          signals,          \* signals the user has sent
          clock,
          sent,             \* packets handed to the kernel
          start,            \* history: the instant the schedule counts from
          lateCycles        \* history: cycles begun after shutdown_global = 1

statVars == <<thread_started, cycles, min, max, act>>
timeVars == <<now, next, start>>
vars == <<shutdown_global, mpc, tpc, max_cycles, statVars, timeVars, freed,
          killPending, signals, clock, sent, lateCycles>>

Exited == mpc \in {"exit_ok", "exit_fail_mem", "exit_fail_pthread"}

(* Program points of the timer thread at which it is between the start of  *)
(* the schedule and the exit of its loop.                                  *)
PacingPoints == {"check", "nanosleep", "sleeping", "woken", "send", "advance"}

(* The thread exists, and so can run a signal handler.                     *)
ThreadAlive == tpc \notin {"none", "done"}

Epoch == [sec |-> 0, nsec |-> 0]

Init ==
    /\ shutdown_global = FALSE
    /\ mpc = "create" /\ tpc = "none"
    /\ max_cycles \in Counts
    /\ thread_started = 0 /\ cycles = 0
    /\ min = 0 /\ max = 0 /\ act = 0
    /\ now = Epoch /\ next = Epoch
    /\ freed = FALSE /\ killPending = FALSE /\ signals = 0
    /\ clock = StartClock /\ start = 0 /\ sent = 0 /\ lateCycles = 0

-----------------------------------------------------------------------------
(* The main thread.                                                        *)

(* setup_pthread(): par and stat are allocated and filled in, and          *)
(* thread_started is 1 before the thread exists.                           *)
setup_pthread ==
    /\ mpc = "create"
    /\ mpc' = "loop" /\ tpc' = "alloc"
    /\ thread_started' = 1 /\ min' = InitMin /\ max' = 0
    /\ UNCHANGED <<shutdown_global, max_cycles, cycles, act, timeVars, freed,
                   killPending, signals, clock, sent, lateCycles>>

setup_pthread_fails ==
    /\ mpc = "create"
    /\ mpc' \in {"exit_fail_mem", "exit_fail_pthread"}
    /\ UNCHANGED <<shutdown_global, tpc, max_cycles, statVars, timeVars, freed,
                   killPending, signals, clock, sent, lateCycles>>

(* The polling loop sees shutdown_global; its other rounds change nothing, *)
(* sleep(0.5) being sleep(0).                                              *)
MUT_MainWaitsForCount ==
    /\ mpc = "loop" /\ max_cycles # 0 /\ cycles >= max_cycles
    /\ mpc' = "kill"
    /\ UNCHANGED <<shutdown_global, tpc, max_cycles, statVars, timeVars, freed,
                   killPending, signals, clock, sent, lateCycles>>

MainSeesShutdown ==
    /\ mpc = "loop" /\ shutdown_global
    /\ mpc' = "kill"
    /\ UNCHANGED <<shutdown_global, tpc, max_cycles, statVars, timeVars, freed,
                   killPending, signals, clock, sent, lateCycles>>

(* First test of thread_started.                                           *)
MainKill ==
    /\ mpc = "kill"
    /\ mpc' = "join"
    /\ killPending' = (thread_started > 0 /\ ThreadAlive)
    /\ UNCHANGED <<shutdown_global, tpc, max_cycles, statVars, timeVars, freed,
                   signals, clock, sent, lateCycles>>

(* Second test of thread_started; pthread_join() returns once the thread   *)
(* has returned.                                                           *)
MUT_NoJoin ==
    /\ mpc = "join"
    /\ mpc' = "free"
    /\ UNCHANGED <<shutdown_global, tpc, max_cycles, statVars, timeVars, freed,
                   killPending, signals, clock, sent, lateCycles>>

MainJoin ==
    /\ mpc = "join"
    /\ thread_started # 0 => tpc = "done"
    /\ mpc' = "free"
    /\ UNCHANGED <<shutdown_global, tpc, max_cycles, statVars, timeVars, freed,
                   killPending, signals, clock, sent, lateCycles>>

MainFree ==
    /\ mpc = "free"
    /\ freed' = TRUE /\ mpc' = "return"
    /\ UNCHANGED <<shutdown_global, tpc, max_cycles, statVars, timeVars,
                   killPending, signals, clock, sent, lateCycles>>

MainReturn ==
    /\ mpc = "return"
    /\ mpc' = "exit_ok"
    /\ UNCHANGED <<shutdown_global, tpc, max_cycles, statVars, timeVars, freed,
                   killPending, signals, clock, sent, lateCycles>>

Main ==
    \/ setup_pthread \/ setup_pthread_fails
    \/ MainSeesShutdown \/ MainKill \/ MainJoin \/ MainFree \/ MainReturn

-----------------------------------------------------------------------------
(* The timer thread.                                                       *)

Goto(from, to) == tpc = from /\ tpc' = to

(* calloc() of the payload buffer.                                         *)
ThreadAlloc ==
    /\ Goto("alloc", "sched") \/ Goto("alloc", "merr")
    /\ UNCHANGED <<shutdown_global, mpc, max_cycles, statVars, timeVars, freed,
                   killPending, signals, clock, sent, lateCycles>>

(* sched_setscheduler(): only an errno other than EPERM ends the thread.   *)
ThreadSched ==
    /\ Goto("sched", "start") \/ Goto("sched", "out")
    /\ UNCHANGED <<shutdown_global, mpc, max_cycles, statVars, timeVars, freed,
                   killPending, signals, clock, sent, lateCycles>>

ThreadStart ==
    /\ Goto("start", "check")
    /\ now' = ClockGettime(clock)
    /\ next' = Advance(now', Interval)
    /\ thread_started' = thread_started + 1
    /\ start' = clock
    /\ UNCHANGED <<shutdown_global, mpc, max_cycles, cycles, min, max, act,
                   freed, killPending, signals, clock, sent, lateCycles>>

(* while (!shutdown_global)                                                *)
MUT_NoShutdownCheck ==
    /\ Goto("check", "nanosleep")
    /\ max_cycles = 0 /\ ~shutdown_global => cycles < MaxCycles
    /\ UNCHANGED <<shutdown_global, mpc, max_cycles, statVars, timeVars, freed,
                   killPending, signals, clock, sent, lateCycles>>

ThreadCheck ==
    /\ \/ shutdown_global /\ Goto("check", "out")
       \/ /\ ~shutdown_global /\ Goto("check", "nanosleep")
          /\ max_cycles = 0 => cycles < MaxCycles
    /\ UNCHANGED <<shutdown_global, mpc, max_cycles, statVars, timeVars, freed,
                   killPending, signals, clock, sent, lateCycles>>

(* The call of clock_nanosleep(): a signal handled before the thread is in *)
(* the kernel does not interrupt the sleep.                                *)
ThreadSleep ==
    /\ Goto("nanosleep", "sleeping")
    /\ UNCHANGED <<shutdown_global, mpc, max_cycles, statVars, timeVars, freed,
                   killPending, signals, clock, sent, lateCycles>>

(* clock_nanosleep(TIMER_ABSTIME) returns 0 only at or after next.         *)
MUT_WakeEarly ==
    /\ Goto("sleeping", "woken")
    /\ clock + 1 >= Nanosec(next)
    /\ UNCHANGED <<shutdown_global, mpc, max_cycles, statVars, timeVars, freed,
                   killPending, signals, clock, sent, lateCycles>>

ThreadWake ==
    /\ Goto("sleeping", "woken")
    /\ clock >= Nanosec(next)
    /\ UNCHANGED <<shutdown_global, mpc, max_cycles, statVars, timeVars, freed,
                   killPending, signals, clock, sent, lateCycles>>

(* clock_nanosleep() or clock_gettime() reports an error.                  *)
ThreadClockError ==
    /\ Goto("sleeping", "out") \/ Goto("woken", "out")
    /\ UNCHANGED <<shutdown_global, mpc, max_cycles, statVars, timeVars, freed,
                   killPending, signals, clock, sent, lateCycles>>

(* clock_gettime(), calcdiff() and the statistics of this wake-up.         *)
ThreadAccount ==
    LET diff == calcdiff(ClockGettime(clock), next)
    IN  /\ Goto("woken", "send")
        /\ now' = ClockGettime(clock)
        /\ min' = IF diff < min THEN diff ELSE min
        /\ max' = IF diff > max THEN diff ELSE max
        /\ act' = diff
        /\ cycles' = cycles + 1
        /\ lateCycles' = IF shutdown_global THEN lateCycles + 1 ELSE lateCycles
        /\ UNCHANGED <<shutdown_global, mpc, max_cycles, thread_started, next,
                       start, freed, killPending, signals, clock, sent>>

(* socket_send(): up to Batch packets; a failing send() ends the batch and *)
(* the caller ignores the result.                                          *)
MUT_SendOneMore ==
    /\ Goto("send", "advance")
    /\ \E cnt \in 0 .. Batch + 1 : sent' = sent + cnt
    /\ UNCHANGED <<shutdown_global, mpc, max_cycles, statVars, timeVars, freed,
                   killPending, signals, clock, lateCycles>>

socket_send ==
    /\ Goto("send", "advance")
    /\ \E cnt \in 0 .. Batch : sent' = sent + cnt
    /\ UNCHANGED <<shutdown_global, mpc, max_cycles, statVars, timeVars, freed,
                   killPending, signals, clock, lateCycles>>

(* next moves by exactly one interval, whatever the delay was.             *)
MUT_AdvanceFromNow ==
    /\ tpc = "advance"
    /\ next' = Advance(ClockGettime(clock), Interval)
    /\ tpc' = IF max_cycles # 0 /\ max_cycles = cycles THEN "out" ELSE "check"
    /\ UNCHANGED <<shutdown_global, mpc, max_cycles, statVars, now, start,
                   freed, killPending, signals, clock, sent, lateCycles>>

MUT_AdvanceNoNorm ==
    /\ tpc = "advance"
    /\ next' = [sec |-> next.sec + IntervalTimespec(Interval).sec,
                nsec |-> next.nsec + IntervalTimespec(Interval).nsec]
    /\ tpc' = IF max_cycles # 0 /\ max_cycles = cycles THEN "out" ELSE "check"
    /\ UNCHANGED <<shutdown_global, mpc, max_cycles, statVars, now, start,
                   freed, killPending, signals, clock, sent, lateCycles>>

ThreadAdvance ==
    /\ tpc = "advance"
    /\ next' = Advance(next, Interval)
    /\ tpc' = IF max_cycles # 0 /\ max_cycles = cycles THEN "out" ELSE "check"
    /\ UNCHANGED <<shutdown_global, mpc, max_cycles, statVars, now, start,
                   freed, killPending, signals, clock, sent, lateCycles>>

(* out: free(msg_buf)                                                      *)
ThreadOut ==
    /\ Goto("out", "merr")
    /\ UNCHANGED <<shutdown_global, mpc, max_cycles, statVars, timeVars, freed,
                   killPending, signals, clock, sent, lateCycles>>

(* merr: tell the main thread                                              *)
MUT_NoShutdownAtExit ==
    /\ Goto("merr", "mark")
    /\ UNCHANGED <<shutdown_global, mpc, max_cycles, statVars, timeVars, freed,
                   killPending, signals, clock, sent, lateCycles>>

ThreadShutdown ==
    /\ Goto("merr", "mark")
    /\ shutdown_global' = TRUE
    /\ UNCHANGED <<mpc, max_cycles, statVars, timeVars, freed, killPending,
                   signals, clock, sent, lateCycles>>

(* The last access to *stat, then return NULL.                             *)
ThreadMark ==
    /\ Goto("mark", "done")
    /\ thread_started' = -1
    /\ killPending' = FALSE
    /\ UNCHANGED <<shutdown_global, mpc, max_cycles, cycles, min, max, act,
                   timeVars, freed, signals, clock, sent, lateCycles>>

Timer ==
    \/ ThreadAlloc \/ ThreadSched \/ ThreadStart \/ ThreadCheck \/ ThreadSleep
    \/ ThreadWake \/ ThreadClockError \/ ThreadAccount \/ socket_send
    \/ ThreadAdvance \/ ThreadOut \/ ThreadShutdown \/ ThreadMark

-----------------------------------------------------------------------------
(* Signals and time.                                                       *)

(* sighand() runs in the timer thread: a sleep in the kernel ends with     *)
(* EINTR, any other program point goes on where it was (signal() installs  *)
(* with SA_RESTART, which clock_nanosleep() does not honour).              *)
sighand_timer ==
    /\ shutdown_global' = TRUE
    /\ tpc' = IF tpc = "sleeping" THEN "out" ELSE tpc

(* SIGINT, SIGTERM or SIGUSR1 from outside: the kernel picks the thread.   *)
UserSignal ==
    /\ ~Exited /\ signals < MaxSignals
    /\ signals' = signals + 1
    /\ \/ shutdown_global' = TRUE /\ UNCHANGED tpc
       \/ ThreadAlive /\ sighand_timer
    /\ UNCHANGED <<mpc, max_cycles, statVars, timeVars, freed, killPending,
                   clock, sent, lateCycles>>

(* The SIGTERM main() sent with pthread_kill() reaches the thread.         *)
KillDelivered ==
    /\ killPending /\ ThreadAlive
    /\ killPending' = FALSE
    /\ sighand_timer
    /\ UNCHANGED <<mpc, max_cycles, statVars, timeVars, freed, signals, clock,
                   sent, lateCycles>>

(* The clock advances; MaxLate bounds how far it may outrun the schedule.  *)
Tick ==
    /\ ~Exited
    /\ clock < MaxLate + (IF tpc \in PacingPoints THEN Nanosec(next)
                                                  ELSE StartClock)
    /\ clock' = clock + 1
    /\ UNCHANGED <<shutdown_global, mpc, tpc, max_cycles, statVars, timeVars,
                   freed, killPending, signals, sent, lateCycles>>

(* The process has ended.                                                  *)
Terminated == Exited /\ UNCHANGED vars

(* A run without --count is cut off at MaxCycles: it waits for a signal.   *)
AwaitSignal ==
    /\ tpc = "check" /\ max_cycles = 0 /\ cycles >= MaxCycles
    /\ UNCHANGED vars

Next ==
    \/ Main \/ Timer \/ UserSignal \/ KillDelivered \/ Tick
    \/ Terminated \/ AwaitSignal

(* Both threads are scheduled, a pending signal is delivered and time      *)
(* passes; the user need not send any signal.                              *)
Fairness ==
    /\ WF_vars(Main) /\ WF_vars(Timer) /\ WF_vars(KillDelivered)
    /\ WF_vars(Tick)

Spec == Init /\ [][Next]_vars

FairSpec == Spec /\ Fairness

-----------------------------------------------------------------------------
(* Properties.                                                             *)

MainPoints == {"create", "loop", "kill", "join", "free", "return", "exit_ok",
               "exit_fail_mem", "exit_fail_pthread"}
ThreadPoints == PacingPoints \cup
    {"none", "alloc", "sched", "start", "out", "merr", "mark", "done"}

(* Every variable has its C type.  In particular next stays normalised     *)
(* (nsec below one second), which clock_nanosleep() insists on, and the    *)
(* unsigned diff of a wake-up is never a wrapped negative number.          *)
TypeOK ==
    /\ shutdown_global \in BOOLEAN /\ freed \in BOOLEAN
    /\ killPending \in BOOLEAN
    /\ mpc \in MainPoints /\ tpc \in ThreadPoints
    /\ max_cycles \in Counts
    /\ thread_started \in -1 .. 2
    /\ cycles \in Nat /\ min \in Nat /\ max \in Nat /\ act \in Nat
    /\ now \in Timespecs /\ next \in Timespecs
    /\ signals \in 0 .. MaxSignals
    /\ clock \in Nat /\ sent \in Nat /\ start \in Nat /\ lateCycles \in Nat

(* "Shutdown pthread before calling free": main() frees the statistics and *)
(* the parameters only after the thread, which dereferences both up to its *)
(* last statement, has returned, whichever of the values 1, 2 and -1 the   *)
(* two unlocked reads of thread_started see.                               *)
NoUseAfterFree == freed => tpc = "done"

(* The schedule does not drift: the deadline the thread sleeps for is a    *)
(* whole number of intervals after start, however late earlier wake-ups    *)
(* were and whatever carries tsnorm() made.                                *)
NoDrift ==
    tpc \in PacingPoints \ {"send", "advance"} =>
        Nanosec(next) = start + (cycles + 1) * Interval * NSEC_PER_USEC

(* Averaged from the start, the pacer never exceeds the configured packet  *)
(* rate: Batch packets per Interval, catching up after an overrun          *)
(* included.                                                               *)
RateBound ==
    tpc \in PacingPoints =>
        sent * Interval * NSEC_PER_USEC <= Batch * (clock - start)

(* The latency sent as the pktgen sequence number, and kept in             *)
(* stat->min/act/max, is within one microsecond of the true delay between  *)
(* the deadline and the wake-up, across second boundaries too.             *)
LatencyAccurate ==
    tpc = "send" =>
        LET true_ns == Nanosec(now) - Nanosec(next)
        IN  /\ act * NSEC_PER_USEC < true_ns + NSEC_PER_USEC
            /\ true_ns < act * NSEC_PER_USEC + NSEC_PER_USEC
            /\ min <= act /\ act <= max

(* --count: the thread stops after max_cycles intervals.                   *)
CountRespected == max_cycles # 0 => cycles <= max_cycles

(* Once shutdown_global is set, at most one more batch goes out: the       *)
(* wake-up of a thread that had already passed the test of the loop and    *)
(* was not (or not yet) in clock_nanosleep() when the signal came.         *)
OneBatchAfterShutdown == lateCycles <= 1

(* A shutdown request, whichever thread handles the signal and at whatever *)
(* point, and also the loss of the SIGTERM between the test of             *)
(* shutdown_global and the sleep, ends the process.                        *)
ShutdownCompletes == shutdown_global ~> Exited

(* A run with --count ends by itself.                                      *)
CountedRunEnds == (max_cycles # 0) ~> Exited

(* The threads implement the abstract pacer.                               *)
Phase == CASE tpc \in {"none", "alloc", "sched", "start"} -> "setup"
           [] tpc \in PacingPoints -> "pacing"
           [] OTHER -> "stopped"

Abstract == INSTANCE PacedSender
            WITH Period <- Interval * NSEC_PER_USEC, phase <- Phase

ImplementsPacedSender == Abstract!Spec
=============================================================================
