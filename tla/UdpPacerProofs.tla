--------------------------- MODULE UdpPacerProofs ---------------------------
EXTENDS UdpPacer, TLAPS

(* \div and % by a positive number split an integer.                       *)
LEMMA DivMod ==
    ASSUME NEW a \in Int, NEW b \in Nat \ {0}
    PROVE  /\ a \div b \in Int /\ a % b \in 0 .. b - 1
           /\ a = b * (a \div b) + (a % b)
           /\ a >= 0 => a \div b \in Nat
  OBVIOUS

(* A product of naturals, the sizes of the units in particular.            *)
LEMMA NSecPos == NSEC_PER_SEC \in Nat \ {0}
  BY UnitsAssumption DEF NSEC_PER_SEC

LEMMA MulNat == ASSUME NEW a \in Nat, NEW b \in Nat PROVE a * b \in Nat
  OBVIOUS

LEMMA MulMono ==
    ASSUME NEW a \in Int, NEW b \in Int, NEW c \in Nat, a <= b
    PROVE  a * c <= b * c
  OBVIOUS

(* A factor larger than -1 is at least 0: what turns a bound in            *)
(* nanoseconds into one in microseconds.                                   *)
LEMMA MulNeg == ASSUME NEW a \in Int, NEW c \in Nat \ {0}, a * c > -c PROVE a >= 0
  OBVIOUS

(* C division rounds by less than one divisor, in either direction.        *)
LEMMA CDivBound ==
    ASSUME NEW a \in Int, NEW b \in Nat \ {0}
    PROVE  /\ CDiv(a, b) \in Int
           /\ CDiv(a, b) * b < a + b
           /\ a < CDiv(a, b) * b + b
  <1>1. CASE a >= 0
    <2>1. /\ a \div b \in Int /\ a % b \in 0 .. b - 1
          /\ a = b * (a \div b) + (a % b)
      BY DivMod
    <2>2. CDiv(a, b) = a \div b
      BY <1>1 DEF CDiv
    <2> QED BY <2>1, <2>2
  <1>2. CASE ~(a >= 0)
    <2> DEFINE m == -a
    <2>0. m \in Int
      OBVIOUS
    <2>1. /\ m \div b \in Int /\ m % b \in 0 .. b - 1
          /\ m = b * (m \div b) + (m % b)
      BY <2>0, DivMod
    <2>2. CDiv(a, b) = -(m \div b)
      BY <1>2 DEF CDiv
    <2>3. CDiv(a, b) * b = -(b * (m \div b))
      BY <2>1, <2>2
    <2> QED BY <2>1, <2>2, <2>3
  <1> QED BY <1>1, <1>2

(* clock_gettime() returns a normalised timespec that stands for t.        *)
LEMMA ClockGettimeLemma ==
    ASSUME NEW t \in Nat
    PROVE  ClockGettime(t) \in Timespecs /\ Nanosec(ClockGettime(t)) = t
  <1>1. /\ t \div NSEC_PER_SEC \in Nat /\ t % NSEC_PER_SEC \in 0 .. NSEC_PER_SEC - 1
        /\ t = NSEC_PER_SEC * (t \div NSEC_PER_SEC) + (t % NSEC_PER_SEC)
    <2>1. t \in Int /\ t >= 0
      OBVIOUS
    <2> QED BY <2>1, NSecPos, DivMod
  <1> QED BY <1>1, NSecPos DEF ClockGettime, Timespecs, Nanosec

LEMMA NanosecNat == ASSUME NEW ts \in Timespecs PROVE Nanosec(ts) \in Nat
  <1>1. ts.sec \in Nat /\ ts.nsec \in Nat
    BY NSecPos DEF Timespecs
  <1>2. ts.sec * NSEC_PER_SEC \in Nat
    BY <1>1, NSecPos, MulNat
  <1> QED BY <1>1, <1>2 DEF Nanosec

(* next += interval; tsnorm(&next) moves the deadline by exactly one       *)
(* interval and keeps it normalised.                                       *)
LEMMA AdvanceLemma ==
    ASSUME NEW ts \in Timespecs, NEW u \in Nat
    PROVE  /\ Advance(ts, u) \in Timespecs
           /\ Nanosec(Advance(ts, u)) = Nanosec(ts) + u * NSEC_PER_USEC
  <1> DEFINE s == u \div USEC_PER_SEC
             r == u % USEC_PER_SEC
             n == NSEC_PER_SEC
  <1>1. /\ s \in Nat /\ r \in 0 .. USEC_PER_SEC - 1
        /\ u = USEC_PER_SEC * s + r
    BY UnitsAssumption, DivMod
  <1>2. r * NSEC_PER_USEC \in 0 .. n - 1
    <2>1. r \in Nat /\ r + 1 <= USEC_PER_SEC
      BY <1>1, UnitsAssumption
    <2>2. (r + 1) * NSEC_PER_USEC <= USEC_PER_SEC * NSEC_PER_USEC
      BY <2>1, MulMono, UnitsAssumption
    <2>3. (r + 1) * NSEC_PER_USEC = r * NSEC_PER_USEC + NSEC_PER_USEC
      BY <2>1, UnitsAssumption
    <2>4. r * NSEC_PER_USEC \in Nat
      BY <2>1, UnitsAssumption, MulNat
    <2>5. USEC_PER_SEC * NSEC_PER_USEC = n
      BY UnitsAssumption DEF NSEC_PER_SEC
    <2> HIDE DEF n, r
    <2> QED BY <2>2, <2>3, <2>4, <2>5, UnitsAssumption
  <1>3. u * NSEC_PER_USEC = s * n + r * NSEC_PER_USEC
    <2>1. u * NSEC_PER_USEC = (USEC_PER_SEC * s) * NSEC_PER_USEC + r * NSEC_PER_USEC
      BY <1>1, UnitsAssumption
    <2>2. (USEC_PER_SEC * s) * NSEC_PER_USEC = s * n
      BY <1>1, UnitsAssumption DEF NSEC_PER_SEC
    <2> QED BY <2>1, <2>2
  <1>4. ts.sec \in Nat /\ ts.nsec \in 0 .. n - 1 /\ n \in Nat \ {0}
    BY NSecPos DEF Timespecs
  <1> DEFINE i == r * NSEC_PER_USEC
             sum == [sec |-> ts.sec + s, nsec |-> ts.nsec + i]
  <1>5. Advance(ts, u) = tsnorm(sum)
    BY DEF Advance, IntervalTimespec
  <1> HIDE DEF s, r, n, i
  <1>6. i \in 0 .. n - 1 /\ u * NSEC_PER_USEC = s * n + i
    BY <1>2, <1>3 DEF i
  <1>7. n = NSEC_PER_SEC
    BY DEF n
  <1>8. sum.sec = ts.sec + s /\ sum.nsec = ts.nsec + i
    OBVIOUS
  <1>9. CASE ts.nsec + i >= n
    <2>1. Advance(ts, u) = [sec |-> ts.sec + s + 1, nsec |-> ts.nsec + i - n]
      BY <1>1, <1>4, <1>5, <1>6, <1>7, <1>8, <1>9 DEF tsnorm
    <2>2. Advance(ts, u) \in Timespecs
      BY <2>1, <1>1, <1>4, <1>6, <1>7, <1>9 DEF Timespecs
    <2>3. (ts.sec + s + 1) * n = ts.sec * n + s * n + n
      BY <1>1, <1>4
    <2>4. Nanosec(Advance(ts, u)) = (ts.sec + s + 1) * n + (ts.nsec + i - n)
      BY <2>1, <1>7 DEF Nanosec
    <2>5. ts.sec * n \in Nat /\ s * n \in Nat
      BY <1>1, <1>4, MulNat
    <2>6. Nanosec(ts) = ts.sec * n + ts.nsec
      BY <1>7 DEF Nanosec
    <2>7. \A p, q \in Nat : p + q + n + (ts.nsec + i - n) = p + ts.nsec + (q + i)
      BY <1>4, <1>6
    <2> QED BY <2>2, <2>3, <2>4, <2>5, <2>6, <2>7, <1>6
  <1>10. CASE ~(ts.nsec + i >= n)
    <2>1. Advance(ts, u) = [sec |-> ts.sec + s, nsec |-> ts.nsec + i]
      BY <1>5, <1>7, <1>8, <1>10 DEF tsnorm
    <2>2. Advance(ts, u) \in Timespecs
      BY <2>1, <1>1, <1>4, <1>6, <1>7, <1>10 DEF Timespecs
    <2>3. (ts.sec + s) * n = ts.sec * n + s * n
      BY <1>1, <1>4
    <2>4. Nanosec(Advance(ts, u)) = (ts.sec + s) * n + (ts.nsec + i)
      BY <2>1, <1>7 DEF Nanosec
    <2>5. ts.sec * n \in Nat /\ s * n \in Nat
      BY <1>1, <1>4, MulNat
    <2>6. Nanosec(ts) = ts.sec * n + ts.nsec
      BY <1>7 DEF Nanosec
    <2> QED BY <2>2, <2>3, <2>4, <2>5, <2>6, <1>4, <1>6
  <1> QED BY <1>9, <1>10

(* calcdiff() is off by less than a microsecond, so it is not negative for *)
(* a wake-up at or after the deadline.                                     *)
LEMMA CalcdiffLemma ==
    ASSUME NEW t1 \in Timespecs, NEW t2 \in Timespecs
    PROVE  LET d == calcdiff(t1, t2)
               ns == Nanosec(t1) - Nanosec(t2)
           IN  /\ d \in Int
               /\ d * NSEC_PER_USEC < ns + NSEC_PER_USEC
               /\ ns < d * NSEC_PER_USEC + NSEC_PER_USEC
               /\ ns >= 0 => d \in Nat
  <1> DEFINE k == NSEC_PER_USEC
             ds == t1.sec - t2.sec
             dn == t1.nsec - t2.nsec
             q == CDiv(dn, k)
             d == calcdiff(t1, t2)
             ns == Nanosec(t1) - Nanosec(t2)
  <1>1. /\ t1.sec \in Nat /\ t2.sec \in Nat /\ t1.nsec \in Nat /\ t2.nsec \in Nat
        /\ k \in Nat \ {0} /\ USEC_PER_SEC \in Nat /\ NSEC_PER_SEC \in Nat
    BY NSecPos, UnitsAssumption DEF Timespecs
  <1>2. ds \in Int /\ dn \in Int
    BY <1>1
  <1>3. q \in Int /\ q * k < dn + k /\ dn < q * k + k
    BY <1>1, <1>2, CDivBound
  <1>4. d = USEC_PER_SEC * ds + q
    BY DEF calcdiff
  <1>5. ns = ds * NSEC_PER_SEC + dn
    <2>1. ns = (t1.sec * NSEC_PER_SEC + t1.nsec) - (t2.sec * NSEC_PER_SEC + t2.nsec)
      BY DEF Nanosec
    <2>2. ds * NSEC_PER_SEC = t1.sec * NSEC_PER_SEC - t2.sec * NSEC_PER_SEC
      BY <1>1
    <2>3. t1.sec * NSEC_PER_SEC \in Nat /\ t2.sec * NSEC_PER_SEC \in Nat
      BY <1>1, MulNat
    <2> QED BY <2>1, <2>2, <2>3, <1>1
  <1>6. d * k = ds * NSEC_PER_SEC + q * k
    <2>1. d * k = (USEC_PER_SEC * ds) * k + q * k
      BY <1>1, <1>2, <1>3, <1>4
    <2>2. (USEC_PER_SEC * ds) * k = ds * NSEC_PER_SEC
      BY <1>1, <1>2 DEF NSEC_PER_SEC
    <2> QED BY <2>1, <2>2
  <1>7. d \in Int /\ ds * NSEC_PER_SEC \in Int /\ q * k \in Int
    BY <1>1, <1>2, <1>3, <1>4
  <1> HIDE DEF k, ds, dn, q, d, ns
  <1>8. d * k < ns + k /\ ns < d * k + k
    BY <1>1, <1>2, <1>3, <1>5, <1>6, <1>7
  <1>9. ASSUME ns >= 0 PROVE d \in Nat
    <2>1. d * k > -k
      BY <1>9, <1>8, <1>1, <1>2, <1>5, <1>6, <1>7
    <2> QED BY <2>1, MulNeg, <1>1, <1>7
  <1> QED BY <1>7, <1>8, <1>9 DEF k, d, ns

-----------------------------------------------------------------------------
(* The inductive invariant, in four parts.                                 *)

(* How far the two threads can be apart: what thread_started tells main(). *)
LifeCycle ==
    /\ tpc = "none" <=> mpc \in {"create", "exit_fail_mem", "exit_fail_pthread"}
    /\ tpc \in {"alloc", "sched", "start"} => thread_started = 1
    /\ tpc \in PacingPoints => thread_started = 2
    /\ tpc \in {"out", "merr", "mark"} => thread_started \in {1, 2}
    /\ mpc \in {"free", "return", "exit_ok"} => tpc = "done"
    /\ freed => mpc \in {"return", "exit_ok"}

Period == Interval * NSEC_PER_USEC

(* The deadline, the clock and the packets sent, at each program point.    *)
Schedule ==
    /\ tpc \in {"none", "alloc", "sched", "start"} =>
           cycles = 0 /\ sent = 0 /\ start = 0
    /\ tpc \in PacingPoints =>
           /\ start <= clock
           /\ cycles * Period <= clock - start
           /\ sent <= Batch * cycles
    /\ tpc \in {"check", "nanosleep", "sleeping", "woken"} =>
           Nanosec(next) = start + (cycles + 1) * Period
    /\ tpc \in {"send", "advance"} => Nanosec(next) = start + cycles * Period
    /\ tpc = "woken" => clock >= Nanosec(next)
    /\ tpc = "send" => cycles >= 1 /\ sent <= Batch * (cycles - 1)

(* Cycles left under --count.                                              *)
CountLeft ==
    max_cycles # 0 =>
        /\ cycles <= max_cycles
        /\ tpc \notin {"send", "advance", "out", "merr", "mark", "done"} =>
               cycles < max_cycles

(* Cycles begun since the shutdown request.                                *)
LateLeft ==
    /\ ~shutdown_global => lateCycles = 0
    /\ tpc \in {"none", "alloc", "sched", "start", "nanosleep", "sleeping", "woken"} =>
           lateCycles = 0
    /\ lateCycles <= 1

IInv == TypeOK /\ LifeCycle /\ Schedule /\ CountLeft /\ LateLeft /\ LatencyAccurate

LEMMA PeriodNat == Period \in Nat
  BY PacerAssumption, UnitsAssumption, MulNat DEF Period

LEMMA EpochType == Epoch \in Timespecs
  BY NSecPos DEF Epoch, Timespecs

(* The inductive invariant holds when main() starts.                       *)
THEOREM InitIInv == Init => IInv
  <1> SUFFICES ASSUME Init PROVE IInv
    OBVIOUS
  <1> USE DEF Init
  <1>1. TypeOK
    <2>1. mpc \in MainPoints /\ tpc \in ThreadPoints
      BY DEF MainPoints, ThreadPoints
    <2>2. signals \in 0 .. MaxSignals /\ clock \in Nat /\ thread_started \in -1 .. 2
      BY PacerAssumption
    <2> QED BY <2>1, <2>2, EpochType DEF TypeOK
  <1>2. LifeCycle /\ CountLeft /\ LateLeft /\ LatencyAccurate
    BY PacerAssumption
       DEF LifeCycle, CountLeft, LateLeft, LatencyAccurate, PacingPoints
  <1>3. Schedule
    BY DEF Schedule, PacingPoints
  <1> QED BY <1>1, <1>2, <1>3 DEF IInv

LEMMA LifeCycleStep == TypeOK /\ LifeCycle /\ [Next]_vars => LifeCycle'
  <1> SUFFICES ASSUME TypeOK, LifeCycle, [Next]_vars PROVE LifeCycle'
    OBVIOUS
  <1> USE DEF LifeCycle, PacingPoints
  <1>1. CASE Main
    BY <1>1 DEF Main, setup_pthread, setup_pthread_fails, MainSeesShutdown,
       MainKill, MainJoin, MainFree, MainReturn, statVars, timeVars, TypeOK,
       ThreadPoints
  <1>2. CASE Timer
    <2>1. CASE ThreadAlloc \/ ThreadSched \/ ThreadStart \/ ThreadCheck \/ ThreadSleep
      BY <2>1 DEF ThreadAlloc, ThreadSched, ThreadStart, ThreadCheck, ThreadSleep,
         Goto, statVars, timeVars
    <2>2. CASE ThreadWake \/ ThreadClockError \/ ThreadAccount \/ socket_send
      BY <2>2 DEF ThreadWake, ThreadClockError, ThreadAccount, socket_send,
         Goto, statVars, timeVars
    <2>3. CASE ThreadAdvance \/ ThreadOut \/ ThreadShutdown \/ ThreadMark
      BY <2>3 DEF ThreadAdvance, ThreadOut, ThreadShutdown, ThreadMark,
         Goto, statVars, timeVars
    <2> QED BY <1>2, <2>1, <2>2, <2>3 DEF Timer
  <1>3. CASE UserSignal \/ KillDelivered
    BY <1>3 DEF UserSignal, KillDelivered, sighand_timer, ThreadAlive, statVars, timeVars
  <1>4. CASE Tick \/ UNCHANGED vars
    BY <1>4 DEF Tick, vars, statVars, timeVars
  <1> QED BY <1>1, <1>2, <1>3, <1>4 DEF Next, Terminated, AwaitSignal

LEMMA CountLeftStep ==
    TypeOK /\ LifeCycle /\ Schedule /\ CountLeft /\ [Next]_vars => CountLeft'
  <1> SUFFICES ASSUME TypeOK, LifeCycle, Schedule, CountLeft, [Next]_vars
               PROVE  CountLeft'
    OBVIOUS
  <1>0. max_cycles \in Nat /\ cycles \in Nat
    BY PacerAssumption DEF TypeOK
  <1> USE DEF CountLeft
  <1>1. CASE Main
    BY <1>0, <1>1 DEF Main, setup_pthread, setup_pthread_fails, MainSeesShutdown,
       MainKill, MainJoin, MainFree, MainReturn, statVars, timeVars, LifeCycle
  <1>2. CASE Timer
    <2>1. CASE ThreadAlloc \/ ThreadSched \/ ThreadStart \/ ThreadCheck \/ ThreadSleep
      BY <1>0, <2>1 DEF ThreadAlloc, ThreadSched, ThreadStart, ThreadCheck,
         ThreadSleep, Goto, statVars, timeVars
    <2>2. CASE ThreadWake \/ ThreadClockError \/ ThreadAccount \/ socket_send
      BY <1>0, <2>2 DEF ThreadWake, ThreadClockError, ThreadAccount, socket_send,
         Goto, statVars, timeVars
    <2>3. CASE ThreadAdvance \/ ThreadOut \/ ThreadShutdown \/ ThreadMark
      BY <1>0, <2>3 DEF ThreadAdvance, ThreadOut, ThreadShutdown, ThreadMark,
         Goto, statVars, timeVars
    <2> QED BY <1>2, <2>1, <2>2, <2>3 DEF Timer
  <1>3. CASE UserSignal \/ KillDelivered
    BY <1>0, <1>3 DEF UserSignal, KillDelivered, sighand_timer, ThreadAlive,
       statVars, timeVars
  <1>4. CASE Tick \/ UNCHANGED vars
    BY <1>0, <1>4 DEF Tick, vars, statVars, timeVars
  <1> QED BY <1>1, <1>2, <1>3, <1>4 DEF Next, Terminated, AwaitSignal

LEMMA LateLeftStep == TypeOK /\ LifeCycle /\ LateLeft /\ [Next]_vars => LateLeft'
  <1> SUFFICES ASSUME TypeOK, LifeCycle, LateLeft, [Next]_vars PROVE LateLeft'
    OBVIOUS
  <1>0. lateCycles \in Nat
    BY DEF TypeOK
  <1> USE DEF LateLeft
  <1>1. CASE Main
    BY <1>0, <1>1 DEF Main, setup_pthread, setup_pthread_fails, MainSeesShutdown,
       MainKill, MainJoin, MainFree, MainReturn, statVars, timeVars, LifeCycle
  <1>2. CASE Timer
    <2>1. CASE ThreadAlloc \/ ThreadSched \/ ThreadStart \/ ThreadCheck \/ ThreadSleep
      BY <1>0, <2>1 DEF ThreadAlloc, ThreadSched, ThreadStart, ThreadCheck,
         ThreadSleep, Goto, statVars, timeVars
    <2>2. CASE ThreadWake \/ ThreadClockError \/ ThreadAccount \/ socket_send
      BY <1>0, <2>2 DEF ThreadWake, ThreadClockError, ThreadAccount, socket_send,
         Goto, statVars, timeVars
    <2>3. CASE ThreadAdvance \/ ThreadOut \/ ThreadShutdown \/ ThreadMark
      BY <1>0, <2>3 DEF ThreadAdvance, ThreadOut, ThreadShutdown, ThreadMark,
         Goto, statVars, timeVars
    <2> QED BY <1>2, <2>1, <2>2, <2>3 DEF Timer
  <1>3. CASE UserSignal \/ KillDelivered
    BY <1>0, <1>3 DEF UserSignal, KillDelivered, sighand_timer, ThreadAlive,
       statVars, timeVars
  <1>4. CASE Tick \/ UNCHANGED vars
    BY <1>0, <1>4 DEF Tick, vars, statVars, timeVars
  <1> QED BY <1>1, <1>2, <1>3, <1>4 DEF Next, Terminated, AwaitSignal

(* What one wake-up measures: the clock is at or past the deadline.        *)
LEMMA AccountLemma ==
    ASSUME TypeOK, Schedule, ThreadAccount
    PROVE  LET diff == calcdiff(ClockGettime(clock), next)
               ns == clock - Nanosec(next)
           IN  /\ diff \in Nat
               /\ diff * NSEC_PER_USEC < ns + NSEC_PER_USEC
               /\ ns < diff * NSEC_PER_USEC + NSEC_PER_USEC
               /\ now' \in Timespecs /\ Nanosec(now') = clock
               /\ now' = ClockGettime(clock)
  <1>1. clock \in Nat /\ next \in Timespecs /\ tpc = "woken" /\ clock >= Nanosec(next)
    BY DEF TypeOK, Schedule, ThreadAccount, Goto
  <1>2. ClockGettime(clock) \in Timespecs /\ Nanosec(ClockGettime(clock)) = clock
    BY <1>1, ClockGettimeLemma
  <1>3. clock - Nanosec(next) >= 0
    BY <1>1, NanosecNat
  <1>4. now' = ClockGettime(clock)
    BY DEF ThreadAccount
  <1> QED BY <1>1, <1>2, <1>3, <1>4, CalcdiffLemma

LEMMA TypeOKStep ==
    TypeOK /\ LifeCycle /\ Schedule /\ [Next]_vars => TypeOK'
  <1> SUFFICES ASSUME TypeOK, LifeCycle, Schedule, [Next]_vars PROVE TypeOK'
    OBVIOUS
  <1> USE DEF TypeOK
  <1>1. CASE Main
    <2> USE DEF statVars, timeVars
    <2>1. CASE setup_pthread
      BY <2>1, PacerAssumption DEF setup_pthread, MainPoints, ThreadPoints
    <2>2. CASE setup_pthread_fails \/ MainSeesShutdown \/ MainJoin \/ MainReturn
      BY <2>2 DEF setup_pthread_fails, MainSeesShutdown, MainJoin, MainReturn,
         MainPoints
    <2>3. CASE MainKill
      <3>1. killPending' \in BOOLEAN
        BY <2>3, Zenon DEF MainKill
      <3>2. mpc' \in MainPoints
        BY <2>3 DEF MainKill, MainPoints
      <3> QED BY <2>3, <3>1, <3>2 DEF MainKill
    <2>4. CASE MainFree
      <3>1. mpc' \in MainPoints /\ freed' \in BOOLEAN
        BY <2>4 DEF MainFree, MainPoints
      <3> QED BY <2>4, <3>1 DEF MainFree
    <2> QED BY <1>1, <2>1, <2>2, <2>3, <2>4 DEF Main
  <1>2. CASE Timer
    <2> USE DEF ThreadPoints, PacingPoints, Goto, statVars, timeVars
    <2>1. CASE ThreadAlloc \/ ThreadSched \/ ThreadCheck \/ ThreadSleep
      BY <2>1 DEF ThreadAlloc, ThreadSched, ThreadCheck, ThreadSleep
    <2>2. CASE ThreadStart
      <3>1. now' \in Timespecs /\ next' \in Timespecs
        BY <2>2, ClockGettimeLemma, AdvanceLemma, PacerAssumption DEF ThreadStart
      <3>2. thread_started' \in -1 .. 2
        BY <2>2 DEF ThreadStart, LifeCycle
      <3> QED BY <2>2, <3>1, <3>2 DEF ThreadStart
    <2>3. CASE ThreadWake \/ ThreadClockError
      BY <2>3 DEF ThreadWake, ThreadClockError
    <2>4. CASE ThreadAccount
      <3>1. calcdiff(ClockGettime(clock), next) \in Nat /\ now' \in Timespecs
        BY <2>4, AccountLemma
      <3>2. min' \in Nat /\ max' \in Nat /\ act' \in Nat /\ cycles' \in Nat
            /\ lateCycles' \in Nat
        BY <2>4, <3>1 DEF ThreadAccount
      <3> QED BY <2>4, <3>1, <3>2 DEF ThreadAccount
    <2>5. CASE socket_send
      BY <2>5, PacerAssumption DEF socket_send
    <2>6. CASE ThreadAdvance
      <3>1. next' \in Timespecs
        BY <2>6, AdvanceLemma, PacerAssumption DEF ThreadAdvance
      <3> QED BY <2>6, <3>1 DEF ThreadAdvance
    <2>7. CASE ThreadOut \/ ThreadShutdown \/ ThreadMark
      <3>1. CASE ThreadOut
        BY <3>1 DEF ThreadOut
      <3>2. CASE ThreadShutdown
        BY <3>2 DEF ThreadShutdown
      <3>3. CASE ThreadMark
        <4>1. thread_started' \in -1 .. 2 /\ tpc' \in ThreadPoints
          BY <3>3 DEF ThreadMark
        <4>2. killPending' \in BOOLEAN
          BY <3>3 DEF ThreadMark
        <4> QED BY <3>3, <4>1, <4>2 DEF ThreadMark
      <3> QED BY <2>7, <3>1, <3>2, <3>3
    <2> QED BY <1>2, <2>1, <2>2, <2>3, <2>4, <2>5, <2>6, <2>7 DEF Timer
  <1>3. CASE UserSignal \/ KillDelivered
    <2> USE DEF statVars, timeVars
    <2>1. tpc' \in ThreadPoints
      BY <1>3 DEF UserSignal, KillDelivered, sighand_timer, ThreadPoints
    <2>2. shutdown_global' \in BOOLEAN /\ killPending' \in BOOLEAN
      BY <1>3 DEF UserSignal, KillDelivered, sighand_timer
    <2>3. signals' \in 0 .. MaxSignals
      BY <1>3, PacerAssumption DEF UserSignal, KillDelivered
    <2> QED BY <1>3, <2>1, <2>2, <2>3 DEF UserSignal, KillDelivered
  <1>4. CASE Tick \/ UNCHANGED vars
    BY <1>4 DEF Tick, vars, statVars, timeVars
  <1> QED BY <1>1, <1>2, <1>3, <1>4 DEF Next, Terminated, AwaitSignal

LEMMA ScheduleStep ==
    TypeOK /\ LifeCycle /\ Schedule /\ [Next]_vars => Schedule'
  <1> SUFFICES ASSUME TypeOK, LifeCycle, Schedule, [Next]_vars PROVE Schedule'
    OBVIOUS
  <1>0. /\ clock \in Nat /\ start \in Nat /\ cycles \in Nat /\ sent \in Nat
        /\ next \in Timespecs /\ Nanosec(next) \in Nat
        /\ Period \in Nat /\ Batch \in Nat
    BY PeriodNat, PacerAssumption, NanosecNat DEF TypeOK
  <1> USE DEF Schedule, PacingPoints
  <1>1. CASE Main
    BY <1>0, <1>1 DEF Main, setup_pthread, setup_pthread_fails, MainSeesShutdown,
       MainKill, MainJoin, MainFree, MainReturn, statVars, timeVars, LifeCycle
  <1>2. CASE Timer
    <2> USE DEF Goto, statVars, timeVars
    <2>1. CASE ThreadAlloc \/ ThreadSched \/ ThreadCheck \/ ThreadSleep
      BY <1>0, <2>1 DEF ThreadAlloc, ThreadSched, ThreadCheck, ThreadSleep
    <2>2. CASE ThreadStart
      <3>1. Nanosec(next') = clock + Period
        <4>1. now' \in Timespecs /\ Nanosec(now') = clock
          BY <1>0, <2>2, ClockGettimeLemma DEF ThreadStart
        <4> QED BY <4>1, <2>2, AdvanceLemma, PacerAssumption DEF ThreadStart, Period
      <3>2. cycles = 0 /\ sent = 0 /\ start' = clock /\ tpc' = "check"
            /\ cycles' = 0 /\ sent' = 0 /\ clock' = clock
        BY <2>2 DEF ThreadStart
      <3>3. 0 * Period = 0 /\ (0 + 1) * Period = Period /\ Batch * 0 = 0
        BY <1>0
      <3> QED BY <1>0, <3>1, <3>2, <3>3
    <2>3. CASE ThreadWake \/ ThreadClockError
      BY <1>0, <2>3 DEF ThreadWake, ThreadClockError
    <2>4. CASE ThreadAccount
      <3>1. /\ tpc = "woken" /\ tpc' = "send" /\ cycles' = cycles + 1
            /\ clock >= Nanosec(next) /\ Nanosec(next) = start + (cycles + 1) * Period
            /\ sent <= Batch * cycles
            /\ UNCHANGED <<next, start, clock, sent>>
        BY <2>4 DEF ThreadAccount
      <3>2. Nanosec(next') = start' + cycles' * Period
        BY <3>1
      <3>3. cycles' * Period <= clock' - start'
        BY <3>1, <1>0, MulNat
      <3>4. cycles' - 1 = cycles /\ cycles' >= 1
        BY <3>1, <1>0
      <3>5. Batch * cycles' = Batch * cycles + Batch
        BY <3>1, <1>0
      <3>6. sent' <= Batch * (cycles' - 1) /\ sent' <= Batch * cycles'
        BY <3>1, <3>4, <3>5, <1>0, MulNat
      <3> QED BY <1>0, <3>1, <3>2, <3>3, <3>4, <3>6
    <2>5. CASE socket_send
      <3>1. PICK cnt \in 0 .. Batch : sent' = sent + cnt
        BY <2>5 DEF socket_send
      <3>2. Batch * cycles = Batch * (cycles - 1) + Batch
        BY <1>0
      <3>3. sent <= Batch * (cycles - 1) /\ Batch * (cycles - 1) \in Int
        BY <1>0, <2>5 DEF socket_send
      <3>4. sent' <= Batch * cycles
        BY <1>0, <3>1, <3>2, <3>3
      <3> QED BY <1>0, <2>5, <3>4 DEF socket_send
    <2>6. CASE ThreadAdvance
      <3>1. Nanosec(next') = Nanosec(next) + Period
        BY <1>0, <2>6, AdvanceLemma, PacerAssumption DEF ThreadAdvance, Period
      <3>2. (cycles + 1) * Period = cycles * Period + Period /\ cycles * Period \in Nat
        BY <1>0, MulNat
      <3>3. Nanosec(next') = start + (cycles + 1) * Period
        BY <1>0, <2>6, <3>1, <3>2 DEF ThreadAdvance
      <3> QED BY <1>0, <2>6, <3>3 DEF ThreadAdvance
    <2>7. CASE ThreadOut \/ ThreadShutdown \/ ThreadMark
      BY <1>0, <2>7 DEF ThreadOut, ThreadShutdown, ThreadMark
    <2> QED BY <1>2, <2>1, <2>2, <2>3, <2>4, <2>5, <2>6, <2>7 DEF Timer
  <1>3. CASE UserSignal \/ KillDelivered
    BY <1>0, <1>3 DEF UserSignal, KillDelivered, sighand_timer,
       ThreadAlive, statVars, timeVars
  <1>4. CASE Tick
    <2>1. /\ clock' = clock + 1
          /\ UNCHANGED <<tpc, cycles, sent, start, next>>
      BY <1>4 DEF Tick, statVars, timeVars
    <2>2. cycles * Period \in Nat
      BY <1>0, MulNat
    <2> QED BY <1>0, <2>1, <2>2
  <1>5. CASE UNCHANGED vars
    BY <1>5 DEF vars, statVars, timeVars
  <1> QED BY <1>1, <1>2, <1>3, <1>4, <1>5 DEF Next, Terminated, AwaitSignal

LEMMA LatencyStep ==
    TypeOK /\ Schedule /\ LatencyAccurate /\ [Next]_vars => LatencyAccurate'
  <1> SUFFICES ASSUME TypeOK, Schedule, LatencyAccurate, [Next]_vars
               PROVE  LatencyAccurate'
    OBVIOUS
  <1>1. CASE ThreadAccount
    <2> DEFINE diff == calcdiff(ClockGettime(clock), next)
    <2>1. /\ diff \in Nat
          /\ diff * NSEC_PER_USEC < (clock - Nanosec(next)) + NSEC_PER_USEC
          /\ clock - Nanosec(next) < diff * NSEC_PER_USEC + NSEC_PER_USEC
          /\ Nanosec(now') = clock
      BY <1>1, AccountLemma
    <2>2. act' = diff /\ next' = next
          /\ min' = (IF diff < min THEN diff ELSE min)
          /\ max' = (IF diff > max THEN diff ELSE max)
      BY <1>1 DEF ThreadAccount
    <2> HIDE DEF diff
    <2>3. min' <= act' /\ act' <= max'
      BY <2>1, <2>2 DEF TypeOK
    <2> QED BY <2>1, <2>2, <2>3 DEF LatencyAccurate
  <1>2. CASE tpc' # "send"
    BY <1>2 DEF LatencyAccurate
  <1>3. CASE ~ThreadAccount /\ tpc' = "send"
    <2>1. UNCHANGED <<tpc, now, next, min, max, act>>
      BY <1>3 DEF Next, Main, Timer, setup_pthread, setup_pthread_fails,
         MainSeesShutdown, MainKill, MainJoin, MainFree, MainReturn,
         ThreadAlloc, ThreadSched, ThreadStart, ThreadCheck, ThreadSleep,
         ThreadWake, ThreadClockError, socket_send, ThreadAdvance, ThreadOut,
         ThreadShutdown, ThreadMark, UserSignal, KillDelivered, sighand_timer,
         Tick, Terminated, AwaitSignal, Goto, vars, statVars, timeVars
    <2> QED BY <1>3, <2>1 DEF LatencyAccurate
  <1> QED BY <1>1, <1>2, <1>3

(* The inductive invariant holds in every reachable state, for every       *)
(* interval, batch, count and clock.                                       *)
THEOREM Inductive == Spec => []IInv
  <1>1. IInv /\ [Next]_vars => IInv'
    BY TypeOKStep, LifeCycleStep, ScheduleStep, CountLeftStep, LateLeftStep,
       LatencyStep DEF IInv
  <1> QED BY InitIInv, <1>1, PTL DEF Spec

(* TypeOK: next stays normalised and no latency is a wrapped negative      *)
(* number, for every interval and every unit size.                         *)
THEOREM TypeCorrect == Spec => []TypeOK
  <1>1. IInv => TypeOK
    BY DEF IInv
  <1> QED BY Inductive, <1>1, PTL

(* The thread has returned before main() frees what it dereferences.       *)
THEOREM FreeIsSafe == Spec => []NoUseAfterFree
  <1>1. IInv => NoUseAfterFree
    BY DEF IInv, LifeCycle, NoUseAfterFree
  <1> QED BY Inductive, <1>1, PTL

(* The schedule never drifts.                                              *)
THEOREM DriftFree == Spec => []NoDrift
  <1>1. IInv => NoDrift
    <2> SUFFICES ASSUME IInv, tpc \in PacingPoints \ {"send", "advance"}
                 PROVE  Nanosec(next) = start + (cycles + 1) * Interval * NSEC_PER_USEC
      BY DEF NoDrift
    <2>1. Nanosec(next) = start + (cycles + 1) * Period
      BY DEF IInv, Schedule, PacingPoints
    <2>2. (cycles + 1) * Period = (cycles + 1) * Interval * NSEC_PER_USEC
      BY PacerAssumption, UnitsAssumption DEF IInv, TypeOK, Period
    <2> QED BY <2>1, <2>2
  <1> QED BY Inductive, <1>1, PTL

(* The configured rate is an upper bound on the average rate at any time.  *)
THEOREM RateIsBounded == Spec => []RateBound
  <1>1. IInv => RateBound
    <2> SUFFICES ASSUME IInv, tpc \in PacingPoints
                 PROVE  sent * Interval * NSEC_PER_USEC <= Batch * (clock - start)
      BY DEF RateBound
    <2>1. /\ sent \in Nat /\ cycles \in Nat /\ clock - start \in Int
          /\ Period \in Nat /\ Batch \in Nat /\ cycles * Period \in Nat
      BY PeriodNat, MulNat, PacerAssumption DEF IInv, TypeOK
    <2>2. sent <= Batch * cycles /\ cycles * Period <= clock - start
      BY DEF IInv, Schedule
    <2>3. sent * Period <= (Batch * cycles) * Period
      BY <2>1, <2>2, MulMono, MulNat
    <2>4. (Batch * cycles) * Period = (cycles * Period) * Batch
      BY <2>1
    <2>5. (cycles * Period) * Batch <= (clock - start) * Batch
      BY <2>1, <2>2, MulMono
    <2>6. (clock - start) * Batch = Batch * (clock - start)
      BY <2>1
    <2>7. sent * Interval * NSEC_PER_USEC = sent * Period
      BY <2>1, PacerAssumption, UnitsAssumption DEF Period
    <2>8. /\ sent * Period \in Int /\ (Batch * cycles) * Period \in Int
          /\ (clock - start) * Batch \in Int
      BY <2>1
    <2> QED BY <2>3, <2>4, <2>5, <2>6, <2>7, <2>8
  <1> QED BY Inductive, <1>1, PTL

(* The reported latency is exact to a microsecond.                         *)
THEOREM LatencyIsAccurate == Spec => []LatencyAccurate
  <1>1. IInv => LatencyAccurate
    BY DEF IInv
  <1> QED BY Inductive, <1>1, PTL

(* --count bounds the cycles, and shutdown lets at most one more through.  *)
THEOREM CyclesAreBounded == Spec => [](CountRespected /\ OneBatchAfterShutdown)
  <1>1. IInv => CountRespected /\ OneBatchAfterShutdown
    BY DEF IInv, CountLeft, LateLeft, CountRespected, OneBatchAfterShutdown
  <1> QED BY Inductive, <1>1, PTL

(* Every step of the two threads, the handler and the clock is a step of   *)
(* the abstract pacer, or leaves what it speaks of alone.                  *)
THEOREM Refinement == Spec => ImplementsPacedSender
  <1>1. Init => Abstract!Init
    <2> SUFFICES ASSUME Init PROVE Abstract!Init
      OBVIOUS
    <2>1. Phase = "setup"
      BY DEF Init, Phase, PacingPoints
    <2> QED BY <2>1, PacerAssumption DEF Init, Abstract!Init
  <1>2. IInv /\ [Next]_vars => [Abstract!Next]_(Abstract!vars)
    <2> SUFFICES ASSUME IInv, [Next]_vars
                 PROVE  [Abstract!Next]_(Abstract!vars)
      OBVIOUS
    <2> USE DEF Abstract!vars, Phase, PacingPoints
    <2>1. CASE Main
      BY <2>1 DEF Main, setup_pthread, setup_pthread_fails, MainSeesShutdown,
         MainKill, MainJoin, MainFree, MainReturn, statVars, timeVars, IInv, LifeCycle
    <2>2. CASE Timer
      <3> USE DEF Goto, statVars, timeVars
      <3>1. CASE ThreadStart
        BY <3>1 DEF ThreadStart, Abstract!Begin, Abstract!Next
      <3>2. CASE ThreadAccount
        <4>1. clock >= start + (cycles + 1) * Period
          BY <3>2 DEF ThreadAccount, IInv, Schedule
        <4>2. Abstract!Emit
          BY <3>2, <4>1 DEF ThreadAccount, Abstract!Emit, Period
        <4> QED BY <4>2 DEF Abstract!Next
      <3>3. CASE ThreadAlloc \/ ThreadSched \/ ThreadCheck \/ ThreadSleep
                 \/ ThreadWake \/ ThreadClockError
        BY <3>3 DEF ThreadAlloc, ThreadSched, ThreadCheck, ThreadSleep, ThreadWake,
           ThreadClockError, Abstract!Stop, Abstract!Next
      <3>4. CASE socket_send \/ ThreadAdvance \/ ThreadOut \/ ThreadShutdown
                 \/ ThreadMark
        BY <3>4 DEF socket_send, ThreadAdvance, ThreadOut, ThreadShutdown,
           ThreadMark, Abstract!Stop, Abstract!Next
      <3> QED BY <2>2, <3>1, <3>2, <3>3, <3>4 DEF Timer
    <2>3. CASE UserSignal \/ KillDelivered
      BY <2>3 DEF UserSignal, KillDelivered, sighand_timer, statVars, timeVars,
         Abstract!Stop, Abstract!Next
    <2>4. CASE Tick
      <3>1. clock' > clock
        BY <2>4 DEF Tick, IInv, TypeOK
      <3> QED BY <2>4, <3>1 DEF Tick, statVars, timeVars, Abstract!Tick, Abstract!Next
    <2>5. CASE UNCHANGED vars
      BY <2>5 DEF vars, statVars, timeVars
    <2> QED BY <2>1, <2>2, <2>3, <2>4, <2>5 DEF Next, Terminated, AwaitSignal
  <1> QED BY Inductive, <1>1, <1>2, PTL DEF Spec, ImplementsPacedSender, Abstract!Spec
=============================================================================
