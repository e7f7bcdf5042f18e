---------------------------- MODULE ArraySearch ----------------------------
(***************************************************************************)
(* src/array_compare01.c: main() times five ways to find a value in the    *)
(* static array a[N].  The last two start where the previous search ended, *)
(* and wrap their index around with a comparison that is off by one: the   *)
(* words behind the array are read, and decide what happens next.          *)
(*                                                                         *)
(* An element is abstracted to whether it equals match.                    *)
(***************************************************************************)
EXTENDS Integers, FiniteSetsExt

CONSTANTS Arrays,   \* contents considered, a set of records
          LOOPS     \* searches per measurement

(* n is the compile-time N; hits are the elements equal to match; behind   *)
(* are the words after the array that happen to be equal to it.            *)
ArrayType == [n : Nat \ {0}, hits : SUBSET Nat, behind : SUBSET Nat]

ASSUME ArrayAssumption ==
    /\ Arrays \subseteq ArrayType /\ LOOPS \in Nat
    /\ \A x \in Arrays : /\ x.n - 1 \in x.hits /\ x.hits \subseteq 0 .. x.n - 1
                         /\ \A k \in x.behind : k >= x.n

VARIABLES
    a,             \* the array
    pc, f,         \* main(), and which of measure01 .. measure05
    j, last_index, \* the measurement's loop
    i, index, res, \* the search
    printed,       \* "match index[%d]" of each measurement
    reads,         \* history: indices read in this measurement
    cost,          \* history: elements read since the search was called
    missed         \* history: measure05 has just failed to find anything

vars == <<a, pc, f, j, last_index, i, index, res, printed, reads, cost, missed>>

(* a[k].data == match, and its reading.                                    *)
Hit(k) == k \in a.hits \cup a.behind
Read(k) == reads' = reads \cup {k} /\ cost' = cost + 1

Init ==
    /\ a \in Arrays
    /\ pc = "main" /\ f = 1 /\ j = 0 /\ last_index = 0
    /\ i = 0 /\ index = 0 /\ res = -1
    /\ printed = [m \in 1 .. 5 |-> -1]
    /\ reads = {} /\ cost = 0 /\ missed = FALSE

(* main(), time_func(): the next measurement.                              *)
Measure ==
    /\ pc = "main" /\ f <= 5
    /\ pc' = "loop" /\ j' = 0 /\ last_index' = 0 /\ res' = -1
    /\ reads' = {} /\ cost' = 0 /\ missed' = FALSE
    /\ UNCHANGED <<a, f, i, index, printed>>

(* The loop calls a search.  measure05 looks at the last index itself      *)
(* first, and goes on to the next one whatever it found.                   *)
Call ==
    /\ pc = "loop" /\ j < LOOPS
    /\ IF f = 5 /\ Hit(last_index)
       THEN /\ last_index' = last_index + 1 /\ j' = j + 1
            /\ reads' = reads \cup {last_index} /\ cost' = 1 /\ missed' = FALSE
            /\ UNCHANGED <<pc, i, index, res>>
       ELSE /\ pc' = "search" /\ i' = 0
            /\ index' = IF f \in {4, 5} THEN last_index ELSE 0
            /\ res' = IF f = 3 THEN 1 ELSE -1
            /\ reads' = IF f = 5 THEN reads \cup {last_index} ELSE reads
            /\ cost' = IF f = 5 THEN 1 ELSE 0
            /\ UNCHANGED <<j, last_index, missed>>
    /\ UNCHANGED <<a, f, printed>>

(* A search returns r to its measurement.                                  *)
MUT_Return(r) ==
    /\ pc' = "loop" /\ j' = j + 1 /\ res' = r
    /\ last_index' = IF f \in {4, 5} THEN r ELSE last_index
    /\ missed' = (f = 5 /\ r = -1)

Return(r) ==
    /\ pc' = "loop" /\ j' = j + 1 /\ res' = r
    /\ last_index' = CASE f = 4 -> r [] f = 5 -> r + 1 [] OTHER -> last_index
    /\ missed' = (f = 5 /\ r = -1)

NotFound == UNCHANGED <<pc, j, res, last_index, missed>> /\ i' = i + 1

(* array_index_match01() and 02(): == and ^ decide the same.               *)
Match01 ==
    /\ pc = "search" /\ f \in {1, 2} /\ i < a.n
    /\ Read(i)
    /\ IF Hit(i) THEN Return(i) /\ UNCHANGED i ELSE NotFound
    /\ UNCHANGED <<a, f, index, printed>>

(* array_index_match03(): the smallest difference, 0 for a hit, here 1 for *)
(* all others.                                                             *)
Match03 ==
    /\ pc = "search" /\ f = 3 /\ i < a.n
    /\ Read(i)
    /\ res' = IF Hit(i) THEN 0 ELSE res
    /\ i' = i + 1
    /\ UNCHANGED <<a, f, pc, j, last_index, index, printed, missed>>

(* array_index_match04(): index++ > N compares the index just read.        *)
MUT_Next04 == IF index >= a.n - 2 THEN 0 ELSE index + 1
Next04 == IF index > a.n THEN 0 ELSE index + 1

Match04 ==
    /\ pc = "search" /\ f = 4 /\ i < a.n
    /\ Read(index)
    /\ IF Hit(index) THEN Return(index) /\ UNCHANGED <<i, index>>
       ELSE NotFound /\ index' = Next04
    /\ UNCHANGED <<a, f, printed>>

(* array_index_match05(): index > N before the read.                       *)
MUT_Wrapped05 == IF index > a.n + 1 THEN 0 ELSE index
Wrapped05 == IF index > a.n THEN 0 ELSE index

Match05 ==
    /\ pc = "search" /\ f = 5 /\ i < a.n
    /\ Read(Wrapped05)
    /\ IF Hit(Wrapped05) THEN Return(Wrapped05) /\ UNCHANGED <<i, index>>
       ELSE NotFound /\ index' = Wrapped05 + 1
    /\ UNCHANGED <<a, f, printed>>

(* All N rounds are over: match03 returns its difference, the others -1.   *)
Exhausted ==
    /\ pc = "search" /\ i = a.n
    /\ Return(res)
    /\ UNCHANGED <<a, f, i, index, printed, reads, cost>>

(* The end of a measurement.                                               *)
Done ==
    /\ pc = "loop" /\ j = LOOPS
    /\ printed' = [printed EXCEPT ![f] = IF f \in {4, 5} THEN last_index ELSE res]
    /\ pc' = "main" /\ f' = f + 1
    /\ UNCHANGED <<a, j, last_index, i, index, res, reads, cost, missed>>

Ended == pc = "main" /\ f > 5 /\ UNCHANGED vars

Next ==
    \/ Measure \/ Call \/ Done \/ Ended
    \/ Match01 \/ Match03 \/ Match04 \/ Match05 \/ Exhausted

Spec == Init /\ [][Next]_vars

-----------------------------------------------------------------------------
(* The plain searches print the first element that matches; so does the    *)
(* one that starts from the last hit, although its wrap-around is wrong:   *)
(* it never gets there.  measure04 searches once; from then on every       *)
(* search ends at its first read, which is what remembering is for.        *)
RemembersFirstHit ==
    /\ \A m \in {1, 2, 4} : f > m /\ LOOPS > 0 => printed[m] = Min(a.hits)
    /\ f = 4 /\ pc = "loop" /\ j > 0 =>
          last_index = Min(a.hits) /\ (j > 1 => cost = 1)

(* Nothing outside a[N] is read by the first four.  measure05 always steps *)
(* behind the last element; how far is decided by the words there: to the  *)
(* first that does not match.                                              *)
ReadsContained ==
    /\ f <= 4 => reads \subseteq 0 .. a.n - 1
    /\ \A k \in reads : k > a.n => k - 1 \in a.behind

(* measure05 looks into a[N], so that a search misses the element that is  *)
(* there; the miss puts the index back to 0 and the next search finds it.  *)
NeverMissesTwice ==
    [][missed => ~missed' \/ j' = j]_vars
=============================================================================
