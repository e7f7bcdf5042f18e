------------------------- MODULE ArraySearchProofs -------------------------
EXTENDS ArraySearch, WellFoundedInduction, TLAPS

(* The element every search should find.                                   *)
First == Min(a.hits)

Types ==
    /\ a \in Arrays /\ pc \in {"main", "loop", "search"} /\ f \in 1 .. 6
    /\ j \in Nat /\ last_index \in Nat \cup {-1} /\ i \in Nat /\ index \in Nat
    /\ res \in Nat \cup {-1} /\ printed \in [1 .. 5 -> Int]
    /\ reads \subseteq Nat /\ cost \in Nat /\ missed \in BOOLEAN
    /\ pc # "main" => f <= 5

(* The plain searches have passed no hit.                                  *)
Scan ==
    f \in {1, 2} =>
        /\ pc = "search" => i <= First
        /\ pc = "loop" /\ j > 0 => res = First

(* array_index_match04() counts up from 0 once; after that it stands on    *)
(* the hit.                                                                *)
Remember ==
    f = 4 =>
        /\ pc \in {"loop", "search"} => last_index = (IF j = 0 THEN 0 ELSE First)
        /\ pc = "search" =>
              IF j = 0 THEN index = i /\ i <= First
              ELSE index = First /\ i = 0 /\ cost = 0

(* Where array_index_match05() may stand behind the array: after a hit.    *)
Beyond ==
    f = 5 /\ pc # "main" =>
        /\ last_index \in Nat
        /\ last_index > a.n => last_index - 1 \in a.behind
        /\ pc = "search" => res = -1

(* After a miss the next search counts up from 0.                          *)
Recovers ==
    missed =>
        /\ pc = "loop" => f = 5 /\ last_index = 0
        /\ pc = "search" => f = 5 /\ index = i /\ i <= First

IInv ==
    /\ Types /\ Scan /\ Remember /\ Beyond /\ Recovers
    /\ RemembersFirstHit /\ ReadsContained

LEMMA Least ==
    ASSUME NEW S \in SUBSET Nat, S # {}
    PROVE  Min(S) \in S /\ \A y \in S : Min(S) <= y
<1> DEFINE R == OpToRel(<, Nat)
<1>1. IsWellFoundedOn(R, Nat)
  BY NatLessThanWellFounded
<1>2. \A x, y \in Nat : y < x => <<y, x>> \in R
  BY DEF OpToRel
<1> HIDE DEF R
<1>3. PICK x \in S : \A y \in S : ~(<<y, x>> \in R)
  BY <1>1, WFMin
<1>4. \A y \in S : x <= y
  <2> TAKE y \in S
  <2>1. x \in Nat /\ y \in Nat /\ ~(y < x)
    BY <1>2, <1>3
  <2> QED BY <2>1
<1> QED BY <1>4 DEF Min

LEMMA HitFacts ==
    ASSUME Types
    PROVE  /\ a.n \in Nat \ {0} /\ First \in 0 .. a.n - 1 /\ Hit(First) /\ LOOPS \in Nat
           /\ \A k \in Nat : k < a.n /\ Hit(k) => First <= k
           /\ \A k \in Nat : k >= a.n /\ Hit(k) => k \in a.behind
<1>1. /\ a.n \in Nat \ {0} /\ a.hits \in SUBSET Nat /\ a.n - 1 \in a.hits /\ LOOPS \in Nat
      /\ a.hits \subseteq 0 .. a.n - 1 /\ \A k \in a.behind : k >= a.n
  BY ArrayAssumption DEF Types, ArrayType
<1>2. First \in a.hits /\ \A y \in a.hits : First <= y
  BY <1>1, Least DEF First
<1>3. First \in 0 .. a.n - 1
  BY <1>1, <1>2
<1>4. \A k \in Nat : k < a.n /\ Hit(k) => k \in a.hits
  BY <1>1 DEF Hit
<1>5. \A k \in Nat : k >= a.n /\ Hit(k) => k \in a.behind
  BY <1>1 DEF Hit
<1> QED BY <1>1, <1>2, <1>3, <1>4, <1>5 DEF Hit

(* A search that returns an index has not missed.                          *)
LEMMA ReturnFacts ==
    ASSUME NEW r, Return(r)
    PROVE  missed' \in BOOLEAN /\ (f # 5 \/ r # -1 => ~missed')
  BY Zenon DEF Return

LEMMA InitIInv == Init => IInv
<1> SUFFICES ASSUME Init PROVE IInv
  OBVIOUS
<1>1. Types
  <2>1. missed \in BOOLEAN
    BY Zenon DEF Init
  <2>2. printed \in [1 .. 5 -> Int] /\ reads \subseteq Nat
    BY DEF Init
  <2> QED BY <2>1, <2>2 DEF Init, Types
<1> QED
  BY <1>1 DEF IInv, Init, Scan, Remember, Beyond, Recovers, RemembersFirstHit, ReadsContained

LEMMA MeasureIInv == ASSUME IInv, Measure PROVE IInv'
<1>1. Types'
  BY DEF IInv, Types, Measure
<1>2. UNCHANGED <<a, f, printed, First>> /\ pc' = "loop" /\ j' = 0 /\ last_index' = 0
      /\ reads' = {} /\ missed' = FALSE
  BY DEF Measure, First
<1>3. a.n \in Nat
  BY HitFacts DEF IInv
<1>4. Scan' /\ Remember' /\ Beyond' /\ Recovers'
  BY <1>2, <1>3 DEF Scan, Remember, Beyond, Recovers
<1>5. RemembersFirstHit' /\ ReadsContained'
  BY <1>2 DEF IInv, RemembersFirstHit, ReadsContained
<1> QED BY <1>1, <1>4, <1>5 DEF IInv

(* The loop of a measurement; measure05 reads one element itself.          *)
LEMMA CallIInv == ASSUME IInv, Call PROVE IInv'
<1>1. /\ Types /\ pc = "loop" /\ j < LOOPS /\ f \in 1 .. 5 /\ j \in Nat
      /\ UNCHANGED <<a, f, printed>> /\ First' = First
  BY DEF IInv, Types, Call, First
<1>2. /\ a.n \in Nat \ {0} /\ First \in 0 .. a.n - 1 /\ LOOPS \in Nat
      /\ \A k \in Nat : k >= a.n /\ Hit(k) => k \in a.behind
  BY <1>1, HitFacts
<1>3. f = 5 => /\ last_index \in Nat
               /\ last_index > a.n => last_index - 1 \in a.behind
  BY <1>1 DEF IInv, Beyond
<1>4. CASE f = 5 /\ Hit(last_index)
  <2>1. /\ last_index' = last_index + 1 /\ j' = j + 1 /\ cost' = 1 /\ missed' = FALSE
        /\ reads' = reads \cup {last_index} /\ UNCHANGED <<pc, i, index, res>>
    BY <1>4 DEF Call
  <2>2. Types'
    <3>1. reads' \subseteq Nat /\ last_index' \in Nat
      BY <1>1, <1>3, <1>4, <2>1 DEF Types
    <3>2. missed' \in BOOLEAN
      BY <2>1, Zenon
    <3> QED BY <1>1, <2>1, <3>1, <3>2 DEF Types
  <2>3. last_index + 1 > a.n => (last_index + 1) - 1 \in a.behind
    <3> SUFFICES ASSUME last_index + 1 > a.n PROVE last_index \in a.behind
      BY <1>3, <1>4
    <3>1. last_index \in Nat /\ last_index >= a.n
      BY <1>2, <1>3, <1>4
    <3> QED BY <1>2, <1>4, <3>1
  <2>4. Scan' /\ Remember' /\ Beyond' /\ Recovers'
    BY <1>1, <1>3, <1>4, <2>1, <2>3 DEF Scan, Remember, Beyond, Recovers
  <2>5. RemembersFirstHit'
    BY <1>1, <1>4, <2>1 DEF IInv, RemembersFirstHit
  <2>6. ReadsContained'
    BY <1>1, <1>3, <1>4, <2>1 DEF IInv, ReadsContained
  <2> QED BY <2>2, <2>4, <2>5, <2>6 DEF IInv
<1>5. CASE ~(f = 5 /\ Hit(last_index))
  <2>1. /\ pc' = "search" /\ i' = 0 /\ index' = (IF f \in {4, 5} THEN last_index ELSE 0)
        /\ res' = (IF f = 3 THEN 1 ELSE -1)
        /\ reads' = (IF f = 5 THEN reads \cup {last_index} ELSE reads)
        /\ cost' = (IF f = 5 THEN 1 ELSE 0) /\ UNCHANGED <<j, last_index, missed>>
    BY <1>5 DEF Call
  <2>2. f = 4 => last_index = (IF j = 0 THEN 0 ELSE First)
    BY <1>1 DEF IInv, Remember
  <2>3. index' \in Nat
    BY <1>2, <1>3, <2>1, <2>2
  <2>4. reads' \subseteq Nat /\ cost' \in Nat
    BY <1>1, <1>3, <2>1 DEF Types
  <2>5. missed' \in BOOLEAN
    BY <1>1, <2>1 DEF Types
  <2>6. Types'
    BY <1>1, <2>1, <2>3, <2>4, <2>5 DEF Types
  <2>7. Scan' /\ Beyond'
    BY <1>1, <1>2, <1>3, <2>1 DEF Scan, Beyond
  <2>8. Remember'
    BY <1>1, <1>2, <2>1, <2>2 DEF Remember
  <2>9. Recovers'
    <3>1. missed => f = 5 /\ last_index = 0
      BY <1>1 DEF IInv, Recovers
    <3> QED BY <1>1, <1>2, <2>1, <3>1 DEF Recovers
  <2>10. RemembersFirstHit'
    BY <1>1, <2>1 DEF IInv, RemembersFirstHit
  <2>11. ReadsContained'
    BY <1>1, <1>3, <2>1 DEF IInv, ReadsContained
  <2> QED BY <2>6, <2>7, <2>8, <2>9, <2>10, <2>11 DEF IInv
<1> QED BY <1>4, <1>5

LEMMA Match01IInv == ASSUME IInv, Match01 PROVE IInv'
<1>1. /\ Types /\ pc = "search" /\ f \in {1, 2} /\ i < a.n /\ i \in Nat /\ j \in Nat
      /\ UNCHANGED <<a, f, index, printed>> /\ First' = First
      /\ reads' = reads \cup {i} /\ cost' = cost + 1
  BY DEF IInv, Types, Match01, First, Read
<1>2. /\ a.n \in Nat \ {0} /\ First \in 0 .. a.n - 1 /\ Hit(First)
      /\ \A k \in Nat : k < a.n /\ Hit(k) => First <= k
  BY <1>1, HitFacts
<1>3. i <= First
  BY <1>1 DEF IInv, Scan
<1>4. CASE Hit(i)
  <2>1. i = First
    BY <1>1, <1>2, <1>3, <1>4
  <2>2. /\ pc' = "loop" /\ j' = j + 1 /\ res' = i /\ UNCHANGED <<i, last_index>>
        /\ Return(i)
    BY <1>1, <1>4 DEF Match01, Return
  <2>3. missed' \in BOOLEAN /\ ~missed'
    BY <1>1, <2>2, ReturnFacts
  <2>4. Types'
    BY <1>1, <2>2, <2>3 DEF Types
  <2>5. Scan' /\ Remember' /\ Beyond' /\ Recovers'
    BY <1>1, <2>1, <2>2, <2>3 DEF Scan, Remember, Beyond, Recovers
  <2>6. RemembersFirstHit' /\ ReadsContained'
    BY <1>1, <1>2, <2>2 DEF IInv, RemembersFirstHit, ReadsContained
  <2> QED BY <2>4, <2>5, <2>6 DEF IInv
<1>5. CASE ~Hit(i)
  <2>1. i # First
    BY <1>2, <1>5
  <2>2. UNCHANGED <<pc, j, res, last_index, missed>> /\ i' = i + 1
    BY <1>5 DEF Match01, NotFound
  <2>3. i + 1 <= First
    BY <1>1, <1>2, <1>3, <2>1
  <2>4. missed' \in BOOLEAN
    BY <1>1, <2>2 DEF Types
  <2>5. Types'
    BY <1>1, <2>2, <2>4 DEF Types
  <2>6. Scan' /\ Remember' /\ Beyond'
    BY <1>1, <2>2, <2>3 DEF Scan, Remember, Beyond
  <2>7. Recovers'
    BY <1>1, <2>2 DEF IInv, Recovers
  <2>8. RemembersFirstHit' /\ ReadsContained'
    BY <1>1, <1>2, <2>2 DEF IInv, RemembersFirstHit, ReadsContained
  <2> QED BY <2>5, <2>6, <2>7, <2>8 DEF IInv
<1> QED BY <1>4, <1>5

LEMMA Match03IInv == ASSUME IInv, Match03 PROVE IInv'
<1>1. /\ Types /\ pc = "search" /\ f = 3 /\ i < a.n /\ i \in Nat
      /\ UNCHANGED <<a, f, pc, j, last_index, index, printed, missed>> /\ First' = First
      /\ reads' = reads \cup {i} /\ cost' = cost + 1 /\ i' = i + 1
      /\ res' \in {0, res}
  BY DEF IInv, Types, Match03, First, Read
<1>2. a.n \in Nat \ {0} /\ First \in 0 .. a.n - 1
  BY <1>1, HitFacts
<1>3. Types'
  <2>1. missed' \in BOOLEAN
    BY <1>1 DEF Types
  <2>2. res' \in Nat \cup {-1}
    BY <1>1 DEF Types
  <2> QED BY <1>1, <2>1, <2>2 DEF Types
<1>4. Scan' /\ Remember' /\ Beyond'
  BY <1>1 DEF Scan, Remember, Beyond
<1>5. Recovers'
  BY <1>1 DEF IInv, Recovers
<1>6. RemembersFirstHit' /\ ReadsContained'
  BY <1>1, <1>2 DEF IInv, RemembersFirstHit, ReadsContained
<1> QED BY <1>3, <1>4, <1>5, <1>6 DEF IInv

LEMMA Match04IInv == ASSUME IInv, Match04 PROVE IInv'
<1>1. /\ Types /\ pc = "search" /\ f = 4 /\ i < a.n /\ i \in Nat /\ j \in Nat
      /\ index \in Nat /\ cost \in Nat
      /\ UNCHANGED <<a, f, printed>> /\ First' = First
      /\ reads' = reads \cup {index} /\ cost' = cost + 1
  BY DEF IInv, Types, Match04, First, Read
<1>2. /\ a.n \in Nat \ {0} /\ First \in 0 .. a.n - 1 /\ Hit(First)
      /\ \A k \in Nat : k < a.n /\ Hit(k) => First <= k
  BY <1>1, HitFacts
<1>3. /\ last_index = (IF j = 0 THEN 0 ELSE First)
      /\ IF j = 0 THEN index = i /\ i <= First ELSE index = First /\ i = 0 /\ cost = 0
  BY <1>1 DEF IInv, Remember
<1>4. index <= First /\ index < a.n
  BY <1>1, <1>2, <1>3
<1>5. RemembersFirstHit' \/ pc' = "loop"
  BY <1>1 DEF IInv, RemembersFirstHit, Match04, Return, NotFound
<1>6. ReadsContained'
  BY <1>1, <1>2, <1>4 DEF IInv, ReadsContained
<1>7. CASE Hit(index)
  <2>1. index = First
    BY <1>1, <1>2, <1>4, <1>7
  <2>2. /\ pc' = "loop" /\ j' = j + 1 /\ res' = index /\ last_index' = index
        /\ Return(index) /\ UNCHANGED <<i, index>>
    BY <1>1, <1>7 DEF Match04, Return
  <2>3. missed' \in BOOLEAN /\ ~missed'
    BY <1>1, <2>2, ReturnFacts
  <2>4. Types'
    BY <1>1, <2>2, <2>3 DEF Types
  <2>5. Scan' /\ Remember' /\ Beyond' /\ Recovers'
    BY <1>1, <2>1, <2>2, <2>3 DEF Scan, Remember, Beyond, Recovers
  <2>6. RemembersFirstHit'
    <3>1. j' > 1 => cost' = 1
      BY <1>1, <1>3, <2>2
    <3>2. last_index' = First'
      BY <1>1, <2>1, <2>2
    <3> QED BY <1>1, <2>2, <3>1, <3>2 DEF IInv, RemembersFirstHit, First
  <2> QED BY <1>6, <2>4, <2>5, <2>6 DEF IInv
<1>8. CASE ~Hit(index)
  <2>1. index # First
    BY <1>2, <1>8
  <2>2. /\ UNCHANGED <<pc, j, res, last_index, missed>> /\ i' = i + 1 /\ index' = Next04
    BY <1>8 DEF Match04, NotFound
  <2>3. j = 0 /\ index' = i + 1 /\ i + 1 <= First
    BY <1>1, <1>2, <1>3, <2>1, <2>2 DEF Next04
  <2>4. missed' \in BOOLEAN
    BY <1>1, <2>2 DEF Types
  <2>5. Types'
    BY <1>1, <2>2, <2>3, <2>4 DEF Types
  <2>6. Scan' /\ Remember' /\ Beyond'
    BY <1>1, <1>3, <2>2, <2>3 DEF Scan, Remember, Beyond
  <2>7. Recovers'
    BY <1>1, <2>2 DEF IInv, Recovers
  <2> QED BY <1>1, <1>5, <1>6, <2>2, <2>5, <2>6, <2>7 DEF IInv
<1> QED BY <1>7, <1>8

LEMMA Match05IInv == ASSUME IInv, Match05 PROVE IInv'
<1> DEFINE w == Wrapped05
<1>1. /\ Types /\ pc = "search" /\ f = 5 /\ i < a.n /\ i \in Nat /\ j \in Nat
      /\ index \in Nat /\ cost \in Nat
      /\ UNCHANGED <<a, f, printed>> /\ First' = First
      /\ reads' = reads \cup {w} /\ cost' = cost + 1
  BY DEF IInv, Types, Match05, First, Read
<1>2. /\ a.n \in Nat \ {0} /\ First \in 0 .. a.n - 1 /\ Hit(First)
      /\ \A k \in Nat : k < a.n /\ Hit(k) => First <= k
      /\ \A k \in Nat : k >= a.n /\ Hit(k) => k \in a.behind
  BY <1>1, HitFacts
<1>3. w \in 0 .. a.n
  BY <1>1, <1>2 DEF Wrapped05
<1>4. missed => w = index /\ index = i /\ i <= First
  <2>1. missed => index = i /\ i <= First
    BY <1>1 DEF IInv, Recovers
  <2> QED BY <1>1, <1>2, <2>1 DEF Wrapped05
<1>5. RemembersFirstHit' /\ ReadsContained'
  BY <1>1, <1>2, <1>3 DEF IInv, RemembersFirstHit, ReadsContained
<1>6. CASE Hit(w)
  <2>1. /\ pc' = "loop" /\ j' = j + 1 /\ res' = w /\ last_index' = w + 1
        /\ Return(w) /\ UNCHANGED <<i, index>>
    BY <1>1, <1>6 DEF Match05, Return
  <2> HIDE DEF w
  <2>2. missed' \in BOOLEAN /\ ~missed'
    <3>1. w # -1
      BY <1>2, <1>3
    <3> QED BY <2>1, <3>1, ReturnFacts
  <2>3. Types'
    BY <1>1, <1>2, <1>3, <2>1, <2>2 DEF Types
  <2>4. w + 1 > a.n => (w + 1) - 1 \in a.behind
    <3> SUFFICES ASSUME w + 1 > a.n PROVE w \in a.behind
      BY <1>3, <1>2
    <3>1. w \in Nat /\ w >= a.n
      BY <1>2, <1>3
    <3> QED BY <1>2, <1>6, <3>1
  <2>5. Scan' /\ Remember' /\ Beyond' /\ Recovers'
    BY <1>1, <1>2, <1>3, <2>1, <2>2, <2>4 DEF Scan, Remember, Beyond, Recovers
  <2> QED BY <1>5, <2>3, <2>5 DEF IInv
<1>7. CASE ~Hit(w)
  <2>1. /\ UNCHANGED <<pc, j, res, last_index, missed>> /\ i' = i + 1 /\ index' = w + 1
    BY <1>7 DEF Match05, NotFound
  <2> HIDE DEF w
  <2>2. missed => i + 1 <= First /\ w + 1 = i + 1
    BY <1>1, <1>2, <1>4, <1>7
  <2>3. missed' \in BOOLEAN
    BY <1>1, <2>1 DEF Types
  <2>4. Types'
    BY <1>1, <1>2, <1>3, <2>1, <2>3 DEF Types
  <2>5. Scan' /\ Remember'
    BY <1>1, <2>1 DEF Scan, Remember
  <2>6. Beyond'
    BY <1>1, <2>1 DEF IInv, Beyond
  <2>7. Recovers'
    BY <1>1, <2>1, <2>2 DEF Recovers
  <2> QED BY <1>5, <2>4, <2>5, <2>6, <2>7 DEF IInv
<1> QED BY <1>6, <1>7

(* No element is left: only match03, which looks at all of them, and       *)
(* match05, which starts behind the hit, come here.                        *)
LEMMA ExhaustedIInv == ASSUME IInv, Exhausted PROVE IInv'
<1>1. /\ Types /\ pc = "search" /\ i = a.n /\ f \in 1 .. 5 /\ j \in Nat
      /\ UNCHANGED <<a, f, i, index, printed, reads, cost>> /\ First' = First
      /\ pc' = "loop" /\ j' = j + 1 /\ res' = res
      /\ last_index' = (CASE f = 4 -> res [] f = 5 -> res + 1 [] OTHER -> last_index)
      /\ missed' = (f = 5 /\ res = -1)
  BY DEF IInv, Types, Exhausted, First, Return
<1>2. a.n \in Nat \ {0} /\ First \in 0 .. a.n - 1 /\ ~(i <= First) /\ i # 0
  BY <1>1, HitFacts
<1>3. f \in {3, 5} /\ ~missed
  BY <1>1, <1>2 DEF IInv, Scan, Remember, Recovers
<1>4. f = 5 => res = -1
  BY <1>1 DEF IInv, Beyond
<1>5. /\ last_index' = (IF f = 5 THEN 0 ELSE last_index)
      /\ missed' = (f = 5) /\ missed' \in BOOLEAN
  BY <1>1, <1>3, <1>4
<1>6. Types'
  BY <1>1, <1>5 DEF Types
<1>7. Scan' /\ Remember' /\ Beyond'
  BY <1>1, <1>2, <1>3, <1>5 DEF Scan, Remember, Beyond
<1>8. Recovers'
  <2>1. missed' => f = 5
    BY <1>5, Zenon
  <2> QED BY <1>1, <1>5, <2>1 DEF Recovers
<1>9. RemembersFirstHit' /\ ReadsContained'
  BY <1>1, <1>3 DEF IInv, RemembersFirstHit, ReadsContained
<1> QED BY <1>6, <1>7, <1>9, <1>8 DEF IInv

LEMMA DoneIInv == ASSUME IInv, Done PROVE IInv'
<1>1. /\ Types /\ pc = "loop" /\ j = LOOPS /\ f \in 1 .. 5 /\ LOOPS \in Nat
      /\ UNCHANGED <<a, j, last_index, i, index, res, reads, cost, missed>>
      /\ First' = First /\ pc' = "main" /\ f' = f + 1
      /\ printed' = [printed EXCEPT ![f] = IF f \in {4, 5} THEN last_index ELSE res]
  BY HitFacts DEF IInv, Types, Done, First
<1>2. Types'
  <2>1. missed' \in BOOLEAN
    BY <1>1 DEF Types
  <2>2. printed' \in [1 .. 5 -> Int]
    <3>1. last_index \in Int /\ res \in Int
      BY <1>1 DEF Types
    <3> QED BY <1>1, <3>1 DEF Types
  <2> QED BY <1>1, <2>1, <2>2 DEF Types
<1>3. Scan' /\ Remember' /\ Beyond' /\ Recovers'
  BY <1>1 DEF Scan, Remember, Beyond, Recovers
<1>4. LOOPS > 0 => /\ f \in {1, 2} => res = First
                   /\ f = 4 => last_index = First
  BY <1>1 DEF IInv, Scan, Remember
<1>5. RemembersFirstHit'
  <2>1. ASSUME NEW m \in {1, 2, 4}, f' > m, LOOPS > 0 PROVE printed'[m] = First
    <3>1. printed \in [1 .. 5 -> Int] /\ m \in 1 .. 5
      BY <1>1 DEF Types
    <3>2. CASE m = f
      BY <1>1, <1>4, <2>1, <3>1, <3>2
    <3>3. CASE m # f
      <4>1. f > m /\ printed'[m] = printed[m]
        BY <1>1, <2>1, <3>1, <3>3
      <4> QED BY <2>1, <4>1 DEF IInv, RemembersFirstHit, First
    <3> QED BY <3>2, <3>3
  <2> QED BY <1>1, <2>1 DEF RemembersFirstHit, First
<1>6. ReadsContained'
  BY <1>1 DEF IInv, ReadsContained
<1> QED BY <1>2, <1>3, <1>5, <1>6 DEF IInv

-----------------------------------------------------------------------------
(* What each search knows while it runs, for every array length and every  *)
(* contents of the words behind it.                                        *)
THEOREM Inductive == Spec => []IInv
<1>1. Init => IInv
  BY InitIInv
<1>2. IInv /\ [Next]_vars => IInv'
  <2> SUFFICES ASSUME IInv, [Next]_vars PROVE IInv'
    OBVIOUS
  <2>1. CASE UNCHANGED vars
    <3>1. Types'
      BY <2>1 DEF vars, IInv, Types
    <3>2. Scan' /\ Remember' /\ Beyond' /\ Recovers'
      BY <2>1 DEF vars, IInv, Scan, Remember, Beyond, Recovers, First
    <3>3. RemembersFirstHit' /\ ReadsContained'
      BY <2>1 DEF vars, IInv, RemembersFirstHit, ReadsContained
    <3> QED BY <3>1, <3>2, <3>3 DEF IInv
  <2> QED
    BY <2>1, MeasureIInv, CallIInv, Match01IInv, Match03IInv, Match04IInv, Match05IInv,
       ExhaustedIInv, DoneIInv
    DEF Next, Ended
<1> QED BY <1>1, <1>2, PTL DEF Spec

(* Four of the five searches print the first hit, and measure04 stays on   *)
(* it, for every array and every number of loops.                          *)
THEOREM FirstHitIsRemembered == Spec => []RemembersFirstHit
<1>1. IInv => RemembersFirstHit
  BY DEF IInv
<1> QED BY <1>1, Inductive, PTL

(* measure01 to measure04 stay inside a[N]; measure05 goes as far behind   *)
(* it as matching words lie there.                                         *)
THEOREM ReadsAreContained == Spec => []ReadsContained
<1>1. IInv => ReadsContained
  BY DEF IInv
<1> QED BY <1>1, Inductive, PTL

(* After a miss of measure05 the next search finds the element.            *)
THEOREM NoSecondMiss == Spec => NeverMissesTwice
<1>1. ASSUME IInv, [Next]_vars, missed PROVE ~missed' \/ j' = j
  <2>1. Types
    BY <1>1 DEF IInv
  <2>2. a.n \in Nat \ {0} /\ First \in 0 .. a.n - 1
    BY <2>1, HitFacts
  <2>3. CASE Exhausted
    BY <1>1, <2>2, <2>3 DEF IInv, Recovers, Exhausted
  <2>4. CASE Match05
    <3>1. Wrapped05 # -1
      BY <2>1, <2>2 DEF Wrapped05, Types
    <3> QED BY <2>4, <3>1, ReturnFacts DEF Match05, NotFound
  <2>5. CASE Match01 \/ Match04
    BY <2>5, ReturnFacts DEF Match01, Match04, NotFound
  <2>6. CASE Measure \/ Call \/ Match03 \/ Done \/ UNCHANGED vars
    BY <2>6 DEF Measure, Call, Match03, Done, vars
  <2> QED BY <1>1, <2>3, <2>4, <2>5, <2>6 DEF Next, Ended
<1>2. IInv /\ [Next]_vars => [missed => ~missed' \/ j' = j]_vars
  BY <1>1
<1> QED BY <1>2, Inductive, PTL DEF Spec, NeverMissesTwice
=============================================================================
