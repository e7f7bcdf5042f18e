------------------------- MODULE HeaderWalkProofs -------------------------
EXTENDS HeaderWalk, FiniteSetTheorems, TLAPS

(* While the walk is on, bucket and offset are the place of the next       *)
(* repetition, and cur_len and len split what is left of the packet.       *)
Walk ==
    ~done =>
        /\ i < nr
        /\ hdr * H = i * iov_len + offset
        /\ hdr * H <= total
        /\ cur_len = (IF total - i * iov_len < iov_len THEN total - i * iov_len ELSE iov_len)
        /\ len = total - i * iov_len - cur_len
        /\ bad_repeat = Cardinality({k \in torn : k < hdr})

IInv == TypeOK /\ Walk /\ ReadsInBounds /\ CountsTornHeaders

LEMMA MulNat == ASSUME NEW a \in Nat, NEW b \in Nat PROVE a * b \in Nat
  OBVIOUS

LEMMA MulSucc == ASSUME NEW a \in Nat, NEW b \in Nat PROVE (a + 1) * b = a * b + b
  OBVIOUS

LEMMA MulMono ==
    ASSUME NEW a \in Nat, NEW b \in Nat, NEW c \in Nat, a <= b
    PROVE  a * c <= b * c
  OBVIOUS

LEMMA DivIs ==
    ASSUME NEW t \in Nat, NEW q \in Nat, NEW b \in Nat \ {0}, q * b <= t, t < q * b + b
    PROVE  t \div b = q
<1>1. (t \div b) \in Int /\ (t % b) \in 0 .. b - 1 /\ t = b * (t \div b) + (t % b)
  OBVIOUS
<1>2. CASE (t \div b) < q
  <2>1. (t \div b) + 1 <= q /\ (t \div b) + 1 \in Int
    BY <1>1, <1>2
  <2>2. ((t \div b) + 1) * b <= q * b
    BY <2>1
  <2>3. ((t \div b) + 1) * b = b * (t \div b) + b
    BY <1>1
  <2> QED BY <2>2, <2>3, <1>1
<1>3. CASE (t \div b) > q
  <2>1. q + 1 <= (t \div b)
    BY <1>1, <1>3
  <2>2. (q + 1) * b <= (t \div b) * b
    BY <2>1, <1>1
  <2>3. (q + 1) * b = q * b + b /\ (t \div b) * b = b * (t \div b)
    BY <1>1
  <2> QED BY <2>2, <2>3, <1>1
<1> QED BY <1>1, <1>2, <1>3

-----------------------------------------------------------------------------
(* A header that is looked at lies in the packet, and its pieces are       *)
(* exactly the bytes of repetition number hdr.                             *)
LEMMA Reading ==
    ASSUME TypeOK, Walk, ~done, ~EndOfBuffer
    PROVE  /\ hdr * H + H <= total
           /\ At \div H = hdr
           /\ IsRepetition(Pieces, hdr)
           /\ \A r \in Pieces : 0 <= r.n /\ (r.n > 0 => 0 <= r.from /\ r.from + r.n <= total)
           /\ Straddles => (i + 1) * iov_len < total
<1> DEFINE B == i * iov_len
           T == hdr * H
<1>1. /\ H \in Nat \ {0} /\ i \in Nat /\ iov_len \in Nat /\ hdr \in Nat /\ offset \in Nat
      /\ cur_len \in Nat /\ len \in Nat /\ total \in Nat
  BY WalkAssumption DEF TypeOK
<1>2. B \in Nat /\ T \in Nat /\ (i + 1) * iov_len = B + iov_len /\ (hdr + 1) * H = T + H
  BY <1>1, MulNat, MulSucc
<1>3. /\ T = B + offset /\ T <= total
      /\ cur_len = (IF total - B < iov_len THEN total - B ELSE iov_len)
      /\ len = total - B - cur_len
  BY DEF Walk
<1>4. At = T
  BY <1>3 DEF At
<1>5. At \div H = hdr
  <2>1. T <= T /\ T < T + H
    BY <1>1, <1>2
  <2> QED BY <2>1, <1>1, <1>2, <1>4, DivIs
<1> HIDE DEF B, T
<1>6. T + H <= total
  BY <1>1, <1>2, <1>3 DEF EndOfBuffer, LessThanHeader, first_chunk
<1>7. CASE Straddles
  <2>1. 0 <= first_chunk /\ first_chunk < H /\ first_chunk = cur_len - offset /\ first_chunk \in Int
    BY <1>1, <1>7 DEF Straddles, LessThanHeader, first_chunk
  <2>2. cur_len = iov_len /\ B + iov_len < total
    BY <1>1, <1>2, <1>3, <1>6, <2>1
  <2>3. Pieces = {[from |-> T, n |-> first_chunk], [from |-> T + first_chunk, n |-> H - first_chunk]}
    <3>1. (i + 1) * iov_len = T + first_chunk
      BY <1>1, <1>2, <1>3, <2>1, <2>2
    <3> QED BY <3>1, <1>7, <1>4 DEF Pieces
  <2>4. IsRepetition(Pieces, hdr)
    <3> SUFFICES ASSUME NEW r \in Pieces, r.n > 0
                 PROVE  /\ hdr * H <= r.from /\ r.from + r.n <= (hdr + 1) * H
                        /\ r.from = hdr * H \/ \E q \in Pieces : q.from + q.n = r.from
      BY DEF IsRepetition
    <3>1. CASE r = [from |-> T, n |-> first_chunk]
      BY <3>1, <1>1, <1>2, <2>1 DEF T
    <3>2. CASE r = [from |-> T + first_chunk, n |-> H - first_chunk]
      <4>1. \E q \in Pieces : q.from + q.n = r.from
        BY <2>3, <3>2, <2>1, <1>2
      <4> QED BY <4>1, <3>2, <1>1, <1>2, <2>1 DEF T
    <3> QED BY <3>1, <3>2, <2>3
  <2>5. \A r \in Pieces : 0 <= r.n /\ (r.n > 0 => 0 <= r.from /\ r.from + r.n <= total)
    BY <2>3, <1>1, <1>2, <1>6, <2>1
  <2> QED BY <1>5, <1>6, <2>2, <2>4, <2>5, <1>2 DEF T
<1>8. CASE ~Straddles
  <2>1. Pieces = {[from |-> T, n |-> H]}
    BY <1>8, <1>4 DEF Pieces
  <2>2. IsRepetition(Pieces, hdr)
    BY <2>1, <1>1, <1>2 DEF IsRepetition, T
  <2>3. \A r \in Pieces : 0 <= r.n /\ (r.n > 0 => 0 <= r.from /\ r.from + r.n <= total)
    BY <2>1, <1>1, <1>2, <1>6
  <2> QED BY <1>5, <1>6, <1>8, <2>2, <2>3 DEF T
<1> QED BY <1>7, <1>8

(* Where the walk breaks off, no complete repetition is left.              *)
LEMMA Breaking ==
    ASSUME TypeOK, Walk, ~done, EndOfBuffer \/ (Straddles /\ i + 1 >= nr)
    PROVE  hdr = total \div H
<1>1. CASE EndOfBuffer
  <2> DEFINE B == i * iov_len
             T == hdr * H
  <2>1. /\ H \in Nat \ {0} /\ i \in Nat /\ iov_len \in Nat /\ hdr \in Nat /\ offset \in Nat
        /\ cur_len \in Nat /\ len \in Nat /\ total \in Nat /\ B \in Nat /\ T \in Nat
    BY WalkAssumption, MulNat DEF TypeOK
  <2>2. /\ T = B + offset /\ T <= total
        /\ len = total - B - cur_len
    BY DEF Walk
  <2> HIDE DEF B, T
  <2>3. T <= total /\ total < T + H
    BY <1>1, <2>1, <2>2 DEF EndOfBuffer, LessThanHeader, first_chunk
  <2> QED BY <2>1, <2>3, DivIs DEF T
<1>2. CASE ~EndOfBuffer
  <2>1. (i + 1) * iov_len < total /\ i + 1 >= nr
    BY <1>2, Reading
  <2>2. nr \in Nat /\ i \in Nat /\ iov_len \in Nat /\ total \in Nat /\ total <= nr * iov_len
    BY DEF TypeOK
  <2>3. nr * iov_len <= (i + 1) * iov_len
    BY <2>1, <2>2, MulMono
  <2>4. nr * iov_len \in Nat /\ (i + 1) * iov_len \in Nat
    BY <2>2, MulNat
  <2> QED BY <2>1, <2>3, <2>4, <2>2
<1> QED BY <1>1, <1>2

(* The count of the repetitions that differ, one header further.           *)
LEMMA CountStep ==
    ASSUME NEW S, IsFiniteSet(S), S \subseteq Nat, NEW h \in Nat
    PROVE  Cardinality({k \in S : k < h + 1}) =
               Cardinality({k \in S : k < h}) + (IF h \in S THEN 1 ELSE 0)
<1> DEFINE A == {k \in S : k < h}
           C == {k \in S : k < h + 1}
<1>1. IsFiniteSet(A) /\ Cardinality(A) \in Nat
  BY FS_Subset, FS_CardinalityType
<1>2. \A k \in S : (k < h + 1 <=> k < h \/ k = h)
  <2> TAKE k \in S
  <2>1. k \in Nat
    OBVIOUS
  <2> QED BY <2>1
<1>3. ~(h < h)
  OBVIOUS
<1>4. CASE h \in S
  <2>1. C = A \cup {h} /\ h \notin A
    BY <1>4, <1>2, <1>3, Zenon
  <2>2. Cardinality(C) = Cardinality(A) + 1
    BY <1>1, <2>1, FS_AddElement
  <2> QED BY <1>4, <2>2
<1>5. CASE h \notin S
  <2>1. C = A
    BY <1>5, <1>2, Zenon
  <2> QED BY <1>1, <1>5, <2>1
<1> QED BY <1>4, <1>5

LEMMA TornFinite ==
    ASSUME TypeOK
    PROVE  IsFiniteSet(torn) /\ torn \subseteq Nat
<1>1. total \in Int /\ H \in Nat \ {0} /\ total \div H \in Int
  BY WalkAssumption DEF TypeOK
<1>2. IsFiniteSet(1 .. total \div H)
  BY <1>1, FS_Interval
<1>3. torn \subseteq 1 .. total \div H
  BY DEF TypeOK
<1>4. IsFiniteSet(torn)
  BY <1>2, <1>3, FS_Subset
<1>5. torn \subseteq Nat
  BY <1>1, <1>3
<1> QED BY <1>4, <1>5

LEMMA InitIInv == ASSUME Init PROVE IInv
<1>1. nr \in Nat \ {0} /\ iov_len \in Nat /\ H \in Nat \ {0}
  BY WalkAssumption DEF Init
<1>2. nr * iov_len \in Nat
  BY <1>1, MulNat
<1>3. total \in 0 .. nr * iov_len /\ cur_len \in Nat /\ len \in Nat
  BY <1>1, <1>2 DEF Init
<1>4. TypeOK
  <2>1. done \in BOOLEAN
    BY Zenon DEF Init
  <2> QED BY <1>1, <1>3, <2>1 DEF Init, TypeOK
<1>5. {k \in torn : k < hdr} = {}
  <2>1. torn \subseteq Nat /\ hdr = 0
    BY <1>4, TornFinite DEF Init
  <2>2. \A k \in torn : ~(k < hdr)
    <3> TAKE k \in torn
    <3>1. k \in Nat
      BY <2>1
    <3> QED BY <2>1, <3>1
  <2> QED BY <2>2, Zenon
<1>6. Walk
  <2>1. bad_repeat = Cardinality({k \in torn : k < hdr})
    BY <1>5, FS_EmptySet DEF Init
  <2>2. hdr * H = 0 /\ i * iov_len = 0
    BY <1>1 DEF Init
  <2> QED BY <1>1, <1>3, <2>1, <2>2 DEF Init, Walk
<1>7. ReadsInBounds /\ CountsTornHeaders
  BY DEF Init, ReadsInBounds, CountsTornHeaders
<1> QED BY <1>4, <1>6, <1>7 DEF IInv

LEMMA EndIInv ==
    ASSUME IInv, Break \/ FirstOnly
    PROVE  IInv'
<1>1. ~done /\ done' /\ TypeOK /\ Walk
  BY DEF IInv, Break, FirstOnly
<1>2. UNCHANGED <<nr, iov_len, total, check, torn, i, offset, cur_len, len, hdr, bad_repeat>>
  BY DEF Break, FirstOnly, input
<1>3. TypeOK'
  <2>1. done' \in BOOLEAN
    BY Zenon DEF Break, FirstOnly
  <2> QED BY <1>1, <1>2, <2>1 DEF TypeOK
<1>4. Walk'
  BY <1>1 DEF Walk
<1>5. ReadsInBounds'
  <2>1. CASE Break
    BY <2>1 DEF IInv, Break, input, ReadsInBounds
  <2>2. CASE FirstOnly
    BY <2>2, <1>1, <1>2, Reading DEF FirstOnly, ReadsInBounds
  <2> QED BY <2>1, <2>2
<1>6. CountsTornHeaders'
  <2>1. CASE Break
    <3>1. hdr = total \div H
      BY <2>1, <1>1, Breaking DEF Break
    <3> QED BY <3>1, <1>1, <1>2 DEF CountsTornHeaders, Walk
  <2>2. CASE FirstOnly
    BY <2>2, <1>2 DEF FirstOnly, CountsTornHeaders, IInv, TypeOK
  <2> QED BY <2>1, <2>2
<1> QED BY <1>3, <1>4, <1>5, <1>6 DEF IInv

LEMMA CompareIInv ==
    ASSUME IInv, Compare
    PROVE  IInv'
<1> DEFINE B == i * iov_len
           T == hdr * H
<1>1. ~done /\ TypeOK /\ Walk /\ ~EndOfBuffer
  BY DEF IInv, Compare
<1>2. UNCHANGED <<nr, iov_len, total, check, torn>> /\ hdr' = hdr + 1 /\ pieces' = Pieces
  BY DEF Compare, input
<1>3. T + H <= total /\ At \div H = hdr /\ IsRepetition(Pieces, hdr)
  BY <1>1, Reading
<1>4. /\ H \in Nat \ {0} /\ i \in Nat /\ iov_len \in Nat /\ hdr \in Nat /\ offset \in Nat
      /\ cur_len \in Nat /\ len \in Nat /\ total \in Nat /\ bad_repeat \in Nat
      /\ nr \in Nat \ {0} /\ i < nr
  BY <1>1, WalkAssumption DEF TypeOK, Walk
<1>5. B \in Nat /\ T \in Nat /\ (i + 1) * iov_len = B + iov_len /\ (hdr + 1) * H = T + H
  BY <1>4, MulNat, MulSucc
<1>6. bad_repeat' = Cardinality({k \in torn' : k < hdr'}) /\ bad_repeat' \in Nat
  <2>1. bad_repeat = Cardinality({k \in torn : k < hdr})
    BY <1>1 DEF Walk
  <2>2. Cardinality({k \in torn : k < hdr + 1}) =
            Cardinality({k \in torn : k < hdr}) + (IF hdr \in torn THEN 1 ELSE 0)
    BY <1>1, <1>4, TornFinite, CountStep
  <2>3. Differs <=> hdr \in torn
    BY <1>3 DEF Differs
  <2>4. hdr \in torn => hdr > 0
    BY <1>1, <1>4 DEF TypeOK
  <2>5. bad_repeat' = bad_repeat + (IF hdr \in torn THEN 1 ELSE 0)
    BY <2>3, <2>4, <1>4 DEF Compare
  <2> QED BY <2>1, <2>2, <2>5, <1>2, <1>4
<1>7. ReadsInBounds'
  BY <1>1, <1>2, Reading DEF ReadsInBounds
<1>8. /\ T = B + offset /\ T <= total
      /\ cur_len = (IF total - B < iov_len THEN total - B ELSE iov_len)
      /\ len = total - B - cur_len
  BY <1>1 DEF Walk
<1>9. total <= nr * iov_len /\ nr * iov_len \in Nat
  BY <1>1, <1>4, MulNat DEF TypeOK
<1>10. CASE offset + H < iov_len
  <2>1. offset' = offset + H /\ UNCHANGED <<i, cur_len, len, done>>
    BY <1>10, <1>4 DEF Compare, Move
  <2>2. ~done'
    BY <2>1, <1>1
  <2>3. TypeOK'
    BY <1>1, <1>2, <1>4, <1>6, <2>1 DEF TypeOK
  <2>4. i' * iov_len' = B /\ hdr' * H = T + H
    BY <2>1, <1>2, <1>5
  <2> HIDE DEF B, T
  <2>5. Walk'
    BY <1>2, <1>3, <1>4, <1>5, <1>6, <1>8, <2>1, <2>4 DEF Walk
  <2> QED BY <2>2, <2>3, <2>5, <1>7 DEF IInv, CountsTornHeaders
<1>11. CASE offset + H >= iov_len /\ i + 1 >= nr
  <2>1. offset' = offset + H - iov_len /\ i' = i + 1 /\ UNCHANGED <<cur_len, len>>
        /\ done' = (i + 1 >= nr)
    BY <1>11, <1>4 DEF Compare, Move
  <2>2. done' /\ done' \in BOOLEAN
    BY <2>1, <1>11
  <2>3. TypeOK'
    BY <1>1, <1>2, <1>4, <1>6, <1>11, <2>1, <2>2 DEF TypeOK
  <2>4. nr * iov_len <= B + iov_len
    <3>1. nr * iov_len <= (i + 1) * iov_len
      BY <1>4, <1>11, MulMono
    <3> QED BY <3>1, <1>5
  <2> HIDE DEF B, T
  <2>5. T + H = total
    BY <1>3, <1>4, <1>5, <1>8, <1>9, <1>11, <2>4
  <2>6. hdr' = total' \div H
    <3>1. (hdr + 1) * H <= total /\ total < (hdr + 1) * H + H
      BY <1>4, <1>5, <2>5
    <3> QED BY <3>1, <1>2, <1>4, DivIs
  <2> QED BY <2>2, <2>3, <2>6, <1>6, <1>7 DEF IInv, Walk, CountsTornHeaders
<1>12. CASE offset + H >= iov_len /\ i + 1 < nr
  <2>1. /\ offset' = offset + H - iov_len /\ i' = i + 1
        /\ cur_len' = (IF len < iov_len THEN len ELSE iov_len) /\ len' = len - cur_len'
        /\ done' = (i + 1 >= nr)
    BY <1>12, <1>4 DEF Compare, Move
  <2>2. ~done' /\ done' \in BOOLEAN
    <3>1. (i + 1 >= nr) = FALSE
      BY <1>12, <1>4
    <3>2. done' = FALSE
      BY <3>1, <2>1
    <3> QED BY <3>2, Zenon
  <2>3. TypeOK'
    BY <1>1, <1>2, <1>4, <1>6, <1>12, <2>1, <2>2 DEF TypeOK
  <2>4. i' * iov_len' = B + iov_len /\ hdr' * H = T + H
    BY <2>1, <1>2, <1>5
  <2> HIDE DEF B, T
  <2>5. len = total - (B + iov_len)
    BY <1>3, <1>4, <1>5, <1>8, <1>12
  <2>6. Walk'
    BY <1>2, <1>3, <1>4, <1>5, <1>6, <1>8, <1>12, <2>1, <2>4, <2>5 DEF Walk
  <2> QED BY <2>2, <2>3, <2>6, <1>7 DEF IInv, CountsTornHeaders
<1> QED BY <1>4, <1>10, <1>11, <1>12

(* Where the walk stands, what it has read and what it has counted, in     *)
(* every reachable state.                                                  *)
THEOREM Inductive == Spec => []IInv
<1>1. Init => IInv
  BY InitIInv
<1>2. IInv /\ [Next]_vars => IInv'
  <2> SUFFICES ASSUME IInv, [Next]_vars PROVE IInv'
    OBVIOUS
  <2>1. CASE UNCHANGED vars
    BY <2>1 DEF vars, input, IInv, TypeOK, Walk, ReadsInBounds, CountsTornHeaders
  <2>2. CASE Break \/ FirstOnly
    BY <2>2, EndIInv
  <2>3. CASE Compare
    BY <2>3, CompareIInv
  <2> QED BY <2>1, <2>2, <2>3 DEF Next
<1> QED BY <1>1, <1>2, PTL DEF Spec

(* Types, and with them: no bucket ever seems to hold a negative number of *)
(* bytes.                                                                  *)
THEOREM TypeCorrect == Spec => []TypeOK
<1>1. IInv => TypeOK
  BY DEF IInv
<1> QED BY <1>1, Inductive, PTL

(* The walk reads only bytes of the packet, for every number and size of   *)
(* buckets, also when a header is longer than a bucket.                    *)
THEOREM WalkInBounds == Spec => []ReadsInBounds
<1>1. IInv => ReadsInBounds
  BY DEF IInv
<1> QED BY <1>1, Inductive, PTL

(* Every complete repetition is compared exactly once.                     *)
THEOREM WalkIsComplete == Spec => []CountsTornHeaders
<1>1. IInv => CountsTornHeaders
  BY DEF IInv
<1> QED BY <1>1, Inductive, PTL
=============================================================================
