---------------------------- MODULE HeaderWalk ----------------------------
(***************************************************************************)
(* The walk of __check_pkt() (src/udp_sink.c) over one received packet.    *)
(* pktgen and udp_flood repeat their header over the whole payload; from   *)
(* check level 2 on every repetition is compared with the first one.  The  *)
(* payload lies in nr buckets of iov_len bytes each (parts of one buffer), *)
(* so a header may straddle buckets, and with many small buckets it is     *)
(* longer than one.                                                        *)
(*                                                                         *)
(* A byte is named by its place in the packet; torn is the set of          *)
(* repetitions (0 is the first header) that differ from the first.         *)
(***************************************************************************)
EXTENDS Integers, FiniteSets

CONSTANTS H,         \* sizeof(struct pktgen_hdr)
          MaxNr,     \* bound: buckets (--nr-iovec)
          MaxIovLen  \* bound: bytes in a bucket

ASSUME WalkAssumption == H \in Nat \ {0} /\ MaxNr \in Nat \ {0} /\ MaxIovLen \in Nat

VARIABLES
    nr, iov_len,   \* the io-vector
    total,         \* bytes received
    check,         \* p->check
    torn,          \* repetitions that differ from the first header
    i, offset,     \* bucket, and offset in it
    cur_len, len,  \* bytes of the packet in bucket i, and in later buckets
    hdr,           \* headers looked at
    bad_repeat,
    pieces,        \* the one or two pieces the last header was read from
    done

input == <<nr, iov_len, total, check, torn>>
vars == <<input, i, offset, cur_len, len, hdr, bad_repeat, pieces, done>>

(* A received packet never exceeds the io-vector it was received into.     *)
Init ==
    /\ nr \in 1 .. MaxNr /\ iov_len \in 0 .. MaxIovLen
    /\ total \in 0 .. nr * iov_len
    /\ check \in 1 .. 3
    /\ torn \in SUBSET (1 .. total \div H)
    /\ i = 0 /\ offset = 0 /\ hdr = 0
    /\ cur_len = (IF total < iov_len THEN total ELSE iov_len)
    /\ len = total - cur_len
    /\ bad_repeat = 0 /\ pieces = {} /\ done = FALSE

first_chunk == cur_len - offset

(* Comparisons with sizeof() are unsigned: a negative int is a huge one.   *)
MUT_LessThanHeader(n) == n < H
LessThanHeader(n) == 0 <= n /\ n < H

(* if (first_chunk + len < sizeof(_pgh)) break;                            *)
EndOfBuffer == LessThanHeader(first_chunk + len)

(* The header goes on in the next bucket.                                  *)
Straddles == LessThanHeader(first_chunk)

At == i * iov_len + offset

(* Where the header is read: in place, or copied from two buckets.         *)
Pieces ==
    IF Straddles
    THEN {[from |-> At, n |-> first_chunk],
          [from |-> (i + 1) * iov_len, n |-> H - first_chunk]}
    ELSE {[from |-> At, n |-> H]}

(* The bytes read are those of repetition k.                               *)
IsRepetition(P, k) ==
    \A r \in P : r.n > 0 =>
        /\ k * H <= r.from /\ r.from + r.n <= (k + 1) * H
        /\ r.from = k * H \/ \E q \in P : q.from + q.n = r.from

(* memcmp(&current, pgh): equal only for an intact repetition.             *)
Differs == ~(IsRepetition(Pieces, At \div H) /\ At \div H \notin torn)

(* The breaks before the header is looked at.                              *)
Break ==
    /\ ~done
    /\ EndOfBuffer \/ (Straddles /\ i + 1 >= nr)
    /\ done' = TRUE
    /\ UNCHANGED <<input, i, offset, cur_len, len, hdr, bad_repeat, pieces>>

(* The first header; below level 2 it is the only one looked at.           *)
FirstOnly ==
    /\ ~done /\ ~EndOfBuffer /\ ~(Straddles /\ i + 1 >= nr)
    /\ hdr = 0 /\ check < 2
    /\ pieces' = Pieces
    /\ done' = TRUE
    /\ UNCHANGED <<input, i, offset, cur_len, len, hdr, bad_repeat>>

(* The header is passed (offset += sizeof), and on to the next bucket.    *)
MUT_MoveNoCarry ==
    IF offset + H >= iov_len
    THEN /\ offset' = 0 /\ i' = i + 1
         /\ done' = (i + 1 >= nr)
         /\ IF i + 1 >= nr
            THEN UNCHANGED <<cur_len, len>>
            ELSE /\ cur_len' = (IF len < iov_len THEN len ELSE iov_len)
                 /\ len' = len - cur_len'
    ELSE offset' = offset + H /\ UNCHANGED <<i, cur_len, len, done>>

Move ==
    IF offset + H >= iov_len
    THEN /\ offset' = offset + H - iov_len /\ i' = i + 1
         /\ done' = (i + 1 >= nr)
         /\ IF i + 1 >= nr
            THEN UNCHANGED <<cur_len, len>>
            ELSE /\ cur_len' = (IF len < iov_len THEN len ELSE iov_len)
                 /\ len' = len - cur_len'
    ELSE offset' = offset + H /\ UNCHANGED <<i, cur_len, len, done>>

(* A repetition is compared.                                               *)
Compare ==
    /\ ~done /\ ~EndOfBuffer /\ ~(Straddles /\ i + 1 >= nr)
    /\ hdr > 0 \/ check >= 2
    /\ pieces' = Pieces
    /\ bad_repeat' = (IF hdr > 0 /\ Differs THEN bad_repeat + 1 ELSE bad_repeat)
    /\ hdr' = hdr + 1
    /\ Move
    /\ UNCHANGED input

Next == Break \/ FirstOnly \/ Compare \/ (done /\ UNCHANGED vars)

Spec == Init /\ [][Next]_vars

-----------------------------------------------------------------------------
TypeOK ==
    /\ nr \in Nat \ {0} /\ iov_len \in Nat /\ total \in 0 .. nr * iov_len
    /\ check \in 1 .. 3 /\ torn \subseteq 1 .. total \div H
    /\ i \in 0 .. nr /\ offset \in Nat /\ cur_len \in Nat /\ len \in Nat
    /\ hdr \in Nat /\ bad_repeat \in Nat /\ done \in BOOLEAN

(* The walk reads only bytes of the packet, however the headers fall on    *)
(* the buckets, and never copies a negative number of them.                *)
ReadsInBounds ==
    \A r \in pieces : 0 <= r.n /\ (r.n > 0 => 0 <= r.from /\ r.from + r.n <= total)

(* From level 2 on, when the walk ends every complete repetition in the    *)
(* packet has been compared exactly once: bad_repeat is the number of      *)
(* repetitions that differ.                                                *)
CountsTornHeaders ==
    done /\ check >= 2 =>
        /\ hdr = total \div H
        /\ bad_repeat = Cardinality({k \in torn : k < hdr})
=============================================================================
