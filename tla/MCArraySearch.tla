--------------------------- MODULE MCArraySearch ---------------------------
(* Arrays of 1 to 4 elements: main() puts match last; the variant that is  *)
(* commented out puts it first as well; up to two words behind match.      *)
EXTENDS ArraySearch

SmallArrays ==
    {[n |-> n, hits |-> h \cup {n - 1}, behind |-> {n + k : k \in b}] :
         n \in 1 .. 4, h \in {{}, {0}}, b \in SUBSET {0, 1}}
=============================================================================
