----------------------------- MODULE MCDelivery -----------------------------
(* Delivery with tables of two entries and small counters.                 *)
EXTENDS Delivery

CONSTANTS s1, s2
TwoAndOne == [s \in {s1, s2} |-> IF s = s1 THEN 2 ELSE 1]
TwoForOne == [s \in {s1} |-> 2]

SourcePairs == [source : Sources, counter : 0..(Modulus - 1)]
=============================================================================
