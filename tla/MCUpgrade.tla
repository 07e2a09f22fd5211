------------------------------ MODULE MCUpgrade ------------------------------
(* A device on version 1 and a server that comes to hold 2 and then 3, an  *)
(* image that ends in the middle of a sector and one that ends with it.    *)
EXTENDS Upgrade

ThreeThenTwo == [v \in Versions |-> IF v = 2 THEN 3 ELSE 2]
=============================================================================
