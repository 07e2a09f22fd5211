---------------------------- MODULE MCReporting ----------------------------
(* Reporting with an outbox of three frames that each get two attempts.    *)
EXTENDS Reporting

(* After any change at once, or after two seconds and every three.         *)
MCIntervals == {[min |-> 0, max |-> 0], [min |-> 2, max |-> 3]}
=============================================================================
