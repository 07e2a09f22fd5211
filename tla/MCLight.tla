------------------------------ MODULE MCLight ------------------------------
(* Light with three brightnesses and a clock of four seconds.                     *)
EXTENDS Light
=============================================================================
