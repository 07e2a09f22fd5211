------------------------------ MODULE MCScenes ------------------------------
(* Scenes with two groups of which one fits, and two scenes.               *)
EXTENDS Scenes, TLC

Symmetry == Permutations(Groups)
=============================================================================
