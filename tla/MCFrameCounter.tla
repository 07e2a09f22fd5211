--------------------------- MODULE MCFrameCounter ---------------------------
(* FrameCounter with a margin of three, so that a few frames use it up.    *)
EXTENDS FrameCounter
=============================================================================
