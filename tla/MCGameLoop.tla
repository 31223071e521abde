----------------------------- MODULE MCGameLoop -----------------------------
(* Four descriptors: one being processed, its neighbours on both sides and *)
(* one more that a handler can close next to them.                         *)
EXTENDS GameLoop
=============================================================================
