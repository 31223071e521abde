---------------------------- MODULE MCEventQueue ----------------------------
(* A small instance of EventQueue: three events over three buckets, with   *)
(* delays that are clamped (-1 and 0), that cross buckets (2) and that     *)
(* meet an earlier event in its bucket (4 after 1).                        *)
EXTENDS EventQueue

DelayMC == {-1, 0, 2, 4}
=============================================================================
