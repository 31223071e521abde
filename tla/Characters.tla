----------------------------- MODULE Characters -----------------------------
(***************************************************************************)
(* The memory the characters of the game live in.  Every list of the game  *)
(* links char_data by address, and an address that was freed is given to   *)
(* the next character that needs one.                                      *)
(***************************************************************************)
EXTENDS Integers, Sequences, FiniteSets

CONSTANTS Char,             \* addresses of char_data
          Null              \* the null pointer

ASSUME NullIsNoChar == Null \notin Char
ASSUME CharIsFinite == IsFiniteSet(Char)
=============================================================================
