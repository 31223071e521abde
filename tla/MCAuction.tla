----------------------------- MODULE MCAuction -----------------------------
(* A small instance of Auction: two players, one of them richer.  Bodies    *)
(* are interchangeable.                                                     *)
EXTENDS Auction, TLC

CONSTANTS anna, bruno

PurseMC == [n \in Name |-> IF n = anna THEN 2 ELSE 1]
\* Once a refused rent has left a record behind, up to the next first bid.
UpToABid == stale = {} \/ lot.bet = 0
Symmetry == Permutations(Body)
=============================================================================
