----------------------------- MODULE MCSessions -----------------------------
(* Small instances of Sessions.  p belongs to the account, where there is  *)
(* one; every other character that exists belongs to nobody.  Descriptors  *)
(* and bodies are interchangeable, so TLC may identify states that differ  *)
(* by a permutation of them.                                               *)
EXTENDS Sessions, TLC

CONSTANTS p, acc

OwnerMC == [n \in Known |-> IF n = p /\ acc \in Account THEN acc ELSE Null]
Symmetry == Permutations(Desc) \cup Permutations(Body \ Mob)
=============================================================================
