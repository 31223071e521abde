------------------------------ MODULE MCMortals ------------------------------
(* Three addresses, one player: the player, a mobile and one more, each of   *)
(* which may die and have its memory taken by another.                       *)
EXTENDS Mortals, TLC

CONSTANTS c1, c2, c3
AllChars == {c1, c2, c3}
Addresses == Permutations(AllChars)

(* Bound: what may tie characters to one another or to an event at one time. *)
Times(x, b) == IF b THEN x ELSE 0
Ties == MapThenSumSet(LAMBDA c :
    Times(1, fight.fighting[c] # Null) + Times(1, pack.master[c] # Null)
    + Cardinality(pack.charms[c]) + Times(1, pack.charmed[c] /\ pack.charms[c] = {})
    + regen.queued[c] + Times(1, regen.ill[c]) + Times(1, c \in haunted), Char)
FewTies == Ties <= 3
=============================================================================
