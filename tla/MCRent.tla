------------------------------- MODULE MCRent -------------------------------
(* Two players; two bags, a pouch that may not be stored, and a sword.*)
EXTENDS Rent

CONSTANTS alice, bruno, bag, sack, pouch, sword
Players == {alice, bruno}
Objects == {bag, sack, pouch, sword}
Same == {p @@ b : p \in Permutations(Players), b \in Permutations({bag, sack})}

\* Bound: nothing is followed once a refused save has given an object twice.
OneOfEach == copied = {}
\* Bound: what the players own and what their records list, together.
Listed == MapThenSumSet(LAMBDA p : Len(heap[p]) + Len(file[p]), Player)
FewListed == Listed <= 4
=============================================================================
