------------------------------ MODULE Presence ------------------------------
(***************************************************************************)
(* What the login and link handling promise about one player character,    *)
(* without descriptors, bodies or lists: it is out of the game, waiting at *)
(* the menu, playing, or standing in the world without a link.  One that   *)
(* lost its link comes back by playing on, never through the menu with a   *)
(* second body.                                                            *)
(***************************************************************************)
CONSTANT Name               \* the player characters

VARIABLE where              \* what each of them is doing

Place == {"out", "menu", "playing", "linkdead"}

Moves(n, from, to) == where[n] = from /\ where' = [where EXCEPT ![n] = to]

Login(n)     == Moves(n, "out", "menu")
Enter(n)     == Moves(n, "menu", "playing")
Leave(n)     == Moves(n, "playing", "menu")
LoseLink(n)  == Moves(n, "playing", "linkdead")
Reconnect(n) == Moves(n, "linkdead", "playing")
Depart(n)    == Moves(n, "menu", "out") \/ Moves(n, "linkdead", "out")

PInit == where = [n \in Name |-> "out"]

PNext ==
    \E n \in Name : \/ Login(n) \/ Enter(n) \/ Leave(n)
                    \/ LoseLink(n) \/ Reconnect(n) \/ Depart(n)

PSpec == PInit /\ [][PNext]_where
=============================================================================
