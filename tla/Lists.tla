-------------------------------- MODULE Lists --------------------------------
(***************************************************************************)
(* The linked lists of the code as sequences.  An element is unlinked      *)
(* wherever it stands and the others keep their order: what SelectSeq says *)
(* too, but by the positions that stay, which a proof can reason about.    *)
(***************************************************************************)
EXTENDS Integers, SequencesExt

\* How many of a set of positions come no later than one of them.
Rank(at, i) == Cardinality({j \in at : j <= i})

Kept(s, gone) == {i \in DOMAIN s : s[i] \notin gone}
Staying(s, gone) ==
    LET kept == Kept(s, gone)
    IN  [k \in 1 .. Cardinality(kept) |-> s[CHOOSE i \in kept : Rank(kept, i) = k]]
=============================================================================
