------------------------------ MODULE RentStore ------------------------------
(***************************************************************************)
(* What a player owns and the record it is kept in (reception.cpp,         *)
(* handler.cpp).  A heap is a sequence of entries in the order of the      *)
(* lists: what is worn first, by slot, then what is carried; an object is  *)
(* followed by what it contains, one level deeper.  save_obj writes a heap *)
(* in that order, with each object's depth; obj_store_to_char rebuilds the *)
(* lists by putting every object at the head of its list.                  *)
(***************************************************************************)
EXTENDS Naturals, SequencesExt

CONSTANTS Item, None,   \* the objects, and no object
          Slots,        \* MAX_WEAR
          MaxObjSave    \* MAX_OBJ_SAVE

ASSUME StoreAssumption == /\ IsFiniteSet(Item) /\ None \notin Item
                          /\ Slots \in Nat /\ MaxObjSave \in Nat

\* kept: the object can be stored; a corpse and what cannot be rented cannot.
Entry == [item : Item, kept : BOOLEAN, depth : Nat, worn : 0 .. Slots]
Loose(i) == << [item |-> i, kept |-> TRUE, depth |-> 0, worn |-> 0] >>
Items(h) == {h[k].item : k \in DOMAIN h}
At(h, i) == CHOOSE k \in DOMAIN h : h[k].item = i

\* The entries of an object and of all it contains: up to the last that is
\* deeper than it without a break.
Ends(h, k) == {m \in k .. Len(h) : \A j \in k + 1 .. m : h[j].depth > h[k].depth}
Whole(h, k) == SubSeq(h, k, Max(Ends(h, k)))
Without(h, k) == SubSeq(h, 1, k - 1) \o SubSeq(h, Max(Ends(h, k)) + 1, Len(h))
Top(h) == {k \in DOMAIN h : h[k].depth = 0}

\* The object s[1] and its contents, loose, to be put at a depth and slot.
Placed(s, d, pos) ==
    [k \in DOMAIN s |-> [s[k] EXCEPT !.depth = @ - s[1].depth + d,
                                      !.worn = IF k = 1 THEN pos ELSE 0]]
Insert(h, n, s) == SubSeq(h, 1, n) \o s \o SubSeq(h, n + 1, Len(h))

\* Where the slot pos, or for pos > Slots the inventory, begins.
Before(h, pos) == Cardinality({k \in DOMAIN h :
                      \A t \in Top(h) : t <= k => h[t].worn \in 1 .. pos - 1})
ObjToChar(h, s) == Insert(h, Before(h, Slots + 1), Placed(s, 0, 0))
ObjToObj(h, s, c) == Insert(h, At(h, c), Placed(s, h[At(h, c)].depth + 1, 0))
\* equip_char leaves an object that finds its slot taken where it is: nowhere.
EquipChar(h, s, pos) == IF \E t \in Top(h) : h[t].worn = pos THEN h
                        ELSE Insert(h, Before(h, pos), Placed(s, 0, pos))

-----------------------------------------------------------------------------
(* save_obj: obj_to_store on every slot and then on the inventory.           *)

\* fault: the record has no limit.
PutObjUnbounded(s, e) ==
    LET noted == IF e.worn > 0 THEN e.worn ELSE s.noted
    IN  IF ~ e.kept THEN [s EXCEPT !.noted = noted]
        ELSE [st |-> Append(s.st, [e EXCEPT !.worn = noted]), noted |-> 0]
\* The slot is noted in the next free entry before it is known whether the
\* object is stored; an object that is not leaves the note to the next one.
PutObjInStore(s, e) ==
    LET noted == IF e.worn > 0 THEN e.worn ELSE s.noted
    IN  IF ~ e.kept \/ Len(s.st) >= MaxObjSave THEN [s EXCEPT !.noted = noted]
        ELSE [st |-> Append(s.st, [e EXCEPT !.worn = noted]), noted |-> 0]
SaveObj(h) == FoldLeft(PutObjInStore, [st |-> << >>, noted |-> 0], h).st

(* obj_store_to_char: cur is tmp_cur_depth, in the first cur of in_obj.      *)

\* fault: a smaller depth does not leave the container.
StoreToCharStays(s, e) ==
    LET worn == IF e.depth > 0 THEN 0 ELSE e.worn
        depth == IF e.worn > 0 THEN 0 ELSE e.depth
        in == IF depth > Len(s.in) THEN Append(s.in, s.last) ELSE s.in
        obj == Loose(e.item)
    IN  [in |-> in, last |-> e.item,
         heap |-> IF worn > 0 THEN EquipChar(s.heap, obj, worn)
                  ELSE IF in = << >> THEN ObjToChar(s.heap, obj)
                  ELSE IF Last(in) \in Items(s.heap) THEN ObjToObj(s.heap, obj, Last(in))
                  ELSE s.heap]

\* An entry that is both deep and worn loses both; a deeper one goes into the
\* object before it, a less deep one leaves one container, however many levels
\* it is above; what has no container to go into, or goes into an object that
\* had none, is in nobody's list.
StoreToChar(s, e) ==
    LET worn == IF e.depth > 0 THEN 0 ELSE e.worn
        depth == IF e.worn > 0 THEN 0 ELSE e.depth
        in == IF depth > Len(s.in) THEN Append(s.in, s.last)
              ELSE IF depth < Len(s.in) THEN Front(s.in) ELSE s.in
        obj == Loose(e.item)
    IN  [in |-> in, last |-> e.item,
         heap |-> IF worn > 0 THEN EquipChar(s.heap, obj, worn)
                  ELSE IF in = << >> THEN ObjToChar(s.heap, obj)
                  ELSE IF Last(in) \in Items(s.heap) THEN ObjToObj(s.heap, obj, Last(in))
                  ELSE s.heap]
ObjStoreToChar(st) ==
    FoldLeft(StoreToChar, [in |-> << >>, last |-> None, heap |-> << >>], st).heap

-----------------------------------------------------------------------------
(* Reference: where every object is, whatever the order of the lists.        *)
Holder(h, k) == LET above == {j \in 1 .. k - 1 : h[j].depth < h[k].depth}
                IN  IF h[k].depth = 0 THEN None ELSE h[Max(above)].item
Places(h) == {<< h[k].item, Holder(h, k), h[k].worn >> : k \in DOMAIN h}

\* Everything can be stored, and no depth is more than one less than the one
\* before: from a bag in a bag nothing follows that is in no bag.
Tidy(h) == /\ \A k \in DOMAIN h : h[k].kept
           /\ \A k \in 2 .. Len(h) : h[k].depth >= h[k - 1].depth - 1
\* The first object that is stored is not in one that is not.
Headed(h) == SaveObj(h) = << >> \/ SaveObj(h)[1].depth = 0
\* What the record of a heap lists comes back from it, where it was.
ComesBack(h) ==
    /\ Tidy(h) => Places(ObjStoreToChar(SaveObj(h)))
                    = Places(SubSeq(h, 1, Min({Len(h), MaxObjSave})))
    /\ Headed(h) => Items(ObjStoreToChar(SaveObj(h))) = Items(SaveObj(h))
=============================================================================
