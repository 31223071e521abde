-------------------------------- MODULE Rent --------------------------------
(***************************************************************************)
(* Objects among the players and on the ground, and the records that       *)
(* outlive the process.  A command moves its objects and then saves the    *)
(* players it concerns one after the other (NODUPLICATES): the process may *)
(* end before any of these saves.  Moves and saves that follow them are    *)
(* separate steps for that reason only; no other command comes between.    *)
(***************************************************************************)
EXTENDS RentStore

CONSTANTS Player, Ground,   \* Ground: all rooms, and the containers and corpses in them
          Bag, Wearable,    \* objects that are containers, and that can be worn
          Junk              \* objects that it may be impossible to store

ASSUME RentAssumption == /\ Ground \notin Player
                         /\ Bag \subseteq Item /\ Wearable \subseteq Item /\ Junk \subseteq Item

VARIABLES heap,      \* what each player owns in memory, and what lies on the ground
          file,      \* the record of each player: character_rent, or the rent file
          playing,   \* players whose character is in the world
          saves,     \* players the command in progress has still to save
          behind,    \* ghost: players whose record was left out of date
          copied     \* ghost: objects that came back from such a record beside the original
vars == << heap, file, playing, saves, behind, copied >>

Owner == Player \cup {Ground}

-----------------------------------------------------------------------------
(* The commands: the objects move, then saves holds who is saved.            *)

\* The objects of a heap, each with its contents, one by one at the head of
\* the room's list.
ToRoom(room, h) ==
    FoldLeftDomain(LAMBDA r, k : IF k \in Top(h) THEN ObjToChar(r, Whole(h, k)) ELSE r, room, h)

Carried(p) == {k \in Top(heap[p]) : heap[p][k].worn = 0}
Worn(p) == Top(heap[p]) \ Carried(p)
\* An open container in the inventory or in the room, and what is in it.
Open(p, c) == c \in Bag /\ \E k \in Carried(p) : heap[p][k].item = c
InRoom(c) == c \in Bag /\ \E k \in Top(heap[Ground]) : heap[Ground][k].item = c
In(o, c) == {k \in DOMAIN heap[o] : heap[o][k].depth = 1 /\ Holder(heap[o], k) = c}

Move(p, k, q) == heap' = [heap EXCEPT ![p] = Without(@, k), ![q] = ObjToChar(@, Whole(heap[p], k))]
Calm == saves = << >>
Mind(p) == p \in playing /\ Calm

\* get: from the room or from a container, one or more; saved if any was taken.
Gets(p) == /\ Mind(p)
           /\ \E k \in Top(heap[Ground])
                    \cup UNION {In(Ground, c) : c \in {b \in Bag : InRoom(b)}} :
                Move(Ground, k, p)
           /\ saves' = << p >>
           /\ UNCHANGED << file, playing, behind, copied >>
Unpacks(p) == /\ Mind(p)
              /\ \E c \in {b \in Bag : Open(p, b)} : \E k \in In(p, c) :
                   heap' = [heap EXCEPT ![p] = ObjToChar(Without(@, k), Whole(@, k))]
              /\ saves' = << p >>
              /\ UNCHANGED << file, playing, behind, copied >>

\* drop, put, give: a refusal after the first object returns without saving.
EndsWith(end, who, giver) ==
    /\ saves' = IF end = "done" THEN who ELSE << >>
    /\ behind' = IF end = "done" THEN behind ELSE behind \cup giver
    /\ UNCHANGED << file, playing, copied >>
Ends2 == {"done", "cut"}

Drops(p, end) == /\ Mind(p)
                 /\ \E k \in Carried(p) : Move(p, k, Ground)
                 /\ EndsWith(end, << p >>, {p})
Puts(p, end) ==
    /\ Mind(p)
    /\ \E k \in Carried(p) : \E c \in Bag \ {heap[p][k].item} :
         \/ /\ Open(p, c)
            /\ heap' = [heap EXCEPT ![p] = ObjToObj(Without(@, k), Whole(@, k), c)]
            /\ EndsWith(end, << p >>, {})
         \/ /\ InRoom(c) /\ ~ Open(p, c)
            /\ heap' = [heap EXCEPT ![p] = Without(@, k),
                                    ![Ground] = ObjToObj(@, Whole(heap[p], k), c)]
            /\ EndsWith(end, << p >>, {p})

\* fault: the receiver is saved before the giver.
GivesReceiverFirst(p, q, end) == /\ Mind(p) /\ q \in playing \ {p}
                                 /\ \E k \in Carried(p) : Move(p, k, q)
                                 /\ EndsWith(end, << q, p >>, {p})
Gives(p, q, end) == /\ Mind(p) /\ q \in playing \ {p}
                    /\ \E k \in Carried(p) : Move(p, k, q)
                    /\ EndsWith(end, << p, q >>, {p})

\* steal: the thief is saved first, and until the victim is, both records
\* list the object.
Steals(p, q) == /\ Mind(p) /\ q \in playing \ {p}
                /\ \E k \in Carried(q) \cup Worn(q) : Move(q, k, p)
                /\ saves' = << p, q >> /\ behind' = behind \cup {q}
                /\ UNCHANGED << file, playing, copied >>

\* wear and remove do not save.
Wears(p, pos) == /\ Mind(p) /\ \A k \in Worn(p) : heap[p][k].worn # pos
                 /\ \E k \in {j \in Carried(p) : heap[p][j].item \in Wearable} :
                      heap' = [heap EXCEPT ![p] = EquipChar(Without(@, k), Whole(@, k), pos)]
                 /\ UNCHANGED << file, playing, saves, behind, copied >>
Removes(p) == /\ Mind(p)
              /\ \E k \in Worn(p) :
                   heap' = [heap EXCEPT ![p] = ObjToChar(Without(@, k), Whole(@, k))]
              /\ UNCHANGED << file, playing, saves, behind, copied >>

-----------------------------------------------------------------------------
(* Saving, leaving and coming back.                                          *)

\* update_file: the record is replaced, or the database fails, which is logged
\* and nothing more.
Recorded(p) == \/ /\ file' = [file EXCEPT ![p] = SaveObj(heap[p])]
                  /\ behind' = behind \ {p}
               \/ file' = file /\ behind' = behind \cup {p}
\* The next save of the command in progress, or the save command, a tick's
\* save, the save when the link is lost.
DoSave(p) == /\ p \in playing
             /\ \/ Calm /\ saves' = << >>
                \/ ~ Calm /\ p = Head(saves) /\ saves' = Tail(saves)
             /\ Recorded(p)
             /\ UNCHANGED << heap, playing, copied >>

\* recep_offer accepts something to keep, if all of it can be kept and counted.
Offer(p) == /\ Len(heap[p]) \in 1 .. MaxObjSave
            /\ \A k \in DOMAIN heap[p] : heap[p][k].kept
\* rent, or force rent, that recep_offer accepts: the objects are destroyed.
Rents(p) == /\ Mind(p) /\ Offer(p) /\ Recorded(p)
            /\ heap' = [heap EXCEPT ![p] = << >>] /\ playing' = playing \ {p}
            /\ UNCHANGED << saves, copied >>

\* What extract_char leaves in the room: the inventory, then the equipment.
Leaves(p) == /\ heap' = [heap EXCEPT ![p] = << >>, ![Ground] = ToRoom(@, heap[p])]
             /\ playing' = playing \ {p}
\* quit, and death (the corpse holds the objects): zero_rent.
Quits(p) == /\ Mind(p) /\ Leaves(p)
            /\ file' = [file EXCEPT ![p] = << >>] /\ behind' = behind \ {p}
            /\ UNCHANGED << saves, copied >>
\* Force rent that recep_offer refuses, also for a killer of players: the
\* objects stay in the room, and the record as it was.
IdlesOut(p) == /\ Mind(p) /\ Leaves(p)
               /\ behind' = IF file[p] = << >> THEN behind ELSE behind \cup {p}
               /\ UNCHANGED << file, saves, copied >>

\* load_char_objs; the save at the menu is skipped for a migrated player.
Elsewhere(p) == {x \in Items(file[p]) : \E o \in Owner \ {p} : 
                    x \in Items(heap[o]) \/ (o \in Player /\ x \in Items(file[o]))}
Enters(p) ==
    /\ p \notin playing /\ Calm
    /\ playing' = playing \cup {p}
    /\ \/ /\ heap' = [heap EXCEPT ![p] = ObjStoreToChar(file[p])]
          /\ copied' = copied \cup (IF p \in behind THEN Elsewhere(p) ELSE {})
          /\ behind' = behind \ {p}
          /\ saves' \in {<< >>, << p >>}
          /\ UNCHANGED file
       \/ \* the gold does not pay the rent: everything is sold
          /\ file' = [file EXCEPT ![p] = << >>]
          /\ behind' = behind \ {p}
          /\ UNCHANGED << heap, saves, copied >>

\* The process ends, at any point of a command, and starts again.
Crash == /\ heap' = [o \in Owner |-> << >>]
         /\ playing' = {} /\ saves' = << >>
         /\ UNCHANGED << file, behind, copied >>

-----------------------------------------------------------------------------
Init == /\ \E s \in SetToSeqs(Item), junk \in SUBSET Junk :
             heap = [o \in Owner |->
                 IF o = Ground
                 THEN [k \in DOMAIN s |-> [Loose(s[k])[1] EXCEPT !.kept = s[k] \notin junk]]
                 ELSE << >>]
        /\ file = [p \in Player |-> << >>]
        /\ playing = Player /\ saves = << >> /\ behind = {} /\ copied = {}

Next == \/ \E p \in Player : \/ Gets(p) \/ Unpacks(p) \/ Removes(p) \/ DoSave(p)
                             \/ Rents(p) \/ Quits(p) \/ IdlesOut(p) \/ Enters(p)
                             \/ \E end \in Ends2 : Drops(p, end) \/ Puts(p, end)
                             \/ \E q \in Player : Steals(p, q)
                             \/ \E q \in Player, end \in Ends2 : Gives(p, q, end)
                             \/ \E pos \in 1 .. Slots : Wears(p, pos)
        \/ Crash

Spec == Init /\ [][Next]_vars

-----------------------------------------------------------------------------
\* Type invariant: heaps and records are made of entries, a record is no longer
\* than MAX_OBJ_SAVE, and only players in the world own objects in memory.
TypeOK == /\ heap \in [Owner -> Seq(Entry)]
          /\ file \in [Player -> Seq(Entry)]
          /\ \A p \in Player : Len(file[p]) <= MaxObjSave
          /\ playing \subseteq Player /\ \A p \in Player \ playing : heap[p] = << >>
          /\ saves \in Seq(playing)
          /\ behind \subseteq Player /\ copied \subseteq Item

\* Whatever a player comes to own, a record of it made now would give it back:
\* every object, and each in its container or slot, unless something was not
\* stored, or the depth falls by more than one (save_obj, obj_store_to_char).
RestoredInPlace == \A p \in playing : ComesBack(heap[p])

\* A crash does not duplicate objects: what a record lists is not in the hands
\* of another, on the ground or in another's record, except where a command
\* returned before its saves, a theft is half saved, the database failed, or
\* force rent was refused (do_give, do_drop, do_put, do_get, zero_rent,
\* save_obj).
RecordsSound ==
    \A p \in Player \ behind : \A x \in Items(file[p]) \ copied :
        /\ \A q \in Player \ (behind \cup {p}) : x \notin Items(file[q])
        /\ (\A n \in DOMAIN saves : saves[n] # p)
              => \A o \in Owner \ {p} : x \notin Items(heap[o])
=============================================================================
