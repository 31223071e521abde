----------------------------- MODULE CombatList -----------------------------
(***************************************************************************)
(* The list of fighters of fight.cpp: combat_list, linked by next_fighting *)
(* with the newest fighter first, the opponent of each fighter, the count  *)
(* of attackers each victim keeps, and the global combat_next_dude, which  *)
(* perform_violence leaves with the fighter whose turn is next while blows *)
(* may take anybody off the list.  Each function of the code is an         *)
(* operator from one state of the list to the next.                        *)
(***************************************************************************)
EXTENDS Characters, Lists, FiniteSetsExt

CONSTANT MaxAttackers       \* attackers a victim has room for (6 in the code)

ASSUME AttackersAssumption == MaxAttackers \in Nat \ {0}

\* next is combat_next_dude.
Combat == [list : Seq(Char),
           fighting : [Char -> Char \cup {Null}],
           attackers : [Char -> 0 .. MaxAttackers],
           next : Char \cup {Null}]

Peace == [list |-> << >>,
          fighting |-> [c \in Char |-> Null],
          attackers |-> [c \in Char |-> 0],
          next |-> Null]

Fighters(f) == {c \in Char : f.fighting[c] # Null}
Foes(f, v) == {c \in Char : f.fighting[c] = v}

\* fault: a new fighter is linked last.
SetFightingAtTail(f, ch, vict) ==
    IF ch \in Fighters(f) THEN f
    ELSE [f EXCEPT !.list = Append(@, ch),
                   !.fighting[ch] = vict,
                   !.attackers[vict] = IF @ < MaxAttackers THEN @ + 1 ELSE @]

\* Past MaxAttackers the code only logs: the fight begins uncounted.
SetFighting(f, ch, vict) ==
    IF ch \in Fighters(f) THEN f
    ELSE [f EXCEPT !.list = << ch >> \o @,
                   !.fighting[ch] = vict,
                   !.attackers[vict] = IF @ < MaxAttackers THEN @ + 1 ELSE @]

\* SetCharFighting(ch, v) and SetVictFighting(v, ch).
MayFight(f, ch, v) == ch # v /\ f.attackers[v] < MaxAttackers
SetCharFighting(f, ch, v) == IF MayFight(f, ch, v) THEN SetFighting(f, ch, v) ELSE f

\* The fighters from combat_next_dude on, in the order they get their turn.
Upcoming(f) ==
    IF f.next = Null \/ ~Contains(f.list, f.next) THEN << >>
    ELSE LET at == CHOOSE i \in DOMAIN f.list : f.list[i] = f.next
         IN  SubSeq(f.list, at, Len(f.list))

FirstOf(s) == IF s = << >> THEN Null ELSE Head(s)

\* fault: the count of attackers goes below nothing.
UnlinkedBelowZero(f, gone) ==
    [f EXCEPT !.list = Staying(@, gone),
              !.fighting = [c \in Char |-> IF c \in gone THEN Null ELSE @[c]],
              !.attackers = [v \in Char |-> @[v] - Cardinality(gone \cap Foes(f, v))]]

\* What stop_fighting does but for the turns: each of a set is unlinked, and its
\* opponent has one attacker less, never fewer than none.
Unlinked(f, gone) ==
    [f EXCEPT !.list = Staying(@, gone),
              !.fighting = [c \in Char |-> IF c \in gone THEN Null ELSE @[c]],
              !.attackers = [v \in Char |->
                    Max({0, @[v] - Cardinality(gone \cap Foes(f, v))})]]

\* fault: the remembered fighter is not moved on.
StopFightingKeepsNext(f, who) == Unlinked(f, who \cap Fighters(f))

\* stop_fighting for each of a set, one after the other: combat_next_dude moves
\* on whenever it is the one that leaves.
StopFighting(f, who) ==
    LET gone == who \cap Fighters(f)
    IN  [Unlinked(f, gone) EXCEPT !.next = FirstOf(Staying(Upcoming(f), gone))]

\* StopAllFightingWith, do_flee, and extract_char_smarter: a character and all
\* who fight it.
StopAllFighting(f, c) == StopFighting(f, {c} \cup Foes(f, c))

\* perform_violence: the loop starts at the head, and remembers the fighter
\* after the one whose turn it is.
AtHead(f) == [f EXCEPT !.next = FirstOf(f.list)]
PastNext(f) == [f EXCEPT !.next = IF Upcoming(f) = << >> THEN Null
                                  ELSE FirstOf(Tail(Upcoming(f)))]
=============================================================================
