------------------------------ MODULE Mortals ------------------------------
(***************************************************************************)
(* Characters while they live in the game: they are born at an address     *)
(* somebody else may have had, follow and charm one another, fight in      *)
(* rounds, recover, lose their link, die and are freed.  The three         *)
(* structures that point at characters are those of CombatList, Followers  *)
(* and Regen; extract_char_smarter takes a character out of the first two. *)
(*                                                                         *)
(* A command, a blow and an event are handlers of one thread: each is one  *)
(* action.  A round of perform_violence is many: between the blows of a    *)
(* turn nothing but their consequences happens, outside a round anything.  *)
(***************************************************************************)
EXTENDS CombatList, Followers, Regen

CONSTANTS Players,          \* bound: players in the game at once
          Absent            \* bound: players without a link, or lost

VARIABLES
    stat,           \* what lives at each address
    fight,          \* the combat list
    pack,           \* masters, followers and charms
    regen,          \* recovery and its events
    phase,          \* whether perform_violence runs, or has hung
    turn,           \* whose attacks are under way in a round
    haunted         \* history: born where an event was still queued for another

vars == <<stat, fight, pack, regen, phase, turn, haunted>>

\* A mobile; a player at the menu, playing, or without a link; a player's body
\* that was extracted without a link and is never freed.
Stat == {"free", "mob", "menu", "pc", "ld", "lost"}

World == {c \in Char : stat[c] \in {"mob", "pc", "ld"}}

Init ==
    /\ stat = [c \in Char |-> "free"]
    /\ fight = Peace
    /\ pack = Alone
    /\ regen = Healthy
    /\ phase = "idle" /\ turn = Null
    /\ haunted = {}

Idle == phase = "idle"

\* Those whose effects of charm another pack has changed: affect_total, called for
\* each effect that comes or goes, ends with alter_hit.
Touched(p) == {c \in Char : p.charms[c] # pack.charms[c]}

-----------------------------------------------------------------------------
(* Births and departures *)

\* Bound: an address is reused only while it may have another event.
Born(c, as) ==
    /\ Idle /\ stat[c] = "free" /\ regen.queued[c] < MaxEvents
    /\ stat' = [stat EXCEPT ![c] = as]
    /\ haunted' = haunted \cup {x \in {c} : regen.queued[c] > 0}
    /\ UNCHANGED <<fight, regen, phase, turn>>

\* read_mobile, for a zone reset.
Spawn(c) == Born(c, "mob") /\ UNCHANGED pack

\* A mobile that a spell brings and charms: it is new, so nobody follows it.
Summon(ch, c) ==
    /\ stat[ch] \in {"mob", "pc"}
    /\ Born(c, "mob")
    /\ pack' = AffectToChar(AddFollower(pack, c, ch), c, "charm")

\* The body nanny allocates for a name, with the effects its file kept.
Login(c) ==
    /\ Cardinality({x \in Char : stat[x] \in {"menu", "pc", "ld"}}) < Players
    /\ Born(c, "menu")
    /\ \E kept \in SUBSET Charm :
        pack' = [pack EXCEPT !.charms[c] = kept, !.charmed[c] = kept # {}]

\* con_slct: reset_char, and alter_hit for a character that was hurt.
Enter(c) ==
    /\ Idle /\ stat[c] = "menu"
    /\ stat' = [stat EXCEPT ![c] = "pc"]
    /\ \E h \in BOOLEAN : regen' = AlterHit([regen EXCEPT !.hurt[c] = h], c)
    /\ UNCHANGED <<fight, pack, phase, turn, haunted>>

\* close_socket at the menu frees the body.
LeaveMenu(c) ==
    /\ Idle /\ stat[c] = "menu"
    /\ stat' = [stat EXCEPT ![c] = "free"]
    /\ pack' = [pack EXCEPT !.charms[c] = {}, !.charmed[c] = FALSE]
    /\ regen' = Freed(regen, c)
    /\ haunted' = haunted \ {c}
    /\ UNCHANGED <<fight, phase, turn>>

\* extract_char_smarter: out of the pack (which strips the charms only while
\* it has a master), out of the combat list with all who fight it; a mobile is
\* freed, a player goes to the menu with its link or is lost without one.
Extracted(c, f, p, r) ==
    LET left == DieFollower(p, c)
    IN  /\ stat' = [stat EXCEPT ![c] = CASE @ = "mob" -> "free"
                                         [] @ = "pc" -> "menu"
                                         [] @ = "ld" -> "lost"]
        /\ fight' = StopAllFighting(f, c)
        /\ pack' = IF stat[c] = "mob"
                   THEN [left EXCEPT !.charms[c] = {}, !.charmed[c] = FALSE]
                   ELSE left
        /\ LET next == AlterHits(r, Touched(left))
           IN  regen' = IF stat[c] = "mob" THEN Freed(next, c) ELSE next
        /\ haunted' = IF stat[c] = "mob" THEN haunted \ {c} ELSE haunted
        /\ turn' = IF turn = c THEN Null ELSE turn

\* die and raw_kill: the hit points are set to what a corpse has, which queues
\* an event even for a mobile that is freed at once.
Dies(c, f, p, r) == Extracted(c, f, p, Wound(r, c))

\* purge, a charm that ends its summoned bearer, a mobile that goes home.
Vanish(c) ==
    /\ Idle /\ stat[c] = "mob"
    /\ Extracted(c, fight, pack, regen)
    /\ UNCHANGED phase

\* do_quit, which a charmed or fighting player may not.
Quit(c) ==
    /\ Idle /\ stat[c] = "pc"
    /\ ~pack.charmed[c] /\ c \notin Fighters(fight)
    /\ Extracted(c, fight, pack, regen)
    /\ UNCHANGED phase

\* close_socket on a playing character: it stops following unless charmed.
LoseLink(c) ==
    /\ Idle /\ stat[c] = "pc"
    /\ Cardinality({x \in Char : stat[x] \in {"ld", "lost"}}) < Absent
    /\ stat' = [stat EXCEPT ![c] = "ld"]
    /\ pack' = IF pack.charmed[c] THEN pack ELSE StopFollower(pack, {c})
    /\ UNCHANGED <<fight, regen, phase, turn, haunted>>

Reconnected(r, c) == AlterHit(r, c)

\* con_pwdok finds the body without a link.
Reconnect(c) ==
    /\ Idle /\ stat[c] = "ld"
    /\ stat' = [stat EXCEPT ![c] = "pc"]
    /\ regen' = Reconnected(regen, c)
    /\ UNCHANGED <<fight, pack, phase, turn, haunted>>

\* check_idling, first stage: the opponent stops whoever it fights.
VoidPull(c) ==
    /\ Idle /\ stat[c] \in {"pc", "ld"} /\ c \in Fighters(fight)
    /\ fight' = StopFighting(StopFighting(fight, {fight.fighting[c]}), {c})
    /\ UNCHANGED <<stat, pack, regen, phase, turn, haunted>>

\* check_idling, second stage; a link that is still there is closed first.
ForceRent(c) ==
    /\ Idle /\ stat[c] = "ld"
    /\ Extracted(c, fight, pack, regen)
    /\ UNCHANGED phase
-----------------------------------------------------------------------------
(* Following and charms *)

Hangs == phase' = "hung" /\ UNCHANGED <<stat, fight, pack, regen, turn, haunted>>

\* The pack changes, and effects of those in who come, go or are recomputed.
Repack(p, who) ==
    /\ pack' = p
    /\ regen' = AlterHits(regen, who \cup Touched(p))
    /\ UNCHANGED <<stat, fight, phase, turn, haunted>>

\* circle_follow does not return from a circle that ch is no part of.
CircleFollowHangs(ch, victim) == Endless(pack, victim) /\ ~CircleFollow(pack, ch, victim)

\* fault: only following oneself is refused.
FollowUnchecked(ch, leader) == ch # leader
MayFollow(ch, leader) == ~CircleFollow(pack, ch, leader)

\* Leaves whom it follows, if anybody, and follows another.
NewMaster(p, c, leader) == AddFollower(StopFollower(p, {c}), c, leader)

\* do_follow of another; NudgeNudge does the same.
Follow(ch, leader) ==
    /\ Idle /\ ch \in World /\ leader \in World /\ ch # leader
    /\ stat[ch] # "ld"
    /\ ~(pack.charmed[ch] /\ pack.master[ch] # Null)
    /\ IF CircleFollowHangs(ch, leader) THEN Hangs
       ELSE /\ MayFollow(ch, leader)
            /\ Repack(NewMaster(pack, ch, leader), {})

\* do_follow of oneself.
FollowNobody(ch) ==
    /\ Idle /\ stat[ch] \in {"mob", "pc"} /\ pack.master[ch] # Null
    /\ ~pack.charmed[ch]
    /\ Repack(StopFollower(pack, {ch}), {})

\* spell_charm_person, spell_charm_monster.
CharmPerson(ch, victim) ==
    /\ Idle /\ stat[ch] \in {"mob", "pc"} /\ victim \in World /\ victim # ch
    /\ ~pack.charmed[victim] /\ ~pack.charmed[ch]
    /\ IF CircleFollowHangs(victim, ch) THEN Hangs
       ELSE /\ ~CircleFollow(pack, victim, ch)
            /\ Repack(AffectToChar(NewMaster(pack, victim, ch), victim, "charm"), {victim})

\* do_hypnosis, which does not make its victim leave the one it follows.
Hypnotise(ch, victim) ==
    /\ Idle /\ stat[ch] = "pc" /\ victim \in World /\ victim # ch
    /\ pack.charmed[victim] => pack.charmed[ch]
    /\ IF CircleFollowHangs(victim, ch) THEN Hangs
       ELSE /\ ~CircleFollow(pack, victim, ch)
            /\ Repack(AffectToChar(AddFollower(pack, victim, ch), victim, "hypnosis"), {victim})

\* spell_animal_friendship, which looks for no circle.
Befriend(ch, animal) ==
    /\ Idle /\ stat[ch] = "pc" /\ stat[animal] = "mob"
    /\ Repack(AffectToChar(NewMaster(pack, animal, ch), animal, "friendship"), {ch, animal})

\* The target of a rescue quest follows its rescuer; no circle is looked for.
Escort(mob, rescuer) ==
    /\ Idle /\ stat[mob] = "mob" /\ stat[rescuer] = "pc"
    /\ pack.master[mob] # rescuer
    /\ Repack(NewMaster(pack, mob, rescuer), {})

\* affect_update: what has run out.  SpellWearOff makes a charmed or hypnotised
\* character leave its master, and flee it; the effect of a charm is left to
\* stop_follower, every other is removed.
WearOff(c, a) ==
    /\ Idle /\ c \in World /\ a \in pack.charms[c]
    /\ LET leaves == a # "friendship" /\ pack.master[c] # Null
           left == IF leaves THEN StopFollower(pack, {c}) ELSE pack
       IN  /\ pack' = IF a = "charm" THEN left ELSE AffectRemove(left, c, a)
           /\ \/ fight' = fight
              \/ leaves /\ fight' = StopAllFighting(fight, c)
           /\ regen' = AlterHits(regen, Touched(pack'))
    /\ UNCHANGED <<stat, phase, turn, haunted>>

\* Any other effect or piece of equipment that comes or goes.
Refresh(c) == Idle /\ c \in World /\ Repack(AffectTotal(pack, c), {c})

-----------------------------------------------------------------------------
(* Blows *)

\* What set_fighting does besides: those without a link may flee.
Fleeing(f, two) ==
    {StopFighting(f, some \cup UNION {Foes(f, x) : x \in some}) :
        some \in SUBSET {x \in two : stat[x] = "ld"}}
Begins(f, ch, v) ==
    IF SetCharFighting(f, ch, v) = f THEN {f}
    ELSE Fleeing(SetCharFighting(f, ch, v), {ch, v})

\* damage makes the two fight, the victim first; a stunned victim does not, and
\* some kinds of damage make nobody fight.
Engaged(ch, v) ==
    {fight} \cup UNION {Begins(f, ch, v) : f \in {fight} \cup Begins(fight, v, ch)}

\* The victim leaves a master that hits it.
Betrayed(ch, v) == IF pack.master[v] = ch THEN StopFollower(pack, {v}) ELSE pack

\* Outside a round anybody may deal damage; in a turn the fighter whose turn it is,
\* and whatever it stirs up: a fireshield, a weapon that hits back.
Blow(ch, v) == (Idle \/ turn # Null) /\ {ch, v} \subseteq World /\ v # ch

Strike(ch, v, f, r) ==
    /\ fight' = f
    /\ pack' = Betrayed(ch, v)
    /\ regen' = AlterHits(r, Touched(pack'))
    /\ UNCHANGED <<stat, phase, turn, haunted>>

\* A shield stops the blow.
Glances(ch, v) == Blow(ch, v) /\ \E f \in Engaged(ch, v) : Strike(ch, v, f, regen)

Wounds(ch, v) ==
    Blow(ch, v) /\ \E f \in Engaged(ch, v) : Strike(ch, v, f, Wound(regen, v))

\* System shock, or the victim is no longer awake.
Stuns(ch, v) ==
    Blow(ch, v) /\ \E f \in Engaged(ch, v) :
        Strike(ch, v, StopFighting(f, {v}), Wound(regen, v))

\* The victim flees.
Routs(ch, v) ==
    Blow(ch, v) /\ \E f \in Engaged(ch, v) :
        Strike(ch, v, StopAllFighting(f, v), Wound(regen, v))

Kills(ch, v) ==
    /\ Blow(ch, v)
    /\ \E f \in Engaged(ch, v) : Dies(v, f, Betrayed(ch, v), Wound(regen, v))
    /\ UNCHANGED phase

Refight(f) == fight' = f /\ UNCHANGED <<stat, pack, regen, phase, turn, haunted>>

\* Spells that make their victim fight without a look at the room there is.
Provoke(ch, v) ==
    /\ Idle /\ stat[ch] \in {"mob", "pc"} /\ v \in World /\ v # ch
    /\ v \notin Fighters(fight)
    /\ \E f \in Fleeing(SetFighting(fight, v, ch), {v, ch}) : Refight(f)

Flee(c) ==
    /\ Idle /\ stat[c] \in {"mob", "pc"}
    /\ Refight(StopAllFighting(fight, c))

\* do_rescue: takes the place of the victim against one of its foes.
Rescue(ch, victim) ==
    /\ Idle /\ stat[ch] = "pc" /\ victim \in World /\ ch # victim
    /\ fight.fighting[ch] # victim /\ fight.attackers[victim] < MaxAttackers
    /\ \E foe \in Foes(fight, victim) \ {ch} :
        LET apart == StopFighting(fight,
                {foe, ch} \cup ({victim} \cap Foes(fight, foe)))
        IN  \E f \in Fleeing(SetFighting(SetFighting(apart, ch, foe), foe, ch), {foe}) :
                Refight(f)

-----------------------------------------------------------------------------
(* Rounds of perform_violence *)

BeginRound ==
    /\ Idle /\ fight.list # << >>
    /\ phase' = "round"
    /\ fight' = AtHead(fight)
    /\ UNCHANGED <<stat, pack, regen, turn, haunted>>

Taken(c) ==
    /\ phase = "round" /\ turn = Null
    /\ c = fight.next

\* Awake and in the room of its opponent.
TakesTurn(c) ==
    /\ Taken(c)
    /\ fight' = PastNext(fight)
    /\ turn' = c
    /\ UNCHANGED <<stat, pack, regen, phase, haunted>>

\* Asleep, paralysed, elsewhere or in a peaceful room.
Disengages(c) ==
    /\ Taken(c)
    /\ fight' = StopFighting(PastNext(fight), {c})
    /\ UNCHANGED <<stat, pack, regen, phase, turn, haunted>>

\* A mobile looks for all the masters of the mobile it fights in the room.
TurnHangs(c) ==
    /\ Taken(c) /\ stat[c] = "mob" /\ stat[fight.fighting[c]] = "mob"
    /\ Endless(pack, fight.fighting[c])
    /\ Hangs

TurnEnds ==
    /\ turn # Null
    /\ turn' = Null
    /\ UNCHANGED <<stat, fight, pack, regen, phase, haunted>>

EndRound ==
    /\ phase = "round" /\ turn = Null /\ fight.next = Null
    /\ phase' = "idle"
    /\ UNCHANGED <<stat, fight, pack, regen, turn, haunted>>

-----------------------------------------------------------------------------
(* Recovery *)

Recover(r) == regen' = r /\ UNCHANGED <<stat, fight, pack, phase, turn, haunted>>

\* Poison and the like turn the gain negative; affect_total follows either way.
Sicken(c) ==
    /\ Idle /\ c \in World /\ ~regen.ill[c]
    /\ Recover(AlterHit([regen EXCEPT !.ill[c] = TRUE], c))
Cure(c) ==
    /\ Idle /\ c \in World /\ regen.ill[c]
    /\ Recover(AlterHit([regen EXCEPT !.ill[c] = FALSE], c))

\* points_event for memory that is free, or for a player without a descriptor
\* (at the menu it has one until it has been extracted once).
EventIsDropped(c) ==
    /\ Idle /\ regen.queued[c] > 0
    /\ \/ stat[c] = "free" /\ Recover(Unqueued(regen, c))
       \/ stat[c] \in {"menu", "ld", "lost"} /\ Recover(Begun(regen, c))

PointsEvent(c) ==
    /\ Idle /\ regen.queued[c] > 0
    /\ stat[c] \in {"mob", "pc", "menu"}

\* Some points: the next event, unless the character is whole.
EventHeals(c) ==
    /\ PointsEvent(c) /\ ~regen.ill[c]
    /\ \E h \in {FALSE, regen.hurt[c]} :
        Recover(AlterHit([Begun(regen, c) EXCEPT !.hurt[c] = h], c))

\* Damage instead, and no next event but for what the damage does: a shield may
\* stop it; else it may put an end to a fight, or to the character.
EventHarms(c) ==
    /\ PointsEvent(c) /\ regen.ill[c] /\ stat[c] # "menu"
    /\ \/ Recover(Begun(regen, c))
       \/ /\ regen' = Wound(Begun(regen, c), c)
          /\ fight' \in {fight, StopFighting(fight, {c}), StopAllFighting(fight, c)}
          /\ UNCHANGED <<stat, pack, phase, turn, haunted>>
       \/ Dies(c, fight, pack, Begun(regen, c)) /\ UNCHANGED phase

\* circle_follow and the walk of perform_violence never return.
Hung == phase = "hung" /\ UNCHANGED vars

Next ==
    \/ \E c \in Char : Spawn(c) \/ Login(c) \/ Enter(c) \/ LeaveMenu(c) \/ Vanish(c)
    \/ \E c \in Char : Quit(c) \/ LoseLink(c) \/ Reconnect(c) \/ VoidPull(c) \/ ForceRent(c)
    \/ \E c \in Char : FollowNobody(c) \/ Refresh(c) \/ Flee(c) \/ Sicken(c) \/ Cure(c)
    \/ \E c \in Char, a \in Charm : WearOff(c, a)
    \/ \E c, d \in Char : Summon(c, d) \/ Follow(c, d) \/ CharmPerson(c, d)
    \/ \E c, d \in Char : Hypnotise(c, d) \/ Befriend(c, d) \/ Escort(c, d)
    \/ \E c, d \in Char : Glances(c, d) \/ Wounds(c, d) \/ Stuns(c, d) \/ Routs(c, d)
    \/ \E c, d \in Char : Kills(c, d) \/ Provoke(c, d) \/ Rescue(c, d)
    \/ \E c \in Char : TakesTurn(c) \/ Disengages(c) \/ TurnHangs(c)
    \/ BeginRound \/ TurnEnds \/ EndRound
    \/ \E c \in Char : EventIsDropped(c) \/ EventHeals(c) \/ EventHarms(c)
    \/ Hung

Spec == Init /\ [][Next]_vars

-----------------------------------------------------------------------------
\* Every variable has its type; in particular no count of attackers leaves the
\* range stop_fighting and set_fighting keep it in.
TypeOK ==
    /\ stat \in [Char -> Stat]
    /\ fight \in Combat
    /\ pack \in Pack
    /\ regen \in Recovery
    /\ phase \in {"idle", "round", "hung"}
    /\ turn \in Char \cup {Null}
    /\ haunted \subseteq Char

\* The list links exactly the characters that have an opponent, each once.
ListIsTheFighters ==
    /\ IsInjective(fight.list)
    /\ ToSet(fight.list) = Fighters(fight)

\* Nobody fights, or is fought, who left the world: no pointer dangles.
FightersLive ==
    \A c \in Fighters(fight) : {c, fight.fighting[c]} \subseteq World

\* The remembered fighter, and the one whose turn it is, are still there.
RoundIsSound ==
    /\ fight.next \in Fighters(fight) \cup {Null}
    /\ turn \in World \cup {Null}
    /\ phase = "idle" => fight.next = Null /\ turn = Null

\* A victim never counts more attackers than it has.
AttackersAreReal ==
    \A v \in Char : fight.attackers[v] <= Cardinality(Foes(fight, v))

\* perform_violence and stop_fighting (which asserts that the fighter is on the
\* list) rest on this, whoever dies, flees or is freed in the middle of a round.
CombatSound ==
    ListIsTheFighters /\ FightersLive /\ RoundIsSound /\ AttackersAreReal

\* A character is on the list of its master, once, and on no other (the assert
\* of stop_follower), both are in the world, and a mobile under
\* SPELL_CHARM_PERSON has a master: check_decharm could not free it otherwise.
FollowSound ==
    /\ \A l \in Char : IsInjective(pack.followers[l])
    /\ \A c, l \in Char : c \in ToSet(pack.followers[l]) <=> pack.master[c] = l
    /\ \A c \in Char : pack.master[c] # Null => {c, pack.master[c]} \subseteq World
    /\ \A c \in World : stat[c] = "mob" /\ "charm" \in pack.charms[c]
                            => pack.master[c] # Null

\* Whoever is in play and hurt has an event that will heal it, its pointer
\* never refers to an event that was freed, and two events heal one character
\* only where an event of a former owner of the memory was still queued.
RegenSound ==
    /\ \A c \in Char : stat[c] \in {"mob", "pc"} /\ regen.hurt[c] /\ ~regen.ill[c]
                            => regen.queued[c] > 0
    /\ \A c \in Char : regen.armed[c] => regen.queued[c] > 0
    /\ \A c \in Char : stat[c] # "free" /\ c \notin haunted => regen.queued[c] <= 1

\* A circle of followers, from which circle_follow never returns, is closed
\* only by the two callers of add_follower that do not look for one.
CirclesAreUnchecked ==
    [][~Circular(pack) /\ Circular(pack') =>
        \E c, d \in Char : Befriend(c, d) \/ Escort(c, d)]_vars

Rounds == INSTANCE TurnRounds WITH
    members <- fight.list,
    waiting <- ToSet(Upcoming(fight))

\* perform_violence gives each fighter that stays in the fight its turn.
ImplementsTurns == Rounds!TSpec
=============================================================================
