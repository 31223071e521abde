# A TLA+ model of the Nebbie Arcane server

Nebbie Arcane is a multi-user dungeon: one C++ process (`src/src/`), one
thread, one `select` loop, and a world of characters and objects linked by
pointers. Nothing runs in parallel. What makes the program hard is that
everything is shared: a command typed by one player may close the connection
of another, free a body somebody else points to, or be called from the middle
of a loop over the list it changes. The modules here state what holds in spite
of that.

Contents: [inventory](#1-inventory), [modules](#2-modules-and-the-code),
[runs](#3-runs-and-bounds), [findings](#4-where-the-code-differs-from-what-it-says),
[proofs](#5-proofs), [limits](#6-what-is-not-modelled-or-not-proved),
[plan](#7-plan).

To check a configuration: `tlc -config MCEventQueue.cfg MCEventQueue`. To check
the proofs: `tlapm` on each of `EventQueueProofs`, `GameLoopProofs`,
`AuctionProofs`, `ListProofs`, `CombatListProofs`, `MortalsProofs`,
`SessionsProofs` and `RentProofs`.

## 1. Inventory

| Component | State | Operations | What is hard | What must hold |
|---|---|---|---|---|
| **Event queue** (`queue.cpp`, `events.cpp`, heartbeat in `comm.cpp`) | `pulse`; `event_q`, ten sorted lists | `event_create`, `event_cancel`, `event_process` | one bucket in ten is looked at, and only its head; callbacks create and cancel events while the bucket is emptied | every event runs in its own pulse; none is lost, run twice or freed twice |
| **Sessions and login** (`interpreter.cpp`, `comm.cpp`, extraction in `handler.cpp`, polymorph and switch in `act.wizard.cpp` and `magic2.cpp`, idling in `maximums.cpp`, `free_char` in `db.cpp`) | `descriptor_list`, `character_list`, `desc`/`character`/`original`/`snoop` pointers, the toon table | connect, the login states, reconnect, quit, die, rent, idle, polymorph, return, switch, snoop, purge, link loss | one side of a pointer pair is written at a time, by functions that call one another; every move can meet a player in any other state | pointers agree; one body, one driver per character; lists hold only what is alive |
| **Game loop** (`comm.cpp`) | `descriptor_list`, `next_to_process` | accept, exceptions, input, process, output, clock | handlers close any descriptor during the walk | the walk never follows a freed descriptor; everybody is served |
| **Auction** (`auction.cpp`, refunds; `free_char` in `db.cpp`) | `auction_data` (item, parties as pointer and name, bet, calls, clock) | sell, bid, stop, purge, the three calls | parties change bodies, quit or vanish between a bid and the settlement | no gold is made; an item comes back once; who attends gets what is due; a lot ends |
| **Combat list** (`fight.cpp`, `act.off.cpp`) | `combat_list`, `combat_next_dude`, `fighting`, `attackers` | `set_fighting`, `stop_fighting`, `StopAllFightingWith`, `perform_violence` | a blow kills, routs or engages others of the list that is being walked | the list links exactly who fights; nobody fights who is gone; every fighter gets its turn |
| **Followers and charms** (`spell_parser.cpp`, `act.move.cpp`, the charming spells) | `master`, `followers`, effects with `AFF_CHARM` | `add_follower`, `stop_follower`, `die_follower`, `affect_update` | masters and followers die in any order; charms end one by one; chains may close | both sides agree; both are in the world; no unexpected circle |
| **Regeneration** (`regen.cpp`) | `points_event`, events in the queue | `points_event`, `alter_hit` | events outlive the character and find another at its address | who is hurt heals; a pointer never leads to an event that is gone |
| **Rent and persistence** (`reception.cpp`, `act.obj.cpp`, `act.obj_get.cpp`, `act.other.cpp`, `maximums.cpp`, `db.cpp`) | heaps of objects; a record per player | `save_obj`, `obj_store_to_char`, `do_save`, get, drop, put, give, steal, rent, quit, force rent | the process may end between the saves of two players; nesting is kept as depths | a record gives back what was saved, where it was; a crash does not double an object |
| **Object placement** (`handler.cpp`) | `carried_by`, `in_obj`, `in_room`, `equipped_by`, weights | `obj_to_*`, `obj_from_*`, `equip_char`, `extract_obj` | four exclusive places, counters kept by hand | an object is in one place (as part of Rent); weights are left out |
| **Affects** (`handler.cpp`) | affect list, attribute sums | `affect_to_char`, `affect_remove`, `affect_total` | additions that must be undone exactly; calls of `alter_hit` | the charm flag goes with its last effect (as part of Followers); sums are left out |
| Reboot scheduler (`modify.cpp`), zone resets (`db.cpp`) | thresholds on a clock, a queue of ages | `check_reboot`, `zone_update` | one actor each | not modelled (section 6) |
| Command lookup, combat formulas, spells, mobile scripts, shops, boards, mail, builders' editors, database mapping, movement, signals | | | data and text rather than protocol | not modelled (section 6) |

How they interact. The game loop calls the nanny or a command for each
descriptor that has input; these call one another freely (`con_pwdok` closes
another socket, `close_socket` calls `do_return`, which calls `extract_char`,
which edits the character list and the descriptor). After the input pass, on a
clock, the loop increments `pulse`, runs `event_process`, `auction_update`,
`point_update` and the fights. The auction remembers characters across all of
it; `free_char` tells it when one of them goes.

## 2. Modules and the code

```
TimerService  <== implemented by ==  EventQueue  -- MCEventQueue, EventQueueProofs
Presence      <== implemented by ==  Sessions    -- MCSessions, SessionsProofs
ServiceRounds <== implemented by ==  GameLoop    -- MCGameLoop, GameLoopProofs
                                     Auction     -- MCAuction, AuctionProofs
TurnRounds    <== implemented by ==  Mortals     -- MCMortals, MortalsProofs
                                       |-- CombatList (-- CombatListProofs)
                                       |-- Followers, Regen, Characters
                                     Rent        -- MCRent, RentProofs
                                       |-- RentStore
Lists (-- ListProofs): the linked lists of CombatList, Followers and Sessions
```

Every step of the models is atomic where the code is: a command, a nanny state
or a clock function runs to its end before anything else happens, so it is one
action. It is split only where the code itself gives way to something else (a
callback inside `event_process`, a handler inside the processing pass, a blow
inside a round), or where the process may end (between two saves).
Operators marked `fault` in the modules are not used by them: each is a
plausible wrong version of the definition that follows it, kept to show that
the properties notice it.

### EventQueue, TimerService

`bucket` is `event_q->head[]` as sequences; `pulse` is the global. `QueueEnq`
is `queue_enq` with its scan from the tail, `Unlink` the four cases of
`queue_deq`, `HeadIsDue` the test `pulse >= queue_key(event_q)`, which sees
the current bucket only. `control` says where the thread is: in the game, at
the `while` of `event_process`, or in a callback. `EventCreate` and
`EventCancel` are enabled in the game and in a callback. Keys are `long` in the
code and grow by one per pulse (a quarter of a second); they do not overflow.
`MaxPulse` bounds the run and nothing is armed beyond it.

`TimerService` is what the callers rely on: a set of armed timers with due
times, a clock that does not pass a due timer, and timers that fire only when
due. The refinement maps `now` to `pulse` and `due` to the key of each queued
event.

### Sessions, Presence

`sock` and `body` are the descriptors and characters by address; `order` and
`people` are `descriptor_list` and `character_list`, in order, because
`con_pwdok` acts on the last descriptor it finds and on the first body. Each
function of the code that others call (`CloseSocket`, `FreeChar`, `DoReturn`,
`ExtractPlayer`, `ForgetSnooping`, ...) is an operator from a world to a world,
and an action is a composition of them in the order of the code. Login states
that differ only in what they ask next are one (`ConState`). Passwords,
wizlock, bans and levels are choices: an action is possible if some input makes
it so. A polymorphed shape has the name of its player (`spell_poly_self` copies
it) and the kind `"poly"`; an ordinary mobile has none.

`refused` stands for the one condition of `do_return` that is not in the state:
the shape is fighting. Two history variables name characters registered since
the start (`recreated`) and those of them that another connection was creating
at the same time (`contested`): `con_nme` looks for a name many inputs before
`con_register` takes it. `OneBodyPerName` is stated for characters that are not
recreated; the type invariant, `LinksAgree`, `OneDriver`, `ListsSound` and
`PlayersAreInTheWorld` hold as long as no name is contested (`Undisputed`; what
happens afterwards is in section 4).

`Presence` is the promise per character: out, at the menu, playing, or
linkdead; from linkdead only back to playing or out.

### GameLoop, ServiceRounds

`point`, `next` and `stage` are the local variables and the place in the body
of the pass; `pass` is the loop of `game_loop` that runs. In the exceptions,
input and output passes only the current descriptor can be closed; in the
processing pass any of them can, and `next` is the global `next_to_process`
which `CloseSocket` moves on. `Thinned` and `Prepend` are the accept step near
`MAX_CONNECTS`: which descriptors have no character yet is not in this module,
so any of them may go. `ServiceRounds` promises rounds: in each, whoever was
open at its start and stays open is served once.

### Auction

`lot` is `auction_data`. Bodies, links and files are kept as far as the auction
can tell them apart; `Sessions` justifies that a name has one link.
`IsPresent` is `is_present` with both of its ways to find a party: the
remembered pointer while the name in it matches, else the descriptors.
`Login`, `Enter`, `LinkLost`, `LeaveGame`, `ForceRent`, `PolySelf`, `Return` are
those parts of the session code that touch gold, items, the room (room 3 is the
`"store"`) or the pointers. A body's `kind` tells a player's own body from a
shape (`IS_POLY`), which may not deal. Gold and prices are small numbers;
`MinBid` stands for 100 coins, `Reserve` and `Offer` are the prices a seller may
ask and the sums a bidder may name.

`saved` is the gold and the item record of each player. `Enter` copies what the
record lists and leaves it listed, as `load_char_objs` does; the record changes
when a link is lost (`close_socket` saves both), when the player rents, and when
it quits (`ZeroRent`). What it lists meanwhile is read by nobody: `Listed` is
the record of a player that has no body in the game, and `ItemsAreNotDuplicated`
counts that. The items of a record that a refused force rent leaves behind are
kept in the history variable `stale` and excepted, because the code does double
them: `check_idling` drops the objects in the room and the next login reads the
record of the lost link once more (`maximums.cpp:1462`, the same step as
`IdlesOut` of `Rent`).

### Mortals: CombatList, Followers, Regen, TurnRounds

`CombatList`, `Followers` and `Regen` define the three structures that point
from character to character or from an event to a character, each as a record
and operators from record to record: `SetFighting` is `set_fighting` (count of
attackers, head of the list), `StopFighting` is `stop_fighting` (which moves
`combat_next_dude` on), `StopFollower`, `DieFollower` and `AddFollower` are
named after theirs, `AlterHit` is `alter_hit` with its test of whether an event
is needed. `Mortals` has the world they live in: `stat` says what is at each
address, and `Born` takes an address that was freed, where an event of the
former character may still be in the queue (`queued`), since `free_char` cancels
nothing. What such an event then does depends on the magic number it finds:
`EventIsDropped`, `EventHeals`, `EventHarms`.

`Extracted` is `extract_char_smarter`: followers, fights and links are cut in
the order of the code. `Strike` composes a blow as `damage` does: the victim
and the attacker are set fighting, a charmed victim leaves a master that hits
it, a victim without a link flees, which is inside `set_fighting` here as it is
there; `Glances`, `Wounds`, `Stuns`, `Routs` and `Kills` are its outcomes. A
round is `BeginRound`, then for each fighter `TakesTurn` or `Disengages`, any
number of blows, `TurnEnds`, and `EndRound`; no command comes between. What
keeps a character from acting (position, room, sleep, saving throws) is a choice.

Walks up the masters (`circle_follow`, and the one of `perform_violence` for
mobiles) do not end in a circle. The model says so: the server goes to
`phase = "hung"` and stays there. `CirclesAreUnchecked` says who can bring it
about.

`TurnRounds` is what a round promises: each of those that fight when it begins
and fight on gets one turn, the newest first. A fighter that leaves and comes
back, even within one blow (its opponent has no link, flees inside
`set_fighting`, and is attacked again), waits for the next round. The
refinement maps `members` to the combat list and `waiting` to the part of it
from `combat_next_dude` on.

### Rent: RentStore

`RentStore` is the pure part. A heap is what a player owns, as the sequence in
which `save_obj` meets it: each object with its depth and slot. `SaveObj` is
`save_obj` with `obj_to_store` and `put_obj_in_store`; `ObjStoreToChar` is
`obj_store_to_char` with `obj_to_char`, `obj_to_obj` and `equip_char` as they
are used there, `in` being the part of `in_obj` below `tmp_cur_depth`. Two
details are kept because they decide where objects end up: the slot of a worn
object is written before it is known whether the object is stored, and a
smaller depth leaves one container, however much smaller it is. `Places` is the
reference: the container or slot of every object, whatever the order.

`Rent` has the players, the ground (all rooms and corpses in one) and the
records. A command moves its object in one step and leaves in `saves` the
players `do_save` is then called for, in the order of the code; `DoSave` takes
them one at a time, `Crash` may come instead, and `update_file` may fail, which
is only logged. Give, drop and put have a second ending, `"cut"`: the return
that skips the saves, after a refusal or when "all.x" has run out of objects. A
command that moves several objects is several such steps. Force rent that
`recep_offer` refuses is `IdlesOut`.

`behind` and `copied` are ghost variables: the players whose record was left
listing what they no longer have, by a path named in the code above, and the
objects such a record has already given back a second time.

## 3. Runs and bounds

| Run | Instance | States | Checks |
|---|---|---|---|
| `event_queue` (MCEventQueue.cfg) | 3 events, 3 buckets, delays -1, 0, 2, 4; 8 pulses | 2 942 | `TypeOK`, `NothingOverdue`, `RunningIsNotQueued`, `FiresOnTime`, `EveryEventLeaves`, `ImplementsTimers` |
| `sessions` (MCSessions.cfg) | a character and a name that is free, 3 descriptors, 4 bodies; until a name is disputed | 230 125 | pointers, lists, one driver, one body, `ImplementsPresence` |
| `accounts` (MCAccounts.cfg) | 2 characters, an account that owns one of them, 2 descriptors, 3 bodies; until a name is disputed | 1.9 million | `LinksAgree`, `OneDriver`, `OneBodyPerName` through all login states |
| `shapes` (MCShapes.cfg) | an immortal and a player, a mobile, 2 descriptors, 4 bodies | 1.5 million | `LinksAgree`, `ListsSound`, `SnoopIsMutual`, `LinkIsNotStolen` |
| `game_loop` (MCGameLoop.cfg) | 4 descriptors | 2 902 | `TypeOK`, `NextIsLive`, `ImplementsRounds`, `EveryoneIsServed` |
| `auction` (MCAuction.cfg) | 2 players with 2 and 1 coins, 3 bodies, 1 item, offers up to all the gold; after a record was left behind up to a first bid | 3.1 million | the seven properties of the module |
| `mortals` (MCMortals.cfg) | 3 characters, one of them a player at a time, 1 attacker at once, 2 events per character; at most 3 ties | 149 586 | `TypeOK`, `CombatSound`, `FollowSound`, `RegenSound`, `CirclesAreUnchecked`, `ImplementsTurns` |
| `rent` (MCRent.cfg) | 2 players, 2 bags, a pouch that may be impossible to store, a sword, 1 slot, records of 3 objects; at most 4 objects owned and listed | 1.7 million | `TypeOK`, `RestoredInPlace`, `RecordsSound` under crashes and failing saves |
| `shape_left_behind`, `force_rent`, `idle_close`, `auction_absent` | small | | a counterexample each, section 4 |

Why the bounds are enough.

- *event_queue*: with three buckets a delay of 4 lands in the bucket of a delay
  of 1 one round later, which is where order inside a bucket matters; delays
  below 1 meet the clamp; eight pulses are more than two rounds; three events
  can stand before, at and after an insertion point. The proofs remove all of
  these bounds but `MaxPulse`, which is arbitrary there.
- *sessions*: a character can be wanted by two connections while a third plays
  it, and the free name can be wanted by all three; four bodies hold one for
  each connection and one left in the world, or a shape. With `MaxConnects = 3`
  the third connection meets both limits of `new_descriptor`. `Undisputed` is a
  state constraint here and in *accounts*: a state in which a contested name was
  registered is reached and not followed.
- *accounts*: a second character that belongs to nobody is what the account's
  one is confused with; two connections are the fewest that interfere.
- *shapes*: the mobile, the immortal's and the player's own bodies, and one
  shape: every pair of them can be swapped while the other is.
- *game_loop*: the current descriptor, its neighbours on both sides and one
  beyond, so a run of neighbours can be closed in one handler.
- *auction*: two parties with unequal purses bid against one another until the
  gold is out; three bodies let a party own a left body, a menu body or a shape
  while the other one plays. One item is enough because there is one lot.
  `UpToABid` is a state constraint: with one item, nothing is left to say of it
  once a refused force rent has left its record behind, so such behaviours are
  followed through further logins and sales up to the first bid that is made,
  and the settlements after it are covered from the states without a `stale`
  record and by the proofs, which have no such bound.
- *mortals*: three characters are an attacker, its victim and the next of the
  list; a master, a follower and a stranger; a circle of two and one beside it
  (the circle of three, as well). Two events at one address are that of the
  character and that of the one before. `FewTies` is a state constraint: a
  state with more than three ties (fights, masters, charms, events, illnesses,
  births into a haunted address) is checked but not followed. Three are enough
  for a fight of two with a remembered third to be cut by a death, for a master
  to die among followers, for a circle to close and be walked in a fight.
  `MaxAttackers` is the limit of `set_fighting` on how many fight one victim.
- *rent*: two players are those of a trade. Four objects give bags in bags, an
  object after a bag, a slot, and one more than a record holds; the pouch may be
  one that is not stored, worn, carried or with contents. `FewListed` and
  `OneOfEach` are state constraints: a state with more than four objects owned
  and listed, or where a record that was behind has doubled an object, is
  checked but not followed.

Descriptors, and bodies that are not mobiles at the start, are interchangeable
and are symmetry sets in the runs without liveness properties. `Name` is not:
purses and owners differ. The refinement run and the action properties do not
name a descriptor or a body, so symmetry is sound for them. So are characters
(`mortals`), players and the two bags (`rent`), which nothing in the modules
tells apart.

`CHECK_DEADLOCK FALSE` is given where the bounded system may stop: at
`MaxPulse`, with all bodies used, or after the last coin. `game_loop`,
`mortals` and `rent` have no such bound and deadlock is checked.

Fairness. `EventQueue` assumes weak fairness of the loop's own steps
(heartbeat, `event_process`, return of a callback) and none of the callers':
the loop never waits for a player, since `select` polls. `GameLoop` assumes the
same of its passes, and that a handler returns (no handler of the code loops
waiting for input). No fairness is assumed of players or the network, so a
player may never act again. `Auction` states no liveness; its
`EveryLotAdvances` is the variant that makes every lot end as long as
`auction_update` is called: the clock, the calls and the bet move only towards
the third call, and the bet is bounded by the gold there is.

## 4. Where the code differs from what it says

- **A shape is left behind** (`shape_left_behind`, `NoShapeLeftBehind`).
  `close_socket` means to force a return when the link dies (comment at
  `comm.cpp:1293`), but `do_return` refuses who is fighting
  (`act.wizard.cpp:3870`). The shape stays without a link and with the player's
  equipment; the own body waits in room 3, and a reconnection finds that one.
- **A switched immortal loses its place** (`force_rent`,
  `PlayersAreInTheWorld`). Force rent of the body an immortal left by `switch`:
  `extract_char_smarter` calls `force_return`, which returns at once for an
  ordinary mobile. The body leaves the character list while its player plays
  on; its next extraction meets `assert(0)`.
- **The idle test frees the current descriptor** (`idle_close`,
  `PointIsLive`). `game_loop` closes an idle login connection and goes on to
  read `point->wait` and `point->input`. `close_socket` guards the next
  descriptor only.
- **The auctioneer deals with an old body** (`auction_absent`,
  `ConnectedLoseNothing`). `is_present` is said to find the connected player of
  a name; it accepts the remembered pointer while the name in it matches. A
  body that was rented away without a link is never freed, keeps its name, and
  stands for a player who is back in a new body: the refund goes to the old
  one.

Met while modelling, and kept as named exceptions of the properties rather than
as runs: two connections that create the same new name. The first to reach
`con_register` gets the row; `con_pwdok` (`interpreter.cpp:2993`) looks for other
characters of the name and closes the last one it finds, so with three
connections one is left with a character of a name it does not have. A later
login then takes over a body that connection still points to: two descriptors
drive one character, and when one of them closes the other plays a character
that is gone. Three descriptors and four bodies show it, which is how `LinksAgree`
turned out to need `Undisputed`; with fewer bodies it cannot happen. `RecordsSound` excepts the paths that leave a record behind (the early
returns of give, drop and put; the theft that saves the thief first,
`act.other.cpp:895`; force rent that is refused, logged at `maximums.cpp:1462`
as the loss of the equipment while the record keeps it). `RestoredInPlace`
excepts a heap in which a depth falls by more than one (after a bag in a bag
that holds something, the next object comes back inside the outer bag) or in
which something is not stored. `CirclesAreUnchecked` names animal friendship
and the rescue quest, which call `add_follower` without the test its comment
(`spell_parser.cpp:1363`) asks of callers.

The properties of the passing runs are stated so that these cases are outside
them (`AttendingLoseNothing` asks that a party has left no body behind) or
cannot arise in their instance (`PlayersAreInTheWorld` without immortals), and
each is the subject of its own run.

## 5. Proofs

`EventQueueProofs` proves, for every number of buckets, every set of events and
delays and every bound on the pulse:

| Theorem | Says |
|---|---|
| `TypeCorrect` | `TypeOK` always |
| `FreedOnce` | an event is queued at most once and not while its callback runs |
| `NeverOverdue` | outside `event_process` nothing queued is due |
| `RunsOnTime` | a callback is entered in the pulse its event was armed for |
| `QueueRefinesTimers` | the bucket queue implements `TimerService` |

Assumptions: the named ones of the module (`NQ` positive, `NoEvent` not an
event, delays integers, `MaxPulse` a natural number).

Argument. `NothingOverdue` is not inductive: it speaks of all buckets while
`event_process` looks at one head. The inductive invariant `IndInv` adds what
links the two: an element is in the bucket of its key modulo `NQ`
(`KeysInTheirBucket`), buckets are sorted (`BucketsSorted`), and no key is in
the past, strictly so outside `event_process` (`NoKeyInThePast`). A key that is
due equals the pulse, hence lies in the current bucket, hence at its head;
`event_process` stops only when the head is later, so nothing due is left. That
the queue stays sorted rests on `InsertPointProps` (the scan stops at a place
where everything before is smaller and nothing after is) and `LinkAfterProps`;
removal on `UnlinkProps`. `QueuedOnce` and `RunningIsNotQueued` make the map
from events to keys a function, which the refinement needs (`KeyOfElement`,
`EnqElements`, `DeqElements`). `RefinementStep` maps `EventCreate` to `Arm`,
`EventCancel` to `Disarm`, `EventProcess` to `Fire`, `Heartbeat` to `Advance`,
and the other two steps to a stutter.

`GameLoopProofs` proves, for every set of descriptors:

| Theorem | Says |
|---|---|
| `TypeCorrect` | `TypeOK` always |
| `NextAlwaysLive` | no pass goes on to a descriptor that was closed |
| `LoopRefinesRounds` | the processing pass implements `ServiceRounds` |

Assumption: `Null` is not a descriptor. Argument. `NextIsLive` needs three more
facts to be inductive: the list has no repetitions (else unlinking one
occurrence would leave another), what was fetched with the current descriptor
is its neighbour (so closing the current one in the transfer passes leaves it
in the list), and the accept pass and the clock run between walks, with no
current descriptor. The refinement maps the connections that still wait to the
rest of the list from `next` on; `FromNext` says that going on takes exactly the
current one off it, and `CloseTakesOne` that `close_socket`, which moves
`next_to_process` when it must, takes exactly the closed one off, whether it is
the next, an earlier or a later one.

`AuctionProofs` proves, for all players, bodies, items, purses, prices and
clocks:

| Theorem | Says |
|---|---|
| `TypeCorrect` | `TypeOK` always; a purse never goes below nothing |
| `PartiesAlwaysValid` | the seller and buyer pointers are null or lead to a body of the party |
| `LotsAdvance` | what happens to a lot raises its bet or brings the third call nearer |
| `ItemsAlwaysOnce` | an item is in one place at most, or in one record that a login will read, unless a refused force rent left that record behind |
| `GoldIsNeverMade` | no step adds to the gold of the players and the standing bet |
| `AttendingNeverLose` | with both parties attending, no step on the lot loses gold |
| `WinnerAlwaysTakes` | an attending winner has the item in the body it plays; an attending seller has it back |

Assumptions: `Null` is nothing else; the players are finitely many (the sum of
what they own is a fold over them); purses, prices and offers are natural numbers; `MinBid` and the two clocks are positive. Argument.
`PartiesAreNotFreed` is not inductive: `CallOut` and `Bid` store what
`is_present` found through a descriptor, so links must lead to bodies of their
own player (`LinksAreNamed`, with the own body of a polymorphed player apart
from its shape), and a body is taken again when its name is gone, so a pointer
must never be kept without a name (`PartiesAreNamed`). The steps fall in two
groups: those of the auction change no name and no link (`LotStep`); those of
players change the lot only through `free_char`, and rename only bodies that
are nobody's or that they report to it (`MoveStep`, `LinkStep`). `LotsAdvance`
rests on `MinNextIsARaise`: a bid that is accepted is above the last one, and a
first one is above nothing, also when no reserve was asked.

What each player owns (`Wealth`) depends on where its gold
is, so the gold theorems need where that is (`Living`): one own body in the rooms at
most, the one that is played or that a shape stands for, and a file that holds
no more gold than the body that replaces it, since the menu and force rent fall
back on the file. `WealthIs` reads the three cases off that. A step of a player
touches nobody else (`Alone`), and one of the auction pays one body
(`PaidTo`) or pays one and charges another (`BidSettles`); `TotalChange` says that a sum changes
by what one of its terms does. A refund is exact when the party attends because
`is_present` then finds the body that is played (`AttendingIsPresent`): its
remembered pointer may lead to the own body behind a shape, but that one waits
in the store without a link, which `linkdead_room3_ok` refuses.

Items are proved place by place (`Apart`): each step takes an item out of one
place and puts it into one other, or loses it (entering the game forgets what
the body carried). The records are the hard place, since one lists its items
while they are carried. `Apart` is therefore about `listed`, what the next
logins bring back, and `ItemInv` adds to it what decides whether a record will
be read: where a player's own body is (`Living`, from the gold) and that who
plays has one in a room (`Standing`), so that losing a link uncovers no record.
Leaving and being rented away uncover one, and the lemmas of these steps show
that it was rewritten, or its items are `stale`.

`MortalsProofs` proves, for every set of addresses, any number of attackers a
victim has room for and any number of events at an address:

| Theorem | Says |
|---|---|
| `TypesAreKept` | `TypeOK` always |
| `CombatStaysSound` | the combat list links exactly who fights, each once; nobody fights who is gone, and the remembered fighter is in the list |
| `PacksStaySound` | masters and followers agree and are both in the world; a charm has its effect |
| `RecoveryStaysSound` | a pointer to an event leads to one that is queued; who is hurt has one |
| `CombatRefinesTurns` | `perform_violence` implements `TurnRounds`: who stays in the fight gets one turn in a round, the newest first |
| `CheckedCallersCloseNoCircle` | only animal friendship and the rescue quest can close a circle of followers |

Assumptions: `Null` is no character, characters are finitely many (they are
addresses), `MaxAttackers` and `MaxEvents` are positive. Argument. The three
structures meet only in `Extracted` and in the blows, so the inductive invariant
is a conjunction of one part for each: `Lawful(fight, ...)`, in which a victim
never counts more attackers than fight it (`set_fighting` refuses at the limit,
and a count that ran ahead would refuse for ever); `PackSound(pack, ...)`, in
which a follower list has no repetition, else `stop_follower`, which unlinks
once, would leave a follower without a master in the list; `Counted` and
`Heals`, which account for every queued event: outside addresses that are
haunted by an event of a former character, exactly the one its `points_event`
points to. Each function of the code is a lemma of its own from a sound record
to a sound record (`SetFightingLawful`, `StopFightingSound`, `AlterHitHeals`,
...); a blow composes them, and between `set_fighting` and the flight of a
linkless victim the record is sound but the one who fights may have no
opponent, which is why those lemmas do not ask that both are engaged.

The refinement reads the list of fighters as `members` and what is left of it
from `next` on as `waiting`. `BeginRound` maps to `Begin`; `TakesTurn` and
`Disengages` map to `Turn`, because `next` is the newest of those that wait
(`PastNextUpcoming`); every other step is a `Change`. For that, one relation
between two states of the list, `Moves(f, g)`: those who stay keep their order,
behind whoever joined, and those who stay and waited go on waiting. It holds
across `set_fighting` (`SetFightingMoves`) and `stop_fighting`
(`StopFightingMoves`) and of two such steps in a row (`MovesTwice`), so a rescue
or a blow that kills is the chain of the calls it makes. Order is said by
positions (`Precedes` in `ListProofs`), which composes; `StayingIsSuffix` turns it
back into the suffix that the abstract module speaks of.

The circles rest on one fact about the walk of `circle_follow`, however many
characters there are: it does not end for somebody exactly when there is a trap,
a set of characters whose masters are all in the set (`TrapIsEndless`, and
`EndlessIsTrap` by the pigeonhole principle: more steps than characters meet one
of them twice). Who leaves a master makes no trap (`LeavingIsOpen`), a new
master below whom the walk has not found the follower makes none
(`CheckedIsOpen`), nor does the master of a mobile that nobody follows yet
(`NewbornIsOpen`). `ClimbWalks` shows that the walk, a recursive function,
exists, so that it can be unrolled.

`SessionsProofs` proves, for every number of descriptors, bodies, names and
accounts, every login state and every order of inputs:

| Theorem | Says |
|---|---|
| `TypesAreKept` | `TypeOK` always |
| `LinksAlwaysAgree` | the pointers of descriptors and characters agree and none dangles |
| `OneDriverEver` | no body is driven, or waited for, from two connections |
| `ListsStaySound` | both lists hold each element once, and only what is alive |
| `PlayersStayInTheWorld` | `PlayersAreInTheWorld`, where there are no immortals (`Gods = {}`) |
| `OneBodyEver` | `OneBodyPerName`, and the same of every name, also one created since the start |
| `SnoopersStayMutual` | a snooper and its victim point at each other |
| `LinksAreNotStolen` | `LinkIsNotStolen`, as long as no name is disputed |
| `PlayersComeAndGo` | `ImplementsPresence`, as long as no name is disputed, where there are no immortals |

All nine are about the time before a name is disputed. `Gods = {}` cannot be
dropped from `PlayersStayInTheWorld`: the run `force_rent` is the
counterexample, and with an immortal that is rented away by force while it is in a
mobile `ImplementsPresence` fails in that instance too. Assumptions: `Null` is nothing else, mobiles are bodies and finitely many, the
known names and the immortals' are names, `MaxConnects` is positive. Argument.
The inductive invariant is `Undisputed => Settled(World, DOMAIN owner) /\ Rows`:
`Sound`, eleven facts that relate the two sides of every pointer (`Driven`,
`Away`, `Held`, `Single`, `Mutual`, ...); `Distinct`, that no two connections
have players of one registered name; and `Unique`, that no two bodies in the
world, behind a player or at the menu have one name. `Distinct` is what
`con_pwdok` relies on when it closes one other connection only, and what a
contested name breaks. `OneBodyPerName` is not inductive without the rest of
`Unique`: it does not see a player whose body is not in the character list (a
switched immortal's that was rented away by force), nor names without a row, and
either can come to the menu later.
`SnoopIsMutual` needs in `Mutual` that whoever snoops or is snooped plays, a
snooper in its own body, or else a step that swaps a link (`return`,
`spell_poly_self`, a reconnection) would leave one side behind. For
`LinkIsNotStolen` each handler's lemma also says which one descriptor it is
about (`Touches`): all others drive what they drove or are closed. A body that
went from one living link to another would be driven from both in the world
before or the world after, against `Single`.

`PlayersComeAndGo` has no invariant of its own: it says of every step what it
does to a player. `At` is where a body is, in the words of `Presence`, and `Placed`
where the body of a name is; in a settled world `Unique` makes that one body, and
`BodiesTell` shows that it is what `WhereIs` reads from the variables. Each
function leaves all bodies where they are (`Idle`), or moves one, the player of the
connection that ends (`Drops`) or whoever logs in (`Goes`), and lets no other
change its name. Since a step is several of these functions, the lemmas also say
which of them are idle, so that one player has moved at the end
(`CalmerTwice`). `con_pwdok` is the step where that is not enough: the close of
the other connection moves one body and the login another, or the same again. They
are bodies of one name, so `DownAndUp` concludes for the name what is not true of
bodies: it goes from playing to linkdead and back in one step, or from the menu
to out and back. A deleted row moves its player from the menu to out
(`DeletedIsOut`), whoever has been created since is not spoken of.

The functions (`CloseSocket`, `DoReturn`, `ExtractPlayer`, `Discard`, ...) are lemmas
from a sound world to a sound world; in between two halves of a handler a world
is sound but for one descriptor or one body, which the lemmas about the halves
name (`Distinct` takes the set of connections it does not speak of).
`ListProofs` has what unlinking does to a list: `Staying` is stated by the
positions that stay, since what a fold computes is out of reach otherwise.

`RentProofs` proves, for every number of players, objects and slots, every size
of a record, and every nesting of containers:

| Theorem | Says |
|---|---|
| `TypeCorrect` | `TypeOK` always; in particular a record never exceeds its array |
| `CrashDoesNotDuplicate` | `RecordsSound`: whenever the process ends, a record lists nothing that is elsewhere, but for the named paths |
| `OwnedOnce` | in memory no object is in two places, but what such a path has already doubled |
| `WhatIsOwnedComesBack` | `RestoredInPlace`: what a player owns comes back from a record of it made now, each object in its slot or container where all can be stored and no two containers end at once |

Assumptions: the objects are finitely many and `None` is not one of them,
`Ground` is no player, sizes are natural numbers. Argument. `RecordsSound`
excepts every player in `saves`; only the first of them may be excepted for the
invariant to be inductive, since `DoSave` takes them in order (`Due`), and
`give` is right because it saves the giver first. The other half is `Distinct`:
the objects in memory are pairwise different within an owner and between owners
(up to `copied`). With it a new record, made from one owner's objects, cannot
list what another record lists. The steps are three kinds: objects go from an
owner whose record is on the ground, next or out of date to another
(`Regrouped`), a record is made or fails (`Recording`, `Clearing`), a player comes
back (`Entering`). That `save_obj`, `obj_store_to_char` and the fall to the ground
of all a player owns lose or double nothing they should not are
`SaveObjHeld`, `ObjStoreHeld` and `ToRoomHeld`. These are statements about folds:
`Folding` shows that the function the fold is defined by exists, so that it can
be unrolled into a sequence of states, and `Counting` (in `ListProofs`) carries a fact along it, by
the least position where it would fail. `Parting` and `Inserting` say what taking
an object with its contents out of a list and putting it into one does.

`WhatIsOwnedComesBack` has an invariant of its own, `HeapsShaped`: every heap begins
with an object that is in nothing, grows deeper by one level at a time, and is
worn only at its top and once in a slot. It is proved of every command, and of whatever
`obj_store_to_char` makes of any record (`AlwaysShaped`). The rest is about one
heap of that shape. An object is put where its depth `Fits`, and then no other
object changes its container (`OneMore`); `in_obj` holds, entry after
entry, the containers the entry is in (`Chain`, `ChainNext`), as long as the depth
falls by one at most, so each object goes where it was (`TidyLoads`). When some
objects were not stored the places may differ, but a slot is still noted once
(`SaveSlots`) and each object still finds a container that is there
(`HeadedLoads`). That these two conditions are needed, `Tidy` and `Headed`, is
how the code is and not how it was proved: without `Headed` TLC finds the loss in
the run as it is, and without `Tidy` with records of four objects (a bag in a bag
that holds something, and one object after it).

## 6. What is not modelled, or not proved

Only model-checked: the liveness properties (`EveryEventLeaves`,
`EveryoneIsServed`), which need fairness and ENABLED and are outside the
prover's reach. Every other property of the passing runs is proved, under the
hypotheses section 5 names. Nothing here rests on a recursive operator.

Left out of the modelled components: `queue_free` and `event_free_all` (at
shutdown); immortals' impersonation, bans and wizlock; the text queues, prompts
and the arithmetic of ticks; the parsing of a bet and the auction's refusal
near a reboot, and its trades under a crash (they never save, which in `Rent` is
a give that returned early). Of the combat list: charging, berserk, and the
number and strength of blows. Of followers: groups, polymorphed followers, and a
charmed player that is saved and loaded again with a charm but no master. Of
regeneration: mana and movement, whose events have the same form. Of rent: gold
and its charges, the daily limits on objects, characters in a shape (whose
objects `do_save` lends to the original body for the save), rooms that save
their contents, immortals, who keep their objects when they quit, the
`recep_offer` side effects on rare objects, objects with a negative timer (which
are not stored although `recep_offer` accepts them), and what `save_obj` writes
beyond the array when a slot follows the two hundredth object
(`reception.cpp:1276`). The walk of `purge links`,
which reads `next` from a closed descriptor, is listed as a hazard and not
modelled.

Narrower than the code, where no property depends on it: `ConAccountToon` looks
in the table of owners, the code in the list it cached when the account logged
in (`interpreter.cpp:1995`); `Login` of `Mortals` restores no poison, with which
`points_event` can hurt a character at the menu; in `Rescue` the foe is not one
without a link that flees between the two calls of `set_fighting`.

Not modelled: the reboot scheduler and the zone queue (one actor each, and
thresholds on a clock); command lookup, combat formulas, spells, scripts of mobiles,
shops, boards, mail, editors, the database mapping, movement, signals and
logging: their difficulty is in data, text or I/O rather than in the order of
steps.

The hazards that no property covers yet are listed in PROJECT.json with the
reason; most belong to modules of the plan.

## 7. Plan

Done in this order: EventQueue and its proofs, Sessions (the most shared
state), GameLoop and its proofs, Auction and its proofs, Mortals (combat list,
followers, regeneration), Rent; then the proofs of Mortals, Sessions and Rent, and of the
auction's books: its gold and its items; last the refinement of `Presence`.

What is left to model has one actor or is data: see section 6.
