------------------------------ MODULE Auction ------------------------------
(***************************************************************************)
(* The auction (auction.cpp): one lot at a time, bids that are paid at     *)
(* once and given back when somebody bids more, and a clock that calls the *)
(* lot three times and settles it.  Seller and buyer are remembered twice, *)
(* by pointer and by name, because their bodies come and go meanwhile:     *)
(* they lose their link, quit to the menu, are force rented, polymorph.    *)
(* Those moves are here as far as the auction can tell them apart; their   *)
(* own rules are in Sessions, which also shows that a player has one       *)
(* connection and one body, so a name has one link here.                   *)
(***************************************************************************)
EXTENDS Integers, FiniteSets, FiniteSetsExt

CONSTANTS
    Name,           \* player characters
    Body,           \* addresses malloc can return for a char_data
    Item,           \* objects that may be put up
    Null,           \* the null pointer; also no name, "(nessuno)", no item
    Purse,          \* name -> gold it has at start
    MinBid,         \* the least first bid and the least raise (100 coins)
    Reserve,        \* prices a seller may ask
    Offer,          \* sums a player may bid
    WaitTicks,      \* AUCTION_WAIT_TICKS
    CallTicks       \* AUCTION_CALL_TICKS

ASSUME NullAssumption == Null \notin Name \cup Body \cup Item
ASSUME PlayersAssumption == IsFiniteSet(Name)
ASSUME PurseAssumption == Purse \in [Name -> Nat]
ASSUME BidAssumption == /\ MinBid \in Nat \ {0}
                        /\ Reserve \subseteq Nat /\ Offer \subseteq Nat
ASSUME TickAssumption == WaitTicks \in Nat \ {0} /\ CallTicks \in Nat \ {0}

VARIABLES
    link,           \* name -> its descriptor
    body,           \* the characters
    saved,          \* name -> what its files held when they were last written
    floor,          \* items lying in some room
    seized,         \* history: items a god confiscated or destroyed
    stale,          \* history: items in a record that a refused rent left behind
    lot             \* auction_data

vars == <<link, body, saved, floor, seized, stale, lot>>

\* "store" is room 3, where the own body of a polymorphed player waits.
Char == [name : Name \cup {Null}, kind : {"free", "pc", "poly"},
         place : {"world", "store", "nowhere"}, gold : Nat, items : SUBSET Item]
Link == [con : {"none", "SLCT", "PLYNG"}, character : Body \cup {Null},
         original : Body \cup {Null}]

File == [gold : Nat, items : SUBSET Item]
Lot == [item : Item \cup {Null},
        seller : Body \cup {Null}, buyer : Body \cup {Null},
        real_seller : Name \cup {Null}, real_buyer : Name \cup {Null},
        bet : Nat, opening_reserve : Nat, going : 0 .. 2,
        pulse : 0 .. WaitTicks + CallTicks]

NoChar == [name |-> Null, kind |-> "free", place |-> "nowhere", gold |-> 0,
           items |-> {}]
NoLink == [con |-> "none", character |-> Null, original |-> Null]
NoLot == [item |-> Null, seller |-> Null, buyer |-> Null, real_seller |-> Null,
          real_buyer |-> Null, bet |-> 0, opening_reserve |-> 0, going |-> 0,
          pulse |-> 0]

Driven(b) == \E n \in Name : link[n].character = b
-----------------------------------------------------------------------------
(* Finding the parties *)

\* linkdead_room3_ok
LinkdeadRoom3Ok(b) == Driven(b) \/ body[b].place # "store"

\* is_present: the body that stands for the party, or Null if it is absent.
\* The remembered pointer is good while its name is right; else the connected
\* descriptors are searched, whatever their state.
IsPresent(ptr, real) ==
    IF ptr # Null /\ LinkdeadRoom3Ok(ptr) /\ body[ptr].name = real THEN ptr
    ELSE IF real # Null /\ link[real].con # "none" THEN link[real].character
    ELSE Null

Seller == IsPresent(lot.seller, lot.real_seller)
Buyer  == IsPresent(lot.buyer, lot.real_buyer)

Pay(bodies, b, gold) ==
    IF b = Null THEN bodies ELSE [bodies EXCEPT ![b].gold = @ + gold]

Hand(bodies, b, item) == [bodies EXCEPT ![b].items = @ \cup {item}]
-----------------------------------------------------------------------------
(* do_auction_int; a polymorphed player is refused *)

MayDeal(n) == link[n].con = "PLYNG" /\ body[link[n].character].kind = "pc"

Sell(n, item, reserve) ==
    LET ch == link[n].character
    IN  /\ MayDeal(n)
        /\ lot.item = Null
        /\ item \in body[ch].items
        /\ body' = [body EXCEPT ![ch].items = @ \ {item}]
        /\ lot' = [NoLot EXCEPT !.item = item, !.seller = ch, !.real_seller = n,
                                !.opening_reserve = reserve, !.pulse = WaitTicks]
        /\ UNCHANGED <<link, saved, floor, seized, stale>>

MinNextAny == lot.bet                                              \* fault
MinNext == IF lot.bet = 0 THEN Max({MinBid, lot.opening_reserve})
           ELSE lot.bet + MinBid

BidOnCredit(n, newbet) ==                  \* fault: the purse is not looked at
    LET ch == link[n].character
    IN  /\ MayDeal(n)
        /\ lot.item # Null
        /\ lot.bet > 0 => lot.buyer # ch /\ lot.real_buyer # n
        /\ newbet >= MinNext
        /\ body' = [Pay(body, Buyer, lot.bet) EXCEPT ![ch].gold = @ - newbet]
        /\ lot' = [lot EXCEPT !.bet = newbet, !.buyer = ch, !.real_buyer = n,
                              !.seller = Seller, !.going = 0, !.pulse = WaitTicks]
        /\ UNCHANGED <<link, saved, floor, seized, stale>>

\* bid: the former best bidder gets its money back, the new one pays.
Bid(n, newbet) ==
    LET ch == link[n].character
    IN  /\ MayDeal(n)
        /\ lot.item # Null
        /\ lot.bet > 0 => lot.buyer # ch /\ lot.real_buyer # n
        /\ newbet >= MinNext
        /\ newbet <= body[ch].gold
        /\ body' = [Pay(body, Buyer, lot.bet) EXCEPT ![ch].gold = @ - newbet]
        /\ lot' = [lot EXCEPT !.bet = newbet, !.buyer = ch, !.real_buyer = n,
                              !.seller = Seller, !.going = 0, !.pulse = WaitTicks]
        /\ UNCHANGED <<link, saved, floor, seized, stale>>

\* A god's "stop" (the item is confiscated) or "purge" (it is destroyed).
StopNoRefund ==                            \* fault: the bet is forgotten
    /\ lot.item # Null
    /\ seized' = seized \cup {lot.item}
    /\ lot' = NoLot
    /\ UNCHANGED <<link, body, saved, floor, stale>>

Stop ==
    /\ lot.item # Null
    /\ seized' = seized \cup {lot.item}
    /\ body' = Pay(body, Buyer, lot.bet)
    /\ lot' = NoLot
    /\ UNCHANGED <<link, saved, floor, stale>>
-----------------------------------------------------------------------------
(* auction_update, every PULSE_AUCTION *)

Due == lot.item # Null /\ lot.pulse <= 1

Tick ==
    /\ lot.item # Null /\ lot.pulse > 1
    /\ lot' = [lot EXCEPT !.pulse = @ - 1]
    /\ UNCHANGED <<link, body, saved, floor, seized, stale>>

\* First and second call.
CallOut ==
    /\ Due /\ lot.going < 2
    /\ lot' = [lot EXCEPT !.pulse = CallTicks, !.going = @ + 1, !.seller = Seller]
    /\ UNCHANGED <<link, body, saved, floor, seized, stale>>

\* The third call ends the lot.  What the code leaves in the other fields when
\* there were bids is not read again before the next sale overwrites it.
SoldTwicePaid ==                           \* fault: the bet is kept
    /\ Due /\ lot.going = 2 /\ lot.bet > 0 /\ Buyer # Null
    /\ body' = Pay(Hand(Pay(body, Buyer, lot.bet), Buyer, lot.item), Seller, lot.bet)
    /\ lot' = NoLot
    /\ UNCHANGED <<link, saved, floor, seized, stale>>

Sold ==
    /\ Due /\ lot.going = 2 /\ lot.bet > 0 /\ Buyer # Null
    /\ body' = Pay(Hand(body, Buyer, lot.item), Seller, lot.bet)
    /\ lot' = NoLot
    /\ UNCHANGED <<link, saved, floor, seized, stale>>

\* The winner is not there: the seller has the item back, the bet is lost.
NotCollected ==
    /\ Due /\ lot.going = 2 /\ lot.bet > 0 /\ Buyer = Null
    /\ body' = IF Seller # Null THEN Hand(body, Seller, lot.item) ELSE body
    /\ lot' = NoLot
    /\ UNCHANGED <<link, saved, floor, seized, stale>>

UnsoldDropped ==                           \* fault: it never goes back
    /\ Due /\ lot.going = 2 /\ lot.bet = 0
    /\ lot' = NoLot
    /\ UNCHANGED <<link, body, saved, floor, seized, stale>>

Unsold ==
    /\ Due /\ lot.going = 2 /\ lot.bet = 0
    /\ body' = IF Seller # Null THEN Hand(body, Seller, lot.item) ELSE body
    /\ lot' = NoLot
    /\ UNCHANGED <<link, saved, floor, seized, stale>>

AuctionUpdate == Tick \/ CallOut \/ Sold \/ NotCollected \/ Unsold
-----------------------------------------------------------------------------
(* Players come and go *)

\* free_char: while there is a lot its pointers to the body are cleared.
FreedKeepsParties(b) == lot                                        \* fault
Freed(b) ==
    IF lot.item = Null THEN lot
    ELSE [lot EXCEPT !.seller = IF @ = b THEN Null ELSE @,
                     !.buyer = IF @ = b THEN Null ELSE @]

\* A player's own body that stands in a room without a link.
Linkdead(n, b) == /\ body[b].name = n /\ body[b].kind = "pc"
                  /\ body[b].place # "nowhere" /\ ~Driven(b)

\* con_pwdok for a player who is not in the game: to the menu.
Login(n) ==
    /\ link[n].con = "none"
    /\ \A b \in Body : ~Linkdead(n, b)
    /\ \E b \in Body :
        /\ body[b].name = Null
        /\ body' = [body EXCEPT ![b] = [NoChar EXCEPT !.name = n, !.kind = "pc",
                                                      !.gold = saved[n].gold]]
        /\ link' = [link EXCEPT ![n] = [NoLink EXCEPT !.con = "SLCT",
                                                      !.character = b]]
    /\ UNCHANGED <<saved, floor, seized, stale, lot>>

\* con_pwdok for one whose body is linkdead.
Reconnect(n) ==
    /\ link[n].con = "none"
    /\ \E b \in Body :
        /\ Linkdead(n, b)
        /\ link' = [link EXCEPT ![n] = [NoLink EXCEPT !.con = "PLYNG",
                                                      !.character = b]]
    /\ UNCHANGED <<body, saved, floor, seized, stale, lot>>

\* con_slct "1": reset_char forgets what the body carries, load_char_objs
\* brings what the record lists, and the record goes on listing it.  Later
\* saves while playing are not here: every way out of the game saves again.
Enter(n) ==
    LET c == link[n].character
    IN  /\ link[n].con = "SLCT"
        /\ link' = [link EXCEPT ![n].con = "PLYNG"]
        /\ body' = [body EXCEPT ![c] = [@ EXCEPT !.place = "world",
                                                 !.items = saved[n].items]]
        /\ saved' = [saved EXCEPT ![n].gold = body[c].gold]
        /\ UNCHANGED <<floor, seized, stale, lot>>

\* The own body takes over what the shape has (SwitchStuff in do_return).
BackFrom(shape, own) ==
    LET back == [body[own] EXCEPT !.gold = body[shape].gold,
                                  !.items = @ \cup body[shape].items,
                                  !.place = body[shape].place]
    IN  [body EXCEPT ![own] = back, ![shape] = NoChar]

\* close_socket.  It saves gold and items; do_return refuses a shape that
\* fights (refused), which stays behind while the own body waits in the store.
LinkLost(n, refused) ==
    LET c   == link[n].character
        own == link[n].original
    IN  /\ link[n].con # "none"
        /\ refused => own # Null
        /\ link' = [link EXCEPT ![n] = NoLink]
        /\ saved' = IF link[n].con = "SLCT" THEN saved
                    ELSE [saved EXCEPT ![n] = [gold |-> body[c].gold,
                                               items |-> body[c].items]]
        /\ \/ /\ link[n].con = "SLCT"
              /\ body' = [body EXCEPT ![c] = NoChar]
              /\ lot' = Freed(c)
           \/ /\ link[n].con = "PLYNG" /\ own = Null
              /\ UNCHANGED <<body, lot>>
           \/ /\ own # Null /\ ~refused
              /\ body' = BackFrom(c, own)
              /\ lot' = Freed(c)
           \/ /\ own # Null /\ refused
              /\ body' = [body EXCEPT ![own].gold = body[c].gold]
              /\ UNCHANGED lot
        /\ UNCHANGED <<floor, seized, stale>>

\* The record is emptied, and extract_char saves the gold.
ZeroRentForgotten(n, gold) == [saved EXCEPT ![n].gold = gold]      \* fault
ZeroRent(n, gold) == [saved EXCEPT ![n] = [gold |-> gold, items |-> {}]]

\* do_quit drops what is carried, an inn keeps it; both save the gold and
\* bring the body to the menu.
LeaveGame(n) ==
    LET c == link[n].character
    IN  /\ MayDeal(n)
        /\ body[c].place # "nowhere"
        /\ link' = [link EXCEPT ![n].con = "SLCT"]
        /\ body' = [body EXCEPT ![c] = [@ EXCEPT !.place = "nowhere", !.items = {}]]
        /\ \/ /\ floor' = floor \cup body[c].items
              /\ saved' = ZeroRent(n, body[c].gold)
           \/ /\ saved' = [saved EXCEPT ![n] = [gold |-> body[c].gold,
                                                items |-> body[c].items]]
              /\ UNCHANGED floor
        /\ UNCHANGED <<seized, stale, lot>>

\* A linkdead body is rented away, by check_idling or by a god, who also
\* saves the gold.  Its memory is not freed and its name stays.  If
\* recep_offer refuses, the items drop to the floor and the record is left
\* as it was, listing what was carried when the link was lost.
ForceRent(n) ==
    \E b \in Body, god \in BOOLEAN :
        /\ Linkdead(n, b)
        /\ \A m \in Name : link[m].original # b
        /\ body' = [body EXCEPT ![b] = [@ EXCEPT !.place = "nowhere", !.items = {}]]
        /\ \/ /\ saved' = [saved EXCEPT
                    ![n] = [gold |-> IF god THEN body[b].gold ELSE @.gold,
                            items |-> body[b].items]]
              /\ UNCHANGED <<floor, stale>>
           \/ /\ floor' = floor \cup body[b].items
              /\ stale' = stale \cup saved[n].items
              /\ saved' = [saved EXCEPT
                    ![n].gold = IF god THEN body[b].gold ELSE @]
        /\ UNCHANGED <<link, seized, lot>>

\* spell_poly_self: the shape has the player's name, its things, its gold.
PolySelf(n) ==
    LET c == link[n].character
    IN  /\ MayDeal(n)
        /\ \E m \in Body :
            /\ body[m].name = Null
            /\ body' = [body EXCEPT
                    ![m] = [body[c] EXCEPT !.kind = "poly"],
                    ![c] = [@ EXCEPT !.items = {}, !.place = "store"]]
            /\ link' = [link EXCEPT ![n] = [@ EXCEPT !.character = m, !.original = c]]
        /\ UNCHANGED <<saved, floor, seized, stale, lot>>

\* do_return.
Return(n) ==
    LET c   == link[n].character
        own == link[n].original
    IN  /\ own # Null
        /\ link' = [link EXCEPT ![n] = [@ EXCEPT !.character = own, !.original = Null]]
        /\ body' = BackFrom(c, own)
        /\ lot' = Freed(c)
        /\ UNCHANGED <<saved, floor, seized, stale>>

\* do_get
Get(n, item) ==
    /\ link[n].con = "PLYNG"
    /\ item \in floor
    /\ floor' = floor \ {item}
    /\ body' = Hand(body, link[n].character, item)
    /\ UNCHANGED <<link, saved, seized, stale, lot>>
-----------------------------------------------------------------------------
Init ==
    /\ link = [n \in Name |-> NoLink]
    /\ body = [b \in Body |-> NoChar]
    /\ saved = [n \in Name |-> [gold |-> Purse[n], items |-> {}]]
    /\ floor = Item
    /\ seized = {}
    /\ stale = {}
    /\ lot = NoLot

Dealing(n) == \/ \E item \in Item, reserve \in Reserve : Sell(n, item, reserve)
              \/ \E newbet \in Offer : Bid(n, newbet)

Moving(n) == \/ Login(n) \/ Reconnect(n) \/ Enter(n) \/ LeaveGame(n)
             \/ ForceRent(n) \/ PolySelf(n) \/ Return(n)
             \/ \E refused \in BOOLEAN : LinkLost(n, refused)
             \/ \E item \in Item : Get(n, item)

Next == \/ AuctionUpdate
        \/ Stop
        \/ \E n \in Name : Dealing(n) \/ Moving(n)

Spec == Init /\ [][Next]_vars
-----------------------------------------------------------------------------
(* Properties *)

TypeOK ==
    /\ link \in [Name -> Link]
    /\ body \in [Body -> Char]
    /\ saved \in [Name -> File]
    /\ floor \subseteq Item
    /\ seized \subseteq Item
    /\ stale \subseteq Item
    /\ lot \in Lot

\* While there is a lot its seller and buyer pointers are null or point to
\* bodies of the two parties: is_present reads through them at any time.
PartiesAreNotFreed ==
    lot.item # Null =>
        /\ lot.seller # Null => body[lot.seller].name = lot.real_seller
        /\ lot.buyer # Null => body[lot.buyer].name = lot.real_buyer

\* What the next login brings back: the record of a player without a body in
\* the game.
Listed(n) == IF link[n].con = "PLYNG" \/ \E b \in Body : Linkdead(n, b) THEN {}
             ELSE saved[n].items

\* An item is in one place at most: with one character, on the floor, at the
\* auction, taken by a god, or in one record that a login will bring back,
\* whoever sold it or had it back without a link or in a shape.  Excepted
\* are the items of a record that a refused force rent left behind, which come
\* back beside the ones on the floor (load_char_objs, check_idling).
Places(item) ==
    Cardinality({b \in Body : item \in body[b].items})
    + Cardinality({n \in Name : item \in Listed(n)})
    + (IF item \in floor THEN 1 ELSE 0)
    + (IF lot.item = item THEN 1 ELSE 0)
    + (IF item \in seized THEN 1 ELSE 0)
ItemsAreNotDuplicated == \A item \in Item \ stale : Places(item) <= 1

\* What a player owns: the gold of the body it plays or left without a link,
\* or else what is saved.
Wealth(n) ==
    LET dead == {b \in Body : Linkdead(n, b)}
    IN  IF link[n].con # "none" THEN body[link[n].character].gold
        ELSE IF dead # {} THEN body[CHOOSE b \in dead : TRUE].gold
        ELSE saved[n].gold
Worth == lot.bet + FoldSet(LAMBDA n, sum : sum + Wealth(n), 0, Name)

\* No step makes gold: not a refund and not a sale, to whatever body they go
\* and whatever was saved when.
GoldIsNotMade == [][Worth' <= Worth]_vars

\* A party is attending if it plays and has left no body behind.
Parties == {lot.real_seller, lot.real_buyer} \ {Null}
Connected(n) == link[n].con = "PLYNG"
Attending(n) ==
    /\ Connected(n)
    /\ \A b \in Body : body[b].name = n => b \in {link[n].character, link[n].original}

\* While both parties attend no gold is lost either: who is outbid, or whose
\* lot is stopped, is paid back, and who sells is paid.
AttendingLoseNothing ==
    [][lot.item # Null /\ lot' # lot /\ (\A n \in Parties : Attending(n))
       => Worth' = Worth]_vars

\* And the item of a lot that ends goes to the winner, or back to the seller
\* if nobody bid, into the body that is played, unless a god took it.
WinnerTakesTheLot ==
    [][lot.item # Null /\ lot'.item = Null /\ (\A n \in Parties : Attending(n))
       => LET owner == IF lot.bet > 0 THEN lot.real_buyer ELSE lot.real_seller
          IN  lot.item \in body'[link'[owner].character].items \cup seized']_vars

\* Every lot comes to its end, for as long as auction_update is called: what
\* happens to it brings it nearer to the third call or raises the bet, which
\* the gold there is bounds.
Advances ==
    lot.item # Null /\ lot'.item = lot.item
    /\ <<lot'.bet, lot'.going, lot'.pulse>> # <<lot.bet, lot.going, lot.pulse>>
    => \/ lot'.bet > lot.bet
       \/ /\ lot'.bet = lot.bet
          /\ \/ lot'.going > lot.going
             \/ lot'.going = lot.going /\ lot'.pulse < lot.pulse
EveryLotAdvances == [][Advances]_vars

\* "Allinea seller/buyer al PG connesso di nome `nome`" (is_present): a
\* connected party loses no gold, whatever bodies it has left behind.
ConnectedLoseNothing ==
    [][lot.item # Null /\ lot' # lot /\ (\A n \in Parties : Connected(n))
       => Worth' = Worth]_vars

\* What makes PartiesAreNotFreed inductive: links lead to bodies of their own
\* name, which is where a lost party is looked for, and a pointer is kept only
\* with a name, so a free body is nobody's.
LinksAreNamed ==
    \A n \in Name :
        /\ link[n].con = "none" => link[n] = NoLink
        /\ link[n].con # "none" => /\ link[n].character # Null
                                  /\ body[link[n].character].name = n
        /\ link[n].original # Null => /\ link[n].con = "PLYNG"
                                     /\ body[link[n].character].kind = "poly"
                                     /\ link[n].original # link[n].character
                                     /\ body[link[n].original].name = n

PartiesAreNamed ==
    lot.item # Null => /\ lot.real_seller # Null
                       /\ lot.buyer # Null => lot.real_buyer # Null

IndInv ==
    /\ TypeOK
    /\ PartiesAreNotFreed
    /\ LinksAreNamed
    /\ PartiesAreNamed
=============================================================================
