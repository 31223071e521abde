---------------------------- MODULE AuctionProofs ----------------------------
(***************************************************************************)
(* Auction for every set of players, bodies and items: the pointers of the *)
(* auction never lead to a freed body, a lot moves only towards its end,   *)
(* no step makes gold, nor loses that of parties that attend, and an item  *)
(* is in one place, or in one record that a login will read.               *)
(***************************************************************************)
EXTENDS Auction, FiniteSetTheorems, WellFoundedInduction, TLAPS

USE NullAssumption, PurseAssumption, BidAssumption, TickAssumption

\* At the start there is no lot and nobody is connected.
LEMMA InitIndInv == Init => IndInv
<1> SUFFICES ASSUME Init PROVE IndInv
  OBVIOUS
<1>1. TypeOK
  BY DEF Init, TypeOK, Link, NoLink, Char, NoChar, NoLot, Lot, File
<1> QED
  BY <1>1 DEF Init, IndInv, PartiesAreNotFreed, LinksAreNamed, PartiesAreNamed,
              NoLink, NoLot
-----------------------------------------------------------------------------
(* Names survive *)

\* What the moves of players keep of the bodies the auction points to: a step
\* that changes the lot only by forgetting pointers, and a body only while
\* neither a link nor the lot has it, or without changing its name.
LEMMA PartiesKept ==
    ASSUME PartiesAreNotFreed, PartiesAreNamed,
           \/ lot' = lot
           \/ \E b \in Body : lot' = Freed(b),
           lot'.item # Null,
           \A b \in Body : \/ body[b].name = Null
                           \/ body'[b].name = body[b].name
                           \/ lot'.seller # b /\ lot'.buyer # b,
           TypeOK
    PROVE  PartiesAreNotFreed' /\ PartiesAreNamed'
<1>1. /\ lot'.item = lot.item
      /\ lot'.real_seller = lot.real_seller /\ lot'.real_buyer = lot.real_buyer
      /\ lot'.seller \in {lot.seller, Null} /\ lot'.buyer \in {lot.buyer, Null}
  BY DEF Freed, TypeOK, Lot
<1>2. lot.item # Null
  BY <1>1
<1>3. lot.seller \in Body \cup {Null} /\ lot.buyer \in Body \cup {Null}
  BY DEF TypeOK, Lot
<1>4. /\ lot.seller # Null => body[lot.seller].name = lot.real_seller
      /\ lot.buyer # Null => body[lot.buyer].name = lot.real_buyer
      /\ lot.real_seller # Null
      /\ lot.buyer # Null => lot.real_buyer # Null
  BY <1>2 DEF PartiesAreNotFreed, PartiesAreNamed
<1> QED
  BY <1>1, <1>3, <1>4 DEF PartiesAreNotFreed, PartiesAreNamed

\* is_present finds nobody or a body of the party's name.
LEMMA IsPresentProps ==
    ASSUME IndInv, NEW ptr \in Body \cup {Null}, NEW real \in Name \cup {Null}
    PROVE  /\ IsPresent(ptr, real) \in Body \cup {Null}
           /\ IsPresent(ptr, real) # Null => body[IsPresent(ptr, real)].name = real
<1>1. /\ \A n \in Name : link[n].character \in Body \cup {Null}
      /\ \A n \in Name : link[n].con # "none" => /\ link[n].character # Null
                                                /\ body[link[n].character].name = n
  BY DEF IndInv, TypeOK, LinksAreNamed, Link
<1> QED
  BY <1>1 DEF IsPresent

\* Who b is does not change.
SameChar(f, g, b) == f[b].name = g[b].name /\ f[b].kind = g[b].kind
USE DEF SameChar

\* Paying a body changes its purse and nothing the invariant looks at.
LEMMA PayProps ==
    ASSUME NEW bodies \in [Body -> Char], NEW b \in Body \cup {Null}, NEW gold \in Nat
    PROVE  /\ Pay(bodies, b, gold) \in [Body -> Char]
           /\ \A c \in Body : SameChar(Pay(bodies, b, gold), bodies, c)
BY DEF Pay, Char

\* Handing the item over changes nothing the invariant looks at.
LEMMA HandProps ==
    ASSUME NEW bodies \in [Body -> Char], NEW b \in Body, NEW item \in Item
    PROVE  /\ Hand(bodies, b, item) \in [Body -> Char]
           /\ \A c \in Body : SameChar(Hand(bodies, b, item), bodies, c)
BY DEF Hand, Char

\* LinksAreNamed looks only at links and at the names and kinds of bodies.
LEMMA LinksKept ==
    ASSUME TypeOK, LinksAreNamed, link' = link,
           \A b \in Body : SameChar(body', body, b)
    PROVE  LinksAreNamed'
BY DEF LinksAreNamed, TypeOK, Link

\* free_char leaves no pointer of an open lot to the body it frees.
LEMMA FreedProps ==
    ASSUME TypeOK, NEW b \in Body
    PROVE  /\ Freed(b) \in Lot
           /\ Freed(b).item = lot.item
           /\ lot.item # Null => Freed(b).seller # b /\ Freed(b).buyer # b
BY DEF Freed, TypeOK, Lot

\* is_present finds, for either party, a body of its name or none.
LEMMA PartiesTyped ==
    ASSUME IndInv
    PROVE  /\ Seller \in Body \cup {Null}
           /\ Seller # Null => body[Seller].name = lot.real_seller
           /\ Buyer \in Body \cup {Null}
           /\ Buyer # Null => body[Buyer].name = lot.real_buyer
<1>1. /\ lot.seller \in Body \cup {Null} /\ lot.buyer \in Body \cup {Null}
      /\ lot.real_seller \in Name \cup {Null} /\ lot.real_buyer \in Name \cup {Null}
  BY DEF IndInv, TypeOK, Lot
<1> QED
  BY <1>1, IsPresentProps DEF Seller, Buyer
-----------------------------------------------------------------------------
(* The auction's own steps *)

\* The cleared auction_data is a lot without an item.
LEMMA NoLotProps == NoLot \in Lot /\ NoLot.item = Null
BY DEF NoLot, Lot

\* A step that leaves every name and every link alone, and the lot typed, with
\* parties of the right name, keeps the invariant.
LEMMA LotStep ==
    ASSUME IndInv, link' = link,
           body' \in [Body -> Char],
           \A b \in Body : SameChar(body', body, b),
           saved' \in [Name -> File], floor' \subseteq Item, seized' \subseteq Item,
           stale' \subseteq Item,
           lot' \in Lot,
           lot'.item # Null =>
              /\ lot'.real_seller # Null
              /\ lot'.seller # Null => body[lot'.seller].name = lot'.real_seller
              /\ lot'.buyer # Null => /\ lot'.real_buyer # Null
                                     /\ body[lot'.buyer].name = lot'.real_buyer
    PROVE  IndInv'
<1>1. LinksAreNamed'
  BY LinksKept DEF IndInv
<1>2. TypeOK'
  BY DEF IndInv, TypeOK
<1>3. PartiesAreNotFreed' /\ PartiesAreNamed'
  BY DEF PartiesAreNotFreed, PartiesAreNamed, Lot
<1> QED
  BY <1>1, <1>2, <1>3 DEF IndInv

\* Selling and bidding keep the invariant.
LEMMA DealingInv ==
    ASSUME IndInv, NEW n \in Name, Dealing(n)
    PROVE  IndInv'
<1>t. /\ link \in [Name -> Link] /\ body \in [Body -> Char]
      /\ saved \in [Name -> File] /\ floor \subseteq Item
      /\ seized \subseteq Item /\ stale \subseteq Item
      /\ lot \in Lot
  BY DEF IndInv, TypeOK
<1>c. MayDeal(n) => /\ link[n].character \in Body
                    /\ body[link[n].character].name = n
  BY <1>t DEF IndInv, LinksAreNamed, MayDeal, Link
<1>1. ASSUME NEW item \in Item, NEW reserve \in Reserve, Sell(n, item, reserve)
      PROVE  IndInv'
  <2> DEFINE ch == link[n].character
  <2>1. ch \in Body /\ body[ch].name = n
    BY <1>1, <1>c DEF Sell
  <2>2. /\ body' = [body EXCEPT ![ch].items = @ \ {item}]
        /\ lot' = [NoLot EXCEPT !.item = item, !.seller = ch, !.real_seller = n,
                                !.opening_reserve = reserve, !.pulse = WaitTicks]
        /\ UNCHANGED <<link, saved, floor, seized, stale>>
    BY <1>1 DEF Sell
  <2> HIDE DEF ch
  <2>3. body' \in [Body -> Char] /\ \A b \in Body : SameChar(body', body, b)
    BY <2>1, <2>2, <1>t DEF Char
  <2>4. /\ lot' \in Lot
        /\ lot'.seller = ch /\ lot'.real_seller = n /\ lot'.buyer = Null
    <3>1. item \in Item /\ reserve \in Nat /\ WaitTicks \in 0 .. WaitTicks + CallTicks
      BY <1>1
    <3>2. lot' = [item |-> item, seller |-> ch, buyer |-> Null, real_seller |-> n,
                  real_buyer |-> Null, bet |-> 0, opening_reserve |-> reserve,
                  going |-> 0, pulse |-> WaitTicks]
      BY <2>2 DEF NoLot
    <3> QED
      BY <2>1, <3>1, <3>2 DEF Lot
  <2> QED
    BY <2>1, <2>2, <2>3, <2>4, <1>t, LotStep
<1>2. ASSUME NEW newbet \in Offer, Bid(n, newbet) PROVE IndInv'
  <2> DEFINE ch == link[n].character
             paid == Pay(body, Buyer, lot.bet)
  <2>1. ch \in Body /\ body[ch].name = n
    BY <1>2, <1>c DEF Bid
  <2>2. /\ body' = [paid EXCEPT ![ch].gold = @ - newbet]
        /\ lot' = [lot EXCEPT !.bet = newbet, !.buyer = ch, !.real_buyer = n,
                              !.seller = Seller, !.going = 0, !.pulse = WaitTicks]
        /\ UNCHANGED <<link, saved, floor, seized, stale>>
        /\ newbet <= body[ch].gold /\ lot.item # Null
    BY <1>2 DEF Bid
  <2>3. /\ paid \in [Body -> Char]
        /\ \A b \in Body : SameChar(paid, body, b)
        /\ paid[ch].gold >= body[ch].gold
    BY <2>1, <1>t, PartiesTyped DEF Pay, Char, Lot
  <2>4. newbet \in Nat /\ newbet <= paid[ch].gold
    BY <2>1, <2>2, <2>3, <1>t DEF Char
  <2> HIDE DEF ch, paid
  <2>5. body' \in [Body -> Char] /\ \A b \in Body : SameChar(body', body, b)
    <3>1. paid[ch].gold - newbet \in Nat
      BY <2>1, <2>3, <2>4 DEF Char
    <3>2. /\ body' \in [Body -> Char]
          /\ body'[ch] = [paid[ch] EXCEPT !.gold = paid[ch].gold - newbet]
          /\ \A b \in Body : b # ch => body'[b] = paid[b]
      BY <2>1, <2>2, <2>3, <3>1 DEF Char
    <3>3. body'[ch].name = paid[ch].name /\ body'[ch].kind = paid[ch].kind
      BY <2>1, <2>3, <3>2 DEF Char
    <3> QED
      BY <2>3, <3>2, <3>3
  <2>6. /\ lot' \in Lot /\ lot'.real_seller = lot.real_seller
        /\ lot'.seller = Seller /\ lot'.buyer = ch /\ lot'.real_buyer = n
    <3>1. Seller \in Body \cup {Null} /\ WaitTicks \in 0 .. WaitTicks + CallTicks
      BY PartiesTyped
    <3>2. lot' = [item |-> lot.item, seller |-> Seller, buyer |-> ch,
                  real_seller |-> lot.real_seller, real_buyer |-> n,
                  bet |-> newbet, opening_reserve |-> lot.opening_reserve,
                  going |-> 0, pulse |-> WaitTicks]
      BY <2>2, <1>t DEF Lot
    <3>3. /\ lot.item \in Item \cup {Null} /\ lot.real_seller \in Name \cup {Null}
          /\ lot.opening_reserve \in Nat
      BY <1>t DEF Lot
    <3> QED
      BY <2>1, <2>4, <3>1, <3>2, <3>3 DEF Lot
  <2>7. lot.real_seller # Null
    BY <2>2 DEF IndInv, PartiesAreNamed
  <2> QED
    BY <2>1, <2>2, <2>5, <2>6, <2>7, <1>t, PartiesTyped, LotStep
<1> QED
  BY <1>1, <1>2 DEF Dealing

\* auction_update and the stop of an immortal keep the invariant.
LEMMA UpdateInv ==
    ASSUME IndInv, AuctionUpdate \/ Stop
    PROVE  IndInv'
<1>t. /\ link \in [Name -> Link] /\ body \in [Body -> Char]
      /\ saved \in [Name -> File] /\ floor \subseteq Item
      /\ seized \subseteq Item /\ stale \subseteq Item
      /\ lot \in Lot
  BY DEF IndInv, TypeOK
<1>b. /\ lot.bet \in Nat /\ lot.item \in Item \cup {Null}
      /\ Seller \in Body \cup {Null} /\ Buyer \in Body \cup {Null}
  BY <1>t, PartiesTyped DEF Lot
<1>p. lot.item # Null =>
         /\ lot.real_seller # Null
         /\ lot.seller # Null => body[lot.seller].name = lot.real_seller
         /\ lot.buyer # Null => /\ lot.real_buyer # Null
                               /\ body[lot.buyer].name = lot.real_buyer
  BY DEF IndInv, PartiesAreNotFreed, PartiesAreNamed
<1>1. CASE Tick
  <2>1. /\ lot' \in Lot /\ lot'.seller = lot.seller /\ lot'.buyer = lot.buyer
        /\ lot'.real_seller = lot.real_seller /\ lot'.real_buyer = lot.real_buyer
        /\ lot.item # Null
    BY <1>1, <1>t DEF Tick, Lot
  <2> QED
    BY <2>1, <1>1, <1>t, <1>p, LotStep DEF Tick
<1>2. CASE CallOut
  <2>1. /\ lot' \in Lot /\ lot'.seller = Seller /\ lot'.buyer = lot.buyer
        /\ lot'.real_seller = lot.real_seller /\ lot'.real_buyer = lot.real_buyer
        /\ lot.item # Null
    <3>1. CallTicks \in 0 .. WaitTicks + CallTicks
      OBVIOUS
    <3>2. lot.going + 1 \in 0 .. 2
      BY <1>2, <1>t DEF CallOut, Lot
    <3>3. /\ lot' = [lot EXCEPT !.pulse = CallTicks, !.going = @ + 1, !.seller = Seller]
          /\ lot.item # Null
      BY <1>2 DEF CallOut, Due
    <3> QED
      BY <1>t, <1>b, <3>1, <3>2, <3>3 DEF Lot
  <2> QED
    BY <2>1, <1>2, <1>t, <1>p, PartiesTyped, LotStep DEF CallOut
<1>3. CASE Sold
  <2>1. lot.item \in Item /\ Buyer \in Body
    BY <1>3, <1>b DEF Sold, Due
  <2>2. /\ body' \in [Body -> Char]
        /\ \A b \in Body : SameChar(body', body, b)
    <3> DEFINE given == Hand(body, Buyer, lot.item)
    <3>1. given \in [Body -> Char] /\ \A b \in Body : SameChar(given, body, b)
      BY <2>1, <1>t, HandProps
    <3>2. body' = Pay(given, Seller, lot.bet)
      BY <1>3 DEF Sold
    <3> HIDE DEF given
    <3> QED
      BY <1>b, <3>1, <3>2, PayProps
  <2> QED
    BY <2>2, <1>3, <1>t, NoLotProps, LotStep DEF Sold
<1>4. CASE NotCollected \/ Unsold
  <2>1. /\ lot.item \in Item
        /\ body' = IF Seller # Null THEN Hand(body, Seller, lot.item) ELSE body
        /\ lot' = NoLot /\ UNCHANGED <<link, saved, floor, seized, stale>>
    BY <1>4, <1>b DEF NotCollected, Unsold, Due
  <2>2. /\ body' \in [Body -> Char]
        /\ \A b \in Body : SameChar(body', body, b)
    BY <2>1, <1>t, <1>b, HandProps
  <2> QED
    BY <2>1, <2>2, <1>t, NoLotProps, LotStep
<1>5. CASE Stop
  <2>1. /\ body' \in [Body -> Char]
        /\ \A b \in Body : SameChar(body', body, b)
        /\ seized' \subseteq Item
    BY <1>5, <1>t, <1>b, PayProps DEF Stop
  <2> QED
    BY <2>1, <1>5, <1>t, NoLotProps, LotStep DEF Stop
<1> QED
  BY <1>1, <1>2, <1>3, <1>4, <1>5 DEF AuctionUpdate
-----------------------------------------------------------------------------
(* Players come and go *)

\* A step of a player n keeps the invariant if it renames only bodies of no
\* name or n's own ones, and tells the auction of those that are freed.
LEMMA MoveStep ==
    ASSUME IndInv,
           link' \in [Name -> Link], body' \in [Body -> Char],
           saved' \in [Name -> File], floor' \subseteq Item, seized' = seized,
           stale' \subseteq Item,
           lot' = lot \/ \E b \in Body : lot' = Freed(b),
           lot.item # Null =>
              \A b \in Body : \/ body[b].name = Null
                              \/ body'[b].name = body[b].name
                              \/ lot'.seller # b /\ lot'.buyer # b,
           LinksAreNamed'
    PROVE  IndInv'
<1>1. lot' \in Lot /\ lot'.item = lot.item
  BY FreedProps DEF IndInv, TypeOK
<1>2. TypeOK'
  BY <1>1 DEF IndInv, TypeOK
<1>3. CASE lot.item = Null
  BY <1>1, <1>2, <1>3 DEF IndInv, PartiesAreNotFreed, PartiesAreNamed
<1>4. CASE lot.item # Null
  <2>1. PartiesAreNotFreed' /\ PartiesAreNamed'
    BY <1>1, <1>4, PartiesKept DEF IndInv
  <2> QED
    BY <1>2, <2>1 DEF IndInv
<1> QED
  BY <1>3, <1>4

\* The links of the others, when n's link becomes a sound one.
LEMMA LinkStep ==
    ASSUME IndInv, NEW n \in Name,
           link' \in [Name -> Link],
           \A m \in Name : m # n => link'[m] = link[m],
           \A b \in Body : \/ body[b].name \in {Null, n}
                           \/ /\ body'[b].name = body[b].name
                              /\ body'[b].kind = body[b].kind,
           link'[n].con = "none" => link'[n] = NoLink,
           link'[n].con # "none" => /\ link'[n].character # Null
                                    /\ body'[link'[n].character].name = n,
           link'[n].original # Null => /\ link'[n].con = "PLYNG"
                                       /\ body'[link'[n].character].kind = "poly"
                                       /\ link'[n].original # link'[n].character
                                       /\ body'[link'[n].original].name = n
    PROVE  LinksAreNamed'
<1> SUFFICES ASSUME NEW m \in Name
             PROVE  /\ link'[m].con = "none" => link'[m] = NoLink
                    /\ link'[m].con # "none" => /\ link'[m].character # Null
                                                /\ body'[link'[m].character].name = m
                    /\ link'[m].original # Null =>
                          /\ link'[m].con = "PLYNG"
                          /\ body'[link'[m].character].kind = "poly"
                          /\ link'[m].original # link'[m].character
                          /\ body'[link'[m].original].name = m
  BY DEF LinksAreNamed
<1>1. CASE m = n
  BY <1>1
<1>2. CASE m # n
  <2>1. link'[m] = link[m] /\ m # Null
    BY <1>2
  <2>2. link[m].character \in Body \cup {Null} /\ link[m].original \in Body \cup {Null}
    BY DEF IndInv, TypeOK, Link
  <2>3. /\ link[m].con = "none" => link[m] = NoLink
        /\ link[m].con # "none" => /\ link[m].character # Null
                                  /\ body[link[m].character].name = m
        /\ link[m].original # Null => /\ link[m].con = "PLYNG"
                                     /\ body[link[m].character].kind = "poly"
                                     /\ link[m].original # link[m].character
                                     /\ body[link[m].original].name = m
    BY DEF IndInv, LinksAreNamed
  <2> QED
    BY <1>2, <2>1, <2>2, <2>3
<1> QED
  BY <1>1, <1>2

\* Leaving a shape changes, of other bodies, only what they carry.
LEMMA BackFromProps ==
    ASSUME body \in [Body -> Char], NEW shape \in Body, NEW own \in Body, shape # own
    PROVE  /\ BackFrom(shape, own) \in [Body -> Char]
           /\ \A b \in Body : b # shape => SameChar(BackFrom(shape, own), body, b)
<1> DEFINE c == [body[own] EXCEPT !.gold = body[shape].gold,
                                  !.items = body[own].items \cup body[shape].items,
                                  !.place = body[shape].place]
<1>1. c \in Char /\ c.name = body[own].name /\ c.kind = body[own].kind
  BY DEF Char
<1>2. NoChar \in Char
  BY DEF Char, NoChar
<1>3. BackFrom(shape, own) = [body EXCEPT ![own] = c, ![shape] = NoChar]
  BY DEF BackFrom
<1> HIDE DEF c
<1> QED
  BY <1>1, <1>2, <1>3

\* Logging in, reconnecting and entering the game keep the invariant.
LEMMA ComingInv ==
    ASSUME IndInv, NEW n \in Name, Login(n) \/ Reconnect(n) \/ Enter(n)
    PROVE  IndInv'
<1>t. /\ link \in [Name -> Link] /\ body \in [Body -> Char]
      /\ saved \in [Name -> File] /\ floor \subseteq Item
      /\ seized \subseteq Item /\ stale \subseteq Item
  BY DEF IndInv, TypeOK
<1>s. saved[n].gold \in Nat /\ saved[n].items \subseteq Item
  BY <1>t DEF File
<1>1. CASE Login(n)
  <2>1. PICK b \in Body :
          /\ body[b].name = Null
          /\ body' = [body EXCEPT ![b] = [NoChar EXCEPT !.name = n, !.kind = "pc",
                                                        !.gold = saved[n].gold]]
          /\ link' = [link EXCEPT ![n] = [NoLink EXCEPT !.con = "SLCT",
                                                        !.character = b]]
          /\ UNCHANGED <<saved, floor, seized, stale, lot>>
    BY <1>1 DEF Login
  <2>2. /\ body' \in [Body -> Char] /\ body'[b].name = n
        /\ \A c \in Body : c # b => body'[c] = body[c]
    <3> DEFINE loaded == [NoChar EXCEPT !.name = n, !.kind = "pc",
                                       !.gold = saved[n].gold]
    <3>1. loaded \in Char /\ loaded.name = n
      BY <1>s DEF NoChar, Char
    <3>2. body' = [body EXCEPT ![b] = loaded]
      BY <2>1
    <3> HIDE DEF loaded
    <3> QED
      BY <3>1, <3>2, <1>t
  <2>3. /\ link' \in [Name -> Link]
        /\ link'[n].con = "SLCT" /\ link'[n].character = b /\ link'[n].original = Null
        /\ \A m \in Name : m # n => link'[m] = link[m]
    BY <2>1, <1>t DEF Link, NoLink
  <2>4. LinksAreNamed'
    BY <2>1, <2>2, <2>3, LinkStep
  <2> QED
    BY <2>1, <2>2, <2>3, <2>4, <1>t, MoveStep
<1>2. CASE Reconnect(n)
  <2>1. PICK b \in Body :
          /\ body[b].name = n
          /\ link' = [link EXCEPT ![n] = [NoLink EXCEPT !.con = "PLYNG",
                                                        !.character = b]]
          /\ UNCHANGED <<body, saved, floor, seized, stale, lot>>
    BY <1>2 DEF Reconnect, Linkdead
  <2>2. /\ link' \in [Name -> Link]
        /\ link'[n].con = "PLYNG" /\ link'[n].character = b /\ link'[n].original = Null
        /\ \A m \in Name : m # n => link'[m] = link[m]
    BY <2>1, <1>t DEF Link, NoLink
  <2>3. LinksAreNamed'
    BY <2>1, <2>2, LinkStep
  <2> QED
    BY <2>1, <2>2, <2>3, <1>t, MoveStep
<1>3. CASE Enter(n)
  <2> DEFINE c == link[n].character
  <2>1. /\ link[n].con = "SLCT"
        /\ link' = [link EXCEPT ![n].con = "PLYNG"]
        /\ body' = [body EXCEPT ![c] = [@ EXCEPT !.place = "world",
                                                 !.items = saved[n].items]]
        /\ saved' = [saved EXCEPT ![n].gold = body[c].gold]
        /\ UNCHANGED <<floor, seized, stale, lot>>
    BY <1>3 DEF Enter
  <2>2. c \in Body /\ body[c].name = n /\ link[n].original = Null
    BY <2>1, <1>t DEF IndInv, LinksAreNamed, Link
  <2>3. /\ link' \in [Name -> Link]
        /\ link'[n].con = "PLYNG" /\ link'[n].character = c /\ link'[n].original = Null
        /\ \A m \in Name : m # n => link'[m] = link[m]
    BY <2>1, <2>2, <1>t DEF Link
  <2> HIDE DEF c
  <2>4. body' \in [Body -> Char] /\ \A b \in Body : SameChar(body', body, b)
    <3> DEFINE entered == [body[c] EXCEPT !.place = "world", !.items = saved[n].items]
    <3>1. /\ entered \in Char
          /\ entered.name = body[c].name /\ entered.kind = body[c].kind
      <4>1. body[c] \in Char /\ saved[n].items \in SUBSET Item
        BY <2>2, <1>t, <1>s DEF File
      <4> HIDE DEF c
      <4> QED
        BY <4>1 DEF Char
    <3>2. body' = [body EXCEPT ![c] = entered]
      BY <2>1
    <3> HIDE DEF entered
    <3> QED
      BY <2>2, <3>1, <3>2, <1>t
  <2>5. saved' \in [Name -> File]
    BY <2>1, <2>2, <1>t DEF File, Char
  <2>6. LinksAreNamed'
    BY <2>2, <2>3, <2>4, LinkStep
  <2> QED
    BY <2>1, <2>3, <2>4, <2>5, <2>6, <1>t, MoveStep
<1> QED
  BY <1>1, <1>2, <1>3

\* Leaving the game, being rented away and picking things up keep it.
LEMMA GoingInv ==
    ASSUME IndInv, NEW n \in Name,
           LeaveGame(n) \/ ForceRent(n) \/ \E item \in Item : Get(n, item)
    PROVE  IndInv'
<1>t. /\ link \in [Name -> Link] /\ body \in [Body -> Char]
      /\ saved \in [Name -> File] /\ floor \subseteq Item
      /\ seized \subseteq Item /\ stale \subseteq Item
  BY DEF IndInv, TypeOK
<1>1. CASE LeaveGame(n)
  <2> DEFINE c == link[n].character
  <2>1. link[n].con = "PLYNG" /\ body[c].kind = "pc"
    BY <1>1 DEF LeaveGame, MayDeal
  <2>2. c \in Body /\ body[c].name = n /\ link[n].original = Null
    BY <2>1, <1>t DEF IndInv, LinksAreNamed, Link
  <2>3. /\ link' = [link EXCEPT ![n].con = "SLCT"]
        /\ body' = [body EXCEPT ![c] = [@ EXCEPT !.place = "nowhere", !.items = {}]]
        /\ \/ /\ floor' = floor \cup body[c].items
              /\ saved' = [saved EXCEPT ![n] = [gold |-> body[c].gold, items |-> {}]]
           \/ /\ saved' = [saved EXCEPT ![n] = [gold |-> body[c].gold,
                                                items |-> body[c].items]]
              /\ UNCHANGED floor
        /\ UNCHANGED <<seized, stale, lot>>
    BY <1>1 DEF LeaveGame, ZeroRent
  <2>4. /\ link' \in [Name -> Link]
        /\ link'[n].con = "SLCT" /\ link'[n].character = c /\ link'[n].original = Null
        /\ \A m \in Name : m # n => link'[m] = link[m]
    BY <2>2, <2>3, <1>t DEF Link
  <2> HIDE DEF c
  <2>5. body' \in [Body -> Char] /\ \A b \in Body : SameChar(body', body, b)
    <3> DEFINE gone == [body[c] EXCEPT !.place = "nowhere", !.items = {}]
    <3>1. gone \in Char /\ gone.name = body[c].name /\ gone.kind = body[c].kind
      <4>1. body[c] \in Char /\ {} \in SUBSET Item
        BY <2>2, <1>t
      <4> QED
        BY <4>1 DEF Char
    <3>2. body' = [body EXCEPT ![c] = gone]
      BY <2>3
    <3> HIDE DEF gone
    <3> QED
      BY <2>2, <3>1, <3>2, <1>t
  <2>6. saved' \in [Name -> File] /\ floor' \subseteq Item
    <3> DEFINE gold == body[c].gold
               items == body[c].items
    <3>1. gold \in Nat /\ items \subseteq Item
      BY <2>2, <1>t DEF Char
    <3>2. \/ saved' = [saved EXCEPT ![n] = [gold |-> gold, items |-> items]]
          \/ saved' = [saved EXCEPT ![n] = [gold |-> gold, items |-> {}]]
      BY <2>3
    <3>3. floor' \subseteq Item
      BY <2>3, <3>1, <1>t
    <3> HIDE DEF gold, items
    <3>4. saved' \in [Name -> File]
      BY <3>1, <3>2, <1>t DEF File
    <3> QED
      BY <3>3, <3>4
  <2>7. LinksAreNamed'
    BY <2>2, <2>4, <2>5, LinkStep
  <2> QED
    BY <2>3, <2>4, <2>5, <2>6, <2>7, <1>t, MoveStep
<1>2. CASE ForceRent(n)
  <2>1. PICK b \in Body, god \in BOOLEAN :
          /\ body' = [body EXCEPT ![b] = [@ EXCEPT !.place = "nowhere", !.items = {}]]
          /\ \/ /\ saved' = [saved EXCEPT
                      ![n] = [gold |-> IF god THEN body[b].gold ELSE @.gold,
                              items |-> body[b].items]]
                /\ UNCHANGED <<floor, stale>>
             \/ /\ floor' = floor \cup body[b].items
                /\ stale' = stale \cup saved[n].items
                /\ saved' = [saved EXCEPT
                      ![n].gold = IF god THEN body[b].gold ELSE @]
          /\ UNCHANGED <<link, seized, lot>>
    BY <1>2 DEF ForceRent
  <2>2. body' \in [Body -> Char] /\ \A c \in Body : SameChar(body', body, c)
    <3> DEFINE gone == [body[b] EXCEPT !.place = "nowhere", !.items = {}]
    <3>0. body[b] \in Char
      BY <1>t
    <3>1. gone \in Char /\ gone.name = body[b].name /\ gone.kind = body[b].kind
      BY <3>0 DEF Char
    <3>2. body' = [body EXCEPT ![b] = gone]
      BY <2>1
    <3> HIDE DEF gone
    <3> QED
      BY <3>1, <3>2, <1>t
  <2>3. /\ saved' \in [Name -> File] /\ floor' \subseteq Item
        /\ stale' \subseteq Item
    <3> DEFINE gold == IF god THEN body[b].gold ELSE saved[n].gold
    <3>1. gold \in Nat /\ body[b].items \subseteq Item
      BY <1>t DEF Char, File
    <3>2. \/ saved' = [saved EXCEPT ![n] = [gold |-> gold, items |-> body[b].items]]
          \/ saved' = [saved EXCEPT ![n].gold = gold]
      BY <2>1
    <3> HIDE DEF gold
    <3>3. saved' \in [Name -> File]
      BY <3>1, <3>2, <1>t DEF File
    <3>4. floor' \subseteq Item
      BY <2>1, <3>1, <1>t
    <3>5. stale' \subseteq Item
      BY <2>1, <1>t DEF File
    <3> QED
      BY <3>3, <3>4, <3>5
  <2>4. LinksAreNamed'
    BY <2>1, <2>2, LinksKept DEF IndInv
  <2> QED
    BY <2>1, <2>2, <2>3, <2>4, <1>t, MoveStep
<1>3. ASSUME NEW item \in Item, Get(n, item) PROVE IndInv'
  <2> DEFINE c == link[n].character
  <2>1. /\ link[n].con = "PLYNG" /\ floor' = floor \ {item}
        /\ body' = Hand(body, c, item)
        /\ UNCHANGED <<link, saved, seized, stale, lot>>
    BY <1>3 DEF Get
  <2>2. c \in Body
    BY <2>1, <1>t DEF IndInv, LinksAreNamed, Link
  <2> HIDE DEF c
  <2>3. body' \in [Body -> Char] /\ \A b \in Body : SameChar(body', body, b)
    BY <1>3, <2>1, <2>2, <1>t, HandProps
  <2>4. LinksAreNamed'
    BY <2>1, <2>3, LinksKept DEF IndInv
  <2> QED
    BY <2>1, <2>3, <2>4, <1>t, MoveStep
<1> QED
  BY <1>1, <1>2, <1>3

\* Polymorphing, returning and losing the link keep the invariant.
LEMMA ShapesInv ==
    ASSUME IndInv, NEW n \in Name,
           PolySelf(n) \/ Return(n) \/ \E refused \in BOOLEAN : LinkLost(n, refused)
    PROVE  IndInv'
<1>t. /\ link \in [Name -> Link] /\ body \in [Body -> Char]
      /\ saved \in [Name -> File] /\ floor \subseteq Item
      /\ seized \subseteq Item /\ stale \subseteq Item
  BY DEF IndInv, TypeOK
<1> DEFINE c == link[n].character
           own == link[n].original
<1>c. link[n].con # "none" => c \in Body /\ body[c].name = n
  BY <1>t DEF IndInv, LinksAreNamed, Link
<1>o. own # Null => /\ link[n].con = "PLYNG" /\ own \in Body /\ c \in Body
                    /\ own # c /\ body[own].name = n
  BY <1>t DEF IndInv, LinksAreNamed, Link
<1>p. lot.item # Null =>
         \A b \in Body : lot' = Freed(b) => lot'.seller # b /\ lot'.buyer # b
  BY FreedProps DEF IndInv
<1>1. CASE PolySelf(n)
  <2>1. /\ link[n].con = "PLYNG" /\ body[c].kind = "pc"
        /\ UNCHANGED <<saved, floor, seized, stale, lot>>
    BY <1>1 DEF PolySelf, MayDeal
  <2>2. PICK m \in Body :
          /\ body[m].name = Null
          /\ body' = [body EXCEPT ![m] = [body[c] EXCEPT !.kind = "poly"],
                                  ![c] = [@ EXCEPT !.items = {}, !.place = "store"]]
          /\ link' = [link EXCEPT ![n] = [@ EXCEPT !.character = m, !.original = c]]
    BY <1>1 DEF PolySelf
  <2>3. c \in Body /\ body[c].name = n /\ m # c /\ m \in Body
    BY <2>1, <2>2, <1>c
  <2>4. /\ link' \in [Name -> Link]
        /\ link'[n].con = "PLYNG" /\ link'[n].character = m /\ link'[n].original = c
        /\ \A k \in Name : k # n => link'[k] = link[k]
    <3> HIDE DEF c
    <3> DEFINE shaped == [link[n] EXCEPT !.character = m, !.original = c]
    <3>1. link[n] \in Link /\ link[n].con = "PLYNG"
      BY <2>1, <1>t
    <3>2. /\ shaped \in Link /\ shaped.con = "PLYNG" /\ shaped.character = m
          /\ shaped.original = c
      BY <2>3, <3>1 DEF Link
    <3>3. link' = [link EXCEPT ![n] = shaped]
      BY <2>2
    <3> HIDE DEF shaped
    <3> QED
      BY <3>2, <3>3, <1>t
  <2> HIDE DEF c
  <2>5. /\ body' \in [Body -> Char]
        /\ body'[m].name = n /\ body'[m].kind = "poly"
        /\ \A b \in Body : b # m => SameChar(body', body, b)
    <3> DEFINE worn == [body[c] EXCEPT !.kind = "poly"]
               left == [body[c] EXCEPT !.items = {}, !.place = "store"]
    <3>c. body[c] \in Char /\ body[c].name = n /\ {} \in SUBSET Item
      BY <2>3, <1>t
    <3>1. worn \in Char /\ worn.name = n /\ worn.kind = "poly"
      BY <3>c DEF Char
    <3>2. left \in Char /\ left.name = body[c].name /\ left.kind = body[c].kind
      BY <3>c DEF Char
    <3>3. body' = [body EXCEPT ![m] = worn, ![c] = left]
      BY <2>2, <2>3
    <3> HIDE DEF worn, left
    <3> QED
      BY <2>3, <3>1, <3>2, <3>3, <1>t
  <2>6. LinksAreNamed'
    BY <2>2, <2>3, <2>4, <2>5, LinkStep
  <2> QED
    BY <2>1, <2>2, <2>4, <2>5, <2>6, <1>t, MoveStep
<1>2. CASE Return(n)
  <2>1. /\ own # Null /\ link' = [link EXCEPT ![n] = [@ EXCEPT !.character = own,
                                                            !.original = Null]]
        /\ body' = BackFrom(c, own) /\ lot' = Freed(c)
        /\ UNCHANGED <<saved, floor, seized, stale>>
    BY <1>2 DEF Return
  <2>2. /\ link[n].con = "PLYNG" /\ own \in Body /\ c \in Body /\ own # c
        /\ body[own].name = n /\ body[c].name = n
    BY <2>1, <1>o, <1>c
  <2>3. /\ link' \in [Name -> Link]
        /\ link'[n].con = "PLYNG" /\ link'[n].character = own /\ link'[n].original = Null
        /\ \A k \in Name : k # n => link'[k] = link[k]
    <3> HIDE DEF c, own
    <3> DEFINE back == [link[n] EXCEPT !.character = own, !.original = Null]
    <3>1. link[n] \in Link /\ link[n].con = "PLYNG"
      BY <2>2, <1>t
    <3>2. /\ back \in Link /\ back.con = "PLYNG" /\ back.character = own
          /\ back.original = Null
      BY <2>2, <3>1 DEF Link
    <3>3. link' = [link EXCEPT ![n] = back]
      BY <2>1
    <3> HIDE DEF back
    <3> QED
      BY <3>2, <3>3, <1>t
  <2> HIDE DEF c, own
  <2>4. /\ body' \in [Body -> Char]
        /\ \A b \in Body : b # c => SameChar(body', body, b)
    BY <2>1, <2>2, <1>t, BackFromProps
  <2>5. LinksAreNamed'
    BY <2>2, <2>3, <2>4, LinkStep
  <2> QED
    BY <2>1, <2>2, <2>3, <2>4, <2>5, <1>t, <1>p, MoveStep
<1>3. ASSUME NEW refused \in BOOLEAN, LinkLost(n, refused) PROVE IndInv'
  <2>1. /\ link[n].con # "none" /\ link' = [link EXCEPT ![n] = NoLink]
        /\ saved' = IF link[n].con = "SLCT" THEN saved
                    ELSE [saved EXCEPT ![n] = [gold |-> body[c].gold,
                                               items |-> body[c].items]]
        /\ UNCHANGED <<floor, seized, stale>>
    BY <1>3 DEF LinkLost
  <2>2. c \in Body /\ body[c].name = n
    BY <2>1, <1>c
  <2>3. \/ body' = [body EXCEPT ![c] = NoChar] /\ lot' = Freed(c)
        \/ body' = body /\ lot' = lot
        \/ own # Null /\ body' = BackFrom(c, own) /\ lot' = Freed(c)
        \/ own # Null /\ body' = [body EXCEPT ![own].gold = body[c].gold] /\ lot' = lot
    BY <1>3 DEF LinkLost
  <2>4. /\ link' \in [Name -> Link] /\ link'[n] = NoLink
        /\ \A k \in Name : k # n => link'[k] = link[k]
    BY <2>1, <1>t DEF Link, NoLink
  <2>5. saved' \in [Name -> File]
    <3> DEFINE gold == body[c].gold
               items == body[c].items
    <3>1. gold \in Nat /\ items \subseteq Item
      BY <2>2, <1>t DEF Char
    <3>2. \/ saved' = saved
          \/ saved' = [saved EXCEPT ![n] = [gold |-> gold, items |-> items]]
      BY <2>1
    <3> HIDE DEF gold, items
    <3> QED
      BY <3>1, <3>2, <1>t DEF File
  <2> HIDE DEF c, own
  <2>6. /\ body' \in [Body -> Char]
        /\ \A b \in Body : SameChar(body', body, b) \/ (b = c /\ lot' = Freed(c))
    <3>1. CASE body' = [body EXCEPT ![c] = NoChar] /\ lot' = Freed(c)
      <4>1. NoChar \in Char
        BY DEF NoChar, Char
      <4> QED
        BY <3>1, <4>1, <2>2, <1>t
    <3>2. CASE body' = body
      BY <3>2, <1>t
    <3>3. CASE own # Null /\ body' = BackFrom(c, own) /\ lot' = Freed(c)
      BY <3>3, <1>o, <1>t, <2>2, BackFromProps DEF own, c
    <3>4. CASE own # Null /\ body' = [body EXCEPT ![own].gold = body[c].gold]
      <4> DEFINE rich == [body[own] EXCEPT !.gold = body[c].gold]
      <4>1. own \in Body
        BY <3>4, <1>o DEF own
      <4>2. rich \in Char /\ rich.name = body[own].name /\ rich.kind = body[own].kind
        BY <4>1, <2>2, <1>t DEF Char
      <4>3. body' = [body EXCEPT ![own] = rich]
        BY <3>4
      <4> HIDE DEF rich
      <4> QED
        BY <4>1, <4>2, <4>3, <1>t
    <3> QED
      BY <2>3, <3>1, <3>2, <3>3, <3>4
  <2>7. LinksAreNamed'
    BY <2>2, <2>4, <2>6, LinkStep DEF NoLink
  <2>8. lot' = lot \/ \E b \in Body : lot' = Freed(b)
    BY <2>2, <2>3
  <2> QED
    BY <2>1, <2>2, <2>4, <2>5, <2>6, <2>7, <2>8, <1>t, <1>p, MoveStep
<1> QED
  BY <1>1, <1>2, <1>3
-----------------------------------------------------------------------------
\* Every step keeps the invariant: one case per group of actions.
LEMMA NextIndInv == IndInv /\ [Next]_vars => IndInv'
<1> SUFFICES ASSUME IndInv, [Next]_vars PROVE IndInv'
  OBVIOUS
<1>1. CASE AuctionUpdate \/ Stop
  BY <1>1, UpdateInv
<1>2. ASSUME NEW n \in Name, Dealing(n) PROVE IndInv'
  BY <1>2, DealingInv
<1>3. ASSUME NEW n \in Name, Moving(n) PROVE IndInv'
  BY <1>3, ComingInv, GoingInv, ShapesInv DEF Moving
<1>4. CASE UNCHANGED vars
  BY <1>4 DEF vars, IndInv, TypeOK, PartiesAreNotFreed, LinksAreNamed, PartiesAreNamed
<1> QED
  BY <1>1, <1>2, <1>3, <1>4 DEF Next

(* The inductive invariant.                                                *)
THEOREM Invariance == Spec => []IndInv
  BY InitIndInv, NextIndInv, PTL DEF Spec

(* The state stays well typed: no purse goes below nothing, and the calls   *)
(* and the clock of a lot stay in their ranges.                             *)
THEOREM TypeCorrect == Spec => []TypeOK
<1>1. IndInv => TypeOK
  BY DEF IndInv
<1> QED
  BY <1>1, Invariance, PTL

(* The pointers that is_present reads through are null or lead to a body of *)
(* the party, whatever became of its bodies since.                          *)
THEOREM PartiesAlwaysValid == Spec => []PartiesAreNotFreed
<1>1. IndInv => PartiesAreNotFreed
  BY DEF IndInv
<1> QED
  BY <1>1, Invariance, PTL
-----------------------------------------------------------------------------
(* A lot comes to its end *)

\* Any acceptable bid is above the one before, a first one above nothing.
LEMMA MinNextIsARaise ==
    ASSUME lot.bet \in Nat, lot.opening_reserve \in Nat
    PROVE  MinNext \in Nat /\ MinNext > lot.bet
<1>1. CASE lot.bet = 0
  <2> DEFINE reserve == lot.opening_reserve
             floors == {MinBid, reserve}
  <2>1. PICK most \in floors : \A y \in floors : most >= y
    BY SMT
  <2>2. Max(floors) \in floors /\ \A y \in floors : Max(floors) >= y
    BY <2>1 DEF Max
  <2>3. MinNext = Max(floors)
    BY <1>1 DEF MinNext
  <2> QED
    BY <1>1, <2>2, <2>3
<1>2. CASE lot.bet # 0
  BY <1>2 DEF MinNext
<1> QED
  BY <1>1, <1>2

\* A step that ends the lot, or leaves its bet, calls and clock alone, owes
\* nothing.
LEMMA LotQuiet ==
    ASSUME \/ lot.item = Null
           \/ lot' = NoLot
           \/ lot' = lot
           \/ \E b \in Body : lot' = Freed(b),
           TypeOK
    PROVE  Advances
<1>1. CASE \E b \in Body : lot' = Freed(b)
  BY <1>1 DEF Advances, Freed, TypeOK, Lot
<1> QED
  BY <1>1, NoLotProps DEF Advances

\* Every step while there is a lot raises the bet or lowers what is left.
LEMMA NextAdvances == IndInv /\ [Next]_vars => Advances
<1> SUFFICES ASSUME IndInv, [Next]_vars PROVE Advances
  OBVIOUS
<1>t. TypeOK /\ lot \in Lot
  BY DEF IndInv, TypeOK
<1>1. CASE Tick
  BY <1>1, <1>t DEF Tick, Advances, Lot
<1>2. CASE CallOut
  BY <1>2, <1>t DEF CallOut, Advances, Lot
<1>3. CASE Sold \/ NotCollected \/ Unsold \/ Stop
  BY <1>3, <1>t, LotQuiet DEF Sold, NotCollected, Unsold, Stop
<1>4. ASSUME NEW n \in Name, Dealing(n) PROVE Advances
  <2>1. ASSUME NEW item \in Item, NEW reserve \in Reserve, Sell(n, item, reserve)
        PROVE  Advances
    BY <2>1, <1>t, LotQuiet DEF Sell
  <2>2. ASSUME NEW newbet \in Offer, Bid(n, newbet) PROVE Advances
    <3>1. newbet >= MinNext /\ newbet \in Nat
      BY <2>2 DEF Bid
    <3>2. MinNext \in Nat /\ MinNext > lot.bet
      BY <1>t, MinNextIsARaise DEF Lot
    <3>3. lot'.bet = newbet /\ lot.bet \in Nat
      BY <2>2, <1>t DEF Bid, Lot
    <3> QED
      BY <3>1, <3>2, <3>3 DEF Advances
  <2> QED
    BY <1>4, <2>1, <2>2 DEF Dealing
<1>5. ASSUME NEW n \in Name, Moving(n) PROVE Advances
  <2>1. link[n].con # "none" => link[n].character \in Body
    BY DEF IndInv, TypeOK, LinksAreNamed, Link
  <2>2. link[n].original # Null => link[n].con # "none"
    BY DEF IndInv, LinksAreNamed
  <2>3. lot' = lot \/ \E b \in Body : lot' = Freed(b)
    BY <1>5, <2>1, <2>2 DEF Moving, Login, Reconnect, Enter, LeaveGame, ForceRent,
                            PolySelf, Return, LinkLost, Get
  <2> QED
    BY <2>3, <1>t, LotQuiet
<1>6. CASE UNCHANGED vars
  BY <1>6, <1>t, LotQuiet DEF vars
<1> QED
  BY <1>1, <1>2, <1>3, <1>4, <1>5, <1>6 DEF Next, AuctionUpdate

(* No bid that is not a raise starts the calls again, so that a lot on      *)
(* which the gold runs out is settled after its three calls.                *)
THEOREM LotsAdvance == Spec => EveryLotAdvances
<1>1. IndInv /\ [Next]_vars => [Advances]_vars
  BY NextAdvances
<1> QED
  BY <1>1, Invariance, PTL DEF Spec, EveryLotAdvances
-----------------------------------------------------------------------------
(* What paying and handing over do to the items *)

\* Paying moves no item.
LEMMA PayMovesNothing ==
    ASSUME NEW bodies \in [Body -> Char], NEW b \in Body \cup {Null}, NEW gold \in Nat
    PROVE  \A c \in Body : Pay(bodies, b, gold)[c].items = bodies[c].items
BY DEF Pay, Char

\* Handing an item over moves that item to that body.
LEMMA HandMoves ==
    ASSUME NEW bodies \in [Body -> Char], NEW b \in Body, NEW item \in Item
    PROVE  /\ Hand(bodies, b, item)[b].items = bodies[b].items \cup {item}
           /\ \A c \in Body : c # b => Hand(bodies, b, item)[c].items = bodies[c].items
BY DEF Hand, Char
-----------------------------------------------------------------------------
(* Sums over the players *)

\* A non-empty set of naturals has a least one.
LEMMA Least ==
    ASSUME NEW A \in SUBSET Nat, A # {}
    PROVE  \E k \in A : \A j \in A : k <= j
<1>1. PICK k \in A : \A j \in A : ~(<<j, k>> \in OpToRel(<, Nat))
  BY NatLessThanWellFounded, WFMin
<1>2. ASSUME NEW j \in A PROVE k <= j
  <2>1. ~(j < k)
    BY <1>1 DEF OpToRel
  <2> QED
    BY <2>1
<1> QED
  BY <1>2

\* Among some subsets of a finite set there is one of the fewest elements.
LEMMA Fewest ==
    ASSUME NEW S, IsFiniteSet(S), NEW bad \in SUBSET SUBSET S, bad # {}
    PROVE  \E T \in bad : \A x \in T : T \ {x} \notin bad
<1> DEFINE sizes == {Cardinality(T) : T \in bad}
<1>1. \A T \in bad : IsFiniteSet(T) /\ Cardinality(T) \in Nat
  BY FS_Subset, FS_CardinalityType
<1>2. PICK k \in sizes : \A j \in sizes : k <= j
  <2>1. sizes \in SUBSET Nat /\ sizes # {}
    BY <1>1
  <2> HIDE DEF sizes
  <2> QED
    BY <2>1, Least
<1>3. PICK T \in bad : Cardinality(T) = k
  OBVIOUS
<1>4. ASSUME NEW x \in T PROVE T \ {x} \notin bad
  <2>1. Cardinality(T \ {x}) = Cardinality(T) - 1 /\ Cardinality(T) \in Nat
    BY <1>1, FS_RemoveElement
  <2> QED
    BY <1>2, <1>3, <2>1
<1> QED
  BY <1>4

\* What adding up w computes, from every set of players.
Pick(T) == CHOOSE n \in T : TRUE
Sums(w) ==
    {g \in [SUBSET Name -> Nat] :
        \A T \in SUBSET Name :
            g[T] = IF T = {} THEN 0 ELSE g[T \ {Pick(T)}] + w[Pick(T)]}
Total(w) == (CHOOSE g \in Sums(w) : TRUE)[Name]

LEMMA PickIsIn == \A T : T # {} => Pick(T) \in T
BY DEF Pick

\* It does compute something.
LEMMA SumsExist ==
    ASSUME NEW w \in [Name -> Nat]
    PROVE  Sums(w) # {}
<1> DEFINE size(T) == Cardinality(T)
           add(g, T) == IF T = {} THEN 0 ELSE g[T \ {Pick(T)}] + w[Pick(T)]
           upTo(k) == {g \in [SUBSET Name -> Nat] :
                          \A T \in SUBSET Name : Cardinality(T) <= k => g[T] = add(g, T)}
           missed == {k \in Nat : upTo(k) = {}}
<1>0. \A T \in SUBSET Name :
         /\ Cardinality(T) \in Nat /\ Cardinality(T) <= Cardinality(Name)
         /\ T = {} <=> Cardinality(T) = 0
         /\ \A x \in T : /\ Cardinality(T \ {x}) = Cardinality(T) - 1
                         /\ T \ {x} \in SUBSET Name
  BY PlayersAssumption, FS_Subset, FS_CardinalityType, FS_EmptySet, FS_RemoveElement
<1>1. missed = {}
  <2> SUFFICES ASSUME missed # {} PROVE FALSE
    OBVIOUS
  <2>1. PICK k \in missed : \A j \in missed : k <= j
    <3>1. missed \in SUBSET Nat
      OBVIOUS
    <3> HIDE DEF missed
    <3> QED
      BY <3>1, Least
  <2>2. CASE k = 0
    <3>1. [T \in SUBSET Name |-> 0] \in upTo(0)
      BY <1>0
    <3> QED
      BY <2>1, <2>2, <3>1
  <2>3. CASE k # 0
    <3>1. k \in Nat /\ k - 1 \in Nat
      BY <2>1, <2>3
    <3>2. PICK g \in upTo(k - 1) : TRUE
      <4>1. k - 1 \notin missed
        <5> HIDE DEF missed
        <5> QED
          BY <2>1, <3>1
      <4> HIDE DEF upTo
      <4> QED
        BY <3>1, <4>1
    <3> DEFINE h == [T \in SUBSET Name |-> add(g, T)]
    <3>3. h \in [SUBSET Name -> Nat]
      <4>1. ASSUME NEW T \in SUBSET Name PROVE add(g, T) \in Nat
        <5>1. T # {} => Pick(T) \in Name /\ T \ {Pick(T)} \in SUBSET Name
          BY PickIsIn
        <5> QED
          BY <3>2, <5>1
      <4> QED
        BY <4>1
    <3>4. ASSUME NEW T \in SUBSET Name, Cardinality(T) <= k PROVE h[T] = add(h, T)
      <4>1. CASE T = {}
        BY <4>1
      <4>2. CASE T # {}
        <5> DEFINE U == T \ {Pick(T)}
        <5>1. Pick(T) \in T /\ U \in SUBSET Name /\ Cardinality(U) <= k - 1
          BY <1>0, <3>4, <4>2, PickIsIn
        <5>2. g[U] = add(g, U)
          BY <3>2, <5>1
        <5>3. h[U] = add(g, U)
          BY <5>1
        <5> QED
          BY <4>2, <5>2, <5>3
      <4> QED
        BY <4>1, <4>2
    <3>5. h \in upTo(k)
      <4> HIDE DEF h, add
      <4> QED
        BY <3>3, <3>4
    <3> QED
      BY <2>1, <3>5
  <2> QED
    BY <2>2, <2>3
<1>2. PICK g \in upTo(Cardinality(Name)) : TRUE
  <2>1. Cardinality(Name) \in Nat
    BY <1>0
  <2> HIDE DEF upTo
  <2> QED
    BY <1>1, <2>1
<1>3. g \in Sums(w)
  BY <1>0, <1>2 DEF Sums
<1> QED
  BY <1>3

\* One of the numbers changes, and the sum by as much.
LEMMA TotalChange ==
    ASSUME NEW w \in [Name -> Nat], NEW v \in [Name -> Nat], NEW a \in Name,
           \A n \in Name : n # a => v[n] = w[n]
    PROVE  /\ Total(w) \in Nat /\ Total(v) \in Nat
           /\ Total(v) + w[a] = Total(w) + v[a]
<1> DEFINE g == CHOOSE s \in Sums(w) : TRUE
           h == CHOOSE s \in Sums(v) : TRUE
<1>1. g \in Sums(w) /\ h \in Sums(v)
  BY SumsExist
<1>2. Total(w) = g[Name] /\ Total(v) = h[Name]
  BY DEF Total
<1> HIDE DEF g, h
<1>3. g \in [SUBSET Name -> Nat] /\ h \in [SUBSET Name -> Nat]
  BY <1>1 DEF Sums
<1> DEFINE bad == {T \in SUBSET Name :
                     h[T] + (IF a \in T THEN w[a] ELSE 0)
                     # g[T] + (IF a \in T THEN v[a] ELSE 0)}
<1>4. bad = {}
  <2> SUFFICES ASSUME bad # {} PROVE FALSE
    OBVIOUS
  <2>1. PICK T \in bad : \A x \in T : T \ {x} \notin bad
    <3>1. bad \in SUBSET SUBSET Name
      OBVIOUS
    <3> HIDE DEF bad
    <3> QED
      BY <3>1, Fewest, PlayersAssumption
  <2>2. T # {}
    <3>1. g[{}] = 0 /\ h[{}] = 0
      BY <1>1 DEF Sums
    <3> QED
      BY <2>1, <3>1
  <2> DEFINE x == Pick(T)
             U == T \ {x}
  <2>3. x \in T /\ x \in Name /\ U \in SUBSET Name /\ x \notin U /\ U \notin bad
    BY <2>1, <2>2, PickIsIn
  <2>4. g[T] = g[U] + w[x] /\ h[T] = h[U] + v[x]
    BY <1>1, <2>1, <2>2 DEF Sums
  <2>5. a \in T <=> a = x \/ a \in U
    BY <2>3
  <2> HIDE DEF x
  <2>6. h[U] + (IF a \in U THEN w[a] ELSE 0) = g[U] + (IF a \in U THEN v[a] ELSE 0)
    BY <2>3
  <2>7. /\ g[U] \in Nat /\ h[U] \in Nat /\ w[x] \in Nat /\ v[x] \in Nat
        /\ w[a] \in Nat /\ v[a] \in Nat
    BY <1>3, <2>3
  <2>8. h[T] + (IF a \in T THEN w[a] ELSE 0) # g[T] + (IF a \in T THEN v[a] ELSE 0)
    BY <2>1
  <2> HIDE DEF U, bad
  <2>9. CASE a = x
    BY <2>3, <2>4, <2>5, <2>6, <2>7, <2>8, <2>9
  <2>10. CASE a # x
    <3>1. v[x] = w[x]
      BY <2>3, <2>10
    <3> QED
      BY <2>4, <2>5, <2>6, <2>7, <2>8, <2>10, <3>1
  <2> QED
    BY <2>9, <2>10
<1>5. Name \notin bad
  BY <1>4
<1> QED
  BY <1>2, <1>3, <1>5

\* What each player owns, and the sum of it as the fold in Worth computes it.
wealth == [n \in Name |-> Wealth(n)]

LEMMA WorthIsASum ==
    (\A n \in Name : Wealth(n) \in Nat) => Worth = lot.bet + Total(wealth)
<1> SUFFICES ASSUME \A n \in Name : Wealth(n) \in Nat
             PROVE  Worth = lot.bet + Total(wealth)
  OBVIOUS
<1>1. wealth \in [Name -> Nat]
  BY DEF wealth
<1> DEFINE g == CHOOSE s \in Sums(wealth) : TRUE
<1>2. g \in Sums(wealth) /\ Total(wealth) = g[Name]
  BY <1>1, SumsExist DEF Total
<1> HIDE DEF g
<1>3. /\ g \in [SUBSET Name -> Nat]
      /\ \A T \in SUBSET Name :
            g[T] = IF T = {} THEN 0 ELSE g[T \ {Pick(T)}] + Wealth(Pick(T))
  BY <1>2, PickIsIn DEF Sums, wealth
<1> DEFINE rule(i) == [T \in SUBSET Name |->
                         IF T = {} THEN 0 ELSE i[T \ {Pick(T)}] + Wealth(Pick(T))]
           iter == CHOOSE i : i = rule(i)
<1>4. FoldSet(LAMBDA n, sum : sum + Wealth(n), 0, Name) = iter[Name]
  BY DEF FoldSet, MapThenFoldSet, Pick
<1>5. g = rule(g)
  BY <1>3
<1>6. iter = rule(iter)
  <2> HIDE DEF rule
  <2> QED
    BY <1>5
<1> HIDE DEF iter
<1> DEFINE bad == {T \in SUBSET Name : iter[T] # g[T]}
<1>7. bad = {}
  <2> SUFFICES ASSUME bad # {} PROVE FALSE
    OBVIOUS
  <2>1. PICK T \in bad : \A x \in T : T \ {x} \notin bad
    <3>1. bad \in SUBSET SUBSET Name
      OBVIOUS
    <3> HIDE DEF bad
    <3> QED
      BY <3>1, Fewest, PlayersAssumption
  <2>2. iter[T] = IF T = {} THEN 0 ELSE iter[T \ {Pick(T)}] + Wealth(Pick(T))
    BY <1>6, <2>1
  <2>3. T # {} => Pick(T) \in T /\ iter[T \ {Pick(T)}] = g[T \ {Pick(T)}]
    BY <2>1, PickIsIn
  <2> QED
    BY <1>3, <2>1, <2>2, <2>3
<1> QED
  BY <1>2, <1>4, <1>7 DEF Worth
-----------------------------------------------------------------------------
(* Where the gold of a player is *)

\* b is n's own body and stands in a room.
Own(n, b) == body[b].name = n /\ body[b].kind = "pc" /\ body[b].place # "nowhere"

\* A player has one own body in the rooms, the one it plays or the one its
\* shape stands for.  Its files hold no more gold than the body that replaces
\* them when it goes to the menu or loses its link.  Its own body waits in the
\* store while it is polymorphed.
Living(n) ==
    /\ \A b, c \in Body : Own(n, b) /\ Own(n, c) => b = c
    /\ link[n].con # "none" =>
          \A b \in Body : Own(n, b) => b \in {link[n].character, link[n].original}
    /\ link[n].con = "none" =>
          \A b \in Body : Own(n, b) => saved[n].gold <= body[b].gold
    /\ link[n].con = "SLCT" => /\ body[link[n].character].place = "nowhere"
                              /\ saved[n].gold <= body[link[n].character].gold
    /\ link[n].original # Null => body[link[n].original].place = "store"

BetsAreNamed == lot.item # Null /\ lot.bet > 0 => lot.real_buyer # Null

GoldInv == IndInv /\ BetsAreNamed /\ \A n \in Name : Living(n)

\* At the start nobody has a body.
LEMMA InitGold == Init => GoldInv
BY InitIndInv DEF Init, GoldInv, BetsAreNamed, Living, Own, NoLot, NoChar, NoLink

\* What Wealth says, state by state: a body without a link is the one found.
LEMMA WealthIs ==
    GoldInv => \A n \in Name :
        /\ link[n].con # "none" => /\ link[n].character \in Body
                                  /\ wealth[n] = body[link[n].character].gold
        /\ link[n].con = "none" =>
              /\ \A b \in Body : Own(n, b) => wealth[n] = body[b].gold
              /\ (\A b \in Body : ~Own(n, b)) => wealth[n] = saved[n].gold
        /\ wealth[n] \in Nat
<1> SUFFICES ASSUME GoldInv, NEW n \in Name
             PROVE  /\ link[n].con # "none" =>
                          /\ link[n].character \in Body
                          /\ wealth[n] = body[link[n].character].gold
                    /\ link[n].con = "none" =>
                          /\ \A b \in Body : Own(n, b) => wealth[n] = body[b].gold
                          /\ (\A b \in Body : ~Own(n, b)) => wealth[n] = saved[n].gold
                    /\ wealth[n] \in Nat
  OBVIOUS
<1>t. /\ \A b \in Body : body[b] \in Char
      /\ saved[n].gold \in Nat /\ n # Null
      /\ \A m \in Name : link[m].con # "none" => /\ link[m].character \in Body
                                                /\ body[link[m].character].name = m
      /\ \A m \in Name : link[m].con = "none" => link[m].character = Null
  BY DEF GoldInv, IndInv, TypeOK, LinksAreNamed, Link, File, NoLink
<1>g. \A b \in Body : body[b].gold \in Nat
  BY <1>t DEF Char
<1>1. CASE link[n].con # "none"
  BY <1>1, <1>t, <1>g DEF Wealth, wealth
<1>2. CASE link[n].con = "none"
  <2> DEFINE dead == {b \in Body : Linkdead(n, b)}
  <2>1. \A b \in Body : Linkdead(n, b) <=> Own(n, b)
    BY <1>2, <1>t DEF Linkdead, Own, Driven
  <2>2. wealth[n] = IF dead # {} THEN body[CHOOSE b \in dead : TRUE].gold
                    ELSE saved[n].gold
    BY <1>2 DEF Wealth, wealth
  <2>3. \A b, c \in dead : b = c
    BY <2>1 DEF GoldInv, Living
  <2>4. dead \subseteq Body /\ \A b \in Body : b \in dead <=> Own(n, b)
    BY <2>1
  <2> HIDE DEF dead
  <2>5. CASE dead = {}
    BY <1>2, <1>t, <2>2, <2>4, <2>5
  <2>6. CASE dead # {}
    <3>1. (CHOOSE b \in dead : TRUE) \in dead
      BY <2>6
    <3> QED
      BY <1>2, <1>g, <2>2, <2>3, <2>4, <2>6, <3>1
  <2> QED
    BY <2>5, <2>6
<1> QED
  BY <1>1, <1>2

\* The same after a step.
LEMMA WealthIsNext ==
    GoldInv' => \A n \in Name :
        /\ link'[n].con # "none" => /\ link'[n].character \in Body
                                   /\ wealth'[n] = body'[link'[n].character].gold
        /\ link'[n].con = "none" =>
              /\ \A b \in Body : Own(n, b)' => wealth'[n] = body'[b].gold
              /\ (\A b \in Body : ~Own(n, b)') => wealth'[n] = saved'[n].gold
        /\ wealth'[n] \in Nat
<1>1. (GoldInv => \A n \in Name :
        /\ link[n].con # "none" => /\ link[n].character \in Body
                                  /\ wealth[n] = body[link[n].character].gold
        /\ link[n].con = "none" =>
              /\ \A b \in Body : Own(n, b) => wealth[n] = body[b].gold
              /\ (\A b \in Body : ~Own(n, b)) => wealth[n] = saved[n].gold
        /\ wealth[n] \in Nat)'
  BY WealthIs, PTL
<1> QED
  BY <1>1

LEMMA WorthIs ==
    GoldInv => Worth = lot.bet + Total(wealth) /\ wealth \in [Name -> Nat]
BY WealthIs, WorthIsASum DEF wealth

LEMMA WorthIsNext ==
    GoldInv' => Worth' = lot'.bet + Total(wealth') /\ wealth' \in [Name -> Nat]
<1>1. (GoldInv => Worth = lot.bet + Total(wealth) /\ wealth \in [Name -> Nat])'
  BY WorthIs, PTL
<1> QED
  BY <1>1
-----------------------------------------------------------------------------
(* The others *)

\* A player whose link and file stay, and whose bodies are where they were
\* with no less gold, lives on.
LEMMA LivesOn ==
    ASSUME GoldInv, IndInv', NEW m \in Name, link'[m] = link[m],
           saved'[m].gold = saved[m].gold,
           \A b \in Body : body'[b].name = m =>
              /\ body[b].name = m /\ body'[b].kind = body[b].kind
              /\ body'[b].place = body[b].place
              /\ \/ body'[b].gold >= body[b].gold
                 \/ link[m].con = "PLYNG"
    PROVE  Living(m)'
<1>t. /\ link[m].con # "none" => link[m].character \in Body
      /\ link[m].original # Null => link[m].original \in Body /\ link[m].con = "PLYNG"
      /\ link'[m].con # "none" => body'[link'[m].character].name = m
      /\ link'[m].original # Null => body'[link'[m].original].name = m
      /\ saved[m].gold \in Nat
  BY DEF GoldInv, IndInv, TypeOK, LinksAreNamed, Link, File
<1>g. \A b \in Body : body[b].gold \in Nat /\ body'[b].gold \in Nat
  BY DEF GoldInv, IndInv, TypeOK, Char
<1>1. Living(m)
  BY DEF GoldInv
<1>2. \A b \in Body : Own(m, b)' => Own(m, b) /\ body'[b].name = m
  BY DEF Own
<1> QED
  BY <1>t, <1>g, <1>1, <1>2 DEF Living

\* What the purse of a player depends on is the same of b.
SameMan(b) == /\ body'[b].name = body[b].name /\ body'[b].kind = body[b].kind
              /\ body'[b].place = body[b].place /\ body'[b].gold = body[b].gold

\* And owns the same if the gold of its bodies is the same.
LEMMA OwnsTheSame ==
    ASSUME GoldInv, GoldInv', NEW m \in Name, link'[m] = link[m],
           saved'[m].gold = saved[m].gold,
           \A b \in Body : body'[b].name = m \/ body[b].name = m => SameMan(b)
    PROVE  wealth'[m] = wealth[m]
<1>1. \A b \in Body : Own(m, b)' <=> Own(m, b)
  BY DEF Own, SameMan
<1>3. \A b \in Body : Own(m, b) => body'[b].gold = body[b].gold
  BY DEF Own, SameMan
<1>4. link[m].con # "none" => body'[link[m].character].gold = body[link[m].character].gold
  BY DEF GoldInv, IndInv, LinksAreNamed, TypeOK, Link, SameMan
<1>5. CASE link[m].con # "none"
  BY <1>4, <1>5, WealthIs, WealthIsNext
<1>6. CASE link[m].con = "none"
  BY <1>1, <1>3, <1>6, WealthIs, WealthIsNext
<1> QED
  BY <1>5, <1>6

\* What a step makes of the worth is what it makes of one player's.
LEMMA WorthMoves ==
    ASSUME GoldInv, GoldInv', NEW a \in Name,
           \A m \in Name : m # a => wealth'[m] = wealth[m]
    PROVE  /\ wealth[a] \in Nat /\ wealth'[a] \in Nat
           /\ lot.bet \in Nat /\ lot'.bet \in Nat /\ Worth \in Nat /\ Worth' \in Nat
           /\ Worth' - lot'.bet + wealth[a] = Worth - lot.bet + wealth'[a]
<1>1. lot.bet \in Nat /\ lot'.bet \in Nat
  BY DEF GoldInv, IndInv, TypeOK, Lot
<1>2. /\ Worth = lot.bet + Total(wealth) /\ wealth \in [Name -> Nat]
      /\ Worth' = lot'.bet + Total(wealth') /\ wealth' \in [Name -> Nat]
  BY WorthIs, WorthIsNext
<1>3. /\ Total(wealth) \in Nat /\ Total(wealth') \in Nat
      /\ Total(wealth') + wealth[a] = Total(wealth) + wealth'[a]
  BY <1>2, TotalChange
<1>4. wealth[a] \in Nat /\ wealth'[a] \in Nat
  BY <1>2
<1> QED
  BY <1>1, <1>2, <1>3, <1>4

\* Or nothing.
LEMMA WorthStays ==
    ASSUME GoldInv, GoldInv', \A m \in Name : wealth'[m] = wealth[m]
    PROVE  /\ lot.bet \in Nat /\ lot'.bet \in Nat /\ Worth \in Nat /\ Worth' \in Nat
           /\ Worth' - lot'.bet = Worth - lot.bet
<1>1. lot.bet \in Nat /\ lot'.bet \in Nat
  BY DEF GoldInv, IndInv, TypeOK, Lot
<1>2. /\ Worth = lot.bet + Total(wealth) /\ wealth \in [Name -> Nat]
      /\ Worth' = lot'.bet + Total(wealth') /\ wealth' \in [Name -> Nat]
  BY WorthIs, WorthIsNext
<1>3. wealth' = wealth
  BY <1>2
<1>4. Total(wealth) \in Nat
  <2>1. CASE Name = {}
    <3>1. (CHOOSE g \in Sums(wealth) : TRUE) \in Sums(wealth)
      BY <1>2, SumsExist
    <3> QED
      BY <3>1 DEF Total, Sums
  <2>2. CASE Name # {}
    BY <1>2, <2>2, TotalChange
  <2> QED
    BY <2>1, <2>2
<1> QED
  BY <1>1, <1>2, <1>3, <1>4
-----------------------------------------------------------------------------
(* The gold of the auction's own steps *)

\* Everybody stays where he is, and nobody is saved.
Stays == /\ UNCHANGED <<link, saved>>
         /\ \A b \in Body : /\ body'[b].name = body[b].name
                            /\ body'[b].kind = body[b].kind
                            /\ body'[b].place = body[b].place

LEMMA StaysLive ==
    ASSUME GoldInv, IndInv', Stays, BetsAreNamed',
           \A b \in Body :
              \/ body'[b].gold >= body[b].gold
              \/ \E n \in Name : link[n].con = "PLYNG" /\ link[n].character = b
    PROVE  GoldInv'
<1>1. ASSUME NEW m \in Name PROVE Living(m)'
  <2>1. ASSUME NEW b \in Body, body'[b].name = m
        PROVE  /\ body[b].name = m /\ body'[b].kind = body[b].kind
               /\ body'[b].place = body[b].place
               /\ body'[b].gold >= body[b].gold \/ link[m].con = "PLYNG"
    BY <2>1 DEF Stays, GoldInv, IndInv, LinksAreNamed
  <2> QED
    BY <2>1, LivesOn DEF Stays
<1> QED
  BY <1>1 DEF GoldInv

\* One body is paid: so much more is there at most, and exactly so much if the
\* body is played.
LEMMA PaidTo ==
    ASSUME GoldInv, GoldInv', Stays, NEW x \in Body, NEW d \in Nat,
           body[x].name \in Name, body'[x].gold = body[x].gold + d,
           \A b \in Body : b # x => body'[b].gold = body[b].gold
    PROVE  /\ lot.bet \in Nat /\ lot'.bet \in Nat /\ Worth \in Nat /\ Worth' \in Nat
           /\ Worth' - lot'.bet <= Worth - lot.bet + d
           /\ Driven(x) => Worth' - lot'.bet = Worth - lot.bet + d
<1> DEFINE a == body[x].name
<1>1. ASSUME NEW m \in Name, m # a PROVE wealth'[m] = wealth[m]
  BY <1>1, OwnsTheSame DEF Stays, SameMan
<1>2. /\ wealth'[a] <= wealth[a] + d
      /\ Driven(x) => wealth'[a] = wealth[a] + d
  <2>0. /\ \A b \in Body : body[b].gold \in Nat
        /\ \A m \in Name : link[m].character = x => link[m].con # "none" /\ m = a
    BY DEF GoldInv, IndInv, TypeOK, Char, LinksAreNamed, NoLink
  <2>1. CASE link[a].con # "none"
    <3>1. /\ link[a].character \in Body /\ wealth[a] = body[link[a].character].gold
          /\ wealth'[a] = body'[link[a].character].gold
      BY <2>1, WealthIs, WealthIsNext DEF Stays
    <3> QED
      BY <2>0, <3>1 DEF Driven
  <2>2. CASE link[a].con = "none"
    <3>1. ~Driven(x)
      BY <2>0, <2>2 DEF Driven
    <3>2. \A b \in Body : Own(a, b)' <=> Own(a, b)
      BY DEF Own, Stays
    <3>3. CASE \E b \in Body : Own(a, b)
      <4>1. PICK b \in Body : Own(a, b)
        BY <3>3
      <4>2. wealth[a] = body[b].gold /\ wealth'[a] = body'[b].gold
        BY <2>2, <3>2, <4>1, WealthIs, WealthIsNext DEF Stays
      <4> QED
        BY <2>0, <3>1, <4>2
    <3>4. CASE ~\E b \in Body : Own(a, b)
      <4>1. wealth[a] = saved[a].gold /\ wealth'[a] = saved[a].gold
        BY <2>2, <3>2, <3>4, WealthIs, WealthIsNext DEF Stays
      <4>2. saved[a].gold \in Nat
        BY DEF GoldInv, IndInv, TypeOK, File
      <4> QED
        BY <3>1, <4>1, <4>2
    <3> QED
      BY <3>3, <3>4
  <2> QED
    BY <2>1, <2>2
<1> HIDE DEF a
<1>3. a \in Name
  BY DEF a
<1> QED
  BY <1>1, <1>2, <1>3, WorthMoves

\* Nobody is paid.
LEMMA NobodyPaid ==
    ASSUME GoldInv, GoldInv', Stays, \A b \in Body : body'[b].gold = body[b].gold
    PROVE  /\ lot.bet \in Nat /\ lot'.bet \in Nat /\ Worth \in Nat /\ Worth' \in Nat
           /\ Worth' - lot'.bet = Worth - lot.bet
<1>1. ASSUME NEW m \in Name PROVE wealth'[m] = wealth[m]
  BY OwnsTheSame DEF Stays, SameMan
<1> QED
  BY <1>1, WorthStays

\* Paying and handing over, body by body.
LEMMA PayGold ==
    ASSUME NEW bodies \in [Body -> Char], NEW b \in Body \cup {Null}, NEW gold \in Nat
    PROVE  /\ Pay(bodies, b, gold) \in [Body -> Char]
           /\ \A c \in Body :
                 /\ Pay(bodies, b, gold)[c].name = bodies[c].name
                 /\ Pay(bodies, b, gold)[c].kind = bodies[c].kind
                 /\ Pay(bodies, b, gold)[c].place = bodies[c].place
                 /\ c # b => Pay(bodies, b, gold)[c].gold = bodies[c].gold
           /\ b # Null => Pay(bodies, b, gold)[b].gold = bodies[b].gold + gold
<1>1. CASE b = Null
  BY <1>1 DEF Pay, Char
<1>2. CASE b # Null
  <2> DEFINE paid == [bodies[b] EXCEPT !.gold = @ + gold]
  <2>1. b \in Body /\ bodies[b] \in Char /\ bodies[b].gold \in Nat
    BY <1>2 DEF Char
  <2>2. /\ paid \in Char /\ paid.name = bodies[b].name /\ paid.kind = bodies[b].kind
        /\ paid.place = bodies[b].place /\ paid.gold = bodies[b].gold + gold
    BY <2>1 DEF Char
  <2>3. Pay(bodies, b, gold) = [bodies EXCEPT ![b] = paid]
    BY <1>2 DEF Pay
  <2> HIDE DEF paid
  <2> QED
    BY <2>1, <2>2, <2>3
<1> QED
  BY <1>1, <1>2

LEMMA HandGold ==
    ASSUME NEW bodies \in [Body -> Char], NEW b \in Body, NEW item \in Item
    PROVE  /\ Hand(bodies, b, item) \in [Body -> Char]
           /\ \A c \in Body :
                 /\ Hand(bodies, b, item)[c].name = bodies[c].name
                 /\ Hand(bodies, b, item)[c].kind = bodies[c].kind
                 /\ Hand(bodies, b, item)[c].place = bodies[c].place
                 /\ Hand(bodies, b, item)[c].gold = bodies[c].gold
BY DEF Hand, Char

\* A party that attends is found where it plays.
LEMMA AttendingIsPresent ==
    ASSUME GoldInv, NEW ptr \in Body \cup {Null}, NEW real \in Name, Attending(real)
    PROVE  /\ IsPresent(ptr, real) = link[real].character
           /\ link[real].character \in Body
<1>1. /\ link[real].con = "PLYNG" /\ real # Null
      /\ \A b \in Body : body[b].name = real
                            => b \in {link[real].character, link[real].original}
  BY DEF Attending, Connected
<1>2. link[real].character \in Body /\ link[real].original \in Body \cup {Null}
  BY <1>1 DEF GoldInv, IndInv, TypeOK, LinksAreNamed, Link
<1>3. ASSUME link[real].original # Null
      PROVE  /\ body[link[real].original].place = "store"
             /\ ~Driven(link[real].original)
  <2>1. body[link[real].original].place = "store"
    BY <1>3 DEF GoldInv, Living
  <2>2. ASSUME NEW m \in Name, link[m].character = link[real].original PROVE FALSE
    <3>1. /\ body[link[real].original].name = real
          /\ link[real].original # link[real].character
      BY <1>3 DEF GoldInv, IndInv, LinksAreNamed
    <3>2. link[m].con # "none"
      BY <1>3, <2>2 DEF GoldInv, IndInv, LinksAreNamed, NoLink
    <3>3. m = real
      BY <2>2, <3>1, <3>2 DEF GoldInv, IndInv, LinksAreNamed
    <3> QED
      BY <2>2, <3>1, <3>3
  <2> QED
    BY <2>1, <2>2 DEF Driven
<1> QED
  BY <1>1, <1>2, <1>3 DEF IsPresent, LinkdeadRoom3Ok

\* What GoldIsNotMade, AttendingLoseNothing and WinnerTakesTheLot ask of a step.
NotMade == Worth' <= Worth
NotLost ==
    lot.item # Null /\ lot' # lot /\ (\A n \in Parties : Attending(n)) => Worth' = Worth
Taken ==
    lot.item # Null /\ lot'.item = Null /\ (\A n \in Parties : Attending(n))
    => LET owner == IF lot.bet > 0 THEN lot.real_buyer ELSE lot.real_seller
       IN  lot.item \in body'[link'[owner].character].items \cup seized'
Settled == GoldInv' /\ NotMade /\ NotLost /\ Taken

\* Where the parties of a lot are found if they attend.
LEMMA PartiesPresent ==
    ASSUME GoldInv, lot.item # Null, \A n \in Parties : Attending(n)
    PROVE  /\ lot.real_seller \in Name /\ Seller = link[lot.real_seller].character
           /\ Seller \in Body
           /\ lot.bet > 0 => /\ lot.real_buyer \in Name
                             /\ Buyer = link[lot.real_buyer].character
                             /\ Buyer \in Body
<1>1. /\ lot.seller \in Body \cup {Null} /\ lot.buyer \in Body \cup {Null}
      /\ lot.real_seller \in Name \cup {Null} /\ lot.real_buyer \in Name \cup {Null}
  BY DEF GoldInv, IndInv, TypeOK, Lot
<1>2. lot.real_seller # Null /\ (lot.bet > 0 => lot.real_buyer # Null)
  BY DEF GoldInv, IndInv, PartiesAreNamed, BetsAreNamed
<1>3. /\ lot.real_seller \in Name /\ Attending(lot.real_seller)
      /\ lot.bet > 0 => lot.real_buyer \in Name /\ Attending(lot.real_buyer)
  BY <1>1, <1>2 DEF Parties
<1> QED
  BY <1>1, <1>3, AttendingIsPresent DEF Seller, Buyer

\* Where is_present finds a body it is somebody's.
LEMMA PresentIsNamed ==
    ASSUME GoldInv, lot.item # Null
    PROVE  /\ Seller \in Body \cup {Null} /\ Buyer \in Body \cup {Null}
           /\ Seller # Null => body[Seller].name \in Name
           /\ Buyer # Null /\ lot.bet > 0 => body[Buyer].name \in Name
<1>1. /\ lot.real_seller \in Name \cup {Null} /\ lot.real_buyer \in Name \cup {Null}
      /\ lot.real_seller # Null /\ (lot.bet > 0 => lot.real_buyer # Null)
  BY DEF GoldInv, IndInv, TypeOK, Lot, PartiesAreNamed, BetsAreNamed
<1> QED
  BY <1>1, PartiesTyped DEF GoldInv

\* auction_update and stop settle what they end.
LEMMA UpdateSettles ==
    ASSUME GoldInv, AuctionUpdate \/ Stop
    PROVE  Settled /\ Stays
<1>0. IndInv /\ IndInv'
  BY UpdateInv DEF GoldInv
<1>t. /\ link \in [Name -> Link] /\ body \in [Body -> Char] /\ lot \in Lot
      /\ lot.bet \in Nat /\ lot.item \in Item \cup {Null}
      /\ \A b \in Body : body[b].gold \in Nat
  BY <1>0 DEF IndInv, TypeOK, Lot, Char
<1>d. \A n \in Name : link[n].character \in Body => Driven(link[n].character)
  BY DEF Driven
<1>1. CASE Tick \/ CallOut
  <2>1. /\ lot.item # Null /\ lot'.item = lot.item /\ lot'.bet = lot.bet
        /\ lot'.real_buyer = lot.real_buyer
        /\ UNCHANGED <<link, body, saved, floor, seized, stale>>
    BY <1>1, <1>t DEF Tick, CallOut, Due, Lot
  <2>2. Stays /\ BetsAreNamed' /\ \A b \in Body : body'[b].gold = body[b].gold
    BY <2>1 DEF Stays, GoldInv, BetsAreNamed
  <2>3. GoldInv'
    BY <2>2, <1>0, <1>t, StaysLive
  <2>4. Worth' = Worth
    BY <2>1, <2>2, <2>3, NobodyPaid
  <2> QED
    BY <2>1, <2>3, <2>4, NobodyPaid, <2>2 DEF Settled, NotMade, NotLost, Taken
<1>2. CASE Sold
  <2>1. /\ lot.item \in Item /\ Buyer \in Body /\ Seller \in Body \cup {Null}
        /\ lot' = NoLot /\ lot.bet > 0
        /\ body' = Pay(Hand(body, Buyer, lot.item), Seller, lot.bet)
        /\ UNCHANGED <<link, saved, floor, seized, stale>>
    BY <1>0, <1>2, <1>t, PartiesTyped DEF Sold, Due
  <2> DEFINE given == Hand(body, Buyer, lot.item)
  <2>2. /\ given \in [Body -> Char]
        /\ \A c \in Body : /\ given[c].name = body[c].name
                           /\ given[c].kind = body[c].kind
                           /\ given[c].place = body[c].place
                           /\ given[c].gold = body[c].gold
        /\ lot.item \in given[Buyer].items
    BY <2>1, <1>t, HandGold, HandMoves
  <2>3. body' = Pay(given, Seller, lot.bet)
    BY <2>1
  <2> HIDE DEF given
  <2>4. /\ Stays /\ lot'.bet = 0 /\ lot'.item = Null
        /\ \A c \in Body : c # Seller => body'[c].gold = body[c].gold
        /\ Seller # Null => body'[Seller].gold = body[Seller].gold + lot.bet
        /\ lot.item \in body'[Buyer].items
    <3>1. \A c \in Body : body'[c].items = given[c].items
      BY <2>1, <2>2, <2>3, <1>t, PayMovesNothing
    <3>s. /\ Seller \in Body \cup {Null} /\ given \in [Body -> Char] /\ lot.bet \in Nat
          /\ body' = Pay(given, Seller, lot.bet)
      BY <2>1, <2>2, <2>3, <1>t
    <3>2. /\ \A c \in Body :
                /\ body'[c].name = given[c].name /\ body'[c].kind = given[c].kind
                /\ body'[c].place = given[c].place
                /\ c # Seller => body'[c].gold = given[c].gold
          /\ Seller # Null => body'[Seller].gold = given[Seller].gold + lot.bet
      BY <3>s, PayGold
    <3>3. lot'.bet = 0 /\ lot'.item = Null
      BY <2>1 DEF NoLot
    <3> QED
      BY <2>1, <2>2, <3>1, <3>2, <3>3 DEF Stays
  <2>5. GoldInv'
    BY <2>4, <1>0, <1>t, StaysLive DEF BetsAreNamed
  <2>6. /\ NotMade
        /\ Seller # Null /\ Driven(Seller) => Worth' = Worth
    <3>1. CASE Seller = Null
      BY <2>4, <2>5, <3>1, <1>t, NobodyPaid DEF NotMade
    <3>2. CASE Seller # Null
      <4>1. body[Seller].name \in Name /\ Seller \in Body
        BY <2>1, <3>2, PresentIsNamed
      <4> QED
        BY <2>4, <2>5, <3>2, <4>1, <1>t, PaidTo DEF NotMade
    <3> QED
      BY <3>1, <3>2
  <2>7. NotLost /\ Taken
    <3> SUFFICES ASSUME \A n \in Parties : Attending(n)
                 PROVE  /\ Worth' = Worth
                        /\ lot.item \in body'[link'[lot.real_buyer].character].items
      BY <2>1 DEF NotLost, Taken
    <3> QED
      BY <2>1, <2>4, <2>6, <1>d, PartiesPresent
  <2> QED
    BY <2>4, <2>5, <2>6, <2>7 DEF Settled
<1>3. CASE NotCollected \/ Unsold
  <2>1. /\ lot.item \in Item /\ Seller \in Body \cup {Null} /\ lot' = NoLot
        /\ body' = IF Seller # Null THEN Hand(body, Seller, lot.item) ELSE body
        /\ UNCHANGED <<link, saved, floor, seized, stale>>
        /\ lot.bet > 0 => Buyer = Null
    BY <1>0, <1>3, <1>t, PartiesTyped DEF NotCollected, Unsold, Due
  <2>2. /\ Stays /\ lot'.bet = 0 /\ lot'.item = Null
        /\ \A b \in Body : body'[b].gold = body[b].gold
        /\ Seller # Null => lot.item \in body'[Seller].items
    <3>1. CASE Seller = Null
      BY <2>1, <3>1 DEF Stays, NoLot
    <3>2. CASE Seller # Null
      <4>1. body' = Hand(body, Seller, lot.item) /\ Seller \in Body
        BY <2>1, <3>2
      <4> QED
        BY <2>1, <4>1, <1>t, HandGold, HandMoves DEF Stays, NoLot
    <3> QED
      BY <3>1, <3>2
  <2>3. GoldInv'
    BY <2>2, <1>0, <1>t, StaysLive DEF BetsAreNamed
  <2>4. NotMade /\ (lot.bet = 0 => Worth' = Worth)
    BY <2>2, <2>3, <1>t, NobodyPaid DEF NotMade
  <2>5. NotLost /\ Taken
    <3> SUFFICES ASSUME \A n \in Parties : Attending(n)
                 PROVE  /\ Worth' = Worth /\ ~(lot.bet > 0)
                        /\ lot.item \in body'[link'[lot.real_seller].character].items
      BY <2>1 DEF NotLost, Taken
    <3>1. /\ Seller = link[lot.real_seller].character /\ Seller \in Body
          /\ lot.bet > 0 => Buyer \in Body
      BY <2>1, PartiesPresent
    <3> QED
      BY <2>1, <2>2, <2>4, <3>1, <1>t
  <2> QED
    BY <2>2, <2>3, <2>4, <2>5 DEF Settled
<1>4. CASE Stop
  <2>1. /\ lot.item \in Item /\ Buyer \in Body \cup {Null} /\ lot' = NoLot
        /\ body' = Pay(body, Buyer, lot.bet)
        /\ seized' = seized \cup {lot.item}
        /\ UNCHANGED <<link, saved, floor>>
    BY <1>0, <1>4, <1>t, PartiesTyped DEF Stop
  <2>2. /\ Stays /\ lot'.bet = 0 /\ lot'.item = Null
        /\ \A c \in Body : c # Buyer => body'[c].gold = body[c].gold
        /\ Buyer # Null => body'[Buyer].gold = body[Buyer].gold + lot.bet
    BY <2>1, <1>t, PayGold DEF Stays, NoLot
  <2>3. GoldInv'
    BY <2>2, <1>0, <1>t, StaysLive DEF BetsAreNamed
  <2>4. /\ NotMade
        /\ lot.bet = 0 \/ (Buyer # Null /\ Driven(Buyer)) => Worth' = Worth
    <3>1. CASE Buyer = Null \/ lot.bet = 0
      <4>1. \A c \in Body : body'[c].gold = body[c].gold
        BY <2>1, <2>2, <3>1, <1>t
      <4> QED
        BY <2>2, <2>3, <3>1, <4>1, <1>t, NobodyPaid DEF NotMade
    <3>2. CASE Buyer # Null /\ lot.bet # 0
      <4>1. body[Buyer].name \in Name /\ Buyer \in Body
        BY <2>1, <3>2, <1>t, PresentIsNamed
      <4> QED
        BY <2>2, <2>3, <3>2, <4>1, <1>t, PaidTo DEF NotMade
    <3> QED
      BY <3>1, <3>2
  <2>5. NotLost /\ Taken
    <3>1. Taken
      BY <2>1 DEF Taken
    <3>2. ASSUME \A n \in Parties : Attending(n), lot.bet # 0
          PROVE  Buyer # Null /\ Driven(Buyer)
      BY <2>1, <3>2, <1>d, <1>t, PartiesPresent
    <3> QED
      BY <2>4, <3>1, <3>2 DEF NotLost
  <2> QED
    BY <2>2, <2>3, <2>4, <2>5 DEF Settled
<1> QED
  BY <1>1, <1>2, <1>3, <1>4 DEF AuctionUpdate

\* A sale begins without gold.
LEMMA SellSettles ==
    ASSUME GoldInv, NEW n \in Name, NEW item \in Item, NEW reserve \in Reserve,
           Sell(n, item, reserve)
    PROVE  Settled /\ Stays
<1>0. IndInv /\ IndInv'
  BY DealingInv DEF GoldInv, Dealing
<1>1. /\ lot.item = Null /\ lot'.bet = 0
      /\ UNCHANGED <<link, saved, floor, seized, stale>>
      /\ body' = [body EXCEPT ![link[n].character].items = @ \ {item}]
  BY DEF Sell, NoLot
<1>2. body \in [Body -> Char] /\ \A b \in Body : body[b].gold \in Nat
  BY <1>0 DEF IndInv, TypeOK, Char
<1>3. Stays /\ \A b \in Body : body'[b].gold = body[b].gold
  BY <1>1, <1>2 DEF Stays, Char
<1>4. GoldInv'
  BY <1>0, <1>1, <1>2, <1>3, StaysLive DEF BetsAreNamed
<1>5. NotMade
  BY <1>1, <1>3, <1>4, NobodyPaid DEF NotMade
<1> QED
  BY <1>1, <1>3, <1>4, <1>5 DEF Settled, NotLost, Taken

\* A bid pays the one before back, or less, and takes the new one.
LEMMA BidSettles ==
    ASSUME GoldInv, NEW n \in Name, NEW newbet \in Offer, Bid(n, newbet)
    PROVE  Settled /\ Stays
<1> DEFINE ch == link[n].character
           paid == Pay(body, Buyer, lot.bet)
<1>0. IndInv /\ IndInv'
  BY DealingInv DEF GoldInv, Dealing
<1>t. /\ body \in [Body -> Char] /\ lot \in Lot /\ lot.bet \in Nat
      /\ lot.item # Null /\ lot.item \in Item /\ newbet \in Nat
      /\ \A b \in Body : body[b].gold \in Nat
      /\ Buyer \in Body \cup {Null}
  BY <1>0, PartiesTyped DEF IndInv, TypeOK, Lot, Char, Bid
<1>1. /\ link[n].con = "PLYNG" /\ ch \in Body /\ body[ch].name = n
      /\ lot.bet > 0 => lot.real_buyer # n
      /\ body' = [paid EXCEPT ![ch].gold = @ - newbet]
      /\ lot'.bet = newbet /\ lot'.item = lot.item /\ lot'.real_buyer = n
      /\ UNCHANGED <<link, saved, floor, seized, stale>>
  BY <1>0, <1>t DEF Bid, MayDeal, IndInv, TypeOK, LinksAreNamed, Link, Lot
<1>p. /\ paid \in [Body -> Char]
      /\ \A c \in Body : /\ paid[c].name = body[c].name /\ paid[c].kind = body[c].kind
                         /\ paid[c].place = body[c].place
                         /\ c # Buyer => paid[c].gold = body[c].gold
      /\ Buyer # Null => paid[Buyer].gold = body[Buyer].gold + lot.bet
  <2> DEFINE b == Buyer
             gold == lot.bet
  <2>1. body \in [Body -> Char] /\ b \in Body \cup {Null} /\ gold \in Nat
    BY <1>t
  <2> HIDE DEF b, gold
  <2>2. /\ Pay(body, b, gold) \in [Body -> Char]
        /\ \A c \in Body :
              /\ Pay(body, b, gold)[c].name = body[c].name
              /\ Pay(body, b, gold)[c].kind = body[c].kind
              /\ Pay(body, b, gold)[c].place = body[c].place
              /\ c # b => Pay(body, b, gold)[c].gold = body[c].gold
        /\ b # Null => Pay(body, b, gold)[b].gold = body[b].gold + gold
    BY <2>1, PayGold
  <2> QED
    BY <2>2 DEF b, gold
<1> HIDE DEF ch, paid
<1>2. /\ Stays
      /\ \A c \in Body : c # ch => body'[c].gold = paid[c].gold
      /\ body'[ch].gold = paid[ch].gold - newbet
  BY <1>1, <1>p DEF Stays, Char
<1>3. /\ \A c \in Body : c # ch => body'[c].gold >= body[c].gold
      /\ lot.bet = 0 => \A c \in Body : c # ch => body'[c].gold = body[c].gold
  BY <1>p, <1>2, <1>t
<1>4. GoldInv'
  <2>1. BetsAreNamed'
    BY <1>1 DEF BetsAreNamed
  <2>2. \A b \in Body :
           \/ body'[b].gold >= body[b].gold
           \/ \E m \in Name : link[m].con = "PLYNG" /\ link[m].character = b
    BY <1>1, <1>3 DEF ch
  <2> QED
    BY <1>0, <1>2, <2>1, <2>2, StaysLive
<1>b. lot.bet > 0 /\ Buyer # Null =>
         Buyer \in Body /\ body[Buyer].name = lot.real_buyer /\ lot.real_buyer \in Name
  BY <1>0, <1>t, PartiesTyped DEF GoldInv, BetsAreNamed, IndInv, TypeOK, Lot
<1>5. /\ wealth[n] \in Nat /\ wealth'[n] \in Nat
      /\ wealth'[n] = wealth[n] - newbet
  <2>1. wealth[n] = body[ch].gold /\ wealth'[n] = body'[ch].gold
    BY <1>1, <1>4, WealthIs, WealthIsNext DEF ch
  <2>2. paid[ch].gold = body[ch].gold
    BY <1>1, <1>b, <1>p, <1>t
  <2> QED
    BY <1>1, <1>2, <1>4, <2>1, <2>2, WealthIs, WealthIsNext
<1>w. wealth \in [Name -> Nat] /\ wealth' \in [Name -> Nat]
  BY <1>4, WorthIs, WorthIsNext
<1> DEFINE v == [wealth EXCEPT ![n] = wealth'[n]]
<1>6. /\ v \in [Name -> Nat] /\ v[n] = wealth'[n]
      /\ \A m \in Name : m # n => v[m] = wealth[m]
  BY <1>5, <1>w
<1> HIDE DEF v
<1>7. /\ Total(wealth) \in Nat /\ Total(v) \in Nat
      /\ Total(v) + wealth[n] = Total(wealth) + wealth'[n]
  BY <1>6, <1>w, TotalChange
<1>8. /\ Total(wealth') \in Nat /\ Total(wealth') <= Total(v) + lot.bet
      /\ lot.bet = 0 \/ (Buyer # Null /\ Driven(Buyer))
            => Total(wealth') = Total(v) + lot.bet
  <2>1. CASE lot.bet = 0 \/ Buyer = Null
    <3>1. \A c \in Body : c # ch => body'[c].gold = body[c].gold
      BY <1>3, <1>p, <1>2, <2>1
    <3>2. ASSUME NEW m \in Name, m # n PROVE wealth'[m] = wealth[m]
      BY <1>1, <1>2, <1>4, <3>1, <3>2, OwnsTheSame DEF Stays, SameMan
    <3>3. wealth' = v
      BY <1>6, <1>w, <3>2
    <3> QED
      BY <1>7, <1>t, <2>1, <3>3
  <2>2. CASE lot.bet # 0 /\ Buyer # Null
    <3>0. PICK a \in Name : a = lot.real_buyer
      BY <1>b, <1>t, <2>2
    <3>1. /\ a \in Name /\ a # n /\ Buyer \in Body /\ body[Buyer].name = a
          /\ Buyer # ch
      BY <1>1, <1>b, <1>t, <2>2, <3>0
    <3>2. ASSUME NEW m \in Name, m # n, m # a PROVE wealth'[m] = wealth[m]
      <4>1. ASSUME NEW c \in Body, body[c].name = m PROVE SameMan(c)
        <5>1. c # ch /\ c # Buyer
          BY <1>1, <3>1, <3>2, <4>1
        <5> QED
          BY <1>2, <1>p, <5>1 DEF Stays, SameMan
      <4> QED
        BY <1>2, <1>4, <4>1, OwnsTheSame DEF Stays
    <3>3. /\ wealth'[a] <= wealth[a] + lot.bet
          /\ Driven(Buyer) => wealth'[a] = wealth[a] + lot.bet
      <4>0. /\ \A m \in Name : link[m].character = Buyer => link[m].con # "none" /\ m = a
            /\ \A b \in Body : body[b].name = a => b # ch
        BY <1>1, <3>1 DEF GoldInv, IndInv, LinksAreNamed, NoLink
      <4>1. CASE link[a].con # "none"
        <5>1. /\ link[a].character \in Body /\ wealth[a] = body[link[a].character].gold
              /\ wealth'[a] = body'[link[a].character].gold
              /\ body[link[a].character].name = a
          BY <1>2, <1>4, <3>1, <4>1, WealthIs, WealthIsNext DEF Stays, GoldInv, IndInv,
                                                          LinksAreNamed
        <5>2. body'[link[a].character].gold = paid[link[a].character].gold
          BY <1>2, <4>0, <5>1
        <5> QED
          BY <1>p, <1>t, <4>0, <5>1, <5>2 DEF Driven
      <4>2. CASE link[a].con = "none"
        <5>1. ~Driven(Buyer)
          BY <4>0, <4>2 DEF Driven
        <5>2. \A b \in Body : Own(a, b)' <=> Own(a, b)
          BY <1>2 DEF Own, Stays
        <5>3. CASE \E b \in Body : Own(a, b)
          <6>1. PICK b \in Body : Own(a, b)
            BY <5>3
          <6>2. wealth[a] = body[b].gold /\ wealth'[a] = body'[b].gold /\ b # ch
            BY <1>2, <1>4, <3>1, <4>0, <4>2, <5>2, <6>1, WealthIs, WealthIsNext
               DEF Stays, Own
          <6>3. body'[b].gold = paid[b].gold
            BY <1>2, <6>2
          <6> QED
            BY <1>p, <1>t, <5>1, <6>2, <6>3
        <5>4. CASE ~\E b \in Body : Own(a, b)
          <6>1. wealth[a] = saved[a].gold /\ wealth'[a] = saved[a].gold
            BY <1>2, <1>4, <3>1, <4>2, <5>2, <5>4, WealthIs, WealthIsNext DEF Stays
          <6> QED
            BY <1>t, <1>w, <3>1, <5>1, <6>1
        <5> QED
          BY <5>3, <5>4
      <4> QED
        BY <4>1, <4>2
    <3>4. \A m \in Name : m # a => wealth'[m] = v[m]
      BY <1>6, <3>2
    <3>5. v[a] = wealth[a] /\ wealth[a] \in Nat /\ wealth'[a] \in Nat
      BY <1>6, <1>w, <3>1
    <3>6. Total(wealth') \in Nat /\ Total(wealth') + v[a] = Total(v) + wealth'[a]
      BY <1>6, <1>w, <3>1, <3>4, TotalChange
    <3> QED
      BY <1>7, <1>t, <2>2, <3>3, <3>5, <3>6
  <2> QED
    BY <2>1, <2>2
<1>9. Worth = lot.bet + Total(wealth) /\ Worth' = newbet + Total(wealth')
  BY <1>1, <1>4, WorthIs, WorthIsNext
<1>10. /\ NotMade
       /\ lot.bet = 0 \/ (Buyer # Null /\ Driven(Buyer)) => Worth' = Worth
  BY <1>5, <1>7, <1>8, <1>9, <1>t DEF NotMade
<1>11. NotLost
  <2>1. ASSUME \A m \in Parties : Attending(m), lot.bet # 0
        PROVE  Buyer # Null /\ Driven(Buyer)
    BY <1>t, <2>1, PartiesPresent DEF Driven
  <2> QED
    BY <1>10, <2>1 DEF NotLost
<1> QED
  BY <1>1, <1>2, <1>t, <1>4, <1>10, <1>11 DEF Settled, Taken
-----------------------------------------------------------------------------
(* The gold of those who come and go *)

\* A step of n touches nobody else, and leaves the lot what it is but for
\* pointers that are forgotten.
Alone(n) ==
    /\ \A m \in Name : m # n => link'[m] = link[m] /\ saved'[m] = saved[m]
    /\ \A b \in Body : \/ body[b].name \in {Null, n} /\ body'[b].name \in {Null, n}
                       \/ SameMan(b)
    /\ lot' = lot \/ \E b \in Body : lot' = Freed(b)

\* The lot, the bet and the name of the bidder stay.
LEMMA LotKept ==
    ASSUME GoldInv, NEW n \in Name, Alone(n)
    PROVE  /\ lot'.item = lot.item /\ lot'.bet = lot.bet
           /\ lot'.real_buyer = lot.real_buyer
<1>1. lot \in Lot
  BY DEF GoldInv, IndInv, TypeOK
<1>2. ASSUME NEW b \in Body, lot' = Freed(b)
      PROVE  /\ lot'.item = lot.item /\ lot'.bet = lot.bet
             /\ lot'.real_buyer = lot.real_buyer
  <2> DEFINE s == IF lot.seller = b THEN Null ELSE lot.seller
             y == IF lot.buyer = b THEN Null ELSE lot.buyer
  <2>1. lot' = lot \/ lot' = [lot EXCEPT !.seller = s, !.buyer = y]
    BY <1>2 DEF Freed
  <2> HIDE DEF s, y
  <2> QED
    BY <1>1, <2>1 DEF Lot
<1> QED
  BY <1>2 DEF Alone

LEMMA AloneLives ==
    ASSUME GoldInv, IndInv', NEW n \in Name, Alone(n), Living(n)'
    PROVE  GoldInv'
<1>1. ASSUME NEW m \in Name, m # n PROVE Living(m)'
  <2>1. ASSUME NEW b \in Body, body'[b].name = m
        PROVE  /\ body[b].name = m /\ body'[b].kind = body[b].kind
               /\ body'[b].place = body[b].place /\ body'[b].gold >= body[b].gold
    <3>1. SameMan(b) /\ body[b].gold \in Nat
      BY <1>1, <2>1 DEF Alone, GoldInv, IndInv, TypeOK, Char
    <3> QED
      BY <2>1, <3>1 DEF SameMan
  <2> QED
    BY <1>1, <2>1, LivesOn DEF Alone
<1>2. BetsAreNamed'
  <2>1. /\ lot'.item = lot.item /\ lot'.bet = lot.bet
        /\ lot'.real_buyer = lot.real_buyer
    BY LotKept
  <2> QED
    BY <2>1 DEF GoldInv, BetsAreNamed
<1> QED
  BY <1>1, <1>2 DEF GoldInv

\* So what it owns before and after says what the step does to the gold.
LEMMA AloneSettles ==
    ASSUME GoldInv, GoldInv', NEW n \in Name, Alone(n), wealth'[n] <= wealth[n],
           \/ wealth'[n] = wealth[n]
           \/ lot' = lot
           \/ \E m \in Parties : ~Attending(m)
    PROVE  Settled
<1>1. ASSUME NEW m \in Name, m # n PROVE wealth'[m] = wealth[m]
  <2>1. ASSUME NEW b \in Body, body'[b].name = m \/ body[b].name = m PROVE SameMan(b)
    BY <1>1, <2>1 DEF Alone
  <2> QED
    BY <1>1, <2>1, OwnsTheSame DEF Alone
<1>2. /\ wealth[n] \in Nat /\ wealth'[n] \in Nat
      /\ lot.bet \in Nat /\ lot'.bet \in Nat /\ Worth \in Nat /\ Worth' \in Nat
      /\ Worth' - lot'.bet + wealth[n] = Worth - lot.bet + wealth'[n]
  BY <1>1, WorthMoves
<1>3. lot'.bet = lot.bet /\ lot'.item = lot.item
  BY LotKept
<1> QED
  BY <1>2, <1>3 DEF Settled, NotMade, NotLost, Taken

\* What is known of a player before it moves.
LEMMA PlayerIs ==
    ASSUME GoldInv, NEW n \in Name
    PROVE  /\ n # Null /\ Living(n)
           /\ link \in [Name -> Link] /\ body \in [Body -> Char] /\ saved \in [Name -> File]
           /\ saved[n].gold \in Nat /\ \A b \in Body : body[b].gold \in Nat
           /\ link[n].con = "none" =>
                 /\ link[n] = NoLink
                 /\ \A b \in Body : Linkdead(n, b) <=> Own(n, b)
           /\ link[n].con # "none" => /\ link[n].character \in Body
                                     /\ body[link[n].character].name = n
           /\ link[n].original # Null => /\ link[n].con = "PLYNG"
                                        /\ body[link[n].character].kind = "poly"
                                        /\ link[n].original \in Body
                                        /\ link[n].original # link[n].character
                                        /\ body[link[n].original].name = n
<1>1. /\ n # Null /\ Living(n)
      /\ link \in [Name -> Link] /\ body \in [Body -> Char] /\ saved \in [Name -> File]
  BY DEF GoldInv, IndInv, TypeOK
<1>2. /\ link[n].con = "none" => link[n] = NoLink
      /\ link[n].con # "none" => /\ link[n].character \in Body
                                /\ body[link[n].character].name = n
      /\ link[n].original # Null => /\ link[n].con = "PLYNG"
                                   /\ body[link[n].character].kind = "poly"
                                   /\ link[n].original \in Body
                                   /\ link[n].original # link[n].character
                                   /\ body[link[n].original].name = n
  BY <1>1 DEF GoldInv, IndInv, LinksAreNamed, Link
<1>3. ASSUME link[n].con = "none", NEW b \in Body, body[b].name = n PROVE ~Driven(b)
  BY <1>1, <1>3 DEF GoldInv, IndInv, LinksAreNamed, Driven, NoLink
<1>4. saved[n].gold \in Nat /\ \A b \in Body : body[b].gold \in Nat
  BY <1>1 DEF File, Char
<1> QED
  BY <1>1, <1>2, <1>3, <1>4 DEF Linkdead, Own

\* Logging in, reconnecting and entering bring the gold along.
LEMMA LoginSettles ==
    ASSUME GoldInv, NEW n \in Name, Login(n)
    PROVE  Settled /\ Alone(n)
<1>0. IndInv'
  BY ComingInv DEF GoldInv
<1>1. PICK b \in Body :
        /\ link[n].con = "none" /\ \A c \in Body : ~Own(n, c)
        /\ body[b].name = Null
        /\ body' = [body EXCEPT ![b] = [NoChar EXCEPT !.name = n, !.kind = "pc",
                                                      !.gold = saved[n].gold]]
        /\ link' = [link EXCEPT ![n] = [NoLink EXCEPT !.con = "SLCT", !.character = b]]
        /\ UNCHANGED <<saved, floor, seized, stale, lot>>
  BY PlayerIs DEF Login
<1>2. /\ body'[b].name = n /\ body'[b].place = "nowhere" /\ body'[b].gold = saved[n].gold
      /\ \A c \in Body : c # b => body'[c] = body[c]
      /\ link'[n].con = "SLCT" /\ link'[n].character = b /\ link'[n].original = Null
      /\ \A m \in Name : m # n => link'[m] = link[m]
  BY <1>1, PlayerIs DEF NoChar, NoLink
<1>3. Alone(n)
  BY <1>1, <1>2 DEF Alone, SameMan
<1>4. \A c \in Body : ~Own(n, c)'
  BY <1>1, <1>2 DEF Own
<1>5. Living(n)'
  BY <1>1, <1>2, <1>4, PlayerIs DEF Living
<1>6. GoldInv'
  BY <1>0, <1>3, <1>5, AloneLives
<1>7. wealth'[n] = saved[n].gold /\ wealth[n] = saved[n].gold
  BY <1>1, <1>2, <1>6, WealthIs, WealthIsNext
<1> QED
  BY <1>3, <1>6, <1>7, PlayerIs, AloneSettles

LEMMA ReconnectSettles ==
    ASSUME GoldInv, NEW n \in Name, Reconnect(n)
    PROVE  Settled /\ Alone(n)
<1>0. IndInv'
  BY ComingInv DEF GoldInv
<1>1. PICK b \in Body :
        /\ link[n].con = "none" /\ Own(n, b)
        /\ link' = [link EXCEPT ![n] = [NoLink EXCEPT !.con = "PLYNG", !.character = b]]
        /\ UNCHANGED <<body, saved, floor, seized, stale, lot>>
  BY PlayerIs DEF Reconnect
<1>2. /\ link'[n].con = "PLYNG" /\ link'[n].character = b /\ link'[n].original = Null
      /\ \A m \in Name : m # n => link'[m] = link[m]
  BY <1>1, PlayerIs DEF NoLink
<1>3. Alone(n)
  BY <1>1, <1>2 DEF Alone, SameMan
<1>4. Living(n)'
  BY <1>1, <1>2, PlayerIs DEF Living, Own
<1>5. GoldInv'
  BY <1>0, <1>3, <1>4, AloneLives
<1>6. wealth'[n] = body[b].gold /\ wealth[n] = body[b].gold
  BY <1>1, <1>2, <1>5, WealthIs, WealthIsNext
<1> QED
  BY <1>3, <1>5, <1>6, PlayerIs, AloneSettles

LEMMA EnterSettles ==
    ASSUME GoldInv, NEW n \in Name, Enter(n)
    PROVE  Settled /\ Alone(n)
<1>0. IndInv'
  BY ComingInv DEF GoldInv
<1> PICK c \in Body : c = link[n].character
  BY PlayerIs DEF Enter
<1>1. /\ link[n].con = "SLCT" /\ body[c].name = n /\ link[n].original = Null
      /\ link' = [link EXCEPT ![n].con = "PLYNG"]
      /\ body' = [body EXCEPT ![c] = [@ EXCEPT !.place = "world",
                                               !.items = saved[n].items]]
      /\ saved' = [saved EXCEPT ![n].gold = body[c].gold]
      /\ UNCHANGED <<floor, seized, stale, lot>>
  BY PlayerIs DEF Enter
<1>2. /\ link'[n].con = "PLYNG" /\ link'[n].character = c /\ link'[n].original = Null
      /\ \A m \in Name : m # n => link'[m] = link[m] /\ saved'[m] = saved[m]
      /\ body'[c].gold = body[c].gold /\ body'[c].name = n
      /\ \A b \in Body : b # c => body'[b] = body[b]
  BY <1>1, PlayerIs DEF Link, Char
<1>3. Alone(n)
  BY <1>1, <1>2 DEF Alone, SameMan
<1>4. \A b \in Body : Own(n, b)' => b = c
  <2>1. \A b \in Body : Own(n, b) => b = c
    BY <1>1, PlayerIs DEF Living, Own
  <2> QED
    BY <1>2, <2>1 DEF Own
<1>5. Living(n)'
  BY <1>2, <1>4 DEF Living
<1>6. GoldInv'
  BY <1>0, <1>3, <1>5, AloneLives
<1>7. wealth'[n] = body[c].gold /\ wealth[n] = body[c].gold
  BY <1>1, <1>2, <1>6, WealthIs, WealthIsNext
<1> QED
  BY <1>3, <1>6, <1>7, PlayerIs, AloneSettles

\* Leaving saves the gold; being rented away may lose what was gained since.
LEMMA LeaveSettles ==
    ASSUME GoldInv, NEW n \in Name, LeaveGame(n)
    PROVE  Settled /\ Alone(n)
<1>0. IndInv'
  BY GoingInv DEF GoldInv
<1> PICK c \in Body : c = link[n].character
  BY PlayerIs DEF LeaveGame, MayDeal
<1>1. /\ link[n].con = "PLYNG" /\ body[c].name = n /\ link[n].original = Null
      /\ link' = [link EXCEPT ![n].con = "SLCT"]
      /\ body' = [body EXCEPT ![c] = [@ EXCEPT !.place = "nowhere", !.items = {}]]
      /\ \/ saved' = [saved EXCEPT ![n] = [gold |-> body[c].gold, items |-> {}]]
         \/ saved' = [saved EXCEPT ![n] = [gold |-> body[c].gold, items |-> body[c].items]]
      /\ UNCHANGED <<seized, stale, lot>>
  BY PlayerIs DEF LeaveGame, MayDeal, ZeroRent
<1>2. /\ link'[n].con = "SLCT" /\ link'[n].character = c /\ link'[n].original = Null
      /\ \A m \in Name : m # n => link'[m] = link[m] /\ saved'[m] = saved[m]
      /\ body'[c].gold = body[c].gold /\ body'[c].name = n /\ body'[c].place = "nowhere"
      /\ \A b \in Body : b # c => body'[b] = body[b]
  <2>t. /\ link \in [Name -> Link] /\ body \in [Body -> Char] /\ saved \in [Name -> File]
        /\ link[n] \in Link /\ body[c] \in Char
    BY PlayerIs
  <2>1. /\ link'[n].con = "SLCT" /\ link'[n].character = c /\ link'[n].original = Null
        /\ \A m \in Name : m # n => link'[m] = link[m]
    BY <1>1, <2>t DEF Link
  <2>2. \A m \in Name : m # n => saved'[m] = saved[m]
    BY <1>1, <2>t
  <2>3. /\ body'[c].gold = body[c].gold /\ body'[c].name = n /\ body'[c].place = "nowhere"
        /\ \A b \in Body : b # c => body'[b] = body[b]
    BY <1>1, <2>t DEF Char
  <2> QED
    BY <2>1, <2>2, <2>3
<1>g. saved'[n].gold = body[c].gold
  <2>1. saved \in [Name -> File] /\ saved[n] \in File
    BY PlayerIs
  <2> QED
    BY <1>1, <2>1 DEF File
<1>3. Alone(n)
  BY <1>1, <1>2 DEF Alone, SameMan
<1>4. \A b \in Body : ~Own(n, b)'
  <2>1. \A b \in Body : Own(n, b) => b = c
    <3>1. Living(n) /\ n # Null
      BY PlayerIs
    <3> QED
      BY <1>1, <3>1 DEF Living
  <2>2. ASSUME NEW b \in Body, b # c PROVE ~Own(n, b)'
    BY <1>2, <2>1, <2>2 DEF Own
  <2>3. ~Own(n, c)'
    BY <1>2 DEF Own
  <2> QED
    BY <2>2, <2>3
<1>5. Living(n)'
  BY <1>2, <1>g, <1>4, PlayerIs DEF Living
<1>6. GoldInv'
  BY <1>0, <1>3, <1>5, AloneLives
<1>7. wealth'[n] = body[c].gold /\ wealth[n] = body[c].gold
  <2>1. wealth[n] = body[c].gold
    BY <1>1, WealthIs
  <2>2. link'[n].con # "none" /\ link'[n].character = c
    BY <1>2
  <2>3. wealth'[n] = body'[c].gold
    BY <1>6, <2>2, WealthIsNext
  <2> QED
    BY <1>2, <2>1, <2>3
<1> QED
  BY <1>3, <1>6, <1>7, PlayerIs, AloneSettles

LEMMA ForceRentSettles ==
    ASSUME GoldInv, NEW n \in Name, ForceRent(n)
    PROVE  Settled /\ Alone(n)
<1>0. IndInv'
  BY GoingInv DEF GoldInv
<1>1. PICK b \in Body, god \in BOOLEAN :
        /\ Linkdead(n, b) /\ \A m \in Name : link[m].original # b
        /\ body' = [body EXCEPT ![b] = [@ EXCEPT !.place = "nowhere", !.items = {}]]
        /\ \/ saved' = [saved EXCEPT
                 ![n] = [gold |-> IF god THEN body[b].gold ELSE @.gold,
                         items |-> body[b].items]]
           \/ saved' = [saved EXCEPT ![n].gold = IF god THEN body[b].gold ELSE @]
        /\ UNCHANGED <<link, seized, lot>>
  BY DEF ForceRent
<1>2. Own(n, b) /\ link[n].con = "none"
  <2>1. Own(n, b) /\ ~Driven(b)
    BY <1>1 DEF Linkdead, Own
  <2> QED
    BY <1>1, <2>1, PlayerIs DEF Living, Driven
<1>3. /\ \A m \in Name : m # n => saved'[m] = saved[m]
      /\ body'[b].name = n /\ body'[b].place = "nowhere"
      /\ \A c \in Body : c # b => body'[c] = body[c]
  BY <1>1, <1>2, PlayerIs DEF Char, Own
<1>g. saved'[n].gold \in {body[b].gold, saved[n].gold}
  BY <1>1, PlayerIs DEF File
<1>4. Alone(n)
  BY <1>1, <1>2, <1>3 DEF Alone, SameMan, Own
<1>5. \A c \in Body : ~Own(n, c)'
  BY <1>2, <1>3, PlayerIs DEF Living, Own
<1>6. Living(n)'
  BY <1>1, <1>2, <1>5, PlayerIs DEF Living, NoLink
<1>7. GoldInv'
  BY <1>0, <1>4, <1>6, AloneLives
<1>8. wealth'[n] = saved'[n].gold /\ wealth[n] = body[b].gold
  BY <1>1, <1>2, <1>5, <1>7, WealthIs, WealthIsNext
<1>9. saved[n].gold <= body[b].gold
  BY <1>2, PlayerIs DEF Living
<1> QED
  BY <1>1, <1>4, <1>7, <1>8, <1>9, <1>g, PlayerIs, AloneSettles

LEMMA GetSettles ==
    ASSUME GoldInv, NEW n \in Name, NEW item \in Item, Get(n, item)
    PROVE  Settled /\ Stays
<1>0. IndInv'
  BY GoingInv DEF GoldInv
<1>1. /\ link[n].character \in Body
      /\ body' = Hand(body, link[n].character, item)
      /\ UNCHANGED <<link, saved, seized, stale, lot>>
  BY PlayerIs DEF Get
<1>2. Stays /\ \A b \in Body : body'[b].gold = body[b].gold
  BY <1>1, PlayerIs, HandGold DEF Stays
<1>3. BetsAreNamed'
  BY <1>1 DEF GoldInv, BetsAreNamed
<1>4. GoldInv'
  BY <1>0, <1>2, <1>3, PlayerIs, StaysLive
<1>5. Worth' = Worth /\ Worth \in Nat
  BY <1>1, <1>2, <1>4, NobodyPaid
<1> QED
  BY <1>1, <1>2, <1>4, <1>5 DEF Settled, NotMade, NotLost, Taken

\* Polymorphing and returning carry the gold over.
LEMMA PolySelfSettles ==
    ASSUME GoldInv, NEW n \in Name, PolySelf(n)
    PROVE  Settled /\ Alone(n)
<1>0. IndInv'
  BY ShapesInv DEF GoldInv
<1> PICK c \in Body : c = link[n].character
  BY PlayerIs DEF PolySelf, MayDeal
<1>1. PICK m \in Body :
        /\ body[m].name = Null
        /\ body' = [body EXCEPT ![m] = [body[c] EXCEPT !.kind = "poly"],
                                ![c] = [@ EXCEPT !.items = {}, !.place = "store"]]
        /\ link' = [link EXCEPT ![n] = [@ EXCEPT !.character = m, !.original = c]]
        /\ link[n].con = "PLYNG"
        /\ UNCHANGED <<saved, floor, seized, stale, lot>>
  BY DEF PolySelf, MayDeal
<1>2. body[c].name = n /\ m # c /\ link[n].original = Null
  BY <1>1, PlayerIs DEF PolySelf, MayDeal
<1>3. /\ link'[n].con = "PLYNG" /\ link'[n].character = m /\ link'[n].original = c
      /\ \A k \in Name : k # n => link'[k] = link[k]
  BY <1>1, PlayerIs DEF Link
<1>4. /\ body'[m].name = n /\ body'[m].kind = "poly" /\ body'[m].gold = body[c].gold
      /\ body'[c].name = n /\ body'[c].place = "store"
      /\ \A b \in Body : b # c /\ b # m => body'[b] = body[b]
  BY <1>1, <1>2, PlayerIs DEF Char
<1>5. Alone(n)
  BY <1>1, <1>2, <1>3, <1>4 DEF Alone, SameMan
<1>6. \A b \in Body : Own(n, b)' => b = c
  <2>1. \A b \in Body : Own(n, b) => b = c
    BY <1>1, <1>2, PlayerIs DEF Living
  <2> QED
    BY <1>4, <2>1 DEF Own
<1>7. Living(n)'
  BY <1>3, <1>4, <1>6 DEF Living
<1>8. GoldInv'
  BY <1>0, <1>5, <1>7, AloneLives
<1>9. wealth'[n] = body[c].gold /\ wealth[n] = body[c].gold
  <2>1. link[n].con # "none" /\ link'[n].con # "none" /\ link'[n].character = m
    BY <1>1, <1>3
  <2>2. wealth[n] = body[c].gold
    BY <2>1, WealthIs
  <2>3. wealth'[n] = body'[m].gold
    BY <1>8, <2>1, WealthIsNext
  <2> QED
    BY <1>4, <2>2, <2>3
<1> QED
  BY <1>5, <1>8, <1>9, PlayerIs, AloneSettles

\* What do_return makes of the two bodies.
LEMMA BackFromGold ==
    ASSUME body \in [Body -> Char], NEW c \in Body, NEW own \in Body, c # own,
           body' = BackFrom(c, own)
    PROVE  /\ body'[c].name = Null
           /\ body'[own].name = body[own].name /\ body'[own].kind = body[own].kind
           /\ body'[own].place = body[c].place /\ body'[own].gold = body[c].gold
           /\ \A b \in Body : b # c /\ b # own => body'[b] = body[b]
BY DEF BackFrom, Char, NoChar

LEMMA ReturnSettles ==
    ASSUME GoldInv, NEW n \in Name, Return(n)
    PROVE  Settled /\ Alone(n)
<1>0. IndInv'
  BY ShapesInv DEF GoldInv
<1> PICK c \in Body, own \in Body : c = link[n].character /\ own = link[n].original
  BY PlayerIs DEF Return
<1>1. /\ link[n].con = "PLYNG" /\ own # c /\ own # Null
      /\ body[own].name = n /\ body[c].name = n /\ body[c].kind = "poly"
      /\ link' = [link EXCEPT ![n] = [@ EXCEPT !.character = own, !.original = Null]]
      /\ body' = BackFrom(c, own) /\ lot' = Freed(c)
      /\ UNCHANGED <<saved, floor, seized, stale>>
  BY PlayerIs DEF Return
<1>2. /\ link'[n].con = "PLYNG" /\ link'[n].character = own /\ link'[n].original = Null
      /\ \A k \in Name : k # n => link'[k] = link[k]
  BY <1>1, PlayerIs DEF Link
<1>3. /\ body'[c].name = Null /\ body'[own].name = n /\ body'[own].gold = body[c].gold
      /\ \A b \in Body : b # c /\ b # own => body'[b] = body[b]
  <2>1. body \in [Body -> Char] /\ c # own
    BY <1>1, PlayerIs
  <2>2. /\ body'[c].name = Null
        /\ body'[own].name = body[own].name /\ body'[own].gold = body[c].gold
        /\ \A b \in Body : b # c /\ b # own => body'[b] = body[b]
    BY <1>1, <2>1, BackFromGold
  <2> QED
    BY <1>1, <2>2
<1>4. Alone(n)
  BY <1>1, <1>2, <1>3 DEF Alone, SameMan
<1>5. \A b \in Body : Own(n, b)' => b = own
  <2>1. \A b \in Body : Own(n, b) => b = own
    BY <1>1, PlayerIs DEF Living, Own
  <2> QED
    BY <1>3, <2>1, PlayerIs DEF Own
<1>6. Living(n)'
  BY <1>2, <1>5 DEF Living
<1>7. GoldInv'
  BY <1>0, <1>4, <1>6, AloneLives
<1>8. wealth'[n] = body[c].gold /\ wealth[n] = body[c].gold
  <2>1. wealth[n] = body[c].gold
    BY <1>1, WealthIs
  <2>2. link'[n].con # "none" /\ link'[n].character = own
    BY <1>2
  <2>3. wealth'[n] = body'[own].gold
    BY <1>7, <2>2, WealthIsNext
  <2> QED
    BY <1>3, <2>1, <2>3
<1> QED
  BY <1>4, <1>7, <1>8, PlayerIs, AloneSettles

\* close_socket frees a body at the menu, whose gold was saved, or saves the
\* gold of the one played.
LEMMA LinkLostSettles ==
    ASSUME GoldInv, NEW n \in Name, NEW refused \in BOOLEAN, LinkLost(n, refused)
    PROVE  Settled /\ Alone(n)
<1>0. IndInv'
  BY ShapesInv DEF GoldInv
<1> PICK c \in Body : c = link[n].character
  BY PlayerIs DEF LinkLost
<1>1. /\ link[n].con # "none" /\ body[c].name = n
      /\ link' = [link EXCEPT ![n] = NoLink]
      /\ saved' = IF link[n].con = "SLCT" THEN saved
                  ELSE [saved EXCEPT ![n] = [gold |-> body[c].gold,
                                             items |-> body[c].items]]
      /\ link[n].con \in {"SLCT", "PLYNG"}
  BY PlayerIs DEF LinkLost, Link
<1>2. /\ link'[n].con = "none" /\ link'[n].character = Null /\ link'[n].original = Null
      /\ \A m \in Name : m # n => link'[m] = link[m] /\ saved'[m] = saved[m]
      /\ link[n].con = "PLYNG" => saved'[n].gold = body[c].gold
  BY <1>1, PlayerIs DEF Link, NoLink, File
<1>s. wealth[n] = body[c].gold /\ body[c].gold \in Nat
  BY <1>1, WealthIs, PlayerIs
<1>3. CASE link[n].con = "SLCT"
  <2>1. body' = [body EXCEPT ![c] = NoChar] /\ lot' = Freed(c) /\ saved' = saved
    BY <1>1, <1>3, PlayerIs DEF LinkLost
  <2>2. body'[c] = NoChar /\ \A b \in Body : b # c => body'[b] = body[b]
    BY <2>1, PlayerIs
  <2>3. Alone(n)
    BY <1>1, <1>2, <2>1, <2>2 DEF Alone, SameMan, NoChar
  <2>4. \A b \in Body : ~Own(n, b)'
    BY <1>3, <2>2, PlayerIs DEF Living, Own, NoChar
  <2>5. Living(n)'
    BY <1>2, <2>4 DEF Living
  <2>6. GoldInv'
    BY <1>0, <2>3, <2>5, AloneLives
  <2>7. wealth'[n] = saved[n].gold
    BY <1>2, <2>1, <2>4, <2>6, WealthIsNext
  <2>8. saved[n].gold <= body[c].gold
    BY <1>3, PlayerIs DEF Living
  <2>9. lot' = lot \/ \E m \in Parties : ~Attending(m)
    <3> SUFFICES ASSUME lot' # lot PROVE n \in Parties
      BY <1>3 DEF Attending, Connected
    <3>1. lot.item # Null /\ (lot.seller = c \/ lot.buyer = c)
      BY <2>1 DEF Freed, GoldInv, IndInv, TypeOK, Lot
    <3> QED
      BY <1>1, <3>1, PlayerIs DEF GoldInv, IndInv, PartiesAreNotFreed, Parties
  <2> QED
    BY <1>s, <2>3, <2>6, <2>7, <2>8, <2>9, AloneSettles
<1>4. CASE link[n].con = "PLYNG" /\ link[n].original = Null
  <2>1. body' = body /\ lot' = lot
    BY <1>4 DEF LinkLost
  <2>2. Alone(n)
    BY <1>2, <2>1 DEF Alone, SameMan
  <2>3. \A b \in Body : Own(n, b)' => b = c
    BY <1>4, <2>1, PlayerIs DEF Living, Own
  <2>4. Living(n)'
    BY <1>2, <1>4, <1>s, <2>1, <2>3 DEF Living
  <2>5. GoldInv'
    BY <1>0, <2>2, <2>4, AloneLives
  <2>6. wealth'[n] = body[c].gold
    BY <1>2, <1>4, <2>1, <2>3, <2>5, WealthIsNext
  <2> QED
    BY <1>s, <2>2, <2>5, <2>6, AloneSettles
<1>5. CASE link[n].con = "PLYNG" /\ link[n].original # Null
  <2> PICK own \in Body : own = link[n].original
    BY <1>5, PlayerIs
  <2>1. /\ own # c /\ body[own].name = n /\ body[c].kind = "poly"
        /\ \/ body' = BackFrom(c, own) /\ lot' = Freed(c)
           \/ body' = [body EXCEPT ![own].gold = body[c].gold] /\ lot' = lot
    BY <1>5, PlayerIs DEF LinkLost
  <2>2. /\ body'[own].name = n /\ body'[own].gold = body[c].gold
        /\ \A b \in Body : b # c /\ b # own => body'[b] = body[b]
        /\ body'[c].name = Null \/ body'[c] = body[c]
    <3>1. CASE body' = BackFrom(c, own)
      <4>1. /\ body'[c].name = Null
            /\ body'[own].name = body[own].name /\ body'[own].gold = body[c].gold
            /\ \A b \in Body : b # c /\ b # own => body'[b] = body[b]
        <5>1. body \in [Body -> Char] /\ c # own
          BY <2>1, PlayerIs
        <5> QED
          BY <3>1, <5>1, BackFromGold
      <4> QED
        BY <2>1, <4>1
    <3>2. CASE body' = [body EXCEPT ![own].gold = body[c].gold]
      <4>1. body \in [Body -> Char] /\ body[own] \in Char
        BY PlayerIs
      <4> QED
        BY <2>1, <3>2, <4>1 DEF Char
    <3> QED
      BY <2>1, <3>1, <3>2
  <2>3. Alone(n)
    BY <1>1, <1>2, <2>1, <2>2 DEF Alone, SameMan
  <2>4. \A b \in Body : Own(n, b)' => b = own
    <3>1. \A b \in Body : Own(n, b) => b = own
      BY <1>5, <2>1, PlayerIs DEF Living, Own
    <3> QED
      BY <2>1, <2>2, <3>1, PlayerIs DEF Own
  <2>5. Living(n)'
    BY <1>2, <1>5, <1>s, <2>2, <2>4 DEF Living
  <2>6. GoldInv'
    BY <1>0, <2>3, <2>5, AloneLives
  <2>7. wealth'[n] = body[c].gold
    BY <1>2, <1>5, <2>2, <2>4, <2>6, WealthIsNext
  <2> QED
    BY <1>s, <2>3, <2>6, <2>7, AloneSettles
<1> QED
  BY <1>1, <1>3, <1>4, <1>5

\* Every step settles what it does.
LEMMA NextSettles == GoldInv /\ [Next]_vars => GoldInv' /\ [Settled]_vars
<1> SUFFICES ASSUME GoldInv, [Next]_vars PROVE GoldInv' /\ [Settled]_vars
  OBVIOUS
<1>1. CASE UNCHANGED vars
  BY <1>1 DEF vars, GoldInv, IndInv, TypeOK, PartiesAreNotFreed, LinksAreNamed,
              PartiesAreNamed, BetsAreNamed, Living, Own
<1>2. CASE AuctionUpdate \/ Stop
  BY <1>2, UpdateSettles DEF Settled
<1>3. ASSUME NEW n \in Name, Dealing(n) PROVE Settled
  BY <1>3, SellSettles, BidSettles DEF Dealing
<1>4. ASSUME NEW n \in Name, Moving(n) PROVE Settled
  BY <1>4, LoginSettles, ReconnectSettles, EnterSettles, LeaveSettles, ForceRentSettles,
     PolySelfSettles, ReturnSettles, LinkLostSettles, GetSettles DEF Moving
<1> QED
  BY <1>1, <1>2, <1>3, <1>4 DEF Next, Settled

\* And so does every behaviour.
LEMMA AlwaysSettled == Spec => [][Settled]_vars
BY InitGold, NextSettles, PTL DEF Spec

(* No step makes gold, for any number of players with any purses: no refund *)
(* and no sale, to whatever body it goes, and nothing that is saved or read *)
(* back meanwhile.                                                          *)
THEOREM GoldIsNeverMade == Spec => GoldIsNotMade
<1>1. [Settled]_vars => [Worth' <= Worth]_vars
  BY DEF Settled, NotMade
<1> QED
  BY <1>1, AlwaysSettled, PTL DEF GoldIsNotMade

(* A refund or a payment to a party that attends is never lost.             *)
THEOREM AttendingNeverLose == Spec => AttendingLoseNothing
<1>1. [Settled]_vars =>
        [lot.item # Null /\ lot' # lot /\ (\A n \in Parties : Attending(n))
         => Worth' = Worth]_vars
  BY DEF Settled, NotLost
<1> QED
  BY <1>1, AlwaysSettled, PTL DEF AttendingLoseNothing

(* The winner that attends has the item when the lot ends, and the seller   *)
(* that attends has it back when nobody bid.                                *)
THEOREM WinnerAlwaysTakes == Spec => WinnerTakesTheLot
<1>1. [Settled]_vars =>
        [lot.item # Null /\ lot'.item = Null /\ (\A n \in Parties : Attending(n))
         => LET owner == IF lot.bet > 0 THEN lot.real_buyer ELSE lot.real_seller
            IN  lot.item \in body'[link'[owner].character].items \cup seized']_vars
  BY DEF Settled, Taken
<1> QED
  BY <1>1, AlwaysSettled, PTL DEF WinnerTakesTheLot
-----------------------------------------------------------------------------
(* An item is in one place *)

\* What the next logins bring back.
listed == [n \in Name |-> Listed(n)]

\* Somewhere else than with a character or in a record.
Loose(item) == item \in floor \/ item \in seized \/ lot.item = item

\* ItemsAreNotDuplicated place by place, without counting.
Apart ==
    \A item \in Item \ stale :
        /\ \A b, c \in Body :
              item \in body[b].items /\ item \in body[c].items => b = c
        /\ \A m, n \in Name :
              item \in listed[m] /\ item \in listed[n] => m = n
        /\ \A b \in Body, n \in Name :
              ~(item \in body[b].items /\ item \in listed[n])
        /\ \A b \in Body : ~(item \in body[b].items /\ Loose(item))
        /\ \A n \in Name : ~(item \in listed[n] /\ Loose(item))
        /\ ~(item \in floor /\ item \in seized)
        /\ ~(lot.item = item /\ (item \in floor \/ item \in seized))

\* Whoever plays has an own body in a room, so that its record is not read when
\* it loses its link: the body it plays, or the one its shape stands for, which
\* comes back to where the shape is.
Standing(n) ==
    /\ link[n].con # "none" =>
          LET own == IF link[n].original = Null THEN link[n].character
                     ELSE link[n].original
          IN  body[own].kind = "pc"
    /\ link[n].con = "PLYNG" => body[link[n].character].place # "nowhere"

ItemInv == GoldInv /\ Apart /\ \A n \in Name : Standing(n)

\* At the start everything lies on the floor.
LEMMA InitItems == Init => ItemInv
<1> SUFFICES ASSUME Init PROVE ItemInv
  OBVIOUS
<1>1. /\ \A b \in Body : body[b].items = {}
      /\ \A n \in Name : listed[n] = {} /\ link[n].con = "none"
  BY DEF Init, NoChar, NoLink, listed, Listed
<1> QED
  BY <1>1, InitGold DEF Init, ItemInv, Apart, Loose, Standing, NoLot

\* A set in which no two are different counts one at most.
LEMMA OneAtMost ==
    ASSUME NEW S, \A x, y \in S : x = y
    PROVE  Cardinality(S) \in {0, 1} /\ (S = {} <=> Cardinality(S) = 0)
<1>1. CASE S = {}
  BY <1>1, FS_EmptySet
<1>2. CASE S # {}
  <2>1. PICK x \in S : S = {x}
    BY <1>2
  <2>2. Cardinality(S) = 1
    BY <2>1, FS_Singleton
  <2> QED
    BY <1>2, <2>2
<1> QED
  BY <1>1, <1>2

\* Counting them again.
LEMMA ApartCounts == Apart => ItemsAreNotDuplicated
<1> SUFFICES ASSUME Apart, NEW item \in Item \ stale PROVE Places(item) <= 1
  BY DEF ItemsAreNotDuplicated
<1> DEFINE holders == {b \in Body : item \in body[b].items}
           records == {n \in Name : item \in Listed(n)}
           onFloor == IF item \in floor THEN 1 ELSE 0
           inLot == IF lot.item = item THEN 1 ELSE 0
           taken == IF item \in seized THEN 1 ELSE 0
<1>1. /\ \A x, y \in holders : x = y
      /\ \A x, y \in records : x = y
      /\ holders # {} => records = {} /\ ~Loose(item)
      /\ records # {} => ~Loose(item)
      /\ ~(item \in floor /\ item \in seized)
      /\ ~(lot.item = item /\ (item \in floor \/ item \in seized))
  BY DEF Apart, listed
<1>2. /\ Cardinality(holders) \in {0, 1}
      /\ holders = {} <=> Cardinality(holders) = 0
  <2> HIDE DEF holders
  <2> QED
    BY <1>1, OneAtMost
<1>3. /\ Cardinality(records) \in {0, 1}
      /\ records = {} <=> Cardinality(records) = 0
  <2> HIDE DEF records
  <2> QED
    BY <1>1, OneAtMost
<1>4. /\ onFloor \in {0, 1} /\ inLot \in {0, 1} /\ taken \in {0, 1}
      /\ onFloor + inLot + taken <= 1
      /\ ~Loose(item) => onFloor = 0 /\ inLot = 0 /\ taken = 0
  BY <1>1 DEF Loose
<1>5. Places(item) = Cardinality(holders) + Cardinality(records) + onFloor + inLot + taken
  BY DEF Places
<1> HIDE DEF holders, records, onFloor, inLot, taken
<1> QED
  BY <1>1, <1>2, <1>3, <1>4, <1>5
-----------------------------------------------------------------------------
(* Which records are read *)

\* What Listed says, state by state: at the menu a player's record will be
\* read, and without a link if it has left no body.
LEMMA ListedIs ==
    GoldInv => \A n \in Name :
        /\ link[n].con = "SLCT" => listed[n] = saved[n].items
        /\ link[n].con = "PLYNG" => listed[n] = {}
        /\ link[n].con = "none" =>
              /\ \A b \in Body : Own(n, b) => listed[n] = {}
              /\ (\A b \in Body : ~Own(n, b)) => listed[n] = saved[n].items
<1> SUFFICES ASSUME GoldInv, NEW n \in Name
             PROVE  /\ link[n].con = "SLCT" => listed[n] = saved[n].items
                    /\ link[n].con = "PLYNG" => listed[n] = {}
                    /\ link[n].con = "none" =>
                          /\ \A b \in Body : Own(n, b) => listed[n] = {}
                          /\ (\A b \in Body : ~Own(n, b)) => listed[n] = saved[n].items
  OBVIOUS
<1>1. listed[n] = IF link[n].con = "PLYNG" \/ \E b \in Body : Linkdead(n, b) THEN {}
                  ELSE saved[n].items
  BY DEF listed, Listed
<1>2. ASSUME link[n].con = "SLCT", NEW b \in Body PROVE ~Linkdead(n, b)
  <2>1. link[n].original = Null
    BY <1>2, PlayerIs
  <2>2. Own(n, b) => b = link[n].character /\ body[b].place = "nowhere"
    <3>1. /\ Own(n, b) => b \in {link[n].character, link[n].original}
          /\ body[link[n].character].place = "nowhere"
      BY <1>2, PlayerIs DEF Living
    <3>2. b # Null
      OBVIOUS
    <3> QED
      BY <2>1, <3>1, <3>2
  <2> QED
    BY <2>2 DEF Linkdead, Own
<1>3. link[n].con = "none" => \A b \in Body : Linkdead(n, b) <=> Own(n, b)
  BY PlayerIs
<1> QED
  BY <1>1, <1>2, <1>3

\* The same after a step.
LEMMA ListedIsNext ==
    GoldInv' => \A n \in Name :
        /\ link'[n].con = "SLCT" => listed'[n] = saved'[n].items
        /\ link'[n].con = "PLYNG" => listed'[n] = {}
        /\ link'[n].con = "none" =>
              /\ \A b \in Body : Own(n, b)' => listed'[n] = {}
              /\ (\A b \in Body : ~Own(n, b)') => listed'[n] = saved'[n].items
<1>1. (GoldInv => \A n \in Name :
        /\ link[n].con = "SLCT" => listed[n] = saved[n].items
        /\ link[n].con = "PLYNG" => listed[n] = {}
        /\ link[n].con = "none" =>
              /\ \A b \in Body : Own(n, b) => listed[n] = {}
              /\ (\A b \in Body : ~Own(n, b)) => listed[n] = saved[n].items)'
  BY ListedIs, PTL
<1> QED
  BY <1>1

\* A player's record is read after a step if it was before, and it stands as
\* before, when its link, its record and where its bodies are stay.
LEMMA ListsTheSame ==
    ASSUME GoldInv, GoldInv', NEW m \in Name, Standing(m),
           link'[m] = link[m], saved'[m] = saved[m],
           \A b \in Body : body'[b].name = m \/ body[b].name = m =>
              /\ body'[b].name = body[b].name /\ body'[b].kind = body[b].kind
              /\ body'[b].place = body[b].place
    PROVE  listed'[m] = listed[m] /\ Standing(m)'
<1>1. \A b \in Body : Own(m, b)' <=> Own(m, b)
  BY DEF Own
<1>2. link[m].con \in {"none", "SLCT", "PLYNG"}
  BY PlayerIs DEF Link
<1>3. listed'[m] = listed[m]
  <2>1. CASE link[m].con = "none"
    <3>1. CASE \E b \in Body : Own(m, b)
      BY <1>1, <2>1, <3>1, ListedIs, ListedIsNext
    <3>2. CASE \A b \in Body : ~Own(m, b)
      BY <1>1, <2>1, <3>2, ListedIs, ListedIsNext
    <3> QED
      BY <3>1, <3>2
  <2>2. CASE link[m].con # "none"
    BY <1>2, <2>2, ListedIs, ListedIsNext
  <2> QED
    BY <2>1, <2>2
<1>4. /\ link[m].con # "none" => /\ link[m].character \in Body
                                /\ body[link[m].character].name = m
      /\ link[m].original # Null => /\ link[m].original \in Body
                                   /\ body[link[m].original].name = m
  BY PlayerIs
<1>5. Standing(m)'
  BY <1>4 DEF Standing
<1> QED
  BY <1>3, <1>5

\* So it is of everybody in the auction's steps, and of the others in a
\* player's.
LEMMA StaysListed ==
    ASSUME GoldInv, GoldInv', Stays, NEW m \in Name, Standing(m)
    PROVE  listed'[m] = listed[m] /\ Standing(m)'
BY ListsTheSame DEF Stays

LEMMA OthersListed ==
    ASSUME GoldInv, GoldInv', NEW n \in Name, Alone(n), NEW m \in Name, m # n,
           Standing(m)
    PROVE  listed'[m] = listed[m] /\ Standing(m)'
<1>1. ASSUME NEW b \in Body, body'[b].name = m \/ body[b].name = m
      PROVE  SameMan(b)
  <2>1. m # Null
    OBVIOUS
  <2> QED
    BY <1>1, <2>1 DEF Alone
<1> QED
  BY <1>1, ListsTheSame DEF Alone, SameMan
-----------------------------------------------------------------------------
(* What the steps do to the items *)

\* A step after which what is in a place was there before.
LEMMA NothingMoved ==
    ASSUME Apart,
           \A b \in Body : body'[b].items \subseteq body[b].items,
           \A n \in Name : listed'[n] \subseteq listed[n],
           floor' \subseteq floor, seized' \subseteq seized, stale' = stale,
           lot'.item \in {lot.item, Null}
    PROVE  Apart'
BY DEF Apart, Loose

\* The item of the lot is handed to a body.
LEMMA LotHanded ==
    ASSUME Apart, lot.item \in Item, lot'.item = Null, NEW c \in Body,
           body'[c].items = body[c].items \cup {lot.item},
           \A b \in Body : b # c => body'[b].items = body[b].items,
           \A n \in Name : listed'[n] = listed[n],
           UNCHANGED <<floor, seized, stale>>
    PROVE  Apart'
<1>1. \A b \in Body, item \in Item :
         item \in body'[b].items <=> item \in body[b].items \/ (b = c /\ item = lot.item)
  OBVIOUS
<1>2. lot.item \notin stale =>
         /\ \A b \in Body : lot.item \notin body[b].items
         /\ \A n \in Name : lot.item \notin listed[n]
  BY DEF Apart, Loose
<1> QED
  BY <1>1, <1>2 DEF Apart, Loose

\* auction_update and the stop of an immortal.
LEMMA UpdateApart ==
    ASSUME ItemInv, AuctionUpdate \/ Stop
    PROVE  ItemInv'
<1>0. IndInv /\ GoldInv /\ Apart
  BY DEF ItemInv, GoldInv
<1>s. GoldInv' /\ Stays
  BY <1>0, UpdateSettles DEF Settled
<1>l. \A n \in Name : listed'[n] = listed[n] /\ Standing(n)'
  BY <1>0, <1>s, StaysListed DEF ItemInv
<1>t. /\ body \in [Body -> Char] /\ lot \in Lot /\ lot.bet \in Nat
      /\ lot.item \in Item \cup {Null}
      /\ Seller \in Body \cup {Null} /\ Buyer \in Body \cup {Null}
  BY <1>0, PartiesTyped DEF IndInv, TypeOK, Lot
<1>1. CASE Tick
  <2>1. lot'.item = lot.item /\ UNCHANGED <<body, floor, seized, stale>>
    BY <1>1, <1>t DEF Tick, Lot
  <2>2. Apart'
    BY <2>1, <1>0, <1>l, NothingMoved
  <2> QED
    BY <2>2, <1>s, <1>l DEF ItemInv
<1>2. CASE CallOut
  <2>1. lot'.item = lot.item /\ UNCHANGED <<body, floor, seized, stale>>
    BY <1>2, <1>t DEF CallOut, Lot
  <2>2. Apart'
    BY <2>1, <1>0, <1>l, NothingMoved
  <2> QED
    BY <2>2, <1>s, <1>l DEF ItemInv
<1>3. CASE Sold
  <2>1. /\ lot.item \in Item /\ Buyer \in Body /\ lot' = NoLot
        /\ body' = Pay(Hand(body, Buyer, lot.item), Seller, lot.bet)
        /\ UNCHANGED <<floor, seized, stale>>
    BY <1>3, <1>t DEF Sold, Due
  <2> DEFINE given == Hand(body, Buyer, lot.item)
  <2>2. given \in [Body -> Char]
    BY <2>1, <1>t, HandProps
  <2>3. \A b \in Body : body'[b].items = given[b].items
    <3>1. body' = Pay(given, Seller, lot.bet)
      BY <2>1
    <3> HIDE DEF given
    <3> QED
      BY <3>1, <2>2, <1>t, PayMovesNothing
  <2>4. /\ body'[Buyer].items = body[Buyer].items \cup {lot.item}
        /\ \A b \in Body : b # Buyer => body'[b].items = body[b].items
    BY <2>1, <2>3, <1>t, HandMoves
  <2>5. Apart'
    BY <2>1, <2>4, <1>0, <1>l, LotHanded, NoLotProps
  <2> QED
    BY <2>5, <1>s, <1>l DEF ItemInv
<1>4. CASE NotCollected \/ Unsold
  <2>1. /\ lot.item \in Item /\ lot' = NoLot
        /\ body' = IF Seller # Null THEN Hand(body, Seller, lot.item) ELSE body
        /\ UNCHANGED <<floor, seized, stale>>
    BY <1>4, <1>t DEF NotCollected, Unsold, Due
  <2>2. CASE Seller # Null
    <3>1. /\ body'[Seller].items = body[Seller].items \cup {lot.item}
          /\ \A b \in Body : b # Seller => body'[b].items = body[b].items
      BY <2>1, <2>2, <1>t, HandMoves
    <3>2. Apart'
      BY <2>1, <2>2, <3>1, <1>0, <1>l, <1>t, LotHanded, NoLotProps
    <3> QED
      BY <3>2, <1>s, <1>l DEF ItemInv
  <2>3. CASE Seller = Null
    <3>1. Apart'
      BY <2>1, <2>3, <1>0, <1>l, NothingMoved, NoLotProps
    <3> QED
      BY <3>1, <1>s, <1>l DEF ItemInv
  <2> QED
    BY <2>2, <2>3
<1>5. CASE Stop
  <2>1. /\ \A b \in Body : body'[b].items = body[b].items
        /\ seized' = seized \cup {lot.item} /\ lot'.item = Null
        /\ UNCHANGED <<floor, stale>>
    BY <1>5, <1>t, PayMovesNothing, NoLotProps DEF Stop
  <2>2. Apart'
    BY <2>1, <1>0, <1>l DEF Apart, Loose
  <2> QED
    BY <2>2, <1>s, <1>l DEF ItemInv
<1> QED
  BY <1>1, <1>2, <1>3, <1>4, <1>5 DEF AuctionUpdate

\* Selling takes the item from the seller; a bid moves gold alone.
LEMMA DealingApart ==
    ASSUME ItemInv, NEW n \in Name, Dealing(n)
    PROVE  ItemInv'
<1>0. IndInv /\ GoldInv /\ Apart
  BY DEF ItemInv, GoldInv
<1>s. GoldInv' /\ Stays
  BY <1>0, SellSettles, BidSettles DEF Settled, Dealing
<1>l. \A m \in Name : listed'[m] = listed[m] /\ Standing(m)'
  BY <1>0, <1>s, StaysListed DEF ItemInv
<1>t. body \in [Body -> Char] /\ lot \in Lot /\ Buyer \in Body \cup {Null}
  BY <1>0, PartiesTyped DEF IndInv, TypeOK
<1> DEFINE ch == link[n].character
<1>c. MayDeal(n) => ch \in Body
  BY <1>0 DEF IndInv, TypeOK, LinksAreNamed, MayDeal, Link
<1>1. ASSUME NEW item \in Item, NEW reserve \in Reserve, Sell(n, item, reserve)
      PROVE  Apart'
  <2>1. /\ ch \in Body /\ item \in body[ch].items /\ lot'.item = item
        /\ body' = [body EXCEPT ![ch].items = @ \ {item}]
        /\ UNCHANGED <<floor, seized, stale>>
    BY <1>1, <1>c DEF Sell, NoLot
  <2> HIDE DEF ch
  <2>2. \A b \in Body : body'[b].items = IF b = ch THEN body[b].items \ {item}
                                         ELSE body[b].items
    BY <2>1, <1>t DEF Char
  <2>3. \A b \in Body, x \in Item :
           x \in body'[b].items => x \in body[b].items /\ (x = item => b # ch)
    BY <2>2
  <2>4. item \notin stale =>
           /\ \A b \in Body : item \notin body'[b].items
           /\ \A m \in Name : item \notin listed[m]
           /\ item \notin floor /\ item \notin seized
    BY <2>1, <2>3, <1>0 DEF Apart, Loose
  <2> QED
    BY <2>1, <2>3, <2>4, <1>0, <1>l DEF Apart, Loose
<1>2. ASSUME NEW newbet \in Offer, Bid(n, newbet) PROVE Apart'
  <2> DEFINE paid == Pay(body, Buyer, lot.bet)
  <2>1. /\ ch \in Body /\ body' = [paid EXCEPT ![ch].gold = @ - newbet]
        /\ lot'.item = lot.item /\ UNCHANGED <<floor, seized, stale>>
    BY <1>2, <1>c, <1>t DEF Bid, Lot
  <2>2. paid \in [Body -> Char] /\ \A b \in Body : paid[b].items = body[b].items
    BY <1>t, PayProps, PayMovesNothing DEF Lot
  <2> HIDE DEF ch, paid
  <2>3. \A b \in Body : body'[b].items = paid[b].items
    BY <2>1, <2>2 DEF Char
  <2> QED
    BY <2>1, <2>2, <2>3, <1>0, <1>l, NothingMoved
<1> QED
  BY <1>1, <1>2, <1>s, <1>l DEF Dealing, ItemInv

\* What a player's step leaves of the others, and what it has to show.
LEMMA MoveItems ==
    ASSUME ItemInv, NEW n \in Name, Settled, Alone(n)
    PROVE  /\ GoldInv /\ GoldInv' /\ Apart /\ Standing(n)
           /\ \A m \in Name : m # n => listed'[m] = listed[m]
           /\ Standing(n)' /\ Apart' => ItemInv'
<1>1. GoldInv /\ GoldInv' /\ Apart /\ \A m \in Name : Standing(m)
  BY DEF ItemInv, Settled
<1>2. ASSUME NEW m \in Name, m # n PROVE listed'[m] = listed[m] /\ Standing(m)'
  BY <1>1, <1>2, OthersListed
<1> QED
  BY <1>1, <1>2 DEF ItemInv

\* free_char leaves the item alone.
LEMMA FreedKeepsItem == lot \in Lot => \A b \in Body : Freed(b).item = lot.item
BY DEF Freed, Lot

\* At the menu the record is still to be read.
LEMMA LoginApart ==
    ASSUME ItemInv, NEW n \in Name, Login(n)
    PROVE  ItemInv'
<1>0. Settled /\ Alone(n)
  BY LoginSettles DEF ItemInv
<1>m. /\ GoldInv /\ GoldInv' /\ Apart
      /\ \A m \in Name : m # n => listed'[m] = listed[m]
      /\ Standing(n)' /\ Apart' => ItemInv'
  BY <1>0, MoveItems
<1>1. PICK b \in Body :
        /\ link[n].con = "none" /\ \A c \in Body : ~Own(n, c)
        /\ body' = [body EXCEPT ![b] = [NoChar EXCEPT !.name = n, !.kind = "pc",
                                                      !.gold = saved[n].gold]]
        /\ link' = [link EXCEPT ![n] = [NoLink EXCEPT !.con = "SLCT", !.character = b]]
        /\ UNCHANGED <<saved, floor, seized, stale, lot>>
  BY <1>m, PlayerIs DEF Login
<1>2. /\ link'[n].con = "SLCT" /\ link'[n].character = b /\ link'[n].original = Null
      /\ body'[b].kind = "pc"
      /\ \A c \in Body : body'[c].items \subseteq body[c].items
  BY <1>1, <1>m, PlayerIs DEF NoLink, NoChar
<1>3. listed'[n] = listed[n]
  BY <1>1, <1>2, <1>m, ListedIs, ListedIsNext
<1>4. Apart'
  BY <1>1, <1>2, <1>3, <1>m, NothingMoved
<1> QED
  BY <1>2, <1>4, <1>m DEF Standing

\* A body left without a link still has its things.
LEMMA ReconnectApart ==
    ASSUME ItemInv, NEW n \in Name, Reconnect(n)
    PROVE  ItemInv'
<1>0. Settled /\ Alone(n)
  BY ReconnectSettles DEF ItemInv
<1>m. /\ GoldInv /\ GoldInv' /\ Apart
      /\ \A m \in Name : m # n => listed'[m] = listed[m]
      /\ Standing(n)' /\ Apart' => ItemInv'
  BY <1>0, MoveItems
<1>1. PICK b \in Body :
        /\ Own(n, b)
        /\ link' = [link EXCEPT ![n] = [NoLink EXCEPT !.con = "PLYNG", !.character = b]]
        /\ UNCHANGED <<body, saved, floor, seized, stale, lot>>
  BY <1>m, PlayerIs DEF Reconnect
<1>2. link'[n].con = "PLYNG" /\ link'[n].character = b /\ link'[n].original = Null
  BY <1>1, <1>m, PlayerIs DEF NoLink
<1>3. listed'[n] \subseteq listed[n]
  BY <1>2, <1>m, ListedIsNext
<1>4. Apart'
  BY <1>1, <1>3, <1>m, NothingMoved
<1> QED
  BY <1>1, <1>2, <1>4, <1>m DEF Standing, Own

\* What was in the record is carried; that the record goes on listing it does
\* no harm while its owner plays.
LEMMA EnterApart ==
    ASSUME ItemInv, NEW n \in Name, Enter(n)
    PROVE  ItemInv'
<1>0. Settled /\ Alone(n)
  BY EnterSettles DEF ItemInv
<1>m. /\ GoldInv /\ GoldInv' /\ Apart /\ Standing(n)
      /\ \A m \in Name : m # n => listed'[m] = listed[m]
      /\ Standing(n)' /\ Apart' => ItemInv'
  BY <1>0, MoveItems
<1> PICK c \in Body : c = link[n].character
  BY <1>m, PlayerIs DEF Enter
<1>1. /\ link[n].con = "SLCT" /\ link[n].original = Null
      /\ link' = [link EXCEPT ![n].con = "PLYNG"]
      /\ body' = [body EXCEPT ![c] = [@ EXCEPT !.place = "world",
                                               !.items = saved[n].items]]
      /\ UNCHANGED <<floor, seized, stale, lot>>
  BY <1>m, PlayerIs DEF Enter
<1>2. /\ link'[n].con = "PLYNG" /\ link'[n].character = c /\ link'[n].original = Null
      /\ body'[c].kind = body[c].kind /\ body'[c].place = "world"
      /\ \A b \in Body : body'[b].items = IF b = c THEN saved[n].items
                                          ELSE body[b].items
  BY <1>1, <1>m, PlayerIs DEF Link, Char
<1>3. listed[n] = saved[n].items /\ listed'[n] = {}
  BY <1>1, <1>2, <1>m, ListedIs, ListedIsNext
<1>4. Apart'
  BY <1>1, <1>2, <1>3, <1>m DEF Apart, Loose
<1>5. body[c].kind = "pc"
  BY <1>1, <1>m DEF Standing
<1> QED
  BY <1>2, <1>4, <1>5, <1>m DEF Standing

\* What a body that leaves carries falls on the floor, and its record is empty
\* or stale, or it is put in the record, over what that lists.
LEMMA PutAway ==
    ASSUME Apart, NEW n \in Name, NEW c \in Body,
           \A b \in Body : body'[b].items = IF b = c THEN {} ELSE body[b].items,
           \A m \in Name : m # n => listed'[m] = listed[m],
           \/ floor' = floor \cup body[c].items /\ listed'[n] \subseteq stale'
           \/ floor' = floor /\ listed'[n] \subseteq body[c].items,
           stale \subseteq stale', UNCHANGED <<seized, lot>>
    PROVE  Apart'
BY DEF Apart, Loose

\* do_quit empties the record that it leaves to be read.
LEMMA LeaveApart ==
    ASSUME ItemInv, NEW n \in Name, LeaveGame(n)
    PROVE  ItemInv'
<1>0. Settled /\ Alone(n)
  BY LeaveSettles DEF ItemInv
<1>m. /\ GoldInv /\ GoldInv' /\ Apart
      /\ \A m \in Name : m # n => listed'[m] = listed[m]
      /\ Standing(n)' /\ Apart' => ItemInv'
  BY <1>0, MoveItems
<1> PICK c \in Body : c = link[n].character
  BY <1>m, PlayerIs DEF LeaveGame, MayDeal
<1>1. /\ link[n].con = "PLYNG" /\ link[n].original = Null /\ body[c].kind = "pc"
      /\ link' = [link EXCEPT ![n].con = "SLCT"]
      /\ body' = [body EXCEPT ![c] = [@ EXCEPT !.place = "nowhere", !.items = {}]]
      /\ \/ /\ floor' = floor \cup body[c].items
            /\ saved' = [saved EXCEPT ![n] = [gold |-> body[c].gold, items |-> {}]]
         \/ /\ saved' = [saved EXCEPT ![n] = [gold |-> body[c].gold,
                                              items |-> body[c].items]]
            /\ UNCHANGED floor
      /\ UNCHANGED <<seized, stale, lot>>
  BY <1>m, PlayerIs DEF LeaveGame, MayDeal, ZeroRent
<1>2. /\ link'[n].con = "SLCT" /\ link'[n].character = c /\ link'[n].original = Null
      /\ body'[c].kind = "pc"
      /\ \A b \in Body : body'[b].items = IF b = c THEN {} ELSE body[b].items
  BY <1>1, <1>m, PlayerIs DEF Link, Char
<1>3. \/ floor' = floor \cup body[c].items /\ saved'[n].items = {}
      \/ floor' = floor /\ saved'[n].items = body[c].items
  BY <1>1, <1>m, PlayerIs
<1>4. listed'[n] = saved'[n].items
  BY <1>2, <1>m, ListedIsNext
<1>5. Apart'
  BY <1>1, <1>2, <1>3, <1>4, <1>m, PutAway
<1> QED
  BY <1>2, <1>5, <1>m DEF Standing

\* A force rent that is refused makes stale what it leaves in the record.
LEMMA ForceRentApart ==
    ASSUME ItemInv, NEW n \in Name, ForceRent(n)
    PROVE  ItemInv'
<1>0. Settled /\ Alone(n)
  BY ForceRentSettles DEF ItemInv
<1>m. /\ GoldInv /\ GoldInv' /\ Apart
      /\ \A m \in Name : m # n => listed'[m] = listed[m]
      /\ Standing(n)' /\ Apart' => ItemInv'
  BY <1>0, MoveItems
<1>1. PICK b \in Body, god \in BOOLEAN :
        /\ Linkdead(n, b) /\ \A m \in Name : link[m].original # b
        /\ body' = [body EXCEPT ![b] = [@ EXCEPT !.place = "nowhere", !.items = {}]]
        /\ \/ /\ saved' = [saved EXCEPT
                    ![n] = [gold |-> IF god THEN body[b].gold ELSE @.gold,
                            items |-> body[b].items]]
              /\ UNCHANGED <<floor, stale>>
           \/ /\ floor' = floor \cup body[b].items
              /\ stale' = stale \cup saved[n].items
              /\ saved' = [saved EXCEPT ![n].gold = IF god THEN body[b].gold ELSE @]
        /\ UNCHANGED <<link, seized, lot>>
  BY DEF ForceRent
<1>2. Own(n, b) /\ link[n].con = "none"
  <2>1. Own(n, b) /\ ~Driven(b)
    BY <1>1 DEF Linkdead, Own
  <2> QED
    BY <1>1, <1>m, <2>1, PlayerIs DEF Living, Driven
<1>3. /\ body'[b].place = "nowhere" /\ \A c \in Body : c # b => body'[c] = body[c]
      /\ \A c \in Body : body'[c].items = IF c = b THEN {} ELSE body[c].items
  BY <1>1, <1>m, PlayerIs DEF Char
<1>4. \A c \in Body : ~Own(n, c)'
  BY <1>2, <1>3, <1>m, PlayerIs DEF Living, Own
<1>5. listed'[n] = saved'[n].items
  BY <1>1, <1>2, <1>4, <1>m, ListedIsNext
<1>6. \/ floor' = floor \cup body[b].items /\ saved'[n].items \subseteq stale'
      \/ floor' = floor /\ saved'[n].items = body[b].items
  BY <1>1, <1>m, PlayerIs DEF File
<1>7. stale \subseteq stale'
  BY <1>1
<1>8. Apart'
  BY <1>1, <1>3, <1>5, <1>6, <1>7, <1>m, PutAway
<1> QED
  BY <1>1, <1>2, <1>8, <1>m, PlayerIs DEF Standing, NoLink

\* What is picked up was on the floor alone.
LEMMA GetApart ==
    ASSUME ItemInv, NEW n \in Name, NEW item \in Item, Get(n, item)
    PROVE  ItemInv'
<1>0. GoldInv /\ Apart
  BY DEF ItemInv
<1>s. GoldInv' /\ Stays
  BY <1>0, GetSettles DEF Settled
<1>l. \A m \in Name : listed'[m] = listed[m] /\ Standing(m)'
  BY <1>0, <1>s, StaysListed DEF ItemInv
<1> PICK c \in Body : c = link[n].character
  BY <1>0, PlayerIs DEF Get
<1>1. /\ item \in floor /\ floor' = floor \ {item}
      /\ body' = Hand(body, c, item) /\ UNCHANGED <<seized, stale, lot>>
  BY DEF Get
<1>2. /\ body'[c].items = body[c].items \cup {item}
      /\ \A b \in Body : b # c => body'[b].items = body[b].items
  BY <1>0, <1>1, PlayerIs, HandMoves
<1>3. \A b \in Body, x \in Item :
         x \in body'[b].items <=> x \in body[b].items \/ (b = c /\ x = item)
  BY <1>2
<1>4. item \notin stale => /\ \A b \in Body : item \notin body[b].items
                           /\ \A m \in Name : item \notin listed[m]
                           /\ item \notin seized /\ lot.item # item
  BY <1>0, <1>1 DEF Apart, Loose
<1>5. Apart'
  BY <1>0, <1>1, <1>3, <1>4, <1>l DEF Apart, Loose
<1> QED
  BY <1>5, <1>s, <1>l DEF ItemInv

\* One body takes over what another has.
LEMMA TakenOver ==
    ASSUME Apart, NEW from \in Body, NEW to \in Body, from # to,
           body'[from].items = {},
           body'[to].items \subseteq body[to].items \cup body[from].items,
           \A b \in Body \ {from, to} : body'[b].items = body[b].items,
           \A m \in Name : listed'[m] \subseteq listed[m],
           UNCHANGED <<floor, seized, stale>>, lot'.item = lot.item
    PROVE  Apart'
BY DEF Apart, Loose

\* What do_return moves.
LEMMA BackFromMoves ==
    ASSUME body \in [Body -> Char], NEW shape \in Body, NEW own \in Body, shape # own
    PROVE  /\ BackFrom(shape, own)[shape].items = {}
           /\ BackFrom(shape, own)[own].items = body[own].items \cup body[shape].items
           /\ \A b \in Body \ {shape, own} : BackFrom(shape, own)[b].items = body[b].items
BY DEF BackFrom, Char, NoChar

\* The shape takes the things over.
LEMMA PolySelfApart ==
    ASSUME ItemInv, NEW n \in Name, PolySelf(n)
    PROVE  ItemInv'
<1>0. Settled /\ Alone(n)
  BY PolySelfSettles DEF ItemInv
<1>m. /\ GoldInv /\ GoldInv' /\ Apart /\ Standing(n)
      /\ \A m \in Name : m # n => listed'[m] = listed[m]
      /\ Standing(n)' /\ Apart' => ItemInv'
  BY <1>0, MoveItems
<1> PICK c \in Body : c = link[n].character
  BY <1>m, PlayerIs DEF PolySelf, MayDeal
<1>1. PICK m \in Body :
        /\ body[m].name = Null
        /\ body' = [body EXCEPT ![m] = [body[c] EXCEPT !.kind = "poly"],
                                ![c] = [@ EXCEPT !.items = {}, !.place = "store"]]
        /\ link' = [link EXCEPT ![n] = [@ EXCEPT !.character = m, !.original = c]]
        /\ link[n].con = "PLYNG" /\ body[c].kind = "pc"
        /\ UNCHANGED <<saved, floor, seized, stale, lot>>
  BY DEF PolySelf, MayDeal
<1>2. m # c
  BY <1>1, <1>m, PlayerIs
<1>3. link'[n].con = "PLYNG" /\ link'[n].character = m /\ link'[n].original = c
  BY <1>1, <1>m, PlayerIs DEF Link
<1>4. /\ body'[c].items = {} /\ body'[m].items = body[c].items
      /\ \A b \in Body \ {c, m} : body'[b].items = body[b].items
      /\ body'[c].kind = "pc" /\ body'[m].place = body[c].place
  BY <1>1, <1>2, <1>m, PlayerIs DEF Char
<1>5. listed'[n] = listed[n]
  BY <1>1, <1>3, <1>m, ListedIs, ListedIsNext
<1>6. Apart'
  <2>1. \A k \in Name : listed'[k] \subseteq listed[k]
    BY <1>5, <1>m
  <2>2. UNCHANGED <<floor, seized, stale>> /\ lot'.item = lot.item
    BY <1>1
  <2> QED
    BY <1>2, <1>4, <1>m, <2>1, <2>2, TakenOver
<1>7. body[c].place # "nowhere"
  BY <1>1, <1>m DEF Standing
<1> QED
  BY <1>3, <1>4, <1>6, <1>7, <1>m DEF Standing

\* And the own body takes them back.
LEMMA ReturnApart ==
    ASSUME ItemInv, NEW n \in Name, Return(n)
    PROVE  ItemInv'
<1>0. Settled /\ Alone(n)
  BY ReturnSettles DEF ItemInv
<1>m. /\ GoldInv /\ GoldInv' /\ Apart /\ Standing(n)
      /\ \A m \in Name : m # n => listed'[m] = listed[m]
      /\ Standing(n)' /\ Apart' => ItemInv'
  BY <1>0, MoveItems
<1> PICK c \in Body, own \in Body : c = link[n].character /\ own = link[n].original
  BY <1>m, PlayerIs DEF Return
<1>1. /\ link[n].con = "PLYNG" /\ own # c /\ own # Null
      /\ link' = [link EXCEPT ![n] = [@ EXCEPT !.character = own, !.original = Null]]
      /\ body' = BackFrom(c, own) /\ lot' = Freed(c)
      /\ UNCHANGED <<saved, floor, seized, stale>>
  BY <1>m, PlayerIs DEF Return
<1>2. link'[n].con = "PLYNG" /\ link'[n].character = own /\ link'[n].original = Null
  BY <1>1, <1>m, PlayerIs DEF Link
<1>t. body \in [Body -> Char] /\ lot \in Lot
  BY <1>m, PlayerIs DEF GoldInv, IndInv, TypeOK
<1>3. /\ body'[c].items = {}
      /\ body'[own].items = body[own].items \cup body[c].items
      /\ \A b \in Body \ {c, own} : body'[b].items = body[b].items
  BY <1>1, <1>t, BackFromMoves
<1>4. body'[own].kind = body[own].kind /\ body'[own].place = body[c].place
  BY <1>1, <1>t, BackFromGold
<1>5. listed'[n] = listed[n]
  BY <1>1, <1>2, <1>m, ListedIs, ListedIsNext
<1>6. lot'.item = lot.item
  BY <1>1, <1>t, FreedKeepsItem
<1>7. Apart'
  BY <1>1, <1>3, <1>5, <1>6, <1>m, TakenOver
<1>8. body[own].kind = "pc" /\ body[c].place # "nowhere"
  BY <1>1, <1>m DEF Standing
<1> QED
  BY <1>2, <1>4, <1>7, <1>8, <1>m DEF Standing

\* The own body that close_socket leaves in a room keeps the record from being
\* read, also when the things stay with a shape that fights.
LEMMA LinkLostApart ==
    ASSUME ItemInv, NEW n \in Name, NEW refused \in BOOLEAN, LinkLost(n, refused)
    PROVE  ItemInv'
<1>0. Settled /\ Alone(n)
  BY LinkLostSettles DEF ItemInv
<1>m. /\ GoldInv /\ GoldInv' /\ Apart /\ Standing(n)
      /\ \A m \in Name : m # n => listed'[m] = listed[m]
      /\ Standing(n)' /\ Apart' => ItemInv'
  BY <1>0, MoveItems
<1> PICK c \in Body : c = link[n].character
  BY <1>m, PlayerIs DEF LinkLost
<1>1. /\ link[n].con \in {"SLCT", "PLYNG"} /\ body[c].name = n
      /\ link' = [link EXCEPT ![n] = NoLink]
      /\ UNCHANGED <<floor, seized, stale>>
  BY <1>m, PlayerIs DEF LinkLost, Link
<1>2. link'[n].con = "none" /\ link'[n].original = Null
  BY <1>1, <1>m, PlayerIs DEF NoLink
<1>3. Standing(n)'
  BY <1>2 DEF Standing
<1>t. body \in [Body -> Char] /\ lot \in Lot
  BY <1>m, PlayerIs DEF GoldInv, IndInv, TypeOK
<1>4. CASE link[n].con = "SLCT"
  <2>1. body' = [body EXCEPT ![c] = NoChar] /\ lot' = Freed(c) /\ saved' = saved
    BY <1>1, <1>4, <1>m, PlayerIs DEF LinkLost
  <2>2. \A b \in Body : body'[b].items \subseteq body[b].items
    BY <2>1, <1>t DEF NoChar
  <2>3. \A b \in Body : ~Own(n, b)'
    <3>1. body'[c] = NoChar /\ \A b \in Body : b # c => body'[b] = body[b]
      BY <2>1, <1>t
    <3> QED
      BY <1>4, <1>m, <3>1, PlayerIs DEF Living, Own, NoChar
  <2>4. listed'[n] = listed[n]
    BY <1>2, <1>4, <1>m, <2>1, <2>3, ListedIs, ListedIsNext
  <2>5. lot'.item = lot.item
    BY <2>1, <1>t, FreedKeepsItem
  <2>6. Apart'
    BY <1>1, <1>m, <2>2, <2>4, <2>5, NothingMoved
  <2> QED
    BY <2>6, <1>3, <1>m
<1>5. CASE link[n].con = "PLYNG" /\ link[n].original = Null
  <2>1. body' = body /\ lot' = lot
    BY <1>5 DEF LinkLost
  <2>2. Own(n, c)'
    BY <1>1, <1>5, <1>m, <2>1 DEF Standing, Own
  <2>3. listed'[n] \subseteq listed[n]
    BY <1>2, <1>m, <2>2, ListedIsNext
  <2>4. Apart'
    BY <1>1, <1>m, <2>1, <2>3, NothingMoved
  <2> QED
    BY <2>4, <1>3, <1>m
<1>6. CASE link[n].con = "PLYNG" /\ link[n].original # Null
  <2> PICK own \in Body : own = link[n].original
    BY <1>6, <1>m, PlayerIs
  <2>1. /\ own # c /\ body[own].name = n /\ body[own].kind = "pc"
        /\ body[own].place = "store" /\ body[c].place # "nowhere"
    BY <1>6, <1>m, PlayerIs DEF Standing, Living
  <2>2. \/ body' = BackFrom(c, own) /\ lot' = Freed(c)
        \/ body' = [body EXCEPT ![own].gold = body[c].gold] /\ lot' = lot
    BY <1>6, <1>m, PlayerIs DEF LinkLost
  <2>3. CASE body' = BackFrom(c, own) /\ lot' = Freed(c)
    <3>1. /\ body'[c].items = {}
          /\ body'[own].items = body[own].items \cup body[c].items
          /\ \A b \in Body \ {c, own} : body'[b].items = body[b].items
      BY <2>1, <2>3, <1>t, BackFromMoves
    <3>2. /\ body'[own].name = body[own].name /\ body'[own].kind = body[own].kind
          /\ body'[own].place = body[c].place
      BY <2>1, <2>3, <1>t, BackFromGold
    <3>3. Own(n, own)'
      BY <2>1, <3>2 DEF Own
    <3>4. \A m \in Name : listed'[m] \subseteq listed[m]
      BY <1>2, <1>m, <3>3, ListedIsNext
    <3>5. lot'.item = lot.item
      BY <2>3, <1>t, FreedKeepsItem
    <3>6. Apart'
      BY <1>1, <1>m, <2>1, <3>1, <3>4, <3>5, TakenOver
    <3> QED
      BY <3>6, <1>3, <1>m
  <2>4. CASE body' = [body EXCEPT ![own].gold = body[c].gold] /\ lot' = lot
    <3>1. /\ \A b \in Body : body'[b].items = body[b].items
          /\ body'[own].name = body[own].name /\ body'[own].kind = body[own].kind
          /\ body'[own].place = body[own].place
      BY <2>4, <1>t DEF Char
    <3>2. Own(n, own)'
      BY <2>1, <3>1 DEF Own
    <3>3. \A m \in Name : listed'[m] \subseteq listed[m]
      BY <1>2, <1>m, <3>2, ListedIsNext
    <3>4. Apart'
      BY <1>1, <1>m, <2>4, <3>1, <3>3, NothingMoved
    <3> QED
      BY <3>4, <1>3, <1>m
  <2> QED
    BY <2>2, <2>3, <2>4
<1> QED
  BY <1>1, <1>4, <1>5, <1>6

\* Every step moves items or loses them, or leaves a stale record.
LEMMA NextItems == ItemInv /\ [Next]_vars => ItemInv'
<1> SUFFICES ASSUME ItemInv, [Next]_vars PROVE ItemInv'
  OBVIOUS
<1>1. CASE AuctionUpdate \/ Stop
  BY <1>1, UpdateApart
<1>2. ASSUME NEW n \in Name, Dealing(n) PROVE ItemInv'
  BY <1>2, DealingApart
<1>3. ASSUME NEW n \in Name, Moving(n) PROVE ItemInv'
  BY <1>3, LoginApart, ReconnectApart, EnterApart, LeaveApart, ForceRentApart,
     PolySelfApart, ReturnApart, LinkLostApart, GetApart DEF Moving
<1>4. CASE UNCHANGED vars
  <2>1. GoldInv'
    BY <1>4, NextSettles DEF ItemInv
  <2>2. listed' = listed
    BY <1>4 DEF vars, listed, Listed, Linkdead, Driven
  <2> QED
    BY <1>4, <2>1, <2>2 DEF vars, ItemInv, Apart, Loose, Standing
<1> QED
  BY <1>1, <1>2, <1>3, <1>4 DEF Next

(* An item put up is in one place at most, through sales, refused or lost   *)
(* winners, shapes, renting and the confiscation of a lot, and comes back   *)
(* once with the login that reads its record, unless a refused force rent   *)
(* left that record behind.                                                 *)
THEOREM ItemsAlwaysOnce == Spec => []ItemsAreNotDuplicated
<1>1. Spec => []ItemInv
  BY InitItems, NextItems, PTL DEF Spec
<1> QED
  BY <1>1, ApartCounts, PTL DEF ItemInv
=============================================================================
