------------------------------ MODULE Sessions ------------------------------
(***************************************************************************)
(* Connections and the characters they drive: the descriptor list of       *)
(* comm.cpp, the login states of interpreter.cpp (the "nanny"), the        *)
(* character list, and the commands that move a player between bodies      *)
(* (polymorph, switch, return) or out of the game (quit, death, forced     *)
(* rent, link loss).  The server is one thread, so a handler is one        *)
(* action; what interleaves is the input of the players, the network and   *)
(* the clock.                                                              *)
(*                                                                         *)
(* Handlers call one another (con_pwdok closes another socket, closing a   *)
(* socket returns its player from a polymorph, which extracts a mobile),   *)
(* so each function of the code is an operator from a world to a world.    *)
(***************************************************************************)
EXTENDS FiniteSets, Lists

CONSTANTS
    Desc,           \* addresses new can return for a descriptor_data
    Body,           \* addresses malloc can return for a char_data
    Null,           \* the null pointer; also no name, no account
    Name,           \* names of player characters
    Known,          \* names that have a row in the toon table at start
    Account,        \* ids of registered accounts
    OwnerAtStart,   \* Known name -> account that owns it, or Null
    Gods,           \* names of immortals: they switch, snoop, force rent
    Mob,            \* bodies of ordinary mobiles standing in the world
    MaxConnects     \* MAX_CONNECTS

ASSUME NullAssumption == Null \notin Desc \cup Body \cup Name \cup Account
ASSUME NameAssumption == Known \subseteq Name /\ Gods \subseteq Name
ASSUME OwnerAssumption == OwnerAtStart \in [Known -> Account \cup {Null}]
ASSUME MobAssumption == Mob \subseteq Body /\ IsFiniteSet(Mob)
ASSUME ConnectsAssumption == MaxConnects \in Nat \ {0}

VARIABLES
    order,          \* descriptor_list, head first
    sock,           \* the descriptors
    people,         \* character_list, head first
    body,           \* the characters
    owner,          \* the toon table: name -> owner_id; absent if no row
    recreated,      \* history: names registered since the start
    contested       \* history: those of them another connection was creating too

vars == <<order, sock, people, body, owner, recreated, contested>>

\* Login states: ACCOUNT is CON_ACCOUNT_NAME/PWD, TOON is CON_ACCOUNT_TOON,
\* CREATE is everything from the choice of a race to CON_REGISTER, SLCT is the
\* menu with the screens before it (RMOTD, WMOTD) and the ones that return to
\* it (EXDSCR, PWDNEW, DELETE_ME), PLYNG includes the editors.
ConState == {"closed", "NME", "ACCOUNT", "TOON", "NMECNF", "CREATE", "PWDNRM",
             "SLCT", "PLYNG"}

Socket == [con : ConState,
           character : Body \cup {Null},    \* the body it drives
           original : Body \cup {Null},     \* its own one, when it left it
           account : Account \cup {Null}, auth : BOOLEAN,
           choosen : Name \cup {Null},
           snooping : Body \cup {Null}, snoopBy : Body \cup {Null}]

\* "poly" is a mobile with ACT_POLYSELF: the shape of a polymorphed player.
Char == [kind : {"free", "pc", "npc", "poly"}, name : Name \cup {Null},
         desc : Desc \cup {Null}]

NoSocket == [con |-> "closed", character |-> Null, original |-> Null,
             account |-> Null, auth |-> FALSE, choosen |-> Null,
             snooping |-> Null, snoopBy |-> Null]
NoChar == [kind |-> "free", name |-> Null, desc |-> Null]

\* The list s without x, wherever it is linked.
Without(s, x) ==
    IF x \notin ToSet(s) THEN s
    ELSE LET i == CHOOSE j \in DOMAIN s : s[j] = x
         IN  SubSeq(s, 1, i - 1) \o SubSeq(s, i + 1, Len(s))

World == [order |-> order, sock |-> sock, people |-> people, body |-> body]

Becomes(w) ==
    /\ order' = w.order
    /\ sock' = w.sock
    /\ people' = w.people
    /\ body' = w.body

\* The player behind a descriptor, whatever shape it wears.
Player(w, d) ==
    IF w.sock[d].original # Null THEN w.sock[d].original ELSE w.sock[d].character

NameOf(w, c) == IF c = Null THEN Null ELSE w.body[c].name
-----------------------------------------------------------------------------
(* Bodies *)

\* clear_char on fresh memory, driven by d.
MakeCharUncleared(w, d, b) ==              \* fault: no clear_char
    [w EXCEPT !.body[b].desc = d, !.sock[d].character = b]
MakeChar(w, d, b) ==
    [w EXCEPT !.body[b] = [kind |-> "pc", name |-> Null, desc |-> d],
              !.sock[d].character = b]

\* free_char: the descriptor that drives it, if any, loses its character.
FreeChar(w, c) ==
    LET d == w.body[c].desc
    IN  [w EXCEPT !.body[c] = NoChar,
                  !.sock = IF d = Null THEN @
                           ELSE [@ EXCEPT ![d].character = Null]]

\* "Forget snooping", when a socket closes or its character is extracted.
ForgetSnoopingOneWay(w, d) ==              \* fault: the other side stays
    [w EXCEPT !.sock[d].snooping = Null, !.sock[d].snoopBy = Null]
ForgetSnooping(w, d) ==
    LET victim == w.sock[d].snooping
        spy    == w.sock[d].snoopBy
        hushed == [k \in Desc |->
          [w.sock[k] EXCEPT
            !.snooping = IF k = d \/ (spy # Null /\ k = w.body[spy].desc)
                         THEN Null ELSE @,
            !.snoopBy = IF k = d \/ (victim # Null /\ k = w.body[victim].desc)
                        THEN Null ELSE @]]
    IN  [w EXCEPT !.sock = hushed]

\* "force the snooper to stop": its own do_snoop on itself.
StopSnooper(w, d) ==
    LET spy == w.sock[d].snoopBy
    IN  IF spy = Null THEN w
        ELSE [w EXCEPT !.sock[w.body[spy].desc].snooping = Null,
                       !.sock[d].snoopBy = Null]

\* The player of d leaves the shape it wears for its own body.
SwapBackHalf(w, d) ==                      \* fault: the shape keeps the link
    LET own == w.sock[d].original
    IN  [w EXCEPT !.sock[d].character = own, !.sock[d].original = Null,
                  !.body[own].desc = d]
SwapBack(w, d) ==
    LET shape == w.sock[d].character
        own   == w.sock[d].original
    IN  [w EXCEPT !.sock[d].character = own, !.sock[d].original = Null,
                  !.body[own].desc = d, !.body[shape].desc = Null]

\* A mobile leaves the world and its memory is freed.
DiscardListed(w, m) == FreeChar(w, m)      \* fault: it stays in the list
Discard(w, m) == FreeChar([w EXCEPT !.people = Without(@, m)], m)

\* do_return and force_return with a non-zero cmd.
DoReturn(w, d) ==
    LET shape == w.sock[d].character
        back  == SwapBack(StopSnooper(w, d), d)
    IN  IF w.body[shape].kind = "poly" THEN Discard(back, shape) ELSE back

\* extract_char_smarter of a mobile, a player may be inside.
ExtractMobile(w, m) ==
    LET d == w.body[m].desc
    IN  Discard(IF d = Null THEN w ELSE SwapBack(ForgetSnooping(w, d), d), m)

\* A player's body with a link leaves the world for the menu.
ToMenuStillPlaying(w, c, d) ==             \* fault: the state is kept
    [ForgetSnooping(w, d) EXCEPT !.body[c].desc = Null]
ToMenu(w, c, d) ==
    [ForgetSnooping(w, d) EXCEPT !.body[c].desc = Null, !.sock[d].con = "SLCT"]

\* extract_char_smarter of a player's own body.  When its player is away in
\* another shape it is called back first, but force_return ignores a switched
\* immortal (IS_PC of an ordinary mobile is false).  With a link the body is
\* kept for the menu; without one nobody points to it any more.
ExtractPlayer(w, c) ==
    LET away == {d \in Desc : w.sock[d].original = c
                              /\ w.body[w.sock[d].character].kind = "poly"}
        back == IF w.body[c].desc = Null /\ away # {}
                THEN LET d == CHOOSE k \in away : TRUE
                     IN  SwapBack(StopSnooper(w, d), d)
                ELSE w
        link == back.body[c].desc
        gone == [back EXCEPT !.people = Without(@, c)]
    IN  IF link = Null THEN gone ELSE ToMenu(gone, c, link)
-----------------------------------------------------------------------------
(* comm.cpp *)

\* close_socket.  refused: do_return answers "Non mentre combatti!", which it
\* does to a mobile's shape below IMMORTALE that is fighting.
CloseSocket(w, d, refused) ==
    LET quiet == ForgetSnooping(w, d)
        c     == w.sock[d].character
        playing ==
            IF w.body[c].kind = "pc" \/ refused THEN quiet ELSE DoReturn(quiet, d)
        left ==
            IF c = Null THEN quiet
            ELSE IF w.sock[d].con # "PLYNG" THEN FreeChar(quiet, c)
            ELSE [playing EXCEPT !.body[playing.sock[d].character].desc = Null]
    IN  [left EXCEPT !.order = Without(@, d), !.sock[d] = NoSocket]

\* close_login_only_descriptors: every descriptor without a character goes.
CloseLoginOnly(w) ==
    LET gone == {d \in Desc : w.sock[d].character = Null}
    IN  [w EXCEPT !.order = Staying(@, gone),
                  !.sock = [d \in Desc |-> IF d \in gone THEN NoSocket ELSE @[d]]]

\* new_descriptor: near the limit the descriptors still logging in are
\* dropped; at the limit the newcomer is turned away.
NewDescriptor(d) ==
    /\ sock[d].con = "closed"
    /\ LET w == IF Len(order) >= MaxConnects - 1 THEN CloseLoginOnly(World)
                ELSE World
       IN  IF Len(w.order) >= MaxConnects THEN Becomes(w)
           ELSE Becomes([w EXCEPT !.order = <<d>> \o @, !.sock[d].con = "NME"])
    /\ UNCHANGED <<owner, recreated, contested>>

\* Every way a connection ends from outside: a read, write or exception
\* failure, a wrong password, a login timeout, "0" or "q" in a menu.
LinkLost(d) ==
    /\ sock[d].con # "closed"
    /\ \E refused \in BOOLEAN : Becomes(CloseSocket(World, d, refused))
    /\ UNCHANGED <<owner, recreated, contested>>
-----------------------------------------------------------------------------
(* interpreter.cpp: the nanny *)

\* The memory con_nme and con_pwdok use: fresh, or the character a refused
\* login left on the descriptor.
Memory(d) ==
    IF sock[d].character = Null THEN {b \in Body : body[b].kind = "free"}
    ELSE {sock[d].character}

Named(w, d, b, n) ==
    LET made == IF w.sock[d].character = Null THEN MakeChar(w, d, b) ELSE w
    IN  [made EXCEPT !.body[b].name = n]

\* Back to the choice of a character: by list if the account is logged in.
Choose(w, d) ==
    [w EXCEPT !.sock[d].con = IF w.sock[d].auth THEN "TOON" ELSE "NME"]

\* The descriptors con_pwdok's first scan finds to have this player already.
DuplicatesNone(w, d) == {}                 \* fault: nobody is found
Duplicates(w, d) ==
    {i \in DOMAIN w.order :
        LET k == w.order[i]
        IN  /\ w.sock[k].character \notin {Null, w.sock[d].character}
            /\ NameOf(w, Player(w, k)) = NameOf(w, w.sock[d].character)}

\* Its second scan: the body of n waits in the world without a link.
LinkdeadMissed(w, c, n) == FALSE           \* fault: nobody is recognised
Linkdead(w, c, n) ==
    /\ w.body[c].kind = "pc"
    /\ w.body[c].name = n
    /\ w.body[c].desc = Null

\* con_pwdok once the character of d is loaded.  A descriptor that has the
\* same player is closed (the last one found); then the character list is
\* searched for the player's own body without a link, which d takes over, or
\* for a character of the same account, which refuses d.
ConPwdok(w, d, refused) ==
    LET n    == NameOf(w, w.sock[d].character)
        dup  == Duplicates(w, d)
        v    == IF dup = {} THEN w
                ELSE CloseSocket(w, w.order[Max(dup)], refused)
        multiplay(c) == /\ dup = {}
                        /\ v.body[c].desc # Null
                        /\ v.sock[v.body[c].desc].account = v.sock[d].account
                        /\ v.sock[d].account # Null
        hits == {i \in DOMAIN v.people :
                    Linkdead(v, v.people[i], n) \/ multiplay(v.people[i])}
        c    == v.people[Min(hits)]
    IN  IF hits = {} THEN [v EXCEPT !.sock[d].con = "SLCT"]
        ELSE IF Linkdead(v, c, n)
        THEN [FreeChar(v, v.sock[d].character) EXCEPT
                !.body[c].desc = d,
                !.sock[d] = [@ EXCEPT !.character = c, !.con = "PLYNG"]]
        ELSE Choose(v, d)

\* Loads n for d and goes on with con_pwdok; a name without a row cannot be
\* loaded and the socket is closed.
LoadAndEnter(d, n) ==
    \E b \in Memory(d), refused \in BOOLEAN :
        Becomes(IF n \notin DOMAIN owner THEN CloseSocket(World, d, FALSE)
                ELSE ConPwdok([Named(World, d, b, n) EXCEPT
                                 !.sock[d].choosen = n], d, refused))

\* con_nme with an e-mail or an account number.
ConNmeAccount(d, a) ==
    /\ sock[d].con = "NME"
    /\ sock' = [sock EXCEPT ![d] = [@ EXCEPT !.con = "ACCOUNT", !.account = a]]
    /\ UNCHANGED <<order, people, body, owner, recreated, contested>>

\* con_account_pwd: the password is right.
ConAccountPwd(d) ==
    /\ sock[d].con = "ACCOUNT"
    /\ sock' = [sock EXCEPT ![d] = [@ EXCEPT !.con = "TOON", !.auth = TRUE]]
    /\ UNCHANGED <<order, people, body, owner, recreated, contested>>

\* con_account_pwd: "b", after a wrong password (tried) or at once; an id that
\* was typed stays, one that an e-mail stands for is known only once tried.
ConAccountBack(d) ==
    /\ sock[d].con = "ACCOUNT"
    /\ \E tried, byId \in BOOLEAN :
        sock' = [sock EXCEPT ![d].con = "NME",
                             ![d].auth = @ /\ ~tried,
                             ![d].account = IF tried \/ byId THEN @ ELSE Null]
    /\ UNCHANGED <<order, people, body, owner, recreated, contested>>

\* con_account_toon: a character of the list, or "0" for another name.
ConAccountToon(d) ==
    /\ sock[d].con = "TOON"
    /\ \/ \E n \in DOMAIN owner :
            /\ owner[n] = sock[d].account
            /\ LoadAndEnter(d, n)
       \/ Becomes([World EXCEPT !.sock[d].con = "NME"])
    /\ UNCHANGED <<owner, recreated, contested>>

\* con_nme with the name of a character that has a row.  One that belongs to
\* another account is refused and nothing changes.
ConNmeKnown(d, n) ==
    /\ sock[d].con = "NME"
    /\ n \in DOMAIN owner
    /\ \/ /\ owner[n] = Null
          /\ Becomes([World EXCEPT !.sock[d] =
                [@ EXCEPT !.con = "PWDNRM", !.choosen = n]])
       \/ /\ owner[n] # Null
          /\ owner[n] = sock[d].account
          /\ LoadAndEnter(d, n)
    /\ UNCHANGED <<owner, recreated, contested>>

\* con_nme with a name nobody has: a character is made for it.
ConNmeUnknown(d, n) ==
    /\ sock[d].con = "NME"
    /\ n \notin DOMAIN owner
    /\ \E b \in Memory(d) :
        Becomes([Named(World, d, b, n) EXCEPT !.sock[d].con = "NMECNF",
                                              !.sock[d].choosen = n])
    /\ UNCHANGED <<owner, recreated, contested>>

ConNmecnf(d) ==
    /\ sock[d].con = "NMECNF"
    /\ \/ Becomes([World EXCEPT !.sock[d].con = "CREATE"])
       \/ Becomes([World EXCEPT !.sock[d].con = "NME",
                                !.body[sock[d].character].name = Null])
    /\ UNCHANGED <<owner, recreated, contested>>

\* con_pwdnrm with the right password and con_register of an old character,
\* which joins the account that is logged in.
ConPwdnrm(d) ==
    LET n == sock[d].choosen
    IN  /\ sock[d].con = "PWDNRM"
        /\ owner' = IF sock[d].auth /\ n \in DOMAIN owner
                    THEN [owner EXCEPT ![n] = sock[d].account] ELSE owner
        /\ LoadAndEnter(d, n)
        /\ UNCHANGED <<recreated, contested>>

\* The other connections that have a character of this name.
Rivals(d, n) == {e \in Desc \ {d} : NameOf(World, Player(World, e)) = n}

\* con_register of a new character: the row is inserted, or the insertion of a
\* name that got a row in the meantime fails and the socket is closed.
ConRegister(d) ==
    LET n == NameOf(World, sock[d].character)
    IN  /\ sock[d].con = "CREATE"
        /\ IF n \in DOMAIN owner
           THEN /\ Becomes(CloseSocket(World, d, FALSE))
                /\ UNCHANGED <<owner, recreated, contested>>
           ELSE /\ owner' = [m \in DOMAIN owner \cup {n} |->
                    IF m # n THEN owner[m]
                    ELSE IF sock[d].auth THEN sock[d].account ELSE Null]
                /\ recreated' = recreated \cup {n}
                /\ contested' = contested \cup {m \in {n} : Rivals(d, m) # {}}
                /\ \E refused \in BOOLEAN : Becomes(ConPwdok(World, d, refused))

\* con_slct "1": into the world, if the toon still exists.  A body that came
\* back to the menu gets its link again first.
ConSlctEnter(d) ==
    LET c == sock[d].character
        w == [World EXCEPT !.body[c].desc = d]
    IN  /\ sock[d].con = "SLCT"
        /\ c # Null
        /\ Becomes(IF body[c].name \in DOMAIN owner
                   THEN [w EXCEPT !.people = <<c>> \o @, !.sock[d].con = "PLYNG"]
                   ELSE Choose(FreeChar(w, c), d))
        /\ UNCHANGED <<owner, recreated, contested>>

\* con_slct "5": another character.
ConSlctChange(d) ==
    /\ sock[d].con = "SLCT"
    /\ Becomes(Choose([FreeChar(World, sock[d].character) EXCEPT
                         !.sock[d].character = Null], d))
    /\ UNCHANGED <<owner, recreated, contested>>

\* con_delete_me, confirmed: the row goes, then the character.
ConDeleteMe(d) ==
    LET n == NameOf(World, sock[d].character)
        w == [FreeChar(World, sock[d].character) EXCEPT !.sock[d].character = Null]
    IN  /\ sock[d].con = "SLCT"
        /\ owner' = [m \in DOMAIN owner \ {n} |-> owner[m]]
        /\ Becomes(IF sock[d].account # Null
                   THEN [w EXCEPT !.sock[d].con = "TOON"]
                   ELSE CloseSocket(w, d, FALSE))
        /\ UNCHANGED <<recreated, contested>>
-----------------------------------------------------------------------------
(* Commands and events that move players between bodies or out of the game *)

Playing(d) == sock[d].con = "PLYNG"

\* do_quit, death, rent at an inn: the body goes back to the menu.
LeaveGame(d) ==
    LET c == sock[d].character
    IN  /\ Playing(d)
        /\ body[c].kind = "pc"
        /\ c \in ToSet(people)
        /\ Becomes(ExtractPlayer(World, c))
        /\ UNCHANGED <<owner, recreated, contested>>

\* A body without a link leaves: check_idling, or an immortal's force rent,
\* which also takes the bodies of players who are away in another shape.
ForceRent(c) ==
    /\ body[c].kind = "pc"
    /\ body[c].desc = Null
    /\ c \in ToSet(people)
    /\ Gods # {} \/ \A d \in Desc : sock[d].original # c
    /\ Becomes(ExtractPlayer(World, c))
    /\ UNCHANGED <<owner, recreated, contested>>

\* spell_poly_self: the caster's link and name go to a new mobile.
PolySelf(d, m) ==
    LET c == sock[d].character
    IN  /\ Playing(d)
        /\ body[c].kind = "pc"
        /\ sock[d].snooping = Null
        /\ body[m].kind = "free"
        /\ Becomes([StopSnooper(World, d) EXCEPT
                        !.people = <<m>> \o @,
                        !.body[m] = [kind |-> "poly", name |-> body[c].name,
                                     desc |-> d],
                        !.body[c].desc = Null,
                        !.sock[d].character = m,
                        !.sock[d].original = c])
        /\ UNCHANGED <<owner, recreated, contested>>

DoSwitchOccupied(d, m) ==                  \* fault: the body may be in use
    LET c == sock[d].character
    IN  /\ Playing(d)
        /\ body[c].kind = "pc" /\ body[c].name \in Gods
        /\ sock[d].snooping = Null /\ sock[d].snoopBy = Null
        /\ body[m].kind \in {"npc", "poly"}
        /\ Becomes([World EXCEPT !.sock[d].character = m, !.sock[d].original = c,
                                 !.body[m].desc = d, !.body[c].desc = Null])
        /\ UNCHANGED <<owner, recreated, contested>>

\* do_switch: an immortal enters a mobile nobody is in.
DoSwitch(d, m) ==
    LET c == sock[d].character
    IN  /\ Playing(d)
        /\ body[c].kind = "pc" /\ body[c].name \in Gods
        /\ sock[d].snooping = Null /\ sock[d].snoopBy = Null
        /\ body[m].kind \in {"npc", "poly"} /\ body[m].desc = Null
        /\ Becomes([World EXCEPT !.sock[d].character = m, !.sock[d].original = c,
                                 !.body[m].desc = d, !.body[c].desc = Null])
        /\ UNCHANGED <<owner, recreated, contested>>

\* The return command, the end of the spell, the pull into the void.
Return(d) ==
    /\ Playing(d)
    /\ sock[d].original # Null
    /\ Becomes(DoReturn(World, d))
    /\ UNCHANGED <<owner, recreated, contested>>

\* die() of a polymorphed player: its own body takes the death.
PolyDies(d) ==
    /\ Playing(d)
    /\ sock[d].original # Null
    /\ body[sock[d].character].kind = "poly"
    /\ Becomes(ExtractPlayer(ExtractMobile(World, sock[d].character),
                             sock[d].original))
    /\ UNCHANGED <<owner, recreated, contested>>

\* A mobile dies or is purged; only an immortal purges a living polymorph.
MobileGoes(m) ==
    /\ \/ body[m].kind = "npc"
       \/ body[m].kind = "poly" /\ (body[m].desc = Null \/ Gods # {})
    /\ Becomes(ExtractMobile(World, m))
    /\ UNCHANGED <<owner, recreated, contested>>

\* do_snoop: on somebody of a lower level that nobody snoops yet, or on
\* oneself to stop.
DoSnoop(d, v) ==
    LET c == sock[d].character
        old == sock[d].snooping
        free == IF old = Null THEN World
                ELSE [World EXCEPT !.sock[body[old].desc].snoopBy = Null]
    IN  /\ Playing(d)
        /\ body[c].kind = "pc" /\ body[c].name \in Gods
        /\ v \in ToSet(people)
        /\ body[v].desc # Null
        /\ \/ /\ v = c
              /\ Becomes([free EXCEPT !.sock[d].snooping = Null])
           \/ /\ sock[body[v].desc].snoopBy = Null
              /\ body[v].kind # "pc" \/ body[v].name \notin Gods
              /\ Becomes([free EXCEPT !.sock[d].snooping = v,
                                      !.sock[body[v].desc].snoopBy = c])
        /\ UNCHANGED <<owner, recreated, contested>>
-----------------------------------------------------------------------------
Init ==
    /\ order = << >>
    /\ sock = [d \in Desc |-> NoSocket]
    /\ body = [b \in Body |-> IF b \in Mob
                              THEN [kind |-> "npc", name |-> Null, desc |-> Null]
                              ELSE NoChar]
    /\ people \in {s \in [1 .. Cardinality(Mob) -> Mob] : ToSet(s) = Mob}
    /\ owner = OwnerAtStart
    /\ recreated = {}
    /\ contested = {}

Nanny(d) ==
    \/ \E a \in Account : ConNmeAccount(d, a)
    \/ ConAccountPwd(d)
    \/ ConAccountBack(d)
    \/ ConAccountToon(d)
    \/ \E n \in Name : ConNmeKnown(d, n) \/ ConNmeUnknown(d, n)
    \/ ConNmecnf(d)
    \/ ConPwdnrm(d)
    \/ ConRegister(d)
    \/ ConSlctEnter(d)
    \/ ConSlctChange(d)
    \/ ConDeleteMe(d)

Command(d) ==
    \/ LeaveGame(d)
    \/ Return(d)
    \/ PolyDies(d)
    \/ \E b \in Body : PolySelf(d, b) \/ DoSwitch(d, b) \/ DoSnoop(d, b)

Next ==
    \/ \E d \in Desc : NewDescriptor(d) \/ LinkLost(d) \/ Nanny(d) \/ Command(d)
    \/ \E b \in Body : ForceRent(b) \/ MobileGoes(b)

Spec == Init /\ [][Next]_vars
-----------------------------------------------------------------------------
(* Properties *)

Live(d) == d \in ToSet(order)

\* Two connections may create the same new name: con_nme looks for it and
\* con_register takes it many inputs later, from one of them.  The others keep a
\* character of that name; con_pwdok then closes only the last of them it finds,
\* and a later login can take over a body another connection still points to.
\* What follows holds until a name is registered that others are creating too.
Undisputed == contested = {}

TypeOK == Undisputed =>
    /\ order \in Seq(Desc)
    /\ sock \in [Desc -> Socket]
    /\ people \in Seq(Body)
    /\ body \in [Body -> Char]
    /\ owner \in [DOMAIN owner -> Account \cup {Null}]
    /\ DOMAIN owner \subseteq Name
    /\ recreated \subseteq Name
    /\ \A b \in Body : body[b].kind = "free" => body[b] = NoChar

\* The pointers of descriptors and characters agree and none dangles: what a
\* descriptor drives is allocated and points back (a body that came back to
\* the menu does not, extract_char_smarter), and what a character's desc names
\* is a live descriptor that drives it.  Closing, extracting, freeing and
\* swapping each write only one side of these pairs.
LinksAgree == Undisputed =>
    /\ \A d \in Desc :
        LET c == sock[d].character
            o == sock[d].original
        IN  /\ Live(d) <=> sock[d].con # "closed"
            /\ c # Null =>
                /\ body[c].kind # "free"
                /\ body[c].desc = d \/ (sock[d].con = "SLCT" /\ body[c].desc = Null)
            /\ o # Null => /\ Playing(d)
                           /\ body[o].kind = "pc" /\ body[o].desc = Null
                           /\ body[c].kind \in {"npc", "poly"}
            /\ sock[d].con \in {"SLCT", "PLYNG", "CREATE", "NMECNF"} => c # Null
    /\ \A b \in Body : body[b].desc # Null => sock[body[b].desc].character = b

\* No body is driven, or waited for, from two connections.
OneDriver == Undisputed =>
    \A d, e \in Desc : d # e =>
        {sock[d].character, sock[d].original} \cap
            {sock[e].character, sock[e].original} \subseteq {Null}

\* Both lists hold what is in them once; nothing freed stays in the character
\* list (its neighbours' next pointers would run through freed memory), and
\* nobody whose connection is still in the login states is in it.
ListsSound == Undisputed =>
    /\ IsInjective(order)
    /\ IsInjective(people)
    /\ \A b \in ToSet(people) :
        /\ body[b].kind # "free"
        /\ body[b].desc # Null => Playing(body[b].desc)

\* Who plays is in the world: extract_char asserts that the character it is
\* given is in the character list (handler.cpp).
PlayersAreInTheWorld == Undisputed =>
    \A d \in Desc : Playing(d) => Player(World, d) \in ToSet(people)

\* A snooper and its victim point at each other, so that clearing one side
\* through the other's descriptor, as close_socket does without a test, never
\* follows a null pointer.
SnoopIsMutual ==
    \A d \in Desc :
        /\ LET v == sock[d].snooping
           IN  v # Null => /\ body[v].desc # Null
                           /\ sock[body[v].desc].snoopBy = sock[d].character
        /\ LET c == sock[d].snoopBy
           IN  c # Null => /\ body[c].desc # Null
                           /\ sock[body[c].desc].snooping = sock[d].character

\* A character that has existed since the start is never twice in the game or
\* on the way into it: the second login takes over or replaces the first
\* (con_pwdok), however link losses, polymorphs and menus interleave.
Bearers(n) == {b \in Body : /\ body[b].kind = "pc" /\ body[b].name = n
                            /\ \/ b \in ToSet(people)
                               \/ \E d \in Desc : sock[d].con = "SLCT"
                                                  /\ sock[d].character = b}
OneBodyPerName ==
    \A n \in DOMAIN owner \ recreated : Cardinality(Bearers(n)) <= 1

\* A polymorphed shape without a link is left behind by nobody: when the link
\* is lost close_socket returns the player to its own body first.
NoShapeLeftBehind ==
    \A b \in ToSet(people) : body[b].kind = "poly" => body[b].desc # Null

\* A living link is not stolen: a body passes to another connection only when
\* its own has closed, in the same step at the latest.
LinkIsNotStolen ==
    [][\A b \in Body :
        LET d == body[b].desc
        IN  d # Null /\ body'[b].desc \notin {d, Null} =>
                sock'[d].con = "closed" \/ body[b].name # body'[b].name]_vars

\* Per character, all of this implements the abstract presence of a player.
WhereIs(n) ==
    IF n \notin DOMAIN owner \/ n \in recreated THEN "out"
    ELSE IF \E d \in Desc : Playing(d) /\ NameOf(World, Player(World, d)) = n
    THEN "playing"
    ELSE IF \E b \in ToSet(people) : Linkdead(World, b, n) THEN "linkdead"
    ELSE IF Bearers(n) # {} THEN "menu"
    ELSE "out"
Presences == INSTANCE Presence WITH Name <- Known,
                                    where <- [n \in Known |-> WhereIs(n)]
ImplementsPresence == Presences!PSpec
=============================================================================
