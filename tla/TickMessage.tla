---------------------------- MODULE TickMessage ----------------------------
(***************************************************************************)
(* How a tick's messages are built from the game, and what the browser     *)
(* reads from them.  A message has no tags: every section is announced by  *)
(* a count, and sections at the end may be missing.  The server counts     *)
(* first, allocates an AppBuffer of the size the count asks for, and walks *)
(* through the same data once more to fill it; with more than one thread   *)
(* the handlers of the connections run between the two.                    *)
(*                                                                         *)
(* A message is a sequence of items (a header, a count, a rock, a ship, a  *)
(* bullet) of known sizes.  A pass over the data is one step: a handler    *)
(* that runs in the middle of one is the data race of WebsockTx.           *)
(***************************************************************************)
EXTENDS Naturals, Sequences, FiniteSets

CONSTANTS
    MaxSessions,   \* bound: connections accepted in a behaviour
    Threads,       \* threads running the io_context (argv[4])
    MagSize,       \* GUN_MAG_SIZE
    CountRange,    \* how many numbers a count can be: 2^16, as it is cast to uint16_t
    MaxRocks       \* bound: rocks in the field

ASSUME ConstantsAssumption ==
    /\ MaxSessions \in Nat \ {0}
    /\ Threads \in Nat \ {0}
    /\ MagSize \in Nat
    /\ CountRange \in Nat \ {0}
    /\ MaxRocks \in Nat

VARIABLES
    status,    \* the session: not accepted, in g_sessions, with a player, erased
    rocks,     \* length of RockField::m_rocks
    bullets,   \* length of Gun::m_bullets of the session's player
    tick,      \* the timer handler: which loop, at which session, which step
    count,     \* numShips, totalBullets or the Gun's size: what was counted last
    buf,       \* the AppBuffer being filled: m_length, m_writeOffset, contents
    shown,     \* history: what the passes over the game found
    raced,     \* history: what handlers changed between its count and its fill
    fault      \* undefined behaviour that was reached

vars == <<status, rocks, bullets, tick, count, buf, shown, raced, fault>>

Ids == 1 .. MaxSessions
Statuses == {"absent", "connected", "playing", "closed"}

Idle == [loop |-> "none", at |-> 1, step |-> "begin"]
Steps == {"begin", "fillRocks", "countShips", "fillShips", "fillBullets", "fillGun", "commit"}
Ticks == [loop : {"none", "universe", "player"}, at : 1 .. MaxSessions + 1, step : Steps]

Parts == {"rocks", "ships", "bullets"}
InMap(c) == status[c] \in {"connected", "playing"}
Nothing == [part \in Parts |-> <<>>]

-----------------------------------------------------------------------------
\* AppBuffer

Header == [kind |-> "header"]
Padding == [kind |-> "padding"]
CountOf(n) == [kind |-> "count", n |-> n % CountRange]
Rock(i) == [kind |-> "rocks", id |-> i]
ShipOf(c) == [kind |-> "ships", id |-> c]
BulletOf(c, i) == [kind |-> "bullets", id |-> c, nr |-> i]

\* AppBuffer(length).
NewBuffer(length) == [room |-> length, written |-> 0, items |-> <<>>]

\* The set_ functions, for items of "size" bytes each: nothing looks at the room.
Put(b, items, size) ==
    [b EXCEPT !.written = @ + size * Len(items), !.items = @ \o items]

\* Mutant: only the new part is allocated.
GrowForgetful(b, more) == [b EXCEPT !.room = more]

\* AppBuffer(ab, moreRoom): what was written, and room for more.
Grow(b, more) == [b EXCEPT !.room = b.written + more]

Overrun(b) == b.written > b.room

-----------------------------------------------------------------------------
\* The browser.

\* A section at position "at": nothing when the message ends there, otherwise a
\* count and as many items of the kind.  "ok" is FALSE where the browser would
\* take one kind of item for another or read beyond the end.
Section(items, at, kind) ==
    IF at = Len(items) + 1
    THEN [ok |-> TRUE, got |-> <<>>, next |-> at]
    ELSE IF items[at].kind # "count" \/ at + items[at].n > Len(items)
    THEN [ok |-> FALSE, got |-> <<>>, next |-> Len(items) + 1]
    ELSE LET got == SubSeq(items, at + 1, at + items[at].n)
         IN  [ok |-> \A i \in DOMAIN got : got[i].kind = kind,
              got |-> got, next |-> at + items[at].n + 1]

\* OnUniverseTickMessage: rocks, then ships, then bullets.
ReadUniverse(items) ==
    LET r == Section(items, 2, "rocks")
        s == Section(items, r.next, "ships")
        b == Section(items, s.next, "bullets")
    IN  [ok |-> r.ok /\ s.ok /\ b.ok,
         got |-> [part \in Parts |-> CASE part = "rocks" -> r.got
                                       [] part = "ships" -> s.got
                                       [] part = "bullets" -> b.got]]

\* OnPlayerTickMessage: the header, the browser's own ship, its bullets.
ReadPlayer(items) ==
    LET b == Section(items, 3, "bullets")
    IN  [ok |-> b.ok /\ items[2].kind = "ships",
         got |-> [part \in Parts |-> CASE part = "rocks" -> <<>>
                                       [] part = "ships" -> <<items[2]>>
                                       [] part = "bullets" -> b.got]]

ClientReads ==
    IF tick.loop = "universe" THEN ReadUniverse(buf.items) ELSE ReadPlayer(buf.items)

-----------------------------------------------------------------------------

Init ==
    /\ status = [c \in Ids |-> "absent"]
    /\ rocks = 0
    /\ bullets = [c \in Ids |-> 0]
    /\ tick = Idle
    /\ count = 0
    /\ buf = NewBuffer(0)
    /\ shown = Nothing
    /\ raced = {}
    /\ fault = "none"

\* A handler other than the timer's gets a thread: with one thread, only
\* between two ticks.
CanRun == fault = "none" /\ (tick.loop = "none" \/ Threads > 1)

\* What was counted for the message but has yet to be filled in: the rocks, whose
\* ships, whose bullets.
Counted ==
    CASE tick.step = "fillRocks" -> {<<"rocks", 0>>}
      [] tick.step = "fillShips" -> {"ships"} \X (Ids \ {tick.at})
      [] tick.step = "fillBullets" -> {"bullets"} \X (Ids \ {tick.at})
      [] tick.step = "fillGun" /\ count > 0 -> {<<"bullets", tick.at>>}
      [] OTHER -> {}

Changes(what) == raced' = raced \cup (what \cap Counted)

\* on_accept: the session is registered in g_sessions under the next id.
Accept(c) ==
    /\ CanRun
    /\ status[c] = "absent"
    /\ \A d \in Ids : d < c => status[d] # "absent"
    /\ status' = [status EXCEPT ![c] = "connected"]
    /\ UNCHANGED <<rocks, bullets, tick, count, buf, shown, raced, fault>>

\* HandleNewSession: the session gets a player and a ship.  (The browser registers
\* once, when the connection opens.)
Register(c) ==
    /\ CanRun
    /\ status[c] = "connected"
    /\ status' = [status EXCEPT ![c] = "playing"]
    /\ Changes({<<"ships", c>>})
    /\ UNCHANGED <<rocks, bullets, tick, count, buf, shown, fault>>

\* The entry of the map the timer's loop is at.
LoopAt(c) ==
    /\ tick.loop # "none"
    /\ tick.at <= c
    /\ InMap(c)
    /\ \A d \in tick.at .. c - 1 : ~InMap(d)

\* OnClose: the session leaves g_sessions.  The timer's loop over the map cannot
\* go on from an entry that is erased.
Close(c) ==
    /\ CanRun
    /\ InMap(c)
    /\ status' = [status EXCEPT ![c] = "closed"]
    /\ Changes(IF status[c] = "connected" THEN {}
               ELSE {<<"ships", c>>} \cup (IF bullets[c] > 0 THEN {<<"bullets", c>>} ELSE {}))
    /\ fault' = IF LoopAt(c) THEN "iteratorLost" ELSE fault
    /\ UNCHANGED <<rocks, bullets, tick, count, buf, shown>>

\* Mutant: the magazine is not looked at.
FireAlways(n) == n + 1

\* Gun::Fire on a list of n bullets.
Fired(n) == IF n = MagSize THEN n ELSE n + 1

\* HandleKeyEvent with the space bar.
FireKey(c) ==
    /\ CanRun
    /\ status[c] = "playing"
    /\ bullets' = [bullets EXCEPT ![c] = Fired(@)]
    /\ Changes(IF Fired(bullets[c]) = bullets[c] THEN {} ELSE {<<"bullets", c>>})
    /\ UNCHANGED <<status, rocks, tick, count, buf, shown, fault>>

\* HandleClickEvent: LaunchOne.
Click(c) ==
    /\ CanRun
    /\ status[c] = "playing"
    /\ rocks < MaxRocks
    /\ rocks' = rocks + 1
    /\ Changes({<<"rocks", 0>>})
    /\ UNCHANGED <<status, bullets, tick, count, buf, shown, fault>>

-----------------------------------------------------------------------------
\* The timer handler.

\* Universe::TickEvent up to its loop.  Collisions are the matter of Asteroids:
\* here they leave any number of rocks, and of each player's bullets any part.
StartTick ==
    /\ fault = "none"
    /\ tick.loop = "none"
    /\ tick' = [Idle EXCEPT !.loop = "universe"]
    /\ rocks' \in 0 .. MaxRocks
    /\ bullets' \in {b \in [Ids -> 0 .. MagSize] : \A c \in Ids : b[c] <= bullets[c]}
    /\ UNCHANGED <<status, count, buf, shown, raced, fault>>

At(loop, step) == fault = "none" /\ tick.loop = loop /\ tick.step = step
Goto(step) == tick' = [tick EXCEPT !.step = step]

\* A session that is not there, or has no player yet.
SkipSession ==
    /\ fault = "none"
    /\ tick.loop # "none"
    /\ tick.step = "begin"
    /\ tick.at \in Ids
    /\ status[tick.at] # "playing"
    /\ tick' = [tick EXCEPT !.at = @ + 1]
    /\ UNCHANGED <<status, rocks, bullets, count, buf, shown, raced, fault>>

\* PerSessionTickEvent: the header, and the number of rocks.
CountRocks ==
    /\ At("universe", "begin")
    /\ tick.at \in Ids
    /\ status[tick.at] = "playing"
    /\ buf' = Put(Grow(Put(NewBuffer(14), <<Header>>, 14), 2 + 6 * rocks),
                  <<CountOf(rocks)>>, 2)
    /\ shown' = Nothing
    /\ raced' = {}
    /\ Goto("fillRocks")
    /\ UNCHANGED <<status, rocks, bullets, count, fault>>

\* A section has been filled in: beyond the end of the buffer nothing is defined.
Filled(b) ==
    /\ buf' = b
    /\ fault' = IF Overrun(b) THEN "overrun" ELSE fault

FillRocks ==
    LET items == [i \in 1 .. rocks |-> Rock(i)] IN
    /\ At("universe", "fillRocks")
    /\ Filled(Put(buf, items, 6))
    /\ shown' = [shown EXCEPT !["rocks"] = items]
    /\ Goto("countShips")
    /\ UNCHANGED <<status, rocks, bullets, count, raced>>

\* Mutant: sessions without a player are counted, too.
CountedShipsAll == {c \in Ids \ {tick.at} : InMap(c)}

\* The sessions the message tells of: the others, those that have a player.
Others == {c \in Ids \ {tick.at} : status[c] = "playing"}

CountedShips == Others

\* Mutant: the bullets of all players, of which the closed sessions' ones are left.
BulletOwnersAll == {c \in Ids \ {tick.at} : status[c] \in {"playing", "closed"}}

BulletOwners == Others

\* The number of ships; with none of them the message ends here.
CountShips ==
    LET numShips == Cardinality(CountedShips) IN
    /\ At("universe", "countShips")
    /\ count' = numShips
    /\ IF numShips = 0
       THEN Goto("commit") /\ UNCHANGED buf
       ELSE /\ Goto("fillShips")
            /\ buf' = Put(Grow(buf, 2 + 6 * numShips), <<CountOf(numShips)>>, 2)
    /\ UNCHANGED <<status, rocks, bullets, shown, raced, fault>>

\* The loops over g_sessions and the guns' lists meet ships and bullets in the order
\* of the sessions' ids, and a session's bullets in the order of the list.
Place(x) == IF x.kind = "ships" THEN x.id ELSE x.id * (MagSize + 1) + x.nr
InOrder(S) ==
    CHOOSE s \in [1 .. Cardinality(S) -> S] :
        \A i, j \in DOMAIN s : i < j => Place(s[i]) < Place(s[j])

BulletsOf(c) == [i \in 1 .. bullets[c] |-> BulletOf(c, i)]
AllBulletsOf(owners) == UNION { { BulletOf(c, i) : i \in 1 .. bullets[c] } : c \in owners }

\* The ships, whose bullets are counted on the way; with no bullets the message
\* ends here.
FillShips ==
    LET items == InOrder({ ShipOf(c) : c \in Others })
        filled == Put(buf, items, 6)
        total == Cardinality(AllBulletsOf(BulletOwners))
    IN  /\ At("universe", "fillShips")
        /\ count' = total
        /\ IF Overrun(filled) \/ total = 0
           THEN Filled(filled)
           ELSE Filled(Put(Grow(filled, 2 + 4 * total), <<CountOf(total)>>, 2))
        /\ Goto(IF total = 0 THEN "commit" ELSE "fillBullets")
        /\ shown' = [shown EXCEPT !["ships"] = items]
        /\ UNCHANGED <<status, rocks, bullets, raced>>

FillBullets ==
    LET items == InOrder(AllBulletsOf(BulletOwners))
    IN  /\ At("universe", "fillBullets")
        /\ Filled(Put(buf, items, 4))
        /\ shown' = [shown EXCEPT !["bullets"] = items]
        /\ Goto("commit")
        /\ UNCHANGED <<status, rocks, bullets, count, raced>>

\* CommitTxBuffer; the loop goes on with the next session.
Commit ==
    /\ fault = "none"
    /\ tick.step = "commit"
    /\ tick' = [tick EXCEPT !.at = @ + 1, !.step = "begin"]
    /\ UNCHANGED <<status, rocks, bullets, count, buf, shown, raced, fault>>

\* Timer::TickEvent goes on to its own loop, over the sessions' TickEvents.
UniverseTicked ==
    /\ At("universe", "begin")
    /\ tick.at = MaxSessions + 1
    /\ tick' = [Idle EXCEPT !.loop = "player"]
    /\ UNCHANGED <<status, rocks, bullets, count, buf, shown, raced, fault>>

\* Player::TickEvent: the ship's tick may let one bullet go (no ship is ticked
\* when it is dead); then Gun::MakeBuffer takes the number of bullets, the one
\* section of a buffer of its own, and makes none where there are no bullets.
CountGun ==
    LET c == tick.at IN
    /\ At("player", "begin")
    /\ c \in Ids
    /\ status[c] = "playing"
    /\ \E n \in {bullets[c]} \cup {k \in 0 .. MagSize : k + 1 = bullets[c]} :
          /\ bullets' = [bullets EXCEPT ![c] = n]
          /\ count' = n
          /\ buf' = IF n = 0 THEN NewBuffer(0)
                    ELSE Put(NewBuffer(2 + 4 * n), <<CountOf(n)>>, 2)
    /\ shown' = Nothing
    /\ raced' = {}
    /\ Goto("fillGun")
    /\ UNCHANGED <<status, rocks, fault>>

\* Ship::MakeBuffer and Player::MakeBuffer: header, ship, and the bullets' count
\* and contents.  allocate() takes the whole of the gun's buffer, count included,
\* of which the count is copied elsewhere: two bytes stay zero.
WithShip(gun, ship) ==
    LET own == Put(Put(NewBuffer(34 + gun.room), <<Header>>, 24), <<ship>>, 8)
    IN  IF gun.items = <<>>
        THEN Put(own, <<CountOf(0)>>, 2)
        ELSE Put(Put(Put(own, <<Head(gun.items)>>, 2), Tail(gun.items), 4), <<Padding>>, 2)

FillGun ==
    LET c == tick.at
        items == IF count = 0 THEN <<>> ELSE BulletsOf(c)
        gun == Put(buf, items, 4)
    IN  /\ At("player", "fillGun")
        /\ IF Overrun(gun) THEN Filled(gun) ELSE Filled(WithShip(gun, ShipOf(c)))
        /\ shown' = [shown EXCEPT !["ships"] = <<ShipOf(c)>>, !["bullets"] = items]
        /\ Goto("commit")
        /\ UNCHANGED <<status, rocks, bullets, count, raced>>

EndTick ==
    /\ At("player", "begin")
    /\ tick.at = MaxSessions + 1
    /\ tick' = Idle
    /\ UNCHANGED <<status, rocks, bullets, count, buf, shown, raced, fault>>

-----------------------------------------------------------------------------

Handling == \E c \in Ids : Accept(c) \/ Register(c) \/ Close(c) \/ FireKey(c) \/ Click(c)

Ticking ==
    \/ StartTick \/ SkipSession
    \/ CountRocks \/ FillRocks \/ CountShips \/ FillShips \/ FillBullets
    \/ Commit \/ UniverseTicked
    \/ CountGun \/ FillGun \/ EndTick

Next == Handling \/ Ticking

Spec == Init /\ [][Next]_vars

-----------------------------------------------------------------------------
\* What the messages promise.

Items ==
    {Header, Padding}
        \cup {Rock(i) : i \in 1 .. MaxRocks} \cup {ShipOf(c) : c \in Ids}
        \cup {BulletOf(c, i) : c \in Ids, i \in 1 .. MagSize}
Counts == [kind : {"count"}, n : Nat]

TypeOK ==
    /\ status \in [Ids -> Statuses]
    /\ rocks \in 0 .. MaxRocks
    /\ bullets \in [Ids -> 0 .. MagSize]
    /\ tick \in Ticks
    /\ count \in 0 .. MaxSessions * (MagSize + 1)
    /\ buf \in [room : Nat, written : Nat, items : Seq(Items \cup Counts)]
    /\ shown \in [Parts -> Seq(Items)]
    /\ raced \subseteq Parts \X (0 .. MaxSessions)
    /\ fault \in {"none", "overrun", "iteratorLost"}

Told == tick.step = "commit" /\ fault = "none" /\ raced = {}

\* Nothing is so many that its count wraps around.
Countable == \A part \in Parts : Len(shown[part]) < CountRange

\* The browser finds the sections where the server put them, the missing ones
\* included, and reads what the server saw, as long as no handler changed what was
\* counted before it was filled in, and a count can tell how many there are.  Changes
\* at any other time do no harm: a player who registers after the ships, a shot before
\* they are counted.
ReadAsFound == Told /\ Countable => ClientReads.ok /\ ClientReads.got = shown

\* Every pass writes what the pass before it counted: an AppBuffer, which checks no
\* bounds, is only ever too small because a handler made something more in between.
FitsUnlessRaced == fault = "overrun" => raced # {}

\* The bullets of a message are those of its ships, though the ships and the
\* bullets are taken from the game at different times.
BulletsHaveShips ==
    Told => \A i \in DOMAIN shown["bullets"] :
                \E j \in DOMAIN shown["ships"] : shown["ships"][j].id = shown["bullets"][i].id
=============================================================================
