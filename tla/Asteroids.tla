----------------------------- MODULE Asteroids -----------------------------
(***************************************************************************)
(* The rules of the multiplayer game as Universe, Player, Ship, Gun,       *)
(* Bullet and RockField play them: lives and phases of the players, the    *)
(* bullets in flight, and the rocks with the points they are worth.        *)
(*                                                                         *)
(* Where things are is abstracted: which bullets and ships meet a rock in  *)
(* a tick is arbitrary, and the rock field is the number of rocks of each  *)
(* size.  Durations are counted in ticks.  The handlers run one at a time, *)
(* which is the case when the io_context has one thread.                   *)
(***************************************************************************)
EXTENDS Naturals, Sequences, FiniteSets

CONSTANTS
    MaxPlayers,     \* bound: sessions that register in a behaviour
    MaxLaunches,    \* bound: rocks launched by clicks
    NumLives,       \* NUM_LIVES
    MagSize,        \* GUN_MAG_SIZE
    BulletTicks,    \* life of a bullet, 180
    ExplodeTicks,   \* SHIP_EXPLODE_DUR in ticks
    InvTicks        \* SHIP_INV_DUR in ticks

ASSUME ConstantsAssumption ==
    /\ MaxPlayers \in Nat \ {0}
    /\ MaxLaunches \in Nat
    /\ NumLives \in Nat \ {0}
    /\ MagSize \in Nat \ {0}
    /\ BulletTicks \in Nat \ {0}
    /\ ExplodeTicks \in Nat \ {0}
    /\ InvTicks \in Nat \ {0}

VARIABLES
    presence,    \* whether a player has an entry in m_players, and a session
    phase,       \* Player::m_phase
    score,       \* Player::m_score
    ship,        \* the flags and timers of Player::m_ship
    bullets,     \* Gun::m_bullets: the ticks each bullet has left, oldest first
    rocks,       \* RockField::m_rocks: how many of each size
    turn,        \* where the timer handler is
    launched,    \* history: rocks launched by clicks
    awarded,     \* history: points awarded to anyone
    explosions,  \* history: explosions of the ship since it last had all its lives
    fault        \* undefined behaviour that was reached

playerVars == <<presence, phase, score, ship, bullets, explosions>>
vars == <<presence, phase, score, ship, bullets, rocks, turn, launched, awarded,
          explosions, fault>>

\* Session ids; the map m_players is iterated in their order.
Players == 1 .. MaxPlayers

\* "gone": the session is closed, but m_players keeps the player.
Presences == {"absent", "online", "gone"}
Phases == {"InLobby", "Playing", "GameOver"}
Sizes == {"large", "medium", "small"}
Faults == {"none", "rockDestroyedTwice"}

Ships == [dead : BOOLEAN, exploding : BOOLEAN, invulnerable : BOOLEAN,
          livesLeft : 0 .. NumLives, explosion : 1 .. ExplodeTicks, inv : 0 .. InvTicks]

\* turn = 0: no tick in progress; p: the collisions of player p are next;
\* MaxPlayers + 1: the players' own ticks are.
Idle == 0
PlayersTurn == MaxPlayers + 1

-----------------------------------------------------------------------------
\* Ship

NewShip == [dead |-> FALSE, exploding |-> FALSE, invulnerable |-> TRUE,
            livesLeft |-> NumLives, explosion |-> ExplodeTicks, inv |-> InvTicks]

\* Mutant: a life is taken although none is left.
NewLifeUnguarded(s) ==
    [s EXCEPT !.invulnerable = TRUE, !.explosion = ExplodeTicks, !.inv = InvTicks,
              !.exploding = FALSE, !.dead = FALSE, !.livesLeft = @ - 1]

NewLife(s) ==
    IF s.livesLeft > 0
    THEN [s EXCEPT !.invulnerable = TRUE, !.explosion = ExplodeTicks, !.inv = InvTicks,
                   !.exploding = FALSE, !.dead = FALSE, !.livesLeft = @ - 1]
    ELSE [s EXCEPT !.dead = TRUE]

\* Mutant: the ship gets no life to spend on its resurrection.
ResurrectSpent(s) == [NewLife([s EXCEPT !.dead = FALSE]) EXCEPT !.livesLeft = NumLives]

Resurrect(s) ==
    [NewLife([s EXCEPT !.dead = FALSE, !.livesLeft = 1]) EXCEPT !.livesLeft = NumLives]

Explode(s) == [s EXCEPT !.exploding = TRUE]

\* The timers in Ship::TickEvent, of an explosion and of invulnerability.
ExplosionTick(s) ==
    IF s.explosion = 1
    THEN NewLife([s EXCEPT !.explosion = ExplodeTicks, !.exploding = FALSE])
    ELSE [s EXCEPT !.explosion = @ - 1]

InvulnerableTick(s) ==
    IF s.inv = 1
    THEN [s EXCEPT !.inv = 0, !.invulnerable = FALSE]
    ELSE [s EXCEPT !.inv = @ - 1]

ShipTick(s) ==
    IF s.exploding THEN ExplosionTick(s)
    ELSE IF s.invulnerable THEN InvulnerableTick(s)
    ELSE s

-----------------------------------------------------------------------------
\* Gun

\* Mutant: push_front instead of push_back.
FireInFront(b) == IF Len(b) = MagSize THEN b ELSE <<BulletTicks>> \o b

Fire(b) == IF Len(b) = MagSize THEN b ELSE Append(b, BulletTicks)

Aged(b) == [i \in DOMAIN b |-> IF b[i] > 0 THEN b[i] - 1 ELSE 0]

\* Mutant: Bullet::TickEvent's result is taken the wrong way round.
GunTickInverted(b) ==
    LET aged == Aged(b)
    IN  IF \E i \in DOMAIN aged : aged[i] # 0 THEN Tail(aged) ELSE aged

\* Gun::TickEvent: every bullet ages; when any of them has timed out, one bullet
\* leaves the front of the list.
GunTick(b) ==
    LET aged == Aged(b)
    IN  IF \E i \in DOMAIN aged : aged[i] = 0 THEN Tail(aged) ELSE aged

\* What can be left of the list once some bullets have hit rocks and been erased.
Picks(k, n) == {f \in [1 .. k -> 1 .. n] : \A i, j \in 1 .. k : i < j => f[i] < f[j]}
Survivors(b) ==
    UNION { { [i \in 1 .. k |-> b[f[i]]] : f \in Picks(k, Len(b)) } : k \in 0 .. Len(b) }

-----------------------------------------------------------------------------
\* RockField

NoRocks == [s \in Sizes |-> 0]
Count(r) == r["large"] + r["medium"] + r["small"]

\* What a player is awarded for destroying the rocks r.
Award(r) == 20 * r["large"] + 50 * r["medium"] + 100 * r["small"]

\* Mutant: a medium rock leaves one small rock.
DestroyOneSmall(f, r) ==
    [f EXCEPT !["large"]  = @ - r["large"],
              !["medium"] = @ - r["medium"] + 2 * r["large"],
              !["small"]  = @ - r["small"] + r["medium"]]

\* The field f once DestroyRock has been called on each of the rocks r: a rock
\* leaves two of the next smaller size, the smallest leave nothing.
Destroy(f, r) ==
    [f EXCEPT !["large"]  = @ - r["large"],
              !["medium"] = @ - r["medium"] + 2 * r["large"],
              !["small"]  = @ - r["small"] + 2 * r["medium"]]

\* LaunchOne(x, y, ROCK_RADIUS).
LaunchOne(f) == [f EXCEPT !["large"] = @ + 1]

-----------------------------------------------------------------------------

Init ==
    /\ presence = [p \in Players |-> "absent"]
    /\ phase = [p \in Players |-> "InLobby"]
    /\ score = [p \in Players |-> 0]
    /\ ship = [p \in Players |-> NewShip]
    /\ bullets = [p \in Players |-> <<>>]
    /\ rocks = NoRocks
    /\ turn = Idle
    /\ launched = 0
    /\ awarded = 0
    /\ explosions = [p \in Players |-> 0]
    /\ fault = "none"

CanRun == fault = "none" /\ turn = Idle

\* Universe::NewPlayer: the entry is made, or replaced when the browser registers
\* once more.
Register(p) ==
    /\ CanRun
    /\ presence[p] # "gone"
    /\ presence' = [presence EXCEPT ![p] = "online"]
    /\ phase' = [phase EXCEPT ![p] = "InLobby"]
    /\ score' = [score EXCEPT ![p] = 0]
    /\ ship' = [ship EXCEPT ![p] = NewShip]
    /\ bullets' = [bullets EXCEPT ![p] = <<>>]
    /\ explosions' = [explosions EXCEPT ![p] = 0]
    /\ UNCHANGED <<rocks, turn, launched, awarded, fault>>

\* OnClose: the session goes, the player stays in m_players.
Close(p) ==
    /\ CanRun
    /\ presence[p] = "online"
    /\ presence' = [presence EXCEPT ![p] = "gone"]
    /\ UNCHANGED <<phase, score, ship, bullets, explosions, rocks, turn, launched, awarded, fault>>

\* Player::KeyEvent with isDown, the space bar or another key.  (Releasing a key
\* only affects the steering, which is abstracted.)
KeyDown(p, space) ==
    /\ CanRun
    /\ presence[p] = "online"
    /\ bullets' = [bullets EXCEPT ![p] = IF space THEN Fire(@) ELSE @]
    /\ phase' = [phase EXCEPT ![p] = "Playing"]
    /\ IF phase[p] # "Playing" /\ ship[p].dead
       THEN /\ score' = [score EXCEPT ![p] = 0]
            /\ ship' = [ship EXCEPT ![p] = Resurrect(@)]
            /\ explosions' = [explosions EXCEPT ![p] = 0]
       ELSE UNCHANGED <<score, ship, explosions>>
    /\ UNCHANGED <<presence, rocks, turn, launched, awarded, fault>>

Click(p) ==
    /\ CanRun
    /\ presence[p] = "online"
    /\ launched < MaxLaunches
    /\ launched' = launched + 1
    /\ rocks' = LaunchOne(rocks)
    /\ UNCHANGED <<playerVars, turn, awarded, fault>>

-----------------------------------------------------------------------------
\* A tick: Universe::CollisionDetection, player by player, then Player::TickEvent
\* of every session.

StartTick ==
    /\ CanRun
    /\ turn' = 1
    /\ UNCHANGED <<playerVars, rocks, launched, awarded, fault>>

\* Mutant: an exploding ship explodes once more.
CanCrashAgain(s) == ~s.invulnerable

\* A ship can run into a rock when it is not exploding and not invulnerable.
CanCrash(s) == ~s.exploding /\ ~s.invulnerable

\* The collisions of player p, no two of whose bullets hit the same rock: "left"
\* is what is left of the bullets; the ship may crash, into a rock of its own or
\* into one a bullet has hit as well, which is not destroyed a second time.
Collide(p) ==
    /\ fault = "none"
    /\ turn = p
    /\ presence[p] # "absent"
    /\ \E left \in Survivors(bullets[p]), crash \in BOOLEAN, shared \in BOOLEAN,
          broken \in [Sizes -> 0 .. MagSize + 1] :
          LET hits == Len(bullets[p]) - Len(left) IN
          /\ crash => CanCrash(ship[p])
          /\ shared => crash /\ hits > 0
          /\ \A s \in Sizes : broken[s] <= rocks[s]
          /\ Count(broken) = hits + (IF crash /\ ~shared THEN 1 ELSE 0)
          /\ bullets' = [bullets EXCEPT ![p] = left]
          /\ score' = [score EXCEPT ![p] = @ + Award(broken)]
          /\ awarded' = awarded + Award(broken)
          /\ rocks' = Destroy(rocks, broken)
          /\ ship' = [ship EXCEPT ![p] = IF crash THEN Explode(@) ELSE @]
          /\ explosions' = [explosions EXCEPT ![p] = IF crash THEN @ + 1 ELSE @]
    /\ turn' = turn + 1
    /\ UNCHANGED <<presence, phase, launched, fault>>

\* Two bullets hit the same rock: its iterator is in collidedRocks twice, and
\* DestroyRock erases it twice.
CollideTwice(p) ==
    /\ fault = "none"
    /\ turn = p
    /\ presence[p] # "absent"
    /\ Len(bullets[p]) > 1
    /\ Count(rocks) > 0
    /\ fault' = "rockDestroyedTwice"
    /\ UNCHANGED <<playerVars, rocks, turn, launched, awarded>>

NoSuchPlayer(p) ==
    /\ fault = "none"
    /\ turn = p
    /\ presence[p] = "absent"
    /\ turn' = turn + 1
    /\ UNCHANGED <<playerVars, rocks, launched, awarded, fault>>

\* Mutant: the ship is not ticked while it explodes.
TickedUnlessExploding(p) ==
    presence[p] = "online" /\ ~ship[p].dead /\ ~ship[p].exploding

\* Player::TickEvent of every session that has a player: the ship and the bullets
\* of a dead player, and of one whose session is gone, stay as they are.
Ticked(p) == presence[p] = "online" /\ ~ship[p].dead

AfterTick(p) == IF Ticked(p) THEN ShipTick(ship[p]) ELSE ship[p]

PlayersTick ==
    /\ fault = "none"
    /\ turn = PlayersTurn
    /\ ship' = [p \in Players |-> AfterTick(p)]
    /\ bullets' = [p \in Players |-> IF Ticked(p) THEN GunTick(bullets[p]) ELSE bullets[p]]
    /\ phase' = [p \in Players |->
                    IF presence[p] = "online" /\ AfterTick(p).dead /\ phase[p] = "Playing"
                    THEN "GameOver" ELSE phase[p]]
    /\ turn' = Idle
    /\ UNCHANGED <<presence, score, rocks, launched, awarded, explosions, fault>>

-----------------------------------------------------------------------------

Ticking ==
    \/ StartTick
    \/ \E p \in Players : Collide(p) \/ CollideTwice(p) \/ NoSuchPlayer(p)
    \/ PlayersTick

Next ==
    \/ \E p \in Players :
          \/ Register(p)
          \/ Close(p)
          \/ KeyDown(p, TRUE)
          \/ KeyDown(p, FALSE)
          \/ Click(p)
    \/ Ticking

Spec == Init /\ [][Next]_vars

\* The timer is always re-armed.
FairSpec == Spec /\ WF_vars(Ticking)

-----------------------------------------------------------------------------
\* What the game guarantees.

TypeOK ==
    /\ presence \in [Players -> Presences]
    /\ phase \in [Players -> Phases]
    /\ score \in [Players -> Nat]
    /\ ship \in [Players -> Ships]
    /\ bullets \in [Players -> Seq(0 .. BulletTicks)]
    /\ rocks \in [Sizes -> Nat]
    /\ turn \in 0 .. PlayersTurn
    /\ launched \in 0 .. MaxLaunches
    /\ awarded \in Nat
    /\ explosions \in [Players -> Nat]
    /\ fault \in Faults

\* A launched rock is worth 520 points in all, whoever destroys which of its parts
\* by shooting or by crashing: none is awarded twice and none gets lost.
Worth(r) == 520 * r["large"] + 250 * r["medium"] + 100 * r["small"]

PointsConserved == awarded + Worth(rocks) = 520 * launched

\* The lives shown to a player account for the explosions of the ship: one has not
\* taken its life yet while it lasts, and the last takes none.  So a game is over
\* with explosion NumLives + 1, and a wreck explodes at most once more.
One(condition) == IF condition THEN 1 ELSE 0

LivesAccount ==
    \A p \in Players :
        explosions[p] + ship[p].livesLeft =
            NumLives + One(ship[p].exploding) + One(ship[p].dead)

\* Nobody plays with a dead ship, and the game is only over for players whose ship
\* is dead, so that the next key brings a new ship.
PhaseMatchesShip ==
    \A p \in Players :
        /\ phase[p] = "Playing" /\ presence[p] = "online" => ~ship[p].dead
        /\ phase[p] = "GameOver" => ship[p].dead

\* The gun holds its limit, and its list is sorted by age, so that the bullet
\* pop_front removes because some bullet timed out is one that did.
BulletsInOrder ==
    \A p \in Players :
        /\ Len(bullets[p]) <= MagSize
        /\ \A i, j \in DOMAIN bullets[p] : i < j => bullets[p][i] <= bullets[p][j]

\* A tick takes a bullet out of the air only at the end of its life.
OnlyExpiredPopped ==
    [][ PlayersTick =>
          \A p \in Players :
              Len(bullets'[p]) < Len(bullets[p]) => Head(bullets[p]) <= 1 ]_vars

\* An explosion lasts its full time: its timer is reset whenever it is not running.
ExplosionFull ==
    \A p \in Players : ~ship[p].exploding => ship[p].explosion = ExplodeTicks

\* An exploding ship gets its next life or dies, unless its player leaves.
ExplosionEnds ==
    \A p \in Players :
        ship[p].exploding ~> \/ ~ship[p].exploding
                             \/ ship[p].dead
                             \/ presence[p] = "gone"
                             \/ fault # "none"
=============================================================================
