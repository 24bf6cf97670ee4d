-------------------------- MODULE Asteroids_proofs --------------------------
(***************************************************************************)
(* The rules of the game: types, the conservation of points, the account   *)
(* of lives, phases and bullets, for any number of players, rocks, lives   *)
(* and bullets and any durations.                                          *)
(***************************************************************************)
EXTENDS Asteroids, SequenceTheorems, TLAPS

-----------------------------------------------------------------------------
(***************************************************************************)
(* Ship.                                                                   *)
(***************************************************************************)

\* An invulnerable ship has time left, an explosion that is not going on has all of
\* its time left: the timers count from where they should.
TimersInv(s) ==
    /\ s.invulnerable => s.inv > 0
    /\ ~s.exploding => s.explosion = ExplodeTicks

\* The lives of a ship account for e explosions.
Accounts(s, e) == e + s.livesLeft = NumLives + One(s.exploding) + One(s.dead)

\* A new ship, and one that is resurrected, have all their lives.
LEMMA NewShipInv ==
    /\ NewShip \in Ships /\ TimersInv(NewShip) /\ Accounts(NewShip, 0)
    /\ ~NewShip.dead
BY ConstantsAssumption DEF NewShip, Ships, TimersInv, Accounts, One

LEMMA ResurrectInv ==
    ASSUME NEW s \in Ships
    PROVE  /\ Resurrect(s) \in Ships /\ TimersInv(Resurrect(s)) /\ Accounts(Resurrect(s), 0)
           /\ ~Resurrect(s).dead
           /\ Resurrect(s) = NewShip
<1>1. PICK t : t = [s EXCEPT !.dead = FALSE, !.livesLeft = 1]
  OBVIOUS
<1>2. t = [dead |-> FALSE, exploding |-> s.exploding, invulnerable |-> s.invulnerable,
           livesLeft |-> 1, explosion |-> s.explosion, inv |-> s.inv]
  BY <1>1 DEF Ships
<1>3. NewLife(t) = [t EXCEPT !.invulnerable = TRUE, !.explosion = ExplodeTicks,
                             !.inv = InvTicks, !.exploding = FALSE, !.dead = FALSE,
                             !.livesLeft = @ - 1]
  BY <1>2 DEF NewLife
<1>4. NewLife(t) = [dead |-> FALSE, exploding |-> FALSE, invulnerable |-> TRUE,
                    livesLeft |-> 0, explosion |-> ExplodeTicks, inv |-> InvTicks]
  <2>1. t \in Ships /\ t.livesLeft = 1
    BY <1>2, ConstantsAssumption DEF Ships
  <2>2. NewLife(t) = [dead |-> FALSE, exploding |-> FALSE, invulnerable |-> TRUE,
                      livesLeft |-> t.livesLeft - 1, explosion |-> ExplodeTicks,
                      inv |-> InvTicks]
    BY <1>3, <2>1 DEF Ships
  <2>3. t.livesLeft - 1 = 0
    BY <2>1
  <2>. QED  BY <2>2, <2>3
<1>5. Resurrect(s) = [NewLife(t) EXCEPT !.livesLeft = NumLives]
  BY <1>1 DEF Resurrect
<1>6. Resurrect(s) = NewShip
  <2>1. NewLife(t) \in Ships
    BY <1>4, ConstantsAssumption DEF Ships
  <2>2. Resurrect(s) =
            [dead |-> NewLife(t).dead, exploding |-> NewLife(t).exploding,
             invulnerable |-> NewLife(t).invulnerable, livesLeft |-> NumLives,
             explosion |-> NewLife(t).explosion, inv |-> NewLife(t).inv]
    BY <1>5, <2>1 DEF Ships
  <2>3. /\ NewLife(t).dead = FALSE /\ NewLife(t).exploding = FALSE
        /\ NewLife(t).invulnerable = TRUE
        /\ NewLife(t).explosion = ExplodeTicks /\ NewLife(t).inv = InvTicks
    BY <1>4
  <2>. QED  BY <2>2, <2>3 DEF NewShip
<1>. QED
  BY <1>6, NewShipInv

\* An explosion that ends takes a life, or the ship when there is none left.
LEMMA NewLifeInv ==
    ASSUME NEW s \in Ships, NEW e \in Nat, ~s.exploding, ~s.dead,
           s.explosion = ExplodeTicks, s.invulnerable => s.inv > 0,
           e + s.livesLeft = NumLives + 1
    PROVE  NewLife(s) \in Ships /\ TimersInv(NewLife(s)) /\ Accounts(NewLife(s), e)
<1> USE ConstantsAssumption
<1>1. CASE s.livesLeft > 0
  <2>1. NewLife(s) = [s EXCEPT !.invulnerable = TRUE, !.explosion = ExplodeTicks,
                               !.inv = InvTicks, !.exploding = FALSE, !.dead = FALSE,
                               !.livesLeft = @ - 1]
    BY <1>1 DEF NewLife
  <2>2. s.livesLeft - 1 \in 0 .. NumLives
    BY <1>1 DEF Ships
  <2>3. NewLife(s) \in Ships
    <3>1. NewLife(s) = [dead |-> FALSE, exploding |-> FALSE, invulnerable |-> TRUE,
                        livesLeft |-> s.livesLeft - 1, explosion |-> ExplodeTicks,
                        inv |-> InvTicks]
      BY <2>1 DEF Ships
    <3>. QED  BY <2>2, <3>1 DEF Ships
  <2>4. /\ NewLife(s).livesLeft = s.livesLeft - 1 /\ NewLife(s).inv = InvTicks
        /\ NewLife(s).explosion = ExplodeTicks /\ NewLife(s).exploding = FALSE
        /\ NewLife(s).dead = FALSE
    BY <2>1 DEF Ships
  <2>5. TimersInv(NewLife(s))
    BY <2>4 DEF TimersInv
  <2>6. Accounts(NewLife(s), e)
    <3>1. One(NewLife(s).exploding) = 0 /\ One(NewLife(s).dead) = 0
      BY <2>4 DEF One
    <3>. QED  BY <2>2, <2>4, <3>1 DEF Accounts, Ships
  <2>. QED  BY <2>3, <2>5, <2>6
<1>2. CASE ~(s.livesLeft > 0)
  <2>1. NewLife(s) = [s EXCEPT !.dead = TRUE]
    BY <1>2 DEF NewLife
  <2>2. NewLife(s) \in Ships /\ TimersInv(NewLife(s))
    BY <2>1 DEF Ships, TimersInv
  <2>3. /\ NewLife(s).livesLeft = s.livesLeft /\ NewLife(s).dead = TRUE
        /\ NewLife(s).exploding = FALSE
    BY <2>1 DEF Ships
  <2>4. One(NewLife(s).exploding) = 0 /\ One(NewLife(s).dead) = 1
    BY <2>3 DEF One
  <2>. QED  BY <2>2, <2>3, <2>4 DEF Accounts, Ships
<1>. QED  BY <1>1, <1>2

\* A tick of a ship's timers keeps them and the account of its lives.
LEMMA ShipTickInv ==
    ASSUME NEW s \in Ships, NEW e \in Nat, TimersInv(s), Accounts(s, e), ~s.dead
    PROVE  ShipTick(s) \in Ships /\ TimersInv(ShipTick(s)) /\ Accounts(ShipTick(s), e)
<1> USE ConstantsAssumption
<1>1. CASE s.exploding /\ s.explosion = 1
  <2>0. PICK t : t = [s EXCEPT !.explosion = ExplodeTicks, !.exploding = FALSE]
    OBVIOUS
  <2>1. ShipTick(s) = NewLife(t)
    BY <1>1, <2>0 DEF ShipTick, ExplosionTick, InvulnerableTick
  <2>2. /\ t \in Ships /\ t.exploding = FALSE /\ t.dead = s.dead /\ t.explosion = ExplodeTicks
        /\ t.invulnerable = s.invulnerable /\ t.inv = s.inv /\ t.livesLeft = s.livesLeft
    <3>1. t = [dead |-> s.dead, exploding |-> FALSE, invulnerable |-> s.invulnerable,
               livesLeft |-> s.livesLeft, explosion |-> ExplodeTicks, inv |-> s.inv]
      BY <2>0 DEF Ships
    <3>. QED  BY <3>1 DEF Ships
  <2>3. e + s.livesLeft = NumLives + 1
    <3>1. One(s.exploding) = 1 /\ One(s.dead) = 0
      BY <1>1 DEF One
    <3>. QED  BY <3>1 DEF Accounts, Ships
  <2>. QED  BY <2>1, <2>2, <2>3, NewLifeInv DEF TimersInv
<1>2. CASE s.exploding /\ s.explosion # 1
  <2>1. ShipTick(s) = [s EXCEPT !.explosion = @ - 1]
    BY <1>2 DEF ShipTick, ExplosionTick, InvulnerableTick
  <2>2. s.explosion - 1 \in 1 .. ExplodeTicks
    BY <1>2 DEF Ships
  <2>3. ShipTick(s) \in Ships /\ TimersInv(ShipTick(s))
    BY <1>2, <2>1, <2>2 DEF Ships, TimersInv
  <2>4. /\ ShipTick(s).livesLeft = s.livesLeft /\ ShipTick(s).dead = s.dead
        /\ ShipTick(s).exploding = s.exploding
    BY <2>1 DEF Ships
  <2>. QED  BY <2>3, <2>4 DEF Accounts
<1>3. CASE ~s.exploding /\ s.invulnerable
  <2>1. CASE s.inv = 1
    <3>1. ShipTick(s) = [s EXCEPT !.inv = 0, !.invulnerable = FALSE]
      BY <1>3, <2>1 DEF ShipTick, ExplosionTick, InvulnerableTick
    <3>2. ShipTick(s) \in Ships /\ TimersInv(ShipTick(s))
      <4>1. ShipTick(s) = [dead |-> s.dead, exploding |-> s.exploding, invulnerable |-> FALSE,
                           livesLeft |-> s.livesLeft, explosion |-> s.explosion, inv |-> 0]
        BY <3>1 DEF Ships
      <4>. QED  BY <1>3, <4>1 DEF Ships, TimersInv
    <3>3. /\ ShipTick(s).livesLeft = s.livesLeft /\ ShipTick(s).dead = s.dead
          /\ ShipTick(s).exploding = s.exploding
      BY <3>1 DEF Ships
    <3>. QED  BY <3>2, <3>3 DEF Accounts
  <2>2. CASE s.inv # 1
    <3>1. ShipTick(s) = [s EXCEPT !.inv = @ - 1]
      BY <1>3, <2>2 DEF ShipTick, ExplosionTick, InvulnerableTick
    <3>2. s.inv - 1 \in 0 .. InvTicks /\ s.inv - 1 > 0
      BY <1>3, <2>2 DEF Ships, TimersInv
    <3>3. ShipTick(s) \in Ships /\ TimersInv(ShipTick(s))
      BY <1>3, <3>1, <3>2 DEF Ships, TimersInv
    <3>4. /\ ShipTick(s).livesLeft = s.livesLeft /\ ShipTick(s).dead = s.dead
          /\ ShipTick(s).exploding = s.exploding
      BY <3>1 DEF Ships
    <3>. QED  BY <3>3, <3>4 DEF Accounts
  <2>. QED  BY <2>1, <2>2
<1>4. CASE ~s.exploding /\ ~s.invulnerable
  BY <1>4 DEF ShipTick, ExplosionTick, InvulnerableTick
<1>. QED  BY <1>1, <1>2, <1>3, <1>4 DEF Ships

\* A crash is one more explosion.
LEMMA ExplodeInv ==
    ASSUME NEW s \in Ships, NEW e \in Nat, TimersInv(s), Accounts(s, e), CanCrash(s)
    PROVE  Explode(s) \in Ships /\ TimersInv(Explode(s)) /\ Accounts(Explode(s), e + 1)
           /\ Explode(s).dead = s.dead
<1>1. Explode(s) = [s EXCEPT !.exploding = TRUE]
  BY DEF Explode
<1>2. /\ Explode(s) \in Ships /\ Explode(s).dead = s.dead
      /\ Explode(s).exploding = TRUE /\ Explode(s).livesLeft = s.livesLeft
  BY <1>1 DEF Ships
<1>3. TimersInv(Explode(s))
  BY <1>1, <1>2 DEF Ships, TimersInv
<1>4. Accounts(Explode(s), e + 1)
  <2>1. One(s.exploding) = 0 /\ One(Explode(s).exploding) = 1
    BY <1>2 DEF One, CanCrash
  <2>2. One(s.dead) \in Nat /\ s.livesLeft \in Nat
    BY DEF One, Ships
  <2>. QED  BY <1>2, <2>1, <2>2, ConstantsAssumption DEF Accounts
<1>. QED  BY <1>2, <1>3, <1>4

-----------------------------------------------------------------------------
(***************************************************************************)
(* Gun.                                                                    *)
(***************************************************************************)

Magazines == Seq(0 .. BulletTicks)

\* What a magazine is, as a function.
LEMMA MagazineTypes ==
    ASSUME NEW b \in Magazines
    PROVE  /\ Len(b) \in Nat /\ DOMAIN b = 1 .. Len(b)
           /\ \A x \in DOMAIN b : b[x] \in 0 .. BulletTicks
<1>1. Len(b) \in Nat /\ DOMAIN b = 1 .. Len(b)
  BY DEF Magazines
<1>2. \A x \in 1 .. Len(b) : b[x] \in 0 .. BulletTicks
  BY ElementOfSeq DEF Magazines
<1>. QED  BY <1>1, <1>2

\* The gun holds its limit, oldest bullet first.
BulletInv(b) ==
    /\ Len(b) <= MagSize
    /\ \A i, j \in DOMAIN b : i < j => b[i] <= b[j]

\* A new bullet is the youngest.
LEMMA FireInv ==
    ASSUME NEW b \in Magazines, BulletInv(b)
    PROVE  Fire(b) \in Magazines /\ BulletInv(Fire(b))
<1>1. CASE Len(b) = MagSize
  BY <1>1 DEF Fire
<1>2. CASE Len(b) # MagSize
  <2> DEFINE f == Append(b, BulletTicks)
  <2>1. BulletTicks \in 0 .. BulletTicks /\ MagSize \in Nat
    BY ConstantsAssumption
  <2>2. f \in Magazines /\ Len(f) = Len(b) + 1 /\ Len(f) <= MagSize
    BY <1>2, <2>1 DEF Magazines, BulletInv
  <2>3. \A i \in DOMAIN f : f[i] = IF i = Len(b) + 1 THEN BulletTicks ELSE b[i]
    BY DEF Magazines
  <2>4. ASSUME NEW i \in DOMAIN f, NEW j \in DOMAIN f, i < j PROVE f[i] <= f[j]
    <3>1. i \in DOMAIN b /\ f[i] = b[i] /\ b[i] \in 0 .. BulletTicks
      BY <2>2, <2>3, <2>4 DEF Magazines
    <3>2. CASE j = Len(b) + 1
      BY <2>1, <2>3, <3>1, <3>2
    <3>3. CASE j # Len(b) + 1
      <4>1. j \in DOMAIN b /\ f[j] = b[j]
        BY <2>2, <2>3, <3>3 DEF Magazines
      <4>. QED  BY <2>4, <3>1, <4>1 DEF BulletInv
    <3>. QED  BY <3>2, <3>3
  <2>5. BulletInv(f)
    BY <2>2, <2>4 DEF BulletInv
  <2>. QED  BY <1>2, <2>2, <2>5 DEF Fire
<1>. QED  BY <1>1, <1>2

\* The order of ages survives a tick, and a bullet leaves the front only when it
\* is at the end of its life.
LEMMA GunTickInv ==
    ASSUME NEW b \in Magazines, BulletInv(b)
    PROVE  /\ GunTick(b) \in Magazines /\ BulletInv(GunTick(b))
           /\ Len(GunTick(b)) < Len(b) => Head(b) <= 1
<1> DEFINE a == Aged(b)
<1>1. /\ a \in Magazines /\ Len(a) = Len(b) /\ DOMAIN a = DOMAIN b
      /\ \A i \in DOMAIN b : a[i] = IF b[i] > 0 THEN b[i] - 1 ELSE 0
  <2>1. \A i \in DOMAIN b : (IF b[i] > 0 THEN b[i] - 1 ELSE 0) \in 0 .. BulletTicks
    BY ConstantsAssumption DEF Magazines
  <2>2. /\ Len(b) \in Nat /\ DOMAIN b = 1 .. Len(b) /\ a = [i \in 1 .. Len(b) |->
                IF b[i] > 0 THEN b[i] - 1 ELSE 0]
    BY DEF Aged, Magazines
  <2> HIDE DEF a
  <2>3. a \in Magazines /\ Len(a) = Len(b)
    BY <2>1, <2>2 DEF Magazines
  <2>. QED  BY <2>2, <2>3
<1>2. \A i, j \in DOMAIN a : i < j => a[i] <= a[j]
  <2>1. \A i \in DOMAIN b : b[i] \in Nat
    BY ConstantsAssumption DEF Magazines
  <2>2. SUFFICES ASSUME NEW i \in DOMAIN b, NEW j \in DOMAIN b, i < j PROVE a[i] <= a[j]
    BY <1>1
  <2>3. b[i] <= b[j] /\ b[i] \in Nat /\ b[j] \in Nat
    BY <2>1, <2>2 DEF BulletInv
  <2>4. /\ a[i] = IF b[i] > 0 THEN b[i] - 1 ELSE 0
        /\ a[j] = IF b[j] > 0 THEN b[j] - 1 ELSE 0
    BY <1>1
  <2>. QED  BY <2>3, <2>4
<1>3. BulletInv(a)
  BY <1>1, <1>2 DEF BulletInv
<1>4. CASE \E i \in DOMAIN a : a[i] = 0
  <2>1. GunTick(b) = Tail(a) /\ a # <<>>
    BY <1>4 DEF GunTick
  <2>2. /\ Tail(a) \in Magazines /\ Len(Tail(a)) = Len(a) - 1
        /\ \A i \in DOMAIN Tail(a) : i + 1 \in DOMAIN a /\ Tail(a)[i] = a[i + 1]
    BY <1>1, <2>1 DEF Magazines
  <2>3. BulletInv(Tail(a))
    <3>1. Len(Tail(a)) <= MagSize
      BY <1>1, <1>3, <2>2, ConstantsAssumption DEF BulletInv, Magazines
    <3>2. ASSUME NEW i \in DOMAIN Tail(a), NEW j \in DOMAIN Tail(a), i < j
          PROVE  Tail(a)[i] <= Tail(a)[j]
      <4>1. i \in Nat /\ j \in Nat /\ i + 1 < j + 1
        BY <2>2, <3>2
      <4>. QED  BY <1>2, <2>2, <4>1
    <3>. QED  BY <3>1, <3>2 DEF BulletInv
  <2>4. Head(b) <= 1
    <3>1. PICK i \in DOMAIN b : a[i] = 0
      BY <1>1, <1>4
    <3>2. b[i] \in Nat /\ b[i] <= 1
      BY <1>1, <3>1, ConstantsAssumption DEF Magazines
    <3>3. 1 \in DOMAIN b /\ Head(b) = b[1] /\ b[1] \in Nat /\ (i = 1 \/ 1 < i)
      BY <3>1, ConstantsAssumption DEF Magazines
    <3>. QED  BY <3>2, <3>3 DEF BulletInv
  <2>. QED  BY <2>1, <2>2, <2>3, <2>4
<1>5. CASE ~ \E i \in DOMAIN a : a[i] = 0
  <2>1. GunTick(b) = a
    BY <1>5 DEF GunTick
  <2>. QED  BY <1>1, <1>3, <2>1 DEF Magazines
<1>. QED  BY <1>4, <1>5

\* Erasing bullets keeps the order of the others.
LEMMA SurvivorsInv ==
    ASSUME NEW b \in Magazines, BulletInv(b), NEW left \in Survivors(b)
    PROVE  left \in Magazines /\ BulletInv(left) /\ Len(left) <= Len(b)
<1>0. PICK k \in 0 .. Len(b) :
         left \in { [i \in 1 .. k |-> b[f[i]]] : f \in Picks(k, Len(b)) }
  BY Zenon DEF Survivors
<1>1. PICK f \in Picks(k, Len(b)) : left = [i \in 1 .. k |-> b[f[i]]]
  BY <1>0, Zenon
<1>2. f \in [1 .. k -> 1 .. Len(b)] /\ \A i, j \in 1 .. k : i < j => f[i] < f[j]
  BY DEF Picks
<1>3. Len(b) \in Nat /\ k \in Nat /\ k <= Len(b) /\ DOMAIN b = 1 .. Len(b)
  BY DEF Magazines
<1>4. \A i \in 1 .. k : b[f[i]] \in 0 .. BulletTicks
  <2>1. \A x \in DOMAIN b : b[x] \in 0 .. BulletTicks
    BY MagazineTypes
  <2>2. \A i \in 1 .. k : f[i] \in DOMAIN b
    BY <1>2, <1>3
  <2>. QED  BY <2>1, <2>2
<1>5. left \in Magazines /\ Len(left) = k /\ DOMAIN left = 1 .. k
  BY <1>1, <1>3, <1>4 DEF Magazines
<1>6. ASSUME NEW i \in 1 .. k, NEW j \in 1 .. k, i < j PROVE left[i] <= left[j]
  <2>1. f[i] \in DOMAIN b /\ f[j] \in DOMAIN b /\ f[i] < f[j]
    BY <1>2, <1>3, <1>6
  <2>2. left[i] = b[f[i]] /\ left[j] = b[f[j]]
    BY <1>1
  <2>. QED  BY <2>1, <2>2 DEF BulletInv
<1>7. k <= MagSize
  BY <1>3, ConstantsAssumption DEF BulletInv
<1>. QED  BY <1>3, <1>5, <1>6, <1>7 DEF BulletInv

-----------------------------------------------------------------------------
(***************************************************************************)
(* The inductive invariant.                                                *)
(***************************************************************************)

PhaseInv(p) ==
    /\ phase[p] = "Playing" /\ presence[p] = "online" => ~ship[p].dead
    /\ phase[p] = "GameOver" => ship[p].dead

PlayerInv(p) ==
    /\ TimersInv(ship[p])
    /\ Accounts(ship[p], explosions[p])
    /\ BulletInv(bullets[p])
    /\ PhaseInv(p)

IInv ==
    /\ TypeOK
    /\ PointsConserved
    /\ \A p \in Players : PlayerInv(p)

\* A step that leaves a player alone keeps what holds of it.
LEMMA FramePlayer ==
    ASSUME NEW p \in Players, PlayerInv(p), ship'[p] = ship[p],
           explosions'[p] = explosions[p], bullets'[p] = bullets[p], phase'[p] = phase[p],
           presence'[p] = "online" => presence[p] = "online"
    PROVE  PlayerInv(p)'
BY DEF PlayerInv, PhaseInv

LEMMA InitIInv == Init => IInv
<1> SUFFICES ASSUME Init PROVE IInv
  OBVIOUS
<1> USE ConstantsAssumption
<1>1. TypeOK
  <2>1. NewShip \in Ships
    BY NewShipInv
  <2>2. ship \in [Players -> Ships]
    BY <2>1 DEF Init
  <2>3. <<>> \in Seq(0 .. BulletTicks) /\ PlayersTurn \in Nat
    BY DEF PlayersTurn
  <2>. QED
    BY <2>2, <2>3 DEF Init, TypeOK, Presences, Phases, Sizes, NoRocks, Idle, Faults
<1>2. PointsConserved
  BY DEF Init, PointsConserved, Worth, NoRocks, Sizes
<1>3. ASSUME NEW p \in Players PROVE PlayerInv(p)
  <2>1. TimersInv(ship[p]) /\ Accounts(ship[p], explosions[p])
    BY NewShipInv DEF Init
  <2>2. BulletInv(bullets[p])
    BY DEF Init, BulletInv
  <2>3. PhaseInv(p)
    BY DEF Init, PhaseInv
  <2>. QED  BY <2>1, <2>2, <2>3 DEF PlayerInv
<1>. QED  BY <1>1, <1>2, <1>3 DEF IInv

\* A player is made, or made anew.
LEMMA RegisterStep ==
    ASSUME IInv, NEW p \in Players, Register(p)
    PROVE  IInv'
<1> USE ConstantsAssumption
<1>1. TypeOK'
  <2>1. ship' \in [Players -> Ships]
    BY NewShipInv DEF Register, IInv, TypeOK
  <2>2. bullets' \in [Players -> Seq(0 .. BulletTicks)]
    BY DEF Register, IInv, TypeOK
  <2>. QED
    BY <2>1, <2>2 DEF Register, IInv, TypeOK, Presences, Phases
<1>2. PointsConserved'
  BY DEF Register, IInv, PointsConserved
<1>3. ASSUME NEW q \in Players PROVE PlayerInv(q)'
  <2>1. CASE q # p
    <3>1. /\ ship'[q] = ship[q] /\ explosions'[q] = explosions[q]
          /\ bullets'[q] = bullets[q] /\ phase'[q] = phase[q] /\ presence'[q] = presence[q]
      BY <2>1 DEF Register, IInv, TypeOK
    <3>. QED  BY <3>1, FramePlayer DEF IInv
  <2>2. CASE q = p
    <3>1. /\ ship'[q] = NewShip /\ explosions'[q] = 0 /\ bullets'[q] = <<>>
          /\ phase'[q] = "InLobby"
      BY <2>2 DEF Register, IInv, TypeOK
    <3>2. BulletInv(bullets[q])'
      BY <3>1 DEF BulletInv
    <3>. QED  BY <3>1, <3>2, NewShipInv DEF PlayerInv, PhaseInv
  <2>. QED  BY <2>1, <2>2
<1>. QED  BY <1>1, <1>2, <1>3 DEF IInv, Players

\* The steps that change nothing of any player but whether its session is open.
LEMMA QuietStep ==
    ASSUME IInv,
           \/ \E p \in Players : Close(p) \/ Click(p) \/ CollideTwice(p) \/ NoSuchPlayer(p)
           \/ StartTick
    PROVE  IInv'
<1> USE ConstantsAssumption
<1>1. /\ ship' = ship /\ explosions' = explosions /\ bullets' = bullets
      /\ phase' = phase /\ score' = score /\ awarded' = awarded
  BY DEF Close, Click, CollideTwice, NoSuchPlayer, StartTick, playerVars
<1>2. \A q \in Players : presence'[q] = "online" => presence[q] = "online"
  BY DEF Close, Click, CollideTwice, NoSuchPlayer, StartTick, playerVars, IInv, TypeOK
<1>3. \A q \in Players : PlayerInv(q)'
  BY <1>1, <1>2, FramePlayer DEF IInv
<1>4. ASSUME NEW p \in Players, Click(p) PROVE TypeOK' /\ PointsConserved'
  <2>1. /\ presence' = presence /\ turn' = turn /\ fault' = fault /\ launched' = launched + 1
        /\ rocks' = [rocks EXCEPT !["large"] = @ + 1] /\ launched < MaxLaunches
    BY <1>4 DEF Click, playerVars, LaunchOne
  <2>2. /\ rocks["large"] \in Nat /\ rocks["medium"] \in Nat /\ rocks["small"] \in Nat
        /\ launched \in Nat /\ awarded \in Nat /\ launched' \in 0 .. MaxLaunches
    BY <2>1 DEF IInv, TypeOK, Sizes
  <2>3. /\ rocks' \in [Sizes -> Nat] /\ rocks'["large"] = rocks["large"] + 1
        /\ rocks'["medium"] = rocks["medium"] /\ rocks'["small"] = rocks["small"]
    BY <2>1, <2>2 DEF IInv, TypeOK, Sizes
  <2>4. PointsConserved'
    BY <1>1, <2>1, <2>2, <2>3 DEF IInv, PointsConserved, Worth
  <2>5. TypeOK'
    BY <1>1, <2>1, <2>2, <2>3 DEF IInv, TypeOK
  <2>. QED  BY <2>4, <2>5
<1>5. ASSUME NEW p \in Players, Close(p) PROVE TypeOK' /\ PointsConserved'
  BY <1>1, <1>5 DEF Close, IInv, TypeOK, Presences, PointsConserved
<1>6. ASSUME NEW p \in Players, CollideTwice(p) PROVE TypeOK' /\ PointsConserved'
  BY <1>1, <1>6 DEF CollideTwice, playerVars, IInv, TypeOK, Faults, PointsConserved
<1>7. ASSUME NEW p \in Players, NoSuchPlayer(p) PROVE TypeOK' /\ PointsConserved'
  <2>1. /\ UNCHANGED <<presence, rocks, launched, fault>>
        /\ turn' \in 0 .. PlayersTurn
    BY <1>7 DEF NoSuchPlayer, playerVars, IInv, TypeOK, Players, PlayersTurn
  <2>. QED  BY <1>1, <2>1 DEF IInv, TypeOK, PointsConserved
<1>8. ASSUME StartTick PROVE TypeOK' /\ PointsConserved'
  <2>1. /\ UNCHANGED <<presence, rocks, launched, fault>>
        /\ turn' \in 0 .. PlayersTurn
    BY <1>8 DEF StartTick, playerVars, PlayersTurn
  <2>. QED  BY <1>1, <2>1 DEF IInv, TypeOK, PointsConserved
<1>9. TypeOK' /\ PointsConserved'
  BY <1>4, <1>5, <1>6, <1>7, <1>8
<1>. QED  BY <1>3, <1>9 DEF IInv, Players

\* A key may fire a bullet, and brings a new ship once the old one is dead.
LEMMA KeyDownStep ==
    ASSUME IInv, NEW p \in Players, NEW space \in BOOLEAN, KeyDown(p, space)
    PROVE  IInv'
<1> USE ConstantsAssumption
<1>1. UNCHANGED <<presence, rocks, turn, launched, awarded, fault>>
  BY DEF KeyDown
<1>2. bullets[p] \in Magazines /\ BulletInv(bullets[p]) /\ ship[p] \in Ships
  BY DEF IInv, PlayerInv, TypeOK, Magazines
<1>3. /\ bullets' = [bullets EXCEPT ![p] = IF space THEN Fire(@) ELSE @]
      /\ phase' = [phase EXCEPT ![p] = "Playing"]
  BY DEF KeyDown
<1>4. /\ bullets' \in [Players -> Magazines] /\ BulletInv(bullets'[p])
      /\ phase' \in [Players -> Phases] /\ phase'[p] = "Playing"
      /\ \A q \in Players : q # p => bullets'[q] = bullets[q] /\ phase'[q] = phase[q]
  <2>1. Fire(bullets[p]) \in Magazines /\ BulletInv(Fire(bullets[p]))
    BY <1>2, FireInv
  <2>2. bullets \in [Players -> Magazines] /\ phase \in [Players -> Phases]
    BY DEF IInv, TypeOK, Magazines
  <2>. QED  BY <1>2, <1>3, <2>1, <2>2 DEF Phases
<1>5. CASE phase[p] # "Playing" /\ ship[p].dead
  <2>1. /\ score' = [score EXCEPT ![p] = 0]
        /\ ship' = [ship EXCEPT ![p] = Resurrect(@)]
        /\ explosions' = [explosions EXCEPT ![p] = 0]
    BY <1>5 DEF KeyDown
  <2>2. /\ Resurrect(ship[p]) \in Ships /\ TimersInv(Resurrect(ship[p]))
        /\ Accounts(Resurrect(ship[p]), 0) /\ ~Resurrect(ship[p]).dead
    BY <1>2, ResurrectInv
  <2>3. /\ score' \in [Players -> Nat] /\ ship' \in [Players -> Ships]
        /\ explosions' \in [Players -> Nat]
        /\ ship'[p] = Resurrect(ship[p]) /\ explosions'[p] = 0
        /\ \A q \in Players : q # p => ship'[q] = ship[q] /\ explosions'[q] = explosions[q]
    BY <2>1, <2>2 DEF IInv, TypeOK
  <2>4. TypeOK'
    BY <1>1, <1>4, <2>3 DEF IInv, TypeOK, Magazines
  <2>5. ASSUME NEW q \in Players PROVE PlayerInv(q)'
    <3>1. CASE q # p
      BY <1>1, <1>4, <2>3, <3>1, FramePlayer DEF IInv
    <3>2. CASE q = p
      BY <1>4, <2>2, <2>3, <3>2 DEF PlayerInv, PhaseInv
    <3>. QED  BY <3>1, <3>2
  <2>6. PointsConserved'
    BY <1>1 DEF IInv, PointsConserved
  <2>. QED  BY <2>4, <2>5, <2>6 DEF IInv, Players
<1>6. CASE ~(phase[p] # "Playing" /\ ship[p].dead)
  <2>1. score' = score /\ ship' = ship /\ explosions' = explosions
    BY <1>6 DEF KeyDown
  <2>2. TypeOK'
    BY <1>1, <1>4, <2>1 DEF IInv, TypeOK, Magazines
  <2>3. ~ship[p].dead
    <3>1. presence[p] = "online" /\ PhaseInv(p)
      BY DEF KeyDown, IInv, PlayerInv
    <3>. QED  BY <1>6, <3>1 DEF PhaseInv
  <2>4. ASSUME NEW q \in Players PROVE PlayerInv(q)'
    <3>1. CASE q # p
      BY <1>1, <1>4, <2>1, <3>1, FramePlayer DEF IInv
    <3>2. CASE q = p
      BY <1>4, <2>1, <2>3, <3>2 DEF IInv, PlayerInv, PhaseInv
    <3>. QED  BY <3>1, <3>2
  <2>5. PointsConserved'
    BY <1>1 DEF IInv, PointsConserved
  <2>. QED  BY <2>2, <2>4, <2>5 DEF IInv, Players
<1>. QED  BY <1>5, <1>6

\* Destroying rocks turns what they are worth into points.
LEMMA DestroyConserves ==
    ASSUME NEW f \in [Sizes -> Nat], NEW r \in [Sizes -> Nat],
           \A s \in Sizes : r[s] <= f[s]
    PROVE  /\ Destroy(f, r) \in [Sizes -> Nat] /\ Award(r) \in Nat
           /\ Award(r) + Worth(Destroy(f, r)) = Worth(f)
<1>1. /\ f["large"] \in Nat /\ f["medium"] \in Nat /\ f["small"] \in Nat
      /\ r["large"] \in Nat /\ r["medium"] \in Nat /\ r["small"] \in Nat
      /\ r["large"] <= f["large"] /\ r["medium"] <= f["medium"] /\ r["small"] <= f["small"]
  BY DEF Sizes
<1> DEFINE g == Destroy(f, r)
<1>2. g = [f EXCEPT !["large"]  = f["large"] - r["large"],
                    !["medium"] = f["medium"] - r["medium"] + 2 * r["large"],
                    !["small"]  = f["small"] - r["small"] + 2 * r["medium"]]
  BY DEF Destroy, Sizes
<1>3. /\ g["large"] = f["large"] - r["large"]
      /\ g["medium"] = f["medium"] - r["medium"] + 2 * r["large"]
      /\ g["small"] = f["small"] - r["small"] + 2 * r["medium"]
      /\ DOMAIN g = Sizes
  BY <1>2 DEF Sizes
<1>4. g \in [Sizes -> Nat]
  <2>1. /\ f["large"] - r["large"] \in Nat
        /\ f["medium"] - r["medium"] + 2 * r["large"] \in Nat
        /\ f["small"] - r["small"] + 2 * r["medium"] \in Nat
    BY <1>1
  <2>. QED  BY <1>2, <2>1 DEF Sizes
<1> HIDE DEF g
<1>5. Award(r) \in Nat
  BY <1>1 DEF Award
<1>6. Award(r) + Worth(g) = Worth(f)
  BY <1>1, <1>3 DEF Award, Worth
<1>. QED  BY <1>4, <1>5, <1>6 DEF g

\* The collisions of a player: bullets and a ship against rocks.
LEMMA CollideStep ==
    ASSUME IInv, NEW p \in Players, Collide(p)
    PROVE  IInv'
<1> USE ConstantsAssumption
<1>1. /\ UNCHANGED <<presence, phase, launched, fault>> /\ turn' = turn + 1 /\ turn = p
  BY DEF Collide
<1>2. PICK left \in Survivors(bullets[p]), crash \in BOOLEAN, broken \in [Sizes -> 0 .. MagSize + 1] :
          /\ crash => CanCrash(ship[p])
          /\ \A s \in Sizes : broken[s] <= rocks[s]
          /\ bullets' = [bullets EXCEPT ![p] = left]
          /\ score' = [score EXCEPT ![p] = @ + Award(broken)]
          /\ awarded' = awarded + Award(broken)
          /\ rocks' = Destroy(rocks, broken)
          /\ ship' = [ship EXCEPT ![p] = IF crash THEN Explode(@) ELSE @]
          /\ explosions' = [explosions EXCEPT ![p] = IF crash THEN @ + 1 ELSE @]
  BY DEF Collide
<1>3. /\ bullets[p] \in Magazines /\ BulletInv(bullets[p]) /\ ship[p] \in Ships
      /\ explosions[p] \in Nat /\ awarded \in Nat /\ score[p] \in Nat
      /\ rocks \in [Sizes -> Nat]
      /\ TimersInv(ship[p]) /\ Accounts(ship[p], explosions[p]) /\ PhaseInv(p)
  BY DEF IInv, PlayerInv, TypeOK, Magazines
<1>4. left \in Magazines /\ BulletInv(left)
  BY <1>3, SurvivorsInv
<1>5. /\ Destroy(rocks, broken) \in [Sizes -> Nat] /\ Award(broken) \in Nat
      /\ Award(broken) + Worth(Destroy(rocks, broken)) = Worth(rocks)
  <2>1. broken \in [Sizes -> Nat]
    OBVIOUS
  <2>. QED  BY <1>2, <1>3, <2>1, DestroyConserves
<1>6. /\ ship'[p] \in Ships /\ TimersInv(ship'[p]) /\ Accounts(ship'[p], explosions'[p])
      /\ ship'[p].dead = ship[p].dead /\ explosions'[p] \in Nat
      /\ \A q \in Players : q # p => ship'[q] = ship[q] /\ explosions'[q] = explosions[q]
      /\ ship' \in [Players -> Ships] /\ explosions' \in [Players -> Nat]
  <2>1. CASE crash
    <3>1. /\ ship' = [ship EXCEPT ![p] = Explode(@)]
          /\ explosions' = [explosions EXCEPT ![p] = @ + 1]
      BY <1>2, <2>1
    <3>2. /\ Explode(ship[p]) \in Ships /\ TimersInv(Explode(ship[p]))
          /\ Accounts(Explode(ship[p]), explosions[p] + 1)
          /\ Explode(ship[p]).dead = ship[p].dead
      BY <1>2, <1>3, <2>1, ExplodeInv
    <3>3. ship \in [Players -> Ships] /\ explosions \in [Players -> Nat]
      BY DEF IInv, TypeOK
    <3>4. ship'[p] = Explode(ship[p]) /\ explosions'[p] = explosions[p] + 1
      BY <3>1, <3>3
    <3>5. \A q \in Players : q # p => ship'[q] = ship[q] /\ explosions'[q] = explosions[q]
      BY <3>1, <3>3
    <3>6. ship' \in [Players -> Ships] /\ explosions' \in [Players -> Nat]
      BY <3>1, <3>2, <3>3
    <3>. QED  BY <3>2, <3>4, <3>5, <3>6
  <2>2. CASE ~crash
    <3>1. ship' = ship /\ explosions' = explosions
      BY <1>2, <2>2 DEF IInv, TypeOK
    <3>. QED  BY <1>3, <3>1 DEF IInv, TypeOK
  <2>. QED  BY <2>1, <2>2
<1>7. TypeOK'
  <2>1. bullets' \in [Players -> Seq(0 .. BulletTicks)]
    BY <1>2, <1>4 DEF IInv, TypeOK, Magazines
  <2>2. score' \in [Players -> Nat] /\ awarded' \in Nat
    BY <1>2, <1>3, <1>5 DEF IInv, TypeOK
  <2>3. turn' \in 0 .. PlayersTurn
    BY <1>1 DEF Players, PlayersTurn
  <2>. QED  BY <1>1, <1>2, <1>5, <1>6, <2>1, <2>2, <2>3 DEF IInv, TypeOK
<1>8. PointsConserved'
  <2>1. Worth(rocks) \in Nat /\ Worth(rocks') \in Nat
    BY <1>2, <1>3, <1>5 DEF Worth, Sizes
  <2>2. awarded' = awarded + Award(broken) /\ Award(broken) + Worth(rocks') = Worth(rocks)
    BY <1>2, <1>5
  <2>3. awarded' + Worth(rocks') = awarded + Worth(rocks)
    BY <1>3, <1>5, <2>1, <2>2
  <2>4. Worth(rocks)' = Worth(rocks')
    BY DEF Worth
  <2>. QED  BY <1>1, <2>3, <2>4 DEF IInv, PointsConserved
<1>9. ASSUME NEW q \in Players PROVE PlayerInv(q)'
  <2>1. CASE q # p
    <3>1. bullets'[q] = bullets[q]
      BY <1>2, <2>1 DEF IInv, TypeOK
    <3>. QED  BY <1>1, <1>6, <2>1, <3>1, FramePlayer DEF IInv
  <2>2. CASE q = p
    <3>1. bullets'[p] = left
      BY <1>2 DEF IInv, TypeOK
    <3>2. PhaseInv(p)'
      BY <1>1, <1>3, <1>6 DEF PhaseInv
    <3>. QED  BY <1>4, <1>6, <2>2, <3>1, <3>2 DEF PlayerInv
  <2>. QED  BY <2>1, <2>2
<1>. QED  BY <1>7, <1>8, <1>9 DEF IInv, Players

\* The ships' and guns' ticks; a player whose ship dies has lost.
LEMMA PlayersTickStep ==
    ASSUME IInv, PlayersTick
    PROVE  /\ IInv'
           /\ \A p \in Players : Len(bullets'[p]) < Len(bullets[p]) => Head(bullets[p]) <= 1
<1> USE ConstantsAssumption
<1>1. /\ UNCHANGED <<presence, score, rocks, launched, awarded, explosions, fault>>
      /\ turn' = Idle
      /\ ship' = [p \in Players |-> AfterTick(p)]
      /\ bullets' = [p \in Players |-> IF Ticked(p) THEN GunTick(bullets[p]) ELSE bullets[p]]
      /\ phase' = [p \in Players |->
                    IF presence[p] = "online" /\ AfterTick(p).dead /\ phase[p] = "Playing"
                    THEN "GameOver" ELSE phase[p]]
  BY DEF PlayersTick
<1>2. ASSUME NEW p \in Players
      PROVE  /\ ship'[p] \in Ships /\ TimersInv(ship'[p]) /\ Accounts(ship'[p], explosions[p])
             /\ ship'[p] = AfterTick(p) /\ (ship[p].dead => ship'[p] = ship[p])
             /\ presence[p] # "online" => ship'[p] = ship[p]
  <2>1. /\ ship[p] \in Ships /\ explosions[p] \in Nat
        /\ TimersInv(ship[p]) /\ Accounts(ship[p], explosions[p])
    BY DEF IInv, PlayerInv, TypeOK
  <2>2. ship'[p] = AfterTick(p)
    BY <1>1
  <2>3. CASE Ticked(p)
    <3>1. AfterTick(p) = ShipTick(ship[p]) /\ ~ship[p].dead /\ presence[p] = "online"
      BY <2>3 DEF AfterTick, Ticked
    <3>. QED  BY <2>1, <2>2, <3>1, ShipTickInv
  <2>4. CASE ~Ticked(p)
    <3>1. AfterTick(p) = ship[p]
      BY <2>4 DEF AfterTick
    <3>. QED  BY <2>1, <2>2, <3>1
  <2>. QED  BY <2>3, <2>4
<1>3. ASSUME NEW p \in Players
      PROVE  /\ bullets'[p] \in Magazines /\ BulletInv(bullets'[p])
             /\ Len(bullets'[p]) < Len(bullets[p]) => Head(bullets[p]) <= 1
  <2>1. bullets[p] \in Magazines /\ BulletInv(bullets[p]) /\ Len(bullets[p]) \in Nat
    BY DEF IInv, PlayerInv, TypeOK, Magazines
  <2>2. CASE Ticked(p)
    <3>1. bullets'[p] = GunTick(bullets[p])
      BY <1>1, <2>2
    <3>. QED  BY <2>1, <3>1, GunTickInv
  <2>3. CASE ~Ticked(p)
    <3>1. bullets'[p] = bullets[p]
      BY <1>1, <2>3
    <3>. QED  BY <2>1, <3>1
  <2>. QED  BY <2>2, <2>3
<1>4. ASSUME NEW p \in Players
      PROVE  phase'[p] \in Phases /\ PhaseInv(p)'
  <2>1. PhaseInv(p) /\ phase[p] \in Phases
    BY DEF IInv, PlayerInv, TypeOK
  <2>2. CASE presence[p] = "online" /\ AfterTick(p).dead /\ phase[p] = "Playing"
    <3>1. phase'[p] = "GameOver" /\ ship'[p].dead
      BY <1>1, <1>2, <2>2
    <3>. QED  BY <3>1 DEF PhaseInv, Phases
  <2>3. CASE ~(presence[p] = "online" /\ AfterTick(p).dead /\ phase[p] = "Playing")
    <3>1. phase'[p] = phase[p]
      BY <1>1, <2>3
    <3>2. phase[p] = "GameOver" => ship'[p].dead
      BY <1>2, <2>1 DEF PhaseInv
    <3>3. phase[p] = "Playing" /\ presence[p] = "online" => ~ship'[p].dead
      BY <1>2, <2>3
    <3>. QED  BY <1>1, <2>1, <3>1, <3>2, <3>3 DEF PhaseInv
  <2>. QED  BY <2>2, <2>3
<1>5. TypeOK'
  <2>1. ship' \in [Players -> Ships]
    BY <1>1, <1>2
  <2>2. bullets' \in [Players -> Seq(0 .. BulletTicks)]
    BY <1>1, <1>3 DEF Magazines
  <2>3. phase' \in [Players -> Phases]
    BY <1>1, <1>4
  <2>4. turn' \in 0 .. PlayersTurn
    BY <1>1 DEF Idle, PlayersTurn
  <2>. QED  BY <1>1, <2>1, <2>2, <2>3, <2>4 DEF IInv, TypeOK
<1>6. PointsConserved'
  BY <1>1 DEF IInv, PointsConserved
<1>7. ASSUME NEW p \in Players PROVE PlayerInv(p)'
  BY <1>1, <1>2, <1>3, <1>4 DEF PlayerInv
<1>. QED  BY <1>3, <1>5, <1>6, <1>7 DEF IInv, Players

LEMMA NextIInv == IInv /\ [Next]_vars => IInv'
<1> SUFFICES ASSUME IInv, [Next]_vars PROVE IInv'
  OBVIOUS
<1>1. ASSUME NEW p \in Players, Register(p) PROVE IInv'
  BY <1>1, RegisterStep
<1>2. ASSUME NEW p \in Players, KeyDown(p, TRUE) \/ KeyDown(p, FALSE) PROVE IInv'
  BY <1>2, KeyDownStep
<1>3. ASSUME NEW p \in Players, Close(p) \/ Click(p) \/ CollideTwice(p) \/ NoSuchPlayer(p)
      PROVE  IInv'
  BY <1>3, QuietStep
<1>4. ASSUME NEW p \in Players, Collide(p) PROVE IInv'
  BY <1>4, CollideStep
<1>5. CASE StartTick
  BY <1>5, QuietStep
<1>6. CASE PlayersTick
  BY <1>6, PlayersTickStep
<1>7. CASE UNCHANGED vars
  BY <1>7 DEF vars, IInv, TypeOK, PointsConserved, PlayerInv, PhaseInv
<1>. QED  BY <1>1, <1>2, <1>3, <1>4, <1>5, <1>6, <1>7 DEF Next, Ticking

-----------------------------------------------------------------------------
(***************************************************************************)
(* The theorems.                                                           *)
(***************************************************************************)

LEMMA Invariance == Spec => []IInv
BY InitIInv, NextIInv, PTL DEF Spec

\* Every variable of the game keeps its type.
THEOREM TypeCorrect == Spec => []TypeOK
<1>1. IInv => TypeOK
  BY DEF IInv
<1>. QED  BY Invariance, <1>1, PTL

\* Points awarded and points still in the field are those of the rocks launched.
THEOREM PointsAreConserved == Spec => []PointsConserved
<1>1. IInv => PointsConserved
  BY DEF IInv
<1>. QED  BY Invariance, <1>1, PTL

\* The lives shown account for the explosions.
THEOREM LivesAreAccounted == Spec => []LivesAccount
<1>1. IInv => LivesAccount
  BY DEF IInv, PlayerInv, Accounts, LivesAccount
<1>. QED  BY Invariance, <1>1, PTL

\* Phase and ship agree on who is still in the game.
THEOREM PhasesMatchShips == Spec => []PhaseMatchesShip
<1>1. IInv => PhaseMatchesShip
  BY DEF IInv, PlayerInv, PhaseInv, PhaseMatchesShip
<1>. QED  BY Invariance, <1>1, PTL

\* The gun keeps its limit, and its bullets in the order of their ages.
THEOREM BulletsAreInOrder == Spec => []BulletsInOrder
<1>1. IInv => BulletsInOrder
  BY DEF IInv, PlayerInv, BulletInv, BulletsInOrder
<1>. QED  BY Invariance, <1>1, PTL

\* The timer of an explosion is full whenever none is going on.
THEOREM ExplosionsAreFull == Spec => []ExplosionFull
<1>1. IInv => ExplosionFull
  BY DEF IInv, PlayerInv, TimersInv, ExplosionFull
<1>. QED  BY Invariance, <1>1, PTL

\* The bullet a tick takes out of the air is one that has timed out.
THEOREM ExpiredBulletsPopped == Spec => OnlyExpiredPopped
<1>1. IInv /\ [Next]_vars =>
          [ PlayersTick =>
              \A p \in Players :
                  Len(bullets'[p]) < Len(bullets[p]) => Head(bullets[p]) <= 1 ]_vars
  BY PlayersTickStep
<1>. QED  BY Invariance, <1>1, PTL DEF Spec, OnlyExpiredPopped

-----------------------------------------------------------------------------
(***************************************************************************)
(* The lives of the players' ships, as ShipLife has them.                  *)
(***************************************************************************)

Stage(s) ==
    IF s.dead THEN "dead"
    ELSE IF s.exploding THEN "exploding"
    ELSE IF s.invulnerable THEN "protected"
    ELSE "vulnerable"

Life(p) == INSTANCE ShipLife WITH stage <- Stage(ship[p]), lives <- ship[p].livesLeft

\* Collisions, the keys of players and the ticks of one handler, for all players,
\* lead each ship through the life of module ShipLife.  Only a browser that registers
\* once more starts it anew at any time.
LivesLed ==
    /\ \A p \in Players : Life(p)!Init
    /\ [][ \A p \in Players :
              Register(p) \/ Life(p)!Next \/ UNCHANGED Life(p)!vars ]_vars

LifeStep(p) == Life(p)!Next \/ UNCHANGED Life(p)!vars

LEMMA NoLifeStep ==
    ASSUME NEW p \in Players, ship'[p] = ship[p]
    PROVE  LifeStep(p)
BY DEF LifeStep, Life!vars

\* A crash.
LEMMA ExplodeLife ==
    ASSUME NEW p \in Players, ship[p] \in Ships, CanCrash(ship[p]),
           ship'[p] = Explode(ship[p])
    PROVE  LifeStep(p)
<1> DEFINE s == ship[p]
           t == ship'[p]
<1>1. /\ t.exploding = TRUE /\ t.dead = s.dead /\ t.livesLeft = s.livesLeft
      /\ ~s.exploding /\ ~s.invulnerable
  BY DEF Explode, Ships, CanCrash
<1>2. CASE s.dead
  <2>1. Stage(t) = "dead" /\ Stage(s) = "dead"
    BY <1>1, <1>2 DEF Stage
  <2>. QED  BY <1>1, <2>1 DEF LifeStep, Life!vars
<1>3. CASE ~s.dead
  <2>1. Stage(t) = "exploding" /\ Stage(s) = "vulnerable"
    BY <1>1, <1>3 DEF Stage
  <2>. QED  BY <1>1, <2>1 DEF LifeStep, Life!Next, Life!Hit
<1>. QED  BY <1>2, <1>3

\* The key that begins a new game.
LEMMA ResurrectLife ==
    ASSUME NEW p \in Players, ship[p] \in Ships, ship[p].dead,
           ship'[p] = Resurrect(ship[p])
    PROVE  LifeStep(p)
<1>1. ship'[p] = NewShip
  BY ResurrectInv
<1>2. Stage(ship'[p]) = "protected" /\ ship'[p].livesLeft = NumLives
  BY <1>1 DEF NewShip, Stage
<1>3. Stage(ship[p]) = "dead"
  BY DEF Stage
<1>. QED  BY <1>2, <1>3 DEF LifeStep, Life!Next, Life!Resurrect

\* A tick of the ship's timers.
LEMMA ShipTickLife ==
    ASSUME NEW p \in Players, ship[p] \in Ships, ~ship[p].dead,
           ship'[p] = ShipTick(ship[p])
    PROVE  LifeStep(p)
<1> DEFINE s == ship[p]
           t == ship'[p]
<1>1. s \in Ships
  OBVIOUS
<1>2. CASE s.exploding /\ s.explosion = 1
  <2>1. Stage(s) = "exploding"
    BY <1>2 DEF Stage
  <2>2. PICK u : u = [s EXCEPT !.explosion = ExplodeTicks, !.exploding = FALSE]
    OBVIOUS
  <2>3. t = NewLife(u)
    BY <1>2, <2>2 DEF ShipTick, ExplosionTick
  <2>4. u = [dead |-> s.dead, exploding |-> FALSE, invulnerable |-> s.invulnerable,
             livesLeft |-> s.livesLeft, explosion |-> ExplodeTicks, inv |-> s.inv]
    BY <2>2 DEF Ships
  <2>5. CASE s.livesLeft > 0
    <3>1. t = [u EXCEPT !.invulnerable = TRUE, !.explosion = ExplodeTicks, !.inv = InvTicks,
                        !.exploding = FALSE, !.dead = FALSE, !.livesLeft = @ - 1]
      BY <2>3, <2>4, <2>5 DEF NewLife
    <3>2. /\ t.dead = FALSE /\ t.exploding = FALSE /\ t.invulnerable = TRUE
          /\ t.livesLeft = s.livesLeft - 1
      BY <2>4, <3>1
    <3>3. Stage(t) = "protected"
      BY <3>2 DEF Stage
    <3>. QED  BY <2>1, <2>5, <3>2, <3>3 DEF LifeStep, Life!Next, Life!BurnOut
  <2>6. CASE ~(s.livesLeft > 0)
    <3>1. t = [u EXCEPT !.dead = TRUE]
      BY <2>3, <2>4, <2>6 DEF NewLife
    <3>2. t.dead = TRUE /\ t.livesLeft = s.livesLeft
      BY <2>4, <3>1
    <3>3. Stage(t) = "dead" /\ s.livesLeft = 0
      BY <1>1, <2>6, <3>2, ConstantsAssumption DEF Stage, Ships
    <3>. QED  BY <2>1, <3>2, <3>3 DEF LifeStep, Life!Next, Life!BurnOut
  <2>. QED  BY <2>5, <2>6
<1>3. CASE ~s.exploding /\ s.invulnerable /\ s.inv = 1
  <2>1. t = [s EXCEPT !.inv = 0, !.invulnerable = FALSE]
    BY <1>3 DEF ShipTick, InvulnerableTick
  <2>2. t.invulnerable = FALSE /\ t.dead = s.dead /\ t.exploding = s.exploding
        /\ t.livesLeft = s.livesLeft
    BY <1>1, <2>1 DEF Ships
  <2>3. Stage(t) = "vulnerable" /\ Stage(s) = "protected"
    BY <1>3, <2>2 DEF Stage
  <2>. QED  BY <2>2, <2>3 DEF LifeStep, Life!Next, Life!WearOff
<1>4. ASSUME t.dead = s.dead, t.exploding = s.exploding, t.invulnerable = s.invulnerable,
             t.livesLeft = s.livesLeft
      PROVE  LifeStep(p)
  BY <1>4 DEF LifeStep, Life!vars, Stage
<1>5. CASE s.exploding /\ s.explosion # 1
  <2>1. t = [s EXCEPT !.explosion = @ - 1]
    BY <1>5 DEF ShipTick, ExplosionTick
  <2>. QED  BY <1>1, <1>4, <2>1 DEF Ships
<1>6. CASE ~s.exploding /\ s.invulnerable /\ s.inv # 1
  <2>1. t = [s EXCEPT !.inv = @ - 1]
    BY <1>6 DEF ShipTick, InvulnerableTick
  <2>. QED  BY <1>1, <1>4, <2>1 DEF Ships
<1>7. CASE ~s.exploding /\ ~s.invulnerable
  <2>1. t = s
    BY <1>7 DEF ShipTick
  <2>. QED  BY <1>4, <2>1
<1>. QED  BY <1>2, <1>3, <1>5, <1>6, <1>7

LEMMA EveryLifeStep ==
    ASSUME IInv, [Next]_vars, NEW p \in Players
    PROVE  Register(p) \/ LifeStep(p)
<1>1. ship \in [Players -> Ships] /\ ship[p] \in Ships
  BY DEF IInv, TypeOK
<1>2. ASSUME NEW q \in Players, Register(q)
      PROVE  Register(p) \/ LifeStep(p)
  <2>1. CASE q = p
    BY <1>2, <2>1
  <2>2. CASE q # p
    <3>1. ship'[p] = ship[p]
      BY <1>1, <1>2, <2>2 DEF Register
    <3>. QED  BY <3>1, NoLifeStep
  <2>. QED  BY <2>1, <2>2
<1>3. ASSUME NEW q \in Players, NEW space \in BOOLEAN, KeyDown(q, space)
      PROVE  LifeStep(p)
  <2>1. CASE q = p /\ ship[p].dead /\ ship' = [ship EXCEPT ![q] = Resurrect(@)]
    <3>1. ship'[p] = Resurrect(ship[p])
      BY <1>1, <2>1
    <3>. QED  BY <1>1, <2>1, <3>1, ResurrectLife
  <2>2. CASE q # p /\ ship' = [ship EXCEPT ![q] = Resurrect(@)]
    <3>1. ship'[p] = ship[p]
      BY <1>1, <2>2
    <3>. QED  BY <3>1, NoLifeStep
  <2>3. CASE ship' = ship
    BY <2>3, NoLifeStep
  <2>. QED  BY <1>3, <2>1, <2>2, <2>3 DEF KeyDown
<1>4. ASSUME NEW q \in Players, Collide(q)
      PROVE  LifeStep(p)
  <2>1. PICK crash \in BOOLEAN :
             /\ crash => CanCrash(ship[q])
             /\ ship' = [ship EXCEPT ![q] = IF crash THEN Explode(@) ELSE @]
    BY <1>4 DEF Collide
  <2>2. CASE q = p /\ crash
    <3>1. ship'[p] = Explode(ship[p]) /\ CanCrash(ship[p])
      BY <1>1, <2>1, <2>2
    <3>. QED  BY <1>1, <3>1, ExplodeLife
  <2>3. CASE ~(q = p /\ crash)
    <3>1. ship'[p] = ship[p]
      BY <1>1, <2>1, <2>3
    <3>. QED  BY <3>1, NoLifeStep
  <2>. QED  BY <2>2, <2>3
<1>5. CASE PlayersTick
  <2>1. ship'[p] = AfterTick(p)
    BY <1>5 DEF PlayersTick
  <2>2. CASE Ticked(p)
    <3>1. ship'[p] = ShipTick(ship[p]) /\ ~ship[p].dead
      BY <2>1, <2>2 DEF AfterTick, Ticked
    <3>. QED  BY <1>1, <3>1, ShipTickLife
  <2>3. CASE ~Ticked(p)
    <3>1. ship'[p] = ship[p]
      BY <2>1, <2>3 DEF AfterTick
    <3>. QED  BY <3>1, NoLifeStep
  <2>. QED  BY <2>2, <2>3
<1>6. ASSUME NEW q \in Players, Close(q) \/ Click(q) \/ CollideTwice(q) \/ NoSuchPlayer(q)
      PROVE  LifeStep(p)
  BY <1>6, NoLifeStep DEF Close, Click, CollideTwice, NoSuchPlayer, playerVars
<1>7. CASE StartTick \/ UNCHANGED vars
  BY <1>7, NoLifeStep DEF StartTick, playerVars, vars
<1>. QED  BY <1>2, <1>3, <1>4, <1>5, <1>6, <1>7 DEF Next, Ticking

\* The players' ships implement ShipLife, each for itself and however many there are:
\* the specification that a ship with its timers implements in ShipBody_proofs.
THEOREM PlayersLeadLives == Spec => LivesLed
<1>1. Init => \A p \in Players : Life(p)!Init
  BY DEF Init, NewShip, Stage, Life!Init
<1>2. IInv /\ [Next]_vars =>
          [ \A p \in Players : Register(p) \/ Life(p)!Next \/ UNCHANGED Life(p)!vars ]_vars
  <2>1. IInv /\ [Next]_vars => \A p \in Players : Register(p) \/ LifeStep(p)
    BY EveryLifeStep
  <2>. QED  BY <2>1 DEF LifeStep
<1>. QED  BY <1>1, <1>2, Invariance, PTL DEF Spec, LivesLed
=============================================================================
