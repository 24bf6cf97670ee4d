------------------------------ MODULE ShipBody ------------------------------
(***************************************************************************)
(* A ship, its window on the universe, and its timers: Ship and the part   *)
(* of Player that passes them to the browser.                              *)
(*                                                                         *)
(* The two axes run the same code side by side, so that one is modelled.   *)
(* Windows lie on whole pixels, the ship in between: its position and its  *)
(* velocity, which are doubles, count parts of a pixel, of which "Grain"   *)
(* make one, and a window that slides is cut off to the pixel below.       *)
(* Where the ship points only says which way thrust pushes it, so that it  *)
(* pushes either way.  Durations count ticks: 181 of invulnerability are   *)
(* SHIP_INV_DUR * FPS and one, as the timer has to fall below zero, which  *)
(* is where the doubles of the code arrive too.                            *)
(***************************************************************************)
EXTENDS Integers

CONSTANTS
    Grain,          \* how finely a position divides a pixel
    Size,           \* g_universe->sizeW in pixels, even
    Margin,         \* VIEWPORT_MARGIN in pixels
    ShipRadius,     \* SHIP_SIZE / 2 in parts of a pixel
    MaxDelta,       \* SHIP_MAX_DELTA_V in parts of a pixel
    Windows,        \* the widths of browser windows in pixels
    NumLives,       \* NUM_LIVES
    ExplodeTicks,   \* SHIP_EXPLODE_DUR in ticks
    InvTicks,       \* SHIP_INV_DUR in ticks
    BlinkTicks,     \* SHIP_BLINK_DUR in ticks
    Blinks          \* SHIP_INV_DUR / SHIP_BLINK_DUR

\* n pixels in parts of a pixel.
Px(n) == Grain * n

ASSUME LengthsAssumption ==
    /\ Grain \in Nat \ {0}
    /\ Size \in Nat \ {0}
    /\ Size < 65536
    /\ MaxDelta \in Nat \ {0}
    /\ ShipRadius \in Nat \ {0}
    /\ Grain <= ShipRadius
    /\ Margin \in Nat
    /\ ShipRadius + MaxDelta <= Px(Margin)
    /\ Windows \subseteq Margin .. Size
    /\ \A w \in Windows : ShipRadius <= Px(w \div 2)

ASSUME TimesAssumption ==
    /\ NumLives \in Nat \ {0}
    /\ ExplodeTicks \in Nat \ {0}
    /\ InvTicks \in Nat \ {0}
    /\ BlinkTicks \in Nat \ {0}
    /\ Blinks \in Nat

\* Protection ends during the last blink, 181 ticks after it began for 14 blinks of
\* 13: on this alone it depends that no ship is left invisible.
ASSUME BlinksAssumption ==
    InvTicks \in BlinkTicks * (Blinks - 1) + 2 .. BlinkTicks * Blinks + 1

VARIABLES
    pos,            \* Ship::posX
    delta,          \* Ship::deltaX
    thrusting,      \* Ship::m_thrusting
    ctxO,           \* Ship::ctxOX, the left end of the window
    ctxW,           \* ctxW of the ship and of the player
    view,           \* Player::ctxOX, which is sent to the browser with pos
    life,           \* m_exploding, m_dead, m_invulnerable, m_lives_left
    explosion,      \* m_explosion_duration
    inv,            \* m_inv_duration
    blinkTime,      \* m_blink_time
    blinkNum,       \* m_blink_num
    visible,        \* m_visible
    recentred       \* history: a resize has moved the window, the ship not yet

motion == <<pos, delta, ctxO, ctxW, view, recentred>>
timers == <<explosion, inv, blinkTime, blinkNum, visible>>
vars == <<motion, thrusting, life, timers>>

Lives == [exploding : BOOLEAN, dead : BOOLEAN, invulnerable : BOOLEAN, left : 0 .. NumLives]

Uint16(n) == n % 65536

-----------------------------------------------------------------------------
\* The window.

\* Ship's constructor and ResizeEvent: the window is put in the middle of the universe.
Centred(w) == Uint16(Size \div 2 - w \div 2)

\* The pixel a place of the ship is on: the cast to uint16_t cuts off the rest.
Pixel(p) == p \div Grain

\* Mutant: a window is pulled along up to the edge of the universe.
SlideUnguarded(p, o, w) ==
    IF p < Px(o + Margin) THEN Uint16(Pixel(p) - Margin)
    ELSE IF p > Px(o + w - Margin) THEN Uint16(Pixel(p) - w + Margin)
    ELSE o

\* Mutant: the margin on the right is forgotten.
SlideLeftOnly(p, o, w) ==
    IF p < Px(o + Margin) /\ p > Px(Margin) THEN Uint16(Pixel(p) - Margin) ELSE o

\* Where MoveShip slides a window at o of width w for a ship at p.
Slide(p, o, w) ==
    IF p < Px(o + Margin)
    THEN IF p > Px(Margin) THEN Uint16(Pixel(p) - Margin) ELSE o
    ELSE IF p > Px(o + w - Margin) /\ p < Px(Size - Margin) THEN Uint16(Pixel(p) - w + Margin)
    ELSE o

-----------------------------------------------------------------------------
\* The motion.

\* Mutant: only one of the two limits.
ClipAbove(d) == IF d > MaxDelta THEN MaxDelta ELSE d

Clip(d) == IF d > MaxDelta THEN MaxDelta ELSE IF d < -MaxDelta THEN -MaxDelta ELSE d

\* Thrust changes the velocity by what the direction of the ship makes of it;
\* friction takes a share of it.
Steered(d) ==
    IF thrusting THEN { Clip(d + a) : a \in -MaxDelta .. MaxDelta }
    ELSE IF d >= 0 THEN 0 .. d ELSE d .. 0

\* Whether an edge of the universe stops a ship that would get to p.
Stopped(p) == p < ShipRadius \/ p + ShipRadius >= Px(Size)

\* The edges of the universe hold the ship.
Held(p) ==
    IF p < ShipRadius THEN ShipRadius
    ELSE IF p + ShipRadius >= Px(Size) THEN Px(Size) - ShipRadius
    ELSE p

\* Ship::MoveShip of a ship that neither explodes nor is dead: the window follows
\* the place the ship leaves, not the one it gets to.
MoveShip ==
    /\ \E d \in Steered(delta) :
          /\ pos' = Held(pos + d)
          /\ delta' = IF Stopped(pos + d) THEN 0 ELSE d
    /\ ctxO' = Slide(pos, ctxO, ctxW)
    /\ recentred' = (recentred /\ ~(pos > Px(Margin) /\ pos < Px(Size - Margin)))

-----------------------------------------------------------------------------
\* Lives and timers.

\* The middle of the window, where a life begins.
Middle == Px(ctxO + ctxW \div 2)

\* Ship::NewLife with "left" lives left, and the "rest" when one of them is spent.
NewLife(left, rest) ==
    \/ /\ left > 0
       /\ life' = [exploding |-> FALSE, dead |-> FALSE, invulnerable |-> TRUE, left |-> rest]
       /\ inv' = InvTicks
       /\ blinkTime' = BlinkTicks
       /\ blinkNum' = Blinks
       /\ visible' = TRUE
       /\ pos' = Middle
       /\ delta' = 0
       /\ recentred' = FALSE
    \/ /\ left = 0
       /\ life' = [life EXCEPT !.exploding = FALSE, !.dead = TRUE]
       /\ UNCHANGED <<inv, blinkTime, blinkNum, visible, pos, delta, recentred>>

\* Mutant: the blinks are not counted down.
BlinkForEver ==
    /\ visible' = (blinkNum % 2 = 1)
    /\ blinkTime' = IF blinkTime = 1 THEN BlinkTicks ELSE blinkTime - 1
    /\ UNCHANGED blinkNum

\* One tick of blinking: odd blinks show the ship.
Blink ==
    /\ visible' = (blinkNum % 2 = 1)
    /\ IF blinkNum = 0 THEN UNCHANGED <<blinkTime, blinkNum>>
       ELSE IF blinkTime = 1 THEN blinkTime' = BlinkTicks /\ blinkNum' = blinkNum - 1
       ELSE blinkTime' = blinkTime - 1 /\ UNCHANGED blinkNum

\* Ship::TickEvent's part for a ship that is flying.
Protection ==
    IF ~life.invulnerable THEN UNCHANGED <<life, inv, blinkTime, blinkNum, visible>>
    ELSE IF inv = 1
         THEN /\ inv' = 0
              /\ life' = [life EXCEPT !.invulnerable = FALSE]
              /\ UNCHANGED <<blinkTime, blinkNum, visible>>
         ELSE inv' = inv - 1 /\ Blink /\ UNCHANGED life

-----------------------------------------------------------------------------

Init ==
    /\ ctxW \in Windows
    /\ ctxO = Centred(ctxW)
    /\ view = ctxO
    /\ pos = Px(Size \div 2)
    /\ delta = 0
    /\ thrusting = FALSE
    /\ life = [exploding |-> FALSE, dead |-> FALSE, invulnerable |-> TRUE, left |-> NumLives]
    /\ explosion = ExplodeTicks
    /\ inv = InvTicks
    /\ blinkTime = BlinkTicks
    /\ blinkNum = Blinks
    /\ visible = TRUE
    /\ recentred = FALSE

\* Mutant: the player's window stays where it was.
SeenOnce == view

\* The window the browser is told of: Player::TickEvent takes the ship's before
\* it ticks the ship.
Seen == ctxO

Fly ==
    /\ ~life.dead /\ ~life.exploding
    /\ view' = Seen
    /\ MoveShip
    /\ Protection
    /\ UNCHANGED <<thrusting, ctxW, explosion>>

Burn ==
    /\ ~life.dead /\ life.exploding
    /\ view' = Seen
    /\ IF explosion > 1
       THEN /\ explosion' = explosion - 1
            /\ UNCHANGED <<pos, delta, recentred, life, inv, blinkTime, blinkNum, visible>>
       ELSE explosion' = ExplodeTicks /\ NewLife(life.left, life.left - 1)
    /\ UNCHANGED <<thrusting, ctxO, ctxW>>

\* Mutant: a new life does not protect the ship.
SparedInFlames(l) == l.exploding

\* Whether the collisions of a tick spare a ship.
Spared(l) == l.exploding \/ l.invulnerable

\* Ship::Explode in the collisions of a tick; a wreck can be hit, too.
Explode ==
    /\ ~Spared(life)
    /\ life' = [life EXCEPT !.exploding = TRUE]
    /\ delta' = 0
    /\ UNCHANGED <<pos, ctxO, ctxW, view, recentred, thrusting, timers>>

\* Player::KeyEvent: the key that thrusts, or another, goes down or up.  A player
\* whose ship is dead is not playing (PhaseMatchesShip of module Asteroids), so
\* that any key resurrects it.
Key(thrust, isDown) ==
    /\ thrusting' = IF thrust THEN isDown ELSE thrusting
    /\ \/ /\ isDown /\ life.dead
          /\ explosion' = ExplodeTicks
          /\ NewLife(1, NumLives)
       \/ /\ ~(isDown /\ life.dead)
          /\ UNCHANGED <<pos, delta, recentred, life, timers>>
    /\ UNCHANGED <<ctxO, ctxW, view>>

\* Player::ResizeEvent, which knows nothing of where the ship is.
Resize(w) ==
    /\ ctxW' = w
    /\ ctxO' = Centred(w)
    /\ view' = Centred(w)
    /\ recentred' = TRUE
    /\ UNCHANGED <<pos, delta, thrusting, life, timers>>

Tick == Fly \/ Burn

Next ==
    \/ Tick
    \/ Explode
    \/ \E thrust, isDown \in BOOLEAN : Key(thrust, isDown)
    \/ \E w \in Windows : Resize(w)

Spec == Init /\ [][Next]_vars

\* The timer ticks a player whose session is open for ever.
FairSpec == Spec /\ WF_vars(Tick)

-----------------------------------------------------------------------------

TypeOK ==
    /\ pos \in Nat
    /\ delta \in -MaxDelta .. MaxDelta
    /\ thrusting \in BOOLEAN
    /\ ctxO \in Nat
    /\ ctxW \in Windows
    /\ view \in Nat
    /\ life \in Lives
    /\ explosion \in 1 .. ExplodeTicks
    /\ inv \in 0 .. InvTicks
    /\ blinkTime \in 1 .. BlinkTicks
    /\ blinkNum \in 0 .. Blinks
    /\ visible \in BOOLEAN
    /\ recentred \in BOOLEAN

\* The unsigned offset of the window never wraps: window and ship stay inside the
\* universe, although the slide is computed by differences and the edges hold only
\* the ship.
InsideUniverse ==
    /\ ctxO + ctxW <= Size
    /\ view + ctxW <= Size
    /\ pos \in ShipRadius .. Px(Size) - ShipRadius

\* What a window lacks for its two margins.
Lack == IF ctxW < 2 * Margin THEN Px(2 * Margin - ctxW) ELSE 0

InView(o, slack) == pos \in Px(o) - slack - Lack .. Px(o + ctxW) + slack + Lack

\* A window follows its ship, up to one tick of motion, from every life's beginning;
\* only a resize takes it away, until the ship moves outside the universe's margins.
\* A window that lacks room for both margins swings between them, and when it comes
\* to rest near an edge of the universe it may lose the ship by what it lacks.
ShipInView == ~recentred => InView(ctxO, MaxDelta)

\* The browser draws the ship's place in the window of one tick earlier: it is outside
\* that one by no more than a tick of motion and what the window lacks, though both
\* have moved since the window was looked at.
FrameShowsShip == [][ Fly /\ ~recentred => InView(view, MaxDelta)' ]_vars

\* A window that has room between its margins scrolls no faster than its ship, but for
\* the pixel it is cut off to.
ScrollsSmoothly ==
    [][ Fly /\ ~recentred /\ ctxW >= 2 * Margin =>
            Px(ctxO' - ctxO) \in -MaxDelta - Grain .. MaxDelta + Grain ]_vars

\* A ship that can be hit can be seen: the last blink before the protection ends is
\* one that shows the ship.  (Three ticks later the blinks would be used up, which
\* leaves a ship invisible for good: BlinksAssumption.)
VulnerableIsVisible == ~life.invulnerable => visible

\* The life of a ship as the game knows it.
Stage ==
    IF life.dead THEN "dead"
    ELSE IF life.exploding THEN "exploding"
    ELSE IF life.invulnerable THEN "protected"
    ELSE "vulnerable"

Abstract == INSTANCE ShipLife WITH stage <- Stage, lives <- life.left

\* All the flags and timers of a ship, and the ticks, keys and hits that touch them,
\* come to the life that ShipLife describes: protection and explosions come to an end.
LivesAsPromised == Abstract!Spec
=============================================================================
