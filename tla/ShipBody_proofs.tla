--------------------------- MODULE ShipBody_proofs ---------------------------
(***************************************************************************)
(* Proofs about a ship and its window, for universes, windows, margins,    *)
(* speeds and durations of any size.                                       *)
(***************************************************************************)
EXTENDS ShipBody, TLAPS

\* Where a ship is in a window that nobody has moved away: inside both margins but
\* for one tick of motion and what the window lacks, on the right also for the
\* part of a pixel that is cut off, or the window is that close to the edge of the
\* universe.
NearMargins ==
    ~recentred =>
        /\ pos >= Px(ctxO) + Px(Margin) - Lack - MaxDelta \/ Px(ctxO) <= MaxDelta + Lack
        /\ \/ pos <= Px(ctxO) + Px(ctxW) - Px(Margin) + Lack + MaxDelta + Grain
           \/ Px(ctxO) + Px(ctxW) >= Px(Size) - MaxDelta - Lack - Grain

\* Protection that lasts has time left.
ProtectionRuns == life.invulnerable => inv > 0

IInv == TypeOK /\ InsideUniverse /\ NearMargins /\ ProtectionRuns

-----------------------------------------------------------------------------
\* The operators.

\* Pixels, counted in parts of a pixel.
LEMMA PxNat ==
    ASSUME NEW n \in Nat
    PROVE  Px(n) \in Nat
BY LengthsAssumption DEF Px

LEMMA PxSum ==
    ASSUME NEW m \in Int, NEW n \in Int
    PROVE  /\ Px(m) \in Int /\ Px(n) \in Int
           /\ Px(m + n) = Px(m) + Px(n)
           /\ Px(m - n) = Px(m) - Px(n)
BY LengthsAssumption DEF Px

LEMMA PxOrder ==
    ASSUME NEW m \in Int, NEW n \in Int
    PROVE  /\ m <= n => Px(m) <= Px(n)
           /\ Px(m) < Px(n) => m < n
<1>1. Grain \in Nat /\ Grain > 0
  BY LengthsAssumption
<1>2. ASSUME m <= n
      PROVE  Grain * m <= Grain * n
  <2> DEFINE more == n - m
  <2>1. more \in Nat /\ n = m + more
    BY <1>2
  <2> HIDE DEF more
  <2>2. Grain * n = Grain * m + Grain * more /\ Grain * more \in Nat
    BY <1>1, <2>1
  <2>3. Grain * m \in Int
    BY <1>1
  <2> QED BY <2>2, <2>3
<1>3. ASSUME n <= m
      PROVE  Grain * n <= Grain * m
  <2> DEFINE more == m - n
  <2>1. more \in Nat /\ m = n + more
    BY <1>3
  <2> HIDE DEF more
  <2>2. Grain * m = Grain * n + Grain * more /\ Grain * more \in Nat
    BY <1>1, <2>1
  <2>3. Grain * n \in Int
    BY <1>1
  <2> QED BY <2>2, <2>3
<1>4. Grain * m \in Int /\ Grain * n \in Int
  BY <1>1
<1> QED BY <1>2, <1>3, <1>4 DEF Px

\* The pixel a place is on begins at it or before it, by less than a pixel.
LEMMA PixelIs ==
    ASSUME NEW p \in Nat
    PROVE  Pixel(p) \in Nat /\ Px(Pixel(p)) <= p /\ p < Px(Pixel(p)) + Grain
BY LengthsAssumption DEF Pixel, Px

\* The lengths as plain inequalities.
LEMMA Lengths ==
    /\ Grain \in Nat /\ Grain > 0 /\ Grain <= ShipRadius
    /\ Size \in Nat /\ Size <= 65535 /\ Margin \in Nat
    /\ Px(Size) \in Nat /\ Px(Margin) \in Nat
    /\ ShipRadius \in Nat /\ ShipRadius > 0
    /\ MaxDelta \in Nat /\ MaxDelta > 0
    /\ ShipRadius + MaxDelta <= Px(Margin)
    /\ \A w \in Windows : w \in Nat /\ Margin <= w /\ w <= Size /\ ShipRadius <= Px(w \div 2)
<1>1. /\ Grain \in Nat /\ Grain > 0 /\ Grain <= ShipRadius
      /\ Size \in Nat /\ Size <= 65535
      /\ Margin \in Nat /\ ShipRadius \in Nat /\ ShipRadius > 0
      /\ MaxDelta \in Nat /\ MaxDelta > 0
      /\ ShipRadius + MaxDelta <= Px(Margin)
  BY LengthsAssumption
<1>2. \A w \in Windows : w \in Margin .. Size /\ ShipRadius <= Px(w \div 2)
  BY LengthsAssumption
<1>3. Px(Size) \in Nat /\ Px(Margin) \in Nat
  BY <1>1, PxNat
<1> QED BY <1>1, <1>2, <1>3

\* A window inside the universe, in parts of a pixel.
LEMMA WindowPx ==
    ASSUME NEW o \in Nat, NEW w \in Windows, o + w <= Size
    PROVE  /\ Px(o) \in Nat /\ Px(w) \in Nat
           /\ Px(o) + Px(w) <= Px(Size) /\ Px(Margin) <= Px(w)
           /\ Px(o + Margin) = Px(o) + Px(Margin)
           /\ Px(o + w) = Px(o) + Px(w)
           /\ Px(o + w - Margin) = Px(o) + Px(w) - Px(Margin)
           /\ Px(Size - Margin) = Px(Size) - Px(Margin)
<1>1. w \in Nat /\ Margin <= w /\ Margin \in Nat /\ Size \in Nat
  BY Lengths
<1>2. Px(o) \in Nat /\ Px(w) \in Nat
  BY <1>1, PxNat
<1>3. Px(o + w) = Px(o) + Px(w) /\ Px(o + Margin) = Px(o) + Px(Margin)
  BY <1>1, Lengths DEF Px
<1>4. Px(o + w - Margin) = Px(o) + Px(w) - Px(Margin)
  BY <1>1, Lengths DEF Px
<1>5. Px(Size - Margin) = Px(Size) - Px(Margin)
  BY <1>1, Lengths DEF Px
<1>6. Px(o + w) <= Px(Size) /\ Px(Margin) <= Px(w)
  <2> DEFINE e == o + w
  <2>1. e \in Int /\ e <= Size
    BY <1>1
  <2> HIDE DEF e
  <2>2. Px(e) <= Px(Size)
    BY <1>1, <2>1, PxOrder
  <2>3. Px(Margin) <= Px(w)
    BY <1>1, PxOrder
  <2> QED BY <2>2, <2>3 DEF e
<1> QED BY <1>2, <1>3, <1>4, <1>5, <1>6, Lengths

\* Within the range of its type, an offset is stored as it is.
LEMMA Uint16Id ==
    ASSUME NEW n \in Nat, n <= 65535
    PROVE  Uint16(n) = n
BY DEF Uint16

LEMMA Halves ==
    ASSUME NEW n \in Nat
    PROVE  /\ n \div 2 \in Nat
           /\ 2 * (n \div 2) <= n
           /\ n <= 2 * (n \div 2) + 1
OBVIOUS

\* A centred window.
LEMMA CentredInside ==
    ASSUME NEW w \in Windows
    PROVE  /\ Centred(w) = Size \div 2 - w \div 2
           /\ Centred(w) \in Nat
           /\ Centred(w) + w <= Size
<1> DEFINE n == Size \div 2 - w \div 2
<1>1. w \in Nat /\ w <= Size /\ Size \in Nat /\ Size <= 65535
  BY Lengths
<1>2. /\ w \div 2 \in Nat /\ 2 * (w \div 2) <= w /\ w <= 2 * (w \div 2) + 1
      /\ Size \div 2 \in Nat /\ 2 * (Size \div 2) <= Size /\ Size <= 2 * (Size \div 2) + 1
  BY <1>1, Halves
<1>3. n \in Nat /\ n <= 65535 /\ n + w <= Size
  BY <1>1, <1>2
<1>4. Centred(w) = Uint16(n)
  BY DEF Centred
<1> HIDE DEF n
<1>5. Uint16(n) = n
  BY <1>3, Uint16Id
<1> QED BY <1>3, <1>4, <1>5 DEF n

\* A slide is one of three cases, in none of which the offset wraps.
LEMMA SlideCases ==
    ASSUME NEW p \in Nat, p <= Px(Size), NEW w \in Windows, NEW o \in Nat, o + w <= Size
    PROVE  /\ Slide(p, o, w) \in Nat
           /\ Slide(p, o, w) + w <= Size
           /\ \/ /\ p < Px(o) + Px(Margin) /\ p > Px(Margin)
                 /\ Px(Slide(p, o, w)) <= p - Px(Margin)
                 /\ p - Px(Margin) < Px(Slide(p, o, w)) + Grain
              \/ /\ p >= Px(o) + Px(Margin) /\ p > Px(o) + Px(w) - Px(Margin)
                 /\ p < Px(Size) - Px(Margin)
                 /\ Px(Slide(p, o, w)) <= p - Px(w) + Px(Margin)
                 /\ p - Px(w) + Px(Margin) < Px(Slide(p, o, w)) + Grain
              \/ /\ p >= Px(o) + Px(Margin) \/ p <= Px(Margin)
                 /\ \/ p <= Px(o) + Px(w) - Px(Margin) \/ p < Px(o) + Px(Margin)
                    \/ p >= Px(Size) - Px(Margin)
                 /\ Slide(p, o, w) = o
<1> DEFINE x == Pixel(p)
<1>1. /\ w \in Nat /\ Margin <= w /\ w <= Size /\ Size \in Nat /\ Size <= 65535
      /\ Margin \in Nat /\ Grain \in Nat /\ Grain > 0
  BY Lengths
<1>2. /\ Px(o) \in Nat /\ Px(w) \in Nat /\ Px(Margin) \in Nat /\ Px(Size) \in Nat
      /\ Px(o) + Px(w) <= Px(Size) /\ Px(Margin) <= Px(w)
      /\ Px(o + Margin) = Px(o) + Px(Margin)
      /\ Px(o + w - Margin) = Px(o) + Px(w) - Px(Margin)
      /\ Px(Size - Margin) = Px(Size) - Px(Margin)
  BY WindowPx, Lengths
<1>3. x \in Nat /\ Px(x) \in Nat /\ Px(x) <= p /\ p < Px(x) + Grain
  BY PixelIs, PxNat
<1>4. Px(x + 1) = Px(x) + Grain
  <2>1. Px(1) = Grain
    BY <1>1 DEF Px
  <2> QED BY <1>3, <2>1, PxSum
<1> HIDE DEF x
<1>5. CASE p < Px(o + Margin) /\ p > Px(Margin)
  <2> DEFINE n == x - Margin
  <2>1. x >= Margin
    <3>1. Px(Margin) < Px(x + 1)
      BY <1>1, <1>2, <1>3, <1>4, <1>5
    <3>2. Margin < x + 1
      BY <1>1, <1>3, <3>1, PxOrder
    <3> QED BY <1>1, <1>3, <3>2
  <2>2. x < o + Margin
    <3>1. Px(x) < Px(o + Margin)
      BY <1>2, <1>3, <1>5
    <3> QED BY <1>1, <1>3, <3>1, PxOrder
  <2>3. n \in Nat /\ n <= 65535 /\ n + w <= Size
    BY <1>1, <1>3, <2>1, <2>2
  <2>4. Px(n) = Px(x) - Px(Margin)
    BY <1>1, <1>3, PxSum
  <2>5. Slide(p, o, w) = Uint16(n)
    BY <1>5 DEF Slide, x
  <2> HIDE DEF n
  <2>6. Slide(p, o, w) = n
    BY <2>3, <2>5, Uint16Id
  <2>7. p < Px(o) + Px(Margin) /\ p > Px(Margin)
    BY <1>2, <1>5
  <2>8. Px(n) <= p - Px(Margin) /\ p - Px(Margin) < Px(n) + Grain
    BY <1>1, <1>2, <1>3, <2>4
  <2> QED BY <2>3, <2>6, <2>7, <2>8
<1>6. CASE ~(p < Px(o + Margin)) /\ p > Px(o + w - Margin) /\ p < Px(Size - Margin)
  <2> DEFINE n == x - w + Margin
  <2>1. x >= o + w - Margin
    <3>1. Px(o + w - Margin) < Px(x + 1)
      BY <1>1, <1>2, <1>3, <1>4, <1>6
    <3>2. o + w - Margin < x + 1
      BY <1>1, <1>3, <3>1, PxOrder
    <3> QED BY <1>1, <1>3, <3>2
  <2>2. x < Size - Margin
    <3>1. Px(x) < Px(Size - Margin)
      BY <1>2, <1>3, <1>6
    <3> QED BY <1>1, <1>3, <3>1, PxOrder
  <2>3. n \in Nat /\ n <= 65535 /\ n + w <= Size
    BY <1>1, <1>3, <2>1, <2>2
  <2>4. Px(n) = Px(x) - Px(w) + Px(Margin)
    <3>1. Px(x - w) = Px(x) - Px(w) /\ x - w \in Int
      BY <1>1, <1>3, PxSum
    <3> QED BY <1>1, <3>1, PxSum
  <2>5. Slide(p, o, w) = Uint16(n)
    BY <1>6 DEF Slide, x
  <2> HIDE DEF n
  <2>6. Slide(p, o, w) = n
    BY <2>3, <2>5, Uint16Id
  <2>7. /\ p >= Px(o) + Px(Margin) /\ p > Px(o) + Px(w) - Px(Margin)
        /\ p < Px(Size) - Px(Margin)
    BY <1>2, <1>6
  <2>8. Px(n) <= p - Px(w) + Px(Margin) /\ p - Px(w) + Px(Margin) < Px(n) + Grain
    BY <1>1, <1>2, <1>3, <2>4
  <2> QED BY <2>3, <2>6, <2>7, <2>8
<1>7. CASE /\ ~(p < Px(o + Margin) /\ p > Px(Margin))
           /\ ~(~(p < Px(o + Margin)) /\ p > Px(o + w - Margin) /\ p < Px(Size - Margin))
  <2>1. Slide(p, o, w) = o
    BY <1>7 DEF Slide
  <2>2. /\ p >= Px(o) + Px(Margin) \/ p <= Px(Margin)
        /\ \/ p <= Px(o) + Px(w) - Px(Margin) \/ p < Px(o) + Px(Margin)
           \/ p >= Px(Size) - Px(Margin)
    BY <1>2, <1>7
  <2> QED BY <2>1, <2>2
<1> QED BY <1>5, <1>6, <1>7

\* A velocity within its limits stays there.
LEMMA ClipBounds ==
    ASSUME NEW d \in Int
    PROVE  Clip(d) \in Int /\ -MaxDelta <= Clip(d) /\ Clip(d) <= MaxDelta
BY Lengths DEF Clip

LEMMA SteeredBounds ==
    ASSUME delta \in Int, -MaxDelta <= delta, delta <= MaxDelta, NEW d \in Steered(delta)
    PROVE  d \in Int /\ -MaxDelta <= d /\ d <= MaxDelta
<1>1. CASE thrusting
  <2>1. d \in { Clip(delta + a) : a \in -MaxDelta .. MaxDelta }
    BY <1>1 DEF Steered
  <2>2. PICK a \in -MaxDelta .. MaxDelta : d = Clip(delta + a)
    BY <2>1
  <2>3. a \in Int /\ delta + a \in Int
    BY <2>2, Lengths
  <2> QED BY <2>2, <2>3, ClipBounds
<1>2. CASE ~thrusting /\ delta >= 0
  <2>1. d \in 0 .. delta
    BY <1>2 DEF Steered
  <2> QED BY <1>2, <2>1, Lengths
<1>3. CASE ~thrusting /\ ~(delta >= 0)
  <2>1. d \in delta .. 0
    BY <1>3 DEF Steered
  <2> QED BY <1>3, <2>1, Lengths
<1> QED BY <1>1, <1>2, <1>3

LEMMA HeldBounds ==
    ASSUME NEW p \in Nat, ShipRadius <= p, p <= Px(Size) - ShipRadius,
           NEW d \in Int, -MaxDelta <= d, d <= MaxDelta
    PROVE  /\ Held(p + d) \in Nat
           /\ ShipRadius <= Held(p + d) /\ Held(p + d) <= Px(Size) - ShipRadius
           /\ p - MaxDelta <= Held(p + d) /\ Held(p + d) <= p + MaxDelta
BY Lengths DEF Held

\* The invariant of the geometry as plain inequalities.
Geometry ==
    /\ pos \in Nat /\ ShipRadius <= pos /\ pos <= Px(Size) - ShipRadius
    /\ ctxO \in Nat /\ ctxO + ctxW <= Size
    /\ view \in Nat /\ view + ctxW <= Size
    /\ ctxW \in Windows
    /\ delta \in Int /\ -MaxDelta <= delta /\ delta <= MaxDelta
    /\ recentred \in BOOLEAN

\* The flags, the lives and the timers.
Timed ==
    /\ thrusting \in BOOLEAN
    /\ life \in Lives
    /\ explosion \in 1 .. ExplodeTicks
    /\ inv \in 0 .. InvTicks
    /\ blinkTime \in 1 .. BlinkTicks
    /\ blinkNum \in 0 .. Blinks
    /\ visible \in BOOLEAN

LEMMA Parts == TypeOK /\ InsideUniverse <=> Geometry /\ Timed
<1>1. TypeOK /\ InsideUniverse => Geometry /\ Timed
  BY Lengths DEF TypeOK, InsideUniverse, Geometry, Timed
<1>2. Geometry /\ Timed => TypeOK /\ InsideUniverse
  <2> SUFFICES ASSUME Geometry, Timed
               PROVE  TypeOK /\ InsideUniverse
    OBVIOUS
  <2>1. ctxW \in Nat
    BY Lengths DEF Geometry
  <2>4. delta \in -MaxDelta .. MaxDelta
    BY Lengths DEF Geometry
  <2>5. pos \in ShipRadius .. Px(Size) - ShipRadius
    BY Lengths DEF Geometry
  <2>6. TypeOK
    BY <2>4 DEF TypeOK, Geometry, Timed
  <2>7. InsideUniverse
    BY <2>5 DEF InsideUniverse, Geometry
  <2> QED BY <2>6, <2>7
<1> QED BY <1>1, <1>2

LEMMA PartsNext == (TypeOK /\ InsideUniverse <=> Geometry /\ Timed)'
BY Parts, PTL

-----------------------------------------------------------------------------
\* The invariant, action by action.

\* What a window lacks for its margins.
LEMMA LackIs ==
    ASSUME ctxW \in Windows
    PROVE  Lack \in Nat /\ Lack >= Px(Margin) + Px(Margin) - Px(ctxW)
<1>1. ctxW \in Nat /\ Margin \in Nat /\ Px(ctxW) \in Nat /\ Px(Margin) \in Nat
  BY Lengths, PxNat
<1>2. Px(2 * Margin) = Px(Margin) + Px(Margin)
  <2>1. 2 * Margin = Margin + Margin
    BY <1>1
  <2> QED BY <1>1, <2>1, PxSum
<1>3. CASE ctxW < 2 * Margin
  <2>1. 2 * Margin - ctxW \in Nat /\ 2 * Margin \in Int
    BY <1>1, <1>3
  <2>2. Px(2 * Margin - ctxW) \in Nat /\ Px(2 * Margin - ctxW) = Px(2 * Margin) - Px(ctxW)
    BY <1>1, <2>1, PxNat, PxSum
  <2>3. Lack = Px(2 * Margin - ctxW)
    BY <1>3 DEF Lack
  <2> QED BY <1>1, <1>2, <2>2, <2>3
<1>4. CASE ~(ctxW < 2 * Margin)
  <2>1. Px(2 * Margin) <= Px(ctxW)
    BY <1>1, <1>4, PxOrder
  <2>2. Lack = 0
    BY <1>4 DEF Lack
  <2> QED BY <1>1, <1>2, <2>1, <2>2
<1> QED BY <1>3, <1>4

\* Half a window holds its margin, but for what the window lacks.
LEMMA HalfIs ==
    ASSUME ctxW \in Windows
    PROVE  Px(Margin) <= Px(ctxW \div 2) + Lack
<1> DEFINE h == ctxW \div 2
<1>1. /\ ctxW \in Nat /\ h \in Nat /\ 2 * h <= ctxW /\ ctxW <= 2 * h + 1
      /\ Margin \in Nat
  BY Lengths, Halves
<1> HIDE DEF h
<1>2. Px(h) \in Nat /\ Px(Margin) \in Nat
  BY <1>1, PxNat
<1>3. CASE ctxW < 2 * Margin
  <2> DEFINE k == 2 * Margin - ctxW
  <2>1. k \in Nat /\ Margin - k <= h /\ Margin - k \in Int
    BY <1>1, <1>3
  <2>2. Lack = Px(k)
    BY <1>3 DEF Lack
  <2> HIDE DEF k
  <2>3. Px(Margin - k) = Px(Margin) - Px(k) /\ Px(k) \in Nat
    BY <1>1, <2>1, Lengths, PxNat DEF Px
  <2>4. Px(Margin - k) <= Px(h)
    BY <1>1, <2>1, PxOrder
  <2> QED BY <1>2, <2>2, <2>3, <2>4 DEF h
<1>4. CASE ~(ctxW < 2 * Margin)
  <2>1. Margin <= h /\ Lack = 0
    BY <1>1, <1>4 DEF Lack
  <2>2. Px(Margin) <= Px(h)
    BY <1>1, <2>1, PxOrder
  <2> QED BY <1>2, <2>1, <2>2 DEF h
<1> QED BY <1>3, <1>4

\* Where a life begins: in the middle of the window.
LEMMA MiddleInside ==
    ASSUME ctxW \in Windows, ctxO \in Nat, ctxO + ctxW <= Size
    PROVE  /\ Middle \in Nat /\ ShipRadius <= Middle /\ Middle <= Px(Size) - ShipRadius
           /\ Px(ctxO) + Px(Margin) - Lack <= Middle
           /\ Middle <= Px(ctxO) + Px(ctxW) - Px(Margin) + Lack
<1> DEFINE h == ctxW \div 2
<1>1. /\ ctxW \in Nat /\ h \in Nat /\ 2 * h <= ctxW
      /\ ShipRadius <= Px(h) /\ ShipRadius \in Nat
  BY Lengths, Halves
<1>2. Px(Margin) <= Px(h) + Lack /\ Lack \in Nat
  BY HalfIs, LackIs
<1>3. Middle = Px(ctxO + h)
  BY DEF Middle
<1> HIDE DEF h
<1>4. Middle = Px(ctxO) + Px(h) /\ Px(h) \in Nat /\ Px(ctxO) \in Nat
  BY <1>1, <1>3, PxSum, PxNat
<1>5. /\ Px(ctxW) \in Nat /\ Px(Margin) \in Nat /\ Px(Size) \in Nat
      /\ Px(ctxO) + Px(ctxW) <= Px(Size)
  BY WindowPx, Lengths
<1>6. Px(h) + Px(h) <= Px(ctxW)
  <2>1. h + h <= ctxW /\ h + h \in Int
    BY <1>1
  <2> QED BY <1>1, <2>1, PxSum, PxOrder
<1> QED BY <1>1, <1>2, <1>4, <1>5, <1>6

LEMMA InitOK == Init => IInv
<1> SUFFICES ASSUME Init
             PROVE  IInv
  OBVIOUS
<1> USE DEF Init
<1>1. /\ ctxO = Size \div 2 - ctxW \div 2 /\ ctxO \in Nat /\ ctxO + ctxW <= Size
      /\ ctxW \in Windows
  BY CentredInside
<1>2. pos = Middle
  <2>1. ctxO + ctxW \div 2 = Size \div 2
    <3>1. ctxW \in Nat /\ Size \in Nat
      BY Lengths
    <3>2. ctxW \div 2 \in Nat /\ Size \div 2 \in Nat
      BY <3>1, Halves
    <3> QED BY <1>1, <3>2
  <2> QED BY <2>1 DEF Middle
<1>3. /\ pos \in Nat /\ ShipRadius <= pos /\ pos <= Px(Size) - ShipRadius
      /\ Px(ctxO) + Px(Margin) - Lack <= pos
      /\ pos <= Px(ctxO) + Px(ctxW) - Px(Margin) + Lack
  BY <1>1, <1>2, MiddleInside
<1>4. Geometry
  <2>1. view \in Nat /\ view + ctxW <= Size
    BY <1>1
  <2>2. delta \in Int /\ -MaxDelta <= delta /\ delta <= MaxDelta
    BY Lengths
  <2>3. recentred \in BOOLEAN
    OBVIOUS
  <2> QED BY <1>1, <1>3, <2>1, <2>2, <2>3 DEF Geometry
<1>5. Timed
  <2>1. life \in Lives
    BY TimesAssumption DEF Lives
  <2>2. /\ explosion \in 1 .. ExplodeTicks /\ inv \in 0 .. InvTicks
        /\ blinkTime \in 1 .. BlinkTicks /\ blinkNum \in 0 .. Blinks
    BY TimesAssumption
  <2>3. thrusting \in BOOLEAN /\ visible \in BOOLEAN
    OBVIOUS
  <2> QED BY <2>1, <2>2, <2>3 DEF Timed
<1>6. NearMargins
  <2>1. /\ Px(ctxO) \in Nat /\ Px(ctxW) \in Nat /\ Px(Margin) \in Nat /\ Lack \in Nat
        /\ MaxDelta \in Nat /\ Grain \in Nat
    BY <1>1, WindowPx, LackIs, Lengths
  <2> QED BY <1>3, <2>1 DEF NearMargins
<1>7. ProtectionRuns
  BY TimesAssumption DEF ProtectionRuns
<1> QED BY <1>4, <1>5, <1>6, <1>7, Parts DEF IInv

\* What a tick of motion does to the place of the ship in its window.
LEMMA MotionOK ==
    ASSUME Geometry, NearMargins, MoveShip, view' = ctxO, ctxW' = ctxW
    PROVE  Geometry' /\ NearMargins'
<1>1. PICK d \in Steered(delta) :
          /\ pos' = Held(pos + d)
          /\ delta' = IF Stopped(pos + d) THEN 0 ELSE d
  BY DEF MoveShip
<1>2. d \in Int /\ -MaxDelta <= d /\ d <= MaxDelta
  BY <1>1, SteeredBounds DEF Geometry
<1>3. /\ pos' \in Nat /\ ShipRadius <= pos' /\ pos' <= Px(Size) - ShipRadius
      /\ pos - MaxDelta <= pos' /\ pos' <= pos + MaxDelta
  BY <1>1, <1>2, HeldBounds DEF Geometry
<1>4. delta' \in Int /\ -MaxDelta <= delta' /\ delta' <= MaxDelta
  BY <1>1, <1>2, Lengths
<1>5. /\ ctxW \in Windows /\ ctxW \in Nat
      /\ pos \in Nat /\ pos <= Px(Size) /\ ctxO \in Nat /\ ctxO + ctxW <= Size
  BY Lengths DEF Geometry
<1> DEFINE O == Px(ctxO)
           W == Px(ctxW)
           M == Px(Margin)
           S == Px(Size)
           p == pos'
           o == Px(ctxO')
           k == Lack
<1>6. /\ ctxO' \in Nat
      /\ ctxO' + ctxW <= Size
      /\ \/ /\ pos < O + M /\ pos > M
            /\ o <= pos - M /\ pos - M < o + Grain
         \/ /\ pos >= O + M /\ pos > O + W - M /\ pos < S - M
            /\ o <= pos - W + M /\ pos - W + M < o + Grain
         \/ /\ pos >= O + M \/ pos <= M
            /\ pos <= O + W - M \/ pos < O + M \/ pos >= S - M
            /\ ctxO' = ctxO
  BY <1>5, SlideCases DEF MoveShip
<1>7. Geometry'
  BY <1>3, <1>4, <1>5, <1>6 DEF MoveShip, Geometry
<1>8. NearMargins'
  <2>1. Lack' = Lack /\ Px(ctxW)' = Px(ctxW)
    BY DEF Lack, Px
  <2>2. SUFFICES ASSUME ~recentred'
                 PROVE  /\ p >= o + M - k - MaxDelta \/ o <= MaxDelta + k
                        /\ \/ p <= o + W - M + k + MaxDelta + Grain
                           \/ o + W >= S - MaxDelta - k - Grain
    BY <2>1 DEF NearMargins, Px
  <2>3. \/ pos > M /\ pos < S - M
        \/ /\ pos >= O + M - k - MaxDelta \/ O <= MaxDelta + k
           /\ \/ pos <= O + W - M + k + MaxDelta + Grain
              \/ O + W >= S - MaxDelta - k - Grain
    <3>1. Px(Size - Margin) = S - M
      BY <1>5, WindowPx
    <3> QED BY <2>2, <3>1 DEF MoveShip, NearMargins
  <2>4. /\ p \in Nat /\ pos - MaxDelta <= p /\ p <= pos + MaxDelta
        /\ o \in Nat /\ O \in Nat /\ W \in Nat /\ M \in Nat /\ S \in Nat
        /\ o + W <= S /\ M <= W
        /\ k \in Nat /\ k >= M + M - W
        /\ MaxDelta \in Nat /\ Grain \in Nat /\ Grain > 0
    <3>1. o \in Nat /\ W \in Nat /\ o + W <= S /\ M <= W
      BY <1>5, <1>6, WindowPx
    <3>2. O \in Nat
      BY <1>5, PxNat
    <3>3. k \in Nat /\ k >= M + M - W
      BY <1>5, LackIs
    <3> QED BY <1>3, <3>1, <3>2, <3>3, Lengths
  <2>5. CASE pos < O + M /\ pos > M /\ o <= pos - M /\ pos - M < o + Grain
    <3> HIDE DEF p, o, k, O, W, M, S
    <3>1. p >= o + M - k - MaxDelta
      BY <1>5, <2>4, <2>5
    <3>2. p <= o + W - M + k + MaxDelta + Grain
      BY <1>5, <2>4, <2>5
    <3> QED BY <3>1, <3>2
  <2>6. CASE pos >= O + M /\ o <= pos - W + M /\ pos - W + M < o + Grain
    <3> HIDE DEF p, o, k, O, W, M, S
    <3>1. p >= o + M - k - MaxDelta
      BY <1>5, <2>4, <2>6
    <3>2. p <= o + W - M + k + MaxDelta + Grain
      BY <1>5, <2>4, <2>6
    <3> QED BY <3>1, <3>2
  <2>7. CASE /\ pos >= O + M \/ pos <= M
             /\ pos <= O + W - M \/ pos < O + M \/ pos >= S - M
             /\ o = O
    <3> HIDE DEF p, o, k, O, W, M, S
    <3>1. p >= o + M - k - MaxDelta \/ o <= MaxDelta + k
      <4>1. CASE pos >= O + M
        BY <1>5, <2>4, <2>7, <4>1
      <4>2. CASE ~(pos >= O + M)
        BY <1>5, <2>3, <2>4, <2>7, <4>2
      <4> QED BY <4>1, <4>2
    <3>2. \/ p <= o + W - M + k + MaxDelta + Grain
          \/ o + W >= S - MaxDelta - k - Grain
      <4>1. CASE pos <= O + W - M \/ pos < O + M
        BY <1>5, <2>4, <2>7, <4>1
      <4>2. CASE ~(pos <= O + W - M \/ pos < O + M)
        BY <1>5, <2>3, <2>4, <2>7, <4>2
      <4> QED BY <4>1, <4>2
    <3> QED BY <3>1, <3>2
  <2> QED BY <1>6, <2>5, <2>6, <2>7
<1> QED BY <1>7, <1>8

\* A new life, or none.
LEMMA NewLifeOK ==
    ASSUME NEW left \in 0 .. NumLives, NEW rest \in 0 .. NumLives,
           Geometry, Timed, NearMargins, ProtectionRuns, NewLife(left, rest),
           explosion' \in 1 .. ExplodeTicks,
           thrusting' \in BOOLEAN, ctxO' = ctxO, ctxW' = ctxW, view' = ctxO \/ view' = view
    PROVE  Geometry' /\ Timed' /\ NearMargins' /\ ProtectionRuns'
<1>1. /\ Middle \in Nat /\ ShipRadius <= Middle /\ Middle <= Px(Size) - ShipRadius
      /\ Px(ctxO) + Px(Margin) - Lack <= Middle
      /\ Middle <= Px(ctxO) + Px(ctxW) - Px(Margin) + Lack
  BY MiddleInside DEF Geometry
<1>2. view' \in Nat /\ view' + ctxW <= Size
  BY DEF Geometry
<1>3. /\ Px(ctxW) \in Nat /\ Px(ctxO) \in Nat /\ Lack \in Nat
      /\ Lack' = Lack /\ Px(ctxW)' = Px(ctxW) /\ Px(ctxO)' = Px(ctxO)
  BY Lengths, WindowPx, LackIs DEF Geometry, Lack, Px
<1>4. CASE left > 0
  <2>1. /\ life' = [exploding |-> FALSE, dead |-> FALSE, invulnerable |-> TRUE, left |-> rest]
        /\ inv' = InvTicks /\ blinkTime' = BlinkTicks /\ blinkNum' = Blinks /\ visible' = TRUE
        /\ pos' = Middle /\ delta' = 0 /\ recentred' = FALSE
    BY <1>4 DEF NewLife
  <2>2. Geometry'
    <3>1. delta' \in Int /\ -MaxDelta <= delta' /\ delta' <= MaxDelta
      BY <2>1, Lengths
    <3>2. pos' \in Nat /\ ShipRadius <= pos' /\ pos' <= Px(Size) - ShipRadius
      BY <1>1, <2>1
    <3>3. recentred' \in BOOLEAN
      BY <2>1
    <3> QED BY <1>2, <3>1, <3>2, <3>3 DEF Geometry
  <2>3. Timed'
    <3>1. life' \in Lives
      BY <2>1 DEF Lives
    <3>2. inv' \in 0 .. InvTicks /\ blinkTime' \in 1 .. BlinkTicks /\ blinkNum' \in 0 .. Blinks
      BY <2>1, TimesAssumption
    <3>3. visible' \in BOOLEAN
      BY <2>1
    <3> QED BY <3>1, <3>2, <3>3 DEF Timed
  <2>4. NearMargins'
    <3>1. pos' >= Px(ctxO) + Px(Margin) - Lack - MaxDelta
      BY <1>1, <1>3, <2>1, Lengths
    <3>2. pos' <= Px(ctxO) + Px(ctxW) - Px(Margin) + Lack + MaxDelta + Grain
      BY <1>1, <1>3, <2>1, Lengths
    <3> QED BY <1>3, <3>1, <3>2 DEF NearMargins
  <2>5. ProtectionRuns'
    BY <2>1, TimesAssumption DEF ProtectionRuns
  <2> QED BY <2>2, <2>3, <2>4, <2>5
<1>5. CASE ~(left > 0)
  <2>1. /\ life' = [life EXCEPT !.exploding = FALSE, !.dead = TRUE]
        /\ UNCHANGED <<inv, blinkTime, blinkNum, visible, pos, delta, recentred>>
    BY <1>5 DEF NewLife
  <2>2. Geometry'
    BY <1>2, <2>1 DEF Geometry
  <2>3. life' \in Lives /\ life'.invulnerable = life.invulnerable
    BY <2>1 DEF Timed, Lives
  <2>4. Timed'
    BY <2>1, <2>3 DEF Timed
  <2>5. NearMargins'
    BY <1>3, <2>1 DEF NearMargins
  <2>6. ProtectionRuns'
    BY <2>1, <2>3 DEF ProtectionRuns
  <2> QED BY <2>2, <2>4, <2>5, <2>6
<1> QED BY <1>4, <1>5

\* The timers of a ship that flies.
LEMMA ProtectionOK ==
    ASSUME Timed, ProtectionRuns, Protection
    PROVE  /\ life' \in Lives /\ inv' \in 0 .. InvTicks
           /\ blinkTime' \in 1 .. BlinkTicks /\ blinkNum' \in 0 .. Blinks
           /\ visible' \in BOOLEAN
           /\ ProtectionRuns'
<1>1. CASE ~life.invulnerable
  BY <1>1 DEF Protection, Timed, ProtectionRuns
<1>2. CASE life.invulnerable /\ inv = 1
  <2>1. /\ inv' = 0 /\ life' = [life EXCEPT !.invulnerable = FALSE]
        /\ UNCHANGED <<blinkTime, blinkNum, visible>>
    BY <1>2 DEF Protection
  <2>2. life' \in Lives /\ life'.invulnerable = FALSE
    BY <2>1 DEF Timed, Lives
  <2> QED BY <2>1, <2>2, TimesAssumption DEF Timed, ProtectionRuns
<1>3. CASE life.invulnerable /\ inv # 1
  <2>1. inv' = inv - 1 /\ Blink /\ life' = life
    BY <1>3 DEF Protection
  <2>2. blinkTime' \in 1 .. BlinkTicks /\ blinkNum' \in 0 .. Blinks /\ visible' \in BOOLEAN
    BY <2>1, TimesAssumption DEF Timed, Blink
  <2>3. inv' \in 0 .. InvTicks /\ inv' > 0
    BY <1>3, <2>1, TimesAssumption DEF Timed, ProtectionRuns
  <2> QED BY <2>1, <2>2, <2>3 DEF Timed, ProtectionRuns
<1> QED BY <1>1, <1>2, <1>3

LEMMA FlyOK == IInv /\ Fly => IInv'
<1> SUFFICES ASSUME IInv, Fly
             PROVE  IInv'
  OBVIOUS
<1>1. Geometry /\ Timed /\ NearMargins /\ ProtectionRuns
  BY Parts DEF IInv
<1>2. Geometry' /\ NearMargins'
  BY <1>1, MotionOK DEF Fly, Seen
<1>3. /\ life' \in Lives /\ inv' \in 0 .. InvTicks
      /\ blinkTime' \in 1 .. BlinkTicks /\ blinkNum' \in 0 .. Blinks
      /\ visible' \in BOOLEAN /\ ProtectionRuns'
  BY <1>1, ProtectionOK DEF Fly
<1>4. Timed'
  BY <1>1, <1>3 DEF Fly, Timed
<1>5. TypeOK' /\ InsideUniverse'
  BY <1>2, <1>4, PartsNext
<1> QED BY <1>2, <1>3, <1>5 DEF IInv

LEMMA BurnOK == IInv /\ Burn => IInv'
<1> SUFFICES ASSUME IInv, Burn
             PROVE  IInv'
  OBVIOUS
<1>1. Geometry /\ Timed /\ NearMargins /\ ProtectionRuns
  BY Parts DEF IInv
<1>2. thrusting' = thrusting /\ ctxO' = ctxO /\ ctxW' = ctxW /\ view' = ctxO
  BY DEF Burn, Seen
<1>3. CASE explosion > 1
  <2>1. /\ explosion' = explosion - 1
        /\ UNCHANGED <<pos, delta, recentred, life, inv, blinkTime, blinkNum, visible>>
    BY <1>3 DEF Burn
  <2>2. explosion' \in 1 .. ExplodeTicks
    BY <1>1, <1>3, <2>1, TimesAssumption DEF Timed
  <2>3. Geometry'
    BY <1>1, <1>2, <2>1 DEF Geometry
  <2>4. Timed'
    BY <1>1, <1>2, <2>1, <2>2 DEF Timed
  <2>5. NearMargins'
    BY <1>1, <1>2, <2>1 DEF NearMargins, Lack
  <2>6. ProtectionRuns'
    BY <1>1, <2>1 DEF ProtectionRuns
  <2> QED BY <2>3, <2>4, <2>5, <2>6, PartsNext DEF IInv
<1>4. CASE ~(explosion > 1)
  <2>1. explosion' = ExplodeTicks /\ NewLife(life.left, life.left - 1)
    BY <1>4 DEF Burn
  <2>2. life.left \in 0 .. NumLives
    BY <1>1 DEF Timed, Lives
  <2>3. explosion' \in 1 .. ExplodeTicks /\ thrusting' \in BOOLEAN
    BY <1>1, <1>2, <2>1, TimesAssumption DEF Timed
  <2>4. CASE life.left > 0
    <3>1. life.left - 1 \in 0 .. NumLives
      BY <2>2, <2>4, TimesAssumption
    <3> QED BY <1>1, <1>2, <2>1, <2>2, <2>3, <3>1, NewLifeOK, PartsNext DEF IInv
  <2>5. CASE ~(life.left > 0)
    <3>1. life.left = 0 /\ 0 \in 0 .. NumLives
      BY <2>2, <2>5, TimesAssumption
    <3>2. NewLife(0, 0)
      BY <2>1, <3>1 DEF NewLife
    <3> QED BY <1>1, <1>2, <2>3, <3>1, <3>2, NewLifeOK, PartsNext DEF IInv
  <2> QED BY <2>4, <2>5
<1> QED BY <1>3, <1>4

LEMMA ExplodeOK == IInv /\ Explode => IInv'
<1> SUFFICES ASSUME IInv, Explode
             PROVE  IInv'
  OBVIOUS
<1>1. Geometry /\ Timed /\ NearMargins /\ ProtectionRuns
  BY Parts DEF IInv
<1>2. life' \in Lives /\ life'.invulnerable = life.invulnerable
  BY <1>1 DEF Explode, Timed, Lives
<1>3. delta' \in Int /\ -MaxDelta <= delta' /\ delta' <= MaxDelta
  BY Lengths DEF Explode
<1>4. Geometry'
  BY <1>1, <1>3 DEF Explode, Geometry
<1>5. Timed'
  BY <1>1, <1>2 DEF Explode, Timed, timers
<1>6. NearMargins' /\ ProtectionRuns'
  BY <1>1, <1>2 DEF Explode, NearMargins, ProtectionRuns, Lack, timers
<1> QED BY <1>4, <1>5, <1>6, PartsNext DEF IInv

LEMMA KeyOK ==
    ASSUME NEW thrust \in BOOLEAN, NEW isDown \in BOOLEAN
    PROVE  IInv /\ Key(thrust, isDown) => IInv'
<1> SUFFICES ASSUME IInv, Key(thrust, isDown)
             PROVE  IInv'
  OBVIOUS
<1>1. Geometry /\ Timed /\ NearMargins /\ ProtectionRuns
  BY Parts DEF IInv
<1>2. thrusting' \in BOOLEAN /\ ctxO' = ctxO /\ ctxW' = ctxW /\ view' = view
  BY <1>1 DEF Key, Timed
<1>3. CASE isDown /\ life.dead
  <2>1. explosion' = ExplodeTicks /\ NewLife(1, NumLives)
    BY <1>3 DEF Key
  <2>2. /\ 1 \in 0 .. NumLives /\ NumLives \in 0 .. NumLives
        /\ explosion' \in 1 .. ExplodeTicks
    BY <2>1, TimesAssumption
  <2> QED BY <1>1, <1>2, <2>1, <2>2, NewLifeOK, PartsNext DEF IInv
<1>4. CASE ~(isDown /\ life.dead)
  <2>1. UNCHANGED <<pos, delta, recentred, life, timers>>
    BY <1>4 DEF Key
  <2>2. Geometry'
    BY <1>1, <1>2, <2>1 DEF Geometry
  <2>3. Timed'
    BY <1>1, <1>2, <2>1 DEF Timed, timers
  <2>4. NearMargins' /\ ProtectionRuns'
    BY <1>1, <1>2, <2>1 DEF NearMargins, ProtectionRuns, Lack, timers
  <2> QED BY <2>2, <2>3, <2>4, PartsNext DEF IInv
<1> QED BY <1>3, <1>4

LEMMA ResizeOK ==
    ASSUME NEW w \in Windows
    PROVE  IInv /\ Resize(w) => IInv'
<1> SUFFICES ASSUME IInv, Resize(w)
             PROVE  IInv'
  OBVIOUS
<1>1. Geometry /\ Timed /\ NearMargins /\ ProtectionRuns
  BY Parts DEF IInv
<1>2. Centred(w) \in Nat /\ Centred(w) + w <= Size
  BY CentredInside
<1>3. Geometry'
  BY <1>1, <1>2 DEF Resize, Geometry
<1>4. Timed'
  BY <1>1 DEF Resize, Timed, timers
<1>5. NearMargins' /\ ProtectionRuns'
  BY <1>1 DEF Resize, NearMargins, ProtectionRuns, timers
<1> QED BY <1>3, <1>4, <1>5, PartsNext DEF IInv

LEMMA StutterOK == IInv /\ UNCHANGED vars => IInv'
BY DEF IInv, TypeOK, InsideUniverse, NearMargins, ProtectionRuns, Lack, vars, motion, timers

LEMMA StepOK == IInv /\ [Next]_vars => IInv'
BY FlyOK, BurnOK, ExplodeOK, KeyOK, ResizeOK, StutterOK DEF Next, Tick

THEOREM Invariance == Spec => []IInv
<1>1. Init => IInv
  BY InitOK
<1>2. IInv /\ [Next]_vars => IInv'
  BY StepOK
<1> QED BY <1>1, <1>2, PTL DEF Spec

-----------------------------------------------------------------------------
\* What follows for the properties of the runs.

\* The state stays well typed.
THEOREM TypeCorrect == Spec => []TypeOK
BY Invariance, PTL DEF IInv

\* The window's offset never wraps, whatever the browser's size is: MoveShip's guards
\* keep window and ship inside the universe.
THEOREM StaysInside == Spec => []InsideUniverse
BY Invariance, PTL DEF IInv

\* The place of the window in parts of a pixel.
LEMMA PlacePx ==
    ASSUME Geometry
    PROVE  /\ Px(ctxO) \in Nat /\ Px(ctxW) \in Nat /\ Px(Margin) \in Nat /\ Px(Size) \in Nat
           /\ Px(ctxO + ctxW) = Px(ctxO) + Px(ctxW)
           /\ Lack \in Nat /\ Lack >= Px(Margin) + Px(Margin) - Px(ctxW)
           /\ MaxDelta \in Nat /\ Grain \in Nat /\ Grain <= ShipRadius /\ ShipRadius \in Nat
           /\ ShipRadius + MaxDelta <= Px(Margin)
BY WindowPx, LackIs, Lengths DEF Geometry

LEMMA NearIsInView == IInv => ShipInView
<1> SUFFICES ASSUME IInv, ~recentred
             PROVE  InView(ctxO, MaxDelta)
  BY DEF ShipInView
<1>1. Geometry
  BY Parts DEF IInv
<1> DEFINE O == Px(ctxO)
           W == Px(ctxW)
           E == Px(ctxO + ctxW)
           M == Px(Margin)
           S == Px(Size)
<1>2. /\ pos \in Nat /\ pos <= S - ShipRadius
      /\ O \in Nat /\ W \in Nat /\ M \in Nat /\ S \in Nat /\ E = O + W
      /\ Lack \in Nat /\ MaxDelta \in Nat /\ Grain \in Nat /\ Grain <= ShipRadius
      /\ ShipRadius \in Nat /\ ShipRadius + MaxDelta <= M
  BY <1>1, PlacePx DEF Geometry
<1>3. /\ pos >= O + M - Lack - MaxDelta \/ O <= MaxDelta + Lack
      /\ \/ pos <= O + W - M + Lack + MaxDelta + Grain
         \/ O + W >= S - MaxDelta - Lack - Grain
  BY DEF IInv, NearMargins
<1>4. pos \in O - MaxDelta - Lack .. E + MaxDelta + Lack
  <2> HIDE DEF O, W, E, M, S
  <2> QED BY <1>2, <1>3
<1> QED BY <1>4 DEF InView

\* A window loses its ship only by a resize.
THEOREM WindowFollows == Spec => []ShipInView
BY Invariance, NearIsInView, PTL

\* In the frame a browser draws, in the window of one tick earlier, the ship is no more
\* than a tick of motion and what the window lacks outside.
THEOREM FrameIsGood == Spec => FrameShowsShip
<1>1. IInv /\ IInv' /\ [Next]_vars => [Fly /\ ~recentred => InView(view, MaxDelta)']_vars
  <2> SUFFICES ASSUME IInv, IInv', Fly, ~recentred
               PROVE  InView(view, MaxDelta)'
    OBVIOUS
  <2>1. Geometry /\ Geometry'
    BY Parts, PartsNext DEF IInv
  <2>2. PICK d \in Steered(delta) : pos' = Held(pos + d)
    BY DEF Fly, MoveShip
  <2>3. pos - MaxDelta <= pos' /\ pos' <= pos + MaxDelta
    BY <2>1, <2>2, SteeredBounds, HeldBounds DEF Geometry
  <2>4. view' = ctxO /\ ctxW' = ctxW /\ Lack' = Lack
    BY DEF Fly, Seen, Lack
  <2> DEFINE O == Px(ctxO)
             W == Px(ctxW)
             E == Px(ctxO + ctxW)
             M == Px(Margin)
             S == Px(Size)
             p == pos'
  <2>5. /\ pos \in Nat /\ p \in Nat /\ p <= S - ShipRadius /\ p >= ShipRadius
        /\ O \in Nat /\ W \in Nat /\ M \in Nat /\ S \in Nat /\ E = O + W
        /\ Lack \in Nat /\ MaxDelta \in Nat /\ Grain \in Nat /\ Grain <= ShipRadius
        /\ ShipRadius \in Nat /\ ShipRadius + MaxDelta <= M
    BY <2>1, PlacePx DEF Geometry
  <2>6. /\ pos >= O + M - Lack - MaxDelta \/ O <= MaxDelta + Lack
        /\ \/ pos <= O + W - M + Lack + MaxDelta + Grain
           \/ O + W >= S - MaxDelta - Lack - Grain
    BY DEF IInv, NearMargins
  <2>7. p \in O - MaxDelta - Lack .. E + MaxDelta + Lack
    <3> HIDE DEF O, W, E, M, S, p
    <3> QED BY <2>3, <2>5, <2>6 DEF p
  <2> QED BY <2>4, <2>7 DEF InView, Px
<1> QED BY <1>1, Invariance, PTL DEF Spec, FrameShowsShip

\* A wide window scrolls no faster than its ship, but for the pixel it is cut off to.
THEOREM ScrollIsSmooth == Spec => ScrollsSmoothly
<1>1. IInv /\ [Next]_vars =>
        [Fly /\ ~recentred /\ ctxW >= 2 * Margin =>
            Px(ctxO' - ctxO) \in -MaxDelta - Grain .. MaxDelta + Grain]_vars
  <2> SUFFICES ASSUME IInv, Fly, ~recentred, ctxW >= 2 * Margin
               PROVE  Px(ctxO' - ctxO) \in -MaxDelta - Grain .. MaxDelta + Grain
    OBVIOUS
  <2>1. Geometry
    BY Parts DEF IInv
  <2> DEFINE O == Px(ctxO)
             W == Px(ctxW)
             M == Px(Margin)
             S == Px(Size)
             o == Px(ctxO')
  <2>2. /\ pos \in Nat /\ pos <= S /\ ctxO \in Nat /\ ctxW \in Windows
        /\ ctxO + ctxW <= Size
    BY <2>1, Lengths DEF Geometry
  <2>3. /\ ctxO' \in Nat
        /\ ctxO' + ctxW <= Size
        /\ \/ /\ pos < O + M /\ pos > M
              /\ o <= pos - M /\ pos - M < o + Grain
           \/ /\ pos >= O + M /\ pos > O + W - M /\ pos < S - M
              /\ o <= pos - W + M /\ pos - W + M < o + Grain
           \/ ctxO' = ctxO
    BY <2>2, SlideCases DEF Fly, MoveShip
  <2>4. /\ O \in Nat /\ W \in Nat /\ M \in Nat /\ S \in Nat /\ o \in Nat /\ o + W <= S
        /\ MaxDelta \in Nat /\ Grain \in Nat
    BY <2>1, <2>2, <2>3, PlacePx, WindowPx
  <2>5. /\ pos >= O + M - MaxDelta \/ O <= MaxDelta
        /\ \/ pos <= O + W - M + MaxDelta + Grain
           \/ O + W >= S - MaxDelta - Grain
    <3>1. Lack = 0
      <4>1. ctxW \in Nat /\ Margin \in Nat
        BY <2>2, Lengths
      <4> QED BY <4>1 DEF Lack
    <3>2. /\ pos >= O + M - Lack - MaxDelta \/ O <= MaxDelta + Lack
          /\ \/ pos <= O + W - M + Lack + MaxDelta + Grain
             \/ O + W >= S - MaxDelta - Lack - Grain
      BY DEF IInv, NearMargins
    <3> HIDE DEF O, W, M, S
    <3> QED BY <2>4, <3>1, <3>2
  <2>6. Px(ctxO' - ctxO) = o - O
    BY <2>2, <2>3, PxSum
  <2>7. o = O \/ ctxO' # ctxO
    OBVIOUS
  <2> HIDE DEF O, W, M, S, o
  <2>8. O - MaxDelta - Grain <= o /\ o <= O + MaxDelta + Grain
    BY <2>2, <2>3, <2>4, <2>5, <2>7
  <2>9. o - O \in -MaxDelta - Grain .. MaxDelta + Grain
    BY <2>4, <2>8
  <2> QED BY <2>6, <2>9
<1> QED BY <1>1, Invariance, PTL DEF Spec, ScrollsSmoothly

-----------------------------------------------------------------------------
\* Blinking.

\* The ticks of blinking that are left.
BlinksLeft == BlinkTicks * (blinkNum - 1) + blinkTime

\* Blinks and protection run down together, from the beginning of every life; a ship
\* that nothing protects, or not after this tick, is shown.
BlinksInStep ==
    /\ life.invulnerable => inv - BlinksLeft = InvTicks - BlinkTicks * Blinks
    /\ (life.invulnerable /\ inv > 1) \/ visible

\* The lengths of blinks and protection as plain inequalities.
LEMMA Durations ==
    /\ InvTicks \in Nat /\ InvTicks > 0 /\ BlinkTicks \in Nat /\ BlinkTicks > 0
    /\ Blinks \in Nat
    /\ BlinkTicks * Blinks \in Nat /\ BlinkTicks * (Blinks - 1) \in Int
    /\ BlinkTicks * (Blinks - 1) = BlinkTicks * Blinks - BlinkTicks
    /\ InvTicks - BlinkTicks * Blinks \in 2 - BlinkTicks .. 1
<1>1. /\ InvTicks \in Nat /\ InvTicks > 0 /\ BlinkTicks \in Nat /\ BlinkTicks > 0
      /\ Blinks \in Nat
  BY TimesAssumption
<1>2. /\ BlinkTicks * Blinks \in Nat /\ BlinkTicks * (Blinks - 1) \in Int
      /\ BlinkTicks * (Blinks - 1) = BlinkTicks * Blinks - BlinkTicks
  BY <1>1
<1> DEFINE all == BlinkTicks * Blinks
<1>3. InvTicks \in all - BlinkTicks + 2 .. all + 1
  BY <1>2, BlinksAssumption
<1> QED
  <2> HIDE DEF all
  <2>1. all \in Nat
    BY <1>2 DEF all
  <2>2. InvTicks - all \in 2 - BlinkTicks .. 1
    BY <1>1, <1>3, <2>1
  <2> QED BY <1>1, <1>2, <2>2 DEF all

\* A product that is closer to zero than a factor is zero.
LEMMA SmallProduct ==
    ASSUME NEW k \in Nat, k > 0, NEW m \in Int, k * m < k, -k < k * m
    PROVE  m = 0
<1>1. CASE m >= 1
  <2>1. k * m >= k
    BY <1>1
  <2> QED BY <2>1
<1>2. CASE m <= -1
  <2>1. k * m <= -k
    BY <1>2
  <2> QED BY <2>1
<1> QED BY <1>1, <1>2

LEMMA InitBlinks == Init => BlinksInStep
<1> SUFFICES ASSUME Init
             PROVE  BlinksInStep
  OBVIOUS
<1>1. inv = InvTicks /\ blinkTime = BlinkTicks /\ blinkNum = Blinks /\ visible = TRUE
  BY DEF Init
<1>2. BlinksLeft = BlinkTicks * Blinks
  BY <1>1, Durations DEF BlinksLeft
<1> QED BY <1>1, <1>2 DEF BlinksInStep

\* A new life starts both again; without one nothing changes.
LEMMA NewLifeBlinks ==
    ASSUME IInv, BlinksInStep, NEW left, NEW rest, NewLife(left, rest)
    PROVE  BlinksInStep'
<1>1. life \in Lives
  BY DEF IInv, TypeOK
<1>2. CASE left > 0 /\ inv' = InvTicks /\ blinkTime' = BlinkTicks /\ blinkNum' = Blinks
           /\ visible' = TRUE
  <2>1. BlinksLeft' = BlinkTicks * Blinks
    BY <1>2, Durations DEF BlinksLeft
  <2> QED BY <1>2, <2>1 DEF BlinksInStep
<1>3. CASE life' = [life EXCEPT !.exploding = FALSE, !.dead = TRUE]
           /\ UNCHANGED <<inv, blinkTime, blinkNum, visible>>
  <2>1. life'.invulnerable = life.invulnerable
    BY <1>1, <1>3 DEF Lives
  <2>2. BlinksLeft' = BlinksLeft
    BY <1>3 DEF BlinksLeft
  <2> QED BY <1>3, <2>1, <2>2 DEF BlinksInStep
<1> QED BY <1>2, <1>3 DEF NewLife

\* While protection lasts there is a blink to count down, and it is the last one, which
\* shows the ship, when the tick after the next one is the last one of protection.
LEMMA BlinkCountsDown ==
    ASSUME IInv, life.invulnerable, inv > 1,
           inv - BlinksLeft = InvTicks - BlinkTicks * Blinks, Blink
    PROVE  /\ BlinksLeft \in Int
           /\ BlinksLeft' = BlinksLeft - 1
           /\ inv = 2 => visible' = TRUE
<1> DEFINE m == blinkNum - 1
           product == BlinkTicks * m
           ahead == InvTicks - BlinkTicks * Blinks
<1>1. /\ inv \in Nat /\ blinkNum \in Nat /\ blinkTime \in Nat
      /\ 1 <= blinkTime /\ blinkTime <= BlinkTicks
  BY TimesAssumption DEF IInv, TypeOK
<1>2. /\ BlinkTicks \in Nat /\ BlinkTicks > 0
      /\ ahead \in Int /\ 2 - BlinkTicks <= ahead /\ ahead <= 1
  BY Durations
<1>3. m \in Int /\ product \in Int
  BY <1>1, <1>2
<1>4. BlinksLeft = product + blinkTime /\ BlinksLeft = inv - ahead
  <2>1. BlinksLeft = product + blinkTime
    BY DEF BlinksLeft
  <2> HIDE DEF product, ahead
  <2>2. inv - BlinksLeft = ahead
    BY DEF ahead
  <2> QED BY <1>1, <1>2, <1>3, <2>1, <2>2
<1>5. product + blinkTime >= 1
  <2> HIDE DEF product, ahead
  <2> QED BY <1>1, <1>2, <1>3, <1>4
<1>6. blinkNum # 0
  <2>1. ASSUME blinkNum = 0
        PROVE  product = -BlinkTicks
    BY <1>2, <2>1
  <2> HIDE DEF product
  <2> QED BY <1>1, <1>2, <1>3, <1>5, <2>1
<1>7. BlinksLeft' = BlinksLeft - 1
  <2>1. CASE blinkTime = 1
    <3>1. blinkTime' = BlinkTicks /\ blinkNum' = blinkNum - 1
      BY <1>6, <2>1 DEF Blink
    <3>2. BlinksLeft' = BlinkTicks * (m - 1) + BlinkTicks
      BY <3>1 DEF BlinksLeft
    <3>3. BlinkTicks * (m - 1) = product - BlinkTicks
      BY <1>2, <1>3
    <3> HIDE DEF product, m
    <3> QED BY <1>2, <1>3, <1>4, <2>1, <3>2, <3>3
  <2>2. CASE blinkTime # 1
    <3>1. blinkTime' = blinkTime - 1 /\ blinkNum' = blinkNum
      BY <1>6, <2>2 DEF Blink
    <3>2. BlinksLeft' = product + (blinkTime - 1)
      BY <3>1 DEF BlinksLeft
    <3> HIDE DEF product
    <3> QED BY <1>1, <1>3, <1>4, <3>2
  <2> QED BY <2>1, <2>2
<1>8. ASSUME inv = 2
      PROVE  visible' = TRUE
  <2> HIDE DEF product, ahead
  <2>1. product < BlinkTicks /\ -BlinkTicks < product
    BY <1>1, <1>2, <1>3, <1>4, <1>5, <1>8
  <2> HIDE DEF m
  <2>2. m = 0
    BY <1>2, <1>3, <2>1, SmallProduct DEF product
  <2>3. blinkNum = 1
    BY <1>1, <2>2 DEF m
  <2>4. visible' = (blinkNum % 2 = 1)
    BY DEF Blink
  <2>5. blinkNum % 2 = 1
    BY <2>3
  <2> QED BY <2>4, <2>5, Zenon
<1>9. BlinksLeft \in Int
  <2> HIDE DEF product
  <2> QED BY <1>1, <1>3, <1>4
<1> QED BY <1>7, <1>8, <1>9

LEMMA ProtectionBlinks ==
    ASSUME IInv, BlinksInStep, Protection
    PROVE  BlinksInStep'
<1>1. life \in Lives /\ inv \in Nat /\ (life.invulnerable => inv > 0)
  BY TimesAssumption DEF IInv, TypeOK, ProtectionRuns
<1>2. CASE ~life.invulnerable
  BY <1>2 DEF Protection, BlinksInStep, BlinksLeft
<1>3. CASE life.invulnerable /\ inv = 1
  <2>1. life' = [life EXCEPT !.invulnerable = FALSE] /\ visible' = visible
    BY <1>3 DEF Protection
  <2>2. ~life'.invulnerable /\ visible
    BY <1>1, <1>3, <2>1 DEF Lives, BlinksInStep
  <2> QED BY <2>1, <2>2 DEF BlinksInStep
<1>4. CASE life.invulnerable /\ inv # 1
  <2> DEFINE ahead == InvTicks - BlinkTicks * Blinks
  <2>1. inv' = inv - 1 /\ Blink /\ life' = life /\ inv > 1
    BY <1>1, <1>4 DEF Protection
  <2>2. inv - BlinksLeft = ahead
    BY <1>4 DEF BlinksInStep
  <2>3. /\ BlinksLeft \in Int
        /\ BlinksLeft' = BlinksLeft - 1
        /\ inv = 2 => visible' = TRUE
    BY <1>4, <2>1, <2>2, BlinkCountsDown
  <2>4. inv' - BlinksLeft' = ahead
    <3> HIDE DEF ahead
    <3> QED BY <1>1, <2>1, <2>2, <2>3
  <2>5. inv' > 1 \/ visible' = TRUE
    BY <1>1, <2>1, <2>3
  <2> QED BY <1>4, <2>1, <2>4, <2>5 DEF BlinksInStep
<1> QED BY <1>2, <1>3, <1>4

LEMMA StepBlinks == IInv /\ BlinksInStep /\ [Next]_vars => BlinksInStep'
<1> SUFFICES ASSUME IInv, BlinksInStep, [Next]_vars
             PROVE  BlinksInStep'
  OBVIOUS
<1>1. life \in Lives
  BY DEF IInv, TypeOK
<1>2. ASSUME life'.invulnerable = life.invulnerable, UNCHANGED timers
      PROVE  BlinksInStep'
  BY <1>2 DEF BlinksInStep, BlinksLeft, timers
<1>3. CASE Fly
  BY <1>3, ProtectionBlinks DEF Fly
<1>4. CASE Burn
  BY <1>2, <1>4, NewLifeBlinks DEF Burn, BlinksInStep, BlinksLeft
<1>5. CASE Explode
  <2>1. life'.invulnerable = life.invulnerable /\ UNCHANGED timers
    BY <1>1, <1>5 DEF Explode, Lives
  <2> QED BY <1>2, <2>1
<1>6. CASE \E thrust, isDown \in BOOLEAN : Key(thrust, isDown)
  BY <1>2, <1>6, NewLifeBlinks DEF Key
<1>7. CASE \E w \in Windows : Resize(w)
  BY <1>2, <1>7 DEF Resize
<1>8. CASE UNCHANGED vars
  BY <1>2, <1>8 DEF vars
<1> QED BY <1>3, <1>4, <1>5, <1>6, <1>7, <1>8 DEF Next, Tick

\* No ship that can be hit is invisible: blinks and protection, which count down apart
\* from each other, stay in step through every life, for all durations that end
\* protection during the last blink.
THEOREM ShownWhenVulnerable == Spec => []VulnerableIsVisible
<1>1. Init => BlinksInStep
  BY InitBlinks
<1>2. IInv /\ BlinksInStep /\ [Next]_vars => BlinksInStep'
  BY StepBlinks
<1>3. BlinksInStep => VulnerableIsVisible
  BY DEF BlinksInStep, VulnerableIsVisible
<1> QED BY <1>1, <1>2, <1>3, Invariance, PTL DEF Spec

-----------------------------------------------------------------------------
\* The refinement.

\* Every step of a ship is a step of the life it promises, or none.  (That protection
\* and explosions come to an end is left to the runs.)
THEOREM LivesARefinement == Spec => Abstract!Init /\ [][Abstract!Next]_(Abstract!vars)
<1>1. Init => Abstract!Init
  BY DEF Init, Abstract!Init, Stage
<1>2. IInv /\ [Next]_vars => [Abstract!Next]_(Abstract!vars)
  <2> SUFFICES ASSUME IInv, [Next]_vars
               PROVE  Abstract!Next \/ (Stage' = Stage /\ life'.left = life.left)
    BY DEF Abstract!vars
  <2>1. life \in Lives /\ life' \in Lives
    BY StepOK DEF IInv, TypeOK
  <2>2. CASE Fly
    <3>1. CASE UNCHANGED life
      BY <3>1 DEF Stage
    <3>2. CASE life.invulnerable /\ life' = [life EXCEPT !.invulnerable = FALSE]
      <4>1. Abstract!WearOff
        <5>1. ~life.dead /\ ~life.exploding
          BY <2>2 DEF Fly
        <5>2. life'.dead = life.dead /\ life'.exploding = life.exploding
              /\ life'.invulnerable = FALSE /\ life'.left = life.left
          BY <2>1, <3>2 DEF Lives
        <5> QED BY <3>2, <5>1, <5>2 DEF Stage, Abstract!WearOff
      <4> QED BY <4>1 DEF Abstract!Next
    <3> QED BY <2>2, <3>1, <3>2 DEF Fly, Protection
  <2>3. CASE Burn
    <3>1. CASE explosion > 1
      BY <2>3, <3>1 DEF Burn, Stage
    <3>2. CASE ~(explosion > 1)
      <4>1. NewLife(life.left, life.left - 1)
        BY <2>3, <3>2 DEF Burn
      <4>2. Abstract!BurnOut
        <5>1. ~life.dead /\ life.exploding /\ life.left \in Nat
          BY <2>1, <2>3 DEF Burn, Lives
        <5>2. CASE life.left > 0
          <6>1. life' = [exploding |-> FALSE, dead |-> FALSE, invulnerable |-> TRUE,
                         left |-> life.left - 1]
            BY <4>1, <5>2 DEF NewLife
          <6> QED BY <5>1, <5>2, <6>1 DEF Stage, Abstract!BurnOut
        <5>3. CASE ~(life.left > 0)
          <6>1. life.left = 0 /\ life' = [life EXCEPT !.exploding = FALSE, !.dead = TRUE]
            BY <4>1, <5>1, <5>3 DEF NewLife
          <6>2. life'.dead = TRUE /\ life'.left = life.left
            BY <2>1, <6>1 DEF Lives
          <6> QED BY <5>1, <6>1, <6>2 DEF Stage, Abstract!BurnOut
        <5> QED BY <5>2, <5>3
      <4> QED BY <4>2 DEF Abstract!Next
    <3> QED BY <3>1, <3>2
  <2>4. CASE Explode
    <3>1. life' = [life EXCEPT !.exploding = TRUE] /\ ~life.exploding /\ ~life.invulnerable
      BY <2>4 DEF Explode, Spared
    <3>2. CASE life.dead
      BY <2>1, <3>1, <3>2 DEF Stage, Lives
    <3>3. CASE ~life.dead
      <4>1. Abstract!Hit
        BY <2>1, <3>1, <3>3 DEF Stage, Lives, Abstract!Hit
      <4> QED BY <4>1 DEF Abstract!Next
    <3> QED BY <3>2, <3>3
  <2>5. CASE \E thrust, isDown \in BOOLEAN : Key(thrust, isDown)
    <3>1. CASE UNCHANGED life
      BY <3>1 DEF Stage
    <3>2. CASE life.dead /\ NewLife(1, NumLives)
      <4>1. life' = [exploding |-> FALSE, dead |-> FALSE, invulnerable |-> TRUE, left |-> NumLives]
        BY <3>2 DEF NewLife
      <4>2. Abstract!Resurrect
        BY <3>2, <4>1 DEF Stage, Abstract!Resurrect
      <4> QED BY <4>2 DEF Abstract!Next
    <3> QED BY <2>5, <3>1, <3>2 DEF Key
  <2>6. CASE \E w \in Windows : Resize(w)
    BY <2>6 DEF Resize, Stage
  <2>7. CASE UNCHANGED vars
    BY <2>7 DEF vars, Stage
  <2> QED BY <2>2, <2>3, <2>4, <2>5, <2>6, <2>7 DEF Next, Tick
<1> QED BY <1>1, <1>2, Invariance, PTL DEF Spec
=============================================================================
