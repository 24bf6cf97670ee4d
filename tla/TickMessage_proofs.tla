------------------------- MODULE TickMessage_proofs -------------------------
(***************************************************************************)
(* What the builders of a tick's messages promise, for any number of       *)
(* sessions, threads, bullets in a magazine and rocks in the field.        *)
(***************************************************************************)
EXTENDS TickMessage, FiniteSetTheorems, FunctionTheorems, SequenceTheorems,
        WellFoundedInduction, TLAPS

-----------------------------------------------------------------------------
(***************************************************************************)
(* The order of a pass.  InOrder chooses a list; it says something only if *)
(* there is one to choose.                                                 *)
(***************************************************************************)

\* The list s walks through T in the order of the places.
Walks(s, T) ==
    /\ s \in [1 .. Cardinality(T) -> T]
    /\ \A i, j \in 1 .. Cardinality(T) : i < j => Place(s[i]) < Place(s[j])

\* Things that can be walked through: finitely many, each at a place of its own.
Placed(S) ==
    /\ IsFiniteSet(S)
    /\ \A x \in S : Place(x) \in Nat
    /\ \A x, y \in S : Place(x) = Place(y) => x = y

\* A set of numbers has a least one.
LEMMA LeastNumber ==
    ASSUME NEW T, T \subseteq Nat, T # {}
    PROVE  \E x \in T : \A y \in T : x <= y
<1> DEFINE R == { ss \in Nat \X Nat : ss[1] < ss[2] }
<1>1. IsWellFoundedOn(R, Nat)
  BY NatLessThanWellFounded DEF OpToRel
<1>2. \E x \in T : \A y \in T : ~ (<<y, x>> \in R)
  <2> HIDE DEF R
  <2> QED
    BY <1>1, WFMin
<1>3. PICK x \in T : \A y \in T : ~ (<<y, x>> \in R)
  BY <1>2
<1>4. ASSUME NEW y \in T
      PROVE  x <= y
  <2>1. x \in Nat /\ y \in Nat /\ ~ (y < x)
    BY <1>3
  <2> QED
    BY <2>1
<1> QED
  BY <1>4

\* One of the things comes first.
LEMMA FirstThing ==
    ASSUME NEW T, Placed(T), T # {}
    PROVE  \E x \in T : \A y \in T \ {x} : Place(x) < Place(y)
<1> DEFINE P == { Place(x) : x \in T }
<1>1. P \subseteq Nat /\ P # {}
  BY DEF Placed
<1>2. PICK p \in P : \A q \in P : p <= q
  BY <1>1, LeastNumber
<1>3. PICK x \in T : Place(x) = p
  BY <1>2
<1>4. ASSUME NEW y \in T \ {x}
      PROVE  Place(x) < Place(y)
  <2>1. Place(y) \in P /\ Place(x) <= Place(y)
    BY <1>2, <1>3
  <2>2. Place(x) # Place(y) /\ Place(x) \in Nat /\ Place(y) \in Nat
    BY DEF Placed
  <2> QED
    BY <2>1, <2>2
<1> QED
  BY <1>4

\* A walk through all but the first of the things goes on from the first.
LEMMA WalkOn ==
    ASSUME NEW T, Placed(T), NEW x \in T, \A y \in T \ {x} : Place(x) < Place(y),
           NEW s, Walks(s, T \ {x})
    PROVE  \E r : Walks(r, T)
<1> DEFINE n == Cardinality(T)
           r == [i \in 1 .. n |-> IF i = 1 THEN x ELSE s[i - 1]]
<1>1. n \in Nat /\ Cardinality(T \ {x}) = n - 1
  BY FS_CardinalityType, FS_RemoveElement DEF Placed
<1>2. ASSUME NEW i \in 2 .. n
      PROVE  s[i - 1] \in T \ {x}
  <2>1. s \in [1 .. n - 1 -> T \ {x}]
    BY <1>1 DEF Walks
  <2>2. i - 1 \in 1 .. n - 1
    BY <1>1
  <2> QED
    BY <2>1, <2>2
<1>3. r \in [1 .. n -> T]
  <2>1. ASSUME NEW i \in 1 .. n
        PROVE  (IF i = 1 THEN x ELSE s[i - 1]) \in T
    <3>1. i # 1 => i \in 2 .. n
      BY <1>1
    <3> QED
      BY <3>1, <1>2
  <2> QED
    BY <2>1
<1>4. ASSUME NEW i \in 1 .. n, NEW j \in 1 .. n, i < j
      PROVE  Place(r[i]) < Place(r[j])
  <2>1. r[j] = s[j - 1] /\ j \in 2 .. n
    BY <1>1, <1>4
  <2>2. CASE i = 1
    BY <2>1, <2>2, <1>2
  <2>3. CASE i # 1
    <3>1. r[i] = s[i - 1] /\ i - 1 \in 1 .. n - 1 /\ j - 1 \in 1 .. n - 1 /\ i - 1 < j - 1
      BY <1>1, <1>4, <2>1, <2>3
    <3> QED
      BY <3>1, <2>1, <1>1 DEF Walks
  <2> QED
    BY <2>2, <2>3
<1>5. Walks(r, T)
  BY <1>3, <1>4 DEF Walks
<1> QED
  BY <1>5

\* Things that can be walked through have a walk: a smallest set without one would
\* have a first element, and a walk through the rest of it.
LEMMA WalkExists ==
    ASSUME NEW S, Placed(S)
    PROVE  \E s : Walks(s, S)
<1> DEFINE Without(n) == \E T \in SUBSET S : Cardinality(T) = n /\ ~ \E s : Walks(s, T)
           Bad == { n \in Nat : Without(n) }
<1>1. \A T \in SUBSET S : Placed(T) /\ Cardinality(T) \in Nat
  BY FS_Subset, FS_CardinalityType DEF Placed
<1>2. SUFFICES ASSUME ~ \E s : Walks(s, S)
               PROVE  FALSE
  OBVIOUS
<1>3. Cardinality(S) \in Bad
  BY <1>1, <1>2
<1>4. PICK n \in Bad : \A k \in Bad : n <= k
  <2>1. Bad \subseteq Nat /\ Bad # {}
    BY <1>3
  <2> HIDE DEF Bad
  <2> QED
    BY <2>1, LeastNumber
<1>5. PICK T \in SUBSET S : Cardinality(T) = n /\ ~ \E s : Walks(s, T)
  BY <1>4
<1>6. T # {}
  <2>1. SUFFICES ASSUME T = {}
                 PROVE  FALSE
    OBVIOUS
  <2>2. Cardinality(T) = 0
    BY <2>1, FS_EmptySet
  <2>3. Walks([i \in 1 .. 0 |-> i], T)
    BY <2>2 DEF Walks
  <2> QED
    BY <2>3, <1>5
<1>7. PICK x \in T : \A y \in T \ {x} : Place(x) < Place(y)
  BY <1>1, <1>5, <1>6, FirstThing
<1>8. Cardinality(T \ {x}) = n - 1 /\ n - 1 \in Nat
  <2>1. IsFiniteSet(T) /\ Cardinality(T \ {x}) = n - 1
    BY <1>1, <1>5, FS_RemoveElement DEF Placed
  <2>2. Cardinality(T \ {x}) \in Nat
    BY <2>1, FS_RemoveElement, FS_CardinalityType
  <2> QED
    BY <2>1, <2>2
<1>9. \E s : Walks(s, T \ {x})
  BY <1>1, <1>4, <1>8
<1> QED
  BY <1>1, <1>5, <1>7, <1>9, WalkOn

\* The list that InOrder chooses holds every one of the things, each once.
LEMMA InOrderWalks ==
    ASSUME NEW S, Placed(S)
    PROVE  /\ Walks(InOrder(S), S)
           /\ InOrder(S) \in Seq(S)
           /\ Len(InOrder(S)) = Cardinality(S)
           /\ \A x \in S : \E i \in 1 .. Cardinality(S) : InOrder(S)[i] = x
<1> DEFINE n == Cardinality(S)
           s == InOrder(S)
<1>1. n \in Nat
  BY FS_CardinalityType DEF Placed
<1>2. Walks(s, S)
  <2>1. PICK r : Walks(r, S)
    BY WalkExists
  <2>2. \E t \in [1 .. n -> S] : \A i, j \in DOMAIN t : i < j => Place(t[i]) < Place(t[j])
    BY <2>1 DEF Walks
  <2> QED
    BY <2>2 DEF InOrder, Walks
<1>3. s \in [1 .. n -> S]
  BY <1>2 DEF Walks
<1>4. s \in Seq(S) /\ Len(s) = n
  BY <1>1, <1>3
<1>5. s \in Injection(1 .. n, S)
  <2>1. ASSUME NEW i \in 1 .. n, NEW j \in 1 .. n, s[i] = s[j]
        PROVE  i = j
    <3>1. Place(s[i]) = Place(s[j]) /\ Place(s[i]) \in Nat
      BY <2>1, <1>3 DEF Placed
    <3>2. ~(i < j) /\ ~(j < i)
      BY <3>1, <1>2 DEF Walks
    <3> QED
      BY <3>2, <1>1
  <2> QED
    BY <2>1, <1>3 DEF Injection, IsInjective
<1>6. s \in Surjection(1 .. n, S)
  <2>1. Cardinality(1 .. n) = n
    BY <1>1, FS_Interval
  <2> QED
    BY <2>1, <1>5, FS_Injection DEF Placed
<1> QED
  BY <1>2, <1>4, <1>6 DEF Surjection

-----------------------------------------------------------------------------
(***************************************************************************)
(* The inductive invariant.  A message is only described as long as        *)
(* nothing raced with it: from then on it may hold anything.               *)
(***************************************************************************)

Buffers == [room : Nat, written : Nat, items : Seq(Items \cup Counts)]

\* Where the timer handler can be.
TimerIsSomewhere ==
    /\ tick.step # "begin" => tick.at \in Ids
    /\ tick.loop = "none" => tick.step = "begin"
    /\ tick.step \in {"fillRocks", "countShips", "fillShips", "fillBullets"} =>
           tick.loop = "universe"
    /\ tick.step = "fillGun" => tick.loop = "player"

\* Only a session that has, or had, a player has bullets.
BulletsNeedPlayer ==
    \A c \in Ids : status[c] \in {"absent", "connected"} => bullets[c] = 0

\* A pass finds things of its kind.
AllOf(list, kind) == \A i \in 1 .. Len(list) : list[i].kind = kind

KindsFound == \A part \in Parts : AllOf(shown[part], part)

\* From position "at" the items are a section that tells of the list.
Tells(items, at, list) ==
    /\ at + Len(list) <= Len(items)
    /\ items[at] = CountOf(Len(list))
    /\ \A i \in 1 .. Len(list) : items[at + i] = list[i]

\* The last thing written is a count of n things, of which each fits into the rest
\* of the buffer.
Announces(n, size) ==
    /\ Len(buf.items) > 0
    /\ buf.items[Len(buf.items)] = CountOf(n)
    /\ buf.room = buf.written + size * n

\* The rest is about a message that nothing raced with.
Quiet(step) == tick.step = step /\ fault = "none" /\ raced = {}

AfterCountRocks ==
    Quiet("fillRocks") =>
        /\ Len(buf.items) = 2 /\ Announces(rocks, 6)
        /\ shown = Nothing

AfterFillRocks ==
    Quiet("countShips") =>
        /\ Tells(buf.items, 2, shown["rocks"])
        /\ Len(buf.items) = 2 + Len(shown["rocks"])
        /\ shown["ships"] = <<>> /\ shown["bullets"] = <<>>

AfterCountShips ==
    Quiet("fillShips") =>
        /\ Tells(buf.items, 2, shown["rocks"])
        /\ Len(buf.items) = 3 + Len(shown["rocks"])
        /\ Announces(Cardinality(Others), 6)
        /\ shown["ships"] = <<>> /\ shown["bullets"] = <<>>

HasShip(x) == \E j \in 1 .. Len(shown["ships"]) : shown["ships"][j].id = x.id

AfterFillShips ==
    Quiet("fillBullets") =>
        /\ Tells(buf.items, 2, shown["rocks"])
        /\ Tells(buf.items, 3 + Len(shown["rocks"]), shown["ships"])
        /\ Len(buf.items) = 4 + Len(shown["rocks"]) + Len(shown["ships"])
        /\ Announces(Cardinality(AllBulletsOf(Others)), 4)
        /\ \A x \in AllBulletsOf(Others) : HasShip(x)

AfterCountGun ==
    Quiet("fillGun") =>
        /\ count = 0 => buf = NewBuffer(0)
        /\ count > 0 => /\ Len(buf.items) = 1 /\ Announces(count, 4)
                        /\ buf.written = 2
                        /\ bullets[tick.at] = count
        /\ shown = Nothing

IInv ==
    /\ TypeOK
    /\ TimerIsSomewhere /\ BulletsNeedPlayer /\ KindsFound
    /\ AfterCountRocks /\ AfterFillRocks /\ AfterCountShips /\ AfterFillShips
    /\ AfterCountGun
    /\ ReadAsFound /\ FitsUnlessRaced /\ BulletsHaveShips

-----------------------------------------------------------------------------
(***************************************************************************)
(* The things a message tells of, and what a buffer does with them.        *)
(***************************************************************************)

\* What the operators of the buffer make of a buffer.
LEMMA PutIs ==
    ASSUME NEW b \in Buffers, NEW list \in Seq(Items \cup Counts), NEW size \in Nat
    PROVE  /\ Put(b, list, size) \in Buffers
           /\ Put(b, list, size).room = b.room
           /\ Put(b, list, size).written = b.written + size * Len(list)
           /\ Put(b, list, size).items = b.items \o list
<1>1. size * Len(list) \in Nat
  OBVIOUS
<1>2. b.items \o list \in Seq(Items \cup Counts)
  BY DEF Buffers
<1> DEFINE written == b.written + size * Len(list)
           items == b.items \o list
<1>3. written \in Nat
  BY <1>1 DEF Buffers
<1>4. Put(b, list, size) = [b EXCEPT !.written = written, !.items = items]
  BY DEF Put
<1> HIDE DEF written, items
<1>5. /\ Put(b, list, size) \in Buffers
      /\ Put(b, list, size).room = b.room
      /\ Put(b, list, size).written = written
      /\ Put(b, list, size).items = items
  BY <1>2, <1>3, <1>4 DEF Buffers, items
<1> QED
  BY <1>5 DEF written, items

LEMMA GrowIs ==
    ASSUME NEW b \in Buffers, NEW more \in Nat
    PROVE  /\ Grow(b, more) \in Buffers
           /\ Grow(b, more).room = b.written + more
           /\ Grow(b, more).written = b.written
           /\ Grow(b, more).items = b.items
  BY DEF Grow, Buffers

LEMMA NewBufferIs ==
    ASSUME NEW length \in Nat
    PROVE  /\ NewBuffer(length) \in Buffers
           /\ NewBuffer(length).room = length
           /\ NewBuffer(length).written = 0
           /\ NewBuffer(length).items = <<>>
  BY DEF NewBuffer, Buffers

\* A count is cast: what it can tell is itself.
LEMMA CountIs ==
    ASSUME NEW n \in Nat
    PROVE  /\ CountOf(n) \in Counts /\ CountOf(n).kind = "count"
           /\ n < CountRange => CountOf(n).n = n
<1>1. CountRange \in Nat \ {0}
  BY ConstantsAssumption
<1>2. n % CountRange \in Nat
  BY <1>1
<1>3. n < CountRange => n % CountRange = n
  BY <1>1
<1> QED
  BY <1>2, <1>3 DEF CountOf, Counts

\* A count, put at the end.
LEMMA CountIsLast ==
    ASSUME NEW list \in Seq(Items \cup Counts), NEW n \in Nat
    PROVE  /\ <<CountOf(n)>> \in Seq(Items \cup Counts) /\ Len(<<CountOf(n)>>) = 1
           /\ Len(list \o <<CountOf(n)>>) = Len(list) + 1
           /\ (list \o <<CountOf(n)>>)[Len(list) + 1] = CountOf(n)
           /\ \A i \in 1 .. Len(list) : (list \o <<CountOf(n)>>)[i] = list[i]
<1>1. CountOf(n) \in Counts
  BY CountIs
<1> QED
  BY <1>1

\* The ships of some sessions: as many as sessions, each at a place of its own.
LEMMA ShipsPlaced ==
    ASSUME NEW T, T \subseteq Ids
    PROVE  /\ IsFiniteSet(T) /\ Cardinality(T) \in 0 .. MaxSessions
           /\ Placed({ ShipOf(c) : c \in T })
           /\ Cardinality({ ShipOf(c) : c \in T }) = Cardinality(T)
<1> DEFINE S == { ShipOf(c) : c \in T }
           f == [c \in T |-> ShipOf(c)]
<1>1. IsFiniteSet(T) /\ Cardinality(T) \in 0 .. MaxSessions
  <2>1. IsFiniteSet(Ids) /\ Cardinality(Ids) = MaxSessions
    BY ConstantsAssumption, FS_Interval DEF Ids
  <2> QED
    BY <2>1, FS_Subset, FS_CardinalityType, ConstantsAssumption
<1>2. f \in Bijection(T, S)
  BY DEF Bijection, Injection, IsInjective, Surjection, ShipOf
<1>3. IsFiniteSet(S) /\ Cardinality(S) = Cardinality(T)
  BY <1>1, <1>2, FS_Bijection DEF ExistsBijection
<1>4. \A c \in T : Place(ShipOf(c)) = c /\ c \in Nat
  BY DEF Place, ShipOf, Ids
<1>5. Placed(S)
  BY <1>3, <1>4 DEF Placed
<1> QED
  BY <1>1, <1>3, <1>5

\* The places of two bullets differ when the sessions do, or the numbers.
PlaceOf(m, c, i) == c * (m + 1) + i

LEMMA PlaceOfBullet ==
    ASSUME NEW m \in Nat, NEW c \in Nat, NEW d \in Nat, NEW i \in 1 .. m, NEW j \in 1 .. m,
           PlaceOf(m, c, i) = PlaceOf(m, d, j)
    PROVE  c = d /\ i = j
<1>1. ASSUME NEW x \in Nat, NEW y \in Nat, x < y
      PROVE  x * (m + 1) + (m + 1) <= y * (m + 1)
  <2>1. PICK k \in Nat : y = x + 1 + k
    <3>1. y - x - 1 \in Nat /\ y = x + 1 + (y - x - 1)
      BY <1>1
    <3> QED
      BY <3>1
  <2>2. y * (m + 1) = x * (m + 1) + (m + 1) + k * (m + 1)
    BY <2>1
  <2>3. k * (m + 1) \in Nat /\ x * (m + 1) \in Nat
    OBVIOUS
  <2> QED
    BY <2>2, <2>3
<1> DEFINE C == c * (m + 1)
           D == d * (m + 1)
<1>2. C \in Nat /\ D \in Nat /\ C + i = D + j
  BY DEF PlaceOf
<1>3. c < d => C + (m + 1) <= D
  BY <1>1
<1>4. d < c => D + (m + 1) <= C
  BY <1>1
<1>5. ~(c < d) /\ ~(d < c)
  <2> HIDE DEF C, D
  <2> QED
    BY <1>2, <1>3, <1>4
<1>6. c = d
  BY <1>5
<1>7. C = D
  BY <1>6
<1>8. i = j
  <2> HIDE DEF C, D
  <2> QED
    BY <1>2, <1>7
<1> QED
  BY <1>6, <1>8

\* The bullets of some sessions: each at a place of its own, and not more of them
\* than the magazines hold.
LEMMA BulletsPlaced ==
    ASSUME NEW T, T \subseteq Ids, bullets \in [Ids -> 0 .. MagSize]
    PROVE  /\ Placed(AllBulletsOf(T))
           /\ AllBulletsOf(T) \subseteq Items
           /\ Cardinality(AllBulletsOf(T)) \in 0 .. MaxSessions * MagSize
<1> DEFINE S == AllBulletsOf(T)
           Nrs == 1 .. MagSize
           f == [x \in S |-> <<x.id, x.nr>>]
<1>1. \A x \in S : \E c \in Ids : \E i \in Nrs : x = BulletOf(c, i)
  <2>1. \A c \in T : c \in Ids /\ bullets[c] \in 0 .. MagSize
    OBVIOUS
  <2>2. \A c \in T : 1 .. bullets[c] \subseteq Nrs
    BY <2>1, ConstantsAssumption
  <2> QED
    BY <2>1, <2>2 DEF AllBulletsOf
<1> HIDE DEF S
<1>2. \A x \in S : /\ x.id \in Ids /\ x.nr \in Nrs
                   /\ x = BulletOf(x.id, x.nr)
                   /\ Place(x) = PlaceOf(MagSize, x.id, x.nr)
  BY <1>1 DEF BulletOf, Place, PlaceOf
<1>3. f \in Injection(S, Ids \X Nrs)
  BY <1>2 DEF Injection, IsInjective
<1>4. /\ IsFiniteSet(Ids) /\ Cardinality(Ids) = MaxSessions
      /\ IsFiniteSet(Nrs) /\ Cardinality(Nrs) = MagSize
  BY ConstantsAssumption, FS_Interval DEF Ids
<1>5. /\ IsFiniteSet(Ids \X Nrs)
      /\ Cardinality(Ids \X Nrs) = MaxSessions * MagSize
  BY <1>4, FS_Product
<1>6. IsFiniteSet(S) /\ Cardinality(S) <= MaxSessions * MagSize /\ Cardinality(S) \in Nat
  BY <1>3, <1>5, FS_Injection, FS_CardinalityType
<1>7. MaxSessions * MagSize \in Nat
  BY ConstantsAssumption
<1>8. ASSUME NEW x \in S
      PROVE  Place(x) \in Nat
  <2>1. x.id * (MagSize + 1) \in Nat
    BY <1>2, ConstantsAssumption DEF Ids
  <2>2. x.nr \in Nat
    BY <1>2
  <2> QED
    BY <1>2, <2>1, <2>2 DEF PlaceOf
<1>9. ASSUME NEW x \in S, NEW y \in S, Place(x) = Place(y)
      PROVE  x = y
  <2>1. /\ x.id \in Nat /\ y.id \in Nat /\ x.nr \in 1 .. MagSize /\ y.nr \in 1 .. MagSize
        /\ PlaceOf(MagSize, x.id, x.nr) = PlaceOf(MagSize, y.id, y.nr)
    BY <1>2, <1>9 DEF Ids
  <2>2. x.id = y.id /\ x.nr = y.nr
    <3>1. MagSize \in Nat
      BY ConstantsAssumption
    <3> QED
      BY ONLY <2>1, <3>1, PlaceOfBullet
  <2> QED
    BY <2>2, <1>2
<1>10. S \subseteq Items
  BY <1>1 DEF Items
<1>11. Placed(S)
  BY <1>6, <1>8, <1>9 DEF Placed
<1>12. Cardinality(S) \in 0 .. MaxSessions * MagSize
  BY <1>6, <1>7
<1> QED
  BY <1>10, <1>11, <1>12 DEF S

\* What a pass finds is a list of all there is, in the kinds' own sections.
LEMMA PassOverShips ==
    ASSUME NEW T, T \subseteq Ids
    PROVE  LET list == InOrder({ ShipOf(c) : c \in T })
           IN  /\ list \in Seq(Items) /\ list \in Seq(Items \cup Counts)
               /\ Len(list) = Cardinality(T)
               /\ AllOf(list, "ships")
               /\ \A c \in T : \E i \in 1 .. Len(list) : list[i].id = c
<1> DEFINE S == { ShipOf(c) : c \in T }
           list == InOrder(S)
<1>1. Placed(S) /\ Cardinality(S) = Cardinality(T)
  BY ShipsPlaced
<1>2. /\ list \in Seq(S) /\ Len(list) = Cardinality(S)
      /\ \A x \in S : \E i \in 1 .. Cardinality(S) : list[i] = x
  <2> HIDE DEF S
  <2> QED
    BY <1>1, InOrderWalks
<1>3. \A x \in S : x.kind = "ships" /\ x \in Items
  BY DEF ShipOf, Items
<1>4. S \subseteq Items /\ S \subseteq Items \cup Counts
  BY <1>3
<1>5. \A c \in T : ShipOf(c) \in S /\ ShipOf(c).id = c
  BY DEF ShipOf
<1> HIDE DEF S, list
<1>6. list \in Seq(Items) /\ list \in Seq(Items \cup Counts)
  BY <1>2, <1>4, SeqMonotonic
<1>7. \A i \in 1 .. Len(list) : list[i] \in S
  BY <1>2
<1>8. \A i \in 1 .. Len(list) : list[i].kind = "ships"
  BY <1>3, <1>7
<1>9. \A c \in T : \E i \in 1 .. Len(list) : list[i].id = c
  BY <1>2, <1>5
<1>10. Len(list) = Cardinality(T)
  BY <1>1, <1>2
<1> QED
  BY <1>6, <1>8, <1>9, <1>10 DEF S, list, AllOf

LEMMA PassOverBullets ==
    ASSUME NEW T, T \subseteq Ids, bullets \in [Ids -> 0 .. MagSize]
    PROVE  LET list == InOrder(AllBulletsOf(T))
           IN  /\ list \in Seq(Items) /\ list \in Seq(Items \cup Counts)
               /\ Len(list) = Cardinality(AllBulletsOf(T))
               /\ \A i \in 1 .. Len(list) : list[i] \in AllBulletsOf(T)
               /\ AllOf(list, "bullets")
<1> DEFINE S == AllBulletsOf(T)
           list == InOrder(S)
<1>1. Placed(S) /\ S \subseteq Items
  BY BulletsPlaced
<1>2. \A x \in S : x.kind = "bullets"
  BY DEF AllBulletsOf, BulletOf
<1> HIDE DEF S
<1>3. list \in Seq(S) /\ Len(list) = Cardinality(S)
  BY <1>1, InOrderWalks
<1> HIDE DEF list
<1>4. S \subseteq Items \cup Counts
  BY <1>1
<1>5. list \in Seq(Items) /\ list \in Seq(Items \cup Counts)
  BY <1>1, <1>3, <1>4, SeqMonotonic
<1>6. \A i \in 1 .. Len(list) : list[i] \in S /\ list[i].kind = "bullets"
  BY <1>2, <1>3
<1> QED
  BY <1>3, <1>5, <1>6 DEF S, list, AllOf

LEMMA PassOverRocks ==
    ASSUME rocks \in 0 .. MaxRocks
    PROVE  LET list == [i \in 1 .. rocks |-> Rock(i)]
           IN  /\ list \in Seq(Items) /\ list \in Seq(Items \cup Counts)
               /\ Len(list) = rocks
               /\ AllOf(list, "rocks")
<1> DEFINE list == [i \in 1 .. rocks |-> Rock(i)]
<1>1. rocks \in Nat
  BY ConstantsAssumption
<1>2. ASSUME NEW i \in 1 .. rocks
      PROVE  /\ Rock(i) \in Items /\ Rock(i).kind = "rocks"
             /\ Rock(i) \in Items \cup Counts
  <2>1. i \in 1 .. MaxRocks
    BY ConstantsAssumption
  <2>2. Rock(i) \in Items
    BY <2>1 DEF Items
  <2> QED
    BY <2>2 DEF Rock
<1>3. list \in [1 .. rocks -> Items] /\ list \in [1 .. rocks -> Items \cup Counts]
  BY <1>2
<1>4. list \in Seq(Items) /\ list \in Seq(Items \cup Counts) /\ Len(list) = rocks
  BY <1>1, <1>3
<1> QED
  BY <1>1, <1>2, <1>4 DEF AllOf

LEMMA PassOverGun ==
    ASSUME NEW c \in Ids, bullets \in [Ids -> 0 .. MagSize]
    PROVE  /\ BulletsOf(c) \in Seq(Items) /\ BulletsOf(c) \in Seq(Items \cup Counts)
           /\ Len(BulletsOf(c)) = bullets[c]
           /\ AllOf(BulletsOf(c), "bullets")
           /\ \A i \in 1 .. Len(BulletsOf(c)) : BulletsOf(c)[i].id = c
<1> DEFINE n == bullets[c]
<1>1. n \in 0 .. MagSize /\ n \in Nat
  BY ConstantsAssumption
<1>2. \A i \in 1 .. n : /\ BulletOf(c, i) \in Items
                        /\ BulletOf(c, i) \in Items \cup Counts
                        /\ BulletOf(c, i).kind = "bullets" /\ BulletOf(c, i).id = c
  BY <1>1, ConstantsAssumption DEF Items, BulletOf
<1>3. /\ BulletsOf(c) \in [1 .. n -> Items]
      /\ BulletsOf(c) \in [1 .. n -> Items \cup Counts]
      /\ \A i \in 1 .. n : BulletsOf(c)[i] = BulletOf(c, i)
  BY <1>2 DEF BulletsOf
<1> HIDE DEF n
<1>4. BulletsOf(c) \in Seq(Items) /\ BulletsOf(c) \in Seq(Items \cup Counts)
      /\ Len(BulletsOf(c)) = n
  BY <1>1, <1>3
<1> QED
  BY <1>2, <1>3, <1>4 DEF n, AllOf

-----------------------------------------------------------------------------
(***************************************************************************)
(* What the browser reads.                                                 *)
(***************************************************************************)

\* It reads the list a section tells of, and goes on behind it.
LEMMA SectionTold ==
    ASSUME NEW items \in Seq(Items \cup Counts), NEW at \in Nat \ {0},
           NEW list \in Seq(Items), NEW kind,
           AllOf(list, kind), Tells(items, at, list), Len(list) < CountRange
    PROVE  Section(items, at, kind) = [ok |-> TRUE, got |-> list, next |-> at + Len(list) + 1]
<1> DEFINE n == Len(list)
           got == SubSeq(items, at + 1, at + n)
<1>1. n \in Nat /\ Len(items) \in Nat
  OBVIOUS
<1>2. /\ at + n <= Len(items) /\ items[at].kind = "count" /\ items[at].n = n
      /\ \A i \in 1 .. n : items[at + i] = list[i]
  BY CountIs DEF Tells
<1>3. \A i \in at + 1 .. at + n : items[i] \in Items \cup Counts
  BY <1>1, <1>2
<1>4. /\ got \in Seq(Items \cup Counts) /\ Len(got) = n
      /\ \A i \in 1 .. n : got[i] = items[at + i]
  <2> DEFINE first == at + 1
             last == at + n
  <2>1. /\ first \in Int /\ last \in Int /\ last - first + 1 = n
        /\ n > 0 => first <= last
        /\ n = 0 => ~(first <= last)
    BY <1>1
  <2>2. \A i \in first .. last : items[i] \in Items \cup Counts
    BY <1>3
  <2>3. got = SubSeq(items, first, last)
    OBVIOUS
  <2>4. \A i \in 1 .. n : first + i - 1 = at + i
    BY <1>1
  <2> HIDE DEF n, first, last, got
  <2>5. /\ SubSeq(items, first, last) \in Seq(Items \cup Counts)
        /\ Len(SubSeq(items, first, last)) = IF first <= last THEN last - first + 1 ELSE 0
        /\ \A i \in 1 .. last - first + 1 :
               SubSeq(items, first, last)[i] = items[first + i - 1]
    BY <2>1, <2>2, SubSeqProperties
  <2>6. Len(got) = n
    BY <1>1, <2>1, <2>3, <2>5
  <2> QED
    BY <2>1, <2>3, <2>4, <2>5, <2>6
<1> HIDE DEF got, n
<1>5. got = list
  <2>1. list \in Seq(Items \cup Counts)
    BY SeqMonotonic
  <2>2. Len(got) = Len(list) /\ \A i \in 1 .. Len(got) : got[i] = list[i]
    BY <1>2, <1>4 DEF n
  <2> QED
    BY <1>4, <2>1, <2>2, SeqEqual
<1>6. \A i \in DOMAIN got : got[i].kind = kind
  BY <1>5 DEF AllOf
<1>7. at # Len(items) + 1 /\ ~(items[at].kind # "count" \/ at + items[at].n > Len(items))
  BY <1>1, <1>2
<1>8. Section(items, at, kind) = [ok |-> \A i \in DOMAIN got : got[i].kind = kind,
                                  got |-> got, next |-> at + n + 1]
  BY <1>2, <1>7 DEF Section, got
<1> QED
  BY <1>5, <1>6, <1>8 DEF n

\* It reads nothing where the message ends.
LEMMA SectionMissing ==
    ASSUME NEW items, NEW kind
    PROVE  Section(items, Len(items) + 1, kind)
               = [ok |-> TRUE, got |-> <<>>, next |-> Len(items) + 1]
  BY DEF Section

-----------------------------------------------------------------------------
(***************************************************************************)
(* The connections' handlers.                                              *)
(***************************************************************************)

\* The bullets that a pass finds depend on the guns of the others only.
Guns(c) == IF c \in Others THEN bullets[c] ELSE 0

LEMMA SameBullets ==
    ASSUME bullets \in [Ids -> 0 .. MagSize], \A c \in Ids : Guns(c)' = Guns(c)
    PROVE  AllBulletsOf(Others)' = AllBulletsOf(Others)
<1> DEFINE B(c, n) == { BulletOf(c, i) : i \in 1 .. n }
<1>1. \A c : B(c, 0) = {}
  OBVIOUS
<1>2. AllBulletsOf(Others) = UNION { B(c, Guns(c)) : c \in Ids }
  <2>1. Others \subseteq Ids
    BY DEF Others
  <2>2. \A c \in Others : Guns(c) = bullets[c]
    BY DEF Guns
  <2>3. \A c \in Ids \ Others : Guns(c) = 0
    BY DEF Guns
  <2>4. AllBulletsOf(Others) = UNION { B(c, bullets[c]) : c \in Others }
    BY DEF AllBulletsOf
  <2> HIDE DEF B
  <2> QED
    BY <1>1, <2>1, <2>2, <2>3, <2>4
<1>3. AllBulletsOf(Others)' = UNION { B(c, Guns(c)') : c \in Ids }
  <2>1. Others' \subseteq Ids
    BY DEF Others
  <2>2. \A c \in Others' : Guns(c)' = bullets'[c]
    BY DEF Guns
  <2>3. \A c \in Ids : c \notin Others' => Guns(c)' = 0
    BY DEF Guns
  <2>4. AllBulletsOf(Others)' = UNION { B(c, bullets'[c]) : c \in Others' }
    BY DEF AllBulletsOf
  <2> HIDE DEF B
  <2> QED
    BY <1>1, <2>1, <2>2, <2>3, <2>4
<1> QED
  BY <1>2, <1>3

\* What a handler changes of the things that have been counted, it is noted for.
Unchanged ==
    raced' = {} =>
        /\ tick.step = "fillRocks" => rocks' = rocks
        /\ tick.step = "fillShips" => Others' = Others
        /\ tick.step = "fillBullets" => \A c \in Ids : Guns(c)' = Guns(c)
        /\ tick.step = "fillGun" /\ count > 0 => bullets'[tick.at] = bullets[tick.at]

LEMMA CountedHas ==
    /\ tick.step = "fillRocks" => <<"rocks", 0>> \in Counted
    /\ tick.step = "fillShips" =>
           \A c \in Ids : c # tick.at => <<"ships", c>> \in Counted
    /\ tick.step = "fillBullets" =>
           \A c \in Ids : c # tick.at => <<"bullets", c>> \in Counted
    /\ tick.step = "fillGun" /\ count > 0 => <<"bullets", tick.at>> \in Counted
<1>1. tick.step = "fillRocks" => Counted = {<<"rocks", 0>>}
  BY DEF Counted
<1>2. tick.step = "fillShips" => Counted = {"ships"} \X (Ids \ {tick.at})
  BY DEF Counted
<1>3. tick.step = "fillBullets" => Counted = {"bullets"} \X (Ids \ {tick.at})
  BY DEF Counted
<1>4. tick.step = "fillGun" /\ count > 0 => Counted = {<<"bullets", tick.at>>}
  BY DEF Counted
<1> QED
  BY <1>1, <1>2, <1>3, <1>4

LEMMA HandlersAreNoted ==
    ASSUME TypeOK, TimerIsSomewhere, BulletsNeedPlayer, Handling
    PROVE  /\ UNCHANGED <<tick, count, buf, shown>>
           /\ raced \subseteq raced' /\ fault = "none" /\ fault' \in {"none", "iteratorLost"}
           /\ BulletsNeedPlayer'
           /\ Unchanged
<1>1. PICK c \in Ids : Accept(c) \/ Register(c) \/ Close(c) \/ FireKey(c) \/ Click(c)
  BY DEF Handling
<1>2. CASE Accept(c)
  <2>1. /\ UNCHANGED <<rocks, bullets, tick, count, buf, shown, raced, fault>>
        /\ fault = "none" /\ status' = [status EXCEPT ![c] = "connected"]
        /\ status[c] = "absent"
    BY <1>2 DEF Accept, CanRun
  <2>2. Others' = Others
    BY <2>1 DEF Others, TypeOK
  <2>3. BulletsNeedPlayer'
    BY <2>1 DEF BulletsNeedPlayer, TypeOK
  <2>4. \A d \in Ids : Guns(d)' = Guns(d)
    BY <2>1, <2>2 DEF Guns
  <2> QED
    BY <2>1, <2>2, <2>3, <2>4 DEF Unchanged
<1>3. CASE Register(c)
  <2>1. /\ UNCHANGED <<rocks, bullets, tick, count, buf, shown, fault>>
        /\ fault = "none" /\ status' = [status EXCEPT ![c] = "playing"]
        /\ status[c] = "connected" /\ bullets[c] = 0
        /\ raced' = raced \cup ({<<"ships", c>>} \cap Counted)
    BY <1>3 DEF Register, CanRun, Changes, BulletsNeedPlayer
  <2>2. BulletsNeedPlayer'
    BY <2>1 DEF BulletsNeedPlayer, TypeOK
  <2>3. raced' = {} /\ tick.step = "fillShips" => Others' = Others
    <3>1. raced' = {} /\ tick.step = "fillShips" => c = tick.at
      BY <2>1, CountedHas
    <3> QED
      BY <3>1, <2>1 DEF Others, TypeOK
  <2>4. \A d \in Ids : Guns(d)' = Guns(d)
    BY <2>1 DEF Guns, Others, TypeOK
  <2> QED
    BY <2>1, <2>2, <2>3, <2>4 DEF Unchanged
<1>4. CASE Close(c)
  <2>1. /\ UNCHANGED <<rocks, bullets, tick, count, buf, shown>>
        /\ fault = "none" /\ fault' \in {"none", "iteratorLost"}
        /\ status' = [status EXCEPT ![c] = "closed"]
        /\ status[c] \in {"connected", "playing"}
    BY <1>4 DEF Close, CanRun, InMap
  <2>2. /\ raced \subseteq raced'
        /\ status[c] = "playing" => {<<"ships", c>>} \cap Counted \subseteq raced'
        /\ status[c] = "playing" /\ bullets[c] > 0 =>
               {<<"bullets", c>>} \cap Counted \subseteq raced'
    BY <1>4 DEF Close, Changes
  <2>3. BulletsNeedPlayer'
    BY <2>1 DEF BulletsNeedPlayer, TypeOK
  <2>4. raced' = {} /\ tick.step = "fillShips" => Others' = Others
    <3>1. raced' = {} /\ tick.step = "fillShips" /\ status[c] = "playing" => c = tick.at
      BY <2>2, CountedHas
    <3> QED
      BY <3>1, <2>1 DEF Others, TypeOK
  <2>5. raced' = {} /\ tick.step = "fillBullets" => \A d \in Ids : Guns(d)' = Guns(d)
    <3>1. SUFFICES ASSUME raced' = {}, tick.step = "fillBullets", NEW d \in Ids
                   PROVE  Guns(d)' = Guns(d)
      OBVIOUS
    <3>2. status[c] = "playing" /\ bullets[c] > 0 => c = tick.at
      BY <2>2, <3>1, CountedHas
    <3>3. bullets[c] \in Nat
      BY ConstantsAssumption DEF TypeOK
    <3> QED
      BY <3>2, <3>3, <2>1 DEF Guns, Others, TypeOK
  <2> QED
    BY <2>1, <2>2, <2>3, <2>4, <2>5 DEF Unchanged
<1>5. CASE FireKey(c)
  <2>1. /\ UNCHANGED <<status, rocks, tick, count, buf, shown, fault>>
        /\ fault = "none" /\ status[c] = "playing"
        /\ bullets' = [bullets EXCEPT ![c] = Fired(@)]
        /\ raced \subseteq raced'
        /\ bullets'[c] # bullets[c] => {<<"bullets", c>>} \cap Counted \subseteq raced'
    BY <1>5 DEF FireKey, CanRun, Changes, TypeOK
  <2>2. BulletsNeedPlayer'
    BY <2>1 DEF BulletsNeedPlayer, TypeOK
  <2>3. Others' = Others
    BY <2>1 DEF Others
  <2>4. raced' = {} /\ tick.step = "fillBullets" => \A d \in Ids : Guns(d)' = Guns(d)
    <3>1. SUFFICES ASSUME raced' = {}, tick.step = "fillBullets", NEW d \in Ids
                   PROVE  Guns(d)' = Guns(d)
      OBVIOUS
    <3>2. bullets'[c] # bullets[c] => c = tick.at
      BY <2>1, <3>1, CountedHas
    <3>3. d # c => bullets'[d] = bullets[d]
      BY <2>1 DEF TypeOK
    <3>4. tick.at \notin Others
      BY DEF Others
    <3> QED
      BY <3>2, <3>3, <3>4, <2>3 DEF Guns
  <2>5. raced' = {} /\ tick.step = "fillGun" /\ count > 0 =>
            bullets'[tick.at] = bullets[tick.at]
    <3>1. SUFFICES ASSUME raced' = {}, tick.step = "fillGun", count > 0
                   PROVE  bullets'[tick.at] = bullets[tick.at]
      OBVIOUS
    <3>2. c = tick.at => bullets'[c] = bullets[c]
      BY <2>1, <3>1, CountedHas
    <3>3. c # tick.at /\ tick.at \in Ids => bullets'[tick.at] = bullets[tick.at]
      BY <2>1 DEF TypeOK
    <3> QED
      BY <3>1, <3>2, <3>3 DEF TimerIsSomewhere
  <2> QED
    BY <2>1, <2>2, <2>3, <2>4, <2>5 DEF Unchanged
<1>6. CASE Click(c)
  <2>1. /\ UNCHANGED <<status, bullets, tick, count, buf, shown, fault>>
        /\ fault = "none" /\ raced' = raced \cup ({<<"rocks", 0>>} \cap Counted)
    BY <1>6 DEF Click, CanRun, Changes
  <2>2. tick.step = "fillRocks" => raced' # {}
    BY <2>1, CountedHas
  <2>3. Others' = Others /\ BulletsNeedPlayer'
    BY <2>1 DEF Others, BulletsNeedPlayer
  <2>4. \A d \in Ids : Guns(d)' = Guns(d)
    BY <2>1, <2>3 DEF Guns
  <2> QED
    BY <2>1, <2>2, <2>3, <2>4 DEF Unchanged
<1> QED
  BY <1>1, <1>2, <1>3, <1>4, <1>5, <1>6

LEMMA HandlersKeepTypes ==
    ASSUME TypeOK, Handling
    PROVE  TypeOK'
<1>1. PICK c \in Ids : Accept(c) \/ Register(c) \/ Close(c) \/ FireKey(c) \/ Click(c)
  BY DEF Handling
<1>2. UNCHANGED <<tick, count, buf, shown>>
  BY <1>1 DEF Accept, Register, Close, FireKey, Click
<1>3. status' \in [Ids -> Statuses] /\ fault' \in {"none", "overrun", "iteratorLost"}
  BY <1>1 DEF Accept, Register, Close, FireKey, Click, CanRun, TypeOK, Statuses
<1>4. rocks' \in 0 .. MaxRocks
  <2>1. rocks' = rocks \/ (rocks < MaxRocks /\ rocks' = rocks + 1)
    BY <1>1 DEF Accept, Register, Close, FireKey, Click
  <2> QED
    BY <2>1, ConstantsAssumption DEF TypeOK
<1>5. bullets' \in [Ids -> 0 .. MagSize]
  <2>1. bullets' = bullets \/ bullets' = [bullets EXCEPT ![c] = Fired(@)]
    BY <1>1 DEF Accept, Register, Close, FireKey, Click
  <2>2. \A n \in 0 .. MagSize : Fired(n) \in 0 .. MagSize
    BY ConstantsAssumption DEF Fired
  <2>3. bullets \in [Ids -> 0 .. MagSize]
    BY DEF TypeOK
  <2>4. Fired(bullets[c]) \in 0 .. MagSize
    BY <2>2, <2>3
  <2>5. [bullets EXCEPT ![c] = Fired(bullets[c])] \in [Ids -> 0 .. MagSize]
    BY <2>3, <2>4
  <2> QED
    BY <2>1, <2>3, <2>5
<1>6. raced' \subseteq Parts \X (0 .. MaxSessions)
  <2>1. /\ <<"ships", c>> \in Parts \X (0 .. MaxSessions)
        /\ <<"bullets", c>> \in Parts \X (0 .. MaxSessions)
        /\ <<"rocks", 0>> \in Parts \X (0 .. MaxSessions)
    BY ConstantsAssumption DEF Parts, Ids
  <2>2. raced' \subseteq raced \cup {<<"ships", c>>, <<"bullets", c>>, <<"rocks", 0>>}
    BY <1>1 DEF Accept, Register, Close, FireKey, Click, Changes
  <2> QED
    BY <2>1, <2>2 DEF TypeOK
<1> QED
  BY <1>2, <1>3, <1>4, <1>5, <1>6 DEF TypeOK

\* What is said of a message in one step of the timer handler needs no proof in
\* another one, or when something raced with the message.
LEMMA ElsewhereNothingIsSaid ==
    /\ ~Quiet("fillRocks")' => AfterCountRocks'
    /\ ~Quiet("countShips")' => AfterFillRocks'
    /\ ~Quiet("fillShips")' => AfterCountShips'
    /\ ~Quiet("fillBullets")' => AfterFillShips'
    /\ ~Quiet("fillGun")' => AfterCountGun'
    /\ ~Quiet("commit")' => ReadAsFound' /\ BulletsHaveShips'
  BY DEF AfterCountRocks, AfterFillRocks, AfterCountShips, AfterFillShips, AfterCountGun,
         ReadAsFound, BulletsHaveShips, Told, Quiet

\* The handlers keep the invariant: what they change of a message is noted.
LEMMA HandlersKeepInvariant ==
    ASSUME IInv, Handling
    PROVE  IInv'
<1> USE DEF IInv
<1>1. /\ UNCHANGED <<tick, count, buf, shown>>
      /\ raced \subseteq raced' /\ fault = "none" /\ fault' \in {"none", "iteratorLost"}
      /\ BulletsNeedPlayer'
      /\ Unchanged
  BY HandlersAreNoted
<1>2. TypeOK'
  BY HandlersKeepTypes
<1>3. TimerIsSomewhere' /\ KindsFound'
  BY <1>1 DEF TimerIsSomewhere, KindsFound
<1>4. FitsUnlessRaced'
  BY <1>1 DEF FitsUnlessRaced
<1>5. \A step : Quiet(step)' => Quiet(step) /\ raced' = {}
  BY <1>1 DEF Quiet
<1>6. AfterCountRocks'
  <2>1. SUFFICES ASSUME Quiet("fillRocks")'
                 PROVE  AfterCountRocks'
    BY ElsewhereNothingIsSaid
  <2>2. Quiet("fillRocks") /\ rocks' = rocks
    BY <1>1, <1>5, <2>1 DEF Unchanged, Quiet
  <2> QED
    BY <1>1, <2>2 DEF AfterCountRocks, Announces
<1>7. AfterFillRocks'
  BY <1>1, <1>5, ElsewhereNothingIsSaid DEF AfterFillRocks, Tells
<1>8. AfterCountShips'
  <2>1. SUFFICES ASSUME Quiet("fillShips")'
                 PROVE  AfterCountShips'
    BY ElsewhereNothingIsSaid
  <2>2. Quiet("fillShips") /\ Others' = Others
    BY <1>1, <1>5, <2>1 DEF Unchanged, Quiet
  <2> QED
    BY <1>1, <2>2 DEF AfterCountShips, Announces, Tells
<1>9. AfterFillShips'
  <2>1. SUFFICES ASSUME Quiet("fillBullets")'
                 PROVE  AfterFillShips'
    BY ElsewhereNothingIsSaid
  <2>2. Quiet("fillBullets") /\ \A c \in Ids : Guns(c)' = Guns(c)
    BY <1>1, <1>5, <2>1 DEF Unchanged, Quiet
  <2>3. AllBulletsOf(Others)' = AllBulletsOf(Others)
    BY <2>2, SameBullets DEF TypeOK
  <2> QED
    BY <1>1, <2>2, <2>3 DEF AfterFillShips, Announces, Tells, HasShip
<1>10. AfterCountGun'
  <2>1. SUFFICES ASSUME Quiet("fillGun")'
                 PROVE  AfterCountGun'
    BY ElsewhereNothingIsSaid
  <2>2. Quiet("fillGun") /\ (count > 0 => bullets'[tick.at] = bullets[tick.at])
    BY <1>1, <1>5, <2>1 DEF Unchanged, Quiet
  <2> QED
    BY <1>1, <2>2 DEF AfterCountGun, Announces
<1>11. ReadAsFound' /\ BulletsHaveShips'
  <2>1. SUFFICES ASSUME Quiet("commit")'
                 PROVE  ReadAsFound' /\ BulletsHaveShips'
    BY ElsewhereNothingIsSaid
  <2>2. Told
    BY <1>5, <2>1 DEF Told, Quiet
  <2>3. ClientReads' = ClientReads /\ Countable' = Countable
    BY <1>1 DEF ClientReads, Countable
  <2> QED
    BY <1>1, <2>2, <2>3 DEF ReadAsFound, BulletsHaveShips
<1> QED
  BY <1>1, <1>2, <1>3, <1>4, <1>6, <1>7, <1>8, <1>9, <1>10, <1>11

-----------------------------------------------------------------------------
(***************************************************************************)
(* Messages as the timer handler leaves them.                              *)
(***************************************************************************)

\* A list put behind the count of its length makes a section, and what is put behind
\* a section leaves it as it is.
LEMMA SectionMade ==
    ASSUME NEW items \in Seq(Items \cup Counts), NEW list \in Seq(Items \cup Counts),
           Len(items) > 0, items[Len(items)] = CountOf(Len(list))
    PROVE  /\ Tells(items \o list, Len(items), list)
           /\ Len(items \o list) = Len(items) + Len(list)
<1>1. Len(items \o list) = Len(items) + Len(list) /\ Len(items) \in Nat
  OBVIOUS
<1>2. (items \o list)[Len(items)] = items[Len(items)]
  OBVIOUS
<1>3. \A i \in 1 .. Len(list) : (items \o list)[Len(items) + i] = list[i]
  OBVIOUS
<1> QED
  BY <1>1, <1>2, <1>3 DEF Tells

LEMMA SectionStays ==
    ASSUME NEW items \in Seq(Items \cup Counts), NEW more \in Seq(Items \cup Counts),
           NEW at \in Nat \ {0}, NEW list \in Seq(Items), Tells(items, at, list)
    PROVE  Tells(items \o more, at, list)
<1>1. /\ Len(items \o more) = Len(items) + Len(more) /\ Len(items) \in Nat
      /\ Len(more) \in Nat /\ Len(list) \in Nat
      /\ \A i \in 1 .. Len(items) : (items \o more)[i] = items[i]
  OBVIOUS
<1>2. at \in 1 .. Len(items) /\ \A i \in 1 .. Len(list) : at + i \in 1 .. Len(items)
  BY <1>1 DEF Tells
<1> QED
  BY <1>1, <1>2 DEF Tells

\* The message of the universe loop: one, two or three sections, of which the
\* browser reads all that was shown.
LEMMA UniverseIsRead ==
    ASSUME NEW items \in Seq(Items \cup Counts), NEW sh \in [Parts -> Seq(Items)],
           \A part \in Parts : AllOf(sh[part], part),
           \A part \in Parts : Len(sh[part]) < CountRange,
           Tells(items, 2, sh["rocks"]),
           \/ /\ Len(items) = 2 + Len(sh["rocks"])
              /\ sh["ships"] = <<>> /\ sh["bullets"] = <<>>
           \/ /\ Tells(items, 3 + Len(sh["rocks"]), sh["ships"])
              /\ \/ /\ Len(items) = 3 + Len(sh["rocks"]) + Len(sh["ships"])
                    /\ sh["bullets"] = <<>>
                 \/ Tells(items, 4 + Len(sh["rocks"]) + Len(sh["ships"]), sh["bullets"])
    PROVE  ReadUniverse(items).ok /\ ReadUniverse(items).got = sh
<1> DEFINE r == Section(items, 2, "rocks")
           s == Section(items, r.next, "ships")
           b == Section(items, s.next, "bullets")
           R == Len(sh["rocks"])
           S == Len(sh["ships"])
           rocks_ == sh["rocks"]
           ships_ == sh["ships"]
           bullets_ == sh["bullets"]
<1>1. /\ rocks_ \in Seq(Items) /\ ships_ \in Seq(Items) /\ bullets_ \in Seq(Items)
      /\ AllOf(rocks_, "rocks") /\ AllOf(ships_, "ships") /\ AllOf(bullets_, "bullets")
      /\ R = Len(rocks_) /\ S = Len(ships_) /\ R \in Nat /\ S \in Nat
      /\ Len(rocks_) < CountRange /\ Len(ships_) < CountRange
      /\ Len(bullets_) < CountRange
  BY DEF Parts
<1>2. /\ r = Section(items, 2, "rocks")
      /\ s = Section(items, r.next, "ships")
      /\ b = Section(items, s.next, "bullets")
      /\ Tells(items, 2, rocks_)
      /\ \/ Len(items) = 2 + R /\ ships_ = <<>> /\ bullets_ = <<>>
         \/ /\ Tells(items, 3 + R, ships_)
            /\ \/ Len(items) = 3 + R + S /\ bullets_ = <<>>
               \/ Tells(items, 4 + R + S, bullets_)
  OBVIOUS
<1> HIDE DEF r, s, b, R, S, rocks_, ships_, bullets_
<1>3. r.ok /\ r.got = rocks_ /\ r.next = 3 + R
  <2> DEFINE at == 2
  <2>1. at \in Nat \ {0} /\ r = Section(items, at, "rocks") /\ Tells(items, at, rocks_)
        /\ items \in Seq(Items \cup Counts)
    BY <1>2
  <2> HIDE DEF at
  <2>2. Section(items, at, "rocks") = [ok |-> TRUE, got |-> rocks_, next |-> at + Len(rocks_) + 1]
    BY ONLY <1>1, <2>1, SectionTold
  <2>3. r = [ok |-> TRUE, got |-> rocks_, next |-> 2 + Len(rocks_) + 1]
    BY <2>1, <2>2 DEF at
  <2> QED
    BY <2>3, <1>1
<1>4. s.ok /\ s.got = ships_ /\ b.ok /\ b.got = bullets_
  <2>1. CASE Len(items) = 2 + R /\ ships_ = <<>> /\ bullets_ = <<>>
    <3>1. r.next = Len(items) + 1
      BY <1>1, <1>3, <2>1
    <3>2. s = [ok |-> TRUE, got |-> <<>>, next |-> Len(items) + 1]
      BY <1>2, <3>1, SectionMissing
    <3>3. b = [ok |-> TRUE, got |-> <<>>, next |-> Len(items) + 1]
      BY <1>2, <3>2, SectionMissing
    <3> QED
      BY <2>1, <3>2, <3>3
  <2>2. CASE Tells(items, 3 + R, ships_)
    <3>1. s.ok /\ s.got = ships_ /\ s.next = 4 + R + S
      <4> DEFINE at == 3 + R
      <4>1. at \in Nat \ {0} /\ s = Section(items, at, "ships") /\ Tells(items, at, ships_)
            /\ items \in Seq(Items \cup Counts)
        BY <1>1, <1>2, <1>3, <2>2
      <4> HIDE DEF at
      <4>2. Section(items, at, "ships") = [ok |-> TRUE, got |-> ships_, next |-> at + Len(ships_) + 1]
        BY ONLY <1>1, <4>1, SectionTold
      <4>3. s = [ok |-> TRUE, got |-> ships_, next |-> at + S + 1]
        BY <1>1, <4>1, <4>2
      <4>4. at + S + 1 = 4 + R + S
        BY <1>1 DEF at
      <4> QED
        BY <4>3, <4>4
    <3>2. CASE Len(items) = 3 + R + S /\ bullets_ = <<>>
      <4>1. b = Section(items, Len(items) + 1, "bullets")
        BY <1>1, <1>2, <3>1, <3>2
      <4>2. b = [ok |-> TRUE, got |-> <<>>, next |-> Len(items) + 1]
        BY <4>1, SectionMissing
      <4> QED
        BY <3>1, <3>2, <4>2
    <3>3. CASE Tells(items, 4 + R + S, bullets_)
      <4> DEFINE at == 4 + R + S
      <4>1. at \in Nat \ {0} /\ b = Section(items, at, "bullets") /\ Tells(items, at, bullets_)
            /\ items \in Seq(Items \cup Counts)
        BY <1>1, <1>2, <3>1, <3>3
      <4> HIDE DEF at
      <4>2. Section(items, at, "bullets")
                = [ok |-> TRUE, got |-> bullets_, next |-> at + Len(bullets_) + 1]
        BY ONLY <1>1, <4>1, SectionTold
      <4>3. b = [ok |-> TRUE, got |-> bullets_, next |-> at + Len(bullets_) + 1]
        BY <4>1, <4>2
      <4> QED
        BY <3>1, <4>3
    <3> QED
      BY <1>2, <2>1, <3>2, <3>3
  <2> QED
    BY <1>2, <2>1, <2>2
<1>5. ReadUniverse(items).ok
  BY <1>3, <1>4 DEF ReadUniverse, r, s, b
<1>6. ReadUniverse(items).got = [part \in Parts |-> CASE part = "rocks" -> r.got
                                                      [] part = "ships" -> s.got
                                                      [] part = "bullets" -> b.got]
  BY DEF ReadUniverse, r, s, b
<1>7. ReadUniverse(items).got = sh
  BY <1>3, <1>4, <1>6 DEF Parts, rocks_, ships_, bullets_
<1> QED
  BY <1>5, <1>7

\* The message of a player's tick.
LEMMA PlayerIsRead ==
    ASSUME NEW items \in Seq(Items \cup Counts), NEW sh \in [Parts -> Seq(Items)],
           \A part \in Parts : AllOf(sh[part], part),
           \A part \in Parts : Len(sh[part]) < CountRange,
           sh["rocks"] = <<>>, sh["ships"] = <<items[2]>>, items[2].kind = "ships",
           Tells(items, 3, sh["bullets"])
    PROVE  ReadPlayer(items).ok /\ ReadPlayer(items).got = sh
<1> DEFINE b == Section(items, 3, "bullets")
           bullets_ == sh["bullets"]
<1>1. /\ bullets_ \in Seq(Items) /\ AllOf(bullets_, "bullets")
      /\ Tells(items, 3, bullets_) /\ Len(bullets_) < CountRange
  BY DEF Parts
<1>2. b.ok /\ b.got = bullets_
  <2> HIDE DEF bullets_
  <2> DEFINE at == 3
  <2>1. at \in Nat \ {0} /\ Tells(items, at, bullets_) /\ items \in Seq(Items \cup Counts)
    BY <1>1
  <2>2. b = Section(items, at, "bullets")
    OBVIOUS
  <2> HIDE DEF at, b
  <2>3. Section(items, at, "bullets") = [ok |-> TRUE, got |-> bullets_, next |-> at + Len(bullets_) + 1]
    BY ONLY <1>1, <2>1, SectionTold
  <2> QED
    BY <2>2, <2>3
<1> HIDE DEF b, bullets_
<1>3. ReadPlayer(items).ok
  BY <1>2 DEF ReadPlayer, b
<1>4. ReadPlayer(items).got = [part \in Parts |-> CASE part = "rocks" -> <<>>
                                                    [] part = "ships" -> <<items[2]>>
                                                    [] part = "bullets" -> b.got]
  BY DEF ReadPlayer, b
<1>5. ReadPlayer(items).got = sh
  BY <1>2, <1>4 DEF Parts, bullets_
<1> QED
  BY <1>3, <1>5

-----------------------------------------------------------------------------
(***************************************************************************)
(* The timer handler: between two messages.                                *)
(***************************************************************************)

\* With the loop between two sessions there is no message to speak of.
LEMMA BetweenMessages ==
    ASSUME IInv, TypeOK', tick'.step = "begin", BulletsNeedPlayer', fault' = fault,
           UNCHANGED <<shown, raced>>
    PROVE  IInv'
<1>1. TimerIsSomewhere'
  BY DEF TimerIsSomewhere
<1>2. KindsFound' /\ FitsUnlessRaced'
  BY DEF IInv, KindsFound, FitsUnlessRaced
<1>3. \A step \in Steps \ {"begin"} : ~Quiet(step)'
  BY DEF Quiet
<1> QED
  BY <1>1, <1>2, <1>3, ElsewhereNothingIsSaid DEF IInv, Steps

LEMMA StartTickKeeps ==
    ASSUME IInv, StartTick
    PROVE  IInv'
<1>1. /\ UNCHANGED <<status, count, buf, shown, raced, fault>>
      /\ tick' = [loop |-> "universe", at |-> 1, step |-> "begin"]
      /\ rocks' \in 0 .. MaxRocks /\ bullets' \in [Ids -> 0 .. MagSize]
      /\ \A c \in Ids : bullets'[c] <= bullets[c]
  BY DEF StartTick, Idle
<1>2. TypeOK'
  BY <1>1, ConstantsAssumption DEF IInv, TypeOK, Ticks, Steps
<1>3. BulletsNeedPlayer'
  BY <1>1, ConstantsAssumption DEF IInv, TypeOK, BulletsNeedPlayer
<1> QED
  BY <1>1, <1>2, <1>3, BetweenMessages

LEMMA SkipSessionKeeps ==
    ASSUME IInv, SkipSession
    PROVE  IInv'
<1>1. /\ UNCHANGED <<status, rocks, bullets, count, buf, shown, raced, fault>>
      /\ tick' = [tick EXCEPT !.at = @ + 1]
      /\ tick.at \in Ids /\ tick.step = "begin"
  BY DEF SkipSession
<1>2. tick.at + 1 \in 1 .. MaxSessions + 1
  BY <1>1, ConstantsAssumption DEF Ids
<1>3. TypeOK' /\ tick'.step = "begin"
  BY <1>1, <1>2 DEF IInv, TypeOK, Ticks
<1> QED
  BY <1>1, <1>3, BetweenMessages DEF IInv, BulletsNeedPlayer

LEMMA CommitKeeps ==
    ASSUME IInv, Commit
    PROVE  IInv'
<1>1. /\ UNCHANGED <<status, rocks, bullets, count, buf, shown, raced, fault>>
      /\ tick' = [tick EXCEPT !.at = @ + 1, !.step = "begin"]
      /\ tick.at \in Ids
  BY DEF Commit, IInv, TimerIsSomewhere
<1>2. tick.at + 1 \in 1 .. MaxSessions + 1
  BY <1>1, ConstantsAssumption DEF Ids
<1>3. TypeOK' /\ tick'.step = "begin"
  BY <1>1, <1>2 DEF IInv, TypeOK, Ticks, Steps
<1> QED
  BY <1>1, <1>3, BetweenMessages DEF IInv, BulletsNeedPlayer

LEMMA LoopEndsKeep ==
    ASSUME IInv, UniverseTicked \/ EndTick
    PROVE  IInv'
<1>1. /\ UNCHANGED <<status, rocks, bullets, count, buf, shown, raced, fault>>
      /\ tick' \in { [loop |-> "player", at |-> 1, step |-> "begin"],
                     [loop |-> "none", at |-> 1, step |-> "begin"] }
  BY DEF UniverseTicked, EndTick, Idle
<1>2. TypeOK' /\ tick'.step = "begin"
  BY <1>1, ConstantsAssumption DEF IInv, TypeOK, Ticks, Steps
<1> QED
  BY <1>1, <1>2, BetweenMessages DEF IInv, BulletsNeedPlayer

-----------------------------------------------------------------------------
(***************************************************************************)
(* The timer handler: the universe loop's message.                         *)
(***************************************************************************)

\* In the step that comes next only that step's message has to be described.
LEMMA NextStep ==
    /\ tick'.step # "fillRocks" => AfterCountRocks'
    /\ tick'.step # "countShips" => AfterFillRocks'
    /\ tick'.step # "fillShips" => AfterCountShips'
    /\ tick'.step # "fillBullets" => AfterFillShips'
    /\ tick'.step # "fillGun" => AfterCountGun'
    /\ tick'.step # "commit" => ReadAsFound' /\ BulletsHaveShips'
  BY ElsewhereNothingIsSaid DEF Quiet

\* Where the handler is after a step with a message.
LEMMA StillInLoop ==
    ASSUME TypeOK, tick.at \in Ids, NEW step \in Steps, tick' = [tick EXCEPT !.step = step]
    PROVE  /\ tick' \in Ticks /\ tick'.step = step /\ tick'.at \in Ids
           /\ tick'.loop = tick.loop
  BY DEF TypeOK, Ticks

\* What a fill leaves when it does not fit: undefined behaviour.
LEMMA FilledFits ==
    ASSUME IInv, NEW b \in Buffers, Filled(b), fault = "none",
           raced = {} => b.written <= b.room, UNCHANGED raced
    PROVE  buf' = b /\ fault' \in {"none", "overrun"} /\ FitsUnlessRaced'
<1>1. b.written \in Nat /\ b.room \in Nat
  BY DEF Buffers
<1> QED
  BY <1>1 DEF Filled, Overrun, FitsUnlessRaced

LEMMA CountRocksKeeps ==
    ASSUME IInv, CountRocks
    PROVE  IInv'
<1> DEFINE b1 == NewBuffer(14)
           b2 == Put(b1, <<Header>>, 14)
           b3 == Grow(b2, 2 + 6 * rocks)
           b4 == Put(b3, <<CountOf(rocks)>>, 2)
<1>1. /\ tick.loop = "universe" /\ tick.at \in Ids /\ fault = "none"
      /\ tick' = [tick EXCEPT !.step = "fillRocks"]
      /\ buf' = b4 /\ shown' = Nothing /\ raced' = {}
      /\ UNCHANGED <<status, rocks, bullets, count, fault>>
  BY DEF CountRocks, At, Goto
<1>2. rocks \in Nat /\ 2 + 6 * rocks \in Nat
  BY ConstantsAssumption DEF IInv, TypeOK
<1>3. <<Header>> \in Seq(Items \cup Counts) /\ Len(<<Header>>) = 1
  BY DEF Items
<1>4. <<CountOf(rocks)>> \in Seq(Items \cup Counts) /\ Len(<<CountOf(rocks)>>) = 1
  BY <1>2, CountIs
<1>5. b1 \in Buffers /\ b1.room = 14 /\ b1.written = 0 /\ b1.items = <<>>
  BY NewBufferIs
<1> HIDE DEF b1
<1>6. b2 \in Buffers /\ b2.written = b1.written + 14 * 1 /\ b2.items = b1.items \o <<Header>>
  BY <1>3, <1>5, PutIs
<1> HIDE DEF b2
<1>7. /\ b3 \in Buffers /\ b3.room = b2.written + (2 + 6 * rocks)
      /\ b3.written = b2.written /\ b3.items = b2.items
  BY <1>2, <1>6, GrowIs
<1> HIDE DEF b3
<1>8. /\ b4 \in Buffers /\ b4.room = b3.room /\ b4.written = b3.written + 2 * 1
      /\ b4.items = b3.items \o <<CountOf(rocks)>>
  BY <1>4, <1>7, PutIs
<1> HIDE DEF b4
<1>9. Len(b4.items) = 2 /\ b4.items[2] = CountOf(rocks)
  <2>1. Len(b3.items) = 1 /\ b3.items \in Seq(Items \cup Counts)
    BY <1>3, <1>5, <1>6, <1>7 DEF Buffers
  <2> QED
    BY <1>2, <1>8, <2>1, CountIsLast
<1>10. b4.room = b4.written + 6 * rocks
  BY <1>2, <1>5, <1>6, <1>7, <1>8
<1>11. AfterCountRocks'
  BY <1>1, <1>9, <1>10 DEF AfterCountRocks, Announces
<1>12. KindsFound' /\ shown' \in [Parts -> Seq(Items)]
  BY <1>1 DEF KindsFound, AllOf, Nothing
<1>13. BulletsNeedPlayer' /\ FitsUnlessRaced'
  BY <1>1 DEF IInv, BulletsNeedPlayer, FitsUnlessRaced
<1>14. tick' \in Ticks /\ tick'.step = "fillRocks" /\ tick'.at \in Ids /\ tick'.loop = "universe"
  BY <1>1, StillInLoop DEF IInv, Steps
<1>15. TypeOK'
  BY <1>1, <1>8, <1>12, <1>14 DEF IInv, TypeOK, Buffers
<1>16. TimerIsSomewhere'
  BY <1>14 DEF TimerIsSomewhere
<1> QED
  BY <1>11, <1>12, <1>13, <1>14, <1>15, <1>16, NextStep DEF IInv

LEMMA FillRocksKeeps ==
    ASSUME IInv, FillRocks
    PROVE  IInv'
<1> DEFINE list == [i \in 1 .. rocks |-> Rock(i)]
           b == Put(buf, list, 6)
<1>1. /\ tick.loop = "universe" /\ tick.step = "fillRocks" /\ tick.at \in Ids
      /\ fault = "none" /\ tick' = [tick EXCEPT !.step = "countShips"]
      /\ Filled(b) /\ shown' = [shown EXCEPT !["rocks"] = list]
      /\ UNCHANGED <<status, rocks, bullets, count, raced>>
  BY DEF FillRocks, At, Goto, IInv, TimerIsSomewhere
<1>2. /\ list \in Seq(Items) /\ list \in Seq(Items \cup Counts)
      /\ Len(list) = rocks /\ AllOf(list, "rocks") /\ rocks \in Nat
  BY PassOverRocks, ConstantsAssumption DEF IInv, TypeOK
<1> HIDE DEF list
<1>3. buf \in Buffers /\ buf.items \in Seq(Items \cup Counts) /\ buf.written \in Nat
  BY DEF IInv, TypeOK, Buffers
<1>4. /\ b \in Buffers /\ b.room = buf.room /\ b.written = buf.written + 6 * Len(list)
      /\ b.items = buf.items \o list
  <2>1. buf \in Buffers /\ list \in Seq(Items \cup Counts) /\ 6 \in Nat
    BY <1>2, <1>3
  <2> QED
    BY ONLY <2>1, PutIs
<1> HIDE DEF b
<1>5. raced = {} => /\ Len(buf.items) = 2 /\ buf.items[2] = CountOf(rocks)
                    /\ buf.room = buf.written + 6 * rocks
                    /\ shown = Nothing
  BY <1>1 DEF IInv, AfterCountRocks, Quiet, Announces
<1>6. raced = {} => b.written <= b.room
  BY <1>2, <1>3, <1>4, <1>5
<1>7. buf' = b /\ fault' \in {"none", "overrun"} /\ FitsUnlessRaced'
  BY <1>1, <1>4, <1>6, FilledFits
<1>8. /\ shown' \in [Parts -> Seq(Items)] /\ shown'["rocks"] = list
      /\ shown'["ships"] = shown["ships"] /\ shown'["bullets"] = shown["bullets"]
  BY <1>1, <1>2 DEF IInv, TypeOK, Parts
<1>9. KindsFound'
  BY <1>2, <1>8 DEF IInv, KindsFound, Parts
<1>10. AfterFillRocks'
  <2>1. SUFFICES ASSUME raced = {}
                 PROVE  AfterFillRocks'
    BY <1>1 DEF AfterFillRocks, Quiet
  <2>2. Tells(b.items, 2, list) /\ Len(b.items) = 2 + Len(list)
    <3>1. Len(buf.items) = 2 /\ buf.items[Len(buf.items)] = CountOf(Len(list))
      BY <1>2, <1>5, <2>1
    <3>2. /\ Tells(buf.items \o list, Len(buf.items), list)
          /\ Len(buf.items \o list) = Len(buf.items) + Len(list)
      <4>1. Len(buf.items) > 0 /\ list \in Seq(Items \cup Counts)
        BY <1>2, <3>1
      <4> QED
        BY ONLY <1>3, <3>1, <4>1, SectionMade
    <3> QED
      BY <1>4, <3>1, <3>2
  <2>3. shown["ships"] = <<>> /\ shown["bullets"] = <<>>
    BY <1>5, <2>1 DEF Nothing, Parts
  <2> QED
    BY <1>7, <1>8, <2>2, <2>3 DEF AfterFillRocks
<1>11. /\ tick' \in Ticks /\ tick'.step = "countShips" /\ tick'.at \in Ids
       /\ tick'.loop = "universe"
  BY <1>1, StillInLoop DEF IInv, Steps
<1>12. TypeOK'
  BY <1>1, <1>4, <1>7, <1>8, <1>11 DEF IInv, TypeOK, Buffers
<1>13. TimerIsSomewhere' /\ BulletsNeedPlayer'
  BY <1>1, <1>11 DEF IInv, TimerIsSomewhere, BulletsNeedPlayer
<1> QED
  BY <1>7, <1>9, <1>10, <1>11, <1>12, <1>13, NextStep DEF IInv

LEMMA CountShipsKeeps ==
    ASSUME IInv, CountShips
    PROVE  IInv'
<1> DEFINE n == Cardinality(Others)
           grown == Grow(buf, 2 + 6 * n)
           b == Put(grown, <<CountOf(n)>>, 2)
<1>1. /\ tick.loop = "universe" /\ tick.step = "countShips" /\ tick.at \in Ids
      /\ fault = "none" /\ count' = n
      /\ n = 0 => tick' = [tick EXCEPT !.step = "commit"] /\ buf' = buf
      /\ n # 0 => tick' = [tick EXCEPT !.step = "fillShips"] /\ buf' = b
      /\ UNCHANGED <<status, rocks, bullets, shown, raced, fault>>
  BY DEF CountShips, CountedShips, At, Goto, IInv, TimerIsSomewhere
<1>2. Others \subseteq Ids /\ n \in 0 .. MaxSessions
  <2>1. Others \subseteq Ids
    BY DEF Others
  <2> QED
    BY <2>1, ShipsPlaced
<1>3. n \in Nat /\ 2 + 6 * n \in Nat
  BY <1>2, ConstantsAssumption
<1> HIDE DEF n
<1>4. n \in 0 .. MaxSessions * (MagSize + 1)
  <2>1. MaxSessions * (MagSize + 1) = MaxSessions * MagSize + MaxSessions
    BY ConstantsAssumption
  <2>2. MaxSessions * MagSize \in Nat
    BY ConstantsAssumption
  <2> QED
    BY <1>2, <2>1, <2>2, ConstantsAssumption
<1>5. buf \in Buffers /\ buf.items \in Seq(Items \cup Counts) /\ Len(buf.items) \in Nat
  BY DEF IInv, TypeOK, Buffers
<1>6. /\ grown \in Buffers /\ grown.room = buf.written + (2 + 6 * n)
      /\ grown.written = buf.written /\ grown.items = buf.items
  BY <1>3, <1>5, GrowIs
<1> HIDE DEF grown
<1>7. <<CountOf(n)>> \in Seq(Items \cup Counts) /\ Len(<<CountOf(n)>>) = 1
  BY <1>3, CountIs
<1>8. /\ b \in Buffers /\ b.room = grown.room /\ b.written = grown.written + 2 * 1
      /\ b.items = buf.items \o <<CountOf(n)>>
  <2>1. Put(grown, <<CountOf(n)>>, 2) \in Buffers
        /\ Put(grown, <<CountOf(n)>>, 2).room = grown.room
        /\ Put(grown, <<CountOf(n)>>, 2).written = grown.written + 2 * Len(<<CountOf(n)>>)
        /\ Put(grown, <<CountOf(n)>>, 2).items = grown.items \o <<CountOf(n)>>
    <3>1. 2 \in Nat
      OBVIOUS
    <3> QED
      BY ONLY <1>6, <1>7, <3>1, PutIs
  <2> QED
    BY ONLY <1>6, <1>7, <2>1 DEF b
<1> HIDE DEF b
<1>9. /\ buf.written \in Nat /\ b.room = b.written + 6 * n
      /\ Len(b.items) = Len(buf.items) + 1 /\ b.items[Len(b.items)] = CountOf(n)
  <2>1. buf.written \in Nat
    BY <1>5 DEF Buffers
  <2> QED
    BY <1>3, <1>5, <1>6, <1>8, <2>1, CountIsLast
<1>10. raced = {} => /\ Tells(buf.items, 2, shown["rocks"])
                     /\ Len(buf.items) = 2 + Len(shown["rocks"])
                     /\ shown["ships"] = <<>> /\ shown["bullets"] = <<>>
  BY <1>1 DEF IInv, AfterFillRocks, Quiet
<1>11. shown \in [Parts -> Seq(Items)] /\ shown["rocks"] \in Seq(Items)
  BY DEF IInv, TypeOK, Parts
<1>12. Others' = Others
  <2>1. tick'.at = tick.at
    BY <1>1 DEF IInv, TypeOK, Ticks
  <2> QED
    BY <1>1, <2>1 DEF Others
<1>13. n # 0 => AfterCountShips'
  <2>1. SUFFICES ASSUME n # 0, raced = {}
                 PROVE  AfterCountShips'
    BY <1>1 DEF AfterCountShips, Quiet
  <2>2. Tells(b.items, 2, shown["rocks"])
    <3>1. \A at \in Nat \ {0} : Tells(buf.items, at, shown["rocks"]) =>
              Tells(buf.items \o <<CountOf(n)>>, at, shown["rocks"])
      BY <1>5, <1>7, <1>11, SectionStays
    <3> QED
      BY <1>8, <1>10, <2>1, <3>1
  <2>3. Len(b.items) = 3 + Len(shown["rocks"]) /\ Len(b.items) > 0
    BY <1>9, <1>10, <1>11, <2>1
  <2>4. Announces(Cardinality(Others), 6)'
    BY <1>1, <1>9, <1>12, <2>1, <2>3 DEF Announces, n
  <2> QED
    BY <1>1, <1>10, <2>1, <2>2, <2>3, <2>4 DEF AfterCountShips
<1>14. n = 0 => ReadAsFound' /\ BulletsHaveShips'
  <2>1. SUFFICES ASSUME n = 0, raced = {}
                 PROVE  ReadAsFound' /\ BulletsHaveShips'
    BY <1>1 DEF ReadAsFound, BulletsHaveShips, Told
  <2>2. Countable => ReadUniverse(buf.items).ok /\ ReadUniverse(buf.items).got = shown
    BY <1>5, <1>10, <1>11, <2>1, UniverseIsRead DEF IInv, KindsFound, Countable
  <2>3. tick'.loop = "universe"
    BY <1>1, <2>1 DEF IInv, TypeOK, Ticks
  <2>4. ReadAsFound'
    BY <1>1, <2>1, <2>2, <2>3 DEF ReadAsFound, ClientReads, Countable
  <2>5. BulletsHaveShips'
    BY <1>1, <1>10, <2>1 DEF BulletsHaveShips
  <2> QED
    BY <2>4, <2>5
<1>15. /\ tick' \in Ticks /\ tick'.at \in Ids /\ tick'.loop = "universe"
       /\ tick'.step = IF n = 0 THEN "commit" ELSE "fillShips"
  BY <1>1, StillInLoop DEF IInv, Steps
<1>16. TypeOK'
  BY <1>1, <1>4, <1>8, <1>15 DEF IInv, TypeOK, Buffers
<1>17. TimerIsSomewhere' /\ BulletsNeedPlayer' /\ KindsFound' /\ FitsUnlessRaced'
  BY <1>1, <1>15 DEF IInv, TimerIsSomewhere, BulletsNeedPlayer, KindsFound, FitsUnlessRaced
<1> QED
  BY <1>13, <1>14, <1>15, <1>16, <1>17, NextStep DEF IInv

\* A pass over the ships fills in the section that was announced for them.
LEMMA ShipsFilled ==
    ASSUME IInv, Quiet("fillShips")
    PROVE  LET list == InOrder({ ShipOf(c) : c \in Others })
               b == Put(buf, list, 6)
           IN  /\ b.written = b.room
               /\ Tells(b.items, 2, shown["rocks"])
               /\ Tells(b.items, 3 + Len(shown["rocks"]), list)
               /\ Len(b.items) = 3 + Len(shown["rocks"]) + Len(list)
<1> DEFINE list == InOrder({ ShipOf(c) : c \in Others })
           b == Put(buf, list, 6)
           R == Len(shown["rocks"])
<1>1. list \in Seq(Items \cup Counts) /\ Len(list) = Cardinality(Others)
  <2>1. Others \subseteq Ids
    BY DEF Others
  <2> QED
    BY <2>1, PassOverShips
<1> HIDE DEF list
<1>2. /\ buf \in Buffers /\ buf.items \in Seq(Items \cup Counts) /\ buf.written \in Nat
      /\ shown["rocks"] \in Seq(Items)
  BY DEF IInv, TypeOK, Buffers, Parts
<1>3. /\ b.room = buf.room /\ b.written = buf.written + 6 * Len(list)
      /\ b.items = buf.items \o list
  <2>1. 6 \in Nat
    OBVIOUS
  <2> QED
    BY ONLY <1>1, <1>2, <2>1, PutIs
<1> HIDE DEF b
<1>4. /\ Tells(buf.items, 2, shown["rocks"]) /\ Len(buf.items) = 3 + R
      /\ buf.items[Len(buf.items)] = CountOf(Len(list))
      /\ buf.room = buf.written + 6 * Len(list)
  BY <1>1 DEF IInv, AfterCountShips, Announces
<1>5. R \in Nat /\ Len(list) \in Nat /\ Len(buf.items) > 0
  BY <1>1, <1>2, <1>4
<1>6. Tells(b.items, 2, shown["rocks"])
  <2>1. \A at \in Nat \ {0} : Tells(buf.items, at, shown["rocks"]) =>
            Tells(buf.items \o list, at, shown["rocks"])
    BY <1>1, <1>2, SectionStays
  <2> QED
    BY <1>3, <1>4, <2>1
<1>7. Tells(b.items, 3 + R, list) /\ Len(b.items) = 3 + R + Len(list)
  <2>1. /\ Tells(buf.items \o list, Len(buf.items), list)
        /\ Len(buf.items \o list) = Len(buf.items) + Len(list)
    BY <1>1, <1>2, <1>4, <1>5, SectionMade
  <2> QED
    BY <1>3, <1>4, <2>1
<1>8. b.written = b.room
  BY <1>3, <1>4
<1> QED
  BY <1>6, <1>7, <1>8 DEF b, list

LEMMA FillShipsKeeps ==
    ASSUME IInv, FillShips
    PROVE  IInv'
<1> DEFINE list == InOrder({ ShipOf(c) : c \in Others })
           filled == Put(buf, list, 6)
           t == Cardinality(AllBulletsOf(Others))
           grown == Grow(filled, 2 + 4 * t)
           b == Put(grown, <<CountOf(t)>>, 2)
           new == IF Overrun(filled) \/ t = 0 THEN filled ELSE b
<1>1. /\ tick.loop = "universe" /\ tick.step = "fillShips" /\ tick.at \in Ids
      /\ fault = "none" /\ count' = t
      /\ Filled(new) /\ shown' = [shown EXCEPT !["ships"] = list]
      /\ tick' = [tick EXCEPT !.step = IF t = 0 THEN "commit" ELSE "fillBullets"]
      /\ UNCHANGED <<status, rocks, bullets, raced>>
  BY DEF FillShips, BulletOwners, At, Goto, IInv, TimerIsSomewhere
<1>2. Others \subseteq Ids /\ bullets \in [Ids -> 0 .. MagSize]
  BY DEF Others, IInv, TypeOK
<1>3. raced = {} => /\ filled.written = filled.room
                    /\ Tells(filled.items, 2, shown["rocks"])
                    /\ Tells(filled.items, 3 + Len(shown["rocks"]), list)
                    /\ Len(filled.items) = 3 + Len(shown["rocks"]) + Len(list)
  BY <1>1, ShipsFilled DEF Quiet
<1>4. /\ list \in Seq(Items) /\ list \in Seq(Items \cup Counts)
      /\ AllOf(list, "ships") /\ \A c \in Others : \E i \in 1 .. Len(list) : list[i].id = c
  BY <1>2, PassOverShips
<1>5. t \in 0 .. MaxSessions * MagSize
  BY <1>2, BulletsPlaced
<1>6. t \in Nat /\ 2 + 4 * t \in Nat /\ t \in 0 .. MaxSessions * (MagSize + 1)
  <2>1. /\ MaxSessions * (MagSize + 1) = MaxSessions * MagSize + MaxSessions
        /\ MaxSessions * MagSize \in Nat
    BY ConstantsAssumption
  <2> HIDE DEF t
  <2> QED
    BY <1>5, <2>1, ConstantsAssumption
<1>7. \A x \in AllBulletsOf(Others) : x.id \in Others
  BY DEF AllBulletsOf, BulletOf
<1> HIDE DEF list, t
<1>8. filled \in Buffers
  <2>1. buf \in Buffers /\ 6 \in Nat
    BY DEF IInv, TypeOK, Buffers
  <2> QED
    BY ONLY <1>4, <2>1, PutIs
<1> HIDE DEF filled
<1>9. /\ grown \in Buffers /\ grown.room = filled.written + (2 + 4 * t)
      /\ grown.written = filled.written /\ grown.items = filled.items
  BY <1>6, <1>8, GrowIs
<1> HIDE DEF grown
<1>10. <<CountOf(t)>> \in Seq(Items \cup Counts) /\ Len(<<CountOf(t)>>) = 1
  BY <1>6, CountIs
<1>11. /\ b \in Buffers /\ b.room = grown.room /\ b.written = grown.written + 2 * 1
       /\ b.items = filled.items \o <<CountOf(t)>>
  <2>1. Put(grown, <<CountOf(t)>>, 2) \in Buffers
        /\ Put(grown, <<CountOf(t)>>, 2).room = grown.room
        /\ Put(grown, <<CountOf(t)>>, 2).written = grown.written + 2 * Len(<<CountOf(t)>>)
        /\ Put(grown, <<CountOf(t)>>, 2).items = grown.items \o <<CountOf(t)>>
    <3>1. 2 \in Nat
      OBVIOUS
    <3> QED
      BY ONLY <1>9, <1>10, <3>1, PutIs
  <2> QED
    BY ONLY <1>9, <1>10, <2>1 DEF b
<1> HIDE DEF b
<1>12. /\ filled.items \in Seq(Items \cup Counts) /\ Len(filled.items) \in Nat
       /\ filled.written \in Nat /\ filled.room \in Nat
  BY <1>8 DEF Buffers
<1>13. /\ b.room = b.written + 4 * t /\ b.written <= b.room
       /\ Len(b.items) = Len(filled.items) + 1 /\ b.items[Len(b.items)] = CountOf(t)
  BY <1>6, <1>9, <1>11, <1>12, CountIsLast
<1>14. raced = {} => new = IF t = 0 THEN filled ELSE b
  BY <1>3, <1>12 DEF Overrun
<1>15. new \in Buffers /\ (raced = {} => new.written <= new.room)
  BY <1>3, <1>8, <1>11, <1>12, <1>13, <1>14
<1> HIDE DEF new
<1>16. buf' = new /\ fault' \in {"none", "overrun"} /\ FitsUnlessRaced'
  BY <1>1, <1>15, FilledFits
<1>17. /\ shown' \in [Parts -> Seq(Items)] /\ shown'["ships"] = list
       /\ shown'["rocks"] = shown["rocks"] /\ shown'["bullets"] = shown["bullets"]
       /\ shown["rocks"] \in Seq(Items)
  BY <1>1, <1>4 DEF IInv, TypeOK, Parts
<1>18. KindsFound'
  BY <1>4, <1>17 DEF IInv, KindsFound, Parts
<1>19. raced = {} => shown["bullets"] = <<>>
  BY <1>1 DEF IInv, AfterCountShips, Quiet
<1>20. /\ tick' \in Ticks /\ tick'.at = tick.at /\ tick'.loop = "universe"
       /\ tick'.step = IF t = 0 THEN "commit" ELSE "fillBullets"
  BY <1>1 DEF IInv, TypeOK, Ticks, Steps
<1>21. Others' = Others /\ AllBulletsOf(Others)' = AllBulletsOf(Others)
  <2>1. Others' = Others
    BY <1>1, <1>20 DEF Others
  <2> QED
    BY <1>1, <2>1 DEF AllBulletsOf
<1>22. t # 0 => AfterFillShips'
  <2>1. SUFFICES ASSUME t # 0, raced = {}
                 PROVE  AfterFillShips'
    BY <1>1, <1>20 DEF AfterFillShips, Quiet
  <2>2. buf' = b
    BY <1>14, <1>16, <2>1
  <2>3. \A at \in Nat \ {0} : \A l \in Seq(Items) : Tells(filled.items, at, l) =>
            Tells(filled.items \o <<CountOf(t)>>, at, l)
    BY <1>10, <1>12, SectionStays
  <2>4. 3 + Len(shown["rocks"]) \in Nat \ {0} /\ Len(list) \in Nat
    BY <1>4, <1>17
  <2>5. Tells(b.items, 2, shown["rocks"]) /\ Tells(b.items, 3 + Len(shown["rocks"]), list)
    BY <1>3, <1>4, <1>11, <1>17, <2>1, <2>3, <2>4
  <2>6. Len(b.items) = 4 + Len(shown["rocks"]) + Len(list) /\ Len(b.items) > 0
    <3>1. Len(filled.items) = 3 + Len(shown["rocks"]) + Len(list)
      BY <1>3, <2>1
    <3>2. Len(b.items) = Len(filled.items) + 1
      BY <1>13
    <3> QED
      BY <3>1, <3>2, <2>4
  <2>7. Announces(Cardinality(AllBulletsOf(Others)), 4)'
    BY <1>13, <1>21, <2>2, <2>6 DEF Announces, t
  <2>8. \A x \in AllBulletsOf(Others) : HasShip(x)'
    BY <1>4, <1>7, <1>17 DEF HasShip
  <2> QED
    BY <1>17, <1>21, <2>2, <2>5, <2>6, <2>7, <2>8 DEF AfterFillShips
<1>23. t = 0 => ReadAsFound' /\ BulletsHaveShips'
  <2>1. SUFFICES ASSUME t = 0, raced = {}
                 PROVE  ReadAsFound' /\ BulletsHaveShips'
    BY <1>1 DEF ReadAsFound, BulletsHaveShips, Told
  <2>2. /\ buf' = filled /\ shown'["bullets"] = <<>>
        /\ Tells(filled.items, 2, shown'["rocks"])
        /\ Tells(filled.items, 3 + Len(shown'["rocks"]), shown'["ships"])
        /\ Len(filled.items) = 3 + Len(shown'["rocks"]) + Len(shown'["ships"])
    BY <1>3, <1>14, <1>16, <1>17, <1>19, <2>1
  <2>3. \A part \in Parts : AllOf(shown'[part], part)
    BY <1>18 DEF KindsFound
  <2>4. Countable' => ReadUniverse(filled.items).ok /\ ReadUniverse(filled.items).got = shown'
    BY <1>12, <1>17, <2>2, <2>3, UniverseIsRead DEF Countable
  <2>5. ReadAsFound'
    BY <1>20, <2>2, <2>4 DEF ReadAsFound, ClientReads
  <2>6. BulletsHaveShips'
    BY <2>2 DEF BulletsHaveShips
  <2> QED
    BY <2>5, <2>6
<1>24. TypeOK'
  BY <1>1, <1>6, <1>15, <1>16, <1>17, <1>20 DEF IInv, TypeOK, Buffers
<1>25. TimerIsSomewhere' /\ BulletsNeedPlayer'
  BY <1>1, <1>20 DEF IInv, TimerIsSomewhere, BulletsNeedPlayer
<1> QED
  BY <1>16, <1>18, <1>20, <1>22, <1>23, <1>24, <1>25, NextStep DEF IInv

LEMMA FillBulletsKeeps ==
    ASSUME IInv, FillBullets
    PROVE  IInv'
<1> DEFINE list == InOrder(AllBulletsOf(Others))
           b == Put(buf, list, 4)
           R == Len(shown["rocks"])
           S == Len(shown["ships"])
<1>1. /\ tick.loop = "universe" /\ tick.step = "fillBullets" /\ tick.at \in Ids
      /\ fault = "none" /\ tick' = [tick EXCEPT !.step = "commit"]
      /\ Filled(b) /\ shown' = [shown EXCEPT !["bullets"] = list]
      /\ UNCHANGED <<status, rocks, bullets, count, raced>>
  BY DEF FillBullets, BulletOwners, At, Goto, IInv, TimerIsSomewhere
<1>2. /\ list \in Seq(Items) /\ list \in Seq(Items \cup Counts)
      /\ Len(list) = Cardinality(AllBulletsOf(Others)) /\ AllOf(list, "bullets")
      /\ \A i \in 1 .. Len(list) : list[i] \in AllBulletsOf(Others)
  <2>1. Others \subseteq Ids /\ bullets \in [Ids -> 0 .. MagSize]
    BY DEF Others, IInv, TypeOK
  <2> QED
    BY <2>1, PassOverBullets
<1> HIDE DEF list
<1>3. buf \in Buffers /\ buf.items \in Seq(Items \cup Counts) /\ buf.written \in Nat
  BY DEF IInv, TypeOK, Buffers
<1>4. /\ b \in Buffers /\ b.room = buf.room /\ b.written = buf.written + 4 * Len(list)
      /\ b.items = buf.items \o list
  <2>1. 4 \in Nat /\ list \in Seq(Items \cup Counts)
    BY <1>2
  <2> QED
    BY ONLY <1>3, <2>1, PutIs
<1> HIDE DEF b
<1>5. /\ shown["rocks"] \in Seq(Items) /\ shown["ships"] \in Seq(Items)
      /\ R \in Nat /\ S \in Nat /\ Len(list) \in Nat
  BY <1>2 DEF IInv, TypeOK, Parts
<1>6. raced = {} => /\ Tells(buf.items, 2, shown["rocks"])
                    /\ Tells(buf.items, 3 + R, shown["ships"])
                    /\ Len(buf.items) = 4 + R + S
                    /\ buf.items[Len(buf.items)] = CountOf(Len(list))
                    /\ buf.room = buf.written + 4 * Len(list)
                    /\ \A x \in AllBulletsOf(Others) : HasShip(x)
  BY <1>1, <1>2 DEF IInv, AfterFillShips, Quiet, Announces
<1> HIDE DEF R, S
<1>7. raced = {} => b.written <= b.room
  BY <1>3, <1>4, <1>5, <1>6
<1>8. buf' = b /\ fault' \in {"none", "overrun"} /\ FitsUnlessRaced'
  BY <1>1, <1>4, <1>7, FilledFits
<1>9. /\ shown' \in [Parts -> Seq(Items)] /\ shown'["bullets"] = list
      /\ shown'["rocks"] = shown["rocks"] /\ shown'["ships"] = shown["ships"]
  BY <1>1, <1>2 DEF IInv, TypeOK, Parts
<1>10. KindsFound'
  BY <1>2, <1>9 DEF IInv, KindsFound, Parts
<1>11. /\ tick' \in Ticks /\ tick'.step = "commit" /\ tick'.at \in Ids
       /\ tick'.loop = "universe"
  BY <1>1, StillInLoop DEF IInv, Steps
<1>12. ASSUME raced = {}
       PROVE  ReadAsFound'
  <2>1. \A at \in Nat \ {0} : \A l \in Seq(Items) : Tells(buf.items, at, l) =>
            Tells(buf.items \o list, at, l)
    BY <1>2, <1>3, SectionStays
  <2>2. 3 + R \in Nat \ {0}
    BY <1>5
  <2>3. Tells(b.items, 2, shown["rocks"]) /\ Tells(b.items, 3 + R, shown["ships"])
    BY <1>4, <1>5, <1>6, <1>12, <2>1, <2>2
  <2>4. Tells(b.items, 4 + R + S, list)
    <3>1. Len(buf.items) = 4 + R + S /\ Len(buf.items) > 0
      BY <1>5, <1>6, <1>12
    <3>2. Tells(buf.items \o list, Len(buf.items), list)
      BY <1>2, <1>3, <1>6, <1>12, <3>1, SectionMade
    <3> QED
      BY <1>4, <3>1, <3>2
  <2>5. \A part \in Parts : AllOf(shown'[part], part)
    BY <1>10 DEF KindsFound
  <2>6. b.items \in Seq(Items \cup Counts)
    BY <1>4 DEF Buffers
  <2>7. /\ Tells(b.items, 2, shown'["rocks"])
        /\ Tells(b.items, 3 + Len(shown'["rocks"]), shown'["ships"])
        /\ Tells(b.items, 4 + Len(shown'["rocks"]) + Len(shown'["ships"]), shown'["bullets"])
    BY <1>9, <2>3, <2>4 DEF R, S
  <2>8. Countable' => ReadUniverse(b.items).ok /\ ReadUniverse(b.items).got = shown'
    BY <1>9, <2>5, <2>6, <2>7, UniverseIsRead DEF Countable
  <2> QED
    BY <1>8, <1>11, <2>8 DEF ReadAsFound, ClientReads
<1>13. ASSUME raced = {}
       PROVE  BulletsHaveShips'
  <2>1. \A i \in 1 .. Len(list) : HasShip(list[i])
    BY <1>2, <1>6, <1>13
  <2>2. DOMAIN shown'["bullets"] = 1 .. Len(list)
    BY <1>2, <1>9
  <2>3. DOMAIN shown'["ships"] = 1 .. Len(shown["ships"])
    BY <1>5, <1>9
  <2> QED
    BY <1>9, <2>1, <2>2, <2>3 DEF BulletsHaveShips, HasShip
<1>14. ReadAsFound' /\ BulletsHaveShips'
  <2>1. CASE raced = {}
    BY <2>1, <1>12, <1>13
  <2>2. CASE raced # {}
    BY <2>2, <1>1 DEF ReadAsFound, BulletsHaveShips, Told
  <2> QED
    BY <2>1, <2>2
<1>15. TypeOK'
  BY <1>1, <1>4, <1>8, <1>9, <1>11 DEF IInv, TypeOK, Buffers
<1>16. TimerIsSomewhere' /\ BulletsNeedPlayer'
  BY <1>1, <1>11 DEF IInv, TimerIsSomewhere, BulletsNeedPlayer
<1> QED
  BY <1>8, <1>10, <1>11, <1>14, <1>15, <1>16, NextStep DEF IInv

-----------------------------------------------------------------------------
(***************************************************************************)
(* The timer handler: a player's tick.                                     *)
(***************************************************************************)

LEMMA CountGunKeeps ==
    ASSUME IInv, CountGun
    PROVE  IInv'
<1> DEFINE c == tick.at
           empty(n) == NewBuffer(2 + 4 * n)
           b(n) == Put(empty(n), <<CountOf(n)>>, 2)
<1>1. /\ tick.loop = "player" /\ c \in Ids /\ status[c] = "playing" /\ fault = "none"
      /\ tick' = [tick EXCEPT !.step = "fillGun"]
      /\ shown' = Nothing /\ raced' = {}
      /\ UNCHANGED <<status, rocks, fault>>
  BY DEF CountGun, At, Goto
<1>2. PICK n \in {bullets[c]} \cup {k \in 0 .. MagSize : k + 1 = bullets[c]} :
          /\ bullets' = [bullets EXCEPT ![c] = n]
          /\ count' = n
          /\ buf' = IF n = 0 THEN NewBuffer(0) ELSE b(n)
  BY DEF CountGun
<1>3. n \in 0 .. MagSize /\ n \in Nat /\ 2 + 4 * n \in Nat
  <2>1. bullets[c] \in 0 .. MagSize
    BY <1>1 DEF IInv, TypeOK
  <2>2. n \in 0 .. MagSize
    BY <1>2, <2>1
  <2> QED
    BY ONLY <2>2, ConstantsAssumption
<1>4. NewBuffer(0) \in Buffers
  BY NewBufferIs
<1>5. /\ empty(n) \in Buffers /\ empty(n).room = 2 + 4 * n
      /\ empty(n).written = 0 /\ empty(n).items = <<>>
  BY <1>3, NewBufferIs
<1> HIDE DEF empty
<1>6. <<CountOf(n)>> \in Seq(Items \cup Counts) /\ Len(<<CountOf(n)>>) = 1
  BY <1>3, CountIs
<1>7. /\ b(n) \in Buffers /\ b(n).room = 2 + 4 * n
      /\ b(n).written = empty(n).written + 2 * 1
      /\ b(n).items = empty(n).items \o <<CountOf(n)>>
  BY <1>5, <1>6, PutIs
<1>8. b(n).written = 2
  BY <1>5, <1>7
<1> HIDE DEF b
<1>9. Len(b(n).items) = 1 /\ b(n).items[1] = CountOf(n)
  <2>1. b(n).items = <<>> \o <<CountOf(n)>>
    BY <1>5, <1>7
  <2> QED
    BY <1>6, <2>1
<1>10. /\ tick' \in Ticks /\ tick'.step = "fillGun" /\ tick'.at = c /\ c \in Ids
       /\ tick'.loop = "player"
  BY <1>1 DEF IInv, TypeOK, Ticks, Steps
<1>11. bullets' \in [Ids -> 0 .. MagSize] /\ bullets'[c] = n
  BY <1>1, <1>2, <1>3 DEF IInv, TypeOK
<1>12. AfterCountGun'
  <2>1. n = 0 => buf' = NewBuffer(0)
    BY <1>2
  <2>2. n > 0 => buf' = b(n) /\ Announces(n, 4)'
    BY <1>2, <1>3, <1>7, <1>8, <1>9 DEF Announces
  <2> QED
    BY <1>1, <1>2, <1>8, <1>9, <1>10, <1>11, <2>1, <2>2 DEF AfterCountGun
<1>13. KindsFound' /\ shown' \in [Parts -> Seq(Items)]
  BY <1>1 DEF KindsFound, AllOf, Nothing
<1>14. BulletsNeedPlayer' /\ FitsUnlessRaced'
  BY <1>1, <1>2 DEF IInv, TypeOK, BulletsNeedPlayer, FitsUnlessRaced
<1>15. count' \in 0 .. MaxSessions * (MagSize + 1)
  <2>1. PICK m \in Nat : MaxSessions = m + 1
    <3>1. MaxSessions - 1 \in Nat /\ MaxSessions = MaxSessions - 1 + 1
      BY ConstantsAssumption
    <3> QED
      BY <3>1
  <2>2. MaxSessions * (MagSize + 1) = m * (MagSize + 1) + (MagSize + 1)
    BY <2>1, ConstantsAssumption
  <2>3. m * (MagSize + 1) \in Nat
    BY ConstantsAssumption
  <2> QED
    BY <1>2, <1>3, <2>2, <2>3, ConstantsAssumption
<1>16. buf' \in Buffers
  BY <1>2, <1>4, <1>7
<1>17. TypeOK'
  BY <1>1, <1>10, <1>11, <1>13, <1>15, <1>16 DEF IInv, TypeOK, Buffers
<1>18. TimerIsSomewhere'
  BY <1>10 DEF TimerIsSomewhere
<1> QED
  BY <1>10, <1>12, <1>13, <1>14, <1>17, <1>18, NextStep DEF IInv

\* One thing of a size put into a buffer.
PutOne(b, x, size, into) ==
    /\ b \in Buffers
    /\ b.room = into.room
    /\ b.written = into.written + size
    /\ b.items = into.items \o <<x>>

LEMMA OnePut ==
    ASSUME NEW into \in Buffers, NEW x \in Items \cup Counts, NEW size \in Nat
    PROVE  PutOne(Put(into, <<x>>, size), x, size, into)
<1>1. <<x>> \in Seq(Items \cup Counts)
  OBVIOUS
<1>2. size * Len(<<x>>) = size
  OBVIOUS
<1>3. /\ Put(into, <<x>>, size) \in Buffers
      /\ Put(into, <<x>>, size).room = into.room
      /\ Put(into, <<x>>, size).written = into.written + size * Len(<<x>>)
      /\ Put(into, <<x>>, size).items = into.items \o <<x>>
  BY <1>1, PutIs
<1> QED
  BY <1>2, <1>3 DEF PutOne

\* Short lists, put together.
LEMMA TwoThings ==
    ASSUME NEW S, NEW x \in S, NEW y \in S
    PROVE  <<x>> \o <<y>> = <<x, y>>
<1> DEFINE s == <<x>> \o <<y>>
           t == <<x, y>>
<1>1. s \in Seq(S) /\ t \in Seq(S) /\ Len(s) = 2 /\ Len(t) = 2
  OBVIOUS
<1>2. s[1] = x /\ s[2] = y /\ t[1] = x /\ t[2] = y
  OBVIOUS
<1> HIDE DEF s, t
<1>3. \A i \in 1 .. Len(s) : s[i] = t[i]
  BY <1>1, <1>2
<1>4. s = t
  BY <1>1, <1>3, SeqEqual
<1> QED
  BY <1>4 DEF s, t

LEMMA ThreeThings ==
    ASSUME NEW S, NEW x \in S, NEW y \in S, NEW z \in S
    PROVE  <<x, y>> \o <<z>> = <<x, y, z>>
<1> DEFINE s == <<x, y>> \o <<z>>
           t == <<x, y, z>>
<1>1. s \in Seq(S) /\ t \in Seq(S) /\ Len(s) = 3 /\ Len(t) = 3
  OBVIOUS
<1>2. s[1] = x /\ s[2] = y /\ s[3] = z /\ t[1] = x /\ t[2] = y /\ t[3] = z
  OBVIOUS
<1> HIDE DEF s, t
<1>3. \A i \in 1 .. Len(s) : s[i] = t[i]
  BY <1>1, <1>2
<1>4. s = t
  BY <1>1, <1>3, SeqEqual
<1> QED
  BY <1>4 DEF s, t

\* Behind the header and the ship come the gun's count and its bullets.
LEMMA WithShipIs ==
    ASSUME NEW c \in Ids, NEW gun \in Buffers
    PROVE  /\ WithShip(gun, ShipOf(c)) \in Buffers
           /\ WithShip(gun, ShipOf(c)).room = 34 + gun.room
           /\ WithShip(gun, ShipOf(c)).written =
                  IF gun.items = <<>> THEN 34 ELSE 36 + 4 * (Len(gun.items) - 1)
           /\ WithShip(gun, ShipOf(c)).items =
                  IF gun.items = <<>>
                  THEN <<Header, ShipOf(c), CountOf(0)>>
                  ELSE <<Header, ShipOf(c)>> \o gun.items \o <<Padding>>
<1> DEFINE b0 == NewBuffer(34 + gun.room)
           b1 == Put(b0, <<Header>>, 24)
           own == Put(b1, <<ShipOf(c)>>, 8)
           none == Put(own, <<CountOf(0)>>, 2)
           b2 == Put(own, <<Head(gun.items)>>, 2)
           b3 == Put(b2, Tail(gun.items), 4)
           some == Put(b3, <<Padding>>, 2)
<1>1. gun.room \in Nat /\ gun.items \in Seq(Items \cup Counts) /\ 34 + gun.room \in Nat
  BY DEF Buffers
<1>2. WithShip(gun, ShipOf(c)) = IF gun.items = <<>> THEN none ELSE some
  BY DEF WithShip
<1>3. /\ Header \in Items \cup Counts /\ Padding \in Items \cup Counts
      /\ ShipOf(c) \in Items \cup Counts /\ CountOf(0) \in Items \cup Counts
  BY CountIs DEF Items
<1>4. /\ b0 \in Buffers /\ b0.room = 34 + gun.room /\ b0.written = 0
      /\ b0.items = <<>>
  BY <1>1, NewBufferIs
<1> HIDE DEF b0
<1>5. PutOne(b1, Header, 24, b0)
  BY <1>3, <1>4, OnePut
<1> HIDE DEF b1
<1>6. b1 \in Buffers /\ b1.room = 34 + gun.room /\ b1.written = 24 /\ b1.items = <<Header>>
  <2>1. b1.items = <<>> \o <<Header>>
    BY <1>4, <1>5 DEF PutOne
  <2> QED
    BY <1>4, <1>5, <2>1 DEF PutOne
<1>7. PutOne(own, ShipOf(c), 8, b1)
  BY <1>3, <1>6, OnePut
<1> HIDE DEF own
<1>8. /\ own \in Buffers /\ own.room = 34 + gun.room /\ own.written = 32
      /\ own.items = <<Header, ShipOf(c)>>
  <2>1. own.items = <<Header>> \o <<ShipOf(c)>>
    BY <1>6, <1>7 DEF PutOne
  <2>2. own.items = <<Header, ShipOf(c)>>
    <3>1. <<Header>> \o <<ShipOf(c)>> = <<Header, ShipOf(c)>>
      BY ONLY <1>3, TwoThings
    <3> QED
      BY <2>1, <3>1
  <2>3. own \in Buffers /\ own.room = b1.room /\ own.written = b1.written + 8
    BY <1>7 DEF PutOne
  <2> QED
    BY <1>6, <2>2, <2>3
<1>9. CASE gun.items = <<>>
  <2>1. PutOne(none, CountOf(0), 2, own)
    BY <1>3, <1>8, OnePut
  <2> HIDE DEF none
  <2>2. none.items = <<Header, ShipOf(c)>> \o <<CountOf(0)>>
    BY <1>8, <2>1 DEF PutOne
  <2>3. none.items = <<Header, ShipOf(c), CountOf(0)>>
    <3>1. <<Header, ShipOf(c)>> \o <<CountOf(0)>> = <<Header, ShipOf(c), CountOf(0)>>
      BY ONLY <1>3, ThreeThings
    <3> QED
      BY <2>2, <3>1
  <2>4. none \in Buffers /\ none.room = 34 + gun.room /\ none.written = 34
    BY <1>8, <2>1 DEF PutOne
  <2> QED
    BY <1>2, <1>9, <2>3, <2>4
<1>10. CASE gun.items # <<>>
  <2> DEFINE first == Head(gun.items)
             rest == Tail(gun.items)
             n == Len(gun.items) - 1
  <2>1. /\ first \in Items \cup Counts /\ rest \in Seq(Items \cup Counts)
        /\ n \in Nat /\ Len(rest) = n
        /\ <<first>> \o rest = gun.items
    BY <1>1, <1>10
  <2>2. PutOne(b2, first, 2, own)
    <3> HIDE DEF first
    <3>1. PutOne(Put(own, <<first>>, 2), first, 2, own)
      BY <1>8, <2>1, OnePut
    <3> QED
      BY <3>1 DEF first
  <2> HIDE DEF b2
  <2>3. b2 \in Buffers /\ b2.room = 34 + gun.room /\ b2.written = 34
        /\ b2.items = <<Header, ShipOf(c)>> \o <<first>>
    BY <1>8, <2>2 DEF PutOne
  <2>4. b3 \in Buffers /\ b3.room = b2.room /\ b3.written = b2.written + 4 * Len(rest)
        /\ b3.items = b2.items \o rest
    <3>1. b2 \in Buffers /\ rest \in Seq(Items \cup Counts) /\ 4 \in Nat
      BY <2>1, <2>3
    <3> HIDE DEF rest
    <3>2. /\ Put(b2, rest, 4) \in Buffers
          /\ Put(b2, rest, 4).room = b2.room
          /\ Put(b2, rest, 4).written = b2.written + 4 * Len(rest)
          /\ Put(b2, rest, 4).items = b2.items \o rest
      BY ONLY <3>1, PutIs
    <3> QED
      BY <3>2 DEF rest
  <2> HIDE DEF b3, first, rest, n
  <2>5. b3.items = <<Header, ShipOf(c)>> \o gun.items
    <3>1. <<first>> \in Seq(Items \cup Counts) /\ <<Header, ShipOf(c)>> \in Seq(Items \cup Counts)
      BY <1>3, <2>1
    <3>2. (<<Header, ShipOf(c)>> \o <<first>>) \o rest
              = <<Header, ShipOf(c)>> \o (<<first>> \o rest)
      BY <2>1, <3>1, ConcatAssociative
    <3> QED
      BY <2>1, <2>3, <2>4, <3>2
  <2>6. PutOne(some, Padding, 2, b3)
    BY <1>3, <2>4, OnePut
  <2> HIDE DEF some
  <2>7. some \in Buffers /\ some.room = 34 + gun.room
        /\ some.items = <<Header, ShipOf(c)>> \o gun.items \o <<Padding>>
    BY <2>3, <2>4, <2>5, <2>6 DEF PutOne
  <2>8. some.written = 36 + 4 * n
    <3>1. some.written = 34 + 4 * n + 2
      BY <2>1, <2>3, <2>4, <2>6 DEF PutOne
    <3> QED
      BY <2>1, <3>1
  <2> QED
    BY <1>2, <1>10, <2>7, <2>8 DEF n
<1> QED
  BY <1>9, <1>10

LEMMA SectionShifted ==
    ASSUME NEW before \in Seq(Items \cup Counts), NEW items \in Seq(Items \cup Counts),
           NEW at \in Nat \ {0}, NEW list \in Seq(Items), Tells(items, at, list)
    PROVE  Tells(before \o items, Len(before) + at, list)
<1>1. /\ Len(before \o items) = Len(before) + Len(items) /\ Len(items) \in Nat
      /\ Len(before) \in Nat /\ Len(list) \in Nat
      /\ \A i \in 1 .. Len(items) : (before \o items)[Len(before) + i] = items[i]
  OBVIOUS
<1>2. at \in 1 .. Len(items) /\ \A i \in 1 .. Len(list) : at + i \in 1 .. Len(items)
  BY <1>1 DEF Tells
<1>3. (before \o items)[Len(before) + at] = CountOf(Len(list))
  BY <1>1, <1>2 DEF Tells
<1>4. ASSUME NEW i \in 1 .. Len(list)
      PROVE  (before \o items)[Len(before) + at + i] = list[i]
  <2>1. Len(before) + at + i = Len(before) + (at + i)
    BY <1>1
  <2> QED
    BY <1>1, <1>2, <2>1 DEF Tells
<1>5. Len(before) + at + Len(list) <= Len(before \o items)
  BY <1>1 DEF Tells
<1> QED
  BY <1>3, <1>4, <1>5 DEF Tells

\* What a quiet fill of the player's message leaves.
LEMMA GunFilled ==
    ASSUME IInv, Quiet("fillGun"), tick.at \in Ids
    PROVE  LET list == IF count = 0 THEN <<>> ELSE BulletsOf(tick.at)
               gun == Put(buf, list, 4)
               new == WithShip(gun, ShipOf(tick.at))
           IN  /\ gun.written = gun.room /\ new.written = new.room
               /\ new.items[2] = ShipOf(tick.at)
               /\ Tells(new.items, 3, list)
<1> DEFINE c == tick.at
           list == IF count = 0 THEN <<>> ELSE BulletsOf(c)
           gun == Put(buf, list, 4)
           new == WithShip(gun, ShipOf(c))
<1>1. buf \in Buffers /\ bullets \in [Ids -> 0 .. MagSize] /\ count \in Nat
  <2>1. MaxSessions * (MagSize + 1) \in Nat
    BY ConstantsAssumption
  <2> QED
    BY <2>1 DEF IInv, TypeOK, Buffers
<1>2. /\ list \in Seq(Items) /\ list \in Seq(Items \cup Counts)
      /\ count > 0 => Len(list) = bullets[c]
      /\ count = 0 => list = <<>>
  <2>1. <<>> \in Seq(Items) /\ <<>> \in Seq(Items \cup Counts)
    OBVIOUS
  <2> QED
    BY <1>1, <2>1, PassOverGun
<1> HIDE DEF list
<1>3. gun \in Buffers /\ gun.room = buf.room /\ gun.written = buf.written + 4 * Len(list)
      /\ gun.items = buf.items \o list
  <2>1. 4 \in Nat
    OBVIOUS
  <2> QED
    BY ONLY <1>1, <1>2, <2>1, PutIs
<1> HIDE DEF gun
<1>4. /\ new \in Buffers /\ new.room = 34 + gun.room
      /\ new.written = IF gun.items = <<>> THEN 34 ELSE 36 + 4 * (Len(gun.items) - 1)
      /\ new.items = IF gun.items = <<>> THEN <<Header, ShipOf(c), CountOf(0)>>
                     ELSE <<Header, ShipOf(c)>> \o gun.items \o <<Padding>>
  BY <1>3, WithShipIs
<1> HIDE DEF new
<1>5. CASE count = 0
  <2>1. buf = NewBuffer(0) /\ list = <<>>
    BY <1>2, <1>5 DEF IInv, AfterCountGun
  <2>2. buf.room = 0 /\ buf.written = 0 /\ buf.items = <<>>
    BY <2>1, NewBufferIs
  <2>3. gun.room = 0 /\ gun.written = 0 /\ gun.items = <<>>
    BY <1>3, <2>1, <2>2
  <2>4. /\ new.room = 34 /\ new.written = 34
        /\ new.items = <<Header, ShipOf(c), CountOf(0)>>
    BY <1>4, <2>3
  <2>5. Tells(new.items, 3, list)
    BY <2>1, <2>4 DEF Tells
  <2> QED
    BY <2>3, <2>4, <2>5 DEF gun, new, list
<1>6. CASE count > 0
  <2>1. /\ Len(buf.items) = 1 /\ buf.items[1] = CountOf(Len(list))
        /\ buf.room = 2 + 4 * Len(list) /\ buf.written = 2
    BY <1>2, <1>6 DEF IInv, AfterCountGun, Announces
  <2>2. buf.items \in Seq(Items \cup Counts) /\ Len(list) \in Nat
    BY <1>1, <1>2 DEF Buffers
  <2>3. Tells(gun.items, 1, list) /\ Len(gun.items) = 1 + Len(list)
    <3>1. /\ Tells(buf.items \o list, Len(buf.items), list)
          /\ Len(buf.items \o list) = Len(buf.items) + Len(list)
      <4>1. Len(buf.items) > 0 /\ buf.items[Len(buf.items)] = CountOf(Len(list))
        BY <2>1
      <4>2. list \in Seq(Items \cup Counts)
        BY <1>2
      <4> QED
        BY ONLY <2>2, <4>1, <4>2, SectionMade
    <3> QED
      BY <1>3, <2>1, <3>1
  <2>4. gun.items # <<>> /\ gun.items \in Seq(Items \cup Counts)
    <3>1. gun.items \in Seq(Items \cup Counts)
      BY <1>3 DEF Buffers
    <3>2. Len(gun.items) # 0
      BY <2>2, <2>3
    <3> QED
      BY <3>1, <3>2
  <2>5. gun.room = 2 + 4 * Len(list) /\ gun.written = gun.room
    BY <1>3, <2>1, <2>2
  <2>6. new.written = new.room
    BY <1>4, <2>2, <2>3, <2>4, <2>5
  <2> DEFINE own == <<Header, ShipOf(c)>>
             both == own \o gun.items
  <2>7. /\ own \in Seq(Items \cup Counts) /\ Len(own) = 2 /\ own[2] = ShipOf(c)
        /\ <<Padding>> \in Seq(Items \cup Counts)
    BY DEF Items
  <2>8. new.items = both \o <<Padding>>
    BY <1>4, <2>4
  <2> HIDE DEF own
  <2>9. both \in Seq(Items \cup Counts) /\ Len(both) > 2 /\ both[2] = ShipOf(c)
    <3>1. Len(gun.items) \in Nat /\ Len(gun.items) > 0
      BY <2>2, <2>3
    <3>2. /\ both \in Seq(Items \cup Counts) /\ Len(both) = Len(own) + Len(gun.items)
          /\ \A i \in 1 .. Len(own) + Len(gun.items) :
                 both[i] = IF i <= Len(own) THEN own[i] ELSE gun.items[i - Len(own)]
      BY ONLY <2>4, <2>7, ConcatProperties
    <3> QED
      BY <2>7, <3>1, <3>2
  <2>10. Tells(both, 3, list)
    <3>1. \A at \in Nat \ {0} : Tells(gun.items, at, list) =>
              Tells(own \o gun.items, Len(own) + at, list)
      BY <1>2, <2>4, <2>7, SectionShifted
    <3>2. Tells(own \o gun.items, Len(own) + 1, list)
      BY <2>3, <3>1
    <3> QED
      BY <2>7, <3>2
  <2> HIDE DEF both
  <2>11. Tells(new.items, 3, list)
    <3>1. \A at \in Nat \ {0} : Tells(both, at, list) => Tells(both \o <<Padding>>, at, list)
      BY <1>2, <2>7, <2>9, SectionStays
    <3> QED
      BY <2>8, <2>10, <3>1
  <2>12. new.items[2] = ShipOf(c)
    BY <2>7, <2>8, <2>9
  <2> QED
    BY <2>5, <2>6, <2>11, <2>12 DEF gun, new, list
<1> QED
  BY <1>1, <1>5, <1>6

LEMMA FillGunKeeps ==
    ASSUME IInv, FillGun
    PROVE  IInv'
<1> DEFINE c == tick.at
           list == IF count = 0 THEN <<>> ELSE BulletsOf(c)
           gun == Put(buf, list, 4)
           both == WithShip(gun, ShipOf(c))
           new == IF Overrun(gun) THEN gun ELSE both
<1>1. /\ tick.loop = "player" /\ tick.step = "fillGun" /\ c \in Ids
      /\ fault = "none" /\ tick' = [tick EXCEPT !.step = "commit"]
      /\ Filled(new)
      /\ shown' = [shown EXCEPT !["ships"] = <<ShipOf(c)>>, !["bullets"] = list]
      /\ UNCHANGED <<status, rocks, bullets, count, raced>>
  BY DEF FillGun, At, Goto, IInv, TimerIsSomewhere
<1>2. raced = {} => /\ gun.written = gun.room /\ both.written = both.room
                    /\ both.items[2] = ShipOf(c)
                    /\ Tells(both.items, 3, list)
                    /\ shown = Nothing
  <2>1. SUFFICES ASSUME raced = {}
                 PROVE  /\ gun.written = gun.room /\ both.written = both.room
                        /\ both.items[2] = ShipOf(c)
                        /\ Tells(both.items, 3, list)
                        /\ shown = Nothing
    OBVIOUS
  <2>2. Quiet("fillGun")
    BY <1>1, <2>1 DEF Quiet
  <2>3. shown = Nothing
    BY <2>2 DEF IInv, AfterCountGun
  <2> QED
    BY <1>1, <2>2, <2>3, GunFilled
<1>3. /\ list \in Seq(Items) /\ list \in Seq(Items \cup Counts)
      /\ AllOf(list, "bullets") /\ \A i \in 1 .. Len(list) : list[i].id = c
  <2>1. <<>> \in Seq(Items) /\ <<>> \in Seq(Items \cup Counts) /\ Len(<<>>) = 0
    OBVIOUS
  <2>2. bullets \in [Ids -> 0 .. MagSize]
    BY DEF IInv, TypeOK
  <2>3. CASE count = 0
    BY <2>1, <2>3 DEF AllOf
  <2>4. CASE count # 0
    BY <1>1, <2>2, <2>4, PassOverGun
  <2> QED
    BY <2>3, <2>4
<1> HIDE DEF list
<1>4. gun \in Buffers
  <2>1. buf \in Buffers /\ 4 \in Nat
    BY DEF IInv, TypeOK, Buffers
  <2> QED
    BY ONLY <1>3, <2>1, PutIs
<1> HIDE DEF gun
<1>5. both \in Buffers
  BY <1>1, <1>4, WithShipIs
<1> HIDE DEF both
<1>6. raced = {} => new = both
  BY <1>2, <1>4 DEF Overrun, Buffers
<1>7. new \in Buffers /\ (raced = {} => new.written <= new.room)
  BY <1>2, <1>4, <1>5, <1>6 DEF Buffers
<1> HIDE DEF new
<1>8. buf' = new /\ fault' \in {"none", "overrun"} /\ FitsUnlessRaced'
  BY <1>1, <1>7, FilledFits
<1>9. <<ShipOf(c)>> \in Seq(Items) /\ AllOf(<<ShipOf(c)>>, "ships")
  <2>1. ShipOf(c) \in Items /\ ShipOf(c).kind = "ships"
    BY <1>1 DEF Items, ShipOf
  <2> QED
    BY <2>1 DEF AllOf
<1>10. /\ shown' \in [Parts -> Seq(Items)] /\ shown'["bullets"] = list
       /\ shown'["rocks"] = shown["rocks"] /\ shown'["ships"] = <<ShipOf(c)>>
  BY <1>1, <1>3, <1>9 DEF IInv, TypeOK, Parts
<1>11. KindsFound'
  BY <1>3, <1>9, <1>10 DEF IInv, KindsFound, Parts
<1>12. /\ tick' \in Ticks /\ tick'.step = "commit" /\ tick'.at \in Ids
       /\ tick'.loop = "player"
  BY <1>1, StillInLoop DEF IInv, Steps
<1>13. ASSUME raced = {}
       PROVE  ReadAsFound'
  <2>1. both.items \in Seq(Items \cup Counts)
    BY <1>5 DEF Buffers
  <2>2. \A part \in Parts : AllOf(shown'[part], part)
    BY <1>11 DEF KindsFound
  <2>3. /\ shown'["rocks"] = <<>> /\ shown'["ships"] = <<both.items[2]>>
        /\ both.items[2].kind = "ships" /\ Tells(both.items, 3, shown'["bullets"])
    BY <1>2, <1>10, <1>13 DEF Nothing, Parts, ShipOf
  <2>4. Countable' => ReadPlayer(both.items).ok /\ ReadPlayer(both.items).got = shown'
    BY <1>10, <2>1, <2>2, <2>3, PlayerIsRead DEF Countable
  <2> QED
    BY <1>6, <1>8, <1>12, <1>13, <2>4 DEF ReadAsFound, ClientReads
<1>14. BulletsHaveShips'
  <2>1. DOMAIN shown'["bullets"] = 1 .. Len(list) /\ 1 \in DOMAIN shown'["ships"]
    BY <1>3, <1>10
  <2>2. shown'["ships"][1].id = c
    BY <1>10 DEF ShipOf
  <2> QED
    BY <1>3, <1>10, <2>1, <2>2 DEF BulletsHaveShips
<1>15. ReadAsFound'
  <2>1. raced # {} => ReadAsFound'
    BY <1>1 DEF ReadAsFound, Told
  <2> QED
    BY <1>13, <2>1
<1>16. TypeOK'
  BY <1>1, <1>7, <1>8, <1>10, <1>12 DEF IInv, TypeOK, Buffers
<1>17. TimerIsSomewhere' /\ BulletsNeedPlayer'
  BY <1>1, <1>12 DEF IInv, TimerIsSomewhere, BulletsNeedPlayer
<1> QED
  BY <1>8, <1>11, <1>12, <1>14, <1>15, <1>16, <1>17, NextStep DEF IInv

-----------------------------------------------------------------------------
(***************************************************************************)
(* The theorems.                                                           *)
(***************************************************************************)

LEMMA InitInvariant == Init => IInv
<1> SUFFICES ASSUME Init
             PROVE  IInv
  OBVIOUS
<1>1. tick.loop = "none" /\ tick.step = "begin" /\ tick \in Ticks
  BY ConstantsAssumption DEF Init, Idle, Ticks, Steps
<1>2. buf \in Buffers
  BY NewBufferIs DEF Init
<1>3. MaxSessions * (MagSize + 1) \in Nat
  BY ConstantsAssumption
<1>4. shown \in [Parts -> Seq(Items)] /\ KindsFound
  BY DEF Init, Nothing, KindsFound, AllOf
<1>5. TypeOK
  BY <1>1, <1>2, <1>3, <1>4, ConstantsAssumption DEF Init, TypeOK, Buffers, Statuses
<1>6. TimerIsSomewhere /\ BulletsNeedPlayer
  BY <1>1 DEF Init, TimerIsSomewhere, BulletsNeedPlayer
<1>7. \A step \in Steps \ {"begin"} : ~Quiet(step)
  BY <1>1 DEF Quiet
<1> QED
  BY <1>1, <1>4, <1>5, <1>6, <1>7
     DEF Init, IInv, Steps, AfterCountRocks, AfterFillRocks, AfterCountShips, AfterFillShips,
         AfterCountGun, ReadAsFound, BulletsHaveShips, FitsUnlessRaced, Told

\* No handler and no step of the timer breaks the invariant.
LEMMA NextInvariant == IInv /\ [Next]_vars => IInv'
<1> SUFFICES ASSUME IInv, [Next]_vars
             PROVE  IInv'
  OBVIOUS
<1>1. CASE Handling
  BY <1>1, HandlersKeepInvariant
<1>2. CASE StartTick
  BY <1>2, StartTickKeeps
<1>3. CASE SkipSession
  BY <1>3, SkipSessionKeeps
<1>4. CASE CountRocks
  BY <1>4, CountRocksKeeps
<1>5. CASE FillRocks
  BY <1>5, FillRocksKeeps
<1>6. CASE CountShips
  BY <1>6, CountShipsKeeps
<1>7. CASE FillShips
  BY <1>7, FillShipsKeeps
<1>8. CASE FillBullets
  BY <1>8, FillBulletsKeeps
<1>9. CASE Commit
  BY <1>9, CommitKeeps
<1>10. CASE UniverseTicked \/ EndTick
  BY <1>10, LoopEndsKeep
<1>11. CASE CountGun
  BY <1>11, CountGunKeeps
<1>12. CASE FillGun
  BY <1>12, FillGunKeeps
<1>13. CASE UNCHANGED vars
  <2>1. Others' = Others /\ AllBulletsOf(Others)' = AllBulletsOf(Others)
    BY <1>13 DEF vars, Others, AllBulletsOf
  <2>2. TypeOK'
    BY <1>13 DEF vars, IInv, TypeOK
  <2>3. TimerIsSomewhere' /\ BulletsNeedPlayer' /\ KindsFound'
    BY <1>13 DEF vars, IInv, TimerIsSomewhere, BulletsNeedPlayer, KindsFound
  <2>4. AfterCountRocks' /\ AfterFillRocks' /\ AfterCountGun'
    BY <1>13 DEF vars, IInv, AfterCountRocks, AfterFillRocks, AfterCountGun, Quiet, Announces
  <2>5. AfterCountShips'
    BY <1>13, <2>1 DEF vars, IInv, AfterCountShips, Quiet, Announces
  <2>6. AfterFillShips'
    BY <1>13, <2>1 DEF vars, IInv, AfterFillShips, Quiet, Announces, HasShip
  <2>7. ReadAsFound' /\ FitsUnlessRaced' /\ BulletsHaveShips'
    BY <1>13 DEF vars, IInv, ReadAsFound, FitsUnlessRaced, BulletsHaveShips, Told, ClientReads,
                    Countable
  <2> QED
    BY <2>2, <2>3, <2>4, <2>5, <2>6, <2>7 DEF IInv
<1> QED
  BY <1>1, <1>2, <1>3, <1>4, <1>5, <1>6, <1>7, <1>8, <1>9, <1>10, <1>11, <1>12, <1>13
     DEF Next, Ticking

\* The invariant holds in every state of the message builders.
LEMMA Invariance == Spec => []IInv
  BY InitInvariant, NextInvariant, PTL DEF Spec

\* The buffers, the counts and what was shown keep their types, for any number of
\* sessions and any size of a magazine.
THEOREM TypeCorrect == Spec => []TypeOK
<1>1. IInv => TypeOK
  BY DEF IInv
<1> QED
  BY <1>1, Invariance, PTL

\* OnUniverseTickMessage and OnPlayerTickMessage read what PerSessionTickEvent and
\* Player::MakeBuffer found in the game, unless a handler changed what had been
\* counted before it was filled in, or there is more of something than a uint16_t tells.
THEOREM MessagesAreRead == Spec => []ReadAsFound
<1>1. IInv => ReadAsFound
  BY DEF IInv
<1> QED
  BY <1>1, Invariance, PTL

\* The set_ functions of an AppBuffer stay within it, unless a handler changed what
\* had been counted before it was filled in.
THEOREM BuffersAreLargeEnough == Spec => []FitsUnlessRaced
<1>1. IInv => FitsUnlessRaced
  BY DEF IInv
<1> QED
  BY <1>1, Invariance, PTL

\* No message of PerSessionTickEvent tells of a bullet and not of the ship it is of,
\* though ships and bullets are taken from the game one after the other.
THEOREM BulletsComeWithShips == Spec => []BulletsHaveShips
<1>1. IInv => BulletsHaveShips
  BY DEF IInv
<1> QED
  BY <1>1, Invariance, PTL
\* Nothing undefined happened, and nothing happened between a count and its fill.
Undisturbed == fault = "none" /\ raced = {}

LEMMA AloneUndisturbed ==
    ASSUME Threads = 1, IInv, IInv', Undisturbed, [Next]_vars
    PROVE  Undisturbed'
<1>1. CASE Handling
  <2>1. tick.loop = "none"
    BY <1>1 DEF Handling, Accept, Register, Close, FireKey, Click, CanRun
  <2>2. tick.step = "begin"
    BY <2>1 DEF IInv, TimerIsSomewhere
  <2>3. Counted = {}
    BY <2>2 DEF Counted
  <2>4. raced' = {}
    BY <1>1, <2>3 DEF Handling, Accept, Register, Close, FireKey, Click, Changes, Undisturbed
  <2>5. fault' = "none"
    BY <1>1, <2>1 DEF Handling, Accept, Register, Close, FireKey, Click, LoopAt, Undisturbed
  <2> QED
    BY <2>4, <2>5 DEF Undisturbed
<1>2. CASE Ticking \/ UNCHANGED vars
  <2>1. raced' = {}
    BY <1>2 DEF Ticking, StartTick, SkipSession, CountRocks, FillRocks, CountShips, FillShips,
                FillBullets, Commit, UniverseTicked, CountGun, FillGun, EndTick, vars,
                Undisturbed
  <2>2. fault' \in {"none", "overrun"}
    BY <1>2 DEF Ticking, StartTick, SkipSession, CountRocks, FillRocks, CountShips, FillShips,
                FillBullets, Commit, UniverseTicked, CountGun, FillGun, EndTick, Filled, vars,
                Undisturbed
  <2>3. fault' # "overrun"
    BY <2>1 DEF IInv, FitsUnlessRaced
  <2> QED
    BY <2>1, <2>2, <2>3 DEF Undisturbed
<1> QED
  BY <1>1, <1>2 DEF Next

\* With one thread, as in the example that Main.cpp prints, no buffer is ever overrun,
\* no entry is erased under the timer's loop, and every message that is committed is
\* read as what the server found, if its counts can tell how much that is.
THEOREM OneThreadReadsAll ==
    ASSUME Threads = 1
    PROVE  Spec => [](/\ fault = "none"
                      /\ tick.step = "commit" /\ Countable => ClientReads.got = shown)
<1>1. Init => Undisturbed
  BY DEF Init, Undisturbed
<1>2. IInv /\ IInv' /\ Undisturbed /\ [Next]_vars => Undisturbed'
  BY AloneUndisturbed
<1>3. IInv /\ Undisturbed =>
          /\ fault = "none"
          /\ tick.step = "commit" /\ Countable => ClientReads.got = shown
  BY DEF IInv, ReadAsFound, Told, Undisturbed
<1> QED
  BY <1>1, <1>2, <1>3, Invariance, PTL DEF Spec
=============================================================================
