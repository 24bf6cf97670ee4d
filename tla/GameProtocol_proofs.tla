------------------------- MODULE GameProtocol_proofs -------------------------
(***************************************************************************)
(* Proofs about a browser and its session, for windows, points, keys,      *)
(* numbers and stars of any values, and any number of messages on the way. *)
(***************************************************************************)
EXTENDS GameProtocol, SequenceTheorems, TLAPS

-----------------------------------------------------------------------------
\* What the messages of the browser say, as the server reads them.

Read(m, offset) == Get(Tail(m), m[1] = 171, offset, 2)

HasSize(m) == m[2] \in {RegisterSession, ResizeEvent}
SizeIn(m) ==
    IF m[2] = RegisterSession THEN [w |-> Read(m, 3), h |-> Read(m, 5)]
    ELSE [w |-> Read(m, 5), h |-> Read(m, 7)]

IsClick(m) == m[2] = ClickEvent
ClickIn(m) == [x |-> Read(m, 5), y |-> Read(m, 7)]

Sets(m, f) == m[2] = KeyEvent /\ m[3] # 0 /\ Flag(m[4]) = f
Clears(m, f) == m[2] = KeyEvent /\ m[3] = 0 /\ Flag(m[4]) = f

\* A message of the browser is one of four, and claims the server's byte order unless
\* it is a key's.
GoodUp(a, m) ==
    /\ Len(m) >= 4
    /\ m[2] \in {RegisterSession, ClickEvent, KeyEvent, ResizeEvent}
    /\ m[1] = 171 <=> ~(m[2] = KeyEvent /\ a = "big")
    /\ HasSize(m) => SizeIn(m) \in Windows
    /\ IsClick(m) => ClickIn(m) \in Points

\* How the browser sees a number of two bytes or four.
Seen(a, afterKey, n) == IF a = "big" /\ afterKey THEN Reverse(n) ELSE n

PartsSeen(a, d) ==
    \A k \in DOMAIN d.parts : \A j \in DOMAIN d.parts[k].meant :
        NumbersRead(d.bytes)[k][j] = Seen(a, d.parts[k].afterKey, d.parts[k].meant[j])

\* A message to the browser is read as it was written, and names the session.
GoodDown(a, d) ==
    /\ NumbersRead(d.bytes)[1][1] \in {SessionID, Reverse(SessionID)}
    /\ d.bytes[2] = SessionRegistered => DOMAIN ReadStars(d.bytes) = 1 .. Len(Stars) \div 2
    /\ PartsSeen(a, d)

\* The byte order in which the server writes.
Order(a, afterKey) == ~(a = "big" /\ afterKey)

Message == [bytes : Seq(Byte), parts : Seq(Parts)]

-----------------------------------------------------------------------------
\* The inductive invariant.

\* The browser registers with its first message and only with that, and is answered
\* with the first message it gets.
Registration ==
    /\ sock = "connecting" => up = <<>> /\ window = NoPlayer
    /\ window = NoPlayer =>
          down = <<>> /\ txShipBuff = NoBuffer /\ stars = <<>> /\ steer = {}
    /\ window = NoPlayer /\ sock = "open" => up # <<>> /\ up[1][2] = RegisterSession
    /\ \A i \in DOMAIN up : up[i][2] = RegisterSession => i = 1 /\ window = NoPlayer
    /\ \A i \in DOMAIN down :
          down[i].bytes[2] = SessionRegistered => i = 1 /\ stars = <<>>

Messages ==
    /\ \A i \in DOMAIN up : GoodUp(arch, up[i])
    /\ \A i \in DOMAIN down : GoodDown(arch, down[i])
    /\ little = Order(arch, keyed)
    /\ txShipBuff # NoBuffer =>
          \E s \in Ships, k \in BOOLEAN : txShipBuff = ShipBuffer(Order(arch, k), s, k)

\* The last size on its way is the window's, and so is the server's when none is.
Sizes ==
    /\ \A i \in DOMAIN up :
          HasSize(up[i]) /\ (\A j \in DOMAIN up : j > i => ~HasSize(up[j]))
              => SizeIn(up[i]) = canvas
    /\ sock = "open" /\ (\A i \in DOMAIN up : ~HasSize(up[i])) => window = canvas

\* A click has arrived or is on its way.
Clicks ==
    /\ launched \subseteq clicked
    /\ \A i \in DOMAIN up : IsClick(up[i]) => ClickIn(up[i]) \in clicked
    /\ \A p \in clicked :
          p \in launched \/ \E i \in DOMAIN up : IsClick(up[i]) /\ ClickIn(up[i]) = p

Pressed(f) == \E key \in keysPressed : Flag(key) = f

\* A flag that is set, or is going to be, has a pressed key unless it is going to be
\* cleared after that.
Held(f) ==
    /\ f \in steer /\ (\A i \in DOMAIN up : ~Clears(up[i], f)) => Pressed(f)
    /\ \A i \in DOMAIN up :
          Sets(up[i], f) /\ (\A j \in DOMAIN up : j > i => ~Clears(up[j], f)) => Pressed(f)

KeysHeld == \A f \in Flags : Held(f)

IInv == TypeOK /\ Registration /\ Messages /\ Sizes /\ Clicks /\ KeysHeld

-----------------------------------------------------------------------------
\* Sequences and bytes.

LEMMA SeqIsUnion == \A S : Seq(S) = UNION { [1 .. n -> S] : n \in Nat }
OBVIOUS

LEMMA FunIsSeq ==
    ASSUME NEW S, NEW n \in Nat, NEW s \in [1 .. n -> S]
    PROVE  s \in Seq(S) /\ Len(s) = n /\ \A i \in 1 .. n : s[i] \in S
<1>1. s \in Seq(S)
  BY SeqIsUnion
<1> QED BY <1>1

LEMMA IdIsSeq ==
    ASSUME NEW s \in [1 .. 4 -> Byte]
    PROVE  s \in Seq(Byte) /\ Len(s) = 4
BY FunIsSeq

LEMMA ShortIsSeq ==
    ASSUME NEW s \in Short
    PROVE  s \in Seq(Byte) /\ Len(s) = 2 /\ \A i \in 1 .. 2 : s[i] \in Byte
BY FunIsSeq DEF Short

LEMMA Added ==
    ASSUME NEW S, NEW s \in Seq(S), NEW m \in S
    PROVE  /\ Append(s, m) \in Seq(S)
           /\ Append(s, m) # <<>>
           /\ DOMAIN Append(s, m) = DOMAIN s \cup {Len(s) + 1}
           /\ DOMAIN s = 1 .. Len(s) /\ Len(s) \in Nat
           /\ \A i \in DOMAIN s : Append(s, m)[i] = s[i] /\ i < Len(s) + 1
           /\ Append(s, m)[Len(s) + 1] = m
<1>1. Len(s) \in Nat /\ DOMAIN s = 1 .. Len(s)
  BY LenProperties
<1>2. /\ Append(s, m) \in Seq(S)
      /\ Len(Append(s, m)) = Len(s) + 1
      /\ \A i \in 1 .. Len(s) : Append(s, m)[i] = s[i]
      /\ Append(s, m)[Len(s) + 1] = m
  BY AppendProperties
<1>3. DOMAIN Append(s, m) = 1 .. Len(s) + 1
  BY <1>2, LenProperties
<1> QED BY <1>1, <1>2, <1>3, EmptySeq

LEMMA Taken ==
    ASSUME NEW S, NEW s \in Seq(S), s # <<>>
    PROVE  /\ Head(s) = s[1] /\ Head(s) \in S /\ 1 \in DOMAIN s
           /\ Tail(s) \in Seq(S)
           /\ DOMAIN s = 1 .. Len(s) /\ DOMAIN Tail(s) = 1 .. Len(s) - 1
           /\ Len(s) \in Nat \ {0}
           /\ \A i \in DOMAIN Tail(s) : Tail(s)[i] = s[i + 1] /\ i + 1 \in DOMAIN s
           /\ \A i \in DOMAIN s : i # 1 => i - 1 \in DOMAIN Tail(s) /\ s[i] = Tail(s)[i - 1]
<1>1. Len(s) \in Nat \ {0} /\ DOMAIN s = 1 .. Len(s)
  BY LenProperties, EmptySeq
<1>2. /\ Head(s) \in S /\ Tail(s) \in Seq(S) /\ Len(Tail(s)) = Len(s) - 1
      /\ \A i \in 1 .. Len(Tail(s)) : Tail(s)[i] = s[i + 1]
  BY HeadTailProperties
<1>3. DOMAIN Tail(s) = 1 .. Len(s) - 1
  BY <1>2, LenProperties
<1>4. Head(s) = s[1]
  OBVIOUS
<1> QED BY <1>1, <1>2, <1>3, <1>4

\* What a two-byte number is read as.
LEMMA ReadIs ==
    ASSUME NEW m \in Seq(Byte), m[1] = 171, NEW o \in Nat, Len(m) >= o + 3,
           NEW s \in Short, m[o + 2] = s[1], m[o + 3] = s[2]
    PROVE  Read(m, o) = s
<1>1. /\ Len(m) \in Nat /\ m # <<>>
      /\ DOMAIN Tail(m) = 1 .. Len(m) - 1
      /\ \A i \in DOMAIN Tail(m) : Tail(m)[i] = m[i + 1]
      /\ Tail(m) \in Seq(Byte)
  <2>1. Len(m) \in Nat /\ m # <<>>
    BY LenProperties, EmptySeq
  <2> QED BY <2>1, Taken
<1>2. Read(m, o) = SubSeq(Tail(m), o + 1, o + 2)
  BY DEF Read, Get
<1>3. /\ \A i \in o + 1 .. o + 2 : Tail(m)[i] = m[i + 1] /\ Tail(m)[i] \in Byte
  <2>1. \A i \in o + 1 .. o + 2 : i \in DOMAIN Tail(m)
    BY <1>1
  <2> QED BY <1>1, <2>1, ElementOfSeq
<1> DEFINE r == SubSeq(Tail(m), o + 1, o + 2)
<1>4. /\ r \in Seq(Byte) /\ Len(r) = 2
      /\ \A i \in 1 .. 2 : r[i] = Tail(m)[o + 1 + i - 1]
  <2>1. o + 1 \in Int /\ o + 2 \in Int /\ o + 1 <= o + 2 /\ o + 2 - (o + 1) + 1 = 2
    OBVIOUS
  <2> QED BY <2>1, <1>3, SubSeqProperties
<1>5. \A i \in 1 .. 2 : r[i] = s[i]
  <2>1. \A i \in 1 .. 2 : o + 1 + i - 1 = o + i /\ o + i \in o + 1 .. o + 2 /\ o + i + 1 = o + 1 + i
    OBVIOUS
  <2> QED BY <1>3, <1>4, <2>1
<1> QED BY <1>2, <1>4, <1>5, ShortIsSeq, SeqEqual

Joins(m, s, t) ==
    /\ m \in Seq(Byte) /\ Len(m) = Len(s) + Len(t)
    /\ \A i \in 1 .. Len(s) : m[i] = s[i]
    /\ \A i \in 1 .. Len(t) : m[Len(s) + i] = t[i]

LEMMA Joined ==
    ASSUME NEW s \in Seq(Byte), NEW t \in Seq(Byte)
    PROVE  Joins(s \o t, s, t)
<1>1. Len(s) \in Nat /\ Len(t) \in Nat
  BY LenProperties
<1>2. /\ s \o t \in Seq(Byte) /\ Len(s \o t) = Len(s) + Len(t)
      /\ \A i \in 1 .. Len(s) + Len(t) :
            (s \o t)[i] = IF i <= Len(s) THEN s[i] ELSE t[i - Len(s)]
  BY ConcatProperties
<1>3. \A i \in 1 .. Len(t) :
          /\ Len(s) + i \in 1 .. Len(s) + Len(t)
          /\ ~(Len(s) + i <= Len(s)) /\ Len(s) + i - Len(s) = i
  BY <1>1
<1>4. \A i \in 1 .. Len(t) : (s \o t)[Len(s) + i] = t[i]
  BY <1>2, <1>3
<1>5. \A i \in 1 .. Len(s) : i <= Len(s) /\ i \in 1 .. Len(s) + Len(t)
  BY <1>1
<1> QED BY <1>2, <1>4, <1>5 DEF Joins

\* A message of two bytes, a sequence of them and two numbers.
Sent(a, b, p, q, r) == <<a, b>> \o p \o q \o r

Layout(m, a, b, n, q, r) ==
    /\ m \in Seq(Byte) /\ Len(m) = 6 + n
    /\ m[1] = a /\ m[2] = b
    /\ m[3 + n] = q[1] /\ m[4 + n] = q[2]
    /\ m[5 + n] = r[1] /\ m[6 + n] = r[2]

LEMMA SentBytes ==
    ASSUME NEW a \in Byte, NEW b \in Byte, NEW p \in Seq(Byte),
           NEW q \in Short, NEW r \in Short
    PROVE  Layout(Sent(a, b, p, q, r), a, b, Len(p), q, r)
<1> DEFINE m == Sent(a, b, p, q, r)
<1>1. PICK x : x = <<a, b>>
  OBVIOUS
<1>2. PICK y : y = x \o p
  OBVIOUS
<1>3. PICK z : z = y \o q
  OBVIOUS
<1>4. m = z \o r
  BY <1>1, <1>2, <1>3 DEF Sent
<1> HIDE DEF m
<1>5. x \in Seq(Byte) /\ Len(x) = 2 /\ x[1] = a /\ x[2] = b /\ Len(p) \in Nat
  BY <1>1
<1>6. q \in Seq(Byte) /\ Len(q) = 2 /\ r \in Seq(Byte) /\ Len(r) = 2
  BY ShortIsSeq
<1>7. /\ y \in Seq(Byte) /\ Len(y) = 2 + Len(p)
      /\ y[1] = a /\ y[2] = b
  <2>1. Joins(y, x, p)
    BY <1>2, <1>5, Joined
  <2>2. y[1] = x[1] /\ y[2] = x[2]
    BY <1>5, <2>1 DEF Joins
  <2> QED BY <1>5, <2>1, <2>2 DEF Joins
<1>8. /\ z \in Seq(Byte) /\ Len(z) = 2 + Len(p) + 2
      /\ \A i \in 1 .. 2 + Len(p) : z[i] = y[i]
      /\ \A i \in 1 .. 2 : z[2 + Len(p) + i] = q[i]
  <2>1. Joins(z, y, q)
    BY <1>3, <1>6, <1>7, Joined
  <2> QED BY <1>6, <1>7, <2>1 DEF Joins
<1>9. Len(z) = 4 + Len(p)
  BY <1>5, <1>8
<1>10. /\ m \in Seq(Byte) /\ Len(m) = 4 + Len(p) + 2
       /\ \A i \in 1 .. 4 + Len(p) : m[i] = z[i]
       /\ \A i \in 1 .. 2 : m[4 + Len(p) + i] = r[i]
  <2>1. Joins(m, z, r)
    BY <1>4, <1>6, <1>8, Joined
  <2> QED BY <1>6, <1>9, <2>1 DEF Joins
<1>11. /\ \A i \in 1 .. 2 : 2 + Len(p) + i \in 1 .. 4 + Len(p) /\ i \in 1 .. 4 + Len(p)
       /\ \A i \in 1 .. 2 : i \in 1 .. 2 + Len(p)
       /\ 4 + Len(p) + 2 = 6 + Len(p)
  BY <1>5
<1>12. m[1] = a /\ m[2] = b
  BY <1>7, <1>8, <1>10, <1>11
<1>13. \A i \in 1 .. 2 : m[2 + Len(p) + i] = q[i]
  BY <1>8, <1>10, <1>11
<1>14. m \in Seq(Byte) /\ Len(m) = 6 + Len(p)
  BY <1>10, <1>11
<1>15. m[3 + Len(p)] = q[1] /\ m[4 + Len(p)] = q[2]
  <2>1. 2 + Len(p) + 1 = 3 + Len(p) /\ 2 + Len(p) + 2 = 4 + Len(p)
    BY <1>5
  <2>2. m[2 + Len(p) + 1] = q[1] /\ m[2 + Len(p) + 2] = q[2]
    BY <1>13
  <2> QED BY <2>1, <2>2
<1>16. m[5 + Len(p)] = r[1] /\ m[6 + Len(p)] = r[2]
  <2>1. 4 + Len(p) + 1 = 5 + Len(p) /\ 4 + Len(p) + 2 = 6 + Len(p)
    BY <1>5
  <2>2. m[4 + Len(p) + 1] = r[1] /\ m[4 + Len(p) + 2] = r[2]
    BY <1>10
  <2> QED BY <2>1, <2>2
<1>17. Layout(m, a, b, Len(p), q, r)
  BY <1>12, <1>14, <1>15, <1>16 DEF Layout
<1> QED BY <1>17 DEF m

\* What the server reads of the messages of a browser.
LEMMA RegisterSays ==
    ASSUME NEW size \in Windows
    PROVE  LET m == Sent(Claim, RegisterSession, AppVersion, size.w, size.h) IN
           /\ m \in Seq(Byte) /\ Len(m) = 8
           /\ m[1] = 171 /\ m[2] = RegisterSession
           /\ SizeIn(m) = size
<1> DEFINE m == Sent(Claim, RegisterSession, AppVersion, size.w, size.h)
<1>1. /\ size.w \in Short /\ size.h \in Short /\ size = [w |-> size.w, h |-> size.h]
      /\ AppVersion \in Short
  BY MessagesAssumption
<1>2. AppVersion \in Seq(Byte) /\ Len(AppVersion) = 2
  BY <1>1, ShortIsSeq
<1>3. Claim \in Byte /\ RegisterSession \in Byte
  BY DEF Claim, RegisterSession, Byte
<1>4. Layout(m, Claim, RegisterSession, 2, size.w, size.h)
  <2>1. Layout(m, Claim, RegisterSession, Len(AppVersion), size.w, size.h)
    BY <1>1, <1>2, <1>3, SentBytes
  <2> QED BY <1>2, <2>1
<1> HIDE DEF m
<1>5. /\ m \in Seq(Byte) /\ Len(m) = 8 /\ m[1] = Claim /\ m[2] = RegisterSession
      /\ m[3 + 2] = size.w[1] /\ m[3 + 3] = size.w[2]
      /\ m[5 + 2] = size.h[1] /\ m[5 + 3] = size.h[2]
  BY <1>4 DEF Layout
<1>6. m[1] = 171
  BY <1>5 DEF Claim
<1>7. Read(m, 3) = size.w
  BY <1>1, <1>5, <1>6, ReadIs
<1>8. Read(m, 5) = size.h
  <2>1. m \in Seq(Byte) /\ Len(m) >= 5 + 3 /\ m[5 + 2] = size.h[1] /\ m[5 + 3] = size.h[2]
    BY <1>5
  <2> QED BY <1>1, <1>6, <2>1, ReadIs, SMTT(30)
<1>9. SizeIn(m) = size
  BY <1>1, <1>5, <1>7, <1>8 DEF SizeIn
<1> QED BY <1>5, <1>6, <1>9 DEF m

\* Clicks and sizes have the same shape.
IsPair(m, type, a, b) ==
    /\ m \in Seq(Byte) /\ Len(m) = 10
    /\ m[1] = 171 /\ m[2] = type
    /\ Read(m, 5) = a /\ Read(m, 7) = b

LEMMA PairSays ==
    ASSUME NEW type \in Byte, NEW number \in [1 .. 4 -> Byte],
           NEW a \in Short, NEW b \in Short
    PROVE  IsPair(Sent(Claim, type, number, a, b), type, a, b)
<1> DEFINE m == Sent(Claim, type, number, a, b)
<1>1. number \in Seq(Byte) /\ Len(number) = 4
  BY IdIsSeq
<1>2. Claim \in Byte
  BY DEF Claim, Byte
<1>3. Layout(m, Claim, type, 4, a, b)
  <2>1. Layout(m, Claim, type, Len(number), a, b)
    BY <1>1, <1>2, SentBytes
  <2> QED BY <1>1, <2>1
<1> HIDE DEF m
<1>4. /\ m \in Seq(Byte) /\ Len(m) = 10 /\ m[1] = Claim /\ m[2] = type
      /\ m[5 + 2] = a[1] /\ m[5 + 3] = a[2]
      /\ m[7 + 2] = b[1] /\ m[7 + 3] = b[2]
  BY <1>3 DEF Layout
<1>5. m[1] = 171
  BY <1>4 DEF Claim
<1>6. Read(m, 5) = a
  <2>1. m \in Seq(Byte) /\ Len(m) >= 5 + 3 /\ m[5 + 2] = a[1] /\ m[5 + 3] = a[2]
    BY <1>4
  <2> QED BY <1>5, <2>1, ReadIs
<1>7. Read(m, 7) = b
  <2>1. m \in Seq(Byte) /\ Len(m) >= 7 + 3 /\ m[7 + 2] = b[1] /\ m[7 + 3] = b[2]
    BY <1>4
  <2> QED BY <1>5, <2>1, ReadIs
<1>8. IsPair(m, type, a, b)
  BY <1>4, <1>5, <1>6, <1>7 DEF IsPair
<1> QED BY <1>8 DEF m

-----------------------------------------------------------------------------
\* What the browser reads.

LEMMA PutIs ==
    ASSUME NEW n \in Nat, NEW s \in [1 .. n -> Byte], NEW le
    PROVE  /\ Put(le, s) \in [1 .. n -> Byte]
           /\ le = TRUE => Put(le, s) = s
           /\ Put(le, s) \in {s, Reverse(s)}
<1>1. Len(s) = n /\ \A i \in 1 .. n : s[i] \in Byte
  BY FunIsSeq
<1>2. \A i \in 1 .. n : (n - i) + 1 \in 1 .. n
  OBVIOUS
<1>3. Reverse(s) \in [1 .. n -> Byte]
  BY <1>1, <1>2 DEF Reverse
<1> QED BY <1>3 DEF Put

LEMMA PutAllIs ==
    ASSUME NEW numbers \in Seq(Short), NEW le
    PROVE  PutAll(le, numbers) \in Seq(Byte) /\ Len(PutAll(le, numbers)) = 2 * Len(numbers)
<1>1. Len(numbers) \in Nat /\ 2 * Len(numbers) \in Nat
  BY LenProperties
<1>2. ASSUME NEW k \in 1 .. 2 * Len(numbers)
      PROVE  Put(le, numbers[(k + 1) \div 2])[2 - (k % 2)] \in Byte
  <2>1. (k + 1) \div 2 \in 1 .. Len(numbers) /\ 2 - (k % 2) \in 1 .. 2
    BY <1>1
  <2>2. numbers[(k + 1) \div 2] \in [1 .. 2 -> Byte]
    BY <2>1, ElementOfSeq DEF Short
  <2>3. Put(le, numbers[(k + 1) \div 2]) \in [1 .. 2 -> Byte]
    BY <2>2, PutIs
  <2> QED BY <2>1, <2>3
<1>3. PutAll(le, numbers) \in [1 .. 2 * Len(numbers) -> Byte]
  BY <1>2 DEF PutAll
<1> QED BY <1>1, <1>3, FunIsSeq

At(m, o, n, s) == Len(m) >= o + n /\ \A i \in 1 .. n : m[o + i] = s[i]

LEMMA ViewIs ==
    ASSUME NEW m \in Seq(Byte), NEW o \in Nat, NEW n \in Nat \ {0},
           NEW s \in [1 .. n -> Byte], At(m, o, n, s)
    PROVE  View(m, o, n) = s
<1>0. Len(m) >= o + n /\ \A i \in 1 .. n : m[o + i] = s[i]
  BY DEF At
<1>1. s \in Seq(Byte) /\ Len(s) = n
  BY FunIsSeq
<1>2. \A i \in o + 1 .. o + n : m[i] \in Byte
  <2>1. Len(m) \in Nat
    BY LenProperties
  <2>2. \A i \in o + 1 .. o + n : i \in 1 .. Len(m)
    BY <1>0, <2>1
  <2> QED BY <2>2, ElementOfSeq
<1> DEFINE v == SubSeq(m, o + 1, o + n)
<1>3. /\ v \in Seq(Byte)
      /\ Len(v) = IF o + 1 <= o + n THEN o + n - (o + 1) + 1 ELSE 0
      /\ \A i \in 1 .. o + n - (o + 1) + 1 : v[i] = m[o + 1 + i - 1]
  <2>1. o + 1 \in Int /\ o + n \in Int
    OBVIOUS
  <2> QED BY <1>2, <2>1, SubSeqProperties
<1>4. /\ o + 1 <= o + n /\ o + n - (o + 1) + 1 = n
      /\ \A i \in 1 .. n : o + 1 + i - 1 = o + i
  OBVIOUS
<1>5. Len(v) = n /\ \A i \in 1 .. n : v[i] = s[i]
  <2> HIDE DEF v
  <2> QED BY <1>0, <1>3, <1>4
<1>6. v = s
  <2> HIDE DEF v
  <2> QED BY <1>1, <1>3, <1>5, SeqEqual
<1> QED BY <1>6 DEF View

\* A message of two bytes and three numbers, and what follows.
Received(type, a, b, c, d) == <<187, type>> \o a \o b \o c \o d

Carries(m, type, a, b, c, n) ==
    /\ m \in Seq(Byte) /\ Len(m) = 10 + n /\ m[2] = type
    /\ View(m, 2, 4) = a /\ View(m, 6, 2) = b /\ View(m, 8, 2) = c
    /\ m[9] = c[1] /\ m[10] = c[2]

LEMMA ReceivedBytes ==
    ASSUME NEW type \in Byte, NEW a \in [1 .. 4 -> Byte], NEW b \in Short, NEW c \in Short,
           NEW d \in Seq(Byte)
    PROVE  Carries(Received(type, a, b, c, d), type, a, b, c, Len(d))
<1> DEFINE m == Received(type, a, b, c, d)
<1>1. PICK x : x = <<187, type>>
  OBVIOUS
<1>2. PICK y : y = x \o a
  OBVIOUS
<1>3. PICK z : z = y \o b
  OBVIOUS
<1>4. PICK u : u = z \o c
  OBVIOUS
<1>5. m = u \o d
  BY <1>1, <1>2, <1>3, <1>4 DEF Received
<1> HIDE DEF m
<1>6. x \in Seq(Byte) /\ Len(x) = 2 /\ x[2] = type /\ Len(d) \in Nat
  BY <1>1 DEF Byte
<1>7. a \in Seq(Byte) /\ Len(a) = 4
  BY IdIsSeq
<1>8. /\ b \in Seq(Byte) /\ Len(b) = 2 /\ c \in Seq(Byte) /\ Len(c) = 2
  BY ShortIsSeq
<1>9. /\ y \in Seq(Byte) /\ Len(y) = 6
      /\ \A i \in 1 .. 2 : y[i] = x[i]
      /\ \A i \in 1 .. 4 : y[2 + i] = a[i]
  <2>1. Joins(y, x, a)
    BY <1>2, <1>6, <1>7, Joined
  <2> QED BY <1>6, <1>7, <2>1 DEF Joins
<1>10. /\ z \in Seq(Byte) /\ Len(z) = 8
       /\ \A i \in 1 .. 6 : z[i] = y[i]
       /\ \A i \in 1 .. 2 : z[6 + i] = b[i]
  <2>1. Joins(z, y, b)
    BY <1>3, <1>8, <1>9, Joined
  <2> QED BY <1>8, <1>9, <2>1 DEF Joins
<1>11. /\ u \in Seq(Byte) /\ Len(u) = 10
       /\ \A i \in 1 .. 8 : u[i] = z[i]
       /\ \A i \in 1 .. 2 : u[8 + i] = c[i]
  <2>1. Joins(u, z, c)
    BY <1>4, <1>8, <1>10, Joined
  <2> QED BY <1>8, <1>10, <2>1 DEF Joins
<1>12. /\ m \in Seq(Byte) /\ Len(m) = 10 + Len(d)
       /\ \A i \in 1 .. 10 : m[i] = u[i]
  <2>1. Joins(m, u, d)
    BY <1>5, <1>6, <1>11, Joined
  <2> QED BY <1>11, <2>1 DEF Joins
<1>13. /\ \A i \in 1 .. 2 : m[i] = x[i] /\ m[6 + i] = b[i] /\ m[8 + i] = c[i]
       /\ \A i \in 1 .. 4 : m[2 + i] = a[i]
  BY <1>9, <1>10, <1>11, <1>12, SMTT(30)
<1>14. At(m, 2, 4, a) /\ At(m, 6, 2, b) /\ At(m, 8, 2, c)
  BY <1>6, <1>12, <1>13 DEF At
<1>. /\ 2 \in Nat /\ 6 \in Nat /\ 8 \in Nat /\ 4 \in Nat \ {0} /\ 2 \in Nat \ {0}
     /\ b \in [1 .. 2 -> Byte] /\ c \in [1 .. 2 -> Byte]
  BY DEF Short
<1>15. View(m, 2, 4) = a
  BY <1>12, <1>14, ViewIs, Zenon
<1>16. View(m, 6, 2) = b
  BY <1>12, <1>14, ViewIs, Zenon
<1>17. View(m, 8, 2) = c
  BY <1>12, <1>14, ViewIs, Zenon
<1>18. m[8 + 1] = c[1] /\ m[8 + 2] = c[2] /\ m[2] = x[2]
  BY <1>13
<1>19. Carries(m, type, a, b, c, Len(d))
  BY <1>6, <1>12, <1>15, <1>16, <1>17, <1>18 DEF Carries
<1> QED BY <1>19 DEF m

LEMMA StarsNumbered ==
    /\ Len(Stars) \in Nat /\ Stars \in Seq(Short)
    /\ NumStars \in Short
    /\ 256 * NumStars[1] + NumStars[2] = Len(Stars) \div 2
    /\ (10 + 2 * Len(Stars) - 8) \div 4 = Len(Stars) \div 2
<1>1. Len(Stars) \in Nat /\ Len(Stars) % 2 = 0 /\ Len(Stars) < 131072 /\ Stars \in Seq(Short)
  BY MessagesAssumption, LenProperties
<1>2. PICK n \in Nat : Len(Stars) = 2 * n
  BY <1>1
<1>3. Len(Stars) \div 2 = n /\ n < 65536
  BY <1>1, <1>2
<1>4. n \div 256 \in 0 .. 255 /\ n % 256 \in 0 .. 255 /\ 256 * (n \div 256) + (n % 256) = n
  <2>1. \A k \in Nat : k < 65536 => k \div 256 \in 0 .. 255 /\ k % 256 \in 0 .. 255
    OBVIOUS
  <2>2. \A k \in Nat : 256 * (k \div 256) + (k % 256) = k
    OBVIOUS
  <2> QED BY <1>3, <2>1, <2>2
<1>5. (10 + 2 * Len(Stars) - 8) \div 4 = n
  BY <1>2
<1>6. NumStars = <<n \div 256, n % 256>>
  BY <1>3 DEF NumStars
<1>7. NumStars \in Short
  <2>1. \A x, y \in Byte : <<x, y>> \in Short
    BY DEF Short
  <2>2. n \div 256 \in Byte /\ n % 256 \in Byte
    BY <1>4 DEF Byte
  <2> QED BY <1>6, <2>1, <2>2, Zenon
<1> QED BY <1>1, <1>3, <1>4, <1>5, <1>6, <1>7

LEMMA StarsRead ==
    ASSUME NEW m, DOMAIN ReadStars(m) = 1 .. Len(Stars) \div 2
    PROVE  Len(ReadStars(m)) = Len(Stars) \div 2 /\ <<>> \o ReadStars(m) = ReadStars(m)
<1> DEFINE n == Len(Stars) \div 2
           r == ReadStars(m)
           T == { r[i] : i \in 1 .. n }
<1>1. n \in Nat
  BY StarsNumbered
<1>2. r = [i \in DOMAIN r |-> r[i]]
  BY DEF ReadStars
<1>3. r \in [1 .. n -> T]
  <2> HIDE DEF r, n
  <2>1. DOMAIN r = 1 .. n
    BY DEF r, n
  <2> QED BY <1>2, <2>1
<1>4. r \in Seq(T) /\ Len(r) = n
  <2> HIDE DEF r, n, T
  <2> QED BY <1>1, <1>3, FunIsSeq
<1>5. <<>> \o r = r
  <2> HIDE DEF r, n, T
  <2> QED BY <1>4, ConcatEmptySeq
<1> QED BY <1>4, <1>5

\* A message of the server of a type.
IsGood(d, type) == d \in Message /\ GoodDown(arch, d) /\ d.bytes[2] = type

LEMMA RegisteredIsGood == IsGood(Registered(TRUE), SessionRegistered)
<1> DEFINE d == Registered(TRUE)
           m == Received(SessionRegistered, SessionID, AppVersion, NumStars,
                         PutAll(TRUE, Stars))
           n == <<SessionID, AppVersion, NumStars>>
<1>1. /\ SessionID \in [1 .. 4 -> Byte] /\ AppVersion \in Short /\ NumStars \in Short
      /\ Stars \in Seq(Short) /\ SessionRegistered \in Byte
  BY MessagesAssumption, StarsNumbered DEF SessionRegistered, Byte, Long
<1>2. PutAll(TRUE, Stars) \in Seq(Byte) /\ Len(PutAll(TRUE, Stars)) = 2 * Len(Stars)
  BY <1>1, PutAllIs
<1>3. d = [bytes |-> m, parts |-> <<[meant |-> n, afterKey |-> FALSE]>>]
  BY DEF Registered, Received, Put, Part
<1>4. /\ m \in Seq(Byte) /\ Len(m) = 10 + 2 * Len(Stars) /\ m[2] = SessionRegistered
      /\ View(m, 2, 4) = SessionID
      /\ View(m, 6, 2) = AppVersion /\ View(m, 8, 2) = NumStars
      /\ m[9] = NumStars[1] /\ m[10] = NumStars[2]
  <2>1. Carries(m, SessionRegistered, SessionID, AppVersion, NumStars,
                Len(PutAll(TRUE, Stars)))
    BY <1>1, <1>2, ReceivedBytes
  <2> HIDE DEF m
  <2> QED BY <1>2, <2>1 DEF Carries
<1> HIDE DEF m, d
<1>5. n \in Seq(Seq(Byte)) /\ DOMAIN n = 1 .. 3
  <2>1. SessionID \in Seq(Byte) /\ AppVersion \in Seq(Byte) /\ NumStars \in Seq(Byte)
    BY <1>1, IdIsSeq, ShortIsSeq
  <2> QED BY <2>1
<1>6. NumbersRead(m) = <<n>>
  BY <1>4 DEF NumbersRead, OnSessionRegistered
<1> HIDE DEF n
<1>7. d \in Message
  <2>1. [meant |-> n, afterKey |-> FALSE] \in Parts
    BY <1>5 DEF Parts
  <2>2. <<[meant |-> n, afterKey |-> FALSE]>> \in Seq(Parts)
    BY <2>1
  <2> QED BY <1>3, <1>4, <2>2 DEF Message
<1>8. DOMAIN ReadStars(m) = 1 .. Len(Stars) \div 2
  <2>1. /\ 256 * m[9] + m[10] = Len(Stars) \div 2
        /\ (Len(m) - 8) \div 4 = Len(Stars) \div 2
        /\ Len(Stars) \div 2 \in Nat
    BY <1>4, StarsNumbered
  <2> DEFINE Star(i) == <<View(m, 4 + 4 * i, 2), View(m, 6 + 4 * i, 2)>>
  <2>2. ReadStars(m) = [i \in 1 .. Len(Stars) \div 2 |-> Star(i)]
    BY <2>1 DEF ReadStars
  <2> QED BY <2>1, <2>2
<1>9. PartsSeen(arch, d)
  BY <1>3, <1>6 DEF PartsSeen, Seen
<1>10. NumbersRead(m)[1][1] = SessionID
  BY <1>6 DEF n
<1>11. d.bytes = m
  BY <1>3
<1>12. GoodDown(arch, d)
  BY <1>8, <1>9, <1>10, <1>11 DEF GoodDown
<1> QED BY <1>4, <1>7, <1>11, <1>12 DEF IsGood, d

\* A sequence of bytes to which a number is added.
Grows(t, m, z, n, s) ==
    /\ t \in Seq(Byte) /\ Len(t) = z + n
    /\ At(t, z, n, s)
    /\ \A o \in Nat, k \in Nat : \A x : At(m, o, k, x) => At(t, o, k, x)

LEMMA Grown ==
    ASSUME NEW m \in Seq(Byte), NEW z, Len(m) = z, NEW n \in Nat, NEW s \in [1 .. n -> Byte]
    PROVE  Grows(m \o s, m, z, n, s)
<1>1. s \in Seq(Byte) /\ Len(s) = n /\ Len(m) \in Nat
  BY FunIsSeq, LenProperties
<1>2. Joins(m \o s, m, s)
  BY <1>1, Joined
<1> DEFINE t == m \o s
<1> HIDE DEF t
<1>3. /\ t \in Seq(Byte) /\ Len(t) = Len(m) + n
      /\ \A i \in 1 .. Len(m) : t[i] = m[i]
      /\ \A i \in 1 .. n : t[Len(m) + i] = s[i]
  BY <1>1, <1>2 DEF Joins, t
<1>4. At(t, Len(m), n, s)
  BY <1>1, <1>3 DEF At
<1>5. ASSUME NEW o \in Nat, NEW k \in Nat, NEW x, At(m, o, k, x)
      PROVE  At(t, o, k, x)
  <2>1. \A i \in 1 .. k : o + i \in 1 .. Len(m)
    BY <1>1, <1>5 DEF At
  <2> QED BY <1>1, <1>3, <1>5, <2>1 DEF At
<1>6. Grows(t, m, z, n, s)
  BY <1>3, <1>4, <1>5 DEF Grows
<1> QED BY <1>6 DEF t

\* What is in a sequence of bytes is in every one that ends with it.
LEMMA Shifted ==
    ASSUME NEW m \in Seq(Byte), NEW t \in Seq(Byte), NEW o \in Nat, NEW n \in Nat, NEW s,
           At(t, o, n, s)
    PROVE  At(m \o t, Len(m) + o, n, s)
<1>1. Len(m) \in Nat /\ Len(t) \in Nat
  BY LenProperties
<1>2. Joins(m \o t, m, t)
  BY Joined
<1>3. Len(t) >= o + n /\ \A i \in 1 .. n : t[o + i] = s[i] /\ o + i \in 1 .. Len(t)
  BY <1>1 DEF At
<1>4. \A i \in 1 .. n : (m \o t)[Len(m) + (o + i)] = s[i]
  BY <1>2, <1>3 DEF Joins
<1>5. \A i \in 1 .. n : Len(m) + (o + i) = (Len(m) + o) + i
  BY <1>1
<1> QED BY <1>1, <1>2, <1>3, <1>4, <1>5 DEF Joins, At

LEMMA OneByte ==
    ASSUME NEW n \in [1 .. 1 -> Byte]
    PROVE  Reverse(n) = n
<1>1. Len(n) = 1 /\ n = [i \in 1 .. 1 |-> n[i]]
  BY FunIsSeq
<1>2. Reverse(n) = [i \in 1 .. 1 |-> n[(1 - i) + 1]]
  BY <1>1 DEF Reverse
<1> QED BY <1>1, <1>2

LEMMA PlayerNumbers ==
    /\ \A s \in Ships : /\ s.x \in Short /\ s.y \in Short /\ s.angle \in Short
                         /\ s.flags \in [1 .. 1 -> Byte] /\ s.lives \in [1 .. 1 -> Byte]
    /\ \A p \in Players : /\ p.ox \in Short /\ p.oy \in Short /\ p.phase \in Short
                           /\ p.score \in Long
    /\ SessionID \in Long /\ Ticks \in Long /\ NoBullets \in Short
<1>1. Ticks \in Long /\ NoBullets \in Short
  BY DEF Ticks, NoBullets, Long, Short, Byte
<1> QED BY <1>1, MessagesAssumption

\* What a buffer of the ship holds, at the offsets of the browser's less 24.
ShipSays(b, le, s) ==
    /\ b \in Seq(Byte) /\ Len(b) = 10
    /\ At(b, 0, 2, Put(le, s.x)) /\ At(b, 2, 2, Put(le, s.y)) /\ At(b, 4, 2, Put(le, s.angle))
    /\ At(b, 6, 1, s.flags) /\ At(b, 7, 1, s.lives) /\ At(b, 8, 2, Put(le, NoBullets))

LEMMA ShipBytes ==
    ASSUME NEW s \in Ships, NEW le \in BOOLEAN, NEW k
    PROVE  ShipSays(ShipBuffer(le, s, k).bytes, le, s)
<1> DEFINE b == ShipBuffer(le, s, k).bytes
<1>1. /\ Put(le, s.x) \in [1 .. 2 -> Byte] /\ Put(le, s.y) \in [1 .. 2 -> Byte]
      /\ Put(le, s.angle) \in [1 .. 2 -> Byte] /\ Put(le, NoBullets) \in [1 .. 2 -> Byte]
      /\ s.flags \in [1 .. 1 -> Byte] /\ s.lives \in [1 .. 1 -> Byte]
  BY PlayerNumbers, PutIs DEF Short
<1>2. PICK b1 : b1 = Put(le, s.x)
  OBVIOUS
<1>3. PICK b2 : b2 = b1 \o Put(le, s.y)
  OBVIOUS
<1>4. PICK b3 : b3 = b2 \o Put(le, s.angle)
  OBVIOUS
<1>5. PICK b4 : b4 = b3 \o s.flags
  OBVIOUS
<1>6. PICK b5 : b5 = b4 \o s.lives
  OBVIOUS
<1>7. b = b5 \o Put(le, NoBullets)
  BY <1>2, <1>3, <1>4, <1>5, <1>6 DEF ShipBuffer
<1> HIDE DEF b
<1>8. b1 \in Seq(Byte) /\ Len(b1) = 2 /\ At(b1, 0, 2, Put(le, s.x))
  <2>1. b1 \in Seq(Byte) /\ Len(b1) = 2
    BY <1>1, <1>2, FunIsSeq
  <2>2. \A i \in 1 .. 2 : 0 + i = i
    OBVIOUS
  <2> QED BY <1>2, <2>1, <2>2 DEF At
<1>9. /\ b2 \in Seq(Byte) /\ Len(b2) = 4
      /\ At(b2, 0, 2, Put(le, s.x)) /\ At(b2, 2, 2, Put(le, s.y))
  <2>1. Grows(b2, b1, 2, 2, Put(le, s.y))
    BY <1>1, <1>3, <1>8, Grown
  <2> QED BY <1>8, <2>1 DEF Grows
<1>10. /\ b3 \in Seq(Byte) /\ Len(b3) = 6
       /\ At(b3, 0, 2, Put(le, s.x)) /\ At(b3, 2, 2, Put(le, s.y))
       /\ At(b3, 4, 2, Put(le, s.angle))
  <2>1. Grows(b3, b2, 4, 2, Put(le, s.angle))
    BY <1>1, <1>4, <1>9, Grown
  <2> QED BY <1>9, <2>1 DEF Grows
<1>11. /\ b4 \in Seq(Byte) /\ Len(b4) = 7
       /\ At(b4, 0, 2, Put(le, s.x)) /\ At(b4, 2, 2, Put(le, s.y))
       /\ At(b4, 4, 2, Put(le, s.angle)) /\ At(b4, 6, 1, s.flags)
  <2>1. Grows(b4, b3, 6, 1, s.flags)
    BY <1>1, <1>5, <1>10, Grown
  <2> QED BY <1>10, <2>1 DEF Grows
<1>12. /\ b5 \in Seq(Byte) /\ Len(b5) = 8
       /\ At(b5, 0, 2, Put(le, s.x)) /\ At(b5, 2, 2, Put(le, s.y))
       /\ At(b5, 4, 2, Put(le, s.angle)) /\ At(b5, 6, 1, s.flags) /\ At(b5, 7, 1, s.lives)
  <2>1. Grows(b5, b4, 7, 1, s.lives)
    BY <1>1, <1>6, <1>11, Grown
  <2> QED BY <1>11, <2>1 DEF Grows
<1>13. ShipSays(b, le, s)
  <2>1. Grows(b, b5, 8, 2, Put(le, NoBullets))
    BY <1>1, <1>7, <1>12, Grown
  <2> QED BY <1>12, <2>1 DEF ShipSays, Grows
<1> QED BY <1>13 DEF b

\* What a buffer of the player holds.
PlayerSays(b, le, size, p) ==
    /\ b \in Seq(Byte) /\ Len(b) = 24 /\ b[2] = PlayerTickMessage
    /\ At(b, 2, 4, Put(le, SessionID)) /\ At(b, 6, 4, Put(le, Ticks))
    /\ At(b, 10, 2, Put(le, size.w)) /\ At(b, 12, 2, Put(le, size.h))
    /\ At(b, 14, 2, Put(le, p.ox)) /\ At(b, 16, 2, Put(le, p.oy))
    /\ At(b, 18, 4, Put(le, p.score)) /\ At(b, 22, 2, Put(le, p.phase))

LEMMA PlayerBytes ==
    ASSUME NEW size, size.w \in Short, size.h \in Short, NEW p \in Players,
           NEW le \in BOOLEAN, NEW k
    PROVE  PlayerSays(PlayerBuffer(le, size, p, k).bytes, le, size, p)
<1> DEFINE b == PlayerBuffer(le, size, p, k).bytes
<1>1. /\ Put(le, SessionID) \in [1 .. 4 -> Byte] /\ Put(le, Ticks) \in [1 .. 4 -> Byte]
      /\ Put(le, size.w) \in [1 .. 2 -> Byte] /\ Put(le, size.h) \in [1 .. 2 -> Byte]
      /\ Put(le, p.ox) \in [1 .. 2 -> Byte] /\ Put(le, p.oy) \in [1 .. 2 -> Byte]
      /\ Put(le, p.score) \in [1 .. 4 -> Byte] /\ Put(le, p.phase) \in [1 .. 2 -> Byte]
  BY PlayerNumbers, PutIs DEF Short, Long
<1>2. PICK b0 : b0 = <<187, PlayerTickMessage>>
  OBVIOUS
<1>3. PICK b1 : b1 = b0 \o Put(le, SessionID)
  OBVIOUS
<1>4. PICK b2 : b2 = b1 \o Put(le, Ticks)
  OBVIOUS
<1>5. PICK b3 : b3 = b2 \o Put(le, size.w)
  OBVIOUS
<1>6. PICK b4 : b4 = b3 \o Put(le, size.h)
  OBVIOUS
<1>7. PICK b5 : b5 = b4 \o Put(le, p.ox)
  OBVIOUS
<1>8. PICK b6 : b6 = b5 \o Put(le, p.oy)
  OBVIOUS
<1>9. PICK b7 : b7 = b6 \o Put(le, p.score)
  OBVIOUS
<1>10. b = b7 \o Put(le, p.phase)
  BY <1>2, <1>3, <1>4, <1>5, <1>6, <1>7, <1>8, <1>9 DEF PlayerBuffer
<1> HIDE DEF b
<1> DEFINE first == [i \in 1 .. 2 |-> IF i = 1 THEN 187 ELSE PlayerTickMessage]
<1>11. first[1] = 187 /\ first[2] = PlayerTickMessage
  OBVIOUS
<1> HIDE DEF first
<1>12. b0 \in Seq(Byte) /\ Len(b0) = 2 /\ At(b0, 0, 2, first)
  <2>1. b0 \in Seq(Byte) /\ Len(b0) = 2
    BY <1>2 DEF PlayerTickMessage, Byte
  <2>2. b0[0 + 1] = first[1] /\ b0[0 + 2] = first[2]
    BY <1>2, <1>11
  <2> QED BY <2>1, <2>2 DEF At
<1>13. /\ 0 \in Nat /\ 2 \in Nat /\ 4 \in Nat /\ 6 \in Nat /\ 10 \in Nat
       /\ 12 \in Nat /\ 14 \in Nat /\ 16 \in Nat /\ 18 \in Nat
  OBVIOUS
<1>14. /\ b1 \in Seq(Byte) /\ Len(b1) = 6 /\ At(b1, 0, 2, first)
       /\ At(b1, 2, 4, Put(le, SessionID))
  <2>1. Grows(b1, b0, 2, 4, Put(le, SessionID))
    BY <1>1, <1>3, <1>12, Grown
  <2> QED BY <1>12, <2>1, SMTT(30) DEF Grows
<1>15. /\ b2 \in Seq(Byte) /\ Len(b2) = 10 /\ At(b2, 0, 2, first)
       /\ At(b2, 2, 4, Put(le, SessionID)) /\ At(b2, 6, 4, Put(le, Ticks))
  <2>1. Grows(b2, b1, 6, 4, Put(le, Ticks))
    BY <1>1, <1>4, <1>14, Grown
  <2>2. /\ b2 \in Seq(Byte) /\ Len(b2) = 6 + 4
        /\ At(b2, 6, 4, Put(le, Ticks))
    BY <2>1 DEF Grows
  <2>3. /\ At(b2, 0, 2, first) /\ At(b2, 2, 4, Put(le, SessionID))
    BY <1>13, <1>14, <2>1, Zenon DEF Grows
  <2> QED BY <2>2, <2>3
<1>16. /\ b3 \in Seq(Byte) /\ Len(b3) = 12 /\ At(b3, 0, 2, first)
       /\ At(b3, 2, 4, Put(le, SessionID)) /\ At(b3, 6, 4, Put(le, Ticks))
       /\ At(b3, 10, 2, Put(le, size.w))
  <2>1. Grows(b3, b2, 10, 2, Put(le, size.w))
    BY <1>1, <1>5, <1>15, Grown
  <2>2. /\ b3 \in Seq(Byte) /\ Len(b3) = 10 + 2
        /\ At(b3, 10, 2, Put(le, size.w))
    BY <2>1 DEF Grows
  <2>3. /\ At(b3, 0, 2, first) /\ At(b3, 2, 4, Put(le, SessionID))
        /\ At(b3, 6, 4, Put(le, Ticks))
    BY <1>13, <1>15, <2>1, Zenon DEF Grows
  <2> QED BY <2>2, <2>3
<1>17. /\ b4 \in Seq(Byte) /\ Len(b4) = 14 /\ At(b4, 0, 2, first)
       /\ At(b4, 2, 4, Put(le, SessionID)) /\ At(b4, 6, 4, Put(le, Ticks))
       /\ At(b4, 10, 2, Put(le, size.w)) /\ At(b4, 12, 2, Put(le, size.h))
  <2>1. Grows(b4, b3, 12, 2, Put(le, size.h))
    BY <1>1, <1>6, <1>16, Grown
  <2>2. /\ b4 \in Seq(Byte) /\ Len(b4) = 12 + 2
        /\ At(b4, 12, 2, Put(le, size.h))
    BY <2>1 DEF Grows
  <2>3. /\ At(b4, 0, 2, first) /\ At(b4, 2, 4, Put(le, SessionID))
        /\ At(b4, 6, 4, Put(le, Ticks)) /\ At(b4, 10, 2, Put(le, size.w))
    BY <1>13, <1>16, <2>1, Zenon DEF Grows
  <2> QED BY <2>2, <2>3
<1>18. /\ b5 \in Seq(Byte) /\ Len(b5) = 16 /\ At(b5, 0, 2, first)
       /\ At(b5, 2, 4, Put(le, SessionID)) /\ At(b5, 6, 4, Put(le, Ticks))
       /\ At(b5, 10, 2, Put(le, size.w)) /\ At(b5, 12, 2, Put(le, size.h))
       /\ At(b5, 14, 2, Put(le, p.ox))
  <2>1. Grows(b5, b4, 14, 2, Put(le, p.ox))
    BY <1>1, <1>7, <1>17, Grown
  <2>2. /\ b5 \in Seq(Byte) /\ Len(b5) = 14 + 2
        /\ At(b5, 14, 2, Put(le, p.ox))
    BY <2>1 DEF Grows
  <2>3. /\ At(b5, 0, 2, first) /\ At(b5, 2, 4, Put(le, SessionID))
        /\ At(b5, 6, 4, Put(le, Ticks)) /\ At(b5, 10, 2, Put(le, size.w))
        /\ At(b5, 12, 2, Put(le, size.h))
    BY <1>13, <1>17, <2>1, Zenon DEF Grows
  <2> QED BY <2>2, <2>3
<1>19. /\ b6 \in Seq(Byte) /\ Len(b6) = 18 /\ At(b6, 0, 2, first)
       /\ At(b6, 2, 4, Put(le, SessionID)) /\ At(b6, 6, 4, Put(le, Ticks))
       /\ At(b6, 10, 2, Put(le, size.w)) /\ At(b6, 12, 2, Put(le, size.h))
       /\ At(b6, 14, 2, Put(le, p.ox)) /\ At(b6, 16, 2, Put(le, p.oy))
  <2>1. Grows(b6, b5, 16, 2, Put(le, p.oy))
    BY <1>1, <1>8, <1>18, Grown
  <2>2. /\ b6 \in Seq(Byte) /\ Len(b6) = 16 + 2
        /\ At(b6, 16, 2, Put(le, p.oy))
    BY <2>1 DEF Grows
  <2>3. /\ At(b6, 0, 2, first) /\ At(b6, 2, 4, Put(le, SessionID))
        /\ At(b6, 6, 4, Put(le, Ticks)) /\ At(b6, 10, 2, Put(le, size.w))
        /\ At(b6, 12, 2, Put(le, size.h)) /\ At(b6, 14, 2, Put(le, p.ox))
    BY <1>13, <1>18, <2>1, Zenon DEF Grows
  <2> QED BY <2>2, <2>3
<1>20. /\ b7 \in Seq(Byte) /\ Len(b7) = 22 /\ At(b7, 0, 2, first)
       /\ At(b7, 2, 4, Put(le, SessionID)) /\ At(b7, 6, 4, Put(le, Ticks))
       /\ At(b7, 10, 2, Put(le, size.w)) /\ At(b7, 12, 2, Put(le, size.h))
       /\ At(b7, 14, 2, Put(le, p.ox)) /\ At(b7, 16, 2, Put(le, p.oy))
       /\ At(b7, 18, 4, Put(le, p.score))
  <2>1. Grows(b7, b6, 18, 4, Put(le, p.score))
    BY <1>1, <1>9, <1>19, Grown
  <2>2. /\ b7 \in Seq(Byte) /\ Len(b7) = 18 + 4
        /\ At(b7, 18, 4, Put(le, p.score))
    BY <2>1 DEF Grows
  <2>3. /\ At(b7, 0, 2, first) /\ At(b7, 2, 4, Put(le, SessionID))
        /\ At(b7, 6, 4, Put(le, Ticks)) /\ At(b7, 10, 2, Put(le, size.w))
        /\ At(b7, 12, 2, Put(le, size.h)) /\ At(b7, 14, 2, Put(le, p.ox))
        /\ At(b7, 16, 2, Put(le, p.oy))
    BY <1>13, <1>19, <2>1, Zenon DEF Grows
  <2> QED BY <2>2, <2>3
<1>21. /\ b \in Seq(Byte) /\ Len(b) = 24 /\ At(b, 0, 2, first)
       /\ At(b, 2, 4, Put(le, SessionID)) /\ At(b, 6, 4, Put(le, Ticks))
       /\ At(b, 10, 2, Put(le, size.w)) /\ At(b, 12, 2, Put(le, size.h))
       /\ At(b, 14, 2, Put(le, p.ox)) /\ At(b, 16, 2, Put(le, p.oy))
       /\ At(b, 18, 4, Put(le, p.score)) /\ At(b, 22, 2, Put(le, p.phase))
  <2>1. Grows(b, b7, 22, 2, Put(le, p.phase))
    BY <1>1, <1>10, <1>20, Grown
  <2>2. /\ b \in Seq(Byte) /\ Len(b) = 22 + 2
        /\ At(b, 22, 2, Put(le, p.phase))
    BY <2>1 DEF Grows
  <2>3. /\ At(b, 0, 2, first) /\ At(b, 2, 4, Put(le, SessionID))
        /\ At(b, 6, 4, Put(le, Ticks)) /\ At(b, 10, 2, Put(le, size.w))
        /\ At(b, 12, 2, Put(le, size.h)) /\ At(b, 14, 2, Put(le, p.ox))
        /\ At(b, 16, 2, Put(le, p.oy)) /\ At(b, 18, 4, Put(le, p.score))
    BY <1>13, <1>20, <2>1, Zenon DEF Grows
  <2> QED BY <2>2, <2>3
<1>22. b[2] = PlayerTickMessage
  <2>1. b[0 + 2] = first[2]
    BY <1>21 DEF At
  <2> QED BY <1>11, <2>1
<1>23. PlayerSays(b, le, size, p)
  BY <1>21, <1>22 DEF PlayerSays
<1> QED BY <1>23 DEF b

\* A message of a tick, whose parts may be written in two byte orders.
TickMessageOf(a, size, p, k, s, l) ==
    [bytes |-> PlayerBuffer(Order(a, k), size, p, k).bytes
                   \o ShipBuffer(Order(a, l), s, l).bytes,
     parts |-> <<PlayerBuffer(Order(a, k), size, p, k).part,
                 ShipBuffer(Order(a, l), s, l).part>>]

LEMMA Ordered ==
    ASSUME NEW a, NEW k \in BOOLEAN, NEW n
    PROVE  Put(Order(a, k), n) = Seen(a, k, n) /\ Order(a, k) \in BOOLEAN
BY DEF Put, Order, Seen

LEMMA TickMessageIsGood ==
    ASSUME NEW size, size.w \in Short, size.h \in Short, NEW p \in Players, NEW s \in Ships,
           NEW k \in BOOLEAN, NEW l \in BOOLEAN
    PROVE  IsGood(TickMessageOf(arch, size, p, k, s, l), PlayerTickMessage)
<1> DEFINE le == Order(arch, k)
           ls == Order(arch, l)
           b == PlayerBuffer(le, size, p, k).bytes
           c == ShipBuffer(ls, s, l).bytes
           m == b \o c
           n == <<SessionID, Ticks, size.w, size.h, p.ox, p.oy, p.score, p.phase>>
           q == <<s.x, s.y, s.angle, s.flags, s.lives, NoBullets>>
           d == TickMessageOf(arch, size, p, k, s, l)
<1>1. d = [bytes |-> m, parts |-> <<[meant |-> n, afterKey |-> k],
                                    [meant |-> q, afterKey |-> l]>>]
  BY DEF TickMessageOf, PlayerBuffer, ShipBuffer, Part
<1>2. le \in BOOLEAN /\ ls \in BOOLEAN
  BY Ordered
<1>3. PlayerSays(b, le, size, p) /\ ShipSays(c, ls, s)
  <2> HIDE DEF le, ls
  <2> QED BY <1>2, PlayerBytes, ShipBytes
<1> HIDE DEF b, c, d
<1>4. b \in Seq(Byte) /\ Len(b) = 24 /\ c \in Seq(Byte) /\ Len(c) = 10
  BY <1>3 DEF PlayerSays, ShipSays
<1>5. /\ m \in Seq(Byte) /\ Len(m) = 34
      /\ \A i \in 1 .. 24 : m[i] = b[i]
  <2>1. Joins(m, b, c)
    BY <1>4, Joined
  <2> HIDE DEF m
  <2> QED BY <1>4, <2>1 DEF Joins
<1>6. ASSUME NEW o \in Nat, NEW z \in Nat \ {0}, NEW x \in [1 .. z -> Byte], At(b, o, z, x)
      PROVE  View(m, o, z) = x
  <2>1. At(m, o, z, x)
    <3>1. \A i \in 1 .. z : o + i \in 1 .. 24
      BY <1>4, <1>6 DEF At
    <3> HIDE DEF m
    <3>2. \A i \in 1 .. z : m[o + i] = x[i]
      BY <1>5, <1>6, <3>1 DEF At
    <3>3. Len(m) >= o + z
      BY <1>4, <1>5, <1>6 DEF At
    <3> QED BY <3>2, <3>3 DEF At
  <2> HIDE DEF m
  <2> QED BY <1>5, <2>1, ViewIs
<1>7. ASSUME NEW o \in Nat, NEW z \in Nat \ {0}, NEW x \in [1 .. z -> Byte], At(c, o, z, x)
      PROVE  View(m, 24 + o, z) = x
  <2>1. At(m, 24 + o, z, x)
    BY <1>4, <1>7, Shifted
  <2> HIDE DEF m
  <2> QED BY <1>5, <2>1, ViewIs
<1> HIDE DEF m
<1>8. m[2] = PlayerTickMessage
  BY <1>3, <1>5 DEF PlayerSays
<1>9. /\ \A x \in Short : Put(le, x) \in [1 .. 2 -> Byte] /\ Put(ls, x) \in [1 .. 2 -> Byte]
      /\ \A x \in Long : Put(le, x) \in [1 .. 4 -> Byte]
  BY PutIs DEF Short, Long
<1>10. /\ View(m, 2, 4) = Put(le, SessionID) /\ View(m, 6, 4) = Put(le, Ticks)
       /\ View(m, 10, 2) = Put(le, size.w) /\ View(m, 12, 2) = Put(le, size.h)
       /\ View(m, 14, 2) = Put(le, p.ox) /\ View(m, 16, 2) = Put(le, p.oy)
       /\ View(m, 18, 4) = Put(le, p.score) /\ View(m, 22, 2) = Put(le, p.phase)
  <2> HIDE DEF le, ls
  <2>1. /\ At(b, 2, 4, Put(le, SessionID)) /\ At(b, 6, 4, Put(le, Ticks))
        /\ At(b, 10, 2, Put(le, size.w)) /\ At(b, 12, 2, Put(le, size.h))
        /\ At(b, 14, 2, Put(le, p.ox)) /\ At(b, 16, 2, Put(le, p.oy))
        /\ At(b, 18, 4, Put(le, p.score)) /\ At(b, 22, 2, Put(le, p.phase))
    BY <1>3 DEF PlayerSays
  <2>2. /\ Put(le, SessionID) \in [1 .. 4 -> Byte] /\ Put(le, Ticks) \in [1 .. 4 -> Byte]
        /\ Put(le, size.w) \in [1 .. 2 -> Byte] /\ Put(le, size.h) \in [1 .. 2 -> Byte]
        /\ Put(le, p.ox) \in [1 .. 2 -> Byte] /\ Put(le, p.oy) \in [1 .. 2 -> Byte]
        /\ Put(le, p.score) \in [1 .. 4 -> Byte] /\ Put(le, p.phase) \in [1 .. 2 -> Byte]
    BY <1>9, PlayerNumbers
  <2>3. /\ 2 \in Nat \ {0} /\ 4 \in Nat \ {0} /\ 2 \in Nat /\ 6 \in Nat /\ 10 \in Nat
        /\ 12 \in Nat /\ 14 \in Nat /\ 16 \in Nat /\ 18 \in Nat /\ 22 \in Nat
    OBVIOUS
  <2> QED BY <1>6, <2>1, <2>2, <2>3, Zenon
<1>11. /\ View(m, 24, 2) = Put(ls, s.x) /\ View(m, 26, 2) = Put(ls, s.y)
       /\ View(m, 28, 2) = Put(ls, s.angle)
       /\ View(m, 30, 1) = s.flags /\ View(m, 31, 1) = s.lives
       /\ View(m, 32, 2) = Put(ls, NoBullets)
  <2> HIDE DEF le, ls
  <2>1. /\ At(c, 0, 2, Put(ls, s.x)) /\ At(c, 2, 2, Put(ls, s.y))
        /\ At(c, 4, 2, Put(ls, s.angle))
        /\ At(c, 6, 1, s.flags) /\ At(c, 7, 1, s.lives) /\ At(c, 8, 2, Put(ls, NoBullets))
    BY <1>3 DEF ShipSays
  <2>2. /\ 24 + 0 = 24 /\ 24 + 2 = 26 /\ 24 + 4 = 28 /\ 24 + 6 = 30 /\ 24 + 7 = 31
        /\ 24 + 8 = 32
    OBVIOUS
  <2>3. /\ Put(ls, s.x) \in [1 .. 2 -> Byte] /\ Put(ls, s.y) \in [1 .. 2 -> Byte]
        /\ Put(ls, s.angle) \in [1 .. 2 -> Byte] /\ Put(ls, NoBullets) \in [1 .. 2 -> Byte]
        /\ s.flags \in [1 .. 1 -> Byte] /\ s.lives \in [1 .. 1 -> Byte]
    BY <1>9, PlayerNumbers
  <2>4. /\ 1 \in Nat \ {0} /\ 2 \in Nat \ {0} /\ 0 \in Nat /\ 2 \in Nat /\ 4 \in Nat
        /\ 6 \in Nat /\ 7 \in Nat /\ 8 \in Nat
    OBVIOUS
  <2>5. /\ View(m, 24 + 0, 2) = Put(ls, s.x) /\ View(m, 24 + 2, 2) = Put(ls, s.y)
        /\ View(m, 24 + 4, 2) = Put(ls, s.angle)
        /\ View(m, 24 + 6, 1) = s.flags /\ View(m, 24 + 7, 1) = s.lives
        /\ View(m, 24 + 8, 2) = Put(ls, NoBullets)
    BY <1>7, <2>1, <2>3, <2>4, Zenon
  <2> QED BY <2>2, <2>5
<1>12. NumbersRead(m) =
        << <<Seen(arch, k, SessionID), Seen(arch, k, Ticks), Seen(arch, k, size.w),
             Seen(arch, k, size.h), Seen(arch, k, p.ox), Seen(arch, k, p.oy),
             Seen(arch, k, p.score), Seen(arch, k, p.phase)>>,
           <<Seen(arch, l, s.x), Seen(arch, l, s.y), Seen(arch, l, s.angle),
             Seen(arch, l, s.flags), Seen(arch, l, s.lives), Seen(arch, l, NoBullets)>> >>
  <2>1. m[2] # SessionRegistered
    BY <1>8 DEF SessionRegistered, PlayerTickMessage
  <2>2. Seen(arch, l, s.flags) = s.flags /\ Seen(arch, l, s.lives) = s.lives
    BY PlayerNumbers, OneByte DEF Seen
  <2>3. \A x : Put(le, x) = Seen(arch, k, x) /\ Put(ls, x) = Seen(arch, l, x)
    BY Ordered
  <2> HIDE DEF le, ls
  <2> QED BY <1>10, <1>11, <2>1, <2>2, <2>3 DEF NumbersRead, OnPlayerTickMessage
<1>13. PartsSeen(arch, d)
  <2>1. \A j \in DOMAIN n : NumbersRead(m)[1][j] = Seen(arch, k, n[j])
    BY <1>12
  <2>2. \A j \in DOMAIN q : NumbersRead(m)[2][j] = Seen(arch, l, q[j])
    BY <1>12
  <2> HIDE DEF n, q
  <2>3. /\ d.bytes = m /\ DOMAIN d.parts = 1 .. 2
        /\ d.parts[1].meant = n /\ d.parts[1].afterKey = k
        /\ d.parts[2].meant = q /\ d.parts[2].afterKey = l
    BY <1>1
  <2> QED BY <2>1, <2>2, <2>3 DEF PartsSeen
<1>14. d \in Message
  <2>1. n \in Seq(Seq(Byte))
    <3>1. /\ SessionID \in Seq(Byte) /\ Ticks \in Seq(Byte) /\ p.score \in Seq(Byte)
          /\ p.ox \in Seq(Byte) /\ p.oy \in Seq(Byte) /\ p.phase \in Seq(Byte)
          /\ size.w \in Seq(Byte) /\ size.h \in Seq(Byte)
      BY PlayerNumbers, IdIsSeq, ShortIsSeq DEF Long
    <3> QED BY <3>1
  <2>2. q \in Seq(Seq(Byte))
    <3>1. /\ s.x \in Seq(Byte) /\ s.y \in Seq(Byte) /\ s.angle \in Seq(Byte)
          /\ s.flags \in Seq(Byte) /\ s.lives \in Seq(Byte) /\ NoBullets \in Seq(Byte)
      BY PlayerNumbers, FunIsSeq, ShortIsSeq
    <3> QED BY <3>1
  <2> HIDE DEF n, q
  <2>3. [meant |-> n, afterKey |-> k] \in Parts /\ [meant |-> q, afterKey |-> l] \in Parts
    BY <2>1, <2>2 DEF Parts
  <2>4. <<[meant |-> n, afterKey |-> k], [meant |-> q, afterKey |-> l]>> \in Seq(Parts)
    BY <2>3
  <2> QED BY <1>1, <1>5, <2>4 DEF Message
<1>15. NumbersRead(m)[1][1] \in {SessionID, Reverse(SessionID)}
  BY <1>12 DEF Seen
<1>16. m[2] # SessionRegistered /\ d.bytes = m
  BY <1>1, <1>8 DEF SessionRegistered, PlayerTickMessage
<1> QED BY <1>8, <1>13, <1>14, <1>15, <1>16 DEF IsGood, GoodDown, d

-----------------------------------------------------------------------------
\* The steps.

LEMMA Numbers ==
    /\ \A w \in Windows : w # NoPlayer /\ w.w \in Short /\ w.h \in Short
                          /\ w = [w |-> w.w, h |-> w.h]
    /\ \A p \in Points : p.x \in Short /\ p.y \in Short /\ p = [x |-> p.x, y |-> p.y]
    /\ AppVersion \in Short
    /\ \A n \in {NoID, SessionID, Reverse(SessionID)} : n \in [1 .. 4 -> Byte]
<1>1. /\ Windows \subseteq [w : Short, h : Short] /\ Points \subseteq [x : Short, y : Short]
      /\ AppVersion \in Short /\ SessionID \in [1 .. 4 -> Byte]
  BY MessagesAssumption DEF Long
<1>2. \A w \in [w : Short, h : Short] : w # <<>>
  <2>1. \A w \in [w : Short, h : Short] : DOMAIN w = {"w", "h"}
    OBVIOUS
  <2>2. DOMAIN <<>> = {}
    OBVIOUS
  <2> QED BY <2>1, <2>2
<1>3. Reverse(SessionID) \in [1 .. 4 -> Byte]
  <2>1. Len(SessionID) = 4 /\ \A i \in 1 .. 4 : SessionID[i] \in Byte
    BY <1>1, FunIsSeq
  <2>2. \A i \in 1 .. 4 : (4 - i) + 1 \in 1 .. 4
    OBVIOUS
  <2> QED BY <2>1, <2>2 DEF Reverse
<1>4. NoID \in [1 .. 4 -> Byte]
  BY DEF NoID, Byte
<1> QED BY <1>1, <1>2, <1>3, <1>4 DEF NoPlayer

LEMMA InitOK == Init => IInv
<1> SUFFICES ASSUME Init PROVE IInv
  OBVIOUS
<1>1. up = <<>> /\ down = <<>> /\ DOMAIN <<>> = {}
  BY DEF Init
<1>2. TypeOK
  <2>1. <<>> \in Seq(Seq(Byte))
        /\ <<>> \in Seq([bytes : Seq(Byte), parts : Seq(Parts)])
    BY EmptySeq
  <2>2. Len(stars) = 0
    BY DEF Init
  <2> QED BY <2>1, <2>2 DEF Init, TypeOK
<1>3. Registration
  BY <1>1 DEF Init, Registration
<1>4. Messages
  BY <1>1 DEF Init, Messages, Order
<1>5. Sizes
  BY <1>1 DEF Init, Sizes
<1>6. Clicks
  BY <1>1 DEF Init, Clicks
<1>7. KeysHeld
  BY <1>1 DEF Init, KeysHeld, Held
<1> QED BY <1>2, <1>3, <1>4, <1>5, <1>6, <1>7 DEF IInv

\* What the user does sends at most one message, which is not a registration.
Input(m) ==
    /\ UNCHANGED <<arch, sock, id, stars, down, txShipBuff, server>>
    /\ m \in Seq(Byte) /\ GoodUp(arch, m) /\ m[2] # RegisterSession
    /\ up' = up \/ (sock = "open" /\ up' = Append(up, m))

LEMMA InputKept ==
    ASSUME IInv, NEW m, Input(m),
           canvas' \in Windows, clicked' \subseteq Points, keysPressed' \subseteq Keys
    PROVE  TypeOK' /\ Registration' /\ Messages'
<1>1. up \in Seq(Seq(Byte))
  BY DEF IInv, TypeOK
<1>2. /\ up' \in Seq(Seq(Byte))
      /\ up # <<>> => up' # <<>> /\ up'[1] = up[1]
      /\ up = <<>> => \A i \in DOMAIN up' : up'[i] = m
      /\ \A i \in DOMAIN up' : up'[i] = m \/ (i \in DOMAIN up /\ up'[i] = up[i])
  <2>1. CASE up' = up
    BY <1>1, <2>1
  <2>2. CASE up' = Append(up, m)
    <3>1. /\ Append(up, m) \in Seq(Seq(Byte)) /\ Append(up, m) # <<>>
          /\ DOMAIN Append(up, m) = DOMAIN up \cup {Len(up) + 1}
          /\ \A i \in DOMAIN up : Append(up, m)[i] = up[i]
          /\ Append(up, m)[Len(up) + 1] = m
      BY <1>1, Added DEF Input
    <3>2. up # <<>> => 1 \in DOMAIN up
      BY <1>1, Taken
    <3>3. DOMAIN <<>> = {}
      OBVIOUS
    <3> QED BY <2>2, <3>1, <3>2, <3>3
  <2> QED BY <2>1, <2>2 DEF Input
<1>3. TypeOK'
  BY <1>2 DEF IInv, TypeOK, Input, server
<1>4. Registration'
  BY <1>2 DEF IInv, Registration, Input, server
<1>5. Messages'
  BY <1>2 DEF IInv, Messages, Input, server
<1> QED BY <1>3, <1>4, <1>5

\* The cases of a message that is added, or not.
LEMMA InputAdds ==
    ASSUME IInv, NEW m, Input(m)
    PROVE  \/ up' = up
           \/ /\ DOMAIN up' = DOMAIN up \cup {Len(up) + 1}
              /\ \A i \in DOMAIN up : up'[i] = up[i] /\ i < Len(up) + 1
              /\ Len(up) + 1 \in Nat /\ up'[Len(up) + 1] = m
              /\ DOMAIN up \subseteq Nat
              /\ sock = "open"
<1>1. up \in Seq(Seq(Byte))
  BY Zenon DEF IInv, TypeOK
<1>2. CASE up' = Append(up, m) /\ sock = "open"
  <2>1. /\ DOMAIN Append(up, m) = DOMAIN up \cup {Len(up) + 1}
        /\ DOMAIN up = 1 .. Len(up) /\ Len(up) \in Nat
        /\ \A i \in DOMAIN up : Append(up, m)[i] = up[i] /\ i < Len(up) + 1
        /\ Append(up, m)[Len(up) + 1] = m
    BY <1>1, Added DEF Input
  <2>2. DOMAIN up \subseteq Nat /\ Len(up) + 1 \in Nat
    BY <2>1
  <2> QED BY <1>2, <2>1, <2>2
<1> QED BY <1>2 DEF Input

LEMMA SizesKept ==
    ASSUME IInv, NEW m, Input(m), ~HasSize(m), UNCHANGED canvas
    PROVE  Sizes'
<1>1. UNCHANGED <<canvas, window, sock>> /\ Sizes
  BY DEF IInv, Input, server
<1>2. CASE up' = up
  BY <1>1, <1>2 DEF Sizes
<1>3. CASE up' # up
  <2>1. /\ DOMAIN up' = DOMAIN up \cup {Len(up) + 1}
        /\ \A i \in DOMAIN up : up'[i] = up[i]
        /\ up'[Len(up) + 1] = m
    BY <1>3, InputAdds
  <2> QED BY <1>1, <2>1 DEF Sizes
<1> QED BY <1>2, <1>3

LEMMA ClicksKept ==
    ASSUME IInv, NEW m, Input(m), ~IsClick(m), UNCHANGED clicked
    PROVE  Clicks'
<1>1. UNCHANGED <<clicked, launched>> /\ Clicks
  BY DEF IInv, Input, server
<1>2. CASE up' = up
  BY <1>1, <1>2 DEF Clicks
<1>3. CASE up' # up
  <2>1. /\ DOMAIN up' = DOMAIN up \cup {Len(up) + 1}
        /\ \A i \in DOMAIN up : up'[i] = up[i]
        /\ up'[Len(up) + 1] = m
    BY <1>3, InputAdds
  <2> QED BY <1>1, <2>1 DEF Clicks
<1> QED BY <1>2, <1>3

LEMMA KeysKept ==
    ASSUME IInv, NEW m, Input(m), m[2] # KeyEvent, UNCHANGED keysPressed
    PROVE  KeysHeld'
<1> SUFFICES ASSUME NEW f \in Flags PROVE Held(f)'
  BY DEF KeysHeld
<1>1. UNCHANGED <<keysPressed, steer>> /\ Held(f)
  BY DEF IInv, KeysHeld, Input, server
<1>2. ~Sets(m, f) /\ ~Clears(m, f)
  BY DEF Sets, Clears
<1>3. CASE up' = up
  BY <1>1, <1>3 DEF Held, Pressed
<1>4. CASE up' # up
  <2>1. /\ DOMAIN up' = DOMAIN up \cup {Len(up) + 1}
        /\ \A i \in DOMAIN up : up'[i] = up[i]
        /\ up'[Len(up) + 1] = m
    BY <1>4, InputAdds
  <2> QED BY <1>1, <1>2, <2>1 DEF Held, Pressed
<1> QED BY <1>3, <1>4

LEMMA OnOpenOK == IInv /\ OnOpen => IInv'
<1> SUFFICES ASSUME IInv, OnOpen PROVE IInv'
  OBVIOUS
<1> DEFINE m == Sent(Claim, RegisterSession, AppVersion, canvas.w, canvas.h)
<1>1. /\ sock = "connecting" /\ sock' = "open" /\ up' = <<m>>
      /\ UNCHANGED <<arch, canvas, keysPressed, id, stars, clicked, down, txShipBuff>>
      /\ UNCHANGED <<little, keyed, window, steer, launched>>
  BY DEF OnOpen, Sent, server
<1>2. canvas \in Windows /\ up = <<>> /\ window = NoPlayer
  BY <1>1 DEF IInv, TypeOK, Registration
<1>3. /\ m \in Seq(Byte) /\ Len(m) = 8
      /\ m[1] = 171 /\ m[2] = RegisterSession
      /\ SizeIn(m) = canvas
  BY <1>2, RegisterSays
<1> HIDE DEF m
<1>4. /\ DOMAIN up' = {1} /\ up'[1] = m /\ up' # <<>> /\ up' \in Seq(Seq(Byte))
      /\ DOMAIN up = {}
  BY <1>1, <1>2, <1>3
<1>5. TypeOK'
  BY <1>1, <1>4 DEF IInv, TypeOK
<1>6. Registration'
  BY <1>1, <1>2, <1>3, <1>4 DEF IInv, Registration
<1>7. Messages'
  <2>1. ~IsClick(m)
    BY <1>3 DEF IsClick, RegisterSession, ClickEvent
  <2>2. GoodUp(arch, m)
    BY <1>2, <1>3, <2>1 DEF GoodUp, RegisterSession, KeyEvent
  <2> QED BY <1>1, <1>4, <2>2 DEF IInv, Messages
<1>8. Sizes'
  <2>1. HasSize(m)
    BY <1>3 DEF HasSize
  <2> QED BY <1>1, <1>3, <1>4, <2>1 DEF Sizes
<1>9. Clicks'
  <2>1. ~IsClick(m)
    BY <1>3 DEF IsClick, RegisterSession, ClickEvent
  <2> QED BY <1>1, <1>4, <2>1 DEF IInv, Clicks
<1>10. KeysHeld'
  <2>1. \A f \in Flags : ~Sets(m, f) /\ ~Clears(m, f)
    BY <1>3 DEF Sets, Clears, RegisterSession, KeyEvent
  <2>2. steer' = {}
    BY <1>1, <1>2 DEF IInv, Registration
  <2> QED BY <1>4, <2>1, <2>2 DEF KeysHeld, Held
<1> QED BY <1>5, <1>6, <1>7, <1>8, <1>9, <1>10 DEF IInv

LEMMA IdIsNumber == IInv => id \in [1 .. 4 -> Byte]
BY Numbers DEF IInv, TypeOK

LEMMA ResizeOK ==
    ASSUME NEW size \in Windows
    PROVE  IInv /\ on_resize(size) => IInv'
<1> SUFFICES ASSUME IInv, on_resize(size) PROVE IInv'
  OBVIOUS
<1> DEFINE m == Sent(Claim, ResizeEvent, id, size.w, size.h)
<1>1. /\ canvas' = size
      /\ UNCHANGED <<arch, sock, keysPressed, id, stars, clicked, down, txShipBuff, server>>
      /\ up' = IF sock = "open" THEN Append(up, m) ELSE up
  BY DEF on_resize, Send, Sent
<1>2. /\ m \in Seq(Byte) /\ Len(m) = 10
      /\ m[1] = 171 /\ m[2] = ResizeEvent
      /\ Read(m, 5) = size.w /\ Read(m, 7) = size.h
  <2>1. ResizeEvent \in Byte
    BY DEF ResizeEvent, Byte
  <2>2. IsPair(m, ResizeEvent, size.w, size.h)
    BY <2>1, IdIsNumber, Numbers, PairSays
  <2> HIDE DEF m
  <2> QED BY <2>2 DEF IsPair
<1> HIDE DEF m
<1>3. /\ HasSize(m) /\ ~IsClick(m) /\ m[2] # RegisterSession /\ m[2] # KeyEvent
      /\ SizeIn(m) = size
  BY <1>2, Numbers DEF HasSize, IsClick, SizeIn, RegisterSession, ClickEvent, KeyEvent, ResizeEvent
<1>4. Input(m)
  BY <1>1, <1>2, <1>3 DEF Input, GoodUp
<1>5. TypeOK' /\ Registration' /\ Messages'
  <2>1. canvas' \in Windows /\ clicked' \subseteq Points /\ keysPressed' \subseteq Keys
    BY <1>1 DEF IInv, TypeOK
  <2> QED BY <1>4, <2>1, InputKept
<1>6. Sizes'
  <2>1. CASE sock = "connecting"
    <3>1. up' = <<>> /\ sock' = "connecting"
      BY <1>1, <2>1 DEF IInv, Registration
    <3>2. DOMAIN up' = {}
      BY <3>1
    <3> QED BY <3>1, <3>2 DEF Sizes
  <2>2. CASE sock = "open"
    <3>1. up \in Seq(Seq(Byte)) /\ up' = Append(up, m)
      BY <1>1, <2>2 DEF IInv, TypeOK
    <3>2. /\ DOMAIN up' = DOMAIN up \cup {Len(up) + 1}
          /\ DOMAIN up \subseteq Nat /\ Len(up) + 1 \in Nat
          /\ \A i \in DOMAIN up : up'[i] = up[i] /\ i < Len(up) + 1
          /\ up'[Len(up) + 1] = m
      BY <1>2, <3>1, Added
    <3>3. HasSize(up'[Len(up) + 1]) /\ SizeIn(up'[Len(up) + 1]) = canvas'
      BY <1>1, <1>3, <3>2
    <3>4. \A i \in DOMAIN up' : i = Len(up) + 1 \/ Len(up) + 1 > i
      BY <3>2
    <3> QED BY <3>2, <3>3, <3>4 DEF Sizes
  <2> QED BY <2>1, <2>2 DEF IInv, TypeOK
<1>7. Clicks'
  BY <1>1, <1>3, <1>4, ClicksKept
<1>8. KeysHeld'
  BY <1>1, <1>3, <1>4, KeysKept
<1> QED BY <1>5, <1>6, <1>7, <1>8 DEF IInv

LEMMA ClickOK ==
    ASSUME NEW p \in Points
    PROVE  IInv /\ on_click(p) => IInv'
<1> SUFFICES ASSUME IInv, on_click(p) PROVE IInv'
  OBVIOUS
<1> DEFINE m == Sent(Claim, ClickEvent, id, p.x, p.y)
<1>1. /\ UNCHANGED <<arch, sock, canvas, keysPressed, id, stars, down, txShipBuff, server>>
      /\ up' = IF sock = "open" THEN Append(up, m) ELSE up
      /\ clicked' = IF sock = "open" THEN clicked \cup {p} ELSE clicked
  BY DEF on_click, Send, Sent
<1>2. /\ m \in Seq(Byte) /\ Len(m) = 10
      /\ m[1] = 171 /\ m[2] = ClickEvent
      /\ Read(m, 5) = p.x /\ Read(m, 7) = p.y
  <2>1. ClickEvent \in Byte
    BY DEF ClickEvent, Byte
  <2>2. IsPair(m, ClickEvent, p.x, p.y)
    BY <2>1, IdIsNumber, Numbers, PairSays
  <2> HIDE DEF m
  <2> QED BY <2>2 DEF IsPair
<1> HIDE DEF m
<1>3. /\ ~HasSize(m) /\ IsClick(m) /\ m[2] # RegisterSession /\ m[2] # KeyEvent
      /\ ClickIn(m) = p
  BY <1>2, Numbers DEF HasSize, IsClick, ClickIn, RegisterSession, ClickEvent, KeyEvent, ResizeEvent
<1>4. Input(m)
  BY <1>1, <1>2, <1>3 DEF Input, GoodUp
<1>5. TypeOK' /\ Registration' /\ Messages'
  <2>1. canvas' \in Windows /\ clicked' \subseteq Points /\ keysPressed' \subseteq Keys
    BY <1>1 DEF IInv, TypeOK
  <2> QED BY <1>4, <2>1, InputKept
<1>6. Sizes'
  BY <1>1, <1>3, <1>4, SizesKept
<1>7. Clicks'
  <2>1. CASE sock # "open"
    BY <1>1, <2>1 DEF IInv, Clicks, server
  <2>2. CASE sock = "open"
    <3>1. up \in Seq(Seq(Byte)) /\ up' = Append(up, m)
      BY <1>1, <2>2 DEF IInv, TypeOK
    <3>2. /\ DOMAIN up' = DOMAIN up \cup {Len(up) + 1}
          /\ \A i \in DOMAIN up : up'[i] = up[i]
          /\ up'[Len(up) + 1] = m
      BY <1>2, <3>1, Added
    <3>3. clicked' = clicked \cup {p} /\ UNCHANGED launched
      BY <1>1, <2>2 DEF server
    <3> QED BY <1>3, <3>2, <3>3 DEF IInv, Clicks
  <2> QED BY <2>1, <2>2
<1>8. KeysHeld'
  BY <1>1, <1>3, <1>4, KeysKept
<1> QED BY <1>5, <1>6, <1>7, <1>8 DEF IInv

\* A key's message is no other.
LEMMA KeySays ==
    ASSUME IInv, NEW key \in Keys, NEW isDown \in {0, 1}
    PROVE  LET m == <<ClaimOfKeys, KeyEvent, isDown, key>> IN
           /\ m \in Seq(Byte) /\ GoodUp(arch, m)
           /\ m[2] = KeyEvent /\ m[3] = isDown /\ m[4] = key
           /\ m[2] # RegisterSession /\ ~HasSize(m) /\ ~IsClick(m)
<1> DEFINE m == <<ClaimOfKeys, KeyEvent, isDown, key>>
<1>1. /\ ClaimOfKeys \in Byte
      /\ ClaimOfKeys = 171 <=> arch # "big"
      /\ KeyEvent \in Byte /\ isDown \in Byte /\ key \in Byte
  <2>1. ClaimOfKeys \in 0 .. 255 /\ (ClaimOfKeys = 171 <=> arch # "big")
    BY DEF ClaimOfKeys, IInv, TypeOK
  <2>2. KeyEvent \in 0 .. 255 /\ isDown \in 0 .. 255
    BY DEF KeyEvent
  <2> QED BY <2>1, <2>2, MessagesAssumption DEF Byte
<1>2. /\ m \in Seq(Byte) /\ Len(m) = 4 /\ m[1] = ClaimOfKeys
      /\ m[2] = KeyEvent /\ m[3] = isDown /\ m[4] = key
  <2>1. Len(m) = 4 /\ m[1] = ClaimOfKeys
    OBVIOUS
  <2>2. m[2] = KeyEvent /\ m[3] = isDown /\ m[4] = key
    OBVIOUS
  <2>3. m \in Seq(Byte)
    BY <1>1
  <2> QED BY <2>1, <2>2, <2>3
<1> HIDE DEF m
<1>3. m[2] # RegisterSession /\ ~HasSize(m) /\ ~IsClick(m)
  BY <1>2 DEF HasSize, IsClick, RegisterSession, ClickEvent, KeyEvent, ResizeEvent
<1>4. GoodUp(arch, m)
  BY <1>1, <1>2, <1>3 DEF GoodUp
<1> QED BY <1>2, <1>3, <1>4 DEF m

LEMMA KeydownOK ==
    ASSUME NEW key \in Keys, NEW repeat \in BOOLEAN
    PROVE  IInv /\ on_keydown(key, repeat) => IInv'
<1> SUFFICES ASSUME IInv, on_keydown(key, repeat) PROVE IInv'
  OBVIOUS
<1> DEFINE m == <<ClaimOfKeys, KeyEvent, 1, key>>
<1>1. /\ UNCHANGED <<arch, sock, canvas, id, stars, clicked, down, txShipBuff, server>>
      /\ keysPressed' = keysPressed \cup {key}
      /\ up' = up \/ (sock = "open" /\ up' = Append(up, m))
  BY DEF on_keydown, ProcessKeyEvent, Send
<1>2. /\ m \in Seq(Byte) /\ GoodUp(arch, m)
      /\ m[2] = KeyEvent /\ m[3] = 1 /\ m[4] = key
      /\ m[2] # RegisterSession /\ ~HasSize(m) /\ ~IsClick(m)
  BY KeySays
<1> HIDE DEF m
<1>3. Input(m)
  BY <1>1, <1>2 DEF Input
<1>4. TypeOK' /\ Registration' /\ Messages'
  <2>1. canvas' \in Windows /\ clicked' \subseteq Points /\ keysPressed' \subseteq Keys
    BY <1>1 DEF IInv, TypeOK
  <2> QED BY <1>3, <2>1, InputKept
<1>5. Sizes'
  BY <1>1, <1>2, <1>3, SizesKept
<1>6. Clicks'
  BY <1>1, <1>2, <1>3, ClicksKept
<1>7. ASSUME NEW f \in Flags PROVE Held(f)'
  <2>1. Held(f) /\ UNCHANGED steer
    BY <1>1 DEF IInv, KeysHeld, server
  <2>2. Pressed(f) => Pressed(f)'
    BY <1>1 DEF Pressed
  <2>3. ~Clears(m, f) /\ (Sets(m, f) => Pressed(f)')
    BY <1>1, <1>2 DEF Clears, Sets, Pressed
  <2>4. CASE up' = up
    BY <2>1, <2>2, <2>4 DEF Held
  <2>5. CASE up' # up
    <3>1. /\ DOMAIN up' = DOMAIN up \cup {Len(up) + 1}
          /\ \A i \in DOMAIN up : up'[i] = up[i]
          /\ up'[Len(up) + 1] = m
      BY <1>3, <2>5, InputAdds
    <3> QED BY <2>1, <2>2, <2>3, <3>1 DEF Held
  <2> QED BY <2>4, <2>5
<1> QED BY <1>4, <1>5, <1>6, <1>7 DEF IInv, KeysHeld

LEMMA KeyupOK ==
    ASSUME NEW key \in Keys
    PROVE  IInv /\ on_keyup(key) => IInv'
<1> SUFFICES ASSUME IInv, on_keyup(key) PROVE IInv'
  OBVIOUS
<1> DEFINE m == <<ClaimOfKeys, KeyEvent, 0, key>>
<1>1. /\ UNCHANGED <<arch, sock, canvas, id, stars, clicked, down, txShipBuff, server>>
      /\ keysPressed' = keysPressed \ {key}
      /\ up' = IF sock = "open" THEN Append(up, m) ELSE up
  BY DEF on_keyup, ProcessKeyEvent, Send
<1>2. /\ m \in Seq(Byte) /\ GoodUp(arch, m)
      /\ m[2] = KeyEvent /\ m[3] = 0 /\ m[4] = key
      /\ m[2] # RegisterSession /\ ~HasSize(m) /\ ~IsClick(m)
  BY KeySays
<1> HIDE DEF m
<1>3. Input(m)
  BY <1>1, <1>2 DEF Input
<1>4. TypeOK' /\ Registration' /\ Messages'
  <2>1. canvas' \in Windows /\ clicked' \subseteq Points /\ keysPressed' \subseteq Keys
    BY <1>1 DEF IInv, TypeOK
  <2> QED BY <1>3, <2>1, InputKept
<1>5. Sizes'
  BY <1>1, <1>2, <1>3, SizesKept
<1>6. Clicks'
  BY <1>1, <1>2, <1>3, ClicksKept
<1>7. ASSUME NEW f \in Flags PROVE Held(f)'
  <2>1. Held(f) /\ UNCHANGED steer
    BY <1>1 DEF IInv, KeysHeld, server
  <2>2. Flag(key) # f => (Pressed(f) => Pressed(f)')
    BY <1>1 DEF Pressed
  <2>3. ~Sets(m, f) /\ (Clears(m, f) <=> Flag(key) = f)
    BY <1>2 DEF Clears, Sets
  <2>4. CASE sock = "connecting"
    <3>1. up' = <<>> /\ steer' = {}
      BY <1>1, <2>1, <2>4 DEF IInv, Registration
    <3>2. DOMAIN up' = {}
      BY <3>1
    <3> QED BY <3>1, <3>2 DEF Held
  <2>5. CASE sock = "open"
    <3>1. up \in Seq(Seq(Byte)) /\ up' = Append(up, m)
      BY <1>1, <2>5 DEF IInv, TypeOK
    <3>2. /\ DOMAIN up' = DOMAIN up \cup {Len(up) + 1}
          /\ \A i \in DOMAIN up : up'[i] = up[i] /\ Len(up) + 1 > i
          /\ up'[Len(up) + 1] = m
      <4>1. /\ DOMAIN up' = DOMAIN up \cup {Len(up) + 1}
            /\ DOMAIN up = 1 .. Len(up) /\ Len(up) \in Nat
            /\ \A i \in DOMAIN up : up'[i] = up[i]
            /\ up'[Len(up) + 1] = m
        BY <1>2, <3>1, Added
      <4> QED BY <4>1
    <3>3. CASE Flag(key) = f
      BY <2>3, <3>2, <3>3 DEF Held
    <3>4. CASE Flag(key) # f
      BY <2>1, <2>2, <2>3, <3>2, <3>4 DEF Held
    <3> QED BY <3>3, <3>4
  <2> QED BY <2>4, <2>5 DEF IInv, TypeOK
<1> QED BY <1>4, <1>5, <1>6, <1>7 DEF IInv, KeysHeld

LEMMA HandleMessageOK == IInv /\ HandleMessageEvent => IInv'
<1> SUFFICES ASSUME IInv, HandleMessageEvent PROVE IInv'
  OBVIOUS
<1> DEFINE S == Message
           m == Head(down).bytes
<1>1. /\ down # <<>> /\ down' = Tail(down)
      /\ id' = NumbersRead(m)[1][1]
      /\ IF m[2] = SessionRegistered THEN stars' = stars \o ReadStars(m) ELSE UNCHANGED stars
      /\ UNCHANGED <<arch, sock, canvas, keysPressed, clicked, up, txShipBuff, server>>
  <2>1. OnSessionRegistered(m).stars = ReadStars(m)
    BY DEF OnSessionRegistered
  <2>2. CASE m[2] = SessionRegistered
    BY <2>1, <2>2 DEF HandleMessageEvent, NumbersRead
  <2>3. CASE m[2] # SessionRegistered
    BY <2>3 DEF HandleMessageEvent, NumbersRead
  <2> QED BY <2>2, <2>3
<1>2. down \in Seq(S)
  BY DEF IInv, TypeOK, Message
<1>3. /\ Head(down) = down[1] /\ 1 \in DOMAIN down
      /\ Tail(down) \in Seq(S)
      /\ DOMAIN Tail(down) = 1 .. Len(down) - 1 /\ Len(down) \in Nat
      /\ \A i \in DOMAIN Tail(down) : Tail(down)[i] = down[i + 1] /\ i + 1 \in DOMAIN down
  <2> HIDE DEF S
  <2> QED BY <1>1, <1>2, Taken
<1> HIDE DEF m
<1>4. m = down[1].bytes
  BY <1>3 DEF m
<1>5. GoodDown(arch, down[1]) /\ (m[2] = SessionRegistered => stars = <<>>)
  BY <1>3, <1>4 DEF IInv, Messages, Registration
<1>6. /\ NumbersRead(m)[1][1] \in {SessionID, Reverse(SessionID)}
      /\ m[2] = SessionRegistered => DOMAIN ReadStars(m) = 1 .. Len(Stars) \div 2
  BY <1>4, <1>5 DEF GoodDown
<1>7. window # NoPlayer
  BY <1>1 DEF IInv, Registration
<1>8. m[2] = SessionRegistered => stars \o ReadStars(m) = ReadStars(m)
  BY <1>5, <1>6, StarsRead
<1>9. TypeOK'
  <2>1. Len(stars') \in {0, Len(Stars) \div 2}
    <3>1. CASE m[2] = SessionRegistered
      <4>1. stars' = ReadStars(m)
        BY <1>1, <1>8, <3>1
      <4>2. Len(ReadStars(m)) = Len(Stars) \div 2
        BY <1>6, <3>1, StarsRead
      <4> QED BY <4>1, <4>2
    <3>2. CASE m[2] # SessionRegistered
      BY <1>1, <3>2 DEF IInv, TypeOK
    <3> QED BY <3>1, <3>2
  <2>2. down' \in Seq(S)
    BY <1>1, <1>3
  <2> QED BY <1>1, <1>6, <2>1, <2>2 DEF IInv, TypeOK, Message, server
<1>10. Registration'
  <2>1. ASSUME NEW i \in DOMAIN Tail(down)
        PROVE  Tail(down)[i].bytes[2] # SessionRegistered
    <3>1. Tail(down)[i] = down[i + 1] /\ i + 1 \in DOMAIN down /\ i + 1 # 1
      BY <1>3
    <3> QED BY <3>1 DEF IInv, Registration
  <2> QED BY <1>1, <1>7, <2>1 DEF IInv, Registration, server
<1>11. Messages'
  BY <1>1, <1>3 DEF IInv, Messages, server
<1>12. Sizes' /\ Clicks' /\ KeysHeld'
  BY <1>1 DEF IInv, Sizes, Clicks, KeysHeld, Held, Pressed, server
<1> QED BY <1>9, <1>10, <1>11, <1>12 DEF IInv

\* What the server takes from the first message on its way.
LEMMA HeadSays ==
    ASSUME IInv, up # <<>>
    PROVE  LET m == Head(up) IN
           /\ m = up[1] /\ m \in Seq(Byte) /\ GoodUp(arch, m)
           /\ Tail(m)[1] = m[2] /\ Tail(m)[2] = m[3] /\ Tail(m)[3] = m[4]
           /\ Tail(up) \in Seq(Seq(Byte))
           /\ 1 \in DOMAIN up
           /\ \A i \in DOMAIN Tail(up) :
                 Tail(up)[i] = up[i + 1] /\ i + 1 \in DOMAIN up /\ i \in Nat /\ i + 1 # 1
           /\ \A i \in DOMAIN up :
                 i \in Nat /\ (i # 1 => i - 1 \in DOMAIN Tail(up) /\ up[i] = Tail(up)[i - 1])
<1>1. up \in Seq(Seq(Byte))
  BY DEF IInv, TypeOK
<1>2. /\ Head(up) = up[1] /\ Head(up) \in Seq(Byte) /\ 1 \in DOMAIN up
      /\ Tail(up) \in Seq(Seq(Byte))
      /\ DOMAIN up = 1 .. Len(up) /\ DOMAIN Tail(up) = 1 .. Len(up) - 1
      /\ Len(up) \in Nat \ {0}
      /\ \A i \in DOMAIN Tail(up) : Tail(up)[i] = up[i + 1] /\ i + 1 \in DOMAIN up
      /\ \A i \in DOMAIN up :
            i # 1 => i - 1 \in DOMAIN Tail(up) /\ up[i] = Tail(up)[i - 1]
  BY <1>1, Taken
<1>3. \A i \in DOMAIN Tail(up) : i \in Nat /\ i + 1 # 1
  BY <1>2
<1>4. \A i \in DOMAIN up : i \in Nat
  BY <1>2
<1>5. GoodUp(arch, Head(up)) /\ Len(Head(up)) >= 4
  BY <1>2 DEF IInv, Messages, GoodUp
<1>6. /\ Tail(Head(up))[1] = Head(up)[2] /\ Tail(Head(up))[2] = Head(up)[3]
      /\ Tail(Head(up))[3] = Head(up)[4]
  <2> DEFINE m == Head(up)
  <2>1. m \in Seq(Byte) /\ Len(m) >= 4 /\ Len(m) \in Nat /\ m # <<>>
    BY <1>2, <1>5, LenProperties, EmptySeq
  <2> HIDE DEF m
  <2>2. /\ DOMAIN Tail(m) = 1 .. Len(m) - 1
        /\ \A i \in DOMAIN Tail(m) : Tail(m)[i] = m[i + 1]
    BY <2>1, Taken
  <2> DEFINE t == Tail(m)
  <2> HIDE DEF t
  <2>3. DOMAIN t = 1 .. Len(m) - 1 /\ \A i \in DOMAIN t : t[i] = m[i + 1]
    BY <2>2 DEF t
  <2>4. t[1] = m[2] /\ t[2] = m[3] /\ t[3] = m[4]
    BY <2>1, <2>3
  <2> QED BY <2>4 DEF m, t
<1> QED BY <1>2, <1>3, <1>4, <1>5, <1>6

\* The message is taken, and the server's state follows it.
Handled(m) ==
    /\ up # <<>> /\ m = Head(up) /\ up' = Tail(up)
    /\ UNCHANGED <<arch, sock, canvas, keysPressed, id, stars, clicked, txShipBuff>>
    /\ little' = (m[1] = 171)
    /\ keyed' = (m[2] = KeyEvent)
    /\ window' = IF HasSize(m) THEN SizeIn(m) ELSE window
    /\ launched' = IF IsClick(m) THEN launched \cup {ClickIn(m)} ELSE launched
    /\ \/ /\ m[2] = RegisterSession
          /\ steer' = {}
          /\ \E d \in Message :
                /\ down' = Append(down, d)
                /\ GoodDown(arch, d) /\ d.bytes[2] = SessionRegistered
       \/ /\ m[2] # RegisterSession
          /\ UNCHANGED down
          /\ steer' = IF m[2] # KeyEvent THEN steer
                      ELSE IF m[3] # 0 THEN steer \cup ({Flag(m[4])} \ {"none"})
                      ELSE steer \ {Flag(m[4])}

LEMMA CommsHandled == IInv /\ CommsHandler => Handled(Head(up))
<1> SUFFICES ASSUME IInv, CommsHandler PROVE Handled(Head(up))
  OBVIOUS
<1> DEFINE m == Head(up)
           rx == Tail(m)
           le == m[1] = 171
<1>1. /\ up # <<>> /\ up' = Tail(up)
      /\ UNCHANGED <<arch, sock, canvas, keysPressed, id, stars, clicked, txShipBuff>>
      /\ little' = le /\ keyed' = (rx[1] = KeyEvent)
      /\ \/ rx[1] = RegisterSession /\ HandleNewSession(rx, le)
         \/ rx[1] = KeyEvent /\ HandleKeyEvent(rx)
         \/ rx[1] = ClickEvent /\ HandleClickEvent(rx, le)
         \/ rx[1] = ResizeEvent /\ HandleResizeEvent(rx, le)
  BY DEF CommsHandler, browser
<1>2. /\ m = up[1] /\ m \in Seq(Byte) /\ GoodUp(arch, m) /\ 1 \in DOMAIN up
      /\ rx[1] = m[2] /\ rx[2] = m[3] /\ rx[3] = m[4]
  BY <1>1, HeadSays
<1>3. sock = "open"
  BY <1>1 DEF IInv, TypeOK, Registration
<1>4. m[2] # RegisterSession => window # NoPlayer
  BY <1>2, <1>3 DEF IInv, Registration
<1>5. \A o : Get(rx, le, o, 2) = Read(m, o)
  BY DEF Read
<1>6. m = Head(up)
  OBVIOUS
<1> HIDE DEF m, rx, le
<1>7. CASE rx[1] = RegisterSession /\ HandleNewSession(rx, le)
  <2>1. m[2] = RegisterSession /\ HasSize(m) /\ ~IsClick(m) /\ m[2] # KeyEvent
    BY <1>2, <1>7 DEF HasSize, IsClick, RegisterSession, ClickEvent, KeyEvent
  <2>2. window' = SizeIn(m) /\ steer' = {} /\ UNCHANGED launched
    BY <1>5, <1>7, <2>1 DEF HandleNewSession, SizeIn
  <2>3. le = TRUE
    BY <1>2, <2>1 DEF GoodUp, le
  <2> DEFINE d == Registered(le)
  <2>4. d \in Message /\ GoodDown(arch, d) /\ d.bytes[2] = SessionRegistered
    BY <2>3, RegisteredIsGood DEF IsGood
  <2>5. down' = Append(down, d)
    BY <1>7 DEF HandleNewSession
  <2> HIDE DEF d
  <2> QED BY <1>1, <1>2, <1>6, <2>1, <2>2, <2>3, <2>4, <2>5 DEF Handled, le
<1>8. CASE rx[1] = KeyEvent /\ HandleKeyEvent(rx)
  <2>1. /\ m[2] = KeyEvent /\ ~HasSize(m) /\ ~IsClick(m) /\ m[2] # RegisterSession
    BY <1>2, <1>8 DEF HasSize, IsClick, RegisterSession, ClickEvent, KeyEvent, ResizeEvent
  <2>2. /\ UNCHANGED <<window, launched, down>>
        /\ steer' = IF m[3] # 0 THEN steer \cup ({Flag(m[4])} \ {"none"})
                    ELSE steer \ {Flag(m[4])}
    BY <1>2, <1>4, <1>8, <2>1 DEF HandleKeyEvent
  <2> QED BY <1>1, <1>2, <1>6, <2>1, <2>2 DEF Handled, le
<1>9. CASE rx[1] = ClickEvent /\ HandleClickEvent(rx, le)
  <2>1. /\ m[2] # KeyEvent /\ ~HasSize(m) /\ IsClick(m) /\ m[2] # RegisterSession
    BY <1>2, <1>9 DEF HasSize, IsClick, RegisterSession, ClickEvent, KeyEvent, ResizeEvent
  <2>2. UNCHANGED <<window, steer, down>> /\ launched' = launched \cup {ClickIn(m)}
    BY <1>4, <1>5, <1>9, <2>1 DEF HandleClickEvent, ClickIn
  <2> QED BY <1>1, <1>2, <1>6, <2>1, <2>2 DEF Handled, le
<1>10. CASE rx[1] = ResizeEvent /\ HandleResizeEvent(rx, le)
  <2>1. /\ m[2] # KeyEvent /\ HasSize(m) /\ ~IsClick(m) /\ m[2] # RegisterSession
    BY <1>2, <1>10 DEF HasSize, IsClick, RegisterSession, ClickEvent, KeyEvent, ResizeEvent
  <2>2. UNCHANGED <<steer, launched, down>> /\ window' = SizeIn(m)
    BY <1>4, <1>5, <1>10, <2>1 DEF HandleResizeEvent, SizeIn
  <2> QED BY <1>1, <1>2, <1>6, <2>1, <2>2 DEF Handled, le
<1> QED BY <1>1, <1>7, <1>8, <1>9, <1>10 DEF m

LEMMA CommsHandlerOK == IInv /\ CommsHandler => IInv'
<1> SUFFICES ASSUME IInv, CommsHandler PROVE IInv'
  OBVIOUS
<1> DEFINE m == Head(up)
           t == Tail(up)
           S == Message
<1>1. Handled(m)
  BY CommsHandled
<1>2. /\ m = up[1] /\ m \in Seq(Byte) /\ GoodUp(arch, m) /\ 1 \in DOMAIN up
      /\ t \in Seq(Seq(Byte))
      /\ \A i \in DOMAIN t : t[i] = up[i + 1] /\ i + 1 \in DOMAIN up /\ i \in Nat /\ i + 1 # 1
      /\ \A i \in DOMAIN up : i \in Nat /\ (i # 1 => i - 1 \in DOMAIN t /\ up[i] = t[i - 1])
  BY <1>1, HeadSays DEF Handled
<1>3. up' = t
  BY <1>1 DEF Handled
<1> HIDE DEF m, t
<1>4. /\ sock = "open" /\ sock' = "open"
      /\ UNCHANGED <<arch, canvas, clicked, keysPressed, stars, id, txShipBuff>>
  BY <1>1 DEF IInv, TypeOK, Registration, Handled
<1>5. m[2] = RegisterSession \/ window # NoPlayer
  BY <1>1, <1>2, <1>4 DEF IInv, Registration
<1>6. window' \in Windows /\ window' # NoPlayer
  <2>1. HasSize(m) => SizeIn(m) \in Windows
    BY <1>2 DEF GoodUp
  <2>2. m[2] = RegisterSession => HasSize(m)
    BY DEF HasSize
  <2>3. window' = IF HasSize(m) THEN SizeIn(m) ELSE window
    BY <1>1 DEF Handled
  <2>4. ~HasSize(m) => window \in Windows
    BY <1>5, <2>2 DEF IInv, TypeOK
  <2> QED BY <2>1, <2>3, <2>4, Numbers
<1>7. launched' \subseteq Points
  <2>1. IsClick(m) => ClickIn(m) \in Points
    BY <1>2 DEF GoodUp
  <2> QED BY <1>1, <2>1 DEF IInv, TypeOK, Handled
<1>8. steer' \subseteq Flags
  <2>1. \A key : Flag(key) \in Flags \cup {"none"}
    BY DEF Flag, Flags
  <2>2. steer \subseteq Flags
    BY DEF IInv, TypeOK
  <2> QED BY <1>1, <2>1, <2>2 DEF Handled
<1>9. /\ down' \in Seq(S)
      /\ \A i \in DOMAIN down' :
            /\ GoodDown(arch, down'[i])
            /\ down'[i].bytes[2] = SessionRegistered => i = 1 /\ stars = <<>>
  <2>1. down \in Seq(S)
    BY DEF IInv, TypeOK, Message
  <2>2. CASE UNCHANGED down
    BY <1>4, <2>1, <2>2 DEF IInv, Registration, Messages
  <2>3. CASE ~UNCHANGED down
    <3>1. PICK d \in S : /\ down' = Append(down, d)
                         /\ GoodDown(arch, d) /\ d.bytes[2] = SessionRegistered
      BY <1>1, <2>3 DEF Handled
    <3>2. m[2] = RegisterSession
      BY <1>1, <2>3 DEF Handled
    <3>3. down = <<>> /\ stars = <<>>
      BY <1>2, <3>2 DEF IInv, Registration
    <3> HIDE DEF S
    <3>4. /\ down' \in Seq(S)
          /\ DOMAIN down' = DOMAIN down \cup {Len(down) + 1} /\ down'[Len(down) + 1] = d
      BY <2>1, <3>1, Added
    <3>5. DOMAIN down = {} /\ Len(down) = 0
      BY <3>3
    <3> QED BY <3>1, <3>3, <3>4, <3>5
  <2> QED BY <2>2, <2>3
<1>10. TypeOK'
  <2>1. little' \in BOOLEAN /\ keyed' \in BOOLEAN
    BY <1>1 DEF Handled
  <2> QED BY <1>2, <1>3, <1>4, <1>6, <1>7, <1>8, <1>9, <2>1 DEF IInv, TypeOK, Message
<1>11. Registration'
  <2>1. \A i \in DOMAIN t : t[i][2] # RegisterSession
    BY <1>2 DEF IInv, Registration
  <2> QED BY <1>3, <1>4, <1>6, <1>9, <2>1 DEF Registration
<1>12. Messages'
  <2>1. \A i \in DOMAIN t : GoodUp(arch, t[i])
    BY <1>2 DEF IInv, Messages
  <2>2. little' = Order(arch, keyed')
    BY <1>1, <1>2 DEF Handled, GoodUp, Order
  <2>3. txShipBuff # NoBuffer =>
            \E s \in Ships, k \in BOOLEAN : txShipBuff = ShipBuffer(Order(arch, k), s, k)
    BY DEF IInv, Messages
  <2> QED BY <1>3, <1>4, <1>9, <2>1, <2>2, <2>3 DEF Messages
<1>13. Sizes'
  <2>1. ASSUME NEW i \in DOMAIN t, HasSize(t[i]),
               \A j \in DOMAIN t : j > i => ~HasSize(t[j])
        PROVE  SizeIn(t[i]) = canvas
    <3>1. i + 1 \in DOMAIN up /\ up[i + 1] = t[i] /\ i \in Nat
      BY <1>2
    <3>2. ASSUME NEW j \in DOMAIN up, j > i + 1
          PROVE  ~HasSize(up[j])
      <4>1. j \in Nat /\ j # 1 /\ j - 1 > i
        BY <1>2, <3>1, <3>2, SMTT(30)
      <4> QED BY <1>2, <2>1, <4>1
    <3> QED BY <2>1, <3>1, <3>2 DEF IInv, Sizes
  <2>2. ASSUME \A i \in DOMAIN t : ~HasSize(t[i])
        PROVE  window' = canvas
    <3>1. \A j \in DOMAIN up : j # 1 => ~HasSize(up[j])
      BY <1>2, <2>2
    <3>2. CASE HasSize(m)
      <4>1. \A j \in DOMAIN up : j > 1 => ~HasSize(up[j])
        BY <1>2, <3>1
      <4>2. SizeIn(m) = canvas
        BY <1>2, <3>2, <4>1 DEF IInv, Sizes
      <4> QED BY <1>1, <3>2, <4>2 DEF Handled
    <3>3. CASE ~HasSize(m)
      <4>1. \A j \in DOMAIN up : ~HasSize(up[j])
        BY <1>2, <3>1, <3>3
      <4>2. window = canvas
        BY <1>4, <4>1 DEF IInv, Sizes
      <4> QED BY <1>1, <3>3, <4>2 DEF Handled
    <3> QED BY <3>2, <3>3
  <2> QED BY <1>3, <1>4, <2>1, <2>2 DEF Sizes
<1>14. Clicks'
  <2>1. launched' = IF IsClick(m) THEN launched \cup {ClickIn(m)} ELSE launched
    BY <1>1 DEF Handled
  <2>2. IsClick(m) => ClickIn(m) \in clicked
    BY <1>2 DEF IInv, Clicks
  <2>3. launched' \subseteq clicked
    BY <2>1, <2>2 DEF IInv, Clicks
  <2>4. \A i \in DOMAIN t : IsClick(t[i]) => ClickIn(t[i]) \in clicked
    BY <1>2 DEF IInv, Clicks
  <2>5. ASSUME NEW p \in clicked, p \notin launched'
        PROVE  \E i \in DOMAIN t : IsClick(t[i]) /\ ClickIn(t[i]) = p
    <3>1. p \notin launched
      BY <2>1, <2>5
    <3>2. PICK i \in DOMAIN up : IsClick(up[i]) /\ ClickIn(up[i]) = p
      BY <3>1 DEF IInv, Clicks
    <3>3. i # 1
      BY <1>2, <2>1, <2>5, <3>2
    <3> QED BY <1>2, <3>2, <3>3
  <2> QED BY <1>3, <1>4, <2>3, <2>4, <2>5 DEF Clicks
<1>15. ASSUME NEW f \in Flags PROVE Held(f)'
  <2>1. Held(f) /\ (Pressed(f) <=> Pressed(f)')
    BY <1>4 DEF IInv, KeysHeld, Pressed
  <2>2. ASSUME NEW i \in DOMAIN t, Sets(t[i], f),
               \A j \in DOMAIN t : j > i => ~Clears(t[j], f)
        PROVE  Pressed(f)
    <3>1. i + 1 \in DOMAIN up /\ up[i + 1] = t[i] /\ i \in Nat
      BY <1>2
    <3>2. ASSUME NEW j \in DOMAIN up, j > i + 1
          PROVE  ~Clears(up[j], f)
      <4>1. j \in Nat /\ j # 1 /\ j - 1 > i
        BY <1>2, <3>1, <3>2
      <4> QED BY <1>2, <2>2, <4>1
    <3> QED BY <2>1, <2>2, <3>1, <3>2 DEF Held
  <2>3. ASSUME f \in steer', \A i \in DOMAIN t : ~Clears(t[i], f)
        PROVE  Pressed(f)
    <3>1. \A j \in DOMAIN up : j # 1 => ~Clears(up[j], f)
      BY <1>2, <2>3
    <3>2. CASE Sets(m, f)
      <4>1. \A j \in DOMAIN up : j > 1 => ~Clears(up[j], f)
        BY <1>2, <3>1
      <4> QED BY <1>2, <2>1, <3>2, <4>1 DEF Held
    <3>3. CASE ~Sets(m, f)
      <4>1. f \in steer /\ ~Clears(m, f)
        BY <1>1, <2>3, <3>3 DEF Handled, Sets, Clears
      <4>2. \A j \in DOMAIN up : ~Clears(up[j], f)
        BY <1>2, <3>1, <4>1
      <4> QED BY <2>1, <4>1, <4>2 DEF Held
    <3> QED BY <3>2, <3>3
  <2> QED BY <1>3, <2>1, <2>2, <2>3 DEF Held
<1> QED BY <1>10, <1>11, <1>12, <1>13, <1>14, <1>15 DEF IInv, KeysHeld

LEMMA MakeShipBufferOK == IInv /\ MakeShipBuffer => IInv'
<1> SUFFICES ASSUME IInv, MakeShipBuffer PROVE IInv'
  OBVIOUS
<1>1. PICK s \in Ships : txShipBuff' = ShipBuffer(little, s, keyed)
  BY DEF MakeShipBuffer
<1>2. /\ window # NoPlayer
      /\ UNCHANGED <<arch, sock, canvas, keysPressed, id, stars, clicked, up, down>>
      /\ UNCHANGED <<little, keyed, window, steer, launched>>
  BY DEF MakeShipBuffer, browser, server
<1>3. little = Order(arch, keyed) /\ little \in BOOLEAN /\ keyed \in BOOLEAN
  BY DEF IInv, TypeOK, Messages
<1>4. txShipBuff' \in [bytes : Seq(Byte), part : Parts]
  <2>1. ShipBuffer(little, s, keyed).bytes \in Seq(Byte)
    BY <1>3, ShipBytes DEF ShipSays
  <2>2. <<s.x, s.y, s.angle, s.flags, s.lives, NoBullets>> \in Seq(Seq(Byte))
    <3>1. /\ s.x \in Seq(Byte) /\ s.y \in Seq(Byte) /\ s.angle \in Seq(Byte)
          /\ s.flags \in Seq(Byte) /\ s.lives \in Seq(Byte) /\ NoBullets \in Seq(Byte)
      BY PlayerNumbers, FunIsSeq, ShortIsSeq
    <3> QED BY <3>1
  <2>3. ShipBuffer(little, s, keyed).part \in Parts
    BY <1>3, <2>2 DEF ShipBuffer, Part, Parts
  <2>4. ShipBuffer(little, s, keyed) =
            [bytes |-> ShipBuffer(little, s, keyed).bytes,
             part |-> ShipBuffer(little, s, keyed).part]
    BY DEF ShipBuffer
  <2> QED BY <1>1, <2>1, <2>3, <2>4
<1>5. TypeOK'
  BY <1>2, <1>4 DEF IInv, TypeOK
<1>6. Registration'
  BY <1>2 DEF IInv, Registration
<1>7. Messages'
  BY <1>1, <1>2, <1>3 DEF IInv, Messages
<1>8. Sizes' /\ Clicks' /\ KeysHeld'
  BY <1>2 DEF IInv, Sizes, Clicks, KeysHeld, Held, Pressed
<1> QED BY <1>5, <1>6, <1>7, <1>8 DEF IInv

LEMMA MakeBufferOK == IInv /\ MakeBuffer => IInv'
<1> SUFFICES ASSUME IInv, MakeBuffer PROVE IInv'
  OBVIOUS
<1>1. /\ txShipBuff # NoBuffer /\ txShipBuff' = NoBuffer
      /\ UNCHANGED <<arch, sock, canvas, keysPressed, id, stars, clicked, up>>
      /\ UNCHANGED <<little, keyed, window, steer, launched>>
  BY DEF MakeBuffer, browser, server
<1>2. PICK s \in Ships, l \in BOOLEAN : txShipBuff = ShipBuffer(Order(arch, l), s, l)
  BY <1>1 DEF IInv, Messages
<1>3. PICK p \in Players :
          down' = Append(down,
              [bytes |-> PlayerBuffer(little, window, p, keyed).bytes \o txShipBuff.bytes,
               parts |-> <<PlayerBuffer(little, window, p, keyed).part, txShipBuff.part>>])
  BY DEF MakeBuffer
<1> DEFINE d == TickMessageOf(arch, window, p, keyed, s, l)
<1>4. little = Order(arch, keyed) /\ keyed \in BOOLEAN
  BY DEF IInv, TypeOK, Messages
<1>5. down' = Append(down, d)
  BY <1>2, <1>3, <1>4 DEF TickMessageOf
<1>6. window # NoPlayer
  BY <1>1 DEF IInv, Registration
<1>7. window \in Windows /\ window.w \in Short /\ window.h \in Short
  BY <1>6, Numbers DEF IInv, TypeOK
<1>8. d \in Message /\ GoodDown(arch, d) /\ d.bytes[2] = PlayerTickMessage
  BY <1>4, <1>7, TickMessageIsGood DEF IsGood
<1> HIDE DEF d
<1>9. /\ down' \in Seq(Message)
      /\ DOMAIN down' = DOMAIN down \cup {Len(down) + 1}
      /\ \A i \in DOMAIN down : down'[i] = down[i]
      /\ down'[Len(down) + 1] = d
  <2>1. down \in Seq(Message)
    BY DEF IInv, TypeOK, Message
  <2> QED BY <1>5, <1>8, <2>1, Added
<1>10. TypeOK'
  BY <1>1, <1>9 DEF IInv, TypeOK, Message
<1>11. Registration'
  <2>1. PlayerTickMessage # SessionRegistered
    BY DEF PlayerTickMessage, SessionRegistered
  <2> QED BY <1>1, <1>6, <1>8, <1>9, <2>1 DEF IInv, Registration
<1>12. Messages'
  BY <1>1, <1>8, <1>9 DEF IInv, Messages
<1>13. Sizes' /\ Clicks' /\ KeysHeld'
  BY <1>1 DEF IInv, Sizes, Clicks, KeysHeld, Held, Pressed
<1> QED BY <1>10, <1>11, <1>12, <1>13 DEF IInv

LEMMA StutterOK == IInv /\ UNCHANGED vars => IInv'
BY SMTT(30) DEF IInv, TypeOK, Registration, Messages, Sizes, Clicks, KeysHeld, Held, Pressed,
       vars, browser, server

LEMMA StepOK == IInv /\ [Next]_vars => IInv'
BY OnOpenOK, ResizeOK, ClickOK, KeydownOK, KeyupOK, HandleMessageOK, CommsHandlerOK,
   MakeShipBufferOK, MakeBufferOK, StutterOK DEF Next

-----------------------------------------------------------------------------
\* The theorems.

\* The inductive invariant holds of every behaviour.
THEOREM Invariance == Spec => []IInv
BY InitOK, StepOK, PTL DEF Spec

\* Variables and messages have their types, and a browser that has its stars has all
\* of them and no more.
THEOREM TypeCorrect == Spec => []TypeOK
<1>1. IInv => TypeOK
  BY DEF IInv
<1> QED BY <1>1, Invariance, PTL

LEMMA Arrived == IInv => InputArrives
<1> SUFFICES ASSUME IInv, sock = "open", up = <<>>
             PROVE  window = canvas /\ launched = clicked
  BY DEF InputArrives
<1>1. DOMAIN up = {}
  OBVIOUS
<1>2. window = canvas
  BY <1>1 DEF IInv, Sizes
<1>3. launched = clicked
  BY <1>1 DEF IInv, Clicks
<1> QED BY <1>2, <1>3

\* Sizes and clicks arrive as they were meant, for any number of messages on the way.
THEOREM InputAlwaysArrives == Spec => []InputArrives
BY Arrived, Invariance, PTL

LEMMA NotStuck == IInv => NoStuckKey
<1> SUFFICES ASSUME IInv, up = <<>>, NEW f \in steer
             PROVE  \E key \in keysPressed : Flag(key) = f
  BY DEF NoStuckKey
<1>1. DOMAIN up = {} /\ f \in Flags
  BY DEF IInv, TypeOK
<1> QED BY <1>1 DEF IInv, KeysHeld, Held, Pressed

\* A ship never steers without a pressed key when nothing is on the way, however many
\* keys share its flags.
THEOREM NoKeySticks == Spec => []NoStuckKey
BY NotStuck, Invariance, PTL

LEMMA GoodIsRead == IInv => ReadAsWritten
<1> SUFFICES ASSUME IInv, NEW i \in DOMAIN down
             PROVE  /\ PartsSeen(arch, down[i])
                    /\ down[i].bytes[2] = SessionRegistered =>
                          Len(ReadStars(down[i].bytes)) = Len(Stars) \div 2
  BY DEF ReadAsWritten, PartsSeen, Seen
<1>1. GoodDown(arch, down[i])
  BY DEF IInv, Messages
<1> QED BY <1>1, StarsRead DEF GoodDown

\* Each number of a tick's message and of the answer to a registration is where the
\* browser looks for it, for all numbers; it is read as it was meant, or reversed when
\* its part was written after a key's message of a big-endian machine.
THEOREM NumbersReadAsWritten == Spec => []ReadAsWritten
BY GoodIsRead, Invariance, PTL
=============================================================================
