---------------------------- MODULE GameProtocol ----------------------------
(***************************************************************************)
(* A browser and its session: what the user does, the messages that carry  *)
(* it to the server, byte by byte, and the server's numbers on their way   *)
(* back.                                                                   *)
(*                                                                         *)
(* A number is the sequence of its bytes, the most significant first, so   *)
(* that the byte order of a machine is the order in which it stores them.  *)
(* The server's is little-endian, as on every platform it is built for;    *)
(* the browser's is either.  The WebSocket loses and reorders nothing;     *)
(* WebsockTx models how buffers of a tick are lost before they enter it.   *)
(***************************************************************************)
EXTENDS Naturals, Sequences, SequencesExt

CONSTANTS
    Windows,        \* the sizes [w, h] a browser's window can have
    Points,         \* the points [x, y] a user clicks at
    Keys,           \* key codes
    SessionID,      \* the number of the session, four bytes
    AppVersion,     \* GAME_APP_VERSION, two bytes
    Stars,          \* the server's stars: x and y in turn, two bytes each
    Ships,          \* what a ship without bullets in the air can be seen to do
    Players,        \* the offsets of a player's window, a score and a phase
    MaxUp,          \* bound: messages on their way to the server
    MaxDown         \* bound: messages on their way to the browser

\* A key that steers sets one of the ship's flags; two keys share each of them.
Flag(key) ==
    CASE key \in {37, 65} -> "left"
      [] key \in {39, 68} -> "right"
      [] key \in {38, 73, 87} -> "thrusting"
      [] OTHER -> "none"

Byte == 0 .. 255
Short == [1 .. 2 -> Byte]
Long == [1 .. 4 -> Byte]

ASSUME MessagesAssumption ==
    /\ SessionID \in Long
    /\ AppVersion \in Short
    /\ Stars \in Seq(Short)
    /\ Len(Stars) % 2 = 0
    /\ Len(Stars) < 131072
    /\ Windows \subseteq [w : Short, h : Short]
    /\ Points \subseteq [x : Short, y : Short]
    /\ Ships \subseteq [x : Short, y : Short, angle : Short,
                       flags : [1 .. 1 -> Byte], lives : [1 .. 1 -> Byte]]
    /\ Players \subseteq [ox : Short, oy : Short, score : Long, phase : Short]
    /\ Keys \subseteq Byte
    /\ MaxUp \in Nat \ {0} /\ MaxDown \in Nat \ {0}

VARIABLES
    arch,           \* the byte order of the browser's machine
    sock,           \* the browser's WebSocket
    canvas,         \* canv.width and canv.height
    keysPressed,    \* keysPressed
    id,             \* sessionID, as the browser knows it
    stars,          \* universeStars
    clicked,        \* history: where the user clicked since the socket is open
    up,             \* messages on their way to the server
    down,           \* messages on their way to the browser, and what they mean
    txShipBuff,     \* what Player::TickEvent has of a message, NoBuffer between ticks
    little,         \* WebsockSession::m_isLittleEndian
    keyed,          \* history: the last message handled was a key's
    window,         \* ctxW and ctxH of the player, NoPlayer before there is one
    steer,          \* the flags of the ship that are set
    launched        \* where clicks have launched rocks

browser == <<arch, sock, canvas, keysPressed, id, stars, clicked>>
server == <<little, keyed, window, steer, launched>>
vars == <<browser, up, down, txShipBuff, server>>

NoPlayer == <<>>
NoBuffer == <<>>
NoID == <<0, 0, 0, 0>>

\* GameFace.js's RequestType and MessageType.
RegisterSession == 0
ClickEvent == 2
KeyEvent == 4
ResizeEvent == 6
SessionRegistered == 1
PlayerTickMessage == 7

Init ==
    /\ arch \in {"little", "big"}
    /\ sock = "connecting"
    /\ canvas \in Windows
    /\ keysPressed = {}
    /\ id = NoID
    /\ stars = <<>>
    /\ clicked = {}
    /\ up = <<>>
    /\ down = <<>>
    /\ txShipBuff = NoBuffer
    /\ little = TRUE
    /\ keyed = FALSE
    /\ window = NoPlayer
    /\ steer = {}
    /\ launched = {}

-----------------------------------------------------------------------------
\* AppBuffer on a little-endian machine: a number is swapped on its way from or to
\* the buffer when the session is said to be little-endian, and copied otherwise.

Get(rx, le, offset, size) ==
    LET bytes == SubSeq(rx, offset + 1, offset + size)
    IN  IF le THEN bytes ELSE Reverse(bytes)

\* Mutant: the setters copy the number as it is.
PutNative(le, n) == Reverse(n)

Put(le, n) == IF le THEN n ELSE Reverse(n)

\* DataView reads and writes the most significant byte first.
View(m, offset, size) == SubSeq(m, offset + 1, offset + size)

-----------------------------------------------------------------------------
\* The browser's side.

\* The first byte of a message.  "littleEndian" is 0xAA or 0xAB and never 0, with
\* which all messages but a key's compare it.
Claim == 171
ClaimOfKeys == IF arch = "little" THEN 171 ELSE 170

\* A socket that is not open throws: nothing after the call is executed, and nothing
\* is sent.
CanSend == Len(up) < MaxUp
Send(m) == up' = IF sock = "open" THEN Append(up, m) ELSE up

OnOpen ==
    /\ sock = "connecting"
    /\ sock' = "open"
    /\ up' = <<<<Claim, RegisterSession>> \o AppVersion \o canvas.w \o canvas.h>>
    /\ UNCHANGED <<arch, canvas, keysPressed, id, stars, clicked, down, txShipBuff, server>>

on_resize(size) ==
    /\ CanSend
    /\ canvas' = size
    /\ Send(<<Claim, ResizeEvent>> \o id \o size.w \o size.h)
    /\ UNCHANGED <<arch, sock, keysPressed, id, stars, clicked, down, txShipBuff, server>>

on_click(p) ==
    /\ CanSend
    /\ Send(<<Claim, ClickEvent>> \o id \o p.x \o p.y)
    /\ clicked' = IF sock = "open" THEN clicked \cup {p} ELSE clicked
    /\ UNCHANGED <<arch, sock, canvas, keysPressed, id, stars, down, txShipBuff, server>>

ProcessKeyEvent(key, isDown) == Send(<<ClaimOfKeys, KeyEvent, isDown, key>>)

\* A window can get its first event of a key that was pressed elsewhere as a repeat.
on_keydown(key, repeat) ==
    /\ CanSend
    /\ keysPressed' = keysPressed \cup {key}
    /\ IF repeat THEN UNCHANGED up ELSE ProcessKeyEvent(key, 1)
    /\ UNCHANGED <<arch, sock, canvas, id, stars, clicked, down, txShipBuff, server>>

on_keyup(key) ==
    /\ CanSend
    /\ keysPressed' = keysPressed \ {key}
    /\ ProcessKeyEvent(key, 0)
    /\ UNCHANGED <<arch, sock, canvas, id, stars, clicked, down, txShipBuff, server>>

\* The pairs of numbers that the browser takes for stars: it has read their number at
\* offset 8 and goes on from there.  Past the end a read throws.
ReadStars(m) ==
    LET number == 256 * m[9] + m[10]
        fit == (Len(m) - 8) \div 4
        Star(i) == <<View(m, 4 + 4 * i, 2), View(m, 6 + 4 * i, 2)>>
    IN  [i \in 1 .. IF number < fit THEN number ELSE fit |-> Star(i)]

\* Mutant: the offset of the session's number is that of the message's type.
OnSessionRegisteredEarly(m) ==
    [numbers |-> <<View(m, 1, 4), View(m, 6, 2), View(m, 8, 2)>>, stars |-> ReadStars(m)]

OnSessionRegistered(m) ==
    [numbers |-> <<View(m, 2, 4), View(m, 6, 2), View(m, 8, 2)>>, stars |-> ReadStars(m)]

\* The offset of each number is the sum of the sizes of those before it.  The numbers
\* of the player come first, then those of the ship.
OnPlayerTickMessage(m) ==
    << <<View(m, 2, 4), View(m, 6, 4), View(m, 10, 2), View(m, 12, 2),
         View(m, 14, 2), View(m, 16, 2), View(m, 18, 4), View(m, 22, 2)>>,
       <<View(m, 24, 2), View(m, 26, 2), View(m, 28, 2),
         View(m, 30, 1), View(m, 31, 1), View(m, 32, 2)>> >>

\* What the browser takes from a message, part by part.
NumbersRead(m) ==
    IF m[2] = SessionRegistered THEN <<OnSessionRegistered(m).numbers>>
    ELSE OnPlayerTickMessage(m)

HandleMessageEvent ==
    /\ down # <<>>
    /\ LET m == Head(down).bytes
       IN  IF m[2] = SessionRegistered
           THEN /\ id' = OnSessionRegistered(m).numbers[1]
                /\ stars' = stars \o OnSessionRegistered(m).stars
           ELSE id' = OnPlayerTickMessage(m)[1][1] /\ UNCHANGED stars
    /\ down' = Tail(down)
    /\ UNCHANGED <<arch, sock, canvas, keysPressed, clicked, up, txShipBuff, server>>

-----------------------------------------------------------------------------
\* The server's side.

\* Numbers of two bytes, one after the other.
PutAll(le, numbers) ==
    [k \in 1 .. 2 * Len(numbers) |-> Put(le, numbers[(k + 1) \div 2])[2 - (k % 2)]]

\* How many stars there are, as a number of two bytes.
NumStars == <<(Len(Stars) \div 2) \div 256, (Len(Stars) \div 2) % 256>>

\* What a part of a message is to carry, and whether the last message the session
\* handled before it was written is a key's, is history.
Part(numbers, afterKey) == [meant |-> numbers, afterKey |-> afterKey]

Registered(le) ==
    [bytes |-> <<187, SessionRegistered>> \o Put(le, SessionID) \o Put(le, AppVersion)
                   \o Put(le, NumStars) \o PutAll(le, Stars),
     parts |-> <<Part(<<SessionID, AppVersion, NumStars>>, FALSE)>>]

HandleNewSession(rx, le) ==
    /\ window' = [w |-> Get(rx, le, 3, 2), h |-> Get(rx, le, 5, 2)]
    /\ steer' = {}
    /\ down' = Append(down, Registered(le))
    /\ UNCHANGED launched

\* Mutant: both bytes of a key's event are taken from the same place.
HandleKeyEventAlwaysDown(rx) ==
    /\ steer' = steer \cup ({Flag(rx[3])} \ {"none"})
    /\ UNCHANGED <<window, launched, down>>

HandleKeyEvent(rx) ==
    /\ steer' = IF window = NoPlayer THEN steer
                ELSE IF rx[2] # 0 THEN steer \cup ({Flag(rx[3])} \ {"none"})
                ELSE steer \ {Flag(rx[3])}
    /\ UNCHANGED <<window, launched, down>>

HandleClickEvent(rx, le) ==
    /\ launched' = IF window = NoPlayer THEN launched
                   ELSE launched \cup {[x |-> Get(rx, le, 5, 2), y |-> Get(rx, le, 7, 2)]}
    /\ UNCHANGED <<window, steer, down>>

\* Mutant: the size is looked for where a registration has it.
HandleResizeEventEarly(rx, le) ==
    /\ window' = IF window = NoPlayer THEN window
                 ELSE [w |-> Get(rx, le, 3, 2), h |-> Get(rx, le, 5, 2)]
    /\ UNCHANGED <<steer, launched, down>>

HandleResizeEvent(rx, le) ==
    /\ window' = IF window = NoPlayer THEN window
                 ELSE [w |-> Get(rx, le, 5, 2), h |-> Get(rx, le, 7, 2)]
    /\ UNCHANGED <<steer, launched, down>>

\* on_read hands a message to CommsHandler: the first byte is what the browser says of
\* its byte order, the rest is dispatched by its type.
CommsHandler ==
    /\ up # <<>>
    /\ Len(down) < MaxDown
    /\ LET m == Head(up)
           rx == Tail(m)
           le == m[1] = 171
       IN  /\ little' = le
           /\ keyed' = (rx[1] = KeyEvent)
           /\ \/ rx[1] = RegisterSession /\ HandleNewSession(rx, le)
              \/ rx[1] = KeyEvent /\ HandleKeyEvent(rx)
              \/ rx[1] = ClickEvent /\ HandleClickEvent(rx, le)
              \/ rx[1] = ResizeEvent /\ HandleResizeEvent(rx, le)
    /\ up' = Tail(up)
    /\ UNCHANGED <<browser, txShipBuff>>

\* Universe::m_ticks is set from a counter of the timer that only an unused function
\* of the timer advances.
Ticks == <<0, 0, 0, 0>>

NoBullets == <<0, 0>>

\* Ship::MakeBuffer.
ShipBuffer(le, s, afterKey) ==
    [bytes |-> Put(le, s.x) \o Put(le, s.y) \o Put(le, s.angle) \o s.flags \o s.lives
                   \o Put(le, NoBullets),
     part |-> Part(<<s.x, s.y, s.angle, s.flags, s.lives, NoBullets>>, afterKey)]

\* Player::MakeBuffer.
PlayerBuffer(le, size, p, afterKey) ==
    [bytes |-> <<187, PlayerTickMessage>> \o Put(le, SessionID) \o Put(le, Ticks)
                   \o Put(le, size.w) \o Put(le, size.h) \o Put(le, p.ox)
                   \o Put(le, p.oy) \o Put(le, p.score) \o Put(le, p.phase),
     part |-> Part(<<SessionID, Ticks, size.w, size.h, p.ox, p.oy, p.score, p.phase>>,
                   afterKey)]

\* Player::TickEvent asks the session for the byte order twice, on the timer's thread:
\* for the ship's buffer, and when that is made for the one it puts before it.
MakeShipBuffer ==
    /\ window # NoPlayer
    /\ txShipBuff = NoBuffer
    /\ \E s \in Ships : txShipBuff' = ShipBuffer(little, s, keyed)
    /\ UNCHANGED <<browser, up, down, server>>

MakeBuffer ==
    /\ txShipBuff # NoBuffer
    /\ Len(down) < MaxDown
    /\ \E p \in Players :
          LET b == PlayerBuffer(little, window, p, keyed)
          IN  down' = Append(down, [bytes |-> b.bytes \o txShipBuff.bytes,
                                    parts |-> <<b.part, txShipBuff.part>>])
    /\ txShipBuff' = NoBuffer
    /\ UNCHANGED <<browser, up, server>>

-----------------------------------------------------------------------------

Next ==
    \/ OnOpen
    \/ \E size \in Windows : on_resize(size)
    \/ \E p \in Points : on_click(p)
    \/ \E key \in Keys, repeat \in BOOLEAN : on_keydown(key, repeat)
    \/ \E key \in Keys : on_keyup(key)
    \/ HandleMessageEvent
    \/ CommsHandler
    \/ MakeShipBuffer
    \/ MakeBuffer

Spec == Init /\ [][Next]_vars

-----------------------------------------------------------------------------

Flags == {"left", "right", "thrusting"}
Parts == [meant : Seq(Seq(Byte)), afterKey : BOOLEAN]

TypeOK ==
    /\ arch \in {"little", "big"}
    /\ sock \in {"connecting", "open"}
    /\ canvas \in Windows
    /\ keysPressed \subseteq Keys
    /\ id \in {NoID, SessionID, Reverse(SessionID)}
    /\ Len(stars) \in {0, Len(Stars) \div 2}
    /\ clicked \subseteq Points
    /\ up \in Seq(Seq(Byte))
    /\ down \in Seq([bytes : Seq(Byte), parts : Seq(Parts)])
    /\ txShipBuff \in [bytes : Seq(Byte), part : Parts] \cup {NoBuffer}
    /\ little \in BOOLEAN
    /\ keyed \in BOOLEAN
    /\ window \in Windows \cup {NoPlayer}
    /\ steer \subseteq Flags
    /\ launched \subseteq Points

\* No size of the window and no place that was clicked is lost or altered on its way,
\* although a window may be resized before its socket is open, while it registers and
\* before it knows the number of its session, and although a browser on a big-endian
\* machine claims one byte order with its keys and another with everything else: when
\* nothing is on its way, the server knows the size of the window and the places where
\* the user clicked.  (How often a place was clicked is not told apart.)
InputArrives ==
    sock = "open" /\ up = <<>> => window = canvas /\ launched = clicked

\* The ship does not steer by itself: when nothing is on its way, a flag is set only
\* while a key is down that sets it, however the keys that share it overlap.
NoStuckKey ==
    up = <<>> => \A f \in steer : \E key \in keysPressed : Flag(key) = f

\* Where the browser looks for a number in a message of a tick or in the answer to its
\* registration, the server has put just that number: the browser reads it as it was
\* meant, or, when its machine is big-endian and the last message that was handled
\* before that part of the message was written is a key's, with its bytes reversed.
\* A key that is handled in mid-tick so leaves a message half reversed.  Of the stars
\* the browser reads as many as there are; nothing is said of where they are, which it
\* gets wrong.
ReadAsWritten ==
    \A i \in DOMAIN down :
        LET d == down[i] IN
        /\ \A k \in DOMAIN d.parts : \A j \in DOMAIN d.parts[k].meant :
              NumbersRead(d.bytes)[k][j] =
                  IF arch = "big" /\ d.parts[k].afterKey
                  THEN Reverse(d.parts[k].meant[j]) ELSE d.parts[k].meant[j]
        /\ d.bytes[2] = SessionRegistered => Len(ReadStars(d.bytes)) = Len(Stars) \div 2
=============================================================================
