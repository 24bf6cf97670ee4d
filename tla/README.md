# TLA+ models of the geoff game server

geoff is a Boost.Beast web server with a multiplayer Asteroids game in it. A
browser fetches the page over HTTP, upgrades a connection to a WebSocket,
registers, and from then on receives two messages 60 times a second (what the
universe looks like, and what its own ship does) while it sends keys, clicks and
resizes. This directory holds models of the parts in which events meet, TLC
configurations that check them on small instances, and TLAPS proofs for all.

## The system

| Part | Source | State | Operations |
|---|---|---|---|
| HTTP connection | `lib/src/geoff.cpp`, `lib/inc/handle_request.h` | the session object that owns the socket, outstanding read and write, queue of responses (at most 8) | accept, detect TLS, handshake, read a request, an upgrade or the end of file, write a response, close |
| WebSocket connection | `lib/inc/websocket_session.h` | outstanding read and write, `m_write_active`, session id | accept, read, write, error, close, the handler the timer posts |
| Session and its queue | `lib/src/WebsockSession.cpp`, `lib/inc/WebsockSessionManager.h`, `lib/src/WebsockServer.cpp` | `g_sessions` by id; per session a deque of outgoing buffers, the OnTxReady callback | add, find, erase, commit a buffer, pop one |
| Timer | `apps/asteroids/src/Timer.cpp` | a deadline timer on the io_context, `m_timer_complete` | created by the first session's universe; tick the universe, tick every session, re-arm; wait and give up in the destructor |
| Process | `apps/asteroids/src/Main.cpp`, `lib/src/geoff.cpp` (`Geoff()`), `Universe.cpp` (`GetUniverse`) | threads, io_context, `g_universe`, two mutexes | make the universe, stop on a signal, join, destroy |
| Game session | `apps/asteroids/src/Session.cpp`, `lib/src/GameSession.cpp` | its player, once registered | register, key, click, resize, tick |
| Game rules | `apps/asteroids/src/{Universe,Player,Ship,Gun,Bullet,RockField,Rock}.cpp` | players with phase, score, ship and bullets; one field of rocks | collisions, lives, shooting, splitting rocks, scores |
| Ship and window | `apps/asteroids/src/Ship.cpp`, `Player.cpp` | position, velocity, timers of explosion, protection and blinking; the part of the universe the browser shows | thrust, move, slide the window, blink, explode, resurrect, resize |
| Codec | `lib/src/AppBuffer.cpp` | a buffer with read and write position | set and get integers in either byte order |
| Client | `www/js/GameFace.js`, `www/asteroids/asteroids.js` | socket, keys pressed, canvas size, session id, stars | register on open, send keys, clicks and sizes, decode, draw |
| Others | `www/js/game.js`, `www/echo`, `UniquePtrTest`, TLS context, MIME types | - | demos and configuration |

How they interact. Every connection has a strand: its handlers (`on_accept`,
`on_read`, `on_write` and what is posted to it) run one at a time. Connections run
beside each other when the io_context has several threads (`argv[4]`; the debugger
arguments in CMakeLists.txt give 4). **The timer is on no strand.** Its handler
commits buffers to the queues of all sessions (under each session's recursive
mutex) and calls each session's OnTxReady callback, which posts a handler to the
connection's strand to pop one buffer and write it. `on_read` and `on_write` pop
and write too, so three handlers feed one stream that allows one write at a time.

What is hard in it:

* three handlers and `m_write_active` keep a chain of writes alive; nothing polls
  the queue, so a missed wake-up leaves it standing;
* `do_write` drops a popped buffer while a write is outstanding, which is
  frequent: two buffers are committed per tick;
* objects are kept alive by the outstanding operations only, while callbacks and
  posted handlers hold them by address;
* connections come and go while a tick iterates over the session map, and lookups
  insert what they do not find;
* an HTTP connection runs a chain of reads and a chain of writes that stop and
  start one another at the queue's limit;
* the messages of a tick are counted first, allocated, and filled in afterwards,
  from data the connections' handlers change; they have no tags, so the browser
  depends on every count;
* lives, explosions, bullets and points are counters in several objects that must
  agree after long games; protection and blinking are two timers of different
  lengths that have to end at the same moment in the right phase;
* the window on the universe is kept with unsigned 16-bit differences, by three
  objects that copy it from one another one tick apart;
* a message's first byte claims the browser's byte order, the browser claims
  different ones for keys and for everything else, and the server uses the last
  claim for what it sends;
* the universe and the timer are made inside the constructor of the first session,
  and destroyed after the threads and the io_context they depend on.

Some details met on the way that the models use or abstract. `HandleNewSession`
runs under the session's mutex from the creation of the player to the commit of
the reply, so that no tick gets in between. A bullet's counter stays at 0 once it
has timed out, and one bullet leaves the list per tick. Players are never erased
from `m_players`. `m_tick` stays 0, as nobody calls `GetTick`. Mutexes are taken
in one order (sessions, timer, server before session), so the handlers cannot
block each other; `~Timer`, which waits with its mutex held, waits for a handler
that can no longer run, and ends by giving up (GeoffProcess).

## Modules

### LossyFifo

What a connection's transmit path promises to those who commit buffers: any may
be lost, but those delivered arrive once and in commit order. That nothing is
lost would be more, and it is not so: `do_write` returns while a write is
outstanding, after its caller has popped the buffer (`SendNext`).

### WebsockTx

Sessions, connections, queues and the timer. One action per handler: `OnAccept`,
`OnReadRegister`, `OnReadInput`, `OnReadClosed`, `OnReadError`, `OnWrite`,
`OnWriteError`, `RunPosted` (all with the popping and the write they end with, in
`SendNext`). The timer's handler is split: one step for each session in
`Universe::TickEvent` (`UniverseTick`), then one for each `Session::TickEvent`
(`SessionTick`), since with more threads the handlers of the strands run in
between. With one thread (`Threads = 1`, guard `CanRun`) nothing does.

Handlers of different connections are single steps although several threads may
execute them at once: what they share is `g_sessions`, whose readers take no lock.
A handler that changes the map while another may read it therefore has the
outcomes "as if alone" and `dataRace` (`MapOutcomes`), and so has one that changes
players or rocks, or asks `TxQueueEmpty`, which takes no lock, during a tick
(`GameOutcomes`, `QueueOutcomes`). `fault` records undefined behaviour that was
reached with objects (`useAfterFree`, `nullSession`, `dataRace`); the behaviour ends
there, because nothing can be said of what follows.

Buffers are numbers in commit order. `inFlight` is what `async_write` was given
and `on_write` has not reported; `dangling` is the part of it whose bytes the
socket did not take at once, while their owner is already gone. That the socket then
reads freed memory is not a fault of the model: what it sends may be `garbled`, and
the connection goes on, as it does in the code. `AliveUntilEnded` therefore speaks of
sessions and websocket_sessions only; of the buffers `DeliveredIntact` speaks, which is
refuted. External (Beast): `PeerClose`, the answer to a close frame waiting for the
write under way; the read may also fail meanwhile (reader `aborted`). `committed`,
`replies`, `delivered`, `writeFailed` and `garbled` are history. A write that fails
leaves `m_write_active` set with nothing outstanding: from then on buffers are
committed, popped and discarded, and `NothingStranded` and `QueueDrains` say nothing of
that connection.

### Asteroids

The rules of the game, for any number of players and any durations. Geometry is
abstracted: in a tick any bullets may hit any rocks and any ship that can crash may
crash. The rock field is the number of rocks of each size. `Register`, `Close`,
`KeyDown` and `Click` are the handlers; a tick is `StartTick`, then the collisions
of one player after the other (`Collide`, in the order of the map), then
`PlayersTick`. Durations are counted in ticks; steering, the release of keys,
blinking and positions are left out. Two bullets in one rock lead to an erase of
an erased iterator (`CollideTwice`, a fault). The handlers run one at a time: this
module is about the rules, and WebsockTx about concurrency.

### HttpSession

One HTTP connection from `listener::on_accept` on. Each handler is an action:
`OnAccept`, `OnDetect`, `OnHandshake`, `OnReadRequest`, `OnReadUpgrade`,
`OnReadEof`, `OnReadError`, `OnWriteNext`, `OnWriteClose`, `OnWriteError`. `reads`
and `writes` count the outstanding operations rather than assume that there is one
at most. `handle_request` sends exactly one response on each of its paths, so a
response is the number of its request and whether it ends the connection. After an
upgrade the stream has been moved away: what the outstanding write does with it
then is `UseMovedStream`, a fault. At the end of file TLS is shut down by an
asynchronous operation and a plain socket at once: nothing can be written after either,
and the handler of the former only logs, so that one action (`OnReadEof`) stands for
both.

### TickMessage

How the two messages of a tick come about, and what the browser makes of them.
`CountRocks`, `FillRocks`, `CountShips`, `FillShips` and `FillBullets` are the passes
of `Universe::PerSessionTickEvent` over the game, `CountGun` and `FillGun` those of
`Gun::MakeBuffer` (with the copies `Ship::MakeBuffer` and `Player::MakeBuffer` make of
it, in `WithShip`). Between two passes the handlers `Accept`, `Register`, `Close`,
`FireKey` and `Click` of other threads may run. A message is a sequence of items of
known sizes; `NewBuffer`, `Put` and `Grow` are what AppBuffer does with its length and
its write offset. Nothing checks that offset: filling in more than was counted is the
fault `overrun`, and erasing the entry the timer's loop is at is `iteratorLost`.
`ReadUniverse` and `ReadPlayer` are the browser's side: they follow its offsets and its
tests for the end of the message.

`raced` records what a handler changed after it was counted and before it was filled in,
and nothing else; the properties say that these are the only windows in which a change
does harm. They do not say that those windows do no harm: that is what the unlocked code
does. A count is cast to 16 bits (`CountOf`, `CountRange`): more than it can tell are
exempted from `ReadAsFound` (`Countable`). Collisions and the ships' ticks (module
Asteroids) only appear by what they leave of rocks and bullets. A handler in the middle
of a pass, and the browser that registers twice, are left to WebsockTx.

### ShipLife and ShipBody

ShipLife is what a ship promises the rest of the game: protected, then vulnerable,
then exploding, one life for every explosion, a wreck after the last, and neither
protection nor explosion for ever. ShipBody is how the code does it: position,
velocity, the offset of the window in ship and player, and five timers and flags,
with the code's own durations. `Tick` is `Fly` or `Burn` (the two branches of
`Ship::TickEvent`, with `Player::TickEvent` that copies the window first),
`Explode`, `Key` and `Resize` are what happens between ticks. `LivesAsPromised`
is the refinement, with its fairness.

One axis is modelled, as the two run the same code side by side. Windows lie on whole
pixels, while the ship's place and velocity, doubles in the code, count parts of a
pixel, of which `Grain` make one; `Pixel` is the cast that cuts the rest off when the
window slides. Thrust and friction change the velocity by anything their limits admit.
`Uint16` is the width of the window's offset. `recentred` remembers that a resize has
put the window in the middle of the universe while the ship is elsewhere: until it moves
away from the universe's edge, or begins a new life, the player may not see the ship.
`Lack` is what windows of less than twice the margin (400 pixels) lack.

### GeoffProcess

The threads of the pool, from `io_context::run()` to the end of the process. A handler
is split wherever it takes or releases `m_sessions_mutex` or `m_timer_mutex`: `Accept`,
`LockSessions`, `MakeUniverse`, `LockTimer`, `Rearm`, `Ticked`, `Added` are the way of
the first session, whose constructor makes the universe, whose constructor makes the
timer, whose constructor runs the first tick. `Expire` starts the later ones. `Signal`,
`Leave`, `Join`, `DestroyContext`, `DestroyStatics`, `Retry` and `DestroyTimer` are the
end; the process then stays in `Exited`. An error of the timer, when it is set
(`RearmError`) or when its wait ends (`ExpireError`), is only logged, and there are no
more ticks: `timerError` remembers it, and `OneClock` and `ClockRuns` say "unless". What
a tick does to sessions is in WebsockTx.

### GameProtocol

A browser and its session, byte by byte. `OnOpen`, `on_resize`, `on_click`,
`on_keydown`, `on_keyup` and `HandleMessageEvent` are the browser's. `CommsHandler`,
which takes the byte order from the first byte and dispatches, is the server's, and so
are `MakeShipBuffer` and `MakeBuffer`, the two halves of `Player::TickEvent`: each asks
the session for its byte order by itself, and on another thread a message may be
handled in between. A number is the sequence of its bytes, most significant first;
`Put` and `Get` are AppBuffer's setters and getters on a little-endian server, `View`
is DataView's. `Registered`, `PlayerBuffer` and `ShipBuffer` are what the server
writes, number by number; `OnSessionRegistered` and `OnPlayerTickMessage` are where the
browser looks for each. Every message carries, as history, the numbers that were put
into it and whether a key's message was the last one handled before: `ReadAsWritten`
compares the two, and says that a big-endian browser reads a part reversed exactly when
it was written after a key's message, which claims the other byte order. Of stars it
only says how many are read.

`keysPressed` is the variable of that name: the property about stuck keys is about what
the page knows, not about the keyboard, as a browser that loses the focus sees no keyup.
Clicks are kept as a set, so that of two on one place the loss of one is not seen.
`HandleNewSession` is one step: it holds the session's mutex until its reply is
committed, and a tick that is being built meanwhile is committed after it. Ticks that are
lost before they reach the socket are WebsockTx's; the WebSocket loses nothing. A ship
has no bullets here; TickMessage has them.

### Proof modules and MC modules

`X_proofs` extends X with its theorems. `MCX` extends X with what comments of the
repository say of the system, for the runs that refute them. Definitions marked
"Mutant:" are plausible bugs, none of which any action uses; replacing the
definition after it by such a one makes a run fail.

## Runs

| Run | Bounds | States | Shows |
|---|---|---|---|
| `websocktx_connection` | 1 session, 2 threads, 2 ticks, 2 registrations | 147 k | one write at a time, no queue stranded unless a write failed, reply first, sessions and websocket_sessions alive until a connection ended, no null entries, lossy FIFO, queues drain |
| `asteroids_one_player` | 1 player, 2 lives, 3 bullets of 2 ticks, explosions of 2 ticks | 47 k | points conserved, phases match ships, lives account for explosions, bullets in order, explosions end |
| `http_pipeline` | limit 8, 10 requests | 17 k | reads and writes are one chain each, answers in order, every request answered |
| `tick_messages` | 3 sessions, 2 threads, 2 bullets each, 1 rock, counts below 4 | 627 k | the browser reads what the server found, buffers fit and bullets belong to ships, unless something counted has changed |
| `ship_and_window` | universe of 10 pixels of 2 parts each, margin 2, windows of 3, 5 and 10, ship of radius 1 and speed 1, durations of the code, 1 life | 574 k | ship and window stay inside, the window follows and is shown with the ship or next to it, whoever can be hit can be seen, the life of a ship is ShipLife |
| `process` | 4 threads, 3 sessions, 50 retries | 23 k | one universe and one chain of ticks unless the timer fails, no session without a universe, nothing destroyed under a handler, the clock runs, shutdown ends |
| `game_protocol` | 2 messages each way, 2 windows, 1 point, 2 keys, 2 stars, 1 ship, 1 player, browsers of either byte order | 678 k | input arrives, no key sticks, the browser reads numbers where they were written, reversed exactly when a big-endian one's key came before |

Why these bounds are enough to be interesting.

* One session and two ticks give four tick messages and two replies: up to several
  buffers queue while a write is outstanding, two posted handlers wait at once, and
  a close or an error can fall between any two steps of a tick. What several
  sessions add (ids left behind, a map that changes under the iteration) is covered
  by the proofs, which hold for any number of them, and by the three sessions of
  `tick_messages`.
* The game with a single player has real choices of which of three bullets of
  different ages are hit; what several players do to the shared field of rocks is
  covered by the proofs.
* The pipeline uses the code's own limit and fills it.
* Three sessions are the fewest with two ships in one message, one of which can
  leave while the other stays; with no rock, ship or bullet every combination of
  missing sections occurs. Ticks are not bounded there. Counts below 4 wrap for the bullets
  of two players, who have up to 4.
* The durations of a ship matter in their real proportions (a protection of 181 ticks
  against 14 blinks of 13), so they are the code's. In a universe of 10 pixels, a window
  of 5 has room between its margins, slides both ways and stops at either edge, one of 3
  has not, and one of 10 cannot slide; with two parts of a pixel half of the ship's places
  are cut off. Its numbers never wrap because no intermediate value leaves the universe,
  which is proved for every universe of up to 65535.
* Four threads are the number in CMakeLists.txt; three sessions can register at once
  while the fourth thread closes one or ticks.
* Two messages each way let a resize, a click or a key be on its way while the
  previous one is handled, and a key's byte order reach a tick before the next
  message corrects it, also in mid-tick. The two keys share a flag of the ship. The numbers
  differ in every byte, so that a wrong offset or order is seen.

`CHECK_DEADLOCK FALSE` is set for WebsockTx, Asteroids, HttpSession and
TickMessage, where all may stop: clients stop sending, ticks and requests are
bounded, faults end a behaviour. In the other three runs deadlock is checked.

Runs that refute what the sources say (expected violations):

| Run | What is said | What the code does |
|---|---|---|
| `ended_is_cleaned_up` | `websocket_session.h:21-23`: the session id is kept to clean up the session when the connection closes | `on_read` calls `OnClose` for an orderly close only |
| `delivered_intact` | `WebsockSession.h:15-16`: buffers are managed automatically | the write uses memory its `unique_ptr` has freed; the 6410 bytes of a registration reply are more than Beast hands on at once |
| `tick_is_sequential` | `GameSession.h:14-15`: the timer is sequential with respect to the stream's buffer exchanges | it is not on the strand, and the default is 4 threads |
| `rock_destroyed_once` | `UniquePtrTest.cpp:67`: each iterator is a rock to be deleted | a rock hit by two bullets is in the list twice |
| `ownership_transferred` | `geoff.cpp:216-217`: the upgrade transfers ownership of the socket | a response may still be being written on it |

## Fairness

* WebsockTx: `WF(Ticking)`, as a timer handler that began always returns;
  `WF(Writing(c))`, as a write completes or fails (the stream's idle timeout covers
  a silent peer); `WF(RunPosted(c))`, as the io_context runs what is ready. None for
  reads: no client is obliged to send. None for `StartTick`: `QueueDrains` shows
  that a queue drains by what is already on its way, without a further tick.
* Asteroids: `WF(Ticking)`: the timer is re-armed by every tick. None for players.
* HttpSession: `WF(Writing)`: a write ends under the stream's timeout.
* ShipBody: `WF(Tick)`: the timer ticks a player as long as its session is there.
* GeoffProcess: `WF(Within(t))`, as the system runs every thread; `WF(Ending)`, the
  same for the main thread; `SF` for a thread that takes up the timer's expired
  wait: handlers that are ready wait in one queue, so that others, which use up all
  the threads again and again, cannot pass it over for ever. None for `Accept`,
  `Close` and `Signal`, which are the world's.
* GameProtocol and TickMessage: none, as they claim nothing that has to happen.

`QueueDrains` leaves out what the code does not promise: a connection whose write
failed keeps `m_write_active` set (`writeFailed`), and one whose reads failed may be gone.

## Proofs

All theorems hold for every value of the constants; the only assumptions are that
bounds are natural numbers and that sessions, threads, players, lives, durations
and limits are positive; for ships that a universe has a 16-bit size, that windows
are between a margin and the universe wide and half of one holds half a ship, that a
ship is not smaller than a pixel, that the margin (200) leaves room for it (10 either
way) and a tick of its motion, and that protection ends during the last blink
(`BlinksAssumption`, which only `ShownWhenVulnerable` uses); for messages that numbers
have the widths the code gives them, and that there are fewer than 65536 stars.

* **WebsockTx_proofs.** The inductive invariant `IInv` is typing, a global part
  (the tick's position, no null session, what a fault implies) and a part per
  connection: which map entry goes with which reader (`EntryInv`); at most one
  write, announced by `m_write_active`, and everything dangling in flight
  (`WriteInv`); the queue numbered consecutively up to the last commit and
  everything in flight or delivered before it (`Numbered`, `OneBefore`); the reply
  in the first place (`ReplyInv`); and a witness for every queue that is not empty
  (`StrandInv`), of which `m_write_active` is a real one, a write outstanding, unless one
  has failed (`WedgeInv`). The properties need it because none of them is inductive: that
  the reply comes first depends on where buffer 1 is now, and that nothing is
  stranded on the link between `m_write_active` and the write.
  `PathsAreFifos` then shows that each step is a step of LossyFifo or a stutter.
* **Asteroids_proofs.** Per player: the lives account, sorted bullets, timers in
  their ranges, phases; and the points of the field. `PointsConserved` is a matter
  of arithmetic on the counts of a tick, `OnlyExpiredPopped` of the sorted list.
  `PlayersLeadLives` says of the ships of all players what LivesARefinement says of one
  with its timers: crashes, keys and ticks take each of them through the life in
  ShipLife, and only a browser that registers once more breaks it off. The two modules,
  which know different parts of a ship, so agree on what a ship is.
* **HttpSession_proofs.** The two chains are tied by the queue, and both
  properties fail to be inductive for the same reason: one has to know that reading
  ends only on a queue with room and that writing ends only with a response left in
  the queue (`EndsForGood`), or else a late `on_write` could start to read again.
  The order of the answers follows from the numbering of the queue.
* **LossyFifo_proofs.** Delivery in order and without duplicates.

* **ShipBody_proofs.** Geometry and timers are one inductive invariant: that the
  unsigned offset never wraps follows from the window being inside the universe, and
  that from the guards of the slide and from where resizes and new lives put things.
  `ShipInView` is not inductive for the window alone, as the slide uses the place the
  ship leaves: the invariant says how near the ship's last place was. `FrameIsGood` and
  `ScrollIsSmooth` are action properties from it. A window is moved to the pixel below
  the ship's place, which costs the scrolling one pixel and the view nothing (`PixelIs`,
  `SlideCases`). `LivesARefinement` shows that every
  step is one of ShipLife or a stutter. `ShownWhenVulnerable` has an invariant of its
  own, on top of the other: two counters that know nothing of each other, the time that
  protection has left and the blinks, are always the same number of ticks apart
  (`BlinksInStep`), so that the last tick but one of protection falls on the last
  blink, which shows the ship. It needs the durations to fit together in this way and
  nothing more: 181 is one of the 13 lengths of protection that 14 blinks of 13 ticks
  admit; with 170 or 184 a ship would stay invisible until its next life.
* **GeoffProcess_proofs.** `LocksHeld` says who can hold which mutex where, `Building`
  that the holder of the sessions' mutex in a tick is making the universe, `MainLast`
  that the main thread goes through its end alone, and `Clock` that a wait and the
  threads in a tick exclude each other. Together they are inductive, for any number of
  threads, and give the three safety properties.
* **GameProtocol_proofs.** The properties are about the moment when nothing is on its
  way, so the invariant says what the messages on their way will do: the last size among
  them, or else the one the server has, is the canvas (`Sizes`); a click has arrived or
  is in one of them, and none is anywhere else (`Clicks`); a flag of the ship that is
  set, or that one of them will set, has a key down unless a later one clears it
  (`KeysHeld`); only the first can be a registration (`Registration`); and that the byte
  order of the session is what its last message claimed, so that each half of a tick is
  written in the order its history says (`Messages`). The lemmas before it compute the
  bytes of each message from those of its numbers, and what the browser takes from each
  place of it (`ReceivedBytes`, `PlayerBytes`, `ShipBytes`, `TickMessageIsGood`). It
  holds for any windows, points, keys, stars and any number of messages on their way.

* **TickMessage_proofs.** Between two passes over the game the invariant says what has
  been written so far, section by section (`Tells`), and that the last count announces
  exactly as many things as there are still to come, with room for each (`Announces`);
  it says so as long as nothing raced. A handler either leaves alone what was counted,
  or it is recorded in `raced` and the invariant promises nothing (`HandlersAreNoted`):
  this is where the proof needs that only others' ships and bullets are counted, and
  that a session has no bullets before it has a player. The messages list things in the
  order of a map. That every finite set of them has one list in that order and that it
  has one item for each (`InOrderWalks`, `ShipsPlaced`, `BulletsPlaced`) is an
  induction over data, which the library's induction theorems cannot be used for here;
  it is done with a least element and a smallest counterexample instead. The rest is
  about the browser: `SectionTold`, `SectionMissing` and `SectionShifted` say what it
  makes of a section that is there, that is not, and that lies behind another one.
  From the same invariant, `OneThreadReadsAll`: with a single thread nothing is ever
  raced with, no buffer is overrun and every message is read as what was found, as far as
  16-bit counts can tell.

Proved, and in the properties of no run: `ExplosionFull`, `ScrollsSmoothly`, `LivesLed`
(Asteroids_proofs), and the statement of `OneThreadReadsAll`.

Model-checked only: the liveness
properties `QueueDrains`, `ExplosionEnds`, `EveryRequestAnswered`, `ClockRuns`,
`ShutdownEnds` and the fairness in `LivesAsPromised`, as liveness is out of reach too;
and the refutations.

## Not modelled

Known to happen, and left out because what follows is undefined or is only said here:

* Every exit with a universe destroys the timer's `m_timer` after the io_context it
  belongs to (`Timer.cpp:26`): GeoffProcess gets there and says no more.
* An exception thrown by a handler ends in `std::terminate` when the thread is one of
  the pool's, and in the `catch` of Main.cpp only when it is the main thread's.
* A tick that begins early enough to look at `g_universe` while it is assigned is a
  data race on that pointer; GeoffProcess only says whether the universe is there.
* A listener whose bind failed accepts again and again, and fails each time.
* `OnSessionRegistered` reads the number of stars without moving its offset on
  (`asteroids.js:483`), so it pairs wrong coordinates; `ReadStars` does what it does,
  and no property says that the stars are right.
* A buffer is overrun, or bullets have no ship, when something counted changes before
  it is filled in; TickMessage records it (`raced`) and claims nothing of it.
* A connection whose write failed while its reads go on sends nothing more and discards
  every buffer; a client that closes its side gets no answer to what it asked before.
* The queue of a connection whose write stalls grows with every tick; the code states
  no limit.

Abstracted or left out for good:

* windows wider than the universe (8192) or narrower than a margin; `m_wrap_viewport`,
  which is never set; angles, the shapes of bodies and where rocks and bullets are;
* keys released while the browser has no focus; servers that are big-endian;
* the handlers of the base class GameSession, which echo and are all overridden;
  `Cancel`, `GetTick` and the `get_` functions without an offset, which nobody calls;
* TLS and its certificate, MIME types and the text of HTTP messages, drawing,
  `game.js` and `www/echo`, which have no state shared with the server's game.

What a next step could be: that the HTTP pipeline is a FIFO as well; the combination of
the game's and the transmit path's ticks; and an abstract clock that GeoffProcess
implements.
