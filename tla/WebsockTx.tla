----------------------------- MODULE WebsockTx -----------------------------
(***************************************************************************)
(* The transmit path of the geoff server: the sessions registered in       *)
(* g_sessions, the websocket_session object behind each of them, the queue *)
(* of outgoing buffers between the two, and the 60 Hz timer that fills the *)
(* queues and posts a handler to each connection's strand to empty them.   *)
(*                                                                         *)
(* Handlers of one connection run on its strand, one at a time.  The timer *)
(* handler runs on the io_context: with one thread nothing runs beside it, *)
(* with more any other handler may run between two of its steps.           *)
(*                                                                         *)
(* Buffers are numbered per session in the order in which CommitTxBuffer   *)
(* queues them; "replies" are the SessionRegistered ones, all others are   *)
(* the UniverseTick and PlayerTick messages of one tick.                   *)
(*                                                                         *)
(* A step whose outcome C++ does not define sets "fault" to what went      *)
(* wrong, and the behaviour ends there.                                    *)
(***************************************************************************)
EXTENDS Naturals, Sequences, FiniteSets

CONSTANTS
    MaxSessions,   \* bound: connections accepted in a behaviour
    Threads,       \* threads running the io_context (argv[4])
    MaxTicks,      \* bound: timer ticks in a behaviour
    MaxRegisters   \* bound: RegisterSession requests a client sends (the
                   \* JavaScript client sends one, from onopen)

ASSUME ConstantsAssumption ==
    /\ MaxSessions \in Nat \ {0}
    /\ Threads \in Nat \ {0}
    /\ MaxTicks \in Nat
    /\ MaxRegisters \in Nat

VARIABLES
    nextId,       \* WebsockSessionManager::m_session_id
    sessions,     \* WebsockSessionManager::m_sessions, by id
    registered,   \* how often the session handled RegisterSession (> 0: m_player is set)
    queue,        \* WebsockSession::m_txQue, the numbers of the buffers in it
    reader,       \* the async_read chain of the websocket_session
    writeActive,  \* websocket_session::m_write_active
    inFlight,     \* buffers handed to async_write whose on_write has not run
    dangling,     \* those of inFlight the socket has yet to read, from freed memory
    posted,       \* handlers posted by the OnTxReady callback, not yet run
    tick,         \* where the timer handler is, and at which session
    ticks,        \* how many ticks have begun
    committed,    \* history: how many buffers were committed
    replies,      \* history: those that are SessionRegistered replies
    delivered,    \* history: the buffers written in full, in order
    writeFailed,  \* history: whether on_write was called with an error
    garbled,      \* history: whether one was written from memory reused meanwhile
    fault         \* undefined behaviour that was reached

connVars == <<registered, queue, reader, writeActive, inFlight, dangling, posted,
              committed, replies, delivered, writeFailed, garbled>>
vars == <<nextId, sessions, registered, queue, reader, writeActive, inFlight,
          dangling, posted, tick, ticks, committed, replies, delivered, writeFailed,
          garbled, fault>>

Ids == 0 .. MaxSessions - 1

\* m_sessions[id]: no entry, an entry with a null pointer, or a session.
Entries == {"absent", "null", "live"}

\* "none": not accepted.  "pending": an async_read is outstanding.  "closing": it
\* is answering the peer's close frame.  "closed": on_read saw error::closed.
\* "failed" and "aborted": on_read saw another error and issued no further read,
\* before or after the peer's close frame.
Readers == {"none", "pending", "closing", "closed", "failed", "aborted"}

Idle == [stage |-> "idle", at |-> 0]
Ticks == [stage : {"idle", "universe", "sessions"}, at : 0 .. MaxSessions]

Faults == {"none", "useAfterFree", "nullSession", "dataRace"}

Init ==
    /\ nextId = 0
    /\ sessions = [c \in Ids |-> "absent"]
    /\ registered = [c \in Ids |-> 0]
    /\ queue = [c \in Ids |-> <<>>]
    /\ reader = [c \in Ids |-> "none"]
    /\ writeActive = [c \in Ids |-> FALSE]
    /\ inFlight = [c \in Ids |-> {}]
    /\ dangling = [c \in Ids |-> {}]
    /\ posted = [c \in Ids |-> 0]
    /\ tick = Idle
    /\ ticks = 0
    /\ committed = [c \in Ids |-> 0]
    /\ replies = [c \in Ids |-> {}]
    /\ delivered = [c \in Ids |-> <<>>]
    /\ writeFailed = [c \in Ids |-> FALSE]
    /\ garbled = [c \in Ids |-> FALSE]
    /\ fault = "none"

\* Mutant: async_read is given a plain "this".
AliveWhileWriting(c) == inFlight[c] # {}

\* The outstanding operations hold the only shared_ptr to a websocket_session:
\* it lives while it reads or writes.
Alive(c) == reader[c] \in {"pending", "closing"} \/ inFlight[c] # {}

\* Mutant: the player is made when the session is.
HasPlayerAtOnce(c) == sessions[c] = "live"

\* Session::GetPlayer(): the browser has registered.
HasPlayer(c) == registered[c] > 0

\* A handler other than the timer's gets a thread: with one thread, only
\* between two ticks.
CanRun == fault = "none" /\ (tick.stage = "idle" \/ Threads > 1)

\* g_sessions is read without the mutex its writers take, by the timer handler and
\* by the handlers of every other connection than c.
MapOutcomes(c) ==
    IF Threads > 1 /\ (tick.stage # "idle" \/ \E d \in Ids \ {c} : Alive(d))
    THEN {"none", "dataRace"}
    ELSE {"none"}

\* The timer handler uses the players and the universe without a mutex.
GameOutcomes == IF tick.stage = "idle" THEN {"none"} ELSE {"none", "dataRace"}

\* TxQueueEmpty() reads m_txQue without the mutex under which the timer handler
\* pushes to the queue of a session with a player.
QueueOutcomes(c) == IF HasPlayer(c) THEN GameOutcomes ELSE {"none"}

-----------------------------------------------------------------------------
\* The steps on_read, on_write and the posted handler share.

\* Mutant: do_write does not look at m_write_active.
DoWriteAlways(popped, active) == popped

\* do_write(): which of the popped buffers (at most one) it hands to async_write.
\* With a write active it returns at once and the popped buffer is discarded.
DoWrite(popped, active) == IF active THEN {} ELSE popped

\* What GetNextTxBuffer() pops, and leaves.
Front(q) == IF q = <<>> THEN {} ELSE {Head(q)}
Rest(q) == IF q = <<>> THEN <<>> ELSE Tail(q)

\* TxQueueEmpty(), GetNextTxBuffer() and do_write(), on a session whose queue is
\* q, with "active" for m_write_active and "ops" for the writes outstanding.
\* async_write keeps the address of the buffer and the unique_ptr frees it when
\* the caller returns: what the socket did not take at once is dangling.
SendNext(c, q, active, ops) ==
    LET started == DoWrite(Front(q), active)
    IN  /\ queue' = [queue EXCEPT ![c] = Rest(q)]
        /\ writeActive' = [writeActive EXCEPT ![c] = active \/ q # <<>>]
        /\ inFlight' = [inFlight EXCEPT ![c] = ops \cup started]
        /\ \E late \in SUBSET started :
               dangling' = [dangling EXCEPT ![c] = (@ \cap ops) \cup late]

\* Mutant: push_front instead of push_back.
CommitInFront(c, q) == <<committed[c] + 1>> \o q

\* WebsockSession::CommitTxBuffer on queue q.
Commit(c, q) == Append(q, committed[c] + 1)

-----------------------------------------------------------------------------
\* A connection's life, on its strand.

\* on_accept: a session is created and registered under the next id, it gets its
\* OnTxReady callback, and the first read is started.  (The session's constructor
\* creates the universe and the timer when there is none yet.)
OnAccept ==
    /\ CanRun
    /\ nextId < MaxSessions
    /\ nextId' = nextId + 1
    /\ sessions' = [sessions EXCEPT ![nextId] = "live"]
    /\ reader' = [reader EXCEPT ![nextId] = "pending"]
    /\ fault' \in MapOutcomes(nextId)
    /\ UNCHANGED <<registered, queue, writeActive, inFlight, dangling, posted, tick,
                   ticks, committed, replies, delivered, writeFailed, garbled>>

\* on_read of a RegisterSession request: HandleNewSession makes a player and
\* commits the reply under the session's mutex; then the next buffer is sent and
\* the next read started.
OnReadRegister(c) ==
    /\ CanRun
    /\ reader[c] = "pending"
    /\ sessions[c] = "live"
    /\ registered[c] < MaxRegisters
    /\ registered' = [registered EXCEPT ![c] = @ + 1]
    /\ committed' = [committed EXCEPT ![c] = @ + 1]
    /\ replies' = [replies EXCEPT ![c] = @ \cup {committed[c] + 1}]
    /\ SendNext(c, Commit(c, queue[c]), writeActive[c], inFlight[c])
    /\ fault' \in GameOutcomes
    /\ UNCHANGED <<nextId, sessions, reader, posted, tick, ticks, delivered, writeFailed,
                   garbled>>

\* on_read of any other message (a key, a click, a resize, one that is too short
\* or unknown): nothing is committed, the next buffer is sent all the same.
OnReadInput(c) ==
    /\ CanRun
    /\ reader[c] = "pending"
    /\ sessions[c] = "live"
    /\ SendNext(c, queue[c], writeActive[c], inFlight[c])
    /\ fault' \in GameOutcomes
    /\ UNCHANGED <<nextId, sessions, registered, reader, posted, tick, ticks, committed,
                   replies, delivered, writeFailed, garbled>>

\* External (Boost.Beast): the pending read finds the peer's close frame.  Its
\* answer waits for the write that holds the stream, and writes started behind
\* it fail.
PeerClose(c) ==
    /\ fault = "none"
    /\ reader[c] = "pending"
    /\ inFlight[c] = {}
    /\ reader' = [reader EXCEPT ![c] = "closing"]
    /\ UNCHANGED <<nextId, sessions, registered, queue, writeActive, inFlight, dangling,
                   posted, tick, ticks, committed, replies, delivered, writeFailed, garbled,
                   fault>>

\* on_read with error::closed: OnClose erases the session, and its queue with it.
\* No further read is started.
OnReadClosed(c) ==
    /\ CanRun
    /\ reader[c] = "closing"
    /\ reader' = [reader EXCEPT ![c] = "closed"]
    /\ sessions' = [sessions EXCEPT ![c] = "absent"]
    /\ queue' = [queue EXCEPT ![c] = <<>>]
    /\ fault' \in MapOutcomes(c)
    /\ UNCHANGED <<nextId, registered, writeActive, inFlight, dangling, posted, tick,
                   ticks, committed, replies, delivered, writeFailed, garbled>>

\* on_read with any other error (a reset, a timeout, a protocol error), also while
\* the close frame is answered: the error is logged, and the session stays
\* registered.
OnReadError(c) ==
    /\ CanRun
    /\ reader[c] \in {"pending", "closing"}
    /\ reader' = [reader EXCEPT ![c] = IF @ = "pending" THEN "failed" ELSE "aborted"]
    /\ UNCHANGED <<nextId, sessions, registered, queue, writeActive, inFlight, dangling,
                   posted, tick, ticks, committed, replies, delivered, writeFailed, garbled,
                   fault>>

\* on_write without error: m_write_active is cleared and the next buffer is sent.
\* find_by_id(id) is m_sessions[id], which makes a null entry where there is none.
OnWrite(c) ==
    /\ CanRun
    /\ reader[c] \in {"pending", "failed"}
    /\ \E m \in inFlight[c] :
          /\ delivered' = [delivered EXCEPT ![c] = Append(@, m)]
          /\ \E reused \in IF m \in dangling[c] THEN BOOLEAN ELSE {FALSE} :
                 garbled' = [garbled EXCEPT ![c] = @ \/ reused]
          /\ IF sessions[c] = "live"
             THEN SendNext(c, queue[c], FALSE, inFlight[c] \ {m})
             ELSE /\ writeActive' = [writeActive EXCEPT ![c] = FALSE]
                  /\ inFlight' = [inFlight EXCEPT ![c] = @ \ {m}]
                  /\ dangling' = [dangling EXCEPT ![c] = @ \ {m}]
                  /\ UNCHANGED queue
    /\ sessions' = [sessions EXCEPT ![c] = IF @ = "absent" THEN "null" ELSE @]
    /\ fault' \in IF sessions[c] = "live" THEN QueueOutcomes(c) ELSE {"none"}
    /\ UNCHANGED <<nextId, registered, reader, posted, tick, ticks, committed, replies,
                   writeFailed>>

\* Mutant: on_write does not return after an error.
OnWriteErrorIgnored(c) ==
    /\ CanRun
    /\ \E m \in inFlight[c] :
          /\ inFlight' = [inFlight EXCEPT ![c] = @ \ {m}]
          /\ dangling' = [dangling EXCEPT ![c] = @ \ {m}]
    /\ writeActive' = [writeActive EXCEPT ![c] = FALSE]
    /\ sessions' = [sessions EXCEPT ![c] = IF @ = "absent" THEN "null" ELSE @]
    /\ writeFailed' = [writeFailed EXCEPT ![c] = TRUE]
    /\ UNCHANGED <<nextId, registered, queue, reader, posted, tick, ticks, committed,
                   replies, delivered, garbled, fault>>

\* on_write with an error: the error is logged.  m_write_active stays set.
OnWriteError(c) ==
    /\ CanRun
    /\ \E m \in inFlight[c] :
          /\ inFlight' = [inFlight EXCEPT ![c] = @ \ {m}]
          /\ dangling' = [dangling EXCEPT ![c] = @ \ {m}]
    /\ writeFailed' = [writeFailed EXCEPT ![c] = TRUE]
    /\ UNCHANGED <<nextId, sessions, registered, queue, reader, writeActive, posted, tick,
                   ticks, committed, replies, delivered, garbled, fault>>

\* Mutant: the callback runs the handler at once instead of posting it.
IsPostedAtOnce(c) == sessions[c] = "live"

\* The io_context has a handler of the callback's to run.
IsPosted(c) == posted[c] > 0

\* The handler posted by the OnTxReady callback.  It captured the session by
\* reference and the websocket_session by address, and keeps neither alive.
RunPosted(c) ==
    /\ CanRun
    /\ IsPosted(c)
    /\ posted' = [posted EXCEPT ![c] = @ - 1]
    /\ IF sessions[c] # "live" \/ (queue[c] # <<>> /\ ~Alive(c))
       THEN /\ fault' = "useAfterFree"
            /\ UNCHANGED <<queue, writeActive, inFlight, dangling>>
       ELSE /\ SendNext(c, queue[c], writeActive[c], inFlight[c])
            /\ fault' \in QueueOutcomes(c)
    /\ UNCHANGED <<nextId, sessions, registered, reader, tick, ticks, committed, replies,
                   delivered, writeFailed, garbled>>

-----------------------------------------------------------------------------
\* The timer handler: Ticker() calls Universe::TickEvent, which commits a
\* UniverseTick message to every session with a player, then every session's
\* TickEvent, which commits the PlayerTick message and calls OnTxReady; then it
\* re-arms the timer.  Sessions are visited in the order of their ids.

\* Mutant: the callback is only called for a queue that was empty.
OnTxReadyWhenEmpty(c) ==
    posted' = [posted EXCEPT ![c] = IF queue[c] = <<>> THEN @ + 1 ELSE @]

\* WebsockSession::OnTxReady: the callback posts a handler to the strand.
OnTxReady(c) == posted' = [posted EXCEPT ![c] = @ + 1]

\* A tick message for the session of c, if it has a player.
CommitTick(c) ==
    IF HasPlayer(c)
    THEN /\ queue' = [queue EXCEPT ![c] = Commit(c, @)]
         /\ committed' = [committed EXCEPT ![c] = @ + 1]
    ELSE UNCHANGED <<queue, committed>>

StartTick ==
    /\ fault = "none"
    /\ tick.stage = "idle"
    /\ nextId > 0
    /\ ticks < MaxTicks
    /\ ticks' = ticks + 1
    /\ tick' = [stage |-> "universe", at |-> 0]
    /\ UNCHANGED <<nextId, sessions, connVars, fault>>

\* Universe::TickEvent for the session at "tick.at".
UniverseTick ==
    LET c == tick.at IN
    /\ fault = "none"
    /\ tick.stage = "universe"
    /\ c < nextId
    /\ IF sessions[c] = "live"
       THEN CommitTick(c) /\ UNCHANGED fault
       ELSE /\ fault' = IF sessions[c] = "null" THEN "nullSession" ELSE fault
            /\ UNCHANGED <<queue, committed>>
    /\ tick' = [tick EXCEPT !.at = c + 1]
    /\ UNCHANGED <<nextId, sessions, registered, reader, writeActive, inFlight, dangling,
                   posted, ticks, replies, delivered, writeFailed, garbled>>

UniverseTicked ==
    /\ fault = "none"
    /\ tick = [stage |-> "universe", at |-> nextId]
    /\ tick' = [stage |-> "sessions", at |-> 0]
    /\ UNCHANGED <<nextId, sessions, connVars, ticks, fault>>

\* Session::TickEvent for the session at "tick.at": the callback uses the
\* websocket_session to reach its strand.
SessionTick ==
    LET c == tick.at IN
    /\ fault = "none"
    /\ tick.stage = "sessions"
    /\ c < nextId
    /\ IF sessions[c] = "live"
       THEN /\ CommitTick(c)
            /\ IF Alive(c)
               THEN OnTxReady(c) /\ UNCHANGED fault
               ELSE fault' = "useAfterFree" /\ UNCHANGED posted
       ELSE UNCHANGED <<queue, committed, posted, fault>>
    /\ tick' = [tick EXCEPT !.at = c + 1]
    /\ UNCHANGED <<nextId, sessions, registered, reader, writeActive, inFlight, dangling,
                   ticks, replies, delivered, writeFailed, garbled>>

EndTick ==
    /\ fault = "none"
    /\ tick = [stage |-> "sessions", at |-> nextId]
    /\ tick' = Idle
    /\ UNCHANGED <<nextId, sessions, connVars, ticks, fault>>

-----------------------------------------------------------------------------

Reading(c) == OnReadRegister(c) \/ OnReadInput(c) \/ PeerClose(c) \/ OnReadClosed(c) \/ OnReadError(c)
Writing(c) == OnWrite(c) \/ OnWriteError(c)
Ticking == UniverseTick \/ UniverseTicked \/ SessionTick \/ EndTick

Next ==
    \/ OnAccept
    \/ StartTick
    \/ Ticking
    \/ \E c \in Ids : Reading(c) \/ Writing(c) \/ RunPosted(c)

Spec == Init /\ [][Next]_vars

\* The io_context runs what is ready, the timer handler always returns, and a
\* write ends, well or not (a peer that takes nothing and says nothing runs into
\* the stream's idle timeout).  Nothing makes a client send or a tick begin.
Fairness ==
    /\ WF_vars(Ticking)
    /\ \A c \in Ids : WF_vars(Writing(c)) /\ WF_vars(RunPosted(c))

FairSpec == Spec /\ Fairness

-----------------------------------------------------------------------------
\* What the transmit path guarantees.

TypeOK ==
    /\ nextId \in 0 .. MaxSessions
    /\ sessions \in [Ids -> Entries]
    /\ registered \in [Ids -> 0 .. MaxRegisters]
    /\ queue \in [Ids -> Seq(Nat)]
    /\ reader \in [Ids -> Readers]
    /\ writeActive \in [Ids -> BOOLEAN]
    /\ inFlight \in [Ids -> SUBSET Nat]
    /\ dangling \in [Ids -> SUBSET Nat]
    /\ posted \in [Ids -> Nat]
    /\ tick \in Ticks
    /\ ticks \in 0 .. MaxTicks
    /\ committed \in [Ids -> Nat]
    /\ replies \in [Ids -> SUBSET Nat]
    /\ delivered \in [Ids -> Seq(Nat)]
    /\ writeFailed \in [Ids -> BOOLEAN]
    /\ garbled \in [Ids -> BOOLEAN]
    /\ fault \in Faults

\* Boost.Beast allows one async_write at a time on a stream: m_write_active is
\* set as long as there is one, whichever of on_read, on_write and the posted
\* handler started it.
OneWriteAtATime ==
    \A c \in Ids :
        /\ inFlight[c] # {} => writeActive[c]
        /\ \A m1, m2 \in inFlight[c] : m1 = m2

TickStillToPost(c) ==
    \/ tick.stage = "universe"
    \/ tick.stage = "sessions" /\ tick.at <= c

\* No buffer is left in a queue that nobody will look at again: while the
\* websocket_session lives and no write of its has failed, a queue that is not empty
\* has an outstanding write whose on_write will pop it, a posted handler that
\* will, or a tick on its way that posts one.  m_write_active alone is no such
\* promise: after a failed write it stays set with nothing outstanding, and the
\* connection's queue only grows and is discarded.
NothingStranded ==
    \A c \in Ids :
        queue[c] # <<>> /\ Alive(c) /\ ~writeFailed[c] /\ fault = "none" =>
            inFlight[c] # {} \/ posted[c] > 0 \/ TickStillToPost(c)

\* The browser learns its session id before anything else: the first buffer it
\* receives is its registration reply, although the timer commits buffers to the
\* same queue from the moment there is a player.
ReplyComesFirst ==
    \A c \in Ids :
        delivered[c] # <<>> => delivered[c][1] = 1 /\ 1 \in replies[c]

\* The timer handler and the handlers it posts use a session, or its
\* websocket_session, after its destruction only when a connection has ended: one
\* whose on_read saw the peer close, or one whose reads stopped with another error
\* and that has no write left to keep it alive.  This speaks of the two objects;
\* the buffers a write points into are freed on connections that last, too.
AliveUntilEnded ==
    fault = "useAfterFree" =>
        \E c \in Ids :
            \/ reader[c] = "closed"
            \/ reader[c] \in {"failed", "aborted"} /\ inFlight[c] = {}

\* FindSessionByID from on_write never plants a null entry for a session that was
\* closed meanwhile: the universe would dereference it at the next tick.
NoNullSession ==
    /\ \A c \in Ids : sessions[c] # "null"
    /\ fault # "nullSession"

\* Every connection's transmit path is a FIFO that may lose buffers but neither
\* reorders nor duplicates them.
Pending(c) == inFlight[c] \cup {queue[c][i] : i \in DOMAIN queue[c]}

Fifo(c) == INSTANCE LossyFifo
    WITH accepted <- committed[c], pending <- Pending(c), delivered <- delivered[c]

EveryPathIsFifo ==
    /\ \A c \in Ids : Fifo(c)!Init
    /\ [][ \A c \in Ids : Fifo(c)!Next \/ UNCHANGED Fifo(c)!vars ]_vars

\* While its connection lasts and its writes succeed, a queue that holds a buffer
\* is emptied.
QueueDrains ==
    \A c \in Ids :
        queue[c] # <<>> ~> \/ queue[c] = <<>>
                          \/ writeFailed[c]
                          \/ reader[c] \in {"failed", "aborted"}
                          \/ fault # "none"
=============================================================================
