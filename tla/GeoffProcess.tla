---------------------------- MODULE GeoffProcess ----------------------------
(***************************************************************************)
(* The process from the moment its threads run the io_context to its end:  *)
(* the session whose constructor makes the universe, and with it the timer *)
(* that re-arms itself for ever; the signal that stops the io_context; and *)
(* the destructors of what Geoff() and the program leave behind.           *)
(*                                                                         *)
(* Every thread of the pool runs handlers; those that neither take one of  *)
(* the two mutexes modelled nor touch the universe are left out.  The      *)
(* mutexes are always taken in one order: the sessions' before the timer's.*)
(***************************************************************************)
EXTENDS Integers, FiniteSets

CONSTANTS
    Threads,        \* threads running the io_context (argv[4])
    MaxSessions,    \* bound: sessions at a time
    MaxRetries      \* how often ~Timer looks for m_timer_complete, 50

ASSUME ConstantsAssumption ==
    /\ Threads \in Nat \ {0}
    /\ MaxSessions \in Nat \ {0}
    /\ MaxRetries \in Nat

\* The thread that runs Geoff() is one of the pool.
Main == 0
Pool == 0 .. Threads - 1
Nobody == -1

VARIABLES
    pc,         \* where each thread is
    holder,     \* who holds m_sessions_mutex and m_timer_mutex
    sessions,   \* how many sessions g_sessions has
    universe,   \* g_universe: "building" while its constructor runs
    armed,      \* whether the timer has an async_wait outstanding
    stopped,    \* io_context::stop() was called
    context,    \* the io_context
    retries,    \* ~Timer's retries
    timerError  \* history: whether the timer was given an error by the system

vars == <<pc, holder, sessions, universe, armed, stopped, context, retries, timerError>>

\* "run": in io_context::run(), between two handlers.
\* "adding", "constructing", "built": in add_session, before it has its mutex, in
\* the session's constructor, and with the universe made but not yet published.
\* "closing": in delete_by_id, before it has its mutex.
\* "ticker", "ticking", "rearmed": in Timer::Ticker, before it has its mutex, with
\* it, and with the next wait started or given up.
\* "left": run() has returned.  The others are the main thread's.
Places == {"run", "adding", "constructing", "built", "closing", "ticker", "ticking",
           "rearmed", "left", "joined", "returned", "destroying", "exited"}

Init ==
    /\ pc = [t \in Pool |-> "run"]
    /\ holder = [m \in {"sessions", "timer"} |-> Nobody]
    /\ sessions = 0
    /\ universe = "absent"
    /\ armed = FALSE
    /\ stopped = FALSE
    /\ context = "up"
    /\ retries = MaxRetries
    /\ timerError = FALSE

\* run() gives the thread a handler.
Idle(t) == pc[t] = "run" /\ ~stopped

Goes(t, place) == pc' = [pc EXCEPT ![t] = place]
Free(m) == holder[m] = Nobody
Holds(t, m) == holder' = [holder EXCEPT ![m] = t]

-----------------------------------------------------------------------------
\* Sessions come and go.

Accept(t) ==
    /\ Idle(t)
    /\ sessions < MaxSessions
    /\ Goes(t, "adding")
    /\ UNCHANGED <<holder, sessions, universe, armed, stopped, context, retries, timerError>>

\* Mutant: add_session makes the session before it takes the mutex.
MayAddUnlocked == TRUE

MayAdd == Free("sessions")

LockSessions(t) ==
    /\ pc[t] = "adding"
    /\ MayAdd
    /\ Holds(t, "sessions")
    /\ Goes(t, "constructing")
    /\ UNCHANGED <<sessions, universe, armed, stopped, context, retries, timerError>>

\* GetUniverse in the constructor of a session, as g_universe is null.  Universe's
\* constructor makes the timer, whose constructor runs the first Ticker.
MakeUniverse(t) ==
    /\ pc[t] = "constructing"
    /\ universe # "present"
    /\ universe' = "building"
    /\ Goes(t, "ticker")
    /\ UNCHANGED <<holder, sessions, armed, stopped, context, retries, timerError>>

\* Mutant: the entry is made before the session that goes into it.
AddedEarly(t) ==
    /\ pc[t] = "constructing"
    /\ sessions' = sessions + 1
    /\ Holds(Nobody, "sessions")
    /\ Goes(t, "run")
    /\ UNCHANGED <<universe, armed, stopped, context, retries, timerError>>

\* The session is complete and goes into the map.
Added(t) ==
    /\ \/ pc[t] = "constructing" /\ universe = "present" /\ UNCHANGED universe
       \/ pc[t] = "built" /\ universe' = "present"
    /\ sessions' = sessions + 1
    /\ Holds(Nobody, "sessions")
    /\ Goes(t, "run")
    /\ UNCHANGED <<armed, stopped, context, retries, timerError>>

\* on_read finds that the peer has closed, which it does once in a session.
Close(t) ==
    /\ Idle(t)
    /\ Cardinality({u \in Pool : pc[u] = "closing"}) < sessions
    /\ Goes(t, "closing")
    /\ UNCHANGED <<holder, sessions, universe, armed, stopped, context, retries, timerError>>

Erase(t) ==
    /\ pc[t] = "closing"
    /\ Free("sessions")
    /\ sessions' = IF sessions > 0 THEN sessions - 1 ELSE 0
    /\ Goes(t, "run")
    /\ UNCHANGED <<holder, universe, armed, stopped, context, retries, timerError>>

-----------------------------------------------------------------------------
\* The timer.

\* The wait ends: its handler calls Ticker.
Expire(t) ==
    /\ Idle(t)
    /\ armed
    /\ armed' = FALSE
    /\ Goes(t, "ticker")
    /\ UNCHANGED <<holder, sessions, universe, stopped, context, retries, timerError>>

\* The wait ends with an error: its handler traces it and returns.
ExpireError(t) ==
    /\ Idle(t)
    /\ armed
    /\ armed' = FALSE
    /\ timerError' = TRUE
    /\ UNCHANGED <<pc, holder, sessions, universe, stopped, context, retries>>

LockTimer(t) ==
    /\ pc[t] = "ticker"
    /\ Free("timer")
    /\ Holds(t, "timer")
    /\ Goes(t, "ticking")
    /\ UNCHANGED <<sessions, universe, armed, stopped, context, retries, timerError>>

\* Mutant: a tick without a universe returns before it re-arms the timer.
RearmWithUniverse(t) ==
    /\ pc[t] = "ticking"
    /\ armed' = (universe = "present")
    /\ Goes(t, "rearmed")
    /\ UNCHANGED <<holder, sessions, universe, stopped, context, retries, timerError>>

\* After TickEvent, which skips a universe that is not published yet, the next wait
\* is started; m_timer_mutex is still held.
Rearm(t) ==
    /\ pc[t] = "ticking"
    /\ armed' = TRUE
    /\ Goes(t, "rearmed")
    /\ UNCHANGED <<holder, sessions, universe, stopped, context, retries, timerError>>

\* expires_from_now gives an error: Ticker traces it and starts no wait.
RearmError(t) ==
    /\ pc[t] = "ticking"
    /\ timerError' = TRUE
    /\ Goes(t, "rearmed")
    /\ UNCHANGED <<holder, sessions, universe, armed, stopped, context, retries>>

\* Ticker returns, to run() or to the constructors.
Ticked(t) ==
    /\ pc[t] = "rearmed"
    /\ Holds(Nobody, "timer")
    /\ Goes(t, IF holder["sessions"] = t THEN "built" ELSE "run")
    /\ UNCHANGED <<sessions, universe, armed, stopped, context, retries, timerError>>

-----------------------------------------------------------------------------
\* The end.

\* SIGINT or SIGTERM: the handler stops the io_context.
Signal(t) ==
    /\ Idle(t)
    /\ stopped' = TRUE
    /\ UNCHANGED <<pc, holder, sessions, universe, armed, context, retries, timerError>>

\* run() returns to a thread when it has finished its handler.
Leave(t) ==
    /\ pc[t] = "run"
    /\ stopped
    /\ Goes(t, "left")
    /\ UNCHANGED <<holder, sessions, universe, armed, stopped, context, retries, timerError>>

\* Mutant: the threads are detached.
JoinedAtOnce == pc[Main] = "left"

Joined == pc[Main] = "left" /\ \A t \in Pool \ {Main} : pc[t] = "left"

Join ==
    /\ Joined
    /\ Goes(Main, "joined")
    /\ UNCHANGED <<holder, sessions, universe, armed, stopped, context, retries, timerError>>

\* Geoff() returns: the io_context goes with its services, its sockets, and all the
\* handlers that still wait for something.
DestroyContext ==
    /\ pc[Main] = "joined"
    /\ context' = "destroyed"
    /\ armed' = FALSE
    /\ Goes(Main, "returned")
    /\ UNCHANGED <<holder, sessions, universe, stopped, retries, timerError>>

\* main() has returned and static objects are destroyed, g_universe and its timer
\* if there are any: ~Timer takes the mutex.
DestroyStatics ==
    /\ pc[Main] = "returned"
    /\ \/ /\ universe = "absent"
          /\ Goes(Main, "exited")
          /\ UNCHANGED holder
       \/ /\ universe # "absent"
          /\ Free("timer")
          /\ Holds(Main, "timer")
          /\ Goes(Main, "destroying")
    /\ UNCHANGED <<sessions, universe, armed, stopped, context, retries, timerError>>

\* Mutant: the retries are not checked.
RetryUnchecked ==
    /\ pc[Main] = "destroying"
    /\ retries' = retries - 1
    /\ UNCHANGED <<pc, holder, sessions, universe, armed, stopped, context, timerError>>

\* Mutant: ~Timer waits as long as it takes.
RetryForEver ==
    /\ pc[Main] = "destroying"
    /\ UNCHANGED vars

\* ~Timer sleeps, with the mutex, as long as m_timer_complete is not set.  Only a
\* Ticker sets it, and there is no thread left to run one.
Retry ==
    /\ pc[Main] = "destroying"
    /\ retries > 0
    /\ retries' = retries - 1
    /\ UNCHANGED <<pc, holder, sessions, universe, armed, stopped, context, timerError>>

\* The retries are used up: m_timer and g_universe go.
DestroyTimer ==
    /\ pc[Main] = "destroying"
    /\ retries = 0
    /\ universe' = "absent"
    /\ Holds(Nobody, "timer")
    /\ Goes(Main, "exited")
    /\ UNCHANGED <<sessions, armed, stopped, context, retries, timerError>>

Exited == pc[Main] = "exited" /\ UNCHANGED vars

-----------------------------------------------------------------------------

\* What a thread does once it has a handler.
Within(t) ==
    \/ LockSessions(t) \/ MakeUniverse(t) \/ Added(t)
    \/ Erase(t)
    \/ LockTimer(t) \/ Rearm(t) \/ RearmError(t) \/ Ticked(t)
    \/ Leave(t)

Ending == Join \/ DestroyContext \/ DestroyStatics \/ Retry \/ DestroyTimer

Next ==
    \/ \E t \in Pool : Accept(t) \/ Close(t) \/ Signal(t) \/ Within(t)
    \/ \E t \in Pool : Expire(t) \/ ExpireError(t)
    \/ Ending
    \/ Exited

Spec == Init /\ [][Next]_vars

\* The system runs every thread.  The io_context queues the handlers that are ready
\* in order, so that one that always becomes ready again is not passed over for ever.
Fairness ==
    /\ \A t \in Pool : WF_vars(Within(t))
    /\ WF_vars(Ending)
    /\ SF_vars(\E t \in Pool : Expire(t))

FairSpec == Spec /\ Fairness

-----------------------------------------------------------------------------

TypeOK ==
    /\ pc \in [Pool -> Places]
    /\ holder \in [{"sessions", "timer"} -> Pool \cup {Nobody}]
    /\ sessions \in Nat
    /\ universe \in {"absent", "building", "present"}
    /\ armed \in BOOLEAN
    /\ stopped \in BOOLEAN
    /\ context \in {"up", "destroyed"}
    /\ retries \in 0 .. MaxRetries
    /\ timerError \in BOOLEAN

\* The threads that run a tick whose successor is not yet armed.
Tickers == {t \in Pool : pc[t] \in {"ticker", "ticking"}}

\* However many sessions register at once, there is one universe, and one chain of
\* ticks as long as the io_context is there: one wait, or one thread that will start
\* the next.  The chain only breaks when the timer is given an error.
OneClock ==
    context = "up" =>
        IF universe = "absent" THEN ~armed /\ Tickers = {}
        ELSE IF armed \/ timerError THEN Tickers = {} /\ ~(armed /\ timerError)
        ELSE \E t \in Pool : Tickers = {t}

\* A session is in the map only when the universe is there for its handlers.
UniverseBeforeSessions ==
    sessions > 0 /\ context = "up" => universe = "present"

\* Geoff() destroys the io_context when no thread can be in a handler any more, nor
\* hold a mutex that a destructor needs.
HandlersGoneFirst ==
    context = "destroyed" =>
        /\ \A t \in Pool \ {Main} : pc[t] = "left"
        /\ holder["sessions"] = Nobody
        /\ holder["timer"] \in {Nobody, Main}

\* Once there is a universe it is ticked, again and again, until somebody stops it
\* or the timer is given an error.
ClockRuns ==
    universe = "present" ~> stopped \/ timerError \/ \E t \in Pool : pc[t] = "ticking"

\* A process that is told to stop comes to its end, although ~Timer waits for a
\* handler that can never run.
ShutdownEnds == stopped ~> pc[Main] = "exited"
=============================================================================
