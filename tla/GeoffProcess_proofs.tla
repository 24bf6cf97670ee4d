------------------------ MODULE GeoffProcess_proofs ------------------------
(***************************************************************************)
(* Proofs about the life of the process, for any number of threads.        *)
(***************************************************************************)
EXTENDS GeoffProcess, TLAPS

\* Places of the main thread once it has joined the others, and once the io_context
\* is gone.
Last == {"joined", "returned", "destroying", "exited"}
Gone == {"returned", "destroying", "exited"}

\* The mutexes are held where the code holds them, and nowhere else.
LocksHeld ==
    /\ \A t \in Pool :
          /\ pc[t] \in {"constructing", "built"} => holder["sessions"] = t
          /\ pc[t] \in {"ticking", "rearmed", "destroying"} => holder["timer"] = t
          /\ holder["sessions"] = t =>
                pc[t] \in {"constructing", "ticker", "ticking", "rearmed", "built"}
          /\ holder["timer"] = t => pc[t] \in {"ticking", "rearmed", "destroying"}

\* Who holds the sessions' mutex in a tick is building the universe.
Building ==
    /\ \A t \in Pool :
          pc[t] # "constructing" /\ holder["sessions"] = t => universe = "building"
    /\ universe = "building" /\ context = "up" =>
          holder["sessions"] # Nobody /\ pc[holder["sessions"]] # "constructing"

\* The main thread goes last, and takes the io_context with it.
MainLast ==
    /\ \A t \in Pool : pc[t] \in Last => t = Main
    /\ pc[Main] \in Last => \A t \in Pool \ {Main} : pc[t] = "left"
    /\ pc[Main] \in Gone <=> context = "destroyed"

InTick(t) == pc[t] \in {"ticker", "ticking"}

\* The chain of ticks, thread by thread.
Clock ==
    context = "up" =>
        /\ armed => \A t \in Pool : ~InTick(t)
        /\ \A t, u \in Pool : InTick(t) /\ InTick(u) => t = u
        /\ universe = "absent" => ~armed /\ \A t \in Pool : ~InTick(t)
        /\ universe # "absent" /\ ~armed /\ ~timerError => \E t \in Pool : InTick(t)
        /\ timerError => universe # "absent" /\ ~armed /\ \A t \in Pool : ~InTick(t)

IInv ==
    /\ TypeOK
    /\ LocksHeld
    /\ Building
    /\ MainLast
    /\ Clock
    /\ UniverseBeforeSessions

LEMMA Threads0 == Main \in Pool /\ Nobody \notin Pool
BY ConstantsAssumption DEF Main, Pool, Nobody

LEMMA InitOK == Init => IInv
<1> SUFFICES ASSUME Init
             PROVE  IInv
  OBVIOUS
<1> USE DEF Init
<1>1. TypeOK
  <2>1. pc \in [Pool -> Places]
    BY DEF Places
  <2>2. holder \in [{"sessions", "timer"} -> Pool \cup {Nobody}]
    OBVIOUS
  <2>3. retries \in 0 .. MaxRetries
    BY ConstantsAssumption
  <2> QED BY <2>1, <2>2, <2>3 DEF TypeOK
<1>2. LocksHeld /\ Building /\ UniverseBeforeSessions
  BY Threads0 DEF LocksHeld, Building, UniverseBeforeSessions
<1>3. MainLast
  BY Threads0 DEF MainLast, Last, Gone
<1>4. Clock
  <2>1. /\ ~armed /\ universe = "absent" /\ ~timerError
        /\ \A t \in Pool : ~InTick(t)
    BY DEF InTick
  <2> QED BY <2>1, Zenon DEF Clock
<1> QED BY <1>1, <1>2, <1>3, <1>4 DEF IInv

-----------------------------------------------------------------------------
\* The invariant, action by action.

LEMMA AcceptOK ==
    ASSUME IInv, NEW t \in Pool, Accept(t)
    PROVE  IInv'
<1> USE Threads0 DEF IInv
<1>1. TypeOK'
  BY DEF Accept, Goes, Holds, TypeOK, Places
<1>2. LocksHeld'
  BY DEF Accept, Goes, Holds, Free, Idle, MayAdd, TypeOK, LocksHeld
<1>3. Building'
  BY DEF Accept, Goes, Holds, Free, Idle, MayAdd, TypeOK, LocksHeld, Building, MainLast, Last, Gone
<1>4. MainLast'
  BY DEF Accept, Goes, Idle, TypeOK, MainLast, Last, Gone
<1>5. Clock'
  BY DEF Accept, Goes, Idle, TypeOK, LocksHeld, Building, MainLast, Last, Gone, Clock, InTick
<1>6. UniverseBeforeSessions'
  BY DEF Accept, Goes, TypeOK, LocksHeld, Building, UniverseBeforeSessions
<1> QED BY <1>1, <1>2, <1>3, <1>4, <1>5, <1>6

LEMMA LockSessionsOK ==
    ASSUME IInv, NEW t \in Pool, LockSessions(t)
    PROVE  IInv'
<1> USE Threads0 DEF IInv
<1>1. TypeOK'
  BY DEF LockSessions, Goes, Holds, TypeOK, Places
<1>2. LocksHeld'
  BY DEF LockSessions, Goes, Holds, Free, Idle, MayAdd, TypeOK, LocksHeld
<1>3. Building'
  BY DEF LockSessions, Goes, Holds, Free, Idle, MayAdd, TypeOK, LocksHeld, Building, MainLast, Last, Gone
<1>4. MainLast'
  BY DEF LockSessions, Goes, Idle, TypeOK, MainLast, Last, Gone
<1>5. Clock'
  BY DEF LockSessions, Goes, Idle, TypeOK, LocksHeld, Building, MainLast, Last, Gone, Clock, InTick
<1>6. UniverseBeforeSessions'
  BY DEF LockSessions, Goes, TypeOK, LocksHeld, Building, UniverseBeforeSessions
<1> QED BY <1>1, <1>2, <1>3, <1>4, <1>5, <1>6

LEMMA MakeUniverseOK ==
    ASSUME IInv, NEW t \in Pool, MakeUniverse(t)
    PROVE  IInv'
<1> USE Threads0 DEF IInv
<1>1. TypeOK'
  BY DEF MakeUniverse, Goes, Holds, TypeOK, Places
<1>2. LocksHeld'
  BY DEF MakeUniverse, Goes, Holds, Free, Idle, MayAdd, TypeOK, LocksHeld
<1>3. Building'
  BY DEF MakeUniverse, Goes, Holds, Free, Idle, MayAdd, TypeOK, LocksHeld, Building, MainLast, Last, Gone
<1>4. MainLast'
  BY DEF MakeUniverse, Goes, Idle, TypeOK, MainLast, Last, Gone
<1>5. Clock'
  BY DEF MakeUniverse, Goes, Idle, TypeOK, LocksHeld, Building, MainLast, Last, Gone, Clock, InTick
<1>6. UniverseBeforeSessions'
  BY DEF MakeUniverse, Goes, TypeOK, LocksHeld, Building, UniverseBeforeSessions
<1> QED BY <1>1, <1>2, <1>3, <1>4, <1>5, <1>6

LEMMA AddedOK ==
    ASSUME IInv, NEW t \in Pool, Added(t)
    PROVE  IInv'
<1> USE Threads0 DEF IInv
<1>1. TypeOK'
  BY DEF Added, Goes, Holds, TypeOK, Places
<1>2. LocksHeld'
  BY DEF Added, Goes, Holds, Free, Idle, MayAdd, TypeOK, LocksHeld
<1>3. Building'
  BY DEF Added, Goes, Holds, Free, Idle, MayAdd, TypeOK, LocksHeld, Building, MainLast, Last, Gone
<1>4. MainLast'
  BY DEF Added, Goes, Idle, TypeOK, MainLast, Last, Gone
<1>5. Clock'
  BY DEF Added, Goes, Idle, TypeOK, LocksHeld, Building, MainLast, Last, Gone, Clock, InTick
<1>6. UniverseBeforeSessions'
  BY DEF Added, Goes, TypeOK, LocksHeld, Building, UniverseBeforeSessions
<1> QED BY <1>1, <1>2, <1>3, <1>4, <1>5, <1>6

LEMMA CloseOK ==
    ASSUME IInv, NEW t \in Pool, Close(t)
    PROVE  IInv'
<1> USE Threads0 DEF IInv
<1>1. TypeOK'
  BY DEF Close, Goes, Holds, TypeOK, Places
<1>2. LocksHeld'
  BY DEF Close, Goes, Holds, Free, Idle, MayAdd, TypeOK, LocksHeld
<1>3. Building'
  BY DEF Close, Goes, Holds, Free, Idle, MayAdd, TypeOK, LocksHeld, Building, MainLast, Last, Gone
<1>4. MainLast'
  BY DEF Close, Goes, Idle, TypeOK, MainLast, Last, Gone
<1>5. Clock'
  BY DEF Close, Goes, Idle, TypeOK, LocksHeld, Building, MainLast, Last, Gone, Clock, InTick
<1>6. UniverseBeforeSessions'
  BY DEF Close, Goes, TypeOK, LocksHeld, Building, UniverseBeforeSessions
<1> QED BY <1>1, <1>2, <1>3, <1>4, <1>5, <1>6

LEMMA EraseOK ==
    ASSUME IInv, NEW t \in Pool, Erase(t)
    PROVE  IInv'
<1> USE Threads0 DEF IInv
<1>1. TypeOK'
  BY DEF Erase, Goes, Holds, TypeOK, Places
<1>2. LocksHeld'
  BY DEF Erase, Goes, Holds, Free, Idle, MayAdd, TypeOK, LocksHeld
<1>3. Building'
  BY DEF Erase, Goes, Holds, Free, Idle, MayAdd, TypeOK, LocksHeld, Building, MainLast, Last, Gone
<1>4. MainLast'
  BY DEF Erase, Goes, Idle, TypeOK, MainLast, Last, Gone
<1>5. Clock'
  BY DEF Erase, Goes, Idle, TypeOK, LocksHeld, Building, MainLast, Last, Gone, Clock, InTick
<1>6. UniverseBeforeSessions'
  BY DEF Erase, Goes, TypeOK, LocksHeld, Building, UniverseBeforeSessions
<1> QED BY <1>1, <1>2, <1>3, <1>4, <1>5, <1>6

LEMMA ExpireOK ==
    ASSUME IInv, NEW t \in Pool, Expire(t)
    PROVE  IInv'
<1> USE Threads0 DEF IInv
<1>1. TypeOK'
  BY DEF Expire, Goes, Holds, TypeOK, Places
<1>2. LocksHeld'
  BY DEF Expire, Goes, Holds, Free, Idle, MayAdd, TypeOK, LocksHeld
<1>3. Building'
  BY DEF Expire, Goes, Holds, Free, Idle, MayAdd, TypeOK, LocksHeld, Building, MainLast, Last, Gone
<1>4. MainLast'
  BY DEF Expire, Goes, Idle, TypeOK, MainLast, Last, Gone
<1>5. Clock'
  BY DEF Expire, Goes, Idle, TypeOK, LocksHeld, Building, MainLast, Last, Gone, Clock, InTick
<1>6. UniverseBeforeSessions'
  BY DEF Expire, Goes, TypeOK, LocksHeld, Building, UniverseBeforeSessions
<1> QED BY <1>1, <1>2, <1>3, <1>4, <1>5, <1>6

LEMMA ExpireErrorOK ==
    ASSUME IInv, NEW t \in Pool, ExpireError(t)
    PROVE  IInv'
<1> USE Threads0 DEF IInv
<1>1. TypeOK'
  BY DEF ExpireError, Goes, Holds, TypeOK, Places
<1>2. LocksHeld'
  BY DEF ExpireError, Goes, Holds, Free, Idle, MayAdd, TypeOK, LocksHeld
<1>3. Building'
  BY DEF ExpireError, Goes, Holds, Free, Idle, MayAdd, TypeOK, LocksHeld, Building, MainLast, Last, Gone
<1>4. MainLast'
  BY DEF ExpireError, Goes, Idle, TypeOK, MainLast, Last, Gone
<1>5. Clock'
  BY DEF ExpireError, Goes, Idle, TypeOK, LocksHeld, Building, MainLast, Last, Gone, Clock, InTick
<1>6. UniverseBeforeSessions'
  BY DEF ExpireError, Goes, TypeOK, LocksHeld, Building, UniverseBeforeSessions
<1> QED BY <1>1, <1>2, <1>3, <1>4, <1>5, <1>6

LEMMA LockTimerOK ==
    ASSUME IInv, NEW t \in Pool, LockTimer(t)
    PROVE  IInv'
<1> USE Threads0 DEF IInv
<1>1. TypeOK'
  BY DEF LockTimer, Goes, Holds, TypeOK, Places
<1>2. LocksHeld'
  BY DEF LockTimer, Goes, Holds, Free, Idle, MayAdd, TypeOK, LocksHeld
<1>3. Building'
  BY DEF LockTimer, Goes, Holds, Free, Idle, MayAdd, TypeOK, LocksHeld, Building, MainLast, Last, Gone
<1>4. MainLast'
  BY DEF LockTimer, Goes, Idle, TypeOK, MainLast, Last, Gone
<1>5. Clock'
  BY DEF LockTimer, Goes, Idle, TypeOK, LocksHeld, Building, MainLast, Last, Gone, Clock, InTick
<1>6. UniverseBeforeSessions'
  BY DEF LockTimer, Goes, TypeOK, LocksHeld, Building, UniverseBeforeSessions
<1> QED BY <1>1, <1>2, <1>3, <1>4, <1>5, <1>6

LEMMA RearmOK ==
    ASSUME IInv, NEW t \in Pool, Rearm(t)
    PROVE  IInv'
<1> USE Threads0 DEF IInv
<1>1. TypeOK'
  BY DEF Rearm, Goes, Holds, TypeOK, Places
<1>2. LocksHeld'
  BY DEF Rearm, Goes, Holds, Free, Idle, MayAdd, TypeOK, LocksHeld
<1>3. Building'
  BY DEF Rearm, Goes, Holds, Free, Idle, MayAdd, TypeOK, LocksHeld, Building, MainLast, Last, Gone
<1>4. MainLast'
  BY DEF Rearm, Goes, Idle, TypeOK, MainLast, Last, Gone
<1>5. Clock'
  BY DEF Rearm, Goes, Idle, TypeOK, LocksHeld, Building, MainLast, Last, Gone, Clock, InTick
<1>6. UniverseBeforeSessions'
  BY DEF Rearm, Goes, TypeOK, LocksHeld, Building, UniverseBeforeSessions
<1> QED BY <1>1, <1>2, <1>3, <1>4, <1>5, <1>6

LEMMA RearmErrorOK ==
    ASSUME IInv, NEW t \in Pool, RearmError(t)
    PROVE  IInv'
<1> USE Threads0 DEF IInv
<1>1. TypeOK'
  BY DEF RearmError, Goes, Holds, TypeOK, Places
<1>2. LocksHeld'
  BY DEF RearmError, Goes, Holds, Free, Idle, MayAdd, TypeOK, LocksHeld
<1>3. Building'
  BY DEF RearmError, Goes, Holds, Free, Idle, MayAdd, TypeOK, LocksHeld, Building, MainLast, Last, Gone
<1>4. MainLast'
  BY DEF RearmError, Goes, Idle, TypeOK, MainLast, Last, Gone
<1>5. Clock'
  BY DEF RearmError, Goes, Idle, TypeOK, LocksHeld, Building, MainLast, Last, Gone, Clock, InTick
<1>6. UniverseBeforeSessions'
  BY DEF RearmError, Goes, TypeOK, LocksHeld, Building, UniverseBeforeSessions
<1> QED BY <1>1, <1>2, <1>3, <1>4, <1>5, <1>6

LEMMA TickedOK ==
    ASSUME IInv, NEW t \in Pool, Ticked(t)
    PROVE  IInv'
<1> USE Threads0 DEF IInv
<1>1. TypeOK'
  BY DEF Ticked, Goes, Holds, TypeOK, Places
<1>2. LocksHeld'
  BY DEF Ticked, Goes, Holds, Free, Idle, MayAdd, TypeOK, LocksHeld
<1>3. Building'
  BY DEF Ticked, Goes, Holds, Free, Idle, MayAdd, TypeOK, LocksHeld, Building, MainLast, Last, Gone
<1>4. MainLast'
  BY DEF Ticked, Goes, Idle, TypeOK, MainLast, Last, Gone
<1>5. Clock'
  BY DEF Ticked, Goes, Idle, TypeOK, LocksHeld, Building, MainLast, Last, Gone, Clock, InTick
<1>6. UniverseBeforeSessions'
  BY DEF Ticked, Goes, TypeOK, LocksHeld, Building, UniverseBeforeSessions
<1> QED BY <1>1, <1>2, <1>3, <1>4, <1>5, <1>6

LEMMA SignalOK ==
    ASSUME IInv, NEW t \in Pool, Signal(t)
    PROVE  IInv'
<1> USE Threads0 DEF IInv
<1>1. TypeOK'
  BY DEF Signal, Goes, Holds, TypeOK, Places
<1>2. LocksHeld'
  BY DEF Signal, Goes, Holds, Free, Idle, MayAdd, TypeOK, LocksHeld
<1>3. Building'
  BY DEF Signal, Goes, Holds, Free, Idle, MayAdd, TypeOK, LocksHeld, Building, MainLast, Last, Gone
<1>4. MainLast'
  BY DEF Signal, Goes, Idle, TypeOK, MainLast, Last, Gone
<1>5. Clock'
  BY DEF Signal, Goes, Idle, TypeOK, LocksHeld, Building, MainLast, Last, Gone, Clock, InTick
<1>6. UniverseBeforeSessions'
  BY DEF Signal, Goes, TypeOK, LocksHeld, Building, UniverseBeforeSessions
<1> QED BY <1>1, <1>2, <1>3, <1>4, <1>5, <1>6

LEMMA LeaveOK ==
    ASSUME IInv, NEW t \in Pool, Leave(t)
    PROVE  IInv'
<1> USE Threads0 DEF IInv
<1>1. TypeOK'
  BY DEF Leave, Goes, Holds, TypeOK, Places
<1>2. LocksHeld'
  BY DEF Leave, Goes, Holds, Free, Idle, MayAdd, TypeOK, LocksHeld
<1>3. Building'
  BY DEF Leave, Goes, Holds, Free, Idle, MayAdd, TypeOK, LocksHeld, Building, MainLast, Last, Gone
<1>4. MainLast'
  BY DEF Leave, Goes, Idle, TypeOK, MainLast, Last, Gone
<1>5. Clock'
  BY DEF Leave, Goes, Idle, TypeOK, LocksHeld, Building, MainLast, Last, Gone, Clock, InTick
<1>6. UniverseBeforeSessions'
  BY DEF Leave, Goes, TypeOK, LocksHeld, Building, UniverseBeforeSessions
<1> QED BY <1>1, <1>2, <1>3, <1>4, <1>5, <1>6

LEMMA JoinOK ==
    ASSUME IInv, Join
    PROVE  IInv'
<1> USE Threads0 DEF IInv
<1>1. TypeOK'
  BY ConstantsAssumption DEF Join, Goes, Holds, TypeOK, Places
<1>2. LocksHeld'
  BY DEF Join, Joined, Goes, Holds, Free, TypeOK, LocksHeld, MainLast, Last, Gone
<1>3. Building'
  BY DEF Join, Joined, Goes, Holds, Free, TypeOK, LocksHeld, Building, MainLast, Last, Gone
<1>4. MainLast'
  BY DEF Join, Joined, Goes, TypeOK, MainLast, Last, Gone
<1>5. Clock'
  BY DEF Join, Joined, Goes, TypeOK, MainLast, Last, Gone, Clock, InTick
<1>6. UniverseBeforeSessions'
  BY DEF Join, Goes, TypeOK, MainLast, Last, Gone, UniverseBeforeSessions
<1> QED BY <1>1, <1>2, <1>3, <1>4, <1>5, <1>6

LEMMA DestroyContextOK ==
    ASSUME IInv, DestroyContext
    PROVE  IInv'
<1> USE Threads0 DEF IInv
<1>1. TypeOK'
  BY ConstantsAssumption DEF DestroyContext, Goes, Holds, TypeOK, Places
<1>2. LocksHeld'
  BY DEF DestroyContext, Joined, Goes, Holds, Free, TypeOK, LocksHeld, MainLast, Last, Gone
<1>3. Building'
  BY DEF DestroyContext, Joined, Goes, Holds, Free, TypeOK, LocksHeld, Building, MainLast, Last, Gone
<1>4. MainLast'
  BY DEF DestroyContext, Joined, Goes, TypeOK, MainLast, Last, Gone
<1>5. Clock'
  BY DEF DestroyContext, Joined, Goes, TypeOK, MainLast, Last, Gone, Clock, InTick
<1>6. UniverseBeforeSessions'
  BY DEF DestroyContext, Goes, TypeOK, MainLast, Last, Gone, UniverseBeforeSessions
<1> QED BY <1>1, <1>2, <1>3, <1>4, <1>5, <1>6

LEMMA DestroyStaticsOK ==
    ASSUME IInv, DestroyStatics
    PROVE  IInv'
<1> USE Threads0 DEF IInv
<1>1. TypeOK'
  BY ConstantsAssumption DEF DestroyStatics, Goes, Holds, TypeOK, Places
<1>2. LocksHeld'
  BY DEF DestroyStatics, Joined, Goes, Holds, Free, TypeOK, LocksHeld, MainLast, Last, Gone
<1>3. Building'
  BY DEF DestroyStatics, Joined, Goes, Holds, Free, TypeOK, LocksHeld, Building, MainLast, Last, Gone
<1>4. MainLast'
  BY DEF DestroyStatics, Joined, Goes, TypeOK, MainLast, Last, Gone
<1>5. Clock'
  BY DEF DestroyStatics, Joined, Goes, TypeOK, MainLast, Last, Gone, Clock, InTick
<1>6. UniverseBeforeSessions'
  BY DEF DestroyStatics, Goes, TypeOK, MainLast, Last, Gone, UniverseBeforeSessions
<1> QED BY <1>1, <1>2, <1>3, <1>4, <1>5, <1>6

LEMMA RetryOK ==
    ASSUME IInv, Retry
    PROVE  IInv'
<1> USE Threads0 DEF IInv
<1>1. TypeOK'
  BY ConstantsAssumption DEF Retry, Goes, Holds, TypeOK, Places
<1>2. LocksHeld'
  BY DEF Retry, Joined, Goes, Holds, Free, TypeOK, LocksHeld, MainLast, Last, Gone
<1>3. Building'
  BY DEF Retry, Joined, Goes, Holds, Free, TypeOK, LocksHeld, Building, MainLast, Last, Gone
<1>4. MainLast'
  BY DEF Retry, Joined, Goes, TypeOK, MainLast, Last, Gone
<1>5. Clock'
  BY DEF Retry, Joined, Goes, TypeOK, MainLast, Last, Gone, Clock, InTick
<1>6. UniverseBeforeSessions'
  BY DEF Retry, Goes, TypeOK, MainLast, Last, Gone, UniverseBeforeSessions
<1> QED BY <1>1, <1>2, <1>3, <1>4, <1>5, <1>6

LEMMA DestroyTimerOK ==
    ASSUME IInv, DestroyTimer
    PROVE  IInv'
<1> USE Threads0 DEF IInv
<1>1. TypeOK'
  BY ConstantsAssumption DEF DestroyTimer, Goes, Holds, TypeOK, Places
<1>2. LocksHeld'
  BY DEF DestroyTimer, Joined, Goes, Holds, Free, TypeOK, LocksHeld, MainLast, Last, Gone
<1>3. Building'
  BY DEF DestroyTimer, Joined, Goes, Holds, Free, TypeOK, LocksHeld, Building, MainLast, Last, Gone
<1>4. MainLast'
  BY DEF DestroyTimer, Joined, Goes, TypeOK, MainLast, Last, Gone
<1>5. Clock'
  BY DEF DestroyTimer, Joined, Goes, TypeOK, MainLast, Last, Gone, Clock, InTick
<1>6. UniverseBeforeSessions'
  BY DEF DestroyTimer, Goes, TypeOK, MainLast, Last, Gone, UniverseBeforeSessions
<1> QED BY <1>1, <1>2, <1>3, <1>4, <1>5, <1>6

LEMMA StutterOK == IInv /\ UNCHANGED vars => IInv'
BY DEF IInv, TypeOK, LocksHeld, Building, MainLast, Clock, InTick, UniverseBeforeSessions, vars

LEMMA StepOK == IInv /\ [Next]_vars => IInv'
<1> SUFFICES ASSUME IInv, [Next]_vars
             PROVE  IInv'
  OBVIOUS
<1>1. ASSUME NEW t \in Pool, Accept(t) \/ Close(t) \/ Expire(t) \/ ExpireError(t) \/ Signal(t)
      PROVE  IInv'
  BY <1>1, AcceptOK, CloseOK, ExpireOK, ExpireErrorOK, SignalOK
<1>2. ASSUME NEW t \in Pool, Within(t)
      PROVE  IInv'
  BY <1>2, LockSessionsOK, MakeUniverseOK, AddedOK, EraseOK, LockTimerOK, RearmOK,
     RearmErrorOK, TickedOK, LeaveOK DEF Within
<1>3. CASE Ending
  BY <1>3, JoinOK, DestroyContextOK, DestroyStaticsOK, RetryOK, DestroyTimerOK DEF Ending
<1>4. CASE Exited \/ UNCHANGED vars
  BY <1>4, StutterOK DEF Exited
<1> QED BY <1>1, <1>2, <1>3, <1>4 DEF Next

THEOREM Invariance == Spec => []IInv
BY InitOK, StepOK, PTL DEF Spec

-----------------------------------------------------------------------------
\* What follows for the properties of the runs.

\* The state stays well typed.
THEOREM TypeCorrect == Spec => []TypeOK
BY Invariance, PTL DEF IInv

LEMMA ClockIsOne == IInv => OneClock
<1> SUFFICES ASSUME IInv, context = "up"
             PROVE  IF universe = "absent" THEN ~armed /\ Tickers = {}
                    ELSE IF armed \/ timerError THEN Tickers = {} /\ ~(armed /\ timerError)
                    ELSE \E t \in Pool : Tickers = {t}
  BY DEF OneClock
<1>1. \A t : t \in Tickers <=> t \in Pool /\ InTick(t)
  BY DEF Tickers, InTick
<1> QED BY <1>1 DEF IInv, Clock

\* There is one universe and one chain of ticks: add_session's mutex is held while
\* the first session makes them, and each tick starts the next under the timer's,
\* unless the timer is given an error, after which there are none.
THEOREM OneChainOfTicks == Spec => []OneClock
BY Invariance, ClockIsOne, PTL

\* No session is in the map before its handlers have a universe.
THEOREM SessionsHaveAUniverse == Spec => []UniverseBeforeSessions
BY Invariance, PTL DEF IInv

LEMMA GoneFirst == IInv => HandlersGoneFirst
<1> SUFFICES ASSUME IInv, context = "destroyed"
             PROVE  /\ \A t \in Pool \ {Main} : pc[t] = "left"
                    /\ holder["sessions"] = Nobody
                    /\ holder["timer"] \in {Nobody, Main}
  BY DEF HandlersGoneFirst
<1>1. pc[Main] \in Gone /\ \A t \in Pool \ {Main} : pc[t] = "left"
  BY DEF IInv, MainLast, Last, Gone
<1>2. \A m \in {"sessions", "timer"} : holder[m] \in Pool \cup {Nobody}
  BY DEF IInv, TypeOK
<1> QED BY <1>1, <1>2, Threads0 DEF IInv, LocksHeld, Gone

\* The io_context is destroyed when nobody can use it or holds a mutex any more.
THEOREM ThreadsGoneFirst == Spec => []HandlersGoneFirst
BY Invariance, GoneFirst, PTL
=============================================================================
