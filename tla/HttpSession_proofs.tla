------------------------- MODULE HttpSession_proofs -------------------------
(***************************************************************************)
(* Proofs about HttpSession, for every queue limit.  What couples the two  *)
(* chains of asynchronous operations is the queue: its length decides      *)
(* whether a read is outstanding, and whether a write is.  The order of    *)
(* the answers follows from the numbering of the queue.                    *)
(***************************************************************************)
EXTENDS HttpSession, TLAPS

\* Before the HTTP session exists there is nothing for it to do.
NotStarted ==
    stage # "http" => reads = 0 /\ input = "open" /\ queue = <<>> /\ received = 0

\* Until a response closed the connection, the queue holds the requests read and
\* not yet answered.
Numbered ==
    sender # "closed" =>
        /\ received = Len(answered) + Len(queue)
        /\ \A i \in 1 .. Len(queue) : queue[i].n = Len(answered) + i

\* Reading ends on a queue that is not full, and writing on one that is not empty,
\* so that neither chain is taken up again: on_write finds room only in a full
\* queue, and operator() starts a write only in an empty one.
EndsForGood ==
    /\ input # "open" => Len(queue) < Limit
    /\ sender # "open" => queue # <<>>

IInv ==
    /\ TypeOK
    /\ NotStarted
    /\ EndsForGood
    /\ ReadsWhileRoom
    /\ WritesFront
    /\ Numbered
    /\ AnswersInOrder

\* The inductive invariant holds initially.
LEMMA InitIInv == Init => IInv
<1> SUFFICES ASSUME Init PROVE IInv
  OBVIOUS
<1> USE ConstantsAssumption DEF Init
<1>1. queue \in Seq(Responses) /\ answered \in Seq(Responses)
  OBVIOUS
<1>2. Len(queue) = 0 /\ Len(answered) = 0 /\ DOMAIN answered = {}
  OBVIOUS
<1>3. TypeOK
  <2>1. shut \in BOOLEAN /\ late \in BOOLEAN
    OBVIOUS
  <2>2. reads = 0 /\ writes = 0 /\ received = 0 /\ stage = "listen"
    OBVIOUS
  <2>3. input = "open" /\ sender = "open" /\ fault = "none"
    OBVIOUS
  <2> HIDE DEF Init
  <2> QED
    BY <1>1, <1>2, <2>1, <2>2, <2>3 DEF TypeOK, Stages
<1>4. NotStarted /\ EndsForGood /\ ReadsWhileRoom
  <2>1. stage # "http" /\ input = "open" /\ sender = "open" /\ reads = 0
    OBVIOUS
  <2>2. NotStarted
    BY DEF NotStarted
  <2> QED
    BY <2>1, <2>2 DEF EndsForGood, ReadsWhileRoom
<1>5. WritesFront
  BY DEF WritesFront
<1>6. Numbered /\ AnswersInOrder
  BY <1>2 DEF Numbered, AnswersInOrder
<1> QED
  BY <1>3, <1>4, <1>5, <1>6 DEF IInv

\* on_read of a request keeps the inductive invariant.
LEMMA RequestStep == IInv /\ OnReadRequest => IInv'
<1> SUFFICES ASSUME IInv, OnReadRequest PROVE IInv'
  OBVIOUS
<1> USE ConstantsAssumption DEF IInv, OnReadRequest, CanRead, Starts, IsFull
<1>1. PICK close \in BOOLEAN : queue' = Append(queue, Response(received + 1, close))
  OBVIOUS
<1> DEFINE r == Response(received + 1, close)
<1>2. r \in Responses /\ r.n = received + 1
  BY DEF Response, Responses, TypeOK
<1>3. queue \in Seq(Responses) /\ queue' = Append(queue, r)
  BY <1>1 DEF TypeOK
<1> HIDE DEF r
<1>4. /\ queue' \in Seq(Responses)
      /\ Len(queue') = Len(queue) + 1
      /\ \A i \in 1 .. Len(queue) : queue'[i] = queue[i]
      /\ queue'[Len(queue) + 1] = r
      /\ queue' # <<>>
  BY <1>2, <1>3
<1>5. Len(queue) \in Nat /\ (queue = <<>> <=> Len(queue) = 0)
  BY <1>3
<1>6. reads = 1 /\ input = "open" /\ stage = "http" /\ Len(queue) < Limit
  BY DEF TypeOK, ReadsWhileRoom
<1>7. TypeOK'
  BY <1>4, <1>5, <1>6 DEF TypeOK
<1>8. NotStarted' /\ ReadsWhileRoom'
  BY <1>4, <1>5, <1>6 DEF TypeOK, NotStarted, ReadsWhileRoom
<1>9. WritesFront' /\ EndsForGood'
  BY <1>4, <1>6 DEF TypeOK, WritesFront, EndsForGood
<1>10. Numbered'
  <2>1. ASSUME sender # "closed"
        PROVE  /\ received' = Len(answered) + Len(queue')
               /\ \A i \in 1 .. Len(queue') : queue'[i].n = Len(answered) + i
    <3>1. Len(answered) \in Nat /\ received = Len(answered) + Len(queue)
      BY <2>1 DEF TypeOK, Numbered
    <3>2. \A i \in 1 .. Len(queue) : queue'[i].n = Len(answered) + i
      BY <2>1, <1>4 DEF Numbered
    <3>3. queue'[Len(queue) + 1].n = Len(answered) + Len(queue) + 1
      BY <1>2, <1>4, <3>1
    <3>4. ASSUME NEW i \in 1 .. Len(queue) + 1
          PROVE  queue'[i].n = Len(answered) + i
      <4>1. CASE i = Len(queue) + 1
        BY <4>1, <3>1, <3>3, <1>5
      <4>2. CASE i # Len(queue) + 1
        BY <4>2, <3>2, <1>5
      <4> QED
        BY <4>1, <4>2
    <3> QED
      BY <1>4, <1>5, <3>1, <3>4, SMTT(30)
  <2> QED
    BY <2>1 DEF Numbered
<1>11. AnswersInOrder'
  BY DEF AnswersInOrder
<1> QED
  BY <1>7, <1>8, <1>9, <1>10, <1>11

\* on_write of a response that keeps the connection keeps the inductive invariant.
LEMMA WriteNextStep == IInv /\ OnWriteNext => IInv'
<1> SUFFICES ASSUME IInv, OnWriteNext PROVE IInv'
  OBVIOUS
<1> USE ConstantsAssumption DEF IInv, OnWriteNext, CanWrite, Continues, IsFull, WasFull, Closes
<1> DEFINE r == Head(queue)
<1>1. /\ queue \in Seq(Responses) /\ answered \in Seq(Responses)
      /\ queue # <<>> /\ writes = 1 /\ sender = "open"
  BY DEF TypeOK, WritesFront
<1>2. /\ r \in Responses /\ r = queue[1] /\ ~r.close
      /\ Len(queue) \in Nat \ {0}
  BY <1>1
<1>3. /\ queue' \in Seq(Responses)
      /\ Len(queue') = Len(queue) - 1
      /\ \A i \in 1 .. Len(queue') : queue'[i] = queue[i + 1]
      /\ queue' = <<>> <=> Len(queue) = 1
  <2>1. queue' = Tail(queue)
    OBVIOUS
  <2>2. queue' \in Seq(Responses) /\ Len(queue') = Len(queue) - 1
    BY <1>1, <2>1
  <2>3. \A i \in 1 .. Len(queue) - 1 : Tail(queue)[i] = queue[i + 1]
    BY <1>1
  <2>4. queue' = <<>> <=> Len(queue') = 0
    BY <2>2, SMTT(30)
  <2> QED
    BY <1>2, <2>1, <2>2, <2>3, <2>4, SMTT(30)
<1>4. answered' = Append(answered, r)
  OBVIOUS
<1> HIDE DEF r
<1>5. /\ answered' \in Seq(Responses)
      /\ Len(answered) \in Nat
      /\ Len(answered') = Len(answered) + 1
      /\ DOMAIN answered' = 1 .. Len(answered) + 1
      /\ DOMAIN answered = 1 .. Len(answered)
      /\ \A i \in 1 .. Len(answered) : answered'[i] = answered[i]
      /\ answered'[Len(answered) + 1] = r
  BY <1>1, <1>2, <1>4
<1>6. TypeOK'
  BY <1>1, <1>2, <1>3, <1>5 DEF TypeOK
<1>7. ReadsWhileRoom'
  <2>1. stage = "http" /\ Len(queue) <= Limit /\ Limit \in Nat /\ reads \in Nat
    BY <1>1 DEF TypeOK, NotStarted
  <2>2. CASE Len(queue) = Limit
    <3>1. input = "open" /\ reads = 0
      BY <1>2, <2>1, <2>2 DEF ReadsWhileRoom, EndsForGood
    <3> QED
      BY <1>2, <1>3, <2>1, <2>2, <3>1 DEF ReadsWhileRoom
  <2>3. CASE Len(queue) # Limit
    <3>1. Len(queue) < Limit /\ Len(queue') < Limit
      <4> HIDE DEF OnWriteNext, IInv
      <4>1. Len(queue) \in Nat /\ Len(queue') = Len(queue) - 1
        BY <1>2, <1>3
      <4> QED
        BY <4>1, <2>1, <2>3
    <3>2. reads' = reads
      BY <1>2, <2>1, <3>1
    <3>3. UNCHANGED <<stage, input>>
      OBVIOUS
    <3> HIDE DEF OnWriteNext
    <3> QED
      BY <2>1, <3>1, <3>2, <3>3 DEF ReadsWhileRoom
  <2> QED
    BY <2>2, <2>3
<1>8. NotStarted' /\ EndsForGood'
  BY <1>1, <1>2, <1>3 DEF TypeOK, NotStarted, EndsForGood
<1>9. WritesFront'
  BY <1>1, <1>3 DEF WritesFront
<1>10. Numbered'
  BY <1>1, <1>2, <1>3, <1>5 DEF Numbered
<1>11. r.n = Len(answered) + 1
  BY <1>1, <1>2, <1>5 DEF Numbered
<1>12. AnswersInOrder'
  BY <1>1, <1>2, <1>5, <1>11 DEF AnswersInOrder
<1> QED
  BY <1>6, <1>7, <1>8, <1>9, <1>10, <1>12

\* on_write of a response that ends the connection keeps the inductive invariant.
LEMMA WriteCloseStep == IInv /\ OnWriteClose => IInv'
<1> SUFFICES ASSUME IInv, OnWriteClose PROVE IInv'
  OBVIOUS
<1> USE ConstantsAssumption DEF IInv, OnWriteClose, CanWrite, Closes
<1> DEFINE r == Head(queue)
<1>1. /\ queue \in Seq(Responses) /\ answered \in Seq(Responses)
      /\ queue # <<>> /\ writes = 1 /\ sender = "open"
  BY DEF TypeOK, WritesFront
<1>2. r \in Responses /\ r = queue[1] /\ Len(queue) \in Nat \ {0}
  BY <1>1
<1>3. answered' = Append(answered, r)
  OBVIOUS
<1> HIDE DEF r
<1>4. /\ answered' \in Seq(Responses)
      /\ Len(answered) \in Nat
      /\ Len(answered') = Len(answered) + 1
      /\ DOMAIN answered' = 1 .. Len(answered) + 1
      /\ DOMAIN answered = 1 .. Len(answered)
      /\ \A i \in 1 .. Len(answered) : answered'[i] = answered[i]
      /\ answered'[Len(answered) + 1] = r
  BY <1>1, <1>2, <1>3
<1>5. TypeOK'
  BY <1>1, <1>4 DEF TypeOK
<1>6. NotStarted' /\ EndsForGood' /\ ReadsWhileRoom' /\ WritesFront' /\ Numbered'
  BY <1>1 DEF NotStarted, EndsForGood, ReadsWhileRoom, WritesFront, Numbered
<1>7. r.n = Len(answered) + 1
  BY <1>1, <1>2, <1>4 DEF Numbered
<1>8. AnswersInOrder'
  BY <1>1, <1>4, <1>7 DEF AnswersInOrder
<1> QED
  BY <1>5, <1>6, <1>8

\* Every step keeps the inductive invariant.
LEMMA NextIInv == IInv /\ [Next]_vars => IInv'
<1> SUFFICES ASSUME IInv, [Next]_vars PROVE IInv'
  OBVIOUS
<1> USE ConstantsAssumption
<1>1. CASE OnAccept
  BY <1>1 DEF OnAccept, pipeVars, IInv, TypeOK, NotStarted, EndsForGood, ReadsWhileRoom, WritesFront,
              Numbered, AnswersInOrder, Stages
<1>2. CASE OnDetect
  BY <1>2 DEF OnDetect, pipeVars, IInv, TypeOK, NotStarted, EndsForGood, ReadsWhileRoom, WritesFront,
              Numbered, AnswersInOrder, Stages
<1>3. CASE OnHandshake
  BY <1>3 DEF OnHandshake, pipeVars, IInv, TypeOK, NotStarted, EndsForGood, ReadsWhileRoom, WritesFront,
              Numbered, AnswersInOrder, Stages
<1>4. CASE OnReadRequest
  BY <1>4, RequestStep
<1>5. CASE OnReadUpgrade \/ OnReadEof \/ OnReadError
  <2> USE DEF OnReadUpgrade, OnReadEof, OnReadError, CanRead
  <2>1. reads = 1 /\ input = "open" /\ stage = "http" /\ Len(queue) < Limit
    BY <1>5 DEF IInv, TypeOK, ReadsWhileRoom
  <2>2. shut' \in BOOLEAN
    BY <1>5 DEF IInv, TypeOK
  <2>3. /\ reads' = 0
        /\ input' \in {"eof", "failed", "upgraded"}
        /\ UNCHANGED <<stage, queue, writes, sender, late, received, answered, fault>>
    BY <1>5, <2>1
  <2> HIDE DEF OnReadUpgrade, OnReadEof, OnReadError, CanRead
  <2>4. NotStarted' /\ EndsForGood' /\ ReadsWhileRoom'
    BY <2>1, <2>3 DEF IInv, NotStarted, EndsForGood, ReadsWhileRoom
  <2>5. WritesFront' /\ Numbered' /\ AnswersInOrder'
    BY <2>3 DEF IInv, WritesFront, Numbered, AnswersInOrder
  <2>6. TypeOK'
    BY <2>2, <2>3 DEF IInv, TypeOK
  <2> QED
    BY <2>4, <2>5, <2>6 DEF IInv
<1>6. CASE OnWriteNext
  BY <1>6, WriteNextStep
<1>7. CASE OnWriteClose
  BY <1>7, WriteCloseStep
<1>8. CASE OnWriteError
  BY <1>8 DEF OnWriteError, CanWrite, IInv, TypeOK, NotStarted, EndsForGood, ReadsWhileRoom, WritesFront,
              Numbered, AnswersInOrder
<1>9. CASE UseMovedStream
  BY <1>9 DEF UseMovedStream, CanWrite, IInv, TypeOK, NotStarted, EndsForGood, ReadsWhileRoom, WritesFront,
              Numbered, AnswersInOrder
<1>10. CASE UNCHANGED vars
  BY <1>10 DEF vars, IInv, TypeOK, NotStarted, EndsForGood, ReadsWhileRoom, WritesFront, Numbered,
               AnswersInOrder
<1> QED
  BY <1>1, <1>2, <1>3, <1>4, <1>5, <1>6, <1>7, <1>8, <1>9, <1>10
     DEF Next, Starting, Reading, Writing

\* The inductive invariant holds throughout.
LEMMA Invariance == Spec => []IInv
BY InitIInv, NextIInv, PTL DEF Spec

\* The state stays well typed, and the queue of responses within its limit.
THEOREM TypeCorrect == Spec => []TypeOK
<1>1. IInv => TypeOK
  BY DEF IInv
<1> QED
  BY <1>1, Invariance, PTL

\* For every queue limit, the chain of reads neither forks nor breaks.
THEOREM ReadingIsOneChain == Spec => []ReadsWhileRoom
<1>1. IInv => ReadsWhileRoom
  BY DEF IInv
<1> QED
  BY <1>1, Invariance, PTL

\* For every queue limit, one write is outstanding exactly while there is a
\* response to write and the chain has not ended.
THEOREM WritingIsOneChain == Spec => []WritesFront
<1>1. IInv => WritesFront
  BY DEF IInv
<1> QED
  BY <1>1, Invariance, PTL

\* For every queue limit and however many requests, the responses arrive in the
\* order of the requests.
THEOREM AnswersAreInOrder == Spec => []AnswersInOrder
<1>1. IInv => AnswersInOrder
  BY DEF IInv
<1> QED
  BY <1>1, Invariance, PTL
=============================================================================
