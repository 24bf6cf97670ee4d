-------------------------- MODULE WebsockTx_proofs --------------------------
(***************************************************************************)
(* The transmit path: types, the safety properties of WebsockTx, and that  *)
(* every connection's path implements LossyFifo, for any number of         *)
(* sessions, threads, ticks and requests.                                  *)
(***************************************************************************)
EXTENDS WebsockTx, TLAPS

-----------------------------------------------------------------------------
(***************************************************************************)
(* The inductive invariant, connection by connection.                      *)
(***************************************************************************)

Accepted(c) == c < nextId

\* A connection's reader, its entry in g_sessions and its queue go together.
EntryInv(c) ==
    /\ reader[c] = "none" <=> ~Accepted(c)
    /\ sessions[c] = "live" <=> reader[c] \in {"pending", "closing", "failed", "aborted"}
    /\ sessions[c] # "null"
    /\ sessions[c] # "live" => queue[c] = <<>>
    /\ reader[c] = "none" => inFlight[c] = {} /\ posted[c] = 0

\* The queue bears the last numbers given, up to n.
Numbered(q, n) ==
    /\ Len(q) <= n
    /\ \A i \in DOMAIN q : q[i] + Len(q) = n + i

\* At most one write, of a buffer committed before all that are queued.
OneBefore(ops, active, q, n) ==
    /\ ops # {} => active
    /\ \A m1, m2 \in ops : m1 = m2
    /\ \A m \in ops : 1 <= m /\ m + Len(q) <= n

\* Until the first buffer is delivered: nothing was sent, or the write of buffer 1
\* is under way or has failed, and m_write_active keeps all others back.
NothingButFirst(ops, active, q, n) ==
    \/ Len(q) = n /\ ~active
    \/ active /\ ops \subseteq {1}

WriteInv(c) ==
    /\ dangling[c] \subseteq inFlight[c]
    /\ Numbered(queue[c], committed[c])
    /\ OneBefore(inFlight[c], writeActive[c], queue[c], committed[c])

ReplyInv(c) ==
    /\ registered[c] = 0 => committed[c] = 0
    /\ registered[c] > 0 => 1 \in replies[c]
    /\ delivered[c] # <<>> => delivered[c][1] = 1 /\ 1 \in replies[c]
    /\ delivered[c] = <<>> /\ reader[c] # "closed" =>
          NothingButFirst(inFlight[c], writeActive[c], queue[c], committed[c])

StrandInv(c) ==
    queue[c] # <<>> /\ Alive(c) /\ fault = "none" =>
        writeActive[c] \/ posted[c] > 0 \/ TickStillToPost(c)

ConnInv(c) == EntryInv(c) /\ WriteInv(c) /\ ReplyInv(c) /\ StrandInv(c)

\* m_write_active without an outstanding write is left by a write that failed.
WedgeInv(c) == writeActive[c] => inFlight[c] # {} \/ writeFailed[c]

GlobalInv ==
    /\ tick.at <= nextId
    /\ AliveUntilEnded
    /\ fault # "nullSession"

IInv ==
    /\ TypeOK
    /\ GlobalInv
    /\ \A c \in Ids : ConnInv(c)
    /\ \A c \in Ids : WedgeInv(c)

-----------------------------------------------------------------------------
(***************************************************************************)
(* Types.                                                                  *)
(***************************************************************************)

LEMMA SendNextTypes ==
    ASSUME TypeOK, NEW c \in Ids, NEW q \in Seq(Nat), NEW active \in BOOLEAN,
           NEW ops \in SUBSET Nat, SendNext(c, q, active, ops)
    PROVE  /\ queue' \in [Ids -> Seq(Nat)]
           /\ writeActive' \in [Ids -> BOOLEAN]
           /\ inFlight' \in [Ids -> SUBSET Nat]
           /\ dangling' \in [Ids -> SUBSET Nat]
<1>1. Rest(q) \in Seq(Nat) /\ Front(q) \in SUBSET Nat
  BY DEF Rest, Front
<1>2. DoWrite(Front(q), active) \in SUBSET Nat
  BY <1>1 DEF DoWrite
<1>. QED
  BY <1>1, <1>2 DEF SendNext, TypeOK

LEMMA CommitTickTypes ==
    ASSUME TypeOK, NEW c \in Ids, CommitTick(c)
    PROVE  queue' \in [Ids -> Seq(Nat)] /\ committed' \in [Ids -> Nat]
<1>1. CASE HasPlayer(c)
  <2>1. Commit(c, queue[c]) \in Seq(Nat)
    BY DEF Commit, TypeOK
  <2>2. queue' \in [Ids -> Seq(Nat)]
    BY <1>1, <2>1 DEF CommitTick, TypeOK
  <2>3. committed' \in [Ids -> Nat]
    <3>1. committed' = [committed EXCEPT ![c] = @ + 1]
      BY <1>1 DEF CommitTick
    <3>. QED  BY <3>1 DEF TypeOK
  <2>. QED  BY <2>2, <2>3
<1>2. CASE ~HasPlayer(c)
  BY <1>2 DEF CommitTick, TypeOK
<1>. QED  BY <1>1, <1>2

LEMMA InitTypes == Init => TypeOK
BY ConstantsAssumption
   DEF Init, TypeOK, Ids, Entries, Readers, Idle, Ticks, Faults

LEMMA NextTypes == TypeOK /\ [Next]_vars => TypeOK'
<1> SUFFICES ASSUME TypeOK, [Next]_vars PROVE TypeOK'
  OBVIOUS
<1> USE ConstantsAssumption
<1>1. CASE OnAccept
  <2>1. nextId \in Ids /\ nextId' \in 0 .. MaxSessions
    BY <1>1 DEF OnAccept, TypeOK, Ids
  <2>2. sessions' \in [Ids -> Entries] /\ reader' \in [Ids -> Readers]
    BY <1>1 DEF OnAccept, TypeOK, Entries, Readers
  <2>3. fault' \in Faults
    BY <1>1 DEF OnAccept, MapOutcomes, Faults
  <2>. QED
    BY <1>1, <2>1, <2>2, <2>3 DEF OnAccept, TypeOK
<1>2. ASSUME NEW c \in Ids, OnReadRegister(c) PROVE TypeOK'
  <2>1. Commit(c, queue[c]) \in Seq(Nat)
    BY DEF Commit, TypeOK
  <2>2. /\ queue' \in [Ids -> Seq(Nat)]
        /\ writeActive' \in [Ids -> BOOLEAN]
        /\ inFlight' \in [Ids -> SUBSET Nat]
        /\ dangling' \in [Ids -> SUBSET Nat]
    <3>1. SendNext(c, Commit(c, queue[c]), writeActive[c], inFlight[c])
      BY <1>2 DEF OnReadRegister
    <3>2. writeActive[c] \in BOOLEAN /\ inFlight[c] \in SUBSET Nat
      BY DEF TypeOK
    <3>. QED  BY <2>1, <3>1, <3>2, SendNextTypes
  <2>3. registered' \in [Ids -> 0 .. MaxRegisters]
    BY <1>2 DEF OnReadRegister, TypeOK
  <2>4. committed' \in [Ids -> Nat] /\ replies' \in [Ids -> SUBSET Nat]
    BY <1>2 DEF OnReadRegister, TypeOK
  <2>5. fault' \in Faults
    BY <1>2 DEF OnReadRegister, GameOutcomes, Faults
  <2>. QED
    BY <1>2, <2>2, <2>3, <2>4, <2>5 DEF OnReadRegister, TypeOK
<1>3. ASSUME NEW c \in Ids, OnReadInput(c) PROVE TypeOK'
  <2>1. /\ queue' \in [Ids -> Seq(Nat)]
        /\ writeActive' \in [Ids -> BOOLEAN]
        /\ inFlight' \in [Ids -> SUBSET Nat]
        /\ dangling' \in [Ids -> SUBSET Nat]
    BY <1>3, SendNextTypes, SMTT(30) DEF OnReadInput, TypeOK
  <2>2. fault' \in Faults
    BY <1>3 DEF OnReadInput, GameOutcomes, Faults
  <2>. QED
    BY <1>3, <2>1, <2>2 DEF OnReadInput, TypeOK
<1>4. ASSUME NEW c \in Ids, PeerClose(c) \/ OnReadClosed(c) \/ OnReadError(c) PROVE TypeOK'
  <2>1. CASE PeerClose(c)
    BY <2>1 DEF PeerClose, TypeOK, Readers
  <2>2. CASE OnReadClosed(c)
    <3>1. sessions' \in [Ids -> Entries] /\ reader' \in [Ids -> Readers]
      BY <2>2 DEF OnReadClosed, TypeOK, Entries, Readers
    <3>2. queue' \in [Ids -> Seq(Nat)] /\ fault' \in Faults
      BY <2>2 DEF OnReadClosed, MapOutcomes, TypeOK, Faults
    <3>. QED
      BY <2>2, <3>1, <3>2 DEF OnReadClosed, TypeOK
  <2>3. CASE OnReadError(c)
    BY <2>3 DEF OnReadError, TypeOK, Readers
  <2>. QED  BY <1>4, <2>1, <2>2, <2>3
<1>5. ASSUME NEW c \in Ids, OnWrite(c) PROVE TypeOK'
  <2> PICK m \in inFlight[c] :
          /\ delivered' = [delivered EXCEPT ![c] = Append(@, m)]
          /\ \E reused \in IF m \in dangling[c] THEN BOOLEAN ELSE {FALSE} :
                 garbled' = [garbled EXCEPT ![c] = @ \/ reused]
          /\ IF sessions[c] = "live"
             THEN SendNext(c, queue[c], FALSE, inFlight[c] \ {m})
             ELSE /\ writeActive' = [writeActive EXCEPT ![c] = FALSE]
                  /\ inFlight' = [inFlight EXCEPT ![c] = @ \ {m}]
                  /\ dangling' = [dangling EXCEPT ![c] = @ \ {m}]
                  /\ UNCHANGED queue
    BY <1>5 DEF OnWrite
  <2>1. /\ queue' \in [Ids -> Seq(Nat)]
        /\ writeActive' \in [Ids -> BOOLEAN]
        /\ inFlight' \in [Ids -> SUBSET Nat]
        /\ dangling' \in [Ids -> SUBSET Nat]
    <3>1. inFlight[c] \ {m} \in SUBSET Nat /\ queue[c] \in Seq(Nat)
      BY DEF TypeOK
    <3>2. CASE sessions[c] = "live"
      BY <3>1, <3>2, SendNextTypes
    <3>3. CASE sessions[c] # "live"
      <4>1. writeActive' = [writeActive EXCEPT ![c] = FALSE] /\ queue' = queue
        BY <3>3
      <4>2. /\ inFlight' = [inFlight EXCEPT ![c] = @ \ {m}]
            /\ dangling' = [dangling EXCEPT ![c] = @ \ {m}]
        BY <3>3
      <4>. QED  BY <4>1, <4>2 DEF TypeOK
    <3>. QED  BY <3>2, <3>3
  <2>2. delivered' \in [Ids -> Seq(Nat)] /\ garbled' \in [Ids -> BOOLEAN]
    BY DEF TypeOK
  <2>4. fault' \in Faults
    BY <1>5 DEF OnWrite, QueueOutcomes, GameOutcomes, Faults
  <2>3. sessions' \in [Ids -> Entries]
    BY <1>5 DEF OnWrite, TypeOK, Entries
  <2>. QED
    BY <1>5, <2>1, <2>2, <2>3, <2>4 DEF OnWrite, TypeOK
<1>6. ASSUME NEW c \in Ids, OnWriteError(c) PROVE TypeOK'
  BY <1>6, SMTT(30) DEF OnWriteError, TypeOK
<1>7. ASSUME NEW c \in Ids, RunPosted(c) PROVE TypeOK'
  <2>1. /\ queue' \in [Ids -> Seq(Nat)]
        /\ writeActive' \in [Ids -> BOOLEAN]
        /\ inFlight' \in [Ids -> SUBSET Nat]
        /\ dangling' \in [Ids -> SUBSET Nat]
    <3>1. CASE SendNext(c, queue[c], writeActive[c], inFlight[c])
      <4>1. queue[c] \in Seq(Nat) /\ writeActive[c] \in BOOLEAN /\ inFlight[c] \in SUBSET Nat
        BY DEF TypeOK
      <4>. QED  BY <3>1, <4>1, SendNextTypes
    <3>2. CASE UNCHANGED <<queue, writeActive, inFlight, dangling>>
      BY <3>2 DEF TypeOK
    <3>. QED  BY <1>7, <3>1, <3>2 DEF RunPosted, IsPosted
  <2>2. posted' \in [Ids -> Nat]
    BY <1>7 DEF RunPosted, IsPosted, TypeOK
  <2>3. fault' \in Faults
    BY <1>7 DEF RunPosted, IsPosted, QueueOutcomes, GameOutcomes, TypeOK, Faults
  <2>. QED
    BY <1>7, <2>1, <2>2, <2>3 DEF RunPosted, IsPosted, TypeOK
<1>8. CASE StartTick \/ UniverseTicked \/ EndTick
  <2>1. tick' \in Ticks /\ ticks' \in 0 .. MaxTicks
    BY <1>8 DEF StartTick, UniverseTicked, EndTick, Idle, TypeOK, Ticks
  <2>. QED
    BY <1>8, <2>1 DEF StartTick, UniverseTicked, EndTick, connVars, TypeOK
<1>9. CASE UniverseTick
  <2>1. tick.at \in Ids /\ tick.at + 1 \in 0 .. MaxSessions
    BY <1>9, SMTT(30) DEF UniverseTick, TypeOK, Ids, Ticks
  <2>2. tick' \in Ticks
    BY <1>9, <2>1 DEF UniverseTick, TypeOK, Ticks
  <2>3. queue' \in [Ids -> Seq(Nat)] /\ committed' \in [Ids -> Nat]
    <3>1. CASE sessions[tick.at] = "live"
      BY <1>9, <2>1, <3>1, CommitTickTypes DEF UniverseTick
    <3>2. CASE sessions[tick.at] # "live"
      BY <1>9, <3>2 DEF UniverseTick, TypeOK
    <3>. QED  BY <3>1, <3>2
  <2>4. fault' \in Faults
    BY <1>9, <2>1 DEF UniverseTick, TypeOK, Faults
  <2>. QED
    BY <1>9, <2>2, <2>3, <2>4 DEF UniverseTick, TypeOK
<1>10. CASE SessionTick
  <2>1. tick.at \in Ids /\ tick.at + 1 \in 0 .. MaxSessions
    BY <1>10, SMTT(30) DEF SessionTick, TypeOK, Ids, Ticks
  <2>2. tick' \in Ticks
    BY <1>10, <2>1 DEF SessionTick, TypeOK, Ticks
  <2>3. queue' \in [Ids -> Seq(Nat)] /\ committed' \in [Ids -> Nat]
    <3>1. CASE sessions[tick.at] = "live"
      BY <1>10, <2>1, <3>1, CommitTickTypes DEF SessionTick
    <3>2. CASE sessions[tick.at] # "live"
      BY <1>10, <3>2 DEF SessionTick, TypeOK
    <3>. QED  BY <3>1, <3>2
  <2>4. fault' \in Faults
    BY <1>10, <2>1 DEF SessionTick, TypeOK, Faults
  <2>5. posted' \in [Ids -> Nat]
    <3>1. CASE sessions[tick.at] = "live" /\ Alive(tick.at)
      <4>1. posted' = [posted EXCEPT ![tick.at] = @ + 1]
        BY <1>10, <3>1 DEF SessionTick, OnTxReady
      <4>. QED  BY <2>1, <4>1 DEF TypeOK
    <3>2. CASE ~(sessions[tick.at] = "live" /\ Alive(tick.at))
      <4>1. posted' = posted
        BY <1>10, <3>2 DEF SessionTick
      <4>. QED  BY <4>1 DEF TypeOK
    <3>. QED  BY <3>1, <3>2
  <2>. QED
    BY <1>10, <2>2, <2>3, <2>4, <2>5 DEF SessionTick, TypeOK
<1>11. CASE UNCHANGED vars
  BY <1>11 DEF vars, TypeOK
<1>. QED
  BY <1>1, <1>2, <1>3, <1>4, <1>5, <1>6, <1>7, <1>8, <1>9, <1>10, <1>11
     DEF Next, Reading, Writing, Ticking

\* Every variable of the transmit path keeps its type.
THEOREM TypeCorrect == Spec => []TypeOK
BY InitTypes, NextTypes, PTL DEF Spec

-----------------------------------------------------------------------------
(***************************************************************************)
(* What the shared steps do to one connection.                             *)
(***************************************************************************)

\* Popping the next buffer and handing it to do_write: still one write at most,
\* and only the first buffer can be the first to be written.
LEMMA SendNextConn ==
    ASSUME TypeOK, NEW c \in Ids, NEW q \in Seq(Nat), NEW active \in BOOLEAN,
           NEW ops \in SUBSET Nat, NEW n \in Nat,
           Numbered(q, n), OneBefore(ops, active, q, n),
           SendNext(c, q, active, ops)
    PROVE  /\ dangling'[c] \subseteq inFlight'[c]
           /\ Numbered(queue'[c], n)
           /\ OneBefore(inFlight'[c], writeActive'[c], queue'[c], n)
           /\ queue'[c] # <<>> => writeActive'[c]
           /\ inFlight'[c] # {} \/ writeActive'[c] = active
           /\ NothingButFirst(ops, active, q, n) =>
                  NothingButFirst(inFlight'[c], writeActive'[c], queue'[c], n)
<1> DEFINE started == DoWrite(Front(q), active)
<1>1. /\ queue'[c] = Rest(q)
      /\ writeActive'[c] = (active \/ q # <<>>)
      /\ inFlight'[c] = ops \cup started
  BY DEF SendNext, TypeOK
<1>2. dangling'[c] \subseteq inFlight'[c]
  <2> PICK late \in SUBSET started :
             dangling' = [dangling EXCEPT ![c] = (@ \cap ops) \cup late]
    BY DEF SendNext
  <2>. QED  BY <1>1 DEF TypeOK
<1>3. CASE q = <<>>
  <2>1. started = {} /\ Rest(q) = q
    BY <1>3 DEF DoWrite, Front, Rest
  <2>. QED  BY <1>1, <1>2, <1>3, <2>1
<1>4. CASE q # <<>>
  <2>1. /\ Len(q) \in Nat \ {0} /\ 1 \in DOMAIN q
        /\ Tail(q) \in Seq(Nat) /\ Len(Tail(q)) = Len(q) - 1
        /\ \A i \in DOMAIN Tail(q) : i + 1 \in DOMAIN q /\ Tail(q)[i] = q[i + 1]
    BY <1>4
  <2>2. Rest(q) = Tail(q) /\ Front(q) = {Head(q)} /\ Head(q) = q[1]
    BY <1>4 DEF Rest, Front
  <2>3. Numbered(Tail(q), n)
    <3>1. Len(Tail(q)) <= n
      BY <2>1 DEF Numbered
    <3>2. ASSUME NEW i \in DOMAIN Tail(q)
          PROVE  Tail(q)[i] + Len(Tail(q)) = n + i
      <4>1. i \in Nat /\ i + 1 \in DOMAIN q /\ q[i + 1] \in Nat /\ Tail(q)[i] = q[i + 1]
        BY <2>1
      <4>2. q[i + 1] + Len(q) = n + (i + 1)
        BY <4>1 DEF Numbered
      <4>. QED  BY <2>1, <4>1, <4>2, SMTT(30)
    <3>. QED  BY <3>1, <3>2 DEF Numbered
  <2>4. q[1] + Len(q) = n + 1 /\ q[1] \in Nat
    BY <2>1 DEF Numbered
  <2>5. writeActive'[c] = TRUE
    BY <1>1, <1>4
  <2>6. CASE active
    <3>1. inFlight'[c] = ops
      BY <1>1, <2>6 DEF DoWrite
    <3>2. OneBefore(ops, TRUE, Tail(q), n)
      BY <2>1 DEF OneBefore
    <3>3. NothingButFirst(ops, active, q, n) => NothingButFirst(ops, TRUE, Tail(q), n)
      BY <2>6 DEF NothingButFirst
    <3>. QED  BY <1>1, <1>2, <2>2, <2>3, <2>5, <2>6, <3>1, <3>2, <3>3
  <2>7. CASE ~active
    <3>1. inFlight'[c] = {q[1]}
      BY <1>1, <2>2, <2>7 DEF DoWrite, OneBefore
    <3>2. OneBefore({q[1]}, TRUE, Tail(q), n)
      BY <2>1, <2>4 DEF OneBefore, Numbered
    <3>3. NothingButFirst(ops, active, q, n) => NothingButFirst({q[1]}, TRUE, Tail(q), n)
      <4>1. Len(q) = n => q[1] = 1
        BY <2>1, <2>4
      <4>. QED  BY <2>7, <4>1 DEF NothingButFirst
    <3>. QED  BY <1>1, <1>2, <2>2, <2>3, <2>5, <3>1, <3>2, <3>3
  <2>. QED  BY <2>6, <2>7
<1>. QED  BY <1>3, <1>4

\* Committing a buffer gives it the next number.
LEMMA CommitNumbered ==
    ASSUME NEW q \in Seq(Nat), NEW n \in Nat, Numbered(q, n)
    PROVE  Append(q, n + 1) \in Seq(Nat) /\ Numbered(Append(q, n + 1), n + 1)
<1> DEFINE r == Append(q, n + 1)
<1>1. /\ r \in Seq(Nat) /\ Len(r) = Len(q) + 1
      /\ \A i \in DOMAIN r : r[i] = IF i = Len(q) + 1 THEN n + 1 ELSE q[i]
  OBVIOUS
<1>2. ASSUME NEW i \in DOMAIN r
      PROVE  r[i] + Len(r) = (n + 1) + i
  <2>1. CASE i = Len(q) + 1
    BY <1>1, <2>1
  <2>2. CASE i # Len(q) + 1
    <3>1. i \in Nat /\ i \in DOMAIN q /\ q[i] \in Nat /\ r[i] = q[i]
      BY <1>1, <2>2
    <3>2. q[i] + Len(q) = n + i
      BY <3>1 DEF Numbered
    <3>3. Len(r) = Len(q) + 1 /\ Len(q) \in Nat
      BY <1>1
    <3>. QED  BY <3>1, <3>2, <3>3, SMTT(30)
  <2>. QED  BY <2>1, <2>2
<1>3. Len(r) <= n + 1
  BY <1>1 DEF Numbered
<1> HIDE DEF r
<1>4. Numbered(r, n + 1)
  BY <1>2, <1>3 DEF Numbered
<1>. QED  BY <1>1, <1>4 DEF r

\* A step that leaves everything of connection d alone keeps its invariant.
LEMMA FrameConn ==
    ASSUME TypeOK, NEW d \in Ids, ConnInv(d),
           sessions'[d] = sessions[d], registered'[d] = registered[d],
           queue'[d] = queue[d], reader'[d] = reader[d],
           writeActive'[d] = writeActive[d], inFlight'[d] = inFlight[d],
           dangling'[d] = dangling[d], posted'[d] = posted[d],
           committed'[d] = committed[d], replies'[d] = replies[d],
           delivered'[d] = delivered[d],
           Accepted(d)' <=> Accepted(d),
           fault' = "none" => fault = "none",
           fault' = "none" /\ reader[d] # "none" /\ TickStillToPost(d) => TickStillToPost(d)'
    PROVE  ConnInv(d)'
<1>1. EntryInv(d)'
  BY DEF ConnInv, EntryInv
<1>2. WriteInv(d)'
  BY DEF ConnInv, WriteInv
<1>3. ReplyInv(d)'
  BY DEF ConnInv, ReplyInv
<1>4. StrandInv(d)'
  <2>1. Alive(d)' => Alive(d) /\ reader[d] # "none"
    BY DEF Alive, ConnInv, EntryInv
  <2>. QED  BY <2>1 DEF ConnInv, StrandInv
<1>. QED  BY <1>1, <1>2, <1>3, <1>4 DEF ConnInv

LEMMA SendNextFrame ==
    ASSUME TypeOK, NEW c \in Ids, NEW d \in Ids, d # c,
           NEW q, NEW active, NEW ops, SendNext(c, q, active, ops)
    PROVE  /\ queue'[d] = queue[d] /\ writeActive'[d] = writeActive[d]
           /\ inFlight'[d] = inFlight[d] /\ dangling'[d] = dangling[d]
<1>1. PICK late :
          dangling' = [dangling EXCEPT ![c] = (@ \cap ops) \cup late]
  BY DEF SendNext
<1>. QED  BY <1>1 DEF SendNext, TypeOK

\* After a buffer is committed, and the queue grows to q.
LEMMA CommitConn ==
    ASSUME TypeOK, NEW c \in Ids, WriteInv(c), NEW q, q = Commit(c, queue[c])
    PROVE  /\ q \in Seq(Nat) /\ Numbered(q, committed[c] + 1)
           /\ OneBefore(inFlight[c], writeActive[c], q, committed[c] + 1)
           /\ NothingButFirst(inFlight[c], writeActive[c], queue[c], committed[c]) =>
                  NothingButFirst(inFlight[c], writeActive[c], q, committed[c] + 1)
<1>1. queue[c] \in Seq(Nat) /\ committed[c] \in Nat /\ inFlight[c] \in SUBSET Nat
  BY DEF TypeOK
<1>2. q = Append(queue[c], committed[c] + 1) /\ Len(q) = Len(queue[c]) + 1
  BY <1>1 DEF Commit
<1>3. q \in Seq(Nat) /\ Numbered(q, committed[c] + 1)
  BY <1>1, <1>2, CommitNumbered DEF WriteInv
<1>4. OneBefore(inFlight[c], writeActive[c], q, committed[c] + 1)
  BY <1>1, <1>2 DEF WriteInv, OneBefore
<1>5. Len(queue[c]) = committed[c] => Len(q) = committed[c] + 1
  BY <1>1, <1>2
<1>. QED  BY <1>3, <1>4, <1>5 DEF NothingButFirst

-----------------------------------------------------------------------------
(***************************************************************************)
(* Every action keeps the invariant of every connection.                   *)
(***************************************************************************)

LEMMA RegisterConn ==
    ASSUME IInv, NEW c \in Ids, OnReadRegister(c), NEW d \in Ids
    PROVE  ConnInv(d)'
<1> USE DEF IInv
<1>1. CASE d # c
  <2>1. SendNext(c, Commit(c, queue[c]), writeActive[c], inFlight[c])
    BY DEF OnReadRegister
  <2>2. /\ queue'[d] = queue[d] /\ writeActive'[d] = writeActive[d]
        /\ inFlight'[d] = inFlight[d] /\ dangling'[d] = dangling[d]
    BY <1>1, <2>1, SendNextFrame
  <2>3. /\ registered'[d] = registered[d] /\ committed'[d] = committed[d]
        /\ replies'[d] = replies[d]
    BY <1>1 DEF OnReadRegister, TypeOK
  <2>4. TickStillToPost(d) => TickStillToPost(d)'
    BY DEF OnReadRegister, TickStillToPost
  <2>5. /\ Accepted(d)' <=> Accepted(d)
        /\ sessions' = sessions /\ reader' = reader /\ fault = "none"
        /\ posted' = posted /\ delivered' = delivered
    BY DEF OnReadRegister, CanRun, Accepted
  <2>. QED
    BY <2>2, <2>3, <2>4, <2>5, FrameConn
<1>2. CASE d = c
  <2> DEFINE q == Commit(c, queue[c])
             n == committed[c] + 1
  <2>1. /\ committed[c] \in Nat /\ registered[c] \in Nat /\ writeActive[c] \in BOOLEAN
        /\ inFlight[c] \in SUBSET Nat /\ n \in Nat
    BY DEF TypeOK
  <2>2. EntryInv(c) /\ WriteInv(c) /\ ReplyInv(c)
    BY DEF ConnInv
  <2>3. /\ q \in Seq(Nat) /\ Numbered(q, n)
        /\ OneBefore(inFlight[c], writeActive[c], q, n)
        /\ NothingButFirst(inFlight[c], writeActive[c], queue[c], committed[c]) =>
               NothingButFirst(inFlight[c], writeActive[c], q, n)
    BY <2>2, CommitConn
  <2>4. /\ committed'[c] = n /\ registered'[c] = registered[c] + 1
        /\ replies'[c] = replies[c] \cup {n} /\ delivered' = delivered
        /\ sessions' = sessions /\ reader' = reader /\ nextId' = nextId
        /\ sessions[c] = "live" /\ reader[c] = "pending"
        /\ SendNext(c, q, writeActive[c], inFlight[c])
    BY DEF OnReadRegister, TypeOK
  <2> HIDE DEF q, n
  <2>5. /\ dangling'[c] \subseteq inFlight'[c]
        /\ Numbered(queue'[c], n)
        /\ OneBefore(inFlight'[c], writeActive'[c], queue'[c], n)
        /\ queue'[c] # <<>> => writeActive'[c]
        /\ NothingButFirst(inFlight[c], writeActive[c], q, n) =>
               NothingButFirst(inFlight'[c], writeActive'[c], queue'[c], n)
    BY <2>1, <2>3, <2>4, SendNextConn
  <2>6. EntryInv(c)'
    BY <2>2, <2>4 DEF EntryInv, Accepted
  <2>7. WriteInv(c)'
    BY <2>4, <2>5 DEF WriteInv
  <2>8. ReplyInv(c)'
    <3>1. 1 \in replies'[c]
      BY <2>1, <2>2, <2>4 DEF ReplyInv, n
    <3>2. registered'[c] > 0
      BY <2>1, <2>4
    <3>. QED  BY <2>1, <2>2, <2>3, <2>4, <2>5, <3>1, <3>2 DEF ReplyInv
  <2>9. StrandInv(c)'
    BY <2>5 DEF StrandInv
  <2>. QED  BY <1>2, <2>6, <2>7, <2>8, <2>9 DEF ConnInv
<1>. QED  BY <1>1, <1>2

\* on_read of other messages and the posted handler send the next buffer of the
\* queue as it is.
LEMMA SendQueuedConn ==
    ASSUME IInv, NEW c \in Ids, SendNext(c, queue[c], writeActive[c], inFlight[c]),
           sessions[c] = "live", NEW d \in Ids,
           UNCHANGED <<nextId, sessions, registered, reader, committed, replies, delivered,
                       tick>>,
           fault' = "none" => fault = "none",
           posted'[d] = posted[d] \/ d = c
    PROVE  ConnInv(d)'
<1> USE DEF IInv
<1>1. CASE d # c
  <2>1. /\ queue'[d] = queue[d] /\ writeActive'[d] = writeActive[d]
        /\ inFlight'[d] = inFlight[d] /\ dangling'[d] = dangling[d]
    BY <1>1, SendNextFrame
  <2>2. (TickStillToPost(d) => TickStillToPost(d)') /\ (Accepted(d)' <=> Accepted(d))
    BY DEF TickStillToPost, Accepted
  <2>. QED
    BY <1>1, <2>1, <2>2, FrameConn
<1>2. CASE d = c
  <2>1. /\ committed[c] \in Nat /\ queue[c] \in Seq(Nat) /\ writeActive[c] \in BOOLEAN
        /\ inFlight[c] \in SUBSET Nat
    BY DEF TypeOK
  <2>2. EntryInv(c) /\ WriteInv(c) /\ ReplyInv(c)
    BY DEF ConnInv
  <2>3. /\ dangling'[c] \subseteq inFlight'[c]
        /\ Numbered(queue'[c], committed[c])
        /\ OneBefore(inFlight'[c], writeActive'[c], queue'[c], committed[c])
        /\ queue'[c] # <<>> => writeActive'[c]
        /\ NothingButFirst(inFlight[c], writeActive[c], queue[c], committed[c]) =>
               NothingButFirst(inFlight'[c], writeActive'[c], queue'[c], committed[c])
    BY <2>1, <2>2, SendNextConn DEF WriteInv
  <2>4. EntryInv(c)'
    BY <2>2 DEF EntryInv, Accepted
  <2>5. WriteInv(c)'
    BY <2>3 DEF WriteInv
  <2>6. ReplyInv(c)'
    BY <2>2, <2>3 DEF ReplyInv
  <2>7. StrandInv(c)'
    BY <2>3 DEF StrandInv
  <2>. QED  BY <1>2, <2>4, <2>5, <2>6, <2>7 DEF ConnInv
<1>. QED  BY <1>1, <1>2

\* The steps that change nothing but the reader and what its end takes along.
LEMMA ReaderConn ==
    ASSUME IInv, NEW c \in Ids, PeerClose(c) \/ OnReadClosed(c) \/ OnReadError(c),
           NEW d \in Ids
    PROVE  ConnInv(d)'
<1> USE DEF IInv
<1>1. /\ TickStillToPost(d)' <=> TickStillToPost(d)
      /\ Accepted(d)' <=> Accepted(d)
      /\ registered' = registered /\ writeActive' = writeActive /\ inFlight' = inFlight
      /\ dangling' = dangling /\ posted' = posted /\ committed' = committed
      /\ replies' = replies /\ delivered' = delivered
      /\ fault = "none"
  BY DEF PeerClose, OnReadClosed, OnReadError, CanRun, TickStillToPost, Accepted
<1>2. CASE d # c
  <2>1. /\ sessions'[d] = sessions[d] /\ queue'[d] = queue[d] /\ reader'[d] = reader[d]
    BY <1>2 DEF PeerClose, OnReadClosed, OnReadError, TypeOK
  <2>. QED
    BY <1>1, <2>1, FrameConn
<1>3. CASE d = c
  <2>1. EntryInv(c) /\ WriteInv(c) /\ ReplyInv(c) /\ StrandInv(c)
    BY DEF ConnInv
  <2>2. CASE PeerClose(c) \/ OnReadError(c)
    <3>1. /\ sessions' = sessions /\ queue' = queue /\ reader[c] \in {"pending", "closing"}
          /\ reader'[c] \in {"closing", "failed", "aborted"}
      BY <2>2 DEF PeerClose, OnReadError, TypeOK
    <3>2. EntryInv(c)' /\ WriteInv(c)'
      BY <1>1, <1>3, <2>1, <3>1 DEF EntryInv, WriteInv
    <3>3. ReplyInv(c)'
      BY <1>1, <2>1, <3>1 DEF ReplyInv
    <3>4. StrandInv(c)'
      BY <1>1, <1>3, <2>1, <3>1 DEF StrandInv, Alive
    <3>. QED  BY <1>3, <3>2, <3>3, <3>4 DEF ConnInv
  <2>3. CASE OnReadClosed(c)
    <3>1. /\ sessions'[c] = "absent" /\ queue'[c] = <<>> /\ reader[c] = "closing"
          /\ reader'[c] = "closed"
      BY <2>3 DEF OnReadClosed, TypeOK
    <3>2. EntryInv(c)'
      BY <1>1, <1>3, <2>1, <3>1 DEF EntryInv
    <3>3. /\ committed[c] \in Nat /\ queue[c] \in Seq(Nat) /\ inFlight[c] \in SUBSET Nat
      BY DEF TypeOK
    <3>4. Numbered(<<>>, committed[c])
      BY <3>3 DEF Numbered
    <3>5. OneBefore(inFlight[c], writeActive[c], <<>>, committed[c])
      BY <2>1, <3>3 DEF WriteInv, OneBefore
    <3>6. WriteInv(c)'
      BY <1>1, <2>1, <3>1, <3>4, <3>5 DEF WriteInv
    <3>7. ReplyInv(c)'
      BY <1>1, <2>1, <3>1 DEF ReplyInv
    <3>8. StrandInv(c)'
      BY <3>1 DEF StrandInv
    <3>. QED  BY <1>3, <3>2, <3>6, <3>7, <3>8 DEF ConnInv
  <2>. QED  BY <2>2, <2>3
<1>. QED  BY <1>2, <1>3

LEMMA AcceptConn ==
    ASSUME IInv, OnAccept, NEW d \in Ids
    PROVE  ConnInv(d)'
<1> USE DEF IInv
<1>1. /\ TickStillToPost(d)' <=> TickStillToPost(d)
      /\ registered' = registered /\ queue' = queue /\ writeActive' = writeActive
      /\ inFlight' = inFlight /\ dangling' = dangling /\ posted' = posted
      /\ committed' = committed /\ replies' = replies /\ delivered' = delivered
      /\ fault = "none"
  BY DEF OnAccept, CanRun, TickStillToPost
<1>2. nextId \in Ids /\ nextId' = nextId + 1
  BY ConstantsAssumption DEF OnAccept, TypeOK, Ids
<1>3. CASE d # nextId
  <2>1. sessions'[d] = sessions[d] /\ reader'[d] = reader[d]
    BY <1>3 DEF OnAccept, TypeOK
  <2>2. Accepted(d)' <=> Accepted(d)
    BY <1>2, <1>3 DEF Accepted, Ids
  <2>. QED
    BY <1>1, <2>1, <2>2, FrameConn
<1>4. CASE d = nextId
  <2>1. EntryInv(d) /\ WriteInv(d) /\ ReplyInv(d)
    BY DEF ConnInv
  <2>2. ~Accepted(d) /\ Accepted(d)'
    BY <1>2, <1>4 DEF Accepted, Ids
  <2>3. /\ sessions'[d] = "live" /\ reader'[d] = "pending" /\ reader[d] = "none"
        /\ sessions[d] # "live" /\ queue[d] = <<>>
    BY <1>2, <1>4, <2>1, <2>2 DEF OnAccept, TypeOK, EntryInv
  <2>4. EntryInv(d)' /\ WriteInv(d)'
    BY <1>1, <2>1, <2>2, <2>3 DEF EntryInv, WriteInv
  <2>5. ReplyInv(d)'
    BY <1>1, <2>1, <2>3 DEF ReplyInv
  <2>6. StrandInv(d)'
    BY <1>1, <2>3 DEF StrandInv
  <2>. QED  BY <2>4, <2>5, <2>6 DEF ConnInv
<1>. QED  BY <1>3, <1>4

\* A write that succeeds was the only one, and every other buffer is later.
LEMMA WriteConn ==
    ASSUME IInv, NEW c \in Ids, OnWrite(c), NEW d \in Ids
    PROVE  ConnInv(d)'
<1> USE DEF IInv
<1>1. /\ TickStillToPost(d)' <=> TickStillToPost(d)
      /\ Accepted(d)' <=> Accepted(d)
      /\ registered' = registered /\ reader' = reader /\ posted' = posted
      /\ committed' = committed /\ replies' = replies /\ fault = "none"
      /\ reader[c] \in {"pending", "failed"}
  BY DEF OnWrite, CanRun, TickStillToPost, Accepted
<1>2. EntryInv(c) /\ WriteInv(c) /\ ReplyInv(c)
  BY DEF ConnInv
<1>3. sessions[c] = "live"
  BY <1>1, <1>2 DEF EntryInv
<1>4. sessions' = sessions
  BY <1>3 DEF OnWrite, TypeOK
<1>5. PICK m \in inFlight[c] :
          /\ delivered' = [delivered EXCEPT ![c] = Append(@, m)]
          /\ SendNext(c, queue[c], FALSE, inFlight[c] \ {m})
  BY <1>3 DEF OnWrite
<1>6. CASE d # c
  <2>1. /\ queue'[d] = queue[d] /\ writeActive'[d] = writeActive[d]
        /\ inFlight'[d] = inFlight[d] /\ dangling'[d] = dangling[d]
    BY <1>5, <1>6, SendNextFrame
  <2>2. delivered'[d] = delivered[d]
    BY <1>5, <1>6 DEF TypeOK
  <2>. QED
    BY <1>1, <1>4, <2>1, <2>2, FrameConn
<1>7. CASE d = c
  <2>1. /\ committed[c] \in Nat /\ queue[c] \in Seq(Nat) /\ {} \in SUBSET Nat
        /\ FALSE \in BOOLEAN /\ delivered[c] \in Seq(Nat) /\ m \in Nat
    BY DEF TypeOK
  <2>2. inFlight[c] \ {m} = {} /\ writeActive[c] = TRUE
    BY <1>2 DEF WriteInv, OneBefore, TypeOK
  <2>3. SendNext(c, queue[c], FALSE, {})
    BY <1>5, <2>2
  <2>4. OneBefore({}, FALSE, queue[c], committed[c])
    BY DEF OneBefore
  <2>5. /\ dangling'[c] \subseteq inFlight'[c]
        /\ Numbered(queue'[c], committed[c])
        /\ OneBefore(inFlight'[c], writeActive'[c], queue'[c], committed[c])
        /\ queue'[c] # <<>> => writeActive'[c]
    BY <1>2, <2>1, <2>3, <2>4, SendNextConn DEF WriteInv
  <2>6. queue[c] = <<>> => queue'[c] = <<>>
    BY <2>3 DEF SendNext, Rest, TypeOK
  <2>7. EntryInv(c)'
    BY <1>1, <1>2, <1>3, <1>4, <1>7 DEF EntryInv
  <2>8. WriteInv(c)'
    BY <1>1, <2>5 DEF WriteInv
  <2>9. ReplyInv(c)'
    <3>1. delivered'[c] = Append(delivered[c], m) /\ delivered'[c] # <<>>
      <4>1. delivered'[c] = Append(delivered[c], m)
        BY <1>5 DEF TypeOK
      <4>2. Append(delivered[c], m) # <<>>
        BY <2>1, SMTT(30)
      <4>. QED  BY <4>1, <4>2
    <3>2. CASE delivered[c] = <<>>
      <4>1. NothingButFirst(inFlight[c], writeActive[c], queue[c], committed[c])
        BY <1>1, <1>2, <3>2 DEF ReplyInv
      <4>2. m = 1
        BY <2>2, <4>1 DEF NothingButFirst
      <4>3. committed[c] # 0
        BY <1>2, <2>1, <4>2 DEF WriteInv, OneBefore
      <4>4. registered[c] > 0
        BY <1>2, <4>3 DEF ReplyInv, TypeOK
      <4>5. 1 \in replies[c]
        BY <1>2, <4>4 DEF ReplyInv
      <4>6. delivered'[c][1] = 1
        BY <2>1, <3>1, <3>2, <4>2
      <4>. QED  BY <1>1, <1>2, <3>1, <4>5, <4>6 DEF ReplyInv
    <3>3. CASE delivered[c] # <<>>
      <4>1. delivered'[c][1] = delivered[c][1]
        BY <2>1, <3>1, <3>3
      <4>. QED  BY <1>1, <1>2, <3>1, <3>3, <4>1 DEF ReplyInv
    <3>. QED  BY <3>2, <3>3
  <2>10. StrandInv(c)'
    BY <2>5 DEF StrandInv
  <2>. QED  BY <1>7, <2>7, <2>8, <2>9, <2>10 DEF ConnInv
<1>. QED  BY <1>6, <1>7

LEMMA WriteErrorConn ==
    ASSUME IInv, NEW c \in Ids, OnWriteError(c), NEW d \in Ids
    PROVE  ConnInv(d)'
<1> USE DEF IInv
<1>1. /\ TickStillToPost(d)' <=> TickStillToPost(d)
      /\ Accepted(d)' <=> Accepted(d)
      /\ sessions' = sessions /\ registered' = registered /\ queue' = queue
      /\ reader' = reader /\ writeActive' = writeActive /\ posted' = posted
      /\ committed' = committed /\ replies' = replies /\ delivered' = delivered
      /\ fault' = fault
  BY DEF OnWriteError, TickStillToPost, Accepted
<1>2. PICK m \in inFlight[c] :
          /\ inFlight' = [inFlight EXCEPT ![c] = @ \ {m}]
          /\ dangling' = [dangling EXCEPT ![c] = @ \ {m}]
  BY DEF OnWriteError
<1>3. CASE d # c
  <2>1. inFlight'[d] = inFlight[d] /\ dangling'[d] = dangling[d]
    BY <1>2, <1>3 DEF TypeOK
  <2>. QED
    BY <1>1, <2>1, FrameConn
<1>4. CASE d = c
  <2>1. EntryInv(c) /\ WriteInv(c) /\ ReplyInv(c) /\ StrandInv(c)
    BY DEF ConnInv
  <2>2. inFlight'[c] = inFlight[c] \ {m} /\ dangling'[c] = dangling[c] \ {m}
    BY <1>2 DEF TypeOK
  <2>3. EntryInv(c)'
    BY <1>1, <1>4, <2>1, <2>2 DEF EntryInv
  <2>4. WriteInv(c)'
    BY <1>1, <2>1, <2>2 DEF WriteInv, OneBefore
  <2>5. ReplyInv(c)'
    BY <1>1, <2>1, <2>2 DEF ReplyInv, NothingButFirst
  <2>6. StrandInv(c)'
    BY <1>1, <1>4, <2>1, <2>2 DEF StrandInv, Alive
  <2>. QED  BY <1>4, <2>3, <2>4, <2>5, <2>6 DEF ConnInv
<1>. QED  BY <1>3, <1>4

LEMMA PostedConn ==
    ASSUME IInv, NEW c \in Ids, RunPosted(c), NEW d \in Ids
    PROVE  ConnInv(d)'
<1>1. /\ nextId' = nextId /\ sessions' = sessions /\ registered' = registered
      /\ reader' = reader /\ tick' = tick /\ committed' = committed
      /\ replies' = replies /\ delivered' = delivered /\ fault = "none"
      /\ posted[c] > 0 /\ posted' = [posted EXCEPT ![c] = @ - 1]
  BY DEF RunPosted, IsPosted, CanRun
<1>2. d # c => posted'[d] = posted[d]
  BY <1>1 DEF IInv, TypeOK
<1>3. CASE sessions[c] # "live" \/ (queue[c] # <<>> /\ ~Alive(c))
  <2>1. /\ fault' = "useAfterFree" /\ queue' = queue /\ writeActive' = writeActive
        /\ inFlight' = inFlight /\ dangling' = dangling
    BY <1>3 DEF RunPosted, IsPosted
  <2>2. Accepted(d)' <=> Accepted(d)
    BY <1>1 DEF Accepted
  <2>3. CASE d # c
    BY <1>1, <1>2, <2>1, <2>2, <2>3, FrameConn DEF IInv
  <2>4. CASE d = c
    <3>1. EntryInv(c) /\ WriteInv(c) /\ ReplyInv(c)
      BY DEF IInv, ConnInv
    <3>2. reader[c] # "none"
      BY <1>1, <3>1 DEF EntryInv
    <3>3. EntryInv(c)'
      BY <1>1, <2>1, <2>2, <2>4, <3>1, <3>2 DEF EntryInv
    <3>4. WriteInv(c)' /\ ReplyInv(c)'
      BY <1>1, <2>1, <3>1 DEF WriteInv, ReplyInv
    <3>5. StrandInv(c)'
      BY <2>1 DEF StrandInv
    <3>. QED  BY <2>4, <3>3, <3>4, <3>5 DEF ConnInv
  <2>. QED  BY <2>3, <2>4
<1>4. CASE ~(sessions[c] # "live" \/ (queue[c] # <<>> /\ ~Alive(c)))
  <2>1. SendNext(c, queue[c], writeActive[c], inFlight[c])
    BY <1>4 DEF RunPosted, IsPosted
  <2>. QED  BY <1>1, <1>2, <1>4, <2>1, SendQueuedConn
<1>. QED  BY <1>3, <1>4

LEMMA InputConn ==
    ASSUME IInv, NEW c \in Ids, OnReadInput(c), NEW d \in Ids
    PROVE  ConnInv(d)'
<1>1. /\ UNCHANGED <<nextId, sessions, registered, reader, committed, replies, delivered,
                     tick>>
      /\ posted' = posted /\ sessions[c] = "live" /\ fault = "none"
      /\ SendNext(c, queue[c], writeActive[c], inFlight[c])
  BY DEF OnReadInput, CanRun
<1>. QED  BY <1>1, SendQueuedConn

\* A tick message is committed, or not, for a session that a handler still to come
\* will look after, or that has ended.
LEMMA CommitTickConn ==
    ASSUME IInv, NEW c \in Ids, Accepted(c), CommitTick(c), NEW d \in Ids,
           UNCHANGED <<nextId, sessions, registered, reader, writeActive, inFlight,
                       dangling, replies, delivered>>,
           d # c => posted'[d] = posted[d],
           fault' = "none" => fault = "none",
           d # c /\ TickStillToPost(d) => TickStillToPost(d)',
           fault' # "none" \/ posted'[c] > 0 \/ TickStillToPost(c)',
           sessions[c] = "live"
    PROVE  ConnInv(d)'
<1>1. Accepted(d)' <=> Accepted(d)
  BY DEF Accepted
<1>2. CASE d # c
  <2>1. queue'[d] = queue[d] /\ committed'[d] = committed[d]
    <3>1. CASE HasPlayer(c)
      BY <1>2, <3>1 DEF CommitTick, IInv, TypeOK
    <3>2. CASE ~HasPlayer(c)
      BY <3>2 DEF CommitTick
    <3>. QED  BY <3>1, <3>2
  <2>. QED  BY <1>1, <1>2, <2>1, FrameConn DEF IInv
<1>3. CASE d = c
  <2>1. EntryInv(c) /\ WriteInv(c) /\ ReplyInv(c)
    BY DEF IInv, ConnInv
  <2>2. EntryInv(c)'
    BY <1>1, <1>3, <2>1 DEF EntryInv
  <2>3. StrandInv(c)'
    BY DEF StrandInv
  <2>4. CASE HasPlayer(c)
    <3> DEFINE q == Commit(c, queue[c])
    <3>1. queue'[c] = q /\ committed'[c] = committed[c] + 1
      <4>1. /\ queue' = [queue EXCEPT ![c] = Commit(c, @)]
            /\ committed' = [committed EXCEPT ![c] = @ + 1]
        BY <2>4 DEF CommitTick
      <4>. QED  BY <4>1 DEF IInv, TypeOK
    <3>2. /\ Numbered(q, committed[c] + 1)
          /\ OneBefore(inFlight[c], writeActive[c], q, committed[c] + 1)
          /\ NothingButFirst(inFlight[c], writeActive[c], queue[c], committed[c]) =>
                 NothingButFirst(inFlight[c], writeActive[c], q, committed[c] + 1)
      BY <2>1, CommitConn DEF IInv
    <3>3. registered[c] # 0
      BY <2>4 DEF HasPlayer, IInv, TypeOK
    <3> HIDE DEF q
    <3>4. WriteInv(c)'
      BY <2>1, <3>1, <3>2 DEF WriteInv
    <3>5. ReplyInv(c)'
      BY <2>1, <3>1, <3>2, <3>3 DEF ReplyInv
    <3>. QED  BY <1>3, <2>2, <2>3, <3>4, <3>5 DEF ConnInv
  <2>5. CASE ~HasPlayer(c)
    <3>1. queue' = queue /\ committed' = committed
      BY <2>5 DEF CommitTick
    <3>2. WriteInv(c)' /\ ReplyInv(c)'
      BY <2>1, <3>1 DEF WriteInv, ReplyInv
    <3>. QED  BY <1>3, <2>2, <2>3, <3>2 DEF ConnInv
  <2>. QED  BY <2>4, <2>5
<1>. QED  BY <1>2, <1>3

LEMMA UniverseTickConn ==
    ASSUME IInv, UniverseTick, NEW d \in Ids
    PROVE  ConnInv(d)'
<1> DEFINE c == tick.at
<1>1. /\ UNCHANGED <<nextId, sessions, registered, reader, writeActive, inFlight,
                     dangling, posted, replies, delivered>>
      /\ tick.stage = "universe" /\ c < nextId /\ tick' = [tick EXCEPT !.at = c + 1]
      /\ fault = "none"
  BY DEF UniverseTick
<1>2. c \in Ids /\ Accepted(c) /\ tick'.stage = "universe"
  BY <1>1, ConstantsAssumption, SMTT(30) DEF IInv, TypeOK, Ticks, Ids, Accepted
<1>3. \A e \in Ids : TickStillToPost(e)'
  BY <1>2 DEF TickStillToPost
<1>4. sessions[c] # "null"
  BY <1>2 DEF IInv, ConnInv, EntryInv
<1>5. CASE sessions[c] = "live"
  <2>1. CommitTick(c) /\ fault' = fault
    BY <1>5 DEF UniverseTick
  <2> HIDE DEF c
  <2>. QED  BY <1>1, <1>2, <1>3, <1>5, <2>1, CommitTickConn
<1>6. CASE sessions[c] # "live"
  <2>1. queue' = queue /\ committed' = committed /\ fault' = fault
    BY <1>4, <1>6 DEF UniverseTick
  <2>2. Accepted(d)' <=> Accepted(d)
    BY <1>1 DEF Accepted
  <2>. QED  BY <1>1, <1>3, <2>1, <2>2, FrameConn DEF IInv
<1>. QED  BY <1>5, <1>6

LEMMA SessionTickConn ==
    ASSUME IInv, SessionTick, NEW d \in Ids
    PROVE  ConnInv(d)'
<1> DEFINE c == tick.at
<1>1. /\ UNCHANGED <<nextId, sessions, registered, reader, writeActive, inFlight,
                     dangling, replies, delivered>>
      /\ tick.stage = "sessions" /\ c < nextId /\ tick' = [tick EXCEPT !.at = c + 1]
      /\ fault = "none"
  BY DEF SessionTick
<1>2. /\ c \in Ids /\ Accepted(c) /\ tick'.stage = "sessions" /\ tick'.at = c + 1
  BY <1>1, ConstantsAssumption, SMTT(30) DEF IInv, TypeOK, Ticks, Ids, Accepted
<1>3. d # c /\ TickStillToPost(d) => TickStillToPost(d)'
  BY <1>1, <1>2 DEF TickStillToPost, Ids
<1>4. CASE sessions[c] = "live"
  <2>1. CommitTick(c)
    BY <1>4 DEF SessionTick
  <2>2. CASE Alive(c)
    <3>1. posted' = [posted EXCEPT ![c] = @ + 1] /\ fault' = fault
      BY <1>4, <2>2 DEF SessionTick, OnTxReady
    <3>2. posted'[c] > 0 /\ (d # c => posted'[d] = posted[d])
      BY <1>2, <3>1 DEF IInv, TypeOK
    <3> HIDE DEF c
    <3>. QED  BY <1>1, <1>2, <1>3, <1>4, <2>1, <3>1, <3>2, CommitTickConn
  <2>3. CASE ~Alive(c)
    <3>1. posted' = posted /\ fault' = "useAfterFree"
      BY <1>4, <2>3 DEF SessionTick
    <3> HIDE DEF c
    <3>. QED  BY <1>1, <1>2, <1>3, <1>4, <2>1, <3>1, CommitTickConn
  <2>. QED  BY <2>2, <2>3
<1>5. CASE sessions[c] # "live"
  <2>1. /\ queue' = queue /\ committed' = committed /\ posted' = posted
        /\ fault' = fault
    BY <1>5 DEF SessionTick
  <2>2. Accepted(d)' <=> Accepted(d)
    BY <1>1 DEF Accepted
  <2>3. CASE d # c
    BY <1>1, <1>3, <2>1, <2>2, <2>3, FrameConn DEF IInv
  <2>4. CASE d = c
    <3>1. EntryInv(d) /\ WriteInv(d) /\ ReplyInv(d)
      BY DEF IInv, ConnInv
    <3>2. queue[d] = <<>>
      BY <1>5, <2>4, <3>1 DEF EntryInv
    <3>3. EntryInv(d)' /\ WriteInv(d)' /\ ReplyInv(d)'
      BY <1>1, <2>1, <2>2, <3>1 DEF EntryInv, WriteInv, ReplyInv
    <3>4. StrandInv(d)'
      BY <2>1, <3>2 DEF StrandInv
    <3>. QED  BY <3>3, <3>4 DEF ConnInv
  <2>. QED  BY <2>3, <2>4
<1>. QED  BY <1>4, <1>5

\* The steps that only move the timer handler on.
LEMMA TickConn ==
    ASSUME IInv, StartTick \/ UniverseTicked \/ EndTick, NEW d \in Ids
    PROVE  ConnInv(d)'
<1>1. UNCHANGED <<nextId, sessions, connVars, fault>>
  BY DEF StartTick, UniverseTicked, EndTick
<1>2. Accepted(d)' <=> Accepted(d)
  BY <1>1 DEF Accepted
<1>3. reader[d] # "none" /\ TickStillToPost(d) => TickStillToPost(d)'
  <2>1. CASE StartTick
    BY <2>1 DEF StartTick, TickStillToPost
  <2>2. CASE UniverseTicked
    BY <2>2, ConstantsAssumption DEF UniverseTicked, TickStillToPost, Ids
  <2>3. CASE EndTick
    <3>1. reader[d] # "none" => d < nextId
      BY DEF IInv, ConnInv, EntryInv, Accepted
    <3>2. TickStillToPost(d) => nextId <= d
      BY <2>3 DEF EndTick, TickStillToPost
    <3>3. d \in Nat /\ nextId \in Nat
      BY ConstantsAssumption DEF Ids, IInv, TypeOK
    <3>. QED  BY <3>1, <3>2, <3>3
  <2>. QED  BY <2>1, <2>2, <2>3
<1>. QED
  BY <1>1, <1>2, <1>3, FrameConn DEF IInv, connVars

LEMMA ConnStep ==
    ASSUME IInv, Next, NEW d \in Ids
    PROVE  ConnInv(d)'
<1>1. CASE OnAccept
  BY <1>1, AcceptConn
<1>2. CASE StartTick
  BY <1>2, TickConn
<1>3. CASE Ticking
  BY <1>3, TickConn, UniverseTickConn, SessionTickConn DEF Ticking
<1>4. ASSUME NEW c \in Ids, Reading(c) PROVE ConnInv(d)'
  BY <1>4, RegisterConn, InputConn, ReaderConn DEF Reading
<1>5. ASSUME NEW c \in Ids, Writing(c) PROVE ConnInv(d)'
  BY <1>5, WriteConn, WriteErrorConn DEF Writing
<1>6. ASSUME NEW c \in Ids, RunPosted(c) PROVE ConnInv(d)'
  BY <1>6, PostedConn
<1>. QED  BY <1>1, <1>2, <1>3, <1>4, <1>5, <1>6 DEF Next

\* A connection is only wedged by a write that failed: wherever m_write_active is
\* set, a write is started or was outstanding already.
LEMMA WedgeSend ==
    ASSUME TypeOK, NEW c \in Ids, NEW d \in Ids, WedgeInv(d),
           NEW q, NEW active \in BOOLEAN, NEW ops, SendNext(c, q, active, ops),
           active => ops # {} \/ writeFailed[c],
           writeFailed' = writeFailed
    PROVE  WedgeInv(d)'
<1>1. CASE d # c
  BY <1>1, SendNextFrame DEF WedgeInv
<1>2. CASE d = c
  <2>1. /\ writeActive'[c] = (active \/ q # <<>>)
        /\ inFlight'[c] = ops \cup DoWrite(Front(q), active)
    BY DEF SendNext, TypeOK
  <2>2. ~active /\ q # <<>> => DoWrite(Front(q), active) # {}
    BY DEF DoWrite, Front
  <2>. QED  BY <1>2, <2>1, <2>2 DEF WedgeInv
<1>. QED  BY <1>1, <1>2

LEMMA WedgeStep ==
    ASSUME IInv, Next, NEW d \in Ids
    PROVE  WedgeInv(d)'
<1>1. TypeOK /\ WedgeInv(d)
  BY DEF IInv
<1>2. ASSUME UNCHANGED <<writeActive, inFlight, writeFailed>> PROVE WedgeInv(d)'
  BY <1>1, <1>2 DEF WedgeInv
<1>3. ASSUME NEW c \in Ids, SendNext(c, queue[c], writeActive[c], inFlight[c]),
             writeFailed' = writeFailed
      PROVE  WedgeInv(d)'
  <2>1. writeActive[c] \in BOOLEAN /\ WedgeInv(c)
    BY <1>1 DEF IInv, TypeOK
  <2>. QED  BY <1>1, <1>3, <2>1, WedgeSend DEF WedgeInv
<1>4. CASE OnAccept \/ StartTick \/ Ticking
  BY <1>2, <1>4
     DEF OnAccept, StartTick, Ticking, UniverseTick, UniverseTicked, SessionTick, EndTick,
         connVars
<1>5. ASSUME NEW c \in Ids, Reading(c) PROVE WedgeInv(d)'
  <2>1. CASE OnReadRegister(c)
    <3>1. /\ SendNext(c, Commit(c, queue[c]), writeActive[c], inFlight[c])
          /\ writeFailed' = writeFailed
      BY <2>1 DEF OnReadRegister
    <3>2. writeActive[c] \in BOOLEAN /\ WedgeInv(c)
      BY <1>1 DEF IInv, TypeOK
    <3>. QED  BY <1>1, <3>1, <3>2, WedgeSend DEF WedgeInv
  <2>2. CASE OnReadInput(c)
    BY <1>3, <2>2 DEF OnReadInput
  <2>3. CASE PeerClose(c) \/ OnReadClosed(c) \/ OnReadError(c)
    BY <1>2, <2>3 DEF PeerClose, OnReadClosed, OnReadError
  <2>. QED  BY <1>5, <2>1, <2>2, <2>3 DEF Reading
<1>6. ASSUME NEW c \in Ids, OnWrite(c) PROVE WedgeInv(d)'
  <2>1. sessions[c] = "live" /\ writeFailed' = writeFailed
    BY <1>6 DEF OnWrite, IInv, ConnInv, EntryInv
  <2>2. PICK m \in inFlight[c] : SendNext(c, queue[c], FALSE, inFlight[c] \ {m})
    BY <1>6, <2>1 DEF OnWrite
  <2>. QED  BY <1>1, <2>1, <2>2, WedgeSend
<1>7. ASSUME NEW c \in Ids, OnWriteError(c) PROVE WedgeInv(d)'
  <2>1. /\ writeActive' = writeActive /\ writeFailed' = [writeFailed EXCEPT ![c] = TRUE]
        /\ \E m : inFlight' = [inFlight EXCEPT ![c] = @ \ {m}]
    BY <1>7 DEF OnWriteError
  <2>. QED  BY <1>1, <2>1 DEF WedgeInv, TypeOK
<1>8. ASSUME NEW c \in Ids, RunPosted(c) PROVE WedgeInv(d)'
  <2>1. CASE sessions[c] # "live" \/ (queue[c] # <<>> /\ ~Alive(c))
    BY <1>2, <1>8, <2>1 DEF RunPosted, IsPosted
  <2>2. CASE ~(sessions[c] # "live" \/ (queue[c] # <<>> /\ ~Alive(c)))
    BY <1>3, <1>8, <2>2 DEF RunPosted, IsPosted
  <2>. QED  BY <2>1, <2>2
<1>. QED  BY <1>4, <1>5, <1>6, <1>7, <1>8 DEF Next, Writing

-----------------------------------------------------------------------------
(***************************************************************************)
(* The parts of the invariant that do not belong to one connection.        *)
(***************************************************************************)

\* The read of a connection whose websocket_session is gone has ended.
EndedNow(c) ==
    \/ reader[c] = "closed"
    \/ reader[c] \in {"failed", "aborted"} /\ inFlight[c] = {}

\* A handler that touches a session or a websocket_session that is gone does so
\* because its connection has ended.
LEMMA FaultStep ==
    ASSUME IInv, Next
    PROVE  AliveUntilEnded' /\ fault' # "nullSession"
<1>1. ASSUME fault' \in {"none", "dataRace"}
      PROVE  AliveUntilEnded' /\ fault' # "nullSession"
  BY <1>1 DEF AliveUntilEnded
<1>2. ASSUME fault' = "useAfterFree", NEW c \in Ids, EndedNow(c)'
      PROVE  AliveUntilEnded' /\ fault' # "nullSession"
  BY <1>2 DEF AliveUntilEnded, EndedNow, Ids
<1>3. CASE OnAccept
  BY <1>1, <1>3 DEF OnAccept, MapOutcomes
<1>4. CASE StartTick \/ UniverseTicked \/ EndTick
  BY <1>1, <1>4 DEF StartTick, UniverseTicked, EndTick
<1>5. ASSUME NEW c \in Ids, Reading(c)
      PROVE  AliveUntilEnded' /\ fault' # "nullSession"
  BY <1>1, <1>5
     DEF Reading, OnReadRegister, OnReadInput, PeerClose, OnReadClosed, OnReadError, CanRun,
         MapOutcomes, GameOutcomes
<1>6. ASSUME NEW c \in Ids, Writing(c)
      PROVE  AliveUntilEnded' /\ fault' # "nullSession"
  BY <1>1, <1>6 DEF Writing, OnWrite, OnWriteError, CanRun, QueueOutcomes, GameOutcomes
<1>7. ASSUME NEW c \in Ids, RunPosted(c)
      PROVE  AliveUntilEnded' /\ fault' # "nullSession"
  <2>1. CASE sessions[c] # "live" \/ (queue[c] # <<>> /\ ~Alive(c))
    <3>1. /\ fault' = "useAfterFree" /\ reader' = reader /\ inFlight' = inFlight
          /\ posted[c] > 0
      BY <1>7, <2>1 DEF RunPosted, IsPosted
    <3>2. EntryInv(c) /\ reader[c] \in Readers /\ posted[c] \in Nat
      BY DEF IInv, ConnInv, TypeOK
    <3>3. EndedNow(c)
      BY <2>1, <3>1, <3>2 DEF EntryInv, Alive, Readers, EndedNow
    <3>. QED  BY <1>2, <3>1, <3>3 DEF EndedNow
  <2>2. CASE ~(sessions[c] # "live" \/ (queue[c] # <<>> /\ ~Alive(c)))
    BY <1>1, <1>7, <2>2 DEF RunPosted, IsPosted, QueueOutcomes, GameOutcomes
  <2>. QED  BY <2>1, <2>2
<1>8. CASE UniverseTick \/ SessionTick
  <2>1. PICK c : c = tick.at
    OBVIOUS
  <2>2. c \in Ids /\ fault = "none"
    BY <1>8, <2>1, ConstantsAssumption
       DEF UniverseTick, SessionTick, IInv, TypeOK, Ticks, Ids
  <2>3. EntryInv(c)
    BY <2>2 DEF IInv, ConnInv
  <2>4. CASE UniverseTick
    BY <1>1, <2>1, <2>2, <2>3, <2>4 DEF UniverseTick, EntryInv
  <2>5. CASE SessionTick /\ sessions[c] = "live" /\ ~Alive(c)
    <3>1. fault' = "useAfterFree" /\ reader' = reader /\ inFlight' = inFlight
      BY <2>1, <2>5 DEF SessionTick
    <3>2. EndedNow(c)
      BY <2>3, <2>5 DEF EntryInv, Alive, EndedNow
    <3>. QED  BY <1>2, <2>2, <3>1, <3>2 DEF EndedNow
  <2>6. CASE SessionTick /\ ~(sessions[c] = "live" /\ ~Alive(c))
    BY <1>1, <2>1, <2>2, <2>6 DEF SessionTick
  <2>. QED  BY <1>8, <2>4, <2>5, <2>6
<1>. QED
  BY <1>3, <1>4, <1>5, <1>6, <1>7, <1>8 DEF Next, Ticking

LEMMA TickStep ==
    ASSUME IInv, Next
    PROVE  tick'.at <= nextId'
<1>1. tick.at <= nextId /\ tick.at \in Nat /\ nextId \in Nat
  BY DEF IInv, GlobalInv, TypeOK, Ticks
<1>2. CASE OnAccept
  <2>1. tick' = tick /\ nextId' = nextId + 1
    BY <1>2 DEF OnAccept
  <2>. QED  BY <1>1, <2>1
<1>3. CASE StartTick \/ UniverseTicked \/ EndTick
  BY <1>1, <1>3 DEF StartTick, UniverseTicked, EndTick, Idle
<1>4. CASE UniverseTick \/ SessionTick
  <2>1. tick' = [tick EXCEPT !.at = tick.at + 1] /\ nextId' = nextId /\ tick.at < nextId
    BY <1>4 DEF UniverseTick, SessionTick
  <2>2. tick'.at = tick.at + 1
    BY <2>1 DEF IInv, TypeOK, Ticks
  <2>. QED  BY <1>1, <2>1, <2>2
<1>5. ASSUME NEW c \in Ids, Reading(c) \/ Writing(c) \/ RunPosted(c)
      PROVE  tick'.at <= nextId'
  <2>1. tick' = tick /\ nextId' = nextId
    BY <1>5 DEF Reading, OnReadRegister, OnReadInput, PeerClose, OnReadClosed, OnReadError,
                Writing, OnWrite, OnWriteError, RunPosted, IsPosted
  <2>. QED  BY <1>1, <2>1
<1>. QED  BY <1>2, <1>3, <1>4, <1>5 DEF Next, Ticking

-----------------------------------------------------------------------------
(***************************************************************************)
(* The theorems.                                                           *)
(***************************************************************************)

LEMMA InitIInv == Init => IInv
<1> SUFFICES ASSUME Init PROVE IInv
  OBVIOUS
<1>1. TypeOK
  BY InitTypes
<1>2. GlobalInv
  BY DEF Init, GlobalInv, Idle, AliveUntilEnded
<1>3. ASSUME NEW c \in Ids PROVE ConnInv(c)
  <2>1. c \in Nat /\ ~Accepted(c)
    BY ConstantsAssumption DEF Init, Accepted, Ids
  <2>2. /\ reader[c] = "none" /\ sessions[c] = "absent" /\ queue[c] = <<>>
        /\ inFlight[c] = {} /\ dangling[c] = {} /\ posted[c] = 0 /\ committed[c] = 0
        /\ registered[c] = 0 /\ delivered[c] = <<>> /\ writeActive[c] = FALSE
    BY DEF Init
  <2>3. EntryInv(c)
    BY <2>1, <2>2 DEF EntryInv
  <2>4. WriteInv(c)
    BY <2>2 DEF WriteInv, Numbered, OneBefore
  <2>5. ReplyInv(c) /\ StrandInv(c)
    BY <2>2 DEF ReplyInv, NothingButFirst, StrandInv
  <2>. QED  BY <2>3, <2>4, <2>5 DEF ConnInv
<1>4. \A c \in Ids : WedgeInv(c)
  BY DEF Init, WedgeInv
<1>. QED  BY <1>1, <1>2, <1>3, <1>4 DEF IInv

LEMMA NextIInv == IInv /\ [Next]_vars => IInv'
<1> SUFFICES ASSUME IInv, [Next]_vars PROVE IInv'
  OBVIOUS
<1>1. TypeOK'
  BY NextTypes DEF IInv
<1>2. CASE Next
  <2>1. GlobalInv'
    BY <1>2, FaultStep, TickStep DEF GlobalInv
  <2>2. \A c \in Ids : ConnInv(c)'
    BY <1>2, ConnStep
  <2>3. \A c \in Ids : WedgeInv(c)'
    BY <1>2, WedgeStep
  <2>. QED  BY <1>1, <2>1, <2>2, <2>3 DEF IInv, Ids
<1>3. CASE UNCHANGED vars
  BY <1>3, SMTT(30) DEF vars, IInv, TypeOK, GlobalInv, AliveUntilEnded, ConnInv,
              EntryInv, Accepted, WriteInv, ReplyInv, StrandInv, WedgeInv, Alive,
              TickStillToPost
<1>. QED  BY <1>2, <1>3

LEMMA Invariance == Spec => []IInv
BY InitIInv, NextIInv, PTL DEF Spec

\* At no time are two async_write operations outstanding on one stream.
THEOREM AtMostOneWrite == Spec => []OneWriteAtATime
<1>1. IInv => OneWriteAtATime
  BY DEF IInv, ConnInv, WriteInv, OneBefore, OneWriteAtATime
<1>. QED  BY Invariance, <1>1, PTL

\* Until a write of its fails, a connection that lasts never has a buffer queued
\* without a write outstanding, a posted handler, or a tick that will post one.
THEOREM NoBufferStranded == Spec => []NothingStranded
<1>1. IInv => NothingStranded
  <2> SUFFICES ASSUME IInv, NEW c \in Ids, queue[c] # <<>>, Alive(c), ~writeFailed[c],
                      fault = "none"
               PROVE  inFlight[c] # {} \/ posted[c] > 0 \/ TickStillToPost(c)
    BY DEF NothingStranded
  <2>1. StrandInv(c) /\ WedgeInv(c)
    BY DEF IInv, ConnInv
  <2>. QED  BY <2>1 DEF StrandInv, WedgeInv
<1>. QED  BY Invariance, <1>1, PTL

\* The registration reply is the first thing a browser receives.
THEOREM ReplyFirst == Spec => []ReplyComesFirst
<1>1. IInv => ReplyComesFirst
  BY DEF IInv, ConnInv, ReplyInv, ReplyComesFirst
<1>. QED  BY Invariance, <1>1, PTL

\* A session or websocket_session is only used after its destruction when a
\* connection has ended.
THEOREM ObjectsAliveUntilEnded == Spec => []AliveUntilEnded
<1>1. IInv => AliveUntilEnded
  BY DEF IInv, GlobalInv
<1>. QED  BY Invariance, <1>1, PTL

\* The session map never holds a null pointer.
THEOREM NoNullEntry == Spec => []NoNullSession
<1>1. IInv => NoNullSession
  BY DEF IInv, GlobalInv, ConnInv, EntryInv, NoNullSession
<1>. QED  BY Invariance, <1>1, PTL

-----------------------------------------------------------------------------
(***************************************************************************)
(* Every connection's path implements LossyFifo: what is pending only      *)
(* grows by the buffer committed, and what is delivered comes before       *)
(* everything still pending.                                               *)
(***************************************************************************)

Elements(q) == {q[i] : i \in DOMAIN q}

\* Sending the next buffer of q keeps no buffer that was not in q or being written.
LEMMA SendNextPending ==
    ASSUME TypeOK, NEW c \in Ids, NEW q \in Seq(Nat), NEW active, NEW ops,
           SendNext(c, q, active, ops)
    PROVE  Pending(c)' \subseteq ops \cup Elements(q)
<1>1. /\ queue'[c] = Rest(q)
      /\ inFlight'[c] = ops \cup DoWrite(Front(q), active)
  BY DEF SendNext, TypeOK
<1>2. DoWrite(Front(q), active) \subseteq Front(q)
  BY DEF DoWrite
<1>3. Front(q) \subseteq Elements(q) /\ Elements(Rest(q)) \subseteq Elements(q)
  <2>1. CASE q = <<>>
    BY <2>1 DEF Front, Rest, Elements
  <2>2. CASE q # <<>>
    <3>1. /\ 1 \in DOMAIN q /\ Head(q) = q[1]
          /\ \A i \in DOMAIN Tail(q) : i + 1 \in DOMAIN q /\ Tail(q)[i] = q[i + 1]
      BY <2>2
    <3>. QED  BY <2>2, <3>1 DEF Front, Rest, Elements
  <2>. QED  BY <2>1, <2>2
<1>4. Pending(c)' = inFlight'[c] \cup Elements(queue'[c])
  BY DEF Pending, Elements
<1>. QED  BY <1>1, <1>2, <1>3, <1>4

\* Committing a buffer to a queue adds its number.
LEMMA CommitElements ==
    ASSUME TypeOK, NEW c \in Ids
    PROVE  /\ Commit(c, queue[c]) \in Seq(Nat)
           /\ Elements(Commit(c, queue[c])) \subseteq Elements(queue[c]) \cup {committed[c] + 1}
<1>1. queue[c] \in Seq(Nat) /\ committed[c] \in Nat
  BY DEF TypeOK
<1> DEFINE q == queue[c]
           n == committed[c] + 1
<1>2. /\ Append(q, n) \in Seq(Nat)
      /\ \A i \in DOMAIN Append(q, n) :
            (i \in DOMAIN q /\ Append(q, n)[i] = q[i]) \/ Append(q, n)[i] = n
  BY <1>1
<1>. QED  BY <1>2 DEF Commit, Elements

LEMMA FifoCommit ==
    ASSUME NEW c \in Ids, committed'[c] = committed[c] + 1, delivered'[c] = delivered[c],
           Pending(c)' \subseteq Pending(c) \cup {committed[c] + 1}
    PROVE  Fifo(c)!Next
BY DEF Fifo!Next, Fifo!Accept

LEMMA FifoLose ==
    ASSUME NEW c \in Ids, committed'[c] = committed[c], delivered'[c] = delivered[c],
           Pending(c)' \subseteq Pending(c)
    PROVE  Fifo(c)!Next
BY DEF Fifo!Next, Fifo!Lose

LEMMA FifoDeliver ==
    ASSUME NEW c \in Ids, NEW m \in Pending(c), committed'[c] = committed[c],
           delivered'[c] = Append(delivered[c], m),
           Pending(c)' \subseteq {k \in Pending(c) : k > m}
    PROVE  Fifo(c)!Next
BY DEF Fifo!Next, Fifo!Deliver

FifoStep(c) == Fifo(c)!Next \/ UNCHANGED Fifo(c)!vars

\* A step that leaves everything of connection c alone that its FIFO is made of.
LEMMA FifoStutter ==
    ASSUME NEW c \in Ids, committed'[c] = committed[c], delivered'[c] = delivered[c],
           inFlight'[c] = inFlight[c], queue'[c] = queue[c]
    PROVE  FifoStep(c)
<1>1. Pending(c)' = Pending(c)
  BY DEF Pending
<1>. QED  BY <1>1 DEF FifoStep, Fifo!vars

\* A tick message is committed, or there is no player.
LEMMA FifoCommitTick ==
    ASSUME IInv, NEW c \in Ids, NEW d \in Ids, CommitTick(d),
           delivered' = delivered, inFlight' = inFlight
    PROVE  FifoStep(c)
<1>1. CASE c = d /\ HasPlayer(d)
  <2>1. queue'[c] = Commit(c, queue[c]) /\ committed'[c] = committed[c] + 1
    <3>1. /\ queue' = [queue EXCEPT ![d] = Commit(d, @)]
          /\ committed' = [committed EXCEPT ![d] = @ + 1]
      BY <1>1 DEF CommitTick
    <3>. QED  BY <1>1, <3>1 DEF IInv, TypeOK
  <2>2. Pending(c)' = inFlight[c] \cup Elements(Commit(c, queue[c]))
    BY <2>1 DEF Pending, Elements
  <2>3. Pending(c) = inFlight[c] \cup Elements(queue[c])
    BY DEF Pending, Elements
  <2>4. Elements(Commit(c, queue[c])) \subseteq Elements(queue[c]) \cup {committed[c] + 1}
    BY CommitElements DEF IInv
  <2>5. Pending(c)' \subseteq Pending(c) \cup {committed[c] + 1}
    BY <2>2, <2>3, <2>4
  <2>. QED  BY <2>1, <2>5, FifoCommit DEF FifoStep
<1>2. CASE ~(c = d /\ HasPlayer(d))
  <2>1. queue'[c] = queue[c] /\ committed'[c] = committed[c]
    BY <1>2 DEF CommitTick, IInv, TypeOK
  <2>. QED  BY <2>1, FifoStutter
<1>. QED  BY <1>1, <1>2

\* The next buffer of connection c's queue is sent; nothing is delivered.
LEMMA FifoSend ==
    ASSUME IInv, NEW c \in Ids, NEW d \in Ids,
           SendNext(d, queue[d], writeActive[d], inFlight[d]),
           delivered' = delivered, committed' = committed
    PROVE  FifoStep(c)
<1>1. CASE c = d
  <2>1. Pending(c)' \subseteq inFlight[c] \cup Elements(queue[c])
    BY <1>1, SendNextPending DEF IInv, TypeOK
  <2>2. Pending(c)' \subseteq Pending(c)
    BY <2>1 DEF Pending, Elements
  <2>. QED  BY <2>2, FifoLose DEF FifoStep
<1>2. CASE c # d
  BY <1>2, SendNextFrame, FifoStutter DEF IInv
<1>. QED  BY <1>1, <1>2

LEMMA FifoRegister ==
    ASSUME IInv, NEW c \in Ids, NEW d \in Ids, OnReadRegister(d)
    PROVE  FifoStep(c)
<1>1. /\ SendNext(d, Commit(d, queue[d]), writeActive[d], inFlight[d])
      /\ committed' = [committed EXCEPT ![d] = @ + 1] /\ delivered' = delivered
  BY DEF OnReadRegister
<1>2. CASE c = d
  <2>1. /\ Commit(c, queue[c]) \in Seq(Nat)
        /\ Elements(Commit(c, queue[c])) \subseteq Elements(queue[c]) \cup {committed[c] + 1}
    BY CommitElements DEF IInv
  <2>2. Pending(c)' \subseteq inFlight[c] \cup Elements(Commit(c, queue[c]))
    BY <1>1, <1>2, <2>1, SendNextPending DEF IInv
  <2>3. Pending(c) = inFlight[c] \cup Elements(queue[c])
    BY DEF Pending, Elements
  <2>4. Pending(c)' \subseteq Pending(c) \cup {committed[c] + 1}
    BY <2>1, <2>2, <2>3
  <2>5. committed'[c] = committed[c] + 1
    BY <1>1, <1>2 DEF IInv, TypeOK
  <2>. QED  BY <1>1, <2>4, <2>5, FifoCommit DEF FifoStep
<1>3. CASE c # d
  <2>1. committed'[c] = committed[c]
    BY <1>1, <1>3 DEF IInv, TypeOK
  <2>. QED  BY <1>1, <1>3, <2>1, SendNextFrame, FifoStutter DEF IInv
<1>. QED  BY <1>2, <1>3

\* What is written was committed before everything that is still queued.
LEMMA FifoWrite ==
    ASSUME IInv, NEW c \in Ids, NEW d \in Ids, OnWrite(d)
    PROVE  FifoStep(c)
<1>1. EntryInv(d) /\ WriteInv(d)
  BY DEF IInv, ConnInv
<1>2. sessions[d] = "live" /\ committed' = committed
  BY <1>1 DEF OnWrite, EntryInv
<1>3. PICK m \in inFlight[d] :
          /\ delivered' = [delivered EXCEPT ![d] = Append(@, m)]
          /\ SendNext(d, queue[d], FALSE, inFlight[d] \ {m})
  BY <1>2 DEF OnWrite
<1>4. CASE c = d
  <2>1. /\ queue[c] \in Seq(Nat) /\ committed[c] \in Nat /\ m \in Nat
        /\ inFlight[c] \ {m} = {}
    BY <1>1, <1>4 DEF IInv, TypeOK, WriteInv, OneBefore
  <2>2. Pending(c)' \subseteq Elements(queue[c])
    BY <1>3, <1>4, <2>1, SendNextPending DEF IInv
  <2>3. ASSUME NEW i \in DOMAIN queue[c] PROVE queue[c][i] > m
    <3>1. queue[c][i] + Len(queue[c]) = committed[c] + i /\ m + Len(queue[c]) <= committed[c]
      BY <1>1, <1>4, <2>3 DEF WriteInv, Numbered, OneBefore
    <3>2. i \in Nat \ {0} /\ Len(queue[c]) \in Nat /\ queue[c][i] \in Nat
      BY <2>1
    <3>. QED  BY <2>1, <3>1, <3>2, SMTT(30)
  <2>4. Pending(c)' \subseteq {k \in Pending(c) : k > m}
    BY <2>2, <2>3 DEF Pending, Elements
  <2>5. m \in Pending(c) /\ delivered'[c] = Append(delivered[c], m)
    BY <1>3, <1>4 DEF Pending, IInv, TypeOK
  <2>. QED  BY <1>2, <2>4, <2>5, FifoDeliver DEF FifoStep
<1>5. CASE c # d
  <2>1. delivered'[c] = delivered[c]
    BY <1>3, <1>5 DEF IInv, TypeOK
  <2>. QED  BY <1>2, <1>3, <1>5, <2>1, SendNextFrame, FifoStutter DEF IInv
<1>. QED  BY <1>4, <1>5

\* A connection that ends, and a write that fails, only lose buffers.
LEMMA FifoEnd ==
    ASSUME IInv, NEW c \in Ids, NEW d \in Ids, OnReadClosed(d) \/ OnWriteError(d)
    PROVE  FifoStep(c)
<1>1. committed' = committed /\ delivered' = delivered
  BY DEF OnReadClosed, OnWriteError
<1>2. CASE OnReadClosed(d)
  <2>1. inFlight' = inFlight /\ queue'[c] \in {queue[c], <<>>}
    BY <1>2 DEF OnReadClosed, IInv, TypeOK
  <2>2. Pending(c)' \subseteq Pending(c)
    BY <2>1 DEF Pending
  <2>. QED  BY <1>1, <2>2, FifoLose DEF FifoStep
<1>3. CASE OnWriteError(d)
  <2>1. PICK m \in inFlight[d] : inFlight' = [inFlight EXCEPT ![d] = @ \ {m}]
    BY <1>3 DEF OnWriteError
  <2>2. queue' = queue /\ inFlight'[c] \subseteq inFlight[c]
    BY <1>3, <2>1 DEF OnWriteError, IInv, TypeOK
  <2>3. Pending(c)' \subseteq Pending(c)
    BY <2>2 DEF Pending
  <2>. QED  BY <1>1, <2>3, FifoLose DEF FifoStep
<1>. QED  BY <1>2, <1>3

LEMMA FifoPosted ==
    ASSUME IInv, NEW c \in Ids, NEW d \in Ids, RunPosted(d)
    PROVE  FifoStep(c)
<1>1. committed' = committed /\ delivered' = delivered
  BY DEF RunPosted, IsPosted
<1>2. CASE sessions[d] # "live" \/ (queue[d] # <<>> /\ ~Alive(d))
  <2>1. queue' = queue /\ inFlight' = inFlight
    BY <1>2 DEF RunPosted, IsPosted
  <2>. QED  BY <1>1, <2>1, FifoStutter
<1>3. CASE ~(sessions[d] # "live" \/ (queue[d] # <<>> /\ ~Alive(d)))
  <2>1. SendNext(d, queue[d], writeActive[d], inFlight[d])
    BY <1>3 DEF RunPosted, IsPosted
  <2>. QED  BY <1>1, <2>1, FifoSend
<1>. QED  BY <1>2, <1>3

LEMMA FifoTick ==
    ASSUME IInv, NEW c \in Ids, UniverseTick \/ SessionTick
    PROVE  FifoStep(c)
<1>1. PICK d : d = tick.at
  OBVIOUS
<1>2. d \in Ids /\ delivered' = delivered /\ inFlight' = inFlight
  BY <1>1, ConstantsAssumption DEF UniverseTick, SessionTick, IInv, TypeOK, Ticks, Ids
<1>3. CASE sessions[d] = "live"
  <2>1. CommitTick(d)
    BY <1>1, <1>3 DEF UniverseTick, SessionTick
  <2>. QED  BY <1>2, <2>1, FifoCommitTick
<1>4. CASE sessions[d] # "live"
  <2>1. queue' = queue /\ committed' = committed
    BY <1>1, <1>4 DEF UniverseTick, SessionTick
  <2>. QED  BY <1>2, <2>1, FifoStutter
<1>. QED  BY <1>3, <1>4

LEMMA EveryFifoStep ==
    ASSUME IInv, [Next]_vars, NEW c \in Ids
    PROVE  FifoStep(c)
<1>1. CASE OnAccept \/ StartTick \/ UniverseTicked \/ EndTick
  BY <1>1, FifoStutter DEF OnAccept, StartTick, UniverseTicked, EndTick, connVars
<1>2. CASE UniverseTick \/ SessionTick
  BY <1>2, FifoTick
<1>3. ASSUME NEW d \in Ids, Reading(d) PROVE FifoStep(c)
  <2>1. CASE OnReadRegister(d)
    BY <2>1, FifoRegister
  <2>2. CASE OnReadInput(d)
    BY <2>2, FifoSend DEF OnReadInput
  <2>3. CASE PeerClose(d) \/ OnReadError(d)
    BY <2>3, FifoStutter DEF PeerClose, OnReadError
  <2>4. CASE OnReadClosed(d)
    BY <2>4, FifoEnd
  <2>. QED  BY <1>3, <2>1, <2>2, <2>3, <2>4 DEF Reading
<1>4. ASSUME NEW d \in Ids, Writing(d) PROVE FifoStep(c)
  BY <1>4, FifoWrite, FifoEnd DEF Writing
<1>5. ASSUME NEW d \in Ids, RunPosted(d) PROVE FifoStep(c)
  BY <1>5, FifoPosted
<1>6. CASE UNCHANGED vars
  BY <1>6, FifoStutter DEF vars
<1>. QED  BY <1>1, <1>2, <1>3, <1>4, <1>5, <1>6 DEF Next, Ticking

\* The transmit path of every connection implements a FIFO that may lose buffers:
\* what a browser receives, it receives once and in commit order.
THEOREM PathsAreFifos == Spec => EveryPathIsFifo
<1>1. Init => \A c \in Ids : Fifo(c)!Init
  BY DEF Init, Fifo!Init, Pending
<1>2. IInv /\ [Next]_vars =>
          [ \A c \in Ids : Fifo(c)!Next \/ UNCHANGED Fifo(c)!vars ]_vars
  <2>1. IInv /\ [Next]_vars => \A c \in Ids : FifoStep(c)
    BY EveryFifoStep
  <2>. QED  BY <2>1 DEF FifoStep
<1>. QED  BY <1>1, <1>2, Invariance, PTL DEF Spec, EveryPathIsFifo
=============================================================================
