---------------------------- MODULE HttpSession ----------------------------
(***************************************************************************)
(* One HTTP connection of the geoff server, from listener::on_accept to    *)
(* its upgrade to a WebSocket or its end: the detection of TLS, the chain  *)
(* of async_reads that pipelines requests, and the queue of responses that *)
(* chains the async_writes.  All its handlers run on the connection's      *)
(* strand, so connections do not interact before they are upgraded.        *)
(*                                                                         *)
(* Requests are numbered as they are read; each gets one response, a file  *)
(* or an error page, and "close" says whether need_eof() holds for it,     *)
(* which it does when the request did not ask to keep the connection.      *)
(***************************************************************************)
EXTENDS Naturals, Sequences

CONSTANTS
    Limit,        \* queue::limit
    MaxRequests   \* bound: requests read on the connection

ASSUME ConstantsAssumption ==
    /\ Limit \in Nat \ {0}
    /\ MaxRequests \in Nat

VARIABLES
    stage,      \* which session object owns the socket
    reads,      \* async_reads outstanding
    input,      \* whether, and why, the chain of reads ended
    queue,      \* queue::items_
    writes,     \* async_writes outstanding
    sender,     \* whether, and why, the chain of writes ended
    shut,       \* do_eof was called: nothing more can be sent
    late,       \* the outstanding write was started after that
    received,   \* how many requests were read
    answered,   \* history: the responses written in full, in order
    fault       \* undefined behaviour that was reached

vars == <<stage, reads, input, queue, writes, sender, shut, late, received, answered, fault>>

Stages == {"listen", "detect", "handshake", "http", "dropped"}
Responses == [n : Nat, close : BOOLEAN]

Init ==
    /\ stage = "listen"
    /\ reads = 0
    /\ input = "open"
    /\ queue = <<>>
    /\ writes = 0
    /\ sender = "open"
    /\ shut = FALSE
    /\ late = FALSE
    /\ received = 0
    /\ answered = <<>>
    /\ fault = "none"

-----------------------------------------------------------------------------
\* Up to the first read.

pipeVars == <<input, queue, writes, sender, shut, late, received, answered, fault>>

\* listener::on_accept launches a detect_session.
OnAccept ==
    /\ stage = "listen"
    /\ stage' \in {"detect", "dropped"}
    /\ UNCHANGED <<reads, pipeVars>>

\* detect_session::on_detect: an error, a TLS client or a plain one, whose
\* session starts to read.
OnDetect ==
    /\ stage = "detect"
    /\ \E next \in {"dropped", "handshake", "http"} :
          /\ stage' = next
          /\ reads' = IF next = "http" THEN 1 ELSE 0
    /\ UNCHANGED pipeVars

\* ssl_http_session::on_handshake.
OnHandshake ==
    /\ stage = "handshake"
    /\ \E next \in {"dropped", "http"} :
          /\ stage' = next
          /\ reads' = IF next = "http" THEN 1 ELSE 0
    /\ UNCHANGED pipeVars

-----------------------------------------------------------------------------
\* The queue of responses.

\* Mutant: off by one.
IsFullLate(q) == Len(q) > Limit

\* queue::is_full().
IsFull(q) == Len(q) >= Limit

\* Mutant: every response is written at once.
StartsAlways(q) == TRUE

\* queue::operator(): the response starts a write if no other is before it.
Starts(q) == q = <<>>

\* Mutant: on_write only erases.
ContinuesNever(q) == FALSE

\* queue::on_write(): the next response, if any, is written.
Continues(q) == Tail(q) # <<>>

\* Mutant: the queue is looked at after the erase.
WasFullAfter(q) == IsFull(Tail(q))

\* queue::on_write() returns whether the caller should read again.
WasFull(q) == IsFull(q)

\* handle_request() sends one response, whose keep_alive is the request's.
Response(n, close) == [n |-> n, close |-> close]

-----------------------------------------------------------------------------
\* http_session::on_read.

CanRead == fault = "none" /\ stage = "http" /\ reads > 0

\* A request is answered, and the next one read unless the queue is full.
OnReadRequest ==
    /\ CanRead
    /\ received < MaxRequests
    /\ received' = received + 1
    /\ \E close \in BOOLEAN : queue' = Append(queue, Response(received + 1, close))
    /\ IF Starts(queue)
       THEN writes' = writes + 1 /\ late' = shut
       ELSE UNCHANGED <<writes, late>>
    /\ reads' = IF IsFull(queue') THEN reads - 1 ELSE reads
    /\ UNCHANGED <<stage, input, sender, shut, answered, fault>>

\* A WebSocket upgrade: the stream is moved out of the session.
OnReadUpgrade ==
    /\ CanRead
    /\ reads' = reads - 1
    /\ input' = "upgraded"
    /\ UNCHANGED <<stage, queue, writes, sender, shut, late, received, answered, fault>>

\* The client closed its side: do_eof().  Of a plain stream it shuts the sending side
\* down at once; the one of TLS starts an async_shutdown, after which nothing can be
\* written either, and whose handler, on_shutdown, only logs.
OnReadEof ==
    /\ CanRead
    /\ reads' = reads - 1
    /\ input' = "eof"
    /\ shut' = TRUE
    /\ UNCHANGED <<stage, queue, writes, sender, late, received, answered, fault>>

\* Any other error, the timeout and a malformed request among them.
OnReadError ==
    /\ CanRead
    /\ reads' = reads - 1
    /\ input' = "failed"
    /\ UNCHANGED <<stage, queue, writes, sender, shut, late, received, answered, fault>>

-----------------------------------------------------------------------------
\* http_session::on_write.  The stream must not have been moved away when it is
\* used again.

CanWrite == fault = "none" /\ writes > 0

\* Mutant: the connection is not closed after the response that asks for it.
ClosesNever(response) == FALSE

\* The argument "close" of on_write.
Closes(response) == response.close

\* The response keeps the connection: the queue goes on, and reading is taken up
\* again if it had stopped.
OnWriteNext ==
    /\ CanWrite
    /\ ~late
    /\ ~Closes(Head(queue))
    /\ input = "upgraded" => ~Continues(queue)
    /\ answered' = Append(answered, Head(queue))
    /\ queue' = Tail(queue)
    /\ writes' = IF Continues(queue) THEN writes ELSE writes - 1
    /\ late' = shut
    /\ reads' = IF WasFull(queue) THEN reads + 1 ELSE reads
    /\ UNCHANGED <<stage, input, sender, shut, received, fault>>

\* The response ends the connection: do_eof().  The queue is left as it is.
OnWriteClose ==
    /\ CanWrite
    /\ ~late
    /\ Closes(Head(queue))
    /\ input # "upgraded"
    /\ answered' = Append(answered, Head(queue))
    /\ writes' = writes - 1
    /\ sender' = "closed"
    /\ shut' = TRUE
    /\ UNCHANGED <<stage, reads, input, queue, late, received, fault>>

\* The write failed, as it must when it was started after do_eof().
OnWriteError ==
    /\ CanWrite
    /\ writes' = writes - 1
    /\ sender' = "failed"
    /\ UNCHANGED <<stage, reads, input, queue, shut, late, received, answered, fault>>

\* The write, or what on_write does next, uses the stream after it was moved.
UseMovedStream ==
    /\ CanWrite
    /\ input = "upgraded"
    /\ fault' = "movedStream"
    /\ UNCHANGED <<stage, reads, input, queue, writes, sender, shut, late, received, answered>>

-----------------------------------------------------------------------------

Starting == OnAccept \/ OnDetect \/ OnHandshake
Reading == OnReadRequest \/ OnReadUpgrade \/ OnReadEof \/ OnReadError
Writing == OnWriteNext \/ OnWriteClose \/ OnWriteError \/ UseMovedStream

Next == Starting \/ Reading \/ Writing

Spec == Init /\ [][Next]_vars

\* A write ends, well or not: the stream's timeout covers it.  Nothing makes a
\* client send.
FairSpec == Spec /\ WF_vars(Writing)

-----------------------------------------------------------------------------

TypeOK ==
    /\ stage \in Stages
    /\ reads \in Nat
    /\ input \in {"open", "eof", "failed", "upgraded"}
    /\ queue \in Seq(Responses)
    /\ Len(queue) <= Limit
    /\ writes \in Nat
    /\ sender \in {"open", "closed", "failed"}
    /\ shut \in BOOLEAN
    /\ late \in BOOLEAN
    /\ received \in 0 .. MaxRequests
    /\ answered \in Seq(Responses)
    /\ fault \in {"none", "movedStream"}

\* The chain of reads neither forks nor breaks: on_read stops it when the queue
\* fills, and the on_write that makes room, and only that one, takes it up again.
\* While requests are read one async_read is outstanding exactly when the queue
\* has room, and none is once reading has ended.  A connection whose responses
\* ended instead may stay full.
ReadsWhileRoom ==
    /\ reads <= 1
    /\ stage = "http" /\ input = "open" => (reads = 1 <=> Len(queue) < Limit)
    /\ input # "open" => reads = 0

\* Whenever on_write calls queue::on_write() the queue is not empty, as it asserts:
\* one async_write is outstanding exactly when there is a response to write and the
\* chain of writes has not ended.
WritesFront ==
    /\ writes <= 1
    /\ writes = 1 <=> queue # <<>> /\ sender = "open"

\* The client gets the responses in the order of its requests, whatever the
\* pipelining does, and none after one that closes the connection.
AnswersInOrder ==
    \A i \in DOMAIN answered :
        /\ answered[i].n = i
        /\ answered[i].close => i = Len(answered) /\ sender = "closed"

\* Every request read is answered, unless the chain of writes ended (a write failed
\* or a response closed the connection) or an upgrade took the stream away.
EveryRequestAnswered ==
    \A n \in 1 .. MaxRequests :
        received >= n ~> \/ Len(answered) >= n
                         \/ sender # "open"
                         \/ fault # "none"
=============================================================================
