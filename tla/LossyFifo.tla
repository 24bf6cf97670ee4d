----------------------------- MODULE LossyFifo -----------------------------
(***************************************************************************)
(* What the transmit path of one connection promises to the code that      *)
(* commits buffers to it (WebsockSession::CommitTxBuffer): buffers are     *)
(* numbered 1, 2, 3 ... in the order in which they are committed, any of   *)
(* them may be lost on the way, but what does reach the browser reaches it *)
(* once and in commit order.  Module WebsockTx implements this for every   *)
(* connection.                                                             *)
(***************************************************************************)
EXTENDS Naturals, Sequences

VARIABLES
    accepted,   \* how many buffers have been committed so far
    pending,    \* the numbers of those neither delivered nor lost
    delivered   \* the numbers of those delivered, in the order of delivery

vars == <<accepted, pending, delivered>>

Init ==
    /\ accepted = 0
    /\ pending = {}
    /\ delivered = <<>>

\* A buffer is committed; making room for it may lose others.
Accept ==
    /\ accepted' = accepted + 1
    /\ pending' \in SUBSET (pending \cup {accepted + 1})
    /\ UNCHANGED delivered

Lose ==
    /\ pending' \in SUBSET pending
    /\ UNCHANGED <<accepted, delivered>>

\* Buffer m is delivered: what was committed before it and is still pending
\* will never be.
Deliver(m) ==
    /\ pending' \in SUBSET {k \in pending : k > m}
    /\ delivered' = Append(delivered, m)
    /\ UNCHANGED accepted

Next == Accept \/ Lose \/ \E m \in pending : Deliver(m)

Spec == Init /\ [][Next]_vars

-----------------------------------------------------------------------------

TypeOK ==
    /\ accepted \in Nat
    /\ pending \in SUBSET (1 .. accepted)
    /\ delivered \in Seq(1 .. accepted)

\* Delivery is in commit order and without duplicates.
InOrder == \A i, j \in DOMAIN delivered : i < j => delivered[i] < delivered[j]

\* Nothing that is still pending was committed before a delivered buffer.
PendingIsLater == \A i \in DOMAIN delivered, k \in pending : delivered[i] < k

Inv == TypeOK /\ InOrder /\ PendingIsLater
=============================================================================
