-------------------------- MODULE LossyFifo_proofs --------------------------
(***************************************************************************)
(* A lossy FIFO delivers in commit order and without duplicates.           *)
(***************************************************************************)
EXTENDS LossyFifo, TLAPS

(***************************************************************************)
(* The invariant holds from the start and every action keeps it: what is   *)
(* delivered is pending, hence later than everything delivered before, and *)
(* what is pending afterwards is later still.                              *)
(***************************************************************************)
LEMMA InitInv == Init => Inv
BY DEF Init, Inv, TypeOK, InOrder, PendingIsLater

LEMMA NextInv == Inv /\ [Next]_vars => Inv'
<1> SUFFICES ASSUME Inv, [Next]_vars PROVE Inv'
  OBVIOUS
<1> USE DEF Inv, TypeOK
<1>1. CASE Accept
  <2>1. TypeOK'
    BY <1>1 DEF Accept
  <2>2. InOrder' /\ PendingIsLater'
    BY <1>1 DEF Accept, InOrder, PendingIsLater
  <2>. QED  BY <2>1, <2>2
<1>2. CASE Lose
  BY <1>2 DEF Lose, InOrder, PendingIsLater
<1>3. ASSUME NEW m \in pending, Deliver(m)
      PROVE  Inv'
  <2>1. TypeOK'
    BY <1>3 DEF Deliver
  <2>2. InOrder'
    BY <1>3 DEF Deliver, InOrder, PendingIsLater
  <2>3. PendingIsLater'
    <3> SUFFICES ASSUME NEW i \in DOMAIN delivered', NEW k \in pending'
                 PROVE  delivered'[i] < k
      BY DEF PendingIsLater
    <3>1. k \in pending /\ k > m
      BY <1>3 DEF Deliver
    <3>2. CASE i = Len(delivered) + 1
      BY <1>3, <3>1, <3>2 DEF Deliver
    <3>3. CASE i # Len(delivered) + 1
      BY <1>3, <3>1, <3>3 DEF Deliver, PendingIsLater
    <3>. QED  BY <3>2, <3>3
  <2>. QED  BY <2>1, <2>2, <2>3
<1>4. CASE UNCHANGED vars
  BY <1>4 DEF vars, InOrder, PendingIsLater
<1>. QED  BY <1>1, <1>2, <1>3, <1>4 DEF Next

\* Whatever is lost, delivery is in commit order and never repeats a buffer.
THEOREM FifoDelivers == Spec => [](InOrder /\ PendingIsLater)
<1>1. Inv => InOrder /\ PendingIsLater
  BY DEF Inv
<1>. QED  BY InitInv, NextInv, <1>1, PTL DEF Spec
=============================================================================
