------------------------- MODULE OrderWorkersProofs -------------------------
(***************************************************************************)
(* Proofs about OrderWorkers, for any number of workers, orders, products, *)
(* attempts and crashes.                                                   *)
(*                                                                         *)
(* The inductive invariant is                                              *)
(*   TypeOK /\ ClaimsExclusive /\ ClaimsStayValid.                         *)
(* With it every step of the workers is a step of OrderBook or leaves the  *)
(* tables alone (StepImplementsBook), so OrderWorkers implements OrderBook *)
(* and inherits what OrderBookProofs proves about the tables.              *)
(*                                                                         *)
(* For the delays it is strengthened by SelectionsHold: an order selected  *)
(* by a transaction and still in the stage is still due, because no order  *)
(* comes back to a status it has left.                                     *)
(***************************************************************************)
EXTENDS OrderWorkers, OrderBookProofs, FiniteSetTheorems, SequenceTheorems

USE BookAssumption

\* What the proofs need of the bounds.
LEMMA Bounds ==
  /\ MaxTxnAge \in Nat /\ AgeCap \in Nat /\ MaxCrashes \in Nat
  /\ Batch \in Nat \ {0}
  /\ MaxTxnAge <= AgeCap
  /\ NoOrder \notin Orders
BY WorkersAssumption

LEMMA MinOfTwo == ASSUME NEW a \in Nat, NEW b \in Nat PROVE Min({a, b}) \in {a, b}
<1>1. \E x \in {a, b} : \A y \in {a, b} : x =< y
  OBVIOUS
<1> QED BY <1>1 DEF Min

\* SKIP LOCKED: an order is worked on by one transaction at a time.
ClaimsExclusive ==
  \A v, w \in Workers : claim[v] # NoOrder /\ claim[v] = claim[w] => v = w

Inv == TypeOK /\ ClaimsExclusive /\ ClaimsStayValid

LEMMA InitInv == Init => Inv
<1> SUFFICES ASSUME Init PROVE Inv
  OBVIOUS
<1>1. BookTypeOK
  BY BookInitInv DEF Init, BookInv
<1>2. WorkerTypeOK
  BY Bounds DEF Init, WorkerTypeOK, Ages, Stages, OrderStatus
<1>3. ClaimsExclusive /\ ClaimsStayValid
  BY DEF Init, ClaimsExclusive, ClaimsStayValid, ClaimValid
<1> QED
  BY <1>1, <1>2, <1>3 DEF Inv, TypeOK

-----------------------------------------------------------------------------
(* Refinement.                                                             *)

\* One attempt recorded by a worker is one row appended.
LEMMA AppendOne == ASSUME NEW S, NEW s \in Seq(S), NEW e \in S PROVE s \o <<e>> = Append(s, e)
OBVIOUS

\* A commit is the use case the step function ran.
LEMMA CommitImplementsBook ==
  ASSUME Inv, NEW w \in Workers, Commit(w)
  PROVE  BookNext
<1> DEFINE o == claim[w]
<1>1. /\ o \in Orders /\ status[o] = stage[w] /\ PendingWork(w)
      /\ pc[w] = "ready"
  BY DEF Inv, ClaimsStayValid, ClaimValid, Commit
<1>2. /\ status' = [status EXCEPT ![o] = target[w]]
      /\ payments' = [payments EXCEPT ![o] = payments[o] \o attempts[w]]
      /\ shipment' = [shipment EXCEPT ![o] = ShipmentAfter(o, target[w])]
      /\ IF target[w] = "cancelled" THEN ReturnStock(o) ELSE UNCHANGED stock
      /\ UNCHANGED <<items, supplied>>
  BY DEF Commit
<1>3. BookTypeOK
  BY DEF Inv, TypeOK
<1>4. ASSUME NEW result \in {"approved", "declined"},
             attempts[w] = <<NextPayment(o, result)>>
      PROVE  payments' = [payments EXCEPT ![o] = Append(@, NextPayment(o, result))]
  <2>1. payments[o] \in Seq(PaymentRows)
    BY <1>1, <1>3 DEF BookTypeOK
  <2>2. NextPayment(o, result) \in PaymentRows
    BY <1>1, <1>3, NextPaymentRow
  <2> QED BY <1>2, <1>4, <2>1, <2>2, AppendOne
<1>5. ASSUME attempts[w] = <<>> PROVE UNCHANGED payments
  <2>1. payments[o] \in Seq(PaymentRows)
    BY <1>1, <1>3 DEF BookTypeOK
  <2>2. payments[o] \o <<>> = payments[o]
    BY <2>1
  <2> QED BY <1>1, <1>2, <1>3, <1>5, <2>2 DEF BookTypeOK
<1>6. ASSUME target[w] \notin {"shipped", "delivered"} PROVE UNCHANGED shipment
  <2>1. ShipmentAfter(o, target[w]) = shipment[o]
    BY <1>6 DEF ShipmentAfter
  <2> QED BY <1>1, <1>2, <1>3, <2>1 DEF BookTypeOK
<1> HIDE DEF o
<1>7. CASE stage[w] = "created"
  <2>1. CASE target[w] = "paid" /\ attempts[w] = <<NextPayment(o, "approved")>>
    <3>1. Move(o, "paid") /\ UNCHANGED <<stock, shipment>>
      BY <1>1, <1>2, <1>6, <1>7, <2>1 DEF Move, CanTransition, Transitions
    <3>2. payments' = [payments EXCEPT ![o] = Append(@, NextPayment(o, "approved"))]
      BY <1>4, <2>1
    <3> QED
      BY <1>1, <3>1, <3>2 DEF PayOrder, BookNext
  <2>2. CASE /\ target[w] = "created" /\ attempts[w] = <<NextPayment(o, "declined")>>
             /\ ~(Len(payments[o]) + 1 >= MaxAttempts)
    <3>1. UNCHANGED status
      BY <1>1, <1>2, <1>3, <1>7, <2>2 DEF BookTypeOK
    <3>2. Len(payments[o]) \in Nat
      <4>1. payments[o] \in Seq(PaymentRows)
        BY <1>1, <1>3 DEF BookTypeOK
      <4> QED BY <4>1
    <3>3. Len(payments[o]) + 1 < MaxAttempts
      BY <2>2, <3>2, BookAssumption
    <3>4. payments' = [payments EXCEPT ![o] = Append(@, NextPayment(o, "declined"))]
      BY <1>4, <2>2
    <3>5. UNCHANGED <<items, stock, supplied, shipment>>
      BY <1>2, <1>6, <2>2
    <3> QED
      BY <1>1, <1>7, <3>1, <3>3, <3>4, <3>5 DEF DeclinePayment, BookNext
  <2>3. CASE /\ target[w] = "cancelled" /\ attempts[w] = <<NextPayment(o, "declined")>>
             /\ Len(payments[o]) + 1 >= MaxAttempts
    <3>1. Move(o, "cancelled") /\ ReturnStock(o) /\ UNCHANGED shipment
      BY <1>1, <1>2, <1>6, <1>7, <2>3 DEF Move, CanTransition, Transitions
    <3>2. payments' = [payments EXCEPT ![o] = Append(@, NextPayment(o, "declined"))]
      BY <1>4, <2>3
    <3> QED
      BY <1>1, <1>7, <2>3, <3>1, <3>2 DEF ExhaustPayments, BookNext
  <2> QED
    BY <1>1, <1>7, <2>1, <2>2, <2>3 DEF PendingWork, o
<1>8. CASE stage[w] # "created"
  <2>1. attempts[w] = <<>> /\ CanTransition(stage[w], target[w]) /\ stage[w] \in OrderStatus
    BY <1>1, <1>8 DEF PendingWork, Inv, TypeOK, WorkerTypeOK, Stages, OrderStatus
  <2>2. Move(o, target[w])
    BY <1>1, <1>2, <2>1 DEF Move, OrderStatus
  <2>3. /\ target[w] \in {"shipped", "delivered", "refunded", "cancelled"}
        /\ target[w] = "cancelled" => status[o] = "paid"
    BY <1>1, <1>8, <2>1, LegalMoves DEF OrderStatus
  <2>4. CASE target[w] = "cancelled"
    BY <1>1, <1>2, <1>5, <1>6, <2>1, <2>2, <2>3, <2>4 DEF CancelOrder, BookNext
  <2>5. CASE target[w] = "shipped"
    BY <1>1, <1>2, <1>5, <2>1, <2>2, <2>5 DEF ShipmentAfter, ShipOrder, BookNext
  <2>6. CASE target[w] = "delivered"
    BY <1>1, <1>2, <1>5, <2>1, <2>2, <2>6 DEF ShipmentAfter, DeliverOrder, BookNext
  <2>7. CASE target[w] = "refunded"
    BY <1>1, <1>2, <1>5, <1>6, <2>1, <2>2, <2>7 DEF RefundOrder, BookNext
  <2> QED BY <2>3, <2>4, <2>5, <2>6, <2>7
<1> QED BY <1>7, <1>8

LEMMA StepImplementsBook == Inv /\ [Next]_vars => [BookNext]_bookVars
<1> SUFFICES ASSUME Inv, [Next]_vars PROVE [BookNext]_bookVars
  OBVIOUS
<1>1. ASSUME NEW w \in Workers, Commit(w) PROVE BookNext
  BY <1>1, CommitImplementsBook
<1>2. ASSUME NEW w \in Workers, Advance(w), ~Commit(w) PROVE UNCHANGED bookVars
  BY <1>2 DEF Advance, Begin, Scan, Skip, Claim, Drained, Pay, Decline, CancelExhausted,
              CancelPicked, Ship, Deliver, Refund, Forward
<1>3. ASSUME NEW w \in Workers, Crash(w) PROVE UNCHANGED bookVars
  BY <1>3 DEF Crash
<1>4. ASSUME NEW o \in Orders, Checkout(o) PROVE BookNext
  BY <1>4 DEF Checkout, BookNext
<1>5. ASSUME NEW p \in Products, BackofficeRestock(p) PROVE BookNext
  BY <1>5 DEF BackofficeRestock, BookNext
<1>6. CASE Tick
  BY <1>6 DEF Tick
<1>7. CASE UNCHANGED vars
  BY <1>7 DEF vars
<1> QED
  BY <1>1, <1>2, <1>3, <1>4, <1>5, <1>6, <1>7 DEF Next

-----------------------------------------------------------------------------
(* Types.                                                                  *)

\* A scan is a sequence of orders.
LEMMA ScansAreSequences == ASSUME NEW w \in Workers, NEW q \in Scans(w) PROVE q \in Seq(Orders)
<1> DEFINE due == {o \in Orders : Due(w, o)}
<1>1. IsFiniteSet(due)
  BY FS_Subset, WorkersAssumption
<1>2. Cardinality(due) \in Nat
  BY <1>1, FS_CardinalityType
<1>3. q \in [1 .. Cardinality(due) -> due]
  BY DEF Scans
<1>4. q \in [1 .. Cardinality(due) -> Orders]
  BY <1>3
<1> HIDE DEF due
<1> QED BY <1>2, <1>4, SeqDef

LEMMA WorkerTypeStep ==
  ASSUME TypeOK, ClaimsStayValid, Next
  PROVE  WorkerTypeOK'
<1> USE DEF TypeOK, WorkerTypeOK
<1>1. ASSUME NEW w \in Workers, Begin(w) PROVE WorkerTypeOK'
  BY <1>1 DEF Begin, workerVars, stampVars
<1>2. ASSUME NEW w \in Workers, Scan(w) PROVE WorkerTypeOK'
  BY <1>2, ScansAreSequences DEF Scan, stampVars
<1>3. ASSUME NEW w \in Workers, Skip(w) PROVE WorkerTypeOK'
  <2>1. cand[w] \in Seq(Orders) /\ cand[w] # <<>>
    BY <1>3 DEF Skip
  <2>2. Tail(cand[w]) \in Seq(Orders)
    BY <2>1
  <2> QED BY <1>3, <2>2 DEF Skip, stampVars
<1>4. ASSUME NEW w \in Workers, Claim(w) PROVE WorkerTypeOK'
  <2>1. cand[w] \in Seq(Orders) /\ cand[w] # <<>>
    BY <1>4 DEF Claim
  <2>2. Head(cand[w]) \in Orders /\ <<>> \in Seq(Orders)
    BY <2>1
  <2>3. stage[w] \in OrderStatus
    BY DEF Stages, OrderStatus
  <2> QED BY <1>4, <2>2, <2>3 DEF Claim, stampVars
<1>5. ASSUME NEW w \in Workers, Finish(w)
      PROVE  /\ pc' \in [Workers -> {"idle", "begun", "scanned", "claimed", "exhausted", "ready"}]
             /\ txnAge' \in [Workers -> 0 .. MaxTxnAge]
             /\ cand' \in [Workers -> Seq(Orders)]
             /\ claim' \in [Workers -> Orders \cup {NoOrder}]
             /\ target' \in [Workers -> OrderStatus]
             /\ attempts' \in [Workers -> Seq(PaymentRows)]
  <2>1. <<>> \in Seq(Orders) /\ <<>> \in Seq(PaymentRows)
    OBVIOUS
  <2>2. txnAge' \in [Workers -> 0 .. MaxTxnAge]
    BY <1>5, Bounds DEF Finish
  <2>3. target' \in [Workers -> OrderStatus]
    BY <1>5 DEF Finish, OrderStatus
  <2> QED BY <1>5, <2>1, <2>2, <2>3 DEF Finish
<1>6. ASSUME NEW w \in Workers, NEW s \in Stages, EnterStage(w, s)
      PROVE  stage' \in [Workers -> Stages] /\ left' \in [Workers -> 1 .. Batch]
  <2>1. Batch \in 1 .. Batch
    BY Bounds
  <2> QED BY <1>6, <2>1 DEF EnterStage
<1>7. ASSUME NEW w \in Workers PROVE NextStage[stage[w]] \in Stages
  <2>1. stage[w] \in {"created", "paid", "shipped", "delivered"}
    BY DEF Stages
  <2> QED BY <2>1 DEF NextStage, Stages
<1>8. ASSUME NEW w \in Workers, Drained(w) PROVE WorkerTypeOK'
  BY <1>5, <1>6, <1>7, <1>8 DEF Drained, stampVars
<1>9. ASSUME NEW w \in Workers, NEW to, Transition(w, to)
      PROVE  target' \in [Workers -> OrderStatus]
  <2>1. to \in OrderStatus
    BY <1>9, LegalMoves DEF Transition
  <2> QED BY <1>9, <2>1 DEF Transition
<1>10. ASSUME NEW w \in Workers, NEW result \in {"approved", "declined"},
              Claimed(w, "created"), RecordAttempt(w, result)
       PROVE  attempts' \in [Workers -> Seq(PaymentRows)]
  <2>1. claim[w] \in Orders
    BY <1>10 DEF Claimed, ClaimsStayValid, ClaimValid
  <2>3. NextPayment(claim[w], result) \in PaymentRows
    BY <2>1, NextPaymentRow
  <2>4. Append(attempts[w], NextPayment(claim[w], result)) \in Seq(PaymentRows)
    BY <2>3
  <2> QED BY <1>10, <2>4 DEF RecordAttempt
<1>11. ASSUME NEW w \in Workers, Pay(w) PROVE WorkerTypeOK'
  BY <1>9, <1>10, <1>11 DEF Pay, At, stampVars
<1>12. ASSUME NEW w \in Workers, Decline(w) PROVE WorkerTypeOK'
  BY <1>10, <1>12 DEF Decline, At, stampVars
<1>13. ASSUME NEW w \in Workers, CancelExhausted(w) PROVE WorkerTypeOK'
  BY <1>9, <1>13 DEF CancelExhausted, At, stampVars
<1>14. ASSUME NEW w \in Workers, NEW s, NEW to, Forward(w, s, to) PROVE WorkerTypeOK'
  BY <1>9, <1>14 DEF Forward, At, stampVars
<1>15. ASSUME NEW w \in Workers, Commit(w) PROVE WorkerTypeOK'
  <2>1. txnAge[w] \in Ages /\ claim[w] \in Orders
    BY <1>15, Bounds DEF Commit, ClaimsStayValid, ClaimValid, Ages
  <2>2. updated' \in [Orders -> Ages]
    BY <1>15, <2>1 DEF Commit, StampMove
  <2>3. \A a, b \in Ages : Min({a, b}) \in Ages
    BY MinOfTwo, Bounds DEF Ages
  <2>4. lastAttempt' \in [Orders -> Ages]
    BY <1>15, <2>1, <2>3 DEF Commit, StampAttempt
  <2>5. stage' \in [Workers -> Stages] /\ left' \in [Workers -> 1 .. Batch]
    <3>1. CASE left[w] = 1
      BY <1>6, <1>7, <1>15, <3>1 DEF Commit, NextIteration
    <3>2. CASE left[w] # 1
      <4>1. left[w] - 1 \in 1 .. Batch
        BY <3>2, Bounds
      <4> QED BY <1>15, <3>2, <4>1 DEF Commit, NextIteration
    <3> QED BY <3>1, <3>2
  <2> QED BY <1>5, <1>15, <2>2, <2>4, <2>5 DEF Commit
<1>16. ASSUME NEW w \in Workers, Crash(w) PROVE WorkerTypeOK'
  <2>1. crashes' \in 0 .. MaxCrashes
    BY <1>16, Bounds DEF Crash
  <2>2. stage' \in [Workers -> Stages] /\ left' \in [Workers -> 1 .. Batch]
    BY <1>6, <1>16 DEF Crash, Stages
  <2> QED BY <1>5, <1>16, <2>1, <2>2 DEF Crash, stampVars
<1>17. ASSUME NEW o \in Orders, Checkout(o) PROVE WorkerTypeOK'
  <2>1. 0 .. MaxTxnAge \subseteq Ages
    BY Bounds DEF Ages
  <2> QED BY <1>17, <2>1 DEF Checkout, workerVars
<1>18. ASSUME NEW p \in Products, BackofficeRestock(p) PROVE WorkerTypeOK'
  BY <1>18 DEF BackofficeRestock, workerVars, stampVars
<1>19. CASE Tick
  <2>1. \A age \in Ages : Older(age) \in Ages
    BY Bounds DEF Older, Ages
  <2>2. updated' \in [Orders -> Ages] /\ lastAttempt' \in [Orders -> Ages]
    BY <1>19, <2>1 DEF Tick
  <2>3. \A w \in Workers : pc[w] # "idle" => txnAge[w] + 1 \in 0 .. MaxTxnAge
    BY <1>19, Bounds DEF Tick
  <2>4. txnAge' \in [Workers -> 0 .. MaxTxnAge]
    BY <1>19, <2>3, Bounds DEF Tick
  <2> QED BY <1>19, <2>2, <2>4 DEF Tick
<1> QED
  BY <1>1, <1>2, <1>3, <1>4, <1>8, <1>11, <1>12, <1>13, <1>14, <1>15, <1>16, <1>17, <1>18,
     <1>19 DEF Next, Advance, CancelPicked, Ship, Deliver, Refund

-----------------------------------------------------------------------------
(* Claims.                                                                 *)

\* Only Claim gives a worker a row, and only one nobody else holds.
LEMMA ExclusiveStep == Inv /\ Next => ClaimsExclusive'
<1> SUFFICES ASSUME Inv, Next PROVE ClaimsExclusive'
  OBVIOUS
<1> USE DEF ClaimsExclusive
<1>1. ClaimsExclusive /\ claim \in [Workers -> Orders \cup {NoOrder}]
  BY DEF Inv, TypeOK, WorkerTypeOK
<1>2. ASSUME NEW w \in Workers, Claim(w) PROVE ClaimsExclusive'
  <2>1. \A v \in Workers \ {w} : claim[v] # Head(cand[w])
    BY <1>2 DEF Claim, Claimable, LockedByOther
  <2> QED BY <1>1, <1>2, <2>1 DEF Claim
<1>3. ASSUME NEW w \in Workers, Finish(w) PROVE ClaimsExclusive'
  BY <1>1, <1>3 DEF Finish
<1>4. CASE UNCHANGED claim
  BY <1>1, <1>4
<1>5. ASSUME NEW w \in Workers, Advance(w)
      PROVE  Claim(w) \/ Finish(w) \/ UNCHANGED claim
  BY <1>5 DEF Advance, Begin, Scan, Skip, Drained, Pay, Decline, CancelExhausted,
              CancelPicked, Ship, Deliver, Refund, Forward, Commit
<1> QED
  BY <1>2, <1>3, <1>4, <1>5
     DEF Next, Crash, Checkout, BackofficeRestock, Tick, workerVars

\* Worker v is valid after a step that changes neither its transaction nor the order
\* it has claimed.
LEMMA ClaimFrame ==
  ASSUME NEW v \in Workers, ClaimValid(v),
         pc'[v] = pc[v], stage'[v] = stage[v], claim'[v] = claim[v],
         target'[v] = target[v], attempts'[v] = attempts[v],
         claim[v] \in Orders =>
           status'[claim[v]] = status[claim[v]] /\ payments'[claim[v]] = payments[claim[v]]
  PROVE  ClaimValid(v)'
<1>1. CASE pc[v] \in {"claimed", "exhausted", "ready"}
  BY <1>1 DEF ClaimValid, PendingWork, NextPayment
<1>2. CASE pc[v] \notin {"claimed", "exhausted", "ready"}
  BY <1>2 DEF ClaimValid
<1> QED BY <1>1, <1>2

\* A worker between two transactions holds nothing.
LEMMA FinishedIsValid ==
  ASSUME TypeOK, NEW w \in Workers, Finish(w) PROVE ClaimValid(w)'
BY DEF Finish, ClaimValid, TypeOK, WorkerTypeOK

\* What worker w does to its own transaction keeps it valid.
LEMMA OwnStep ==
  ASSUME Inv, NEW w \in Workers, Advance(w)
  PROVE  ClaimValid(w)'
<1> USE DEF Inv, TypeOK, WorkerTypeOK
<1>1. ClaimValid(w)
  BY DEF ClaimsStayValid
<1>2. CASE Begin(w)
  BY <1>1, <1>2 DEF Begin, ClaimValid
<1>3. CASE Scan(w)
  BY <1>1, <1>3 DEF Scan, ClaimValid
<1>4. CASE Skip(w)
  BY <1>1, <1>4, ClaimFrame DEF Skip, bookVars
<1>5. CASE Claim(w)
  <2>1. cand[w] \in Seq(Orders) /\ cand[w] # <<>>
    BY <1>5 DEF Claim
  <2>2. Head(cand[w]) \in Orders
    BY <2>1
  <2>3. attempts[w] = <<>> /\ status[Head(cand[w])] = stage[w]
    BY <1>1, <1>5 DEF Claim, Claimable, ClaimValid
  <2>4. /\ pc'[w] = "claimed" /\ claim'[w] = Head(cand[w]) /\ target'[w] = stage[w]
        /\ UNCHANGED <<status, payments, stage, attempts>>
    BY <1>5, <2>2 DEF Claim, bookVars
  <2> QED BY <2>2, <2>3, <2>4 DEF ClaimValid, PendingWork
<1>6. CASE Drained(w)
  BY <1>6, FinishedIsValid DEF Drained
<1>7. CASE Commit(w)
  BY <1>7, FinishedIsValid DEF Commit
<1>8. ASSUME pc[w] = "claimed"
      PROVE  /\ claim[w] \in Orders /\ status[claim[w]] = stage[w]
             /\ target[w] = stage[w] /\ attempts[w] = <<>>
  BY <1>1, <1>8 DEF ClaimValid, PendingWork
<1>9. ASSUME NEW row, attempts[w] = <<>>, attempts' = [attempts EXCEPT ![w] = Append(@, row)]
      PROVE  attempts'[w] = <<row>>
  BY <1>9
<1>10. CASE Pay(w)
  <2>1. /\ pc'[w] = "ready" /\ target'[w] = "paid" /\ stage[w] = "created"
        /\ UNCHANGED <<status, payments, stage, claim>>
    BY <1>10 DEF Pay, Transition, At, Claimed, bookVars
  <2>2. attempts'[w] = <<NextPayment(claim[w], "approved")>>
    BY <1>8, <1>9, <1>10 DEF Pay, RecordAttempt, Claimed
  <2> QED BY <1>8, <1>10, <2>1, <2>2 DEF Pay, Claimed, ClaimValid, PendingWork, NextPayment
<1>11. CASE Decline(w)
  <2> DEFINE last == Len(payments[claim[w]]) + 1 >= MaxAttempts
  <2>1. /\ pc'[w] = IF last THEN "exhausted" ELSE "ready"
        /\ stage[w] = "created" /\ target[w] = "created"
        /\ UNCHANGED <<status, payments, stage, claim, target>>
    BY <1>8, <1>11 DEF Decline, LastTry, At, Claimed, bookVars
  <2>2. attempts'[w] = <<NextPayment(claim[w], "declined")>>
    BY <1>8, <1>9, <1>11 DEF Decline, RecordAttempt, Claimed
  <2>3. CASE last
    BY <1>8, <1>11, <2>1, <2>2, <2>3 DEF Decline, Claimed, ClaimValid, PendingWork, NextPayment
  <2>4. CASE ~last
    BY <1>8, <1>11, <2>1, <2>2, <2>4 DEF Decline, Claimed, ClaimValid, PendingWork, NextPayment
  <2> QED BY <2>3, <2>4
<1>12. CASE CancelExhausted(w)
  <2>1. /\ pc[w] = "exhausted" /\ pc'[w] = "ready" /\ target'[w] = "cancelled"
        /\ UNCHANGED <<status, payments, stage, claim, attempts>>
    BY <1>12 DEF CancelExhausted, Transition, At, bookVars
  <2> QED BY <1>1, <2>1 DEF ClaimValid, PendingWork, NextPayment
<1>13. ASSUME NEW s, NEW to, Forward(w, s, to), s # "created" PROVE ClaimValid(w)'
  <2>1. /\ pc[w] = "claimed" /\ stage[w] = s /\ pc'[w] = "ready" /\ target'[w] = to
        /\ CanTransition(target[w], to)
        /\ UNCHANGED <<status, payments, stage, claim, attempts>>
    BY <1>13 DEF Forward, Transition, At, Claimed, bookVars
  <2> QED BY <1>8, <1>13, <2>1 DEF ClaimValid, PendingWork, CanTransition
<1> QED
  BY <1>2, <1>3, <1>4, <1>5, <1>6, <1>7, <1>10, <1>11, <1>12, <1>13
     DEF Advance, CancelPicked, Ship, Deliver, Refund

\* No worker's step touches another worker's transaction or the order it has claimed:
\* a commit writes the committing worker's own order only.
LEMMA OthersStep ==
  ASSUME Inv, NEW w \in Workers, Advance(w) \/ Crash(w), NEW v \in Workers, v # w
  PROVE  ClaimValid(v)'
<1> USE DEF Inv, TypeOK, BookTypeOK, WorkerTypeOK
<1>1. ClaimValid(v)
  BY DEF ClaimsStayValid
<1>2. /\ pc'[v] = pc[v] /\ stage'[v] = stage[v] /\ claim'[v] = claim[v]
      /\ target'[v] = target[v] /\ attempts'[v] = attempts[v]
  BY DEF Advance, Begin, Scan, Skip, Claim, Drained, Pay, Decline, CancelExhausted,
         CancelPicked, Ship, Deliver, Refund, Forward, Commit, Crash, Finish, EnterStage,
         NextIteration, At, Transition, RecordAttempt
<1>3. CASE Commit(w)
  <2>1. claim[w] \in Orders
    BY <1>3 DEF Commit, ClaimsStayValid, ClaimValid
  <2>2. claim[v] \in Orders => claim[v] # claim[w]
    BY <2>1, Bounds DEF ClaimsExclusive
  <2> QED BY <1>1, <1>2, <1>3, <2>2, ClaimFrame DEF Commit
<1>4. CASE ~Commit(w)
  <2>1. UNCHANGED <<status, payments>>
    BY <1>4 DEF Advance, Begin, Scan, Skip, Claim, Drained, Pay, Decline, CancelExhausted,
                CancelPicked, Ship, Deliver, Refund, Forward, Crash, bookVars
  <2> QED BY <1>1, <1>2, <2>1, ClaimFrame
<1> QED BY <1>3, <1>4

LEMMA ValidStep == Inv /\ Next => ClaimsStayValid'
<1> SUFFICES ASSUME Inv, Next, NEW v \in Workers PROVE ClaimValid(v)'
  BY DEF ClaimsStayValid
<1>1. ClaimValid(v)
  BY DEF Inv, ClaimsStayValid
<1>2. ASSUME NEW w \in Workers, Advance(w) PROVE ClaimValid(v)'
  BY <1>2, OwnStep, OthersStep
<1>3. ASSUME NEW w \in Workers, Crash(w) PROVE ClaimValid(v)'
  BY <1>3, FinishedIsValid, OthersStep DEF Crash, Inv
<1>4. ASSUME NEW o \in Orders, Checkout(o) PROVE ClaimValid(v)'
  <2>1. status[o] = "none" /\ status' = [status EXCEPT ![o] = "created"]
        /\ UNCHANGED <<payments, workerVars>>
    BY <1>4 DEF Checkout, PlaceOrder
  <2>2. claim[v] \in Orders => claim[v] # o
    BY <1>1, <2>1, Bounds DEF ClaimValid, Inv, TypeOK, WorkerTypeOK, Stages
  <2> QED BY <1>1, <2>1, <2>2, ClaimFrame DEF workerVars, Inv, TypeOK, BookTypeOK
<1>5. ASSUME NEW p \in Products, BackofficeRestock(p) PROVE ClaimValid(v)'
  BY <1>1, <1>5, ClaimFrame DEF BackofficeRestock, Restock, workerVars
<1>6. CASE Tick
  BY <1>1, <1>6, ClaimFrame DEF Tick, bookVars
<1> QED BY <1>2, <1>3, <1>4, <1>5, <1>6 DEF Next

-----------------------------------------------------------------------------
LEMMA InvStep == Inv /\ [Next]_vars => Inv'
<1> SUFFICES ASSUME Inv, [Next]_vars PROVE Inv'
  OBVIOUS
<1>1. BookTypeOK'
  BY StepImplementsBook, BookTypeStep DEF Inv, TypeOK
<1>2. CASE Next
  BY <1>1, <1>2, WorkerTypeStep, ExclusiveStep, ValidStep DEF Inv, TypeOK
<1>3. CASE UNCHANGED vars
  BY <1>3 DEF vars, bookVars, stampVars, workerVars, Inv, TypeOK, BookTypeOK, WorkerTypeOK,
              ClaimsExclusive, ClaimsStayValid, ClaimValid, PendingWork, NextPayment
<1> QED BY <1>2, <1>3

LEMMA Invariant == Spec => []Inv
BY InitInv, InvStep, PTL DEF Spec

\* Every variable of the tables and of the workers keeps its type.
THEOREM TypeCorrect == Spec => []TypeOK
<1>1. Inv => TypeOK
  BY DEF Inv
<1> QED BY Invariant, <1>1, PTL

\* A claimed order keeps the status it was selected in, so no step function raises.
THEOREM ClaimsAlwaysValid == Spec => []ClaimsStayValid
<1>1. Inv => ClaimsStayValid
  BY DEF Inv
<1> QED BY Invariant, <1>1, PTL

\* The statement-level workers implement the atomic use cases.
THEOREM WorkersImplementBook == Spec => ImplementsOrderBook
<1>1. Init => BookInit
  BY DEF Init
<1> QED
  BY Invariant, <1>1, StepImplementsBook, PTL DEF Spec, BookSpec, ImplementsOrderBook

\* What OrderBook guarantees of payments and shipments holds under the workers.
THEOREM WorkersKeepPayments == Spec => [](PaymentsMatchStatus /\ ShipmentsMatchStatus)
BY WorkersImplementBook, PaymentsAlwaysMatch, ShipmentsAlwaysMatch, PTL DEF ImplementsOrderBook

\* No unit is lost or returned twice, however the workers overlap, crash and retry.
THEOREM WorkersKeepStock == Spec => []StockConserved
BY WorkersImplementBook, StockAlwaysConserved, PTL DEF ImplementsOrderBook

\* Only a commit writes the tables of an order, and only those of the order it holds.
LEMMA TablesChange ==
  ASSUME Inv, [Next]_vars, NEW o \in Orders, status'[o] # status[o] \/ payments'[o] # payments[o]
  PROVE  \/ status'[o] = "created"
         \/ \E w \in Workers : Commit(w) /\ claim[w] = o
<1>0. status \in [Orders -> OrderStatus \cup {"none"}] /\ payments \in [Orders -> Seq(PaymentRows)]
  BY DEF Inv, TypeOK, BookTypeOK
<1>1. ASSUME NEW w \in Workers, Commit(w) PROVE claim[w] = o
  BY <1>0, <1>1 DEF Commit
<1>2. ASSUME NEW w \in Workers, Advance(w), ~Commit(w) PROVE UNCHANGED bookVars
  BY <1>2 DEF Advance, Begin, Scan, Skip, Claim, Drained, Pay, Decline, CancelExhausted,
              CancelPicked, Ship, Deliver, Refund, Forward
<1>3. ASSUME NEW x \in Orders, Checkout(x) PROVE status'[o] = "created"
  BY <1>0, <1>3 DEF Checkout, PlaceOrder
<1> QED
  BY <1>1, <1>2, <1>3 DEF Next, vars, bookVars, Crash, BackofficeRestock, Restock, Tick

\* The order a commit cancels was declined for the last time, or was paid.
LEMMA CauseStep ==
  Inv /\ PaymentsMatchStatus /\ CancelledForCause /\ [Next]_vars => CancelledForCause'
<1> SUFFICES ASSUME Inv, PaymentsMatchStatus, CancelledForCause, [Next]_vars,
                    NEW o \in Orders, status'[o] = "cancelled"
             PROVE  Approved(o)' # {} \/ Len(payments'[o]) = MaxAttempts
  BY DEF CancelledForCause
<1>1. PaymentsMatch(o) /\ payments[o] \in Seq(PaymentRows) /\ Len(payments[o]) \in Nat
  BY DEF PaymentsMatchStatus, Inv, TypeOK, BookTypeOK
<1>2. CASE status'[o] = status[o] /\ payments'[o] = payments[o]
  BY <1>2 DEF CancelledForCause, Approved
<1>3. CASE \E w \in Workers : Commit(w) /\ claim[w] = o
  <2>1. PICK w \in Workers : Commit(w) /\ claim[w] = o
    BY <1>3
  <2>2. /\ pc[w] = "ready" /\ status[o] = stage[w] /\ PendingWork(w) /\ target[w] = "cancelled"
        /\ payments'[o] = payments[o] \o attempts[w]
    BY <2>1 DEF Commit, Inv, TypeOK, BookTypeOK, ClaimsStayValid, ClaimValid
  <2>3. CASE stage[w] = "created"
    <3>1. attempts[w] = <<NextPayment(o, "declined")>> /\ Len(payments[o]) + 1 >= MaxAttempts
      BY <2>1, <2>2, <2>3 DEF PendingWork
    <3>2. Len(payments[o]) < MaxAttempts
      BY <1>1, <2>2, <2>3 DEF PaymentsMatch
    <3>3. Len(payments'[o]) = Len(payments[o]) + 1
      <4>1. NextPayment(o, "declined") \in PaymentRows
        BY <1>1 DEF NextPayment, PaymentRows
      <4> QED
        BY <1>1, <2>2, <3>1, <4>1
    <3> QED
      BY <1>1, <3>1, <3>2, <3>3
  <2>4. CASE stage[w] # "created"
    <3>1. attempts[w] = <<>> /\ CanTransition(stage[w], "cancelled") /\ stage[w] \in OrderStatus
      BY <2>2, <2>4 DEF PendingWork, Inv, TypeOK, WorkerTypeOK, Stages, OrderStatus
    <3>2. status[o] = "paid"
      BY <2>2, <2>4, <3>1, LegalMoves
    <3>3. payments'[o] = payments[o] /\ Approved(o) # {}
      BY <1>1, <2>2, <3>1, <3>2 DEF PaymentsMatch, PaidStatuses
    <3> QED
      BY <3>3 DEF Approved
  <2> QED
    BY <2>3, <2>4
<1> QED
  BY <1>2, <1>3, TablesChange

\* However many workers there are, a cancelled order was charged or has made every attempt.
THEOREM WorkersCancelForCause == Spec => []CancelledForCause
<1>1. Init => CancelledForCause
  BY DEF Init, BookInit, CancelledForCause
<1>2. Spec => []PaymentsMatchStatus
  BY WorkersImplementBook, PaymentsAlwaysMatch, PTL DEF ImplementsOrderBook
<1> QED
  BY <1>1, <1>2, Invariant, CauseStep, PTL DEF Spec

-----------------------------------------------------------------------------
(* Delays.                                                                 *)

\* How far along its lifecycle an order is: every move leads further.
Rank ==
  [none |-> 0, created |-> 1, paid |-> 2, shipped |-> 3, delivered |-> 4, cancelled |-> 5, refunded |-> 5]

LEMMA MovesLeadOn ==
  /\ \A from \in OrderStatus : \A to : CanTransition(from, to) => Rank[from] < Rank[to]
  /\ \A s \in OrderStatus \cup {"none"} : Rank[s] \in Nat
  /\ \A s \in Stages : Rank["none"] < Rank[s]
  /\ Rank["none"] < Rank["created"]
BY DEF CanTransition, Transitions, OrderStatus, Rank, Stages

\* The orders a transaction has selected: those of its scan, then the one it claims.
Selected(w, o) == claim[w] = o \/ \E i \in DOMAIN cand[w] : cand[w][i] = o

Alone == \A v, w \in Workers : v = w

\* What the due predicate says of the stamps alone.  A second worker may record an attempt
\* between the scan and the claim, after which nothing is promised of the last one.
StampsDue(w, o) ==
  /\ stage[w] = "created" /\ (Alone \/ payments[o] = <<>>) => Before(w, lastAttempt[o]) > PayDelay
  /\ stage[w] = "paid" => Before(w, updated[o]) > ShipDelay
  /\ stage[w] = "shipped" => Before(w, updated[o]) > DeliverDelay
  /\ stage[w] = "delivered" => Before(w, updated[o]) > RefundDelay /\ Before(w, updated[o]) < RefundWindow

\* A selected order that is still in the stage is still due: it cannot have left the stage
\* and come back, and its stamps age with the transaction.
SelectionHolds(w, o) ==
  Selected(w, o) =>
    /\ pc[w] # "idle"
    /\ Rank[stage[w]] <= Rank[status[o]]
    /\ status[o] = stage[w] => StampsDue(w, o)

SelectionsHold == \A w \in Workers, o \in Orders : SelectionHolds(w, o)

DelayInv == Inv /\ SelectionsHold

LEMMA DelayInit == Init => DelayInv
<1> SUFFICES ASSUME Init PROVE DelayInv
  OBVIOUS
<1>1. \A w \in Workers, o \in Orders : ~Selected(w, o)
  BY Bounds DEF Init, Selected
<1> QED
  BY <1>1, InitInv DEF DelayInv, SelectionsHold, SelectionHolds

\* A step that selects nothing new for w and leaves its clock alone, while the order keeps
\* its stamps or moves on.
LEMMA SelectionKept ==
  ASSUME DelayInv, NEW w \in Workers, NEW o \in Orders,
         Selected(w, o)' => Selected(w, o) /\ pc'[w] # "idle",
         stage'[w] = stage[w], txnAge'[w] = txnAge[w],
         \/ /\ status'[o] = status[o] /\ updated'[o] = updated[o]
            /\ \/ lastAttempt'[o] = lastAttempt[o] /\ (payments'[o] = <<>> => payments[o] = <<>>)
               \/ ~Alone /\ payments'[o] # <<>>
         \/ status[o] \in OrderStatus /\ CanTransition(status[o], status'[o])
  PROVE  SelectionHolds(w, o)'
<1>1. SelectionHolds(w, o)
  BY DEF DelayInv, SelectionsHold
<1>2. Alone' = Alone
  BY DEF Alone
<1>3. CASE /\ status'[o] = status[o] /\ updated'[o] = updated[o]
           /\ \/ lastAttempt'[o] = lastAttempt[o] /\ (payments'[o] = <<>> => payments[o] = <<>>)
              \/ ~Alone /\ payments'[o] # <<>>
  BY <1>1, <1>2, <1>3 DEF SelectionHolds, StampsDue, Before
<1>4. CASE status[o] \in OrderStatus /\ CanTransition(status[o], status'[o])
  <2>1. Rank[status[o]] < Rank[status'[o]]
    BY <1>4, MovesLeadOn
  <2>2. status'[o] \in OrderStatus /\ stage[w] \in OrderStatus
    BY <1>4, LegalMoves DEF DelayInv, Inv, TypeOK, WorkerTypeOK, Stages, OrderStatus
  <2>3. Rank[status[o]] \in Nat /\ Rank[status'[o]] \in Nat /\ Rank[stage[w]] \in Nat
    BY <1>4, <2>2, MovesLeadOn
  <2>4. Selected(w, o) => Rank[stage[w]] < Rank[status'[o]]
    BY <1>1, <2>1, <2>3 DEF SelectionHolds
  <2>5. Selected(w, o) => Rank[stage[w]] <= Rank[status'[o]] /\ status'[o] # stage[w]
    BY <2>3, <2>4
  <2> QED
    BY <2>5 DEF SelectionHolds
<1> QED
  BY <1>3, <1>4

\* Nothing is selected between transactions.
LEMMA SelectionDropped ==
  ASSUME TypeOK, NEW w \in Workers, Finish(w), NEW o \in Orders PROVE SelectionHolds(w, o)'
<1>1. claim'[w] = NoOrder /\ cand'[w] = <<>>
  BY DEF Finish, TypeOK, WorkerTypeOK
<1>2. ~Selected(w, o)'
  BY <1>1, Bounds DEF Selected
<1> QED
  BY <1>2 DEF SelectionHolds

\* The scan selects what is due.
LEMMA SelectionMade ==
  ASSUME DelayInv, NEW w \in Workers, Scan(w), NEW o \in Orders PROVE SelectionHolds(w, o)'
<1>1. /\ pc[w] = "begun" /\ pc'[w] = "scanned" /\ claim[w] = NoOrder
      /\ UNCHANGED <<status, payments, stage, updated, lastAttempt, txnAge, claim>>
  BY DEF Scan, DelayInv, Inv, TypeOK, WorkerTypeOK, ClaimsStayValid, ClaimValid, bookVars, stampVars
<1>2. PICK q \in Scans(w) : cand' = [cand EXCEPT ![w] = q]
  BY DEF Scan
<1>3. cand'[w] = q
  BY <1>2 DEF DelayInv, Inv, TypeOK, WorkerTypeOK
<1>4. \A i \in DOMAIN q : Due(w, q[i])
  BY DEF Scans
<1>5. Selected(w, o)' => Due(w, o)
  BY <1>1, <1>3, <1>4, Bounds DEF Selected
<1>6. Due(w, o) => status[o] = stage[w] /\ StampsDue(w, o)
  BY DEF Due, StampsDue, LastAttempt
<1>7. Rank[stage[w]] \in Nat
  BY MovesLeadOn DEF DelayInv, Inv, TypeOK, WorkerTypeOK, Stages, OrderStatus
<1>8. StampsDue(w, o) => StampsDue(w, o)'
  BY <1>1 DEF StampsDue, Before, Alone
<1> QED
  BY <1>1, <1>5, <1>6, <1>7, <1>8 DEF SelectionHolds

\* A transaction and the stamps it has read age together; a stamp that has reached AgeCap
\* stays due, and none has while the refund window is open.
LEMMA SelectionAges ==
  ASSUME DelayInv, Tick, NEW w \in Workers, NEW o \in Orders PROVE SelectionHolds(w, o)'
<1>1. /\ SelectionHolds(w, o) /\ UNCHANGED <<status, payments, pc, stage, cand, claim>>
      /\ updated'[o] = Older(updated[o]) /\ lastAttempt'[o] = Older(lastAttempt[o])
  BY DEF DelayInv, SelectionsHold, Tick, bookVars
<1>2. pc[w] # "idle" => txnAge'[w] = txnAge[w] + 1 /\ txnAge[w] < MaxTxnAge
  BY DEF Tick
<1>3. txnAge[w] \in 0 .. MaxTxnAge /\ updated[o] \in 0 .. AgeCap /\ lastAttempt[o] \in 0 .. AgeCap
  BY DEF DelayInv, Inv, TypeOK, WorkerTypeOK, Ages
<1>4. /\ {PayDelay, ShipDelay, DeliverDelay, RefundDelay, RefundWindow, MaxTxnAge, AgeCap} \subseteq Nat
      /\ PayDelay + MaxTxnAge < AgeCap /\ ShipDelay + MaxTxnAge < AgeCap
      /\ DeliverDelay + MaxTxnAge < AgeCap /\ RefundDelay + MaxTxnAge < AgeCap
      /\ RefundWindow + MaxTxnAge <= AgeCap
  BY WorkersAssumption
<1>5. ASSUME NEW age \in 0 .. AgeCap, NEW delay \in Nat, delay + MaxTxnAge < AgeCap,
             pc[w] # "idle", age - txnAge[w] > delay
      PROVE  Older(age) - txnAge'[w] > delay
  BY <1>2, <1>3, <1>4, <1>5 DEF Older
<1>6. ASSUME NEW age \in 0 .. AgeCap, pc[w] # "idle", age - txnAge[w] < RefundWindow
      PROVE  Older(age) - txnAge'[w] < RefundWindow
  BY <1>2, <1>3, <1>4, <1>6 DEF Older
<1>7. pc[w] # "idle" /\ StampsDue(w, o) => StampsDue(w, o)'
  BY <1>1, <1>3, <1>4, <1>5, <1>6 DEF StampsDue, Before, Alone
<1> QED
  BY <1>1, <1>7 DEF SelectionHolds, Selected

\* What a commit does to the order rows: the claimed one may move, and is stamped if so.
LEMMA CommittedRows ==
  ASSUME Inv, NEW w \in Workers, Commit(w)
  PROVE  /\ claim[w] \in Orders /\ status[claim[w]] = stage[w]
         /\ \A o \in Orders \ {claim[w]} :
              /\ status'[o] = status[o] /\ updated'[o] = updated[o]
              /\ lastAttempt'[o] = lastAttempt[o] /\ payments'[o] = payments[o]
         /\ \/ status'[claim[w]] = status[claim[w]] /\ updated'[claim[w]] = updated[claim[w]]
            \/ /\ CanTransition(status[claim[w]], status'[claim[w]])
               /\ updated'[claim[w]] = txnAge[w]
         /\ \/ lastAttempt'[claim[w]] = lastAttempt[claim[w]] /\ payments'[claim[w]] = payments[claim[w]]
            \/ payments'[claim[w]] # <<>>
<1>1. claim[w] \in Orders /\ status[claim[w]] = stage[w] /\ PendingWork(w) /\ pc[w] = "ready"
  BY DEF Inv, ClaimsStayValid, ClaimValid, Commit
<1>2. /\ status \in [Orders -> OrderStatus \cup {"none"}] /\ updated \in [Orders -> Ages]
      /\ lastAttempt \in [Orders -> Ages] /\ payments \in [Orders -> Seq(PaymentRows)]
      /\ stage[w] \in Stages
  BY DEF Inv, TypeOK, BookTypeOK, WorkerTypeOK
<1>3. /\ status' = [status EXCEPT ![claim[w]] = target[w]]
      /\ payments' = [payments EXCEPT ![claim[w]] = @ \o attempts[w]]
      /\ StampMove(w, claim[w]) /\ StampAttempt(w, claim[w])
  BY DEF Commit
<1>4. \A r \in Orders \ {claim[w]} :
        /\ status'[r] = status[r] /\ updated'[r] = updated[r]
        /\ lastAttempt'[r] = lastAttempt[r] /\ payments'[r] = payments[r]
  BY <1>1, <1>2, <1>3 DEF StampMove, StampAttempt
<1>5. status'[claim[w]] = target[w]
  BY <1>1, <1>2, <1>3
<1>6. target[w] = stage[w] \/ CanTransition(stage[w], target[w])
  BY <1>1 DEF PendingWork, CanTransition, Transitions
<1>7. \/ status'[claim[w]] = status[claim[w]] /\ updated'[claim[w]] = updated[claim[w]]
      \/ /\ CanTransition(status[claim[w]], status'[claim[w]])
         /\ updated'[claim[w]] = txnAge[w]
  <2>1. CASE target[w] = status[claim[w]]
    BY <1>1, <1>2, <1>3, <1>5, <2>1 DEF StampMove
  <2>2. CASE target[w] # status[claim[w]]
    BY <1>1, <1>2, <1>3, <1>5, <1>6, <2>2 DEF StampMove
  <2> QED
    BY <2>1, <2>2
<1>8. \/ lastAttempt'[claim[w]] = lastAttempt[claim[w]] /\ payments'[claim[w]] = payments[claim[w]]
      \/ payments'[claim[w]] # <<>>
  <2>1. /\ payments[claim[w]] \in Seq(PaymentRows)
        /\ payments'[claim[w]] = payments[claim[w]] \o attempts[w]
    BY <1>1, <1>2, <1>3
  <2>2. CASE attempts[w] = <<>>
    BY <1>2, <1>3, <2>1, <2>2 DEF StampAttempt
  <2>3. CASE attempts[w] # <<>>
    <3>1. PICK row : attempts[w] = <<row>>
      BY <1>1, <2>3 DEF PendingWork
    <3>2. attempts[w] \in Seq(PaymentRows)
      BY DEF Inv, TypeOK, WorkerTypeOK
    <3>3. Len(payments'[claim[w]]) = Len(payments[claim[w]]) + 1 /\ Len(payments[claim[w]]) \in Nat
      BY <2>1, <3>1, <3>2
    <3> QED
      BY <3>3
  <2> QED
    BY <2>2, <2>3
<1> QED
  BY <1>1, <1>4, <1>7, <1>8

LEMMA DelayStep == DelayInv /\ [Next]_vars => DelayInv'
<1> SUFFICES ASSUME DelayInv, [Next]_vars, NEW w \in Workers, NEW o \in Orders
             PROVE  SelectionHolds(w, o)'
  BY InvStep DEF DelayInv, SelectionsHold
<1>1. Inv /\ TypeOK /\ SelectionHolds(w, o)
  BY DEF DelayInv, SelectionsHold, Inv
<1>2. CASE UNCHANGED <<status, payments, stampVars, pc, stage, txnAge, cand, claim>>
  BY <1>1, <1>2, SelectionKept DEF stampVars, Selected, SelectionHolds
<1>3. ASSUME NEW v \in Workers, Commit(v) PROVE SelectionHolds(w, o)'
  <2>1. CASE v = w
    BY <1>1, <1>3, <2>1, SelectionDropped DEF Commit
  <2>2. CASE v # w
    <3>1. ~Alone
      BY <2>2 DEF Alone
    <3>2. /\ pc'[w] = pc[w] /\ stage'[w] = stage[w] /\ txnAge'[w] = txnAge[w]
          /\ cand'[w] = cand[w] /\ claim'[w] = claim[w]
      BY <1>1, <1>3, <2>2 DEF Commit, Finish, NextIteration, EnterStage, TypeOK, WorkerTypeOK
    <3>3. status[claim[v]] \in OrderStatus
      BY <1>1, <1>3, CommittedRows DEF TypeOK, WorkerTypeOK, Stages, OrderStatus
    <3>4. \/ /\ status'[o] = status[o] /\ updated'[o] = updated[o]
             /\ \/ lastAttempt'[o] = lastAttempt[o] /\ payments'[o] = payments[o]
                \/ payments'[o] # <<>>
          \/ status[o] \in OrderStatus /\ CanTransition(status[o], status'[o])
      BY <1>1, <1>3, <3>3, CommittedRows
    <3>5. Selected(w, o)' => Selected(w, o) /\ pc'[w] # "idle"
      BY <1>1, <3>2 DEF Selected, SelectionHolds
    <3> QED
      BY <3>1, <3>2, <3>4, <3>5, SelectionKept
  <2> QED
    BY <2>1, <2>2
<1>4. ASSUME NEW v \in Workers, Advance(v), ~Commit(v) PROVE SelectionHolds(w, o)'
  <2>1. UNCHANGED <<status, payments, stampVars>>
    BY <1>4 DEF Advance, Begin, Scan, Skip, Claim, Drained, Pay, Decline, CancelExhausted,
                CancelPicked, Ship, Deliver, Refund, Forward, bookVars
  <2>2. CASE v # w
    <3>1. /\ pc'[w] = pc[w] /\ stage'[w] = stage[w] /\ txnAge'[w] = txnAge[w]
          /\ cand'[w] = cand[w] /\ claim'[w] = claim[w]
      BY <1>1, <1>4, <2>2 DEF Advance, Begin, Scan, Skip, Claim, Drained, Pay, Decline,
           CancelExhausted, CancelPicked, Ship, Deliver, Refund, Forward, Finish, EnterStage, At,
           TypeOK, WorkerTypeOK
    <3> QED
      BY <1>1, <2>1, <3>1, SelectionKept DEF stampVars, Selected, SelectionHolds
  <2>3. CASE v = w /\ Scan(w)
    BY <2>3, SelectionMade
  <2>4. CASE v = w /\ Drained(w)
    BY <1>1, <2>4, SelectionDropped DEF Drained
  <2>5. CASE v = w /\ ~Scan(w) /\ ~Drained(w)
    <3>1. /\ UNCHANGED <<stage, txnAge>> /\ pc'[w] # "idle"
          /\ Begin(w) \/ Skip(w) \/ Claim(w) \/ UNCHANGED <<cand, claim>>
      BY <1>1, <1>4, <2>5 DEF Advance, Begin, Skip, Claim, Pay, Decline, CancelExhausted,
           CancelPicked, Ship, Deliver, Refund, Forward, At, Claimed, TypeOK, WorkerTypeOK
    <3>2. Selected(w, o)' => Selected(w, o)
      <4>1. CASE Skip(w) \/ Claim(w)
        <5>1. cand[w] \in Seq(Orders) /\ cand[w] # <<>>
          BY <1>1, <4>1 DEF Skip, Claim, TypeOK, WorkerTypeOK
        <5>2. Head(cand[w]) = cand[w][1] /\ 1 \in DOMAIN cand[w]
          BY <5>1
        <5>3. \A i \in DOMAIN Tail(cand[w]) : i + 1 \in DOMAIN cand[w] /\ Tail(cand[w])[i] = cand[w][i + 1]
          BY <5>1
        <5>4. \/ claim'[w] = claim[w] /\ cand'[w] = Tail(cand[w])
              \/ claim'[w] = Head(cand[w]) /\ cand'[w] = <<>>
          BY <1>1, <4>1 DEF Skip, Claim, TypeOK, WorkerTypeOK
        <5>5. CASE claim'[w] = claim[w] /\ cand'[w] = Tail(cand[w])
          BY <5>3, <5>5 DEF Selected
        <5>6. CASE claim'[w] = Head(cand[w]) /\ cand'[w] = <<>>
          <6>1. Selected(w, o)' => Head(cand[w]) = o
            BY <5>6 DEF Selected
          <6> QED
            BY <5>2, <6>1 DEF Selected
        <5> QED
          BY <5>4, <5>5, <5>6
      <4>2. CASE Begin(w) \/ UNCHANGED <<cand, claim>>
        BY <4>2 DEF Begin, Selected
      <4> QED
        BY <3>1, <4>1, <4>2
    <3> QED
      BY <2>1, <3>1, <3>2, SelectionKept DEF stampVars
  <2> QED
    BY <2>2, <2>3, <2>4, <2>5
<1>5. ASSUME NEW v \in Workers, Crash(v) PROVE SelectionHolds(w, o)'
  <2>1. CASE v = w
    BY <1>1, <1>5, <2>1, SelectionDropped DEF Crash
  <2>2. CASE v # w
    <3>1. /\ pc'[w] = pc[w] /\ stage'[w] = stage[w] /\ txnAge'[w] = txnAge[w]
          /\ cand'[w] = cand[w] /\ claim'[w] = claim[w]
          /\ UNCHANGED <<status, payments, stampVars>>
      BY <1>1, <1>5, <2>2 DEF Crash, Finish, EnterStage, bookVars, TypeOK, WorkerTypeOK
    <3> QED
      BY <1>1, <3>1, SelectionKept DEF stampVars, Selected, SelectionHolds
  <2> QED
    BY <2>1, <2>2
<1>6. ASSUME NEW n \in Orders, Checkout(n) PROVE SelectionHolds(w, o)'
  <2>1. /\ status[n] = "none" /\ UNCHANGED <<payments, workerVars>>
        /\ \A r \in Orders \ {n} :
             status'[r] = status[r] /\ updated'[r] = updated[r] /\ lastAttempt'[r] = lastAttempt[r]
    BY <1>1, <1>6 DEF Checkout, PlaceOrder, TypeOK, BookTypeOK, WorkerTypeOK
  <2>2. CASE o = n
    <3>1. stage[w] \in Stages /\ Rank["none"] \in Nat /\ Rank[stage[w]] \in Nat
      BY <1>1, MovesLeadOn DEF TypeOK, WorkerTypeOK, Stages, OrderStatus
    <3>2. ~(Rank[stage[w]] <= Rank["none"])
      BY <3>1, MovesLeadOn
    <3>3. ~Selected(w, o)
      BY <1>1, <2>1, <2>2, <3>2 DEF SelectionHolds
    <3> QED
      BY <2>1, <3>3 DEF workerVars, Selected, SelectionHolds
  <2>3. CASE o # n
    BY <1>1, <2>1, <2>3, SelectionKept DEF workerVars, Selected, SelectionHolds
  <2> QED
    BY <2>2, <2>3
<1>7. ASSUME NEW p \in Products, BackofficeRestock(p) PROVE SelectionHolds(w, o)'
  BY <1>2, <1>7 DEF BackofficeRestock, Restock, workerVars
<1>8. CASE Tick
  BY <1>8, SelectionAges
<1>9. CASE UNCHANGED vars
  BY <1>2, <1>9 DEF vars, bookVars, workerVars
<1> QED
  BY <1>3, <1>4, <1>5, <1>6, <1>7, <1>8, <1>9 DEF Next

LEMMA DelayInvariant == Spec => []DelayInv
BY DelayInit, DelayStep, PTL DEF Spec

\* An order that moves on has dwelled in its stage, whoever moves it.
LEMMA DelaysStep ==
  DelayInv /\ [Next]_vars =>
    [\A o \in Orders :
       status'[o] # status[o] =>
         CASE status[o] = "paid" -> Dwell(o) > ShipDelay
           [] status[o] = "shipped" -> Dwell(o) > DeliverDelay
           [] status[o] = "delivered" -> Dwell(o) > RefundDelay /\ Dwell(o) < RefundWindow
           [] OTHER -> TRUE]_vars
<1> SUFFICES ASSUME DelayInv, Next, NEW o \in Orders, status'[o] # status[o]
             PROVE  /\ status[o] = "paid" => Dwell(o) > ShipDelay
                    /\ status[o] = "shipped" => Dwell(o) > DeliverDelay
                    /\ status[o] = "delivered" => Dwell(o) > RefundDelay /\ Dwell(o) < RefundWindow
  OBVIOUS
<1>1. Inv
  BY DEF DelayInv
<1>2. ASSUME NEW w \in Workers, Commit(w)
      PROVE  /\ status[o] = "paid" => Dwell(o) > ShipDelay
             /\ status[o] = "shipped" => Dwell(o) > DeliverDelay
             /\ status[o] = "delivered" => Dwell(o) > RefundDelay /\ Dwell(o) < RefundWindow
  <2>1. claim[w] = o /\ status[o] = stage[w] /\ updated'[o] = txnAge[w]
    BY <1>1, <1>2, CommittedRows
  <2>2. StampsDue(w, o)
    BY <2>1 DEF DelayInv, SelectionsHold, SelectionHolds, Selected
  <2> QED
    BY <2>1, <2>2 DEF StampsDue, Before, Dwell
<1>3. ASSUME NEW n \in Orders, Checkout(n) PROVE status[o] = "none"
  BY <1>1, <1>3 DEF Checkout, PlaceOrder, Inv, TypeOK, BookTypeOK
<1>4. ASSUME NEW w \in Workers, Advance(w) \/ Crash(w), ~Commit(w) PROVE UNCHANGED status
  BY <1>4 DEF Advance, Begin, Scan, Skip, Claim, Drained, Pay, Decline, CancelExhausted,
              CancelPicked, Ship, Deliver, Refund, Forward, Crash, bookVars
<1>5. ASSUME NEW p \in Products, BackofficeRestock(p) PROVE UNCHANGED status
  BY <1>5 DEF BackofficeRestock, Restock
<1>6. ASSUME Tick PROVE UNCHANGED status
  BY <1>6 DEF Tick, bookVars
<1> QED
  BY <1>2, <1>3, <1>4, <1>5, <1>6 DEF Next

\* An order dwells its delay in every stage and is refunded only inside the window, for any
\* number of workers, although the stamps are the starts of transactions (progress.py,
\* orders.py).
THEOREM StampsAlwaysRespectDelays == Spec => StampsRespectDelays
BY DelayInvariant, DelaysStep, PTL DEF Spec, StampsRespectDelays

\* An attempt waits when nobody else can have made one since the scan.
LEMMA AttemptStep ==
  ASSUME DelayInv, Next, NEW o \in Orders, payments'[o] # payments[o],
         Alone \/ payments[o] = <<>>
  PROVE  AttemptGap(o) > PayDelay
<1>1. Inv
  BY DEF DelayInv
<1>2. ASSUME NEW w \in Workers, Commit(w) PROVE AttemptGap(o) > PayDelay
  <2>1. claim[w] = o /\ status[o] = stage[w] /\ PendingWork(w) /\ pc[w] = "ready"
    BY <1>1, <1>2, CommittedRows DEF Inv, ClaimsStayValid, ClaimValid, Commit
  <2>2. /\ payments \in [Orders -> Seq(PaymentRows)] /\ lastAttempt \in [Orders -> Ages]
        /\ txnAge[w] \in Nat /\ lastAttempt[o] \in Nat /\ PayDelay \in Nat
    <3>1. TypeOK /\ AgeCap \in Nat /\ MaxTxnAge \in Nat /\ PayDelay \in Nat
      BY <1>1, WorkersAssumption DEF Inv
    <3>2. lastAttempt[o] \in 0 .. AgeCap /\ txnAge[w] \in 0 .. MaxTxnAge
      BY <3>1 DEF TypeOK, WorkerTypeOK, Ages
    <3> QED
      BY <3>1, <3>2 DEF TypeOK, BookTypeOK, WorkerTypeOK
  <2>3. attempts[w] # <<>>
    <3>1. payments'[o] = payments[o] \o attempts[w]
      BY <1>2, <2>1, <2>2 DEF Commit
    <3>2. payments[o] \in Seq(PaymentRows) /\ payments[o] \o <<>> = payments[o]
      BY <2>2
    <3> QED
      BY <3>1, <3>2
  <2>4. stage[w] = "created"
    BY <2>1, <2>3 DEF PendingWork
  <2>5. lastAttempt[o] - txnAge[w] > PayDelay
    BY <2>1, <2>4 DEF DelayInv, SelectionsHold, SelectionHolds, Selected, StampsDue, Before
  <2>6. Min({lastAttempt[o], txnAge[w]}) = txnAge[w]
    <3>1. txnAge[w] < lastAttempt[o]
      BY <2>2, <2>5
    <3>2. \A x \in {lastAttempt[o], txnAge[w]} :
            (\A y \in {lastAttempt[o], txnAge[w]} : x =< y) <=> x = txnAge[w]
      BY <2>2, <3>1
    <3>3. \E x \in {lastAttempt[o], txnAge[w]} : \A y \in {lastAttempt[o], txnAge[w]} : x =< y
      BY <3>2
    <3> QED
      BY <3>2, <3>3 DEF Min
  <2>7. lastAttempt'[o] = txnAge[w]
    BY <1>2, <2>1, <2>2, <2>3, <2>6 DEF Commit, StampAttempt
  <2> QED
    BY <2>5, <2>7 DEF AttemptGap
<1>3. ASSUME NEW n \in Orders, Checkout(n) PROVE UNCHANGED payments
  BY <1>3 DEF Checkout, PlaceOrder
<1>4. ASSUME NEW w \in Workers, Advance(w) \/ Crash(w), ~Commit(w) PROVE UNCHANGED payments
  BY <1>4 DEF Advance, Begin, Scan, Skip, Claim, Drained, Pay, Decline, CancelExhausted,
              CancelPicked, Ship, Deliver, Refund, Forward, Crash, bookVars
<1>5. ASSUME NEW p \in Products, BackofficeRestock(p) PROVE UNCHANGED payments
  BY <1>5 DEF BackofficeRestock, Restock
<1>6. ASSUME Tick PROVE UNCHANGED payments
  BY <1>6 DEF Tick, bookVars
<1> QED
  BY <1>2, <1>3, <1>4, <1>5, <1>6 DEF Next

\* However many workers run, the first attempt on an order waits its delay (progress.py:
\* last_attempt; payments.py: _record_attempt).
THEOREM FirstAttemptsAlwaysWait == Spec => FirstAttemptsWait
<1>1. DelayInv /\ [Next]_vars =>
        [\A o \in Orders :
           payments[o] = <<>> /\ payments'[o] # <<>> => AttemptGap(o) > PayDelay]_vars
  BY AttemptStep
<1> QED
  BY DelayInvariant, <1>1, PTL DEF Spec, FirstAttemptsWait

\* While one worker runs, every attempt waits its delay from the one before it; a second
\* worker is what breaks this (progress.py: last_attempt).
THEOREM LoneWorkerRetriesWait == (\A v, w \in Workers : v = w) => (Spec => PaymentRetriesWait)
<1> SUFFICES ASSUME Alone PROVE Spec => PaymentRetriesWait
  BY DEF Alone
<1>1. DelayInv /\ [Next]_vars =>
        [\A o \in Orders : payments'[o] # payments[o] => AttemptGap(o) > PayDelay]_vars
  BY AttemptStep
<1> QED
  BY DelayInvariant, <1>1, PTL DEF Spec, PaymentRetriesWait
=============================================================================
