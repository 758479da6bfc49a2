---------------------------- MODULE OrderWorkers ----------------------------
(***************************************************************************)
(* The background workers (workers/progress.py) at the grain of their SQL  *)
(* statements.  Every worker is one connection running advance_orders over *)
(* and over.  One iteration of _drain is one READ COMMITTED transaction:   *)
(*                                                                         *)
(*   Begin    BEGIN: fixes now()                                           *)
(*   Scan     the claiming SELECT takes its snapshot, evaluates the due    *)
(*            predicate of the stage on it and sorts by updated_at         *)
(*   Skip /   SKIP LOCKED walks the sorted rows: a row another worker      *)
(*   Claim    holds, or whose latest version left the stage, is passed     *)
(*            over; the first other one is locked (LIMIT 1)                *)
(*   ...      the step function of the stage, its writes still invisible   *)
(*   Commit   the writes become visible, stamped with now(); lock released *)
(*                                                                         *)
(* The recheck in Claim is PostgreSQL's: it looks at the newest version of *)
(* the orders row, and only when there is one the snapshot did not see.  A *)
(* row that was merely locked in between is taken as the snapshot saw it,  *)
(* and the payments the due predicate read are never read again.           *)
(*                                                                         *)
(* Time.  Timestamps are kept as ages, counted in ticks and capped at      *)
(* AgeCap: an instant t is older than another u by age(t) - age(u).        *)
(***************************************************************************)
EXTENDS OrderBook

CONSTANTS
  Workers,       \* connections running advance_orders
  NoOrder,       \* the claim of a worker that holds no row
  PayDelay, ShipDelay, DeliverDelay, RefundDelay, \* business delays, in ticks
  RefundWindow,  \* refund_window_days, in ticks
  CancelPicks,   \* orders whose cancel bucket is below cancel_rate
  RefundPicks,   \* orders whose refund bucket is below refund_rate
  Batch,         \* iterations of one _drain
  MaxTxnAge,     \* bound: ticks a transaction may stay open
  AgeCap,        \* bound: ages saturate here
  MaxCrashes     \* bound: connections lost or processes killed

ASSUME WorkersAssumption ==
  /\ IsFiniteSet(Orders) /\ NoOrder \notin Orders
  /\ {PayDelay, ShipDelay, DeliverDelay, RefundDelay, RefundWindow} \subseteq Nat
  /\ {MaxTxnAge, AgeCap, MaxCrashes} \subseteq Nat
  /\ Batch \in Nat \ {0}
  /\ \A d \in {PayDelay, ShipDelay, DeliverDelay, RefundDelay} : d + MaxTxnAge < AgeCap
  /\ RefundWindow + MaxTxnAge <= AgeCap

VARIABLES
  updated,      \* age of orders.updated_at, also of the stamp of the current status
  lastAttempt,  \* age of coalesce(max(payments.created_at), orders.created_at)
  pc,           \* where each worker is in its transaction
  stage,        \* the status the worker's _drain is working on
  left,         \* iterations left in that _drain
  txnAge,       \* age of now() in the worker's transaction
  cand,         \* rows of the claiming SELECT not looked at yet, oldest update first
  claim,        \* the order the worker has locked
  target,       \* uncommitted: the status the claimed order is moved to
  attempts,     \* uncommitted: the payment rows inserted
  crashes       \* connections lost so far

workerVars == <<pc, stage, left, txnAge, cand, claim, target, attempts>>
stampVars == <<updated, lastAttempt>>
vars == <<bookVars, stampVars, workerVars, crashes>>

Stages == {"created", "paid", "shipped", "delivered"}
Ages == 0 .. AgeCap
Older(age) == IF age < AgeCap THEN age + 1 ELSE AgeCap

WorkerTypeOK ==
  /\ updated \in [Orders -> Ages]
  /\ lastAttempt \in [Orders -> Ages]
  /\ pc \in [Workers -> {"idle", "begun", "scanned", "claimed", "exhausted", "ready"}]
  /\ stage \in [Workers -> Stages]
  /\ left \in [Workers -> 1 .. Batch]
  /\ txnAge \in [Workers -> 0 .. MaxTxnAge]
  /\ cand \in [Workers -> Seq(Orders)]
  /\ claim \in [Workers -> Orders \cup {NoOrder}]
  /\ target \in [Workers -> OrderStatus]
  /\ attempts \in [Workers -> Seq(PaymentRows)]
  /\ crashes \in 0 .. MaxCrashes

TypeOK == BookTypeOK /\ WorkerTypeOK

Init ==
  /\ BookInit
  /\ updated = [o \in Orders |-> 0]
  /\ lastAttempt = [o \in Orders |-> 0]
  /\ pc = [w \in Workers |-> "idle"]
  /\ stage = [w \in Workers |-> "created"]
  /\ left = [w \in Workers |-> Batch]
  /\ txnAge = [w \in Workers |-> 0]
  /\ cand = [w \in Workers |-> <<>>]
  /\ claim = [w \in Workers |-> NoOrder]
  /\ target = [w \in Workers |-> "created"]
  /\ attempts = [w \in Workers |-> <<>>]
  /\ crashes = 0

-----------------------------------------------------------------------------
(* Selecting an order.                                                     *)

\* How long before now() of worker w's transaction an instant of the given age was.
Before_Unstarted(w, age) == age
Before(w, age) == age - txnAge[w]

\* last_attempt: the instant the wait for the next payment attempt starts from.
LastAttempt_OrderOnly(o) == updated[o]
LastAttempt(o) == lastAttempt[o]

\* The due predicate of each stage, in the version of the row that is visible now.
Due(w, o) ==
  /\ status[o] = stage[w]
  /\ \/ stage[w] = "created" /\ Before(w, LastAttempt(o)) > PayDelay
     \/ stage[w] = "paid" /\ Before(w, updated[o]) > ShipDelay
     \/ stage[w] = "shipped" /\ Before(w, updated[o]) > DeliverDelay
     \/ /\ stage[w] = "delivered"
        /\ Before(w, updated[o]) > RefundDelay
        /\ Before(w, updated[o]) < RefundWindow
        /\ o \in RefundPicks

\* The due orders sorted by updated_at; rows with the same stamp in any order.
Scans(w) ==
  LET due == {o \in Orders : Due(w, o)}
  IN  {q \in [1 .. Cardinality(due) -> due] :
         \A i, j \in DOMAIN q : i < j => q[i] # q[j] /\ updated[q[i]] >= updated[q[j]]}

Begin(w) ==
  /\ pc[w] = "idle"
  /\ pc' = [pc EXCEPT ![w] = "begun"]
  /\ UNCHANGED <<bookVars, stampVars, stage, left, txnAge, cand, claim, target, attempts, crashes>>

Scan(w) ==
  /\ pc[w] = "begun"
  /\ \E q \in Scans(w) : cand' = [cand EXCEPT ![w] = q]
  /\ pc' = [pc EXCEPT ![w] = "scanned"]
  /\ UNCHANGED <<bookVars, stampVars, stage, left, txnAge, claim, target, attempts, crashes>>

LockedByOther_Never(w, o) == FALSE
LockedByOther(w, o) == \E v \in Workers \ {w} : claim[v] = o

\* FOR UPDATE SKIP LOCKED on one row of the scan.
Claimable_NoRecheck(w, o) == ~LockedByOther(w, o)
Claimable(w, o) == ~LockedByOther(w, o) /\ status[o] = stage[w]

Skip(w) ==
  /\ pc[w] = "scanned" /\ cand[w] # <<>>
  /\ ~Claimable(w, Head(cand[w]))
  /\ cand' = [cand EXCEPT ![w] = Tail(@)]
  /\ UNCHANGED <<bookVars, stampVars, pc, stage, left, txnAge, claim, target, attempts, crashes>>

Claim(w) ==
  /\ pc[w] = "scanned" /\ cand[w] # <<>>
  /\ Claimable(w, Head(cand[w]))
  /\ claim' = [claim EXCEPT ![w] = Head(cand[w])]
  /\ target' = [target EXCEPT ![w] = stage[w]]
  /\ cand' = [cand EXCEPT ![w] = <<>>]
  /\ pc' = [pc EXCEPT ![w] = "claimed"]
  /\ UNCHANGED <<bookVars, stampVars, stage, left, txnAge, attempts, crashes>>

\* advance_orders' order of stages; after the last one the next poll begins.
NextStage_Restart ==
  [created |-> "paid", paid |-> "created", shipped |-> "delivered", delivered |-> "created"]
NextStage ==
  [created |-> "paid", paid |-> "shipped", shipped |-> "delivered", delivered |-> "created"]

\* The transaction of worker w is over, committed or not: its locks are free.
Finish(w) ==
  /\ pc' = [pc EXCEPT ![w] = "idle"]
  /\ txnAge' = [txnAge EXCEPT ![w] = 0]
  /\ cand' = [cand EXCEPT ![w] = <<>>]
  /\ claim' = [claim EXCEPT ![w] = NoOrder]
  /\ target' = [target EXCEPT ![w] = "created"]
  /\ attempts' = [attempts EXCEPT ![w] = <<>>]

EnterStage(w, s) ==
  /\ stage' = [stage EXCEPT ![w] = s]
  /\ left' = [left EXCEPT ![w] = Batch]

\* row is None: nothing left to claim, _drain returns.
Drained(w) ==
  /\ pc[w] = "scanned" /\ cand[w] = <<>>
  /\ Finish(w)
  /\ EnterStage(w, NextStage[stage[w]])
  /\ UNCHANGED <<bookVars, stampVars, crashes>>

-----------------------------------------------------------------------------
(* The step functions.  Their reads see the committed tables and their own *)
(* writes; the claimed row cannot change under them.                       *)

Claimed(w, s) == pc[w] = "claimed" /\ stage[w] = s

\* transition(): lock, ensure_transition, UPDATE orders.
Transition(w, to) ==
  /\ CanTransition(target[w], to)
  /\ target' = [target EXCEPT ![w] = to]

RecordAttempt(w, result) ==
  attempts' = [attempts EXCEPT ![w] = Append(@, NextPayment(claim[w], result))]

At(w, next) == pc' = [pc EXCEPT ![w] = next]

Pay(w) ==
  /\ Claimed(w, "created")
  /\ Transition(w, "paid")
  /\ RecordAttempt(w, "approved")
  /\ At(w, "ready")
  /\ UNCHANGED <<bookVars, stampVars, stage, left, txnAge, cand, claim, crashes>>

\* pay_step's test of tried + 1, with tried counted before the attempt.
LastTry_OffByOne(w) == Len(payments[claim[w]]) >= MaxAttempts
LastTry(w) == Len(payments[claim[w]]) + 1 >= MaxAttempts

\* fail_payment, then the last-try test.
Decline(w) ==
  /\ Claimed(w, "created")
  /\ RecordAttempt(w, "declined")
  /\ At(w, IF LastTry(w) THEN "exhausted" ELSE "ready")
  /\ UNCHANGED <<bookVars, stampVars, stage, left, txnAge, cand, claim, target, crashes>>

\* pay_step's cancel_order: same transaction as the last declined attempt.
CancelExhausted(w) ==
  /\ pc[w] = "exhausted"
  /\ Transition(w, "cancelled")
  /\ At(w, "ready")
  /\ UNCHANGED <<bookVars, stampVars, stage, left, txnAge, cand, claim, attempts, crashes>>

\* ship_step, deliver_step and refund_step move the order and insert no payment.
Forward(w, s, to) ==
  /\ Claimed(w, s)
  /\ Transition(w, to)
  /\ At(w, "ready")
  /\ UNCHANGED <<bookVars, stampVars, stage, left, txnAge, cand, claim, attempts, crashes>>

CancelPicked(w) == claim[w] \in CancelPicks /\ Forward(w, "paid", "cancelled")
Ship(w) == claim[w] \notin CancelPicks /\ Forward(w, "paid", "shipped")
Deliver(w) == Forward(w, "shipped", "delivered")
Refund(w) == Forward(w, "delivered", "refunded")

-----------------------------------------------------------------------------
(* What a commit makes visible.                                            *)

\* The status UPDATE stamps now(); a decline leaves the orders row alone.
StampMove(w, o) ==
  updated' = IF target[w] = status[o] THEN updated ELSE [updated EXCEPT ![o] = txnAge[w]]

\* payments.created_at defaults to now(); the first attempt hides orders.created_at.
StampAttempt(w, o) ==
  lastAttempt' =
    IF attempts[w] = <<>> THEN lastAttempt
    ELSE [lastAttempt EXCEPT ![o] =
            IF payments[o] = <<>> THEN txnAge[w] ELSE Min({@, txnAge[w]})]

ShipmentAfter(o, to) ==
  CASE to = "shipped" -> "in_transit"
    [] to = "delivered" -> "delivered"
    [] OTHER -> shipment[o]

\* The last iteration of the batch ends the _drain as well.
NextIteration_OneMore(w) ==
  IF left[w] = 0
    THEN EnterStage(w, NextStage[stage[w]])
    ELSE left' = [left EXCEPT ![w] = @ - 1] /\ UNCHANGED stage
NextIteration(w) ==
  IF left[w] = 1
    THEN EnterStage(w, NextStage[stage[w]])
    ELSE left' = [left EXCEPT ![w] = @ - 1] /\ UNCHANGED stage

Commit(w) ==
  LET o == claim[w] IN
  /\ pc[w] = "ready"
  /\ status' = [status EXCEPT ![o] = target[w]]
  /\ payments' = [payments EXCEPT ![o] = @ \o attempts[w]]
  /\ shipment' = [shipment EXCEPT ![o] = ShipmentAfter(o, target[w])]
  /\ IF target[w] = "cancelled" THEN ReturnStock(o) ELSE UNCHANGED stock
  /\ StampMove(w, o)
  /\ StampAttempt(w, o)
  /\ Finish(w)
  /\ NextIteration(w)
  /\ UNCHANGED <<items, supplied, crashes>>

\* The process is killed or loses its connection: the open transaction rolls back.
\* The restarted worker polls from the first stage (main.py: cli).
Crash(w) ==
  /\ crashes < MaxCrashes
  /\ crashes' = crashes + 1
  /\ Finish(w)
  /\ EnterStage(w, "created")
  /\ UNCHANGED <<bookVars, stampVars>>

-----------------------------------------------------------------------------
(* The rest of the shop, and time.                                         *)

\* A checkout commits; its now() was fixed up to MaxTxnAge ago.
Checkout(o) ==
  /\ \E basket \in Baskets : PlaceOrder(o, basket)
  /\ \E age \in 0 .. MaxTxnAge :
       /\ updated' = [updated EXCEPT ![o] = age]
       /\ lastAttempt' = [lastAttempt EXCEPT ![o] = age]
  /\ UNCHANGED <<workerVars, crashes>>

BackofficeRestock(p) == Restock(p) /\ UNCHANGED <<stampVars, workerVars, crashes>>

Tick ==
  /\ \A w \in Workers : pc[w] # "idle" => txnAge[w] < MaxTxnAge
  /\ txnAge' = [w \in Workers |-> IF pc[w] = "idle" THEN 0 ELSE txnAge[w] + 1]
  /\ updated' = [o \in Orders |-> Older(updated[o])]
  /\ lastAttempt' = [o \in Orders |-> Older(lastAttempt[o])]
  /\ UNCHANGED <<bookVars, pc, stage, left, cand, claim, target, attempts, crashes>>

Advance(w) ==
  \/ Begin(w) \/ Scan(w) \/ Skip(w) \/ Claim(w) \/ Drained(w)
  \/ Pay(w) \/ Decline(w) \/ CancelExhausted(w)
  \/ CancelPicked(w) \/ Ship(w) \/ Deliver(w) \/ Refund(w)
  \/ Commit(w)

Next ==
  \/ \E w \in Workers : Advance(w) \/ Crash(w)
  \/ \E o \in Orders : Checkout(o)
  \/ \E p \in Products : BackofficeRestock(p)
  \/ Tick

Spec == Init /\ [][Next]_vars

\* The main loop polls for ever and SKIP LOCKED never waits, so every worker keeps
\* taking steps; time passes.  Nothing makes customers order, and crashes are not fair.
Fairness == WF_vars(Tick) /\ \A w \in Workers : WF_vars(Advance(w))

FairSpec == Spec /\ Fairness

-----------------------------------------------------------------------------
(* Properties.                                                             *)

\* What a worker holds uncommitted while it has a claim.
PendingWork(w) ==
  \/ /\ pc[w] = "claimed"
     /\ target[w] = stage[w] /\ attempts[w] = <<>>
  \/ /\ pc[w] = "exhausted"
     /\ stage[w] = "created" /\ target[w] = "created"
     /\ attempts[w] = <<NextPayment(claim[w], "declined")>>
     /\ Len(payments[claim[w]]) + 1 >= MaxAttempts
  \/ /\ pc[w] = "ready" /\ stage[w] = "created"
     /\ \/ target[w] = "paid" /\ attempts[w] = <<NextPayment(claim[w], "approved")>>
        \/ /\ attempts[w] = <<NextPayment(claim[w], "declined")>>
           /\ target[w] = IF Len(payments[claim[w]]) + 1 >= MaxAttempts
                            THEN "cancelled" ELSE "created"
  \/ /\ pc[w] = "ready" /\ stage[w] # "created"
     /\ attempts[w] = <<>> /\ CanTransition(stage[w], target[w])

ClaimValid(w) ==
  IF pc[w] \in {"claimed", "exhausted", "ready"}
    THEN claim[w] \in Orders /\ status[claim[w]] = stage[w] /\ PendingWork(w)
    ELSE claim[w] = NoOrder /\ attempts[w] = <<>>

\* From the claim to the commit the order stays in the status the claiming SELECT
\* selected, so no step function ever raises InvalidTransition out of the worker, and
\* what it holds uncommitted is one legal move, or one attempt, on top of the tables.
\* (progress.py: _drain; orders.py: transition; payments.py: fail_payment)
ClaimsStayValid == \A w \in Workers : ClaimValid(w)

\* The workers give up on no order too early or too late: one they cancelled was charged
\* before, or every attempt it is entitled to was made and declined, and not one more,
\* whichever workers made them.  (progress.py: pay_step, ship_step)
CancelledForCause ==
  \A o \in Orders :
    status[o] = "cancelled" => Approved(o) # {} \/ Len(payments[o]) = MaxAttempts

\* How long after the last attempt (or the order) a new attempt was made.
AttemptGap(o) == lastAttempt[o] - lastAttempt'[o]

\* Every attempt on an order waits pay_after_days from the one before it.
\* (progress.py: last_attempt)
PaymentRetriesWait ==
  [][\A o \in Orders : payments'[o] # payments[o] => AttemptGap(o) > PayDelay]_vars

\* Also between two workers the first attempt waits pay_after_days from the order: only
\* an attempt the scan did not see can spoil the wait, and then it was the first.
\* (progress.py: last_attempt; payments.py: _record_attempt)
FirstAttemptsWait ==
  [][\A o \in Orders :
       payments[o] = <<>> /\ payments'[o] # <<>> => AttemptGap(o) > PayDelay]_vars

\* An order dwells its delay in every stage, measured between the stamps of its row,
\* and is refunded only inside the window, although the stamps are the start times
\* of transactions that may commit out of order.  (progress.py: stages; orders.py:
\* transition)
Dwell(o) == updated[o] - updated'[o]

StampsRespectDelays ==
  [][\A o \in Orders :
       status'[o] # status[o] =>
         CASE status[o] = "paid" -> Dwell(o) > ShipDelay
           [] status[o] = "shipped" -> Dwell(o) > DeliverDelay
           [] status[o] = "delivered" -> Dwell(o) > RefundDelay /\ Dwell(o) < RefundWindow
           [] OTHER -> TRUE]_vars

\* Seen from the tables, every commit of a worker is one whole use case: nothing of a
\* transaction shows before its end, and a killed worker leaves nothing behind.
ImplementsOrderBook == BookSpec

\* Every order gets to an end: it is cancelled or it reaches the customer, whatever
\* the workers skip, decline or lose on the way.  (progress.py: advance_orders)
OrdersSettle ==
  \A o \in Orders :
    status[o] = "created" ~> status[o] \in {"cancelled", "delivered", "refunded"}

\* The refund decision of an order depends on its id alone: once delivered, a picked
\* order is refunded.  (progress.py: module docstring, refund stage)
RefundsDoNotDependOnPolling ==
  \A o \in RefundPicks : status[o] = "delivered" ~> status[o] = "refunded"
=============================================================================
