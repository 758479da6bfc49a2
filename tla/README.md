# Formal models of the kappa streaming lakehouse

TLA+ specifications of the program in this repository, model-checked with TLC and
proved with TLAPS. Paths below are relative to the repository root;
`sim/` stands for `services/simulator/src/simulator/`.

## 1. The system

The repository is the source side of a streaming lakehouse: a shop simulator writes an
OLTP database (Postgres) and publishes a clickstream (Redpanda); Debezium copies the
database's changes to topics; Flink jobs (none are in the repository yet) are submitted
by a small script. Its own logic is the simulator.

| component | where | state it keeps | operations |
|---|---|---|---|
| order lifecycle | `sim/domain/order_state.py` | none (a table of legal moves) | `ensure_transition` |
| order use cases | `sim/usecases/{orders,payments,shipments}.py` | `orders`, `order_items`, `payments`, `shipments`, `inventory` | `place_order`, `cancel_order`, `refund_order`, `pay_order`, `fail_payment`, `ship_order`, `deliver_order` |
| order workers | `sim/workers/progress.py` | none of their own: everything is in Postgres | `advance_orders`: four stages, each drained in batches of claimed orders |
| catalog and inventory | `sim/usecases/{catalog,inventory}.py` | `categories`, `products`, `inventory` | create, change price, discontinue, restock, list low stock |
| customers | `sim/usecases/customers.py` | `customers`, `addresses` | register, update contact, add address, set primary, forget (LGPD erasure) |
| storefront traffic | `sim/traffic/sessions.py` | active sessions and carts (memory), a cached catalog | `tick`, session steps, checkout |
| back office | `sim/traffic/backoffice.py` | none | restock, price, discontinue, launch, contact, move, forget |
| clickstream producer | `sim/producers/clickstream.py` | the producer's queue, a failure counter | `send`, `flush`, delivery callback |
| seed and main loop | `sim/seed.py`, `sim/main.py` | connection, running flag | first-boot seed, tick loop, shutdown |
| database schema | `services/db/migrations/V1__oltp_schema.sql` | unique, check and foreign key constraints, publication | - |
| change capture | `infra/kafka-connect/shop-connector.json` | replication slot, connector offsets | snapshot, stream (Debezium, external) |
| job submitter | `infra/job-submitter/submit_jobs.py` | ids of the submitted jobs | wait, submit, monitor |
| reprocessing | `scripts/reprocess.sh` | none | cancel jobs, truncate, resubmit |
| Flink helpers | `services/flink-jobs/src/common.py` | none | contract to DDL, environment |

How they interact: `main.py` runs, once a second and on one autocommit connection, a
storefront tick (checkouts call `place_order`), a back office tick and `advance_orders`.
All the components share only the database; every use case is one transaction with row
locks. The code is written for several such processes (its comments speak of concurrent
workers and concurrent checkouts, the tests use a second connection, and the compose
service can be scaled), although the compose file starts one.

### What is hard

- *Interleaving under READ COMMITTED*: every statement has its own snapshot, row locks
  are taken row by row, a recheck happens only when the row itself has a new version.
- *Stale reads*: a due predicate that reads another table than the one it locks; product
  status and price read without a lock; a catalog cached for thirty ticks; a customer
  picked in one transaction and used in the next.
- *Atomicity across use cases*: the last declined attempt and the cancellation; moving an
  address in two transactions; a checkout event sent before the order exists.
- *Crashes*: at any statement, with the server side of the connection rolled back.
- *Delivery*: events are queued, retried and given up by a library thread, and reported
  back only when the program polls; the process may stop or die before that.
- *Boot*: the look at the empty database and the seeding of it are separate.
- *Time*: stamps are transaction start times, the refund window closes.
- *Lock order*: checkouts lock inventory sorted by product, a cancellation does not.

### What makes each component correct

- lifecycle and use cases: only legal moves; at most one charge, numbered attempts, no
  order left without attempts; a parcel exactly for orders that left; stock conserved.
- workers: one transaction per order at a time; nothing stale acted upon; delays respected;
  every order ends; a crash leaves nothing behind.
- checkout: no order for an erased customer; never below zero stock; concurrent checkouts
  do not deadlock.
- customers: no personal data after erasure; exactly one primary address.
- storefront: the valid events of a session tell its cart, its customer and its order.
- producer: events of a session in order and once; no loss that the exit code hides.
- seed: one seed and never a second. Main loop: every boot and every stop ends. Job
  submitter: every job submitted is monitored.

## 2. Modules

| module | models | kind |
|---|---|---|
| `OrderState` | statuses and legal moves | constants |
| `OrderBook` | the order use cases as atomic steps on the tables | abstract specification |
| `OrderWorkers` | the workers statement by statement | detailed, implements `OrderBook` |
| `Checkout` | `place_order` and `cancel_order` lock by lock | detailed, implements `OrderBook` |
| `Privacy` | what is promised about personal data | abstract specification |
| `CustomerRecords` | customers and addresses under several back offices | detailed, implements `Privacy` |
| `Storefront` | visitor sessions, carts, events, the order at the end | specification |
| `Clickstream` | the producer of each process, the library behind it and the topic | component, with its actions and its property |
| `Simulator` | boot, seed, loop, stop and exit of the processes | composition with `Clickstream` |
| `MCOrderBook`, `MCOrderWorkers`, `MCCheckout`, `MCCustomerRecords`, `MCStorefront`, `MCSimulator` | small instances | for TLC |
| `OrderBookProofs`, `OrderWorkersProofs`, `CheckoutProofs`, `CustomerRecordsProofs`, `StorefrontProofs`, `SimulatorProofs` | theorems about the module of that name | for TLAPS |
| `FoldProofs` | lemmas about the folds of the community modules, for sums and replayed events | for TLAPS |

Definitions named `Name_Variant` next to `Name` are deliberate mutations: a property that
does not notice the variant in place of the original would say nothing. No specification
uses them.

### OrderBook

Variables are the tables: `status` (`orders.status`), `items` (`order_items`), `stock`
(`inventory.quantity`), `payments`, `shipment`; `supplied` is a history of what was ever
put on the shelf. One action per use case, each the whole transaction; a use case that
raises changes nothing and is not a step. `ExhaustPayments` is the worker's last declined
attempt with its cancellation. `CancelOrder` is `cancel_order`, of a paid order or of one
that is still unpaid, as the use case allows; that the program cancels an unpaid order only
after its last attempt is a property of the workers (`CancelledForCause`), not of the book.
Amounts, methods, carriers and tracking codes are left out: no decision depends on them.

### OrderWorkers

One iteration of `_drain` is the sequence `Begin`, `Scan`, (`Skip`)*, `Claim`, step,
`Commit`, or `Drained` when the scan is empty. What the code relies on in PostgreSQL is
written out: a snapshot per statement (`cand` is what `Scan` saw), `SKIP LOCKED` walking
the sorted rows one by one, the recheck of a row only if it has a newer version
(`Claimable`: every update of an orders row changes its status), invisibility of
uncommitted writes (`target`, `attempts`), locks freed at the end of the transaction
(`Finish`), also when the process dies (`Crash`). The restarted process polls from the
first stage. The actions `Checkout` and `BackofficeRestock` are the rest of the shop, as
atomic steps; their statements are the subject of the module `Checkout`.

Time is discrete. Timestamps are kept as ages capped at `AgeCap`, so the state space is
finite: `updated` is the age of `updated_at`, which is also the stamp of the current
status; `lastAttempt` that of `coalesce(max(payments.created_at), created_at)`; `txnAge`
that of `now()`. A transaction stays open at most `MaxTxnAge` ticks. The cap is so large
that no comparison can tell a capped age from the real one (`WorkersAssumption`).
The hash buckets are the constant sets `CancelPicks` and `RefundPicks`: a deterministic
function of the id. Random payment outcomes are nondeterministic.

### Checkout

A client is a connection that runs one transaction at a time: `place_order`
(`BeginPlace`, `LockCustomer`, then `StartLine` and `LockLine` per product,
`CommitPlace`) or `cancel_order` (`BeginCancel`, `StartRow` and `LockRow` per product,
`CommitCancel`). `want` is the row a statement waits for, `held` the inventory rows
locked, `seen` the product's status in the snapshot of the statement, which is taken
before the wait. A checkout takes its rows in the order of `sorted(items)`; the one
`UPDATE ... FROM order_items` of a cancellation takes them in whatever order its plan
gives. A cycle of waiting clients is broken by `DeadlockVictim`. A `DomainError` is
`GiveUp`: everything is rolled back and the visitor is gone. Back offices erase customers
(waiting for the `FOR SHARE` locks), restock (waiting for the row) and discontinue
products between any two statements. Product ids are naturals, because they are sorted.

### CustomerRecords and Privacy

Every use case on a customer is `LockCustomer` (wait, then read the status), `Update` (the
address rows that the statement's snapshot shows: `affected`) and a commit of its own.
`Pick` is a statement before that, so the picked customer may be gone by then.
A move is `CommitAdd` followed by a second transaction with its own lock and `CommitPrimary`;
`Crash` can fall between the two. The variables `customer`, `address` and `office` hold one
record per row and per process. `Suppress` is the `contextlib.suppress(DomainError)` of
`Backoffice.tick`. The fields `contact` and `personal` say only whether the personal columns hold
data or NULL. Only what the back office does with `update_customer_contact` is modelled (a
new phone number); a new e-mail would add a unique violation, which nothing calls for.

`Privacy` has one variable: data that is collected once, erased once, in one step, and
never comes back. The mapping (`Known`) reads both tables; a customer whose addresses kept
data after the erasure would be "partly held", which `Privacy` has no step to.

### Storefront

One process steps its sessions one after another; which one is next is left open. The only
point inside a step where the rest of the shop can come between is the one between
`begin_checkout` and `place_order`: the phase `ordering`. `log` is what the session has
handed to the producer: each event as `_event` made it, or as `_corrupt` left it, with an
unknown type or an instant in the far future (`Sent`, `Emit`). `catalog` is refreshed at
any moment (the code: every thirty ticks), `LoseMemory` is the end of the process, by a
crash or because there is no product on sale at a refresh; a new process starts with new
sessions. Which customer is picked, which product is added, whether the visitor converts:
all open. `Identify` lets `_random_customer` sign somebody up although there are customers:
its SELECT may have found nobody a moment before. Stock is the subject of `Checkout`; here
an order can always be refused. What becomes of an event after `send` is the subject of the
next two modules.

### Clickstream and Simulator

`Clickstream` keeps for every process the messages it has sent, each with its state, and
for every key (the session) the indices of its messages in the order of the log. `Send`
is `produce` followed by `poll(0)`; `Polled` serves every delivery report that waits, which
is where `_on_delivery` counts a failure (`failed` is the set of the messages counted).
`Pending` is what `flush` returns: messages in flight and reports not served. The library
and the broker are external: `Transmit`, `Ack` and `Expire` happen whenever the process
lives; a message may be given up although it was written. `Accepts` is what
`enable.idempotence` makes of retries. One more write after the process has died is the same
as one just before, so the model has none.

`Simulator` is `main.py`: `Connect` and `ConnectFails` (`_connect`), `CheckEmpty`, then
`InsertPart` for categories, products and customers and `CommitSeed` (`seed_if_empty`), the
loop, `Signal`, `EndTick`, `Flush`, `Exit` with the exit code as the place where the process
ends. The unique SKUs appear as `Waits` (for the transaction that has inserted them) and
`Collides` (they are committed). In a tick only the events matter, and the one gap inside a
tick that something can fall into: between the `begin_checkout` (possibly corrupted) and
the order. `Die` is a kill at any point or any exception that leaves `cli`: neither is
followed by a flush. An e-mail collision during the seed is a `Die` as well. The process
obeys a stop only between ticks. `MaxEvents` and `Ticks` are given per process.

## 3. Runs

| run | asks | instance |
|---|---|---|
| `book` | do the atomic use cases keep payments, parcels and stock consistent? | 3 orders, 2 products, carts with one and with two products, 2 attempts, stock for at most two carts until something is cancelled or restocked |
| `workers_two` | do two workers and a crash act on nothing stale, cancel only for cause, respect the delays, and implement `OrderBook`? | 2 workers, 2 orders (one picked for cancellation, one for refund), 2 attempts, batch of 1 |
| `workers_one` | is a declined payment retried only after its delay, and does every order get to an end, in the deployment of one process? | 1 worker, 2 orders, 3 attempts, scarce stock, 2 crashes, batch of 1, fairness |
| `workers_live` | does every order get to an end with two workers? | 2 workers, 1 order, 1 crash, batch of 2, fairness |
| `checkout` | do checkouts and cancellations implement `OrderBook`, without overselling, without deadlocks among checkouts, without orders of erased customers, and do they all end? | 2 connections, 2 orders, carts with both products and with two of one, 2 units of each and one restock, 1 customer, 2 crashes, fairness |
| `records` | is erasure complete and final, is there always one primary address, does every action end? | 2 back offices, 2 customers, 4 addresses, 1 crash, fairness |
| `storefront` | what do a session's events tell of its cart, its customer and its order, also when one of them is corrupted, and can it always go on? | 1 session of 3 steps, units of one, 2 products, 2 customers, 1 corrupted event, 1 crash |
| `simulator` | is the database seeded once, is nothing lost behind an exit code of 0, do events keep their order, do boots and stops end? | 2 processes booting on an empty database, 2 attempts to connect, one sends 3 events of a session and runs until stopped, the other runs 2 ticks; any number of deaths; fairness |
| `early_retry` | is a declined payment retried only after its delay, with two workers? **No** | 2 workers, 1 order |
| `missed_refund` | is every picked order refunded? **No** | 1 fair worker, 1 order, a window of four ticks |
| `six_lines` | does an order have one to five lines? **No** | 1 session of 6 steps, 6 products |
| `uncounted_order` | is the checkout of every order in the topic, when nothing was lost? **No** | as `simulator` |

The bounds. Two workers and two orders are the smallest instance where a worker can be
overtaken on one order and go on to another; a third worker adds no kind of step, because
workers meet only through the lock and the version of one row. Two attempts have a
first, a non-last and a last declined attempt. A batch of one is exhausted, a batch of two
can also end by an empty scan. Transactions one tick old are enough for stamps to be older
than commits, in either order. Delays are 0 or 1 tick, so that the strict comparison
matters on both sides.

Two connections and two products can form a cycle of a checkout and a cancellation, or of
two checkouts if the order of the locks allowed it; longer cycles need more products, and
the theorems cover any number of both. Two back offices on one customer show every overlap
of two transactions, the third would wait behind them; four addresses let both move at
once. A session of three steps can add, remove and add again; sessions of one process share
nothing but the thread, so a second one adds no step between two of the first that the
environment does not have. Two products let one of a cart be discontinued. One corrupted
event (`MaxCorrupt`) hides one of two lines or the checkout; that two hide two is in the
theorems. Two orders and a batch of one make the orders of `workers_one` compete for it;
the same with two workers, two orders and a crash is beyond what TLC does in minutes, so in
`workers_live` the two workers compete for one order. Two processes are the smallest number
that can race for the empty database and take over from each other; after the boot they
share nothing but the broker, and no session, so only one of them sends. Three messages of
a key can be written, given up and repeated around each other. The constants `MaxSupply`,
`MaxCrashes`, `MaxCorrupt`, `MaxEvents`, `Changing` and the finite sets of ids are the only
bounds on behaviour; one customer is always left to identify in `Storefront`, since the
code never runs out of new identities.

Fairness. *Workers*: the main loop polls for ever and SKIP LOCKED never waits, so every
worker keeps taking steps, and time passes. *Checkout, CustomerRecords*: a client that has
begun goes on (weak fairness); a statement that waits for a row lock gets it in the end
although the row is locked and freed over and over (strong fairness: PostgreSQL queues the
waiters of a row); the deadlock detector runs. *Storefront*: none is assumed;
`SessionsGoOn` says that a step is possible, and the ticks of the code take it.
*Simulator*: a process that is not killed goes on with its boot, its tick, its checkout and
its exit; the library's `flush` returns at its timeout; nothing is asked of the broker, the
visitors or Postgres. That a tick goes on includes that `send` returns: the schema
registry, which the first one asks, is taken to answer or to fail. Crashes are bounded and
never forced, and nobody is obliged to order, erase or restock. After a crash the models
let the process go on with new work, as a restarted one does; the compose file has no
restart policy for the simulator, so restarting is up to the operator. A deadlock victim's
error is no `DomainError`: its process ends as well.

`CHECK_DEADLOCK FALSE` is said only where everything may have happened that the bounds
allow (`book`: all orders ended and the supply used up; `simulator`: all processes ended).

### What the violations show

`early_retry`. Worker A declines an order and commits. Worker B took its snapshot before
that commit and reaches the row after it. The row was locked but not updated by A
(`fail_payment` inserts a payment and leaves the orders row alone), so PostgreSQL has no
newer version to recheck, the due predicate's subquery on `payments` is not evaluated
again, and B charges the order a second time without any delay. The docstring of
`workers/progress.py` says that claims keep concurrent workers from double-processing.
With one worker the property holds (`workers_one`). Attempt numbers and the limit on
attempts are not affected, they are counted under the lock (`workers_two`, theorem
`WorkersKeepPayments`; `CancelledForCause`: never one attempt too many or too few), nor is
the wait of the first attempt (`FirstAttemptsAlwaysWait`).

`missed_refund`. A picked order is refunded only if some poll of the delivered stage
happens while the delivery is between `refund_after_days` and `refund_window_days` old.
The docstring says that the decision does not depend on polling. The window itself is
intended (`tests/simulator/test_workers.py:90`); the disagreement is with the docstring.

`six_lines`. The feature's specification gives an order one to five lines. A session has up
to twelve steps, adds at most one product in each, and neither the session nor
`place_order` limits the lines.

`uncounted_order`. A process emits a corrupted `begin_checkout` (`invalid_event_rate`), places
the order, delivers everything and exits with 0: silver quarantines the event, so the funnel
has an order without a checkout. The specification associates each order with its checkout
and expects no more orders than checkouts. The property leaves out every other reason (a
death, a failed delivery), which the exit code reports.

## 4. Proofs

Every invariant and action property of a passing run but `SessionsGoOn`, and every
refinement, is a theorem: the runs show it on a small instance, the theorem for every value
of the constants. The theorems assume what the modules assume of their constants, by name:
bounds and quantities are naturals (`BookAssumption`, `ClickstreamAssumption`,
`SimulatorAssumption`), names of nothing are not ids (`WorkersAssumption`,
`CheckoutAssumption`, `RecordsAssumption`, `StorefrontAssumption`), the age cap is beyond
every delay, and the scans and carts range over finitely many orders and products where the
code's tables are finite as well. Numbers of orders, products, customers, sessions,
processes, workers, attempts and crashes are arbitrary. Only `LoneWorkerRetriesWait` has a
hypothesis of its own: that there is one worker, since with two the property is false
(`early_retry`).

`OrderBookProofs`: `BookTypeOK`, `PaymentsMatchStatus` and `ShipmentsMatchStatus` are
inductive together; one lemma per conjunct (`BookTypeStep`, `PaymentsStep`,
`ShipmentsStep`). They hold for cancellations of unpaid and of paid orders alike.
`PaymentsMatchStatus` is stated strongly enough to be inductive: that an order in `created`
has no approved attempt and attempts left is what makes the next attempt legal.
`StockConserved` (`StockAlwaysConserved`) is inductive with the types once it is known that
finitely many orders are live (`StockInv`); `OrderEnters` and `OrderLeaves` say what one
order changes in the sum over all of them, and every use case is one of the two or moves an
order among the live ones (`LiveKept`).

`FoldProofs` has what these proofs need of the folds of the community modules. The
library's induction theorems cannot be used with the installed provers, so the induction
is on sets: the family of the subsets on which a claim fails has a smallest member
(`SmallestSet`, from the well-foundedness of strict inclusion), and a smallest
counterexample is refuted. In this way a sum over a finite set is shown to exist, to be a
natural, to split off any element (`SumSplit`) and to depend only on its summands
(`SumSame`).

`OrderWorkersProofs`: the invariant is `TypeOK /\ ClaimsExclusive /\ ClaimsStayValid`
(`ClaimsExclusive` is what `Claim` establishes and the others' steps need).
`ClaimsStayValid` says what a worker holds uncommitted at each point of its transaction;
it is preserved by the others' steps because a commit writes only the committing worker's
order (`OthersStep`, from `ClaimsExclusive`). From the invariant, each commit is one
action of `OrderBook` (`CommitImplementsBook`), every other step leaves the tables alone,
so the workers implement `OrderBook` (`WorkersImplementBook`) and its theorems carry over
(`WorkersKeepPayments`, `WorkersKeepStock`). The book allows more cancellations than the
workers make, so `CancelledForCause` (`WorkersCancelForCause`) is proved of the workers
themselves: it looks at one order's row and payments, both of which only the commit of its
claimant changes (`CauseStep`). Type correctness of the tables under the
workers uses the same refinement.

For the delays this invariant is strengthened by `SelectionsHold`: an order that a
transaction has selected, by its scan or by its claim, and that is still in the stage, is
still due. The recheck of a claim looks at the status alone, and that is enough only
because no order ever comes back to a status it has left: every move leads to a higher
`Rank`, so an order that others moved in the meantime cannot pass for one that stayed. A
tick ages the stamps and the transaction alike; a stamp that has reached the cap stays
beyond every delay, and none has while the refund window is open (`SelectionAges`). A
commit therefore stamps an order that has dwelled (`StampsAlwaysRespectDelays`). The same
invariant says what is left of the wait between payment attempts, which depends on a table
that is not rechecked: it is kept while there is one worker (`LoneWorkerRetriesWait`), and by
the first attempt on an order also among many (`FirstAttemptsAlwaysWait`).

`CheckoutProofs`: the invariant is `TypeOK /\ ReservationsHold /\ TransactionsStayValid`.
`TransactionsStayValid` says what each transaction knows at each point; it is inductive
because the rows it knows about are locked, `ReservationsHold` because `RowFree` makes
the locks exclusive. From the invariant follow the refinement of `OrderBook`
(`CheckoutImplementsBook`), that an erased customer orders nothing
(`ErasedCustomersOrderNothing`: the customer of a transaction in `lines` is active), that
stock is conserved (`CheckoutKeepsStock`, through the refinement), and that
checkouts alone never deadlock (`CheckoutsAreDeadlockFree`): of a cycle of checkouts, take
the member that waits for the largest product; whoever holds that product waits as well, and
only ever for a product larger than all it holds - a contradiction. The cycle may have
any number of members.

`CustomerRecordsProofs`: the invariant is `RecordsInv`. It says what a back office knows at
each point of its action (`JobValid`): under the lock the customer stays registered, and
the rows its update has found are still the rows it is about (`affected`), because rows of
a customer are added and changed only under the same lock (`LocksExclusive`) and no two
offices are about to add the same row (`AddsExclusive`). Erasure then blanks every row
(`ErasureAlwaysComplete`), and moving the primary flag keeps exactly one
(`AlwaysOnePrimaryAddress`). For the refinement (`RecordsImplementPrivacy`) every step
changes what is known of one customer as `Privacy` allows or leaves it alone.

`StorefrontProofs`: the invariant is `StoreInv`, with `SessionInv` for each session: its log
names one customer from the first event that names any (`StitchedLog`); its cart is, line
by line, what the valid events of the log replay to, for every line of which no event was
corrupted (`Tells`); while it orders, its last event announces its cart (`Announces`); and
an order is what was announced. The catalog only ever knows products that exist
(`CatalogKnown`). A corrupted event differs from the one it stands for in type and
time only (`SentRows`): it adds nothing to the replay and takes its product out of what is
told. That a replayed log grows by one event as the cart does (`ReplayOneMore`) is an
induction over the log, again by a smallest counterexample; it
makes `CartAlwaysMatchesEvents` hold for logs of any length.

`SimulatorProofs` has three invariants. `SeedInv`: only an open seed has inserted anything, at
most one has come to the SKUs, and only while none are committed - so a commit finds no
seed, and `SeededOnce` follows (`SeededAtMostOnce`). `EventInv`, over `Consistent`: a session
is of one process; the topic holds, in order, messages that have left the queue, among them
every one that counts as written; and none in the topic was sent behind one of its session
that is still queued. The last is what makes the next accepted message the latest of its
session. `Consistent` is a predicate of any messages and topic, so that `Send`, which hands
over a message and serves reports in one step, is proved as two changes (`NewMessage`, then
`NewStates`). From it follow `SessionsAlwaysKeepOrder` and, as a process that has exited
with 0 has every message delivered, `CleanExitsLoseNothing`.

`LoopInv` adds that a process still in the loop has ticks left; with the other two it
gives `SimulatorTypeCorrect`: no process does more ticks than `--ticks` says or tries to
connect more often than it may.

Only model-checked: the liveness properties (`OrdersSettle`, `CheckoutsEnd`, `JobsEnd`,
`BootsEnd`, `StopsOnRequest`), whose proofs need fairness and `ENABLED`, which are out of
the prover's reach; `SessionsGoOn`, for its `ENABLED`; and the four violations, which are
counterexamples.

## 5. Plan and what is left out

Done: the order book, the workers, the checkout, the customers, the storefront, the producer
and the life of a process, and the proofs of all their safety properties. Next, in order of
importance:

1. The safety half of the liveness properties: that in every state of the invariants some
   step of the actor is possible where the property needs one (no state is a dead end).
2. Properties for the hazards that have none: restocking by two back offices, a restart with
   a fixed seed.
3. `JobSubmitter` and `Reprocess` once the list of jobs is not empty.

Not modelled: price changes and categories (no decision depends on them); a restart with a
fixed `--seed`, which draws the ids of an earlier run again (the option is for single
reproducible runs, the compose file does not set it); the job submitter (`JOBS` is an empty
literal in this version, so submission and monitoring are unreachable); `reprocess.sh`, the
health check and the demos (straight lines of shell commands without state; the tables that
`reprocess.sh` truncates are partly from an earlier schema); `common.py` (string building
without state, and no job uses it); Debezium (external, only its configuration is here); the
compose file, the diagrams and documents; the silver and gold layers, Doris and Cube, which
exist only in documents so far.
