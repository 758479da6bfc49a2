----------------------------- MODULE Simulator -----------------------------
(***************************************************************************)
(* The life of simulator processes (main.py, seed.py): connect, seed an    *)
(* empty database, tick until told to stop, flush, exit.  Composed with    *)
(* the producer of Clickstream, through which a session announces, by its  *)
(* begin_checkout, the order it then places.                               *)
(*                                                                         *)
(* Which sessions step in a tick and how many events a step emits is left  *)
(* open (Storefront has it); of the other work of a tick only its end      *)
(* matters here, or the exception that ends the process.                   *)
(***************************************************************************)
EXTENDS Clickstream

CONSTANTS
  Retries,   \* attempts to connect; 30 in the code
  Ticks      \* the option --ticks of each process; 0: no end

ASSUME SimulatorAssumption == Retries \in Nat \ {0} /\ Ticks \in [Processes -> Nat]

VARIABLES
  rows,      \* committed copies of each part of the seed
  pc,        \* where a process is, or how it ended
  attempt,   \* of _connect, while it runs
  inserted,  \* parts of the seed inserted by the open transaction
  running,   \* cleared by SIGTERM and SIGINT
  tick,
  phase,     \* of a session: browsing, ordering: between event and order, over
  ordered    \* sessions with a row in orders

boot == <<rows, attempt, inserted>>
shop == <<phase, ordered>>
vars == <<delivery, boot, pc, running, tick, shop>>

Seed == <<"categories", "products", "customers">>

Booting == {"connecting", "checking", "seeding"}
Alive == Booting \cup {"ticking", "flushing"}
Over == {"exit 0", "exit 1", "dead"}

TypeOK ==
  /\ DeliveryTypeOK
  /\ rows \in [ToSet(Seed) -> Nat]
  /\ pc \in [Processes -> Alive \cup Over]
  /\ attempt \in [Processes -> 1 .. Retries]
  /\ inserted \in [Processes -> 0 .. Len(Seed)]
  /\ running \in [Processes -> BOOLEAN]
  /\ tick \in [Processes -> Nat] /\ \A p \in Processes : tick[p] \in 0 .. Ticks[p]
  /\ phase \in [Sessions -> {"browsing", "ordering", "over"}]
  /\ ordered \subseteq Sessions

Init ==
  /\ DeliveryInit
  /\ rows = [part \in ToSet(Seed) |-> 0]
  /\ pc = [p \in Processes |-> "connecting"]
  /\ attempt = [p \in Processes |-> 1]
  /\ inserted = [p \in Processes |-> 0]
  /\ running = [p \in Processes |-> TRUE]
  /\ tick = [p \in Processes |-> 0]
  /\ phase = [s \in Sessions |-> "browsing"]
  /\ ordered = {}

Goto(p, there) == pc' = [pc EXCEPT ![p] = there]

-----------------------------------------------------------------------------
(* Boot.                                                                   *)

Connect(p) ==
  /\ pc[p] = "connecting" /\ Goto(p, "checking")
  /\ attempt' = [attempt EXCEPT ![p] = 1]
  /\ UNCHANGED <<delivery, rows, inserted, running, tick, shop>>

LastAttempt_Never(p) == FALSE
LastAttempt(p) == attempt[p] = Retries

\* Postgres does not answer: try again in two seconds, or give up.
ConnectFails(p) ==
  /\ pc[p] = "connecting"
  /\ IF LastAttempt(p) THEN Goto(p, "dead") /\ UNCHANGED attempt
     ELSE UNCHANGED pc /\ attempt' = [attempt EXCEPT ![p] = @ + 1]
  /\ UNCHANGED <<delivery, rows, inserted, running, tick, shop>>

\* The SELECT EXISTS of seed_if_empty, a statement of its own.
CheckEmpty(p) ==
  /\ pc[p] = "checking"
  /\ Goto(p, IF rows["categories"] > 0 THEN "ticking" ELSE "seeding")
  /\ UNCHANGED <<delivery, boot, running, tick, shop>>

Rollback_LeftOpen(p) == UNCHANGED inserted
Rollback(p) == inserted' = [inserted EXCEPT ![p] = 0]

\* sku is UNIQUE and every seed has the same SKUs, while no constraint keeps two
\* sets of categories apart (a root has no parent).
Collides_Never(p, part) == FALSE
Collides(p, part) == part = "products" /\ rows["products"] > 0

\* An insert waits for the transaction that has inserted the same SKU.
Waits(p, part) == part = "products" /\ \E q \in Processes \ {p} : inserted[q] >= 2

InsertPart(p) ==
  /\ pc[p] = "seeding" /\ inserted[p] < Len(Seed)
  /\ LET part == Seed[inserted[p] + 1] IN
       /\ ~Waits(p, part)
       /\ IF Collides(p, part) THEN Goto(p, "dead") /\ Rollback(p)
          ELSE UNCHANGED pc /\ inserted' = [inserted EXCEPT ![p] = @ + 1]
  /\ UNCHANGED <<delivery, rows, attempt, running, tick, shop>>

CommitSeed(p) ==
  /\ pc[p] = "seeding" /\ inserted[p] = Len(Seed)
  /\ rows' = [part \in DOMAIN rows |-> rows[part] + 1]
  /\ Rollback(p) /\ Goto(p, "ticking")
  /\ UNCHANGED <<delivery, attempt, running, tick, shop>>

Boot(p) == Connect(p) \/ ConnectFails(p) \/ CheckEmpty(p) \/ InsertPart(p) \/ CommitSeed(p)

-----------------------------------------------------------------------------
(* The loop.                                                               *)

\* No checkout of the process is under way.
Ordering(p, s) == phase[s] = "ordering" /\ Owns(p, s)
Free(p) == pc[p] = "ticking" /\ \A s \in Sessions : ~Ordering(p, s)

Browse(p, s) ==
  /\ Free(p) /\ phase[s] = "browsing" /\ Send(p, s, "browse")
  /\ UNCHANGED <<boot, pc, running, tick, shop>>

\* invalid_event_rate: the event may be corrupted before it is sent, as any may.
BeginCheckout(p, s) ==
  /\ Free(p) /\ phase[s] = "browsing"
  /\ \E kind \in {"begin_checkout", "corrupt"} : Send(p, s, kind)
  /\ phase' = [phase EXCEPT ![s] = "ordering"]
  /\ UNCHANGED <<boot, pc, running, tick, ordered>>

\* place_order commits, or the visitor abandons or is refused.
EndCheckout(p, s) ==
  /\ pc[p] = "ticking" /\ Ordering(p, s)
  /\ phase' = [phase EXCEPT ![s] = "over"]
  /\ ordered' \in {ordered, ordered \cup {s}}
  /\ UNCHANGED <<delivery, boot, pc, running, tick>>

\* running is looked at between ticks only.
EndTick(p) ==
  /\ Free(p)
  /\ LET n == IF Ticks[p] = 0 THEN 0 ELSE tick[p] + 1 IN
       /\ tick' = [tick EXCEPT ![p] = n]
       /\ IF running[p] /\ (Ticks[p] = 0 \/ n < Ticks[p]) THEN UNCHANGED pc ELSE Goto(p, "flushing")
  /\ UNCHANGED <<delivery, boot, running, shop>>

\* _stop; before its handlers are installed a signal kills.
Signal(p) ==
  /\ pc[p] = "ticking" /\ running[p]
  /\ running' = [running EXCEPT ![p] = FALSE]
  /\ UNCHANGED <<delivery, boot, pc, tick, shop>>

-----------------------------------------------------------------------------
(* The end.                                                                *)

Flush(p) ==
  /\ pc[p] = "flushing" /\ Serve(p)
  /\ UNCHANGED <<boot, pc, running, tick, shop>>

\* flush returns at its timeout of ten seconds at the latest.
FlushReturns_Empty(p) == Pending(p) = {}
FlushReturns(p) == TRUE

AllDelivered_NoneFailed(p) == failed(p) = {}
AllDelivered(p) == failed(p) = {} /\ Pending(p) = {}

Exit(p) ==
  /\ pc[p] = "flushing" /\ FlushReturns(p)
  /\ Goto(p, IF AllDelivered(p) THEN "exit 0" ELSE "exit 1")
  /\ UNCHANGED <<delivery, boot, running, tick, shop>>

\* Killed, or ended by an exception: of the connection, of the producer's full queue,
\* of a use case.  The transaction is rolled back; nothing is flushed.
Die(p) ==
  /\ pc[p] \in Alive
  /\ Goto(p, "dead") /\ Rollback(p)
  /\ UNCHANGED <<delivery, rows, attempt, running, tick, shop>>

\* The library's thread works while the process lives; what was on the wire by then
\* counts as written before.
Deliver(p, i) ==
  /\ pc[p] \in Alive
  /\ Transmit(p, i) \/ Ack(p, i) \/ Expire(p, i)
  /\ UNCHANGED <<boot, pc, running, tick, shop>>

Proceed(p) == Boot(p) \/ EndTick(p) \/ Exit(p) \/ \E s \in Sessions : EndCheckout(p, s)

Next ==
  \E p \in Processes :
    \/ Proceed(p) \/ Signal(p) \/ Flush(p) \/ Die(p)
    \/ \E s \in Sessions : Browse(p, s) \/ BeginCheckout(p, s)
    \/ \E i \in DOMAIN messages[p] : Deliver(p, i)

Spec == Init /\ [][Next]_vars

\* A process that is not killed goes on; nothing is asked of visitors or the broker.
FairSpec == Spec /\ \A p \in Processes : WF_vars(Proceed(p))

-----------------------------------------------------------------------------
(* Properties.                                                             *)

\* However many processes boot on the empty database, and die while they do, one of them
\* seeds it, no second one does, and no process works without the seed.  That the three
\* parts come together is the one transaction of CommitSeed.
\* (seed.py: seed_if_empty)
SeededOnce ==
  /\ \E n \in {0, 1} : rows = [part \in ToSet(Seed) |-> n]
  /\ \A p \in Processes : pc[p] \in {"ticking", "flushing", "exit 0", "exit 1"} => rows["categories"] = 1

\* A process that exits with 0 has got every event it ever emitted into the topic.
\* (main.py: "anything left is lost clickstream, so fail loudly")
CleanExitMeansDelivered ==
  \A p \in Processes : pc[p] = "exit 0" => \A i \in DOMAIN messages[p] : InTopic(p, i)

\* Every boot ends, in the loop or in death, also when another process holds the SKUs.
\* (main.py: _connect; seed.py)
BootsEnd ==
  \A p \in Processes : pc[p] \in Booting ~> pc[p] \notin Booting

\* A stop request is obeyed also when the broker takes and acknowledges nothing more: the
\* flush gives up.  That send returns is assumed: the first one asks the schema registry.
\* (main.py: _stop, flush)
StopsOnRequest ==
  \A p \in Processes : ~running[p] ~> pc[p] \in Over

\* An order has its checkout in the topic: here of a process that reported no loss.
\* (spec.md, funnel_1m)
OrdersHaveTheirCheckout ==
  \A p \in Processes : pc[p] = "exit 0" =>
    \A i \in DOMAIN messages[p] :
      messages[p][i].session \in ordered =>
        \E j \in DOMAIN messages[p] :
          /\ messages[p][j].session = messages[p][i].session
          /\ messages[p][j].kind = "begin_checkout" /\ InTopic(p, j)
=============================================================================
