----------------------------- MODULE Storefront -----------------------------
(***************************************************************************)
(* Visitor sessions (traffic/sessions.py): carts, the events they emit and *)
(* the order at the end.  One process advances its sessions one step each  *)
(* per tick; sessions and the cached catalog live in its memory and are    *)
(* gone when it dies.  Back offices erase customers, launch and            *)
(* discontinue products at any moment, also in the middle of a checkout.   *)
(*                                                                         *)
(* Which session steps next is left open, except that nothing else happens *)
(* in the process between begin_checkout and place_order.  Stock is left   *)
(* out: any order may find too little of it.                               *)
(***************************************************************************)
EXTENDS Integers, Sequences, FiniteSets, SequencesExt

CONSTANTS
  Sessions, Products, Customers,
  StepCounts,    \* steps_left of a new session; the code draws from 3 .. 12
  Quantities,    \* units added at once; the code draws from 1 .. 3
  NoCustomer, NoProduct,
  Changing,      \* bound: products that are launched or discontinued
  MaxCorrupt,    \* bound: corrupted events of one session; the code draws for each event
  MaxCrashes     \* bound: processes killed

ASSUME StorefrontAssumption ==
  /\ StepCounts \subseteq 3 .. 12 /\ Quantities \subseteq 1 .. 3
  /\ NoCustomer \notin Customers /\ NoProduct \notin Products
  /\ Changing \subseteq Products /\ MaxCorrupt \in Nat /\ MaxCrashes \in Nat

VARIABLES
  customer,  \* customers.status; "none" while not registered
  product,   \* products.status; "none" while not launched
  ordered,   \* the orders row with this session_id: buyer and items
  catalog,   \* _products: the products on sale at the last refresh
  session,   \* in the memory of the process: customer_id, steps_left, will_checkout, cart
  log,       \* events handed to the producer, in order
  crashes

shop == <<customer, product>>
vars == <<shop, ordered, catalog, session, log, crashes>>

EmptyCart == [p \in Products |-> 0]
NoOrder == [buyer |-> NoCustomer, items |-> EmptyCart]
Lines(items) == {p \in Products : items[p] > 0}
Units(items) == FoldLeft(LAMBDA n, p : n + items[p], 0, SetToSeq(Products))

\* An event; "priced" are the products in the cart_value of begin_checkout.  The product
\* of a page_view is left out.
Event(type, p, q, k, priced) ==
  [type |-> type, ts |-> "now", product |-> p, units |-> q, customer |-> k, priced |-> priced]

\* _corrupt with invalid_event_rate: no such type, or an instant in the far future.
Outcomes == {"intact", "type", "time"}
Corrupt(e, outcome) ==
  CASE outcome = "type" -> [e EXCEPT !.type = "unknown_event"]
    [] outcome = "time" -> [e EXCEPT !.ts = "far_future"]
    [] OTHER -> e
Sent(e) == {Corrupt(e, outcome) : outcome \in Outcomes}

\* What silver quarantines instead of counting it.
Valid(e) == e.type # "unknown_event" /\ e.ts = "now"
Corrupted(events) == {i \in DOMAIN events : ~Valid(events[i])}

Orders == [buyer : Customers \cup {NoCustomer}, items : [Products -> Nat]]

\* Phases: new, browsing, ordering: between event and order, done, lost.
NewSession == [phase |-> "new", who |-> NoCustomer, left |-> 0, buys |-> FALSE, cart |-> EmptyCart]
Lost == [NewSession EXCEPT !.phase = "lost"]

TypeOK ==
  /\ customer \in [Customers -> {"none", "active", "deleted"}]
  /\ product \in [Products -> {"none", "active", "discontinued"}]
  /\ ordered \in [Sessions -> Orders]
  /\ catalog \subseteq Products
  /\ session \in [Sessions ->
       [phase : {"new", "browsing", "ordering", "done", "lost"}, who : Customers \cup {NoCustomer},
        left : 0 .. 12, buys : BOOLEAN, cart : [Products -> Nat]]]
  /\ crashes \in 0 .. MaxCrashes

Init ==
  /\ customer \in [Customers -> {"none", "active"}]
  /\ product \in [Products -> {"none", "active"}]
  /\ \E p \in Products : product[p] = "active"
  /\ \A p \in Products \ Changing : product[p] = "active"
  /\ ordered = [s \in Sessions |-> NoOrder]
  /\ catalog = {}
  /\ session = [s \in Sessions |-> NewSession]
  /\ log = [s \in Sessions |-> <<>>]
  /\ crashes = 0

-----------------------------------------------------------------------------
OnSale == {p \in Products : product[p] = "active"}

In(s, phase) == session[s].phase = phase
Open(s) == In(s, "browsing") \/ In(s, "ordering")

\* No checkout of this process is under way.
Free == \A s \in Sessions : ~In(s, "ordering")

\* The sessions under way are gone; their events and orders remain.
LoseMemory ==
  /\ catalog' = {}
  /\ session' = [s \in Sessions |-> IF Open(s) THEN Lost ELSE session[s]]
  /\ UNCHANGED <<shop, ordered, log>>

\* _refresh_catalog; without any product on sale it ends the process.
Refresh ==
  /\ Free
  /\ \/ OnSale # {} /\ catalog' = OnSale /\ UNCHANGED <<shop, ordered, session, log>>
     \/ OnSale = {} /\ LoseMemory
  /\ UNCHANGED crashes

\* A log-in, or a sign-up, which _random_customer falls back to when it finds nobody.
Identify(k) ==
  \/ customer[k] = "active" /\ UNCHANGED customer
  \/ customer[k] = "none" /\ customer' = [customer EXCEPT ![k] = "active"]

Start(s) ==
  /\ Free /\ In(s, "new") /\ catalog # {}
  /\ \E k \in Customers \cup {NoCustomer}, n \in StepCounts, b \in BOOLEAN :
       /\ IF k = NoCustomer THEN UNCHANGED customer ELSE Identify(k)
       /\ session' = [session EXCEPT ![s] =
            [NewSession EXCEPT !.phase = "browsing", !.who = k, !.left = n, !.buys = b]]
  /\ UNCHANGED <<product, ordered, catalog, log, crashes>>

\* The producer is given every event as it is, or corrupted.
Sendings(events) ==
  {[i \in DOMAIN events |-> Corrupt(events[i], outcome[i])] : outcome \in [DOMAIN events -> Outcomes]}

Emit(s, events) ==
  \E sent \in Sendings(events) :
    /\ log' = [log EXCEPT ![s] = @ \o sent]
    /\ Cardinality(Corrupted(log'[s])) <= MaxCorrupt

\* One step of _browse, which leaves the session with this cart.
Browsing_NoGuard(s) == Free /\ In(s, "browsing")
Browsing(s) == Free /\ In(s, "browsing") /\ session[s].left > 0

BrowseStep(s, cart) ==
  /\ Browsing(s)
  /\ session' = [session EXCEPT ![s].left = @ - 1, ![s].cart = cart]
  /\ UNCHANGED <<shop, ordered, catalog, crashes>>

PageView(s) == Event("page_view", NoProduct, 0, session[s].who, {})

WithAdded_Replaced(items, p, q) == [items EXCEPT ![p] = q]
WithAdded(items, p, q) == [items EXCEPT ![p] = @ + q]
AddEvent(s, p, q) == Event("add_to_cart", p, q, session[s].who, {})

View(s) == BrowseStep(s, session[s].cart) /\ Emit(s, <<PageView(s)>>)

ViewAndAdd(s) ==
  \E p \in catalog, q \in Quantities :
    BrowseStep(s, WithAdded(session[s].cart, p, q)) /\ Emit(s, <<PageView(s), AddEvent(s, p, q)>>)

\* remove_from_cart always takes the whole line.
RemoveLine(s) ==
  \E p \in Lines(session[s].cart) :
    /\ BrowseStep(s, [session[s].cart EXCEPT ![p] = 0])
    /\ Emit(s, <<Event("remove_from_cart", p, session[s].cart[p], session[s].who, {})>>)

EndSession(s) == session' = [session EXCEPT ![s].phase = "done"]

Leave(s) ==
  /\ Free /\ In(s, "browsing") /\ session[s].left = 0 /\ ~session[s].buys
  /\ EndSession(s)
  /\ UNCHANGED <<shop, ordered, catalog, log, crashes>>

\* What the cart is filled with before the checkout, as the add_to_cart events of it.
LastMinute(s) ==
  IF Lines(session[s].cart) # {} THEN {<<>>}
  ELSE {<<AddEvent(s, p, q)>> : p \in catalog, q \in Quantities}

Filled(items, adds) == FoldLeft(LAMBDA c, e : WithAdded(c, e.product, e.units), items, adds)

\* Who checks out: the stitching point of an anonymous session.
Buyers_Anyone(s) == Customers
Buyers(s) == IF session[s].who = NoCustomer THEN Customers ELSE {session[s].who}

CheckoutEvent_Early(s, k, items) ==
  Event("begin_checkout", NoProduct, Units(session[s].cart), k, Lines(items) \cap catalog)
CheckoutEvent(s, k, items) ==
  Event("begin_checkout", NoProduct, Units(items), k, Lines(items) \cap catalog)

\* The first half of _checkout, up to the event.
BeginCheckout(s) ==
  /\ Free /\ In(s, "browsing") /\ session[s].left = 0 /\ session[s].buys
  /\ \E k \in Buyers(s), adds \in LastMinute(s) :
       LET items == Filled(session[s].cart, adds) IN
       /\ IF k = session[s].who THEN UNCHANGED customer ELSE Identify(k)
       /\ session' = [session EXCEPT ![s].phase = "ordering", ![s].who = k, ![s].cart = items]
       /\ Emit(s, Append(adds, CheckoutEvent(s, k, items)))
  /\ UNCHANGED <<product, ordered, catalog, crashes>>

\* place_order, for everything but stock: the customer is active, the products on sale.
Accepted_AnyProduct(s) == customer[session[s].who] = "active"
Accepted(s) == customer[session[s].who] = "active" /\ Lines(session[s].cart) \subseteq OnSale

PlaceOrder(s) ==
  /\ In(s, "ordering") /\ Accepted(s)
  /\ ordered' = [ordered EXCEPT ![s] = [buyer |-> session[s].who, items |-> session[s].cart]]
  /\ EndSession(s)
  /\ UNCHANGED <<shop, catalog, log, crashes>>

\* The visitor abandons the checkout, or place_order raises a DomainError.
AfterRefusal_Retry(s) == UNCHANGED session
AfterRefusal(s) == EndSession(s)

GiveUp(s) ==
  /\ In(s, "ordering") /\ AfterRefusal(s)
  /\ UNCHANGED <<shop, ordered, catalog, log, crashes>>

\* The process dies, also between the event and the order; a new one starts afresh.
Crash ==
  /\ crashes < MaxCrashes
  /\ LoseMemory
  /\ crashes' = crashes + 1

-----------------------------------------------------------------------------
(* The back offices.                                                       *)

Meanwhile == UNCHANGED <<ordered, catalog, session, log, crashes>>

\* Somebody who can identify is always left: the code never runs out of identities.
Forget(k) ==
  /\ customer[k] = "active" /\ \E j \in Customers \ {k} : customer[j] # "deleted"
  /\ customer' = [customer EXCEPT ![k] = "deleted"]
  /\ Meanwhile /\ UNCHANGED product

Launch(p) ==
  /\ product[p] = "none" /\ product' = [product EXCEPT ![p] = "active"]
  /\ Meanwhile /\ UNCHANGED customer

Discontinue(p) ==
  /\ product[p] = "active" /\ product' = [product EXCEPT ![p] = "discontinued"]
  /\ Meanwhile /\ UNCHANGED customer

Browse(s) == View(s) \/ ViewAndAdd(s) \/ RemoveLine(s)
Step(s) == Browse(s) \/ Leave(s) \/ BeginCheckout(s) \/ PlaceOrder(s) \/ GiveUp(s)

Next ==
  \/ Refresh \/ Crash
  \/ \E s \in Sessions : Start(s) \/ Step(s)
  \/ \E k \in Customers : Forget(k)
  \/ \E p \in Changing : Launch(p) \/ Discontinue(p)

Spec == Init /\ [][Next]_vars

-----------------------------------------------------------------------------
(* Properties.                                                             *)

\* The cart that a consumer computes from the valid events; without its add_to_cart a
\* remove_from_cart takes it below zero.
Replay(events) ==
  FoldLeft(LAMBDA c, e :
             CASE Valid(e) /\ e.type = "add_to_cart" -> [c EXCEPT ![e.product] = @ + e.units]
               [] Valid(e) /\ e.type = "remove_from_cart" -> [c EXCEPT ![e.product] = @ - e.units]
               [] OTHER -> c,
           EmptyCart, events)

\* Told: no event about the product was corrupted.
Told(events, p) == \A i \in DOMAIN events : events[i].product = p => Valid(events[i])
Tells(events, items) == \A p \in Products : Told(events, p) => Replay(events)[p] = items[p]

\* The valid events tell the cart, at every step and product by product: a corrupted
\* event hides the line it is about and falsifies no other one, for as long as the session
\* lasts.  (_browse, _add_to_cart, _corrupt)
CartMatchesEvents ==
  \A s \in Sessions : ~In(s, "lost") => Tells(log[s], session[s].cart)

\* An order closes the session it comes from: its last event is the begin_checkout, or what
\* _corrupt made of it, of the same customer and as many units, and the valid events
\* before it add up to every line of which none was corrupted.  (_checkout)
OrderMatchesEvents ==
  \A s \in Sessions : ordered[s] # NoOrder =>
    LET e == Last(log[s]) IN
    /\ e.type \in {"begin_checkout", "unknown_event"}
    /\ e.customer = ordered[s].buyer /\ e.units = Units(ordered[s].items)
    /\ Tells(log[s], ordered[s].items)

\* The cart_value announced for an order leaves out no line of it: a product that the
\* refreshed catalog does not know any more (it counts as zero) cannot be ordered.
\* (_checkout, prices.get)
OrdersFullyPriced ==
  \A s \in Sessions : ordered[s] # NoOrder => Last(log[s]).priced = Lines(ordered[s].items)

\* A session belongs to one customer once it belongs to any, and a checkout always names
\* the customer, also in corrupted events.  (_checkout, the stitching point; _corrupt)
Stitched ==
  \A s \in Sessions : \A i \in DOMAIN log[s] :
    /\ \A j \in 1 .. i : log[s][j].customer \in {NoCustomer, log[s][i].customer}
    /\ log[s][i].type = "begin_checkout" => log[s][i].customer # NoCustomer

\* No session gets stuck in the list of the open ones: whatever was erased, discontinued or
\* refused meanwhile, the next tick brings it further, unless a checkout is under way.
\* (tick, _step)
SessionsGoOn ==
  \A s \in Sessions :
    (In(s, "ordering") \/ (Free /\ In(s, "browsing"))) => ENABLED <<Step(s)>>_session

\* An order has one to five lines.  (spec.md, FR-1.4)
OneToFiveLines ==
  \A s \in Sessions : ordered[s] # NoOrder => Cardinality(Lines(ordered[s].items)) \in 1 .. 5
=============================================================================
