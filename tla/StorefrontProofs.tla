-------------------------- MODULE StorefrontProofs --------------------------
(***************************************************************************)
(* Theorems about Storefront: what the events of a session tell about its  *)
(* cart, its checkout and its order, for any number of sessions, products, *)
(* customers and crashes, and for sessions of any length the code allows.  *)
(***************************************************************************)
EXTENDS Storefront, FoldProofs, SequenceTheorems, TLAPS

USE StorefrontAssumption

Carts == [Products -> Int]

\* Events before they are corrupted; only those that change the cart need whole numbers.
CartEvents ==
  [type : {"add_to_cart", "remove_from_cart"}, ts : {"now"}, product : Products, units : Nat,
   customer : Customers \cup {NoCustomer}, priced : SUBSET Products]
OtherEvents ==
  [type : {"page_view", "begin_checkout"}, ts : {"now"}, product : {NoProduct},
   units : {0} \cup {Units(items) : items \in [Products -> Nat]},
   customer : Customers \cup {NoCustomer}, priced : SUBSET Products]
PlainEvents == CartEvents \cup OtherEvents

\* Events as the producer is given them.
Events == UNION {Sent(e) : e \in PlainEvents}

\* _corrupt leaves alone everything but the type and the time.
LEMMA SentRows ==
  ASSUME NEW e \in PlainEvents, NEW x \in Sent(e)
  PROVE  /\ x \in Events /\ Valid(e) /\ (Valid(x) => x = e)
         /\ x.product = e.product /\ x.units = e.units
         /\ x.customer = e.customer /\ x.priced = e.priced
         /\ x.type \in {e.type, "unknown_event"}
<1>1. x \in Events
  BY DEF Events
<1>2. e.ts = "now" /\ e.type # "unknown_event"
  BY DEF PlainEvents, CartEvents, OtherEvents
<1>3. CASE x = e
  BY <1>1, <1>2, <1>3 DEF Valid
<1>4. CASE x = [e EXCEPT !.type = "unknown_event"]
  <2>1. /\ x.type = "unknown_event" /\ x.product = e.product /\ x.units = e.units
        /\ x.customer = e.customer /\ x.priced = e.priced
    BY <1>4 DEF PlainEvents, CartEvents, OtherEvents
  <2> QED
    BY <1>1, <1>2, <2>1 DEF Valid
<1>5. CASE x = [e EXCEPT !.ts = "far_future"]
  <2>1. /\ x.ts = "far_future" /\ x.type = e.type /\ x.product = e.product /\ x.units = e.units
        /\ x.customer = e.customer /\ x.priced = e.priced
    BY <1>5 DEF PlainEvents, CartEvents, OtherEvents
  <2> QED
    BY <1>1, <1>2, <2>1 DEF Valid
<1> QED
  BY <1>3, <1>4, <1>5 DEF Sent, Outcomes, Corrupt

-----------------------------------------------------------------------------
(* Replay computes the cart event by event.                                *)

Applied(c, e) ==
  CASE Valid(e) /\ e.type = "add_to_cart" -> [c EXCEPT ![e.product] = @ + e.units]
    [] Valid(e) /\ e.type = "remove_from_cart" -> [c EXCEPT ![e.product] = @ - e.units]
    [] OTHER -> c

IsReplay(f, events, S) ==
  f = [T \in SUBSET S |-> IF T = {} THEN EmptyCart ELSE Applied(f[T \ {Max(T)}], events[Max(T)])]

\* What a plain event does to one product, and to the others.
LEMMA AppliedPlain ==
  ASSUME NEW c \in Carts, NEW e \in PlainEvents
  PROVE  /\ Applied(c, e) \in Carts
         /\ \A p \in Products : p # e.product => Applied(c, e)[p] = c[p]
         /\ \A d \in Carts, p \in Products : c[p] = d[p] => Applied(c, e)[p] = Applied(d, e)[p]
<1>1. Valid(e)
  BY DEF Valid, PlainEvents, CartEvents, OtherEvents
<1>2. CASE e \in CartEvents
  <2>1. e.product \in Products /\ e.units \in Nat /\ e.type \in {"add_to_cart", "remove_from_cart"}
    BY <1>2 DEF CartEvents
  <2>2. ASSUME NEW d \in Carts
        PROVE  \/ Applied(d, e) = [d EXCEPT ![e.product] = @ + e.units] /\ e.type = "add_to_cart"
               \/ Applied(d, e) = [d EXCEPT ![e.product] = @ - e.units] /\ e.type = "remove_from_cart"
    BY <1>1, <2>1 DEF Applied
  <2>3. ASSUME NEW d \in Carts
        PROVE  /\ Applied(d, e) \in Carts
               /\ \A p \in Products :
                    Applied(d, e)[p] = IF p # e.product THEN d[p]
                                       ELSE IF e.type = "add_to_cart" THEN d[p] + e.units
                                       ELSE d[p] - e.units
    <3>1. CASE e.type = "add_to_cart" /\ Applied(d, e) = [d EXCEPT ![e.product] = @ + e.units]
      BY <2>1, <3>1 DEF Carts
    <3>2. CASE e.type = "remove_from_cart" /\ Applied(d, e) = [d EXCEPT ![e.product] = @ - e.units]
      BY <2>1, <3>2 DEF Carts
    <3> QED
      BY <2>2, <3>1, <3>2
  <2>4. ASSUME NEW d \in Carts, NEW p \in Products, c[p] = d[p]
        PROVE  Applied(c, e)[p] = Applied(d, e)[p]
    BY <2>3, <2>4
  <2> QED
    BY <2>3, <2>4
<1>3. CASE e \in OtherEvents
  <2>1. e.type # "add_to_cart" /\ e.type # "remove_from_cart"
    BY <1>3 DEF OtherEvents
  <2>2. \A d : Applied(d, e) = d
    BY <1>1, <2>1 DEF Applied
  <2> QED
    BY <2>2
<1> QED
  BY <1>2, <1>3 DEF PlainEvents

LEMMA AppliedCart == ASSUME NEW c \in Carts, NEW e \in Events PROVE Applied(c, e) \in Carts
<1>1. PICK plain \in PlainEvents : e \in Sent(plain)
  BY DEF Events
<1>2. CASE Valid(e)
  <2>1. e = plain
    BY <1>1, <1>2, SentRows
  <2> QED
    BY <2>1, AppliedPlain
<1>3. CASE ~Valid(e)
  BY <1>3 DEF Applied
<1> QED
  BY <1>2, <1>3

\* A corrupted event changes nothing; the line it would have changed is not told any more.
LEMMA SentApplied ==
  ASSUME NEW e \in PlainEvents, NEW x \in Sent(e), NEW c \in Carts, NEW d \in Carts,
         NEW p \in Products, x.product = p => Valid(x), c[p] = d[p]
  PROVE  Applied(c, x)[p] = Applied(d, e)[p]
<1>1. CASE Valid(x)
  <2>1. x = e
    BY <1>1, SentRows
  <2> QED
    BY <2>1, AppliedPlain
<1>2. CASE ~Valid(x)
  <2>1. Applied(c, x) = c
    BY <1>2 DEF Applied
  <2>2. p # e.product
    BY <1>2, SentRows
  <2> QED
    BY <2>1, <2>2, AppliedPlain
<1> QED
  BY <1>1, <1>2

LEMMA MaxTaken ==
  ASSUME NEW n \in Nat, NEW T \in SUBSET (1 .. n), T # {}
  PROVE  Max(T) \in T /\ T \ {Max(T)} \in SUBSET T /\ T \ {Max(T)} # T
<1>1. IsFiniteSet(T) /\ T \subseteq Nat
  <2>1. IsFiniteSet(1 .. n) /\ 1 .. n \subseteq Nat
    BY FS_Interval
  <2> QED
    BY <2>1, FS_Subset
<1>2. PICK x \in T : \A y \in T : y <= x
  BY <1>1, LargestNumber
<1>3. \E z \in T : \A y \in T : z >= y
  BY <1>1, <1>2
<1>4. Max(T) \in T
  BY <1>3 DEF Max
<1> QED
  BY <1>4

LEMMA MaxOfInterval == ASSUME NEW n \in Nat PROVE Max(1 .. n + 1) = n + 1 /\ (1 .. n + 1) \ {n + 1} = 1 .. n
<1>1. \A x \in 1 .. n + 1 : (\A y \in 1 .. n + 1 : x >= y) <=> x = n + 1
  OBVIOUS
<1>2. n + 1 \in 1 .. n + 1
  OBVIOUS
<1> QED
  BY <1>1, <1>2 DEF Max

LEMMA ReplayValues ==
  ASSUME NEW n \in Nat, NEW events, NEW f, IsReplay(f, events, 1 .. n)
  PROVE  /\ f[{}] = EmptyCart
         /\ \A T \in SUBSET (1 .. n) : T # {} =>
              /\ Max(T) \in T /\ T \ {Max(T)} \in SUBSET T /\ T \ {Max(T)} # T
              /\ f[T] = Applied(f[T \ {Max(T)}], events[Max(T)])
<1>1. f[{}] = EmptyCart
  BY DEF IsReplay
<1>2. ASSUME NEW T \in SUBSET (1 .. n), T # {} PROVE f[T] = Applied(f[T \ {Max(T)}], events[Max(T)])
  BY <1>2 DEF IsReplay
<1> QED
  BY <1>1, <1>2, MaxTaken

LEMMA ReplayUnique ==
  ASSUME NEW n \in Nat, NEW m \in Nat, m <= n, NEW events, NEW others, \A i \in 1 .. m : others[i] = events[i],
         NEW f, NEW h, IsReplay(f, events, 1 .. n), IsReplay(h, others, 1 .. m)
  PROVE  f[1 .. m] = h[1 .. m]
<1> DEFINE F == {T \in SUBSET (1 .. m) : f[T] # h[T]}
<1> SUFFICES ASSUME F # {} PROVE FALSE
  OBVIOUS
<1>1. 1 .. m \subseteq 1 .. n
  OBVIOUS
<1>2. PICK T \in F : \A U \in SUBSET T : U # T => U \notin F
  <2>1. F \in SUBSET SUBSET (1 .. m) /\ IsFiniteSet(1 .. m)
    BY FS_Interval
  <2> HIDE DEF F
  <2> QED
    BY <2>1, SmallestSet
<1>3. T \in SUBSET (1 .. m) /\ T \in SUBSET (1 .. n) /\ f[T] # h[T]
  BY <1>1, <1>2
<1>4. f[{}] = EmptyCart /\ h[{}] = EmptyCart
  BY <1>1, ReplayValues
<1>5. T # {}
  BY <1>3, <1>4, Zenon
<1>6. /\ Max(T) \in T /\ T \ {Max(T)} \in SUBSET T /\ T \ {Max(T)} # T
      /\ f[T] = Applied(f[T \ {Max(T)}], events[Max(T)])
  <2>1. \A U \in SUBSET (1 .. n) : U # {} =>
          /\ Max(U) \in U /\ U \ {Max(U)} \in SUBSET U /\ U \ {Max(U)} # U
          /\ f[U] = Applied(f[U \ {Max(U)}], events[Max(U)])
    BY ReplayValues
  <2> QED
    BY <1>3, <1>5, <2>1, Zenon
<1>7. h[T] = Applied(h[T \ {Max(T)}], others[Max(T)])
  <2>1. \A U \in SUBSET (1 .. m) : U # {} =>
          /\ Max(U) \in U /\ U \ {Max(U)} \in SUBSET U /\ U \ {Max(U)} # U
          /\ h[U] = Applied(h[U \ {Max(U)}], others[Max(U)])
    BY ReplayValues
  <2> QED
    BY <1>3, <1>5, <2>1, Zenon
<1>8. f[T \ {Max(T)}] = h[T \ {Max(T)}] /\ others[Max(T)] = events[Max(T)]
  BY <1>2, <1>3, <1>6
<1> QED
  BY <1>3, <1>6, <1>7, <1>8, Zenon

LEMMA ReplayExists ==
  ASSUME NEW events \in Seq(Events)
  PROVE  \E f : IsReplay(f, events, 1 .. Len(events)) /\ \A T \in SUBSET (1 .. Len(events)) : f[T] \in Carts
<1> DEFINE S == 1 .. Len(events)
           first == [T \in SUBSET S |-> Max(T)]
           add == [ic \in S \X Carts |-> Applied(ic[2], events[ic[1]])]
<1>1. Len(events) \in Nat /\ IsFiniteSet(S) /\ \A i \in S : events[i] \in Events
  BY FS_Interval
<1>2. \A T \in SUBSET S : T # {} => first[T] = Max(T) /\ Max(T) \in T /\ T \ {Max(T)} \in SUBSET T /\ T \ {Max(T)} # T
  BY <1>1, MaxTaken
<1>3. \A i \in S, c \in Carts : add[<<i, c>>] = Applied(c, events[i]) /\ add[<<i, c>>] \in Carts
  BY <1>1, AppliedCart
<1> HIDE DEF first, add, S
<1>4. PICK f : IsFold(f, S, EmptyCart, first, add)
  <2>1. Picks(first, S)
    BY <1>2 DEF Picks
  <2> QED
    BY <1>1, <2>1, FoldExists
<1>5. /\ f[{}] = EmptyCart /\ f = [T \in SUBSET S |-> f[T]]
      /\ \A T \in SUBSET S : T # {} => f[T] = add[<<Max(T), f[T \ {Max(T)}]>>]
  <2>1. /\ f[{}] = EmptyCart
        /\ \A T \in SUBSET S : T # {} => f[T] = add[<<first[T], f[T \ {first[T]}]>>]
    BY <1>4, FoldValues
  <2>2. f = [T \in SUBSET S |-> f[T]]
    BY <1>4 DEF IsFold
  <2> QED
    BY <1>2, <2>1, <2>2
<1>6. \A T \in SUBSET S : f[T] \in Carts
  <2> DEFINE F == {T \in SUBSET S : f[T] \notin Carts}
  <2> SUFFICES ASSUME F # {} PROVE FALSE
    OBVIOUS
  <2>1. PICK T \in F : \A U \in SUBSET T : U # T => U \notin F
    <3>1. F \in SUBSET SUBSET S
      OBVIOUS
    <3> HIDE DEF F
    <3> QED
      BY <1>1, <3>1, SmallestSet
  <2>2. T \in SUBSET S /\ f[T] \notin Carts
    BY <2>1
  <2>3. EmptyCart \in Carts
    BY DEF EmptyCart, Carts
  <2>4. T # {}
    BY <1>5, <2>2, <2>3, Zenon
  <2>5. Max(T) \in S /\ f[T \ {Max(T)}] \in Carts
    BY <1>2, <2>1, <2>2, <2>4
  <2> HIDE DEF F
  <2> QED
    BY <1>3, <1>5, <2>2, <2>4, <2>5
<1>7. ASSUME NEW T \in SUBSET S, T # {} PROVE f[T] = Applied(f[T \ {Max(T)}], events[Max(T)])
  <2>1. Max(T) \in S /\ T \ {Max(T)} \in SUBSET S
    BY <1>2, <1>7
  <2> QED
    BY <1>3, <1>5, <1>6, <1>7, <2>1
<1>8. IsReplay(f, events, S)
  BY <1>5, <1>7 DEF IsReplay
<1> QED
  BY <1>6, <1>8 DEF S

LEMMA ReplayDefined ==
  ASSUME NEW events \in Seq(Events)
  PROVE  \E f : IsReplay(f, events, 1 .. Len(events)) /\ Replay(events) = f[1 .. Len(events)]
<1> DEFINE f == CHOOSE h : IsReplay(h, events, DOMAIN events)
<1>1. Replay(events) = f[DOMAIN events]
  BY DEF Replay, FoldLeft, MapThenFoldSet, IsReplay, Applied
<1>2. DOMAIN events = 1 .. Len(events)
  OBVIOUS
<1>3. IsReplay(f, events, DOMAIN events)
  BY <1>2, ReplayExists
<1> HIDE DEF f
<1> QED
  BY <1>1, <1>2, <1>3

LEMMA ReplayNothing == Replay(<<>>) = EmptyCart
<1>1. <<>> \in Seq(Events) /\ Len(<<>>) = 0 /\ 1 .. 0 = {}
  OBVIOUS
<1>2. PICK f : IsReplay(f, <<>>, 1 .. Len(<<>>)) /\ Replay(<<>>) = f[1 .. Len(<<>>)]
  BY <1>1, ReplayDefined
<1>3. f[{}] = EmptyCart
  BY <1>1, <1>2, ReplayValues
<1> QED
  BY <1>1, <1>2, <1>3

LEMMA ReplayOneMore ==
  ASSUME NEW events \in Seq(Events), NEW e \in Events
  PROVE  Replay(Append(events, e)) = Applied(Replay(events), e)
<1>0. PICK n \in Nat, more \in Seq(Events) : n = Len(events) /\ more = Append(events, e)
  <2>1. Len(events) \in Nat /\ Append(events, e) \in Seq(Events)
    OBVIOUS
  <2> QED
    BY <2>1, Zenon
<1>1. Len(more) = n + 1 /\ more[n + 1] = e /\ \A i \in 1 .. n : events[i] = more[i]
  BY <1>0
<1>2. PICK h : IsReplay(h, events, 1 .. n) /\ Replay(events) = h[1 .. n]
  BY <1>0, ReplayDefined
<1>3. PICK f : IsReplay(f, more, 1 .. n + 1) /\ Replay(more) = f[1 .. n + 1]
  <2>1. \E f : IsReplay(f, more, 1 .. Len(more)) /\ Replay(more) = f[1 .. Len(more)]
    BY ReplayDefined
  <2> QED
    BY <1>1, <2>1
<1>4. PICK m \in Nat : m = n + 1
  BY <1>1
<1>5. Max(1 .. m) = m /\ (1 .. m) \ {m} = 1 .. n /\ 1 .. m # {} /\ n <= m
  <2>1. Max(1 .. m) = m /\ (1 .. m) \ {m} = 1 .. n
    BY <1>1, <1>4, MaxOfInterval
  <2>2. 1 \in 1 .. m /\ n <= m
    BY <1>1, <1>4
  <2> QED
    BY <2>1, <2>2
<1>6. IsReplay(f, more, 1 .. m) /\ Replay(more) = f[1 .. m] /\ more[m] = e
  BY <1>1, <1>3, <1>4
<1>7. f[1 .. m] = Applied(f[1 .. n], more[m])
  <2>1. \A U \in SUBSET (1 .. m) : U # {} =>
          /\ Max(U) \in U /\ U \ {Max(U)} \in SUBSET U /\ U \ {Max(U)} # U
          /\ f[U] = Applied(f[U \ {Max(U)}], more[Max(U)])
    BY <1>6, ReplayValues
  <2> QED
    BY <1>5, <2>1
<1>8. f[1 .. n] = h[1 .. n]
  <2>1. \A i \in 1 .. n : events[i] = more[i]
    BY <1>1
  <2>2. IsReplay(f, more, 1 .. m) /\ IsReplay(h, events, 1 .. n) /\ n <= m
    BY <1>2, <1>5, <1>6
  <2> QED
    BY <1>1, <2>1, <2>2, ReplayUnique
<1> QED
  BY <1>0, <1>2, <1>6, <1>7, <1>8

\* What is replayed is a cart; without its add_to_cart a line may be below zero.
LEMMA ReplayCart == ASSUME NEW events \in Seq(Events) PROVE Replay(events) \in Carts
<1>1. PICK n \in Nat : n = Len(events)
  OBVIOUS
<1>2. PICK f : IsReplay(f, events, 1 .. n) /\ Replay(events) = f[1 .. n]
  BY <1>1, ReplayDefined
<1>3. PICK h : IsReplay(h, events, 1 .. n) /\ \A T \in SUBSET (1 .. n) : h[T] \in Carts
  BY <1>1, ReplayExists
<1>4. f[1 .. n] = h[1 .. n]
  <2>1. n <= n /\ \A i \in 1 .. n : events[i] = events[i]
    OBVIOUS
  <2> QED
    BY <1>2, <1>3, <2>1, ReplayUnique
<1> QED
  BY <1>2, <1>3, <1>4

\* One more event: what is told of the cart goes on, product by product.
LEMMA TellsMore ==
  ASSUME NEW events \in Seq(Events), NEW items \in Carts, Tells(events, items),
         NEW e \in PlainEvents, NEW x \in Sent(e)
  PROVE  Tells(Append(events, x), Applied(items, e))
<1>0. PICK n \in Nat, more \in Seq(Events) : n = Len(events) /\ more = Append(events, x)
  <2>1. Len(events) \in Nat /\ Append(events, x) \in Seq(Events)
    BY SentRows
  <2> QED
    BY <2>1, Zenon
<1>1. /\ more[n + 1] = x /\ \A i \in 1 .. n : more[i] = events[i]
      /\ DOMAIN more = 1 .. n + 1 /\ DOMAIN events = 1 .. n /\ n + 1 \in 1 .. n + 1
  BY <1>0, SentRows
<1>2. Replay(more) = Applied(Replay(events), x) /\ Replay(events) \in Carts
  BY <1>0, SentRows, ReplayOneMore, ReplayCart
<1>3. ASSUME NEW p \in Products, Told(more, p) PROVE Replay(more)[p] = Applied(items, e)[p]
  <2>1. x.product = p => Valid(x)
    BY <1>1, <1>3 DEF Told
  <2>2. Told(events, p)
    BY <1>1, <1>3 DEF Told
  <2>3. Replay(events)[p] = items[p]
    BY <2>2 DEF Tells
  <2> QED
    BY <1>2, <2>1, <2>3, SentApplied
<1> QED
  BY <1>0, <1>3 DEF Tells

LEMMA TellsNothing == Tells(<<>>, EmptyCart)
BY ReplayNothing DEF Tells

-----------------------------------------------------------------------------
(* The invariant.                                                          *)

Phases == {"new", "browsing", "ordering", "done", "lost"}
SessionRows ==
  [phase : Phases, who : Customers \cup {NoCustomer}, left : 0 .. 12, buys : BOOLEAN, cart : [Products -> Nat]]

\* All the events are of nobody or of this customer.
OfOne(events, who) == \A i \in DOMAIN events : events[i].customer \in {NoCustomer, who}

StitchedLog(events) ==
  \A i \in DOMAIN events :
    /\ \A k \in 1 .. i : events[k].customer \in {NoCustomer, events[i].customer}
    /\ events[i].type = "begin_checkout" => events[i].customer # NoCustomer

\* The log ends with the checkout of these items.
Announces(events, k, items, priced) ==
  /\ events # <<>>
  /\ Last(events).type \in {"begin_checkout", "unknown_event"} /\ Last(events).customer = k
  /\ Last(events).units = Units(items) /\ Last(events).priced = priced

\* What is in the cart has been launched, and the cached catalog has it unless it is off sale.
KnownCart(s) ==
  \A p \in Lines(session[s].cart) : product[p] # "none" /\ (product[p] = "active" => p \in catalog)

SessionInv(s) ==
  /\ StitchedLog(log[s])
  /\ In(s, "new") => log[s] = <<>> /\ session[s] = NewSession
  /\ ~In(s, "lost") => Tells(log[s], session[s].cart)
  /\ Open(s) => OfOne(log[s], session[s].who) /\ KnownCart(s)
  /\ In(s, "ordering") =>
       Announces(log[s], session[s].who, session[s].cart, Lines(session[s].cart) \cap catalog)
  /\ ordered[s] # NoOrder =>
       /\ In(s, "done") /\ session[s].cart = ordered[s].items
       /\ Announces(log[s], ordered[s].buyer, ordered[s].items, Lines(ordered[s].items))

CatalogKnown == \A p \in catalog : product[p] # "none"

LogsKnown == log \in [Sessions -> Seq(Events)]

StoreInv == TypeOK /\ LogsKnown /\ CatalogKnown /\ \A s \in Sessions : SessionInv(s)


LEMMA Types ==
  TypeOK <=> /\ customer \in [Customers -> {"none", "active", "deleted"}]
             /\ product \in [Products -> {"none", "active", "discontinued"}]
             /\ ordered \in [Sessions -> Orders]
             /\ catalog \subseteq Products
             /\ session \in [Sessions -> SessionRows]
             /\ crashes \in 0 .. MaxCrashes
BY DEF TypeOK, SessionRows, Phases

LEMMA RowsAtStart ==
  /\ EmptyCart \in [Products -> Nat] /\ Lines(EmptyCart) = {}
  /\ NewSession \in SessionRows /\ NewSession.phase = "new" /\ NewSession.cart = EmptyCart
  /\ Lost \in SessionRows /\ Lost.phase = "lost"
  /\ NoOrder \in Orders
<1>1. EmptyCart \in [Products -> Nat] /\ Lines(EmptyCart) = {}
  BY DEF EmptyCart, Lines
<1>2. NewSession \in SessionRows /\ NewSession.phase = "new" /\ NewSession.cart = EmptyCart
  BY <1>1 DEF NewSession, SessionRows, Phases
<1>3. Lost \in SessionRows /\ Lost.phase = "lost"
  BY <1>2 DEF Lost, SessionRows, Phases
<1>4. NoOrder \in Orders
  BY <1>1 DEF NoOrder, Orders
<1> QED
  BY <1>1, <1>2, <1>3, <1>4

\* One more event: what a log tells of a cart and of a customer goes on.
LEMMA LogGrows ==
  ASSUME NEW events \in Seq(Events), StitchedLog(events), NEW who, OfOne(events, who),
         NEW items \in Carts, Tells(events, items),
         NEW e \in PlainEvents, NEW x \in Sent(e), who \in {NoCustomer, e.customer},
         e.type = "begin_checkout" => e.customer # NoCustomer
  PROVE  /\ Append(events, x) \in Seq(Events) /\ StitchedLog(Append(events, x))
         /\ OfOne(Append(events, x), e.customer)
         /\ Tells(Append(events, x), Applied(items, e))
         /\ Append(events, x) # <<>> /\ Last(Append(events, x)) = x
<1> x.customer = e.customer /\ (x.type = "begin_checkout" => x.customer # NoCustomer) /\ x \in Events
  BY SentRows
<1>0. PICK n \in Nat, more \in Seq(Events) : n = Len(events) /\ more = Append(events, x)
  <2>1. Len(events) \in Nat /\ Append(events, x) \in Seq(Events)
    OBVIOUS
  <2> QED
    BY <2>1, Zenon
<1>1. /\ Len(more) = n + 1 /\ more[n + 1] = x /\ \A i \in 1 .. n : more[i] = events[i]
      /\ DOMAIN more = 1 .. n + 1 /\ DOMAIN events = 1 .. n
  BY <1>0
<1>2. \A i \in 1 .. n + 1 : more[i].customer \in {NoCustomer, x.customer}
  BY <1>1 DEF OfOne
<1>3. OfOne(more, e.customer)
  BY <1>1, <1>2 DEF OfOne
<1>4. StitchedLog(more)
  <2> SUFFICES ASSUME NEW i \in 1 .. n + 1
               PROVE  /\ \A k \in 1 .. i : more[k].customer \in {NoCustomer, more[i].customer}
                      /\ more[i].type = "begin_checkout" => more[i].customer # NoCustomer
    BY <1>1 DEF StitchedLog
  <2>1. CASE i = n + 1
    BY <1>1, <1>2, <2>1
  <2>2. CASE i \in 1 .. n
    BY <1>1, <2>2 DEF StitchedLog
  <2> QED
    BY <2>1, <2>2
<1>5. more # <<>> /\ Last(more) = x
  BY <1>1 DEF Last
<1> QED
  BY <1>0, <1>3, <1>4, <1>5, TellsMore

\* What the producer has been given for one event, and for two.
LEMMA SentEach ==
  ASSUME NEW events, NEW sent \in Sendings(events)
  PROVE  /\ sent = [i \in DOMAIN events |-> sent[i]]
         /\ \A i \in DOMAIN events : sent[i] \in Sent(events[i])
<1>1. PICK outcome \in [DOMAIN events -> Outcomes] :
        sent = [i \in DOMAIN events |-> Corrupt(events[i], outcome[i])]
  BY DEF Sendings
<1>2. ASSUME NEW i \in DOMAIN events
      PROVE  sent[i] = Corrupt(events[i], outcome[i]) /\ outcome[i] \in Outcomes
  BY <1>1
<1> QED
  BY <1>1, <1>2 DEF Sent

LEMMA EmitOne ==
  ASSUME NEW s \in Sessions, NEW old \in Seq(Events), old = log[s],
         NEW e \in PlainEvents, Emit(s, <<e>>)
  PROVE  \E x \in Sent(e), more \in Seq(Events) :
           more = Append(old, x) /\ log' = [log EXCEPT ![s] = more]
<1>1. PICK sent \in Sendings(<<e>>) : log' = [log EXCEPT ![s] = log[s] \o sent]
  BY DEF Emit
<1>2. DOMAIN <<e>> = {1} /\ <<e>>[1] = e
  OBVIOUS
<1>3. sent[1] \in Sent(e) /\ sent = [i \in {1} |-> sent[i]]
  BY <1>2, SentEach
<1>4. PICK x \in Sent(e) : x = sent[1]
  BY <1>3
<1>5. sent = <<x>> /\ x \in Events
  BY <1>3, <1>4, SentRows
<1>6. PICK more \in Seq(Events) : more = Append(old, x)
  BY <1>5, AppendProperties, Zenon
<1>7. old \o <<x>> = more
  BY <1>5, <1>6
<1> QED
  BY <1>1, <1>5, <1>6, <1>7

LEMMA AppendToOne == ASSUME NEW S, NEW a \in S, NEW e \in S PROVE Append(<<a>>, e) = <<a, e>>
<1>1. <<a>> \in Seq(S) /\ Len(<<a>>) = 1 /\ <<a>>[1] = a
  OBVIOUS
<1>2. PICK one : one = <<a>>
  OBVIOUS
<1>3. /\ Append(one, e) \in Seq(S) /\ Len(Append(one, e)) = 2
      /\ Append(one, e)[1] = a /\ Append(one, e)[2] = e
  BY <1>1, <1>2, AppendProperties
<1>4. /\ <<a, e>> \in Seq(S) /\ Len(<<a, e>>) = 2 /\ <<a, e>>[1] = a /\ <<a, e>>[2] = e
  OBVIOUS
<1>5. \A i \in 1 .. 2 : Append(one, e)[i] = <<a, e>>[i]
  BY <1>3, <1>4
<1> QED
  BY <1>2, <1>3, <1>4, <1>5, SeqEqual

LEMMA EmitTwo ==
  ASSUME NEW s \in Sessions, NEW old \in Seq(Events), old = log[s],
         NEW e \in PlainEvents, NEW a \in PlainEvents, Emit(s, <<e, a>>)
  PROVE  \E x \in Sent(e), y \in Sent(a), one \in Seq(Events), more \in Seq(Events) :
           /\ one = Append(old, x) /\ more = Append(one, y)
           /\ log' = [log EXCEPT ![s] = more]
<1>1. PICK sent \in Sendings(<<e, a>>) : log' = [log EXCEPT ![s] = log[s] \o sent]
  BY DEF Emit
<1>2. DOMAIN <<e, a>> = {1, 2} /\ <<e, a>>[1] = e /\ <<e, a>>[2] = a
  OBVIOUS
<1>3. sent[1] \in Sent(e) /\ sent[2] \in Sent(a) /\ sent = [i \in {1, 2} |-> sent[i]]
  BY <1>2, SentEach
<1>4. PICK x \in Sent(e), y \in Sent(a) : x = sent[1] /\ y = sent[2]
  BY <1>3
<1>5. sent = <<x, y>> /\ x \in Events /\ y \in Events
  BY <1>3, <1>4, SentRows
<1>6. PICK one \in Seq(Events) : one = Append(old, x)
  BY <1>5, AppendProperties, Zenon
<1>7. PICK more \in Seq(Events) : more = Append(one, y)
  BY <1>5, AppendProperties, Zenon
<1>8. old \o <<x, y>> = more
  BY <1>5, <1>6, <1>7
<1> QED
  BY <1>1, <1>5, <1>6, <1>7, <1>8

\* What the events of a session are before they are corrupted.
LEMMA EventRows ==
  ASSUME TypeOK, NEW s \in Sessions
  PROVE  /\ PageView(s) \in PlainEvents /\ PageView(s).customer = session[s].who
         /\ PageView(s).type = "page_view" /\ \A c : Applied(c, PageView(s)) = c
         /\ \A p \in Products, q \in Nat :
              /\ AddEvent(s, p, q) \in PlainEvents /\ AddEvent(s, p, q).customer = session[s].who
              /\ AddEvent(s, p, q).type = "add_to_cart"
              /\ AddEvent(s, p, q).product = p /\ AddEvent(s, p, q).units = q
              /\ \A c : Applied(c, AddEvent(s, p, q)) = WithAdded(c, p, q)
<1>1. session[s].who \in Customers \cup {NoCustomer}
  BY Types DEF SessionRows
<1>2. PageView(s) \in OtherEvents /\ PageView(s).customer = session[s].who /\ PageView(s).type = "page_view"
  BY <1>1 DEF PageView, Event, OtherEvents
<1>3. ASSUME NEW p \in Products, NEW q \in Nat
      PROVE  /\ AddEvent(s, p, q) \in CartEvents /\ AddEvent(s, p, q).customer = session[s].who
             /\ AddEvent(s, p, q).type = "add_to_cart"
             /\ AddEvent(s, p, q).product = p /\ AddEvent(s, p, q).units = q
  BY <1>1 DEF AddEvent, Event, CartEvents
<1> QED
  BY <1>2, <1>3 DEF PlainEvents, Valid, CartEvents, OtherEvents, Applied, WithAdded

LEMMA CheckoutRow ==
  ASSUME NEW s \in Sessions, NEW k \in Customers, NEW items \in [Products -> Nat]
  PROVE  LET e == CheckoutEvent(s, k, items) IN
         /\ e \in PlainEvents /\ e.type = "begin_checkout" /\ e.customer = k
         /\ e.units = Units(items) /\ e.priced = Lines(items) \cap catalog
         /\ \A c : Applied(c, e) = c
<1> DEFINE e == CheckoutEvent(s, k, items)
<1>1. Lines(items) \cap catalog \in SUBSET Products
  BY DEF Lines
<1>2. /\ e \in OtherEvents /\ e.type = "begin_checkout" /\ e.customer = k
      /\ e.units = Units(items) /\ e.priced = Lines(items) \cap catalog
  BY <1>1 DEF CheckoutEvent, Event, OtherEvents
<1> HIDE DEF e
<1> QED
  BY <1>2 DEF PlainEvents, Valid, CartEvents, OtherEvents, Applied, e

LEMMA RemoveRow ==
  ASSUME TypeOK, NEW s \in Sessions, NEW p \in Products
  PROVE  LET e == Event("remove_from_cart", p, session[s].cart[p], session[s].who, {}) IN
         /\ e \in PlainEvents /\ e.type = "remove_from_cart" /\ e.customer = session[s].who
         /\ Applied(session[s].cart, e) = [session[s].cart EXCEPT ![p] = 0]
<1> DEFINE e == Event("remove_from_cart", p, session[s].cart[p], session[s].who, {})
<1>1. session[s].who \in Customers \cup {NoCustomer} /\ session[s].cart \in [Products -> Nat]
  BY Types DEF SessionRows
<1>2. /\ e \in CartEvents /\ e.type = "remove_from_cart" /\ e.customer = session[s].who
      /\ e.product = p /\ e.units = session[s].cart[p]
  BY <1>1 DEF Event, CartEvents
<1> HIDE DEF e
<1>3. [session[s].cart EXCEPT ![p] = @ - session[s].cart[p]] = [session[s].cart EXCEPT ![p] = 0]
  BY <1>1
<1>4. Applied(session[s].cart, e) = [session[s].cart EXCEPT ![p] = @ - session[s].cart[p]]
  BY <1>2 DEF Applied, Valid, CartEvents
<1> QED
  BY <1>2, <1>3, <1>4 DEF PlainEvents, Valid, CartEvents, OtherEvents, e

\* Filled, for nothing and for one product.
LEMMA FilledCart ==
  ASSUME NEW items
  PROVE  /\ Filled(items, <<>>) = items
         /\ \A e : Filled(items, <<e>>) = WithAdded(items, e.product, e.units)
<1> DEFINE F(it, adds) == it = [T \in SUBSET DOMAIN adds |-> IF T = {} THEN items
                            ELSE WithAdded(it[T \ {Max(T)}], adds[Max(T)].product, adds[Max(T)].units)]
           it(adds) == CHOOSE f : F(f, adds)
<1>1. \A adds : Filled(items, adds) = it(adds)[DOMAIN adds]
  BY DEF Filled, FoldLeft, MapThenFoldSet
<1>2. Filled(items, <<>>) = items
  <2>1. DOMAIN <<>> = {} /\ SUBSET {} = {{}}
    OBVIOUS
  <2>2. F([T \in {{}} |-> items], <<>>)
    BY <2>1
  <2>3. F(it(<<>>), <<>>)
    BY <2>2
  <2> HIDE DEF it
  <2> QED
    BY <1>1, <2>1, <2>3
<1>3. ASSUME NEW e PROVE Filled(items, <<e>>) = WithAdded(items, e.product, e.units)
  <2> DEFINE after == WithAdded(items, e.product, e.units)
  <2>1. DOMAIN <<e>> = {1} /\ <<e>>[1] = e /\ SUBSET {1} = {{}, {1}} /\ {1} \ {1} = {} /\ {1} # {}
    OBVIOUS
  <2>2. Max({1}) = 1
    BY DEF Max
  <2>3. \E f : F(f, <<e>>)
    <3> DEFINE f == [T \in {{}, {1}} |-> IF T = {} THEN items ELSE after]
    <3>1. f[{}] = items
      OBVIOUS
    <3>2. \A T \in {{}, {1}} : f[T] = IF T = {} THEN items
             ELSE WithAdded(f[T \ {Max(T)}], <<e>>[Max(T)].product, <<e>>[Max(T)].units)
      BY <2>1, <2>2, <3>1
    <3>3. f = [T \in {{}, {1}} |-> f[T]]
      OBVIOUS
    <3> HIDE DEF f
    <3>4. F(f, <<e>>)
      BY <2>1, <3>2, <3>3
    <3> QED
      BY <3>4
  <2>4. F(it(<<e>>), <<e>>)
    BY <2>3
  <2> HIDE DEF it
  <2>5. it(<<e>>)[{}] = items
    BY <2>4
  <2>6. it(<<e>>)[{1}] = WithAdded(it(<<e>>)[{1} \ {1}], <<e>>[1].product, <<e>>[1].units)
    BY <2>1, <2>2, <2>4
  <2> QED
    BY <1>1, <2>1, <2>5, <2>6
<1> QED
  BY <1>2, <1>3


-----------------------------------------------------------------------------
(* The steps.                                                              *)

LEMMA StoreInit == Init => StoreInv
<1> SUFFICES ASSUME Init PROVE StoreInv
  OBVIOUS
<1>1. TypeOK
  BY RowsAtStart, Types DEF Init
<1>2. CatalogKnown /\ LogsKnown
  BY DEF Init, CatalogKnown, LogsKnown
<1>3. ASSUME NEW s \in Sessions PROVE SessionInv(s)
  <2>1. log[s] = <<>> /\ session[s] = NewSession /\ ordered[s] = NoOrder
    BY <1>3 DEF Init
  <2>2. StitchedLog(<<>>)
    BY DEF StitchedLog
  <2> QED
    BY <2>1, <2>2, RowsAtStart, TellsNothing DEF SessionInv, In, Open
<1> QED
  BY <1>1, <1>2, <1>3 DEF StoreInv

\* A session that a step does not concern.
LEMMA SessionKept ==
  ASSUME NEW s \in Sessions, SessionInv(s),
         session'[s] = session[s], log'[s] = log[s], ordered'[s] = ordered[s],
         Open(s) => KnownCart(s)', In(s, "ordering") => catalog' = catalog
  PROVE  SessionInv(s)'
<1>1. In(s, "new")' = In(s, "new") /\ In(s, "lost")' = In(s, "lost") /\ In(s, "done")' = In(s, "done")
      /\ In(s, "ordering")' = In(s, "ordering") /\ Open(s)' = Open(s)
  BY DEF In, Open
<1> QED
  BY <1>1 DEF SessionInv

\* A session starts, browses or begins its checkout.
LEMMA SessionMoves ==
  ASSUME StoreInv, NEW s \in Sessions, In(s, "new") \/ In(s, "browsing"),
         NEW row \in SessionRows, NEW more \in Seq(Events),
         session' = [session EXCEPT ![s] = row], log' = [log EXCEPT ![s] = more],
         UNCHANGED <<product, ordered, catalog, crashes>>,
         customer' \in [Customers -> {"none", "active", "deleted"}],
         row.phase \in {"browsing", "ordering"},
         StitchedLog(more), OfOne(more, row.who), Tells(more, row.cart),
         Lines(row.cart) \subseteq Lines(session[s].cart) \cup catalog,
         row.phase = "ordering" => Announces(more, row.who, row.cart, Lines(row.cart) \cap catalog)
  PROVE  StoreInv'
<1>1. TypeOK /\ session \in [Sessions -> SessionRows] /\ CatalogKnown /\ SessionInv(s) /\ catalog \subseteq Products
  BY Types DEF StoreInv
<1>2. TypeOK'
  BY <1>1 DEF TypeOK, SessionRows, Phases
<1>3. CatalogKnown' /\ LogsKnown' /\ log \in [Sessions -> Seq(Events)]
  BY <1>1 DEF CatalogKnown, LogsKnown, StoreInv
<1>4. ASSUME NEW x \in Sessions, x # s PROVE SessionInv(x)'
  <2>1. SessionInv(x) /\ session'[x] = session[x] /\ log'[x] = log[x]
    <3>1. log'[x] = log[x] /\ session'[x] = session[x]
      BY <1>1, <1>3, <1>4
    <3> QED
      BY <1>4, <3>1 DEF StoreInv
  <2>2. KnownCart(x)' = KnownCart(x)
    BY <2>1 DEF KnownCart, Lines
  <2>3. Open(x) => KnownCart(x)
    BY <2>1 DEF SessionInv
  <2> QED
    BY <2>1, <2>2, <2>3, SessionKept
<1>5. SessionInv(s)'
  <2>1. session'[s] = row
    BY <1>1
  <2>2. log'[s] = more
    BY <1>3
  <2>3. Lines(session[s].cart) = {} \/ KnownCart(s)
    BY <1>1, RowsAtStart DEF SessionInv, Open
  <2>4. \A p \in Lines(row.cart) : product[p] # "none" /\ (product[p] = "active" => p \in catalog)
    BY <1>1, <2>3 DEF KnownCart, CatalogKnown
  <2>5. KnownCart(s)'
    BY <2>1, <2>4 DEF KnownCart, Lines
  <2>6. ordered'[s] = NoOrder
    BY <1>1 DEF SessionInv, In
  <2>7. ~In(s, "new")' /\ (In(s, "ordering")' => row.phase = "ordering")
    BY <2>1 DEF In
  <2>8. In(s, "ordering")' =>
          Announces(log'[s], session'[s].who, session'[s].cart, Lines(session'[s].cart) \cap catalog')
    BY <2>1, <2>2, <2>7
  <2> QED
    BY <2>1, <2>2, <2>5, <2>6, <2>7, <2>8 DEF SessionInv
<1> QED
  BY <1>2, <1>3, <1>4, <1>5 DEF StoreInv

\* A session leaves, gives up or has placed its order.
LEMMA SessionEnds ==
  ASSUME StoreInv, NEW s \in Sessions, Open(s), EndSession(s), NEW order \in Orders,
         UNCHANGED <<shop, catalog, log, crashes>>, ordered' = [ordered EXCEPT ![s] = order],
         order # NoOrder => /\ session[s].cart = order.items
                            /\ Announces(log[s], order.buyer, order.items, Lines(order.items))
  PROVE  StoreInv'
<1>1. /\ TypeOK /\ session \in [Sessions -> SessionRows] /\ CatalogKnown /\ SessionInv(s)
      /\ ordered \in [Sessions -> Orders] /\ UNCHANGED <<customer, product>>
  BY Types DEF StoreInv, shop
<1>2. PICK row \in SessionRows : row = [session[s] EXCEPT !.phase = "done"]
  <2>1. session[s] \in SessionRows
    BY <1>1
  <2> QED
    BY <2>1 DEF SessionRows, Phases
<1>3. row.phase = "done" /\ row.cart = session[s].cart /\ session' = [session EXCEPT ![s] = row]
  <2>1. session[s] \in SessionRows
    BY <1>1
  <2> QED
    BY <1>1, <1>2, <2>1 DEF EndSession, SessionRows
<1>4. session' \in [Sessions -> SessionRows] /\ ordered' \in [Sessions -> Orders]
  BY <1>1, <1>3
<1>5. TypeOK' /\ CatalogKnown' /\ LogsKnown'
  BY <1>1, <1>4 DEF TypeOK, CatalogKnown, LogsKnown, StoreInv, SessionRows, Phases
<1>6. ASSUME NEW x \in Sessions, x # s PROVE SessionInv(x)'
  <2>1. SessionInv(x) /\ session'[x] = session[x] /\ log'[x] = log[x] /\ ordered'[x] = ordered[x]
    BY <1>1, <1>3, <1>6 DEF StoreInv
  <2>2. KnownCart(x)' = KnownCart(x)
    BY <1>1, <2>1 DEF KnownCart, Lines
  <2>3. Open(x) => KnownCart(x)
    BY <2>1 DEF SessionInv
  <2> QED
    BY <2>1, <2>2, <2>3, SessionKept
<1>7. SessionInv(s)'
  <2>1. session'[s] = row /\ log'[s] = log[s] /\ ordered'[s] = order
    BY <1>1, <1>3
  <2>2. In(s, "done")' /\ ~In(s, "new")' /\ ~In(s, "lost")' /\ ~In(s, "ordering")' /\ ~Open(s)'
    BY <1>3, <2>1 DEF In, Open
  <2>3. Tells(log[s], session[s].cart) /\ StitchedLog(log[s])
    BY <1>1 DEF SessionInv, Open, In
  <2> QED
    BY <1>3, <2>1, <2>2, <2>3 DEF SessionInv
<1> QED
  BY <1>5, <1>6, <1>7 DEF StoreInv

\* The process dies: what it had is lost, what it told and ordered remains.
LEMMA MemoryLost == ASSUME StoreInv, LoseMemory, crashes' \in 0 .. MaxCrashes PROVE StoreInv'
<1>1. /\ session \in [Sessions -> SessionRows] /\ TypeOK /\ UNCHANGED <<customer, product, ordered, log>>
      /\ catalog' = {}
      /\ session' = [s \in Sessions |-> IF Open(s) THEN Lost ELSE session[s]]
  BY Types DEF StoreInv, LoseMemory, shop
<1>2. session' \in [Sessions -> SessionRows]
  BY <1>1, RowsAtStart
<1>3. TypeOK' /\ CatalogKnown' /\ LogsKnown'
  BY <1>1, <1>2 DEF TypeOK, CatalogKnown, LogsKnown, StoreInv, SessionRows, Phases
<1>4. ASSUME NEW s \in Sessions PROVE SessionInv(s)'
  <2>0. SessionInv(s)
    BY <1>4 DEF StoreInv
  <2>1. CASE ~Open(s)
    <3>1. session'[s] = session[s] /\ ~In(s, "ordering")
      BY <1>1, <2>1 DEF Open
    <3> QED
      BY <1>1, <2>0, <2>1, <3>1, SessionKept
  <2>2. CASE Open(s)
    <3>1. session'[s] = Lost /\ ordered[s] = NoOrder
      BY <1>1, <2>0, <2>2 DEF SessionInv, Open, In
    <3>2. In(s, "lost")' /\ ~In(s, "new")' /\ ~In(s, "done")' /\ ~In(s, "ordering")' /\ ~Open(s)'
      BY <3>1, RowsAtStart DEF In, Open
    <3>3. StitchedLog(log[s])
      BY <2>0 DEF SessionInv
    <3> QED
      BY <1>1, <3>1, <3>2, <3>3 DEF SessionInv
  <2> QED
    BY <2>1, <2>2
<1> QED
  BY <1>3, <1>4 DEF StoreInv

LEMMA RefreshStep == ASSUME StoreInv, Refresh PROVE StoreInv'
<1>1. crashes' \in 0 .. MaxCrashes
  BY Types DEF StoreInv, Refresh
<1>2. CASE OnSale = {}
  BY <1>1, <1>2, MemoryLost DEF Refresh
<1>3. CASE OnSale # {}
  <2>1. Free /\ catalog' = OnSale /\ UNCHANGED <<customer, product, ordered, session, log, crashes>>
    BY <1>3 DEF Refresh, shop
  <2>2. TypeOK' /\ CatalogKnown' /\ LogsKnown'
    BY <2>1 DEF StoreInv, TypeOK, CatalogKnown, LogsKnown, OnSale
  <2>3. ASSUME NEW s \in Sessions PROVE SessionInv(s)'
    <3>1. SessionInv(s) /\ ~In(s, "ordering") /\ session[s].cart \in [Products -> Nat]
      BY <2>1, Types DEF StoreInv, Free, SessionRows
    <3>2. Open(s) => KnownCart(s)'
      BY <2>1, <3>1 DEF SessionInv, KnownCart, OnSale, Lines
    <3> QED
      BY <2>1, <3>1, <3>2, SessionKept
  <2> QED
    BY <2>2, <2>3 DEF StoreInv
<1> QED
  BY <1>2, <1>3

\* The back offices: a product that is launched was in no cart, one that is discontinued
\* may be.
LEMMA BackofficeStep ==
  ASSUME StoreInv, \/ \E k \in Customers : Forget(k)
                   \/ \E p \in Changing : Launch(p) \/ Discontinue(p)
  PROVE  StoreInv'
<1>1. /\ TypeOK /\ product \in [Products -> {"none", "active", "discontinued"}] /\ catalog \subseteq Products
      /\ UNCHANGED <<ordered, catalog, session, log, crashes>>
  BY Types DEF StoreInv, Forget, Launch, Discontinue, Meanwhile
<1>2. TypeOK'
  <2>1. CASE \E k \in Customers : Forget(k)
    BY <1>1, <2>1 DEF TypeOK, Forget
  <2>2. CASE \E p \in Changing : Launch(p) \/ Discontinue(p)
    BY <1>1, <2>2 DEF TypeOK, Launch, Discontinue
  <2> QED
    BY <2>1, <2>2
<1>3. \A p \in Products : product[p] # "none" => product'[p] # "none" /\ (product'[p] = "active" => product[p] = "active")
  BY <1>1 DEF Forget, Launch, Discontinue
<1>4. CatalogKnown' /\ LogsKnown'
  BY <1>1, <1>3 DEF StoreInv, CatalogKnown, LogsKnown
<1>5. ASSUME NEW s \in Sessions PROVE SessionInv(s)'
  <2>1. SessionInv(s)
    BY DEF StoreInv
  <2>2. Open(s) => KnownCart(s)'
    BY <1>1, <1>3, <2>1 DEF SessionInv, KnownCart, Lines
  <2> QED
    BY <1>1, <2>1, <2>2, SessionKept
<1> QED
  BY <1>2, <1>4, <1>5 DEF StoreInv


\* What the log of an open session is, before anything is added to it.
LEMMA OpenLog ==
  ASSUME StoreInv, NEW s \in Sessions, Open(s) \/ In(s, "new")
  PROVE  /\ log[s] \in Seq(Events) /\ StitchedLog(log[s]) /\ OfOne(log[s], session[s].who)
         /\ Tells(log[s], session[s].cart) /\ session[s] \in SessionRows
<1>1. log[s] \in Seq(Events) /\ SessionInv(s) /\ session[s] \in SessionRows
  BY Types DEF StoreInv, LogsKnown
<1>2. OfOne(log[s], session[s].who)
  <2>1. CASE Open(s)
    BY <1>1, <2>1 DEF SessionInv
  <2>2. CASE log[s] = <<>>
    BY <2>2 DEF OfOne
  <2> QED
    BY <1>1, <2>1, <2>2 DEF SessionInv
<1> QED
  BY <1>1, <1>2 DEF SessionInv, Open, In

LEMMA OpenCart ==
  ASSUME StoreInv, NEW s \in Sessions, Open(s)
  PROVE  \E old \in Seq(Events), cart \in [Products -> Nat] :
           /\ old = log[s] /\ cart = session[s].cart /\ cart \in Carts
           /\ StitchedLog(old) /\ OfOne(old, session[s].who) /\ Tells(old, cart)
<1>1. /\ log[s] \in Seq(Events) /\ StitchedLog(log[s]) /\ OfOne(log[s], session[s].who)
      /\ Tells(log[s], session[s].cart) /\ session[s] \in SessionRows
  BY OpenLog
<1>2. session[s].cart \in [Products -> Nat]
  BY <1>1 DEF SessionRows
<1>3. session[s].cart \in Carts
  BY <1>2 DEF Carts
<1> QED
  BY <1>1, <1>2, <1>3

LEMMA StartStep == ASSUME StoreInv, NEW s \in Sessions, Start(s) PROVE StoreInv'
<1>1. PICK k \in Customers \cup {NoCustomer}, n \in StepCounts, b \in BOOLEAN :
        /\ IF k = NoCustomer THEN UNCHANGED customer ELSE Identify(k)
        /\ session' = [session EXCEPT ![s] =
             [NewSession EXCEPT !.phase = "browsing", !.who = k, !.left = n, !.buys = b]]
  BY DEF Start
<1>2. PICK row : row = [NewSession EXCEPT !.phase = "browsing", !.who = k, !.left = n, !.buys = b]
  OBVIOUS
<1>3. /\ row \in SessionRows /\ row.phase = "browsing" /\ row.cart = EmptyCart /\ row.who = k
  <2>1. n \in 0 .. 12
    OBVIOUS
  <2> QED
    BY <1>2, <2>1, RowsAtStart DEF NewSession, SessionRows, Phases
<1>4. /\ log[s] = <<>> /\ In(s, "new") /\ log \in [Sessions -> Seq(Events)]
      /\ UNCHANGED <<product, ordered, catalog, crashes, log>>
  BY DEF Start, StoreInv, SessionInv, LogsKnown
<1>5. customer' \in [Customers -> {"none", "active", "deleted"}]
  BY <1>1, Types DEF StoreInv, Identify
<1>6. /\ StitchedLog(<<>>) /\ OfOne(<<>>, k) /\ <<>> \in Seq(Events)
      /\ log' = [log EXCEPT ![s] = <<>>] /\ Lines(row.cart) \subseteq catalog
  BY <1>3, <1>4, RowsAtStart DEF StitchedLog, OfOne
<1>7. session' = [session EXCEPT ![s] = row]
  BY <1>1, <1>2
<1> QED
  BY <1>3, <1>4, <1>5, <1>6, <1>7, SessionMoves, TellsNothing

\* A browsing step with what it emits.
LEMMA BrowsingStep ==
  ASSUME StoreInv, NEW s \in Sessions, NEW cart \in [Products -> Nat], BrowseStep(s, cart),
         NEW more \in Seq(Events), log' = [log EXCEPT ![s] = more],
         StitchedLog(more), OfOne(more, session[s].who), Tells(more, cart),
         Lines(cart) \subseteq Lines(session[s].cart) \cup catalog
  PROVE  StoreInv'
<1>1. In(s, "browsing") /\ session[s].left > 0 /\ session[s] \in SessionRows
  BY Types DEF StoreInv, BrowseStep, Browsing
<1>2. PICK row : row = [session[s] EXCEPT !.left = @ - 1, !.cart = cart]
  OBVIOUS
<1>3. row \in SessionRows /\ row.phase = "browsing" /\ row.who = session[s].who /\ row.cart = cart
  <2>1. session[s].left - 1 \in 0 .. 12
    BY <1>1 DEF SessionRows
  <2> QED
    BY <1>1, <1>2, <2>1 DEF SessionRows, In
<1>4. session' = [session EXCEPT ![s] = row]
  BY <1>2 DEF BrowseStep
<1>5. UNCHANGED <<customer, product, ordered, catalog, crashes>>
  BY DEF BrowseStep, shop
<1>6. customer' \in [Customers -> {"none", "active", "deleted"}]
  BY <1>5, Types DEF StoreInv
<1> QED
  BY <1>1, <1>3, <1>4, <1>5, <1>6, SessionMoves

LEMMA ViewStep == ASSUME StoreInv, NEW s \in Sessions, View(s) PROVE StoreInv'
<1>1. In(s, "browsing") /\ BrowseStep(s, session[s].cart)
  BY DEF View, BrowseStep, Browsing
<1>2. PICK old \in Seq(Events), cart \in [Products -> Nat] :
        /\ old = log[s] /\ cart = session[s].cart /\ cart \in Carts
        /\ StitchedLog(old) /\ OfOne(old, session[s].who) /\ Tells(old, cart)
  BY <1>1, OpenCart DEF Open
<1>3. PICK e \in PlainEvents : /\ e = PageView(s) /\ e.customer = session[s].who /\ e.type = "page_view"
                               /\ \A c : Applied(c, e) = c
  BY EventRows DEF StoreInv
<1>4. PICK x \in Sent(e), more \in Seq(Events) : more = Append(old, x) /\ log' = [log EXCEPT ![s] = more]
  <2>1. Emit(s, <<e>>)
    BY <1>3 DEF View
  <2> QED
    BY <1>2, <2>1, EmitOne
<1>5. StitchedLog(more) /\ OfOne(more, session[s].who) /\ Tells(more, cart)
  BY <1>2, <1>3, <1>4, LogGrows
<1> QED
  BY <1>1, <1>2, <1>4, <1>5, BrowsingStep


LEMMA ViewAndAddStep == ASSUME StoreInv, NEW s \in Sessions, ViewAndAdd(s) PROVE StoreInv'
<1>0. PICK p \in catalog, q \in Quantities :
        /\ BrowseStep(s, WithAdded(session[s].cart, p, q))
        /\ Emit(s, <<PageView(s), AddEvent(s, p, q)>>)
  BY DEF ViewAndAdd
<1>1. In(s, "browsing") /\ p \in Products /\ q \in Nat /\ TypeOK
  BY <1>0, Types DEF BrowseStep, Browsing, StoreInv
<1>2. PICK old \in Seq(Events), cart \in [Products -> Nat] :
        /\ old = log[s] /\ cart = session[s].cart /\ cart \in Carts
        /\ StitchedLog(old) /\ OfOne(old, session[s].who) /\ Tells(old, cart)
  BY <1>1, OpenCart DEF Open
<1>3. PICK e \in PlainEvents : /\ e = PageView(s) /\ e.customer = session[s].who /\ e.type = "page_view"
                               /\ \A c : Applied(c, e) = c
  BY <1>1, EventRows
<1>4. PICK a \in PlainEvents : /\ a = AddEvent(s, p, q) /\ a.customer = session[s].who /\ a.type = "add_to_cart"
                               /\ \A c : Applied(c, a) = WithAdded(c, p, q)
  BY <1>1, EventRows
<1>5. PICK x \in Sent(e), y \in Sent(a), one \in Seq(Events), more \in Seq(Events) :
        one = Append(old, x) /\ more = Append(one, y) /\ log' = [log EXCEPT ![s] = more]
  <2>1. Emit(s, <<e, a>>)
    BY <1>0, <1>3, <1>4
  <2> QED
    BY <1>2, <2>1, EmitTwo
<1>6. StitchedLog(one) /\ OfOne(one, session[s].who) /\ Tells(one, cart)
  BY <1>2, <1>3, <1>5, LogGrows
<1>7. StitchedLog(more) /\ OfOne(more, session[s].who) /\ Tells(more, WithAdded(cart, p, q))
  <2>1. a.customer = session[s].who /\ a.type = "add_to_cart" /\ Applied(cart, a) = WithAdded(cart, p, q)
    BY <1>4
  <2>2. cart \in Carts /\ more = Append(one, y)
    BY <1>2, <1>5
  <2>3. PICK who : who = session[s].who
    OBVIOUS
  <2>4. StitchedLog(more) /\ OfOne(more, who) /\ Tells(more, Applied(cart, a))
    BY <1>6, <2>1, <2>2, <2>3, LogGrows
  <2> QED
    BY <2>1, <2>3, <2>4
<1>8. /\ WithAdded(cart, p, q) \in [Products -> Nat]
      /\ Lines(WithAdded(cart, p, q)) \subseteq Lines(cart) \cup catalog
  BY <1>1, <1>2 DEF WithAdded, Lines
<1> QED
  BY <1>0, <1>2, <1>5, <1>7, <1>8, BrowsingStep

LEMMA RemoveLineStep == ASSUME StoreInv, NEW s \in Sessions, RemoveLine(s) PROVE StoreInv'
<1>0. PICK p \in Lines(session[s].cart) :
        /\ BrowseStep(s, [session[s].cart EXCEPT ![p] = 0])
        /\ Emit(s, <<Event("remove_from_cart", p, session[s].cart[p], session[s].who, {})>>)
  BY DEF RemoveLine
<1>1. In(s, "browsing") /\ p \in Products /\ TypeOK
  BY <1>0 DEF BrowseStep, Browsing, StoreInv, Lines
<1>2. PICK old \in Seq(Events), cart \in [Products -> Nat] :
        /\ old = log[s] /\ cart = session[s].cart /\ cart \in Carts
        /\ StitchedLog(old) /\ OfOne(old, session[s].who) /\ Tells(old, cart)
  BY <1>1, OpenCart DEF Open
<1>3. PICK e \in PlainEvents : /\ e = Event("remove_from_cart", p, session[s].cart[p], session[s].who, {})
                               /\ e.customer = session[s].who /\ e.type = "remove_from_cart"
                               /\ Applied(cart, e) = [cart EXCEPT ![p] = 0]
  BY <1>1, <1>2, RemoveRow
<1>4. PICK x \in Sent(e), more \in Seq(Events) : more = Append(old, x) /\ log' = [log EXCEPT ![s] = more]
  <2>1. Emit(s, <<e>>)
    BY <1>0, <1>3
  <2> QED
    BY <1>2, <2>1, EmitOne
<1>5. StitchedLog(more) /\ OfOne(more, session[s].who) /\ Tells(more, [cart EXCEPT ![p] = 0])
  <2>1. Tells(more, Applied(cart, e)) /\ StitchedLog(more) /\ OfOne(more, session[s].who)
    BY <1>2, <1>3, <1>4, LogGrows
  <2> QED
    BY <1>3, <2>1
<1>6. /\ [cart EXCEPT ![p] = 0] \in [Products -> Nat]
      /\ Lines([cart EXCEPT ![p] = 0]) \subseteq Lines(cart) \cup catalog
  BY <1>1, <1>2 DEF Lines
<1> QED
  BY <1>0, <1>2, <1>4, <1>5, <1>6, BrowsingStep

\* The announcement of a checkout, after whatever the cart was filled with.
LEMMA CheckoutTold ==
  ASSUME NEW s \in Sessions, NEW k \in Customers, NEW items \in [Products -> Nat], items \in Carts,
         NEW one \in Seq(Events), StitchedLog(one), OfOne(one, session[s].who), Tells(one, items),
         session[s].who \in {NoCustomer, k},
         NEW e \in PlainEvents, e = CheckoutEvent(s, k, items), NEW x \in Sent(e),
         NEW more \in Seq(Events), more = Append(one, x)
  PROVE  /\ StitchedLog(more) /\ OfOne(more, k) /\ Tells(more, items)
         /\ Announces(more, k, items, Lines(items) \cap catalog)
<1>1. /\ e.type = "begin_checkout" /\ e.customer = k
      /\ e.units = Units(items) /\ e.priced = Lines(items) \cap catalog
      /\ \A c : Applied(c, e) = c
  BY CheckoutRow
<1>2. k # NoCustomer
  OBVIOUS
<1>3. /\ StitchedLog(more) /\ OfOne(more, e.customer) /\ Tells(more, Applied(items, e))
      /\ more # <<>> /\ Last(more) = x
  BY <1>1, <1>2, LogGrows
<1>4. /\ x.type \in {"begin_checkout", "unknown_event"} /\ x.customer = k
      /\ x.units = Units(items) /\ x.priced = Lines(items) \cap catalog
  BY <1>1, SentRows
<1> QED
  BY <1>1, <1>3, <1>4 DEF Announces

\* An empty cart is filled first, in the name the session has so far; then the checkout is
\* announced in the name of the buyer.
LEMMA BeginCheckoutStep == ASSUME StoreInv, NEW s \in Sessions, BeginCheckout(s) PROVE StoreInv'
<1>0. PICK k \in Buyers(s), adds \in LastMinute(s) :
        LET items == Filled(session[s].cart, adds) IN
        /\ IF k = session[s].who THEN UNCHANGED customer ELSE Identify(k)
        /\ session' = [session EXCEPT ![s].phase = "ordering", ![s].who = k, ![s].cart = items]
        /\ Emit(s, Append(adds, CheckoutEvent(s, k, items)))
  BY DEF BeginCheckout
<1>1. /\ In(s, "browsing") /\ TypeOK /\ session[s] \in SessionRows /\ catalog \subseteq Products
      /\ UNCHANGED <<product, ordered, catalog, crashes>>
      /\ session \in [Sessions -> SessionRows]
  BY Types DEF BeginCheckout, StoreInv
<1>2. PICK old \in Seq(Events), cart \in [Products -> Nat] :
        /\ old = log[s] /\ cart = session[s].cart /\ cart \in Carts
        /\ StitchedLog(old) /\ OfOne(old, session[s].who) /\ Tells(old, cart)
  BY <1>1, OpenCart DEF Open
<1>3. k \in Customers /\ session[s].who \in {NoCustomer, k}
  BY <1>1 DEF Buyers, SessionRows
<1>4. PICK items : items = Filled(session[s].cart, adds)
  OBVIOUS
<1>5. \E more \in Seq(Events) :
        /\ log' = [log EXCEPT ![s] = more] /\ StitchedLog(more) /\ OfOne(more, k)
        /\ Tells(more, items) /\ Announces(more, k, items, Lines(items) \cap catalog)
        /\ items \in [Products -> Nat] /\ Lines(items) \subseteq Lines(cart) \cup catalog
  <2>1. CASE adds = <<>>
    <3>1. items = cart
      BY <1>2, <1>4, <2>1, FilledCart
    <3>2. PICK e \in PlainEvents : e = CheckoutEvent(s, k, items)
      BY <1>3, <3>1, CheckoutRow
    <3>3. Emit(s, <<e>>)
      BY <1>0, <1>4, <2>1, <3>2
    <3>4. PICK x \in Sent(e), more \in Seq(Events) : more = Append(old, x) /\ log' = [log EXCEPT ![s] = more]
      BY <1>2, <3>3, EmitOne
    <3> QED
      BY <1>2, <1>3, <3>1, <3>2, <3>4, CheckoutTold
  <2>2. CASE \E p \in catalog, q \in Quantities : adds = <<AddEvent(s, p, q)>>
    <3>1. PICK p \in catalog, q \in Quantities : adds = <<AddEvent(s, p, q)>>
      BY <2>2
    <3>2. p \in Products /\ q \in Nat
      BY <1>1
    <3>3. PICK a \in PlainEvents : /\ a = AddEvent(s, p, q) /\ a.customer = session[s].who /\ a.type = "add_to_cart"
                                   /\ a.product = p /\ a.units = q
                                   /\ \A c : Applied(c, a) = WithAdded(c, p, q)
      BY <1>1, <3>2, EventRows
    <3>4. items = WithAdded(cart, p, q)
      <4>1. Filled(cart, <<a>>) = WithAdded(cart, a.product, a.units)
        BY FilledCart
      <4> QED
        BY <1>2, <1>4, <3>1, <3>3, <4>1
    <3>5. /\ items \in [Products -> Nat] /\ items \in Carts
          /\ Lines(items) \subseteq Lines(cart) \cup catalog
      BY <3>2, <3>4 DEF WithAdded, Lines, Carts
    <3>6. PICK e \in PlainEvents : e = CheckoutEvent(s, k, items)
      BY <1>3, <3>5, CheckoutRow
    <3>7. Emit(s, <<a, e>>)
      <4>1. adds = <<a>>
        BY <3>1, <3>3
      <4>2. Append(<<a>>, e) = <<a, e>>
        BY AppendToOne
      <4> QED
        BY <1>0, <1>4, <3>6, <4>1, <4>2
    <3>8. PICK y \in Sent(a), x \in Sent(e), one \in Seq(Events), more \in Seq(Events) :
            one = Append(old, y) /\ more = Append(one, x) /\ log' = [log EXCEPT ![s] = more]
      <4>1. old = log[s]
        BY <1>2
      <4> HIDE <1>2, <3>3, <3>6
      <4> QED
        BY <3>7, <4>1, EmitTwo
    <3>9. StitchedLog(one) /\ OfOne(one, session[s].who) /\ Tells(one, items)
      BY <1>2, <3>3, <3>4, <3>8, LogGrows
    <3>10. more \in Seq(Events) /\ more = Append(one, x) /\ log' = [log EXCEPT ![s] = more]
      BY <3>8
    <3>11. /\ StitchedLog(more) /\ OfOne(more, k) /\ Tells(more, items)
           /\ Announces(more, k, items, Lines(items) \cap catalog)
      BY <1>3, <3>5, <3>6, <3>9, <3>10, CheckoutTold
    <3> QED
      BY <3>5, <3>10, <3>11
  <2>3. adds = <<>> \/ \E p \in catalog, q \in Quantities : adds = <<AddEvent(s, p, q)>>
    BY DEF LastMinute
  <2> QED
    BY <2>1, <2>2, <2>3
<1>6. PICK more \in Seq(Events) :
        /\ log' = [log EXCEPT ![s] = more] /\ StitchedLog(more) /\ OfOne(more, k)
        /\ Tells(more, items) /\ Announces(more, k, items, Lines(items) \cap catalog)
        /\ items \in [Products -> Nat] /\ Lines(items) \subseteq Lines(cart) \cup catalog
  BY <1>5
<1>7. PICK row : row = [session[s] EXCEPT !.phase = "ordering", !.who = k, !.cart = items]
  OBVIOUS
<1>8. row \in SessionRows /\ row.phase = "ordering" /\ row.who = k /\ row.cart = items
  BY <1>1, <1>3, <1>6, <1>7 DEF SessionRows, Phases
<1>9. session' = [session EXCEPT ![s] = row]
  BY <1>0, <1>1, <1>4, <1>7
<1>10. customer' \in [Customers -> {"none", "active", "deleted"}]
  BY <1>0, <1>3, Types DEF StoreInv, Identify
<1> QED
  BY <1>1, <1>2, <1>6, <1>8, <1>9, <1>10, SessionMoves

LEMMA LeaveStep == ASSUME StoreInv, NEW s \in Sessions, Leave(s) \/ GiveUp(s) PROVE StoreInv'
<1>1. /\ Open(s) /\ EndSession(s) /\ UNCHANGED <<shop, ordered, catalog, log, crashes>>
      /\ ordered \in [Sessions -> Orders]
  BY Types DEF Leave, GiveUp, AfterRefusal, Open, StoreInv
<1>2. ordered[s] = NoOrder /\ ordered[s] \in Orders
  <2>1. SessionInv(s)
    BY DEF StoreInv
  <2> QED
    BY <1>1, <2>1 DEF SessionInv, Open, In
<1>3. ordered' = [ordered EXCEPT ![s] = NoOrder]
  BY <1>1, <1>2
<1> QED
  BY <1>1, <1>2, <1>3, SessionEnds

\* What place_order accepts is on sale, and so in the catalog of the announcement.
LEMMA PlaceOrderStep == ASSUME StoreInv, NEW s \in Sessions, PlaceOrder(s) PROVE StoreInv'
<1>1. /\ In(s, "ordering") /\ Open(s) /\ EndSession(s) /\ UNCHANGED <<shop, catalog, log, crashes>>
      /\ session[s] \in SessionRows /\ Lines(session[s].cart) \subseteq OnSale /\ SessionInv(s)
  BY Types DEF PlaceOrder, Open, StoreInv, Accepted
<1>2. PICK order : order = [buyer |-> session[s].who, items |-> session[s].cart]
  OBVIOUS
<1>3. order \in Orders /\ order.buyer = session[s].who /\ order.items = session[s].cart
  BY <1>1, <1>2 DEF Orders, SessionRows
<1>4. ordered' = [ordered EXCEPT ![s] = order]
  BY <1>2 DEF PlaceOrder
<1>5. Lines(session[s].cart) \cap catalog = Lines(session[s].cart)
  BY <1>1 DEF SessionInv, KnownCart, OnSale
<1>6. Announces(log[s], order.buyer, order.items, Lines(order.items))
  BY <1>1, <1>3, <1>5 DEF SessionInv
<1> QED
  BY <1>1, <1>3, <1>4, <1>6, SessionEnds

LEMMA StoreStep == StoreInv /\ [Next]_vars => StoreInv'
<1> SUFFICES ASSUME StoreInv, [Next]_vars PROVE StoreInv'
  OBVIOUS
<1>1. CASE UNCHANGED vars
  <2>1. UNCHANGED <<customer, product, ordered, catalog, session, log, crashes>>
    BY <1>1 DEF vars, shop
  <2>2. TypeOK' /\ CatalogKnown' /\ LogsKnown'
    BY <2>1 DEF StoreInv, TypeOK, CatalogKnown, LogsKnown
  <2>3. ASSUME NEW s \in Sessions PROVE SessionInv(s)'
    <3>1. SessionInv(s) /\ (Open(s) => KnownCart(s)')
      BY <2>1 DEF StoreInv, SessionInv, KnownCart, Lines
    <3> QED
      BY <2>1, <3>1, SessionKept
  <2> QED
    BY <2>2, <2>3 DEF StoreInv
<1>2. CASE Next
  <2>1. CASE Refresh
    BY <2>1, RefreshStep
  <2>2. CASE Crash
    <3>1. LoseMemory /\ crashes' \in 0 .. MaxCrashes
      BY <2>2, Types DEF Crash, StoreInv
    <3> QED
      BY <3>1, MemoryLost
  <2>3. ASSUME NEW s \in Sessions, Start(s) \/ Step(s) PROVE StoreInv'
    BY <2>3, StartStep, ViewStep, ViewAndAddStep, RemoveLineStep, LeaveStep, BeginCheckoutStep,
       PlaceOrderStep DEF Step, Browse
  <2> QED
    BY <1>2, <2>1, <2>2, <2>3, BackofficeStep DEF Next
<1> QED
  BY <1>1, <1>2

LEMMA StoreInvariant == Spec => []StoreInv
BY StoreInit, StoreStep, PTL DEF Spec

-----------------------------------------------------------------------------
(* The theorems.                                                           *)

\* Type correctness: in particular a session never takes more steps than it has left.
THEOREM StorefrontTypeCorrect == Spec => []TypeOK
<1>1. StoreInv => TypeOK
  BY DEF StoreInv
<1> QED
  BY <1>1, StoreInvariant, PTL

\* A consumer that replays the valid events of a session has its cart, at every step,
\* but for the lines an event of which was corrupted (_browse, _add_to_cart, _corrupt).
THEOREM CartAlwaysMatchesEvents == Spec => []CartMatchesEvents
<1>1. StoreInv => CartMatchesEvents
  BY DEF StoreInv, SessionInv, CartMatchesEvents
<1> QED
  BY <1>1, StoreInvariant, PTL

\* An order is what the events of its session say: the buyer and the units of its last
\* event, however corrupted, and every line of the replayed cart that no corrupted event
\* is about (_checkout).
THEOREM OrderAlwaysMatchesEvents == Spec => []OrderMatchesEvents
<1>1. StoreInv => OrderMatchesEvents
  <2> SUFFICES ASSUME StoreInv, NEW s \in Sessions, ordered[s] # NoOrder
               PROVE  LET e == Last(log[s]) IN
                      /\ e.type \in {"begin_checkout", "unknown_event"}
                      /\ e.customer = ordered[s].buyer /\ e.units = Units(ordered[s].items)
                      /\ Tells(log[s], ordered[s].items)
    BY DEF OrderMatchesEvents
  <2>1. SessionInv(s)
    BY DEF StoreInv
  <2>2. Tells(log[s], ordered[s].items)
    BY <2>1 DEF SessionInv, In
  <2> QED
    BY <2>1, <2>2 DEF SessionInv, Announces
<1> QED
  BY <1>1, StoreInvariant, PTL

\* The cart_value announced for an order covers all its lines, whatever is launched,
\* discontinued or refreshed meanwhile (_checkout, prices.get).
THEOREM OrdersAlwaysFullyPriced == Spec => []OrdersFullyPriced
<1>1. StoreInv => OrdersFullyPriced
  BY DEF StoreInv, SessionInv, Announces, OrdersFullyPriced
<1> QED
  BY <1>1, StoreInvariant, PTL

\* The events of a session are of one customer from the stitching point on (_checkout).
THEOREM SessionsAlwaysStitched == Spec => []Stitched
<1>1. StoreInv => Stitched
  BY DEF StoreInv, SessionInv, StitchedLog, Stitched
<1> QED
  BY <1>1, StoreInvariant, PTL

=============================================================================
