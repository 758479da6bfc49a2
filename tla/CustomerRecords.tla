-------------------------- MODULE CustomerRecords --------------------------
(***************************************************************************)
(* Customers and their addresses (usecases/customers.py) under several     *)
(* back offices (traffic/backoffice.py), statement by statement.           *)
(*                                                                         *)
(* Every use case on an existing customer is one transaction that locks    *)
(* the customer FOR UPDATE and checks its status, then writes.  An UPDATE  *)
(* of addresses reaches the rows its own snapshot sees.  Nothing of a      *)
(* transaction is seen before it commits.  Moving to a new address is two  *)
(* transactions; a DomainError of any of them is suppressed by the back    *)
(* office, which goes on with the next action.                             *)
(***************************************************************************)
EXTENDS Naturals, FiniteSets

CONSTANTS
  Customers, Addresses,     \* ids
  Offices,                  \* processes that run a back office
  NoCustomer, NoAddress,
  MaxCrashes                \* bound: processes killed in a transaction

ASSUME RecordsAssumption ==
  NoCustomer \notin Customers /\ NoAddress \notin Addresses /\ MaxCrashes \in Nat

VARIABLES
  customer,  \* status, and contact: full_name, email, phone and document
  address,   \* customer_id, whether street, number and zip_code are there, is_primary
  office,    \* what each back office runs, how far it is, for whom and on which rows
  crashes

tables == <<customer, address>>
vars == <<tables, office, crashes>>

NoRow == [status |-> "none", contact |-> "none"]
Registered == [status |-> "active", contact |-> "personal"]
Erased == [status |-> "deleted", contact |-> "null"]

NewAddress(k, isPrimary) == [owner |-> k, personal |-> TRUE, primary |-> isPrimary]
Nowhere == [owner |-> NoCustomer, personal |-> FALSE, primary |-> FALSE]

\* Phases: idle, lock: waits for the customer, update, commit.
AtRest == [job |-> "none", phase |-> "idle", who |-> NoCustomer, adds |-> NoAddress, affected |-> {}]

\* With the CHECK of customers: personal data is required unless the row is deleted.
TypeOK ==
  /\ customer \in [Customers -> {NoRow, Registered, Erased}]
  /\ address \in [Addresses -> [owner : Customers \cup {NoCustomer}, personal : BOOLEAN, primary : BOOLEAN]]
  /\ office \in [Offices ->
       [job : {"none", "contact", "add", "primary", "forget"}, phase : {"idle", "lock", "update", "commit"},
        who : Customers \cup {NoCustomer}, adds : Addresses \cup {NoAddress}, affected : SUBSET Addresses]]
  /\ crashes \in 0 .. MaxCrashes

Init ==
  /\ customer = [k \in Customers |-> NoRow]
  /\ address = [a \in Addresses |-> Nowhere]
  /\ office = [c \in Offices |-> AtRest]
  /\ crashes = 0

-----------------------------------------------------------------------------
AddressesOf(k) == {a \in Addresses : address[a].owner = k}

Unused(a) == address[a] = Nowhere /\ \A c \in Offices : office[c].adds # a

\* register_customer: the customer and a primary address, in one transaction.
Register(k, a) ==
  /\ customer[k] = NoRow /\ Unused(a)
  /\ customer' = [customer EXCEPT ![k] = Registered]
  /\ address' = [address EXCEPT ![a] = NewAddress(k, TRUE)]
  /\ UNCHANGED <<office, crashes>>

\* _pick, in a statement of its own: the customer is active now.
Pick(c, job, k, a) ==
  /\ office[c].phase = "idle" /\ customer[k].status = "active"
  /\ office' = [office EXCEPT ![c] = [AtRest EXCEPT !.job = job, !.phase = "lock", !.who = k, !.adds = a]]
  /\ UNCHANGED <<tables, crashes>>

PickContact(c, k) == Pick(c, "contact", k, NoAddress)
PickMove(c, k) == \E a \in Addresses : Unused(a) /\ Pick(c, "add", k, a)
PickForget(c, k) == Pick(c, "forget", k, NoAddress)

\* "nothing to pick": the action is given up until the next tick.
PickNobody(c) ==
  /\ office[c].phase = "idle" /\ \A k \in Customers : customer[k].status # "active"
  /\ UNCHANGED vars

\* The back office is done with its action, or the process is gone.
Idle(c) == office' = [office EXCEPT ![c] = AtRest]

Holds(d, k) == office[d].phase \in {"update", "commit"} /\ office[d].who = k

LockFree_Always(c) == TRUE
LockFree(c) == \A d \in Offices \ {c} : ~Holds(d, office[c].who)

\* The status is read after the wait for the lock.
StillActive_Unchecked(k) == TRUE
StillActive(k) == customer[k].status = "active"

\* A DomainError ends the transaction and is suppressed.
Suppress_TryAgain(c) == UNCHANGED office
Suppress(c) == Idle(c)

\* _lock_active_customer.
LockCustomer(c) ==
  /\ office[c].phase = "lock" /\ LockFree(c)
  /\ IF StillActive(office[c].who) THEN office' = [office EXCEPT ![c].phase = "update"] ELSE Suppress(c)
  /\ UNCHANGED <<tables, crashes>>

\* The rows an UPDATE of addresses changes, in the snapshot of that statement.
AffectedRows_NoUnset(c) == IF office[c].job = "forget" THEN AddressesOf(office[c].who) ELSE {}
AffectedRows(c) ==
  CASE office[c].job = "forget" -> AddressesOf(office[c].who)
    [] office[c].job = "primary" -> {a \in AddressesOf(office[c].who) : address[a].primary}
    [] OTHER -> {}

Update(c) ==
  /\ office[c].phase = "update"
  /\ office' = [office EXCEPT ![c].affected = AffectedRows(c), ![c].phase = "commit"]
  /\ UNCHANGED <<tables, crashes>>

Committing(c, job) == office[c].phase = "commit" /\ office[c].job = job /\ UNCHANGED crashes

\* update_customer_contact, as the back office calls it: a new phone number.
CommitContact(c) ==
  /\ Committing(c, "contact") /\ Idle(c)
  /\ customer' = [customer EXCEPT ![office[c].who].contact = "personal"]
  /\ UNCHANGED address

\* add_address; the move goes on with a transaction of its own.
CommitAdd(c) ==
  /\ Committing(c, "add")
  /\ address' = [address EXCEPT ![office[c].adds] = NewAddress(office[c].who, FALSE)]
  /\ office' = [office EXCEPT ![c].job = "primary", ![c].phase = "lock"]
  /\ UNCHANGED customer

\* set_primary_address: the old flag is cleared first.  The address belongs to the
\* customer, it has just been added for it.
CommitPrimary(c) ==
  /\ Committing(c, "primary") /\ Idle(c)
  /\ address' = [a \in Addresses |-> [address[a] EXCEPT
                   !.primary = a = office[c].adds \/ (@ /\ a \notin office[c].affected)]]
  /\ UNCHANGED customer

\* forget_customer.
CommitForget(c) ==
  /\ Committing(c, "forget") /\ Idle(c)
  /\ customer' = [customer EXCEPT ![office[c].who] = Erased]
  /\ address' = [a \in Addresses |-> [address[a] EXCEPT !.personal = @ /\ a \notin office[c].affected]]

\* The process dies; its open transaction is rolled back.
Crash(c) ==
  /\ crashes < MaxCrashes /\ office[c].phase # "idle"
  /\ crashes' = crashes + 1
  /\ Idle(c)
  /\ UNCHANGED tables

Proceed(c) ==
  Update(c) \/ CommitContact(c) \/ CommitAdd(c) \/ CommitPrimary(c) \/ CommitForget(c)

Next ==
  \/ \E k \in Customers, a \in Addresses : Register(k, a)
  \/ \E c \in Offices :
       \/ \E k \in Customers : PickContact(c, k) \/ PickMove(c, k) \/ PickForget(c, k)
       \/ PickNobody(c) \/ LockCustomer(c) \/ Proceed(c) \/ Crash(c)

Spec == Init /\ [][Next]_vars

\* A back office that has begun goes on; the row lock is granted in the order it was
\* asked for, so nobody is passed over for ever.
FairSpec == Spec /\ \A c \in Offices : WF_vars(Proceed(c)) /\ SF_vars(LockCustomer(c))

-----------------------------------------------------------------------------
(* Properties.                                                             *)

\* An erased customer has no personal data left in any row, whatever was being added
\* or changed while the erasure ran.  (forget_customer, _lock_active_customer)
ErasureComplete ==
  \A k \in Customers : customer[k].status = "deleted" =>
    customer[k].contact = "null" /\ \A a \in AddressesOf(k) : ~address[a].personal

\* A customer has one primary address at all times, whatever moves overlap or break off
\* half way.  (set_primary_address; addresses_one_primary_uq)
OnePrimaryAddress ==
  \A k \in Customers : customer[k].status # "none" =>
    \E a \in Addresses : {b \in AddressesOf(k) : address[b].primary} = {a}

\* What is known about a customer, over both tables.
Known(k) ==
  CASE customer[k].contact = "none" -> "none"
    [] customer[k].contact = "personal" -> "held"
    [] customer[k].contact = "null" ->
         IF \E a \in AddressesOf(k) : address[a].personal THEN "partly held" ELSE "erased"

Promise == INSTANCE Privacy WITH data <- [k \in Customers |-> Known(k)]

\* Personal data is erased in one step and for good.  (forget_customer; README, LGPD)
ImplementsPrivacy == Promise!Spec

\* Every action of a back office ends: no lock is left behind by an error or a crash.
\* (Backoffice.tick, contextlib.suppress)
JobsEnd == \A c \in Offices : office[c].phase # "idle" ~> office[c].phase = "idle"
=============================================================================
