----------------------- MODULE CustomerRecordsProofs -----------------------
(***************************************************************************)
(* Theorems about CustomerRecords: erasure, the primary address and the    *)
(* promise of Privacy, for any number of customers, addresses, back        *)
(* offices and crashes.                                                    *)
(***************************************************************************)
EXTENDS CustomerRecords, TLAPS

-----------------------------------------------------------------------------
(* The invariant.                                                          *)

Locking(c) == office[c].phase \in {"update", "commit"}

\* What a back office knows at each point of its action.  Under the lock the customer stays
\* registered, and the rows an update has found are still the rows it is about.
JobValid(c) ==
  /\ office[c].phase = "idle" => office[c] = AtRest
  /\ office[c].phase # "idle" => office[c].who \in Customers /\ office[c].job # "none"
  /\ office[c].job = "add" => office[c].adds \in Addresses /\ address[office[c].adds] = Nowhere
  /\ office[c].job = "primary" =>
       office[c].adds \in Addresses /\ address[office[c].adds].owner = office[c].who
  /\ Locking(c) => customer[office[c].who] = Registered
  /\ office[c].phase = "commit" => office[c].affected = AffectedRows(c)

LocksExclusive ==
  \A c, d \in Offices : Locking(c) /\ Locking(d) /\ office[c].who = office[d].who => c = d

\* No two back offices are about to add the same row.
AddsExclusive ==
  \A c, d \in Offices : office[c].adds \in Addresses /\ office[c].adds = office[d].adds => c = d

\* The foreign key of addresses, and rows that are not there are empty.
OwnersExist ==
  \A a \in Addresses :
    /\ address[a].owner = NoCustomer => address[a] = Nowhere
    /\ address[a].owner \in Customers => customer[address[a].owner] # NoRow

RecordsInv ==
  /\ TypeOK
  /\ \A c \in Offices : JobValid(c)
  /\ LocksExclusive /\ AddsExclusive /\ OwnersExist
  /\ ErasureComplete /\ OnePrimaryAddress

OfficeRows ==
  [job : {"none", "contact", "add", "primary", "forget"}, phase : {"idle", "lock", "update", "commit"},
   who : Customers \cup {NoCustomer}, adds : Addresses \cup {NoAddress}, affected : SUBSET Addresses]

AddressRows == [owner : Customers \cup {NoCustomer}, personal : BOOLEAN, primary : BOOLEAN]

CustomerRows == {NoRow, Registered, Erased}

LEMMA Types ==
  TypeOK <=> /\ customer \in [Customers -> CustomerRows]
             /\ address \in [Addresses -> AddressRows]
             /\ office \in [Offices -> OfficeRows]
             /\ crashes \in 0 .. MaxCrashes
BY DEF TypeOK, OfficeRows, AddressRows, CustomerRows

LEMMA RowsAtRest ==
  /\ AtRest \in OfficeRows /\ AtRest.phase = "idle" /\ AtRest.job = "none"
  /\ AtRest.who = NoCustomer /\ AtRest.adds = NoAddress /\ AtRest.affected = {}
BY DEF AtRest, OfficeRows

LEMMA NowhereRow ==
  /\ Nowhere \in AddressRows /\ Nowhere.owner = NoCustomer /\ ~Nowhere.personal /\ ~Nowhere.primary
BY DEF Nowhere, AddressRows

LEMMA NewRow ==
  ASSUME NEW k \in Customers, NEW b \in BOOLEAN
  PROVE  /\ NewAddress(k, b) \in AddressRows /\ NewAddress(k, b).owner = k
         /\ NewAddress(k, b).personal /\ NewAddress(k, b).primary = b
BY DEF NewAddress, AddressRows

LEMMA CustomerRowFacts ==
  /\ NoRow.status = "none" /\ NoRow.contact = "none"
  /\ Registered.status = "active" /\ Registered.contact = "personal"
  /\ Erased.status = "deleted" /\ Erased.contact = "null"
  /\ NoRow # Registered /\ NoRow # Erased /\ Registered # Erased
BY DEF NoRow, Registered, Erased

LEMMA RecordsInit == Init => RecordsInv
<1> SUFFICES ASSUME Init PROVE RecordsInv
  OBVIOUS
<1>1. /\ \A k \in Customers : customer[k] = NoRow
      /\ \A a \in Addresses : address[a] = Nowhere
      /\ \A c \in Offices : office[c] = AtRest
  BY DEF Init
<1>2. TypeOK
  BY RecordsAssumption, RowsAtRest, NowhereRow, Types DEF Init, CustomerRows
<1>3. \A c \in Offices : JobValid(c)
  BY <1>1, RowsAtRest DEF JobValid, Locking
<1>4. LocksExclusive /\ AddsExclusive
  BY <1>1, RowsAtRest, RecordsAssumption DEF LocksExclusive, AddsExclusive, Locking
<1>5. OwnersExist
  BY <1>1, NowhereRow, RecordsAssumption DEF OwnersExist
<1>6. ErasureComplete /\ OnePrimaryAddress
  BY <1>1, CustomerRowFacts DEF ErasureComplete, OnePrimaryAddress
<1> QED
  BY <1>2, <1>3, <1>4, <1>5, <1>6 DEF RecordsInv

-----------------------------------------------------------------------------
(* The steps of a back office outside its commits.                         *)

\* A step that leaves the tables alone.
LEMMA OfficeStep ==
  ASSUME RecordsInv, NEW c \in Offices, NEW row \in OfficeRows,
         office' = [office EXCEPT ![c] = row], UNCHANGED tables, crashes' \in 0 .. MaxCrashes,
         JobValid(c)',
         Locking(c)' => \A d \in Offices \ {c} : ~Holds(d, row.who),
         row.adds \in Addresses => \A d \in Offices \ {c} : office[d].adds # row.adds
  PROVE  RecordsInv'
<1>1. /\ office \in [Offices -> OfficeRows] /\ office'[c] = row
      /\ \A d \in Offices \ {c} : office'[d] = office[d]
  BY Types DEF RecordsInv
<1>2. UNCHANGED <<customer, address>>
  BY DEF tables
<1>3. TypeOK'
  BY <1>1, <1>2 DEF RecordsInv, TypeOK, OfficeRows
<1>4. \A d \in Offices : JobValid(d)'
  <2> SUFFICES ASSUME NEW d \in Offices, d # c PROVE JobValid(d)'
    OBVIOUS
  <2>1. JobValid(d) /\ office'[d] = office[d]
    BY <1>1 DEF RecordsInv
  <2> QED
    BY <1>2, <2>1 DEF JobValid, Locking, AffectedRows, AddressesOf
<1>5. LocksExclusive'
  BY <1>1 DEF RecordsInv, LocksExclusive, Locking, Holds
<1>6. AddsExclusive'
  BY <1>1 DEF RecordsInv, AddsExclusive
<1>7. OwnersExist' /\ ErasureComplete' /\ OnePrimaryAddress'
  BY <1>2 DEF RecordsInv, OwnersExist, ErasureComplete, OnePrimaryAddress, AddressesOf
<1> QED
  BY <1>3, <1>4, <1>5, <1>6, <1>7 DEF RecordsInv

LEMMA RestStep ==
  ASSUME RecordsInv, NEW c \in Offices, Idle(c), UNCHANGED tables, crashes' \in 0 .. MaxCrashes
  PROVE  RecordsInv'
<1>1. office'[c] = AtRest
  BY Types DEF RecordsInv, Idle
<1>2. JobValid(c)'
  BY <1>1, RowsAtRest DEF JobValid, Locking
<1> QED
  BY <1>1, <1>2, OfficeStep, RowsAtRest, RecordsAssumption DEF Idle, Locking

LEMMA PickStep ==
  ASSUME RecordsInv, NEW c \in Offices, NEW k \in Customers,
         PickContact(c, k) \/ PickMove(c, k) \/ PickForget(c, k)
  PROVE  RecordsInv'
<1>1. ASSUME NEW job \in {"contact", "add", "forget"}, NEW a \in Addresses \cup {NoAddress},
             Pick(c, job, k, a), a \in Addresses => Unused(a), job = "add" => a \in Addresses
      PROVE  RecordsInv'
  <2> DEFINE row == [AtRest EXCEPT !.job = job, !.phase = "lock", !.who = k, !.adds = a]
  <2>1. /\ row \in OfficeRows /\ row.job = job /\ row.phase = "lock"
        /\ row.who = k /\ row.adds = a
    BY DEF AtRest, OfficeRows
  <2>2. office' = [office EXCEPT ![c] = row] /\ UNCHANGED <<tables, crashes>>
    BY <1>1 DEF Pick
  <2> HIDE DEF row
  <2>3. office'[c] = row
    BY <2>2, Types DEF RecordsInv
  <2>4. job = "add" => address'[a] = Nowhere
    BY <1>1, <2>2 DEF Unused, tables
  <2>5. JobValid(c)'
    BY <1>1, <2>1, <2>3, <2>4 DEF JobValid, Locking
  <2>6. crashes' \in 0 .. MaxCrashes
    BY <2>2, Types DEF RecordsInv
  <2>7. ~Locking(c)' /\ (a \in Addresses => \A d \in Offices \ {c} : office[d].adds # a)
    BY <1>1, <2>1, <2>3 DEF Locking, Unused
  <2> QED
    BY <2>1, <2>2, <2>5, <2>6, <2>7, OfficeStep
<1>2. CASE PickContact(c, k)
  BY <1>1, <1>2, RecordsAssumption DEF PickContact
<1>3. CASE PickMove(c, k)
  BY <1>1, <1>3 DEF PickMove
<1>4. CASE PickForget(c, k)
  BY <1>1, <1>4, RecordsAssumption DEF PickForget
<1> QED
  BY <1>2, <1>3, <1>4

LEMMA LockStep == ASSUME RecordsInv, NEW c \in Offices, LockCustomer(c) PROVE RecordsInv'
<1>1. /\ office \in [Offices -> OfficeRows] /\ customer \in [Customers -> CustomerRows]
      /\ UNCHANGED <<customer, address>> /\ crashes' \in 0 .. MaxCrashes
  BY Types DEF RecordsInv, LockCustomer, tables
<1>2. CASE ~StillActive(office[c].who)
  BY <1>1, <1>2, RestStep DEF LockCustomer, Suppress, tables
<1>3. CASE StillActive(office[c].who)
  <2> DEFINE row == [office[c] EXCEPT !.phase = "update"]
  <2>1. office[c] \in OfficeRows
    BY <1>1
  <2>2. /\ row \in OfficeRows /\ row.phase = "update" /\ row.job = office[c].job
        /\ row.who = office[c].who /\ row.adds = office[c].adds
    BY <2>1 DEF OfficeRows
  <2>3. office[c].phase = "lock" /\ LockFree(c) /\ office' = [office EXCEPT ![c] = row]
    BY <1>1, <1>3 DEF LockCustomer
  <2> HIDE DEF row
  <2>4. office'[c] = row
    BY <1>1, <2>3
  <2>5. office[c].who \in Customers /\ customer[office[c].who] = Registered
    <3>1. office[c].who \in Customers
      BY <2>3 DEF RecordsInv, JobValid
    <3> QED
      BY <1>1, <1>3, <3>1, CustomerRowFacts DEF StillActive, CustomerRows
  <2>6. JobValid(c)'
    <3>1. JobValid(c)
      BY DEF RecordsInv
    <3> QED
      BY <1>1, <2>2, <2>3, <2>4, <2>5, <3>1 DEF JobValid, Locking
  <2>7. \A d \in Offices \ {c} : ~Holds(d, row.who)
    BY <2>2, <2>3 DEF LockFree
  <2>8. row.adds \in Addresses => \A d \in Offices \ {c} : office[d].adds # row.adds
    BY <2>2 DEF RecordsInv, AddsExclusive
  <2> QED
    BY <1>1, <2>2, <2>3, <2>6, <2>7, <2>8, OfficeStep DEF tables
<1> QED
  BY <1>2, <1>3

LEMMA UpdateStep == ASSUME RecordsInv, NEW c \in Offices, Update(c) PROVE RecordsInv'
<1>1. /\ office \in [Offices -> OfficeRows] /\ office[c] \in OfficeRows
      /\ UNCHANGED <<customer, address>> /\ crashes' \in 0 .. MaxCrashes
  BY Types DEF RecordsInv, Update, tables
<1> DEFINE rows == AffectedRows(c)
           row == [office[c] EXCEPT !.affected = rows, !.phase = "commit"]
<1>2. rows \in SUBSET Addresses
  BY DEF AffectedRows, AddressesOf
<1>3. office[c].phase = "update" /\ office' = [office EXCEPT ![c] = row]
  BY <1>1 DEF Update
<1> HIDE DEF rows
<1>4. /\ row \in OfficeRows /\ row.phase = "commit" /\ row.job = office[c].job
      /\ row.who = office[c].who /\ row.adds = office[c].adds /\ row.affected = rows
  BY <1>1, <1>2 DEF OfficeRows
<1> HIDE DEF row
<1>5. office'[c] = row
  BY <1>1, <1>3
<1>6. JobValid(c)'
  <2>1. JobValid(c)
    BY DEF RecordsInv
  <2>2. AffectedRows(c)' = rows
    BY <1>1, <1>4, <1>5 DEF AffectedRows, AddressesOf, rows
  <2> QED
    BY <1>1, <1>3, <1>4, <1>5, <2>1, <2>2 DEF JobValid, Locking
<1>7. \A d \in Offices \ {c} : ~Holds(d, row.who)
  BY <1>3, <1>4 DEF RecordsInv, LocksExclusive, Locking, Holds
<1>8. row.adds \in Addresses => \A d \in Offices \ {c} : office[d].adds # row.adds
  BY <1>4 DEF RecordsInv, AddsExclusive
<1> QED
  BY <1>1, <1>3, <1>4, <1>6, <1>7, <1>8, OfficeStep DEF tables

-----------------------------------------------------------------------------
(* The commits.                                                            *)

\* What ErasureComplete and OnePrimaryAddress say of one customer.
Tidy(k) ==
  /\ customer[k].status = "deleted" => customer[k].contact = "null" /\ \A a \in AddressesOf(k) : ~address[a].personal
  /\ customer[k].status # "none" => \E a \in Addresses : {b \in AddressesOf(k) : address[b].primary} = {a}

LEMMA TidyAll == ErasureComplete /\ OnePrimaryAddress <=> \A k \in Customers : Tidy(k)
BY DEF ErasureComplete, OnePrimaryAddress, Tidy

SameRows(k) ==
  /\ customer'[k] = customer[k]
  /\ \A a \in Addresses : address[a].owner = k \/ address'[a].owner = k => address'[a] = address[a]

\* A commit for one customer does not concern the others.
LEMMA OthersTidy == ASSUME RecordsInv, NEW k \in Customers, SameRows(k) PROVE Tidy(k)'
<1>1. Tidy(k)
  BY TidyAll DEF RecordsInv
<1>2. AddressesOf(k)' = AddressesOf(k) /\ \A a \in AddressesOf(k) : address'[a] = address[a]
  BY DEF AddressesOf, SameRows
<1>3. {b \in AddressesOf(k) : address[b].primary}' = {b \in AddressesOf(k) : address[b].primary}
  BY <1>2
<1> QED
  BY <1>1, <1>2, <1>3 DEF Tidy, SameRows

LEMMA OthersValid ==
  ASSUME RecordsInv, NEW d \in Offices, office'[d] = office[d],
         Locking(d) => SameRows(office[d].who),
         office[d].job = "add" => address'[office[d].adds] = address[office[d].adds],
         office[d].job = "primary" => address'[office[d].adds].owner = address[office[d].adds].owner
  PROVE  JobValid(d)'
<1>1. JobValid(d)
  BY DEF RecordsInv
<1>2. Locking(d) => AffectedRows(d)' = AffectedRows(d)
  <2> SUFFICES ASSUME SameRows(office[d].who) PROVE AffectedRows(d)' = AffectedRows(d)
    OBVIOUS
  <2>1. /\ AddressesOf(office[d].who)' = AddressesOf(office[d].who)
        /\ \A a \in AddressesOf(office[d].who) : address'[a] = address[a]
    BY DEF AddressesOf, SameRows
  <2> QED
    BY <2>1 DEF AffectedRows
<1> QED
  BY <1>1, <1>2 DEF JobValid, Locking, SameRows

LEMMA RegisterStep ==
  ASSUME RecordsInv, NEW k \in Customers, NEW a \in Addresses, Register(k, a)
  PROVE  RecordsInv'
<1>1. /\ customer \in [Customers -> CustomerRows] /\ address \in [Addresses -> AddressRows]
      /\ office \in [Offices -> OfficeRows] /\ crashes \in 0 .. MaxCrashes
  BY Types DEF RecordsInv
<1>2. /\ customer[k] = NoRow /\ address[a] = Nowhere /\ UNCHANGED <<office, crashes>>
      /\ \A c \in Offices : office[c].adds # a
      /\ customer' = [customer EXCEPT ![k] = Registered]
      /\ address' = [address EXCEPT ![a] = NewAddress(k, TRUE)]
  BY DEF Register, Unused
<1>3. /\ customer'[k] = Registered /\ \A j \in Customers \ {k} : customer'[j] = customer[j]
      /\ address'[a] = NewAddress(k, TRUE) /\ \A b \in Addresses \ {a} : address'[b] = address[b]
  BY <1>1, <1>2
<1>n. /\ NewAddress(k, TRUE) \in AddressRows /\ NewAddress(k, TRUE).owner = k
      /\ NewAddress(k, TRUE).primary /\ NewAddress(k, TRUE) # Nowhere
  <2>1. NewAddress(k, TRUE) \in AddressRows /\ NewAddress(k, TRUE).owner = k /\ NewAddress(k, TRUE).primary
    BY DEF NewAddress, AddressRows
  <2> QED
    BY <2>1, NowhereRow, RecordsAssumption
<1>4. TypeOK'
  BY <1>1, <1>2, <1>n, Types DEF CustomerRows, OfficeRows, TypeOK, AddressRows
<1>5. \A j \in Customers \ {k} : SameRows(j)
  BY <1>2, <1>3, <1>n, NowhereRow, RecordsAssumption DEF SameRows
<1>6. \A d \in Offices : JobValid(d)'
  <2> SUFFICES ASSUME NEW d \in Offices PROVE JobValid(d)'
    OBVIOUS
  <2>1. JobValid(d)
    BY DEF RecordsInv
  <2>2. Locking(d) => SameRows(office[d].who)
    BY <1>2, <1>5, <2>1, CustomerRowFacts DEF JobValid, Locking
  <2>3. office[d].job = "add" => address'[office[d].adds] = address[office[d].adds]
    BY <1>2, <1>3, <2>1 DEF JobValid
  <2>4. office[d].job = "primary" => address'[office[d].adds].owner = address[office[d].adds].owner
    BY <1>2, <1>3, <2>1 DEF JobValid
  <2> QED
    BY <1>2, <2>2, <2>3, <2>4, OthersValid
<1>7. LocksExclusive' /\ AddsExclusive'
  BY <1>2 DEF RecordsInv, LocksExclusive, AddsExclusive, Locking
<1>8. OwnersExist'
  <2>1. OwnersExist
    BY DEF RecordsInv
  <2> SUFFICES ASSUME NEW b \in Addresses
               PROVE  /\ address'[b].owner = NoCustomer => address'[b] = Nowhere
                      /\ address'[b].owner \in Customers => customer'[address'[b].owner] # NoRow
    BY DEF OwnersExist
  <2>2. CASE b = a
    BY <1>3, <1>n, <2>2, CustomerRowFacts, RecordsAssumption
  <2>3. CASE b # a
    BY <1>3, <2>1, <2>3, CustomerRowFacts DEF OwnersExist
  <2> QED
    BY <2>2, <2>3
<1>9. Tidy(k)'
  <2>1. \A b \in Addresses : address[b].owner # k
    BY <1>2 DEF RecordsInv, OwnersExist
  <2>2. AddressesOf(k)' = {a} /\ address'[a].primary
    BY <1>3, <1>n, <2>1 DEF AddressesOf
  <2>3. {b \in AddressesOf(k) : address[b].primary}' = {a}
    BY <2>2
  <2> QED
    BY <1>3, <2>3, CustomerRowFacts DEF Tidy
<1>10. \A j \in Customers : Tidy(j)'
  BY <1>5, <1>9, OthersTidy
<1>11. ErasureComplete' /\ OnePrimaryAddress'
  BY <1>10 DEF ErasureComplete, OnePrimaryAddress, Tidy
<1> QED
  BY <1>4, <1>6, <1>7, <1>8, <1>11 DEF RecordsInv

\* What holds of a back office that commits, and of the others meanwhile.
LEMMA CommitFacts ==
  ASSUME RecordsInv, NEW c \in Offices, office[c].phase = "commit"
  PROVE  /\ office[c].who \in Customers /\ customer[office[c].who] = Registered
         /\ office[c].affected = AffectedRows(c)
         /\ \A d \in Offices \ {c} : Locking(d) => office[d].who \in Customers /\ office[d].who # office[c].who
<1>1. JobValid(c) /\ \A d \in Offices : JobValid(d)
  BY DEF RecordsInv
<1>2. Locking(c)
  BY DEF Locking
<1> QED
  BY <1>1, <1>2 DEF RecordsInv, JobValid, LocksExclusive, Locking

\* The contact that is replaced was there: the step changes no more than CommitContact says.
LEMMA ContactStep == ASSUME RecordsInv, NEW c \in Offices, CommitContact(c) PROVE RecordsInv'
<1>1. office[c].phase = "commit" /\ Idle(c) /\ UNCHANGED <<address, crashes>>
      /\ customer' = [customer EXCEPT ![office[c].who].contact = "personal"]
  BY DEF CommitContact, Committing
<1>2. customer \in [Customers -> CustomerRows] /\ crashes \in 0 .. MaxCrashes
  BY Types DEF RecordsInv
<1>3. office[c].who \in Customers /\ customer[office[c].who] = Registered
  BY <1>1, CommitFacts
<1>4. [Registered EXCEPT !.contact = "personal"] = Registered
  BY DEF Registered
<1>5. customer' = customer
  BY <1>1, <1>2, <1>3, <1>4
<1> QED
  BY <1>1, <1>2, <1>5, RestStep DEF tables

\* A commit of c for its customer k that writes the rows in R, all of them k's by then.
LEMMA CommitStep ==
  ASSUME RecordsInv, NEW c \in Offices, office[c].phase = "commit",
         NEW k, k = office[c].who,
         NEW row \in OfficeRows, office' = [office EXCEPT ![c] = row],
         row.phase \in {"idle", "lock"}, row.adds \in {office[c].adds, NoAddress},
         UNCHANGED crashes,
         customer' \in [Customers -> CustomerRows], address' \in [Addresses -> AddressRows],
         customer'[k] # NoRow, \A j \in Customers \ {k} : customer'[j] = customer[j],
         NEW R \in SUBSET Addresses,
         \A a \in R : address'[a].owner = k,
         \A a \in R : address[a].owner = k \/ (office[c].job = "add" /\ a = office[c].adds),
         \A a \in Addresses \ R : address'[a] = address[a],
         JobValid(c)', Tidy(k)'
  PROVE  RecordsInv'
<1>1. /\ office \in [Offices -> OfficeRows] /\ crashes \in 0 .. MaxCrashes
      /\ office'[c] = row /\ \A d \in Offices \ {c} : office'[d] = office[d]
  BY Types DEF RecordsInv
<1>2. /\ k \in Customers /\ customer[k] = Registered
      /\ \A d \in Offices \ {c} : Locking(d) => office[d].who \in Customers /\ office[d].who # k
  BY CommitFacts
<1>3. office' \in [Offices -> OfficeRows]
  BY <1>1
<1>4. TypeOK'
  BY <1>1, <1>3 DEF TypeOK, CustomerRows, AddressRows, OfficeRows
<1>5. office[c].job = "add" => office[c].adds \in Addresses /\ address[office[c].adds] = Nowhere
  BY DEF RecordsInv, JobValid
<1>6. \A j \in Customers \ {k} : SameRows(j)
  <2> SUFFICES ASSUME NEW j \in Customers \ {k}, NEW a \in Addresses,
                      address[a].owner = j \/ address'[a].owner = j
               PROVE  address'[a] = address[a]
    BY DEF SameRows
  <2>1. a \notin R
    <3>1. a \in R => address'[a].owner = k /\ (address[a].owner = k \/ address[a].owner = NoCustomer)
      BY <1>5, NowhereRow
    <3>2. a \notin R => address'[a] = address[a]
      OBVIOUS
    <3> QED
      BY <3>1, <3>2, RecordsAssumption
  <2> QED
    BY <2>1
<1>7. \A d \in Offices : JobValid(d)'
  <2> SUFFICES ASSUME NEW d \in Offices, d # c PROVE JobValid(d)'
    OBVIOUS
  <2>1. JobValid(d)
    BY DEF RecordsInv
  <2>2. Locking(d) => SameRows(office[d].who)
    BY <1>2, <1>6
  <2>3. office[d].job = "add" => address'[office[d].adds] = address[office[d].adds]
    <3> SUFFICES ASSUME office[d].job = "add" PROVE office[d].adds \notin R
      BY <2>1 DEF JobValid
    <3>1. office[d].adds \in Addresses /\ address[office[d].adds] = Nowhere
      BY <2>1 DEF JobValid
    <3>2. office[d].adds # office[c].adds
      BY <3>1 DEF RecordsInv, AddsExclusive
    <3> QED
      BY <1>2, <3>1, <3>2, NowhereRow, RecordsAssumption
  <2>4. office[d].job = "primary" => address'[office[d].adds].owner = address[office[d].adds].owner
    <3> SUFFICES ASSUME office[d].job = "primary"
                 PROVE  address'[office[d].adds].owner = address[office[d].adds].owner
      OBVIOUS
    <3>1. office[d].adds \in Addresses
      BY <2>1 DEF JobValid
    <3>2. office[d].adds # office[c].adds
      BY <3>1 DEF RecordsInv, AddsExclusive
    <3> QED
      BY <3>1, <3>2
  <2> QED
    BY <1>1, <2>2, <2>3, <2>4, OthersValid
<1>8. LocksExclusive'
  BY <1>1 DEF RecordsInv, LocksExclusive, Locking
<1>9. AddsExclusive'
  BY <1>1, RecordsAssumption DEF RecordsInv, AddsExclusive
<1>10. OwnersExist'
  <2>1. OwnersExist
    BY DEF RecordsInv
  <2> SUFFICES ASSUME NEW a \in Addresses
               PROVE  /\ address'[a].owner = NoCustomer => address'[a] = Nowhere
                      /\ address'[a].owner \in Customers => customer'[address'[a].owner] # NoRow
    BY DEF OwnersExist
  <2>2. CASE a \in R
    <3>1. address'[a].owner = k
      BY <2>2
    <3> QED
      BY <1>2, <3>1, RecordsAssumption
  <2>3. CASE a \notin R
    BY <2>1, <2>3 DEF OwnersExist
  <2> QED
    BY <2>2, <2>3
<1>11. \A j \in Customers : Tidy(j)'
  BY <1>6, OthersTidy
<1>12. ErasureComplete' /\ OnePrimaryAddress'
  BY <1>11 DEF ErasureComplete, OnePrimaryAddress, Tidy
<1> QED
  BY <1>4, <1>7, <1>8, <1>9, <1>10, <1>12 DEF RecordsInv

LEMMA AddStep == ASSUME RecordsInv, NEW c \in Offices, CommitAdd(c) PROVE RecordsInv'
<1>k. PICK k, a : k = office[c].who /\ a = office[c].adds
  OBVIOUS
<1> DEFINE row == [office[c] EXCEPT !.job = "primary", !.phase = "lock"]
<1>1. /\ office[c].phase = "commit" /\ office[c].job = "add" /\ UNCHANGED <<customer, crashes>>
      /\ address' = [address EXCEPT ![a] = NewAddress(k, FALSE)]
  BY <1>k DEF CommitAdd, Committing
<1>2. /\ office \in [Offices -> OfficeRows] /\ customer \in [Customers -> CustomerRows]
      /\ address \in [Addresses -> AddressRows] /\ office[c] \in OfficeRows
  BY Types DEF RecordsInv
<1>3. office' = [office EXCEPT ![c] = row]
  BY <1>2 DEF CommitAdd
<1>4. /\ row \in OfficeRows /\ row.job = "primary" /\ row.phase = "lock"
      /\ row.who = k /\ row.adds = a
  BY <1>2, <1>k DEF OfficeRows
<1>5. k \in Customers /\ customer[k] = Registered
  BY <1>1, <1>k, CommitFacts
<1>6. a \in Addresses /\ address[a] = Nowhere
  BY <1>1, <1>k DEF RecordsInv, JobValid
<1>7. /\ NewAddress(k, FALSE) \in AddressRows /\ NewAddress(k, FALSE).owner = k
      /\ ~NewAddress(k, FALSE).primary
  BY <1>5 DEF NewAddress, AddressRows
<1>8. office'[c] = row
  BY <1>2, <1>3
<1> HIDE DEF row
<1>9. /\ address' \in [Addresses -> AddressRows] /\ address'[a] = NewAddress(k, FALSE)
      /\ \A b \in Addresses \ {a} : address'[b] = address[b]
  BY <1>1, <1>2, <1>6, <1>7
<1>10. JobValid(c)'
  BY <1>4, <1>5, <1>6, <1>7, <1>8, <1>9 DEF JobValid, Locking
<1>11. Tidy(k)'
  <2>1. PICK b \in Addresses : {e \in AddressesOf(k) : address[e].primary} = {b}
    BY <1>5, CustomerRowFacts DEF RecordsInv, OnePrimaryAddress
  <2>2. address[a].owner # k
    BY <1>5, <1>6, NowhereRow, RecordsAssumption
  <2>3. \A e \in Addresses : address'[e].owner = k /\ address'[e].primary <=> address[e].owner = k /\ address[e].primary
    BY <1>7, <1>9, <2>2
  <2>4. {e \in AddressesOf(k) : address[e].primary}' = {e \in AddressesOf(k) : address[e].primary}
    BY <2>3 DEF AddressesOf
  <2> QED
    BY <1>1, <1>5, <2>1, <2>4, CustomerRowFacts DEF Tidy
<1> QED
  <2>r. PICK R : R = {a}
    OBVIOUS
  <2>1. /\ R \in SUBSET Addresses /\ \A b \in R : address'[b].owner = k
        /\ \A b \in R : address[b].owner = k \/ (office[c].job = "add" /\ b = office[c].adds)
        /\ \A b \in Addresses \ R : address'[b] = address[b]
    BY <1>1, <1>6, <1>7, <1>9, <1>k, <2>r
  <2>3. customer'[k] # NoRow /\ customer' \in [Customers -> CustomerRows]
        /\ \A j \in Customers \ {k} : customer'[j] = customer[j]
    BY <1>1, <1>2, <1>5, CustomerRowFacts
  <2> QED
    <3>1. /\ office[c].phase = "commit" /\ UNCHANGED crashes /\ address' \in [Addresses -> AddressRows]
          /\ row.phase \in {"idle", "lock"} /\ row.adds \in {office[c].adds, NoAddress}
      BY <1>1, <1>4, <1>9, <1>k
    <3> QED
      BY <1>3, <1>4, <1>10, <1>11, <1>k, <2>1, <2>3, <3>1, CommitStep

LEMMA PrimaryStep == ASSUME RecordsInv, NEW c \in Offices, CommitPrimary(c) PROVE RecordsInv'
<1>k. PICK k, a : k = office[c].who /\ a = office[c].adds
  OBVIOUS
<1>r. PICK R : R = AddressesOf(k)
  OBVIOUS
<1>1. /\ office[c].phase = "commit" /\ office[c].job = "primary" /\ UNCHANGED <<customer, crashes>>
      /\ office' = [office EXCEPT ![c] = AtRest]
      /\ address' = [b \in Addresses |-> [address[b] EXCEPT
                       !.primary = b = a \/ (@ /\ b \notin office[c].affected)]]
  BY <1>k DEF CommitPrimary, Committing, Idle
<1>2. /\ office \in [Offices -> OfficeRows] /\ customer \in [Customers -> CustomerRows]
      /\ address \in [Addresses -> AddressRows]
  BY Types DEF RecordsInv
<1>3. k \in Customers /\ customer[k] = Registered /\ office[c].affected = AffectedRows(c)
  BY <1>1, <1>k, CommitFacts
<1>4. a \in Addresses /\ address[a].owner = k
  BY <1>1, <1>k DEF RecordsInv, JobValid
<1>5. \A b \in Addresses : b \in office[c].affected <=> address[b].owner = k /\ address[b].primary
  BY <1>1, <1>3, <1>k DEF AffectedRows, AddressesOf
<1>6. office'[c] = AtRest
  BY <1>1, <1>2
<1>7. /\ address' \in [Addresses -> AddressRows]
      /\ \A b \in Addresses : /\ address'[b].owner = address[b].owner
                              /\ address'[b].personal = address[b].personal
                              /\ address'[b].primary <=> b = a \/ (address[b].primary /\ b \notin office[c].affected)
  BY <1>1, <1>2 DEF AddressRows
<1>8. \A b \in Addresses \ R : address'[b] = address[b]
  <2> SUFFICES ASSUME NEW b \in Addresses, address[b].owner # k PROVE address'[b] = address[b]
    BY <1>r DEF AddressesOf
  <2>1. address[b] \in AddressRows /\ address'[b] \in AddressRows
    BY <1>2, <1>7
  <2>2. b # a /\ b \notin office[c].affected
    BY <1>4, <1>5
  <2>3. address'[b] = [address[b] EXCEPT !.primary = FALSE \/ (@ /\ TRUE)]
    BY <1>1, <2>2
  <2> QED
    BY <2>1, <2>3 DEF AddressRows
<1>9. JobValid(c)'
  BY <1>6, RowsAtRest DEF JobValid, Locking
<1>10. Tidy(k)'
  <2>1. \A b \in Addresses : address'[b].owner = k /\ address'[b].primary <=> b = a
    BY <1>4, <1>5, <1>7
  <2>2. {b \in AddressesOf(k) : address[b].primary}' = {a}
    BY <1>4, <2>1 DEF AddressesOf
  <2> QED
    BY <1>1, <1>3, <1>4, <2>2, CustomerRowFacts DEF Tidy
<1> QED
  <2>1. R \in SUBSET Addresses /\ \A b \in R : address'[b].owner = k /\ address[b].owner = k
    BY <1>7, <1>r DEF AddressesOf
  <2>3. customer'[k] # NoRow /\ customer' \in [Customers -> CustomerRows]
        /\ \A j \in Customers \ {k} : customer'[j] = customer[j]
    BY <1>1, <1>2, <1>3, CustomerRowFacts
  <2> QED
    <3>1. /\ office[c].phase = "commit" /\ UNCHANGED crashes /\ address' \in [Addresses -> AddressRows]
          /\ office' = [office EXCEPT ![c] = AtRest] /\ AtRest.phase \in {"idle", "lock"}
      BY <1>1, <1>7, RowsAtRest
    <3> QED
      BY <1>8, <1>9, <1>10, <1>k, <2>1, <2>3, <3>1, RowsAtRest, CommitStep

LEMMA ForgetStep == ASSUME RecordsInv, NEW c \in Offices, CommitForget(c) PROVE RecordsInv'
<1>k. PICK k : k = office[c].who
  OBVIOUS
<1>r. PICK R : R = AddressesOf(k)
  OBVIOUS
<1>1. /\ office[c].phase = "commit" /\ office[c].job = "forget" /\ UNCHANGED crashes
      /\ office' = [office EXCEPT ![c] = AtRest]
      /\ customer' = [customer EXCEPT ![k] = Erased]
      /\ address' = [b \in Addresses |-> [address[b] EXCEPT !.personal = @ /\ b \notin office[c].affected]]
  BY <1>k DEF CommitForget, Committing, Idle
<1>2. /\ office \in [Offices -> OfficeRows] /\ customer \in [Customers -> CustomerRows]
      /\ address \in [Addresses -> AddressRows]
  BY Types DEF RecordsInv
<1>3. k \in Customers /\ customer[k] = Registered /\ office[c].affected = AffectedRows(c)
  BY <1>1, <1>k, CommitFacts
<1>4. office[c].affected = R
  BY <1>1, <1>3, <1>k, <1>r DEF AffectedRows
<1>5. office'[c] = AtRest
  BY <1>1, <1>2
<1>6. /\ address' \in [Addresses -> AddressRows]
      /\ \A b \in Addresses : /\ address'[b].owner = address[b].owner
                              /\ address'[b].primary = address[b].primary
                              /\ address'[b].personal <=> address[b].personal /\ b \notin R
  <2> QED
    BY <1>1, <1>2, <1>4 DEF AddressRows
<1>7. \A b \in Addresses \ R : address'[b] = address[b]
  <2> SUFFICES ASSUME NEW b \in Addresses \ R PROVE address'[b] = address[b]
    OBVIOUS
  <2>1. address[b] \in AddressRows
    BY <1>2
  <2>2. address'[b] = [address[b] EXCEPT !.personal = @ /\ TRUE]
    BY <1>1, <1>4
  <2> QED
    BY <2>1, <2>2 DEF AddressRows
<1>8. JobValid(c)'
  BY <1>5, RowsAtRest DEF JobValid, Locking
<1>9. Tidy(k)'
  <2>1. PICK a \in Addresses : {b \in AddressesOf(k) : address[b].primary} = {a}
    BY <1>3, CustomerRowFacts DEF RecordsInv, OnePrimaryAddress
  <2>2. AddressesOf(k)' = AddressesOf(k)
    BY <1>6 DEF AddressesOf
  <2>3. {b \in AddressesOf(k) : address[b].primary}' = {a}
    BY <1>6, <2>1, <2>2 DEF AddressesOf
  <2>4. \A b \in AddressesOf(k)' : ~address'[b].personal
    BY <1>6, <1>r, <2>2 DEF AddressesOf
  <2>5. customer'[k] = Erased
    BY <1>1, <1>2, <1>3
  <2> QED
    BY <2>3, <2>4, <2>5, CustomerRowFacts DEF Tidy
<1> QED
  <2>1. R \in SUBSET Addresses /\ \A b \in R : address'[b].owner = k /\ address[b].owner = k
    BY <1>6, <1>r DEF AddressesOf
  <2>3. customer'[k] # NoRow /\ customer' \in [Customers -> CustomerRows]
        /\ \A j \in Customers \ {k} : customer'[j] = customer[j]
    BY <1>1, <1>2, <1>3, CustomerRowFacts DEF CustomerRows
  <2> QED
    BY <1>1, <1>6, <1>7, <1>8, <1>9, <1>k, <2>1, <2>3, RowsAtRest, CommitStep

LEMMA RecordsStep == RecordsInv /\ [Next]_vars => RecordsInv'
<1> SUFFICES ASSUME RecordsInv, [Next]_vars PROVE RecordsInv'
  OBVIOUS
<1>1. CASE UNCHANGED vars
  <2>1. UNCHANGED <<customer, address, office, crashes>>
    BY <1>1 DEF vars, tables
  <2>2. \A c \in Offices : JobValid(c)'
    BY <2>1 DEF RecordsInv, JobValid, Locking, AffectedRows, AddressesOf
  <2>3. LocksExclusive' /\ AddsExclusive' /\ OwnersExist' /\ ErasureComplete' /\ OnePrimaryAddress'
    BY <2>1 DEF RecordsInv, LocksExclusive, AddsExclusive, OwnersExist, ErasureComplete,
                OnePrimaryAddress, Locking, AddressesOf
  <2> QED
    BY <2>1, <2>2, <2>3 DEF RecordsInv, TypeOK
<1>2. CASE \E k \in Customers, a \in Addresses : Register(k, a)
  BY <1>2, RegisterStep
<1>3. ASSUME NEW c \in Offices, \E k \in Customers : PickContact(c, k) \/ PickMove(c, k) \/ PickForget(c, k)
      PROVE  RecordsInv'
  BY <1>3, PickStep
<1>4. ASSUME NEW c \in Offices, PickNobody(c) PROVE RecordsInv'
  BY <1>1, <1>4 DEF PickNobody
<1>5. ASSUME NEW c \in Offices, LockCustomer(c) PROVE RecordsInv'
  BY <1>5, LockStep
<1>6. ASSUME NEW c \in Offices, Proceed(c) PROVE RecordsInv'
  BY <1>6, UpdateStep, ContactStep, AddStep, PrimaryStep, ForgetStep DEF Proceed
<1>7. ASSUME NEW c \in Offices, Crash(c) PROVE RecordsInv'
  <2>1. crashes' \in 0 .. MaxCrashes
    BY <1>7, RecordsAssumption DEF RecordsInv, TypeOK, Crash
  <2> QED
    BY <1>7, <2>1, RestStep DEF Crash
<1> QED
  BY <1>1, <1>2, <1>3, <1>4, <1>5, <1>6, <1>7 DEF Next

LEMMA RecordsInvariant == Spec => []RecordsInv
BY RecordsInit, RecordsStep, PTL DEF Spec

-----------------------------------------------------------------------------
(* The theorems.                                                           *)

\* Type correctness: with the CHECK of customers, a row that is not deleted has its personal
\* data (V1__oltp_schema.sql).
THEOREM RecordsTypeCorrect == Spec => []TypeOK
<1>1. RecordsInv => TypeOK
  BY DEF RecordsInv
<1> QED
  BY <1>1, RecordsInvariant, PTL

\* However the actions of the back offices overlap, fail or break off, nothing personal is
\* left in any row of an erased customer (forget_customer, _lock_active_customer).
THEOREM ErasureAlwaysComplete == Spec => []ErasureComplete
<1>1. RecordsInv => ErasureComplete
  BY DEF RecordsInv
<1> QED
  BY <1>1, RecordsInvariant, PTL

\* A customer has one primary address, also between the two transactions of a move
\* (set_primary_address, addresses_one_primary_uq).
THEOREM AlwaysOnePrimaryAddress == Spec => []OnePrimaryAddress
<1>1. RecordsInv => OnePrimaryAddress
  BY DEF RecordsInv
<1> QED
  BY <1>1, RecordsInvariant, PTL

-----------------------------------------------------------------------------
(* The refinement of Privacy.                                              *)

KnownOf(row) == IF row = NoRow THEN "none" ELSE IF row = Registered THEN "held" ELSE "erased"

\* The status of a customer tells what is known over both tables.
LEMMA KnownIs == ASSUME RecordsInv, NEW k \in Customers PROVE Known(k) = KnownOf(customer[k])
<1>1. customer[k] \in CustomerRows
  BY Types DEF RecordsInv
<1>2. customer[k] = Erased => ~ \E a \in AddressesOf(k) : address[a].personal
  BY CustomerRowFacts DEF RecordsInv, ErasureComplete
<1> QED
  BY <1>1, <1>2, CustomerRowFacts DEF Known, KnownOf, CustomerRows

LEMMA KnownAll == RecordsInv => \A k \in Customers : Known(k) = KnownOf(customer[k])
BY KnownIs

\* A registration collects, an erasure erases, and nothing else touches what is known.
LEMMA StepKeepsPromise ==
  RecordsInv /\ RecordsInv' /\ [Next]_vars => [Promise!Next]_([k \in Customers |-> Known(k)])
<1> SUFFICES ASSUME RecordsInv, RecordsInv', [Next]_vars
             PROVE  [Promise!Next]_([k \in Customers |-> Known(k)])
  OBVIOUS
<1>1. \A k \in Customers : Known(k) = KnownOf(customer[k])
  BY KnownAll
<1>2. (\A k \in Customers : Known(k) = KnownOf(customer[k]))'
  BY KnownAll, PTL
<1>3. \A k \in Customers : Known(k)' = KnownOf(customer'[k])
  BY <1>2 DEF KnownOf
<1>4. customer \in [Customers -> CustomerRows] /\ office \in [Offices -> OfficeRows]
  BY Types DEF RecordsInv
<1>5. CASE UNCHANGED customer
  <2>1. \A k \in Customers : Known(k)' = Known(k)
    BY <1>1, <1>3, <1>5
  <2> QED
    BY <2>1
<1>k. KnownOf(NoRow) = "none" /\ KnownOf(Registered) = "held" /\ KnownOf(Erased) = "erased"
  BY CustomerRowFacts DEF KnownOf
<1>6. ASSUME NEW k \in Customers, NEW after, customer' = [customer EXCEPT ![k] = after],
             \/ KnownOf(customer[k]) = "none" /\ KnownOf(after) = "held"
             \/ KnownOf(customer[k]) = "held" /\ KnownOf(after) = "erased"
      PROVE  Promise!Next
  <2>1. Known(k) = KnownOf(customer[k]) /\ Known(k)' = KnownOf(after)
    BY <1>1, <1>3, <1>4, <1>6
  <2>2. \A j \in Customers \ {k} : Known(j)' = Known(j)
    BY <1>1, <1>3, <1>4, <1>6
  <2>3. [j \in Customers |-> Known(j)]' = [[j \in Customers |-> Known(j)] EXCEPT ![k] = KnownOf(after)]
    BY <2>1, <2>2
  <2> QED
    BY <1>6, <2>1, <2>3 DEF Promise!Next, Promise!Collect, Promise!Erase
<1>7. ASSUME NEW k \in Customers, NEW a \in Addresses, Register(k, a) PROVE Promise!Next
  <2>1. customer[k] = NoRow /\ customer' = [customer EXCEPT ![k] = Registered]
    BY <1>7 DEF Register
  <2> QED
    BY <1>6, <1>k, <2>1
<1>8. ASSUME NEW c \in Offices, CommitForget(c) PROVE Promise!Next
  <2>1. office[c].who \in Customers /\ customer[office[c].who] = Registered
    BY <1>8 DEF RecordsInv, JobValid, Locking, CommitForget, Committing
  <2>2. customer' = [customer EXCEPT ![office[c].who] = Erased]
    BY <1>8 DEF CommitForget
  <2> QED
    BY <1>6, <1>k, <2>1, <2>2
<1>9. ASSUME NEW c \in Offices, CommitContact(c) PROVE UNCHANGED customer
  <2>1. office[c].who \in Customers /\ customer[office[c].who] = Registered
    BY <1>9 DEF RecordsInv, JobValid, Locking, CommitContact, Committing
  <2>2. [Registered EXCEPT !.contact = "personal"] = Registered
    BY DEF Registered
  <2>3. customer' = [customer EXCEPT ![office[c].who].contact = "personal"]
    BY <1>9 DEF CommitContact
  <2> QED
    BY <1>4, <2>1, <2>2, <2>3
<1>10. CASE UNCHANGED vars
  BY <1>5, <1>10 DEF vars, tables
<1>11. CASE Next
  <2>1. ASSUME NEW c \in Offices,
               (\E k \in Customers : PickContact(c, k) \/ PickMove(c, k) \/ PickForget(c, k))
               \/ PickNobody(c) \/ LockCustomer(c) \/ Crash(c)
        PROVE  UNCHANGED customer
    BY <2>1 DEF PickContact, PickMove, PickForget, Pick, PickNobody, LockCustomer, Crash, vars, tables
  <2>2. ASSUME NEW c \in Offices, Update(c) \/ CommitAdd(c) \/ CommitPrimary(c) PROVE UNCHANGED customer
    BY <2>2 DEF Update, CommitAdd, CommitPrimary, tables
  <2> QED
    BY <1>5, <1>7, <1>8, <1>9, <1>11, <2>1, <2>2 DEF Next, Proceed
<1> QED
  BY <1>10, <1>11

\* Personal data is erased in one step and for good: the two tables, the row locks and the
\* transactions that end anywhere implement Privacy (forget_customer; README, LGPD).
THEOREM RecordsImplementPrivacy == Spec => ImplementsPrivacy
<1>1. Init => Promise!Init
  <2> SUFFICES ASSUME Init PROVE [k \in Customers |-> Known(k)] = [k \in Customers |-> "none"]
    BY DEF Promise!Init
  <2>1. \A k \in Customers : Known(k) = "none"
    BY CustomerRowFacts DEF Init, Known
  <2> QED
    BY <2>1
<1> QED
  BY RecordsInvariant, <1>1, StepKeepsPromise, PTL DEF Spec, Promise!Spec, ImplementsPrivacy
=============================================================================
