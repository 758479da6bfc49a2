-------------------------- MODULE SimulatorProofs --------------------------
(***************************************************************************)
(* Theorems about Simulator: the seed, the exit code, and the order of the *)
(* events, for any number of processes, sessions and events.               *)
(***************************************************************************)
EXTENDS Simulator, TLAPS

-----------------------------------------------------------------------------
(* The seed.                                                               *)

Works(p) == pc[p] \in {"ticking", "flushing", "exit 0", "exit 1"}

BootTypeOK ==
  /\ rows \in [ToSet(Seed) -> Nat]
  /\ pc \in [Processes -> Alive \cup Over]
  /\ inserted \in [Processes -> 0 .. 3]

\* Only an open seed has inserted anything, at most one of them has come to the SKUs, and
\* it has only while none are committed.
SeedInv ==
  /\ BootTypeOK
  /\ SeededOnce
  /\ \A p \in Processes : inserted[p] > 0 => pc[p] = "seeding"
  /\ \A p \in Processes : inserted[p] >= 2 => rows["products"] = 0
  /\ \A p, q \in Processes : inserted[p] >= 2 /\ inserted[q] >= 2 => p = q

\* The parts of the seed.
LEMMA SeedParts ==
  /\ Len(Seed) = 3
  /\ ToSet(Seed) = {"categories", "products", "customers"}
  /\ Seed[1] = "categories" /\ Seed[2] = "products" /\ Seed[3] = "customers"
BY DEF Seed, ToSet

LEMMA SeedInit == Init => SeedInv
<1> SUFFICES ASSUME Init PROVE SeedInv
  OBVIOUS
<1>1. rows = [part \in ToSet(Seed) |-> 0] /\ rows["categories"] = 0 /\ rows["products"] = 0
  BY SeedParts DEF Init
<1>2. BootTypeOK
  BY <1>1 DEF Init, BootTypeOK, Alive, Booting, Over
<1>3. SeededOnce
  BY <1>1 DEF Init, SeededOnce
<1> QED
  BY <1>1, <1>2, <1>3 DEF Init, SeedInv

\* A step that leaves rows and inserted alone and lets nobody in who finds no seed.
LEMMA SeedUntouched ==
  ASSUME SeedInv, UNCHANGED <<rows, inserted>>, pc' \in [Processes -> Alive \cup Over],
         \A p \in Processes : inserted[p] > 0 => pc'[p] = "seeding",
         \A p \in Processes : Works(p)' => Works(p) \/ rows["categories"] > 0
  PROVE  SeedInv'
<1>1. ToSet(Seed)' = ToSet(Seed)
  BY DEF ToSet, Seed
<1>2. rows["categories"] \in {0, 1}
  BY SeedParts DEF SeedInv, SeededOnce
<1>3. SeededOnce'
  <2>1. \E n \in {0, 1} : rows' = [part \in ToSet(Seed) |-> n]
    BY DEF SeedInv, SeededOnce
  <2>2. \A p \in Processes : Works(p)' => rows["categories"] = 1
    <3>1. rows["categories"] > 0 => rows["categories"] = 1
      BY <1>2
    <3>2. \A p \in Processes : Works(p) => rows["categories"] = 1
      BY DEF SeedInv, SeededOnce, Works
    <3> QED
      BY <3>1, <3>2
  <2> QED
    BY <1>1, <2>1, <2>2 DEF SeededOnce, Works
<1>4. BootTypeOK'
  BY <1>1 DEF SeedInv, BootTypeOK, Alive, Booting, Over
<1> QED
  BY <1>3, <1>4 DEF SeedInv

\* A transaction that ends without a commit.
LEMMA SeedRolledBack ==
  ASSUME SeedInv, NEW p \in Processes, Goto(p, "dead"), Rollback(p), UNCHANGED rows
  PROVE  SeedInv'
<1>1. ToSet(Seed)' = ToSet(Seed)
  BY DEF ToSet, Seed
<1>2. BootTypeOK'
  <2>1. pc' \in [Processes -> Alive \cup Over]
    BY DEF SeedInv, BootTypeOK, Goto, Over
  <2>2. inserted' \in [Processes -> 0 .. 3]
    BY DEF SeedInv, BootTypeOK, Rollback
  <2> QED
    BY <1>1, <2>1, <2>2 DEF SeedInv, BootTypeOK, Alive, Booting, Over
<1>3. SeededOnce'
  BY <1>1 DEF SeedInv, SeededOnce, BootTypeOK, Goto
<1>4. \A q \in Processes : inserted'[q] # 0 => q # p /\ inserted'[q] = inserted[q] /\ pc'[q] = pc[q]
  BY DEF SeedInv, BootTypeOK, Goto, Rollback
<1>5. \A q \in Processes : inserted'[q] \in 0 .. 3
  BY <1>2 DEF BootTypeOK
<1> QED
  BY <1>2, <1>3, <1>4, <1>5 DEF SeedInv

LEMMA SeedInserted == ASSUME SeedInv, NEW p \in Processes, InsertPart(p) PROVE SeedInv'
<1> DEFINE part == Seed[inserted[p] + 1]
<1>1. CASE Collides(p, part)
  BY <1>1, SeedRolledBack DEF InsertPart
<1>2. CASE ~Collides(p, part)
  <2>1. /\ pc[p] = "seeding" /\ inserted[p] < 3 /\ inserted[p] \in 0 .. 3 /\ ~Waits(p, part)
        /\ UNCHANGED <<pc, rows>> /\ inserted' = [inserted EXCEPT ![p] = @ + 1]
    BY <1>2, SeedParts DEF InsertPart, SeedInv, BootTypeOK
  <2>2. ToSet(Seed)' = ToSet(Seed)
    BY DEF ToSet, Seed
  <2>3. BootTypeOK'
    <3>1. inserted \in [Processes -> 0 .. 3] /\ rows \in [ToSet(Seed) -> Nat]
      BY DEF SeedInv, BootTypeOK
    <3>2. inserted[p] + 1 \in 0 .. 3
      BY <2>1
    <3>3. inserted' \in [Processes -> 0 .. 3]
      BY <2>1, <3>1, <3>2
    <3>4. pc' \in [Processes -> Alive \cup Over]
      BY <2>1 DEF SeedInv, BootTypeOK
    <3> QED
      BY <2>1, <2>2, <3>1, <3>3, <3>4 DEF BootTypeOK, Alive, Booting, Over
  <2>4. SeededOnce'
    BY <2>1, <2>2 DEF SeedInv, SeededOnce
  <2>5. rows["products"] \in Nat
    BY SeedParts DEF SeedInv, BootTypeOK
  <2>6. CASE inserted[p] = 0
    <3>1. inserted'[p] = 1 /\ \A q \in Processes \ {p} : inserted'[q] = inserted[q]
      BY <2>1, <2>6 DEF SeedInv, BootTypeOK
    <3> QED
      BY <2>1, <2>3, <2>4, <3>1 DEF SeedInv
  <2>7. CASE inserted[p] = 1
    <3>1. part = "products"
      BY <2>7, SeedParts
    <3>2. rows["products"] = 0 /\ \A q \in Processes \ {p} : ~(inserted[q] >= 2)
      BY <1>2, <2>1, <2>5, <3>1 DEF Collides, Waits
    <3>3. inserted'[p] = 2 /\ \A q \in Processes \ {p} : inserted'[q] = inserted[q]
      BY <2>1, <2>7 DEF SeedInv, BootTypeOK
    <3> QED
      BY <2>1, <2>3, <2>4, <3>2, <3>3 DEF SeedInv
  <2>8. CASE inserted[p] = 2
    <3>1. inserted'[p] = 3 /\ \A q \in Processes \ {p} : inserted'[q] = inserted[q]
      BY <2>1, <2>8 DEF SeedInv, BootTypeOK
    <3> QED
      BY <2>1, <2>3, <2>4, <2>8, <3>1 DEF SeedInv
  <2> QED
    BY <2>1, <2>6, <2>7, <2>8
<1> QED
  BY <1>1, <1>2

LEMMA SeedCommitted == ASSUME SeedInv, NEW p \in Processes, CommitSeed(p) PROVE SeedInv'
<1>1. /\ pc[p] = "seeding" /\ inserted[p] = 3
      /\ rows' = [part \in ToSet(Seed) |-> rows[part] + 1]
      /\ inserted' = [inserted EXCEPT ![p] = 0] /\ pc' = [pc EXCEPT ![p] = "ticking"]
  BY SeedParts DEF CommitSeed, SeedInv, BootTypeOK, Rollback, Goto
<1>2. ToSet(Seed)' = ToSet(Seed)
  BY DEF ToSet, Seed
<1>3. rows = [part \in ToSet(Seed) |-> 0]
  <2>1. rows["products"] = 0
    BY <1>1 DEF SeedInv
  <2>2. PICK n \in {0, 1} : rows = [part \in ToSet(Seed) |-> n]
    BY DEF SeedInv, SeededOnce
  <2> QED
    BY <2>1, <2>2, SeedParts
<1>4. rows' = [part \in ToSet(Seed) |-> 1]
  BY <1>1, <1>3
<1>5. BootTypeOK'
  <2>1. pc' \in [Processes -> Alive \cup Over]
    BY <1>1 DEF SeedInv, BootTypeOK, Alive
  <2>2. inserted' \in [Processes -> 0 .. 3]
    BY <1>1 DEF SeedInv, BootTypeOK
  <2>3. rows' \in [ToSet(Seed) -> Nat]
    BY <1>4
  <2> QED
    BY <1>2, <2>1, <2>2, <2>3 DEF BootTypeOK, Alive, Booting, Over
<1>6. SeededOnce'
  BY <1>2, <1>4, SeedParts DEF SeededOnce
<1>7. \A q \in Processes : ~(inserted'[q] >= 2) /\ (inserted'[q] > 0 => pc'[q] = "seeding")
  <2> SUFFICES ASSUME NEW q \in Processes
               PROVE  ~(inserted'[q] >= 2) /\ (inserted'[q] > 0 => pc'[q] = "seeding")
    OBVIOUS
  <2>1. CASE q = p
    BY <1>1, <2>1 DEF SeedInv, BootTypeOK
  <2>2. CASE q # p
    BY <1>1, <2>2 DEF SeedInv, BootTypeOK
  <2> QED
    BY <2>1, <2>2
<1> QED
  BY <1>5, <1>6, <1>7 DEF SeedInv

LEMMA SeedStep == SeedInv /\ [Next]_vars => SeedInv'
<1> SUFFICES ASSUME SeedInv, [Next]_vars PROVE SeedInv'
  OBVIOUS
<1>1. CASE UNCHANGED vars
  BY <1>1, SeedUntouched DEF vars, boot, SeedInv, BootTypeOK, Works
<1>2. CASE Next
  <2>1. PICK p \in Processes :
          \/ Proceed(p) \/ Signal(p) \/ Flush(p) \/ Die(p)
          \/ \E s \in Sessions : Browse(p, s) \/ BeginCheckout(p, s)
          \/ \E i \in DOMAIN messages[p] : Deliver(p, i)
    BY <1>2 DEF Next
  <2>2. CASE Connect(p) \/ ConnectFails(p)
    <3>1. UNCHANGED <<rows, inserted>> /\ pc[p] = "connecting"
          /\ (Goto(p, "checking") \/ Goto(p, "dead") \/ UNCHANGED pc)
      BY <2>2 DEF Connect, ConnectFails
    <3> QED
      BY <3>1, SeedUntouched DEF Goto, SeedInv, BootTypeOK, Works, Alive, Booting, Over
  <2>3. CASE CheckEmpty(p)
    <3>1. UNCHANGED <<rows, inserted>> /\ pc[p] = "checking"
          /\ (Goto(p, "seeding") \/ (Goto(p, "ticking") /\ rows["categories"] > 0))
      BY <2>3 DEF CheckEmpty, boot
    <3> QED
      BY <3>1, SeedUntouched DEF Goto, SeedInv, BootTypeOK, Works, Alive, Booting, Over
  <2>4. CASE InsertPart(p)
    BY <2>4, SeedInserted
  <2>5. CASE CommitSeed(p)
    BY <2>5, SeedCommitted
  <2>6. CASE EndTick(p)
    <3>1. UNCHANGED <<rows, inserted>> /\ pc[p] = "ticking" /\ (Goto(p, "flushing") \/ UNCHANGED pc)
      BY <2>6 DEF EndTick, Free, boot
    <3> QED
      BY <3>1, SeedUntouched DEF Goto, SeedInv, BootTypeOK, Works, Alive, Booting, Over
  <2>7. CASE Exit(p)
    <3>1. UNCHANGED <<rows, inserted>> /\ pc[p] = "flushing" /\ (Goto(p, "exit 0") \/ Goto(p, "exit 1"))
      BY <2>7 DEF Exit, boot
    <3> QED
      BY <3>1, SeedUntouched DEF Goto, SeedInv, BootTypeOK, Works, Alive, Booting, Over
  <2>8. CASE Die(p)
    BY <2>8, SeedRolledBack DEF Die
  <2>9. CASE \/ Signal(p) \/ Flush(p)
             \/ \E s \in Sessions : EndCheckout(p, s) \/ Browse(p, s) \/ BeginCheckout(p, s)
             \/ \E i \in DOMAIN messages[p] : Deliver(p, i)
    <3>1. UNCHANGED <<rows, inserted, pc>>
      BY <2>9 DEF Signal, Flush, EndCheckout, Browse, BeginCheckout, Deliver, boot
    <3> QED
      BY <3>1, SeedUntouched DEF SeedInv, BootTypeOK, Works
  <2> QED
    BY <2>1, <2>2, <2>3, <2>4, <2>5, <2>6, <2>7, <2>8, <2>9 DEF Proceed, Boot
<1> QED
  BY <1>1, <1>2

\* However many processes boot on the empty database, and wherever they die, it is seeded
\* once and as a whole or not at all, and no process works without the seed (seed.py).
THEOREM SeededAtMostOnce == Spec => []SeededOnce
<1>1. SeedInv => SeededOnce
  BY DEF SeedInv
<1> QED
  BY <1>1, SeedInit, SeedStep, PTL DEF Spec

-----------------------------------------------------------------------------
(* The events.                                                             *)

Written == {"written", "acked", "delivered"}

Has(log, s, i) == \E n \in DOMAIN log[s] : log[s][n] = i

\* What holds of the messages and the topic.  A session is of one process; the topic holds
\* messages that have left the queue, in order, and every one that counts as written; and
\* none of them was sent behind one of its session that is still queued.
Consistent(msgs, log) ==
  /\ msgs \in [Processes -> Seq(Message)] /\ log \in [Sessions -> Seq(Nat)]
  /\ \A p, q \in Processes : \A i \in DOMAIN msgs[p], j \in DOMAIN msgs[q] :
       msgs[p][i].session = msgs[q][j].session => p = q
  /\ \A s \in Sessions : \A n \in DOMAIN log[s] : \E p \in Processes :
       /\ log[s][n] \in DOMAIN msgs[p]
       /\ msgs[p][log[s][n]].session = s /\ msgs[p][log[s][n]].state # "queued"
  /\ \A p \in Processes : \A i \in DOMAIN msgs[p] :
       msgs[p][i].state \in Written => Has(log, msgs[p][i].session, i)
  /\ \A p \in Processes : \A i, j \in DOMAIN msgs[p] :
       /\ msgs[p][i].session = msgs[p][j].session /\ msgs[p][j].state = "queued"
       /\ Has(log, msgs[p][i].session, i)
       => i < j
  /\ \A s \in Sessions : \A m, n \in DOMAIN log[s] : m < n => log[s][m] < log[s][n]

\* New states for the messages of a process, none of them queued or written again.
LEMMA NewStates ==
  ASSUME NEW msgs, NEW log, Consistent(msgs, log),
         NEW p \in Processes, NEW own \in Seq(Message), DOMAIN own = DOMAIN msgs[p],
         \A i \in DOMAIN own :
           /\ own[i].session = msgs[p][i].session
           /\ own[i].state = "queued" => msgs[p][i].state = "queued"
           /\ own[i].state \in Written => msgs[p][i].state \in Written,
         NEW new, new = [msgs EXCEPT ![p] = own]
  PROVE  Consistent(new, log)
<1>1. new \in [Processes -> Seq(Message)] /\ log \in [Sessions -> Seq(Nat)]
  BY DEF Consistent
<1>2. \A q \in Processes :
        /\ DOMAIN new[q] = DOMAIN msgs[q]
        /\ \A i \in DOMAIN new[q] :
             /\ new[q][i].session = msgs[q][i].session
             /\ new[q][i].state = "queued" => msgs[q][i].state = "queued"
             /\ new[q][i].state \in Written => msgs[q][i].state \in Written
  BY DEF Consistent
<1>3. \A q, r \in Processes : \A i \in DOMAIN new[q], j \in DOMAIN new[r] :
        new[q][i].session = new[r][j].session => q = r
  BY <1>2 DEF Consistent
<1>4. \A s \in Sessions : \A n \in DOMAIN log[s] : \E q \in Processes :
        /\ log[s][n] \in DOMAIN new[q]
        /\ new[q][log[s][n]].session = s /\ new[q][log[s][n]].state # "queued"
  <2> SUFFICES ASSUME NEW s \in Sessions, NEW n \in DOMAIN log[s]
               PROVE  \E q \in Processes :
                        /\ log[s][n] \in DOMAIN new[q]
                        /\ new[q][log[s][n]].session = s /\ new[q][log[s][n]].state # "queued"
    OBVIOUS
  <2>1. PICK q \in Processes :
          /\ log[s][n] \in DOMAIN msgs[q]
          /\ msgs[q][log[s][n]].session = s /\ msgs[q][log[s][n]].state # "queued"
    BY DEF Consistent
  <2> QED
    BY <1>2, <2>1
<1>5. \A q \in Processes : \A i \in DOMAIN new[q] :
        new[q][i].state \in Written => Has(log, new[q][i].session, i)
  BY <1>2 DEF Consistent
<1>6. \A q \in Processes : \A i, j \in DOMAIN new[q] :
        /\ new[q][i].session = new[q][j].session /\ new[q][j].state = "queued"
        /\ Has(log, new[q][i].session, i)
        => i < j
  BY <1>2 DEF Consistent
<1> QED
  BY <1>1, <1>3, <1>4, <1>5, <1>6 DEF Consistent

\* A process hands over a message of a session no other process has.
LEMMA NewMessage ==
  ASSUME NEW msgs, NEW log, Consistent(msgs, log),
         NEW p \in Processes, NEW m \in Message, m.state = "queued",
         \A q \in Processes \ {p} : \A i \in DOMAIN msgs[q] : msgs[q][i].session # m.session,
         NEW new, new = [msgs EXCEPT ![p] = Append(@, m)]
  PROVE  Consistent(new, log)
<1> DEFINE last == Len(msgs[p]) + 1
<1>0. msgs \in [Processes -> Seq(Message)] /\ log \in [Sessions -> Seq(Nat)] /\ msgs[p] \in Seq(Message)
  BY DEF Consistent
<1>1. new \in [Processes -> Seq(Message)] /\ last \in Nat
  <2>1. Append(msgs[p], m) \in Seq(Message) /\ last \in Nat
    BY <1>0
  <2> QED
    BY <1>0, <2>1
<1>2. /\ DOMAIN new[p] = DOMAIN msgs[p] \cup {last} /\ new[p][last] = m
      /\ \A i \in DOMAIN msgs[p] : i \in Nat /\ i < last /\ new[p][i] = msgs[p][i]
  BY <1>0
<1>3. \A q \in Processes \ {p} : new[q] = msgs[q]
  BY <1>0
<1>4. \A n \in DOMAIN log[m.session] : log[m.session][n] \in DOMAIN msgs[p]
  <2> SUFFICES ASSUME NEW n \in DOMAIN log[m.session] PROVE log[m.session][n] \in DOMAIN msgs[p]
    OBVIOUS
  <2>1. PICK q \in Processes : log[m.session][n] \in DOMAIN msgs[q]
                               /\ msgs[q][log[m.session][n]].session = m.session
    <3>1. m.session \in Sessions
      BY DEF Message
    <3>2. \A s \in Sessions : \A k \in DOMAIN log[s] : \E q \in Processes :
            log[s][k] \in DOMAIN msgs[q] /\ msgs[q][log[s][k]].session = s
      BY DEF Consistent
    <3> QED
      BY <3>1, <3>2
  <2>2. CASE q # p
    BY <2>1, <2>2
  <2> QED
    BY <2>1, <2>2
<1> HIDE DEF last
<1>5. \A q, r \in Processes : \A i \in DOMAIN new[q], j \in DOMAIN new[r] :
        new[q][i].session = new[r][j].session => q = r
  <2> SUFFICES ASSUME NEW q \in Processes, NEW r \in Processes, q # r,
                      NEW i \in DOMAIN new[q], NEW j \in DOMAIN new[r]
               PROVE  new[q][i].session # new[r][j].session
    OBVIOUS
  <2>1. CASE q = p /\ i = last
    BY <1>2, <1>3, <2>1
  <2>2. CASE r = p /\ j = last
    BY <1>2, <1>3, <2>2
  <2>3. CASE ~(q = p /\ i = last) /\ ~(r = p /\ j = last)
    <3>1. /\ i \in DOMAIN msgs[q] /\ new[q][i] = msgs[q][i]
          /\ j \in DOMAIN msgs[r] /\ new[r][j] = msgs[r][j]
      BY <1>2, <1>3, <2>3
    <3> QED
      BY <3>1 DEF Consistent
  <2> QED
    BY <2>1, <2>2, <2>3
<1>6. \A s \in Sessions : \A n \in DOMAIN log[s] : \E q \in Processes :
        /\ log[s][n] \in DOMAIN new[q]
        /\ new[q][log[s][n]].session = s /\ new[q][log[s][n]].state # "queued"
  <2> SUFFICES ASSUME NEW s \in Sessions, NEW n \in DOMAIN log[s]
               PROVE  \E q \in Processes :
                        /\ log[s][n] \in DOMAIN new[q]
                        /\ new[q][log[s][n]].session = s /\ new[q][log[s][n]].state # "queued"
    OBVIOUS
  <2>1. PICK q \in Processes :
          /\ log[s][n] \in DOMAIN msgs[q]
          /\ msgs[q][log[s][n]].session = s /\ msgs[q][log[s][n]].state # "queued"
    BY DEF Consistent
  <2> QED
    BY <1>2, <1>3, <2>1
<1>7. \A q \in Processes : \A i \in DOMAIN new[q] :
        new[q][i].state \in Written => Has(log, new[q][i].session, i)
  <2> SUFFICES ASSUME NEW q \in Processes, NEW i \in DOMAIN new[q], new[q][i].state \in Written
               PROVE  Has(log, new[q][i].session, i)
    OBVIOUS
  <2>1. new[q][i] # m
    BY DEF Written
  <2>2. i \in DOMAIN msgs[q] /\ new[q][i] = msgs[q][i]
    BY <1>2, <1>3, <2>1
  <2> QED
    BY <2>2 DEF Consistent
<1>8. \A q \in Processes : \A i, j \in DOMAIN new[q] :
        /\ new[q][i].session = new[q][j].session /\ new[q][j].state = "queued"
        /\ Has(log, new[q][i].session, i)
        => i < j
  <2> SUFFICES ASSUME NEW q \in Processes, NEW i \in DOMAIN new[q], NEW j \in DOMAIN new[q],
                      new[q][i].session = new[q][j].session, new[q][j].state = "queued",
                      Has(log, new[q][i].session, i)
               PROVE  i < j
    OBVIOUS
  <2>1. CASE q # p
    BY <1>3, <2>1 DEF Consistent
  <2>2. CASE q = p /\ j # last
    <3>1. i \in DOMAIN msgs[p]
      <4>1. CASE i = last
        BY <1>2, <1>4, <2>2, <4>1 DEF Has
      <4> QED
        BY <1>2, <2>2, <4>1
    <3> QED
      BY <1>2, <2>2, <3>1 DEF Consistent
  <2>3. CASE q = p /\ j = last
    <3>1. new[q][i].session = m.session
      BY <1>2, <2>3
    <3>2. i \in DOMAIN msgs[p]
      BY <1>4, <3>1 DEF Has
    <3> QED
      BY <1>2, <2>3, <3>2
  <2> QED
    BY <2>1, <2>2, <2>3
<1> QED
  BY <1>1, <1>5, <1>6, <1>7, <1>8 DEF Consistent

\* The first queued message of a session gets to the broker.
LEMMA NewEntry ==
  ASSUME NEW msgs, NEW log, Consistent(msgs, log),
         NEW p \in Processes, NEW i \in DOMAIN msgs[p], NEW s \in Sessions,
         msgs[p][i].session = s, msgs[p][i].state = "queued", ~Has(log, s, i),
         \A j \in DOMAIN msgs[p] : msgs[p][j].state = "queued" /\ j < i => msgs[p][j].session # s,
         NEW own \in Seq(Message), DOMAIN own = DOMAIN msgs[p],
         own[i].session = s, own[i].state = "written",
         \A j \in DOMAIN own \ {i} : own[j] = msgs[p][j]
  PROVE  Consistent([msgs EXCEPT ![p] = own], [log EXCEPT ![s] = Append(@, i)])
<1> DEFINE new == [msgs EXCEPT ![p] = own]
           next == [log EXCEPT ![s] = Append(@, i)]
           last == Len(log[s]) + 1
<1>0. /\ msgs \in [Processes -> Seq(Message)] /\ log \in [Sessions -> Seq(Nat)]
      /\ log[s] \in Seq(Nat) /\ msgs[p] \in Seq(Message)
  BY DEF Consistent
<1>1. i \in Nat
  BY <1>0
<1>2. new \in [Processes -> Seq(Message)] /\ next \in [Sessions -> Seq(Nat)]
  <2>1. Append(log[s], i) \in Seq(Nat)
    BY <1>0, <1>1
  <2> QED
    BY <1>0, <2>1
<1>3. /\ DOMAIN next[s] = DOMAIN log[s] \cup {last} /\ next[s][last] = i
      /\ \A n \in DOMAIN log[s] : n \in Nat /\ n < last /\ next[s][n] = log[s][n] /\ log[s][n] \in Nat
  BY <1>0, <1>1
<1>4. /\ \A r \in Sessions \ {s} : next[r] = log[r]
      /\ new[p] = own /\ \A q \in Processes \ {p} : new[q] = msgs[q]
  BY <1>0
<1> HIDE DEF new, next, last
<1>5. \A q \in Processes : DOMAIN new[q] = DOMAIN msgs[q]
        /\ \A j \in DOMAIN new[q] : new[q][j].session = msgs[q][j].session
                                  /\ (~(q = p /\ j = i) => new[q][j] = msgs[q][j])
  BY <1>4
<1>6. \A r \in Sessions : \A k : Has(next, r, k) <=> Has(log, r, k) \/ (r = s /\ k = i)
  <2> SUFFICES ASSUME NEW r \in Sessions, NEW k
               PROVE  Has(next, r, k) <=> Has(log, r, k) \/ (r = s /\ k = i)
    OBVIOUS
  <2>1. CASE r # s
    BY <1>4, <2>1 DEF Has
  <2>2. CASE r = s
    BY <1>3, <2>2 DEF Has
  <2> QED
    BY <2>1, <2>2
<1>7. \A q, r \in Processes : \A j \in DOMAIN new[q], k \in DOMAIN new[r] :
        new[q][j].session = new[r][k].session => q = r
  BY <1>5 DEF Consistent
<1>8. \A r \in Sessions : \A n \in DOMAIN next[r] : \E q \in Processes :
        /\ next[r][n] \in DOMAIN new[q]
        /\ new[q][next[r][n]].session = r /\ new[q][next[r][n]].state # "queued"
  <2> SUFFICES ASSUME NEW r \in Sessions, NEW n \in DOMAIN next[r]
               PROVE  \E q \in Processes :
                        /\ next[r][n] \in DOMAIN new[q]
                        /\ new[q][next[r][n]].session = r /\ new[q][next[r][n]].state # "queued"
    OBVIOUS
  <2>1. CASE r = s /\ n = last
    <3>1. i \in DOMAIN new[p] /\ new[p][i].session = s /\ new[p][i].state # "queued"
      BY <1>4
    <3> QED
      BY <1>3, <2>1, <3>1
  <2>2. CASE ~(r = s /\ n = last)
    <3>1. n \in DOMAIN log[r] /\ next[r][n] = log[r][n]
      BY <1>3, <1>4, <2>2
    <3>2. PICK q \in Processes :
            /\ log[r][n] \in DOMAIN msgs[q]
            /\ msgs[q][log[r][n]].session = r /\ msgs[q][log[r][n]].state # "queued"
      BY <3>1 DEF Consistent
    <3>3. ~(q = p /\ log[r][n] = i)
      BY <3>2
    <3> QED
      BY <1>5, <3>1, <3>2, <3>3
  <2> QED
    BY <2>1, <2>2
<1>9. \A q \in Processes : \A j \in DOMAIN new[q] :
        new[q][j].state \in Written => Has(next, new[q][j].session, j)
  <2> SUFFICES ASSUME NEW q \in Processes, NEW j \in DOMAIN new[q], new[q][j].state \in Written
               PROVE  Has(next, new[q][j].session, j)
    OBVIOUS
  <2>1. CASE q = p /\ j = i
    BY <1>4, <1>6, <2>1
  <2>2. CASE ~(q = p /\ j = i)
    <3>1. j \in DOMAIN msgs[q] /\ new[q][j] = msgs[q][j]
      BY <1>5, <2>2
    <3>2. msgs[q][j] \in Message
      BY <1>0, <3>1
    <3>3. msgs[q][j].session \in Sessions
      BY <3>2 DEF Message
    <3>4. Has(log, msgs[q][j].session, j)
      BY <3>1 DEF Consistent
    <3> QED
      BY <1>6, <3>1, <3>3, <3>4
  <2> QED
    BY <2>1, <2>2
<1>10. \A q \in Processes : \A j, k \in DOMAIN new[q] :
         /\ new[q][j].session = new[q][k].session /\ new[q][k].state = "queued"
         /\ Has(next, new[q][j].session, j)
         => j < k
  <2> SUFFICES ASSUME NEW q \in Processes, NEW j \in DOMAIN new[q], NEW k \in DOMAIN new[q],
                      new[q][j].session = new[q][k].session, new[q][k].state = "queued",
                      Has(next, new[q][j].session, j)
               PROVE  j < k
    OBVIOUS
  <2>1. ~(q = p /\ k = i)
    BY <1>4
  <2>2. k \in DOMAIN msgs[q] /\ new[q][k] = msgs[q][k] /\ j \in DOMAIN msgs[q]
        /\ new[q][j].session = msgs[q][j].session
    BY <1>5, <2>1
  <2>3. msgs[q][j] \in Message /\ j \in Nat /\ k \in Nat
    BY <1>0, <2>2
  <2>4. msgs[q][j].session \in Sessions
    BY <2>3 DEF Message
  <2>5. CASE Has(log, msgs[q][j].session, j)
    BY <2>2, <2>5 DEF Consistent
  <2>6. CASE msgs[q][j].session = s /\ j = i
    <3>1. q = p
      BY <2>2, <2>6 DEF Consistent
    <3>2. ~(k < i) /\ k # i
      BY <2>1, <2>2, <2>6, <3>1
    <3> QED
      BY <1>1, <2>3, <2>6, <3>2
  <2> QED
    BY <1>6, <2>2, <2>4, <2>5, <2>6
<1>11. \A r \in Sessions : \A m, n \in DOMAIN next[r] : m < n => next[r][m] < next[r][n]
  <2> SUFFICES ASSUME NEW r \in Sessions, NEW m \in DOMAIN next[r], NEW n \in DOMAIN next[r], m < n
               PROVE  next[r][m] < next[r][n]
    OBVIOUS
  <2>1. CASE r # s
    BY <1>4, <2>1 DEF Consistent
  <2>2. CASE r = s /\ n # last
    <3>1. /\ m \in DOMAIN log[s] /\ next[s][m] = log[s][m]
          /\ n \in DOMAIN log[s] /\ next[s][n] = log[s][n]
      <4>1. last \in Nat
        BY <1>0 DEF last
      <4> QED
        BY <1>3, <2>2, <4>1
    <3> QED
      BY <2>2, <3>1 DEF Consistent
  <2>3. CASE r = s /\ n = last
    <3>1. m \in DOMAIN log[s] /\ next[s][m] = log[s][m] /\ next[s][n] = i
      <4>1. last \in Nat
        BY <1>0 DEF last
      <4> QED
        BY <1>3, <2>3, <4>1
    <3>2. PICK q \in Processes : log[s][m] \in DOMAIN msgs[q] /\ msgs[q][log[s][m]].session = s
      <4>1. \A t \in Sessions : \A k \in DOMAIN log[t] : \E q \in Processes :
              log[t][k] \in DOMAIN msgs[q] /\ msgs[q][log[t][k]].session = t
        BY DEF Consistent
      <4> QED
        BY <3>1, <4>1
    <3>3. q = p
      <4>1. msgs[q][log[s][m]].session = msgs[p][i].session
        BY <3>2
      <4>2. \A a \in DOMAIN msgs[q], b \in DOMAIN msgs[p] : msgs[q][a].session = msgs[p][b].session => q = p
        BY DEF Consistent
      <4> QED
        BY <3>2, <4>1, <4>2
    <3>4. Has(log, s, log[s][m])
      BY <3>1 DEF Has
    <3>5. log[s][m] < i
      <4>1. \A a, b \in DOMAIN msgs[p] :
              /\ msgs[p][a].session = msgs[p][b].session /\ msgs[p][b].state = "queued"
              /\ Has(log, msgs[p][a].session, a)
              => a < b
        BY DEF Consistent
      <4>2. log[s][m] \in DOMAIN msgs[p] /\ msgs[p][log[s][m]].session = s
        BY <3>2, <3>3
      <4> QED
        BY <3>4, <4>1, <4>2
    <3> QED
      BY <2>3, <3>1, <3>5
  <2> QED
    BY <2>1, <2>2, <2>3
<1> QED
  BY <1>2, <1>7, <1>8, <1>9, <1>10, <1>11 DEF Consistent, new, next

\* What poll and flush do to the messages of a process.
LEMMA PolledStates ==
  ASSUME NEW own \in Seq(Message)
  PROVE  /\ Polled(own) \in Seq(Message) /\ DOMAIN Polled(own) = DOMAIN own
         /\ \A i \in DOMAIN own :
              /\ Polled(own)[i].session = own[i].session
              /\ Polled(own)[i].state = "queued" => own[i].state = "queued"
              /\ Polled(own)[i].state \in Written => own[i].state \in Written
<1>1. \A m \in Message : [m EXCEPT !.state = Served(@)] \in Message
  BY DEF Message, Served, States
<1>2. \A m \in Message :
        /\ [m EXCEPT !.state = Served(@)].session = m.session
        /\ [m EXCEPT !.state = Served(@)].state = "queued" => m.state = "queued"
        /\ [m EXCEPT !.state = Served(@)].state \in Written => m.state \in Written
  BY DEF Message, Served, States, Written
<1>3. Len(own) \in Nat /\ DOMAIN own = 1 .. Len(own) /\ \A i \in DOMAIN own : own[i] \in Message
  OBVIOUS
<1>4. Polled(own) = [i \in 1 .. Len(own) |-> [own[i] EXCEPT !.state = Served(@)]]
  BY <1>3 DEF Polled
<1>5. Polled(own) \in [1 .. Len(own) -> Message]
  BY <1>1, <1>3, <1>4
<1>6. Polled(own) \in Seq(Message)
  BY <1>3, <1>5
<1>7. \A i \in DOMAIN own : Polled(own)[i] = [own[i] EXCEPT !.state = Served(@)]
  BY <1>3, <1>4
<1>8. \A i \in DOMAIN own :
        /\ Polled(own)[i].session = own[i].session
        /\ Polled(own)[i].state = "queued" => own[i].state = "queued"
        /\ Polled(own)[i].state \in Written => own[i].state \in Written
  BY <1>2, <1>3, <1>7
<1> QED
  BY <1>3, <1>4, <1>6, <1>8

\* One message gets a new state.
LEMMA OneState ==
  ASSUME NEW own \in Seq(Message), NEW i \in DOMAIN own, NEW state \in States
  PROVE  LET new == [own EXCEPT ![i].state = state] IN
           /\ new \in Seq(Message) /\ DOMAIN new = DOMAIN own
           /\ new[i].session = own[i].session /\ new[i].state = state
           /\ \A j \in DOMAIN own \ {i} : new[j] = own[j]
<1> DEFINE m == [own[i] EXCEPT !.state = state]
           new == [own EXCEPT ![i] = m]
<1>1. own[i] \in Message
  OBVIOUS
<1>2. m \in Message /\ m.session = own[i].session /\ m.state = state
  BY <1>1 DEF Message
<1>3. new = [own EXCEPT ![i].state = state]
  OBVIOUS
<1> HIDE DEF m
<1>4. /\ new \in Seq(Message) /\ DOMAIN new = DOMAIN own /\ new[i] = m
      /\ \A j \in DOMAIN own \ {i} : new[j] = own[j]
  BY <1>2
<1> QED
  BY <1>2, <1>3, <1>4

\* A process that has exited with 0 has had every message acknowledged.
EventInv ==
  /\ Consistent(messages, topic)
  /\ pc \in [Processes -> Alive \cup Over]
  /\ \A p \in Processes : pc[p] = "exit 0" => \A i \in DOMAIN messages[p] : messages[p][i].state = "delivered"

LEMMA EventInit == Init => EventInv
<1> SUFFICES ASSUME Init PROVE EventInv
  OBVIOUS
<1>1. messages = [p \in Processes |-> <<>>] /\ topic = [s \in Sessions |-> <<>>]
  BY DEF Init, DeliveryInit
<1>2. Consistent(messages, topic)
  BY <1>1 DEF Consistent
<1> QED
  BY <1>1, <1>2 DEF Init, EventInv, Alive, Booting, Over

\* Handing over a message and serving what waits.
LEMMA SendConsistent ==
  ASSUME NEW p \in Processes, NEW s \in Sessions, NEW kind \in Kinds,
         Consistent(messages, topic), Send(p, s, kind)
  PROVE  Consistent(messages, topic)'
<1> DEFINE m == [session |-> s, kind |-> kind, state |-> "queued"]
           sent == [messages EXCEPT ![p] = Append(@, m)]
<1>1. m \in Message /\ m.state = "queued" /\ m.session = s
  BY DEF Message, States
<1>2. /\ messages \in [Processes -> Seq(Message)] /\ UNCHANGED topic
      /\ messages' = [messages EXCEPT ![p] = Polled(Append(messages[p], m))]
      /\ \A q \in Processes \ {p} : \A i \in DOMAIN messages[q] : messages[q][i].session # m.session
  BY DEF Consistent, Send, Owns
<1> HIDE DEF m
<1>3. Consistent(sent, topic)
  BY <1>1, <1>2, NewMessage
<1>4. sent[p] \in Seq(Message) /\ sent[p] = Append(messages[p], m)
  BY <1>1, <1>2
<1>5. messages' = [sent EXCEPT ![p] = Polled(sent[p])]
  BY <1>2, <1>4
<1> HIDE DEF sent
<1>6. Consistent(messages', topic)
  BY <1>3, <1>4, <1>5, PolledStates, NewStates
<1> QED
  BY <1>2, <1>6

LEMMA ServeConsistent ==
  ASSUME NEW p \in Processes, Consistent(messages, topic), Serve(p)
  PROVE  Consistent(messages, topic)'
<1>1. messages[p] \in Seq(Message) /\ UNCHANGED topic /\ messages' = [messages EXCEPT ![p] = Polled(messages[p])]
  BY DEF Consistent, Serve
<1> QED
  BY <1>1, PolledStates, NewStates

LEMMA DeliverConsistent ==
  ASSUME NEW p \in Processes, NEW i \in DOMAIN messages[p], Consistent(messages, topic),
         Transmit(p, i) \/ Ack(p, i) \/ Expire(p, i)
  PROVE  Consistent(messages, topic)'
<1>1. messages \in [Processes -> Seq(Message)] /\ messages[p] \in Seq(Message)
  BY DEF Consistent
<1>2. messages[p][i] \in Message
  BY <1>1
<1>3. messages[p][i].session \in Sessions
  BY <1>2 DEF Message
<1>4. ASSUME NEW state, SetState(p, i, state)
      PROVE  messages' = [messages EXCEPT ![p] = [messages[p] EXCEPT ![i].state = state]]
  BY <1>1, <1>4 DEF SetState
<1>5. CASE Transmit(p, i)
  <2> DEFINE own == [messages[p] EXCEPT ![i].state = "written"]
             s == messages[p][i].session
  <2>1. messages[p][i].state = "queued" \/ messages[p][i].state = "written"
    BY <1>5 DEF Transmit, InState
  <2>2. ~Has(topic, s, i)
    BY <1>5 DEF Transmit, Accepts, InTopic, Has
  <2>3. messages[p][i].state = "queued"
    BY <2>1, <2>2 DEF Consistent, Written
  <2>4. \A j \in DOMAIN messages[p] : messages[p][j].state = "queued" /\ j < i => messages[p][j].session # s
    BY <1>5 DEF Transmit, Accepts, InState
  <2>5. messages' = [messages EXCEPT ![p] = own] /\ topic' = [topic EXCEPT ![s] = Append(@, i)]
    BY <1>4, <1>5 DEF Transmit
  <2>6. /\ own \in Seq(Message) /\ DOMAIN own = DOMAIN messages[p]
        /\ own[i].session = s /\ own[i].state = "written"
        /\ \A j \in DOMAIN own \ {i} : own[j] = messages[p][j]
    BY <1>1, OneState DEF States
  <2> HIDE DEF own, s
  <2>7. s \in Sessions /\ messages[p][i].session = s
    BY <1>3 DEF s
  <2> QED
    BY <2>2, <2>3, <2>4, <2>5, <2>6, <2>7, NewEntry
<1>6. ASSUME NEW state \in {"acked", "expired"}, SetState(p, i, state), UNCHANGED topic,
             state = "acked" => messages[p][i].state = "written"
      PROVE  Consistent(messages, topic)'
  <2> DEFINE own == [messages[p] EXCEPT ![i].state = state]
  <2>1. /\ own \in Seq(Message) /\ DOMAIN own = DOMAIN messages[p]
        /\ own[i].session = messages[p][i].session /\ own[i].state = state
        /\ \A j \in DOMAIN own \ {i} : own[j] = messages[p][j]
    <3>1. state \in States
      BY <1>6 DEF States
    <3> QED
      BY <1>1, <3>1, OneState
  <2>2. messages' = [messages EXCEPT ![p] = own]
    BY <1>4, <1>6
  <2> HIDE DEF own
  <2>3. \A j \in DOMAIN own :
          /\ own[j].session = messages[p][j].session
          /\ own[j].state = "queued" => messages[p][j].state = "queued"
          /\ own[j].state \in Written => messages[p][j].state \in Written
    BY <1>6, <2>1 DEF Written
  <2> QED
    BY <1>6, <2>1, <2>2, <2>3, NewStates
<1>7. CASE Ack(p, i)
  BY <1>6, <1>7 DEF Ack, InState
<1>8. CASE Expire(p, i)
  BY <1>6, <1>8 DEF Expire
<1> QED
  BY <1>5, <1>7, <1>8

LEMMA EventStep == EventInv /\ [Next]_vars => EventInv'
<1> SUFFICES ASSUME EventInv, [Next]_vars PROVE EventInv'
  OBVIOUS
<1> USE DEF Alive, Booting, Over
<1>1. CASE UNCHANGED <<messages, topic, pc>>
  BY <1>1 DEF EventInv
<1>2. ASSUME Consistent(messages, topic)', UNCHANGED pc,
             NEW p \in Processes, pc[p] # "exit 0",
             \A q \in Processes \ {p} : messages'[q] = messages[q]
      PROVE  EventInv'
  BY <1>2 DEF EventInv
<1>3. ASSUME UNCHANGED delivery, NEW p \in Processes, NEW there \in Alive \cup Over,
             pc' = [pc EXCEPT ![p] = there],
             there = "exit 0" => \A i \in DOMAIN messages[p] : messages[p][i].state = "delivered"
      PROVE  EventInv'
  <2>1. Consistent(messages, topic)' /\ UNCHANGED messages
    BY <1>3 DEF EventInv, delivery
  <2>2. pc' \in [Processes -> Alive \cup Over] /\ \A q \in Processes : pc'[q] = IF q = p THEN there ELSE pc[q]
    BY <1>3 DEF EventInv
  <2> QED
    BY <1>3, <2>1, <2>2 DEF EventInv
<1>4. CASE UNCHANGED vars
  BY <1>1, <1>4 DEF vars, delivery
<1>5. ASSUME NEW p \in Processes, Proceed(p) \/ Signal(p) \/ Die(p)
      PROVE  EventInv'
  <2>1. CASE Connect(p) \/ ConnectFails(p)
    <3>1. UNCHANGED delivery /\ (UNCHANGED pc \/ Goto(p, "checking") \/ Goto(p, "dead"))
      BY <2>1 DEF Connect, ConnectFails
    <3> QED
      BY <1>1, <1>3, <3>1 DEF Goto, delivery
  <2>2. CASE CheckEmpty(p)
    <3>1. UNCHANGED delivery /\ (Goto(p, "ticking") \/ Goto(p, "seeding"))
      BY <2>2 DEF CheckEmpty
    <3> QED
      BY <1>3, <3>1 DEF Goto
  <2>3. CASE InsertPart(p)
    <3>1. UNCHANGED delivery /\ (UNCHANGED pc \/ Goto(p, "dead"))
      BY <2>3 DEF InsertPart
    <3> QED
      BY <1>1, <1>3, <3>1 DEF Goto, delivery
  <2>4. CASE CommitSeed(p)
    BY <1>3, <2>4 DEF CommitSeed, Goto
  <2>5. CASE EndTick(p)
    <3>1. UNCHANGED delivery /\ (UNCHANGED pc \/ Goto(p, "flushing"))
      BY <2>5 DEF EndTick
    <3> QED
      BY <1>1, <1>3, <3>1 DEF Goto, delivery
  <2>6. CASE Exit(p)
    <3>1. CASE AllDelivered(p)
      <4>1. \A i \in DOMAIN messages[p] : messages[p][i].state = "delivered"
        BY <3>1 DEF AllDelivered, failed, Pending, InState
      <4> QED
        BY <1>3, <2>6, <3>1, <4>1 DEF Exit, Goto
    <3>2. CASE ~AllDelivered(p)
      BY <1>3, <2>6, <3>2 DEF Exit, Goto
    <3> QED
      BY <3>1, <3>2
  <2>7. CASE Signal(p) \/ \E s \in Sessions : EndCheckout(p, s)
    BY <1>1, <2>7 DEF Signal, EndCheckout, delivery
  <2>8. CASE Die(p)
    BY <1>3, <2>8 DEF Die, Goto
  <2> QED
    BY <1>5, <2>1, <2>2, <2>3, <2>4, <2>5, <2>6, <2>7, <2>8 DEF Proceed, Boot
<1>6. ASSUME NEW p \in Processes, Flush(p)
      PROVE  EventInv'
  <2>1. Serve(p) /\ pc[p] # "exit 0" /\ UNCHANGED pc
        /\ \A q \in Processes \ {p} : messages'[q] = messages[q]
    BY <1>6 DEF Flush, Serve, EventInv, Consistent
  <2> QED
    BY <1>2, <2>1, ServeConsistent DEF EventInv
<1>7. ASSUME NEW p \in Processes, NEW s \in Sessions, Browse(p, s) \/ BeginCheckout(p, s)
      PROVE  EventInv'
  <2>1. PICK kind \in Kinds : Send(p, s, kind)
    BY <1>7 DEF Browse, BeginCheckout, Kinds
  <2>2. pc[p] # "exit 0" /\ UNCHANGED pc
    BY <1>7 DEF Browse, BeginCheckout, Free
  <2>3. \A q \in Processes \ {p} : messages'[q] = messages[q]
    BY <2>1 DEF Send, EventInv, Consistent
  <2> QED
    BY <1>2, <2>1, <2>2, <2>3, SendConsistent DEF EventInv
<1>8. ASSUME NEW p \in Processes, NEW i \in DOMAIN messages[p], Deliver(p, i)
      PROVE  EventInv'
  <2>1. (Transmit(p, i) \/ Ack(p, i) \/ Expire(p, i)) /\ pc[p] # "exit 0" /\ UNCHANGED pc
    BY <1>8 DEF Deliver
  <2>2. \A q \in Processes \ {p} : messages'[q] = messages[q]
    <3>1. PICK state : SetState(p, i, state)
      BY <2>1 DEF Transmit, Ack, Expire
    <3>2. messages \in [Processes -> Seq(Message)]
      BY DEF EventInv, Consistent
    <3> QED
      BY <3>1, <3>2 DEF SetState
  <2> QED
    BY <1>2, <2>1, <2>2, DeliverConsistent DEF EventInv
<1> QED
  BY <1>4, <1>5, <1>6, <1>7, <1>8 DEF Next

\* Whatever is retried, lost or given up, and whoever dies, the events of a session are in
\* the topic in the order they were emitted, each at most once (clickstream.py).
THEOREM SessionsAlwaysKeepOrder == Spec => []SessionsKeepOrder
<1>1. EventInv => SessionsKeepOrder
  BY DEF EventInv, Consistent, SessionsKeepOrder
<1> QED
  BY <1>1, EventInit, EventStep, PTL DEF Spec

\* A process that exits with 0 has got every event it emitted into the topic (main.py).
THEOREM CleanExitsLoseNothing == Spec => []CleanExitMeansDelivered
<1>1. EventInv => CleanExitMeansDelivered
  <2> SUFFICES ASSUME EventInv, NEW p \in Processes, pc[p] = "exit 0", NEW i \in DOMAIN messages[p]
               PROVE  InTopic(p, i)
    BY DEF CleanExitMeansDelivered
  <2>1. messages[p][i].state \in Written
    BY DEF EventInv, Written
  <2>2. \A q \in Processes : \A j \in DOMAIN messages[q] :
          messages[q][j].state \in Written => Has(topic, messages[q][j].session, j)
    BY DEF EventInv, Consistent
  <2>3. Has(topic, messages[p][i].session, i)
    BY <2>1, <2>2
  <2> QED
    BY <2>3 DEF Has, InTopic
<1> QED
  BY <1>1, EventInit, EventStep, PTL DEF Spec

-----------------------------------------------------------------------------
(* The loop.                                                               *)

\* Whoever still has ticks to do has not done as many as --ticks says.
LoopInv ==
  /\ attempt \in [Processes -> 1 .. Retries]
  /\ running \in [Processes -> BOOLEAN]
  /\ tick \in [Processes -> Nat]
  /\ \A p \in Processes : tick[p] \in 0 .. Ticks[p]
  /\ \A p \in Processes : pc[p] \in Booting \cup {"ticking"} => Ticks[p] = 0 \/ tick[p] < Ticks[p]
  /\ phase \in [Sessions -> {"browsing", "ordering", "over"}]
  /\ ordered \subseteq Sessions

LEMMA LoopInit == Init => LoopInv
<1> SUFFICES ASSUME Init PROVE LoopInv
  OBVIOUS
<1>1. Retries \in Nat \ {0} /\ Ticks \in [Processes -> Nat]
  BY SimulatorAssumption
<1>2. \A p \in Processes : Ticks[p] \in Nat /\ tick[p] = 0
  BY <1>1 DEF Init
<1>3. attempt \in [Processes -> 1 .. Retries]
  BY <1>1 DEF Init
<1> QED
  BY <1>2, <1>3 DEF Init, LoopInv

\* A step without a tick: nobody enters the loop who was not on the way to it.
LEMMA LoopUntouched ==
  ASSUME LoopInv, UNCHANGED tick,
         \A p \in Processes : pc'[p] \in Booting \cup {"ticking"} => pc[p] \in Booting \cup {"ticking"},
         attempt' \in [Processes -> 1 .. Retries], running' \in [Processes -> BOOLEAN],
         phase' \in [Sessions -> {"browsing", "ordering", "over"}], ordered' \subseteq Sessions
  PROVE  LoopInv'
BY DEF LoopInv, Booting

LEMMA LoopStep == SeedInv /\ LoopInv /\ [Next]_vars => LoopInv'
<1> SUFFICES ASSUME SeedInv, LoopInv, [Next]_vars PROVE LoopInv'
  OBVIOUS
<1> DEFINE Types(a, r, f, o) ==
             /\ a \in [Processes -> 1 .. Retries] /\ r \in [Processes -> BOOLEAN]
             /\ f \in [Sessions -> {"browsing", "ordering", "over"}] /\ o \subseteq Sessions
           Stays == \A q \in Processes :
                      pc'[q] \in Booting \cup {"ticking"} => pc[q] \in Booting \cup {"ticking"}
<1>1. pc \in [Processes -> Alive \cup Over] /\ Retries \in Nat \ {0} /\ Ticks \in [Processes -> Nat]
  BY SimulatorAssumption DEF SeedInv, BootTypeOK
<1>2. Types(attempt, running, phase, ordered)
  BY DEF LoopInv
<1>3. CASE UNCHANGED vars
  BY <1>2, <1>3, LoopUntouched DEF vars, boot, shop
<1>4. ASSUME NEW p \in Processes, Connect(p) \/ ConnectFails(p) PROVE LoopInv'
  <2>1. Stays
    BY <1>1, <1>4 DEF Connect, ConnectFails, Goto, Booting
  <2>2. attempt[p] \in 1 .. Retries
    BY <1>2
  <2>3. 1 \in 1 .. Retries /\ (attempt[p] # Retries => attempt[p] + 1 \in 1 .. Retries)
    BY <1>1, <2>2
  <2>4. attempt' \in [Processes -> 1 .. Retries]
    BY <1>2, <1>4, <2>3 DEF Connect, ConnectFails, LastAttempt
  <2> QED
    BY <1>2, <1>4, <2>1, <2>4, LoopUntouched DEF Connect, ConnectFails, shop
<1>5. ASSUME NEW p \in Processes, CheckEmpty(p) \/ InsertPart(p) \/ CommitSeed(p) PROVE LoopInv'
  <2>1. Stays
    BY <1>1, <1>5 DEF CheckEmpty, InsertPart, CommitSeed, Goto, Booting
  <2> QED
    BY <1>2, <1>5, <2>1, LoopUntouched DEF CheckEmpty, InsertPart, CommitSeed, boot, shop
<1>6. ASSUME NEW p \in Processes, EndTick(p) PROVE LoopInv'
  <2>1. pc[p] = "ticking" /\ UNCHANGED <<attempt, running, phase, ordered>>
    BY <1>6 DEF EndTick, Free, boot, shop
  <2>2. Ticks[p] \in Nat /\ tick[p] \in Nat /\ (Ticks[p] = 0 \/ tick[p] < Ticks[p])
    BY <1>1, <2>1 DEF LoopInv
  <2>3. PICK n \in 0 .. Ticks[p] :
          /\ tick' = [tick EXCEPT ![p] = n]
          /\ ((n < Ticks[p] \/ Ticks[p] = 0) /\ UNCHANGED pc) \/ Goto(p, "flushing")
    <3> DEFINE m == IF Ticks[p] = 0 THEN 0 ELSE tick[p] + 1
    <3>1. m \in 0 .. Ticks[p]
      BY <2>2
    <3>2. /\ tick' = [tick EXCEPT ![p] = m]
          /\ ((m < Ticks[p] \/ Ticks[p] = 0) /\ UNCHANGED pc) \/ Goto(p, "flushing")
      BY <1>6 DEF EndTick
    <3> HIDE DEF m
    <3> QED
      BY <3>1, <3>2
  <2>4. n \in Nat /\ tick' \in [Processes -> Nat]
    BY <2>2, <2>3 DEF LoopInv
  <2>5. ASSUME NEW q \in Processes
        PROVE  /\ tick'[q] \in 0 .. Ticks[q]
               /\ pc'[q] \in Booting \cup {"ticking"} => Ticks[q] = 0 \/ tick'[q] < Ticks[q]
    <3>1. CASE q # p
      <4>1. tick'[q] = tick[q] /\ pc'[q] = pc[q]
        BY <1>1, <2>3, <3>1 DEF Goto, LoopInv
      <4> QED
        BY <4>1 DEF LoopInv
    <3>2. CASE q = p
      <4>1. tick'[q] = n
        BY <2>3, <3>2 DEF LoopInv
      <4>2. Goto(p, "flushing") => pc'[q] = "flushing"
        BY <1>1, <3>2 DEF Goto
      <4> QED
        BY <2>3, <3>2, <4>1, <4>2 DEF Booting
    <3> QED
      BY <3>1, <3>2
  <2> QED
    BY <1>2, <2>1, <2>4, <2>5 DEF LoopInv, Booting
<1>7. ASSUME NEW p \in Processes, Exit(p) \/ Die(p) PROVE LoopInv'
  <2>1. Stays
    BY <1>1, <1>7 DEF Exit, Die, Goto, Booting
  <2> QED
    BY <1>2, <1>7, <2>1, LoopUntouched DEF Exit, Die, boot, shop
<1>8. ASSUME NEW p \in Processes, Signal(p) PROVE LoopInv'
  <2>1. running' \in [Processes -> BOOLEAN]
    BY <1>2, <1>8 DEF Signal
  <2> QED
    BY <1>2, <1>8, <2>1, LoopUntouched DEF Signal, boot, shop
<1>9. ASSUME NEW p \in Processes, NEW s \in Sessions,
             EndCheckout(p, s) \/ Browse(p, s) \/ BeginCheckout(p, s)
      PROVE  LoopInv'
  <2>1. phase' \in [Sessions -> {"browsing", "ordering", "over"}] /\ ordered' \subseteq Sessions
    BY <1>2, <1>9 DEF EndCheckout, Browse, BeginCheckout, shop
  <2> QED
    BY <1>2, <1>9, <2>1, LoopUntouched DEF EndCheckout, Browse, BeginCheckout, boot
<1>10. ASSUME NEW p \in Processes, Flush(p) \/ \E i \in DOMAIN messages[p] : Deliver(p, i)
       PROVE  LoopInv'
  BY <1>2, <1>10, LoopUntouched DEF Flush, Deliver, boot, shop
<1> QED
  BY <1>3, <1>4, <1>5, <1>6, <1>7, <1>8, <1>9, <1>10 DEF Next, Proceed, Boot

\* Types; and no process does more ticks than it was asked for or tries to connect more
\* often than it may (main.py: main, _connect).
THEOREM SimulatorTypeCorrect == Spec => []TypeOK
<1>1. SeedInv /\ EventInv /\ LoopInv => TypeOK
  BY SeedParts DEF SeedInv, BootTypeOK, EventInv, Consistent, LoopInv, TypeOK, DeliveryTypeOK
<1> QED
  BY <1>1, SeedInit, SeedStep, EventInit, EventStep, LoopInit, LoopStep, PTL DEF Spec
=============================================================================
