---------------------------- MODULE Clickstream ----------------------------
(***************************************************************************)
(* The clickstream producer of every simulator process                     *)
(* (producers/clickstream.py) and the topic.  A message is handed over by  *)
(* send, written to the partition of its key, the session, and reported    *)
(* back; the report waits until poll or flush serves it.  The client       *)
(* library and the broker are external: they retry, deliver late, and give *)
(* a message up when its time is over, written or not.                     *)
(***************************************************************************)
EXTENDS Naturals, Sequences, FiniteSets, SequencesExt

CONSTANTS
  Processes,
  Sessions,
  MaxEvents     \* bound: events of each process

ASSUME ClickstreamAssumption == MaxEvents \in [Processes -> Nat]

VARIABLES
  messages,  \* what each process has sent, in order
  topic      \* for each key, the indices of its messages in the order of the log

delivery == <<messages, topic>>

\* "corrupt" is what silver has to quarantine: an unknown type or a time in 2100.
Kinds == {"browse", "begin_checkout", "corrupt"}

\* queued, written (the broker has it), acked or expired (the report waits),
\* delivered or failed (the report was served).
States == {"queued", "written", "acked", "expired", "delivered", "failed"}

Message == [session : Sessions, kind : Kinds, state : States]

DeliveryTypeOK ==
  /\ messages \in [Processes -> Seq(Message)]
  /\ topic \in [Sessions -> Seq(Nat)]

DeliveryInit ==
  /\ messages = [p \in Processes |-> <<>>]
  /\ topic = [s \in Sessions |-> <<>>]

\* Session ids are random: no two processes share one.
Owns(p, s) == \A q \in Processes \ {p} : \A i \in DOMAIN messages[q] : messages[q][i].session # s

InTopic(p, i) == \E n \in DOMAIN topic[messages[p][i].session] : topic[messages[p][i].session][n] = i

\* Every report that waits is served by the next poll or flush.  (_on_delivery)
Served(state) ==
  CASE state = "acked" -> "delivered"
    [] state = "expired" -> "failed"
    [] OTHER -> state

Polled(msgs) == [i \in DOMAIN msgs |-> [msgs[i] EXCEPT !.state = Served(@)]]

\* send: produce, then poll(0).
Send(p, s, kind) ==
  /\ Len(messages[p]) < MaxEvents[p] /\ Owns(p, s)
  /\ LET m == [session |-> s, kind |-> kind, state |-> "queued"]
     IN messages' = [messages EXCEPT ![p] = Polled(Append(@, m))]
  /\ UNCHANGED topic

\* One round of flush.
Serve(p) ==
  /\ messages' = [messages EXCEPT ![p] = Polled(@)]
  /\ UNCHANGED topic

InState(p, states) == {i \in DOMAIN messages[p] : messages[p][i].state \in states}

failed(p) == InState(p, {"failed"})

\* What flush counts: messages not written yet, and reports not served yet.
Pending(p) == DOMAIN messages[p] \ InState(p, {"delivered", "failed"})

SetState(p, i, state) == messages' = [messages EXCEPT ![p][i].state = state]

\* enable.idempotence: the broker takes a message once, and only behind those that
\* were sent before it with the same key.
Accepts_Anything(p, i) == TRUE
Accepts(p, i) ==
  /\ ~InTopic(p, i)
  /\ \A j \in InState(p, {"queued"}) : j < i => messages[p][j].session # messages[p][i].session

\* A message, or a retry of it, reaches the broker.
Transmit(p, i) ==
  /\ i \in InState(p, {"queued", "written"}) /\ Accepts(p, i)
  /\ topic' = [topic EXCEPT ![messages[p][i].session] = Append(@, i)]
  /\ SetState(p, i, "written")

Ack(p, i) == i \in InState(p, {"written"}) /\ SetState(p, i, "acked") /\ UNCHANGED topic

\* The library gives a message up, also one whose acknowledgement was lost.
Expire(p, i) == i \in InState(p, {"queued", "written"}) /\ SetState(p, i, "expired") /\ UNCHANGED topic

-----------------------------------------------------------------------------
(* Properties.                                                             *)

\* The events of a session are in the topic in the order they were emitted, each at
\* most once, whatever is retried, lost or given up.  (clickstream.py: module
\* docstring, enable.idempotence, the key of produce)
SessionsKeepOrder ==
  \A s \in Sessions : \A m, n \in DOMAIN topic[s] : m < n => topic[s][m] < topic[s][n]
=============================================================================
