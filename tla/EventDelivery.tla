---------------------------- MODULE EventDelivery ----------------------------
(***************************************************************************)
(* The way of an event from the transaction that made it to its effect in  *)
(* another service (pkg/shared: outbox/outbox.go, outbox/relay.go,         *)
(* outbox/inbox.go, natsx/natsx.go).                                       *)
(*                                                                         *)
(* The event is a row of the outbox of its service, written in the same    *)
(* transaction as the change it tells of.  Relays copy the rows to a       *)
(* JetStream stream.  A durable consumer delivers each message until it is *)
(* acknowledged or has been delivered MaxDeliver times; its handler looks  *)
(* the event up in processed_events, and commits its effect together with  *)
(* the mark that it is processed.                                          *)
(*                                                                         *)
(* outbox   the rows: "none", "pending" or "published"                     *)
(* relay    of each relay, the batch it has locked, what of it is left to  *)
(*          publish and what has been published                            *)
(* stream   the messages, each with the event, the number of deliveries    *)
(*          and whether it is acknowledged                                 *)
(* window   the ids JetStream remembers for deduplication (two minutes)    *)
(* handler  of each handler, the message it has, and what it does next     *)
(* marked   the table processed_events of the consumer                     *)
(* effects  how often the effect of an event was committed (history)       *)
(* dead     events published to the dead letter subject                    *)
(* budget   how often each of the chances below may come                   *)
(***************************************************************************)
EXTENDS Integers, Sequences, FiniteSets, FiniteSetsExt

CONSTANTS Event,       \* ids of events, in the order of their rows
          Relay,       \* processes that publish the outbox
          Handler,     \* processes that share the durable consumer
          BatchSize, MaxDeliver,
          Budgets,     \* bound of the model: how often each chance may come
          Idle

VARIABLES outbox, relay, stream, window, handler, marked, effects, dead, budget

(* History: events that a relay may publish again; events that two         *)
(* handlers looked up before either committed; events whose last delivery  *)
(* ended without a dead letter.                                            *)
VARIABLES resent, overlapped, unburied

outboxVars == <<outbox, relay>>
consumerVars == <<handler, marked, effects, dead>>
history == <<resent, overlapped, unburied>>
vars == <<outboxVars, stream, window, consumerVars, budget, history>>

(* "event": an event is made.  "relay", "handler": the process dies.       *)
(* "window": two minutes go by and JetStream forgets an id.  "reply": a    *)
(* message is stored, but publishing it is reported as failed.  "ack": an  *)
(* acknowledgement is lost, which is not noticed.  "dlq": publishing to    *)
(* the dead letter subject fails, which is not noticed either.             *)
Chance == {"event", "relay", "handler", "window", "reply", "ack", "dlq"}

Batch == [held : SUBSET Event, left : SUBSET Event, sent : SUBSET Event]

Message == [event : Event, delivered : 0..MaxDeliver, acked : BOOLEAN]

Step == {"check", "commit", "ack", "failed"}

Handling == [message : Nat \ {0}, try : 1..MaxDeliver, next : Step]

ASSUME DeliveryAssumption ==
  /\ Event \subseteq Nat
  /\ BatchSize \in Nat \ {0}
  /\ MaxDeliver \in Nat \ {0}
  /\ Budgets \subseteq [Chance -> Nat]
  /\ Idle \notin Batch \cup Handling

TypeOK ==
  /\ outbox \in [Event -> {"none", "pending", "published"}]
  /\ relay \in [Relay -> Batch \cup {Idle}]
  /\ stream \in Seq(Message)
  /\ window \subseteq Event
  /\ handler \in [Handler -> Handling \cup {Idle}]
  /\ marked \subseteq Event
  /\ effects \in [Event -> Nat]
  /\ dead \subseteq Event
  /\ budget \in [Chance -> Nat]
  /\ resent \subseteq Event /\ overlapped \subseteq Event /\ unburied \subseteq Event

Init ==
  /\ outbox = [e \in Event |-> "none"]
  /\ relay = [r \in Relay |-> Idle]
  /\ stream = <<>>
  /\ window = {}
  /\ handler = [h \in Handler |-> Idle]
  /\ marked = {}
  /\ effects = [e \in Event |-> 0]
  /\ dead = {}
  /\ budget \in Budgets
  /\ resent = {} /\ overlapped = {} /\ unburied = {}

Strikes(chance) == budget[chance] > 0 /\ budget' = [budget EXCEPT ![chance] = @ - 1]
Safely == UNCHANGED <<budget, history>>

-----------------------------------------------------------------------------
(* The outbox.                                                             *)

(* The transaction of a service that makes the event commits.              *)
Enqueue(e) ==
  /\ outbox[e] = "none" /\ Strikes("event")
  /\ outbox' = [outbox EXCEPT ![e] = "pending"]
  /\ UNCHANGED <<relay, stream, window, consumerVars, history>>

(* Mutant of Locked: without SKIP LOCKED.                                  *)
NoneLocked == {}

Locked == UNION {relay[r].held : r \in {q \in Relay : relay[q] # Idle}}

(* Rows to select: not published, and not locked by another relay.         *)
Selectable == {e \in Event : outbox[e] = "pending"} \ Locked

(* The oldest n of a set of events.                                        *)
Oldest(S, n) == {e \in S : Cardinality({f \in S : f < e}) < n}

SelectBatch(r) ==
  /\ relay[r] = Idle
  /\ Selectable # {}
  /\ LET b == Oldest(Selectable, BatchSize)
     IN relay' = [relay EXCEPT ![r] = [held |-> b, left |-> b, sent |-> {}]]
  /\ UNCHANGED <<outbox, stream, window, consumerVars>> /\ Safely

(* JetStream drops a message whose id it remembers, and reports success.   *)
Store(e) ==
  IF e \in window
  THEN UNCHANGED <<stream, window>>
  ELSE /\ stream' = Append(stream, [event |-> e, delivered |-> 0, acked |-> FALSE])
       /\ window' = window \cup {e}

Publish(r) ==
  /\ relay[r] # Idle /\ relay[r].left # {}
  /\ LET e == Min(relay[r].left)
     IN /\ Store(e)
        /\ relay' = [relay EXCEPT ![r].left = @ \ {e}, ![r].sent = @ \cup {e}]
  /\ UNCHANGED <<outbox, consumerVars>> /\ Safely

(* Mutant of PublishFails: the failure is not noticed.                     *)
PublishFailsUnnoticed(r) ==
  /\ relay[r] # Idle /\ relay[r].left # {}
  /\ LET e == Min(relay[r].left)
     IN relay' = [relay EXCEPT ![r].left = @ \ {e}, ![r].sent = @ \cup {e}]
  /\ UNCHANGED <<outbox, stream, window, consumerVars>> /\ Safely

(* The event stays unpublished; the rest of the batch goes on.             *)
PublishFails(r) ==
  /\ relay[r] # Idle /\ relay[r].left # {}
  /\ LET e == Min(relay[r].left)
     IN /\ \/ UNCHANGED <<stream, window>> /\ Safely
           \/ /\ Strikes("reply") /\ Store(e)
              /\ resent' = resent \cup {e} /\ UNCHANGED <<overlapped, unburied>>
        /\ relay' = [relay EXCEPT ![r].left = @ \ {e}]
  /\ UNCHANGED <<outbox, consumerVars>>

(* Mutant of MarkPublished: the whole batch is marked.                     *)
MarkAllPublished(r) ==
  /\ relay[r] # Idle /\ relay[r].left = {}
  /\ outbox' = [e \in Event |-> IF e \in relay[r].held THEN "published" ELSE outbox[e]]
  /\ relay' = [relay EXCEPT ![r] = Idle]
  /\ UNCHANGED <<stream, window, consumerVars>> /\ Safely

MarkPublished(r) ==
  /\ relay[r] # Idle /\ relay[r].left = {}
  /\ outbox' = [e \in Event |-> IF e \in relay[r].sent THEN "published" ELSE outbox[e]]
  /\ relay' = [relay EXCEPT ![r] = Idle]
  /\ UNCHANGED <<stream, window, consumerVars>> /\ Safely

(* Also: marking the rows or committing fails.                             *)
RelayDies(r) ==
  /\ relay[r] # Idle /\ Strikes("relay")
  /\ relay' = [relay EXCEPT ![r] = Idle]
  /\ resent' = resent \cup relay[r].sent
  /\ UNCHANGED <<outbox, stream, window, consumerVars, overlapped, unburied>>

-----------------------------------------------------------------------------
(* JetStream.                                                              *)

Forget(e) ==
  /\ e \in window /\ Strikes("window")
  /\ window' = window \ {e}
  /\ UNCHANGED <<outboxVars, stream, consumerVars, history>>

(* The first delivery, or another one after a negative acknowledgement or  *)
(* after the time to acknowledge is over, be the handler at it or not.     *)
Deliver(h, m) ==
  /\ handler[h] = Idle
  /\ ~stream[m].acked /\ stream[m].delivered < MaxDeliver
  /\ stream' = [stream EXCEPT ![m].delivered = @ + 1]
  /\ handler' = [handler EXCEPT ![h] =
       [message |-> m, try |-> stream[m].delivered + 1, next |-> "check"]]
  /\ UNCHANGED <<outboxVars, window, marked, effects, dead>> /\ Safely

-----------------------------------------------------------------------------
(* handleMsg, with a handler that uses the inbox.                          *)

At(h, step) == handler[h] # Idle /\ handler[h].next = step

EventOf(h) == stream[handler[h].message].event

Then(h, step) == handler' = [handler EXCEPT ![h].next = step]

(* Mutant of AlreadyProcessed: the mark is ignored.                        *)
CheckIgnored(h) ==
  /\ At(h, "check")
  /\ Then(h, "commit")
  /\ UNCHANGED <<outboxVars, stream, window, marked, effects, dead>> /\ Safely

AlreadyProcessed(h) ==
  /\ At(h, "check")
  /\ IF EventOf(h) \in marked THEN Then(h, "ack") ELSE Then(h, "commit")
  /\ UNCHANGED <<outboxVars, stream, window, marked, effects, dead>> /\ Safely

(* The effect and MarkProcessed, which is ON CONFLICT DO NOTHING.          *)
CommitEffect(h) ==
  /\ At(h, "commit")
  /\ effects' = [effects EXCEPT ![EventOf(h)] = @ + 1]
  /\ marked' = marked \cup {EventOf(h)}
  /\ overlapped' = IF \E g \in Handler \ {h} : At(g, "commit") /\ EventOf(g) = EventOf(h)
                   THEN overlapped \cup {EventOf(h)} ELSE overlapped
  /\ Then(h, "ack")
  /\ UNCHANGED <<outboxVars, stream, window, dead, budget, resent, unburied>>

HandlerFails(h) ==
  /\ At(h, "check") \/ At(h, "commit")
  /\ Then(h, "failed")
  /\ UNCHANGED <<outboxVars, stream, window, marked, effects, dead>> /\ Safely

Done(h) == handler' = [handler EXCEPT ![h] = Idle]

Acknowledge(m) ==
  \/ stream' = [stream EXCEPT ![m].acked = TRUE] /\ UNCHANGED budget
  \/ Strikes("ack") /\ UNCHANGED stream

Ack(h) ==
  /\ At(h, "ack")
  /\ Acknowledge(handler[h].message)
  /\ Done(h)
  /\ UNCHANGED <<outboxVars, window, marked, effects, dead, history>>

(* Mutant of Exhausted: one delivery too late.                             *)
ExhaustedTooLate(h) == handler[h].try > MaxDeliver

(* decideAck: was this the last delivery?                                  *)
Exhausted(h) == handler[h].try >= MaxDeliver

Nak(h) ==
  /\ At(h, "failed") /\ ~Exhausted(h)
  /\ Done(h)
  /\ UNCHANGED <<outboxVars, stream, window, marked, effects, dead>> /\ Safely

PublishDLQ(h) ==
  /\ At(h, "failed") /\ Exhausted(h)
  /\ \/ dead' = dead \cup {EventOf(h)} /\ Safely
     \/ /\ Strikes("dlq") /\ unburied' = unburied \cup {EventOf(h)}
        /\ UNCHANGED <<dead, resent, overlapped>>
  /\ Then(h, "ack")
  /\ UNCHANGED <<outboxVars, stream, window, marked, effects>>

HandlerDies(h) ==
  /\ handler[h] # Idle /\ Strikes("handler")
  /\ unburied' = IF Exhausted(h) THEN unburied \cup {EventOf(h)} ELSE unburied
  /\ Done(h)
  /\ UNCHANGED <<outboxVars, stream, window, marked, effects, dead, resent, overlapped>>

-----------------------------------------------------------------------------
RelayWork(r) == SelectBatch(r) \/ Publish(r) \/ PublishFails(r) \/ MarkPublished(r)

HandlerWork(h) ==
  \/ \E m \in DOMAIN stream : Deliver(h, m)
  \/ AlreadyProcessed(h) \/ CommitEffect(h) \/ HandlerFails(h)
  \/ Ack(h) \/ Nak(h) \/ PublishDLQ(h)

Next ==
  \/ \E e \in Event : Enqueue(e) \/ Forget(e)
  \/ \E r \in Relay : RelayWork(r) \/ RelayDies(r)
  \/ \E h \in Handler : HandlerWork(h) \/ HandlerDies(h)

Spec == Init /\ [][Next]_vars

(* Both loops run as long as the process does, and the client reconnects   *)
(* for ever, so a row that is published again and again is so in the end.  *)
FairSpec ==
  /\ Spec
  /\ \A r \in Relay : WF_vars(RelayWork(r)) /\ SF_vars(Publish(r))
  /\ \A h \in Handler : WF_vars(HandlerWork(h))

-----------------------------------------------------------------------------
Stored(e) == \E m \in DOMAIN stream : stream[m].event = e

(* A row is marked as published only if the message is in the stream: no   *)
(* failure or crash of a relay loses an event.                             *)
PublishedIsStored == \A e \in Event : outbox[e] = "published" => Stored(e)

(* Relays running side by side do not publish a row twice, however long    *)
(* one takes, but for what one of them had published when it died, and for *)
(* a reply that was lost.                                                  *)
StoredOnce ==
  \A m, n \in DOMAIN stream :
    stream[m].event = stream[n].event /\ stream[m].event \notin resent => m = n

(* JetStream is through with a message: acknowledged, or delivered as      *)
(* often as it may be, and no handler has it.                              *)
Over(m) ==
  /\ stream[m].acked \/ stream[m].delivered = MaxDeliver
  /\ \A h \in Handler : handler[h] # Idle => handler[h].message # m

Settled(e) == effects[e] > 0 \/ e \in dead \/ e \in unburied

(* No message is over without its effect or its copy in the dead letters,  *)
(* but for one whose handler died at the last delivery, or whose copy was  *)
(* not published, which nobody notices.                                    *)
OverIsHandledOrDead == \A m \in DOMAIN stream : Over(m) => Settled(stream[m].event)

(* An event whose transaction committed takes effect in the end or ends in *)
(* the dead letters, with the same exceptions, whatever has failed before. *)
EnqueuedIsHandled == \A e \in Event : outbox[e] = "pending" ~> Settled(e)

(* What a publisher and a consumer may rely on: whatever fails, duplicates *)
(* included, each event committed by the publisher takes effect at most    *)
(* once, and no other event does; but for an event that two handlers had   *)
(* looked up before either committed, whose effects count as one.          *)
Contract == INSTANCE EventContract WITH
  enqueued <- {e \in Event : outbox[e] # "none"},
  effects <- [e \in Event |-> IF e \in overlapped THEN Min({effects[e], 1}) ELSE effects[e]]

ImplementsContract == Contract!ContractSpec

(* On the way from the outbox to the end of its last delivery nothing is   *)
(* lost, and nothing doubled without a fault (relay.go, natsx.go), with    *)
(* the exceptions of the parts.                                            *)
NothingIsLostOrDoubled ==
  /\ TypeOK
  /\ PublishedIsStored
  /\ StoredOnce
  /\ OverIsHandledOrDead
=============================================================================
