---------------------------- MODULE CommonProofs ----------------------------
(***************************************************************************)
(* Proofs about what the services have in common.                          *)
(*                                                                         *)
(* EventDelivery, for any number of events, relays, handlers, deliveries   *)
(* and faults.  The inductive invariant has two halves.  Publishing says   *)
(* where the rows are: what a relay holds is pending and its own, and what *)
(* is stored is published or in the hands of the relay that published it.  *)
(* Consuming says what a delivery owes: a message that is acknowledged, or *)
(* given for the last time, is settled or still with the handler that will *)
(* settle it.                                                              *)
(*                                                                         *)
(* ServiceProcess, for the scripts of the fourteen services.  That a       *)
(* script is well made (WellMade) is read off each of them; the rest holds *)
(* for every script that is.  The inductive invariant ties the deferred    *)
(* calls to the script: for every worker that runs, a wait for the group   *)
(* is still deferred, and nothing that the worker uses is closed by the    *)
(* calls in front of it.                                                   *)
(***************************************************************************)
EXTENDS EventDelivery, ServiceProcess, SumLemmas, SequenceTheorems, TLAPS

(* A batch is of pending rows, which are to be published or have been, or  *)
(* have failed.                                                            *)
BatchIsPending ==
  \A r \in Relay : relay[r] # Idle =>
    /\ relay[r].left \cup relay[r].sent \subseteq relay[r].held
    /\ relay[r].left \cap relay[r].sent = {}
    /\ \A e \in relay[r].held : outbox[e] = "pending"

(* SKIP LOCKED: two relays never hold the same row.                        *)
BatchesAreDisjoint ==
  \A r, q \in Relay :
    r # q /\ relay[r] # Idle /\ relay[q] # Idle => relay[r].held \cap relay[q].held = {}

(* What a relay has published, or JetStream remembers, is in the stream.   *)
SentIsStored == \A r \in Relay : relay[r] # Idle => \A e \in relay[r].sent : Stored(e)

RememberedIsStored == \A e \in window : Stored(e)

(* What is in the stream comes from a row, which is published, or will be  *)
(* so when its relay is done, or may be stored again.                      *)
StoredIsEnqueued == \A e \in Event : Stored(e) => outbox[e] # "none"

StoredIsSent ==
  \A e \in Event \ resent : Stored(e) =>
    outbox[e] = "published" \/ \E r \in Relay : relay[r] # Idle /\ e \in relay[r].sent

Publishing ==
  /\ BatchIsPending /\ BatchesAreDisjoint
  /\ SentIsStored /\ RememberedIsStored
  /\ StoredIsEnqueued /\ StoredIsSent
  /\ PublishedIsStored /\ StoredOnce

(* A handler has a message of the stream that was given to it.             *)
HandlersHaveMessages ==
  \A h \in Handler : handler[h] # Idle => handler[h].message \in DOMAIN stream

(* The inbox remembers the events whose effect was committed.              *)
MarkedIsApplied == \A e \in Event : e \in marked <=> effects[e] > 0

(* A handler that is about to acknowledge has dealt with the event.        *)
AckIsSettled == \A h \in Handler : At(h, "ack") => Settled(EventOf(h))

AckedIsSettled == \A m \in DOMAIN stream : stream[m].acked => Settled(stream[m].event)

(* The handler that got the last delivery settles the event or still has it.*)
LastIsSettled ==
  \A m \in DOMAIN stream : stream[m].delivered = MaxDeliver =>
    \/ Settled(stream[m].event)
    \/ \E h \in Handler : /\ handler[h] # Idle /\ handler[h].message = m
                          /\ handler[h].try = MaxDeliver

(* Two effects of one event have overlapped.                               *)
CommitsOverlap ==
  \A h \in Handler : At(h, "commit") /\ effects[EventOf(h)] > 0 => EventOf(h) \in overlapped

AppliedOnce ==
  \A e \in Event : IF e \in overlapped THEN effects[e] >= 1 ELSE effects[e] <= 1

Consuming ==
  /\ HandlersHaveMessages /\ MarkedIsApplied
  /\ AckIsSettled /\ AckedIsSettled /\ LastIsSettled
  /\ CommitsOverlap /\ AppliedOnce

Inv == TypeOK /\ Publishing /\ Consuming

-----------------------------------------------------------------------------
(* The minimum that decides between none and one.                          *)
LEMMA MinWithOne ==
  ASSUME NEW n \in Nat
  PROVE  Min({n, 1}) = IF n = 0 THEN 0 ELSE 1
<1>1. /\ Min({n, 1}) \in {n, 1} /\ \A x \in {n, 1} : Min({n, 1}) <= x
  BY MinIsLeast
<1> QED
  BY <1>1

(* A batch is told apart from a relay without one.                         *)
LEMMA BatchIsNotIdle == \A b \in Batch : b # Idle
  BY DeliveryAssumption

(* A delivery is told apart from a handler without one.                    *)
LEMMA HandlingIsNotIdle == \A d \in Handling : d # Idle
  BY DeliveryAssumption

(* A fault that strikes uses up its budget.                                *)
LEMMA StrikesKeepsType ==
  ASSUME budget \in [Chance -> Nat], NEW chance \in Chance, Strikes(chance)
  PROVE  budget' \in [Chance -> Nat]
  BY DEF Strikes

(* What a relay at work has in hand.                                       *)
LEMMA RelayOf ==
  ASSUME TypeOK, NEW r \in Relay, relay[r] # Idle
  PROVE  /\ relay[r] \in Batch
         /\ relay[r].held \subseteq Event
         /\ relay[r].left \subseteq Event
         /\ relay[r].sent \subseteq Event
  BY DEF TypeOK, Batch

(* What a message of the stream is.                                        *)
LEMMA MessageOf ==
  ASSUME TypeOK, NEW m \in DOMAIN stream
  PROVE  /\ stream[m] \in Message /\ stream[m].event \in Event
         /\ stream[m].delivered \in 0..MaxDeliver /\ stream[m].acked \in BOOLEAN
         /\ m \in Nat \ {0}
<1>1. stream \in Seq(Message)
  BY DEF TypeOK
<1>2. DOMAIN stream = 1..Len(stream) /\ Len(stream) \in Nat
  BY <1>1, LenProperties
<1>3. stream[m] \in Message
  BY <1>1, <1>2, ElementOfSeq
<1> QED
  BY <1>2, <1>3 DEF Message

(* What a handler at work has in hand.                                     *)
LEMMA HandlerOf ==
  ASSUME TypeOK, HandlersHaveMessages, NEW h \in Handler, handler[h] # Idle
  PROVE  /\ handler[h] \in Handling
         /\ handler[h].message \in DOMAIN stream
         /\ handler[h].message \in Nat \ {0}
         /\ handler[h].try \in 1..MaxDeliver
         /\ EventOf(h) \in Event
  BY MessageOf DEF TypeOK, Handling, HandlersHaveMessages, EventOf

(* The invariant holds before the first event.                             *)
LEMMA InitInv == Init => Inv
<1> SUFFICES ASSUME Init PROVE Inv
  OBVIOUS
<1>1. stream = <<>> /\ DOMAIN stream = {}
  BY DEF Init
<1>2. TypeOK
  BY DeliveryAssumption DEF Init, TypeOK
<1>3. Publishing
  BY <1>1
  DEF Init, Publishing, BatchIsPending, BatchesAreDisjoint, SentIsStored, RememberedIsStored,
      StoredIsEnqueued, StoredIsSent, PublishedIsStored, StoredOnce, Stored
<1>4. Consuming
  BY <1>1
  DEF Init, Consuming, HandlersHaveMessages, MarkedIsApplied, AckIsSettled, AckedIsSettled,
      LastIsSettled, CommitsOverlap, AppliedOnce, At
<1> QED
  BY <1>2, <1>3, <1>4 DEF Inv

-----------------------------------------------------------------------------
(* The halves do not disturb each other.  A step that keeps the messages,  *)
(* but for their counters, and the relays keeps the first half.            *)
SameEvents ==
  /\ DOMAIN stream' = DOMAIN stream
  /\ \A m \in DOMAIN stream : stream'[m].event = stream[m].event

(* Steps of the consumer leave the way to the stream alone.                *)
LEMMA PublishingKept ==
  ASSUME Publishing, SameEvents, UNCHANGED <<outboxVars, window>>, resent' = resent
  PROVE  Publishing'
<1>1. \A e : Stored(e)' <=> Stored(e)
  BY DEF SameEvents, Stored
<1> QED
  BY <1>1
  DEF Publishing, BatchIsPending, BatchesAreDisjoint, SentIsStored, RememberedIsStored,
      StoredIsEnqueued, StoredIsSent, PublishedIsStored, StoredOnce, SameEvents, outboxVars

(* Appending a message keeps those before it.                              *)
LEMMA AppendFacts ==
  ASSUME stream \in Seq(Message), NEW x \in Message, stream' = Append(stream, x)
  PROVE  /\ stream' \in Seq(Message)
         /\ DOMAIN stream' = DOMAIN stream \cup {Len(stream) + 1}
         /\ \A m \in DOMAIN stream : stream'[m] = stream[m]
         /\ Len(stream) + 1 \notin DOMAIN stream /\ stream'[Len(stream) + 1] = x
<1>1. DOMAIN stream = 1..Len(stream) /\ Len(stream) \in Nat
  BY LenProperties
<1>2. /\ stream' \in Seq(Message) /\ Len(stream') = Len(stream) + 1
      /\ \A m \in 1..Len(stream) : stream'[m] = stream[m]
      /\ stream'[Len(stream) + 1] = x
  BY AppendProperties
<1>3. DOMAIN stream' = 1..(Len(stream) + 1)
  BY <1>2, LenProperties
<1> QED
  BY <1>1, <1>2, <1>3

(* A step that may only append a fresh message keeps the second half.      *)
LEMMA ConsumingKept ==
  ASSUME TypeOK, Consuming, UNCHANGED consumerVars, UNCHANGED <<overlapped, unburied>>,
         \/ UNCHANGED stream
         \/ \E e \in Event :
              stream' = Append(stream, [event |-> e, delivered |-> 0, acked |-> FALSE])
  PROVE  Consuming'
<1>1. CASE UNCHANGED stream
  BY <1>1
  DEF Consuming, HandlersHaveMessages, MarkedIsApplied, AckIsSettled, AckedIsSettled,
      LastIsSettled, CommitsOverlap, AppliedOnce, At, EventOf, Settled, consumerVars
<1>2. ASSUME NEW e \in Event,
             stream' = Append(stream, [event |-> e, delivered |-> 0, acked |-> FALSE])
      PROVE  Consuming'
  <2> DEFINE new == [event |-> e, delivered |-> 0, acked |-> FALSE]
  <2>1. new \in Message /\ ~new.acked /\ new.delivered # MaxDeliver /\ stream' = Append(stream, new)
    BY <1>2, DeliveryAssumption DEF Message
  <2>2. stream \in Seq(Message)
    BY DEF TypeOK
  <2> HIDE DEF new
  <2>3. /\ DOMAIN stream' = DOMAIN stream \cup {Len(stream) + 1}
        /\ \A m \in DOMAIN stream : stream'[m] = stream[m]
        /\ stream'[Len(stream) + 1] = new
    BY <2>1, <2>2, AppendFacts
  <2>5. \A m \in DOMAIN stream : m \in DOMAIN stream' /\ stream'[m] = stream[m]
    BY <2>3
  <2>6. \A m \in DOMAIN stream' : m \in DOMAIN stream \/ stream'[m] = new
    BY <2>3
  <2>7. \A h \in Handler : handler[h] # Idle => EventOf(h)' = EventOf(h)
    BY <2>5 DEF EventOf, consumerVars, Consuming, HandlersHaveMessages
  <2>8. HandlersHaveMessages' /\ MarkedIsApplied' /\ AppliedOnce'
    BY <2>5 DEF Consuming, HandlersHaveMessages, MarkedIsApplied, AppliedOnce, consumerVars
  <2>9. AckIsSettled' /\ CommitsOverlap'
    BY <2>7 DEF Consuming, AckIsSettled, CommitsOverlap, At, Settled, consumerVars
  <2>10. AckedIsSettled'
    BY <2>1, <2>5, <2>6 DEF Consuming, AckedIsSettled, Settled, consumerVars
  <2>11. LastIsSettled'
    BY <2>1, <2>5, <2>6 DEF Consuming, LastIsSettled, Settled, consumerVars
  <2> QED
    BY <2>8, <2>9, <2>10, <2>11 DEF Consuming
<1> QED
  BY <1>1, <1>2

-----------------------------------------------------------------------------
(* The first half: what each step of the outbox and the relays does.       *)

(* Storing an event that JetStream remembers does nothing: it is there.    *)
LEMMA StoreFacts ==
  ASSUME TypeOK, RememberedIsStored, NEW e \in Event, Store(e)
  PROVE  /\ stream' \in Seq(Message) /\ window' \subseteq Event
         /\ \A f : Stored(f)' <=> Stored(f) \/ f = e
         /\ RememberedIsStored'
         /\ \/ UNCHANGED stream
            \/ stream' = Append(stream, [event |-> e, delivered |-> 0, acked |-> FALSE])
         /\ \A m \in DOMAIN stream : m \in DOMAIN stream' /\ stream'[m] = stream[m]
         /\ \A m, n \in DOMAIN stream' :
              m \notin DOMAIN stream => /\ stream'[m].event = e
                                        /\ n \notin DOMAIN stream => m = n
<1>1. CASE e \in window
  BY <1>1 DEF Store, TypeOK, RememberedIsStored, Stored
<1>2. CASE e \notin window
  <2> DEFINE new == [event |-> e, delivered |-> 0, acked |-> FALSE]
  <2>1. new \in Message /\ new.event = e
    BY DeliveryAssumption DEF Message
  <2>2. stream' = Append(stream, new) /\ window' = window \cup {e}
    BY <1>2 DEF Store
  <2>3. stream' = Append(stream, [event |-> e, delivered |-> 0, acked |-> FALSE])
    BY <2>2
  <2>4. stream \in Seq(Message)
    BY DEF TypeOK
  <2> HIDE DEF new
  <2>5. /\ stream' \in Seq(Message)
        /\ DOMAIN stream' = DOMAIN stream \cup {Len(stream) + 1}
        /\ \A m \in DOMAIN stream : stream'[m] = stream[m]
        /\ stream'[Len(stream) + 1] = new
    BY <2>1, <2>2, <2>4, AppendFacts
  <2>6. \A m \in DOMAIN stream : m \in DOMAIN stream' /\ stream'[m] = stream[m]
    BY <2>5
  <2>7. \A f : Stored(f)' <=> Stored(f) \/ f = e
    BY <2>1, <2>5 DEF Stored
  <2>8. RememberedIsStored'
    BY <2>2, <2>7 DEF RememberedIsStored
  <2>9. window' \subseteq Event
    BY <2>2 DEF TypeOK
  <2>10. \A m, n \in DOMAIN stream' :
              m \notin DOMAIN stream => /\ stream'[m].event = e
                                        /\ n \notin DOMAIN stream => m = n
    BY <2>1, <2>5
  <2> QED
    BY <2>3, <2>5, <2>6, <2>7, <2>8, <2>9, <2>10
<1> QED
  BY <1>1, <1>2

(* A second copy is stored only of an event that is known to be resent.    *)
LEMMA StoreKeepsOnce ==
  ASSUME TypeOK, RememberedIsStored, StoredOnce, NEW e \in Event, Store(e),
         resent \subseteq resent', e \in resent' \/ ~Stored(e)
  PROVE  StoredOnce'
<1> SUFFICES ASSUME NEW m \in DOMAIN stream', NEW n \in DOMAIN stream',
                    stream'[m].event = stream'[n].event, stream'[m].event \notin resent'
             PROVE  m = n
  BY DEF StoredOnce
<1>1. CASE m \in DOMAIN stream /\ n \in DOMAIN stream
  BY <1>1, StoreFacts DEF StoredOnce
<1>2. CASE m \notin DOMAIN stream \/ n \notin DOMAIN stream
  <2>1. stream'[m].event = e
    BY <1>2, StoreFacts
  <2>2. ~Stored(e)
    BY <2>1
  <2>3. m \notin DOMAIN stream /\ n \notin DOMAIN stream
    BY <2>1, <2>2, StoreFacts DEF Stored
  <2> QED
    BY <2>3, StoreFacts
<1> QED
  BY <1>1, <1>2

(* A new row is pending and nobody's.                                      *)
LEMMA EnqueuePublishing ==
  ASSUME TypeOK, Publishing, NEW e \in Event, Enqueue(e)
  PROVE  Publishing'
<1>1. /\ outbox[e] = "none" /\ outbox' = [outbox EXCEPT ![e] = "pending"]
      /\ UNCHANGED <<relay, stream, window, resent>>
  BY DEF Enqueue, history
<1>2. /\ outbox'[e] = "pending" /\ \A f \in Event \ {e} : outbox'[f] = outbox[f]
  BY <1>1 DEF TypeOK
<1>3. \A f : Stored(f)' <=> Stored(f)
  BY <1>1 DEF Stored
<1>4. ~Stored(e)
  BY <1>1 DEF Publishing, StoredIsEnqueued
<1>5. BatchIsPending'
  BY <1>1, <1>2, RelayOf DEF Publishing, BatchIsPending
<1>6. BatchesAreDisjoint' /\ SentIsStored' /\ RememberedIsStored' /\ StoredOnce'
  BY <1>1, <1>3
  DEF Publishing, BatchesAreDisjoint, SentIsStored, RememberedIsStored, StoredOnce
<1>7. StoredIsEnqueued' /\ PublishedIsStored' /\ StoredIsSent'
  BY <1>1, <1>2, <1>3, <1>4 DEF Publishing, StoredIsEnqueued, PublishedIsStored, StoredIsSent
<1> QED
  BY <1>5, <1>6, <1>7 DEF Publishing

(* The stream may forget an id once its window is over.                    *)
LEMMA ForgetPublishing ==
  ASSUME TypeOK, Publishing, NEW e \in Event, Forget(e)
  PROVE  Publishing'
<1>1. UNCHANGED <<outbox, relay, stream, resent>> /\ window' = window \ {e}
  BY DEF Forget, outboxVars, history
<1> QED
  BY <1>1
  DEF Publishing, BatchIsPending, BatchesAreDisjoint, SentIsStored, RememberedIsStored,
      StoredIsEnqueued, StoredIsSent, PublishedIsStored, StoredOnce, Stored

(* A relay takes rows that no other relay holds.                           *)
LEMMA SelectBatchPublishing ==
  ASSUME TypeOK, Publishing, NEW r \in Relay, SelectBatch(r)
  PROVE  Publishing' /\ relay' \in [Relay -> Batch \cup {Idle}]
<1> DEFINE b == Oldest(Selectable, BatchSize)
           new == [held |-> b, left |-> b, sent |-> {}]
<1>1. /\ relay[r] = Idle /\ relay' = [relay EXCEPT ![r] = new]
      /\ UNCHANGED <<outbox, stream, window, resent>>
  BY DEF SelectBatch, Safely, history
<1>2. b \subseteq Event
  BY DEF Oldest, Selectable
<1>3. /\ \A e \in b : outbox[e] = "pending"
      /\ \A q \in Relay : relay[q] # Idle => b \cap relay[q].held = {}
  BY DEF Oldest, Selectable, Locked
<1> HIDE DEF b
<1>4. new \in Batch /\ new # Idle /\ new.held = b /\ new.left = b /\ new.sent = {}
  BY <1>2, BatchIsNotIdle DEF Batch
<1> HIDE DEF new
<1>5. relay'[r] = new /\ \A q \in Relay \ {r} : relay'[q] = relay[q]
  BY <1>1 DEF TypeOK
<1>6. relay' \in [Relay -> Batch \cup {Idle}]
  BY <1>1, <1>4 DEF TypeOK
<1>7. \A f : Stored(f)' <=> Stored(f)
  BY <1>1 DEF Stored
<1>8. BatchIsPending' /\ BatchesAreDisjoint'
  BY <1>1, <1>3, <1>4, <1>5 DEF Publishing, BatchIsPending, BatchesAreDisjoint
<1>9. SentIsStored' /\ StoredIsSent'
  BY <1>1, <1>4, <1>5, <1>7 DEF Publishing, SentIsStored, StoredIsSent
<1>10. RememberedIsStored' /\ StoredIsEnqueued' /\ PublishedIsStored' /\ StoredOnce'
  BY <1>1, <1>7
  DEF Publishing, RememberedIsStored, StoredIsEnqueued, PublishedIsStored, StoredOnce
<1> QED
  BY <1>6, <1>8, <1>9, <1>10 DEF Publishing

(* The row to publish next is pending, and not in the stream, unless it is *)
(* one that may be stored again: nobody else can have published it.        *)
LEMMA NextToPublish ==
  ASSUME TypeOK, Publishing, NEW r \in Relay, relay[r] # Idle, relay[r].left # {}
  PROVE  LET e == Min(relay[r].left) IN
           /\ e \in relay[r].left /\ e \in Event /\ e \in relay[r].held
           /\ outbox[e] = "pending"
           /\ Stored(e) => e \in resent
<1> DEFINE e == Min(relay[r].left)
<1>1. e \in relay[r].left
  BY RelayOf, MinIsLeast, DeliveryAssumption
<1> HIDE DEF e
<1>2. e \in Event /\ e \in relay[r].held /\ e \notin relay[r].sent /\ outbox[e] = "pending"
  BY <1>1, RelayOf DEF Publishing, BatchIsPending
<1>3. \A q \in Relay : relay[q] # Idle => e \notin relay[q].sent
  BY <1>2 DEF Publishing, BatchIsPending, BatchesAreDisjoint
<1>4. Stored(e) => e \in resent
  BY <1>2, <1>3 DEF Publishing, StoredIsSent
<1> QED
  BY <1>1, <1>2, <1>4 DEF e

(* A relay that stores an event, or fails to, and goes on with its batch.  *)
LEMMA RelayGoesOn ==
  ASSUME TypeOK, Publishing, NEW r \in Relay, relay[r] # Idle,
         NEW e \in relay[r].left, NEW b \in Batch,
         relay' = [relay EXCEPT ![r] = b],
         b.held = relay[r].held, b.left = relay[r].left \ {e},
         b.sent \in {relay[r].sent, relay[r].sent \cup {e}},
         e \in b.sent => Stored(e)',
         outbox' = outbox, resent \subseteq resent', RememberedIsStored', StoredOnce',
         \A f : Stored(f) => Stored(f)',
         \A f : Stored(f)' => Stored(f) \/ f = e,
         Stored(e)' => e \in b.sent \/ e \in resent'
  PROVE  Publishing' /\ relay' \in [Relay -> Batch \cup {Idle}]
<1>1. relay'[r] = b /\ b # Idle /\ \A q \in Relay \ {r} : relay'[q] = relay[q]
  BY BatchIsNotIdle DEF TypeOK
<1>2. relay' \in [Relay -> Batch \cup {Idle}]
  BY DEF TypeOK
<1>3. e \in relay[r].held /\ e \in Event /\ outbox[e] = "pending" /\ e \notin relay[r].sent
  BY RelayOf DEF Publishing, BatchIsPending
<1>4. BatchIsPending'
  BY <1>1, <1>3 DEF Publishing, BatchIsPending
<1>5. BatchesAreDisjoint'
  BY <1>1 DEF Publishing, BatchesAreDisjoint
<1>6. SentIsStored'
  BY <1>1 DEF Publishing, SentIsStored
<1>7. StoredIsEnqueued' /\ PublishedIsStored'
  BY <1>3 DEF Publishing, StoredIsEnqueued, PublishedIsStored
<1>8. StoredIsSent'
  <2> SUFFICES ASSUME NEW f \in Event \ resent', Stored(f)'
               PROVE  outbox'[f] = "published"
                      \/ \E q \in Relay : relay'[q] # Idle /\ f \in relay'[q].sent
    BY DEF StoredIsSent
  <2>1. CASE f = e
    BY <1>1, <2>1
  <2>2. CASE f # e
    BY <1>1, <2>2 DEF Publishing, StoredIsSent
  <2> QED
    BY <2>1, <2>2
<1> QED
  BY <1>2, <1>4, <1>5, <1>6, <1>7, <1>8 DEF Publishing

(* A row that is published is stored, unless the window knows it.          *)
LEMMA PublishPublishing ==
  ASSUME TypeOK, Publishing, NEW r \in Relay, Publish(r)
  PROVE  /\ Publishing' /\ relay' \in [Relay -> Batch \cup {Idle}]
         /\ \E e \in Event : Store(e)
<1> DEFINE e == Min(relay[r].left)
           b == [relay[r] EXCEPT !.left = @ \ {e}, !.sent = @ \cup {e}]
<1>1. /\ relay[r] # Idle /\ relay[r].left # {} /\ Store(e)
      /\ relay' = [relay EXCEPT ![r].left = @ \ {e}, ![r].sent = @ \cup {e}]
      /\ UNCHANGED <<outbox, resent>>
  BY DEF Publish, Safely, history
<1>2. relay[r] \in Batch
  BY <1>1, RelayOf
<1>3. e \in relay[r].left /\ e \in Event /\ (Stored(e) => e \in resent)
  BY <1>1, NextToPublish
<1>4. relay' = [relay EXCEPT ![r] = b]
  BY <1>1 DEF TypeOK
<1> HIDE DEF e
<1>5. /\ b \in Batch /\ b.held = relay[r].held /\ b.left = relay[r].left \ {e}
      /\ b.sent = relay[r].sent \cup {e}
  BY <1>2, <1>3 DEF Batch
<1> HIDE DEF b
<1>6. RememberedIsStored
  BY DEF Publishing
<1>7. RememberedIsStored' /\ \A f : Stored(f)' <=> Stored(f) \/ f = e
  BY <1>1, <1>3, <1>6, StoreFacts
<1>8. StoredOnce'
  BY <1>1, <1>3, <1>6, StoreKeepsOnce DEF Publishing
<1> QED
  BY <1>1, <1>3, <1>4, <1>5, <1>7, <1>8, RelayGoesOn

(* A publication without an answer may have been stored.                   *)
LEMMA PublishFailsPublishing ==
  ASSUME TypeOK, Publishing, NEW r \in Relay, PublishFails(r)
  PROVE  /\ Publishing' /\ relay' \in [Relay -> Batch \cup {Idle}]
         /\ resent' \subseteq Event
         /\ UNCHANGED <<stream, window>> \/ \E e \in Event : Store(e)
<1>0. PICK e : e = Min(relay[r].left)
  OBVIOUS
<1> DEFINE b == [relay[r] EXCEPT !.left = @ \ {e}]
<1>1. /\ relay[r] # Idle /\ relay[r].left # {} /\ outbox' = outbox
      /\ relay' = [relay EXCEPT ![r].left = @ \ {e}]
      /\ \/ UNCHANGED <<stream, window, resent>>
         \/ Store(e) /\ resent' = resent \cup {e}
  BY <1>0 DEF PublishFails, Safely, history
<1>2. relay[r] \in Batch
  BY <1>1, RelayOf
<1>3. e \in relay[r].left /\ e \in Event /\ (Stored(e) => e \in resent)
  BY <1>0, <1>1, NextToPublish
<1>4. relay' = [relay EXCEPT ![r] = b]
  BY <1>1 DEF TypeOK
<1>5. /\ b \in Batch /\ b.held = relay[r].held /\ b.left = relay[r].left \ {e}
      /\ b.sent = relay[r].sent /\ e \notin b.sent
  BY <1>1, <1>2, <1>3 DEF Batch, Publishing, BatchIsPending
<1> HIDE DEF b
<1>6. RememberedIsStored
  BY DEF Publishing
<1>7. CASE UNCHANGED <<stream, window, resent>>
  <2>1. \A f : Stored(f)' <=> Stored(f)
    BY <1>7 DEF Stored
  <2>2. RememberedIsStored' /\ StoredOnce'
    BY <1>7, <2>1 DEF Publishing, RememberedIsStored, StoredOnce
  <2>3. /\ resent' \subseteq Event /\ resent \subseteq resent'
        /\ relay[r] # Idle /\ outbox' = outbox
    BY <1>1, <1>7 DEF TypeOK
  <2>4. /\ Stored(e)' => e \in resent'
        /\ \A f : Stored(f) => Stored(f)'
        /\ \A f : Stored(f)' => Stored(f) \/ f = e
    BY <1>3, <1>7, <2>1
  <2>5. Publishing' /\ relay' \in [Relay -> Batch \cup {Idle}]
    BY <1>3, <1>4, <1>5, <2>2, <2>3, <2>4, RelayGoesOn
  <2> QED
    BY <1>7, <2>3, <2>5
<1>8. CASE Store(e) /\ resent' = resent \cup {e}
  <2>1. RememberedIsStored' /\ \A f : Stored(f)' <=> Stored(f) \/ f = e
    BY <1>3, <1>6, <1>8, StoreFacts
  <2>2. StoredOnce'
    BY <1>3, <1>6, <1>8, StoreKeepsOnce DEF Publishing
  <2> QED
    BY <1>1, <1>3, <1>4, <1>5, <1>8, <2>1, <2>2, RelayGoesOn DEF TypeOK
<1> QED
  BY <1>1, <1>7, <1>8

(* A relay that gives its batch up, having marked all it published or      *)
(* having told of it in resent.                                            *)
LEMMA RelayEnds ==
  ASSUME TypeOK, Publishing, NEW r \in Relay, relay[r] # Idle,
         relay' = [relay EXCEPT ![r] = Idle], UNCHANGED <<stream, window>>,
         \A e \in Event \ relay[r].held : outbox'[e] = outbox[e],
         \A e \in relay[r].held :
            outbox'[e] = outbox[e] \/ (outbox'[e] = "published" /\ e \in relay[r].sent),
         \A e \in relay[r].sent : outbox'[e] = "published" \/ e \in resent',
         resent \subseteq resent'
  PROVE  Publishing' /\ relay' \in [Relay -> Batch \cup {Idle}]
<1>1. relay'[r] = Idle /\ \A q \in Relay \ {r} : relay'[q] = relay[q]
  BY DEF TypeOK
<1>2. relay' \in [Relay -> Batch \cup {Idle}]
  BY DEF TypeOK
<1>3. \A f : Stored(f)' <=> Stored(f)
  BY DEF Stored
<1>4. BatchIsPending'
  <2> SUFFICES ASSUME NEW q \in Relay, relay'[q] # Idle
               PROVE  /\ relay[q].left \cup relay[q].sent \subseteq relay[q].held
                      /\ relay[q].left \cap relay[q].sent = {}
                      /\ \A e \in relay[q].held : outbox'[e] = "pending"
    BY <1>1 DEF BatchIsPending
  <2>1. relay[q] # Idle /\ relay[r].held \cap relay[q].held = {}
    BY <1>1 DEF Publishing, BatchesAreDisjoint
  <2> QED
    BY <2>1, RelayOf DEF Publishing, BatchIsPending
<1>5. BatchesAreDisjoint' /\ SentIsStored'
  BY <1>1, <1>3 DEF Publishing, BatchesAreDisjoint, SentIsStored
<1>6. RememberedIsStored' /\ StoredOnce'
  BY <1>3 DEF Publishing, RememberedIsStored, StoredOnce
<1>7. relay[r].sent \subseteq relay[r].held /\ \A e \in relay[r].sent : Stored(e)
  BY DEF Publishing, BatchIsPending, SentIsStored
<1>8. StoredIsEnqueued' /\ PublishedIsStored'
  BY <1>3, <1>7 DEF Publishing, StoredIsEnqueued, PublishedIsStored, BatchIsPending
<1>9. StoredIsSent'
  <2> SUFFICES ASSUME NEW f \in Event \ resent', Stored(f)
               PROVE  outbox'[f] = "published"
                      \/ \E q \in Relay : relay'[q] # Idle /\ f \in relay'[q].sent
    BY <1>3 DEF StoredIsSent
  <2>1. CASE f \in relay[r].sent
    BY <2>1
  <2>2. CASE f \notin relay[r].sent
    <3>1. CASE outbox[f] = "published"
      BY <3>1 DEF Publishing, BatchIsPending
    <3>2. CASE \E q \in Relay : relay[q] # Idle /\ f \in relay[q].sent
      BY <1>1, <2>2, <3>2
    <3> QED
      BY <3>1, <3>2 DEF Publishing, StoredIsSent
  <2> QED
    BY <2>1, <2>2
<1> QED
  BY <1>2, <1>4, <1>5, <1>6, <1>8, <1>9 DEF Publishing

(* The rows that are marked have been sent.                                *)
LEMMA MarkPublishedPublishing ==
  ASSUME TypeOK, Publishing, NEW r \in Relay, MarkPublished(r)
  PROVE  /\ Publishing' /\ relay' \in [Relay -> Batch \cup {Idle}]
         /\ outbox' \in [Event -> {"none", "pending", "published"}]
<1>1. /\ relay[r] # Idle /\ relay' = [relay EXCEPT ![r] = Idle]
      /\ outbox' = [e \in Event |-> IF e \in relay[r].sent THEN "published" ELSE outbox[e]]
      /\ UNCHANGED <<stream, window, resent>>
  BY DEF MarkPublished, Safely, history
<1>2. outbox' \in [Event -> {"none", "pending", "published"}]
  BY <1>1 DEF TypeOK
<1>3. relay[r].sent \subseteq relay[r].held /\ relay[r].held \subseteq Event
  BY <1>1, RelayOf DEF Publishing, BatchIsPending
<1>4. /\ \A e \in Event \ relay[r].held : outbox'[e] = outbox[e]
      /\ \A e \in relay[r].held :
           outbox'[e] = outbox[e] \/ (outbox'[e] = "published" /\ e \in relay[r].sent)
      /\ \A e \in relay[r].sent : outbox'[e] = "published" \/ e \in resent'
  BY <1>1, <1>3
<1> QED
  BY <1>1, <1>2, <1>4, RelayEnds

(* The rows of a relay that dies are pending again.                        *)
LEMMA RelayDiesPublishing ==
  ASSUME TypeOK, Publishing, NEW r \in Relay, RelayDies(r)
  PROVE  /\ Publishing' /\ relay' \in [Relay -> Batch \cup {Idle}]
         /\ resent' \subseteq Event
<1>1. /\ relay[r] # Idle /\ relay' = [relay EXCEPT ![r] = Idle]
      /\ resent' = resent \cup relay[r].sent
      /\ UNCHANGED <<outbox, stream, window>>
  BY DEF RelayDies
<1>2. relay[r].sent \subseteq Event
  BY <1>1, RelayOf
<1>3. resent' \subseteq Event /\ resent \subseteq resent'
  BY <1>1, <1>2 DEF TypeOK
<1>4. /\ \A e \in Event \ relay[r].held : outbox'[e] = outbox[e]
      /\ \A e \in relay[r].held :
           outbox'[e] = outbox[e] \/ (outbox'[e] = "published" /\ e \in relay[r].sent)
      /\ \A e \in relay[r].sent : outbox'[e] = "published" \/ e \in resent'
  BY <1>1
<1> QED
  BY <1>1, <1>3, <1>4, RelayEnds

-----------------------------------------------------------------------------
(* The second half: what each step of a consumer does.                     *)

(* Events once settled stay so.                                            *)
Grows ==
  /\ \A e \in Event : effects[e] > 0 => effects'[e] > 0
  /\ dead \subseteq dead' /\ unburied \subseteq unburied'

(* What is settled stays so.                                               *)
LEMMA SettledGrows == ASSUME Grows PROVE \A e \in Event : Settled(e) => Settled(e)'
  BY DEF Grows, Settled

(* A handler that goes from one stage to another with its message.         *)
LEMMA ThenFacts ==
  ASSUME TypeOK, Consuming, NEW h \in Handler, handler[h] # Idle,
         NEW step \in Step, Then(h, step), SameEvents
  PROVE  /\ handler' \in [Handler -> Handling \cup {Idle}]
         /\ HandlersHaveMessages'
         /\ handler'[h] # Idle /\ handler'[h].next = step
         /\ handler'[h].message = handler[h].message /\ handler'[h].try = handler[h].try
         /\ \A g \in Handler \ {h} : handler'[g] = handler[g]
         /\ \A g \in Handler : /\ handler'[g] # Idle <=> handler[g] # Idle
                               /\ handler[g] # Idle => EventOf(g)' = EventOf(g)
<1> DEFINE d == [handler[h] EXCEPT !.next = step]
<1>1. handler[h] \in Handling
  BY DEF TypeOK
<1>2. /\ d \in Handling /\ d # Idle /\ d.next = step
      /\ d.message = handler[h].message /\ d.try = handler[h].try
  BY <1>1, HandlingIsNotIdle DEF Handling
<1>3. handler' = [handler EXCEPT ![h] = d]
  BY DEF Then, TypeOK
<1> HIDE DEF d
<1>4. handler'[h] = d /\ \A g \in Handler \ {h} : handler'[g] = handler[g]
  BY <1>3 DEF TypeOK
<1>5. handler' \in [Handler -> Handling \cup {Idle}]
  BY <1>2, <1>3 DEF TypeOK
<1>6. \A g \in Handler : /\ handler'[g] # Idle <=> handler[g] # Idle
                         /\ handler[g] # Idle => handler'[g].message = handler[g].message
  BY <1>2, <1>4
<1>7. HandlersHaveMessages'
  BY <1>6 DEF Consuming, HandlersHaveMessages, SameEvents
<1>8. \A g \in Handler : handler[g] # Idle => EventOf(g)' = EventOf(g)
  BY <1>6 DEF Consuming, HandlersHaveMessages, SameEvents, EventOf
<1> QED
  BY <1>2, <1>4, <1>5, <1>6, <1>7, <1>8

(* What is said of the messages holds as long as handlers keep theirs.     *)
LEMMA MessagesKept ==
  ASSUME TypeOK, Consuming, UNCHANGED stream, Grows, NEW h \in Handler, handler[h] # Idle,
         handler'[h] # Idle,
         handler'[h].message = handler[h].message, handler'[h].try = handler[h].try,
         \A g \in Handler \ {h} : handler'[g] = handler[g]
  PROVE  AckedIsSettled' /\ LastIsSettled'
  BY SettledGrows, MessageOf DEF Consuming, AckedIsSettled, LastIsSettled

(* A handler that goes on without an effect: to "commit" only if the event *)
(* is not marked, to "ack" only if it is settled.                          *)
LEMMA StageConsuming ==
  ASSUME TypeOK, Consuming, NEW h \in Handler, handler[h] # Idle,
         NEW step \in Step, Then(h, step), Grows,
         UNCHANGED <<stream, marked, effects, overlapped>>,
         step = "ack" => Settled(EventOf(h))',
         step = "commit" => EventOf(h) \notin marked
  PROVE  Consuming' /\ handler' \in [Handler -> Handling \cup {Idle}] /\ SameEvents
<1>1. SameEvents /\ EventOf(h) \in Event
  BY HandlerOf DEF SameEvents, Consuming
<1>2. /\ handler' \in [Handler -> Handling \cup {Idle}]
      /\ HandlersHaveMessages'
      /\ handler'[h] # Idle /\ handler'[h].next = step
      /\ handler'[h].message = handler[h].message /\ handler'[h].try = handler[h].try
      /\ \A g \in Handler \ {h} : handler'[g] = handler[g]
      /\ \A g \in Handler : /\ handler'[g] # Idle <=> handler[g] # Idle
                            /\ handler[g] # Idle => EventOf(g)' = EventOf(g)
  BY <1>1, ThenFacts
<1>3. AckedIsSettled' /\ LastIsSettled'
  BY <1>2, MessagesKept
<1>4. MarkedIsApplied' /\ AppliedOnce'
  BY DEF Consuming, MarkedIsApplied, AppliedOnce
<1>5. EventOf(h) \in marked <=> effects[EventOf(h)] > 0
  BY <1>1 DEF Consuming, MarkedIsApplied
<1>6. AckIsSettled'
  <2> SUFFICES ASSUME NEW g \in Handler, handler'[g] # Idle, handler'[g].next = "ack"
               PROVE  Settled(EventOf(g))'
    BY DEF AckIsSettled, At
  <2>1. CASE g = h
    BY <1>2, <2>1
  <2>2. CASE g # h
    <3>1. Settled(EventOf(g)) /\ EventOf(g) \in Event /\ EventOf(g)' = EventOf(g)
      BY <1>2, <2>2, HandlerOf DEF Consuming, AckIsSettled, At
    <3> QED
      BY <3>1, SettledGrows DEF Settled
  <2> QED
    BY <2>1, <2>2
<1>7. CommitsOverlap'
  BY <1>2, <1>5 DEF Consuming, CommitsOverlap, At
<1> QED
  BY <1>1, <1>2, <1>3, <1>4, <1>6, <1>7 DEF Consuming

(* A delivery that the inbox knows is only acknowledged.                   *)
LEMMA AlreadyProcessedConsuming ==
  ASSUME TypeOK, Consuming, NEW h \in Handler, AlreadyProcessed(h)
  PROVE  Consuming' /\ handler' \in [Handler -> Handling \cup {Idle}] /\ SameEvents
<1>1. /\ handler[h] # Idle
      /\ UNCHANGED <<stream, marked, effects, dead, overlapped, unburied>>
      /\ IF EventOf(h) \in marked THEN Then(h, "ack") ELSE Then(h, "commit")
  BY DEF AlreadyProcessed, At, Safely, history
<1>2. EventOf(h) \in Event /\ Grows
  BY <1>1, HandlerOf DEF Consuming, Grows
<1>3. CASE EventOf(h) \in marked
  <2>1. Settled(EventOf(h))'
    BY <1>1, <1>2, <1>3, ThenFacts DEF Settled, Consuming, MarkedIsApplied, Step, SameEvents
  <2> QED
    BY <1>1, <1>2, <1>3, <2>1, StageConsuming DEF Step
<1>4. CASE EventOf(h) \notin marked
  BY <1>1, <1>2, <1>4, StageConsuming DEF Step
<1> QED
  BY <1>3, <1>4

(* A handler that fails has done nothing.                                  *)
LEMMA HandlerFailsConsuming ==
  ASSUME TypeOK, Consuming, NEW h \in Handler, HandlerFails(h)
  PROVE  Consuming' /\ handler' \in [Handler -> Handling \cup {Idle}] /\ SameEvents
<1>1. /\ handler[h] # Idle /\ Then(h, "failed")
      /\ UNCHANGED <<stream, marked, effects, dead, overlapped, unburied>>
  BY DEF HandlerFails, At, Safely, history
<1> QED
  BY <1>1, StageConsuming DEF Step, Grows

(* The last failure goes to the dead letters.                              *)
LEMMA PublishDLQConsuming ==
  ASSUME TypeOK, Consuming, NEW h \in Handler, PublishDLQ(h)
  PROVE  /\ Consuming' /\ handler' \in [Handler -> Handling \cup {Idle}] /\ SameEvents
         /\ EventOf(h) \in Event
<1>1. /\ handler[h] # Idle /\ Then(h, "ack")
      /\ UNCHANGED <<stream, marked, effects, overlapped>>
      /\ \/ dead' = dead \cup {EventOf(h)} /\ unburied' = unburied
         \/ unburied' = unburied \cup {EventOf(h)} /\ dead' = dead
  BY DEF PublishDLQ, At, Safely, history
<1>2. EventOf(h) \in Event /\ Grows /\ SameEvents
  BY <1>1, HandlerOf DEF Consuming, Grows, SameEvents
<1>3. EventOf(h)' = EventOf(h)
  BY <1>1, <1>2, ThenFacts DEF Step
<1>4. Settled(EventOf(h))'
  BY <1>1, <1>3 DEF Settled
<1> QED
  BY <1>1, <1>2, <1>4, StageConsuming DEF Step

(* A handler that lets its message go, which is acknowledged only if it is *)
(* settled, and is so if it was the last delivery.                         *)
LEMMA DoneConsuming ==
  ASSUME TypeOK, Consuming, NEW h \in Handler, handler[h] # Idle, Done(h), SameEvents, Grows,
         UNCHANGED <<marked, effects, overlapped>>,
         \A m \in DOMAIN stream :
            /\ stream'[m].delivered = stream[m].delivered
            /\ stream'[m].acked => stream[m].acked \/ Settled(stream[m].event),
         handler[h].try = MaxDeliver =>
            EventOf(h) \in dead' \/ EventOf(h) \in unburied' \/ effects'[EventOf(h)] > 0
  PROVE  Consuming' /\ handler' \in [Handler -> Handling \cup {Idle}]
<1>1. handler'[h] = Idle /\ \A g \in Handler \ {h} : handler'[g] = handler[g]
  BY DEF Done, TypeOK
<1>2. handler' \in [Handler -> Handling \cup {Idle}]
  BY DEF Done, TypeOK
<1>3. HandlersHaveMessages' /\ MarkedIsApplied' /\ AppliedOnce'
  BY <1>1 DEF Consuming, HandlersHaveMessages, MarkedIsApplied, AppliedOnce, SameEvents
<1>4. \A g \in Handler : handler'[g] # Idle =>
        /\ g # h /\ handler[g] # Idle /\ handler'[g] = handler[g]
        /\ EventOf(g)' = EventOf(g) /\ EventOf(g) \in Event
  BY <1>1, HandlerOf DEF Consuming, EventOf, HandlersHaveMessages, SameEvents
<1>5. AckIsSettled'
  <2> SUFFICES ASSUME NEW g \in Handler, handler'[g] # Idle, handler'[g].next = "ack"
               PROVE  Settled(EventOf(g))'
    BY DEF AckIsSettled, At
  <2>1. Settled(EventOf(g)) /\ EventOf(g) \in Event /\ EventOf(g)' = EventOf(g)
    BY <1>4 DEF Consuming, AckIsSettled, At
  <2> QED
    BY <2>1, SettledGrows DEF Settled
<1>6. CommitsOverlap'
  BY <1>4 DEF Consuming, CommitsOverlap, At
<1>7. \A m \in DOMAIN stream' :
        /\ m \in DOMAIN stream /\ stream'[m].event = stream[m].event
        /\ Settled(stream[m].event) => Settled(stream[m].event)'
  BY MessageOf, SettledGrows DEF SameEvents, Settled
<1>8. AckedIsSettled'
  BY <1>7 DEF Consuming, AckedIsSettled, Settled
<1>9. LastIsSettled'
  <2> SUFFICES ASSUME NEW m \in DOMAIN stream, stream[m].delivered = MaxDeliver
               PROVE  \/ Settled(stream[m].event)'
                      \/ \E g \in Handler : /\ handler'[g] # Idle /\ handler'[g].message = m
                                            /\ handler'[g].try = MaxDeliver
    BY <1>7 DEF LastIsSettled
  <2>1. CASE Settled(stream[m].event)
    BY <1>7, <2>1 DEF SameEvents, Settled
  <2>2. CASE handler[h].message = m /\ handler[h].try = MaxDeliver
    BY <2>2, <1>7 DEF EventOf, SameEvents, Settled
  <2>3. ASSUME NEW g \in Handler \ {h}, handler[g] # Idle, handler[g].message = m,
               handler[g].try = MaxDeliver
        PROVE  handler'[g] = handler[g]
    BY <1>1
  <2> QED
    BY <2>1, <2>2, <2>3 DEF Consuming, LastIsSettled
<1> QED
  BY <1>2, <1>3, <1>5, <1>6, <1>8, <1>9 DEF Consuming

(* An earlier failure comes again.                                         *)
LEMMA NakConsuming ==
  ASSUME TypeOK, Consuming, NEW h \in Handler, Nak(h)
  PROVE  Consuming' /\ handler' \in [Handler -> Handling \cup {Idle}] /\ SameEvents
<1>1. /\ handler[h] # Idle /\ Done(h) /\ ~Exhausted(h)
      /\ UNCHANGED <<stream, marked, effects, dead, overlapped, unburied>>
  BY DEF Nak, At, Safely, history
<1>2. SameEvents /\ Grows /\ handler[h].try # MaxDeliver
  BY <1>1, HandlerOf, DeliveryAssumption DEF SameEvents, Grows, Exhausted, Consuming
<1> QED
  BY <1>1, <1>2, DoneConsuming

(* A handler that dies leaves its delivery open.                           *)
LEMMA HandlerDiesConsuming ==
  ASSUME TypeOK, Consuming, NEW h \in Handler, HandlerDies(h)
  PROVE  /\ Consuming' /\ handler' \in [Handler -> Handling \cup {Idle}] /\ SameEvents
         /\ unburied' \subseteq Event
<1>1. /\ handler[h] # Idle /\ Done(h)
      /\ unburied' = IF Exhausted(h) THEN unburied \cup {EventOf(h)} ELSE unburied
      /\ UNCHANGED <<stream, marked, effects, dead, overlapped>>
  BY DEF HandlerDies
<1>2. SameEvents /\ Grows /\ EventOf(h) \in Event
  BY <1>1, HandlerOf DEF SameEvents, Grows, Consuming
<1>3. handler[h].try = MaxDeliver => EventOf(h) \in unburied'
  BY <1>1, DeliveryAssumption DEF Exhausted
<1>4. unburied' \subseteq Event
  BY <1>1, <1>2 DEF TypeOK
<1> QED
  BY <1>1, <1>2, <1>3, <1>4, DoneConsuming

(* A change of one message.                                                *)
LEMMA ExceptFacts ==
  ASSUME stream \in Seq(Message), NEW m \in DOMAIN stream, NEW x \in Message,
         stream' = [stream EXCEPT ![m] = x], x.event = stream[m].event
  PROVE  /\ stream' \in Seq(Message) /\ SameEvents /\ stream'[m] = x
         /\ \A n \in DOMAIN stream \ {m} : stream'[n] = stream[n]
<1>1. DOMAIN stream = 1..Len(stream) /\ Len(stream) \in Nat
  BY LenProperties
<1>2. stream' \in Seq(Message)
  BY <1>1, ExceptSeq
<1> QED
  BY <1>2 DEF SameEvents

(* What is acknowledged is settled.                                        *)
LEMMA AckConsuming ==
  ASSUME TypeOK, Consuming, NEW h \in Handler, Ack(h)
  PROVE  /\ Consuming' /\ handler' \in [Handler -> Handling \cup {Idle}] /\ SameEvents
         /\ stream' \in Seq(Message) /\ budget' \in [Chance -> Nat]
<1> DEFINE m == handler[h].message
           x == [stream[m] EXCEPT !.acked = TRUE]
<1>1. /\ handler[h] # Idle /\ At(h, "ack") /\ Done(h) /\ Acknowledge(m)
      /\ UNCHANGED <<marked, effects, dead, overlapped, unburied>>
  BY DEF Ack, At, history
<1>2. m \in DOMAIN stream /\ EventOf(h) \in Event /\ stream[m].event = EventOf(h)
  BY <1>1, HandlerOf DEF Consuming, EventOf
<1>3. Settled(EventOf(h)) /\ Grows
  BY <1>1 DEF Consuming, AckIsSettled, Grows
<1>4. effects[EventOf(h)] > 0 \/ EventOf(h) \in dead \/ EventOf(h) \in unburied
  BY <1>3 DEF Settled
<1>5. /\ stream' \in Seq(Message) /\ SameEvents /\ budget' \in [Chance -> Nat]
      /\ \A n \in DOMAIN stream :
           /\ stream'[n].delivered = stream[n].delivered
           /\ stream'[n].acked => stream[n].acked \/ n = m
  <2>1. CASE UNCHANGED stream /\ Strikes("ack")
    BY <2>1, StrikesKeepsType DEF TypeOK, SameEvents, Chance
  <2>2. CASE stream' = [stream EXCEPT ![m].acked = TRUE] /\ UNCHANGED budget
    <3>1. stream[m] \in Message
      BY <1>2, MessageOf
    <3>2. x \in Message /\ x.event = stream[m].event /\ x.delivered = stream[m].delivered
      BY <3>1 DEF Message
    <3>3. stream' = [stream EXCEPT ![m] = x] /\ stream \in Seq(Message)
      BY <2>2 DEF TypeOK
    <3> HIDE DEF m, x
    <3>4. /\ stream' \in Seq(Message) /\ SameEvents /\ stream'[m] = x
          /\ \A n \in DOMAIN stream \ {m} : stream'[n] = stream[n]
      BY <1>2, <3>2, <3>3, ExceptFacts
    <3> QED
      BY <2>2, <3>2, <3>4 DEF TypeOK
  <2> QED
    BY <1>1, <2>1, <2>2 DEF Acknowledge
<1>6. \A n \in DOMAIN stream :
        /\ stream'[n].delivered = stream[n].delivered
        /\ stream'[n].acked => stream[n].acked \/ Settled(stream[n].event)
  BY <1>2, <1>3, <1>5 DEF Settled
<1> QED
  BY <1>1, <1>3, <1>4, <1>5, <1>6, DoneConsuming

(* A handler that gets a message, which owes it if it is the last time.    *)
LEMMA DeliverConsuming ==
  ASSUME TypeOK, Consuming, NEW h \in Handler, NEW m \in DOMAIN stream, Deliver(h, m)
  PROVE  /\ Consuming' /\ handler' \in [Handler -> Handling \cup {Idle}] /\ SameEvents
         /\ stream' \in Seq(Message)
<1> DEFINE n == stream[m].delivered + 1
           x == [stream[m] EXCEPT !.delivered = n]
           d == [message |-> m, try |-> n, next |-> "check"]
<1>1. /\ handler[h] = Idle /\ stream[m].delivered < MaxDeliver
      /\ stream' = [stream EXCEPT ![m].delivered = @ + 1]
      /\ handler' = [handler EXCEPT ![h] = d]
      /\ UNCHANGED <<marked, effects, dead, overlapped, unburied>>
  BY DEF Deliver, Safely, history
<1>2. /\ stream[m] \in Message /\ stream[m].event \in Event /\ m \in Nat \ {0}
      /\ n \in 1..MaxDeliver
  BY <1>1, MessageOf, DeliveryAssumption
<1>3. /\ x \in Message /\ x.event = stream[m].event /\ x.delivered = n
      /\ x.acked = stream[m].acked
  BY <1>2, DeliveryAssumption DEF Message
<1>4. /\ d \in Handling /\ d # Idle /\ d.message = m /\ d.try = n /\ d.next = "check"
  BY <1>2, HandlingIsNotIdle DEF Handling, Step
<1>5. stream' = [stream EXCEPT ![m] = x] /\ stream \in Seq(Message)
  BY <1>1, <1>3 DEF TypeOK
<1> HIDE DEF x, d
<1>6. /\ stream' \in Seq(Message) /\ SameEvents /\ stream'[m] = x
      /\ \A k \in DOMAIN stream \ {m} : stream'[k] = stream[k]
  BY <1>3, <1>5, ExceptFacts
<1>7. /\ handler'[h] = d /\ \A g \in Handler \ {h} : handler'[g] = handler[g]
      /\ handler' \in [Handler -> Handling \cup {Idle}]
  BY <1>1, <1>4 DEF TypeOK
<1>8. HandlersHaveMessages' /\ MarkedIsApplied' /\ AppliedOnce'
  BY <1>1, <1>4, <1>6, <1>7
  DEF Consuming, HandlersHaveMessages, MarkedIsApplied, AppliedOnce, SameEvents
<1>9. \A g \in Handler : At(g, "ack")' \/ At(g, "commit")' =>
        /\ handler'[g] = handler[g] /\ handler[g] # Idle
        /\ EventOf(g)' = EventOf(g)
  BY <1>4, <1>6, <1>7 DEF At, Consuming, EventOf, HandlersHaveMessages, SameEvents
<1>10. AckIsSettled' /\ CommitsOverlap'
  BY <1>1, <1>9 DEF Consuming, AckIsSettled, CommitsOverlap, At, Settled
<1>11. AckedIsSettled'
  BY <1>1, <1>3, <1>6 DEF Consuming, AckedIsSettled, Settled, SameEvents
<1>12. LastIsSettled'
  <2> SUFFICES ASSUME NEW k \in DOMAIN stream, stream'[k].delivered = MaxDeliver
               PROVE  \/ Settled(stream[k].event)'
                      \/ \E g \in Handler : /\ handler'[g] # Idle /\ handler'[g].message = k
                                            /\ handler'[g].try = MaxDeliver
    BY <1>6 DEF LastIsSettled, SameEvents
  <2>1. CASE k = m
    BY <1>3, <1>4, <1>6, <1>7, <2>1
  <2>2. CASE k # m
    <3>1. CASE Settled(stream[k].event)
      BY <1>1, <1>6, <2>2, <3>1 DEF Settled
    <3>2. ASSUME NEW g \in Handler, handler[g] # Idle, handler[g].message = k,
                 handler[g].try = MaxDeliver
          PROVE  handler'[g] = handler[g]
      BY <1>1, <1>7, <3>2
    <3> QED
      BY <1>6, <2>2, <3>1, <3>2 DEF Consuming, LastIsSettled
  <2> QED
    BY <2>1, <2>2
<1> QED
  BY <1>6, <1>7, <1>8, <1>10, <1>11, <1>12 DEF Consuming

(* The effect is committed with the mark of the inbox.                     *)
LEMMA CommitEffectConsuming ==
  ASSUME TypeOK, Consuming, NEW h \in Handler, CommitEffect(h)
  PROVE  /\ Consuming' /\ handler' \in [Handler -> Handling \cup {Idle}] /\ SameEvents
         /\ EventOf(h) \in Event /\ effects' \in [Event -> Nat]
<1> DEFINE e == EventOf(h)
<1>1. /\ handler[h] # Idle /\ handler[h].next = "commit" /\ Then(h, "ack")
      /\ effects' = [effects EXCEPT ![e] = @ + 1]
      /\ marked' = marked \cup {e}
      /\ overlapped' = IF \E g \in Handler \ {h} : At(g, "commit") /\ EventOf(g) = e
                       THEN overlapped \cup {e} ELSE overlapped
      /\ UNCHANGED <<stream, dead, unburied>>
  BY DEF CommitEffect, At
<1>2. e \in Event
  BY <1>1, HandlerOf DEF Consuming
<1>3. /\ effects' \in [Event -> Nat] /\ effects[e] \in Nat /\ effects'[e] = effects[e] + 1
      /\ \A f \in Event \ {e} : effects'[f] = effects[f]
  BY <1>1, <1>2 DEF TypeOK
<1>4. SameEvents /\ Grows
  BY <1>1, <1>3 DEF SameEvents, Grows, TypeOK
<1>5. /\ handler' \in [Handler -> Handling \cup {Idle}]
      /\ HandlersHaveMessages'
      /\ handler'[h] # Idle /\ handler'[h].next = "ack"
      /\ handler'[h].message = handler[h].message /\ handler'[h].try = handler[h].try
      /\ \A g \in Handler \ {h} : handler'[g] = handler[g]
      /\ \A g \in Handler : /\ handler'[g] # Idle <=> handler[g] # Idle
                            /\ handler[g] # Idle => EventOf(g)' = EventOf(g)
  BY <1>1, <1>4, ThenFacts DEF Step
<1>6. AckedIsSettled' /\ LastIsSettled'
  BY <1>1, <1>4, <1>5, MessagesKept
<1>7. effects[e] > 0 => e \in overlapped
  BY <1>1 DEF Consuming, CommitsOverlap, At
<1> HIDE DEF e
<1>8. MarkedIsApplied'
  BY <1>1, <1>2, <1>3 DEF Consuming, MarkedIsApplied
<1>9. AppliedOnce'
  BY <1>1, <1>2, <1>3, <1>7 DEF Consuming, AppliedOnce
<1>10. AckIsSettled'
  <2> SUFFICES ASSUME NEW g \in Handler, handler'[g] # Idle, handler'[g].next = "ack"
               PROVE  Settled(EventOf(g))'
    BY DEF AckIsSettled, At
  <2>1. CASE g = h
    BY <1>1, <1>3, <1>5, <2>1 DEF Settled, e
  <2>2. CASE g # h
    <3>1. Settled(EventOf(g)) /\ EventOf(g) \in Event /\ EventOf(g)' = EventOf(g)
      BY <1>5, <2>2, HandlerOf DEF Consuming, AckIsSettled, At
    <3> QED
      BY <1>4, <3>1, SettledGrows DEF Settled
  <2> QED
    BY <2>1, <2>2
<1>11. CommitsOverlap'
  <2> SUFFICES ASSUME NEW g \in Handler, handler'[g] # Idle, handler'[g].next = "commit",
                      effects'[EventOf(g)'] > 0
               PROVE  EventOf(g)' \in overlapped'
    BY DEF CommitsOverlap, At
  <2>1. g # h /\ handler[g] # Idle /\ At(g, "commit") /\ EventOf(g)' = EventOf(g)
        /\ EventOf(g) \in Event
    BY <1>5, HandlerOf DEF At, Consuming
  <2>2. CASE EventOf(g) = e
    BY <1>1, <2>1, <2>2
  <2>3. CASE EventOf(g) # e
    BY <1>1, <1>3, <2>1, <2>3 DEF Consuming, CommitsOverlap
  <2> QED
    BY <2>2, <2>3
<1> QED
  BY <1>2, <1>3, <1>4, <1>5, <1>6, <1>8, <1>9, <1>10, <1>11 DEF Consuming, e

-----------------------------------------------------------------------------
(* Every step keeps the invariant: one that stores an event leaves the     *)
(* second half alone, one of a handler leaves the first.                   *)
LEMMA OutboxKeepsInv ==
  ASSUME Inv, NEW e \in Event, Enqueue(e) \/ Forget(e)
  PROVE  Inv'
<1>1. TypeOK /\ Publishing /\ Consuming
  BY DEF Inv
<1>2. budget' \in [Chance -> Nat]
  BY <1>1, StrikesKeepsType DEF Enqueue, Forget, TypeOK, Chance
<1>3. TypeOK'
  BY <1>1, <1>2 DEF TypeOK, Enqueue, Forget, outboxVars, consumerVars, history
<1>4. Consuming'
  BY <1>1, ConsumingKept DEF Enqueue, Forget, history
<1>5. Publishing'
  BY <1>1, EnqueuePublishing, ForgetPublishing
<1> QED
  BY <1>3, <1>4, <1>5 DEF Inv

(* The relays keep the invariant.                                          *)
LEMMA RelayKeepsInv ==
  ASSUME Inv, NEW r \in Relay, RelayWork(r) \/ RelayDies(r)
  PROVE  Inv'
<1>1. TypeOK /\ Publishing /\ Consuming /\ RememberedIsStored
  BY DEF Inv, Publishing
<1>2. UNCHANGED consumerVars /\ UNCHANGED <<overlapped, unburied>>
  BY DEF RelayWork, SelectBatch, Publish, PublishFails, MarkPublished, RelayDies, Safely, history
<1>3. /\ Publishing' /\ relay' \in [Relay -> Batch \cup {Idle}]
      /\ resent' \subseteq Event
      /\ UNCHANGED <<stream, window>> \/ \E e \in Event : Store(e)
  <2>1. CASE SelectBatch(r)
    BY <1>1, <2>1, SelectBatchPublishing DEF SelectBatch, Safely, history, TypeOK
  <2>2. CASE Publish(r)
    BY <1>1, <2>2, PublishPublishing DEF Publish, Safely, history, TypeOK
  <2>3. CASE PublishFails(r)
    BY <1>1, <2>3, PublishFailsPublishing
  <2>4. CASE MarkPublished(r)
    BY <1>1, <2>4, MarkPublishedPublishing DEF MarkPublished, Safely, history, TypeOK
  <2>5. CASE RelayDies(r)
    BY <1>1, <2>5, RelayDiesPublishing DEF RelayDies
  <2> QED
    BY <2>1, <2>2, <2>3, <2>4, <2>5 DEF RelayWork
<1>4. /\ stream' \in Seq(Message) /\ window' \subseteq Event
      /\ \/ UNCHANGED stream
         \/ \E e \in Event :
              stream' = Append(stream, [event |-> e, delivered |-> 0, acked |-> FALSE])
  BY <1>1, <1>3, StoreFacts DEF TypeOK
<1>5. Consuming'
  BY <1>1, <1>2, <1>4, ConsumingKept
<1>6. outbox' \in [Event -> {"none", "pending", "published"}]
  BY <1>1, MarkPublishedPublishing
  DEF RelayWork, SelectBatch, Publish, PublishFails, MarkPublished, RelayDies, TypeOK
<1>7. budget' \in [Chance -> Nat]
  BY <1>1, StrikesKeepsType
  DEF RelayWork, SelectBatch, Publish, PublishFails, MarkPublished, RelayDies, TypeOK, Chance,
      Safely
<1>8. TypeOK'
  BY <1>1, <1>2, <1>3, <1>4, <1>6, <1>7 DEF TypeOK, consumerVars
<1> QED
  BY <1>3, <1>5, <1>8 DEF Inv

(* The handlers keep the invariant.                                        *)
LEMMA HandlerKeepsInv ==
  ASSUME Inv, NEW h \in Handler, HandlerWork(h) \/ HandlerDies(h)
  PROVE  Inv'
<1>1. TypeOK /\ Publishing /\ Consuming
  BY DEF Inv
<1>2. UNCHANGED <<outboxVars, window>> /\ resent' = resent
  BY DEF HandlerWork, Deliver, AlreadyProcessed, CommitEffect, HandlerFails, Ack, Nak, PublishDLQ,
         HandlerDies, Safely, history
<1>3. Consuming' /\ TypeOK' /\ SameEvents
  <2>1. ASSUME NEW m \in DOMAIN stream, Deliver(h, m)
        PROVE  Consuming' /\ TypeOK' /\ SameEvents
    BY <1>1, <1>2, <2>1, DeliverConsuming DEF Deliver, Safely, history, TypeOK, outboxVars
  <2>2. CASE AlreadyProcessed(h)
    BY <1>1, <1>2, <2>2, AlreadyProcessedConsuming
    DEF AlreadyProcessed, Safely, history, TypeOK, outboxVars
  <2>3. CASE CommitEffect(h)
    BY <1>1, <1>2, <2>3, CommitEffectConsuming DEF CommitEffect, TypeOK, outboxVars
  <2>4. CASE HandlerFails(h)
    BY <1>1, <1>2, <2>4, HandlerFailsConsuming
    DEF HandlerFails, Safely, history, TypeOK, outboxVars
  <2>5. CASE Ack(h)
    BY <1>1, <1>2, <2>5, AckConsuming DEF Ack, history, TypeOK, outboxVars
  <2>6. CASE Nak(h)
    BY <1>1, <1>2, <2>6, NakConsuming DEF Nak, Safely, history, TypeOK, outboxVars
  <2>7. CASE PublishDLQ(h)
    BY <1>1, <1>2, <2>7, PublishDLQConsuming, StrikesKeepsType
    DEF PublishDLQ, Safely, history, TypeOK, outboxVars, Chance
  <2>8. CASE HandlerDies(h)
    BY <1>1, <1>2, <2>8, HandlerDiesConsuming, StrikesKeepsType
    DEF HandlerDies, TypeOK, outboxVars, Chance
  <2> QED
    BY <2>1, <2>2, <2>3, <2>4, <2>5, <2>6, <2>7, <2>8 DEF HandlerWork
<1>4. Publishing'
  BY <1>1, <1>2, <1>3, PublishingKept
<1> QED
  BY <1>3, <1>4 DEF Inv

(* Every step keeps the invariant.                                         *)
LEMMA NextInv ==
  ASSUME Inv, [Next]_vars
  PROVE  Inv'
<1>1. CASE Next
  BY <1>1, OutboxKeepsInv, RelayKeepsInv, HandlerKeepsInv DEF Next
<1>2. CASE UNCHANGED vars
  BY <1>2
  DEF vars, outboxVars, consumerVars, history, Inv, TypeOK, Publishing, BatchIsPending,
      BatchesAreDisjoint, SentIsStored, RememberedIsStored, StoredIsEnqueued, StoredIsSent,
      PublishedIsStored, StoredOnce, Stored, Consuming, HandlersHaveMessages, MarkedIsApplied,
      AckIsSettled, AckedIsSettled, LastIsSettled, CommitsOverlap, AppliedOnce, At, EventOf,
      Settled
<1> QED
  BY <1>1, <1>2

(* The invariant of the way from a row of the outbox to an effect,         *)
(* whatever relays, handlers and faults there are (relay.go, natsx.go).    *)
THEOREM InvHolds == Spec => []Inv
  BY InitInv, NextInv, PTL DEF Spec

(* No failure or crash between the row of an event and the end of its last *)
(* delivery loses the event, and only the faults that are on record store  *)
(* it twice (relay.go, natsx.go).                                          *)
THEOREM NothingLostOrDoubled == Spec => []NothingIsLostOrDoubled
<1>1. Inv => NothingIsLostOrDoubled
  <2> SUFFICES ASSUME Inv PROVE NothingIsLostOrDoubled
    OBVIOUS
  <2>1. TypeOK /\ PublishedIsStored /\ StoredOnce
    BY DEF Inv, Publishing
  <2>2. OverIsHandledOrDead
    BY DEF Inv, Consuming, AckedIsSettled, LastIsSettled, OverIsHandledOrDead, Over
  <2> QED
    BY <2>1, <2>2 DEF NothingIsLostOrDoubled
<1> QED
  BY <1>1, InvHolds, PTL

-----------------------------------------------------------------------------
(* The refinement: effects that overlap count as one.                      *)
Counted == [e \in Event |-> IF effects[e] = 0 THEN 0 ELSE 1]

Mapped ==
  [e \in Event |-> IF e \in overlapped THEN Min({effects[e], 1}) ELSE effects[e]]

(* The effects, seen through the mapping, are none or one.                 *)
LEMMA CountedIsMapped == Inv => Mapped = Counted
<1> SUFFICES ASSUME Inv, NEW e \in Event
             PROVE  (IF e \in overlapped THEN Min({effects[e], 1}) ELSE effects[e])
                    = IF effects[e] = 0 THEN 0 ELSE 1
  BY DEF Counted, Mapped
<1>1. /\ effects[e] \in Nat
      /\ IF e \in overlapped THEN effects[e] >= 1 ELSE effects[e] <= 1
  BY DEF Inv, TypeOK, Consuming, AppliedOnce
<1>2. Min({effects[e], 1}) = IF effects[e] = 0 THEN 0 ELSE 1
  BY <1>1, MinWithOne
<1> QED
  BY <1>1, <1>2

Enqueued == {e \in Event : outbox[e] # "none"}

(* What a step does that only a consumer can see, or nobody.               *)
LEMMA StepOfContract ==
  ASSUME Inv, Next
  PROVE  \/ UNCHANGED <<Enqueued, Counted, dead>>
         \/ \E e \in Event :
              \/ /\ e \notin Enqueued /\ Enqueued' = Enqueued \cup {e}
                 /\ UNCHANGED <<Counted, dead>>
              \/ /\ e \in Enqueued /\ Counted[e] = 0
                 /\ Counted' = [Counted EXCEPT ![e] = 1] /\ UNCHANGED <<Enqueued, dead>>
              \/ /\ e \in Enqueued \ dead /\ dead' = dead \cup {e}
                 /\ UNCHANGED <<Enqueued, Counted>>
<1>1. TypeOK /\ Publishing /\ Consuming
  BY DEF Inv
<1>2. ASSUME NEW e \in Event, Enqueue(e)
      PROVE  /\ e \notin Enqueued /\ Enqueued' = Enqueued \cup {e}
             /\ UNCHANGED <<Counted, dead>>
  BY <1>1, <1>2 DEF Enqueue, Enqueued, Counted, consumerVars, TypeOK
<1>3. ASSUME NEW e \in Event, Forget(e)
      PROVE  UNCHANGED <<Enqueued, Counted, dead>>
  BY <1>3 DEF Forget, Enqueued, Counted, outboxVars, consumerVars
<1>4. ASSUME NEW r \in Relay, RelayWork(r) \/ RelayDies(r)
      PROVE  UNCHANGED <<Enqueued, Counted, dead>>
  <2>1. UNCHANGED consumerVars
    BY <1>4 DEF RelayWork, SelectBatch, Publish, PublishFails, MarkPublished, RelayDies
  <2>2. CASE MarkPublished(r)
    <3>1. /\ relay[r] # Idle
          /\ outbox' = [e \in Event |-> IF e \in relay[r].sent THEN "published" ELSE outbox[e]]
      BY <2>2 DEF MarkPublished
    <3>2. \A e \in relay[r].sent : outbox[e] = "pending"
      BY <1>1, <3>1 DEF Publishing, BatchIsPending
    <3>3. Enqueued' = Enqueued
      BY <3>1, <3>2 DEF Enqueued
    <3> QED
      BY <2>1, <3>3 DEF Counted, consumerVars
  <2>3. CASE ~MarkPublished(r)
    BY <1>4, <2>1, <2>3
    DEF RelayWork, SelectBatch, Publish, PublishFails, RelayDies, Counted, Enqueued, consumerVars
  <2> QED
    BY <2>2, <2>3
<1>5. ASSUME NEW h \in Handler, handler[h] # Idle
      PROVE  EventOf(h) \in Enqueued
  BY <1>1, <1>5, HandlerOf DEF Consuming, Publishing, StoredIsEnqueued, Stored, Enqueued, EventOf
<1>6. ASSUME NEW h \in Handler, CommitEffect(h)
      PROVE  \/ UNCHANGED <<Enqueued, Counted, dead>>
             \/ /\ EventOf(h) \in Enqueued /\ Counted[EventOf(h)] = 0
                /\ Counted' = [Counted EXCEPT ![EventOf(h)] = 1] /\ UNCHANGED <<Enqueued, dead>>
  <2> DEFINE e == EventOf(h)
  <2>1. /\ e \in Enqueued /\ e \in Event /\ effects' = [effects EXCEPT ![e] = @ + 1]
        /\ UNCHANGED <<Enqueued, dead>>
    BY <1>5, <1>6 DEF CommitEffect, At, Enqueued, outboxVars
  <2> HIDE DEF e
  <2>2. /\ effects[e] \in Nat /\ effects'[e] = effects[e] + 1
        /\ \A f \in Event \ {e} : effects'[f] = effects[f]
    BY <1>1, <2>1 DEF TypeOK
  <2>3. CASE effects[e] = 0
    BY <2>1, <2>2, <2>3 DEF Counted, e
  <2>4. CASE effects[e] # 0
    BY <2>1, <2>2, <2>4 DEF Counted
  <2> QED
    BY <2>3, <2>4
<1>7. ASSUME NEW h \in Handler, PublishDLQ(h)
      PROVE  \/ UNCHANGED <<Enqueued, Counted, dead>>
             \/ /\ EventOf(h) \in Enqueued \ dead /\ dead' = dead \cup {EventOf(h)}
                /\ UNCHANGED <<Enqueued, Counted>>
  BY <1>5, <1>7 DEF PublishDLQ, At, Safely, Enqueued, Counted, outboxVars
<1>8. ASSUME NEW h \in Handler, HandlerWork(h) \/ HandlerDies(h),
             ~CommitEffect(h), ~PublishDLQ(h)
      PROVE  UNCHANGED <<Enqueued, Counted, dead>>
  BY <1>8
  DEF HandlerWork, Deliver, AlreadyProcessed, HandlerFails, Ack, Nak, HandlerDies, Enqueued,
      Counted, outboxVars
<1>9. ASSUME NEW h \in Handler, handler[h] # Idle
      PROVE  EventOf(h) \in Event
  BY <1>5, <1>9 DEF Enqueued
<1>10. ASSUME NEW h \in Handler, CommitEffect(h) \/ PublishDLQ(h)
       PROVE  EventOf(h) \in Event
  BY <1>9, <1>10 DEF CommitEffect, PublishDLQ, At
<1>11. CASE \E e \in Event : Enqueue(e) \/ Forget(e)
  BY <1>2, <1>3, <1>11
<1>12. CASE \E r \in Relay : RelayWork(r) \/ RelayDies(r)
  BY <1>4, <1>12
<1>13. CASE \E h \in Handler : HandlerWork(h) \/ HandlerDies(h)
  BY <1>6, <1>7, <1>8, <1>10, <1>13
<1> QED
  BY <1>11, <1>12, <1>13 DEF Next

(* Whatever fails, the services see the bus of the contract: an event that *)
(* was committed takes effect, or is buried, at most once, and no other.   *)
THEOREM DeliveryImplementsContract == Spec => ImplementsContract
<1>1. Inv => Mapped = Counted
  BY CountedIsMapped
<1>2. (Inv => Mapped = Counted)'
  BY <1>1, PTL
<1>3. Init => Contract!Init
  <2> SUFFICES ASSUME Init PROVE Contract!Init
    OBVIOUS
  <2>1. Mapped = Counted
    BY <1>1, InitInv
  <2> QED
    BY <2>1 DEF Contract!Init, Init, Counted, Mapped
<1>4. Inv /\ Inv' /\ [Next]_vars => [Contract!Next]_<<Enqueued, Mapped, dead>>
  <2> SUFFICES ASSUME Inv, Inv', [Next]_vars
               PROVE  [Contract!Next]_<<Enqueued, Mapped, dead>>
    OBVIOUS
  <2>1. Mapped = Counted /\ Mapped' = Counted'
    BY <1>1, <1>2
  <2>2. CASE Next
    BY <2>1, <2>2, StepOfContract
    DEF Contract!Next, Contract!Enqueue, Contract!Apply, Contract!Bury, Enqueued, Mapped
  <2>3. CASE UNCHANGED vars
    BY <2>3 DEF vars, outboxVars, consumerVars, history, Enqueued, Mapped
  <2> QED
    BY <2>2, <2>3
<1> QED
  BY <1>3, <1>4, InvHolds, PTL
  DEF Spec, ImplementsContract, Contract!ContractSpec, Enqueued, Mapped

-----------------------------------------------------------------------------
(* The names that the scripts give to what they open, spawn and consume.   *)
Names ==
  {"cancel", "wait", "group", "migrations", "otel", "metrics", "pool", "nats", "stream",
   "redis", "listen", "catalog", "bucket", "collection", "relay", "grpc", "expirer",
   "view-flusher", "cleaner", "bumper", "bans", "blocks", "ad-deleted", "matcher",
   "moderation", "promotion", "processor", "auto", "recipients", "delivery",
   "lifecycle", "indexer", "users", "reviews"}

Statements == [kind : {"check", "open", "spawn", "wait", "consume"}, name : Names]

(* What is closed or stopped by a deferred call of its own.                *)
Given(statement) == statement.kind \in {"open", "consume"}

(* A script in which every worker finds what it uses opened before, and    *)
(* before the wait for the group, which is deferred at the latest right    *)
(* after the worker was spawned.                                           *)
WaitsFor(script, i, j) ==
  /\ script[j].kind = "wait" /\ j <= i + 1
  /\ \A r \in Uses(script[i].name) : \E m \in 1..(j - 1) :
       script[m].kind = "open" /\ script[m].name = r

NamesAreUnique(script) ==
  /\ \A i, j \in 1..Len(script) :
       Given(script[i]) /\ Given(script[j]) /\ script[i].name = script[j].name => i = j
  /\ \A i \in 1..Len(script) : Given(script[i]) => script[i].name \notin {"wait", "cancel"}

WellMade(script) ==
  /\ script \in Seq(Statements)
  /\ NamesAreUnique(script)
  /\ \A i \in 1..Len(script) : script[i].kind = "spawn" =>
       \E j \in 1..Len(script) : WaitsFor(script, i, j)

-----------------------------------------------------------------------------
(* The names that the first statements of the script have of one kind.     *)
Before(k) == {Script[i].name : i \in {j \in 1..(pc - 1) : Script[j].kind = k}}

ProcessTypes ==
  /\ service \in DOMAIN Scripts
  /\ pc \in 1..(Len(Script) + 1)
  /\ phase \in {"starting", "serving", "unwinding", "exited"}
  /\ defers \in Seq(Names)
  /\ outcome \in {"", "ok", "failed", "late"}
  /\ open \subseteq Before("open") /\ running \subseteq Before("spawn")
  /\ consuming \subseteq Before("consume") /\ handling \subseteq Before("consume")

(* Until run returns, whatever the script has come to is there.            *)
NothingGivenBack ==
  phase \in {"starting", "serving"} =>
    /\ open = Before("open") /\ consuming = Before("consume")
    /\ ~cancelled => running = Before("spawn")

(* The wait is deferred after, and so comes before the closing of, what    *)
(* was opened before it.                                                   *)
Closes(n, r) == \E j \in 1..(n - 1) : defers[j] = r

WaitIsDeferred ==
  phase \in {"starting", "serving"} =>
    \A j \in 1..(pc - 1) : Script[j].kind = "wait" =>
      \E n \in 1..Len(defers) :
        /\ defers[n] = "wait"
        /\ \A m \in 1..(j - 1) : Script[m].kind = "open" => ~Closes(n, Script[m].name)

(* The deferred calls wait for a worker before they close what it uses.    *)
IsWaitedFor(w) ==
  \E n \in 1..Len(defers) : defers[n] = "wait" /\ \A r \in Uses(w) : ~Closes(n, r)

AboutToWait == phase = "starting" /\ pc <= Len(Script) /\ Script[pc].kind = "wait"

WorkersAreWaitedFor ==
  phase # "exited" =>
    \A w \in running : Uses(w) \subseteq open /\ (IsWaitedFor(w) \/ AboutToWait)

ServingIsStarted == phase = "serving" => pc = Len(Script) + 1

RequestsAreServed ==
  requests => phase # "starting" /\ (phase = "serving" \/ outcome \in {"late", "failed"})

ProcessInv ==
  /\ ProcessTypes /\ NothingGivenBack /\ WaitIsDeferred /\ WorkersAreWaitedFor
  /\ ServingIsStarted /\ RequestsAreServed

-----------------------------------------------------------------------------
(* What stays as it is while the process is at the same statement.         *)
LEMMA UnchangedScript ==
  ASSUME UNCHANGED <<service, pc>>
  PROVE  Script' = Script /\ \A k : Before(k)' = Before(k)
BY DEF Script, Before

(* A prefix of the script is of the script.                                *)
LEMMA BeforeIsOfKind ==
  ASSUME ProcessTypes, Script \in Seq(Statements), NEW k
  PROVE  /\ Before(k) \subseteq Kind(k)
         /\ pc = Len(Script) + 1 => Before(k) = Kind(k)
<1>1. Len(Script) \in Nat /\ pc \in 1..(Len(Script) + 1)
  BY LenProperties, Zenon DEF ProcessTypes
<1>2. 1..(pc - 1) \subseteq 1..Len(Script)
  BY <1>1
<1>3. Before(k) \subseteq Kind(k)
  BY <1>2 DEF Before, Kind
<1>4. ASSUME pc = Len(Script) + 1 PROVE Before(k) = Kind(k)
  <2>1. pc - 1 = Len(Script)
    BY <1>1, <1>4
  <2> QED
    BY <2>1 DEF Before, Kind
<1> QED
  BY <1>3, <1>4

USE DEF Check, Open, Spawn, Wait, Consume, Given

(* The run of services/auth.                                               *)
LEMMA AuthIsWellMade == WellMade(AuthScript)
<1>1. AuthScript \in Seq(Statements)
  BY SMT DEF Statements, Names, AuthScript, Migrated, Telemetry, RelayFirst,
         Nats
<1>2. /\ Len(AuthScript) = 10 /\ AuthScript[1] = Check("migrations")
      /\ AuthScript[2] = Open("otel") /\ AuthScript[3] = Open("metrics")
      /\ AuthScript[4] = Open("pool") /\ AuthScript[5] = Open("redis")
      /\ AuthScript[6] = Open("nats") /\ AuthScript[7] = Check("stream")
      /\ AuthScript[8] = Spawn("relay") /\ AuthScript[9] = Wait
      /\ AuthScript[10] = Consume("bans")
  BY SMT DEF AuthScript, Migrated, Telemetry, RelayFirst, Nats
<1>3. NamesAreUnique(AuthScript)
  BY <1>2, SMT DEF NamesAreUnique
<1>4. \A i \in 1..Len(AuthScript) : AuthScript[i].kind = "spawn"
       => WaitsFor(AuthScript, i, 9)
  BY <1>2, SMT DEF WaitsFor, Uses
<1> QED
  BY <1>1, <1>2, <1>3, <1>4 DEF WellMade

(* The run of services/catalog.                                            *)
LEMMA CatalogIsWellMade == WellMade(CatalogScript)
<1>1. CatalogScript \in Seq(Statements)
  BY SMT DEF Statements, Names, CatalogScript, Migrated, Telemetry, RelayFirst,
         Nats
<1>2. /\ Len(CatalogScript) = 11 /\ CatalogScript[1] = Check("migrations")
      /\ CatalogScript[2] = Open("otel") /\ CatalogScript[3] = Open("metrics")
      /\ CatalogScript[4] = Open("pool") /\ CatalogScript[5] = Open("redis")
      /\ CatalogScript[6] = Open("nats") /\ CatalogScript[7] = Check("stream")
      /\ CatalogScript[8] = Spawn("relay") /\ CatalogScript[9] = Wait
      /\ CatalogScript[10] = Check("listen") /\ CatalogScript[11] = Spawn("grpc")
  BY SMT DEF CatalogScript, Migrated, Telemetry, RelayFirst, Nats
<1>3. NamesAreUnique(CatalogScript)
  BY <1>2, SMT DEF NamesAreUnique
<1>4. \A i \in 1..Len(CatalogScript) : CatalogScript[i].kind = "spawn"
       => WaitsFor(CatalogScript, i, 9)
  BY <1>2, SMT DEF WaitsFor, Uses
<1> QED
  BY <1>1, <1>2, <1>3, <1>4 DEF WellMade

(* The run of services/chat.                                               *)
LEMMA ChatIsWellMade == WellMade(ChatScript)
<1>1. ChatScript \in Seq(Statements)
  BY SMT DEF Statements, Names, ChatScript, Migrated, Telemetry, RelayFirst,
         Nats
<1>2. /\ Len(ChatScript) = 10 /\ ChatScript[1] = Check("migrations")
      /\ ChatScript[2] = Open("otel") /\ ChatScript[3] = Open("metrics")
      /\ ChatScript[4] = Open("pool") /\ ChatScript[5] = Open("nats")
      /\ ChatScript[6] = Check("stream") /\ ChatScript[7] = Spawn("relay")
      /\ ChatScript[8] = Wait /\ ChatScript[9] = Consume("bans")
      /\ ChatScript[10] = Consume("blocks")
  BY SMT DEF ChatScript, Migrated, Telemetry, RelayFirst, Nats
<1>3. NamesAreUnique(ChatScript)
  BY <1>2, SMT DEF NamesAreUnique
<1>4. \A i \in 1..Len(ChatScript) : ChatScript[i].kind = "spawn"
       => WaitsFor(ChatScript, i, 8)
  BY <1>2, SMT DEF WaitsFor, Uses
<1> QED
  BY <1>1, <1>2, <1>3, <1>4 DEF WellMade

(* The run of services/favorites-savedsearch.                              *)
LEMMA FavoritesIsWellMade == WellMade(FavoritesScript)
<1>1. FavoritesScript \in Seq(Statements)
  BY SMT DEF Statements, Names, FavoritesScript, Migrated, Telemetry,
         RelayFirst, Nats
<1>2. /\ Len(FavoritesScript) = 10 /\ FavoritesScript[1] = Check("migrations")
      /\ FavoritesScript[2] = Open("otel")
      /\ FavoritesScript[3] = Open("metrics") /\ FavoritesScript[4] = Open("pool")
      /\ FavoritesScript[5] = Open("nats")
      /\ FavoritesScript[6] = Check("stream")
      /\ FavoritesScript[7] = Spawn("relay") /\ FavoritesScript[8] = Wait
      /\ FavoritesScript[9] = Consume("ad-deleted")
      /\ FavoritesScript[10] = Consume("matcher")
  BY SMT DEF FavoritesScript, Migrated, Telemetry, RelayFirst, Nats
<1>3. NamesAreUnique(FavoritesScript)
  BY <1>2, SMT DEF NamesAreUnique
<1>4. \A i \in 1..Len(FavoritesScript) : FavoritesScript[i].kind = "spawn"
       => WaitsFor(FavoritesScript, i, 8)
  BY <1>2, SMT DEF WaitsFor, Uses
<1> QED
  BY <1>1, <1>2, <1>3, <1>4 DEF WellMade

(* The run of services/gateway.                                            *)
LEMMA GatewayIsWellMade == WellMade(GatewayScript)
<1>1. GatewayScript \in Seq(Statements)
  BY SMT DEF Statements, Names, GatewayScript, Telemetry
<1>2. /\ Len(GatewayScript) = 3 /\ GatewayScript[1] = Open("otel")
      /\ GatewayScript[2] = Open("metrics") /\ GatewayScript[3] = Open("redis")
  BY SMT DEF GatewayScript, Telemetry
<1>3. NamesAreUnique(GatewayScript)
  BY <1>2, SMT DEF NamesAreUnique
<1>4. \A i \in 1..Len(GatewayScript) : GatewayScript[i].kind # "spawn"
  BY <1>2, SMT
<1> QED
  BY <1>1, <1>2, <1>3, <1>4 DEF WellMade

(* The run of services/listing.                                            *)
LEMMA ListingIsWellMade == WellMade(ListingScript)
<1>1. ListingScript \in Seq(Statements)
  BY SMT DEF Statements, Names, ListingScript, Migrated, Telemetry, RelayFirst,
         Nats
<1>2. /\ Len(ListingScript) = 14 /\ ListingScript[1] = Check("migrations")
      /\ ListingScript[2] = Open("otel") /\ ListingScript[3] = Open("metrics")
      /\ ListingScript[4] = Open("pool") /\ ListingScript[5] = Open("catalog")
      /\ ListingScript[6] = Open("redis") /\ ListingScript[7] = Open("nats")
      /\ ListingScript[8] = Check("stream") /\ ListingScript[9] = Spawn("relay")
      /\ ListingScript[10] = Wait /\ ListingScript[11] = Consume("moderation")
      /\ ListingScript[12] = Consume("promotion")
      /\ ListingScript[13] = Spawn("expirer")
      /\ ListingScript[14] = Spawn("view-flusher")
  BY SMT DEF ListingScript, Migrated, Telemetry, RelayFirst, Nats
<1>3. NamesAreUnique(ListingScript)
  BY <1>2, SMT DEF NamesAreUnique
<1>4. \A i \in 1..Len(ListingScript) : ListingScript[i].kind = "spawn"
       => WaitsFor(ListingScript, i, 10)
  BY <1>2, SMT DEF WaitsFor, Uses
<1> QED
  BY <1>1, <1>2, <1>3, <1>4 DEF WellMade

(* The run of services/location.                                           *)
LEMMA LocationIsWellMade == WellMade(LocationScript)
<1>1. LocationScript \in Seq(Statements)
  BY SMT DEF Statements, Names, LocationScript, Migrated, Telemetry
<1>2. /\ Len(LocationScript) = 4 /\ LocationScript[1] = Check("migrations")
      /\ LocationScript[2] = Open("otel") /\ LocationScript[3] = Open("metrics")
      /\ LocationScript[4] = Open("pool")
  BY SMT DEF LocationScript, Migrated, Telemetry
<1>3. NamesAreUnique(LocationScript)
  BY <1>2, SMT DEF NamesAreUnique
<1>4. \A i \in 1..Len(LocationScript) : LocationScript[i].kind # "spawn"
  BY <1>2, SMT
<1> QED
  BY <1>1, <1>2, <1>3, <1>4 DEF WellMade

(* The run of services/media.                                              *)
LEMMA MediaIsWellMade == WellMade(MediaScript)
<1>1. MediaScript \in Seq(Statements)
  BY SMT DEF Statements, Names, MediaScript, Migrated, Telemetry, RelayFirst,
         Nats
<1>2. /\ Len(MediaScript) = 11 /\ MediaScript[1] = Check("migrations")
      /\ MediaScript[2] = Open("otel") /\ MediaScript[3] = Open("metrics")
      /\ MediaScript[4] = Open("pool") /\ MediaScript[5] = Check("bucket")
      /\ MediaScript[6] = Open("nats") /\ MediaScript[7] = Check("stream")
      /\ MediaScript[8] = Spawn("relay") /\ MediaScript[9] = Wait
      /\ MediaScript[10] = Consume("processor")
      /\ MediaScript[11] = Spawn("cleaner")
  BY SMT DEF MediaScript, Migrated, Telemetry, RelayFirst, Nats
<1>3. NamesAreUnique(MediaScript)
  BY <1>2, SMT DEF NamesAreUnique
<1>4. \A i \in 1..Len(MediaScript) : MediaScript[i].kind = "spawn"
       => WaitsFor(MediaScript, i, 9)
  BY <1>2, SMT DEF WaitsFor, Uses
<1> QED
  BY <1>1, <1>2, <1>3, <1>4 DEF WellMade

(* The run of services/moderation.                                         *)
LEMMA ModerationIsWellMade == WellMade(ModerationScript)
<1>1. ModerationScript \in Seq(Statements)
  BY SMT DEF Statements, Names, ModerationScript, Migrated, Telemetry,
         RelayFirst, Nats
<1>2. /\ Len(ModerationScript) = 9 /\ ModerationScript[1] = Check("migrations")
      /\ ModerationScript[2] = Open("otel")
      /\ ModerationScript[3] = Open("metrics")
      /\ ModerationScript[4] = Open("pool") /\ ModerationScript[5] = Open("nats")
      /\ ModerationScript[6] = Check("stream")
      /\ ModerationScript[7] = Spawn("relay") /\ ModerationScript[8] = Wait
      /\ ModerationScript[9] = Consume("auto")
  BY SMT DEF ModerationScript, Migrated, Telemetry, RelayFirst, Nats
<1>3. NamesAreUnique(ModerationScript)
  BY <1>2, SMT DEF NamesAreUnique
<1>4. \A i \in 1..Len(ModerationScript) : ModerationScript[i].kind = "spawn"
       => WaitsFor(ModerationScript, i, 8)
  BY <1>2, SMT DEF WaitsFor, Uses
<1> QED
  BY <1>1, <1>2, <1>3, <1>4 DEF WellMade

(* The run of services/notification.                                       *)
LEMMA NotificationIsWellMade == WellMade(NotificationScript)
<1>1. NotificationScript \in Seq(Statements)
  BY SMT DEF Statements, Names, NotificationScript, Migrated, Telemetry, Nats
<1>2. /\ Len(NotificationScript) = 8
      /\ NotificationScript[1] = Check("migrations")
      /\ NotificationScript[2] = Open("otel")
      /\ NotificationScript[3] = Open("metrics")
      /\ NotificationScript[4] = Open("pool")
      /\ NotificationScript[5] = Open("nats")
      /\ NotificationScript[6] = Check("stream")
      /\ NotificationScript[7] = Consume("recipients")
      /\ NotificationScript[8] = Consume("delivery")
  BY SMT DEF NotificationScript, Migrated, Telemetry, Nats
<1>3. NamesAreUnique(NotificationScript)
  BY <1>2, SMT DEF NamesAreUnique
<1>4. \A i \in 1..Len(NotificationScript) : NotificationScript[i].kind # "spawn"
  BY <1>2, SMT
<1> QED
  BY <1>1, <1>2, <1>3, <1>4 DEF WellMade

(* The run of services/payments.                                           *)
LEMMA PaymentsIsWellMade == WellMade(PaymentsScript)
<1>1. PaymentsScript \in Seq(Statements)
  BY SMT DEF Statements, Names, PaymentsScript, Migrated, Telemetry,
         RelayFirst, Nats
<1>2. /\ Len(PaymentsScript) = 10 /\ PaymentsScript[1] = Check("migrations")
      /\ PaymentsScript[2] = Open("otel") /\ PaymentsScript[3] = Open("metrics")
      /\ PaymentsScript[4] = Open("pool") /\ PaymentsScript[5] = Open("nats")
      /\ PaymentsScript[6] = Check("stream")
      /\ PaymentsScript[7] = Spawn("relay") /\ PaymentsScript[8] = Wait
      /\ PaymentsScript[9] = Spawn("bumper")
      /\ PaymentsScript[10] = Consume("lifecycle")
  BY SMT DEF PaymentsScript, Migrated, Telemetry, RelayFirst, Nats
<1>3. NamesAreUnique(PaymentsScript)
  BY <1>2, SMT DEF NamesAreUnique
<1>4. \A i \in 1..Len(PaymentsScript) : PaymentsScript[i].kind = "spawn"
       => WaitsFor(PaymentsScript, i, 8)
  BY <1>2, SMT DEF WaitsFor, Uses
<1> QED
  BY <1>1, <1>2, <1>3, <1>4 DEF WellMade

(* The run of services/reviews.                                            *)
LEMMA ReviewsIsWellMade == WellMade(ReviewsScript)
<1>1. ReviewsScript \in Seq(Statements)
  BY SMT DEF Statements, Names, ReviewsScript, Migrated, Telemetry, RelayFirst,
         Nats
<1>2. /\ Len(ReviewsScript) = 9 /\ ReviewsScript[1] = Check("migrations")
      /\ ReviewsScript[2] = Open("otel") /\ ReviewsScript[3] = Open("metrics")
      /\ ReviewsScript[4] = Open("pool") /\ ReviewsScript[5] = Open("nats")
      /\ ReviewsScript[6] = Check("stream") /\ ReviewsScript[7] = Spawn("relay")
      /\ ReviewsScript[8] = Wait /\ ReviewsScript[9] = Consume("blocks")
  BY SMT DEF ReviewsScript, Migrated, Telemetry, RelayFirst, Nats
<1>3. NamesAreUnique(ReviewsScript)
  BY <1>2, SMT DEF NamesAreUnique
<1>4. \A i \in 1..Len(ReviewsScript) : ReviewsScript[i].kind = "spawn"
       => WaitsFor(ReviewsScript, i, 8)
  BY <1>2, SMT DEF WaitsFor, Uses
<1> QED
  BY <1>1, <1>2, <1>3, <1>4 DEF WellMade

(* The run of services/search.                                             *)
LEMMA SearchIsWellMade == WellMade(SearchScript)
<1>1. SearchScript \in Seq(Statements)
  BY SMT DEF Statements, Names, SearchScript, Telemetry, Nats
<1>2. /\ Len(SearchScript) = 6 /\ SearchScript[1] = Open("otel")
      /\ SearchScript[2] = Open("metrics")
      /\ SearchScript[3] = Check("collection") /\ SearchScript[4] = Open("nats")
      /\ SearchScript[5] = Check("stream")
      /\ SearchScript[6] = Consume("indexer")
  BY SMT DEF SearchScript, Telemetry, Nats
<1>3. NamesAreUnique(SearchScript)
  BY <1>2, SMT DEF NamesAreUnique
<1>4. \A i \in 1..Len(SearchScript) : SearchScript[i].kind # "spawn"
  BY <1>2, SMT
<1> QED
  BY <1>1, <1>2, <1>3, <1>4 DEF WellMade

(* The run of services/user-profile.                                       *)
LEMMA ProfileIsWellMade == WellMade(ProfileScript)
<1>1. ProfileScript \in Seq(Statements)
  BY SMT DEF Statements, Names, ProfileScript, Migrated, Telemetry, RelayFirst,
         Nats
<1>2. /\ Len(ProfileScript) = 10 /\ ProfileScript[1] = Check("migrations")
      /\ ProfileScript[2] = Open("otel") /\ ProfileScript[3] = Open("metrics")
      /\ ProfileScript[4] = Open("pool") /\ ProfileScript[5] = Open("nats")
      /\ ProfileScript[6] = Check("stream") /\ ProfileScript[7] = Spawn("relay")
      /\ ProfileScript[8] = Wait /\ ProfileScript[9] = Consume("users")
      /\ ProfileScript[10] = Consume("reviews")
  BY SMT DEF ProfileScript, Migrated, Telemetry, RelayFirst, Nats
<1>3. NamesAreUnique(ProfileScript)
  BY <1>2, SMT DEF NamesAreUnique
<1>4. \A i \in 1..Len(ProfileScript) : ProfileScript[i].kind = "spawn"
       => WaitsFor(ProfileScript, i, 8)
  BY <1>2, SMT DEF WaitsFor, Uses
<1> QED
  BY <1>1, <1>2, <1>3, <1>4 DEF WellMade

HIDE DEF Check, Open, Spawn, Wait, Consume, Given

(* Every service's run opens, spawns and defers in the right order.        *)
LEMMA ScriptsAreWellMade == \A s \in DOMAIN Scripts : WellMade(Scripts[s])
BY AuthIsWellMade, CatalogIsWellMade, ChatIsWellMade, FavoritesIsWellMade,
   GatewayIsWellMade, ListingIsWellMade, LocationIsWellMade, MediaIsWellMade,
   ModerationIsWellMade, NotificationIsWellMade, PaymentsIsWellMade,
   ReviewsIsWellMade, SearchIsWellMade, ProfileIsWellMade
   DEF Scripts

(* So does the run of the process in hand.                                 *)
LEMMA ScriptIsWellMade ==
  ASSUME service \in DOMAIN Scripts
  PROVE  WellMade(Script) /\ Script \in Seq(Statements) /\ Len(Script) \in Nat
         /\ \A i \in 1..Len(Script) : Script[i] \in Statements
<1>1. WellMade(Script)
  BY ScriptsAreWellMade DEF Script
<1>2. Script \in Seq(Statements)
  BY <1>1 DEF WellMade
<1> QED
  BY <1>1, <1>2

(* A sequence of one name.                                                 *)
LEMMA SequenceOfOne ==
  ASSUME NEW S, NEW x \in S
  PROVE  <<x>> \in Seq(S) /\ Len(<<x>>) = 1 /\ <<x>>[1] = x
OBVIOUS

(* The process starts with nothing but the cancelling of its context.      *)
LEMMA ProcessBegins == ProcessInit => ProcessInv
<1> SUFFICES ASSUME ProcessInit PROVE ProcessInv
  OBVIOUS
<1>1. /\ service \in DOMAIN Scripts /\ pc = 1 /\ phase = "starting" /\ defers = <<"cancel">>
      /\ open = {} /\ running = {} /\ consuming = {} /\ handling = {}
      /\ requests = FALSE /\ cancelled = FALSE /\ outcome = ""
  BY DEF ProcessInit
<1>2. 1..(pc - 1) = {}
  <2>1. pc = 1
    BY <1>1, Zenon
  <2> QED
    BY <2>1, SMT
<1>3. \A k : Before(k) = {}
  BY <1>2 DEF Before
<1>4. defers \in Seq(Names)
  <2>1. <<"cancel">> \in Seq(Names)
    <3>1. "cancel" \in Names
      BY DEF Names
    <3> QED
      BY <3>1, SequenceOfOne, Zenon
  <2> QED
    BY <1>1, <2>1, Zenon
<1>5. pc \in 1..(Len(Script) + 1)
  <2>1. pc = 1 /\ Len(Script) \in Nat
    BY <1>1, ScriptIsWellMade, Zenon
  <2> QED
    BY <2>1, SMT
<1>6. ProcessTypes
  BY <1>1, <1>3, <1>4, <1>5 DEF ProcessTypes
<1>7. NothingGivenBack
  BY <1>1, <1>3, Zenon DEF NothingGivenBack
<1>8. WaitIsDeferred
  BY <1>2, Zenon DEF WaitIsDeferred
<1>9. WorkersAreWaitedFor /\ ServingIsStarted /\ RequestsAreServed
  BY <1>1 DEF WorkersAreWaitedFor, ServingIsStarted, RequestsAreServed
<1> QED
  BY <1>6, <1>7, <1>8, <1>9 DEF ProcessInv

-----------------------------------------------------------------------------
(* What one more deferred call in front does to the waits behind it.       *)
LEMMA OneMoreCall ==
  ASSUME defers \in Seq(Names), NEW d \in Names, defers' = <<d>> \o defers
  PROVE  /\ defers' \in Seq(Names) /\ Len(defers') = Len(defers) + 1
         /\ defers'[1] = d
         /\ \A n \in 1..Len(defers) : defers'[n + 1] = defers[n]
         /\ \A n \in 1..Len(defers) : \A r : Closes(n + 1, r)' => r = d \/ Closes(n, r)
<1>1. /\ <<d>> \in Seq(Names) /\ Len(<<d>>) = 1 /\ <<d>>[1] = d /\ Len(defers) \in Nat
  BY LenProperties, SequenceOfOne, Zenon
<1>2. defers' \in Seq(Names) /\ Len(defers') = 1 + Len(defers)
  BY <1>1, ConcatProperties
<1>3. defers'[1] = d
  BY <1>1, ConcatProperties
<1>4. \A n \in 1..Len(defers) : defers'[n + 1] = defers[n]
  <2> TAKE n \in 1..Len(defers)
  <2>1. n + 1 \in Len(<<d>>) + 1..Len(<<d>>) + Len(defers)
    BY <1>1
  <2>2. (<<d>> \o defers)[n + 1] = defers[n + 1 - Len(<<d>>)]
    BY <1>1, <2>1, ConcatProperties
  <2>3. n + 1 - Len(<<d>>) = n
    BY <1>1
  <2> QED
    BY <2>2, <2>3
<1>5. ASSUME NEW n \in 1..Len(defers), NEW r, Closes(n + 1, r)'
      PROVE  r = d \/ Closes(n, r)
  <2>1. PICK j \in 1..n : defers'[j] = r
    <3>1. n + 1 - 1 = n
      BY <1>1
    <3> QED
      BY <1>5, <3>1 DEF Closes
  <2>2. CASE j = 1
    BY <1>3, <2>1, <2>2
  <2>3. CASE j # 1
    <3>1. j - 1 \in 1..Len(defers) /\ j - 1 \in 1..(n - 1) /\ (j - 1) + 1 = j
      BY <1>1, <2>1, <2>3
    <3>2. defers[j - 1] = r
      BY <1>4, <2>1, <3>1
    <3> QED
      BY <3>1, <3>2 DEF Closes
  <2> QED
    BY <2>2, <2>3
<1>6. Len(defers') = Len(defers) + 1
  BY <1>1, <1>2
<1> QED
  BY <1>2, <1>3, <1>4, <1>5, <1>6, Zenon

(* What is waited for still is, when a call of another name comes before.  *)
LEMMA StillWaitedFor ==
  ASSUME defers \in Seq(Names), NEW d \in Names, defers' = <<d>> \o defers,
         NEW w, d \notin Uses(w), IsWaitedFor(w)
  PROVE  IsWaitedFor(w)'
<1>1. PICK n \in 1..Len(defers) : defers[n] = "wait" /\ \A r \in Uses(w) : ~Closes(n, r)
  BY DEF IsWaitedFor
<1>2. /\ Len(defers') = Len(defers) + 1 /\ defers'[n + 1] = defers[n]
      /\ \A r : Closes(n + 1, r)' => r = d \/ Closes(n, r)
  BY OneMoreCall
<1>3. n + 1 \in 1..Len(defers')
  BY <1>2
<1>4. \A r \in Uses(w) : ~Closes(n + 1, r)'
  BY <1>1, <1>2
<1> QED
  BY <1>1, <1>2, <1>3, <1>4 DEF IsWaitedFor

(* The first deferred call has run: a wait behind it is still there.       *)
LEMMA OneCallLess ==
  ASSUME defers \in Seq(Names), defers # <<>>, defers' = Tail(defers),
         NEW w, Head(defers) # "wait", IsWaitedFor(w)
  PROVE  IsWaitedFor(w)' /\ Head(defers) \notin Uses(w)
<1>1. PICK n \in 1..Len(defers) : defers[n] = "wait" /\ \A r \in Uses(w) : ~Closes(n, r)
  BY DEF IsWaitedFor
<1>2. Head(defers) = defers[1] /\ Len(defers) \in Nat
  BY HeadTailProperties
<1>3. n # 1
  BY <1>1, <1>2
<1>4. /\ Len(defers') = Len(defers) - 1
      /\ \A i \in 1..Len(defers') : defers'[i] = defers[i + 1]
  BY HeadTailProperties
<1>5. n - 1 \in 1..Len(defers') /\ (n - 1) + 1 = n
  BY <1>2, <1>3, <1>4
<1>6. defers'[n - 1] = "wait"
  BY <1>1, <1>4, <1>5
<1>7. ASSUME NEW r \in Uses(w), Closes(n - 1, r)' PROVE FALSE
  <2>1. PICK j \in 1..(n - 1 - 1) : defers'[j] = r
    BY <1>7 DEF Closes
  <2>2. j \in 1..Len(defers') /\ j + 1 \in 1..(n - 1)
    BY <1>2, <1>4, <2>1
  <2>3. defers[j + 1] = r
    BY <1>4, <2>1, <2>2
  <2> QED
    BY <1>1, <1>7, <2>2, <2>3 DEF Closes
<1>8. Head(defers) \notin Uses(w)
  <2>1. 1 \in 1..(n - 1)
    BY <1>2, <1>3
  <2> QED
    BY <1>1, <1>2, <2>1 DEF Closes
<1> QED
  BY <1>5, <1>6, <1>7, <1>8 DEF IsWaitedFor

-----------------------------------------------------------------------------
(* The script gets one statement further.                                  *)
LEMMA BeforeGrows ==
  ASSUME pc \in 1..Len(Script), Len(Script) \in Nat, pc' = pc + 1, service' = service
  PROVE  /\ Script' = Script /\ pc' \in 1..(Len(Script) + 1)
         /\ \A k : k # Script[pc].kind => Before(k)' = Before(k)
         /\ \A k : k = Script[pc].kind => Before(k)' = Before(k) \cup {Script[pc].name}
<1>1. Script' = Script
  BY DEF Script
<1>2. 1..(pc' - 1) = 1..(pc - 1) \cup {pc}
  OBVIOUS
<1>3. pc' \in 1..(Len(Script) + 1)
  OBVIOUS
<1>4. \A k : Before(k)' = {Script[i].name : i \in {j \in 1..(pc - 1) \cup {pc} : Script[j].kind = k}}
  BY <1>1, <1>2 DEF Before
<1> QED
  BY <1>1, <1>3, <1>4 DEF Before

(* A statement that was run before another one gives another name back.    *)
LEMMA GivenNamesDiffer ==
  ASSUME service \in DOMAIN Scripts, NEW i \in 1..Len(Script), NEW j \in 1..Len(Script), i # j,
         Given(Script[i]), Given(Script[j])
  PROVE  Script[i].name # Script[j].name
BY ScriptIsWellMade DEF WellMade, NamesAreUnique

(* What is opened, spawned or consumed is in the script so far.            *)
LEMMA StartKeepsTypes ==
  ASSUME ProcessInv, StepSucceeds
  PROVE  ProcessTypes' /\ NothingGivenBack'
<1>1. /\ phase = "starting" /\ pc' = pc + 1
      /\ UNCHANGED <<service, phase, handling, requests, cancelled, outcome>>
      /\ Started
  BY DEF StepSucceeds
<1>2. pc \in 1..Len(Script) /\ Len(Script) \in Nat
  <2>1. service \in DOMAIN Scripts /\ pc \in 1..(Len(Script) + 1) /\ pc <= Len(Script)
    BY DEF ProcessInv, ProcessTypes, StepSucceeds
  <2>2. Len(Script) \in Nat
    BY <2>1, ScriptIsWellMade
  <2> QED
    BY <2>1, <2>2
<1>3. PICK s : s = Script[pc]
  OBVIOUS
<1>4. s \in Statements
  BY <1>2, <1>3, ScriptIsWellMade DEF ProcessInv, ProcessTypes
<1>5. /\ Script' = Script /\ pc' \in 1..(Len(Script) + 1)
      /\ \A k : k # s.kind => Before(k)' = Before(k)
      /\ \A k : k = s.kind => Before(k)' = Before(k) \cup {s.name}
  BY <1>1, <1>2, <1>3, BeforeGrows
<1>6. /\ service \in DOMAIN Scripts
      /\ phase \in {"starting", "serving", "unwinding", "exited"}
      /\ defers \in Seq(Names)
      /\ outcome \in {"", "ok", "failed", "late"}
      /\ open \subseteq Before("open") /\ running \subseteq Before("spawn")
      /\ consuming \subseteq Before("consume") /\ handling \subseteq Before("consume")
      /\ open = Before("open") /\ consuming = Before("consume")
      /\ ~cancelled => running = Before("spawn")
  BY <1>1 DEF ProcessInv, ProcessTypes, NothingGivenBack
<1>7. CASE s.kind = "check"
  <2>1. UNCHANGED <<defers, open, running, consuming>>
    BY <1>1, <1>3, <1>7 DEF Started, Statement
  <2>2. /\ Before("open")' = Before("open") /\ Before("spawn")' = Before("spawn")
        /\ Before("consume")' = Before("consume")
    BY <1>5, <1>7
  <2> QED
    BY <1>1, <1>5, <1>6, <2>1, <2>2 DEF ProcessTypes, NothingGivenBack
<1>8. CASE s.kind = "open"
  <2>1. open' = open \cup {s.name} /\ defers' = <<s.name>> \o defers /\ UNCHANGED <<running, consuming>>
    BY <1>1, <1>3, <1>8 DEF Started, Statement
  <2>2. /\ Before("open")' = Before("open") \cup {s.name} /\ Before("spawn")' = Before("spawn")
        /\ Before("consume")' = Before("consume")
    BY <1>5, <1>8
  <2>3. defers' \in Seq(Names)
    BY <1>4, <1>6, <2>1, OneMoreCall DEF Statements
  <2> QED
    BY <1>1, <1>5, <1>6, <2>1, <2>2, <2>3 DEF ProcessTypes, NothingGivenBack
<1>9. CASE s.kind = "spawn"
  <2>1. running' = running \cup {s.name} /\ UNCHANGED <<defers, open, consuming>>
    BY <1>1, <1>3, <1>9 DEF Started, Statement
  <2>2. /\ Before("open")' = Before("open") /\ Before("spawn")' = Before("spawn") \cup {s.name}
        /\ Before("consume")' = Before("consume")
    BY <1>5, <1>9
  <2> QED
    BY <1>1, <1>5, <1>6, <2>1, <2>2 DEF ProcessTypes, NothingGivenBack
<1>10. CASE s.kind = "wait"
  <2>1. defers' = <<"wait">> \o defers /\ UNCHANGED <<running, open, consuming>>
    BY <1>1, <1>3, <1>10 DEF Started, Statement
  <2>2. /\ Before("open")' = Before("open") /\ Before("spawn")' = Before("spawn")
        /\ Before("consume")' = Before("consume")
    BY <1>5, <1>10
  <2>3. "wait" \in Names
    BY DEF Names
  <2>4. defers' \in Seq(Names)
    BY <1>6, <2>1, <2>3, OneMoreCall
  <2> QED
    BY <1>1, <1>5, <1>6, <2>1, <2>2, <2>4 DEF ProcessTypes, NothingGivenBack
<1>11. CASE s.kind = "consume"
  <2>1. consuming' = consuming \cup {s.name} /\ defers' = <<s.name>> \o defers
        /\ UNCHANGED <<open, running>>
    BY <1>1, <1>3, <1>11 DEF Started, Statement
  <2>2. /\ Before("open")' = Before("open") /\ Before("spawn")' = Before("spawn")
        /\ Before("consume")' = Before("consume") \cup {s.name}
    BY <1>5, <1>11
  <2>3. defers' \in Seq(Names)
    BY <1>4, <1>6, <2>1, OneMoreCall DEF Statements
  <2> QED
    BY <1>1, <1>5, <1>6, <2>1, <2>2, <2>3 DEF ProcessTypes, NothingGivenBack
<1> QED
  BY <1>4, <1>7, <1>8, <1>9, <1>10, <1>11 DEF Statements

(* What the name of the next deferred call is not.                         *)
LEMMA NextNameIsNew ==
  ASSUME service \in DOMAIN Scripts, pc \in 1..Len(Script),
         NEW d, d = "wait" \/ (Given(Script[pc]) /\ d = Script[pc].name),
         NEW m \in 1..(pc - 1), Script[m].kind = "open"
  PROVE  Script[m].name # d
<1>1. m \in 1..Len(Script) /\ m # pc
  BY ScriptIsWellMade
<1>2. Given(Script[m])
  BY DEF Given
<1>3. Script[m].name # "wait"
  BY <1>1, <1>2, ScriptIsWellMade DEF WellMade, NamesAreUnique
<1>4. Given(Script[pc]) => Script[m].name # Script[pc].name
  BY <1>1, <1>2, GivenNamesDiffer
<1> QED
  BY <1>3, <1>4

(* One more call in front of a deferred wait.                              *)
LEMMA WaitGoesDown ==
  ASSUME defers \in Seq(Names), NEW d \in Names, defers' = <<d>> \o defers,
         NEW n \in 1..Len(defers), defers[n] = "wait",
         NEW R, \A r \in R : r # d /\ ~Closes(n, r)
  PROVE  \E q \in 1..Len(defers') : defers'[q] = "wait" /\ \A r \in R : ~Closes(q, r)'
<1>1. /\ Len(defers') = Len(defers) + 1 /\ defers'[n + 1] = defers[n]
      /\ \A r : Closes(n + 1, r)' => r = d \/ Closes(n, r)
  BY OneMoreCall
<1>2. n + 1 \in 1..Len(defers')
  BY <1>1
<1> QED
  BY <1>1, <1>2

(* What StepSucceeds may add to the deferred calls.                        *)
LEMMA StartDefers ==
  ASSUME service \in DOMAIN Scripts, pc \in 1..Len(Script), Started
  PROVE  \/ defers' = defers /\ Script[pc].kind \in {"check", "spawn"}
         \/ \E d \in Names : /\ defers' = <<d>> \o defers
                             /\ d = "wait" \/ (Given(Script[pc]) /\ d = Script[pc].name)
                             /\ Script[pc].kind = "wait" => d = "wait"
                             /\ Script[pc].kind # "spawn"
<1>1. PICK s : s = Script[pc]
  OBVIOUS
<1>2. s \in Statements
  BY <1>1, ScriptIsWellMade
<1>3. s.name \in Names /\ "wait" \in Names
  BY <1>2 DEF Statements, Names
<1>4. CASE s.kind \in {"check", "spawn"}
  BY <1>1, <1>4 DEF Started, Statement
<1>5. CASE s.kind \in {"open", "consume"}
  <2>1. defers' = <<s.name>> \o defers
    BY <1>1, <1>5 DEF Started, Statement
  <2> QED
    BY <1>1, <1>3, <1>5, <2>1 DEF Given
<1>6. CASE s.kind = "wait"
  <2>1. defers' = <<"wait">> \o defers
    BY <1>1, <1>6 DEF Started, Statement
  <2> QED
    BY <1>1, <1>3, <1>6, <2>1
<1> QED
  BY <1>2, <1>4, <1>5, <1>6 DEF Statements

(* What all the statements of a script do alike.                           *)
LEMMA StartFacts ==
  ASSUME ProcessInv, StepSucceeds
  PROVE  /\ service \in DOMAIN Scripts /\ pc \in 1..Len(Script) /\ Len(Script) \in Nat
         /\ Script' = Script /\ pc' = pc + 1 /\ phase = "starting" /\ phase' = "starting"
         /\ Started /\ defers \in Seq(Names)
         /\ UNCHANGED <<handling, requests, cancelled, outcome>>
<1>1. /\ phase = "starting" /\ pc' = pc + 1 /\ Started
      /\ UNCHANGED <<service, phase, handling, requests, cancelled, outcome>>
  BY DEF StepSucceeds
<1>2. service \in DOMAIN Scripts /\ pc \in 1..(Len(Script) + 1) /\ pc <= Len(Script)
  BY DEF ProcessInv, ProcessTypes, StepSucceeds
<1>3. Len(Script) \in Nat
  BY <1>2, ScriptIsWellMade
<1>4. pc \in 1..Len(Script)
  BY <1>2, <1>3
<1>5. Script' = Script
  BY <1>1 DEF Script
<1> QED
  BY <1>1, <1>2, <1>3, <1>4, <1>5 DEF ProcessInv, ProcessTypes

(* A new deferred call comes before the wait, and has not the name of      *)
(* what was opened before the wait was deferred.                           *)
LEMMA StartKeepsTheWait ==
  ASSUME ProcessInv, StepSucceeds
  PROVE  WaitIsDeferred'
<1>1. /\ service \in DOMAIN Scripts /\ pc \in 1..Len(Script) /\ Len(Script) \in Nat
      /\ Script' = Script /\ pc' = pc + 1 /\ phase = "starting" /\ Started /\ defers \in Seq(Names)
  BY StartFacts
<1>2. SUFFICES ASSUME NEW j \in 1..(pc' - 1), Script[j].kind = "wait", NEW R,
                      R = {Script[m].name : m \in {i \in 1..(j - 1) : Script[i].kind = "open"}}
               PROVE  \E n \in 1..Len(defers') :
                        defers'[n] = "wait" /\ \A r \in R : ~Closes(n, r)'
  <2>1. SUFFICES ASSUME NEW j \in 1..(pc' - 1), Script'[j].kind = "wait"
                 PROVE  \E n \in 1..Len(defers') :
                          /\ defers'[n] = "wait"
                          /\ \A m \in 1..(j - 1) :
                               Script'[m].kind = "open" => ~Closes(n, Script[m].name)'
    BY Zenon DEF WaitIsDeferred
  <2>2. PICK R : R = {Script[m].name : m \in {i \in 1..(j - 1) : Script[i].kind = "open"}}
    OBVIOUS
  <2>3. PICK n \in 1..Len(defers') : defers'[n] = "wait" /\ \A r \in R : ~Closes(n, r)'
    BY <1>1, <1>2, <2>1, <2>2
  <2>4. ASSUME NEW m \in 1..(j - 1), Script'[m].kind = "open" PROVE ~Closes(n, Script[m].name)'
    <3>1. Script'[m].name \in R
      BY <1>1, <2>2, <2>4
    <3> QED
      BY <2>3, <3>1 DEF Closes
  <2> QED
    BY <2>3, <2>4
<1>3. CASE j = pc
  <2>1. PICK d \in Names : defers' = <<d>> \o defers /\ d = "wait"
    BY <1>1, <1>2, <1>3, StartDefers
  <2>2. Len(defers') = Len(defers) + 1 /\ defers'[1] = "wait" /\ Len(defers) \in Nat
    BY <1>1, <2>1, OneMoreCall, LenProperties
  <2>3. 1 \in 1..Len(defers')
    BY <2>2
  <2>4. \A r : ~Closes(1, r)'
    <3>1. 1..(1 - 1) = {}
      OBVIOUS
    <3> QED
      BY <3>1 DEF Closes
  <2> QED
    BY <2>2, <2>3, <2>4
<1>4. CASE j # pc
  <2>1. j \in 1..(pc - 1)
    BY <1>1, <1>4
  <2>2. PICK n \in 1..Len(defers) :
          /\ defers[n] = "wait"
          /\ \A m \in 1..(j - 1) : Script[m].kind = "open" => ~Closes(n, Script[m].name)
    BY <1>1, <1>2, <2>1 DEF ProcessInv, WaitIsDeferred
  <2>3. \A r \in R : ~Closes(n, r)
    BY <1>2, <2>2
  <2>4. CASE defers' = defers
    BY <2>2, <2>3, <2>4 DEF Closes
  <2>5. CASE defers' # defers
    <3>1. PICK d \in Names : /\ defers' = <<d>> \o defers
                             /\ d = "wait" \/ (Given(Script[pc]) /\ d = Script[pc].name)
      BY <1>1, <2>5, StartDefers
    <3>2. ASSUME NEW r \in R PROVE r # d
      <4>1. PICK m \in 1..(j - 1) : Script[m].kind = "open" /\ r = Script[m].name
        BY <1>2, <3>2
      <4>2. m \in 1..(pc - 1)
        BY <1>1, <2>1
      <4> QED
        BY <1>1, <3>1, <4>1, <4>2, NextNameIsNew
    <3> QED
      BY <1>1, <2>2, <2>3, <3>1, <3>2, WaitGoesDown
  <2> QED
    BY <2>4, <2>5
<1> QED
  BY <1>3, <1>4

(* What a worker uses was opened, so the next deferred call is not its     *)
(* closing.                                                                *)
LEMMA OpenNamesAreOld ==
  ASSUME ProcessInv, phase = "starting", pc \in 1..Len(Script), NEW r \in open,
         NEW d, d = "wait" \/ (Given(Script[pc]) /\ d = Script[pc].name)
  PROVE  r # d
<1>1. open = Before("open") /\ service \in DOMAIN Scripts
  BY DEF ProcessInv, ProcessTypes, NothingGivenBack
<1>2. PICK m \in 1..(pc - 1) : Script[m].kind = "open" /\ r = Script[m].name
  BY <1>1 DEF Before
<1> QED
  BY <1>1, <1>2, NextNameIsNew

(* A worker that is about to be spawned has what it uses, and will be      *)
(* waited for.                                                             *)
LEMMA NewWorkerIsWaitedFor ==
  ASSUME ProcessInv, StepSucceeds, Script[pc].kind = "spawn", NEW w, w = Script[pc].name
  PROVE  Uses(w) \subseteq open' /\ (IsWaitedFor(w) \/ AboutToWait)'
<1>1. /\ service \in DOMAIN Scripts /\ pc \in 1..Len(Script) /\ Len(Script) \in Nat
      /\ Script' = Script /\ pc' = pc + 1 /\ phase = "starting" /\ phase' = "starting" /\ Started
  BY StartFacts
<1>2. UNCHANGED <<defers, open>>
  BY <1>1 DEF Started, Statement
<1>3. PICK j \in 1..Len(Script) : WaitsFor(Script, pc, j)
  BY <1>1, ScriptIsWellMade DEF WellMade
<1>4. /\ Script[j].kind = "wait" /\ j <= pc + 1
      /\ \A r \in Uses(w) : \E m \in 1..(j - 1) : Script[m].kind = "open" /\ Script[m].name = r
  BY <1>3 DEF WaitsFor
<1>5. j # pc
  BY <1>4
<1>6. \A r \in Uses(w) : \E m \in 1..(pc - 1) : Script[m].kind = "open" /\ Script[m].name = r
  <2> TAKE r \in Uses(w)
  <2>1. PICK m \in 1..(j - 1) : Script[m].kind = "open" /\ Script[m].name = r
    BY <1>4
  <2>2. m # pc
    BY <2>1
  <2>3. m \in 1..(pc - 1)
    BY <1>1, <1>4, <2>2
  <2> QED
    BY <2>1, <2>3
<1>7. Uses(w) \subseteq open'
  <2>1. Uses(w) \subseteq Before("open")
    BY <1>6 DEF Before
  <2> QED
    BY <1>1, <1>2, <2>1 DEF ProcessInv, NothingGivenBack
<1>8. CASE j = pc + 1
  <2>1. AboutToWait'
    BY <1>1, <1>4, <1>8 DEF AboutToWait
  <2> QED
    BY <1>7, <2>1
<1>9. CASE j # pc + 1
  <2>1. j \in 1..(pc - 1)
    BY <1>1, <1>4, <1>5, <1>9
  <2>2. PICK n \in 1..Len(defers) :
          /\ defers[n] = "wait"
          /\ \A m \in 1..(j - 1) : Script[m].kind = "open" => ~Closes(n, Script[m].name)
    BY <1>1, <1>4, <2>1 DEF ProcessInv, WaitIsDeferred
  <2>3. \A r \in Uses(w) : ~Closes(n, r)
    BY <1>4, <2>2
  <2>4. IsWaitedFor(w)
    BY <2>2, <2>3 DEF IsWaitedFor
  <2>5. IsWaitedFor(w)'
    BY <1>2, <2>4 DEF IsWaitedFor, Closes
  <2> QED
    BY <1>7, <2>5
<1> QED
  BY <1>8, <1>9

(* The workers have what they use, the one that was just spawned too.      *)
LEMMA StartKeepsWorkers ==
  ASSUME ProcessInv, StepSucceeds
  PROVE  WorkersAreWaitedFor'
<1>1. /\ service \in DOMAIN Scripts /\ pc \in 1..Len(Script) /\ Len(Script) \in Nat
      /\ Script' = Script /\ pc' = pc + 1 /\ phase = "starting" /\ phase' = "starting"
      /\ Started /\ defers \in Seq(Names)
  BY StartFacts
<1>2. Script[pc] \in Statements
  BY <1>1, ScriptIsWellMade
<1>3. open \subseteq open'
  BY <1>1, <1>2 DEF Started, Statement, Statements
<1>4. ASSUME NEW w \in running
      PROVE  Uses(w) \subseteq open' /\ IsWaitedFor(w)'
  <2>1. Uses(w) \subseteq open /\ (IsWaitedFor(w) \/ AboutToWait)
    BY <1>1 DEF ProcessInv, WorkersAreWaitedFor
  <2>2. CASE defers' = defers
    <3>1. ASSUME AboutToWait PROVE FALSE
      <4>1. PICK d \in Names : defers' = <<d>> \o defers
        BY <1>1, <3>1, StartDefers DEF AboutToWait
      <4>2. Len(defers') = Len(defers) + 1 /\ Len(defers) \in Nat
        BY <1>1, <4>1, OneMoreCall, LenProperties
      <4>3. Len(defers') = Len(defers)
        BY <2>2
      <4> QED
        BY <4>2, <4>3
    <3> QED
      BY <1>3, <2>1, <2>2, <3>1 DEF IsWaitedFor, Closes
  <2>3. CASE defers' # defers
    <3>1. PICK d \in Names : /\ defers' = <<d>> \o defers
                             /\ d = "wait" \/ (Given(Script[pc]) /\ d = Script[pc].name)
                             /\ Script[pc].kind = "wait" => d = "wait"
      BY <1>1, <2>3, StartDefers
    <3>2. d \notin Uses(w)
      BY <1>1, <2>1, <3>1, OpenNamesAreOld
    <3>3. CASE IsWaitedFor(w)
      BY <1>1, <1>3, <2>1, <3>1, <3>2, <3>3, StillWaitedFor
    <3>4. CASE AboutToWait
      <4>1. d = "wait"
        BY <3>1, <3>4 DEF AboutToWait
      <4>2. Len(defers') = Len(defers) + 1 /\ defers'[1] = "wait" /\ Len(defers) \in Nat
        BY <1>1, <3>1, <4>1, OneMoreCall, LenProperties
      <4>3. 1 \in 1..Len(defers') /\ 1..(1 - 1) = {}
        BY <4>2
      <4>4. IsWaitedFor(w)'
        BY <4>2, <4>3 DEF IsWaitedFor, Closes
      <4> QED
        BY <1>3, <2>1, <4>4
    <3> QED
      BY <2>1, <3>3, <3>4
  <2> QED
    BY <2>2, <2>3
<1>5. ASSUME NEW w \in running', w \notin running
      PROVE  Uses(w) \subseteq open' /\ (IsWaitedFor(w) \/ AboutToWait)'
  <2>1. Script[pc].kind = "spawn" /\ w = Script[pc].name
    BY <1>1, <1>2, <1>5 DEF Started, Statement, Statements
  <2> QED
    BY <2>1, NewWorkerIsWaitedFor
<1> QED
  BY <1>4, <1>5 DEF WorkersAreWaitedFor

(* A statement of run succeeds.                                            *)
LEMMA StartKeepsInv ==
  ASSUME ProcessInv, StepSucceeds
  PROVE  ProcessInv'
<1>1. ServingIsStarted' /\ RequestsAreServed'
  BY StartFacts DEF ServingIsStarted, RequestsAreServed, ProcessInv
<1> QED
  BY <1>1, StartKeepsTypes, StartKeepsTheWait, StartKeepsWorkers DEF ProcessInv

(* The statement counter behind the last statement.                        *)
LEMMA BehindTheLast == ASSUME NEW n \in Nat, NEW p \in 1..(n + 1), p > n PROVE p = n + 1
OBVIOUS

(* A step that leaves the script and the deferred calls alone, and starts  *)
(* nothing.                                                                *)
LEMMA RestKeepsInv ==
  ASSUME ProcessInv,
         UNCHANGED <<service, pc, defers, open, consuming>>,
         running' \subseteq running,
         running' = running \/ cancelled,
         cancelled => cancelled',
         handling' \subseteq Before("consume"),
         outcome' \in {"", "ok", "failed", "late"},
         phase' \in {"starting", "serving", "unwinding", "exited"},
         phase' = "starting" => phase = "starting",
         phase' = "serving" => phase = "serving" \/ pc > Len(Script),
         phase' \in {"starting", "serving"} => phase \in {"starting", "serving"},
         phase' # phase => ~AboutToWait,
         phase = "exited" => phase' = "exited",
         RequestsAreServed'
  PROVE  ProcessInv'
<1>1. Script' = Script /\ \A k : Before(k)' = Before(k)
  BY UnchangedScript
<1>2. ProcessTypes'
  BY <1>1 DEF ProcessInv, ProcessTypes
<1>3. NothingGivenBack'
  BY <1>1 DEF ProcessInv, NothingGivenBack
<1>4. WaitIsDeferred'
  <2> SUFFICES ASSUME phase' \in {"starting", "serving"},
                      NEW j \in 1..(pc' - 1), Script'[j].kind = "wait"
               PROVE  \E n \in 1..Len(defers') :
                        /\ defers'[n] = "wait"
                        /\ \A m \in 1..(j - 1) :
                             Script'[m].kind = "open" => ~Closes(n, Script[m].name)'
    BY Zenon DEF WaitIsDeferred
  <2>1. PICK n \in 1..Len(defers) :
          /\ defers[n] = "wait"
          /\ \A m \in 1..(j - 1) : Script[m].kind = "open" => ~Closes(n, Script[m].name)
    BY <1>1 DEF ProcessInv, WaitIsDeferred
  <2>2. ASSUME NEW m \in 1..(j - 1), Script'[m].kind = "open" PROVE ~Closes(n, Script[m].name)'
    BY <1>1, <2>1, <2>2 DEF Closes
  <2> QED
    BY <2>1, <2>2
<1>5. WorkersAreWaitedFor'
  <2> SUFFICES ASSUME phase' # "exited", NEW w \in running'
               PROVE Uses(w) \subseteq open' /\ (IsWaitedFor(w) \/ AboutToWait)'
    BY DEF WorkersAreWaitedFor
  <2>1. Uses(w) \subseteq open /\ (IsWaitedFor(w) \/ AboutToWait)
    BY DEF ProcessInv, WorkersAreWaitedFor
  <2>2. IsWaitedFor(w) => IsWaitedFor(w)'
    BY DEF IsWaitedFor, Closes
  <2>3. AboutToWait => AboutToWait'
    BY <1>1 DEF AboutToWait
  <2> QED
    BY <2>1, <2>2, <2>3
<1>6. ServingIsStarted'
  <2>1. pc \in 1..(Len(Script) + 1) /\ Len(Script) \in Nat
    BY ScriptIsWellMade DEF ProcessInv, ProcessTypes
  <2>2. phase' = "serving" => pc = Len(Script) + 1
    <3>1. CASE phase = "serving"
      BY <3>1 DEF ProcessInv, ServingIsStarted
    <3>2. CASE pc > Len(Script)
      <4>1. pc = Len(Script) + 1
        BY <2>1, <3>2, BehindTheLast, Zenon
      <4> QED
        BY <4>1
    <3> QED
      BY <3>1, <3>2
  <2> QED
    BY <1>1, <2>2 DEF ServingIsStarted
<1> QED
  BY <1>2, <1>3, <1>4, <1>5, <1>6 DEF ProcessInv

(* What must not fail is not waited for in vain: the wait comes right      *)
(* after the worker.                                                       *)
LEMMA FailingKeepsInv ==
  ASSUME ProcessInv, StepFails
  PROVE  ProcessInv'
<1>1. /\ phase = "starting" /\ phase' = "unwinding" /\ outcome' = "failed"
      /\ UNCHANGED <<service, pc, defers, open, running, consuming, handling, requests, cancelled>>
  BY DEF StepFails, Return
<1>2. ~AboutToWait
  BY DEF StepFails, MayFail, AboutToWait, Statement
<1>3. handling' \subseteq Before("consume")
  BY <1>1 DEF ProcessInv, ProcessTypes
<1>4. RequestsAreServed'
  BY <1>1 DEF RequestsAreServed
<1> QED
  BY <1>1, <1>2, <1>3, <1>4, RestKeepsInv

(* The server listens, fails to, or is shut down.                          *)
LEMMA ServingKeepsInv ==
  ASSUME ProcessInv, Serve \/ ListenFails \/ Shutdown
  PROVE  ProcessInv'
<1>1. UNCHANGED <<service, pc, defers, open, running, consuming, handling, requests, cancelled>>
  BY DEF Serve, ListenFails, Shutdown
<1>2. handling' \subseteq Before("consume")
  BY <1>1 DEF ProcessInv, ProcessTypes
<1>3. CASE Serve
  <2>1. phase = "starting" /\ phase' = "serving" /\ pc > Len(Script) /\ outcome' = outcome
    BY <1>3 DEF Serve
  <2>2. pc \in 1..(Len(Script) + 1) /\ Len(Script) \in Nat
    BY ScriptIsWellMade DEF ProcessInv, ProcessTypes
  <2>3. ~AboutToWait
    BY <2>1, <2>2 DEF AboutToWait
  <2>4. outcome' \in {"", "ok", "failed", "late"}
    BY <2>1 DEF ProcessInv, ProcessTypes
  <2>5. RequestsAreServed'
    BY <1>1, <2>1 DEF RequestsAreServed
  <2> QED
    BY <1>1, <1>2, <2>1, <2>3, <2>4, <2>5, RestKeepsInv
<1>4. CASE ListenFails \/ Shutdown
  <2>1. /\ phase = "serving" /\ phase' = "unwinding" /\ outcome' \in {"ok", "failed", "late"}
        /\ requests => outcome' \in {"failed", "late"}
    BY <1>4 DEF ListenFails, Shutdown, Return
  <2>2. ~AboutToWait
    BY <2>1 DEF AboutToWait
  <2>3. RequestsAreServed'
    BY <1>1, <2>1 DEF RequestsAreServed
  <2> QED
    BY <1>1, <1>2, <2>1, <2>2, <2>3, RestKeepsInv
<1> QED
  BY <1>3, <1>4

(* Requests, messages, the signal and the end of a worker.                 *)
LEMMA WorkKeepsInv ==
  ASSUME ProcessInv,
         \/ Request \/ RequestsEnd \/ Signal
         \/ \E w \in running : WorkerEnds(w)
         \/ \E c \in consuming \cup handling : TakeMessage(c) \/ MessageEnds(c)
  PROVE  ProcessInv'
<1>1. UNCHANGED <<service, pc, phase, defers, open, consuming, outcome>>
  BY DEF Request, RequestsEnd, Signal, WorkerEnds, TakeMessage, MessageEnds
<1>2. running' \subseteq running /\ (running' = running \/ cancelled) /\ (cancelled => cancelled')
  BY DEF Request, RequestsEnd, Signal, WorkerEnds, TakeMessage, MessageEnds
<1>3. handling' \subseteq Before("consume")
  <2>1. handling \subseteq Before("consume") /\ consuming \subseteq Before("consume")
    BY DEF ProcessInv, ProcessTypes
  <2>2. handling' \subseteq handling \cup consuming
    BY DEF Request, RequestsEnd, Signal, WorkerEnds, TakeMessage, MessageEnds
  <2> QED
    BY <2>1, <2>2
<1>4. RequestsAreServed'
  <2>1. requests' => requests \/ phase = "serving"
    BY DEF Request, RequestsEnd, Signal, WorkerEnds, TakeMessage, MessageEnds
  <2> QED
    BY <1>1, <2>1 DEF ProcessInv, RequestsAreServed
<1>5. /\ phase \in {"starting", "serving", "unwinding", "exited"}
      /\ outcome \in {"", "ok", "failed", "late"}
  BY DEF ProcessInv, ProcessTypes
<1> QED
  BY <1>1, <1>2, <1>3, <1>4, <1>5, RestKeepsInv

(* A deferred call runs: the wait only when every worker has ended.        *)
LEMMA UnwindingKeepsInv ==
  ASSUME ProcessInv, Unwind
  PROVE  ProcessInv'
<1>1. PICK d : d = Head(defers)
  OBVIOUS
<1>2. /\ phase = "unwinding" /\ phase' = "unwinding" /\ defers # <<>> /\ defers' = Tail(defers)
      /\ d = "wait" => running = {}
      /\ open' = open \ {d} /\ consuming' = consuming \ {d}
      /\ UNCHANGED <<service, pc, running, handling, requests, outcome>>
  BY <1>1 DEF Unwind
<1>3. Script' = Script /\ \A k : Before(k)' = Before(k)
  BY <1>2, UnchangedScript
<1>4. defers \in Seq(Names)
  BY DEF ProcessInv, ProcessTypes
<1>5. defers' \in Seq(Names)
  BY <1>2, <1>4, HeadTailProperties
<1>6. ProcessTypes'
  BY <1>2, <1>3, <1>5 DEF ProcessInv, ProcessTypes
<1>7. WorkersAreWaitedFor'
  <2> SUFFICES ASSUME NEW w \in running PROVE Uses(w) \subseteq open' /\ IsWaitedFor(w)'
    BY <1>2 DEF WorkersAreWaitedFor
  <2>1. Uses(w) \subseteq open /\ IsWaitedFor(w)
    BY <1>2 DEF ProcessInv, WorkersAreWaitedFor, AboutToWait
  <2>2. d # "wait"
    BY <1>2
  <2>3. IsWaitedFor(w)' /\ d \notin Uses(w)
    BY <1>1, <1>2, <1>4, <2>1, <2>2, OneCallLess
  <2> QED
    BY <1>2, <2>1, <2>3
<1>8. NothingGivenBack' /\ WaitIsDeferred' /\ ServingIsStarted'
  BY <1>2 DEF NothingGivenBack, WaitIsDeferred, ServingIsStarted
<1>9. RequestsAreServed'
  BY <1>2 DEF ProcessInv, RequestsAreServed
<1> QED
  BY <1>6, <1>7, <1>8, <1>9 DEF ProcessInv

(* main returns, and whatever still runs is gone with it.                  *)
LEMMA ExitKeepsInv ==
  ASSUME ProcessInv, Exit
  PROVE  ProcessInv'
<1>1. /\ phase' = "exited" /\ running' = {} /\ handling' = {} /\ requests' = FALSE
      /\ UNCHANGED <<service, pc, defers, open, consuming, outcome>>
  BY DEF Exit
<1>2. Script' = Script /\ \A k : Before(k)' = Before(k)
  BY <1>1, UnchangedScript
<1>3. ProcessTypes'
  BY <1>1, <1>2 DEF ProcessInv, ProcessTypes
<1> QED
  BY <1>1, <1>3 DEF ProcessInv, NothingGivenBack, WaitIsDeferred, WorkersAreWaitedFor,
                    ServingIsStarted, RequestsAreServed

(* Every step of the process keeps the invariant.                          *)
LEMMA ProcessStep == ProcessInv /\ [ProcessNext]_processVars => ProcessInv'
<1> SUFFICES ASSUME ProcessInv, [ProcessNext]_processVars PROVE ProcessInv'
  OBVIOUS
<1>1. CASE UNCHANGED processVars
  <2>1. UNCHANGED <<service, pc, phase, defers, open, running, consuming, handling, requests,
                    cancelled, outcome>>
    BY <1>1 DEF processVars
  <2>2. handling' \subseteq Before("consume") /\ RequestsAreServed'
        /\ phase \in {"starting", "serving", "unwinding", "exited"}
        /\ outcome \in {"", "ok", "failed", "late"}
    BY <2>1 DEF ProcessInv, ProcessTypes, RequestsAreServed
  <2> QED
    BY <2>1, <2>2, RestKeepsInv
<1>2. CASE ProcessNext
  BY <1>2, StartKeepsInv, FailingKeepsInv, ServingKeepsInv, WorkKeepsInv, UnwindingKeepsInv,
     ExitKeepsInv DEF ProcessNext
<1> QED
  BY <1>1, <1>2

(* Whatever starts or fails, and whenever the signal comes: a worker has   *)
(* what it works with until it has ended; a service that answers has all   *)
(* its workers, consumers and connections; and the pool is closed under a  *)
(* request only if the shutdown ran out of time or the listener failed     *)
(* (func run of the fourteen services).                                    *)
THEOREM ProcessesAreOrderly == ProcessSpec => []NothingOutlivesWhatItUses
<1>1. ProcessInit => ProcessInv
  BY ProcessBegins
<1>2. ProcessInv /\ [ProcessNext]_processVars => ProcessInv'
  BY ProcessStep
<1>3. ProcessInv => NothingOutlivesWhatItUses
  <2> SUFFICES ASSUME ProcessInv PROVE NothingOutlivesWhatItUses
    OBVIOUS
  <2>1. ProcessTypes /\ service \in DOMAIN Scripts
    BY DEF ProcessInv, ProcessTypes
  <2>2. \A k : Before(k) \subseteq Kind(k) /\ (pc = Len(Script) + 1 => Before(k) = Kind(k))
    BY <2>1, ScriptIsWellMade, BeforeIsOfKind
  <2>3. ProcessTypeOK
    BY <2>1, <2>2 DEF ProcessTypes, ProcessTypeOK
  <2>4. WorkersHaveTheirResources
    BY DEF ProcessInv, WorkersAreWaitedFor, WorkersHaveTheirResources
  <2>5. ServingMeansComplete
    BY <2>2 DEF ProcessInv, ServingIsStarted, NothingGivenBack, ServingMeansComplete
  <2>6. RequestsKeepThePool
    BY <2>5 DEF ProcessInv, RequestsAreServed, ServingMeansComplete, RequestsKeepThePool
  <2> QED
    BY <2>3, <2>4, <2>5, <2>6 DEF NothingOutlivesWhatItUses
<1> QED
  BY <1>1, <1>2, <1>3, PTL DEF ProcessSpec
=============================================================================
