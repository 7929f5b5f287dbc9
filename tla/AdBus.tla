------------------------------- MODULE AdBus -------------------------------
(***************************************************************************)
(* The events that Listing, Moderation and Search exchange about ads, and  *)
(* the durable consumers that take them (pkg/shared/events, the calls of   *)
(* natsx.Consume in the cmd/server/main.go of the services).               *)
(*                                                                         *)
(* How an event of an outbox reaches a consumer, and that a consumer with  *)
(* an inbox commits its effect once, is the subject of EventDelivery.      *)
(* Here a message waits for each consumer of its subject from the commit   *)
(* that made it until its handler has ended and the acknowledgement is     *)
(* taken.  A consumer may take its messages in any order, since a failed   *)
(* one comes again later; one without an inbox may be given again what it  *)
(* has handled, since an acknowledgement can be lost.                      *)
(*                                                                         *)
(* queue  of each consumer, the bag of messages that wait for it           *)
(* work   of each consumer, the message it has in hand, and what its       *)
(*        handler has read                                                 *)
(***************************************************************************)
EXTENDS Naturals, FiniteSets, Bags

CONSTANTS Ad,        \* ids of ads, numbers
          Content,   \* what an ad may say (title, text, price, pictures)
          None

VARIABLES queue, work

busVars == <<queue, work>>

ModerationSubjects == {"ad.approved", "ad.rejected", "ad.blocked"}
PromotionSubjects == {"promotion.activated"}
AutoSubjectsCreatedOnly == {"ad.created"}    \* mutant
AutoSubjects == {"ad.created", "ad.updated"}
IndexerSubjectsNoSold == {"ad.created", "ad.updated", "ad.deleted", "ad.approved",
                          "ad.bumped", "ad.expired"}    \* mutant
IndexerSubjects == {"ad.created", "ad.updated", "ad.deleted", "ad.approved",
                    "ad.bumped", "ad.sold", "ad.expired"}

Consumer == {"listing-moderation", "listing-promotion", "moderation-auto",
             "search-indexer"}

Subscribed(c) ==
  CASE c = "listing-moderation" -> ModerationSubjects
    [] c = "listing-promotion"  -> PromotionSubjects
    [] c = "moderation-auto"    -> AutoSubjects
    [] c = "search-indexer"     -> IndexerSubjects

(* A message has a subject, an ad, and what else its handlers look at: the *)
(* status an ad event tells of, or the end of a promotion.                 *)
Event(subject, ad, arg) == [subject |-> subject, ad |-> ad, arg |-> arg]

(* Search only looks at the ad: its messages are told apart by nothing     *)
(* else.                                                                   *)
SeenBy(c, e) == IF c = "search-indexer" THEN Event("", e.ad, "") ELSE e

BusInit ==
  /\ queue = [c \in Consumer |-> EmptyBag]
  /\ work = [c \in Consumer |-> None]

(* The queues with the events of a commit in them.                         *)
Published(evs) ==
  [c \in Consumer |->
     queue[c] (+) SetToBag({SeenBy(c, e) : e \in {x \in evs : x.subject \in Subscribed(c)}})]

Publish(evs) == queue' = Published(evs)

(* A handler that is free takes one of its messages and reads what it      *)
(* needs: memory is what it keeps of it.                                   *)
Take(c, e, memory) ==
  /\ work[c] = None
  /\ BagIn(e, queue[c])
  /\ queue' = [queue EXCEPT ![c] = @ (-) SetToBag({e})]
  /\ work' = [work EXCEPT ![c] = [event |-> e, memory |-> memory]]

(* The handler ends, having published evs; its message is acknowledged, or *)
(* the acknowledgement is lost and the message comes again.                *)
Finish(c, evs, ackLost) ==
  /\ work' = [work EXCEPT ![c] = None]
  /\ queue' = IF ackLost
              THEN [Published(evs) EXCEPT ![c] = @ (+) SetToBag({work[c].event})]
              ELSE Published(evs)

(* Mutant: a message is acknowledged before it is handled.                 *)
Forget(cs) ==
  /\ work' = [c \in Consumer |-> IF c \in cs THEN None ELSE work[c]]
  /\ UNCHANGED queue

(* The process of some consumers dies: their messages come again.          *)
GiveBack(cs) ==
  /\ work' = [c \in Consumer |-> IF c \in cs THEN None ELSE work[c]]
  /\ queue' = [c \in Consumer |->
                 IF c \in cs /\ work[c] # None
                 THEN queue[c] (+) SetToBag({work[c].event}) ELSE queue[c]]

Waiting(c) == BagToSet(queue[c])

Quiet(c) == queue[c] = EmptyBag /\ work[c] = None

=============================================================================
