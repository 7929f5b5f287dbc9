---------------------------- MODULE AudienceBus ----------------------------
(***************************************************************************)
(* What the services around an ad share: the requests of their users, and  *)
(* the events that reviews, user-profile, notification and favorites       *)
(* exchange with each other, with Listing and with Moderation.             *)
(*                                                                         *)
(* EventDelivery is about how an event leaves an outbox; here a message    *)
(* waits for a consumer from the commit that made it.  A handler that ends *)
(* well acknowledges it; one that fails or dies leaves it, and it comes    *)
(* again until it has been given MaxDeliver times.  Two replicas of a      *)
(* service may have the same message in hand, since JetStream gives it     *)
(* again when no answer comes in time.                                     *)
(*                                                                         *)
(* mail       messages that are not acknowledged                           *)
(* dead       messages that have been given up                             *)
(* work       of each replica, the handler that runs, and what it has read *)
(* processed  the inboxes                                                  *)
(* req        the requests; a request also names the row it adds           *)
(* listing    the ads that GET /internal/ads/{id} of Listing finds         *)
(* now        the clock                                                    *)
(* budget     how often each input may still happen, and what the story is *)
(*            about: its people, their inputs and the consumers            *)
(***************************************************************************)
EXTENDS Integers, FiniteSets

CONSTANTS User, Ad, Owner(_), Replica, Request, None, MaxDeliver, Budgets

(* Requests are in the order of their ids; a story is about some people,   *)
(* what they ask for and the consumers that listen.                        *)
Story == {"people", "stars", "lists", "queries", "consumers", "channel"}
ASSUME BusAssumption ==
  /\ MaxDeliver \in Nat /\ Request \subseteq Nat /\ None \notin Replica \cup Nat
  /\ \A a \in Ad : Owner(a) \in User
  /\ \A b \in Budgets : Story \subseteq DOMAIN b /\ b.people \subseteq User

VARIABLES mail, dead, work, processed, req, listing, now, budget

(* History: what has ever been sent to a consumer.                         *)
VARIABLE posted

bus == <<mail, dead, work, processed, posted>>
inputs == <<req, listing, now, budget>>

May(input) == budget[input] > 0
Spend(input) == budget' = [budget EXCEPT ![input] = @ - 1]

Idle == [op |-> "idle"]
Done == [op |-> "done"]

BusInit ==
  /\ mail = {} /\ dead = {} /\ processed = {} /\ posted = {}
  /\ work = [w \in Replica |-> Idle]
  /\ req = [q \in Request |-> Idle]
  /\ listing = Ad /\ now = 0 /\ budget \in Budgets

(***************************************************************************)
(* Requests.  Ids grow with time (uuid v7): a request takes the next one.  *)
(***************************************************************************)
Fresh(q) == req[q] = Idle /\ \A p \in Request : p < q => req[p] # Idle
Asks(q, op, step) == req[q].op = op /\ req[q].step = step
Turn(q, r) == req' = [req EXCEPT ![q] = r]

(* A statement fails or the process dies: the request is over.             *)
RequestFails(q) ==
  /\ req[q] \notin {Idle, Done} /\ May("failures") /\ Spend("failures")
  /\ Turn(q, Done)
  /\ UNCHANGED <<bus, listing, now>>

Tick ==
  /\ May("ticks") /\ Spend("ticks")
  /\ now' = now + 1
  /\ UNCHANGED <<bus, req, listing>>

(***************************************************************************)
(* Events.                                                                 *)
(***************************************************************************)
UserCreated(u) == [type |-> "user.created", user |-> u]
ReviewCreated(r) == [type |-> "review.created", user |-> Owner(r.ad), review |-> r.id]
ReviewBlocked(id) == [type |-> "review.blocked", review |-> id]
AdApproved(a, n) == [type |-> "ad.approved", user |-> Owner(a), ad |-> a, nth |-> n]
AdDeleted(a) == [type |-> "ad.deleted", user |-> Owner(a), ad |-> a]
Matched(s, a, n) == [type |-> "saved_search.matched", user |-> s.user, search |-> s.id,
                     ad |-> a, nth |-> n]

Subscribers(type) ==
  CASE type = "user.created" -> {"profiles", "recipients"}
    [] type = "review.created" -> {"ratings", "delivery"}
    [] type = "review.blocked" -> {"reviews-block"}
    [] type = "ad.approved" -> {"matcher", "delivery"}
    [] type = "ad.deleted" -> {"favorites"}
    [] type = "saved_search.matched" -> {"delivery"}

(* What makes two messages the same to a consumer: its inbox knows it.     *)
Key(m) == [to |-> m.to, event |-> m.event]

Heard(e) == Subscribers(e.type) \cap budget.consumers
Post(e) ==
  /\ mail' = mail \cup {[to |-> c, event |-> e, left |-> MaxDeliver] : c \in Heard(e)}
  /\ posted' = posted \cup {[to |-> c, event |-> e] : c \in Heard(e)}

(***************************************************************************)
(* Handlers.                                                               *)
(***************************************************************************)
In(w, consumer, step) == work[w].op = "handle" /\ work[w].to = consumer /\ work[w].step = step
Go(w, step) == work' = [work EXCEPT ![w].step = step]
(* The step has read something, or is left with it.                        *)
GoWith(w, step, read) == work' = [work EXCEPT ![w] = [@ EXCEPT !.step = step, !.read = read]]
InHand(m) == {w \in Replica : work[w] # Idle /\ Key(work[w]) = Key(m)}
MessageOf(w) == {m \in mail : w \in InHand(m)}

(* A replica takes a message; what an inbox has is acknowledged at once.   *)
Handler(m) == [op |-> "handle", to |-> m.to, event |-> m.event, read |-> None,
               step |-> IF Key(m) \in processed THEN "over" ELSE "begin"]

(* Mutant: there is no limit to the deliveries.                            *)
GiveForEver(w, m) ==
  /\ work[w] = Idle /\ m \in mail
  /\ InHand(m) # {} => May("retakes")
  /\ budget' = IF InHand(m) = {} THEN budget ELSE [budget EXCEPT !.retakes = @ - 1]
  /\ work' = [work EXCEPT ![w] = Handler(m)]
  /\ UNCHANGED <<mail, dead, processed, posted, req, listing, now>>

Give(w, m) ==
  /\ work[w] = Idle /\ m \in mail /\ m.left > 0
  /\ InHand(m) # {} => May("retakes")
  /\ budget' = IF InHand(m) = {} THEN budget ELSE [budget EXCEPT !.retakes = @ - 1]
  /\ mail' = (mail \ {m}) \cup {[m EXCEPT !.left = @ - 1]}
  /\ work' = [work EXCEPT ![w] = Handler(m)]
  /\ UNCHANGED <<dead, processed, posted, req, listing, now>>

(* The handler returns nil.                                                *)
Acknowledge(w) ==
  /\ work[w].op = "handle" /\ work[w].step = "over"
  /\ mail' = mail \ MessageOf(w)
  /\ work' = [work EXCEPT ![w] = Idle]
  /\ UNCHANGED <<dead, processed, posted, inputs>>

(* The handler returns an error.                                           *)
LetGo(w) ==
  LET last == {m \in MessageOf(w) : m.left = 0 /\ InHand(m) = {w}} IN
  /\ work' = [work EXCEPT ![w] = Idle]
  /\ mail' = mail \ last
  /\ dead' = dead \cup {Key(m) : m \in last}
  /\ UNCHANGED <<processed, posted>>

(* A statement fails, the replica dies, or the acknowledgement is lost.    *)
Break(w) ==
  /\ work[w] # Idle /\ May("failures") /\ Spend("failures")
  /\ LetGo(w)
  /\ UNCHANGED <<req, listing, now>>

Marked(w) == processed' = processed \cup {Key(work[w])}
=============================================================================
