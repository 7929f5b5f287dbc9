----------------------------- MODULE Promotions -----------------------------
(***************************************************************************)
(* Paid services of an ad: buying them, and what happens to them when the  *)
(* ad expires, comes back or is removed                                    *)
(* (services/payments/internal: app/promotion_ad.go, app/lifecycle.go,     *)
(* repo/ad_promotion.go, domain/ad_promotion.go, worker/lifecycle.go).     *)
(*                                                                         *)
(* A purchase is a saga over two databases: read the ad from Listing,      *)
(* debit the wallet, activate the services, and refund if the activation   *)
(* failed.  Meanwhile the consumer payments-ad-lifecycle gets the events   *)
(* of the ad, each at least once and in any order, and suspends, resumes   *)
(* or refunds the services; to resume and to refund it first lists them.   *)
(*                                                                         *)
(* promos    the table ad_promotions, in order of insertion                *)
(* spent     for each row, the term it was sold with and how much of it    *)
(*           has been served (history, no code reads it)                   *)
(* saga      the purchases: None, or how far the request got               *)
(* worker    the consumers: Idle, or what they listed                      *)
(* bus       events not acknowledged yet                                   *)
(* outbox    events enqueued by this service, whatever their number        *)
(* adStatus, takedown    the ads, in Listing, and the removals decided by  *)
(*           Moderation that Listing has not applied yet                   *)
(* now       the clock, in days                                            *)
(***************************************************************************)
EXTENDS Wallet, FiniteSetsExt, SequencesExt

CONSTANTS Ad,
          Owner,      \* of each ad
          Request,    \* requests to promote an ad, each made once
          Worker,     \* consumers of payments-ad-lifecycle
          Plan,       \* what can be bought, with its resolved price
          Funds,      \* the wallet is topped up once, by this much
          MaxTime,    \* bound of the model: the clock
          Faults,     \* which of the faults below may happen
          None, Idle, Never

VARIABLES promos, spent, saga, worker, bus, outbox, adStatus, takedown, now

(* History: ads for which services were bought after their removal had     *)
(* been decided, or whose removal was set aside; purchases that died,      *)
(* could not be compensated or were activated and reported as failed.      *)
VARIABLES raced, hurt

listingVars == <<adStatus, takedown, bus>>
promotionVars == <<walletVars, promos, spent, saga, worker, outbox, listingVars, now, raced, hurt>>
marks == <<raced, hurt>>

(* "crash": a request dies between two steps.  "refund": the compensation  *)
(* fails.  "commit": an activation is committed but reported as failed.    *)
(* "dlq": an event has failed as often as is allowed and is set aside.     *)
FaultKind == {"crash", "refund", "commit", "dlq"}

Item == [service : {"TOP", "VIP", "BUMP"}, days : Nat]

AdState == {"active", "expired", "blocked", "deleted"}

PromoStatus == {"active", "suspended", "refunded"}

Promo == [ad          : Ad,
          user        : User,
          service     : {"TOP", "VIP", "BUMP"},
          amount      : Nat,
          status      : PromoStatus,
          starts      : Nat,
          ends        : Nat \cup {Never},
          suspendedAt : Nat \cup {Never}]

Stage == {"debit", "activate", "refund",        \* in flight
          "done", "rejected", "failed", "lost"} \* over

Purchase == [at : Stage, ad : Ad, plan : Plan]

AdEvent == [kind : {"expired", "updated", "blocked", "deleted"}, ad : Ad]

Listed == [event : AdEvent, amount : Nat, top : Nat \cup {Never}]

OutEvent == [subject : {"promotion.activated", "wallet.refunded"},
             ad : Ad, value : Nat \cup {Never}]

ASSUME PromotionAssumption ==
  /\ Owner \in [Ad -> User]
  /\ Ad \subseteq Reference
  /\ \A p \in Plan : p.amount \in Nat \ {0} /\ p.items \in Seq(Item) /\ p.items # <<>>
  /\ Funds \in Nat \ {0}
  /\ MaxTime \in Nat
  /\ Faults \subseteq FaultKind
  /\ Never \notin Nat
  /\ None \notin Purchase

PromotionsTypeOK ==
  /\ WalletTypeOK
  /\ promos \in Seq(Promo)
  /\ spent \in Seq([term : Nat, served : Nat]) /\ Len(spent) = Len(promos)
  /\ saga \in [Request -> Purchase \cup {None}]
  /\ worker \in [Worker -> Listed \cup {Idle}]
  /\ outbox \subseteq OutEvent
  /\ bus \subseteq AdEvent
  /\ adStatus \in [Ad -> AdState]
  /\ takedown \subseteq Ad
  /\ now \in 0..MaxTime
  /\ raced \subseteq Ad /\ hurt \subseteq Request

PromotionsInit ==
  /\ WalletInit
  /\ promos = <<>>
  /\ spent = <<>>
  /\ saga = [r \in Request |-> None]
  /\ worker = [w \in Worker |-> Idle]
  /\ outbox = {}
  /\ bus = {}
  /\ adStatus = [a \in Ad |-> "active"]
  /\ takedown = {}
  /\ now = 0
  /\ raced = {} /\ hurt = {}

-----------------------------------------------------------------------------
(* Mutant of RefundAmount: rounded up.                                     *)
RefundRoundedUp(p) ==
  LET total == p.ends - p.starts
      asOf  == IF p.status = "suspended" THEN p.suspendedAt ELSE now
      left  == Min({p.ends - asOf, total})
  IN IF p.ends # Never /\ p.amount > 0 /\ total > 0 /\ left > 0
     THEN (p.amount * left + total - 1) \div total
     ELSE 0

(* RefundAmount: amount * remaining / total, rounded down.                 *)
RefundAmount(p) ==
  LET total == p.ends - p.starts
      asOf  == IF p.status = "suspended" THEN p.suspendedAt ELSE now
      left  == Min({p.ends - asOf, total})
  IN IF p.ends # Never /\ p.amount > 0 /\ total > 0 /\ left > 0
     THEN (p.amount * left) \div total
     ELSE 0

(* The rows of an ad with one of the statuses.                             *)
RowsOf(ad, statuses) ==
  {i \in DOMAIN promos : promos[i].ad = ad /\ promos[i].status \in statuses}

Open == {"active", "suspended"}

(* An UPDATE of the rows in the domain of new.                             *)
SetRows(new) ==
  promos' = [i \in DOMAIN promos |-> IF i \in DOMAIN new THEN new[i] ELSE promos[i]]

Enqueue(subject, ad, value) ==
  outbox' = outbox \cup {[subject |-> subject, ad |-> ad, value |-> value]}

SagaAt(r, stage) == saga[r] # None /\ saga[r].at = stage

GoTo(r, stage) == saga' = [saga EXCEPT ![r].at = stage]

InFlight(r) == saga[r] # None /\ saga[r].at \in {"debit", "activate", "refund"}

(* The requests made so far.                                               *)
Started == {r \in Request : saga[r] # None}

-----------------------------------------------------------------------------
(* The purchase.                                                           *)

Topup(u) ==
  /\ version[u] = 0
  /\ \E ad \in Ad : Owner[ad] = u /\ CreditTx(u, Funds, "topup", ad)
  /\ UNCHANGED <<promos, spent, saga, worker, outbox, listingVars, now, marks>>

(* Promote up to the debit: the ad is read, found active and the plan made.*)
ReadAd(r, ad, plan) ==
  /\ saga[r] = None
  /\ adStatus[ad] = "active"
  /\ saga' = [saga EXCEPT ![r] = [at |-> "debit", ad |-> ad, plan |-> plan]]
  /\ UNCHANGED <<walletVars, promos, spent, worker, outbox, listingVars, now, marks>>

Debit(r) ==
  /\ SagaAt(r, "debit")
  /\ LET user == Owner[saga[r].ad] IN
       \/ /\ DebitTx(user, saga[r].plan.amount, "purchase", saga[r].ad)
          /\ GoTo(r, "activate")
       \/ /\ InsufficientFunds(user, saga[r].plan.amount)
          /\ GoTo(r, "rejected")
          /\ UNCHANGED walletVars
  /\ UNCHANGED <<promos, spent, worker, outbox, listingVars, now, marks>>

EndsAt(item) == IF item.service = "BUMP" THEN Never ELSE now + item.days

(* Mutant of NewRows: the whole price on every row.                        *)
NewRowsAllPriced(ad, plan) ==
  [i \in DOMAIN plan.items |->
     [ad |-> ad, user |-> Owner[ad], service |-> plan.items[i].service,
      amount |-> plan.amount, status |-> "active",
      starts |-> now, ends |-> EndsAt(plan.items[i]), suspendedAt |-> Never]]

(* The rows of a plan: the whole price is put on the first.                *)
NewRows(ad, plan) ==
  [i \in DOMAIN plan.items |->
     [ad |-> ad, user |-> Owner[ad], service |-> plan.items[i].service,
      amount |-> IF i = 1 THEN plan.amount ELSE 0, status |-> "active",
      starts |-> now, ends |-> EndsAt(plan.items[i]), suspendedAt |-> Never]]

NewSpent(plan) ==
  [i \in DOMAIN plan.items |->
     [term |-> IF plan.items[i].service = "BUMP" THEN 0 ELSE plan.items[i].days, served |-> 0]]

TopEnd(plan) ==
  LET tops == {i \in DOMAIN plan.items : plan.items[i].service = "TOP"}
  IN IF tops = {} THEN Never ELSE EndsAt(plan.items[Max(tops)])

ActivatePromotions(ad, plan) ==
  /\ promos' = promos \o NewRows(ad, plan)
  /\ spent' = spent \o NewSpent(plan)
  /\ Enqueue("promotion.activated", ad, TopEnd(plan))

Removed(ad) == adStatus[ad] \in {"blocked", "deleted"} \/ ad \in takedown

Activate(r) ==
  /\ SagaAt(r, "activate")
  /\ ActivatePromotions(saga[r].ad, saga[r].plan)
  /\ \/ GoTo(r, "done") /\ UNCHANGED hurt
     \/ "commit" \in Faults /\ GoTo(r, "refund") /\ hurt' = hurt \cup {r}
  /\ raced' = IF Removed(saga[r].ad) THEN raced \cup {saga[r].ad} ELSE raced
  /\ UNCHANGED <<walletVars, worker, listingVars, now>>

(* Mutant of ActivationFails: there is no compensation.                    *)
ActivationFailsUnpaid(r) ==
  /\ SagaAt(r, "activate")
  /\ GoTo(r, "failed")
  /\ UNCHANGED <<walletVars, promos, spent, worker, outbox, listingVars, now, marks>>

ActivationFails(r) ==
  /\ SagaAt(r, "activate")
  /\ GoTo(r, "refund")
  /\ UNCHANGED <<walletVars, promos, spent, worker, outbox, listingVars, now, marks>>

(* The request is answered that the activation failed and the money was    *)
(* returned, also when returning it failed.                                *)
Compensate(r) ==
  /\ SagaAt(r, "refund")
  /\ GoTo(r, "failed")
  /\ \/ /\ CreditTx(Owner[saga[r].ad], saga[r].plan.amount, "refund", saga[r].ad)
        /\ Enqueue("wallet.refunded", saga[r].ad, saga[r].plan.amount)
        /\ UNCHANGED hurt
     \/ /\ "refund" \in Faults
        /\ hurt' = hurt \cup {r}
        /\ UNCHANGED <<walletVars, outbox>>
  /\ UNCHANGED <<promos, spent, worker, listingVars, now, raced>>

Crash(r) ==
  /\ "crash" \in Faults
  /\ InFlight(r)
  /\ GoTo(r, "lost")
  /\ hurt' = hurt \cup {r}
  /\ UNCHANGED <<walletVars, promos, spent, worker, outbox, listingVars, now, raced>>

-----------------------------------------------------------------------------
(* The consumer.                                                           *)

(* What the rows of a removed ad give back, the closed ones nothing.       *)
AmountDue(rows) ==
  SumFunctionOnSet([i \in DOMAIN promos |-> IF i \in rows THEN RefundAmount(promos[i]) ELSE 0],
                   DOMAIN promos)

(* A handled event is acknowledged, or delivered again.                    *)
Acknowledge(e) == bus' \in {bus, bus \ {e}}

(* What the consumer does to a row.                                        *)
Frozen(p) == [p EXCEPT !.status = "suspended", !.suspendedAt = now]

(* Mutant of Resumed: the end is not moved.                                *)
ResumedUnmoved(p) == [p EXCEPT !.status = "active", !.suspendedAt = Never]

Resumed(p) ==
  [p EXCEPT !.status = "active",
            !.ends = IF @ = Never THEN @ ELSE @ + (now - p.suspendedAt),
            !.suspendedAt = Never]

(* Mutant of Closed: suspended services are forgotten.                     *)
ClosedIfActive(p) == [p EXCEPT !.status = IF @ = "active" THEN "refunded" ELSE @]

Closed(p) == [p EXCEPT !.status = "refunded"]

(* Mutant of AnnouncedEnd: the end before the suspension.                  *)
AnnouncedOldEnd(p) == p.ends

(* The end that the event of a resumed TOP gives it, computed apart.       *)
AnnouncedEnd(p) == p.ends + (now - p.suspendedAt)

Suspend(w, e) ==
  /\ worker[w] = Idle
  /\ e \in bus /\ e.kind = "expired"
  /\ SetRows([i \in RowsOf(e.ad, {"active"}) |-> Frozen(promos[i])])
  /\ Acknowledge(e)
  /\ UNCHANGED <<walletVars, spent, saga, worker, outbox, adStatus, takedown, now, marks>>

(* Resume, and Refund, up to the listing of the rows.                      *)
ListToResume(w, e) ==
  /\ worker[w] = Idle
  /\ e \in bus /\ e.kind = "updated"
  /\ LET rows == RowsOf(e.ad, {"suspended"})
         tops == {i \in rows : promos[i].service = "TOP" /\ promos[i].ends # Never}
     IN /\ rows # {}
        /\ worker' = [worker EXCEPT ![w] =
             [event |-> e, amount |-> 0,
              top |-> IF tops = {} THEN Never ELSE AnnouncedEnd(promos[Max(tops)])]]
  /\ UNCHANGED <<walletVars, promos, spent, saga, outbox, listingVars, now, marks>>

ListToRefund(w, e) ==
  /\ worker[w] = Idle
  /\ e \in bus /\ e.kind \in {"blocked", "deleted"}
  /\ LET rows == RowsOf(e.ad, Open)
     IN /\ rows # {}
        /\ worker' = [worker EXCEPT ![w] = [event |-> e, amount |-> AmountDue(rows), top |-> Never]]
  /\ UNCHANGED <<walletVars, promos, spent, saga, outbox, listingVars, now, marks>>

(* Nothing is listed: there is nothing to do but acknowledge.              *)
NothingToDo(w, e) ==
  /\ worker[w] = Idle
  /\ e \in bus
  /\ \/ e.kind = "updated" /\ RowsOf(e.ad, {"suspended"}) = {}
     \/ e.kind \in {"blocked", "deleted"} /\ RowsOf(e.ad, Open) = {}
  /\ bus' = bus \ {e}
  /\ UNCHANGED <<walletVars, promos, spent, saga, worker, outbox, adStatus, takedown, now, marks>>

Finish(w) ==
  /\ worker' = [worker EXCEPT ![w] = Idle]
  /\ Acknowledge(worker[w].event)

ResumePromotions(w) ==
  /\ worker[w] # Idle /\ worker[w].event.kind = "updated"
  /\ LET ad   == worker[w].event.ad
         rows == RowsOf(ad, {"suspended"})
     IN /\ SetRows([i \in rows |-> Resumed(promos[i])])
        /\ IF rows # {} /\ worker[w].top # Never
           THEN Enqueue("promotion.activated", ad, worker[w].top)
           ELSE UNCHANGED outbox
  /\ Finish(w)
  /\ UNCHANGED <<walletVars, spent, saga, adStatus, takedown, now, marks>>

(* The sum is the one computed from the list; the rows are those open now. *)
RefundPromotions(w) ==
  /\ worker[w] # Idle /\ worker[w].event.kind \in {"blocked", "deleted"}
  /\ LET ad   == worker[w].event.ad
         rows == RowsOf(ad, Open)
     IN /\ SetRows([i \in rows |-> Closed(promos[i])])
        /\ IF rows # {} /\ worker[w].amount > 0
           THEN /\ CreditTx(Owner[ad], worker[w].amount, "refund", ad)
                /\ Enqueue("wallet.refunded", ad, worker[w].amount)
           ELSE UNCHANGED <<walletVars, outbox>>
  /\ Finish(w)
  /\ UNCHANGED <<spent, saga, adStatus, takedown, now, marks>>

(* An error or a crash of the consumer: the event is delivered again.      *)
GiveBack(w) ==
  /\ worker[w] # Idle
  /\ worker' = [worker EXCEPT ![w] = Idle]
  /\ UNCHANGED <<walletVars, promos, spent, saga, outbox, listingVars, now, marks>>

DeadLetter(w, e) ==
  /\ "dlq" \in Faults
  /\ worker[w] = Idle
  /\ bus' = bus \ {e}
  /\ raced' = IF e.kind \in {"blocked", "deleted"} THEN raced \cup {e.ad} ELSE raced
  /\ UNCHANGED <<walletVars, promos, spent, saga, worker, outbox, adStatus, takedown, now, hurt>>

-----------------------------------------------------------------------------
(* Listing and Moderation, as this service sees them.                      *)

Publish(ad, kind) == bus' = bus \cup {[kind |-> kind, ad |-> ad]}

Expire(ad) ==
  /\ adStatus[ad] = "active"
  /\ adStatus' = [adStatus EXCEPT ![ad] = "expired"]
  /\ Publish(ad, "expired")
  /\ UNCHANGED takedown

(* Renewing reactivates an expired ad.  The same event, with the status    *)
(* active, tells of renewing, editing or promoting an ad that is active.   *)
Renew(ad) ==
  /\ adStatus[ad] \in {"active", "expired"}
  /\ adStatus' = [adStatus EXCEPT ![ad] = "active"]
  /\ Publish(ad, "updated")
  /\ UNCHANGED takedown

(* Moderation publishes the event itself; Listing, another consumer of it, *)
(* blocks the ad later, or not at all if the status of the ad changes      *)
(* between its read and its update.                                        *)
Takedown(ad) ==
  /\ adStatus[ad] \in {"active", "expired"}
  /\ ad \notin takedown
  /\ takedown' = takedown \cup {ad}
  /\ Publish(ad, "blocked")
  /\ UNCHANGED adStatus

Block(ad) ==
  /\ ad \in takedown
  /\ takedown' = takedown \ {ad}
  /\ adStatus' \in {adStatus, [adStatus EXCEPT ![ad] = IF @ = "deleted" THEN @ ELSE "blocked"]}
  /\ UNCHANGED bus

Delete(ad) ==
  /\ adStatus[ad] # "deleted"
  /\ adStatus' = [adStatus EXCEPT ![ad] = "deleted"]
  /\ Publish(ad, "deleted")
  /\ UNCHANGED takedown

Listing(ad) ==
  /\ Expire(ad) \/ Renew(ad) \/ Takedown(ad) \/ Block(ad) \/ Delete(ad)
  /\ UNCHANGED <<walletVars, promos, spent, saga, worker, outbox, now, marks>>

(* A day goes by.  Requests and handlers take milliseconds: none is half   *)
(* way when the day ends.                                                  *)
Tick ==
  /\ now < MaxTime
  /\ \A r \in Request : ~InFlight(r)
  /\ \A w \in Worker : worker[w] = Idle
  /\ now' = now + 1
  /\ spent' = [i \in DOMAIN spent |->
       IF promos[i].status = "active" /\ spent[i].served < spent[i].term
       THEN [spent[i] EXCEPT !.served = @ + 1] ELSE spent[i]]
  /\ UNCHANGED <<walletVars, promos, saga, worker, outbox, listingVars, marks>>

PromotionsNext ==
  \/ \E u \in User : Topup(u)
  \/ \E r \in Request :
       \/ \E ad \in Ad, plan \in Plan : ReadAd(r, ad, plan)
       \/ Debit(r) \/ Activate(r) \/ ActivationFails(r) \/ Compensate(r) \/ Crash(r)
  \/ \E w \in Worker :
       \/ \E e \in bus : \/ Suspend(w, e) \/ ListToResume(w, e) \/ ListToRefund(w, e)
                         \/ NothingToDo(w, e) \/ DeadLetter(w, e)
       \/ ResumePromotions(w) \/ RefundPromotions(w) \/ GiveBack(w)
  \/ \E ad \in Ad : Listing(ad)
  \/ Tick

PromotionsSpec == PromotionsInit /\ [][PromotionsNext]_promotionVars

-----------------------------------------------------------------------------
(* What the ledger, the rows and the purchases say of an ad: each element  *)
(* counts with its amount if it qualifies, and with 0 otherwise.           *)
OpAmounts(ad, kind) ==
  [i \in DOMAIN ledger |->
     IF ledger[i].ref = ad /\ ledger[i].kind = kind THEN ledger[i].amount ELSE 0]

RowAmounts(ad, statuses) ==
  [i \in DOMAIN promos |-> IF i \in RowsOf(ad, statuses) THEN promos[i].amount ELSE 0]

SagaAmounts(ad, stages) ==
  [r \in Started |->
     IF saga[r].ad = ad /\ saga[r].at \in stages THEN saga[r].plan.amount ELSE 0]

OpSum(ad, kind) == SumFunctionOnSet(OpAmounts(ad, kind), DOMAIN ledger)

RowSum(ad, statuses) == SumFunctionOnSet(RowAmounts(ad, statuses), DOMAIN promos)

SagaSum(ad, stages) == SumFunctionOnSet(SagaAmounts(ad, stages), Started)

(* Days a row has been sold and that have not been served yet.             *)
Unused(i) == spent[i].term - spent[i].served

(* What a row says is left of its term is what has not been served: no     *)
(* order of expiries, renewals, duplicate or lost events makes an owner    *)
(* lose paid days while the service is frozen, nor gain any.               *)
PaidTimeConserved ==
  \A i \in DOMAIN promos :
    LET p == promos[i] IN
      p.status \in Open /\ p.ends # Never =>
        Max({0, p.ends - (IF p.status = "suspended" THEN p.suspendedAt ELSE now)}) = Unused(i)

(* The refund of a row is never worth more than its unserved days, and     *)
(* exactly what they are worth if the row was never resumed: a resumed row *)
(* has a longer term to divide by.                                         *)
NeverOverRefunded ==
  \A ad \in Ad : \A i \in RowsOf(ad, Open) :
    LET p == promos[i]
        sold == spent[i].term IN
    /\ RefundAmount(p) * sold <= p.amount * Unused(i)
    /\ sold > 0 /\ p.ends = p.starts + sold => RefundAmount(p) = (p.amount * Unused(i)) \div sold

(* A promotion.activated event with an end announces a TOP that is active  *)
(* and ends then: what Listing and Search will show is what was paid.      *)
AnnouncedTopIsReal ==
  [][\A e \in outbox' \ outbox :
       e.subject = "promotion.activated" /\ e.value # Never =>
         \E i \in DOMAIN promos' : /\ promos'[i].ad = e.ad
                                   /\ promos'[i].service = "TOP"
                                   /\ promos'[i].status = "active"
                                   /\ promos'[i].ends = e.value]_promotionVars

(* What was taken from the wallet for an ad pays for all the rows it got,  *)
(* and beyond them only for purchases under way, compensated or lost:      *)
(* nothing is got for free and nothing is paid twice.                      *)
PurchasesAreBacked ==
  \A ad \in Ad :
    /\ RowSum(ad, PromoStatus) <= OpSum(ad, "purchase")
    /\ OpSum(ad, "purchase") <=
         RowSum(ad, PromoStatus) + SagaSum(ad, {"activate", "refund", "failed", "lost"})

(* What was given back for an ad is never more than the price of the rows  *)
(* closed by a refund and of the purchases compensated, however often the  *)
(* events of the removal are delivered.                                    *)
RefundsWithinPurchases ==
  \A ad \in Ad : OpSum(ad, "refund") <= RowSum(ad, {"refunded"}) + SagaSum(ad, {"failed"})

(* Money taken for an ad has brought its services, or been given back: the *)
(* saga leaves nothing half done but for a purchase that died, whose       *)
(* compensation failed, or whose activation was reported as failed.        *)
CompensatedOrServed ==
  \A ad \in Ad : (\A r \in hurt : saga[r].ad # ad) =>
    /\ OpSum(ad, "purchase") =
         RowSum(ad, PromoStatus) + SagaSum(ad, {"activate", "refund", "failed"})
    /\ SagaSum(ad, {"failed"}) <= OpSum(ad, "refund")

Settled ==
  /\ bus = {} /\ takedown = {}
  /\ \A r \in Request : ~InFlight(r)
  /\ \A w \in Worker : worker[w] = Idle

(* Once all is settled, an ad that was removed has no open service, in     *)
(* whatever order its events came; but for one bought while it was being   *)
(* removed, or whose removal went to the dead letters.                     *)
RemovedAdHasNoService ==
  Settled => \A ad \in Ad \ raced :
    adStatus[ad] \in {"blocked", "deleted"} => RowsOf(ad, Open) = {}

(* The money of promotions is accounted for (promotion_ad.go,              *)
(* lifecycle.go): what was taken for an ad is backed by its rows, given    *)
(* back if it brought no service, and what is given back is within what    *)
(* was paid and not served, however often events come and whatever fails.  *)
MoneyIsAccountedFor ==
  /\ PromotionsTypeOK
  /\ PurchasesAreBacked
  /\ CompensatedOrServed
  /\ RefundsWithinPurchases
  /\ NeverOverRefunded
=============================================================================
