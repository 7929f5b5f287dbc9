---------------------------- MODULE AdLifecycle ----------------------------
(***************************************************************************)
(* The write model of ads (services/listing): the calls of the owner, the  *)
(* consumers of decisions of moderation and of paid promotions, and the    *)
(* sweeper that ends what is over.                                         *)
(*                                                                         *)
(* A call of the owner reads the row of the ad, decides on what it read,   *)
(* and writes in a transaction of its own; so do the consumers and the     *)
(* sweeper.  In between, others write.  Changes of status are guarded by   *)
(* the status that was read; an edit is not, and writes every editable     *)
(* column of its copy, the status among them.                              *)
(*                                                                         *)
(* ads     the table ads, None where there is no row yet                   *)
(* call    of each connection, the call of an owner between its read and   *)
(*         its write                                                       *)
(* swept   the rows the sweeper has read and still has to end              *)
(* now     the clock                                                       *)
(* budget  how many more of each input the environment gives (a bound of   *)
(*         the model)                                                      *)
(***************************************************************************)
EXTENDS AdBus

CONSTANTS Gone,        \* in place of a row that was deleted: ids are not reused
          Connection,  \* calls of owners that may be in progress at once
          Lifetime,    \* adTTL
          Budgets      \* the bounds to start from

VARIABLES ads, call, swept, now, budget

listingVars == <<ads, call, swept, now, budget>>

Status == {"draft", "pending", "active", "rejected", "sold", "expired",
           "archived", "blocked"}

Never == 0    \* a NULL time

Row == [status : Status, content : Content, expires : Nat, bumped : Nat,
        top : BOOLEAN, ends : Nat]

Exists(a) == ads[a] \notin {None, Gone}

ListingInit ==
  /\ ads = [a \in Ad |-> None]
  /\ call = [k \in Connection |-> None]
  /\ swept = {}
  /\ now = 1
  /\ budget \in Budgets

Spend(what) ==
  /\ budget[what] > 0
  /\ budget' = [budget EXCEPT ![what] = @ - 1]

(* Whether the acknowledgement of a handler gets lost.                     *)
AckLost(lost) == IF lost THEN Spend("losses") ELSE UNCHANGED budget

(***************************************************************************)
(* The machine of the status.                                              *)
(***************************************************************************)
TransitionsReopening(s) ==    \* mutant
  CASE s = "blocked" -> {"pending"}
    [] s = "draft" -> {"pending"}
    [] s = "pending" -> {"active", "rejected"}
    [] OTHER -> {}

Transitions(s) ==
  CASE s = "draft"    -> {"pending"}
    [] s = "pending"  -> {"active", "rejected"}
    [] s = "rejected" -> {"pending"}
    [] s = "active"   -> {"sold", "expired", "archived", "pending"}
    [] s = "expired"  -> {"active"}
    [] OTHER          -> {}

CanTransitionTo(s, to) == to = "blocked" \/ to \in Transitions(s)

Editable(s) == s \in {"draft", "pending", "rejected", "active"}

(* UPDATE ads SET status ... WHERE id = $1 AND status = $from, with times  *)
(* kept where none is given: whether it matches, and the row it leaves.    *)
Matches(a, from) == Exists(a) /\ ads[a].status = from

Transitioned(a, to, expires) ==
  [ads EXCEPT ![a].status = to,
              ![a].expires = IF expires = Never THEN @ ELSE expires]

(***************************************************************************)
(* Calls of the owner.                                                     *)
(***************************************************************************)

(* POST /ads: what is posted has passed the checks of its fields; the id   *)
(* is a new one.                                                           *)
Create(a) ==
  /\ ads[a] = None
  /\ \A b \in Ad : ads[b] = None => a <= b
  /\ Spend("creates")
  /\ \E c \in Content :
       ads' = [ads EXCEPT ![a] = [status |-> "draft", content |-> c,
                                  expires |-> Never, bumped |-> Never,
                                  top |-> FALSE, ends |-> Never]]
  /\ Publish({Event("ad.created", a, "draft")})
  /\ UNCHANGED <<call, swept, now, work>>

(* The first half of a call: the row is read, and what is to be written is *)
(* decided from it.                                                        *)
Begin(k, op, a, row) ==
  /\ call[k] = None
  /\ Exists(a)
  /\ Spend(op)
  /\ call' = [call EXCEPT ![k] = [op |-> op, ad |-> a, read |-> ads[a],
                                  row |-> row]]
  /\ UNCHANGED <<ads, swept, now, busVars>>

EditedInPlace(row, content) == [row EXCEPT !.content = content]    \* mutant

(* An edit of the key fields of an active ad sends it back to moderation.  *)
Edited(row, content) ==
  [row EXCEPT !.content = content,
              !.status = IF content # row.content /\ row.status = "active"
                         THEN "pending" ELSE @]

BeginEdit(k, a) ==
  \E c \in Content :
    /\ Exists(a) /\ Editable(ads[a].status)
    /\ Begin(k, "edits", a, Edited(ads[a], c))

BeginSubmit(k, a) ==
  /\ Exists(a) /\ CanTransitionTo(ads[a].status, "pending")
  /\ Begin(k, "submits", a, [ads[a] EXCEPT !.status = "pending"])

BeginSold(k, a) ==
  /\ Exists(a) /\ CanTransitionTo(ads[a].status, "sold")
  /\ Begin(k, "closes", a, [ads[a] EXCEPT !.status = "sold"])

BeginArchive(k, a) ==
  /\ Exists(a) /\ CanTransitionTo(ads[a].status, "archived")
  /\ Begin(k, "closes", a, [ads[a] EXCEPT !.status = "archived"])

BeginRenew(k, a) ==
  /\ Exists(a) /\ ads[a].status \in {"active", "expired"}
  /\ Begin(k, "renewals", a,
           [ads[a] EXCEPT !.status = "active", !.expires = now + Lifetime])

BeginDelete(k, a) == Begin(k, "deletes", a, None)

Answered(k) == call' = [call EXCEPT ![k] = None]

(* The call fails: the row is gone, or its status is no longer the one the *)
(* transition starts from.                                                 *)
Refuse(k) ==
  /\ call[k] # None
  /\ IF call[k].op \in {"edits", "deletes"}
     THEN ~Exists(call[k].ad)
     ELSE ~Matches(call[k].ad, call[k].read.status)
  /\ Answered(k)
  /\ UNCHANGED <<ads, swept, now, budget, busVars>>

(* UpdateWithEvent: every editable column of the copy, the status among    *)
(* them, whatever has become of the row; the columns of times and of paid  *)
(* promotion are not touched.                                              *)
CommitEdit(k) ==
  LET w == call[k] IN
    /\ w # None /\ w.op = "edits" /\ Exists(w.ad)
    /\ ads' = [ads EXCEPT ![w.ad].content = w.row.content,
                          ![w.ad].status = w.row.status]
    /\ Publish({Event("ad.updated", w.ad, w.row.status)})
    /\ Answered(k)
    /\ UNCHANGED <<swept, now, budget, work>>

TransitionSubjectOwn(to) ==    \* mutant
  IF to = "archived" THEN "ad.archived" ELSE "ad.updated"

TransitionSubject(to) == IF to = "sold" THEN "ad.sold" ELSE "ad.updated"

(* TransitionWithEvent: submit, sold, archive and renew.                   *)
CommitTransition(k) ==
  LET w == call[k] IN
    /\ w # None /\ w.op \notin {"edits", "deletes"}
    /\ Matches(w.ad, w.read.status)
    /\ ads' = Transitioned(w.ad, w.row.status,
                IF w.op = "renewals" THEN w.row.expires ELSE Never)
    /\ Publish({Event(TransitionSubject(w.row.status), w.ad, w.row.status)})
    /\ Answered(k)
    /\ UNCHANGED <<swept, now, budget, work>>

CommitDelete(k) ==
  LET w == call[k] IN
    /\ w # None /\ w.op = "deletes" /\ Exists(w.ad)
    /\ ads' = [ads EXCEPT ![w.ad] = Gone]
    /\ Publish({Event("ad.deleted", w.ad, w.read.status)})
    /\ Answered(k)
    /\ UNCHANGED <<swept, now, budget, work>>

(* POST /internal/ads/{id}/bump, for the worker of Payments.               *)
Bump(a) ==
  /\ Matches(a, "active")
  /\ Spend("bumps")
  /\ ads' = [ads EXCEPT ![a].bumped = now]
  /\ Publish({Event("ad.bumped", a, "active")})
  /\ UNCHANGED <<call, swept, now, work>>

OwnerStep ==
  \/ \E a \in Ad : Create(a) \/ Bump(a)
  \/ \E k \in Connection, a \in Ad :
       \/ BeginEdit(k, a) \/ BeginSubmit(k, a) \/ BeginSold(k, a)
       \/ BeginArchive(k, a) \/ BeginRenew(k, a) \/ BeginDelete(k, a)

CallStep ==
  \E k \in Connection :
    CommitEdit(k) \/ CommitTransition(k) \/ CommitDelete(k) \/ Refuse(k)

(***************************************************************************)
(* The consumer listing-moderation.                                        *)
(***************************************************************************)

(* What the handler does with an event, from the status it has read: the   *)
(* status to go to, or None when there is nothing to do.                   *)
Plan(subject, s) ==
  CASE subject = "ad.approved" -> IF s = "pending" THEN "active" ELSE None
    [] subject = "ad.rejected" -> IF s = "pending" THEN "rejected" ELSE None
    [] subject = "ad.blocked"  -> IF s = "blocked" THEN None ELSE "blocked"

(* The handler reads the ad.                                               *)
ReadDecision(e) ==
  /\ Take("listing-moderation", e,
          [from |-> IF Exists(e.ad) THEN ads[e.ad].status ELSE None,
           to |-> IF Exists(e.ad) THEN Plan(e.subject, ads[e.ad].status)
                                  ELSE None])
  /\ UNCHANGED <<listingVars>>

(* ApplyModerationWithEvent, or MarkEventProcessed when nothing is to do:  *)
(* a row whose status has changed since is not matched, and the event is   *)
(* marked all the same.                                                    *)
ApplyDecision ==
  LET w == work["listing-moderation"]
      hit == w.memory.to # None /\ Matches(w.event.ad, w.memory.from)
  IN /\ w # None
     /\ ads' = IF hit
               THEN Transitioned(w.event.ad, w.memory.to,
                      IF w.memory.to = "active" THEN now + Lifetime ELSE Never)
               ELSE ads
     /\ Finish("listing-moderation",
               IF hit THEN {Event("ad.updated", w.event.ad, w.memory.to)} ELSE {},
               FALSE)
     /\ UNCHANGED <<call, swept, now, budget>>

(***************************************************************************)
(* The consumer listing-promotion.                                         *)
(***************************************************************************)

(* Only TOP concerns Listing; the ad is read for the event to publish.     *)
ReadPromotion(e) ==
  /\ Take("listing-promotion", e,
          IF Exists(e.ad) THEN ads[e.ad].status ELSE None)
  /\ UNCHANGED <<listingVars>>

(* SetPromotionWithEvent: the end of the event replaces the one there is.  *)
ApplyPromotion(ackLost) ==
  LET w == work["listing-promotion"]
      hit == w.memory # None /\ Matches(w.event.ad, "active")
  IN /\ w # None
     /\ ads' = IF hit
               THEN [ads EXCEPT ![w.event.ad].top = TRUE,
                                ![w.event.ad].ends = w.event.arg]
               ELSE ads
     /\ Finish("listing-promotion",
               IF hit THEN {Event("ad.updated", w.event.ad, w.memory)} ELSE {},
               ackLost)
     /\ AckLost(ackLost)
     /\ UNCHANGED <<call, swept, now>>

(* Payments sells a TOP of an ad it finds active, to end at a later time.  *)
SellTop(a) ==
  /\ Matches(a, "active")
  /\ Spend("promotions")
  /\ \E end \in (now + 1)..(now + 2) :
       Publish({Event("promotion.activated", a, end)})
  /\ UNCHANGED <<ads, call, swept, now, work>>

(***************************************************************************)
(* The sweeper.                                                            *)
(***************************************************************************)
Due(row) == row.status = "active" /\ row.expires # Never /\ row.expires <= now

PromoOver(row) == row.top /\ row.ends # Never /\ row.ends <= now

(* The UPDATEs of ExpireWithEvent and of ClearPromotionWithEvent check the *)
(* end again.                                                              *)
StillActive(row) == row.status = "active"    \* mutant
StillDue(row) == Due(row)
StillTop(row) == row.top    \* mutant
StillOver(row) == PromoOver(row)

(* ListExpired and ListExpiredPromos of one tick.                          *)
Sweep ==
  /\ swept = {}
  /\ swept' = {<<a, "expire">> : a \in {b \in Ad : Exists(b) /\ Due(ads[b])}}
      \cup {<<a, "clear">> : a \in {b \in Ad : Exists(b) /\ PromoOver(ads[b])}}
  /\ swept' # {}
  /\ UNCHANGED <<ads, call, now, budget, busVars>>

Expire(a) ==
  /\ <<a, "expire">> \in swept
  /\ swept' = swept \ {<<a, "expire">>}
  /\ IF Exists(a) /\ StillDue(ads[a])
     THEN /\ ads' = [ads EXCEPT ![a].status = "expired"]
          /\ Publish({Event("ad.expired", a, "expired")})
     ELSE UNCHANGED <<ads, queue>>
  /\ UNCHANGED <<call, now, budget, work>>

ClearPromotion(a) ==
  /\ <<a, "clear">> \in swept
  /\ swept' = swept \ {<<a, "clear">>}
  /\ IF Exists(a) /\ StillOver(ads[a])
     THEN /\ ads' = [ads EXCEPT ![a].top = FALSE, ![a].ends = Never]
          /\ Publish({Event("ad.updated", a, ads[a].status)})
     ELSE UNCHANGED <<ads, queue>>
  /\ UNCHANGED <<call, now, budget, work>>

(* The process of Listing dies: what its calls, consumers and sweeper have *)
(* read is forgotten, and the messages in hand come again.                 *)
ListingRestart ==
  /\ Spend("crashes")
  /\ call' = [k \in Connection |-> None]
  /\ swept' = {}
  /\ GiveBack({"listing-moderation", "listing-promotion"})
  /\ UNCHANGED <<ads, now>>

Tick ==
  /\ Spend("ticks")
  /\ now' = now + 1
  /\ UNCHANGED <<ads, call, swept, busVars>>

=============================================================================
