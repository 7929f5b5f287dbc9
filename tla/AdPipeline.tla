----------------------------- MODULE AdPipeline -----------------------------
(***************************************************************************)
(* Listing, Moderation and Search together: an ad from its draft over the  *)
(* check of its content to the index, through the events the three send    *)
(* each other, with calls of the owner, reports, takedowns, expiry, paid   *)
(* promotion, and restarts of the services in between.                     *)
(*                                                                         *)
(* reworked  ads whose content changed while a verdict on the former one   *)
(*           was still to come (history)                                   *)
(* removed   ads whose takedown Listing has handled (history)              *)
(* raced     ads whose takedown met a change of the row: the status moved  *)
(*           between its read and its write, or an edit that had read the  *)
(*           row before wrote it after (history)                           *)
(***************************************************************************)
EXTENDS AdSearch

VARIABLES reworked, removed, raced

history == <<reworked, removed, raced>>

vars == <<busVars, listingVars, moderationVars, searchVars, history>>

(* What a call in progress keeps, what a moderator has before them, and    *)
(* what a consumer has in hand.                                            *)
Call == [op   : {"edits", "submits", "closes", "renewals", "deletes"},
         ad   : Ad,
         read : Row,
         row  : Row \cup {None}]

Screen == [ad : Ad, content : Content]

Message == [subject : ModerationSubjects \cup PromotionSubjects \cup IndexerSubjects \cup {""},
            ad      : Ad,
            arg     : Status \cup TaskStatus \cup Nat \cup {""}]

MaybeStatus == Status \cup {None}

Hand == [event  : Message,
         memory : [from : MaybeStatus, to : MaybeStatus] \cup MaybeStatus \cup Content \cup Doc]

Input == {"creates", "submits", "edits", "closes", "renewals", "deletes", "bumps", "promotions",
          "reviews", "reports", "reindexes", "ticks", "losses", "crashes"}

ASSUME PipelineAssumption ==
  /\ Ad \subseteq Nat
  /\ Lifetime \in Nat
  /\ Budgets \subseteq [Input -> Nat]
  /\ \A r \in Report : Target[r].type = "ad" => Target[r].id \in Ad
  /\ Gone # None /\ Gone \notin Row
  /\ None \notin Row \cup Doc \cup Content \cup Status \cup Task \cup ReportRow
  /\ None \notin Call \cup Screen \cup Hand

Init ==
  /\ BusInit /\ ListingInit /\ ModerationInit /\ SearchInit
  /\ reworked = {} /\ removed = {} /\ raced = {}

StatusOf(a) == IF Exists(a) THEN ads[a].status ELSE "none"

(* A verdict on what the ad says now is still to come: its task is in the  *)
(* queue, the automatic check or a moderator has that content before them, *)
(* or an approval of it is on its way to Listing.                          *)
UnderReview(a) ==
  \/ IsManual(a)
  \/ \E m \in Moderator : open[m] # None /\ open[m].ad = a
  \/ LET w == work["moderation-auto"] IN w # None /\ w.event.ad = a /\ w.memory # None
  \/ \E e \in Waiting("listing-moderation") : e.subject = "ad.approved" /\ e.ad = a
  \/ LET w == work["listing-moderation"]
     IN w # None /\ w.event.subject = "ad.approved" /\ w.event.ad = a

ContentOf(row) == IF row \in {None, Gone} THEN None ELSE row.content

NoteEdits ==
  reworked' = reworked \cup
    {a \in Ad : ads[a] # None /\ ContentOf(ads'[a]) # ContentOf(ads[a]) /\ UnderReview(a)}

NoteTakedowns ==
  LET w == work["listing-moderation"]
      ends == /\ w # None /\ work'["listing-moderation"] = None
              /\ budget'["crashes"] = budget["crashes"]    \* not by a restart
              /\ w.event.subject = "ad.blocked"
  IN /\ removed' = IF ends THEN removed \cup {w.event.ad} ELSE removed
     /\ raced' = raced
          \cup (IF ends /\ w.memory.to # None /\ StatusOf(w.event.ad) # w.memory.from
                THEN {w.event.ad} ELSE {})
          \cup {call[k].ad : k \in {j \in Connection :
                  /\ call[j] # None /\ call'[j] = None
                  /\ call[j].op = "edits"
                  /\ StatusOf(call[j].ad) = "blocked"}}

ListingConsumer ==
  \/ \E e \in Waiting("listing-moderation") : ReadDecision(e)
  \/ ApplyDecision
  \/ \E e \in Waiting("listing-promotion") : ReadPromotion(e)
  \/ \E l \in BOOLEAN : ApplyPromotion(l)

Sweeper == Sweep \/ \E a \in Ad : Expire(a) \/ ClearPromotion(a)

ModerationConsumer ==
  \/ \E e \in Waiting("moderation-auto") : ReadPending(e)
  \/ Check

Indexer ==
  \/ \E e \in Waiting("search-indexer") : ReadAd(e)
  \/ \E l \in BOOLEAN : Sync(l)

ReindexTool == BeginReindex \/ (reindex # None /\ \E p \in reindex : Reindex(p))

(* Steps of Listing and its environment leave Moderation and Search alone; *)
(* each step of the others says what it changes.                           *)
ListingStep ==
  /\ \/ OwnerStep \/ CallStep \/ ListingConsumer \/ Sweeper \/ ListingRestart
     \/ Tick
     \/ \E a \in Ad : SellTop(a)
  /\ UNCHANGED <<moderationVars, index, reindex>>
  /\ NoteOverlap

ModerationStep ==
  /\ \/ ModerationConsumer
     \/ ModerationRestart
     \/ \E m \in Moderator, a \in Ad : OpenTask(m, a)
     \/ \E m \in Moderator, s \in TaskStatus \ {"manual"} : Decide(m, s)
     \/ \E r \in Report : CreateReport(r)
     \/ \E r \in Report, x \in Action : ResolveReport(r, x)
  /\ UNCHANGED searchVars

SearchStep == Indexer \/ ReindexTool \/ SearchRestart

Next ==
  /\ ListingStep \/ ModerationStep \/ SearchStep
  /\ NoteEdits
  /\ NoteTakedowns

(* A consumer that runs takes its messages and ends with them, and so does *)
(* the reindex tool; owners, moderators and the clock owe nothing.         *)
Fairness ==
  /\ WF_vars(ListingConsumer /\ UNCHANGED <<moderationVars, index, reindex>>
               /\ NoteOverlap /\ NoteEdits /\ NoteTakedowns)
  /\ WF_vars(ModerationConsumer /\ UNCHANGED searchVars /\ NoteEdits /\ NoteTakedowns)
  /\ WF_vars(Indexer /\ NoteEdits /\ NoteTakedowns)

Spec == Init /\ [][Next]_vars /\ Fairness

(***************************************************************************)
(* Properties.                                                             *)
(***************************************************************************)
TypeOK ==
  /\ ads \in [Ad -> Row \cup {None, Gone}]
  /\ tasks \in [Ad -> Task \cup {None}]
  /\ reports \in [Report -> ReportRow \cup {None}]
  /\ index \in [Ad -> Doc \cup {None}]
  /\ \A c \in Consumer : IsABag(queue[c])

(* An ad that is on the site says what the automatic check, or a moderator *)
(* who saw it, found good: whatever the order in which the owner edits and *)
(* the verdicts arrive.  The one way round it is an edit while a verdict   *)
(* on the former content is still to come: verdicts name the ad, not what  *)
(* it said (DecideWithEvent, applyModeration), and apply to the new one.   *)
ActiveContentWasChecked ==
  \A a \in Ad : Exists(a) /\ ads[a].status = "active" =>
    ads[a].content \in checked[a] \/ a \in reworked

(* A takedown that Listing has handled holds, unless it met a change of    *)
(* the row: no submission, renewal, verdict, expiry or promotion brings    *)
(* the ad back (domain.transitions, Editable, the guarded UPDATEs).        *)
TakedownHoldsUnlessRaced ==
  \A a \in removed \ raced : Exists(a) => ads[a].status = "blocked"

(* Each time an ad comes before Moderation it gets one verdict at most,    *)
(* although two moderators may have it on their screens, and a check of a  *)
(* later content may have put a new task in its place.                     *)
OneVerdictPerTask == \A a \in Ad : verdicts[a] <= 1

(* Nothing is forgotten: an ad that is pending while no message about it   *)
(* is on its way is in the queue of moderators.                            *)
PendingIsBeingReviewed ==
  \A a \in Ad :
    /\ Exists(a) /\ ads[a].status = "pending"
    /\ \A c \in {"listing-moderation", "moderation-auto"} : Quiet(c)
    => IsManual(a)

(* When the indexer has nothing left to do, a document is in the index     *)
(* exactly for the ads that are active, and it is the row: every change    *)
(* that a document shows has an event that the indexer takes, and of two   *)
(* reads the later one is written last.  An ad that changes while the      *)
(* reindex tool holds a copy of it is excepted.                            *)
QuietIndexIsExact ==
  Quiet("search-indexer") =>
    \A a \in Ad \ overlap : index[a] = Projection(a)

(* Only a lifetime that is over ends an ad: a renewal that arrives after   *)
(* the sweeper has read the ad saves it (ExpireWithEvent).                 *)
ExpiryRespectsRenewal ==
  [][\A a \in Ad :
       Exists(a) /\ ads[a].status = "active"
         /\ ads'[a] \notin {None, Gone} /\ ads'[a].status = "expired"
       => ads[a].expires # Never /\ ads[a].expires <= now]_vars

(* The TOP of an ad is not cut short by anything but another activation:   *)
(* not by the sweeper that read an earlier end, nor by edits, verdicts,    *)
(* renewals and expiry (ClearPromotionWithEvent, UpdateWithEvent).         *)
TopCutOnlyByActivation ==
  [][\A a \in Ad :
       Exists(a) /\ ads[a].top /\ ads[a].ends > now /\ ads'[a] \notin {None, Gone}
         /\ (~ads'[a].top \/ ads'[a].ends < ads[a].ends)
       => /\ work["listing-promotion"] # None
          /\ work'["listing-promotion"] = None
          /\ ads'[a].ends = work["listing-promotion"].event.arg]_vars

(* What the owners and moderators have done shows in the index in the end. *)
IndexConverges ==
  \A a \in Ad : <>[](a \in overlap \/ index[a] = Projection(a))

(* A takedown that a moderator decided on is handled by Listing, whatever  *)
(* restarts come in between, unless the owner has deleted the ad.          *)
TakedownReachesTheAd ==
  \A r \in Report :
    reports[r] # None /\ reports[r].resolution = "takedown"
      ~> Target[r].id \in removed \/ ~Exists(Target[r].id)

(* The review of ads is sound (moderator.go, repo/moderation.go): what is  *)
(* on the site was found good, each task gets one verdict, and none is     *)
(* forgotten.                                                              *)
ReviewIsSound ==
  /\ TypeOK
  /\ ActiveContentWasChecked
  /\ OneVerdictPerTask
  /\ PendingIsBeingReviewed

(* What was paid for or renewed is not cut short by a sweep or a write     *)
(* that read an earlier end (expiry.go, repo/ad.go).                       *)
EndsAreRespected == ExpiryRespectsRenewal /\ TopCutOnlyByActivation

(* What was decided arrives, at the ad and in the index                    *)
(* (worker/moderation.go, indexer.go).                                     *)
DecisionsArrive == TakedownReachesTheAd /\ IndexConverges
=============================================================================
