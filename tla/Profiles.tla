------------------------------ MODULE Profiles ------------------------------
(***************************************************************************)
(* The reviews service and the user-profile service: reviews about the     *)
(* owner of an ad, the aggregate of them that user-profile keeps, profiles *)
(* and the switches of notifications.                                      *)
(*                                                                         *)
(* reviews   the rows of reviews                                           *)
(* profiles  the rows of profiles: which request wrote each field          *)
(* rated     user_ratings_cache                                            *)
(* prefs     notification_prefs, each row with the request that wrote it   *)
(*                                                                         *)
(* A transaction takes effect at its commit; a DELETE removes the rows     *)
(* that are there when it starts.                                          *)
(***************************************************************************)
EXTENDS AudienceBus, FiniteSetsExt

CONSTANTS Field, Group

(* The fields of a profile, each with the request that wrote it, if any.   *)
Row == [Field -> Request \cup {0}]

(* The lists that are put name switches, of whatever group.                *)
ASSUME ProfilesAssumption ==
  /\ None \notin Row
  /\ \A b \in Budgets : \A list \in b.lists : \A r \in list : r.enabled \in BOOLEAN

VARIABLES reviews, profiles, rated, prefs

(* History.                                                                *)
VARIABLES
  raced,    \* sellers whose aggregate two handlers had in hand at once
  unheard,  \* of each seller, the replicas, and None for the table, whose aggregate
            \* may be older than the blocking of a review
  patched,  \* the last answered patch of each field
  crossed,  \* users for whom a patch was written between a read and a write of another
  merged,   \* users for whom two PUTs of switches ran at once
  offSince  \* since when each switch is off

reviewTables == <<reviews, profiles, rated, prefs>>
reviewHistory == <<raced, unheard, patched, crossed, merged, offSince>>
profileVars == <<reviewTables, reviewHistory>>

Review == [id : Request, ad : Ad, author : User, stars : 1..5, blocked : BOOLEAN]
Switch == [group : Group, enabled : BOOLEAN, by : Request]
NewDefaultProfile == [f \in Field |-> 0]
NoRating == [count |-> 0, sum |-> 0]

ProfilesInit ==
  /\ reviews = {} /\ prefs = [u \in User |-> {}]
  /\ profiles = [u \in User |-> None] /\ rated = [u \in User |-> NoRating]
  /\ raced = {} /\ unheard = [u \in User |-> {}] /\ crossed = {} /\ merged = {}
  /\ patched = [u \in User |-> NewDefaultProfile]
  /\ offSince = [u \in User |-> [g \in Group |-> None]]

(***************************************************************************)
(* Reviews.                                                                *)
(***************************************************************************)
ListByTarget(u) == {r \in reviews : Owner(r.ad) = u /\ ~r.blocked}

AggregateRating(u) ==
  [count |-> Cardinality(ListByTarget(u)),
   sum |-> SumFunctionOnSet([r \in ListByTarget(u) |-> r.stars], ListByTarget(u))]

ValidateRating(s) == s \in 1..5

(* The ad is there and is somebody else's; the review goes to its owner.   *)
Refusal(u, a, s) ==
  {r \in {"invalid_rating", "ad_not_found", "self_review"} :
     \/ r = "invalid_rating" /\ ~ValidateRating(s)
     \/ r = "ad_not_found" /\ a \notin listing
     \/ r = "self_review" /\ Owner(a) = u}

WriteReview(q, u, a, s) ==
  /\ Fresh(q) /\ May("reviews") /\ Spend("reviews")
  /\ Turn(q, IF Refusal(u, a, s) # {} THEN Done
             ELSE [op |-> "review", step |-> "insert", ad |-> a, user |-> u, stars |-> s])
  /\ UNCHANGED <<bus, listing, now, profileVars>>

Duplicate(q) == \E r \in reviews : r.ad = req[q].ad /\ r.author = req[q].user

(* UNIQUE (ad_id, author_id): the row and its event, or neither.           *)
PostReview(q) ==
  LET r == [id |-> q, ad |-> req[q].ad, author |-> req[q].user, stars |-> req[q].stars,
            blocked |-> FALSE]
  IN
  /\ Asks(q, "review", "insert")
  /\ IF Duplicate(q) THEN UNCHANGED <<reviews, mail, posted>>
     ELSE reviews' = reviews \cup {r} /\ Post(ReviewCreated(r))
  /\ Turn(q, Done)
  /\ UNCHANGED <<dead, work, processed, listing, now, budget, profiles, rated, prefs,
                 reviewHistory>>

(* Moderation orders a review to be blocked.                               *)
OrderBlock(r) ==
  /\ r \in reviews /\ May("blocks") /\ Spend("blocks")
  /\ Post(ReviewBlocked(r.id))
  /\ UNCHANGED <<dead, work, processed, req, listing, now, profileVars>>

BlockReview(w) ==
  LET hit == {r \in reviews : r.id = work[w].event.review /\ ~r.blocked} IN
  /\ In(w, "reviews-block", "begin")
  /\ reviews' = (reviews \ hit) \cup {[r EXCEPT !.blocked = TRUE] : r \in hit}
  /\ unheard' = [u \in User |-> IF \E r \in hit : Owner(r.ad) = u THEN Replica \cup {None}
                                ELSE unheard[u]]
  /\ Go(w, "mark")
  /\ UNCHANGED <<mail, dead, processed, posted, inputs, profiles, rated, prefs,
                 raced, patched, crossed, merged, offSince>>

MarkBlocked(w) ==
  /\ In(w, "reviews-block", "mark")
  /\ Marked(w) /\ Go(w, "over")
  /\ UNCHANGED <<mail, dead, posted, inputs, profileVars>>

(***************************************************************************)
(* The aggregate that user-profile keeps.                                  *)
(***************************************************************************)
(* Mutant: an existing profile is overwritten (DO UPDATE).                 *)
EnsureOverwrites(u) == [profiles EXCEPT ![u] = NewDefaultProfile]

EnsureProfile(u) == [profiles EXCEPT ![u] = IF @ = None THEN NewDefaultProfile ELSE @]

(* GET /internal/users/{id}/rating of reviews.                             *)
GetRating(w) ==
  LET u == work[w].event.user IN
  /\ In(w, "ratings", "begin")
  /\ GoWith(w, "store", AggregateRating(u))
  /\ unheard' = [unheard EXCEPT ![u] = @ \ {w}]
  /\ UNCHANGED <<mail, dead, processed, posted, inputs, reviewTables,
                 raced, patched, crossed, merged, offSince>>

(* The profile, the aggregate and the inbox in one transaction.            *)
Storing(w, v) == v # w /\ In(v, "ratings", "store") /\ work[v].event.user = work[w].event.user

(* Mutant: a row that is there is left alone (DO NOTHING).                 *)
UpsertRatingOnce(w) ==
  LET u == work[w].event.user IN
  /\ In(w, "ratings", "store")
  /\ profiles' = EnsureProfile(u)
  /\ rated' = IF rated[u] = NoRating THEN [rated EXCEPT ![u] = work[w].read] ELSE rated
  /\ raced' = IF \E v \in Replica : Storing(w, v) THEN raced \cup {u} ELSE raced
  /\ unheard' = [unheard EXCEPT ![u] = IF w \in @ THEN @ \cup {None} ELSE @ \ {None}]
  /\ Marked(w) /\ Go(w, "over")
  /\ UNCHANGED <<mail, dead, posted, inputs, reviews, prefs, patched, crossed, merged,
                 offSince>>

UpsertRatingWithInbox(w) ==
  LET u == work[w].event.user IN
  /\ In(w, "ratings", "store")
  /\ profiles' = EnsureProfile(u)
  /\ rated' = [rated EXCEPT ![u] = work[w].read]
  /\ raced' = IF \E v \in Replica : Storing(w, v) THEN raced \cup {u} ELSE raced
  /\ unheard' = [unheard EXCEPT ![u] = IF w \in @ THEN @ \cup {None} ELSE @ \ {None}]
  /\ Marked(w) /\ Go(w, "over")
  /\ UNCHANGED <<mail, dead, posted, inputs, reviews, prefs, patched, crossed, merged,
                 offSince>>

(***************************************************************************)
(* Profiles: created by user.created or at the first use; PATCH reads the  *)
(* row, applies its field and writes the whole row.                        *)
(***************************************************************************)
(* Auth tells of a new user.                                               *)
Register(u) ==
  /\ May("users") /\ [to |-> "recipients", event |-> UserCreated(u)] \notin posted
  /\ Spend("users")
  /\ Post(UserCreated(u))
  /\ UNCHANGED <<dead, work, processed, req, listing, now, profileVars>>

CreateProfile(w) ==
  /\ In(w, "profiles", "begin")
  /\ profiles' = EnsureProfile(work[w].event.user)
  /\ Marked(w) /\ Go(w, "over")
  /\ UNCHANGED <<mail, dead, posted, inputs, reviews, rated, prefs, reviewHistory>>

UpdateMe(q, u, f) ==
  /\ Fresh(q) /\ May("patches") /\ Spend("patches")
  /\ profiles' = EnsureProfile(u)
  /\ Turn(q, [op |-> "patch", step |-> "read", user |-> u, field |-> f, row |-> None])
  /\ UNCHANGED <<bus, listing, now, reviews, rated, prefs, reviewHistory>>

Patched(row, f, q) == [row EXCEPT ![f] = q]
GetProfile(q) ==
  /\ Asks(q, "patch", "read")
  /\ Turn(q, [req[q] EXCEPT !.step = "write",
                            !.row = Patched(profiles[req[q].user], req[q].field, q)])
  /\ UNCHANGED <<bus, listing, now, budget, profileVars>>

(* The row and user.updated, which nobody consumes, in one transaction.    *)
Past(q, p) == Asks(p, "patch", "write") /\ p # q /\ req[p].user = req[q].user
UpdateProfile(q) ==
  /\ Asks(q, "patch", "write")
  /\ profiles' = [profiles EXCEPT ![req[q].user] = req[q].row]
  /\ patched' = [patched EXCEPT ![req[q].user][req[q].field] = q]
  /\ crossed' = IF \E p \in Request : Past(q, p) THEN crossed \cup {req[q].user} ELSE crossed
  /\ Turn(q, Done)
  /\ UNCHANGED <<bus, listing, now, budget, reviews, rated, prefs, raced, unheard, merged,
                 offSince>>

(***************************************************************************)
(* Switches: PUT deletes the rows and inserts those it was given.          *)
(***************************************************************************)
ValidNotificationPref(r) == r.group \in Group
Off(rows, g) == \E r \in rows : r.group = g /\ ~r.enabled
(* A group without a row is on.                                            *)
EffectivePrefs(u) == {g \in Group : ~Off(prefs[u], g)}

SetPrefs(q, u, list) ==
  /\ Fresh(q) /\ May("puts") /\ Spend("puts")
  /\ IF \A r \in list : ValidNotificationPref(r)
     THEN /\ profiles' = EnsureProfile(u)
          /\ Turn(q, [op |-> "put", step |-> "delete", user |-> u, gone |-> {},
               rows |-> {[group |-> r.group, enabled |-> r.enabled, by |-> q] : r \in list}])
     ELSE Turn(q, Done) /\ UNCHANGED profiles
  /\ UNCHANGED <<bus, listing, now, reviews, rated, prefs, reviewHistory>>

(* Mutant: the old rows are not deleted.                                   *)
DeletePrefsOmitted(q) ==
  /\ Asks(q, "put", "delete")
  /\ Turn(q, [req[q] EXCEPT !.step = "insert"])
  /\ UNCHANGED <<bus, listing, now, budget, profileVars>>

DeletePrefs(q) ==
  /\ Asks(q, "put", "delete")
  /\ Turn(q, [req[q] EXCEPT !.step = "insert", !.gone = prefs[req[q].user]])
  /\ UNCHANGED <<bus, listing, now, budget, profileVars>>

(* The rows that somebody else has committed since are still there; one of *)
(* the same group is a violation of the primary key.                       *)
Alongside(q, p) == p # q /\ Asks(p, "put", "insert") /\ req[p].user = req[q].user
InsertPrefs(q) ==
  LET u == req[q].user
      kept == prefs[u] \ req[q].gone
      clash == \E r \in kept, x \in req[q].rows : r.group = x.group
      rows == kept \cup req[q].rows
  IN
  /\ Asks(q, "put", "insert")
  /\ prefs' = IF clash THEN prefs ELSE [prefs EXCEPT ![u] = rows]
  /\ offSince' = IF clash THEN offSince ELSE
       [offSince EXCEPT ![u] = [g \in Group |->
          IF ~Off(rows, g) THEN None ELSE IF Off(prefs[u], g) THEN @[g] ELSE now]]
  /\ merged' = IF \E p \in Request : Alongside(q, p) THEN merged \cup {u} ELSE merged
  /\ Turn(q, Done)
  /\ UNCHANGED <<bus, listing, now, budget, reviews, profiles, rated, raced, unheard,
                 patched, crossed>>

ReviewRequest(q) ==
  \/ PostReview(q) \/ GetProfile(q) \/ UpdateProfile(q) \/ DeletePrefs(q) \/ InsertPrefs(q)

ReviewHandler(w) ==
  \/ BlockReview(w) \/ MarkBlocked(w) \/ GetRating(w) \/ UpsertRatingWithInbox(w)
  \/ CreateProfile(w)

(***************************************************************************)
(* Properties.                                                             *)
(***************************************************************************)
(* GET /users/{id}: not found, or the profile with the kept aggregate.     *)
PublicProfile(u) == IF profiles[u] = None THEN None ELSE [rating |-> rated[u]]

Waits(c, u) == \E m \in mail : m.to = c /\ m.event.user = u
GivenUp(c, u) == \E m \in dead : m.to = c /\ m.event.user = u

(* When no review waits to be counted, the rating a seller is shown is the *)
(* aggregate of his active reviews (user-profile worker/reviews.go), but   *)
(* for two handlers that overtook each other, a review that was blocked    *)
(* after the aggregate was read (user-profile is not told of it), and an   *)
(* event that was given up.                                                *)
QuietRatingIsExact == \A u \in User :
  /\ "ratings" \in budget.consumers
  /\ ~Waits("ratings", u) /\ ~GivenUp("ratings", u) /\ u \notin raced /\ None \notin unheard[u]
  => IF profiles[u] = None THEN AggregateRating(u) = NoRating
     ELSE PublicProfile(u).rating = AggregateRating(u)

(* Each field has the value of the last PATCH that was answered for it,    *)
(* although each writes the whole row (app/service.go UpdateMe), unless a  *)
(* PATCH was written between the read and the write of another.            *)
PatchIsKept == \A u \in User \ crossed :
  profiles[u] = IF profiles[u] = None THEN None ELSE patched[u]

(* The switches of a user are one of the sets that were put (repo/         *)
(* profile.go ReplaceNotificationPrefs), unless two PUTs ran at once.      *)
OneSetOfSwitches == \A u \in User \ merged : \A r, x \in prefs[u] : r.by = x.by
=============================================================================
