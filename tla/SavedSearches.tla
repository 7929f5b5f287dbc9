--------------------------- MODULE SavedSearches ---------------------------
(***************************************************************************)
(* The favorites-savedsearch service: favorites, saved searches, and the   *)
(* matcher that tells their owners of ads that have been approved.         *)
(*                                                                         *)
(* favorites   the rows <<user, ad>> of favorites                          *)
(* searches    the rows of saved_searches                                  *)
(* matches     the rows <<search, ad>> of saved_search_matches             *)
(* ads         what Listing says of each ad: a category and a text         *)
(***************************************************************************)
EXTENDS AudienceBus

CONSTANTS Category, Text, Every, AdView(_), MaxSavedSearches, Throttle

VARIABLES favorites, searches, matches

(* History.                                                                *)
VARIABLES
  told,     \* the saved_search.matched events: search, ad and time
  crowded,  \* users for whom two searches were being created at once
  late,     \* favorites of an ad that were added when its deletion was handled
  excused   \* <<search, ad>>: the search is younger than an approval of the ad, or a
            \* matcher found the ad deleted

searchTables == <<favorites, searches, matches>>
searchHistory == <<told, crowded, late, excused>>
searchVars == <<searchTables, searchHistory>>

Query == [category : Category \cup {Every}, text : Text \cup {Every}]
ASSUME SearchAssumption ==
  /\ MaxSavedSearches \in Nat /\ Throttle \in Nat
  /\ \A b \in Budgets : b.queries \subseteq Query

SearchesInit ==
  /\ favorites = {} /\ searches = {} /\ matches = {}
  /\ told = {} /\ crowded = {} /\ late = {} /\ excused = {}

(***************************************************************************)
(* Favorites: an INSERT that does nothing to a row that is there, without  *)
(* a look at the ad; a DELETE.                                             *)
(***************************************************************************)
AddFavorite(u, a) ==
  /\ May("favorites") /\ Spend("favorites")
  /\ favorites' = favorites \cup {<<u, a>>}
  /\ late' = IF a \notin listing THEN late \cup {<<u, a>>} ELSE late
  /\ UNCHANGED <<bus, req, listing, now, searches, matches, told, crowded, excused>>

RemoveFavorite(u, a) ==
  /\ <<u, a>> \in favorites /\ May("removals") /\ Spend("removals")
  /\ favorites' = favorites \ {<<u, a>>}
  /\ UNCHANGED <<bus, req, listing, now, searches, matches, searchHistory>>

(* Listing deletes an ad, or it is approved.                               *)
DeleteAd(a) ==
  /\ a \in listing /\ May("deletions") /\ Spend("deletions")
  /\ listing' = listing \ {a}
  /\ Post(AdDeleted(a))
  /\ UNCHANGED <<dead, work, processed, req, now, searchVars>>

Approve(a) ==
  /\ a \in listing /\ May("approvals") /\ Spend("approvals")
  /\ Post(AdApproved(a, budget.approvals))
  /\ UNCHANGED <<dead, work, processed, req, listing, now, searchVars>>

(* Mutant: the user of the event is taken for the owner of the favorites.  *)
RemoveOwnByAd(w) ==
  /\ In(w, "favorites", "begin")
  /\ favorites' = favorites \ {<<work[w].event.user, work[w].event.ad>>}
  /\ Go(w, "over")
  /\ UNCHANGED <<mail, dead, processed, posted, inputs, searches, matches, searchHistory>>

RemoveByAd(w) ==
  /\ In(w, "favorites", "begin")
  /\ favorites' = {f \in favorites : f[2] # work[w].event.ad}
  /\ Go(w, "over")
  /\ UNCHANGED <<mail, dead, processed, posted, inputs, searches, matches, searchHistory>>

(***************************************************************************)
(* Saved searches: the limit is looked at before the row is inserted.      *)
(***************************************************************************)
OfUser(u) == {s \in searches : s.user = u}

(* Mutant: the limit is compared with the wrong bound.                     *)
CountOneTooMany(q, u, query) ==
  /\ Fresh(q) /\ May("searches") /\ Spend("searches")
  /\ Turn(q, IF Cardinality(OfUser(u)) > MaxSavedSearches THEN Done
             ELSE [op |-> "search", step |-> "insert", user |-> u, query |-> query])
  /\ UNCHANGED <<bus, listing, now, searchVars>>

CountSavedSearches(q, u, query) ==
  /\ Fresh(q) /\ May("searches") /\ Spend("searches")
  /\ Turn(q, IF Cardinality(OfUser(u)) >= MaxSavedSearches THEN Done
             ELSE [op |-> "search", step |-> "insert", user |-> u, query |-> query])
  /\ UNCHANGED <<bus, listing, now, searchVars>>

Creating(q, p) == p # q /\ Asks(p, "search", "insert") /\ req[p].user = req[q].user

CreateSavedSearch(q) ==
  /\ Asks(q, "search", "insert")
  /\ searches' = searches \cup
       {[id |-> q, user |-> req[q].user, query |-> req[q].query, notified |-> None]}
  /\ crowded' = IF \E p \in Request : Creating(q, p) THEN crowded \cup {req[q].user} ELSE crowded
  /\ excused' = excused \cup {<<q, e.event.ad>> : e \in {x \in posted : x.to = "matcher"}}
  /\ Turn(q, Done)
  /\ UNCHANGED <<bus, listing, now, budget, favorites, matches, told, late>>

(* The matches of the search go with it (ON DELETE CASCADE).               *)
DeleteSavedSearch(s) ==
  /\ s \in searches /\ May("removals") /\ Spend("removals")
  /\ searches' = searches \ {s}
  /\ matches' = {m \in matches : m[1] # s.id}
  /\ UNCHANGED <<bus, req, listing, now, favorites, searchHistory>>

(***************************************************************************)
(* The matcher: reads the ad, the searches whose category and region       *)
(* agree, and goes through those that match, a transaction for each.       *)
(***************************************************************************)
Agrees(wanted, value) == wanted \in {Every, value}
(* Mutant: a search for any category is no candidate (no IS NULL).         *)
CandidatesOfCategory(a) == {s \in searches : s.query.category = AdView(a).category}

Candidates(a) == {s \in searches : Agrees(s.query.category, AdView(a).category)}
Matches(query, a) ==
  /\ Agrees(query.category, AdView(a).category)
  /\ Agrees(query.text, AdView(a).text)

AdFound(a) == a \in listing
FindMatches(w) ==
  LET a == work[w].event.ad
      found == {s.id : s \in {c \in Candidates(a) : Matches(c.query, a)}}
  IN
  /\ In(w, "matcher", "begin")
  /\ IF AdFound(a) /\ found # {} THEN GoWith(w, "record", found) ELSE GoWith(w, "over", {})
  /\ excused' = excused \cup IF AdFound(a) THEN {} ELSE {<<s.id, a>> : s \in searches}
  /\ UNCHANGED <<mail, dead, processed, posted, inputs, searchTables, told, crowded, late>>

(* RecordMatchWithEvent: a pair that is known is passed over; one that     *)
(* comes too soon after the last alert is recorded and not told.  A search *)
(* that has been deleted violates the foreign key, and the handler fails.  *)
Soon(s) == s.notified # None /\ s.notified + Throttle > now
SearchOf(id) == {s \in searches : s.id = id}
NextMatch(w, id) ==
  GoWith(w, IF work[w].read = {id} THEN "over" ELSE "record", work[w].read \ {id})

Alert(s, a) ==
  /\ searches' = (searches \ {s}) \cup {[s EXCEPT !.notified = now]}
  /\ told' = told \cup {[search |-> s.id, ad |-> a, at |-> now, nth |-> Cardinality(told)]}
  /\ Post(Matched(s, a, Cardinality(told)))

(* Mutant: the handler looks whether the pair is known before the          *)
(* transaction, and the insertion does nothing about it.                   *)
RecordMatchBlindly(w, id) ==
  LET a == work[w].event.ad IN
  /\ In(w, "matcher", "record") /\ id \in work[w].read
  /\ \E s \in SearchOf(id) :
       /\ matches' = matches \cup {<<id, a>>}
       /\ IF ~Soon(s) THEN Alert(s, a) ELSE UNCHANGED <<searches, told, mail, posted>>
  /\ NextMatch(w, id)
  /\ UNCHANGED <<dead, processed, inputs, favorites, crowded, late, excused>>

RecordMatch(w, id) ==
  LET a == work[w].event.ad IN
  /\ In(w, "matcher", "record") /\ id \in work[w].read
  /\ \E s \in SearchOf(id) :
       /\ matches' = matches \cup {<<id, a>>}
       /\ IF <<id, a>> \notin matches /\ ~Soon(s) THEN Alert(s, a)
          ELSE UNCHANGED <<searches, told, mail, posted>>
  /\ NextMatch(w, id)
  /\ UNCHANGED <<dead, processed, inputs, favorites, crowded, late, excused>>

RecordFails(w, id) ==
  /\ In(w, "matcher", "record") /\ id \in work[w].read /\ SearchOf(id) = {}
  /\ LetGo(w)
  /\ UNCHANGED <<inputs, searchVars>>

SearchRequest(q) == CreateSavedSearch(q)

SearchHandler(w) ==
  \/ RemoveByAd(w) \/ FindMatches(w)
  \/ \E id \in Request : RecordMatch(w, id) \/ RecordFails(w, id)

(***************************************************************************)
(* Properties.                                                             *)
(***************************************************************************)
(* A pair of a search and an ad is told of at most once, and two alerts of *)
(* a search are at least Throttle apart (repo/savedsearch.go               *)
(* RecordMatchWithEvent), whatever is redelivered or runs at once.         *)
AlertsAreRare == \A x, y \in told : x # y /\ x.search = y.search =>
  x.ad # y.ad /\ (x.at >= y.at + Throttle \/ y.at >= x.at + Throttle)

(* Events that a consumer has acknowledged.                                *)
Handled(c, e) ==
  e.to = c /\ e \notin dead /\ \A m \in mail : Key(m) # e

(* A search that was there before an approval, and matches the ad, has the *)
(* match on record when the event is acknowledged (matcher.go Handle),     *)
(* even if the handler failed in the middle of its loop.                   *)
NoMatchIsMissed == \A e \in posted, s \in searches : Handled("matcher", e) =>
  \/ <<s.id, e.event.ad>> \in matches \cup excused
  \/ ~Matches(s.query, e.event.ad)

(* GET /favorites.                                                         *)
ListFavorites(u) == {f[2] : f \in {x \in favorites : x[1] = u}}

(* The favorites of a deleted ad are gone when its deletion has been       *)
(* handled (worker/addeleted.go), but for those added after the deletion:  *)
(* nothing looks at the ad when a favorite is added (app/service.go Add).  *)
FavoritesFollowAds == \A e \in posted, u \in User :
  Handled("favorites", e) /\ e.event.ad \in ListFavorites(u) => <<u, e.event.ad>> \in late

(* A user has at most MaxSavedSearches searches (app/savedsearch.go        *)
(* Create), unless two of them were being created at once.                 *)
LimitOfSearches == \A u \in User \ crowded : Cardinality(OfUser(u)) <= MaxSavedSearches

(* A saved search tells of every ad that matches, of each once and seldom; *)
(* favorites go with their ads; and nobody has more searches than he may.  *)
SearchesAreTrue ==
  /\ AlertsAreRare
  /\ NoMatchIsMissed
  /\ FavoritesFollowAds
  /\ LimitOfSearches
=============================================================================
