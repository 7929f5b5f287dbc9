------------------------------ MODULE Audience ------------------------------
(***************************************************************************)
(* Reviews, user-profile, favorites-savedsearch and notification together: *)
(* a review or a match of a saved search is an event that notification     *)
(* tells its recipient of, according to the switches of user-profile.      *)
(***************************************************************************)
EXTENDS Notifications, SavedSearches

vars == <<bus, inputs, profileVars, noteVars, searchVars>>

Init == BusInit /\ ProfilesInit /\ SearchesInit /\ NotesInit

People(q) ==
  /\ \/ \E u \in budget.people, a \in Ad, s \in budget.stars : WriteReview(q, u, a, s)
     \/ \E u \in budget.people, f \in Field : UpdateMe(q, u, f)
     \/ \E u \in budget.people, list \in budget.lists : SetPrefs(q, u, list)
  /\ UNCHANGED <<noteVars, searchVars>>

Searchers(q) ==
  /\ \E u \in budget.people, query \in budget.queries : CountSavedSearches(q, u, query)
  /\ UNCHANGED <<profileVars, noteVars>>

Elsewhere ==
  \/ /\ \/ \E u \in User : Register(u)
        \/ \E r \in reviews : OrderBlock(r)
     /\ UNCHANGED <<noteVars, searchVars>>
  \/ /\ \/ \E u \in budget.people, a \in Ad : AddFavorite(u, a) \/ RemoveFavorite(u, a)
        \/ \E a \in Ad : DeleteAd(a) \/ Approve(a)
        \/ \E s \in searches : DeleteSavedSearch(s)
     /\ UNCHANGED <<profileVars, noteVars>>

RequestStep(q) ==
  \/ ReviewRequest(q) /\ UNCHANGED <<noteVars, searchVars>>
  \/ SearchRequest(q) /\ UNCHANGED <<profileVars, noteVars>>

HandlerStep(w) ==
  \/ ReviewHandler(w) /\ UNCHANGED <<noteVars, searchVars>>
  \/ SearchHandler(w) /\ UNCHANGED <<profileVars, noteVars>>
  \/ NoteHandler(w) /\ UNCHANGED searchVars
  \/ Acknowledge(w) /\ UNCHANGED <<profileVars, noteVars, searchVars>>

Taking(w, m) == Give(w, m) /\ NotesGiven(m) /\ UNCHANGED <<profileVars, searchVars>>

Faults ==
  \/ \E q \in Request : RequestFails(q) /\ UNCHANGED <<profileVars, noteVars, searchVars>>
  \/ \E w \in Replica : Break(w) /\ NotesBroken(w) /\ UNCHANGED <<profileVars, searchVars>>
  \/ \E w \in Replica : (SendRefused(w) \/ SendAgainLater(w)) /\ UNCHANGED searchVars

Time == Tick /\ UNCHANGED <<profileVars, noteVars, searchVars>>

Next ==
  \/ \E q \in Request : People(q) \/ Searchers(q) \/ RequestStep(q)
  \/ Elsewhere
  \/ \E w \in Replica : HandlerStep(w) \/ \E m \in mail : Taking(w, m)
  \/ Faults
  \/ Time

(* The handlers run, and a message that waits is given to some replica.    *)
Fairness ==
  /\ \A w \in Replica : WF_vars(HandlerStep(w))
  /\ WF_vars(\E w \in Replica, m \in mail : InHand(m) = {} /\ Taking(w, m))

Spec == Init /\ [][Next]_vars /\ Fairness

(***************************************************************************)
(* Properties.                                                             *)
(***************************************************************************)
(* The tables have the shape that the migrations give them, and a message  *)
(* is given at most MaxDeliver times.                                      *)
TypeOK ==
  /\ reviews \subseteq Review /\ DOMAIN profiles = User /\ DOMAIN rated = User
  /\ \A u \in User : prefs[u] \subseteq Switch
  /\ \A s \in searches : s.id \in Request /\ s.user \in User /\ s.query \in Query
  /\ matches \subseteq {s.id : s \in searches} \X Ad
  /\ recipients \subseteq User
  /\ \A e \in DOMAIN notes : notes[e] \in {"pending", "sent", "failed", "skipped"}
  /\ \A m \in mail : m.left \in 0..MaxDeliver

(* Every message is acknowledged or given up in the end: none is tried for *)
(* ever (natsx.Consume with MaxDeliver), and none waits for ever.          *)
MailIsEmptied == <>[](mail = {})

(* What user-profile shows is what was written: ratings, fields and        *)
(* switches, with the exceptions of the parts.                             *)
ProfilesAreTrue == TypeOK /\ QuietRatingIsExact /\ PatchIsKept /\ OneSetOfSwitches
=============================================================================
