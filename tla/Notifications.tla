--------------------------- MODULE Notifications ---------------------------
(***************************************************************************)
(* The notification service: the projection of recipients, the cache of    *)
(* their switches, the journal of notifications and the calls of the       *)
(* Telegram Bot API.  It reads the switches of Profiles.                   *)
(*                                                                         *)
(* recipients  the rows of recipients                                      *)
(* notes       the rows of notifications by event                          *)
(* cache       of each replica, what it knows of the switches of a user    *)
(* channel     whether a bot token is configured                           *)
(***************************************************************************)
EXTENDS Profiles

CONSTANTS CacheTTL

ASSUME CacheAssumption ==
  CacheTTL \in Nat /\ {"review", "saved_search", "ad_status"} \subseteq Group

VARIABLES recipients, notes, cache, channel

(* History.                                                                *)
VARIABLES
  sent,       \* how often Telegram accepted the message of an event
  disturbed,  \* events whose delivery was cut off, or in hand twice
  abandoned   \* events that were begun, and skipped at a later delivery

noteTables == <<recipients, notes, cache, channel>>
noteHistory == <<sent, disturbed, abandoned>>
noteVars == <<noteTables, noteHistory>>

Unknown == [off |-> {}, until |-> 0]

NotesInit ==
  /\ recipients = {} /\ notes = <<>> /\ channel = budget.channel
  /\ cache = [w \in Replica |-> [u \in User |-> Unknown]]
  /\ sent = <<>> /\ disturbed = {} /\ abandoned = {}

(* domain.PrefGroup: the switch of an event.                               *)
PrefGroup(e) == CASE e.type = "review.created" -> "review"
                  [] e.type = "saved_search.matched" -> "saved_search"
                  [] e.type = "ad.approved" -> "ad_status"

UpsertRecipient(w) ==
  /\ In(w, "recipients", "begin")
  /\ recipients' = recipients \cup {work[w].event.user}
  /\ Go(w, "over")
  /\ UNCHANGED <<mail, dead, processed, posted, inputs, profileVars, notes, cache, channel,
                 noteHistory>>

Known(u) == u \in recipients

(***************************************************************************)
(* Handle, statement by statement.                                         *)
(***************************************************************************)
(* Mutant: an event for an unknown recipient is dropped.                   *)
DropUnknown(w) ==
  /\ In(w, "delivery", "begin")
  /\ Go(w, IF ~channel THEN "skip"
           ELSE IF Known(work[w].event.user) THEN "prefs" ELSE "over")
  /\ UNCHANGED <<mail, dead, processed, posted, inputs, profileVars, noteVars>>

(* Without a bot the event is skipped; an unknown recipient is an error,   *)
(* since user.created may still come.                                      *)
GetRecipient(w) ==
  /\ In(w, "delivery", "begin")
  /\ IF channel /\ ~Known(work[w].event.user) THEN LetGo(w)
     ELSE Go(w, IF channel THEN "prefs" ELSE "skip") /\ UNCHANGED <<mail, dead, processed, posted>>
  /\ UNCHANGED <<inputs, profileVars, noteVars>>

(* The cache of switches.                                                  *)
Decided(off, e) == IF PrefGroup(e) \in off THEN "skip" ELSE "register"
Cached(w) == cache[w][work[w].event.user]

LookUp(w) ==
  /\ In(w, "delivery", "prefs")
  /\ IF now < Cached(w).until THEN Go(w, Decided(Cached(w).off, work[w].event))
     ELSE GoWith(w, "fetch", [asked |-> now, off |-> {}])
  /\ UNCHANGED <<mail, dead, processed, posted, inputs, profileVars, noteVars>>

(* GET /internal/users/{id}/notification-prefs of user-profile.            *)
Fetch(w) ==
  /\ In(w, "delivery", "fetch")
  /\ GoWith(w, "answer", [work[w].read EXCEPT !.off = Group \ EffectivePrefs(work[w].event.user)])
  /\ UNCHANGED <<mail, dead, processed, posted, inputs, profileVars, noteVars>>

(* Mutant: the time to live counts from the answer.                        *)
RememberFromAnswer(w) ==
  /\ In(w, "delivery", "answer")
  /\ cache' = [cache EXCEPT ![w][work[w].event.user] =
                 [off |-> work[w].read.off, until |-> now + CacheTTL]]
  /\ GoWith(w, Decided(work[w].read.off, work[w].event), None)
  /\ UNCHANGED <<mail, dead, processed, posted, inputs, profileVars, recipients, notes,
                 channel, noteHistory>>

(* The time to live counts from before the request.                        *)
Remember(w) ==
  /\ In(w, "delivery", "answer")
  /\ cache' = [cache EXCEPT ![w][work[w].event.user] =
                 [off |-> work[w].read.off, until |-> work[w].read.asked + CacheTTL]]
  /\ GoWith(w, Decided(work[w].read.off, work[w].event), None)
  /\ UNCHANGED <<mail, dead, processed, posted, inputs, profileVars, recipients, notes,
                 channel, noteHistory>>

(* The journal: one row for an event.                                      *)
Begun(e) == e \in DOMAIN notes
Noted(e, status) ==
  notes' = [x \in DOMAIN notes \cup {e} |-> IF x = e THEN status ELSE notes[x]]

RecordSkipped(w) ==
  LET e == work[w].event IN
  /\ In(w, "delivery", "skip")
  /\ IF Begun(e) THEN UNCHANGED notes ELSE Noted(e, "skipped")
  /\ abandoned' = IF Begun(e) THEN abandoned \cup {e} ELSE abandoned
  /\ Go(w, "over")
  /\ UNCHANGED <<mail, dead, processed, posted, inputs, profileVars, recipients, cache,
                 channel, sent, disturbed>>

(* Mutant: the status that the statement returns is not looked at.         *)
BeginAlways(w) ==
  LET e == work[w].event IN
  /\ In(w, "delivery", "register")
  /\ IF Begun(e) THEN UNCHANGED notes ELSE Noted(e, "pending")
  /\ Go(w, "send")
  /\ UNCHANGED <<mail, dead, processed, posted, inputs, profileVars, recipients, cache,
                 channel, noteHistory>>

BeginDelivery(w) ==
  LET e == work[w].event IN
  /\ In(w, "delivery", "register")
  /\ IF Begun(e) THEN UNCHANGED notes ELSE Noted(e, "pending")
  /\ Go(w, IF Begun(e) /\ notes[e] # "pending" THEN "over" ELSE "send")
  /\ UNCHANGED <<mail, dead, processed, posted, inputs, profileVars, recipients, cache,
                 channel, noteHistory>>

(* sendMessage: accepted; refused for good (a 4xx but 429); or to be tried *)
(* again (429, 5xx, the network), which Telegram may have accepted.        *)
Times(e) == IF e \in DOMAIN sent THEN sent[e] ELSE 0
Accepted(e) ==
  sent' = [x \in DOMAIN sent \cup {e} |-> IF x = e THEN Times(e) + 1 ELSE sent[x]]
Outcome(w, status) == GoWith(w, "mark", status)

Send(w) ==
  /\ In(w, "delivery", "send")
  /\ Accepted(work[w].event) /\ Outcome(w, "sent")
  /\ UNCHANGED <<mail, dead, processed, posted, inputs, profileVars, noteTables, disturbed,
                 abandoned>>

SendRefused(w) ==
  /\ In(w, "delivery", "send") /\ May("failures") /\ Spend("failures")
  /\ Outcome(w, "failed")
  /\ UNCHANGED <<mail, dead, processed, posted, req, listing, now, profileVars, noteTables,
                 noteHistory>>

SendAgainLater(w) ==
  /\ In(w, "delivery", "send") /\ May("failures") /\ Spend("failures")
  /\ Accepted(work[w].event) \/ UNCHANGED sent
  /\ disturbed' = disturbed \cup {work[w].event}
  /\ LetGo(w)
  /\ UNCHANGED <<req, listing, now, profileVars, noteTables, abandoned>>

(* MarkSent, MarkFailed: whatever the status is by now.                    *)
Mark(w) ==
  /\ In(w, "delivery", "mark")
  /\ Noted(work[w].event, work[w].read)
  /\ Go(w, "over")
  /\ UNCHANGED <<mail, dead, processed, posted, inputs, profileVars, recipients, cache,
                 channel, noteHistory>>

NoteHandler(w) ==
  \/ UpsertRecipient(w) \/ GetRecipient(w) \/ LookUp(w) \/ Fetch(w) \/ Remember(w)
  \/ RecordSkipped(w) \/ BeginDelivery(w) \/ Send(w) \/ Mark(w)

(* A message is taken, or a handler is cut off: what that means for the    *)
(* delivery of a notification.  A replica that dies forgets its cache.     *)
NotesGiven(m) ==
  /\ disturbed' = IF InHand(m) = {} THEN disturbed ELSE disturbed \cup {m.event}
  /\ UNCHANGED <<noteTables, sent, abandoned>>

NotesBroken(w) ==
  /\ disturbed' = IF In(w, "delivery", "send") \/ In(w, "delivery", "mark")
                  THEN disturbed \cup {work[w].event} ELSE disturbed
  /\ cache' \in {cache, [cache EXCEPT ![w] = [u \in User |-> Unknown]]}
  /\ UNCHANGED <<recipients, notes, channel, sent, abandoned>>

(***************************************************************************)
(* Properties.                                                             *)
(***************************************************************************)
(* An event is sent to Telegram more than once only if a delivery of it    *)
(* was cut off between the registration and the mark, or two replicas had  *)
(* it in hand (notify/handler.go Handle, BeginDelivery): a lost            *)
(* acknowledgement or a failure anywhere else repeats nothing.             *)
RepeatedOnlyIfDisturbed == \A e \in DOMAIN sent : sent[e] > 1 => e \in disturbed

(* GET /notifications: the journal of a user.                              *)
ListByUser(u) == {e \in DOMAIN notes : e.user = u}

(* An event that the consumer is done with has come to an end in the       *)
(* journal (notify/handler.go): sent, failed or skipped; or else it was    *)
(* begun before the user switched its group off, and stays pending         *)
(* (RecordSkipped leaves a row that is there alone).                       *)
NothingIsForgotten == \A p \in posted :
  /\ p.to = "delivery" /\ p \notin dead
  /\ \A m \in mail : Key(m) # p
  => /\ p.event \in ListByUser(p.event.user)
     /\ notes[p.event] = "pending" => p.event \in abandoned

(* A cached switch is at most CacheTTL old: nothing is registered for      *)
(* delivery on the word of the cache when its group has been off for that  *)
(* long (prefs/client.go load).                                            *)
FromCache(w) ==
  In(w, "delivery", "prefs") /\ work'[w].op = "handle" /\ work'[w].step = "register"
SwitchesAreObeyed == [][\A w \in Replica : FromCache(w) =>
  LET off == offSince[work[w].event.user][PrefGroup(work[w].event)]
  IN  off = None \/ now < off + CacheTTL]_<<work, offSince, now>>

(* The journal tells the truth about what was sent, and no event is left   *)
(* out of it (notify/handler.go).                                          *)
NotificationsAreTrue == RepeatedOnlyIfDisturbed /\ NothingIsForgotten
=============================================================================
