--------------------------- MODULE AudienceProofs ---------------------------
(***************************************************************************)
(* Theorems about reviews, profiles, notifications and saved searches.     *)
(*                                                                         *)
(* The properties speak of events that a consumer is through with, so the  *)
(* centre of the invariant is that a message that is neither in the mail   *)
(* nor dead is Completed: what its handler was to do is done.  A handler   *)
(* is over only when it is Completed, an acknowledgement comes from one    *)
(* that is over, and no later step undoes it.  The rest says what is true  *)
(* of the work in between: what a handler or a request has read, before it *)
(* writes what depends on it.                                              *)
(***************************************************************************)
EXTENDS Audience, SumLemmas, TLAPS

(***************************************************************************)
(* What a consumer has done when it is through with an event.              *)
(***************************************************************************)
(* The aggregate was stored.                                               *)
Counted(p) == p.to = "ratings" => p \in processed

(* The journal knows how it ended.                                         *)
Settled(p) == p.to = "delivery" =>
  /\ p.event \in DOMAIN notes
  /\ notes[p.event] = "pending" => p.event \in abandoned

(* Each search that matches the ad has its match.                          *)
Sought(p) == p.to = "matcher" => \A s \in searches :
  Matches(s.query, p.event.ad) => <<s.id, p.event.ad>> \in matches \cup excused

(* The ad is nobody's favorite but of those who were late.                 *)
Emptied(p) == p.to = "favorites" => \A u \in User :
  <<u, p.event.ad>> \in favorites => <<u, p.event.ad>> \in late

Completed(p) == Counted(p) /\ Settled(p) /\ Sought(p) /\ Emptied(p)

(***************************************************************************)
(* The bus.                                                                *)
(***************************************************************************)
(* What a message tells its consumer of.  The request that wrote a review  *)
(* is done, and an ad whose favorites are to be removed is not listed.     *)
Fits(p) ==
  /\ p = Key(p)
  /\ p.to \in {"ratings", "profiles", "recipients", "delivery"} => p.event.user \in User
  /\ p.to = "delivery" =>
       p.event.type \in {"review.created", "ad.approved", "saved_search.matched"}
  /\ p.to = "ratings" => p.event.review \in Request /\ req[p.event.review] = Done
  /\ p.to \in {"matcher", "favorites"} => p.event.ad \in Ad
  /\ p.to = "favorites" => p.event.ad \notin listing

Running(h) ==
  h = [op |-> "handle", to |-> h.to, event |-> h.event, read |-> h.read, step |-> h.step]

(* A handler has a message that was sent, and is over when it is done.     *)
WorkFits(w) == work[w] # Idle =>
  /\ Running(work[w]) /\ Key(work[w]) \in posted
  /\ work[w].step = "over" => Completed(Key(work[w]))

MailFits(m) ==
  /\ m = [to |-> m.to, event |-> m.event, left |-> m.left]
  /\ Key(m) \in posted /\ m.left \in 0..MaxDeliver

InTheMail(p) == \E m \in mail : Key(m) = p

BusInv ==
  /\ work = [w \in Replica |-> work[w]] /\ \A w \in Replica : WorkFits(w)
  /\ \A m \in mail : MailFits(m)
  /\ \A p \in posted : Fits(p)
  /\ \A p \in processed : p \in posted /\ p.to \in {"reviews-block", "ratings", "profiles"}
  /\ \A p \in posted : p \in dead \/ InTheMail(p) \/ Completed(p)

(***************************************************************************)
(* The requests and the stories.                                           *)
(***************************************************************************)
ReviewRequests == [op : {"review"}, step : {"insert"}, ad : Ad, user : User, stars : 1..5]
PatchRequests == [op : {"patch"}, step : {"read", "write"}, user : User, field : Field,
                  row : Row \cup {None}]
PutRequests == [op : {"put"}, step : {"delete", "insert"}, user : User, gone : SUBSET Switch,
                rows : SUBSET Switch]
SearchRequests == [op : {"search"}, step : {"insert"}, user : User, query : Query]
Open == ReviewRequests \cup PatchRequests \cup PutRequests \cup SearchRequests

(* A story stays what it was, whatever is spent.                           *)
StoryFits(b) ==
  /\ Story \subseteq DOMAIN b /\ b.people \subseteq User /\ b.queries \subseteq Query
  /\ \A list \in b.lists : \A r \in list : r.enabled \in BOOLEAN

InputInv == req \in [Request -> {Idle, Done} \cup Open] /\ now \in Nat /\ StoryFits(budget)

(***************************************************************************)
(* Profiles.                                                               *)
(***************************************************************************)
ProfileTables ==
  /\ reviews \subseteq Review
  /\ profiles \in [User -> Row \cup {None}]
  /\ rated = [u \in User |-> rated[u]]
  /\ prefs \in [User -> SUBSET Switch]
  /\ patched \in [User -> Row]
  /\ unheard \in [User -> SUBSET (Replica \cup {None})]
  /\ offSince \in [User -> [Group -> Nat \cup {None}]]

(* The reviews of a seller that wait to be counted.                        *)
Uncounted(u) == {p \in posted \ processed : p.to = "ratings" /\ p.event.user = u}

(* The aggregate that is kept is the one of the reviews, or one of them is *)
(* still to be counted.                                                    *)
RatingKept(u) ==
  "ratings" \in budget.consumers /\ u \notin raced /\ None \notin unheard[u]
  => rated[u] = AggregateRating(u) \/ Uncounted(u) # {}

(* So is the one that a handler is about to store, and what is still to be *)
(* counted is another review than the handler's: storing counts that one.  *)
RatingRead(w) == In(w, "ratings", "store") =>
  LET u == work[w].event.user IN
  "ratings" \in budget.consumers /\ u \notin raced /\ w \notin unheard[u]
  => work[w].read = AggregateRating(u) \/ \E p \in Uncounted(u) : p # Key(work[w])

RatingInv == (\A u \in User : RatingKept(u)) /\ (\A w \in Replica : RatingRead(w))

(* Who has no profile was neither rated nor patched.                       *)
Untouched(u) == profiles[u] = None => rated[u] = NoRating /\ patched[u] = NewDefaultProfile

PatchKept(u) == u \notin crossed => profiles[u] \in {None, patched[u]}

(* The row that a patch is about to write is the row that is there, but    *)
(* for its field; had another patch been written since, the user would be  *)
(* crossed.                                                                *)
PatchRead(q) == req[q].op = "patch" =>
  LET u == req[q].user IN
  /\ profiles[u] # None /\ (req[q].step = "write" => req[q].row # None)
  /\ req[q].step = "write" /\ u \notin crossed => req[q].row = Patched(profiles[u], req[q].field, q)

PatchInv ==
  (\A u \in User : Untouched(u) /\ PatchKept(u)) /\ (\A q \in Request : PatchRead(q))

SwitchesKept(u) == u \notin merged => \A r, x \in prefs[u] : r.by = x.by

(* A PUT that is about to insert has removed all the rows that are there.  *)
PutRead(q) == req[q].op = "put" =>
  /\ \A r \in req[q].rows : r.by = q
  /\ req[q].step = "insert" /\ req[q].user \notin merged => req[q].gone = prefs[req[q].user]

OffKept(u) == \A g \in Group : ~Off(prefs[u], g) => offSince[u][g] = None

SwitchInv ==
  (\A u \in User : SwitchesKept(u) /\ OffKept(u)) /\ (\A q \in Request : PutRead(q))

(***************************************************************************)
(* Notifications.                                                          *)
(***************************************************************************)
NoteTables ==
  /\ recipients \subseteq User
  /\ \A e \in DOMAIN notes : notes[e] \in {"pending", "sent", "failed", "skipped"}
  /\ cache = [w \in Replica |-> [u \in User |-> cache[w][u]]]

(* An event that is not disturbed is in one hand.                          *)
HeldAlone == \A w, v \in Replica :
  work[w] # Idle /\ work[v] # Idle /\ Key(work[w]) = Key(work[v]) /\ work[w].event \notin disturbed
  => w = v

Since(asked, t) == t = None \/ asked <= t

(* A handler that asks for the switches has noted when; a group that was   *)
(* on in the answer has been off, if at all, since later than that.  An    *)
(* event that is about to be sent was not sent before.                     *)
NoteRead(w) == work[w] # Idle /\ work[w].to = "delivery" =>
  LET u == work[w].event.user
      e == work[w].event
      h == work[w].read
  IN
  /\ work[w].step \in {"fetch", "answer"} =>
       h = [asked |-> h.asked, off |-> h.off] /\ h.asked \in Nat /\ h.asked <= now
  /\ work[w].step = "answer" => \A g \in Group \ h.off : Since(h.asked, offSince[u][g])
  /\ work[w].step = "send" /\ e \notin disturbed => e \notin DOMAIN sent
  /\ work[w].step = "mark" => h \in {"sent", "failed"}

(* What the cache takes for on has been off for less than CacheTTL when    *)
(* the entry ends.                                                         *)
CacheFits(w, u) ==
  /\ cache[w][u].until \in Nat /\ cache[w][u].until <= now + CacheTTL
  /\ \A g \in Group \ cache[w][u].off :
       offSince[u][g] = None \/ cache[w][u].until <= offSince[u][g] + CacheTTL

Marking(w, e) == In(w, "delivery", "mark") /\ work[w].event = e

(* An event that was sent undisturbed was sent once, and is marked or will *)
(* be: no delivery that begins later sends it.                             *)
SentFits(e) ==
  /\ sent[e] \in Nat
  /\ e \notin disturbed =>
       /\ sent[e] <= 1
       /\ \/ e \in DOMAIN notes /\ notes[e] # "pending"
          \/ \E w \in Replica : Marking(w, e)

NoteInv ==
  /\ NoteTables /\ HeldAlone
  /\ \A w \in Replica : NoteRead(w)
  /\ \A w \in Replica, u \in User : CacheFits(w, u)
  /\ \A e \in DOMAIN sent : SentFits(e)

(***************************************************************************)
(* Searches.                                                               *)
(***************************************************************************)
SearchFits(s) ==
  /\ s = [id |-> s.id, user |-> s.user, query |-> s.query, notified |-> s.notified]
  /\ s.id \in Request /\ s.user \in User /\ s.query \in Query /\ s.notified \in Nat \cup {None}
  /\ req[s.id] = Done

SearchTables ==
  /\ IsFiniteSet(searches) /\ \A s \in searches : SearchFits(s)
  /\ \A s, x \in searches : s.id = x.id => s = x
  /\ matches \subseteq {s.id : s \in searches} \X Ad
  /\ favorites \subseteq User \X Ad

(* An alert has its match on record, while its search is there, and the    *)
(* search remembers the last one.                                          *)
ToldFits(x) ==
  /\ x.search \in Request /\ req[x.search] = Done /\ x.at \in Nat
  /\ \A s \in searches : s.id = x.search =>
       <<x.search, x.ad>> \in matches /\ s.notified \in Nat /\ x.at <= s.notified

(* A search that matches is still to be gone through, or has its match.    *)
SoughtBy(w) == In(w, "matcher", "record") => \A s \in searches :
  Matches(s.query, work[w].event.ad) =>
    s.id \in work[w].read \/ <<s.id, work[w].event.ad>> \in matches \cup excused

(* There is room for the search that is about to be inserted.              *)
Room(q) == req[q].op = "search" /\ req[q].user \notin crowded
  => Cardinality(OfUser(req[q].user)) < MaxSavedSearches

SearchInv ==
  /\ SearchTables /\ AlertsAreRare /\ LimitOfSearches
  /\ \A x \in told : ToldFits(x)
  /\ \A w \in Replica : SoughtBy(w)
  /\ \A q \in Request : Room(q)

Inv ==
  /\ BusInv /\ InputInv /\ ProfileTables /\ RatingInv /\ PatchInv /\ SwitchInv
  /\ NoteInv /\ SearchInv

-----------------------------------------------------------------------------
(***************************************************************************)
(* The bus.                                                                *)
(***************************************************************************)
USE DEF bus, inputs, profileVars, reviewTables, reviewHistory, noteVars, noteTables,
        noteHistory, searchVars, searchTables, searchHistory

(* What only grows, or only shrinks.                                       *)
Advance ==
  /\ \A q \in Request : req[q] = Done => req'[q] = Done
  /\ listing' \subseteq listing
  /\ posted \subseteq posted' /\ processed \subseteq processed' /\ dead \subseteq dead'

(* What is completed stays completed.                                      *)
Stable == \A p \in posted : Completed(p) => Completed(p)'

(* A request or a handler with work to do is told apart from one without.  *)
LEMMA DoneIsNot == Done # Idle /\ Done.op = "done" /\ Idle.op = "idle"
  BY DEF Done, Idle

(* An input is spent: the story stays the same.                            *)
LEMMA Spending ==
  ASSUME StoryFits(budget), NEW i, i \notin Story, Spend(i)
  PROVE  StoryFits(budget)' /\ budget'.consumers = budget.consumers
<1>1. DOMAIN budget' = DOMAIN budget /\ \A f \in Story : budget'[f] = budget[f]
  BY DEF Spend, StoryFits
<1>2. /\ budget'.people = budget.people /\ budget'.queries = budget.queries
      /\ budget'.lists = budget.lists /\ budget'.consumers = budget.consumers
  BY <1>1 DEF Story
<1> QED
  BY <1>1, <1>2 DEF StoryFits

(* Of the bus, what each kind of step leaves to be shown.                  *)
LEMMA BusStep ==
  ASSUME BusInv, Advance, Stable,
         work' = [w \in Replica |-> work'[w]],
         \A w \in Replica : work'[w] = work[w] \/ WorkFits(w)',
         \A m \in mail' : m \in mail \/ MailFits(m)',
         \A p \in posted' : p \in posted \/ (Fits(p)' /\ InTheMail(p)'),
         \A p \in processed' : p \in processed \/
           (p \in posted /\ p.to \in {"reviews-block", "ratings", "profiles"}),
         \A p \in posted : InTheMail(p) => InTheMail(p)' \/ p \in dead' \/ Completed(p)'
  PROVE  BusInv'
<1>1. ASSUME NEW w \in Replica PROVE WorkFits(w)'
  <2>1. CASE work'[w] = work[w]
    <3>1. WorkFits(w)
      BY DEF BusInv
    <3>2. work[w] # Idle =>
            Running(work[w]) /\ Key(work[w]) \in posted
            /\ (work[w].step = "over" => Completed(Key(work[w])))
      BY <3>1 DEF WorkFits
    <3>3. work[w] # Idle /\ work[w].step = "over" => Completed(Key(work[w]))'
      <4> SUFFICES ASSUME work[w] # Idle, work[w].step = "over"
                   PROVE  Completed(Key(work[w]))'
        OBVIOUS
      <4>1. Key(work[w])' = Key(work[w])
        BY <2>1 DEF Key
      <4> QED
        BY <3>2, <4>1 DEF Stable
    <3>4. Key(work[w])' = Key(work[w])
      BY <2>1 DEF Key
    <3>5. Running(work[w])' <=> Running(work[w])
      BY <2>1 DEF Running
    <3> QED
      BY <2>1, <3>2, <3>3, <3>4, <3>5 DEF WorkFits, Advance
  <2> QED
    BY <2>1
<1>2. ASSUME NEW m \in mail' PROVE MailFits(m)'
  <2>1. m \in mail => MailFits(m)
    BY DEF BusInv
  <2> QED
    BY <2>1 DEF MailFits, Advance
<1>3. ASSUME NEW p \in posted' PROVE Fits(p)'
  <2>1. p \in posted => Fits(p)
    BY DEF BusInv
  <2>2. p \in posted /\ Fits(p) => Fits(p)'
    BY DEF Fits, Advance
  <2> QED
    BY <2>1, <2>2
<1>4. ASSUME NEW p \in processed'
      PROVE  p \in posted' /\ p.to \in {"reviews-block", "ratings", "profiles"}
  BY DEF BusInv, Advance
<1>5. ASSUME NEW p \in posted' PROVE p \in dead' \/ InTheMail(p)' \/ Completed(p)'
  <2>1. p \in posted => p \in dead \/ InTheMail(p) \/ Completed(p)
    BY DEF BusInv
  <2> QED
    BY <2>1 DEF Stable, Advance
<1> QED
  BY <1>1, <1>2, <1>3, <1>4, <1>5 DEF BusInv

(* Nothing happens on the bus.                                             *)
LEMMA BusRests ==
  ASSUME BusInv, Advance, Stable, UNCHANGED bus
  PROVE  BusInv'
<1>1. work' = [w \in Replica |-> work'[w]]
  BY DEF BusInv
<1>2. \A p \in posted : InTheMail(p) => InTheMail(p)'
  BY DEF InTheMail
<1> QED
  BY <1>1, <1>2, BusStep

(* An event is sent to its subscribers.                                    *)
LEMMA Posting ==
  ASSUME BusInv, NEW e, Post(e), \A c \in Heard(e) : Fits([to |-> c, event |-> e])'
  PROVE  /\ \A m \in mail' : m \in mail \/ MailFits(m)'
         /\ \A p \in posted' : p \in posted \/ (Fits(p)' /\ InTheMail(p)')
         /\ \A p \in posted : InTheMail(p) => InTheMail(p)'
<1> DEFINE letter(c) == [to |-> c, event |-> e]
           message(c) == [to |-> c, event |-> e, left |-> MaxDeliver]
<1>1. /\ mail' = mail \cup {message(c) : c \in Heard(e)}
      /\ posted' = posted \cup {letter(c) : c \in Heard(e)}
  BY DEF Post
<1>2. \A c : Key(message(c)) = letter(c) /\ message(c).left = MaxDeliver
             /\ message(c).to = c /\ message(c).event = e
  BY DEF Key
<1>3. ASSUME NEW m \in mail', m \notin mail PROVE MailFits(m)'
  <2>1. PICK c \in Heard(e) : m = message(c)
    BY <1>1, <1>3
  <2>2. Key(m) \in posted'
    BY <1>1, <1>2, <2>1
  <2> QED
    BY <1>2, <2>1, <2>2, BusAssumption DEF MailFits
<1>4. ASSUME NEW p \in posted', p \notin posted PROVE Fits(p)' /\ InTheMail(p)'
  <2>1. PICK c \in Heard(e) : p = letter(c)
    BY <1>1, <1>4
  <2>2. message(c) \in mail' /\ Key(message(c)) = p
    BY <1>1, <1>2, <2>1
  <2> QED
    BY <2>1, <2>2 DEF InTheMail
<1>5. \A p \in posted : InTheMail(p) => InTheMail(p)'
  BY <1>1 DEF InTheMail
<1> QED
  BY <1>3, <1>4, <1>5

(* An event is sent, and nothing else happens on the bus.                  *)
LEMMA BusPosts ==
  ASSUME BusInv, Advance, Stable, UNCHANGED <<dead, work, processed>>,
         NEW e, Post(e), \A c \in Heard(e) : Fits([to |-> c, event |-> e])'
  PROVE  BusInv'
<1>1. work' = [w \in Replica |-> work'[w]]
  BY DEF BusInv
<1> QED
  BY <1>1, Posting, BusStep

(* A handler goes on.                                                      *)
Moves(w) ==
  /\ work[w] # Idle /\ work'[w] # Idle
  /\ work' = [work EXCEPT ![w] = work'[w]]
  /\ Running(work'[w]) /\ Key(work'[w]) = Key(work[w])

(* A handler that goes on still has its message.                           *)
LEMMA MovesFits ==
  ASSUME BusInv, Advance, NEW w \in Replica, Moves(w),
         work'[w].step = "over" => Completed(Key(work[w]))'
  PROVE  WorkFits(w)' /\ work' = [v \in Replica |-> work'[v]]
         /\ \A v \in Replica \ {w} : work'[v] = work[v]
<1>1. WorkFits(w) /\ DOMAIN work = Replica
  BY DEF BusInv
<1>2. Key(work[w]) \in posted'
  BY <1>1 DEF Moves, WorkFits, Advance
<1>3. Key(work[w])' = Key(work[w])
  BY DEF Moves, Key
<1>4. work'[w].step = "over" => Completed(Key(work[w]))'
  BY <1>3
<1>5. Running(work[w])'
  BY DEF Moves, Running
<1> QED
  BY <1>1, <1>2, <1>3, <1>4, <1>5 DEF Moves, WorkFits

(* A handler goes on, and may note its message in the inbox.               *)
LEMMA BusMoves ==
  ASSUME BusInv, Advance, Stable, NEW w \in Replica, Moves(w), UNCHANGED <<mail, dead, posted>>,
         work'[w].step = "over" => Completed(Key(work[w]))',
         \/ processed' = processed
         \/ /\ processed' = processed \cup {Key(work[w])}
            /\ work[w].to \in {"reviews-block", "ratings", "profiles"}
  PROVE  BusInv'
<1>1. WorkFits(w) /\ work[w] # Idle
  BY DEF BusInv, Moves
<1>2. Key(work[w]) \in posted /\ Key(work[w]).to = work[w].to
  BY <1>1 DEF WorkFits, Key
<1>3. \A p \in processed' : p \in processed \/
        (p \in posted /\ p.to \in {"reviews-block", "ratings", "profiles"})
  BY <1>2
<1>4. \A p \in posted : InTheMail(p) => InTheMail(p)'
  BY DEF InTheMail
<1>5. WorkFits(w)' /\ work' = [v \in Replica |-> work'[v]]
      /\ \A v \in Replica \ {w} : work'[v] = work[v]
  BY MovesFits
<1> QED
  BY <1>3, <1>4, <1>5, BusStep

(* A message is taken.                                                     *)
LEMMA BusGives ==
  ASSUME BusInv, Advance, Stable, NEW w \in Replica, NEW m \in mail, Give(w, m)
  PROVE  BusInv'
<1> DEFINE n == [m EXCEPT !.left = @ - 1]
<1>0. /\ work[w] = Idle /\ m.left > 0 /\ mail' = (mail \ {m}) \cup {n}
      /\ work' = [work EXCEPT ![w] = Handler(m)] /\ UNCHANGED <<dead, processed, posted>>
  BY DEF Give
<1>1. MailFits(m) /\ work = [v \in Replica |-> work[v]]
  BY DEF BusInv
<1>2. n = [to |-> m.to, event |-> m.event, left |-> m.left - 1]
  BY <1>1 DEF MailFits
<1>3. Key(n) = Key(m)
  BY <1>2 DEF Key
<1>4. MailFits(n)'
  <2>1. m.left \in 0..MaxDeliver /\ Key(m) \in posted
    BY <1>1 DEF MailFits
  <2>2. m.left - 1 \in 0..MaxDeliver
    BY <1>0, <2>1, BusAssumption
  <2>3. n = [to |-> n.to, event |-> n.event, left |-> n.left] /\ n.left = m.left - 1
    BY <1>2
  <2> QED
    BY <1>0, <1>3, <2>1, <2>2, <2>3 DEF MailFits
<1>5. work'[w] = Handler(m) /\ (\A v \in Replica \ {w} : work'[v] = work[v])
      /\ work' = [v \in Replica |-> work'[v]]
  BY <1>0, <1>1
<1>6. WorkFits(w)'
  <2>1. Running(Handler(m)) /\ Key(Handler(m)) = Key(m)
    BY DEF Running, Handler, Key
  <2>2. Handler(m).step = "over" => Completed(Key(m))'
    <3> SUFFICES ASSUME Key(m) \in processed PROVE Completed(Key(m))'
      BY DEF Handler
    <3>1. Key(m).to \in {"reviews-block", "ratings", "profiles"} /\ Key(m) \in processed'
      BY <1>0 DEF BusInv
    <3> QED
      BY <3>1 DEF Completed, Counted, Settled, Sought, Emptied
  <2>3. Key(work[w])' = Key(m) /\ Running(work[w])' /\ Key(m) \in posted'
        /\ work'[w].step = Handler(m).step
    BY <1>0, <1>1, <1>5, <2>1 DEF Key, Running, MailFits
  <2> QED
    BY <2>2, <2>3 DEF WorkFits
<1>7. \A p \in posted : InTheMail(p) => InTheMail(p)'
  BY <1>0, <1>3 DEF InTheMail
<1> QED
  BY <1>0, <1>4, <1>5, <1>6, <1>7, BusStep

(* A replica that has nothing in hand has nothing to show.                 *)
LEMMA IdleFits == ASSUME NEW w \in Replica, work'[w] = Idle PROVE WorkFits(w)'
  BY DEF WorkFits

(* The handler of a message has done its work.                             *)
LEMMA BusAcknowledges ==
  ASSUME BusInv, Advance, Stable, NEW w \in Replica, Acknowledge(w)
  PROVE  BusInv'
<1>0. /\ work[w].op = "handle" /\ work[w].step = "over" /\ mail' = mail \ MessageOf(w)
      /\ work' = [work EXCEPT ![w] = Idle] /\ UNCHANGED <<dead, processed, posted>>
  BY DEF Acknowledge
<1>1. WorkFits(w) /\ work = [v \in Replica |-> work[v]] /\ work[w] # Idle
  BY <1>0, DoneIsNot DEF BusInv
<1>2. Completed(Key(work[w])) /\ Key(work[w]) \in posted
  BY <1>0, <1>1 DEF WorkFits
<1>3. ASSUME NEW p \in posted, InTheMail(p) PROVE InTheMail(p)' \/ Completed(p)'
  <2>1. PICK m \in mail : Key(m) = p
    BY <1>3 DEF InTheMail
  <2>2. CASE m \in MessageOf(w)
    BY <1>2, <2>1, <2>2 DEF MessageOf, InHand, Stable
  <2>3. CASE m \notin MessageOf(w)
    BY <1>0, <2>1, <2>3 DEF InTheMail
  <2> QED
    BY <2>2, <2>3
<1>4. WorkFits(w)' /\ (\A v \in Replica \ {w} : work'[v] = work[v])
      /\ work' = [v \in Replica |-> work'[v]]
  BY <1>0, <1>1, IdleFits
<1> QED
  BY <1>0, <1>3, <1>4, BusStep

(* A handler fails: a last delivery is given up.                           *)
LEMMA BusLetsGo ==
  ASSUME BusInv, Advance, Stable, NEW w \in Replica, LetGo(w)
  PROVE  BusInv'
<1> DEFINE last == {m \in MessageOf(w) : m.left = 0 /\ InHand(m) = {w}}
<1>0. /\ mail' = mail \ last /\ dead' = dead \cup {Key(m) : m \in last}
      /\ work' = [work EXCEPT ![w] = Idle] /\ UNCHANGED <<processed, posted>>
  BY DEF LetGo
<1>1. work = [v \in Replica |-> work[v]]
  BY DEF BusInv
<1>2. ASSUME NEW p \in posted, InTheMail(p) PROVE InTheMail(p)' \/ p \in dead'
  <2>1. PICK m \in mail : Key(m) = p
    BY <1>2 DEF InTheMail
  <2> QED
    BY <1>0, <2>1 DEF InTheMail
<1>3. WorkFits(w)' /\ (\A v \in Replica \ {w} : work'[v] = work[v])
      /\ work' = [v \in Replica |-> work'[v]]
  BY <1>0, <1>1, IdleFits
<1> QED
  BY <1>0, <1>2, <1>3, BusStep

(* Of a step, what handlers share.                                         *)
LEMMA GoMoves ==
  ASSUME BusInv, NEW w \in Replica, work[w] # Idle, NEW step, Go(w, step)
  PROVE  Moves(w) /\ work'[w].step = step /\ work'[w].read = work[w].read
<1>1. DOMAIN work = Replica /\ Running(work[w])
  BY DEF BusInv, WorkFits
<1>2. work'[w] = [work[w] EXCEPT !.step = step] /\ work' = [work EXCEPT ![w] = work'[w]]
  BY <1>1 DEF Go
<1>3. work'[w] = [op |-> "handle", to |-> work[w].to, event |-> work[w].event,
                  read |-> work[w].read, step |-> step]
  BY <1>1, <1>2 DEF Running
<1>4. work'[w] # Idle
  BY <1>3, DoneIsNot
<1> QED
  BY <1>2, <1>3, <1>4 DEF Moves, Running, Key

(* What a handler is after a step that has read something.                 *)
LEMMA RunningStep ==
  ASSUME NEW h, Running(h), NEW step, NEW read
  PROVE  [h EXCEPT !.step = step, !.read = read]
           = [op |-> "handle", to |-> h.to, event |-> h.event, read |-> read, step |-> step]
<1>1. h = [op |-> "handle", to |-> h.to, event |-> h.event, read |-> h.read, step |-> h.step]
  BY DEF Running
<1> DEFINE g == [h EXCEPT !.step = step]
<1>2. g = [op |-> "handle", to |-> h.to, event |-> h.event, read |-> h.read, step |-> step]
  BY <1>1
<1> HIDE DEF g
<1>3. [g EXCEPT !.read = read]
        = [op |-> "handle", to |-> h.to, event |-> h.event, read |-> read, step |-> step]
  BY <1>2
<1> QED
  BY <1>3 DEF g

(* Such a step leaves it its message.                                      *)
LEMMA GoWithMoves ==
  ASSUME BusInv, NEW w \in Replica, work[w] # Idle, NEW step, NEW read, GoWith(w, step, read)
  PROVE  Moves(w) /\ work'[w].step = step /\ work'[w].read = read
<1>1. DOMAIN work = Replica /\ Running(work[w])
  BY DEF BusInv, WorkFits
<1>2. work'[w] = [work[w] EXCEPT !.step = step, !.read = read]
      /\ work' = [work EXCEPT ![w] = work'[w]]
  BY <1>1 DEF GoWith
<1>3. work'[w] = [op |-> "handle", to |-> work[w].to, event |-> work[w].event,
                  read |-> read, step |-> step]
  BY <1>1, <1>2, RunningStep
<1>4. work'[w] # Idle
  BY <1>3, DoneIsNot
<1> QED
  BY <1>2, <1>3, <1>4 DEF Moves, Running, Key

(* A handler that runs has a message; a replica that has none does not.    *)
LEMMA InHolds ==
  ASSUME NEW w \in Replica, NEW c, NEW step, In(w, c, step)
  PROVE  work[w] # Idle /\ work[w].to = c /\ work[w].step = step
  BY DoneIsNot DEF In

-----------------------------------------------------------------------------
(***************************************************************************)
(* The requests, the clock and the stories.                                *)
(***************************************************************************)
LEMMA Turning ==
  ASSUME InputInv, NEW q \in Request, NEW r, Turn(q, r)
  PROVE  /\ req'[q] = r /\ \A p \in Request \ {q} : req'[p] = req[p]
         /\ r \in {Idle, Done} \cup Open => req' \in [Request -> {Idle, Done} \cup Open]
         /\ req[q] # Done => \A p \in Request : req[p] = Done => req'[p] = Done
  BY DEF Turn, InputInv

(* What a request has in hand, by what it does.                            *)
LEMMA ByOp ==
  ASSUME InputInv, NEW q \in Request
  PROVE  /\ req[q].op = "review" => req[q] \in ReviewRequests
         /\ req[q].op = "patch" => req[q] \in PatchRequests
         /\ req[q].op = "put" => req[q] \in PutRequests
         /\ req[q].op = "search" => req[q] \in SearchRequests
<1>1. req[q] \in {Idle, Done} \cup Open
  BY DEF InputInv
<1>2. req[q] \in ReviewRequests => req[q].op = "review"
  BY DEF ReviewRequests
<1>3. req[q] \in PatchRequests => req[q].op = "patch"
  BY DEF PatchRequests
<1>4. req[q] \in PutRequests => req[q].op = "put"
  BY DEF PutRequests
<1>5. req[q] \in SearchRequests => req[q].op = "search"
  BY DEF SearchRequests
<1> QED
  BY <1>1, <1>2, <1>3, <1>4, <1>5, DoneIsNot DEF Open

(* A request that does something is open.                                  *)
LEMMA AsksIsOpen ==
  ASSUME NEW q \in Request, NEW op, op \notin {"idle", "done"}, req[q].op = op
  PROVE  req[q] # Done /\ req[q] # Idle
  BY DoneIsNot

(* A request that begins.                                                  *)
LEMMA FreshIsIdle == ASSUME NEW q \in Request, Fresh(q) PROVE req[q] = Idle /\ req[q] # Done
  BY DoneIsNot DEF Fresh

(* After EnsureProfile the user has a row, the old one if there was one.   *)
LEMMA EnsureFits ==
  ASSUME ProfileTables, NEW u \in User
  PROVE  /\ EnsureProfile(u) \in [User -> Row \cup {None}]
         /\ EnsureProfile(u)[u] # None /\ EnsureProfile(u)[u] \in Row
         /\ EnsureProfile(u)[u] = IF profiles[u] = None THEN NewDefaultProfile ELSE profiles[u]
         /\ \A v \in User \ {u} : EnsureProfile(u)[v] = profiles[v]
<1>1. NewDefaultProfile \in Row /\ None \notin Row
  BY ProfilesAssumption DEF NewDefaultProfile, Row
<1>2. profiles \in [User -> Row \cup {None}]
  BY DEF ProfileTables
<1> QED
  BY <1>1, <1>2 DEF EnsureProfile

(* A row with one field changed is a row.                                  *)
LEMMA PatchedFits ==
  ASSUME NEW row \in Row, NEW f \in Field, NEW q \in Request
  PROVE  Patched(row, f, q) \in Row
  BY DEF Row, Patched

(* What is asked for is a request of its kind.                             *)
LEMMA RequestsFit ==
  ASSUME InputInv, ProfileTables, PatchInv, NEW q \in Request
  PROVE  /\ \A u \in budget.people, a \in Ad, s \in budget.stars :
              WriteReview(q, u, a, s) => req' \in [Request -> {Idle, Done} \cup Open]
         /\ \A u \in budget.people, f \in Field :
              UpdateMe(q, u, f) => req' \in [Request -> {Idle, Done} \cup Open]
         /\ \A u \in budget.people, list \in budget.lists :
              SetPrefs(q, u, list) => req' \in [Request -> {Idle, Done} \cup Open]
         /\ \A u \in budget.people, query \in budget.queries :
              CountSavedSearches(q, u, query) => req' \in [Request -> {Idle, Done} \cup Open]
         /\ GetProfile(q) => req' \in [Request -> {Idle, Done} \cup Open]
         /\ DeletePrefs(q) => req' \in [Request -> {Idle, Done} \cup Open]
<1>0. \A r \in {Done} \cup Open : Turn(q, r) => req' \in [Request -> {Idle, Done} \cup Open]
  BY Turning
<1>s. /\ budget.people \subseteq User /\ budget.queries \subseteq Query
      /\ \A list \in budget.lists : \A r \in list : r.enabled \in BOOLEAN
  BY DEF InputInv, StoryFits
<1>1. ASSUME NEW u \in budget.people, NEW a \in Ad, NEW s \in budget.stars, WriteReview(q, u, a, s)
      PROVE  req' \in [Request -> {Idle, Done} \cup Open]
  <2>1. PICK r : Turn(q, r) /\
          r = IF Refusal(u, a, s) # {} THEN Done
              ELSE [op |-> "review", step |-> "insert", ad |-> a, user |-> u, stars |-> s]
    BY <1>1 DEF WriteReview
  <2>2. Refusal(u, a, s) = {} => s \in 1..5
    BY DEF Refusal, ValidateRating
  <2>3. s \in 1..5 => [op |-> "review", step |-> "insert", ad |-> a, user |-> u, stars |-> s]
                        \in ReviewRequests
    BY <1>s DEF ReviewRequests
  <2>4. r \in {Done} \cup Open
    BY <2>1, <2>2, <2>3 DEF Open
  <2> QED
    BY <1>0, <2>1, <2>4
<1>2. ASSUME NEW u \in budget.people, NEW f \in Field, UpdateMe(q, u, f)
      PROVE  req' \in [Request -> {Idle, Done} \cup Open]
  <2> DEFINE r == [op |-> "patch", step |-> "read", user |-> u, field |-> f, row |-> None]
  <2>1. Turn(q, r)
    BY <1>2 DEF UpdateMe
  <2>2. r \in PatchRequests
    BY <1>s DEF PatchRequests
  <2> QED
    BY <1>0, <2>1, <2>2 DEF Open
<1>3. ASSUME NEW u \in budget.people, NEW list \in budget.lists, SetPrefs(q, u, list)
      PROVE  req' \in [Request -> {Idle, Done} \cup Open]
  <2> DEFINE rows == {[group |-> r.group, enabled |-> r.enabled, by |-> q] : r \in list}
             r0 == [op |-> "put", step |-> "delete", user |-> u, gone |-> {}, rows |-> rows]
  <2>1. CASE \A r \in list : ValidNotificationPref(r)
    <3>1. Turn(q, r0)
      BY <1>3, <2>1 DEF SetPrefs
    <3>2. ASSUME NEW r \in list
          PROVE  [group |-> r.group, enabled |-> r.enabled, by |-> q] \in Switch
      <4>1. r.group \in Group /\ r.enabled \in BOOLEAN
        BY <1>s, <2>1 DEF ValidNotificationPref
      <4> QED
        BY <4>1 DEF Switch
    <3>3. rows \subseteq Switch
      BY <3>2
    <3> HIDE DEF rows
    <3>4. r0 \in PutRequests
      BY <1>s, <3>3 DEF PutRequests
    <3> QED
      BY <1>0, <3>1, <3>4 DEF Open
  <2>2. CASE ~\A r \in list : ValidNotificationPref(r)
    BY <1>0, <1>3, <2>2 DEF SetPrefs
  <2> QED
    BY <2>1, <2>2
<1>4. ASSUME NEW u \in budget.people, NEW query \in budget.queries, CountSavedSearches(q, u, query)
      PROVE  req' \in [Request -> {Idle, Done} \cup Open]
  <2> DEFINE r == [op |-> "search", step |-> "insert", user |-> u, query |-> query]
  <2>1. Turn(q, Done) \/ Turn(q, r)
    BY <1>4 DEF CountSavedSearches
  <2>2. r \in SearchRequests
    BY <1>s DEF SearchRequests
  <2> QED
    BY <1>0, <2>1, <2>2 DEF Open
<1>5. ASSUME GetProfile(q) PROVE req' \in [Request -> {Idle, Done} \cup Open]
  <2> DEFINE row == Patched(profiles[req[q].user], req[q].field, q)
             r == [req[q] EXCEPT !.step = "write", !.row = row]
  <2>1. Turn(q, r) /\ req[q].op = "patch"
    BY <1>5 DEF GetProfile, Asks
  <2>2. req[q] \in PatchRequests
    BY <2>1, ByOp
  <2>3. profiles[req[q].user] # None
    BY <2>1 DEF PatchInv, PatchRead
  <2>4. profiles[req[q].user] \in Row /\ req[q].field \in Field
    BY <2>2, <2>3 DEF PatchRequests, ProfileTables
  <2>5. row \in Row
    BY <2>4, PatchedFits
  <2> HIDE DEF row
  <2>6. r \in PatchRequests
    BY <2>2, <2>5 DEF PatchRequests
  <2> QED
    BY <1>0, <2>1, <2>6 DEF Open
<1>6. ASSUME DeletePrefs(q) PROVE req' \in [Request -> {Idle, Done} \cup Open]
  <2> DEFINE r == [req[q] EXCEPT !.step = "insert", !.gone = prefs[req[q].user]]
  <2>1. Turn(q, r) /\ req[q].op = "put"
    BY <1>6 DEF DeletePrefs, Asks
  <2>2. req[q] \in PutRequests
    BY <2>1, ByOp
  <2>3. prefs[req[q].user] \in SUBSET Switch
    BY <2>2 DEF PutRequests, ProfileTables
  <2>4. r \in PutRequests
    BY <2>2, <2>3 DEF PutRequests
  <2> QED
    BY <1>0, <2>1, <2>4 DEF Open
<1> QED
  BY <1>1, <1>2, <1>3, <1>4, <1>5, <1>6

(* What a step is, by who takes it.                                        *)
LEMMA NextIs ==
  ASSUME Next
  PROVE  \/ \E q \in Request : People(q) \/ Searchers(q) \/ RequestStep(q)
         \/ Elsewhere
         \/ \E w \in Replica : HandlerStep(w)
         \/ \E w \in Replica : \E m \in mail : Taking(w, m)
         \/ Faults
         \/ Time
  BY DEF Next

(* A request that is done takes no further step; what was sent, noted and  *)
(* given up is kept.                                                       *)
DoneStays == \A q \in Request : req[q] = Done => req'[q] = Done
OnlyMore ==
  /\ listing' \subseteq listing
  /\ posted \subseteq posted' /\ processed \subseteq processed' /\ dead \subseteq dead'
Typed == req' \in [Request -> {Idle, Done} \cup Open]

(* The inputs after a step of a request, ...                               *)
LEMMA RequestKept ==
  ASSUME InputInv, ProfileTables, PatchInv, NEW q \in Request,
         People(q) \/ Searchers(q) \/ RequestStep(q)
  PROVE  Typed /\ DoneStays /\ OnlyMore /\ now' = now /\ StoryFits(budget)'
         /\ budget'.consumers = budget.consumers
<1>s. StoryFits(budget)
  BY DEF InputInv
<1>n. \A i \in {"reviews", "patches", "puts", "searches"} : i \notin Story
  BY DEF Story
<1>t. \A r \in {Done} \cup Open : Turn(q, r) => Typed
  BY Turning DEF Typed
<1>d. \A r : Turn(q, r) /\ req[q] # Done => DoneStays
  BY Turning DEF DoneStays
<1>1. ASSUME NEW u \in budget.people, NEW a \in Ad, NEW s \in budget.stars, WriteReview(q, u, a, s)
      PROVE  Typed /\ DoneStays /\ OnlyMore /\ now' = now /\ Spend("reviews")
  BY <1>1, <1>d, FreshIsIdle, RequestsFit DEF WriteReview, Typed, OnlyMore
<1>2. ASSUME NEW u \in budget.people, NEW f \in Field, UpdateMe(q, u, f)
      PROVE  Typed /\ DoneStays /\ OnlyMore /\ now' = now /\ Spend("patches")
  BY <1>2, <1>d, FreshIsIdle, RequestsFit DEF UpdateMe, Typed, OnlyMore
<1>3. ASSUME NEW u \in budget.people, NEW list \in budget.lists, SetPrefs(q, u, list)
      PROVE  Typed /\ DoneStays /\ OnlyMore /\ now' = now /\ Spend("puts")
  BY <1>3, <1>d, FreshIsIdle, RequestsFit DEF SetPrefs, Typed, OnlyMore
<1>4. ASSUME NEW u \in budget.people, NEW query \in budget.queries, CountSavedSearches(q, u, query)
      PROVE  Typed /\ DoneStays /\ OnlyMore /\ now' = now /\ Spend("searches")
  BY <1>4, <1>d, FreshIsIdle, RequestsFit DEF CountSavedSearches, Typed, OnlyMore
<1>5. ASSUME PostReview(q)
      PROVE  Typed /\ DoneStays /\ OnlyMore /\ now' = now /\ budget' = budget
  <2>1. Turn(q, Done) /\ req[q] # Done /\ now' = now /\ budget' = budget
        /\ posted \subseteq posted' /\ UNCHANGED <<listing, processed, dead>>
    BY <1>5, AsksIsOpen DEF PostReview, Asks, Post
  <2> QED
    BY <1>t, <1>d, <2>1 DEF OnlyMore
<1>6. ASSUME GetProfile(q)
      PROVE  Typed /\ DoneStays /\ OnlyMore /\ now' = now /\ budget' = budget
  BY <1>6, <1>d, AsksIsOpen, RequestsFit DEF GetProfile, Asks, Typed, OnlyMore
<1>7. ASSUME UpdateProfile(q)
      PROVE  Typed /\ DoneStays /\ OnlyMore /\ now' = now /\ budget' = budget
  BY <1>7, <1>t, <1>d, AsksIsOpen DEF UpdateProfile, Asks, OnlyMore
<1>8. ASSUME DeletePrefs(q)
      PROVE  Typed /\ DoneStays /\ OnlyMore /\ now' = now /\ budget' = budget
  BY <1>8, <1>d, AsksIsOpen, RequestsFit DEF DeletePrefs, Asks, Typed, OnlyMore
<1>9. ASSUME InsertPrefs(q)
      PROVE  Typed /\ DoneStays /\ OnlyMore /\ now' = now /\ budget' = budget
  BY <1>9, <1>t, <1>d, AsksIsOpen DEF InsertPrefs, Asks, OnlyMore
<1>10. ASSUME CreateSavedSearch(q)
       PROVE  Typed /\ DoneStays /\ OnlyMore /\ now' = now /\ budget' = budget
  BY <1>10, <1>t, <1>d, AsksIsOpen DEF CreateSavedSearch, Asks, OnlyMore
<1>11. \A i : Spend(i) /\ i \notin Story =>
         StoryFits(budget)' /\ budget'.consumers = budget.consumers
  BY <1>s, Spending
<1>12. budget' = budget => StoryFits(budget)' /\ budget'.consumers = budget.consumers
  BY <1>s DEF StoryFits
<1>13. CASE People(q)
  BY <1>1, <1>2, <1>3, <1>11, <1>13, <1>n DEF People
<1>14. CASE Searchers(q)
  BY <1>4, <1>11, <1>14, <1>n DEF Searchers
<1>15. CASE RequestStep(q)
  BY <1>5, <1>6, <1>7, <1>8, <1>9, <1>10, <1>12, <1>15 DEF RequestStep, ReviewRequest, SearchRequest
<1> QED
  BY <1>13, <1>14, <1>15

(* ... of another service or of a user, ...                                *)
LEMMA ElsewhereKept ==
  ASSUME InputInv, Elsewhere
  PROVE  req' = req /\ OnlyMore /\ now' = now /\ StoryFits(budget)'
         /\ budget'.consumers = budget.consumers
<1>n. \A i \in {"users", "blocks", "favorites", "removals", "deletions", "approvals"} : i \notin Story
  BY DEF Story
<1>s. \A i : Spend(i) /\ i \notin Story =>
        StoryFits(budget)' /\ budget'.consumers = budget.consumers
  BY Spending DEF InputInv
<1>p. \A e : Post(e) => posted \subseteq posted'
  BY DEF Post
<1>1. ASSUME NEW u \in User, Register(u) PROVE req' = req /\ OnlyMore /\ now' = now /\ Spend("users")
  BY <1>1, <1>p DEF Register, OnlyMore
<1>2. ASSUME NEW r \in reviews, OrderBlock(r)
      PROVE  req' = req /\ OnlyMore /\ now' = now /\ Spend("blocks")
  BY <1>2, <1>p DEF OrderBlock, OnlyMore
<1>3. ASSUME NEW u \in budget.people, NEW a \in Ad, AddFavorite(u, a)
      PROVE  req' = req /\ OnlyMore /\ now' = now /\ Spend("favorites")
  BY <1>3 DEF AddFavorite, OnlyMore
<1>4. ASSUME NEW u \in budget.people, NEW a \in Ad, RemoveFavorite(u, a)
      PROVE  req' = req /\ OnlyMore /\ now' = now /\ Spend("removals")
  BY <1>4 DEF RemoveFavorite, OnlyMore
<1>5. ASSUME NEW a \in Ad, DeleteAd(a)
      PROVE  req' = req /\ OnlyMore /\ now' = now /\ Spend("deletions")
  BY <1>5, <1>p DEF DeleteAd, OnlyMore
<1>6. ASSUME NEW a \in Ad, Approve(a)
      PROVE  req' = req /\ OnlyMore /\ now' = now /\ Spend("approvals")
  BY <1>6, <1>p DEF Approve, OnlyMore
<1>7. ASSUME NEW s \in searches, DeleteSavedSearch(s)
      PROVE  req' = req /\ OnlyMore /\ now' = now /\ Spend("removals")
  BY <1>7 DEF DeleteSavedSearch, OnlyMore
<1> QED
  BY <1>1, <1>2, <1>3, <1>4, <1>5, <1>6, <1>7, <1>n, <1>s DEF Elsewhere

(* ... of a handler, ...                                                   *)
LEMMA HandlerKept ==
  ASSUME NEW w \in Replica, HandlerStep(w)
  PROVE  UNCHANGED inputs /\ OnlyMore
<1>p. /\ \A e : Post(e) => posted \subseteq posted'
      /\ LetGo(w) => UNCHANGED <<posted, processed>> /\ dead \subseteq dead'
      /\ Marked(w) => processed \subseteq processed'
  BY DEF Post, LetGo, Marked
<1>1. CASE ReviewHandler(w)
  BY <1>1, <1>p DEF ReviewHandler, BlockReview, MarkBlocked, GetRating, UpsertRatingWithInbox,
                    CreateProfile, OnlyMore, inputs
<1>2. CASE RemoveByAd(w) \/ FindMatches(w)
  BY <1>2 DEF RemoveByAd, FindMatches, OnlyMore, inputs
<1>3. ASSUME NEW id \in Request, RecordMatch(w, id) PROVE UNCHANGED inputs /\ OnlyMore
  BY <1>3, <1>p DEF RecordMatch, Alert, OnlyMore, inputs
<1>4. ASSUME NEW id \in Request, RecordFails(w, id) PROVE UNCHANGED inputs /\ OnlyMore
  BY <1>4, <1>p DEF RecordFails, OnlyMore, inputs
<1>5. CASE GetRecipient(w)
  BY <1>5, <1>p DEF GetRecipient, OnlyMore, inputs
<1>6. CASE UpsertRecipient(w) \/ LookUp(w) \/ Fetch(w) \/ Remember(w)
  BY <1>6 DEF UpsertRecipient, LookUp, Fetch, Remember, OnlyMore, inputs
<1>7. CASE RecordSkipped(w) \/ BeginDelivery(w) \/ Send(w) \/ Mark(w)
  BY <1>7 DEF RecordSkipped, BeginDelivery, Send, Mark, OnlyMore, inputs
<1>8. CASE Acknowledge(w)
  BY <1>8 DEF Acknowledge, OnlyMore, inputs
<1> QED
  BY <1>1, <1>2, <1>3, <1>4, <1>5, <1>6, <1>7, <1>8 DEF HandlerStep, SearchHandler, NoteHandler

(* ... a fault, ...                                                        *)
LEMMA FaultKept ==
  ASSUME InputInv, Faults
  PROVE  Typed /\ DoneStays /\ OnlyMore /\ now' = now /\ StoryFits(budget)'
         /\ budget'.consumers = budget.consumers
<1>n. "failures" \notin Story
  BY DEF Story
<1>s. Spend("failures") => StoryFits(budget)' /\ budget'.consumers = budget.consumers
  BY <1>n, Spending DEF InputInv
<1>q. req' = req => Typed /\ DoneStays
  BY DEF InputInv, Typed, DoneStays
<1>p. \A w \in Replica : LetGo(w) => UNCHANGED <<posted, processed>> /\ dead \subseteq dead'
  BY DEF LetGo
<1>1. ASSUME NEW q \in Request, RequestFails(q)
      PROVE  Typed /\ DoneStays /\ OnlyMore /\ now' = now /\ Spend("failures")
  <2>1. Turn(q, Done) /\ req[q] # Done /\ now' = now /\ Spend("failures") /\ OnlyMore
    BY <1>1 DEF RequestFails, OnlyMore
  <2> QED
    BY <2>1, Turning DEF Typed, DoneStays
<1>2. ASSUME NEW w \in Replica, Break(w)
      PROVE  req' = req /\ OnlyMore /\ now' = now /\ Spend("failures")
  BY <1>2, <1>p DEF Break, OnlyMore
<1>3. ASSUME NEW w \in Replica, SendRefused(w)
      PROVE  req' = req /\ OnlyMore /\ now' = now /\ Spend("failures")
  BY <1>3 DEF SendRefused, OnlyMore
<1>4. ASSUME NEW w \in Replica, SendAgainLater(w)
      PROVE  req' = req /\ OnlyMore /\ now' = now /\ Spend("failures")
  BY <1>4, <1>p DEF SendAgainLater, OnlyMore
<1> QED
  BY <1>1, <1>2, <1>3, <1>4, <1>q, <1>s DEF Faults

(* ... the taking of a message, ...                                        *)
LEMMA TakingKept ==
  ASSUME InputInv, NEW w \in Replica, NEW m \in mail, Taking(w, m)
  PROVE  req' = req /\ OnlyMore /\ now' = now /\ StoryFits(budget)'
         /\ budget'.consumers = budget.consumers
<1>1. req' = req /\ OnlyMore /\ now' = now
      /\ (budget' = budget \/ budget' = [budget EXCEPT !.retakes = @ - 1])
  BY DEF Taking, Give, OnlyMore
<1>2. "retakes" \notin Story
  BY DEF Story
<1>3. budget' = [budget EXCEPT !.retakes = @ - 1] => Spend("retakes")
  BY DEF Spend
<1>4. Spend("retakes") => StoryFits(budget)' /\ budget'.consumers = budget.consumers
  BY <1>2, Spending DEF InputInv
<1>5. budget' = budget => StoryFits(budget)' /\ budget'.consumers = budget.consumers
  BY DEF InputInv, StoryFits
<1> QED
  BY <1>1, <1>3, <1>4, <1>5

(* ... and a tick.                                                         *)
LEMMA TimeKept ==
  ASSUME InputInv, Time
  PROVE  req' = req /\ OnlyMore /\ now' = now + 1 /\ StoryFits(budget)'
         /\ budget'.consumers = budget.consumers
<1>1. "ticks" \notin Story
  BY DEF Story
<1>2. Spend("ticks") => StoryFits(budget)' /\ budget'.consumers = budget.consumers
  BY <1>1, Spending DEF InputInv
<1> QED
  BY <1>2 DEF Time, Tick, OnlyMore

(* Every step keeps the inputs what they are, and only adds to what was    *)
(* sent, noted in an inbox or given up.                                    *)
LEMMA InputsNext ==
  ASSUME Inv, Next
  PROVE  InputInv' /\ Advance /\ now' \in {now, now + 1} /\ budget'.consumers = budget.consumers
<1>0. InputInv /\ ProfileTables /\ PatchInv
  BY DEF Inv
<1>q. req' = req => Typed /\ DoneStays
  BY <1>0 DEF InputInv, Typed, DoneStays
<1>1. ASSUME NEW q \in Request, People(q) \/ Searchers(q) \/ RequestStep(q)
      PROVE  Typed /\ DoneStays /\ OnlyMore /\ now' = now /\ StoryFits(budget)'
             /\ budget'.consumers = budget.consumers
  BY <1>0, <1>1, RequestKept
<1>2. ASSUME Elsewhere
      PROVE  req' = req /\ OnlyMore /\ now' = now /\ StoryFits(budget)'
             /\ budget'.consumers = budget.consumers
  BY <1>0, <1>2, ElsewhereKept
<1>3. ASSUME NEW w \in Replica, HandlerStep(w)
      PROVE  req' = req /\ OnlyMore /\ now' = now /\ StoryFits(budget)'
             /\ budget'.consumers = budget.consumers
  <2>1. UNCHANGED inputs /\ OnlyMore
    BY <1>3, HandlerKept
  <2> QED
    BY <1>0, <2>1 DEF inputs, InputInv, StoryFits
<1>4. ASSUME NEW w \in Replica, NEW m \in mail, Taking(w, m)
      PROVE  req' = req /\ OnlyMore /\ now' = now /\ StoryFits(budget)'
             /\ budget'.consumers = budget.consumers
  BY <1>0, <1>4, TakingKept
<1>5. ASSUME Faults
      PROVE  Typed /\ DoneStays /\ OnlyMore /\ now' = now /\ StoryFits(budget)'
             /\ budget'.consumers = budget.consumers
  BY <1>0, <1>5, FaultKept
<1>6. ASSUME Time
      PROVE  req' = req /\ OnlyMore /\ now' = now + 1 /\ StoryFits(budget)'
             /\ budget'.consumers = budget.consumers
  BY <1>0, <1>6, TimeKept
<1>7. Typed /\ DoneStays /\ OnlyMore /\ now' \in {now, now + 1} /\ StoryFits(budget)'
      /\ budget'.consumers = budget.consumers
  BY <1>1, <1>2, <1>3, <1>4, <1>5, <1>6, <1>q, NextIs
<1>8. now' \in Nat
  BY <1>0, <1>7 DEF InputInv
<1> QED
  BY <1>7, <1>8 DEF InputInv, Advance, Typed, DoneStays, OnlyMore

-----------------------------------------------------------------------------
(***************************************************************************)
(* What a consumer is through with stays so.                               *)
(***************************************************************************)
(* The journal loses no row, and none becomes pending again.               *)
NotesGo ==
  /\ DOMAIN notes \subseteq DOMAIN notes' /\ abandoned \subseteq abandoned'
  /\ \A e \in DOMAIN notes : notes'[e] = "pending" => notes[e] = "pending"

(* A search that is new is younger than the approvals that were sent, and  *)
(* a match on record stays there.                                          *)
SearchesGo ==
  /\ \A s \in searches' :
       \/ \E x \in searches : x.id = s.id /\ x.query = s.query
       \/ \A p \in posted : p.to = "matcher" => <<s.id, p.event.ad>> \in excused'
  /\ \A s \in searches', a \in Ad :
       <<s.id, a>> \in matches \cup excused => <<s.id, a>> \in matches' \cup excused'

(* A favorite of an ad that was deleted is not added but late.             *)
FavoritesGo == \A u \in User, p \in posted : p.to = "favorites" =>
  (<<u, p.event.ad>> \in favorites' /\ <<u, p.event.ad>> \notin late'
   => <<u, p.event.ad>> \in favorites /\ <<u, p.event.ad>> \notin late)

(* These are why what is completed stays completed.                        *)
LEMMA Stays ==
  ASSUME BusInv, OnlyMore, NotesGo, SearchesGo, FavoritesGo
  PROVE  Stable
<1> SUFFICES ASSUME NEW p \in posted, Completed(p) PROVE Completed(p)'
  BY DEF Stable
<1>0. Counted(p) /\ Settled(p) /\ Sought(p) /\ Emptied(p)
  BY DEF Completed
<1>1. Counted(p)'
  BY <1>0 DEF Counted, OnlyMore
<1>2. Settled(p)'
  BY <1>0 DEF Settled, NotesGo
<1>3. Sought(p)'
  <2> SUFFICES ASSUME p.to = "matcher", NEW s \in searches', Matches(s.query, p.event.ad)
               PROVE  <<s.id, p.event.ad>> \in matches' \cup excused'
    BY DEF Sought, Matches
  <2>a. p.event.ad \in Ad
    BY DEF BusInv, Fits
  <2>1. CASE \A v \in posted : v.to = "matcher" => <<s.id, v.event.ad>> \in excused'
    BY <2>1
  <2>2. ASSUME NEW x \in searches, x.id = s.id, x.query = s.query
        PROVE  <<s.id, p.event.ad>> \in matches' \cup excused'
    <3>1. Matches(x.query, p.event.ad)
      BY <2>2
    <3>2. <<x.id, p.event.ad>> \in matches \cup excused
      BY <1>0, <3>1 DEF Sought
    <3> QED
      BY <2>2, <2>a, <3>2 DEF SearchesGo
  <2> QED
    BY <2>1, <2>2 DEF SearchesGo
<1>4. Emptied(p)'
  BY <1>0 DEF Emptied, FavoritesGo
<1> QED
  BY <1>1, <1>2, <1>3, <1>4 DEF Completed

(* Steps that leave the journal alone forget nothing of it.                *)
LEMMA NotesRest == ASSUME UNCHANGED <<notes, abandoned>> PROVE NotesGo
  BY DEF NotesGo

(* Steps that leave searches and favorites alone undo none of them.        *)
LEMMA SearchesRest ==
  ASSUME UNCHANGED <<searches, matches, favorites, late>>, excused \subseteq excused'
  PROVE  SearchesGo /\ FavoritesGo
  BY DEF SearchesGo, FavoritesGo

(* A row of the journal never becomes pending again.                       *)
LEMMA NotedGoes ==
  ASSUME NEW e, NEW status, Noted(e, status), abandoned \subseteq abandoned',
         e \in DOMAIN notes => status # "pending"
  PROVE  NotesGo /\ e \in DOMAIN notes' /\ notes'[e] = status
  BY DEF Noted, NotesGo

(* The handlers of notification.                                           *)
LEMMA NoteStays ==
  ASSUME Inv, NEW w \in Replica, NoteHandler(w)
  PROVE  NotesGo
<1>1. CASE UpsertRecipient(w) \/ GetRecipient(w) \/ LookUp(w) \/ Fetch(w) \/ Remember(w) \/ Send(w)
  BY <1>1, NotesRest
     DEF UpsertRecipient, GetRecipient, LookUp, Fetch, Remember, Send
<1>2. CASE RecordSkipped(w)
  <2> DEFINE e == work[w].event
  <2>1. (IF Begun(e) THEN UNCHANGED notes ELSE Noted(e, "skipped")) /\ abandoned \subseteq abandoned'
    BY <1>2 DEF RecordSkipped
  <2>2. CASE Begun(e)
    BY <2>1, <2>2 DEF NotesGo
  <2>3. CASE ~Begun(e)
    BY <2>1, <2>3, NotedGoes DEF Begun
  <2> QED
    BY <2>2, <2>3
<1>3. CASE BeginDelivery(w)
  <2> DEFINE e == work[w].event
  <2>1. (IF Begun(e) THEN UNCHANGED notes ELSE Noted(e, "pending")) /\ abandoned' = abandoned
    BY <1>3 DEF BeginDelivery
  <2>2. CASE Begun(e)
    BY <2>1, <2>2 DEF NotesGo
  <2>3. CASE ~Begun(e)
    BY <2>1, <2>3, NotedGoes DEF Begun
  <2> QED
    BY <2>2, <2>3
<1>4. CASE Mark(w)
  <2>1. Noted(work[w].event, work[w].read) /\ abandoned' = abandoned /\ In(w, "delivery", "mark")
    BY <1>4 DEF Mark
  <2>2. work[w] # Idle /\ work[w].to = "delivery" /\ work[w].step = "mark"
    BY <2>1, InHolds
  <2>3. NoteRead(w)
    BY DEF Inv, NoteInv
  <2>4. work[w].read \in {"sent", "failed"}
    BY <2>2, <2>3 DEF NoteRead
  <2>5. work[w].read # "pending"
    BY <2>4
  <2> QED
    BY <2>1, <2>5, NotedGoes
<1> QED
  BY <1>1, <1>2, <1>3, <1>4 DEF NoteHandler

(* The searches.                                                           *)
LEMMA CreateStays ==
  ASSUME BusInv, NEW q \in Request, CreateSavedSearch(q)
  PROVE  SearchesGo /\ FavoritesGo
<1> DEFINE new == [id |-> q, user |-> req[q].user, query |-> req[q].query, notified |-> None]
<1>1. /\ searches' = searches \cup {new} /\ UNCHANGED <<favorites, matches, late>>
      /\ excused' = excused \cup {<<q, e.event.ad>> : e \in {x \in posted : x.to = "matcher"}}
  BY DEF CreateSavedSearch
<1>2. new.id = q
  OBVIOUS
<1> HIDE DEF new
<1>3. ASSUME NEW s \in searches'
      PROVE  \/ \E x \in searches : x.id = s.id /\ x.query = s.query
             \/ \A p \in posted : p.to = "matcher" => <<s.id, p.event.ad>> \in excused'
  BY <1>1, <1>2
<1>4. FavoritesGo
  BY <1>1 DEF FavoritesGo
<1> QED
  BY <1>1, <1>3, <1>4 DEF SearchesGo

(* A search that is told of is still the same search.                      *)
LEMMA AlertGoes ==
  ASSUME SearchTables, NEW s \in searches, NEW a, Alert(s, a), matches \subseteq matches',
         UNCHANGED <<favorites, late, excused>>
  PROVE  SearchesGo /\ FavoritesGo
<1> DEFINE t == [s EXCEPT !.notified = now]
<1>1. searches' = (searches \ {s}) \cup {t}
  BY DEF Alert
<1>2. t.id = s.id /\ t.query = s.query
  BY DEF SearchTables, SearchFits
<1> HIDE DEF t
<1>3. FavoritesGo
  BY DEF FavoritesGo
<1> QED
  BY <1>1, <1>2, <1>3 DEF SearchesGo

(* A match on record stays there, ...                                      *)
LEMMA RecordStays ==
  ASSUME SearchTables, NEW w \in Replica, NEW id \in Request, RecordMatch(w, id)
  PROVE  SearchesGo /\ FavoritesGo
<1> DEFINE a == work[w].event.ad
<1>1. PICK s \in SearchOf(id) :
        /\ matches' = matches \cup {<<id, a>>}
        /\ IF <<id, a>> \notin matches /\ ~Soon(s) THEN Alert(s, a)
           ELSE UNCHANGED <<searches, told, mail, posted>>
  BY DEF RecordMatch
<1>2. s \in searches /\ UNCHANGED <<favorites, late, excused>>
  BY DEF RecordMatch, SearchOf
<1>3. CASE <<id, a>> \notin matches /\ ~Soon(s)
  BY <1>1, <1>2, <1>3, AlertGoes
<1>4. CASE ~(<<id, a>> \notin matches /\ ~Soon(s))
  <2>1. searches' = searches /\ matches \subseteq matches'
    BY <1>1, <1>4
  <2> QED
    BY <1>2, <2>1 DEF SearchesGo, FavoritesGo
<1> QED
  BY <1>3, <1>4

(* ... unless its search goes.                                             *)
LEMMA DeleteStays ==
  ASSUME SearchTables, NEW s \in searches, DeleteSavedSearch(s)
  PROVE  SearchesGo /\ FavoritesGo
<1>1. /\ searches' = searches \ {s} /\ matches' = {m \in matches : m[1] # s.id}
      /\ UNCHANGED <<favorites, late, excused>>
  BY DEF DeleteSavedSearch
<1>2. \A x \in searches' : x.id # s.id
  BY <1>1 DEF SearchTables
<1>3. FavoritesGo
  BY <1>1 DEF FavoritesGo
<1> QED
  BY <1>1, <1>2, <1>3 DEF SearchesGo

(* A favorite of an ad that is deleted is a late one.                      *)
LEMMA FavoriteStays ==
  ASSUME BusInv, NEW u \in User, NEW a \in Ad, AddFavorite(u, a)
  PROVE  SearchesGo /\ FavoritesGo
<1>1. /\ favorites' = favorites \cup {<<u, a>>} /\ UNCHANGED <<searches, matches, excused>>
      /\ late' = IF a \notin listing THEN late \cup {<<u, a>>} ELSE late
  BY DEF AddFavorite
<1>2. ASSUME NEW v \in User, NEW p \in posted, p.to = "favorites",
             <<v, p.event.ad>> \in favorites', <<v, p.event.ad>> \notin late'
      PROVE  <<v, p.event.ad>> \in favorites /\ <<v, p.event.ad>> \notin late
  <2>1. p.event.ad \notin listing
    BY <1>2 DEF BusInv, Fits
  <2> QED
    BY <1>1, <1>2, <2>1
<1> QED
  BY <1>1, <1>2 DEF SearchesGo, FavoritesGo

(* No handler of searches and favorites undoes what another did, ...       *)
LEMMA SearchStays ==
  ASSUME Inv, NEW w \in Replica, SearchHandler(w)
  PROVE  SearchesGo /\ FavoritesGo
<1>0. SearchTables
  BY DEF Inv, SearchInv
<1>1. CASE RemoveByAd(w)
  BY <1>1 DEF RemoveByAd, SearchesGo, FavoritesGo
<1>2. CASE FindMatches(w)
  BY <1>2, SearchesRest DEF FindMatches
<1>3. ASSUME NEW id \in Request, RecordFails(w, id) PROVE SearchesGo /\ FavoritesGo
  BY <1>3, SearchesRest DEF RecordFails
<1> QED
  BY <1>0, <1>1, <1>2, <1>3, RecordStays DEF SearchHandler

(* ... nor does an input, ...                                              *)
LEMMA ElsewhereStays ==
  ASSUME Inv, Elsewhere
  PROVE  NotesGo /\ SearchesGo /\ FavoritesGo
<1>0. BusInv /\ SearchTables /\ budget.people \subseteq User
  BY DEF Inv, SearchInv, InputInv, StoryFits
<1>1. ASSUME NEW u \in User, Register(u), UNCHANGED <<noteVars, searchVars>>
      PROVE  NotesGo /\ SearchesGo /\ FavoritesGo
  BY <1>1, NotesRest, SearchesRest
<1>2. ASSUME NEW r \in reviews, OrderBlock(r), UNCHANGED <<noteVars, searchVars>>
      PROVE  NotesGo /\ SearchesGo /\ FavoritesGo
  BY <1>2, NotesRest, SearchesRest
<1>3. ASSUME NEW u \in budget.people, NEW a \in Ad, AddFavorite(u, a) PROVE SearchesGo /\ FavoritesGo
  BY <1>0, <1>3, FavoriteStays
<1>4. ASSUME NEW u \in budget.people, NEW a \in Ad, RemoveFavorite(u, a)
      PROVE  SearchesGo /\ FavoritesGo
  BY <1>4 DEF RemoveFavorite, SearchesGo, FavoritesGo
<1>5. ASSUME NEW a \in Ad, DeleteAd(a) \/ Approve(a) PROVE SearchesGo /\ FavoritesGo
  BY <1>5, SearchesRest DEF DeleteAd, Approve
<1>6. ASSUME NEW s \in searches, DeleteSavedSearch(s) PROVE SearchesGo /\ FavoritesGo
  BY <1>0, <1>6, DeleteStays
<1> QED
  BY <1>1, <1>2, <1>3, <1>4, <1>5, <1>6, NotesRest DEF Elsewhere

(* ... nor does any step.                                                  *)
LEMMA GoNext ==
  ASSUME Inv, Next
  PROVE  NotesGo /\ SearchesGo /\ FavoritesGo
<1>0. BusInv
  BY DEF Inv
<1>r. UNCHANGED <<noteVars, searchVars>> => NotesGo /\ SearchesGo /\ FavoritesGo
  BY NotesRest, SearchesRest
<1>n. UNCHANGED noteVars => NotesGo
  BY NotesRest
<1>s. UNCHANGED searchVars => SearchesGo /\ FavoritesGo
  BY SearchesRest
<1>1. ASSUME NEW q \in Request, People(q) \/ Searchers(q) \/ RequestStep(q)
      PROVE  NotesGo /\ SearchesGo /\ FavoritesGo
  <2>1. CASE People(q)
    BY <1>r, <2>1 DEF People
  <2>2. CASE Searchers(q)
    BY <1>r, <2>2 DEF Searchers, CountSavedSearches
  <2>3. CASE RequestStep(q)
    BY <1>0, <1>r, <1>n, <2>3, CreateStays DEF RequestStep, SearchRequest
  <2> QED
    BY <1>1, <2>1, <2>2, <2>3
<1>3. ASSUME NEW w \in Replica, HandlerStep(w) PROVE NotesGo /\ SearchesGo /\ FavoritesGo
  BY <1>n, <1>s, <1>r, <1>3, NoteStays, SearchStays DEF HandlerStep
<1>4. ASSUME NEW w \in Replica, NEW m \in mail, Taking(w, m)
      PROVE  NotesGo /\ SearchesGo /\ FavoritesGo
  BY <1>s, <1>4, NotesRest DEF Taking, NotesGiven
<1>5. ASSUME Faults PROVE NotesGo /\ SearchesGo /\ FavoritesGo
  <2>1. ASSUME NEW w \in Replica, NotesBroken(w) PROVE NotesGo
    BY <2>1, NotesRest DEF NotesBroken
  <2>2. ASSUME NEW w \in Replica, SendRefused(w) \/ SendAgainLater(w) PROVE NotesGo
    BY <2>2, NotesRest DEF SendRefused, SendAgainLater
  <2> QED
    BY <1>5, <1>r, <1>s, <2>1, <2>2 DEF Faults
<1>6. ASSUME Time PROVE NotesGo /\ SearchesGo /\ FavoritesGo
  BY <1>r, <1>6 DEF Time
<1> QED
  BY <1>1, <1>3, <1>4, <1>5, <1>6, ElsewhereStays, NextIs

(* What is completed stays completed.                                      *)
LEMMA StableNext ==
  ASSUME Inv, Next
  PROVE  Advance /\ Stable
<1>1. BusInv /\ Advance
  BY InputsNext DEF Inv
<1>2. OnlyMore
  BY <1>1 DEF Advance, OnlyMore
<1> QED
  BY <1>1, <1>2, GoNext, Stays

-----------------------------------------------------------------------------
(***************************************************************************)
(* Every step on the bus.                                                  *)
(***************************************************************************)
LEMMA FitsReview ==
  ASSUME NEW r, r.ad \in Ad, r.id \in Request, req'[r.id] = Done, NEW c \in {"ratings", "delivery"}
  PROVE  Fits([to |-> c, event |-> ReviewCreated(r)])'
  BY BusAssumption DEF Fits, Key, ReviewCreated

(* What user.created is to its consumers, ...                              *)
LEMMA FitsUser ==
  ASSUME NEW u \in User, NEW c \in {"profiles", "recipients"}
  PROVE  Fits([to |-> c, event |-> UserCreated(u)])'
  BY DEF Fits, Key, UserCreated

(* ... review.blocked, ...                                                 *)
LEMMA FitsBlock ==
  ASSUME NEW id, NEW c \in {"reviews-block"}
  PROVE  Fits([to |-> c, event |-> ReviewBlocked(id)])'
  BY DEF Fits, Key, ReviewBlocked

(* ... ad.approved, ...                                                    *)
LEMMA FitsApproval ==
  ASSUME NEW a \in Ad, NEW n, NEW c \in {"matcher", "delivery"}
  PROVE  Fits([to |-> c, event |-> AdApproved(a, n)])'
  BY BusAssumption DEF Fits, Key, AdApproved

(* ... ad.deleted, ...                                                     *)
LEMMA FitsDeletion ==
  ASSUME NEW a \in Ad, a \notin listing', NEW c \in {"favorites"}
  PROVE  Fits([to |-> c, event |-> AdDeleted(a)])'
  BY DEF Fits, Key, AdDeleted

(* ... and saved_search.matched.                                           *)
LEMMA FitsMatch ==
  ASSUME NEW s, s.user \in User, NEW a, NEW n, NEW c \in {"delivery"}
  PROVE  Fits([to |-> c, event |-> Matched(s, a, n)])'
  BY DEF Fits, Key, Matched

(* Who hears of which event.                                               *)
LEMMA HeardBy ==
  /\ \A r : Heard(ReviewCreated(r)) \subseteq {"ratings", "delivery"}
  /\ \A u : Heard(UserCreated(u)) \subseteq {"profiles", "recipients"}
  /\ \A id : Heard(ReviewBlocked(id)) \subseteq {"reviews-block"}
  /\ \A a, n : Heard(AdApproved(a, n)) \subseteq {"matcher", "delivery"}
  /\ \A a : Heard(AdDeleted(a)) \subseteq {"favorites"}
  /\ \A s, a, n : Heard(Matched(s, a, n)) \subseteq {"delivery"}
<1>1. /\ \A r : ReviewCreated(r).type = "review.created"
      /\ \A u : UserCreated(u).type = "user.created"
      /\ \A id : ReviewBlocked(id).type = "review.blocked"
      /\ \A a, n : AdApproved(a, n).type = "ad.approved"
      /\ \A a : AdDeleted(a).type = "ad.deleted"
      /\ \A s, a, n : Matched(s, a, n).type = "saved_search.matched"
  BY DEF ReviewCreated, UserCreated, ReviewBlocked, AdApproved, AdDeleted, Matched
<1>2. /\ Subscribers("review.created") = {"ratings", "delivery"}
      /\ Subscribers("user.created") = {"profiles", "recipients"}
      /\ Subscribers("review.blocked") = {"reviews-block"}
      /\ Subscribers("ad.approved") = {"matcher", "delivery"}
      /\ Subscribers("ad.deleted") = {"favorites"}
      /\ Subscribers("saved_search.matched") = {"delivery"}
  BY DEF Subscribers
<1> QED
  BY <1>1, <1>2 DEF Heard

(* The bus after a step of a request, ...                                  *)
LEMMA BusRequests ==
  ASSUME Inv, Advance, Stable, NEW q \in Request, People(q) \/ Searchers(q) \/ RequestStep(q)
  PROVE  BusInv'
<1>0. BusInv /\ InputInv
  BY DEF Inv
<1>1. CASE PostReview(q)
  <2>0. PICK r : r = [id |-> q, ad |-> req[q].ad, author |-> req[q].user,
                      stars |-> req[q].stars, blocked |-> FALSE]
    OBVIOUS
  <2>1. /\ req[q].op = "review" /\ Turn(q, Done) /\ UNCHANGED <<dead, work, processed>>
        /\ Post(ReviewCreated(r)) \/ UNCHANGED <<mail, posted>>
    BY <1>1, <2>0 DEF PostReview, Asks
  <2>2. r.ad \in Ad /\ r.id = q
    BY <1>0, <2>0, <2>1, ByOp DEF ReviewRequests
  <2>3. req'[q] = Done
    BY <1>0, <2>1, Turning
  <2>4. \A c \in {"ratings", "delivery"} : Fits([to |-> c, event |-> ReviewCreated(r)])'
    BY <2>2, <2>3, FitsReview
  <2>5. \A c \in Heard(ReviewCreated(r)) : Fits([to |-> c, event |-> ReviewCreated(r)])'
    BY <2>4, HeardBy
  <2>6. CASE Post(ReviewCreated(r))
    BY <1>0, <2>1, <2>5, <2>6, BusPosts
  <2>7. CASE UNCHANGED <<mail, posted>>
    BY <1>0, <2>1, <2>7, BusRests
  <2> QED
    BY <2>1, <2>6, <2>7
<1>2. CASE People(q)
  BY <1>0, <1>2, BusRests DEF People, WriteReview, UpdateMe, SetPrefs
<1>3. CASE Searchers(q)
  BY <1>0, <1>3, BusRests DEF Searchers, CountSavedSearches
<1>4. CASE GetProfile(q) \/ UpdateProfile(q) \/ DeletePrefs(q) \/ InsertPrefs(q)
  BY <1>0, <1>4, BusRests DEF GetProfile, UpdateProfile, DeletePrefs, InsertPrefs
<1>5. CASE CreateSavedSearch(q)
  BY <1>0, <1>5, BusRests DEF CreateSavedSearch
<1> QED
  BY <1>1, <1>2, <1>3, <1>4, <1>5 DEF RequestStep, ReviewRequest, SearchRequest

(* ... after an input, ...                                                 *)
LEMMA BusElsewhere ==
  ASSUME Inv, Advance, Stable, Elsewhere
  PROVE  BusInv'
<1>0. BusInv
  BY DEF Inv
<1>1. ASSUME NEW u \in User, Register(u) PROVE BusInv'
  <2>1. Post(UserCreated(u)) /\ UNCHANGED <<dead, work, processed>>
    BY <1>1 DEF Register
  <2>2. \A c \in Heard(UserCreated(u)) : Fits([to |-> c, event |-> UserCreated(u)])'
    BY HeardBy, FitsUser
  <2> QED
    BY <1>0, <2>1, <2>2, BusPosts
<1>2. ASSUME NEW r \in reviews, OrderBlock(r) PROVE BusInv'
  <2>1. Post(ReviewBlocked(r.id)) /\ UNCHANGED <<dead, work, processed>>
    BY <1>2 DEF OrderBlock
  <2>2. \A c \in Heard(ReviewBlocked(r.id)) : Fits([to |-> c, event |-> ReviewBlocked(r.id)])'
    BY HeardBy, FitsBlock
  <2> QED
    BY <1>0, <2>1, <2>2, BusPosts
<1>3. ASSUME NEW a \in Ad, DeleteAd(a) PROVE BusInv'
  <2>1. Post(AdDeleted(a)) /\ UNCHANGED <<dead, work, processed>> /\ a \notin listing'
    BY <1>3 DEF DeleteAd
  <2>2. \A c \in Heard(AdDeleted(a)) : Fits([to |-> c, event |-> AdDeleted(a)])'
    BY <2>1, HeardBy, FitsDeletion
  <2> QED
    BY <1>0, <2>1, <2>2, BusPosts
<1>4. ASSUME NEW a \in Ad, Approve(a) PROVE BusInv'
  <2>1. PICK n : n = budget.approvals
    OBVIOUS
  <2>3. Post(AdApproved(a, n)) /\ UNCHANGED <<dead, work, processed>>
    BY <1>4, <2>1 DEF Approve
  <2>2. \A c \in Heard(AdApproved(a, n)) : Fits([to |-> c, event |-> AdApproved(a, n)])'
    BY HeardBy, FitsApproval
  <2> QED
    BY <1>0, <2>2, <2>3, BusPosts
<1>5. ASSUME NEW u, NEW a, AddFavorite(u, a) \/ RemoveFavorite(u, a) PROVE BusInv'
  BY <1>0, <1>5, BusRests DEF AddFavorite, RemoveFavorite
<1>6. ASSUME NEW s, DeleteSavedSearch(s) PROVE BusInv'
  BY <1>0, <1>6, BusRests DEF DeleteSavedSearch
<1> QED
  BY <1>1, <1>2, <1>3, <1>4, <1>5, <1>6 DEF Elsewhere

(* A consumer that is told of neither reviews, nor ads, nor deliveries has *)
(* nothing to be through with.                                             *)
LEMMA OthersComplete ==
  ASSUME NEW p, p.to \in {"reviews-block", "profiles", "recipients"}
  PROVE  Completed(p)'
  BY DEF Completed, Counted, Settled, Sought, Emptied

(* ... after a step of a handler of reviews and profiles: the aggregate is *)
(* stored when it is over, ...                                             *)
LEMMA BusReviews ==
  ASSUME Inv, Advance, Stable, NEW w \in Replica, ReviewHandler(w)
  PROVE  BusInv'
<1>0. BusInv
  BY DEF Inv
<1>k. Key(work[w]).to = work[w].to
  BY DEF Key
<1>1. CASE BlockReview(w)
  <2>1. In(w, "reviews-block", "begin") /\ Go(w, "mark") /\ UNCHANGED <<mail, dead, posted, processed>>
    BY <1>1 DEF BlockReview
  <2>2. Moves(w) /\ work'[w].step = "mark"
    BY <1>0, <2>1, InHolds, GoMoves
  <2> QED
    BY <1>0, <2>1, <2>2, BusMoves
<1>2. CASE MarkBlocked(w)
  <2>1. In(w, "reviews-block", "mark") /\ Go(w, "over") /\ UNCHANGED <<mail, dead, posted>> /\ Marked(w)
    BY <1>2 DEF MarkBlocked
  <2>2. Moves(w) /\ work[w].to = "reviews-block"
    BY <1>0, <2>1, InHolds, GoMoves
  <2>3. Completed(Key(work[w]))'
    BY <1>k, <2>2, OthersComplete DEF Moves
  <2>4. processed' = processed \cup {Key(work[w])}
    BY <2>1 DEF Marked
  <2> QED
    BY <1>0, <2>1, <2>2, <2>3, <2>4, BusMoves
<1>3. CASE GetRating(w)
  <2> DEFINE read == AggregateRating(work[w].event.user)
  <2>1. In(w, "ratings", "begin") /\ GoWith(w, "store", read)
        /\ UNCHANGED <<mail, dead, posted, processed>>
    BY <1>3 DEF GetRating
  <2> HIDE DEF read
  <2>2. Moves(w) /\ work'[w].step = "store"
    BY <1>0, <2>1, InHolds, GoWithMoves
  <2> QED
    BY <1>0, <2>1, <2>2, BusMoves
<1>4. CASE UpsertRatingWithInbox(w)
  <2>1. In(w, "ratings", "store") /\ Go(w, "over") /\ UNCHANGED <<mail, dead, posted>> /\ Marked(w)
    BY <1>4 DEF UpsertRatingWithInbox
  <2>2. Moves(w) /\ work[w].to = "ratings"
    BY <1>0, <2>1, InHolds, GoMoves
  <2>4. processed' = processed \cup {Key(work[w])}
    BY <2>1 DEF Marked
  <2>3. Completed(Key(work[w]))'
    <3>1. Key(work[w])' = Key(work[w])
      BY <2>2 DEF Moves, Key
    <3> QED
      BY <1>k, <2>2, <2>4, <3>1 DEF Completed, Counted, Settled, Sought, Emptied
  <2> QED
    BY <1>0, <2>1, <2>2, <2>3, <2>4, BusMoves
<1>5. CASE CreateProfile(w)
  <2>1. In(w, "profiles", "begin") /\ Go(w, "over") /\ UNCHANGED <<mail, dead, posted>> /\ Marked(w)
    BY <1>5 DEF CreateProfile
  <2>2. Moves(w) /\ work[w].to = "profiles"
    BY <1>0, <2>1, InHolds, GoMoves
  <2>3. Completed(Key(work[w]))'
    BY <1>k, <2>2, OthersComplete DEF Moves
  <2>4. processed' = processed \cup {Key(work[w])}
    BY <2>1 DEF Marked
  <2> QED
    BY <1>0, <2>1, <2>2, <2>3, <2>4, BusMoves
<1> QED
  BY <1>1, <1>2, <1>3, <1>4, <1>5 DEF ReviewHandler

(* ... of notification: the journal knows the event when it is over, ...   *)
LEMMA BusNotes ==
  ASSUME Inv, Advance, Stable, NEW w \in Replica, NoteHandler(w)
  PROVE  BusInv'
<1>0. BusInv
  BY DEF Inv
<1>k. Key(work[w]).to = work[w].to /\ Key(work[w]).event = work[w].event
  BY DEF Key
<1>d. \A off, e : Decided(off, e) \in {"skip", "register"}
  BY DEF Decided
<1>g. ASSUME NEW step, step # "over", work[w] # Idle, UNCHANGED <<mail, dead, posted, processed>>,
             Go(w, step) \/ \E read : GoWith(w, step, read)
      PROVE  BusInv'
  <2>1. Moves(w) /\ work'[w].step = step
    BY <1>0, <1>g, GoMoves, GoWithMoves
  <2> QED
    BY <1>0, <1>g, <2>1, BusMoves
<1>o. ASSUME work[w] # Idle, UNCHANGED <<mail, dead, posted, processed>>, Go(w, "over"),
             work[w].to = "delivery",
             work[w].event \in DOMAIN notes',
             notes'[work[w].event] = "pending" => work[w].event \in abandoned'
      PROVE  BusInv'
  <2>1. Moves(w)
    BY <1>0, <1>o, GoMoves
  <2>2. Key(work[w])' = Key(work[w])
    BY <2>1 DEF Moves, Key
  <2>3. Completed(Key(work[w]))'
    BY <1>k, <1>o, <2>2 DEF Completed, Counted, Settled, Sought, Emptied
  <2> QED
    BY <1>0, <1>o, <2>1, <2>3, BusMoves
<1>1. CASE UpsertRecipient(w)
  <2>1. In(w, "recipients", "begin") /\ Go(w, "over") /\ UNCHANGED <<mail, dead, posted, processed>>
    BY <1>1 DEF UpsertRecipient
  <2>2. Moves(w) /\ work[w].to = "recipients"
    BY <1>0, <2>1, InHolds, GoMoves
  <2>3. Completed(Key(work[w]))'
    BY <1>k, <2>2, OthersComplete DEF Moves
  <2> QED
    BY <1>0, <2>1, <2>2, <2>3, BusMoves
<1>2. CASE GetRecipient(w)
  <2>1. work[w] # Idle
    BY <1>2, InHolds DEF GetRecipient
  <2>2. \/ LetGo(w)
        \/ /\ Go(w, IF channel THEN "prefs" ELSE "skip")
           /\ UNCHANGED <<mail, dead, processed, posted>>
    BY <1>2 DEF GetRecipient
  <2> QED
    BY <1>0, <1>g, <2>1, <2>2, BusLetsGo
<1>3. CASE LookUp(w)
  <2>1. work[w] # Idle /\ UNCHANGED <<mail, dead, posted, processed>>
        /\ \/ Go(w, Decided(Cached(w).off, work[w].event))
           \/ GoWith(w, "fetch", [asked |-> now, off |-> {}])
    BY <1>3, InHolds DEF LookUp
  <2>2. Decided(Cached(w).off, work[w].event) # "over"
    BY <1>d
  <2> QED
    BY <1>g, <2>1, <2>2
<1>4. CASE Fetch(w)
  BY <1>g, <1>4, InHolds DEF Fetch
<1>5. CASE Remember(w)
  <2>1. work[w] # Idle /\ UNCHANGED <<mail, dead, posted, processed>>
        /\ GoWith(w, Decided(work[w].read.off, work[w].event), None)
    BY <1>5, InHolds DEF Remember
  <2>2. Decided(work[w].read.off, work[w].event) # "over"
    BY <1>d
  <2> QED
    BY <1>g, <2>1, <2>2
<1>6. CASE RecordSkipped(w)
  <2> DEFINE e == work[w].event
  <2>1. /\ In(w, "delivery", "skip") /\ Go(w, "over") /\ UNCHANGED <<mail, dead, posted, processed>>
        /\ IF Begun(e) THEN UNCHANGED notes ELSE Noted(e, "skipped")
        /\ abandoned' = IF Begun(e) THEN abandoned \cup {e} ELSE abandoned
    BY <1>6 DEF RecordSkipped
  <2>2. work[w] # Idle /\ work[w].to = "delivery"
    BY <2>1, InHolds
  <2>3. CASE Begun(e)
    BY <1>o, <2>1, <2>2, <2>3 DEF Begun
  <2>4. CASE ~Begun(e)
    <3>1. e \in DOMAIN notes' /\ notes'[e] = "skipped"
      BY <2>1, <2>4 DEF Noted
    <3> QED
      BY <1>o, <2>1, <2>2, <3>1
  <2> QED
    BY <2>3, <2>4
<1>7. CASE BeginDelivery(w)
  <2> DEFINE e == work[w].event
             step == IF Begun(e) /\ notes[e] # "pending" THEN "over" ELSE "send"
  <2>1. /\ In(w, "delivery", "register") /\ Go(w, step) /\ UNCHANGED <<mail, dead, posted, processed>>
        /\ IF Begun(e) THEN UNCHANGED notes ELSE Noted(e, "pending")
    BY <1>7 DEF BeginDelivery
  <2>2. work[w] # Idle /\ work[w].to = "delivery"
    BY <2>1, InHolds
  <2>3. CASE Begun(e) /\ notes[e] # "pending"
    BY <1>o, <2>1, <2>2, <2>3 DEF Begun
  <2>4. CASE ~(Begun(e) /\ notes[e] # "pending")
    BY <1>g, <2>1, <2>2, <2>4
  <2> QED
    BY <2>3, <2>4
<1>8. CASE Send(w)
  BY <1>g, <1>8, InHolds DEF Send, Outcome
<1>9. CASE Mark(w)
  <2>1. In(w, "delivery", "mark") /\ Go(w, "over") /\ UNCHANGED <<mail, dead, posted, processed>>
        /\ Noted(work[w].event, work[w].read)
    BY <1>9 DEF Mark
  <2>2. work[w] # Idle /\ work[w].to = "delivery" /\ work[w].step = "mark"
    BY <2>1, InHolds
  <2>3. work[w].read \in {"sent", "failed"}
    BY <2>2 DEF Inv, NoteInv, NoteRead
  <2>4. work[w].event \in DOMAIN notes' /\ notes'[work[w].event] # "pending"
    BY <2>1, <2>3 DEF Noted
  <2> QED
    BY <1>o, <2>1, <2>2, <2>4
<1> QED
  BY <1>1, <1>2, <1>3, <1>4, <1>5, <1>6, <1>7, <1>8, <1>9 DEF NoteHandler

(* The matcher: what it goes on with, and what it has recorded.            *)
LEMMA SoughtAll ==
  ASSUME SearchTables, NEW w \in Replica, In(w, "matcher", "record"), SoughtBy(w),
         NEW id, NEW s \in searches', Matches(s.query, work[w].event.ad), work[w].read \subseteq {id},
         RecordMatch(w, id)
  PROVE  <<s.id, work[w].event.ad>> \in matches' \cup excused'
<1> DEFINE a == work[w].event.ad
<1>1. PICK x \in SearchOf(id) :
        /\ matches' = matches \cup {<<id, a>>}
        /\ IF <<id, a>> \notin matches /\ ~Soon(x) THEN Alert(x, a)
           ELSE UNCHANGED <<searches, told, mail, posted>>
  BY DEF RecordMatch
<1>2. x \in searches /\ x.id = id /\ excused' = excused
  BY <1>1 DEF RecordMatch, SearchOf
<1>3. PICK y \in searches : y.id = s.id /\ y.query = s.query
  <2>1. CASE searches' = searches
    BY <2>1
  <2>2. CASE Alert(x, a)
    <3> DEFINE t == [x EXCEPT !.notified = now]
    <3>1. searches' = (searches \ {x}) \cup {t}
      BY <2>2 DEF Alert
    <3>2. t.id = x.id /\ t.query = x.query
      BY <1>2 DEF SearchTables, SearchFits
    <3> HIDE DEF t
    <3> QED
      BY <1>2, <3>1, <3>2
  <2> QED
    BY <1>1, <2>1, <2>2
<1>4. y.id \in work[w].read \/ <<y.id, a>> \in matches \cup excused
  BY <1>3 DEF SoughtBy
<1> QED
  BY <1>1, <1>2, <1>3, <1>4

(* To be through with an event, for the consumers that have to be shown.   *)
LEMMA SoughtComplete ==
  ASSUME NEW p, p.to = "matcher",
         \A s \in searches' : Matches(s.query, p.event.ad) =>
           <<s.id, p.event.ad>> \in matches' \cup excused'
  PROVE  Completed(p)'
  BY DEF Completed, Counted, Settled, Sought, Emptied, Matches

(* A match is recorded: the searches stay what they are, or one of them is *)
(* noted to have been told.                                                *)
Recorded(x, t, id, a) ==
  /\ x.id = id /\ t.id = id /\ t.query = x.query /\ t.user = x.user
  /\ matches' = matches \cup {<<id, a>>}
  /\ \/ UNCHANGED <<searches, told, mail, posted>>
     \/ /\ <<id, a>> \notin matches /\ ~Soon(x)
        /\ Alert(x, a)
        /\ searches' = (searches \ {x}) \cup {t}
        /\ t = [id |-> x.id, user |-> x.user, query |-> x.query, notified |-> now]

(* What RecordMatch does to the search that it tells of.                   *)
LEMMA RecordIs ==
  ASSUME SearchTables, NEW w \in Replica, NEW id \in Request, RecordMatch(w, id),
         NEW a, a = work[w].event.ad
  PROVE  \E x \in searches : \E t : Recorded(x, t, id, a)
<1>1. PICK x \in SearchOf(id) :
        /\ matches' = matches \cup {<<id, a>>}
        /\ IF <<id, a>> \notin matches /\ ~Soon(x)
           THEN Alert(x, a)
           ELSE UNCHANGED <<searches, told, mail, posted>>
  BY DEF RecordMatch
<1>2. x \in searches /\ x.id = id
  BY DEF SearchOf
<1>3. x = [id |-> x.id, user |-> x.user, query |-> x.query, notified |-> x.notified]
  BY <1>2 DEF SearchTables, SearchFits
<1>4. [x EXCEPT !.notified = now]
        = [id |-> x.id, user |-> x.user, query |-> x.query, notified |-> now]
  BY <1>3
<1>5. PICK t : t = [id |-> x.id, user |-> x.user, query |-> x.query, notified |-> now]
  OBVIOUS
<1>6. Alert(x, a) => searches' = (searches \ {x}) \cup {t}
  BY <1>4, <1>5 DEF Alert
<1>7. t.id = id /\ t.query = x.query /\ t.user = x.user
  BY <1>2, <1>5
<1>8. Recorded(x, t, id, a)
  BY <1>1, <1>2, <1>5, <1>6, <1>7 DEF Recorded
<1> QED
  BY <1>2, <1>8

(* The matcher goes on with the rest, or is over when there is none.       *)
LEMMA RecordMoves ==
  ASSUME BusInv, NEW w \in Replica, NEW id \in Request, RecordMatch(w, id)
  PROVE  /\ Moves(w) /\ work[w].to = "matcher" /\ work[w].step = "record"
         /\ work'[w].step = (IF work[w].read = {id} THEN "over" ELSE "record")
         /\ work'[w].read = work[w].read \ {id}
<1>1. In(w, "matcher", "record")
      /\ GoWith(w, IF work[w].read = {id} THEN "over" ELSE "record", work[w].read \ {id})
  BY DEF RecordMatch, NextMatch
<1> QED
  BY <1>1, InHolds, GoWithMoves

(* ... of the matcher: all that it found has been gone through when it is  *)
(* over, ...                                                               *)
LEMMA BusRecords ==
  ASSUME BusInv, SearchTables, Advance, Stable, NEW w \in Replica, SoughtBy(w),
         NEW id \in Request, RecordMatch(w, id)
  PROVE  BusInv'
<1>1. PICK a : a = work[w].event.ad
  OBVIOUS
<1>2. PICK x, t :
        /\ x \in searches /\ x.id = id /\ t.id = id /\ t.query = x.query /\ t.user = x.user
        /\ matches' = matches \cup {<<id, a>>}
        /\ \/ UNCHANGED <<searches, told, mail, posted>>
           \/ Alert(x, a) /\ searches' = (searches \ {x}) \cup {t}
  <2>1. \E x \in searches : \E t : Recorded(x, t, id, a)
    BY <1>1, RecordIs
  <2> QED
    BY <2>1 DEF Recorded
<1>3. /\ Moves(w) /\ work[w].to = "matcher" /\ work[w].step = "record"
      /\ work'[w].step = (IF work[w].read = {id} THEN "over" ELSE "record")
  BY RecordMoves
<1>4. UNCHANGED <<dead, processed, excused>>
  BY DEF RecordMatch
<1>5. ASSUME work'[w].step = "over" PROVE Completed(Key(work[w]))'
  <2>1. work[w].read = {id}
    BY <1>3, <1>5
  <2>2. ASSUME NEW s \in searches', Matches(s.query, a) PROVE <<s.id, a>> \in matches' \cup excused'
    <3>1. PICK y \in searches : y.id = s.id /\ y.query = s.query
      BY <1>2
    <3>2. y.id \in work[w].read \/ <<y.id, a>> \in matches \cup excused
      BY <1>1, <1>3, <2>2, <3>1 DEF SoughtBy, In, Moves, BusInv, WorkFits, Running
    <3> QED
      BY <1>2, <1>4, <2>1, <3>1, <3>2
  <2>3. PICK p : p = Key(work[w])
    OBVIOUS
  <2>4. p.to = "matcher" /\ p.event.ad = a
    BY <1>1, <1>3, <2>3 DEF Key
  <2>5. Completed(p)'
    BY <2>2, <2>4, SoughtComplete
  <2>6. Key(work[w])' = Key(work[w])
    BY <1>3 DEF Moves, Key
  <2> QED
    BY <2>3, <2>5, <2>6
<1>6. /\ \A m \in mail' : m \in mail \/ MailFits(m)'
      /\ \A p \in posted' : p \in posted \/ (Fits(p)' /\ InTheMail(p)')
      /\ \A p \in posted : InTheMail(p) => InTheMail(p)'
  <2>1. CASE UNCHANGED <<mail, posted>>
    BY <2>1 DEF InTheMail
  <2>2. CASE Alert(x, a)
    <3>1. PICK n : n = Cardinality(told)
      OBVIOUS
    <3>2. Post(Matched(x, a, n))
      BY <2>2, <3>1 DEF Alert
    <3>3. x.user \in User
      BY <1>2 DEF SearchTables, SearchFits
    <3>4. \A c \in Heard(Matched(x, a, n)) : Fits([to |-> c, event |-> Matched(x, a, n)])'
      BY <3>3, HeardBy, FitsMatch
    <3> QED
      BY <3>2, <3>4, Posting
  <2> QED
    BY <1>2, <2>1, <2>2
<1>7. WorkFits(w)' /\ work' = [v \in Replica |-> work'[v]]
      /\ \A v \in Replica \ {w} : work'[v] = work[v]
  BY <1>3, <1>5, MovesFits
<1> QED
  BY <1>4, <1>6, <1>7, BusStep

(* ... of any handler of searches and favorites, ...                       *)
LEMMA BusSearches ==
  ASSUME Inv, Advance, Stable, NEW w \in Replica, SearchHandler(w)
  PROVE  BusInv'
<1>0. BusInv /\ SearchTables /\ SoughtBy(w)
  BY DEF Inv, SearchInv
<1>k. Key(work[w]).to = work[w].to /\ Key(work[w]).event = work[w].event
  BY DEF Key
<1>1. CASE RemoveByAd(w)
  <2>1. /\ In(w, "favorites", "begin") /\ Go(w, "over") /\ UNCHANGED <<mail, dead, posted, processed>>
        /\ favorites' = {f \in favorites : f[2] # work[w].event.ad}
    BY <1>1 DEF RemoveByAd
  <2>2. Moves(w) /\ work[w].to = "favorites"
    BY <1>0, <2>1, InHolds, GoMoves
  <2>3. Key(work[w])' = Key(work[w])
    BY <2>2 DEF Moves, Key
  <2>4. \A u : <<u, work[w].event.ad>> \notin favorites'
    BY <2>1
  <2>5. Completed(Key(work[w]))'
    BY <1>k, <2>2, <2>3, <2>4 DEF Completed, Counted, Settled, Sought, Emptied
  <2> QED
    BY <1>0, <2>1, <2>2, <2>5, BusMoves
<1>2. CASE FindMatches(w)
  <2> DEFINE a == work[w].event.ad
             found == {s.id : s \in {c \in Candidates(a) : Matches(c.query, a)}}
  <2>1. /\ In(w, "matcher", "begin") /\ UNCHANGED <<mail, dead, posted, processed>>
        /\ IF AdFound(a) /\ found # {} THEN GoWith(w, "record", found) ELSE GoWith(w, "over", {})
        /\ excused' = excused \cup IF AdFound(a) THEN {} ELSE {<<s.id, a>> : s \in searches}
        /\ UNCHANGED <<searches, matches>>
    BY <1>2 DEF FindMatches
  <2>2. work[w] # Idle /\ work[w].to = "matcher"
    BY <2>1, InHolds
  <2>3. CASE AdFound(a) /\ found # {}
    <3>1. Moves(w) /\ work'[w].step = "record"
      BY <1>0, <2>1, <2>2, <2>3, GoWithMoves
    <3> QED
      BY <1>0, <2>1, <3>1, BusMoves
  <2>4. CASE ~(AdFound(a) /\ found # {})
    <3>1. Moves(w)
      BY <1>0, <2>1, <2>2, <2>4, GoWithMoves
    <3>2. Key(work[w])' = Key(work[w])
      BY <3>1 DEF Moves, Key
    <3>3. ASSUME NEW s \in searches', Matches(s.query, a)
          PROVE  <<s.id, a>> \in matches' \cup excused'
      <4>0. s \in searches
        BY <2>1
      <4>1. CASE AdFound(a)
        <5>1. s \in Candidates(a)
          BY <3>3, <4>0 DEF Candidates, Matches
        <5>2. s.id \in found
          BY <3>3, <5>1
        <5> QED
          BY <2>4, <4>1, <5>2
      <4>2. CASE ~AdFound(a)
        BY <2>1, <4>0, <4>2
      <4> QED
        BY <4>1, <4>2
    <3>4. PICK p : p = Key(work[w])
      OBVIOUS
    <3>5. Completed(p)'
      BY <1>k, <2>2, <3>3, <3>4, SoughtComplete
    <3>6. Completed(Key(work[w]))'
      BY <3>2, <3>4, <3>5
    <3> QED
      BY <1>0, <2>1, <3>1, <3>6, BusMoves
  <2> QED
    BY <2>3, <2>4
<1>3. ASSUME NEW id \in Request, RecordMatch(w, id) PROVE BusInv'
  BY <1>0, <1>3, BusRecords
<1>4. ASSUME NEW id \in Request, RecordFails(w, id) PROVE BusInv'
  BY <1>0, <1>4, BusLetsGo DEF RecordFails
<1> QED
  BY <1>1, <1>2, <1>3, <1>4 DEF SearchHandler

(* ... and after a fault.                                                  *)
LEMMA BusFaults ==
  ASSUME Inv, Advance, Stable, Faults
  PROVE  BusInv'
<1>0. BusInv
  BY DEF Inv
<1>1. ASSUME NEW q \in Request, RequestFails(q) PROVE BusInv'
  BY <1>0, <1>1, BusRests DEF RequestFails
<1>2. ASSUME NEW w \in Replica, Break(w) PROVE BusInv'
  BY <1>0, <1>2, BusLetsGo DEF Break
<1>3. ASSUME NEW w \in Replica, SendRefused(w) PROVE BusInv'
  <2>1. work[w] # Idle /\ GoWith(w, "mark", "failed") /\ UNCHANGED <<mail, dead, posted, processed>>
    BY <1>3, InHolds DEF SendRefused, Outcome
  <2>2. Moves(w) /\ work'[w].step = "mark"
    BY <1>0, <2>1, GoWithMoves
  <2> QED
    BY <1>0, <2>1, <2>2, BusMoves
<1>4. ASSUME NEW w \in Replica, SendAgainLater(w) PROVE BusInv'
  BY <1>0, <1>4, BusLetsGo DEF SendAgainLater
<1> QED
  BY <1>1, <1>2, <1>3, <1>4 DEF Faults

(* Every step keeps the bus.                                               *)
LEMMA BusNext ==
  ASSUME Inv, Next
  PROVE  BusInv'
<1>0. BusInv /\ Advance /\ Stable
  BY StableNext DEF Inv
<1>1. ASSUME NEW w \in Replica, HandlerStep(w) PROVE BusInv'
  BY <1>0, <1>1, BusReviews, BusNotes, BusSearches, BusAcknowledges DEF HandlerStep
<1>2. ASSUME NEW w \in Replica, NEW m \in mail, Taking(w, m) PROVE BusInv'
  BY <1>0, <1>2, BusGives DEF Taking
<1>3. ASSUME Time PROVE BusInv'
  BY <1>0, <1>3, BusRests DEF Time, Tick
<1> QED
  BY <1>0, <1>1, <1>2, <1>3, BusRequests, BusElsewhere, BusFaults, NextIs

-----------------------------------------------------------------------------
(***************************************************************************)
(* What a step does to a handler and to a request.                         *)
(***************************************************************************)
Apart(w) == \A v \in Replica \ {w} : work'[v] = work[v]

(* A step of one handler leaves the others alone.                          *)
LEMMA MovesApart ==
  ASSUME BusInv, NEW w \in Replica, Moves(w)
  PROVE  Apart(w)
  BY DEF BusInv, Moves, Apart

(* So does its end.                                                        *)
LEMMA EndsApart ==
  ASSUME BusInv, NEW w \in Replica, LetGo(w) \/ Acknowledge(w)
  PROVE  Apart(w) /\ work'[w] = Idle
<1>1. work' = [work EXCEPT ![w] = Idle] /\ work = [v \in Replica |-> work[v]]
  BY DEF LetGo, Acknowledge, BusInv
<1> QED
  BY <1>1 DEF Apart

(* A handler of reviews or profiles keeps its message; only GetRating      *)
(* makes one ready to store.                                               *)
LEMMA ReviewMoves ==
  ASSUME BusInv, NEW w \in Replica, ReviewHandler(w)
  PROVE  /\ Moves(w) /\ work[w].to \in {"reviews-block", "ratings", "profiles"}
         /\ work'[w].step = "store" => GetRating(w)
<1>1. CASE BlockReview(w)
  <2>1. In(w, "reviews-block", "begin") /\ Go(w, "mark")
    BY <1>1 DEF BlockReview
  <2> QED
    BY <2>1, InHolds, GoMoves
<1>2. CASE MarkBlocked(w)
  <2>1. In(w, "reviews-block", "mark") /\ Go(w, "over")
    BY <1>2 DEF MarkBlocked
  <2> QED
    BY <2>1, InHolds, GoMoves
<1>3. CASE GetRating(w)
  <2>1. In(w, "ratings", "begin") /\ \E read : GoWith(w, "store", read)
    BY <1>3 DEF GetRating
  <2> QED
    BY <1>3, <2>1, InHolds, GoWithMoves
<1>4. CASE UpsertRatingWithInbox(w)
  <2>1. In(w, "ratings", "store") /\ Go(w, "over")
    BY <1>4 DEF UpsertRatingWithInbox
  <2> QED
    BY <2>1, InHolds, GoMoves
<1>5. CASE CreateProfile(w)
  <2>1. In(w, "profiles", "begin") /\ Go(w, "over")
    BY <1>5 DEF CreateProfile
  <2> QED
    BY <2>1, InHolds, GoMoves
<1> QED
  BY <1>1, <1>2, <1>3, <1>4, <1>5 DEF ReviewHandler

(* A handler of notification keeps its message, or lets it go when the     *)
(* recipient is unknown.                                                   *)
LEMMA NoteMoves ==
  ASSUME BusInv, NEW w \in Replica, NoteHandler(w) \/ SendRefused(w)
  PROVE  /\ Moves(w) \/ (Apart(w) /\ work'[w] = Idle /\ GetRecipient(w))
         /\ work[w] # Idle /\ work[w].to \in {"recipients", "delivery"}
<1>g. ASSUME NEW c \in {"recipients", "delivery"}, NEW step, In(w, c, step),
             (\E s : Go(w, s)) \/ (\E s, read : GoWith(w, s, read))
      PROVE  Moves(w) /\ work[w] # Idle /\ work[w].to \in {"recipients", "delivery"}
  <2>1. work[w] # Idle /\ work[w].to = c
    BY <1>g, InHolds
  <2> QED
    BY <1>g, <2>1, GoMoves, GoWithMoves
<1>1. CASE GetRecipient(w)
  <2>1. In(w, "delivery", "begin") /\ (LetGo(w) \/ \E s : Go(w, s))
    BY <1>1 DEF GetRecipient
  <2>2. work[w] # Idle /\ work[w].to = "delivery"
    BY <2>1, InHolds
  <2> QED
    BY <1>1, <1>g, <2>1, <2>2, EndsApart
<1>2. CASE UpsertRecipient(w)
  <2>1. In(w, "recipients", "begin") /\ Go(w, "over")
    BY <1>2 DEF UpsertRecipient
  <2> QED
    BY <1>g, <2>1
<1>3. CASE LookUp(w)
  <2>1. In(w, "delivery", "prefs") /\ ((\E s : Go(w, s)) \/ \E s, read : GoWith(w, s, read))
    BY <1>3 DEF LookUp
  <2> QED
    BY <1>g, <2>1
<1>4. CASE Fetch(w)
  <2>1. In(w, "delivery", "fetch") /\ \E s, read : GoWith(w, s, read)
    BY <1>4 DEF Fetch
  <2> QED
    BY <1>g, <2>1
<1>5. CASE Remember(w)
  <2>1. In(w, "delivery", "answer") /\ \E s, read : GoWith(w, s, read)
    BY <1>5 DEF Remember
  <2> QED
    BY <1>g, <2>1
<1>6. CASE RecordSkipped(w)
  <2>1. In(w, "delivery", "skip") /\ Go(w, "over")
    BY <1>6 DEF RecordSkipped
  <2> QED
    BY <1>g, <2>1
<1>7. CASE BeginDelivery(w)
  <2>1. In(w, "delivery", "register") /\ \E s : Go(w, s)
    BY <1>7 DEF BeginDelivery
  <2> QED
    BY <1>g, <2>1
<1>8. CASE Send(w) \/ SendRefused(w)
  <2>1. In(w, "delivery", "send") /\ \E s, read : GoWith(w, s, read)
    BY <1>8 DEF Send, SendRefused, Outcome
  <2> QED
    BY <1>g, <2>1
<1>9. CASE Mark(w)
  <2>1. In(w, "delivery", "mark") /\ Go(w, "over")
    BY <1>9 DEF Mark
  <2> QED
    BY <1>g, <2>1
<1> QED
  BY <1>1, <1>2, <1>3, <1>4, <1>5, <1>6, <1>7, <1>8, <1>9 DEF NoteHandler

(* The matcher goes through what it found at the beginning.                *)
LEMMA SearchMoves ==
  ASSUME BusInv, NEW w \in Replica, SearchHandler(w)
  PROVE  /\ Moves(w) \/ (Apart(w) /\ work'[w] = Idle)
         /\ work[w] # Idle /\ work[w].to \in {"matcher", "favorites"}
         /\ Moves(w) /\ work'[w].step = "record" =>
              FindMatches(w) \/ \E id \in Request : RecordMatch(w, id)
<1>1. CASE RemoveByAd(w)
  <2>1. In(w, "favorites", "begin") /\ Go(w, "over")
    BY <1>1 DEF RemoveByAd
  <2> QED
    BY <2>1, InHolds, GoMoves
<1>2. CASE FindMatches(w)
  <2>1. In(w, "matcher", "begin") /\ \E s, read : GoWith(w, s, read)
    BY <1>2 DEF FindMatches
  <2> QED
    BY <1>2, <2>1, InHolds, GoWithMoves
<1>3. ASSUME NEW id \in Request, RecordMatch(w, id)
      PROVE  Moves(w) /\ work[w] # Idle /\ work[w].to \in {"matcher", "favorites"}
  BY <1>3, RecordMoves DEF Moves
<1>4. ASSUME NEW id \in Request, RecordFails(w, id)
      PROVE  /\ Apart(w) /\ work'[w] = Idle /\ work[w] # Idle /\ ~Moves(w)
             /\ work[w].to \in {"matcher", "favorites"}
  BY <1>4, EndsApart, InHolds DEF RecordFails, Moves
<1> QED
  BY <1>1, <1>2, <1>3, <1>4 DEF SearchHandler

(* A message is taken by a replica that has none.                          *)
LEMMA GiveApart ==
  ASSUME BusInv, NEW w \in Replica, NEW m \in mail, Give(w, m)
  PROVE  Apart(w) /\ work[w] = Idle /\ work'[w] = Handler(m)
<1>1. work' = [work EXCEPT ![w] = Handler(m)] /\ work = [v \in Replica |-> work[v]] /\ work[w] = Idle
  BY DEF Give, BusInv
<1> QED
  BY <1>1 DEF Apart

(* What may become of a handler.                                           *)
Hand(v) ==
  \/ work'[v] = work[v]
  \/ work'[v] = Idle /\ work[v] # Idle
  \/ work[v] = Idle /\ \E m \in mail : Taking(v, m) /\ work'[v] = Handler(m)
  \/ Moves(v) /\ ReviewHandler(v) /\ work[v].to \in {"reviews-block", "ratings", "profiles"}
  \/ Moves(v) /\ (NoteHandler(v) \/ SendRefused(v)) /\ work[v].to \in {"recipients", "delivery"}
  \/ Moves(v) /\ SearchHandler(v) /\ work[v].to \in {"matcher", "favorites"}

(* Every step does one of these to every handler.                          *)
LEMMA HandNext ==
  ASSUME Inv, Next
  PROVE  \A v \in Replica : Hand(v)
<1>0. BusInv
  BY DEF Inv
<1>a. ASSUME NEW w \in Replica, Apart(w), Hand(w) PROVE \A v \in Replica : Hand(v)
  BY <1>a DEF Apart, Hand
<1>u. work' = work => \A v \in Replica : Hand(v)
  BY DEF Hand
<1>1. ASSUME NEW q \in Request, People(q) \/ Searchers(q) \/ RequestStep(q) PROVE work' = work
  BY <1>1 DEF People, WriteReview, UpdateMe, SetPrefs, Searchers, CountSavedSearches, RequestStep,
              ReviewRequest, SearchRequest, PostReview, GetProfile, UpdateProfile, DeletePrefs,
              InsertPrefs, CreateSavedSearch
<1>2. ASSUME Elsewhere PROVE work' = work
  BY <1>2 DEF Elsewhere, Register, OrderBlock, AddFavorite, RemoveFavorite, DeleteAd, Approve,
              DeleteSavedSearch
<1>3. ASSUME NEW w \in Replica, HandlerStep(w) PROVE \A v \in Replica : Hand(v)
  <2>1. CASE ReviewHandler(w)
    BY <1>0, <1>a, <2>1, ReviewMoves, MovesApart DEF Hand
  <2>2. CASE NoteHandler(w)
    BY <1>0, <1>a, <2>2, NoteMoves, MovesApart DEF Hand
  <2>3. CASE SearchHandler(w)
    BY <1>0, <1>a, <2>3, SearchMoves, MovesApart DEF Hand
  <2>4. CASE Acknowledge(w)
    <3>1. work[w] # Idle
      BY <2>4, DoneIsNot DEF Acknowledge
    <3> QED
      BY <1>0, <1>a, <2>4, <3>1, EndsApart DEF Hand
  <2> QED
    BY <1>3, <2>1, <2>2, <2>3, <2>4 DEF HandlerStep
<1>4. ASSUME NEW w \in Replica, NEW m \in mail, Taking(w, m) PROVE \A v \in Replica : Hand(v)
  <2>1. Apart(w) /\ work[w] = Idle /\ work'[w] = Handler(m)
    BY <1>0, <1>4, GiveApart DEF Taking
  <2> QED
    BY <1>4, <1>a, <2>1 DEF Hand
<1>5. ASSUME Faults PROVE \A v \in Replica : Hand(v)
  <2>1. ASSUME NEW q \in Request, RequestFails(q) PROVE work' = work
    BY <2>1 DEF RequestFails
  <2>2. ASSUME NEW w \in Replica, Break(w) PROVE \A v \in Replica : Hand(v)
    BY <1>0, <1>a, <2>2, EndsApart DEF Break, Hand
  <2>3. ASSUME NEW w \in Replica, SendRefused(w) PROVE \A v \in Replica : Hand(v)
    BY <1>0, <1>a, <2>3, NoteMoves, MovesApart, InHolds DEF Hand, SendRefused, GetRecipient
  <2>4. ASSUME NEW w \in Replica, SendAgainLater(w) PROVE \A v \in Replica : Hand(v)
    BY <1>0, <1>a, <2>4, EndsApart, InHolds DEF SendAgainLater, Hand
  <2> QED
    BY <1>5, <1>u, <2>1, <2>2, <2>3, <2>4 DEF Faults
<1>6. ASSUME Time PROVE work' = work
  BY <1>6 DEF Time, Tick
<1> QED
  BY <1>1, <1>2, <1>3, <1>4, <1>5, <1>6, <1>u, NextIs

(* What may become of a request.                                           *)
Asked(q) ==
  \/ req'[q] = req[q]
  \/ req'[q] = Done
  \/ GetProfile(q) \/ DeletePrefs(q)
  \/ \E u \in budget.people, a \in Ad, s \in budget.stars :
       WriteReview(q, u, a, s) /\ req'[q].op = "review"
  \/ \E u \in budget.people, f \in Field : UpdateMe(q, u, f)
  \/ \E u \in budget.people, list \in budget.lists : SetPrefs(q, u, list) /\ req'[q].op = "put"
  \/ \E u \in budget.people, query \in budget.queries :
       CountSavedSearches(q, u, query) /\ req'[q].op = "search"

(* Every step does one of these to every request.                          *)
LEMMA AskedNext ==
  ASSUME Inv, Next
  PROVE  \A q \in Request : Asked(q)
<1>0. InputInv
  BY DEF Inv
<1>u. req' = req => \A q \in Request : Asked(q)
  BY DEF Asked
<1>a. ASSUME NEW q \in Request, NEW r, Turn(q, r), Asked(q) PROVE \A p \in Request : Asked(p)
  BY <1>0, <1>a, Turning DEF Asked
<1>d. ASSUME NEW q \in Request, Turn(q, Done) PROVE \A p \in Request : Asked(p)
  BY <1>0, <1>a, <1>d, Turning DEF Asked
<1>1. ASSUME NEW q \in Request, People(q) PROVE \A p \in Request : Asked(p)
  <2>1. ASSUME NEW u \in budget.people, NEW a \in Ad, NEW s \in budget.stars,
               WriteReview(q, u, a, s)
        PROVE  \A p \in Request : Asked(p)
    <3> DEFINE r == [op |-> "review", step |-> "insert", ad |-> a, user |-> u, stars |-> s]
    <3>1. Turn(q, Done) \/ Turn(q, r)
      BY <2>1 DEF WriteReview
    <3>2. CASE Turn(q, r)
      <4>1. req'[q].op = "review"
        BY <1>0, <3>2, Turning
      <4>2. Asked(q)
        BY <2>1, <4>1 DEF Asked
      <4> QED
        BY <1>a, <3>2, <4>2
    <3> QED
      BY <1>d, <3>1, <3>2
  <2>2. ASSUME NEW u \in budget.people, NEW f \in Field, UpdateMe(q, u, f)
        PROVE  \A p \in Request : Asked(p)
    <3>1. \E r : Turn(q, r)
      BY <2>2 DEF UpdateMe
    <3>2. Asked(q)
      BY <2>2 DEF Asked
    <3> QED
      BY <1>a, <3>1, <3>2
  <2>3. ASSUME NEW u \in budget.people, NEW list \in budget.lists, SetPrefs(q, u, list)
        PROVE  \A p \in Request : Asked(p)
    <3> DEFINE r == [op |-> "put", step |-> "delete", user |-> u, gone |-> {},
          rows |-> {[group |-> x.group, enabled |-> x.enabled, by |-> q] : x \in list}]
    <3>1. Turn(q, Done) \/ Turn(q, r)
      BY <2>3 DEF SetPrefs
    <3>2. CASE Turn(q, r)
      <4>1. req'[q].op = "put"
        BY <1>0, <3>2, Turning
      <4>2. Asked(q)
        BY <2>3, <4>1 DEF Asked
      <4> QED
        BY <1>a, <3>2, <4>2
    <3> QED
      BY <1>d, <3>1, <3>2
  <2> QED
    BY <1>1, <2>1, <2>2, <2>3 DEF People
<1>2. ASSUME NEW q \in Request, Searchers(q) PROVE \A p \in Request : Asked(p)
  <2>1. PICK u \in budget.people, query \in budget.queries : CountSavedSearches(q, u, query)
    BY <1>2 DEF Searchers
  <2> DEFINE r == [op |-> "search", step |-> "insert", user |-> u, query |-> query]
  <2>2. Turn(q, Done) \/ Turn(q, r)
    BY <2>1 DEF CountSavedSearches
  <2>3. CASE Turn(q, r)
    <3>1. req'[q].op = "search"
      BY <1>0, <2>3, Turning
    <3>2. Asked(q)
      BY <2>1, <3>1 DEF Asked
    <3> QED
      BY <1>a, <2>3, <3>2
  <2> QED
    BY <1>d, <2>2, <2>3
<1>3. ASSUME NEW q \in Request, RequestStep(q) PROVE \A p \in Request : Asked(p)
  <2>1. CASE PostReview(q) \/ UpdateProfile(q) \/ InsertPrefs(q) \/ CreateSavedSearch(q)
    BY <1>d, <2>1 DEF PostReview, UpdateProfile, InsertPrefs, CreateSavedSearch
  <2>2. CASE GetProfile(q) \/ DeletePrefs(q)
    <3>1. Asked(q) /\ \E r : Turn(q, r)
      BY <2>2 DEF Asked, GetProfile, DeletePrefs
    <3> QED
      BY <1>a, <3>1
  <2> QED
    BY <1>3, <2>1, <2>2 DEF RequestStep, ReviewRequest, SearchRequest
<1>4. ASSUME NEW w \in Replica, HandlerStep(w) PROVE req' = req
  BY <1>4, HandlerKept DEF inputs
<1>5. ASSUME Faults PROVE \A p \in Request : Asked(p)
  BY <1>5, <1>u, <1>d DEF Faults, RequestFails, Break, SendRefused, SendAgainLater
<1>6. ASSUME NEW w \in Replica, NEW m \in mail, Taking(w, m) PROVE req' = req
  BY <1>0, <1>6, TakingKept
<1> QED
  BY <1>0, <1>1, <1>2, <1>3, <1>4, <1>5, <1>6, <1>u, ElsewhereKept, TimeKept, NextIs

-----------------------------------------------------------------------------
(***************************************************************************)
(* The ratings.                                                            *)
(***************************************************************************)
LEMMA SameAggregate ==
  ASSUME NEW u, ListByTarget(u)' = ListByTarget(u)
  PROVE  AggregateRating(u)' = AggregateRating(u)
  BY DEF AggregateRating

(* The aggregate of no reviews.                                            *)
LEMMA NoAggregate ==
  ASSUME NEW u, ListByTarget(u) = {}
  PROVE  AggregateRating(u) = NoRating
<1>1. Cardinality({}) = 0 /\ \A f : SumFunctionOnSet(f, {}) = 0
  BY FS_EmptySet, SumOfNone
<1> QED
  BY <1>1 DEF NoRating, AggregateRating

(* No handler becomes ready to store, and no review is counted.            *)
ReadingStays(w) == work'[w] = work[w] \/ ~In(w, "ratings", "store")'
CountingStays ==
  /\ posted \subseteq posted' /\ budget'.consumers = budget.consumers
  /\ \A p \in processed' \ processed : p.to # "ratings"

(* Neither reviews nor aggregates are touched.                             *)
RatingQuiet ==
  /\ UNCHANGED <<reviews, rated, raced, unheard>> /\ CountingStays
  /\ \A w \in Replica : ReadingStays(w)

(* What waits to be counted still waits.                                   *)
LEMMA CountingKept ==
  ASSUME CountingStays, NEW u
  PROVE  Uncounted(u) \subseteq Uncounted(u)'
  BY DEF CountingStays, Uncounted

(* Steps that touch no review and no aggregate keep the ratings.           *)
LEMMA RatingRests ==
  ASSUME RatingInv, RatingQuiet
  PROVE  RatingInv'
<1>0. UNCHANGED <<reviews, rated, raced, unheard>> /\ CountingStays
      /\ budget'.consumers = budget.consumers
  BY DEF RatingQuiet, CountingStays
<1>1. \A u : AggregateRating(u)' = AggregateRating(u)
  BY <1>0, SameAggregate DEF ListByTarget
<1>2. ASSUME NEW u \in User PROVE RatingKept(u)'
  <2>1. RatingKept(u) /\ Uncounted(u) \subseteq Uncounted(u)'
    BY <1>0, CountingKept DEF RatingInv
  <2> QED
    BY <1>0, <1>1, <2>1 DEF RatingKept
<1>3. ASSUME NEW w \in Replica PROVE RatingRead(w)'
  <2> SUFFICES ASSUME In(w, "ratings", "store")' PROVE RatingRead(w)'
    BY DEF RatingRead
  <2>1. work'[w] = work[w] /\ RatingRead(w)
    BY DEF RatingQuiet, ReadingStays, RatingInv
  <2>2. In(w, "ratings", "store") /\ Key(work[w])' = Key(work[w])
    BY <2>1 DEF In, Key
  <2>3. PICK u : u = work[w].event.user
    OBVIOUS
  <2>4. Uncounted(u) \subseteq Uncounted(u)'
    BY <1>0, CountingKept
  <2>5. "ratings" \in budget.consumers /\ u \notin raced /\ w \notin unheard[u]
        => work[w].read = AggregateRating(u) \/ \E p \in Uncounted(u) : p # Key(work[w])
    BY <2>1, <2>2, <2>3 DEF RatingRead
  <2>6. AggregateRating(u)' = AggregateRating(u) /\ work'[w].event.user = u
    BY <1>1, <2>1, <2>3
  <2>7. "ratings" \in budget'.consumers /\ u \notin raced' /\ w \notin unheard'[u]
        => work'[w].read = AggregateRating(u)' \/ \E p \in Uncounted(u)' : p # Key(work'[w])
    BY <1>0, <2>1, <2>4, <2>5, <2>6
  <2> QED
    BY <2>6, <2>7 DEF RatingRead
<1> QED
  BY <1>2, <1>3 DEF RatingInv

(* All steps are of that kind but four.                                    *)
LEMMA RatingSteps ==
  ASSUME Inv, Next
  PROVE  \/ RatingQuiet
         \/ \E q \in Request : PostReview(q)
         \/ \E w \in Replica : BlockReview(w) \/ GetRating(w) \/ UpsertRatingWithInbox(w)
<1>0. BusInv /\ InputInv /\ Advance /\ budget'.consumers = budget.consumers
  BY InputsNext DEF Inv
<1>h. \A v \in Replica : Hand(v)
  BY HandNext
<1> SUFFICES ASSUME \A q \in Request : ~PostReview(q),
                    \A w \in Replica : ~BlockReview(w) /\ ~GetRating(w) /\ ~UpsertRatingWithInbox(w)
             PROVE  RatingQuiet
  OBVIOUS
<1>1. ASSUME NEW w \in Replica PROVE ReadingStays(w)
  <2> SUFFICES ASSUME In(w, "ratings", "store")', work'[w] # work[w] PROVE FALSE
    BY DEF ReadingStays
  <2>1. work'[w].op = "handle" /\ work'[w].to = "ratings" /\ work'[w].step = "store"
    BY DEF In
  <2>2. work'[w] # Idle /\ \A m : Handler(m).step # "store"
    BY <2>1, DoneIsNot DEF Handler
  <2>3. Moves(w) => work[w].to = "ratings"
    BY <2>1 DEF Moves, Key
  <2>4. Hand(w)
    BY <1>h
  <2> QED
    BY <1>0, <2>1, <2>2, <2>3, <2>4, ReviewMoves DEF Hand
<1>2. UNCHANGED <<reviews, rated, raced, unheard, processed>>
      \/ \E w \in Replica : (MarkBlocked(w) \/ CreateProfile(w))
  <2>1. ASSUME NEW q \in Request, People(q) \/ Searchers(q) \/ RequestStep(q)
        PROVE  UNCHANGED <<reviews, rated, raced, unheard, processed>>
    BY <2>1 DEF People, WriteReview, UpdateMe, SetPrefs, Searchers, CountSavedSearches, RequestStep,
                ReviewRequest, SearchRequest, GetProfile, UpdateProfile, DeletePrefs,
                InsertPrefs, CreateSavedSearch
  <2>2. ASSUME Elsewhere PROVE UNCHANGED <<reviews, rated, raced, unheard, processed>>
    BY <2>2 DEF Elsewhere, Register, OrderBlock, AddFavorite, RemoveFavorite, DeleteAd, Approve,
                DeleteSavedSearch
  <2>3. ASSUME NEW w \in Replica, HandlerStep(w)
        PROVE  UNCHANGED <<reviews, rated, raced, unheard, processed>>
               \/ MarkBlocked(w) \/ CreateProfile(w)
    <3>1. CASE ReviewHandler(w)
      BY <3>1 DEF ReviewHandler
    <3>2. CASE NoteHandler(w)
      BY <3>2 DEF NoteHandler, UpsertRecipient, GetRecipient, LetGo, LookUp, Fetch, Remember,
                  RecordSkipped, BeginDelivery, Send, Mark
    <3>3. CASE SearchHandler(w) /\ UNCHANGED profileVars
      BY <3>3 DEF SearchHandler, RemoveByAd, FindMatches, RecordMatch, RecordFails, LetGo
    <3>4. CASE Acknowledge(w) /\ UNCHANGED profileVars
      BY <3>4 DEF Acknowledge
    <3> QED
      BY <2>3, <3>1, <3>2, <3>3, <3>4 DEF HandlerStep
  <2>4. ASSUME NEW w \in Replica, NEW m \in mail, Taking(w, m)
        PROVE  UNCHANGED <<reviews, rated, raced, unheard, processed>>
    BY <2>4 DEF Taking, Give
  <2>5. ASSUME Faults PROVE UNCHANGED <<reviews, rated, raced, unheard, processed>>
    BY <2>5 DEF Faults, RequestFails, Break, LetGo, SendRefused, SendAgainLater
  <2>6. ASSUME Time PROVE UNCHANGED <<reviews, rated, raced, unheard, processed>>
    BY <2>6 DEF Time, Tick
  <2> QED
    BY <2>1, <2>2, <2>3, <2>4, <2>5, <2>6, NextIs
<1>3. CASE UNCHANGED <<reviews, rated, raced, unheard, processed>>
  BY <1>0, <1>1, <1>3 DEF RatingQuiet, CountingStays, Advance
<1>4. ASSUME NEW w \in Replica, MarkBlocked(w) \/ CreateProfile(w) PROVE RatingQuiet
  <2>1. /\ UNCHANGED <<reviews, rated, raced, unheard>> /\ processed' = processed \cup {Key(work[w])}
        /\ In(w, "reviews-block", "mark") \/ In(w, "profiles", "begin")
    BY <1>4 DEF MarkBlocked, CreateProfile, Marked
  <2>2. Key(work[w]).to # "ratings"
    BY <2>1 DEF In, Key
  <2> QED
    BY <1>0, <1>1, <2>1, <2>2 DEF RatingQuiet, CountingStays, Advance
<1> QED
  BY <1>2, <1>3, <1>4

(* A review is posted: it waits to be counted.                             *)
LEMMA RatingPosts ==
  ASSUME Inv, OnlyMore, NEW q \in Request, PostReview(q)
  PROVE  RatingInv'
<1>0. BusInv /\ InputInv /\ RatingInv
  BY DEF Inv
<1>1. PICK r : r = [id |-> q, ad |-> req[q].ad, author |-> req[q].user,
                    stars |-> req[q].stars, blocked |-> FALSE]
  OBVIOUS
<1>2. /\ Asks(q, "review", "insert") /\ UNCHANGED <<work, processed, budget, rated, raced, unheard>>
      /\ IF Duplicate(q) THEN UNCHANGED <<reviews, mail, posted>>
         ELSE reviews' = reviews \cup {r} /\ Post(ReviewCreated(r))
  BY <1>1 DEF PostReview
<1>3. CASE Duplicate(q)
  BY <1>0, <1>2, <1>3, RatingRests DEF RatingQuiet, CountingStays, ReadingStays
<1>4. CASE ~Duplicate(q)
  <2> DEFINE o == Owner(r.ad)
             letter == [to |-> "ratings", event |-> ReviewCreated(r)]
  <2>1. r.ad \in Ad /\ r.id = q /\ req[q] # Done
    BY <1>0, <1>1, <1>2, ByOp, AsksIsOpen DEF Asks, ReviewRequests
  <2>2. ReviewCreated(r).type = "review.created" /\ ReviewCreated(r).user = o
        /\ ReviewCreated(r).review = q
    BY <2>1 DEF ReviewCreated
  <2>3. letter \notin posted
    <3> SUFFICES ASSUME letter \in posted PROVE FALSE
      OBVIOUS
    <3>1. Fits(letter) /\ letter.to = "ratings" /\ letter.event = ReviewCreated(r)
      BY <1>0 DEF BusInv
    <3> QED
      BY <2>1, <2>2, <3>1 DEF Fits
  <2>4. "ratings" \in budget.consumers => letter \in posted'
    <3>1. "ratings" \in Subscribers("review.created")
      BY DEF Subscribers
    <3> QED
      BY <1>2, <1>4, <2>2, <3>1 DEF Post, Heard
  <2>5. letter \notin processed'
    BY <1>0, <1>2, <2>3 DEF BusInv
  <2>6. \A u : Uncounted(u) \subseteq Uncounted(u)'
    BY <1>2 DEF Uncounted, OnlyMore
  <2>7. "ratings" \in budget.consumers => letter \in Uncounted(o)'
    BY <2>2, <2>4, <2>5 DEF Uncounted
  <2>8. ASSUME NEW u, u # o PROVE AggregateRating(u)' = AggregateRating(u)
    <3>1. ListByTarget(u)' = ListByTarget(u)
      BY <1>2, <1>4, <2>8 DEF ListByTarget
    <3> QED
      BY <3>1, SameAggregate
  <2>9. ASSUME NEW u \in User PROVE RatingKept(u)'
    <3>1. RatingKept(u)
      BY <1>0 DEF RatingInv
    <3>2. CASE u = o
      BY <1>2, <2>7, <3>2 DEF RatingKept
    <3>3. CASE u # o
      BY <1>2, <2>6, <2>8, <3>1, <3>3 DEF RatingKept
    <3> QED
      BY <3>2, <3>3
  <2>10. ASSUME NEW w \in Replica PROVE RatingRead(w)'
    <3> SUFFICES ASSUME In(w, "ratings", "store")' PROVE RatingRead(w)'
      BY DEF RatingRead
    <3>1. In(w, "ratings", "store") /\ work'[w] = work[w] /\ Key(work[w])' = Key(work[w])
      BY <1>2 DEF In, Key
    <3>2. Key(work[w]) \in posted
      BY <1>0, <3>1, InHolds DEF BusInv, WorkFits
    <3>3. PICK u : u = work[w].event.user
      OBVIOUS
    <3>4. "ratings" \in budget.consumers /\ u \notin raced /\ w \notin unheard[u]
          => work[w].read = AggregateRating(u) \/ \E p \in Uncounted(u) : p # Key(work[w])
      BY <1>0, <3>1, <3>3 DEF RatingInv, RatingRead
    <3>5. "ratings" \in budget'.consumers /\ u \notin raced' /\ w \notin unheard'[u]
          => work'[w].read = AggregateRating(u)' \/ \E p \in Uncounted(u)' : p # Key(work'[w])
      <4>1. CASE u = o
        BY <1>2, <2>3, <2>7, <3>1, <3>2, <4>1
      <4>2. CASE u # o
        BY <1>2, <2>6, <2>8, <3>1, <3>4, <4>2
      <4> QED
        BY <4>1, <4>2
    <3> QED
      BY <3>1, <3>3, <3>5 DEF RatingRead
  <2> QED
    BY <2>9, <2>10 DEF RatingInv
<1> QED
  BY <1>3, <1>4

(* A review is blocked: what has been read before it may lack it.          *)
LEMMA RatingBlocks ==
  ASSUME Inv, NEW w \in Replica, BlockReview(w)
  PROVE  RatingInv'
<1>0. BusInv /\ RatingInv
  BY DEF Inv
<1>1. PICK hit : hit = {r \in reviews : r.id = work[w].event.review /\ ~r.blocked}
  OBVIOUS
<1>2. /\ In(w, "reviews-block", "begin") /\ Go(w, "mark")
      /\ reviews' = (reviews \ hit) \cup {[r EXCEPT !.blocked = TRUE] : r \in hit}
      /\ unheard' = [u \in User |-> IF \E r \in hit : Owner(r.ad) = u THEN Replica \cup {None}
                                    ELSE unheard[u]]
      /\ UNCHANGED <<posted, processed, budget, rated, raced>>
  BY <1>1 DEF BlockReview
<1>3. Moves(w) /\ Apart(w) /\ work[w].to = "reviews-block"
  BY <1>0, <1>2, InHolds, GoMoves, MovesApart
<1>4. \A u : Uncounted(u)' = Uncounted(u)
  BY <1>2 DEF Uncounted
<1>5. ASSUME NEW u \in User, ~\E r \in hit : Owner(r.ad) = u
      PROVE  AggregateRating(u)' = AggregateRating(u) /\ unheard'[u] = unheard[u]
  <2>1. \A r \in hit : Owner(r.ad) # u /\ r \in reviews
    BY <1>1, <1>5
  <2>2. \A r \in hit : [r EXCEPT !.blocked = TRUE].ad = r.ad
    BY <1>1 DEF Inv, ProfileTables, Review
  <2>3. ListByTarget(u)' = ListByTarget(u)
    BY <1>2, <2>1, <2>2 DEF ListByTarget
  <2> QED
    BY <1>2, <1>5, <2>3, SameAggregate
<1>6. ASSUME NEW u \in User, \E r \in hit : Owner(r.ad) = u
      PROVE  unheard'[u] = Replica \cup {None}
  BY <1>2, <1>6
<1>7. ASSUME NEW u \in User PROVE RatingKept(u)'
  <2>1. RatingKept(u)
    BY <1>0 DEF RatingInv
  <2> QED
    BY <1>2, <1>4, <1>5, <1>6, <2>1 DEF RatingKept
<1>8. ASSUME NEW v \in Replica PROVE RatingRead(v)'
  <2> SUFFICES ASSUME In(v, "ratings", "store")' PROVE RatingRead(v)'
    BY DEF RatingRead
  <2>1. v # w
    BY <1>3 DEF In, Moves, Key
  <2>2. work'[v] = work[v] /\ In(v, "ratings", "store") /\ Key(work[v])' = Key(work[v])
    BY <1>3, <2>1 DEF Apart, In, Key
  <2>3. PICK u : u = work[v].event.user
    OBVIOUS
  <2>u. u \in User
    <3>1. Fits(Key(work[v])) /\ Key(work[v]).to = "ratings" /\ Key(work[v]).event = work[v].event
      BY <1>0, <2>2, InHolds DEF BusInv, WorkFits, Key
    <3> QED
      BY <2>3, <3>1 DEF Fits
  <2>4. "ratings" \in budget.consumers /\ u \notin raced /\ v \notin unheard[u]
        => work[v].read = AggregateRating(u) \/ \E p \in Uncounted(u) : p # Key(work[v])
    BY <1>0, <2>2, <2>3 DEF RatingInv, RatingRead
  <2>5. "ratings" \in budget'.consumers /\ u \notin raced' /\ v \notin unheard'[u]
        => work'[v].read = AggregateRating(u)' \/ \E p \in Uncounted(u)' : p # Key(work'[v])
    BY <1>2, <1>4, <1>5, <1>6, <2>2, <2>4, <2>u
  <2> QED
    BY <2>2, <2>3, <2>5 DEF RatingRead
<1> QED
  BY <1>7, <1>8 DEF RatingInv

(* A replica asks for the aggregate.                                       *)
LEMMA RatingReads ==
  ASSUME Inv, NEW w \in Replica, GetRating(w)
  PROVE  RatingInv'
<1>0. BusInv /\ RatingInv /\ unheard \in [User -> SUBSET (Replica \cup {None})]
  BY DEF Inv, ProfileTables
<1>1. PICK o : o = work[w].event.user
  OBVIOUS
<1>2. PICK sum : sum = AggregateRating(o)
  OBVIOUS
<1>3. /\ In(w, "ratings", "begin") /\ GoWith(w, "store", sum)
      /\ unheard' = [unheard EXCEPT ![o] = @ \ {w}]
      /\ UNCHANGED <<reviews, posted, processed, budget, rated, raced>>
  BY <1>1, <1>2 DEF GetRating
<1>4. Moves(w) /\ Apart(w) /\ work[w].to = "ratings" /\ work'[w].read = sum
      /\ work'[w].event = work[w].event
  BY <1>0, <1>3, InHolds, GoWithMoves, MovesApart DEF Moves, Key
<1>5. \A u : Uncounted(u)' = Uncounted(u) /\ AggregateRating(u)' = AggregateRating(u)
  BY <1>3, SameAggregate DEF Uncounted, ListByTarget
<1>6. \A u \in User : None \in unheard[u] => None \in unheard'[u]
  BY <1>0, <1>3, BusAssumption
<1>7. \A u \in User, v \in Replica \ {w} : v \in unheard[u] => v \in unheard'[u]
  BY <1>0, <1>3
<1>8. ASSUME NEW u \in User PROVE RatingKept(u)'
  <2>1. RatingKept(u)
    BY <1>0 DEF RatingInv
  <2> QED
    BY <1>3, <1>5, <1>6, <2>1 DEF RatingKept
<1>9. ASSUME NEW v \in Replica PROVE RatingRead(v)'
  <2> SUFFICES ASSUME In(v, "ratings", "store")' PROVE RatingRead(v)'
    BY DEF RatingRead
  <2>1. CASE v = w
    <3>1. work'[w].read = AggregateRating(o)'
      BY <1>2, <1>4, <1>5
    <3> QED
      BY <1>1, <1>4, <2>1, <3>1 DEF RatingRead
  <2>2. CASE v # w
    <3>2. work'[v] = work[v] /\ In(v, "ratings", "store") /\ Key(work[v])' = Key(work[v])
      BY <1>4, <2>2 DEF Apart, In, Key
    <3>3. PICK u : u = work[v].event.user
      OBVIOUS
    <3>u. u \in User
      <4>1. Fits(Key(work[v])) /\ Key(work[v]).to = "ratings" /\ Key(work[v]).event = work[v].event
        BY <1>0, <3>2, InHolds DEF BusInv, WorkFits, Key
      <4> QED
        BY <3>3, <4>1 DEF Fits
    <3>4. "ratings" \in budget.consumers /\ u \notin raced /\ v \notin unheard[u]
          => work[v].read = AggregateRating(u) \/ \E p \in Uncounted(u) : p # Key(work[v])
      BY <1>0, <3>2, <3>3 DEF RatingInv, RatingRead
    <3>5. "ratings" \in budget'.consumers /\ u \notin raced' /\ v \notin unheard'[u]
          => work'[v].read = AggregateRating(u)' \/ \E p \in Uncounted(u)' : p # Key(work'[v])
      BY <1>3, <1>5, <1>7, <2>2, <3>2, <3>4, <3>u
    <3> QED
      BY <3>2, <3>3, <3>5 DEF RatingRead
  <2> QED
    BY <2>1, <2>2
<1> QED
  BY <1>8, <1>9 DEF RatingInv

(* A replica stores the aggregate.                                         *)
LEMMA RatingStores ==
  ASSUME Inv, NEW w \in Replica, UpsertRatingWithInbox(w)
  PROVE  RatingInv'
<1>0. /\ BusInv /\ RatingInv /\ unheard \in [User -> SUBSET (Replica \cup {None})]
      /\ DOMAIN rated = User
  BY DEF Inv, ProfileTables
<1>1. PICK o : o = work[w].event.user
  OBVIOUS
<1>2. PICK key : key = Key(work[w])
  OBVIOUS
<1>3. /\ In(w, "ratings", "store") /\ Go(w, "over")
      /\ rated' = [rated EXCEPT ![o] = work[w].read]
      /\ raced' = IF \E v \in Replica : Storing(w, v) THEN raced \cup {o} ELSE raced
      /\ unheard' = [unheard EXCEPT ![o] = IF w \in @ THEN @ \cup {None} ELSE @ \ {None}]
      /\ processed' = processed \cup {key} /\ UNCHANGED <<reviews, posted, budget>>
  BY <1>1, <1>2 DEF UpsertRatingWithInbox, Marked
<1>4. Moves(w) /\ Apart(w) /\ work'[w].step = "over"
  BY <1>0, <1>3, InHolds, GoMoves, MovesApart
<1>5. key.to = "ratings" /\ key.event.user = o
  BY <1>1, <1>2, <1>3, InHolds DEF Key
<1>o. o \in User
  <2>1. Fits(key)
    BY <1>0, <1>2, <1>3, InHolds DEF BusInv, WorkFits
  <2> QED
    BY <1>5, <2>1 DEF Fits
<1>6. /\ \A u : AggregateRating(u)' = AggregateRating(u)
      /\ \A u : \A p \in Uncounted(u) : p # key => p \in Uncounted(u)'
      /\ \A u : u # o => Uncounted(u) \subseteq Uncounted(u)'
  <2>1. \A u : AggregateRating(u)' = AggregateRating(u)
    BY <1>3, SameAggregate DEF ListByTarget
  <2>2. \A u : \A p \in Uncounted(u) : p # key => p \in Uncounted(u)'
    BY <1>3 DEF Uncounted
  <2> QED
    BY <1>5, <2>1, <2>2 DEF Uncounted
<1>7. "ratings" \in budget.consumers /\ o \notin raced /\ w \notin unheard[o]
      => work[w].read = AggregateRating(o) \/ \E p \in Uncounted(o) : p # key
  BY <1>0, <1>1, <1>2, <1>3 DEF RatingInv, RatingRead
<1>8. ASSUME NEW u \in User PROVE RatingKept(u)'
  <2>1. RatingKept(u)
    BY <1>0 DEF RatingInv
  <2>2. CASE u = o
    <3>1. None \notin unheard'[o] => w \notin unheard[o]
      BY <1>0, <1>3, <1>o
    <3>2. rated'[o] = work[w].read /\ raced \subseteq raced'
      BY <1>0, <1>3, <1>o
    <3> QED
      BY <1>3, <1>6, <1>7, <2>2, <3>1, <3>2 DEF RatingKept
  <2>3. CASE u # o
    <3>1. rated'[u] = rated[u] /\ unheard'[u] = unheard[u] /\ raced \subseteq raced'
      BY <1>0, <1>3, <2>3
    <3> QED
      BY <1>3, <1>6, <2>1, <2>3, <3>1 DEF RatingKept
  <2> QED
    BY <2>2, <2>3
<1>9. ASSUME NEW v \in Replica PROVE RatingRead(v)'
  <2> SUFFICES ASSUME In(v, "ratings", "store")' PROVE RatingRead(v)'
    BY DEF RatingRead
  <2>1. v # w
    BY <1>4 DEF In
  <2>2. work'[v] = work[v] /\ In(v, "ratings", "store") /\ Key(work[v])' = Key(work[v])
    BY <1>4, <2>1 DEF Apart, In, Key
  <2>3. PICK u : u = work[v].event.user
    OBVIOUS
  <2>u. u \in User
    <3>1. Fits(Key(work[v])) /\ Key(work[v]).to = "ratings" /\ Key(work[v]).event = work[v].event
      BY <1>0, <2>2, InHolds DEF BusInv, WorkFits, Key
    <3> QED
      BY <2>3, <3>1 DEF Fits
  <2>4. "ratings" \in budget.consumers /\ u \notin raced /\ v \notin unheard[u]
        => work[v].read = AggregateRating(u) \/ \E p \in Uncounted(u) : p # Key(work[v])
    BY <1>0, <2>2, <2>3 DEF RatingInv, RatingRead
  <2>5. CASE u = o
    <3>1. Storing(w, v)
      BY <1>1, <2>1, <2>2, <2>3, <2>5 DEF Storing
    <3>2. u \in raced'
      BY <1>3, <2>5, <3>1
    <3> QED
      BY <2>2, <2>3, <3>2 DEF RatingRead
  <2>6. CASE u # o
    <3>1. "ratings" \in budget'.consumers /\ u \notin raced' /\ v \notin unheard'[u]
          => work'[v].read = AggregateRating(u)' \/ \E p \in Uncounted(u)' : p # Key(work'[v])
      <4>1. unheard'[u] = unheard[u] /\ raced \subseteq raced'
        BY <1>0, <1>3, <2>6, <2>u
      <4> QED
        BY <1>3, <1>6, <2>2, <2>4, <2>6, <4>1
    <3> QED
      BY <2>2, <2>3, <3>1 DEF RatingRead
  <2> QED
    BY <2>5, <2>6
<1> QED
  BY <1>8, <1>9 DEF RatingInv

(* Every step keeps the ratings.                                           *)
LEMMA RatingNext ==
  ASSUME Inv, Next
  PROVE  RatingInv'
<1>1. OnlyMore
  BY InputsNext DEF Advance, OnlyMore
<1>2. RatingInv
  BY DEF Inv
<1> QED
  BY <1>1, <1>2, RatingSteps, RatingRests, RatingPosts, RatingBlocks, RatingReads, RatingStores

-----------------------------------------------------------------------------
(***************************************************************************)
(* The tables of reviews and of user-profile.                              *)
(***************************************************************************)
(* A handler holds a message of its consumer.                              *)
LEMMA HoldsMessage ==
  ASSUME BusInv, NEW w \in Replica, NEW c, NEW step, In(w, c, step)
  PROVE  /\ Key(work[w]) \in posted /\ Fits(Key(work[w]))
         /\ Key(work[w]).to = c /\ Key(work[w]).event = work[w].event
  BY InHolds DEF BusInv, WorkFits, Key

(* A message names a user.                                                 *)
LEMMA HoldsUser ==
  ASSUME BusInv, NEW w \in Replica, NEW step, NEW c \in {"ratings", "profiles", "recipients", "delivery"},
         In(w, c, step)
  PROVE  work[w].event.user \in User
  BY HoldsMessage DEF Fits

(* The steps that change a table of theirs.                                *)
Ensuring(u) == profiles' = EnsureProfile(u) /\ UNCHANGED <<reviews, prefs, reviewHistory>>

(* Who changes a table of reviews or of profiles.                          *)
LEMMA ProfileSteps ==
  ASSUME Inv, Next
  PROVE  \/ UNCHANGED profileVars
         \/ \E q \in Request : PostReview(q) \/ UpdateProfile(q) \/ InsertPrefs(q)
         \/ \E u \in User : Ensuring(u) /\ rated' = rated
         \/ \E w \in Replica : BlockReview(w) \/ GetRating(w) \/ UpsertRatingWithInbox(w)
<1>0. BusInv /\ budget.people \subseteq User
  BY DEF Inv, InputInv, StoryFits
<1> DEFINE Listed ==
             \/ UNCHANGED profileVars
             \/ \E q \in Request : PostReview(q) \/ UpdateProfile(q) \/ InsertPrefs(q)
             \/ \E u \in User : Ensuring(u) /\ rated' = rated
             \/ \E w \in Replica : BlockReview(w) \/ GetRating(w) \/ UpsertRatingWithInbox(w)
<1> SUFFICES Listed
  OBVIOUS
<1>1. ASSUME NEW q \in Request, People(q) PROVE Listed
  <2>1. ASSUME NEW u \in budget.people, NEW a \in Ad, NEW s \in budget.stars, WriteReview(q, u, a, s)
        PROVE  UNCHANGED profileVars
    BY <2>1 DEF WriteReview
  <2>2. ASSUME NEW u \in budget.people, NEW f \in Field, UpdateMe(q, u, f)
        PROVE  Ensuring(u) /\ rated' = rated
    BY <2>2 DEF UpdateMe, Ensuring
  <2>3. ASSUME NEW u \in budget.people, NEW list \in budget.lists, SetPrefs(q, u, list)
        PROVE  UNCHANGED profileVars \/ (Ensuring(u) /\ rated' = rated)
    BY <2>3 DEF SetPrefs, Ensuring
  <2> QED
    BY <1>0, <1>1, <2>1, <2>2, <2>3 DEF People
<1>2. ASSUME NEW q \in Request, Searchers(q) PROVE Listed
  BY <1>2 DEF Searchers
<1>3. ASSUME NEW q \in Request, RequestStep(q) PROVE Listed
  <2>1. ReviewRequest(q) => Listed
    BY DEF ReviewRequest, GetProfile, DeletePrefs
  <2> QED
    BY <1>3, <2>1 DEF RequestStep
<1>4. ASSUME Elsewhere PROVE Listed
  BY <1>4 DEF Elsewhere, Register, OrderBlock
<1>5. ASSUME NEW w \in Replica, HandlerStep(w) PROVE Listed
  <2>1. CASE ReviewHandler(w)
    <3>1. CASE MarkBlocked(w)
      BY <3>1 DEF MarkBlocked
    <3>2. CASE CreateProfile(w)
      <4>1. work[w].event.user \in User
        BY <1>0, <3>2, HoldsUser DEF CreateProfile
      <4>2. Ensuring(work[w].event.user) /\ rated' = rated
        BY <3>2 DEF CreateProfile, Ensuring
      <4> QED
        BY <4>1, <4>2
    <3> QED
      BY <2>1, <3>1, <3>2 DEF ReviewHandler
  <2>2. CASE NoteHandler(w)
    BY <2>2 DEF NoteHandler, UpsertRecipient, GetRecipient, LookUp, Fetch, Remember,
                RecordSkipped, BeginDelivery, Send, Mark
  <2> QED
    BY <1>5, <2>1, <2>2 DEF HandlerStep
<1>6. ASSUME NEW w \in Replica, NEW m \in mail, Taking(w, m) PROVE Listed
  BY <1>6 DEF Taking
<1>7. ASSUME Faults PROVE Listed
  BY <1>7 DEF Faults, SendRefused, SendAgainLater
<1>8. ASSUME Time PROVE Listed
  BY <1>8 DEF Time
<1> HIDE DEF Listed
<1> QED
  BY <1>1, <1>2, <1>3, <1>4, <1>5, <1>6, <1>7, <1>8, NextIs

(* The tables keep their shape when nothing changes, ...                   *)
LEMMA TablesRest == ASSUME ProfileTables, UNCHANGED profileVars PROVE ProfileTables'
  BY DEF ProfileTables

(* ... when a review is inserted, ...                                      *)
LEMMA TablesOfReviews ==
  ASSUME Inv, NEW q \in Request, PostReview(q)
  PROVE  ProfileTables'
<1>0. InputInv /\ ProfileTables
  BY DEF Inv
<1>1. PICK r : r = [id |-> q, ad |-> req[q].ad, author |-> req[q].user,
                    stars |-> req[q].stars, blocked |-> FALSE]
  OBVIOUS
<1>2. /\ reviews' = reviews \/ reviews' = reviews \cup {r}
      /\ UNCHANGED <<profiles, rated, prefs, reviewHistory>> /\ req[q].op = "review"
  BY <1>1 DEF PostReview, Asks
<1>3. req[q] \in ReviewRequests
  BY <1>0, <1>2, ByOp
<1>4. req[q].ad \in Ad /\ req[q].user \in User /\ req[q].stars \in 1..5
  BY <1>3 DEF ReviewRequests
<1>5. r \in Review
  BY <1>1, <1>4 DEF Review
<1> QED
  BY <1>0, <1>2, <1>5 DEF ProfileTables

(* ... or blocked, ...                                                     *)
LEMMA TablesOfBlocks ==
  ASSUME Inv, NEW w \in Replica, BlockReview(w)
  PROVE  ProfileTables'
<1>0. ProfileTables
  BY DEF Inv
<1>1. PICK hit : hit = {r \in reviews : r.id = work[w].event.review /\ ~r.blocked}
  OBVIOUS
<1>2. /\ reviews' = (reviews \ hit) \cup {[r EXCEPT !.blocked = TRUE] : r \in hit}
      /\ unheard' = [u \in User |-> IF \E r \in hit : Owner(r.ad) = u THEN Replica \cup {None}
                                    ELSE unheard[u]]
      /\ UNCHANGED <<profiles, rated, prefs, raced, patched, crossed, merged, offSince>>
  BY <1>1 DEF BlockReview
<1>3. \A r \in Review : [r EXCEPT !.blocked = TRUE] \in Review
  BY DEF Review
<1>4. reviews' \subseteq Review
  BY <1>0, <1>1, <1>2, <1>3 DEF ProfileTables
<1>5. unheard' \in [User -> SUBSET (Replica \cup {None})]
  BY <1>0, <1>2 DEF ProfileTables
<1> QED
  BY <1>0, <1>2, <1>4, <1>5 DEF ProfileTables

(* ... an aggregate is read or stored, ...                                 *)
LEMMA TablesOfRatings ==
  ASSUME Inv, NEW w \in Replica, GetRating(w) \/ UpsertRatingWithInbox(w)
  PROVE  ProfileTables'
<1>0. ProfileTables /\ BusInv
  BY DEF Inv
<1>1. PICK u : u = work[w].event.user
  OBVIOUS
<1>2. u \in User
  BY <1>0, <1>1, HoldsUser DEF GetRating, UpsertRatingWithInbox
<1>3. /\ profiles' = profiles \/ profiles' = EnsureProfile(u)
      /\ rated' = rated \/ rated' = [rated EXCEPT ![u] = work[w].read]
      /\ unheard' = [unheard EXCEPT ![u] = @ \ {w}]
         \/ unheard' = [unheard EXCEPT ![u] = IF w \in @ THEN @ \cup {None} ELSE @ \ {None}]
      /\ UNCHANGED <<reviews, prefs, patched, crossed, merged, offSince>>
  BY <1>1 DEF GetRating, UpsertRatingWithInbox
<1>4. profiles' \in [User -> Row \cup {None}]
  BY <1>0, <1>2, <1>3, EnsureFits DEF ProfileTables
<1>5. rated' = [v \in User |-> rated'[v]]
  BY <1>0, <1>3 DEF ProfileTables
<1>6. unheard' \in [User -> SUBSET (Replica \cup {None})]
  BY <1>0, <1>3 DEF ProfileTables
<1> QED
  BY <1>0, <1>3, <1>4, <1>5, <1>6 DEF ProfileTables

(* ... a patch is written, ...                                             *)
LEMMA TablesOfPatches ==
  ASSUME Inv, NEW q \in Request, UpdateProfile(q)
  PROVE  ProfileTables'
<1>0. ProfileTables /\ InputInv
  BY DEF Inv
<1>1. PICK u, f : u = req[q].user /\ f = req[q].field
  OBVIOUS
<1>2. /\ profiles' = [profiles EXCEPT ![u] = req[q].row]
      /\ patched' = [patched EXCEPT ![u][f] = q] /\ req[q].op = "patch"
      /\ UNCHANGED <<reviews, rated, prefs, raced, unheard, merged, offSince>>
  BY <1>1 DEF UpdateProfile, Asks
<1>3. req[q] \in PatchRequests
  BY <1>0, <1>2, ByOp
<1>4. u \in User /\ f \in Field /\ req[q].row \in Row \cup {None}
  BY <1>1, <1>3 DEF PatchRequests
<1>5. patched' \in [User -> Row]
  <2>1. patched \in [User -> [Field -> Request \cup {0}]]
    BY <1>0 DEF ProfileTables, Row
  <2> QED
    BY <1>2, <2>1 DEF Row
<1>6. profiles' \in [User -> Row \cup {None}]
  BY <1>0, <1>2, <1>4 DEF ProfileTables
<1> QED
  BY <1>0, <1>2, <1>5, <1>6 DEF ProfileTables

(* ... or switches are, ...                                                *)
LEMMA TablesOfSwitches ==
  ASSUME Inv, NEW q \in Request, InsertPrefs(q)
  PROVE  ProfileTables'
<1>0. ProfileTables /\ InputInv
  BY DEF Inv
<1>1. PICK u : u = req[q].user
  OBVIOUS
<1>2. PICK rows : rows = (prefs[u] \ req[q].gone) \cup req[q].rows
  OBVIOUS
<1>3. /\ prefs' = prefs \/ prefs' = [prefs EXCEPT ![u] = rows]
      /\ \/ offSince' = offSince
         \/ offSince' = [offSince EXCEPT ![u] = [g \in Group |->
              IF ~Off(rows, g) THEN None ELSE IF Off(prefs[u], g) THEN @[g] ELSE now]]
      /\ req[q].op = "put"
      /\ UNCHANGED <<reviews, profiles, rated, raced, unheard, patched, crossed>>
  BY <1>1, <1>2 DEF InsertPrefs, Asks
<1>4. req[q] \in PutRequests
  BY <1>0, <1>3, ByOp
<1>5. u \in User /\ req[q].rows \subseteq Switch
  BY <1>1, <1>4 DEF PutRequests
<1>6. prefs' \in [User -> SUBSET Switch]
  <2>1. prefs \in [User -> SUBSET Switch]
    BY <1>0 DEF ProfileTables
  <2>2. rows \in SUBSET Switch
    BY <1>2, <1>5, <2>1
  <2> QED
    BY <1>3, <2>1, <2>2
<1>7. offSince' \in [User -> [Group -> Nat \cup {None}]]
  <2>1. offSince \in [User -> [Group -> Nat \cup {None}]] /\ now \in Nat
    BY <1>0 DEF ProfileTables, InputInv
  <2>2. PICK since : since = [g \in Group |->
              IF ~Off(rows, g) THEN None ELSE IF Off(prefs[u], g) THEN offSince[u][g] ELSE now]
    OBVIOUS
  <2>3. since \in [Group -> Nat \cup {None}]
    BY <1>5, <2>1, <2>2
  <2>4. offSince' = offSince \/ offSince' = [offSince EXCEPT ![u] = since]
    BY <1>3, <1>5, <2>1, <2>2
  <2> QED
    BY <2>1, <2>3, <2>4
<1> QED
  BY <1>0, <1>3, <1>6, <1>7 DEF ProfileTables

(* ... and so after every step.                                            *)
LEMMA TablesNext ==
  ASSUME Inv, Next
  PROVE  ProfileTables'
<1>1. ProfileTables
  BY DEF Inv
<1>2. ASSUME NEW u \in User, Ensuring(u), rated' = rated PROVE ProfileTables'
  <2>1. EnsureProfile(u) \in [User -> Row \cup {None}]
    BY <1>1, EnsureFits
  <2> QED
    BY <1>1, <1>2, <2>1 DEF Ensuring, ProfileTables
<1> QED
  BY <1>1, <1>2, ProfileSteps, TablesRest, TablesOfReviews, TablesOfBlocks, TablesOfRatings,
     TablesOfPatches, TablesOfSwitches

-----------------------------------------------------------------------------
(***************************************************************************)
(* The fields of profiles.                                                 *)
(***************************************************************************)
(* A profile that is new.                                                  *)
Untold(u) == profiles[u] = None /\ profiles'[u] = NewDefaultProfile

(* No profile is written but a new one; and a patch is read or begins.     *)
PatchQuiet ==
  /\ UNCHANGED <<patched, crossed>>
  /\ \A u \in User : profiles'[u] = profiles[u] \/ Untold(u)
  /\ \A u \in User : rated'[u] = rated[u] \/ profiles'[u] # None
  /\ \A q \in Request :
       \/ req'[q] = req[q] \/ req'[q].op # "patch" \/ (GetProfile(q) /\ profiles' = profiles)
       \/ \E u \in User, f \in Field : UpdateMe(q, u, f)

(* A new profile is a row.                                                 *)
LEMMA DefaultIsRow == NewDefaultProfile \in Row /\ NewDefaultProfile # None
  BY ProfilesAssumption DEF NewDefaultProfile, Row

(* Steps of that kind keep the patches.                                    *)
LEMMA PatchRests ==
  ASSUME InputInv, ProfileTables, PatchInv, PatchQuiet
  PROVE  PatchInv'
<1>1. ASSUME NEW u \in User PROVE Untouched(u)' /\ PatchKept(u)'
  <2>1. Untouched(u) /\ PatchKept(u) /\ UNCHANGED <<patched, crossed>>
        /\ (profiles'[u] = profiles[u] \/ Untold(u)) /\ (rated'[u] = rated[u] \/ profiles'[u] # None)
    BY DEF PatchInv, PatchQuiet
  <2> QED
    BY <2>1, DefaultIsRow DEF Untouched, PatchKept, Untold
<1>2. ASSUME NEW q \in Request PROVE PatchRead(q)'
  <2> SUFFICES ASSUME req'[q].op = "patch" PROVE PatchRead(q)'
    BY DEF PatchRead
  <2>1. CASE req'[q] = req[q]
    <3>1. PICK u : u = req[q].user
      OBVIOUS
    <3>2. req[q] \in PatchRequests
      BY <2>1, ByOp
    <3>3. u \in User
      BY <3>1, <3>2 DEF PatchRequests
    <3>4. PatchRead(q)
      BY DEF PatchInv
    <3>5. profiles[u] # None
      BY <2>1, <3>1, <3>4 DEF PatchRead
    <3>6. profiles'[u] = profiles[u] /\ crossed' = crossed
      BY <3>3, <3>5 DEF PatchQuiet, Untold
    <3> QED
      BY <2>1, <3>1, <3>4, <3>6 DEF PatchRead, Patched
  <2>2. CASE GetProfile(q) /\ profiles' = profiles
    <3>1. Asks(q, "patch", "read")
          /\ Turn(q, [req[q] EXCEPT !.step = "write",
                         !.row = Patched(profiles[req[q].user], req[q].field, q)])
      BY <2>2 DEF GetProfile
    <3>2. req[q] \in PatchRequests
      BY <3>1, ByOp DEF Asks
    <3>3. PICK u, f : u = req[q].user /\ f = req[q].field
      OBVIOUS
    <3>4. u \in User /\ f \in Field
      BY <3>2, <3>3 DEF PatchRequests
    <3>5. req'[q] = [req[q] EXCEPT !.step = "write", !.row = Patched(profiles[u], f, q)]
      BY <3>1, <3>3, Turning
    <3>6. req'[q].user = u /\ req'[q].field = f /\ req'[q].row = Patched(profiles[u], f, q)
      BY <3>2, <3>3, <3>5 DEF PatchRequests
    <3>7. profiles[u] # None
      BY <3>1, <3>3 DEF PatchInv, PatchRead, Asks
    <3>8. Patched(profiles[u], f, q) # None
      <4>1. profiles[u] \in Row
        BY <3>4, <3>7 DEF ProfileTables
      <4> QED
        BY <3>4, <4>1, PatchedFits, ProfilesAssumption
    <3> QED
      BY <2>2, <3>6, <3>7, <3>8 DEF PatchRead, Patched
  <2>3. ASSUME NEW u \in User, NEW f \in Field, UpdateMe(q, u, f) PROVE PatchRead(q)'
    <3>1. /\ profiles' = EnsureProfile(u)
          /\ Turn(q, [op |-> "patch", step |-> "read", user |-> u, field |-> f, row |-> None])
      BY <2>3 DEF UpdateMe
    <3>2. req'[q] = [op |-> "patch", step |-> "read", user |-> u, field |-> f, row |-> None]
      BY <3>1, Turning
    <3>3. profiles'[u] # None
      BY <3>1, EnsureFits
    <3> QED
      BY <3>2, <3>3 DEF PatchRead
  <2> QED
    BY <2>1, <2>2, <2>3 DEF PatchQuiet
<1> QED
  BY <1>1, <1>2 DEF PatchInv

(* The whole row is written.                                               *)
LEMMA PatchWrites ==
  ASSUME Inv, NEW q \in Request, UpdateProfile(q)
  PROVE  PatchInv'
<1>0. InputInv /\ ProfileTables /\ PatchInv
  BY DEF Inv
<1>1. PICK o, f, row : o = req[q].user /\ f = req[q].field /\ row = req[q].row
  OBVIOUS
<1>2. /\ Asks(q, "patch", "write") /\ Turn(q, Done)
      /\ profiles' = [profiles EXCEPT ![o] = row]
      /\ patched' = [patched EXCEPT ![o][f] = q]
      /\ crossed' = IF \E p \in Request : Past(q, p) THEN crossed \cup {o} ELSE crossed
      /\ UNCHANGED rated
  BY <1>1 DEF UpdateProfile
<1>3. req[q] \in PatchRequests
  BY <1>0, <1>2, ByOp DEF Asks
<1>4. o \in User /\ f \in Field
  BY <1>1, <1>3 DEF PatchRequests
<1>5. /\ profiles[o] # None /\ row # None
      /\ o \notin crossed => row = Patched(profiles[o], f, q)
  BY <1>0, <1>1, <1>2 DEF PatchInv, PatchRead, Asks
<1>6. /\ profiles'[o] = row /\ \A u \in User \ {o} : profiles'[u] = profiles[u] /\ patched'[u] = patched[u]
      /\ patched'[o] = [patched[o] EXCEPT ![f] = q]
  BY <1>0, <1>2, <1>4 DEF ProfileTables
<1>7. ASSUME NEW u \in User PROVE Untouched(u)' /\ PatchKept(u)'
  <2>1. Untouched(u) /\ PatchKept(u)
    BY <1>0 DEF PatchInv
  <2>2. CASE u = o
    <3>1. u \notin crossed' => row = [patched[o] EXCEPT ![f] = q]
      BY <1>2, <1>5, <2>1, <2>2 DEF PatchKept, Patched
    <3> QED
      BY <1>5, <1>6, <2>2, <3>1 DEF Untouched, PatchKept
  <2>3. CASE u # o
    BY <1>2, <1>6, <2>1, <2>3 DEF Untouched, PatchKept
  <2> QED
    BY <2>2, <2>3
<1>8. ASSUME NEW p \in Request PROVE PatchRead(p)'
  <2> SUFFICES ASSUME req'[p].op = "patch" PROVE PatchRead(p)'
    BY DEF PatchRead
  <2>1. p # q /\ req'[p] = req[p]
    BY <1>0, <1>2, DoneIsNot, Turning
  <2>2. req[p] \in PatchRequests
    BY <1>0, <2>1, ByOp
  <2>3. PICK u : u = req[p].user
    OBVIOUS
  <2>4. u \in User
    BY <2>2, <2>3 DEF PatchRequests
  <2>5. PatchRead(p)
    BY <1>0 DEF PatchInv
  <2>6. CASE u = o /\ req[p].step = "write"
    <3>1. Past(q, p)
      BY <1>1, <2>1, <2>3, <2>6 DEF Past, Asks
    <3>2. o \in crossed' /\ profiles'[o] # None
      BY <1>2, <1>5, <1>6, <3>1
    <3> QED
      BY <2>1, <2>3, <2>5, <2>6, <3>2 DEF PatchRead
  <2>7. CASE u = o /\ req[p].step # "write"
    BY <1>5, <1>6, <2>1, <2>3, <2>7 DEF PatchRead
  <2>8. CASE u # o
    <3>1. profiles'[u] = profiles[u] /\ (u \notin crossed' => u \notin crossed)
      BY <1>2, <1>6, <2>4, <2>8
    <3> QED
      BY <2>1, <2>3, <2>5, <3>1 DEF PatchRead, Patched
  <2> QED
    BY <2>6, <2>7, <2>8
<1> QED
  BY <1>7, <1>8 DEF PatchInv

(* Every step keeps them.                                                  *)
LEMMA PatchNext ==
  ASSUME Inv, Next
  PROVE  PatchInv'
<1>0. BusInv /\ InputInv /\ ProfileTables /\ PatchInv /\ budget.people \subseteq User
  BY DEF Inv, InputInv, StoryFits
<1>1. \/ \E q \in Request : UpdateProfile(q)
      \/ /\ UNCHANGED <<patched, crossed>>
         /\ \A u \in User : profiles'[u] = profiles[u] \/ Untold(u)
         /\ \A u \in User : rated'[u] = rated[u] \/ profiles'[u] # None
  <2>1. ASSUME NEW o \in User, profiles' = EnsureProfile(o)
        PROVE  profiles'[o] # None /\ \A u \in User : profiles'[u] = profiles[u] \/ Untold(u)
    <3>1. \A u \in User \ {o} : profiles'[u] = profiles[u]
      BY <1>0, <2>1, EnsureFits
    <3> QED
      BY <1>0, <2>1, <3>1, EnsureFits DEF Untold
  <2>2. ASSUME NEW w \in Replica, UpsertRatingWithInbox(w)
        PROVE  /\ UNCHANGED <<patched, crossed>>
               /\ \A u \in User : profiles'[u] = profiles[u] \/ Untold(u)
               /\ \A u \in User : rated'[u] = rated[u] \/ profiles'[u] # None
    <3>1. PICK o : o = work[w].event.user
      OBVIOUS
    <3>2. o \in User
      BY <1>0, <2>2, <3>1, HoldsUser DEF UpsertRatingWithInbox
    <3>3. profiles' = EnsureProfile(o) /\ rated' = [rated EXCEPT ![o] = work[w].read]
          /\ UNCHANGED <<patched, crossed>>
      BY <2>2, <3>1 DEF UpsertRatingWithInbox
    <3>4. \A u \in User \ {o} : rated'[u] = rated[u]
      BY <1>0, <3>3 DEF ProfileTables
    <3> QED
      BY <2>1, <3>2, <3>3, <3>4
  <2>3. ASSUME NEW q \in Request, PostReview(q) \/ InsertPrefs(q)
        PROVE  UNCHANGED <<profiles, rated, patched, crossed>>
    BY <2>3 DEF PostReview, InsertPrefs
  <2>4. ASSUME NEW w \in Replica, BlockReview(w) \/ GetRating(w)
        PROVE  UNCHANGED <<profiles, rated, patched, crossed>>
    BY <2>4 DEF BlockReview, GetRating
  <2>5. ASSUME NEW o \in User, Ensuring(o), rated' = rated
        PROVE  /\ UNCHANGED <<rated, patched, crossed>>
               /\ \A u \in User : profiles'[u] = profiles[u] \/ Untold(u)
    BY <2>1, <2>5 DEF Ensuring
  <2>6. CASE UNCHANGED profileVars
    BY <2>6
  <2> QED
    BY <2>2, <2>3, <2>4, <2>5, <2>6, ProfileSteps
<1>2. \A q \in Request :
       \/ req'[q] = req[q] \/ req'[q].op # "patch" \/ (GetProfile(q) /\ profiles' = profiles)
       \/ \E u \in User, f \in Field : UpdateMe(q, u, f)
  <2>1. ASSUME NEW q \in Request, DeletePrefs(q) PROVE req'[q].op # "patch"
    <3>1. Asks(q, "put", "delete") /\ Turn(q, [req[q] EXCEPT !.step = "insert", !.gone = prefs[req[q].user]])
      BY <2>1 DEF DeletePrefs
    <3>2. req[q] \in PutRequests
      BY <1>0, <3>1, ByOp DEF Asks
    <3>3. req'[q] = [req[q] EXCEPT !.step = "insert", !.gone = prefs[req[q].user]]
      BY <1>0, <3>1, Turning
    <3> QED
      BY <3>2, <3>3 DEF PutRequests
  <2>2. \A q \in Request : GetProfile(q) => profiles' = profiles
    BY DEF GetProfile
  <2>3. \A q \in Request : Asked(q)
    BY AskedNext
  <2> QED
    BY <1>0, <2>1, <2>2, <2>3, DoneIsNot DEF Asked
<1>3. (\A q \in Request : ~UpdateProfile(q)) => PatchQuiet
  BY <1>1, <1>2 DEF PatchQuiet
<1> QED
  BY <1>0, <1>3, PatchRests, PatchWrites

-----------------------------------------------------------------------------
(***************************************************************************)
(* The switches of notifications.                                          *)
(***************************************************************************)
(* No switch is put, and a PUT that is about to insert has read the rows.  *)
SwitchQuiet ==
  /\ UNCHANGED <<prefs, merged, offSince>>
  /\ \A q \in Request :
       \/ req'[q] = req[q] \/ req'[q].op # "put" \/ DeletePrefs(q)
       \/ \E u \in User, list \in budget.lists : SetPrefs(q, u, list)

(* Steps of that kind keep the switches.                                   *)
LEMMA SwitchRests ==
  ASSUME InputInv, SwitchInv, SwitchQuiet
  PROVE  SwitchInv'
<1>0. UNCHANGED <<prefs, merged, offSince>>
  BY DEF SwitchQuiet
<1>1. ASSUME NEW u \in User PROVE SwitchesKept(u)' /\ OffKept(u)'
  BY <1>0 DEF SwitchInv, SwitchesKept, OffKept, Off
<1>2. ASSUME NEW q \in Request PROVE PutRead(q)'
  <2> SUFFICES ASSUME req'[q].op = "put" PROVE PutRead(q)'
    BY DEF PutRead
  <2>1. CASE req'[q] = req[q]
    BY <1>0, <2>1 DEF SwitchInv, PutRead
  <2>2. CASE DeletePrefs(q)
    <3>1. Asks(q, "put", "delete") /\ Turn(q, [req[q] EXCEPT !.step = "insert", !.gone = prefs[req[q].user]])
      BY <2>2 DEF DeletePrefs
    <3>2. req[q] \in PutRequests
      BY <3>1, ByOp DEF Asks
    <3>3. req'[q] = [req[q] EXCEPT !.step = "insert", !.gone = prefs[req[q].user]]
      BY <3>1, Turning
    <3>4. req'[q].gone = prefs[req[q].user] /\ req'[q].user = req[q].user /\ req'[q].rows = req[q].rows
      BY <3>2, <3>3 DEF PutRequests
    <3> QED
      BY <1>0, <3>1, <3>4 DEF SwitchInv, PutRead, Asks
  <2>3. ASSUME NEW u \in User, NEW list \in budget.lists, SetPrefs(q, u, list) PROVE PutRead(q)'
    <3> DEFINE r == [op |-> "put", step |-> "delete", user |-> u, gone |-> {},
          rows |-> {[group |-> x.group, enabled |-> x.enabled, by |-> q] : x \in list}]
    <3>1. Turn(q, Done) \/ Turn(q, r)
      BY <2>3 DEF SetPrefs
    <3>2. req'[q] = r
      BY <3>1, DoneIsNot, Turning
    <3> QED
      BY <3>2 DEF PutRead
  <2> QED
    BY <2>1, <2>2, <2>3 DEF SwitchQuiet
<1> QED
  BY <1>1, <1>2 DEF SwitchInv

(* A list of switches is written.                                          *)
LEMMA SwitchWrites ==
  ASSUME Inv, NEW q \in Request, InsertPrefs(q)
  PROVE  SwitchInv'
<1>0. InputInv /\ ProfileTables /\ SwitchInv
  BY DEF Inv
<1>1. PICK o, put : o = req[q].user /\ put = req[q].rows
  OBVIOUS
<1>2. PICK kept : kept = prefs[o] \ req[q].gone
  OBVIOUS
<1>3. PICK rows : rows = kept \cup put
  OBVIOUS
<1>4. PICK since : since = [g \in Group |->
        IF ~Off(rows, g) THEN None ELSE IF Off(prefs[o], g) THEN offSince[o][g] ELSE now]
  OBVIOUS
<1>d. /\ prefs = [u \in User |-> prefs[u]] /\ offSince = [u \in User |-> offSince[u]]
  BY <1>0 DEF ProfileTables
<1>5. /\ Asks(q, "put", "insert") /\ Turn(q, Done)
      /\ merged' = IF \E p \in Request : Alongside(q, p) THEN merged \cup {o} ELSE merged
  BY <1>1 DEF InsertPrefs
<1>6. req[q] \in PutRequests
  BY <1>0, <1>5, ByOp DEF Asks
<1>7. o \in User
  BY <1>1, <1>6 DEF PutRequests
<1>8. \/ UNCHANGED <<prefs, offSince>> /\ \E r \in kept, x \in put : r.group = x.group
      \/ prefs' = [prefs EXCEPT ![o] = rows] /\ offSince' = [offSince EXCEPT ![o] = since]
  <2> DEFINE clash == \E r \in kept, x \in put : r.group = x.group
  <2>1. prefs' = (IF clash THEN prefs ELSE [prefs EXCEPT ![o] = rows])
        /\ offSince' = (IF clash THEN offSince ELSE
             [offSince EXCEPT ![o] = [g \in Group |->
               IF ~Off(rows, g) THEN None ELSE IF Off(prefs[o], g) THEN @[g] ELSE now]])
    BY <1>1, <1>2, <1>3 DEF InsertPrefs
  <2>2. [offSince EXCEPT ![o] = [g \in Group |->
               IF ~Off(rows, g) THEN None ELSE IF Off(prefs[o], g) THEN @[g] ELSE now]]
        = [offSince EXCEPT ![o] = since]
    BY <1>4, <1>7, <1>d
  <2> QED
    BY <2>1, <2>2
<1>9. \A u \in User \ {o} : prefs'[u] = prefs[u] /\ offSince'[u] = offSince[u]
  BY <1>8, <1>d
<1>10. \A r \in put : r.by = q
  BY <1>0, <1>1, <1>5 DEF SwitchInv, PutRead, Asks
<1>11. o \notin merged => kept = {}
  BY <1>0, <1>1, <1>2, <1>5 DEF SwitchInv, PutRead, Asks
<1>12. ASSUME NEW u \in User PROVE SwitchesKept(u)' /\ OffKept(u)'
  <2>1. SwitchesKept(u) /\ OffKept(u)
    BY <1>0 DEF SwitchInv
  <2>2. CASE u # o
    BY <1>5, <1>9, <2>1, <2>2 DEF SwitchesKept, OffKept, Off
  <2>3. CASE u = o /\ UNCHANGED <<prefs, offSince>>
    BY <1>5, <2>1, <2>3 DEF SwitchesKept, OffKept, Off
  <2>4. CASE u = o /\ prefs' = [prefs EXCEPT ![o] = rows] /\ offSince' = [offSince EXCEPT ![o] = since]
    <3>1. prefs'[o] = rows /\ offSince'[o] = since
      BY <1>7, <1>d, <2>4
    <3>2. o \notin merged' => rows = put
      BY <1>3, <1>5, <1>11
    <3>3. SwitchesKept(u)'
      BY <1>10, <2>4, <3>1, <3>2 DEF SwitchesKept
    <3>4. OffKept(u)'
      BY <1>4, <2>4, <3>1 DEF OffKept, Off
    <3> QED
      BY <3>3, <3>4
  <2> QED
    BY <1>8, <2>2, <2>3, <2>4
<1>13. ASSUME NEW p \in Request PROVE PutRead(p)'
  <2> SUFFICES ASSUME req'[p].op = "put" PROVE PutRead(p)'
    BY DEF PutRead
  <2>1. p # q /\ req'[p] = req[p]
    BY <1>0, <1>5, DoneIsNot, Turning
  <2>2. req[p] \in PutRequests
    BY <1>0, <2>1, ByOp
  <2>3. PICK u : u = req[p].user
    OBVIOUS
  <2>4. u \in User
    BY <2>2, <2>3 DEF PutRequests
  <2>5. PutRead(p)
    BY <1>0 DEF SwitchInv
  <2>6. CASE u = o
    <3>1. req[p].step = "insert" => o \in merged'
      BY <1>1, <1>5, <2>1, <2>3, <2>6 DEF Alongside, Asks
    <3> QED
      BY <2>1, <2>3, <2>5, <2>6, <3>1 DEF PutRead
  <2>7. CASE u # o
    <3>1. prefs'[u] = prefs[u] /\ (u \notin merged' => u \notin merged)
      BY <1>5, <1>9, <2>4, <2>7
    <3> QED
      BY <2>1, <2>3, <2>5, <3>1 DEF PutRead
  <2> QED
    BY <2>6, <2>7
<1> QED
  BY <1>12, <1>13 DEF SwitchInv

(* Every step keeps them.                                                  *)
LEMMA SwitchNext ==
  ASSUME Inv, Next
  PROVE  SwitchInv'
<1>0. InputInv /\ SwitchInv /\ budget.people \subseteq User
  BY DEF Inv, InputInv, StoryFits
<1>1. UNCHANGED <<prefs, merged, offSince>> \/ \E q \in Request : InsertPrefs(q)
  <2>1. \A q \in Request : PostReview(q) \/ UpdateProfile(q) => UNCHANGED <<prefs, merged, offSince>>
    BY DEF PostReview, UpdateProfile
  <2>2. \A w \in Replica : BlockReview(w) \/ GetRating(w) \/ UpsertRatingWithInbox(w)
                           => UNCHANGED <<prefs, merged, offSince>>
    BY DEF BlockReview, GetRating, UpsertRatingWithInbox
  <2>3. \A u \in User : Ensuring(u) => UNCHANGED <<prefs, merged, offSince>>
    BY DEF Ensuring
  <2> QED
    BY <2>1, <2>2, <2>3, ProfileSteps
<1>2. \A q \in Request :
       \/ req'[q] = req[q] \/ req'[q].op # "put" \/ DeletePrefs(q)
       \/ \E u \in User, list \in budget.lists : SetPrefs(q, u, list)
  <2>1. ASSUME NEW q \in Request, GetProfile(q) PROVE req'[q].op # "put"
    <3>1. Asks(q, "patch", "read")
          /\ Turn(q, [req[q] EXCEPT !.step = "write",
                         !.row = Patched(profiles[req[q].user], req[q].field, q)])
      BY <2>1 DEF GetProfile
    <3>2. req[q] \in PatchRequests
      BY <1>0, <3>1, ByOp DEF Asks
    <3>4. req'[q] = [req[q] EXCEPT !.step = "write",
                       !.row = Patched(profiles[req[q].user], req[q].field, q)]
      BY <1>0, <3>1, Turning
    <3>3. req'[q].op = req[q].op
      BY <3>2, <3>4 DEF PatchRequests
    <3> QED
      BY <3>1, <3>3 DEF Asks
  <2>2. ASSUME NEW q \in Request, NEW u, NEW f, UpdateMe(q, u, f) PROVE req'[q].op # "put"
    <3>1. Turn(q, [op |-> "patch", step |-> "read", user |-> u, field |-> f, row |-> None])
      BY <2>2 DEF UpdateMe
    <3> QED
      BY <1>0, <3>1, Turning
  <2>3. \A q \in Request : Asked(q)
    BY AskedNext
  <2> QED
    BY <1>0, <2>1, <2>2, <2>3, DoneIsNot DEF Asked
<1> QED
  BY <1>0, <1>1, <1>2, SwitchRests, SwitchWrites DEF SwitchQuiet

-----------------------------------------------------------------------------
(***************************************************************************)
(* Notifications.                                                          *)
(***************************************************************************)
(* Who may have changed the tables of notification, or what it holds.      *)
Aside(v) ==
  \/ work'[v] = work[v]
  \/ /\ ~In(v, "delivery", "mark")
     /\ work'[v] = Idle \/ work'[v].to # "delivery"

NotesAside ==
  /\ UNCHANGED <<recipients, notes, cache, sent, disturbed, abandoned>>
  /\ \A v \in Replica : Aside(v)

(* All steps leave notification aside but these.                           *)
LEMMA NoteSteps ==
  ASSUME Inv, Next
  PROVE  \/ NotesAside
         \/ \E w \in Replica : \E m \in mail : Taking(w, m)
         \/ \E w \in Replica : NoteHandler(w) \/ SendRefused(w) \/ SendAgainLater(w)
         \/ \E w \in Replica : Break(w) /\ NotesBroken(w)
<1>0. BusInv
  BY DEF Inv
<1>a. ASSUME NEW w \in Replica, Apart(w), UNCHANGED noteVars,
             Moves(w) \/ work'[w] = Idle, ~In(w, "delivery", "mark"),
             Moves(w) => work[w].to # "delivery"
      PROVE  NotesAside
  <2>1. Aside(w)
    BY <1>a DEF Aside, Moves, Key
  <2>2. \A v \in Replica \ {w} : Aside(v)
    BY <1>a DEF Apart, Aside
  <2> QED
    BY <1>a, <2>1, <2>2 DEF NotesAside
<1>u. UNCHANGED noteVars /\ work' = work => NotesAside
  BY DEF NotesAside, Aside
<1>1. ASSUME NEW q \in Request, People(q) \/ Searchers(q) \/ RequestStep(q)
      PROVE  UNCHANGED noteVars /\ work' = work
  BY <1>1 DEF People, WriteReview, UpdateMe, SetPrefs, Searchers, CountSavedSearches, RequestStep,
              ReviewRequest, SearchRequest, PostReview, GetProfile, UpdateProfile, DeletePrefs,
              InsertPrefs, CreateSavedSearch
<1>2. ASSUME Elsewhere PROVE UNCHANGED noteVars /\ work' = work
  BY <1>2 DEF Elsewhere, Register, OrderBlock, AddFavorite, RemoveFavorite, DeleteAd, Approve,
              DeleteSavedSearch
<1>3. ASSUME NEW w \in Replica, HandlerStep(w), ~NoteHandler(w) PROVE NotesAside
  <2>1. UNCHANGED noteVars
    BY <1>3 DEF HandlerStep
  <2>2. CASE ReviewHandler(w)
    <3>1. Moves(w) /\ Apart(w) /\ work[w].to \in {"reviews-block", "ratings", "profiles"}
      BY <1>0, <2>2, ReviewMoves, MovesApart
    <3> QED
      BY <1>a, <2>1, <3>1 DEF In
  <2>3. CASE SearchHandler(w)
    <3>1. (Moves(w) \/ work'[w] = Idle) /\ Apart(w) /\ work[w].to \in {"matcher", "favorites"}
      BY <1>0, <2>3, SearchMoves, MovesApart
    <3> QED
      BY <1>a, <2>1, <3>1 DEF In
  <2>4. CASE Acknowledge(w)
    <3>1. work'[w] = Idle /\ Apart(w) /\ work[w].step = "over" /\ ~Moves(w)
      BY <1>0, <2>4, EndsApart DEF Acknowledge, Moves
    <3> QED
      BY <1>a, <2>1, <3>1 DEF In
  <2> QED
    BY <1>3, <2>2, <2>3, <2>4 DEF HandlerStep
<1>4. ASSUME Time PROVE UNCHANGED noteVars /\ work' = work
  BY <1>4 DEF Time, Tick
<1>5. ASSUME NEW q \in Request, RequestFails(q) /\ UNCHANGED noteVars
      PROVE  UNCHANGED noteVars /\ work' = work
  BY <1>5 DEF RequestFails
<1>6. ASSUME Faults
      PROVE  NotesAside \/ \E w \in Replica : SendRefused(w) \/ SendAgainLater(w)
                                              \/ (Break(w) /\ NotesBroken(w))
  BY <1>5, <1>6, <1>u DEF Faults
<1> QED
  BY <1>1, <1>2, <1>3, <1>4, <1>6, <1>u, NextIs

(* A switch is on, or it is off for as long as before, or since now.       *)
OffsGo == \A u \in User, g \in Group :
  offSince'[u][g] = None \/ offSince'[u][g] = offSince[u][g] \/ offSince'[u][g] = now

(* Every step is like that.                                                *)
LEMMA OffsNext ==
  ASSUME Inv, Next
  PROVE  OffsGo
<1>0. InputInv /\ ProfileTables
  BY DEF Inv
<1>1. ASSUME NEW q \in Request, InsertPrefs(q) PROVE OffsGo
  <2>1. PICK o : o = req[q].user
    OBVIOUS
  <2>2. PICK rows : rows = (prefs[o] \ req[q].gone) \cup req[q].rows
    OBVIOUS
  <2>3. \/ offSince' = offSince
        \/ offSince' = [offSince EXCEPT ![o] = [g \in Group |->
             IF ~Off(rows, g) THEN None ELSE IF Off(prefs[o], g) THEN @[g] ELSE now]]
    BY <1>1, <2>1, <2>2 DEF InsertPrefs
  <2>4. offSince = [u \in User |-> offSince[u]]
    BY <1>0 DEF ProfileTables
  <2> QED
    BY <2>3, <2>4 DEF OffsGo
<1>2. offSince' = offSince => OffsGo
  BY DEF OffsGo
<1>3. \A q \in Request : PostReview(q) \/ UpdateProfile(q) => offSince' = offSince
  BY DEF PostReview, UpdateProfile
<1>4. \A w \in Replica : BlockReview(w) \/ GetRating(w) \/ UpsertRatingWithInbox(w)
                         => offSince' = offSince
  BY DEF BlockReview, GetRating, UpsertRatingWithInbox
<1>5. \A u \in User : Ensuring(u) => offSince' = offSince
  BY DEF Ensuring
<1> QED
  BY <1>1, <1>2, <1>3, <1>4, <1>5, ProfileSteps

(* What was disturbed stays so.                                            *)
LEMMA DisturbedGrows ==
  ASSUME Inv, Next
  PROVE  disturbed \subseteq disturbed'
<1>1. \A w \in Replica : NoteHandler(w) => disturbed' = disturbed
  BY DEF NoteHandler, UpsertRecipient, GetRecipient, LookUp, Fetch, Remember, RecordSkipped,
         BeginDelivery, Send, Mark
<1>2. \A w \in Replica : SendRefused(w) \/ SendAgainLater(w) => disturbed \subseteq disturbed'
  BY DEF SendRefused, SendAgainLater
<1>3. \A w \in Replica : NotesBroken(w) => disturbed \subseteq disturbed'
  BY DEF NotesBroken
<1>4. \A w \in Replica : \A m \in mail : Taking(w, m) => disturbed \subseteq disturbed'
  BY DEF Taking, NotesGiven
<1>5. NotesAside => disturbed' = disturbed
  BY DEF NotesAside
<1> QED
  BY <1>1, <1>2, <1>3, <1>4, <1>5, NoteSteps

(* A message that is in one hand stays there.                              *)
LEMMA AloneNext ==
  ASSUME Inv, Next
  PROVE  HeldAlone'
<1>0. HeldAlone /\ BusInv
  BY DEF Inv, NoteInv
<1>1. disturbed \subseteq disturbed'
  BY DisturbedGrows
<1>2. ASSUME NEW v \in Replica PROVE Hand(v)
  BY HandNext
<1>3. ASSUME NEW w \in Replica, NEW m \in mail, Taking(w, m) PROVE HeldAlone'
  <2>1. Apart(w) /\ work[w] = Idle /\ work'[w] = Handler(m)
    BY <1>0, <1>3, GiveApart DEF Taking
  <2>2. Key(Handler(m)) = Key(m) /\ Handler(m).event = m.event
    BY DEF Handler, Key
  <2>3. ASSUME NEW v \in Replica \ {w}, work[v] # Idle, Key(work[v]) = Key(m)
        PROVE  m.event \in disturbed'
    <3>1. InHand(m) # {}
      BY <2>3 DEF InHand
    <3> QED
      BY <1>3, <3>1 DEF Taking, NotesGiven
  <2>4. \A v \in Replica \ {w} : work'[v] = work[v]
    BY <2>1 DEF Apart
  <2>5. ASSUME NEW v \in Replica, NEW x \in Replica, work'[v] # Idle, work'[x] # Idle,
               Key(work'[v]) = Key(work'[x]), work'[v].event \notin disturbed'
        PROVE  v = x
    <3>1. work'[v].event = work'[x].event
      BY <2>5 DEF Key
    <3>2. CASE v # w /\ x # w
      BY <1>0, <1>1, <2>4, <2>5, <3>2 DEF HeldAlone
    <3>3. CASE v = w /\ x # w
      BY <2>1, <2>2, <2>3, <2>4, <2>5, <3>3
    <3>4. CASE v # w /\ x = w
      BY <2>1, <2>2, <2>3, <2>4, <2>5, <3>1, <3>4
    <3> QED
      BY <3>2, <3>3, <3>4
  <2>6. \A y \in Replica : Key(work[y])' = Key(work'[y])
    BY DEF Key
  <2> QED
    BY <2>5, <2>6 DEF HeldAlone
<1>4. ASSUME \A w \in Replica : \A m \in mail : ~Taking(w, m) PROVE HeldAlone'
  <2>1. ASSUME NEW v \in Replica, work'[v] # Idle
        PROVE  work[v] # Idle /\ Key(work'[v]) = Key(work[v]) /\ work'[v].event = work[v].event
    <3>1. work'[v] = work[v] \/ Moves(v)
      BY <1>2, <1>4, <2>1 DEF Hand
    <3> QED
      BY <2>1, <3>1 DEF Moves, Key
  <2>2. \A y \in Replica : Key(work[y])' = Key(work'[y])
    BY DEF Key
  <2> QED
    BY <1>0, <1>1, <2>1, <2>2 DEF HeldAlone
<1> QED
  BY <1>3, <1>4

(* What does not change stays what it is.                                  *)
LEMMA ReadRests ==
  ASSUME InputInv, ProfileTables, BusInv, NEW w \in Replica, NoteRead(w), work'[w] = work[w], OffsGo,
         disturbed \subseteq disturbed', now' \in {now, now + 1},
         In(w, "delivery", "send") /\ work[w].event \notin disturbed'
           => (work[w].event \in DOMAIN sent' => work[w].event \in DOMAIN sent)
  PROVE  NoteRead(w)'
<1> SUFFICES ASSUME work[w] # Idle, work[w].to = "delivery" PROVE NoteRead(w)'
  BY DEF NoteRead
<1>1. PICK u, e, h : u = work[w].event.user /\ e = work[w].event /\ h = work[w].read
  OBVIOUS
<1>2. WorkFits(w)
  BY DEF BusInv
<1>3. Running(work[w]) /\ Fits(Key(work[w])) /\ Key(work[w]).to = "delivery" /\ Key(work[w]).event = e
  BY <1>1, <1>2 DEF WorkFits, BusInv, Key
<1>4. u \in User /\ work[w].op = "handle"
  BY <1>1, <1>3 DEF Fits, Running
<1>5. now \in Nat
  BY DEF InputInv
<1>6. CASE work[w].step \in {"fetch", "answer"}
  <2>1. h = [asked |-> h.asked, off |-> h.off] /\ h.asked \in Nat /\ h.asked <= now
    BY <1>1, <1>6 DEF NoteRead
  <2>2. h.asked <= now'
    BY <1>5, <2>1
  <2>3. ASSUME work[w].step = "answer", NEW g \in Group \ h.off PROVE Since(h.asked, offSince'[u][g])
    <3>1. Since(h.asked, offSince[u][g])
      BY <1>1, <2>3 DEF NoteRead
    <3>2. offSince'[u][g] = None \/ offSince'[u][g] = offSince[u][g] \/ offSince'[u][g] = now
      BY <1>4 DEF OffsGo
    <3> QED
      BY <2>1, <3>1, <3>2 DEF Since
  <2>4. work[w].step = "answer" => \A g \in Group \ h.off : Since(h.asked, offSince[u][g])'
    BY <2>3 DEF Since
  <2> QED
    BY <1>1, <1>6, <2>1, <2>2, <2>3 DEF NoteRead, Since
<1>7. CASE work[w].step = "send"
  <2>1. In(w, "delivery", "send")
    BY <1>4, <1>7 DEF In
  <2>2. e \notin disturbed => e \notin DOMAIN sent
    BY <1>1, <1>7 DEF NoteRead
  <2> QED
    BY <1>1, <1>7, <2>1, <2>2 DEF NoteRead
<1>8. CASE work[w].step \notin {"fetch", "answer", "send"}
  BY <1>8 DEF NoteRead
<1> QED
  BY <1>6, <1>7, <1>8

(* An entry of the cache that is not written stays good.                   *)
LEMMA CacheRests ==
  ASSUME InputInv, ProfileTables, NEW w \in Replica, NEW u \in User, CacheFits(w, u),
         cache'[w][u] = cache[w][u], OffsGo, now' \in {now, now + 1}
  PROVE  CacheFits(w, u)'
<1>1. PICK t, off : t = cache[w][u].until /\ off = cache[w][u].off
  OBVIOUS
<1>2. t \in Nat /\ now \in Nat /\ CacheTTL \in Nat /\ t <= now + CacheTTL
  BY <1>1, CacheAssumption DEF CacheFits, InputInv
<1>3. t <= now' + CacheTTL
  BY <1>2
<1>4. ASSUME NEW g \in Group \ off
      PROVE  offSince'[u][g] = None \/ t <= offSince'[u][g] + CacheTTL
  <2>1. offSince[u][g] = None \/ t <= offSince[u][g] + CacheTTL
    BY <1>1 DEF CacheFits
  <2>2. offSince'[u][g] = None \/ offSince'[u][g] = offSince[u][g] \/ offSince'[u][g] = now
    BY DEF OffsGo
  <2> QED
    BY <1>2, <2>1, <2>2
<1> QED
  BY <1>1, <1>2, <1>3, <1>4 DEF CacheFits

(* What was sent once, and is not sent again, stays so.                    *)
LEMMA SentRests ==
  ASSUME NEW e \in DOMAIN sent, SentFits(e), sent'[e] = sent[e], disturbed \subseteq disturbed',
         NotesGo, \A w \in Replica : Marking(w, e) => Marking(w, e)' \/ e \in disturbed'
  PROVE  SentFits(e)'
<1>1. sent[e] \in Nat
  BY DEF SentFits
<1>2. SUFFICES ASSUME e \notin disturbed'
               PROVE  /\ sent'[e] <= 1
                      /\ \/ e \in DOMAIN notes' /\ notes'[e] # "pending"
                         \/ \E w \in Replica : Marking(w, e)'
  BY <1>1 DEF SentFits
<1>3. /\ sent[e] <= 1
      /\ \/ e \in DOMAIN notes /\ notes[e] # "pending"
         \/ \E w \in Replica : Marking(w, e)
  BY <1>2 DEF SentFits
<1>4. e \in DOMAIN notes /\ notes[e] # "pending" => e \in DOMAIN notes' /\ notes'[e] # "pending"
  BY DEF NotesGo
<1> QED
  BY <1>2, <1>3, <1>4

(* Who is about to mark an event still is, unless it is he who goes on.    *)
LEMMA MarkingStays ==
  ASSUME NEW w \in Replica, Apart(w), ~In(w, "delivery", "mark")
  PROVE  \A v \in Replica : \A e : Marking(v, e) => Marking(v, e)'
  BY DEF Apart, Marking, In

(* Of notifications, what each kind of step leaves to be shown.            *)
LEMMA NotesStep ==
  ASSUME Inv, Next, NotesGo, NoteTables',
         \A w \in Replica : work'[w] = work[w] \/ NoteRead(w)',
         \A w \in Replica : In(w, "delivery", "send") /\ work'[w] = work[w]
           /\ work[w].event \notin disturbed' /\ work[w].event \in DOMAIN sent'
           => work[w].event \in DOMAIN sent,
         \A w \in Replica, u \in User : cache'[w][u] = cache[w][u] \/ CacheFits(w, u)',
         \A e \in DOMAIN sent' : SentFits(e)' \/
           (/\ e \in DOMAIN sent /\ sent'[e] = sent[e]
            /\ \A w \in Replica : Marking(w, e) => Marking(w, e)' \/ e \in disturbed')
  PROVE  NoteInv'
<1>1. /\ InputInv /\ ProfileTables /\ BusInv /\ now' \in {now, now + 1} /\ OffsGo
      /\ disturbed \subseteq disturbed' /\ HeldAlone'
  BY InputsNext, OffsNext, DisturbedGrows, AloneNext DEF Inv
<1>2. ASSUME NEW w \in Replica PROVE NoteRead(w)'
  <2>1. NoteRead(w)
    BY DEF Inv, NoteInv
  <2>2. CASE work'[w] = work[w]
    BY <1>1, <2>1, <2>2, ReadRests
  <2> QED
    BY <2>2
<1>3. ASSUME NEW w \in Replica, NEW u \in User PROVE CacheFits(w, u)'
  <2>1. CacheFits(w, u)
    BY DEF Inv, NoteInv
  <2>2. CASE cache'[w][u] = cache[w][u]
    BY <1>1, <2>1, <2>2, CacheRests
  <2> QED
    BY <2>2
<1>4. ASSUME NEW e \in DOMAIN sent' PROVE SentFits(e)'
  <2>1. CASE /\ e \in DOMAIN sent /\ sent'[e] = sent[e]
             /\ \A w \in Replica : Marking(w, e) => Marking(w, e)' \/ e \in disturbed'
    <3>1. SentFits(e)
      BY <2>1 DEF Inv, NoteInv
    <3> QED
      BY <1>1, <2>1, <3>1, SentRests
  <2> QED
    BY <2>1
<1> QED
  BY <1>1, <1>2, <1>3, <1>4 DEF NoteInv

(* A handler of notification, and what it is left with.                    *)
LEMMA NoteGoes ==
  ASSUME BusInv, NEW w \in Replica, NEW step, NEW s, In(w, "delivery", step), Go(w, s)
  PROVE  /\ work[w] # Idle /\ work[w].to = "delivery" /\ work[w].step = step /\ Apart(w)
         /\ work'[w] # Idle /\ work'[w].to = "delivery" /\ work'[w].step = s
         /\ work'[w].event = work[w].event /\ work'[w].op = "handle"
<1>1. work[w] # Idle /\ work[w].to = "delivery" /\ work[w].step = step
  BY InHolds
<1>2. Moves(w) /\ work'[w].step = s
  BY <1>1, GoMoves
<1>3. Apart(w)
  BY <1>2, MovesApart
<1> QED
  BY <1>1, <1>2, <1>3 DEF Moves, Running, Key

(* The same of a step that has read something.                             *)
LEMMA NoteGoesWith ==
  ASSUME BusInv, NEW w \in Replica, NEW step, NEW s, NEW read, In(w, "delivery", step),
         GoWith(w, s, read)
  PROVE  /\ work[w] # Idle /\ work[w].to = "delivery" /\ work[w].step = step /\ Apart(w)
         /\ work'[w] # Idle /\ work'[w].to = "delivery" /\ work'[w].step = s
         /\ work'[w].event = work[w].event /\ work'[w].op = "handle" /\ work'[w].read = read
<1>1. work[w] # Idle /\ work[w].to = "delivery" /\ work[w].step = step
  BY InHolds
<1>2. Moves(w) /\ work'[w].step = s /\ work'[w].read = read
  BY <1>1, GoWithMoves
<1>3. Apart(w)
  BY <1>2, MovesApart
<1> QED
  BY <1>1, <1>2, <1>3 DEF Moves, Running, Key

(* A step that has nothing to do with Telegram or the cache.               *)
LEMMA NoteQuietly ==
  ASSUME Inv, Next, NotesGo, NoteTables', NEW w \in Replica, Apart(w), NoteRead(w)',
         ~In(w, "delivery", "mark"), UNCHANGED <<cache, sent>>
  PROVE  NoteInv'
<1>1. \A v \in Replica : work'[v] = work[v] \/ NoteRead(v)'
  BY DEF Apart
<1>2. \A v \in Replica : \A e \in DOMAIN sent : Marking(v, e) => Marking(v, e)'
  BY MarkingStays
<1> QED
  BY <1>1, <1>2, NotesStep

(* Steps that leave notification aside keep its invariant, ...             *)
LEMMA NotesAsideKept ==
  ASSUME Inv, Next, NotesAside
  PROVE  NoteInv'
<1>1. /\ UNCHANGED <<recipients, notes, cache, sent, disturbed, abandoned>> /\ \A v \in Replica : Aside(v)
      /\ NoteTables
  BY DEF NotesAside, Inv, NoteInv
<1>2. NoteTables' /\ NotesGo
  <2>1. UNCHANGED <<recipients, notes, cache, abandoned>> /\ NoteTables
    BY <1>1
  <2> QED
    BY <2>1 DEF NoteTables, NotesGo
<1>3. \A v \in Replica : work'[v] = work[v] \/ NoteRead(v)'
  BY <1>1 DEF Aside, NoteRead
<1>4. \A v \in Replica : \A e : Marking(v, e) => Marking(v, e)'
  BY <1>1 DEF Aside, Marking, In
<1> QED
  BY <1>1, <1>2, <1>3, <1>4, NotesStep

(* ... the taking of a message, which two replicas then have, ...          *)
LEMMA NotesTaken ==
  ASSUME Inv, Next, NEW w \in Replica, NEW m \in mail, Taking(w, m)
  PROVE  NoteInv'
<1>1. UNCHANGED <<recipients, notes, cache, sent, abandoned>>
  BY DEF Taking, NotesGiven
<1>2. Apart(w) /\ work[w] = Idle /\ work'[w] = Handler(m)
  BY GiveApart DEF Taking, Inv
<1>3. NoteTables' /\ NotesGo
  BY <1>1 DEF Inv, NoteInv, NoteTables, NotesGo
<1>4. NoteRead(w)'
  BY <1>2 DEF NoteRead, Handler
<1>5. ~In(w, "delivery", "mark")
  BY <1>2, DoneIsNot DEF In
<1> QED
  BY <1>1, <1>2, <1>3, <1>4, <1>5, NoteQuietly

(* ... a handler that is cut off, ...                                      *)
LEMMA NotesBreak ==
  ASSUME Inv, Next, NEW w \in Replica, Break(w), NotesBroken(w)
  PROVE  NoteInv'
<1>1. /\ disturbed' = IF In(w, "delivery", "send") \/ In(w, "delivery", "mark")
                      THEN disturbed \cup {work[w].event} ELSE disturbed
      /\ cache' \in {cache, [cache EXCEPT ![w] = [u \in User |-> Unknown]]}
      /\ UNCHANGED <<recipients, notes, sent, abandoned>>
  BY DEF NotesBroken
<1>2. Apart(w) /\ work'[w] = Idle
  BY EndsApart DEF Break, Inv
<1>3. NoteTables
  BY DEF Inv, NoteInv
<1>4. NoteTables' /\ NotesGo
  <2>1. cache = [v \in Replica |-> [u \in User |-> cache[v][u]]]
    BY <1>3 DEF NoteTables
  <2>2. cache' = [v \in Replica |-> [u \in User |-> cache'[v][u]]]
    BY <1>1, <2>1
  <2> QED
    BY <1>1, <1>3, <2>2 DEF NoteTables, NotesGo
<1>5. \A v \in Replica : work'[v] = work[v] \/ NoteRead(v)'
  BY <1>2 DEF Apart, NoteRead
<1>6. ASSUME NEW v \in Replica, NEW u \in User PROVE cache'[v][u] = cache[v][u] \/ CacheFits(v, u)'
  <2>1. cache = [x \in Replica |-> [y \in User |-> cache[x][y]]]
    BY <1>3 DEF NoteTables
  <2>2. cache'[v][u] = cache[v][u] \/ cache'[v][u] = Unknown
    BY <1>1, <2>1
  <2>3. ASSUME cache'[v][u] = Unknown PROVE CacheFits(v, u)'
    <3>1. cache'[v][u].until = 0
      BY <2>3 DEF Unknown
    <3>2. now' \in Nat /\ CacheTTL \in Nat
      BY InputsNext, CacheAssumption DEF InputInv
    <3>3. ASSUME NEW g \in Group PROVE offSince'[u][g] \in Nat \cup {None}
      BY TablesNext DEF ProfileTables
    <3>4. \A g \in Group : offSince'[u][g] = None \/ 0 <= offSince'[u][g] + CacheTTL
      BY <3>2, <3>3
    <3>5. 0 \in Nat /\ 0 <= now' + CacheTTL
      <4>1. \A n, t \in Nat : 0 <= n + t
        OBVIOUS
      <4> QED
        BY <3>2, <4>1
    <3> QED
      BY <3>1, <3>4, <3>5 DEF CacheFits
  <2> QED
    BY <2>2, <2>3
<1>7. ASSUME NEW e \in DOMAIN sent, NEW v \in Replica, Marking(v, e)
      PROVE  Marking(v, e)' \/ e \in disturbed'
  <2>1. CASE v = w
    BY <1>1, <1>7, <2>1 DEF Marking
  <2>2. CASE v # w
    BY <1>2, <1>7, <2>2 DEF Marking, Apart, In
  <2> QED
    BY <2>1, <2>2
<1> QED
  BY <1>1, <1>4, <1>5, <1>6, <1>7, NotesStep

(***************************************************************************)
(* The handlers of notification, one by one.                               *)
(***************************************************************************)
LEMMA NotesRecipient ==
  ASSUME Inv, Next, NEW w \in Replica, UpsertRecipient(w)
  PROVE  NoteInv'
<1>0. BusInv /\ NoteTables
  BY DEF Inv, NoteInv
<1>1. /\ In(w, "recipients", "begin") /\ Go(w, "over")
      /\ recipients' = recipients \cup {work[w].event.user}
      /\ UNCHANGED <<notes, cache, sent, abandoned>>
  BY DEF UpsertRecipient
<1>2. work[w].event.user \in User
  BY <1>0, <1>1, HoldsUser
<1>3. Moves(w) /\ Apart(w) /\ work[w].to = "recipients"
  BY <1>0, <1>1, InHolds, GoMoves, MovesApart
<1>4. NoteTables' /\ NotesGo
  BY <1>0, <1>1, <1>2 DEF NoteTables, NotesGo
<1>5. NoteRead(w)' /\ ~In(w, "delivery", "mark")
  BY <1>3 DEF NoteRead, Moves, Key, In
<1> QED
  BY <1>1, <1>3, <1>4, <1>5, NoteQuietly

(* ... the look at the recipient, ...                                      *)
LEMMA NotesBegin ==
  ASSUME Inv, Next, NEW w \in Replica, GetRecipient(w)
  PROVE  NoteInv'
<1>0. BusInv /\ NoteTables
  BY DEF Inv, NoteInv
<1>1. /\ In(w, "delivery", "begin") /\ (LetGo(w) \/ \E s \in {"prefs", "skip"} : Go(w, s))
      /\ UNCHANGED noteVars
  BY DEF GetRecipient
<1>2. NoteTables' /\ NotesGo
  BY <1>0, <1>1 DEF NoteTables, NotesGo
<1>3. CASE LetGo(w)
  <2>1. Apart(w) /\ work'[w] = Idle
    BY <1>0, <1>3, EndsApart
  <2>2. NoteRead(w)' /\ ~In(w, "delivery", "mark")
    BY <1>1, <2>1 DEF NoteRead, In
  <2> QED
    BY <1>1, <1>2, <2>1, <2>2, NoteQuietly
<1>4. ASSUME NEW s \in {"prefs", "skip"}, Go(w, s) PROVE NoteInv'
  <2>1. Apart(w) /\ work'[w].step = s
    BY <1>0, <1>1, <1>4, NoteGoes
  <2>2. NoteRead(w)' /\ ~In(w, "delivery", "mark")
    BY <1>1, <2>1 DEF NoteRead, In
  <2> QED
    BY <1>1, <1>2, <2>1, <2>2, NoteQuietly
<1> QED
  BY <1>1, <1>3, <1>4

(* ... the look at the cache, ...                                          *)
LEMMA NotesLookUp ==
  ASSUME Inv, Next, NEW w \in Replica, LookUp(w)
  PROVE  NoteInv'
<1>0. BusInv /\ NoteTables /\ InputInv
  BY DEF Inv, NoteInv
<1>1. /\ In(w, "delivery", "prefs") /\ UNCHANGED noteVars /\ now' = now
      /\ \/ \E s \in {"skip", "register"} : Go(w, s)
         \/ GoWith(w, "fetch", [asked |-> now, off |-> {}])
  BY DEF LookUp, Decided
<1>2. NoteTables' /\ NotesGo /\ ~In(w, "delivery", "mark")
  BY <1>0, <1>1 DEF NoteTables, NotesGo, In
<1>3. ASSUME NEW s \in {"skip", "register"}, Go(w, s) PROVE NoteInv'
  <2>1. Apart(w) /\ work'[w].step = s
    BY <1>0, <1>1, <1>3, NoteGoes
  <2>2. NoteRead(w)'
    BY <2>1 DEF NoteRead
  <2> QED
    BY <1>1, <1>2, <2>1, <2>2, NoteQuietly
<1>4. CASE GoWith(w, "fetch", [asked |-> now, off |-> {}])
  <2>1. Apart(w) /\ work'[w].step = "fetch" /\ work'[w].read = [asked |-> now, off |-> {}]
    BY <1>0, <1>1, <1>4, NoteGoesWith
  <2>2. now \in Nat
    BY <1>0 DEF InputInv
  <2>3. NoteRead(w)'
    BY <1>1, <2>1, <2>2 DEF NoteRead
  <2> QED
    BY <1>1, <1>2, <2>1, <2>3, NoteQuietly
<1> QED
  BY <1>1, <1>3, <1>4

(* ... the answer of user-profile, ...                                     *)
LEMMA NotesFetch ==
  ASSUME Inv, Next, NEW w \in Replica, Fetch(w)
  PROVE  NoteInv'
<1>0. BusInv /\ NoteTables /\ SwitchInv
  BY DEF Inv, NoteInv
<1>1. PICK u, h : u = work[w].event.user /\ h = work[w].read
  OBVIOUS
<1>2. PICK got : got = [h EXCEPT !.off = Group \ EffectivePrefs(u)]
  OBVIOUS
<1>3. /\ In(w, "delivery", "fetch") /\ GoWith(w, "answer", got)
      /\ UNCHANGED noteVars /\ UNCHANGED <<now, offSince>>
  BY <1>1, <1>2 DEF Fetch
<1>4. NoteTables' /\ NotesGo /\ ~In(w, "delivery", "mark")
  BY <1>0, <1>3 DEF NoteTables, NotesGo, In
<1>5. /\ work[w] # Idle /\ work[w].to = "delivery" /\ work[w].step = "fetch" /\ Apart(w)
      /\ work'[w].step = "answer" /\ work'[w].read = got /\ work'[w].event = work[w].event
  BY <1>0, <1>3, NoteGoesWith
<1>6. h = [asked |-> h.asked, off |-> h.off] /\ h.asked \in Nat /\ h.asked <= now
  BY <1>1, <1>5 DEF Inv, NoteInv, NoteRead
<1>7. got = [asked |-> h.asked, off |-> Group \ EffectivePrefs(u)]
  BY <1>2, <1>6
<1>8. u \in User
  BY <1>0, <1>1, <1>3, HoldsUser
<1>9. ASSUME NEW g \in Group \ got.off PROVE offSince[u][g] = None
  <2>1. ~Off(prefs[u], g) /\ g \in Group
    BY <1>7, <1>9 DEF EffectivePrefs
  <2> QED
    BY <1>0, <1>8, <2>1 DEF SwitchInv, OffKept
<1>10. got.asked = h.asked /\ got = [asked |-> got.asked, off |-> got.off]
  BY <1>7
<1>11. NoteRead(w)'
  BY <1>1, <1>3, <1>5, <1>6, <1>9, <1>10 DEF NoteRead, Since
<1> QED
  BY <1>3, <1>4, <1>5, <1>11, NoteQuietly

(* ... which is kept from the time it was asked for, ...                   *)
LEMMA NotesRemember ==
  ASSUME Inv, Next, NEW w \in Replica, Remember(w)
  PROVE  NoteInv'
<1>0. BusInv /\ NoteTables /\ InputInv /\ ProfileTables
  BY DEF Inv, NoteInv
<1>1. PICK u, h : u = work[w].event.user /\ h = work[w].read
  OBVIOUS
<1>2. PICK entry : entry = [off |-> h.off, until |-> h.asked + CacheTTL]
  OBVIOUS
<1>3. /\ In(w, "delivery", "answer") /\ cache' = [cache EXCEPT ![w][u] = entry]
      /\ UNCHANGED <<recipients, notes, sent, disturbed, abandoned, now, offSince>>
      /\ \E s \in {"skip", "register"} : GoWith(w, s, None)
  BY <1>1, <1>2 DEF Remember, Decided
<1>4. /\ work[w] # Idle /\ work[w].to = "delivery" /\ work[w].step = "answer" /\ Apart(w)
      /\ work'[w].step \in {"skip", "register"}
  BY <1>0, <1>3, NoteGoesWith
<1>5. cache = [v \in Replica |-> [x \in User |-> cache[v][x]]]
  BY <1>0 DEF NoteTables
<1>6. NoteTables' /\ NotesGo
  <2>1. cache' = [v \in Replica |-> [x \in User |-> cache'[v][x]]]
    BY <1>3, <1>5
  <2> QED
    BY <1>0, <1>3, <2>1 DEF NoteTables, NotesGo
<1>7. u \in User
  BY <1>0, <1>1, <1>3, HoldsUser
<1>8. CacheFits(w, u)'
  <2>1. /\ h.asked \in Nat /\ h.asked <= now /\ \A g \in Group \ h.off : Since(h.asked, offSince[u][g])
    BY <1>1, <1>4 DEF Inv, NoteInv, NoteRead
  <2>2. cache'[w][u] = entry
    BY <1>3, <1>5, <1>7
  <2>3. now \in Nat /\ CacheTTL \in Nat /\ \A g \in Group : offSince[u][g] \in Nat \cup {None}
    BY <1>0, <1>7, CacheAssumption DEF InputInv, ProfileTables
  <2>4. entry.off = h.off /\ entry.until = h.asked + CacheTTL
    BY <1>2
  <2> QED
    BY <1>3, <2>1, <2>2, <2>3, <2>4 DEF CacheFits, Since
<1>9. \A v \in Replica, x \in User : cache'[v][x] = cache[v][x] \/ (v = w /\ x = u)
  BY <1>3, <1>5
<1>10. \A v \in Replica : work'[v] = work[v] \/ NoteRead(v)'
  BY <1>4 DEF Apart, NoteRead
<1>11. ~In(w, "delivery", "mark")
  BY <1>4 DEF In
<1>12. \A v \in Replica : \A e \in DOMAIN sent : Marking(v, e) => Marking(v, e)'
  BY <1>4, <1>11, MarkingStays
<1> QED
  BY <1>3, <1>6, <1>8, <1>9, <1>10, <1>12, NotesStep

(* A line is written to the journal.                                       *)
LEMMA NotedFits ==
  ASSUME NoteTables, NEW e, NEW status \in {"pending", "sent", "failed", "skipped"},
         Noted(e, status), UNCHANGED <<recipients, cache>>
  PROVE  NoteTables'
<1>1. notes' = [x \in DOMAIN notes \cup {e} |-> IF x = e THEN status ELSE notes[x]]
  BY DEF Noted
<1>2. \A x \in DOMAIN notes' : notes'[x] \in {"pending", "sent", "failed", "skipped"}
  BY <1>1 DEF NoteTables
<1> QED
  BY <1>2 DEF NoteTables

(* ... an event that is skipped, ...                                       *)
LEMMA NotesSkip ==
  ASSUME Inv, Next, NEW w \in Replica, RecordSkipped(w)
  PROVE  NoteInv'
<1>0. BusInv /\ NoteTables
  BY DEF Inv, NoteInv
<1>1. /\ In(w, "delivery", "skip") /\ Go(w, "over") /\ UNCHANGED <<recipients, cache, sent>>
      /\ UNCHANGED notes \/ Noted(work[w].event, "skipped")
  BY DEF RecordSkipped
<1>2. NotesGo
  BY NoteStays DEF NoteHandler
<1>3. NoteTables'
  <2>1. CASE UNCHANGED notes
    BY <1>0, <1>1, <2>1 DEF NoteTables
  <2>2. CASE Noted(work[w].event, "skipped")
    BY <1>0, <1>1, <2>2, NotedFits
  <2> QED
    BY <1>1, <2>1, <2>2
<1>4. work[w].step = "skip" /\ Apart(w) /\ work'[w].step = "over"
  BY <1>0, <1>1, NoteGoes
<1>5. NoteRead(w)' /\ ~In(w, "delivery", "mark")
  BY <1>4 DEF NoteRead, In
<1> QED
  BY <1>1, <1>2, <1>3, <1>4, <1>5, NoteQuietly

(* Two handlers of an event that is not disturbed are the same one.        *)
LEMMA SameHand ==
  ASSUME HeldAlone, NEW w \in Replica, NEW v \in Replica, work[w] # Idle, work[v] # Idle,
         work[w].to = "delivery", work[v].to = "delivery",
         work[w].event = work[v].event, work[w].event \notin disturbed
  PROVE  w = v
  BY DEF HeldAlone, Key

(* ... one that is registered, unless it is known to have ended, ...       *)
LEMMA NotesRegister ==
  ASSUME Inv, Next, NEW w \in Replica, BeginDelivery(w)
  PROVE  NoteInv'
<1>0. BusInv /\ NoteTables /\ HeldAlone
  BY DEF Inv, NoteInv
<1>1. PICK e : e = work[w].event
  OBVIOUS
<1>2. /\ In(w, "delivery", "register") /\ UNCHANGED <<recipients, cache, sent, disturbed>>
      /\ UNCHANGED notes \/ Noted(e, "pending")
      /\ Go(w, IF Begun(e) /\ notes[e] # "pending" THEN "over" ELSE "send")
  BY <1>1 DEF BeginDelivery
<1>3. NotesGo
  BY NoteStays DEF NoteHandler
<1>4. NoteTables'
  <2>1. CASE UNCHANGED notes
    BY <1>0, <1>2, <2>1 DEF NoteTables
  <2>2. CASE Noted(e, "pending")
    BY <1>0, <1>2, <2>2, NotedFits
  <2> QED
    BY <1>2, <2>1, <2>2
<1>5. /\ work[w] # Idle /\ work[w].to = "delivery" /\ work[w].step = "register" /\ Apart(w)
      /\ work'[w].step = (IF Begun(e) /\ notes[e] # "pending" THEN "over" ELSE "send")
      /\ work'[w].event = e
  BY <1>0, <1>1, <1>2, NoteGoes
<1>6. ASSUME work'[w].step = "send", e \notin disturbed PROVE e \notin DOMAIN sent
  <2> SUFFICES ASSUME e \in DOMAIN sent PROVE FALSE
    OBVIOUS
  <2>1. ~(e \in DOMAIN notes /\ notes[e] # "pending")
    BY <1>5, <1>6 DEF Begun
  <2>2. SentFits(e)
    BY DEF Inv, NoteInv
  <2>3. PICK v \in Replica : Marking(v, e)
    BY <1>6, <2>1, <2>2 DEF SentFits
  <2>4. work[v] # Idle /\ work[v].to = "delivery" /\ work[v].step = "mark" /\ work[v].event = e
    BY <2>3, InHolds DEF Marking
  <2>5. w = v
    BY <1>0, <1>1, <1>5, <1>6, <2>4, SameHand
  <2> QED
    BY <1>5, <2>4, <2>5
<1>7. NoteRead(w)' /\ ~In(w, "delivery", "mark")
  <2>1. work'[w].step = "send" /\ e \notin disturbed' => e \notin DOMAIN sent'
    BY <1>2, <1>6
  <2>2. work'[w].step \in {"over", "send"}
    BY <1>5
  <2> QED
    BY <1>5, <2>1, <2>2 DEF NoteRead, In
<1> QED
  BY <1>2, <1>3, <1>4, <1>5, <1>7, NoteQuietly

(* ... sent, for the first time if it is undisturbed, ...                  *)
LEMMA NotesSend ==
  ASSUME Inv, Next, NEW w \in Replica, Send(w)
  PROVE  NoteInv'
<1>0. BusInv /\ NoteTables /\ HeldAlone
  BY DEF Inv, NoteInv
<1>1. PICK e : e = work[w].event
  OBVIOUS
<1>2. /\ In(w, "delivery", "send") /\ GoWith(w, "mark", "sent")
      /\ sent' = [x \in DOMAIN sent \cup {e} |-> IF x = e THEN Times(e) + 1 ELSE sent[x]]
      /\ UNCHANGED noteTables /\ UNCHANGED <<disturbed, abandoned>>
  BY <1>1 DEF Send, Accepted, Outcome
<1>3. /\ work[w] # Idle /\ work[w].to = "delivery" /\ work[w].step = "send" /\ Apart(w)
      /\ work'[w].step = "mark" /\ work'[w].read = "sent"
      /\ work'[w].event = e /\ work'[w].op = "handle" /\ work'[w].to = "delivery"
  BY <1>0, <1>1, <1>2, NoteGoesWith
<1>4. NoteTables' /\ NotesGo
  BY <1>0, <1>2 DEF NoteTables, NotesGo
<1>5. \A v \in Replica : work'[v] = work[v] \/ NoteRead(v)'
  BY <1>3 DEF NoteRead, Apart
<1>6. ASSUME NEW v \in Replica, In(v, "delivery", "send"), work'[v] = work[v],
             work[v].event \notin disturbed', work[v].event \in DOMAIN sent'
      PROVE  work[v].event \in DOMAIN sent
  <2>1. v # w
    BY <1>3, <1>6
  <2>2. work[v] # Idle /\ work[v].to = "delivery"
    BY <1>6, InHolds
  <2>3. work[v].event # e
    BY <1>0, <1>1, <1>2, <1>3, <1>6, <2>1, <2>2, SameHand
  <2> QED
    BY <1>2, <1>6, <2>3
<1>7. SentFits(e)'
  <2>1. sent'[e] = Times(e) + 1
    BY <1>2
  <2>2. Times(e) \in Nat
    <3>1. e \in DOMAIN sent => SentFits(e)
      BY DEF Inv, NoteInv
    <3> QED
      BY <3>1 DEF Times, SentFits
  <2>3. e \notin disturbed => Times(e) = 0
    BY <1>1, <1>3 DEF Inv, NoteInv, NoteRead, Times
  <2>4. Marking(w, e)'
    BY <1>3 DEF Marking, In
  <2> QED
    BY <1>2, <2>1, <2>2, <2>3, <2>4 DEF SentFits
<1>8. ~In(w, "delivery", "mark")
  BY <1>3 DEF In
<1>9. \A x \in DOMAIN sent' : x # e => x \in DOMAIN sent /\ sent'[x] = sent[x]
  BY <1>2
<1>10. \A v \in Replica : \A x : Marking(v, x) => Marking(v, x)'
  BY <1>3, <1>8, MarkingStays
<1> QED
  BY <1>2, <1>4, <1>5, <1>6, <1>7, <1>9, <1>10, NotesStep

(* ... refused, ...                                                        *)
LEMMA NotesRefused ==
  ASSUME Inv, Next, NEW w \in Replica, SendRefused(w)
  PROVE  NoteInv'
<1>0. BusInv /\ NoteTables
  BY DEF Inv, NoteInv
<1>1. In(w, "delivery", "send") /\ GoWith(w, "mark", "failed") /\ UNCHANGED noteVars
  BY DEF SendRefused, Outcome
<1>2. work[w].step = "send" /\ Apart(w) /\ work'[w].step = "mark" /\ work'[w].read = "failed"
  BY <1>0, <1>1, NoteGoesWith
<1>3. NoteTables' /\ NotesGo
  BY <1>0, <1>1 DEF NoteTables, NotesGo
<1>4. NoteRead(w)' /\ ~In(w, "delivery", "mark")
  BY <1>2 DEF NoteRead, In
<1> QED
  BY <1>1, <1>2, <1>3, <1>4, NoteQuietly

(* ... to be tried again, which disturbs it, ...                           *)
LEMMA NotesAgainLater ==
  ASSUME Inv, Next, NEW w \in Replica, SendAgainLater(w)
  PROVE  NoteInv'
<1>0. BusInv /\ NoteTables
  BY DEF Inv, NoteInv
<1>1. PICK e : e = work[w].event
  OBVIOUS
<1>2. /\ In(w, "delivery", "send") /\ LetGo(w)
      /\ Accepted(e) \/ UNCHANGED sent
      /\ disturbed' = disturbed \cup {e}
      /\ UNCHANGED noteTables /\ UNCHANGED abandoned
  BY <1>1 DEF SendAgainLater
<1>3. Apart(w) /\ work'[w] = Idle /\ ~In(w, "delivery", "mark")
  BY <1>0, <1>2, EndsApart DEF In
<1>4. NoteTables' /\ NotesGo
  BY <1>0, <1>2 DEF NoteTables, NotesGo
<1>5. \A v \in Replica : work'[v] = work[v] \/ NoteRead(v)'
  BY <1>3 DEF NoteRead, Apart
<1>6. \A v \in Replica : \A x : Marking(v, x) => Marking(v, x)'
  BY <1>3, MarkingStays
<1>7. \A x \in DOMAIN sent' : x # e => x \in DOMAIN sent /\ sent'[x] = sent[x]
  BY <1>2 DEF Accepted
<1>8. e \in DOMAIN sent' => SentFits(e)'
  <2>1. e \in DOMAIN sent => sent[e] \in Nat
    BY DEF Inv, NoteInv, SentFits
  <2>2. Times(e) \in Nat
    BY <2>1 DEF Times
  <2>3. e \in DOMAIN sent' => sent'[e] \in Nat
    BY <1>2, <2>1, <2>2 DEF Accepted
  <2> QED
    BY <1>2, <2>3 DEF SentFits
<1> QED
  BY <1>2, <1>4, <1>5, <1>6, <1>7, <1>8, NotesStep

(* ... and marked.                                                         *)
LEMMA NotesMark ==
  ASSUME Inv, Next, NEW w \in Replica, Mark(w)
  PROVE  NoteInv'
<1>0. BusInv /\ NoteTables
  BY DEF Inv, NoteInv
<1>1. PICK e, status : e = work[w].event /\ status = work[w].read
  OBVIOUS
<1>2. /\ In(w, "delivery", "mark") /\ Go(w, "over") /\ Noted(e, status)
      /\ UNCHANGED <<recipients, cache, sent, disturbed>>
  BY <1>1 DEF Mark
<1>3. /\ work[w] # Idle /\ work[w].to = "delivery" /\ work[w].step = "mark" /\ Apart(w)
      /\ work'[w].step = "over"
  BY <1>0, <1>2, NoteGoes
<1>4. status \in {"sent", "failed"}
  BY <1>1, <1>3 DEF Inv, NoteInv, NoteRead
<1>5. NotesGo
  BY NoteStays DEF NoteHandler
<1>6. NoteTables'
  BY <1>0, <1>2, <1>4, NotedFits
<1>7. \A v \in Replica : work'[v] = work[v] \/ NoteRead(v)'
  BY <1>3 DEF NoteRead, Apart
<1>8. e \in DOMAIN sent => SentFits(e)'
  <2>1. e \in DOMAIN notes' /\ notes'[e] # "pending"
    BY <1>2, <1>4 DEF Noted
  <2> QED
    BY <1>2, <2>1 DEF Inv, NoteInv, SentFits
<1>9. ASSUME NEW x \in DOMAIN sent, x # e, NEW v \in Replica, Marking(v, x)
      PROVE  Marking(v, x)'
  <2>1. v # w
    BY <1>1, <1>9 DEF Marking
  <2> QED
    BY <1>3, <1>9, <2>1 DEF Marking, Apart, In
<1> QED
  BY <1>2, <1>5, <1>6, <1>7, <1>8, <1>9, NotesStep

(* Every step keeps the notifications.                                     *)
LEMMA NotesNext ==
  ASSUME Inv, Next
  PROVE  NoteInv'
<1>1. ASSUME NEW w \in Replica, NoteHandler(w) PROVE NoteInv'
  BY <1>1, NotesRecipient, NotesBegin, NotesLookUp, NotesFetch, NotesRemember, NotesSkip,
     NotesRegister, NotesSend, NotesMark DEF NoteHandler
<1> QED
  BY <1>1, NoteSteps, NotesAsideKept, NotesTaken, NotesBreak, NotesRefused, NotesAgainLater

-----------------------------------------------------------------------------
(***************************************************************************)
(* Favorites and saved searches.                                           *)
(***************************************************************************)
(* No search is inserted, deleted or told of.                              *)
SearchQuiet ==
  UNCHANGED <<searches, matches, told, crowded>> /\ favorites' \subseteq User \X Ad

(* All steps leave the searches as they are but these.                     *)
LEMMA SearchSteps ==
  ASSUME Inv, Next
  PROVE  \/ SearchQuiet
         \/ \E q \in Request : CreateSavedSearch(q)
         \/ \E s \in searches : DeleteSavedSearch(s)
         \/ \E w \in Replica, id \in Request : RecordMatch(w, id)
<1>0. budget.people \subseteq User /\ favorites \subseteq User \X Ad
  BY DEF Inv, SearchInv, SearchTables, InputInv, StoryFits
<1>u. UNCHANGED searchVars => SearchQuiet
  BY <1>0 DEF SearchQuiet
<1>1. ASSUME NEW q \in Request, People(q) \/ Searchers(q) \/ RequestStep(q), ~CreateSavedSearch(q)
      PROVE  UNCHANGED searchVars
  BY <1>1 DEF People, Searchers, CountSavedSearches, RequestStep, SearchRequest
<1>2. ASSUME Elsewhere PROVE SearchQuiet \/ \E s \in searches : DeleteSavedSearch(s)
  <2>1. ASSUME NEW u \in budget.people, NEW a \in Ad, AddFavorite(u, a) PROVE SearchQuiet
    <3>1. UNCHANGED <<searches, matches, told, crowded>> /\ favorites' = favorites \cup {<<u, a>>}
      BY <2>1 DEF AddFavorite
    <3> QED
      BY <1>0, <3>1 DEF SearchQuiet
  <2>2. ASSUME NEW u \in budget.people, NEW a \in Ad, RemoveFavorite(u, a) PROVE SearchQuiet
    BY <1>0, <2>2 DEF RemoveFavorite, SearchQuiet
  <2>3. ASSUME NEW a \in Ad, DeleteAd(a) \/ Approve(a) PROVE UNCHANGED searchVars
    BY <2>3 DEF DeleteAd, Approve
  <2> QED
    BY <1>2, <1>u, <2>1, <2>2, <2>3 DEF Elsewhere
<1>3. ASSUME NEW w \in Replica, HandlerStep(w)
      PROVE  SearchQuiet \/ \E id \in Request : RecordMatch(w, id)
  <2>1. RemoveByAd(w) => SearchQuiet
    BY <1>0 DEF RemoveByAd, SearchQuiet
  <2>2. FindMatches(w) => SearchQuiet
    BY <1>0 DEF FindMatches, SearchQuiet
  <2>3. \A id : RecordFails(w, id) => UNCHANGED searchVars
    BY DEF RecordFails
  <2>4. SearchHandler(w) => SearchQuiet \/ \E id \in Request : RecordMatch(w, id)
    BY <1>u, <2>1, <2>2, <2>3 DEF SearchHandler
  <2> QED
    BY <1>3, <1>u, <2>4 DEF HandlerStep
<1>4. ASSUME NEW w \in Replica, NEW m \in mail, Taking(w, m) PROVE UNCHANGED searchVars
  BY <1>4 DEF Taking
<1>5. ASSUME Faults PROVE UNCHANGED searchVars
  BY <1>5 DEF Faults
<1>6. ASSUME Time PROVE UNCHANGED searchVars
  BY <1>6 DEF Time
<1> QED
  BY <1>1, <1>2, <1>3, <1>4, <1>5, <1>6, <1>u, NextIs

(* What each of these steps does to the tables.                            *)
LEMMA CreateIs ==
  ASSUME Inv, NEW q \in Request, CreateSavedSearch(q)
  PROVE  \E n :
           /\ n = [id |-> q, user |-> req[q].user, query |-> req[q].query, notified |-> None]
           /\ n.id = q /\ n.user = req[q].user
           /\ searches' = searches \cup {n} /\ n \notin searches
           /\ UNCHANGED <<favorites, matches, told>>
           /\ req[q] \in SearchRequests /\ req[q] # Done /\ req'[q] = Done
           /\ \A s \in searches : s.id # q
           /\ req[q].user \notin crowded' => /\ req[q].user \notin crowded
                                             /\ \A p \in Request : ~Creating(q, p)
           /\ \A u \in User \ {req[q].user} : u \notin crowded' => u \notin crowded
<1>0. InputInv /\ SearchTables
  BY DEF Inv, SearchInv
<1>1. PICK n : n = [id |-> q, user |-> req[q].user, query |-> req[q].query, notified |-> None]
  OBVIOUS
<1>2. n.id = q /\ n.user = req[q].user
  BY <1>1
<1>3. /\ Asks(q, "search", "insert") /\ Turn(q, Done) /\ searches' = searches \cup {n}
      /\ crowded' = IF \E p \in Request : Creating(q, p) THEN crowded \cup {req[q].user} ELSE crowded
      /\ UNCHANGED <<favorites, matches, told>>
  BY <1>1 DEF CreateSavedSearch
<1>4. req[q] \in SearchRequests /\ req[q] # Done /\ req'[q] = Done
  BY <1>0, <1>3, ByOp, AsksIsOpen, Turning DEF Asks
<1>5. \A s \in searches : s.id # q
  BY <1>0, <1>4 DEF SearchTables, SearchFits
<1>6. n \notin searches
  BY <1>2, <1>5
<1> QED
  BY <1>1, <1>2, <1>3, <1>4, <1>5, <1>6

(* Every step keeps the tables of searches and favorites.                  *)
LEMMA SearchTablesNext ==
  ASSUME Inv, Next
  PROVE  SearchTables'
<1>0. SearchTables /\ BusInv /\ InputInv
  BY DEF Inv, SearchInv
<1>d. /\ \A q \in Request : req[q] = Done => req'[q] = Done
      /\ now \in Nat
  BY InputsNext DEF Advance, Inv, InputInv
<1>f. \A s \in searches : SearchFits(s) /\ SearchFits(s)'
  BY <1>0, <1>d DEF SearchTables, SearchFits
<1>1. CASE SearchQuiet
  BY <1>0, <1>1, <1>f DEF SearchQuiet, SearchTables
<1>2. ASSUME NEW q \in Request, CreateSavedSearch(q) PROVE SearchTables'
  <2>1. PICK n :
          /\ n = [id |-> q, user |-> req[q].user, query |-> req[q].query, notified |-> None]
          /\ searches' = searches \cup {n} /\ UNCHANGED <<favorites, matches>>
          /\ req[q] \in SearchRequests /\ req'[q] = Done /\ \A s \in searches : s.id # q
    BY <1>2, CreateIs
  <2>2. req[q].user \in User /\ req[q].query \in Query
    BY <2>1 DEF SearchRequests
  <2>3. n.id = q /\ n.user = req[q].user /\ n.query = req[q].query /\ n.notified = None
    BY <2>1
  <2>4. SearchFits(n)'
    BY <2>1, <2>2, <2>3 DEF SearchFits
  <2>5. IsFiniteSet(searches')
    BY <1>0, <2>1, FS_AddElement DEF SearchTables
  <2>6. \A s, x \in searches' : s.id = x.id => s = x
    BY <1>0, <2>1, <2>3 DEF SearchTables
  <2>7. matches' \subseteq {s.id : s \in searches'} \X Ad
    BY <1>0, <2>1 DEF SearchTables
  <2> QED
    BY <1>0, <1>f, <2>1, <2>4, <2>5, <2>6, <2>7 DEF SearchTables
<1>3. ASSUME NEW s \in searches, DeleteSavedSearch(s) PROVE SearchTables'
  <2>1. /\ searches' = searches \ {s} /\ matches' = {m \in matches : m[1] # s.id}
        /\ UNCHANGED favorites
    BY <1>3 DEF DeleteSavedSearch
  <2>2. IsFiniteSet(searches')
    BY <1>0, <2>1, FS_RemoveElement DEF SearchTables
  <2>3. matches' \subseteq {x.id : x \in searches'} \X Ad
    BY <1>0, <2>1 DEF SearchTables
  <2> QED
    BY <1>0, <1>f, <2>1, <2>2, <2>3 DEF SearchTables
<1>4. ASSUME NEW w \in Replica, NEW id \in Request, RecordMatch(w, id) PROVE SearchTables'
  <2>1. PICK a : a = work[w].event.ad
    OBVIOUS
  <2>2. /\ In(w, "matcher", "record") /\ UNCHANGED favorites
    BY <1>4 DEF RecordMatch
  <2>3. a \in Ad
    BY <1>0, <2>1, <2>2, HoldsMessage DEF Fits
  <2>4. \E x \in searches : \E t : Recorded(x, t, id, a)
    BY <1>0, <1>4, <2>1, RecordIs
  <2>5. PICK x \in searches : \E t : Recorded(x, t, id, a)
    BY <2>4
  <2>6. PICK t :
           /\ x.id = id /\ t.id = id
           /\ matches' = matches \cup {<<id, a>>}
           /\ \/ UNCHANGED searches
              \/ /\ searches' = (searches \ {x}) \cup {t}
                 /\ t = [id |-> x.id, user |-> x.user, query |-> x.query, notified |-> now]
    BY <2>5 DEF Recorded
  <2>7. CASE UNCHANGED searches
    <3>1. matches' \subseteq {s.id : s \in searches'} \X Ad
      BY <1>0, <2>3, <2>6, <2>7 DEF SearchTables
    <3> QED
      BY <1>0, <1>f, <2>2, <2>7, <3>1 DEF SearchTables
  <2>8. CASE /\ searches' = (searches \ {x}) \cup {t}
             /\ t = [id |-> x.id, user |-> x.user, query |-> x.query, notified |-> now]
    <3>1. t.id = x.id /\ t.user = x.user /\ t.query = x.query /\ t.notified = now
      BY <2>8
    <3>2. SearchFits(t)'
      BY <1>d, <1>f, <2>8, <3>1 DEF SearchFits
    <3>3. IsFiniteSet(searches')
      <4>1. IsFiniteSet(searches \ {x})
        BY <1>0, FS_RemoveElement DEF SearchTables
      <4> QED
        BY <2>8, <4>1, FS_AddElement
    <3>4. \A s, y \in searches' : s.id = y.id => s = y
      BY <1>0, <2>8, <3>1 DEF SearchTables
    <3>5. {s.id : s \in searches} \subseteq {s.id : s \in searches'}
      <4> SUFFICES ASSUME NEW s \in searches PROVE \E y \in searches' : y.id = s.id
        OBVIOUS
      <4> QED
        BY <2>8, <3>1
    <3>6. matches' \subseteq {s.id : s \in searches'} \X Ad
      <4>1. matches \subseteq {s.id : s \in searches} \X Ad /\ id \in {s.id : s \in searches}
        BY <1>0, <2>6 DEF SearchTables
      <4> QED
        BY <2>3, <2>6, <3>5, <4>1
    <3> QED
      BY <1>0, <1>f, <2>2, <2>8, <3>2, <3>3, <3>4, <3>6 DEF SearchTables
  <2> QED
    BY <2>6, <2>7, <2>8
<1> QED
  BY <1>1, <1>2, <1>3, <1>4, SearchSteps

(***************************************************************************)
(* What is told.                                                           *)
(***************************************************************************)
(* Two alerts of a search are of two ads, and far apart.                   *)
Rare(x, y) == x # y /\ x.search = y.search =>
  x.ad # y.ad /\ (x.at >= y.at + Throttle \/ y.at >= x.at + Throttle)

(* AlertsAreRare by pairs.                                                 *)
LEMMA RareIs == AlertsAreRare <=> \A x, y \in told : Rare(x, y)
  BY DEF AlertsAreRare, Rare

(* A new alert is of a pair that was not on record, Throttle after the     *)
(* last alert of its search; so every step keeps AlertsAreRare.            *)
LEMMA ToldNext ==
  ASSUME Inv, Next
  PROVE  AlertsAreRare' /\ \A y \in told' : ToldFits(y)'
<1>0. /\ SearchTables /\ BusInv /\ InputInv /\ (\A x, y \in told : Rare(x, y))
      /\ \A y \in told : ToldFits(y)
  BY RareIs DEF Inv, SearchInv
<1>d. (\A q \in Request : req[q] = Done => req'[q] = Done) /\ now \in Nat /\ Throttle \in Nat
  BY InputsNext, SearchAssumption DEF Advance, Inv, InputInv
<1>r. (\A x, y \in told' : Rare(x, y)) => AlertsAreRare'
  BY DEF AlertsAreRare, Rare
<1>1. CASE SearchQuiet
  <2>1. UNCHANGED <<searches, matches, told>>
    BY <1>1 DEF SearchQuiet
  <2>2. \A y \in told : ToldFits(y)'
    BY <1>0, <1>d, <2>1 DEF ToldFits
  <2> QED
    BY <1>0, <1>r, <2>1, <2>2
<1>2. ASSUME NEW q \in Request, CreateSavedSearch(q)
      PROVE  AlertsAreRare' /\ \A y \in told' : ToldFits(y)'
  <2>1. PICK n :
          /\ n.id = q /\ searches' = searches \cup {n} /\ UNCHANGED <<matches, told>>
          /\ req[q] # Done
    BY <1>2, CreateIs
  <2>2. ASSUME NEW y \in told PROVE ToldFits(y)'
    <3>1. ToldFits(y)
      BY <1>0
    <3>2. n.id # y.search
      BY <2>1, <3>1 DEF ToldFits
    <3> QED
      BY <1>d, <2>1, <3>1, <3>2 DEF ToldFits
  <2> QED
    BY <1>0, <1>r, <2>1, <2>2
<1>3. ASSUME NEW s \in searches, DeleteSavedSearch(s)
      PROVE  AlertsAreRare' /\ \A y \in told' : ToldFits(y)'
  <2>1. searches' = searches \ {s} /\ matches' = {m \in matches : m[1] # s.id} /\ UNCHANGED told
    BY <1>3 DEF DeleteSavedSearch
  <2>2. \A x \in searches' : x.id # s.id
    BY <1>0, <2>1 DEF SearchTables
  <2>3. ASSUME NEW y \in told PROVE ToldFits(y)'
    <3>1. ToldFits(y)
      BY <1>0
    <3> QED
      BY <1>d, <2>1, <2>2, <3>1 DEF ToldFits
  <2> QED
    BY <1>0, <1>r, <2>1, <2>3
<1>4. ASSUME NEW w \in Replica, NEW id \in Request, RecordMatch(w, id)
      PROVE  AlertsAreRare' /\ \A y \in told' : ToldFits(y)'
  <2>1. PICK a : a = work[w].event.ad
    OBVIOUS
  <2>2. \E x \in searches : \E t : Recorded(x, t, id, a)
    BY <1>0, <1>4, <2>1, RecordIs
  <2>3. PICK x \in searches : \E t : Recorded(x, t, id, a)
    BY <2>2
  <2>4. PICK t : Recorded(x, t, id, a)
    BY <2>3
  <2>5. CASE UNCHANGED <<searches, told>>
    <3>1. matches \subseteq matches'
      BY <2>4 DEF Recorded
    <3>2. \A y \in told : ToldFits(y)'
      BY <1>0, <1>d, <2>5, <3>1 DEF ToldFits
    <3> QED
      BY <1>0, <1>r, <2>5, <3>2
  <2>6. CASE ~UNCHANGED <<searches, told>>
    <3>1. /\ x.id = id /\ t.id = id /\ matches' = matches \cup {<<id, a>>}
          /\ <<id, a>> \notin matches /\ ~Soon(x) /\ Alert(x, a)
          /\ searches' = (searches \ {x}) \cup {t}
          /\ t = [id |-> x.id, user |-> x.user, query |-> x.query, notified |-> now]
      BY <2>4, <2>6 DEF Recorded
    <3>2. PICK new : new = [search |-> id, ad |-> a, at |-> now, nth |-> Cardinality(told)]
      OBVIOUS
    <3>3. told' = told \cup {new}
      BY <3>1, <3>2 DEF Alert
    <3>4. new.search = id /\ new.ad = a /\ new.at = now /\ t.notified = now
      BY <3>1, <3>2
    <3>5. SearchFits(x)
      BY <1>0 DEF SearchTables
    <3>6. ASSUME NEW y \in told, y.search = id
          PROVE  y.ad # a /\ y.at \in Nat /\ now >= y.at + Throttle /\ y.at <= now
      <4>1. <<id, y.ad>> \in matches /\ x.notified \in Nat /\ y.at <= x.notified /\ y.at \in Nat
        BY <1>0, <3>1, <3>6 DEF ToldFits
      <4>2. x.notified + Throttle <= now
        <5>1. x.notified # None /\ ~(x.notified + Throttle > now)
          BY <3>1, <4>1, BusAssumption DEF Soon
        <5> QED
          BY <1>d, <4>1, <5>1
      <4>3. y.ad # a
        BY <3>1, <4>1
      <4> QED
        BY <1>d, <4>1, <4>2, <4>3
    <3>7. ASSUME NEW y \in told' PROVE ToldFits(y)'
      <4>1. CASE y = new
        <5>1. id \in Request /\ req'[id] = Done
          BY <1>d, <3>1, <3>5 DEF SearchFits
        <5>2. \A s \in searches' : s.id = id => s = t
          BY <1>0, <3>1 DEF SearchTables
        <5>3. now <= now
          BY <1>d
        <5> QED
          BY <1>d, <3>1, <3>4, <4>1, <5>1, <5>2, <5>3 DEF ToldFits
      <4>2. CASE y # new
        <5>1. y \in told /\ ToldFits(y)
          BY <1>0, <3>3, <4>2
        <5>2. y.search \in Request /\ req'[y.search] = Done /\ y.at \in Nat
          BY <1>d, <5>1 DEF ToldFits
        <5>3. ASSUME NEW s \in searches', s.id = y.search
              PROVE  <<y.search, y.ad>> \in matches' /\ s.notified \in Nat /\ y.at <= s.notified
          <6>1. CASE s = t
            <7>1. x.id = y.search /\ y.search = id
              BY <3>1, <5>3, <6>1
            <7>2. <<y.search, y.ad>> \in matches
              BY <5>1, <7>1 DEF ToldFits
            <7> QED
              BY <1>d, <3>1, <3>4, <3>6, <5>1, <6>1, <7>1, <7>2
          <6>2. CASE s # t
            <7>1. s \in searches
              BY <3>1, <6>2
            <7> QED
              BY <3>1, <5>1, <5>3, <7>1 DEF ToldFits
          <6> QED
            BY <6>1, <6>2
        <5> QED
          BY <5>2, <5>3 DEF ToldFits
      <4> QED
        BY <4>1, <4>2
    <3>8. ASSUME NEW y \in told' PROVE Rare(new, y) /\ Rare(y, new)
      <4>1. CASE y = new
        BY <4>1 DEF Rare
      <4>2. CASE y # new /\ y.search # id
        BY <3>4, <4>2 DEF Rare
      <4>3. CASE y # new /\ y.search = id
        <5>1. y.ad # a /\ now >= y.at + Throttle
          BY <3>3, <3>6, <4>3
        <5> QED
          BY <3>4, <5>1 DEF Rare
      <4> QED
        BY <4>1, <4>2, <4>3
    <3>9. \A y, z \in told' : Rare(y, z)
      BY <1>0, <3>3, <3>8
    <3> QED
      BY <1>r, <3>7, <3>9
  <2> QED
    BY <2>5, <2>6
<1> QED
  BY <1>1, <1>2, <1>3, <1>4, SearchSteps

(***************************************************************************)
(* What a matcher has still to record.                                     *)
(***************************************************************************)
LEMMA SoughtRests ==
  ASSUME BusInv, SearchesGo, NEW w \in Replica, SoughtBy(w), work'[w] = work[w]
  PROVE  SoughtBy(w)'
<1> SUFFICES ASSUME In(w, "matcher", "record")' PROVE SoughtBy(w)'
  BY DEF SoughtBy
<1>1. PICK a, todo : a = work[w].event.ad /\ todo = work[w].read
  OBVIOUS
<1>2. In(w, "matcher", "record")
  BY DEF In
<1>3. a \in Ad /\ Key(work[w]) \in posted /\ Key(work[w]).to = "matcher" /\ Key(work[w]).event.ad = a
  BY <1>1, <1>2, HoldsMessage DEF Fits
<1>4. ASSUME NEW s \in searches', Matches(s.query, a)
      PROVE  s.id \in todo \/ <<s.id, a>> \in matches' \cup excused'
  <2>1. CASE \E x \in searches : x.id = s.id /\ x.query = s.query
    <3>1. PICK x \in searches : x.id = s.id /\ x.query = s.query
      BY <2>1
    <3>2. x.id \in todo \/ <<x.id, a>> \in matches \cup excused
      BY <1>1, <1>2, <1>4, <3>1 DEF SoughtBy
    <3> QED
      BY <1>3, <3>1, <3>2 DEF SearchesGo
  <2>2. CASE \A p \in posted : p.to = "matcher" => <<s.id, p.event.ad>> \in excused'
    BY <1>3, <2>2
  <2> QED
    BY <2>1, <2>2 DEF SearchesGo
<1>5. \A s : Matches(s.query, a)' <=> Matches(s.query, a)
  BY DEF Matches, Agrees
<1> QED
  BY <1>1, <1>4, <1>5 DEF SoughtBy

(* What the matcher has not gone through yet is in its hand.               *)
LEMMA SoughtNext ==
  ASSUME Inv, Next
  PROVE  \A w \in Replica : SoughtBy(w)'
<1> SUFFICES ASSUME NEW w \in Replica, In(w, "matcher", "record")' PROVE SoughtBy(w)'
  BY DEF SoughtBy
<1>0. BusInv /\ SearchTables /\ SearchesGo /\ SoughtBy(w)
  BY GoNext DEF Inv, SearchInv
<1>1. CASE work'[w] = work[w]
  BY <1>0, <1>1, SoughtRests
<1>2. CASE FindMatches(w)
  <2>1. PICK a, found : a = work[w].event.ad
                        /\ found = {s.id : s \in {c \in Candidates(a) : Matches(c.query, a)}}
    OBVIOUS
  <2>2. /\ In(w, "matcher", "begin") /\ UNCHANGED searches
        /\ GoWith(w, "record", found) \/ GoWith(w, "over", {})
    BY <1>2, <2>1 DEF FindMatches
  <2>3. GoWith(w, "record", found)
    <3>1. GoWith(w, "over", {}) => work'[w].step = "over"
      BY <1>0, <2>2, InHolds, GoWithMoves
    <3> QED
      BY <2>2, <3>1 DEF In
  <2>4. work'[w].read = found /\ work'[w].event = work[w].event
    <3>1. work[w] # Idle
      BY <2>2, InHolds
    <3>2. Moves(w) /\ work'[w].read = found
      BY <1>0, <2>3, <3>1, GoWithMoves
    <3>3. Key(work'[w]) = Key(work[w])
      BY <3>2 DEF Moves
    <3> QED
      BY <3>2, <3>3 DEF Key
  <2>5. \A s \in searches' : Matches(s.query, a) => s.id \in found
    BY <2>1, <2>2 DEF Candidates, Matches
  <2>6. \A s : Matches(s.query, a)' <=> Matches(s.query, a)
    BY DEF Matches, Agrees
  <2> QED
    BY <2>1, <2>4, <2>5, <2>6 DEF SoughtBy
<1>3. ASSUME NEW id \in Request, RecordMatch(w, id) PROVE SoughtBy(w)'
  <2>1. PICK a : a = work[w].event.ad
    OBVIOUS
  <2>2. \E x \in searches : \E t : Recorded(x, t, id, a)
    BY <1>0, <1>3, <2>1, RecordIs
  <2>3. PICK x \in searches : \E t : Recorded(x, t, id, a)
    BY <2>2
  <2>4. PICK t : Recorded(x, t, id, a)
    BY <2>3
  <2>5. /\ x.id = id /\ t.id = id /\ t.query = x.query /\ matches' = matches \cup {<<id, a>>}
        /\ searches' = searches \/ searches' = (searches \ {x}) \cup {t}
    BY <2>4 DEF Recorded
  <2>6. /\ work'[w].read = work[w].read \ {id} /\ work'[w].event = work[w].event
    BY <1>0, <1>3, RecordMoves DEF Moves, Key
  <2>7. In(w, "matcher", "record") /\ excused' = excused
    BY <1>3 DEF RecordMatch
  <2>8. ASSUME NEW s \in searches', Matches(s.query, a)
        PROVE  s.id \in work[w].read \ {id} \/ <<s.id, a>> \in matches' \cup excused'
    <3>1. CASE s.id = id
      BY <2>5, <3>1
    <3>2. CASE s.id # id
      <4>1. s \in searches
        BY <2>5, <3>2
      <4>2. s.id \in work[w].read \/ <<s.id, a>> \in matches \cup excused
        BY <1>0, <2>1, <2>7, <2>8, <4>1 DEF SoughtBy
      <4> QED
        BY <2>5, <2>7, <3>2, <4>2
    <3> QED
      BY <3>1, <3>2
  <2>9. \A s : Matches(s.query, a)' <=> Matches(s.query, a)
    BY DEF Matches, Agrees
  <2> QED
    BY <2>1, <2>6, <2>8, <2>9 DEF SoughtBy
<1>4. \/ work'[w] = work[w] \/ FindMatches(w) \/ \E id \in Request : RecordMatch(w, id)
  <2>1. work'[w].op = "handle" /\ work'[w].to = "matcher" /\ work'[w].step = "record"
    BY DEF In
  <2>2. work'[w] # Idle /\ \A m : Handler(m).step # "record"
    BY <2>1, DoneIsNot DEF Handler
  <2>3. Moves(w) => work[w].to = "matcher"
    BY <2>1 DEF Moves, Key
  <2>4. Hand(w)
    BY HandNext
  <2> QED
    BY <1>0, <2>1, <2>2, <2>3, <2>4, SearchMoves DEF Hand
<1> QED
  BY <1>1, <1>2, <1>3, <1>4

(***************************************************************************)
(* How many searches a user has.                                           *)
(***************************************************************************)
(* There are no more searches of a user than before.                       *)
Fewer(u) == Cardinality(OfUser(u))' <= Cardinality(OfUser(u))

(* The searches of a user can be counted.                                  *)
LEMMA CountIsNat ==
  ASSUME SearchTables, NEW u
  PROVE  IsFiniteSet(OfUser(u)) /\ Cardinality(OfUser(u)) \in Nat
  BY FS_Subset, FS_CardinalityType DEF SearchTables, OfUser

(* There are no more of them when they are the same, ...                   *)
LEMMA FewerWhenSame ==
  ASSUME SearchTables, NEW u, OfUser(u)' = OfUser(u)
  PROVE  Fewer(u)
<1>1. Cardinality(OfUser(u))' = Cardinality(OfUser(u))
  BY DEF OfUser
<1> QED
  BY <1>1, CountIsNat DEF Fewer

(* ... one is deleted, ...                                                 *)
LEMMA FewerWhenDeleted ==
  ASSUME SearchTables, NEW s \in searches, DeleteSavedSearch(s), NEW u
  PROVE  Fewer(u)
<1>1. OfUser(u)' \in SUBSET OfUser(u)
  BY DEF DeleteSavedSearch, OfUser
<1>2. IsFiniteSet(OfUser(u))
  BY CountIsNat
<1>3. Cardinality(OfUser(u)') <= Cardinality(OfUser(u))
  BY <1>1, <1>2, FS_Subset
<1> QED
  BY <1>3 DEF Fewer

(* ... or one was told of.                                                 *)
LEMMA FewerWhenRecorded ==
  ASSUME SearchTables, NEW x \in searches, NEW t, NEW id, NEW a, Recorded(x, t, id, a), NEW u
  PROVE  Fewer(u)
<1>1. t.user = x.user /\ (searches' = searches \/ searches' = (searches \ {x}) \cup {t})
  BY DEF Recorded
<1>2. CASE searches' = searches
  BY <1>2, FewerWhenSame DEF OfUser
<1>3. CASE searches' = (searches \ {x}) \cup {t} /\ x.user # u
  <2>1. OfUser(u)' = OfUser(u)
    BY <1>1, <1>3 DEF OfUser
  <2> QED
    BY <2>1, FewerWhenSame
<1>4. CASE searches' = (searches \ {x}) \cup {t} /\ x.user = u
  <2>1. PICK S : S = OfUser(u)
    OBVIOUS
  <2>2. OfUser(u)' = (S \ {x}) \cup {t} /\ x \in S
    BY <1>1, <1>4, <2>1 DEF OfUser
  <2>3. IsFiniteSet(S) /\ Cardinality(S) \in Nat
    BY <2>1, CountIsNat
  <2>4. IsFiniteSet(S \ {x}) /\ Cardinality(S \ {x}) = Cardinality(S) - 1
    BY <2>2, <2>3, FS_RemoveElement
  <2>5. Cardinality((S \ {x}) \cup {t}) = (IF t \in S \ {x} THEN Cardinality(S \ {x})
                                           ELSE Cardinality(S \ {x}) + 1)
    BY <2>4, FS_AddElement
  <2>6. Cardinality((S \ {x}) \cup {t}) <= Cardinality(S)
    BY <2>3, <2>4, <2>5
  <2> QED
    BY <2>1, <2>2, <2>6 DEF Fewer
<1> QED
  BY <1>1, <1>2, <1>3, <1>4

(* No more stays below the limit.                                          *)
LEMMA Below == \A m, n \in Nat : m <= n => (n < MaxSavedSearches => m < MaxSavedSearches)
                                           /\ (n <= MaxSavedSearches => m <= MaxSavedSearches)
  BY SearchAssumption

(* A search is inserted where there is room, and no other insertion of its *)
(* user is under way unless he is crowded; so every step keeps             *)
(* LimitOfSearches.                                                        *)
LEMMA CountsNext ==
  ASSUME Inv, Next
  PROVE  LimitOfSearches' /\ \A q \in Request : Room(q)'
<1>0. /\ SearchTables /\ InputInv /\ LimitOfSearches /\ (\A q \in Request : Room(q))
      /\ budget.people \subseteq User
  BY DEF Inv, SearchInv, InputInv, StoryFits
<1>t. SearchTables'
  BY SearchTablesNext
<1>n. \A u : Cardinality(OfUser(u)) \in Nat /\ Cardinality(OfUser(u))' \in Nat
  <2>1. \A u : Cardinality(OfUser(u)) \in Nat
    BY <1>0, CountIsNat
  <2>2. ASSUME NEW u PROVE Cardinality(OfUser(u))' \in Nat
    <3>1. OfUser(u)' \in SUBSET searches' /\ IsFiniteSet(searches')
      BY <1>t DEF OfUser, SearchTables
    <3>2. Cardinality(OfUser(u)') \in Nat
      BY <3>1, FS_Subset, FS_CardinalityType
    <3> QED
      BY <3>2
  <2> QED
    BY <2>1, <2>2
<1>q. \A q \in Request : \/ req'[q] = req[q] \/ req'[q].op # "search"
                         \/ \E u \in User : \E query : CountSavedSearches(q, u, query)
  <2>1. ASSUME NEW q \in Request, GetProfile(q) \/ DeletePrefs(q) PROVE req'[q].op # "search"
    <3>1. PICK r : Turn(q, r) /\ r \in {[req[q] EXCEPT !.step = "write",
                         !.row = Patched(profiles[req[q].user], req[q].field, q)],
                     [req[q] EXCEPT !.step = "insert", !.gone = prefs[req[q].user]]}
      BY <2>1 DEF GetProfile, DeletePrefs
    <3>2. req[q] \in PatchRequests \cup PutRequests
      BY <1>0, <2>1, ByOp DEF GetProfile, DeletePrefs, Asks
    <3>3. req[q].op # "search" /\ r.op = req[q].op
      BY <3>1, <3>2 DEF PatchRequests, PutRequests
    <3>4. req'[q] = r
      BY <1>0, <3>1, Turning
    <3> QED
      BY <3>3, <3>4
  <2>2. ASSUME NEW q \in Request, NEW u, NEW f, UpdateMe(q, u, f) PROVE req'[q].op # "search"
    <3>1. Turn(q, [op |-> "patch", step |-> "read", user |-> u, field |-> f, row |-> None])
      BY <2>2 DEF UpdateMe
    <3> QED
      BY <1>0, <3>1, Turning
  <2>3. \A q \in Request : Asked(q)
    BY AskedNext
  <2> QED
    BY <1>0, <2>1, <2>2, <2>3, DoneIsNot DEF Asked
<1>1. ASSUME \A u \in User : Fewer(u), crowded' = crowded,
             \A q \in Request, u \in User : \A query : CountSavedSearches(q, u, query) =>
               (req'[q].op = "search" => /\ req'[q].user = u
                                         /\ Cardinality(OfUser(u)) < MaxSavedSearches)
      PROVE  LimitOfSearches' /\ \A q \in Request : Room(q)'
  <2>1. ASSUME NEW u \in User \ crowded PROVE Cardinality(OfUser(u))' <= MaxSavedSearches
    BY <1>0, <1>1, <1>n, <2>1, Below DEF LimitOfSearches, Fewer
  <2>2. ASSUME NEW q \in Request, req'[q].op = "search", NEW u, u = req'[q].user, u \notin crowded
        PROVE  Cardinality(OfUser(u))' < MaxSavedSearches
    <3>1. u \in User /\ Cardinality(OfUser(u)) < MaxSavedSearches
      <4>1. CASE req'[q] = req[q]
        <5>1. req[q] \in SearchRequests
          BY <1>0, <2>2, <4>1, ByOp
        <5>2. u \in User
          BY <2>2, <4>1, <5>1 DEF SearchRequests
        <5> QED
          BY <1>0, <2>2, <4>1, <5>2 DEF Room
      <4>2. ASSUME NEW v \in User, NEW query, CountSavedSearches(q, v, query)
            PROVE  u \in User /\ Cardinality(OfUser(u)) < MaxSavedSearches
        BY <1>1, <2>2, <4>2
      <4> QED
        BY <1>q, <2>2, <4>1, <4>2
    <3> QED
      BY <1>1, <1>n, <3>1, Below DEF Fewer
  <2>3. LimitOfSearches'
    BY <1>1, <2>1 DEF LimitOfSearches
  <2>4. \A q \in Request : Room(q)'
    BY <1>1, <2>2 DEF Room
  <2> QED
    BY <2>3, <2>4
<1>c. ASSUME NEW q \in Request, NEW u \in User, NEW query, CountSavedSearches(q, u, query),
             req'[q].op = "search"
      PROVE  req'[q].user = u /\ Cardinality(OfUser(u)) < MaxSavedSearches
  <2>1. Turn(q, IF Cardinality(OfUser(u)) >= MaxSavedSearches THEN Done
                ELSE [op |-> "search", step |-> "insert", user |-> u, query |-> query])
    BY <1>c DEF CountSavedSearches
  <2>2. ~(Cardinality(OfUser(u)) >= MaxSavedSearches)
    BY <1>0, <1>c, <2>1, DoneIsNot, Turning
  <2>3. req'[q] = [op |-> "search", step |-> "insert", user |-> u, query |-> query]
    BY <1>0, <2>1, <2>2, Turning
  <2> QED
    BY <1>n, <2>2, <2>3, SearchAssumption
<1>2. CASE SearchQuiet
  <2>1. \A u : OfUser(u)' = OfUser(u)
    BY <1>2 DEF SearchQuiet, OfUser
  <2>2. crowded' = crowded
    BY <1>2 DEF SearchQuiet
  <2> QED
    BY <1>0, <1>1, <1>c, <2>1, <2>2, FewerWhenSame
<1>3. ASSUME NEW s \in searches, DeleteSavedSearch(s)
      PROVE  LimitOfSearches' /\ \A q \in Request : Room(q)'
  <2>1. crowded' = crowded
    BY <1>3 DEF DeleteSavedSearch
  <2> QED
    BY <1>0, <1>1, <1>3, <1>c, <2>1, FewerWhenDeleted
<1>4. ASSUME NEW w \in Replica, NEW id \in Request, RecordMatch(w, id)
      PROVE  LimitOfSearches' /\ \A q \in Request : Room(q)'
  <2>1. PICK a : a = work[w].event.ad
    OBVIOUS
  <2>2. \E x \in searches : \E t : Recorded(x, t, id, a)
    BY <1>0, <1>4, <2>1, RecordIs
  <2>3. \A u \in User : Fewer(u)
    BY <1>0, <2>2, FewerWhenRecorded
  <2>4. crowded' = crowded
    BY <1>4 DEF RecordMatch
  <2> QED
    BY <1>1, <1>c, <2>3, <2>4
<1>5. ASSUME NEW q \in Request, CreateSavedSearch(q)
      PROVE  LimitOfSearches' /\ \A p \in Request : Room(p)'
  <2>1. PICK o : o = req[q].user
    OBVIOUS
  <2>2. PICK n :
          /\ n.id = q /\ n.user = o /\ searches' = searches \cup {n} /\ n \notin searches
          /\ req[q] \in SearchRequests /\ req'[q] = Done
          /\ o \notin crowded' => o \notin crowded /\ \A p \in Request : ~Creating(q, p)
          /\ \A u \in User \ {o} : u \notin crowded' => u \notin crowded
    BY <1>5, <2>1, CreateIs
  <2>3. o \in User /\ req[q].op = "search"
    BY <2>1, <2>2 DEF SearchRequests
  <2>4. o \notin crowded' => Cardinality(OfUser(o)) < MaxSavedSearches
    BY <1>0, <2>1, <2>2, <2>3 DEF Room
  <2>5. Cardinality(OfUser(o))' = Cardinality(OfUser(o)) + 1
    <3>1. PICK S : S = OfUser(o)
      OBVIOUS
    <3>2. OfUser(o)' = S \cup {n} /\ n \notin S
      BY <2>2, <3>1 DEF OfUser
    <3>3. IsFiniteSet(S)
      BY <1>0, <3>1, CountIsNat
    <3>4. Cardinality(S \cup {n}) = Cardinality(S) + 1
      BY <3>2, <3>3, FS_AddElement
    <3> QED
      BY <3>1, <3>2, <3>4
  <2>6. ASSUME NEW u, u # o PROVE Cardinality(OfUser(u))' = Cardinality(OfUser(u))
    <3>1. OfUser(u)' = OfUser(u)
      BY <2>2, <2>6 DEF OfUser
    <3> QED
      BY <3>1
  <2>7. ASSUME NEW u \in User \ crowded' PROVE Cardinality(OfUser(u))' <= MaxSavedSearches
    <3>1. CASE u = o
      BY <1>n, <2>4, <2>5, <2>7, <3>1, SearchAssumption
    <3>2. CASE u # o
      <4>1. Cardinality(OfUser(u)) <= MaxSavedSearches
        BY <1>0, <2>2, <2>7, <3>2 DEF LimitOfSearches
      <4> QED
        BY <2>6, <3>2, <4>1
    <3> QED
      BY <3>1, <3>2
  <2>8. ASSUME NEW p \in Request, req'[p].op = "search", NEW u, u = req'[p].user, u \notin crowded'
        PROVE  Cardinality(OfUser(u))' < MaxSavedSearches
    <3>1. p # q
      BY <2>2, <2>8, DoneIsNot
    <3>2. req'[p] = req[p]
      BY <1>0, <1>5, <3>1, Turning DEF CreateSavedSearch
    <3>3. req[p] \in SearchRequests
      BY <1>0, <2>8, <3>2, ByOp
    <3>4. u \in User /\ Asks(p, "search", "insert")
      BY <2>8, <3>2, <3>3 DEF SearchRequests, Asks
    <3>5. u = o => Creating(q, p)
      BY <2>1, <2>8, <3>1, <3>2, <3>4 DEF Creating
    <3>6. u # o
      BY <2>2, <2>8, <3>5
    <3>7. Cardinality(OfUser(u)) < MaxSavedSearches
      BY <1>0, <2>2, <2>8, <3>2, <3>4, <3>6 DEF Room
    <3> QED
      BY <2>6, <3>6, <3>7
  <2>9. LimitOfSearches'
    BY <2>7 DEF LimitOfSearches
  <2>10. \A p \in Request : Room(p)'
    BY <2>8 DEF Room
  <2> QED
    BY <2>9, <2>10
<1> QED
  BY <1>2, <1>3, <1>4, <1>5, SearchSteps

(* Every step keeps the searches.                                          *)
LEMMA SearchNext ==
  ASSUME Inv, Next
  PROVE  SearchInv'
  BY SearchTablesNext, ToldNext, SoughtNext, CountsNext DEF SearchInv

-----------------------------------------------------------------------------
(***************************************************************************)
(* The invariant.                                                          *)
(***************************************************************************)
LEMMA Rests ==
  ASSUME Inv, UNCHANGED vars
  PROVE  Inv'
<1>1. UNCHANGED <<bus, inputs, profileVars, noteVars, searchVars>>
  BY DEF vars
<1>2. BusInv'
  <2>1. \A p : Completed(p)' <=> Completed(p)
    BY <1>1 DEF Completed, Counted, Settled, Sought, Emptied, Matches, Agrees
  <2>2. \A p : Fits(p)' <=> Fits(p)
    BY <1>1 DEF Fits, Key
  <2>3. (\A w \in Replica : WorkFits(w))' /\ (\A m \in mail : MailFits(m))'
    BY <1>1, <2>1 DEF Inv, BusInv, WorkFits, MailFits, Running, Key
  <2>4. \A p : InTheMail(p)' <=> InTheMail(p)
    BY <1>1 DEF InTheMail, Key
  <2> QED
    BY <1>1, <2>1, <2>2, <2>3, <2>4 DEF Inv, BusInv
<1>3. InputInv'
  BY <1>1 DEF Inv, InputInv, StoryFits
<1>4. ProfileTables'
  BY <1>1 DEF Inv, ProfileTables
<1>5. RatingInv'
  BY <1>1 DEF Inv, RatingInv, RatingKept, RatingRead, Uncounted, AggregateRating, ListByTarget,
              In, Key
<1>6. PatchInv'
  BY <1>1 DEF Inv, PatchInv, Untouched, PatchKept, PatchRead
<1>7. SwitchInv'
  BY <1>1 DEF Inv, SwitchInv, SwitchesKept, OffKept, PutRead, Off
<1>8. NoteInv'
  <2>1. NoteTables' /\ HeldAlone'
    BY <1>1 DEF Inv, NoteInv, NoteTables, HeldAlone, Key
  <2>2. \A w : NoteRead(w)' <=> NoteRead(w)
    BY <1>1 DEF NoteRead, Since
  <2>3. (\A w \in Replica, u \in User : CacheFits(w, u))'
    BY <1>1 DEF Inv, NoteInv, CacheFits
  <2>4. \A e : SentFits(e)' <=> SentFits(e)
    BY <1>1 DEF SentFits, Marking, In
  <2> QED
    BY <1>1, <2>1, <2>2, <2>3, <2>4 DEF Inv, NoteInv
<1>9. SearchInv'
  <2>1. SearchTables' /\ AlertsAreRare' /\ LimitOfSearches'
    BY <1>1 DEF Inv, SearchInv, SearchTables, SearchFits, AlertsAreRare, LimitOfSearches, OfUser
  <2>2. (\A x \in told : ToldFits(x))'
    BY <1>1 DEF Inv, SearchInv, ToldFits
  <2>3. (\A w \in Replica : SoughtBy(w))'
    BY <1>1 DEF Inv, SearchInv, SoughtBy, In, Matches, Agrees
  <2>4. (\A q \in Request : Room(q))'
    BY <1>1 DEF Inv, SearchInv, Room, OfUser
  <2> QED
    BY <2>1, <2>2, <2>3, <2>4 DEF SearchInv
<1> QED
  BY <1>2, <1>3, <1>4, <1>5, <1>6, <1>7, <1>8, <1>9 DEF Inv

(* Every step keeps the invariant.                                         *)
LEMMA InvStep ==
  ASSUME Inv, [Next]_vars
  PROVE  Inv'
<1>1. CASE Next
  BY <1>1, BusNext, InputsNext, TablesNext, RatingNext, PatchNext, SwitchNext, NotesNext,
     SearchNext DEF Inv
<1>2. CASE UNCHANGED vars
  BY <1>2, Rests
<1> QED
  BY <1>1, <1>2

(* The invariant holds at first: of the bus, ...                           *)
LEMMA InitBus ==
  ASSUME Init
  PROVE  BusInv /\ InputInv
<1>1. /\ mail = {} /\ processed = {} /\ posted = {} /\ work = [w \in Replica |-> Idle]
      /\ req = [q \in Request |-> Idle] /\ now = 0 /\ budget \in Budgets
  BY DEF Init, BusInit
<1>2. BusInv
  BY <1>1 DEF BusInv, WorkFits
<1>3. StoryFits(budget)
  BY <1>1, BusAssumption, ProfilesAssumption, SearchAssumption DEF StoryFits
<1> QED
  BY <1>1, <1>2, <1>3 DEF InputInv

(* ... of profiles, ...                                                    *)
LEMMA InitProfiles ==
  ASSUME Init
  PROVE  ProfileTables /\ RatingInv /\ PatchInv /\ SwitchInv
<1>1. /\ reviews = {} /\ prefs = [u \in User |-> {}]
      /\ profiles = [u \in User |-> None] /\ rated = [u \in User |-> NoRating]
      /\ unheard = [u \in User |-> {}] /\ patched = [u \in User |-> NewDefaultProfile]
      /\ offSince = [u \in User |-> [g \in Group |-> None]]
  BY DEF Init, ProfilesInit
<1>2. work = [w \in Replica |-> Idle] /\ req = [q \in Request |-> Idle]
  BY DEF Init, BusInit
<1>3. ProfileTables
  <2>1. NewDefaultProfile \in Row
    BY DEF NewDefaultProfile, Row
  <2> QED
    BY <1>1, <2>1 DEF ProfileTables
<1>4. RatingInv
  <2>1. \A u \in User : AggregateRating(u) = NoRating
    BY <1>1, NoAggregate DEF ListByTarget
  <2>2. \A w \in Replica : ~In(w, "ratings", "store")
    BY <1>2, DoneIsNot DEF In
  <2> QED
    BY <1>1, <2>1, <2>2 DEF RatingInv, RatingKept, RatingRead
<1>5. PatchInv
  BY <1>1, <1>2, DoneIsNot DEF PatchInv, Untouched, PatchKept, PatchRead
<1>6. SwitchInv
  BY <1>1, <1>2, DoneIsNot DEF SwitchInv, SwitchesKept, OffKept, PutRead
<1> QED
  BY <1>3, <1>4, <1>5, <1>6

(* ... of notifications ...                                                *)
LEMMA InitNotes ==
  ASSUME Init
  PROVE  NoteInv
<1>1. /\ recipients = {} /\ notes = <<>> /\ sent = <<>>
      /\ cache = [w \in Replica |-> [u \in User |-> Unknown]]
  BY DEF Init, NotesInit
<1>2. work = [w \in Replica |-> Idle] /\ now = 0
  BY DEF Init, BusInit
<1>3. offSince = [u \in User |-> [g \in Group |-> None]]
  BY DEF Init, ProfilesInit
<1>4. DOMAIN notes = {} /\ DOMAIN sent = {}
  BY <1>1
<1>5. NoteTables /\ HeldAlone /\ \A w \in Replica : NoteRead(w)
  BY <1>1, <1>2, <1>4 DEF NoteTables, HeldAlone, NoteRead
<1>6. \A w \in Replica, u \in User : CacheFits(w, u)
  BY <1>1, <1>2, <1>3, CacheAssumption DEF CacheFits, Unknown
<1> QED
  BY <1>4, <1>5, <1>6 DEF NoteInv

(* ... and of searches.                                                    *)
LEMMA InitSearches ==
  ASSUME Init
  PROVE  SearchInv
<1>1. favorites = {} /\ searches = {} /\ matches = {} /\ told = {}
  BY DEF Init, SearchesInit
<1>2. work = [w \in Replica |-> Idle] /\ req = [q \in Request |-> Idle]
  BY DEF Init, BusInit
<1>3. SearchTables /\ AlertsAreRare
  BY <1>1, FS_EmptySet DEF SearchTables, AlertsAreRare
<1>4. LimitOfSearches
  BY <1>1, FS_EmptySet, SearchAssumption DEF LimitOfSearches, OfUser
<1>5. \A w \in Replica : ~In(w, "matcher", "record")
  BY <1>2, DoneIsNot DEF In
<1>6. \A q \in Request : Room(q)
  BY <1>2, DoneIsNot DEF Room
<1> QED
  BY <1>1, <1>3, <1>4, <1>5, <1>6 DEF SearchInv, SoughtBy

(* The invariant of what is sent, in hand and done about an event holds of *)
(* every execution, whatever interleaves, fails or is delivered twice      *)
(* (natsx.Consume and the handlers).                                       *)
THEOREM InvariantHolds == Spec => []Inv
<1>1. Init => Inv
  BY InitBus, InitProfiles, InitNotes, InitSearches DEF Inv
<1>2. Inv /\ [Next]_vars => Inv'
  BY InvStep
<1> QED
  BY <1>1, <1>2, PTL DEF Spec

-----------------------------------------------------------------------------
(***************************************************************************)
(* What the invariant says.                                                *)
(***************************************************************************)
LEMMA HandledIsCompleted ==
  ASSUME BusInv, NEW p \in posted, p \notin dead, \A m \in mail : Key(m) # p
  PROVE  Completed(p)
  BY DEF BusInv, InTheMail

(* The tables have the shape that the migrations give them.                *)
LEMMA TypesAreKept == ASSUME Inv PROVE TypeOK
<1>1. reviews \subseteq Review /\ DOMAIN profiles = User /\ DOMAIN rated = User
      /\ \A u \in User : prefs[u] \subseteq Switch
  BY DEF Inv, ProfileTables
<1>2. /\ \A s \in searches : s.id \in Request /\ s.user \in User /\ s.query \in Query
      /\ matches \subseteq {s.id : s \in searches} \X Ad
  BY DEF Inv, SearchInv, SearchTables, SearchFits
<1>3. /\ recipients \subseteq User
      /\ \A e \in DOMAIN notes : notes[e] \in {"pending", "sent", "failed", "skipped"}
  BY DEF Inv, NoteInv, NoteTables
<1>4. \A m \in mail : m.left \in 0..MaxDeliver
  BY DEF Inv, BusInv, MailFits
<1> QED
  BY <1>1, <1>2, <1>3, <1>4 DEF TypeOK

(* When no review waits, the rating that is shown is the aggregate.        *)
LEMMA RatingsAreExact == ASSUME Inv PROVE QuietRatingIsExact
<1> SUFFICES ASSUME NEW u \in User, "ratings" \in budget.consumers, ~Waits("ratings", u),
                    ~GivenUp("ratings", u), u \notin raced, None \notin unheard[u]
             PROVE  IF profiles[u] = None THEN AggregateRating(u) = NoRating
                    ELSE PublicProfile(u).rating = AggregateRating(u)
  BY DEF QuietRatingIsExact
<1>1. RatingKept(u) /\ Untouched(u) /\ BusInv
  BY DEF Inv, RatingInv, PatchInv
<1>2. ASSUME NEW p \in Uncounted(u) PROVE FALSE
  <2>1. p \in posted /\ p \notin processed /\ p.to = "ratings" /\ p.event.user = u
    BY <1>2 DEF Uncounted
  <2>2. p \notin dead
    BY <2>1 DEF GivenUp
  <2>3. \A m \in mail : Key(m) # p
    BY <2>1 DEF Waits, Key
  <2>4. Completed(p)
    BY <1>1, <2>1, <2>2, <2>3, HandledIsCompleted
  <2> QED
    BY <2>1, <2>4 DEF Completed, Counted
<1>3. rated[u] = AggregateRating(u)
  BY <1>1, <1>2 DEF RatingKept
<1> QED
  BY <1>1, <1>3 DEF Untouched, PublicProfile

(* Fields and switches are what was last written.                          *)
LEMMA PatchesAndSwitches == ASSUME Inv PROVE PatchIsKept /\ OneSetOfSwitches
<1>1. \A u \in User : PatchKept(u) /\ SwitchesKept(u)
  BY DEF Inv, PatchInv, SwitchInv
<1> QED
  BY <1>1 DEF PatchKept, SwitchesKept, PatchIsKept, OneSetOfSwitches

(* What is through has its end in the journal, and nothing undisturbed was *)
(* sent twice.                                                             *)
LEMMA JournalIsTrue == ASSUME Inv PROVE NotificationsAreTrue
<1>1. BusInv /\ \A e \in DOMAIN sent : SentFits(e)
  BY DEF Inv, NoteInv
<1>2. RepeatedOnlyIfDisturbed
  BY <1>1 DEF SentFits, RepeatedOnlyIfDisturbed
<1>3. NothingIsForgotten
  <2> SUFFICES ASSUME NEW p \in posted, p.to = "delivery", p \notin dead,
                      \A m \in mail : Key(m) # p
               PROVE  /\ p.event \in ListByUser(p.event.user)
                      /\ notes[p.event] = "pending" => p.event \in abandoned
    BY DEF NothingIsForgotten
  <2>1. Settled(p)
    BY <1>1, HandledIsCompleted DEF Completed
  <2> QED
    BY <2>1 DEF Settled, ListByUser
<1> QED
  BY <1>2, <1>3 DEF NotificationsAreTrue

(* What is through has its matches on record and its favorites removed.    *)
LEMMA SearchesAre == ASSUME Inv PROVE SearchesAreTrue
<1>1. BusInv /\ AlertsAreRare /\ LimitOfSearches
  BY DEF Inv, SearchInv
<1>2. NoMatchIsMissed
  <2> SUFFICES ASSUME NEW e \in posted, NEW s \in searches, Handled("matcher", e),
                      Matches(s.query, e.event.ad)
               PROVE  <<s.id, e.event.ad>> \in matches \cup excused
    BY DEF NoMatchIsMissed
  <2>1. Sought(e)
    BY <1>1, HandledIsCompleted DEF Completed, Handled
  <2> QED
    BY <2>1 DEF Sought, Handled
<1>3. FavoritesFollowAds
  <2> SUFFICES ASSUME NEW e \in posted, NEW u \in User, Handled("favorites", e),
                      e.event.ad \in ListFavorites(u)
               PROVE  <<u, e.event.ad>> \in late
    BY DEF FavoritesFollowAds
  <2>1. Emptied(e)
    BY <1>1, HandledIsCompleted DEF Completed, Handled
  <2>2. <<u, e.event.ad>> \in favorites
    <3>1. PICK f \in favorites : f[1] = u /\ f[2] = e.event.ad
      BY DEF ListFavorites
    <3>2. favorites \subseteq User \X Ad
      BY DEF Inv, SearchInv, SearchTables
    <3> QED
      BY <3>1, <3>2
  <2> QED
    BY <2>1, <2>2 DEF Emptied, Handled
<1> QED
  BY <1>1, <1>2, <1>3 DEF SearchesAreTrue

(* Only a look at the cache goes from "prefs" to "register".               *)
LEMMA CacheIsFresh ==
  ASSUME Inv, Next, NEW w \in Replica, FromCache(w)
  PROVE  LET off == offSince[work[w].event.user][PrefGroup(work[w].event)]
         IN  off = None \/ now < off + CacheTTL
<1> DEFINE e == work[w].event
           u == e.user
           g == PrefGroup(e)
<1>1. In(w, "delivery", "prefs") /\ work'[w].op = "handle" /\ work'[w].step = "register"
  BY DEF FromCache
<1>2. work[w] # Idle /\ work[w].to = "delivery" /\ work[w].step = "prefs"
  BY <1>1, InHolds
<1>3. LookUp(w)
  <2>1. Hand(w)
    BY HandNext
  <2>2. work'[w] # work[w] /\ work'[w] # Idle
    BY <1>1, <1>2, DoneIsNot
  <2>3. NoteHandler(w) \/ SendRefused(w)
    BY <1>2, <2>1, <2>2 DEF Hand
  <2> QED
    BY <1>2, <2>3 DEF NoteHandler, UpsertRecipient, GetRecipient, Fetch, Remember, RecordSkipped,
                      BeginDelivery, Send, Mark, SendRefused, In
<1>4. BusInv /\ WorkFits(w)
  BY DEF Inv, BusInv
<1>5. now < Cached(w).until /\ Go(w, Decided(Cached(w).off, e))
  <2>1. ~GoWith(w, "fetch", [asked |-> now, off |-> {}])
    BY <1>1, <1>2, <1>4, GoWithMoves
  <2> QED
    BY <1>3, <2>1 DEF LookUp
<1>6. Decided(Cached(w).off, e) = "register"
  BY <1>1, <1>2, <1>4, <1>5, GoMoves
<1>7. g \notin Cached(w).off
  BY <1>6 DEF Decided
<1>8. u \in User /\ g \in Group
  <2>1. Fits(Key(work[w]))
    BY <1>2, <1>4 DEF WorkFits, BusInv
  <2>2. u \in User /\ e.type \in {"review.created", "ad.approved", "saved_search.matched"}
    BY <1>2, <2>1 DEF Fits, Key
  <2> QED
    BY <2>2, CacheAssumption DEF PrefGroup
<1>9. CacheFits(w, u) /\ InputInv /\ ProfileTables
  BY <1>8 DEF Inv, NoteInv
<1>10. /\ Cached(w).until \in Nat /\ now \in Nat
       /\ offSince[u][g] = None \/ Cached(w).until <= offSince[u][g] + CacheTTL
  BY <1>7, <1>8, <1>9 DEF CacheFits, Cached, InputInv
<1>11. offSince[u][g] \in Nat \cup {None}
  BY <1>8, <1>9 DEF ProfileTables
<1> QED
  BY <1>5, <1>10, <1>11, CacheAssumption

-----------------------------------------------------------------------------
(* When no review waits, the rating of a seller that is shown is the       *)
(* aggregate of his active reviews; each field of a profile is the one of  *)
(* its last PATCH, and the switches are one of the sets that were put,     *)
(* with the exceptions that the properties name (user-profile worker/      *)
(* reviews.go, app/service.go, repo/profile.go).                           *)
THEOREM ProfilesTheorem == Spec => []ProfilesAreTrue
<1>1. Inv => ProfilesAreTrue
  BY TypesAreKept, RatingsAreExact, PatchesAndSwitches DEF ProfilesAreTrue
<1> QED
  BY <1>1, InvariantHolds, PTL

(* Nothing is sent twice unless its delivery was disturbed, and an event   *)
(* that is through has come to an end in the journal (notification         *)
(* notify/handler.go Handle).                                              *)
THEOREM NotificationsTheorem == Spec => []NotificationsAreTrue
<1>1. Inv => NotificationsAreTrue
  BY JournalIsTrue
<1> QED
  BY <1>1, InvariantHolds, PTL

(* A search and an ad are told of once, and seldom; no match is missed;    *)
(* the favorites of a deleted ad go; and nobody has more searches than he  *)
(* may (favorites-savedsearch repo/savedsearch.go RecordMatchWithEvent,    *)
(* worker/matcher.go, worker/addeleted.go, app/savedsearch.go Create).     *)
THEOREM SearchesTheorem == Spec => []SearchesAreTrue
<1>1. Inv => SearchesAreTrue
  BY SearchesAre
<1> QED
  BY <1>1, InvariantHolds, PTL

(* Nothing is registered for delivery on the word of the cache when its    *)
(* group has been off for CacheTTL (notification prefs/client.go load).    *)
THEOREM SwitchesTheorem == Spec => SwitchesAreObeyed
<1> DEFINE Obeyed == \A w \in Replica : FromCache(w) =>
             LET off == offSince[work[w].event.user][PrefGroup(work[w].event)]
             IN  off = None \/ now < off + CacheTTL
<1>1. Inv /\ [Next]_vars => [Obeyed]_<<work, offSince, now>>
  BY CacheIsFresh DEF vars
<1> QED
  BY <1>1, InvariantHolds, PTL DEF Spec, SwitchesAreObeyed
=============================================================================
