--------------------------- MODULE AdPipelineProofs ---------------------------
(***************************************************************************)
(* Proofs about AdPipeline: the review of ads, takedowns, the index, and   *)
(* the ends of ads and promotions, for any ads, contents, moderators,      *)
(* reports, connections and budgets.                                       *)
(***************************************************************************)
EXTENDS AdPipeline, TLAPS

LM == "listing-moderation"
LP == "listing-promotion"
MA == "moderation-auto"
SI == "search-indexer"

-----------------------------------------------------------------------------
(* The invariant.                                                          *)

(* Messages are about ads that have been created, and have what their      *)
(* consumer looks at.                                                      *)
Proper(c, e) ==
  /\ e \in Message /\ ads[e.ad] # None
  /\ c = SI => e = Event("", e.ad, "")
  /\ c # SI => e.subject \in Subscribed(c)
  /\ c = LP => e.arg \in Nat

Kept(c) ==
  CASE c = LM -> [from : MaybeStatus, to : MaybeStatus]
    [] c = LP -> MaybeStatus
    [] c = MA -> Content \cup {None}
    [] c = SI -> Doc \cup {None}

BusShape ==
  /\ queue = [c \in Consumer |-> queue[c]]
  /\ work = [c \in Consumer |-> work[c]]
  /\ \A c \in Consumer : IsABag(queue[c])

BusTypes ==
  /\ BusShape
  /\ \A c \in Consumer : \A e \in Waiting(c) : Proper(c, e)
  /\ \A c \in Consumer : work[c] # None =>
       /\ work[c] \in [event : Message, memory : Kept(c)]
       /\ Proper(c, work[c].event)

(* What a call has read and is about to write.                             *)
CallIsSound(w) ==
  /\ w \in Call
  /\ w.op # "deletes" => w.row \in Row
  /\ w.op = "edits" => w.row.status \in {"draft", "pending", "rejected", "active"}
  /\ w.op \in {"submits", "closes", "renewals"} =>
       /\ w.read.status # "blocked"
       /\ w.row.status \in {"pending", "sold", "archived", "active"}
       /\ w.row.status = "active" => w.read.status \in {"active", "expired"}

DataTypes ==
  /\ ads \in [Ad -> Row \cup {None, Gone}]
  /\ call \in [Connection -> Call \cup {None}]
  /\ now \in Nat
  /\ budget \in [Input -> Nat]
  /\ tasks \in [Ad -> Task \cup {None}]
  /\ open \in [Moderator -> Screen \cup {None}]
  /\ reports \in [Report -> ReportRow \cup {None}]
  /\ checked \in [Ad -> SUBSET Content]
  /\ verdicts \in [Ad -> Nat]
  /\ index \in [Ad -> Doc \cup {None}]
  /\ reindex # None => reindex \subseteq Ad \X Doc

CallsAreSound == \A k \in Connection : call[k] # None => CallIsSound(call[k])

(* Moderation knows no ad that Listing has not created.                    *)
AdsComeFirst ==
  /\ \A a \in Ad : tasks[a] # None => ads[a] # None
  /\ \A m \in Moderator : open[m] # None => ads[open[m].ad] # None

(* A decision in hand is what its subject makes of the status read.        *)
PlanIsKept ==
  LET w == work[LM] IN
    w # None /\ w.memory.to # None =>
      w.memory.from # None /\ w.memory.to = Plan(w.event.subject, w.memory.from)

Types == DataTypes /\ BusTypes /\ CallsAreSound /\ AdsComeFirst /\ PlanIsKept

(* A task in the queue has no verdict yet.                                 *)
TasksAreCounted == \A a \in Ad : verdicts[a] <= 1 /\ (IsManual(a) => verdicts[a] = 0)

(* What is good: what was found good, or belongs to an excepted ad.        *)
Good(a, content) == content \in checked[a] \/ a \in reworked

(* Whatever holds a content of an ad on its way to a verdict holds the     *)
(* content it has, and an approval on its way is of that content.          *)
ReviewIsOfTheAd ==
  \A a \in Ad : Exists(a) /\ a \notin reworked =>
    /\ IsManual(a) => tasks[a].content = ads[a].content
    /\ \A m \in Moderator : open[m] # None /\ open[m].ad = a => open[m].content = ads[a].content
    /\ work[MA] # None /\ work[MA].event.ad = a /\ work[MA].memory # None =>
         work[MA].memory = ads[a].content
    /\ \A e \in Waiting(LM) : e.subject = "ad.approved" /\ e.ad = a =>
         ads[a].content \in checked[a]
    /\ work[LM] # None /\ work[LM].event.subject = "ad.approved" /\ work[LM].event.ad = a =>
         ads[a].content \in checked[a]
    /\ ads[a].status \in {"active", "expired"} => ads[a].content \in checked[a]

EditsAreGood ==
  \A k \in Connection :
    call[k] # None /\ call[k].op = "edits" /\ call[k].row.status = "active" =>
      Good(call[k].ad, call[k].row.content)

(* Where a pending ad waits for its verdict.                               *)
PendingIsUnderWay ==
  \A a \in Ad : Exists(a) /\ ads[a].status = "pending" =>
    \/ IsManual(a)
    \/ \E e \in Waiting(MA) : e.ad = a /\ e.arg = "pending"
    \/ work[MA] # None /\ work[MA].event.ad = a /\ work[MA].memory # None
    \/ \E e \in Waiting(LM) : e.ad = a
    \/ work[LM] # None /\ work[LM].event.ad = a /\ work[LM].memory.from = "pending"
                       /\ work[LM].memory.to # None

HandIsPending ==
  work[MA] # None /\ work[MA].memory # None => work[MA].event.arg = "pending"

(* A takedown finds the ad blocked, or blocks it.                          *)
TakedownsHold ==
  /\ \A a \in removed : a \in Ad /\ ads[a] # None
  /\ TakedownHoldsUnlessRaced
  /\ work[LM] # None /\ work[LM].event.subject = "ad.blocked" /\ work[LM].memory.to = None
       /\ work[LM].event.ad \notin raced =>
         ~Exists(work[LM].event.ad) \/ ads[work[LM].event.ad].status = "blocked"

(* The index has what an ad says, or an event will make it so.             *)
IndexFollows ==
  \A a \in Ad \ overlap :
    \/ Event("", a, "") \in Waiting(SI)
    \/ work[SI] # None /\ work[SI].event.ad = a /\ work[SI].memory = Projection(a)
    \/ ~(work[SI] # None /\ work[SI].event.ad = a) /\ index[a] = Projection(a)

CopiesAreTrue ==
  reindex # None => \A p \in reindex : p[1] \notin overlap => p[2] = Projection(p[1])

Inv == /\ Types /\ TasksAreCounted
       /\ ReviewIsOfTheAd /\ EditsAreGood
       /\ PendingIsUnderWay /\ HandIsPending
       /\ TakedownsHold
       /\ IndexFollows /\ CopiesAreTrue

-----------------------------------------------------------------------------
(* Bags and queues.                                                        *)

(* Putting messages into a bag adds them to its elements.                  *)
LEMMA BagPlus ==
  ASSUME NEW B, NEW S, IsABag(B)
  PROVE  /\ IsABag(B (+) SetToBag(S))
         /\ BagToSet(B (+) SetToBag(S)) = BagToSet(B) \cup S
BY DEF IsABag, BagToSet, SetToBag, (+)

(* Taking a message out of a bag leaves the others in it.                  *)
LEMMA BagMinus ==
  ASSUME NEW B, NEW e, IsABag(B)
  PROVE  /\ IsABag(B (-) SetToBag({e}))
         /\ BagToSet(B (-) SetToBag({e})) \subseteq BagToSet(B)
         /\ BagToSet(B) \ {e} \subseteq BagToSet(B (-) SetToBag({e}))
BY DEF IsABag, BagToSet, SetToBag, (-)

Seen(c, evs) == {SeenBy(c, e) : e \in {x \in evs : x.subject \in Subscribed(c)}}

(* What is published waits for those who have subscribed to it.            *)
LEMMA PublishIs ==
  ASSUME BusShape, NEW evs, Publish(evs), work' = work
  PROVE  /\ BusShape'
         /\ \A c \in Consumer : Waiting(c)' = Waiting(c) \cup Seen(c, evs)
<1>1. queue' = [c \in Consumer |-> queue[c] (+) SetToBag(Seen(c, evs))]
  BY DEF Publish, Published, Seen
<1>2. \A c \in Consumer : queue'[c] = queue[c] (+) SetToBag(Seen(c, evs))
  BY <1>1
<1>3. \A c \in Consumer : IsABag(queue'[c])
  BY <1>2, BagPlus DEF BusShape
<1>4. \A c \in Consumer : Waiting(c)' = Waiting(c) \cup Seen(c, evs)
  BY <1>2, BagPlus DEF BusShape, Waiting
<1> QED
  BY <1>1, <1>3, <1>4 DEF BusShape

(* A consumer that takes a message has it, and keeps the others.           *)
LEMMA TakeIs ==
  ASSUME BusShape, NEW c \in Consumer, NEW e, NEW memory, Take(c, e, memory)
  PROVE  /\ BusShape'
         /\ work[c] = None
         /\ e \in Waiting(c)
         /\ work' = [work EXCEPT ![c] = [event |-> e, memory |-> memory]]
         /\ work'[c] = [event |-> e, memory |-> memory]
         /\ \A d \in Consumer \ {c} : work'[d] = work[d] /\ Waiting(d)' = Waiting(d)
         /\ Waiting(c)' \subseteq Waiting(c)
         /\ Waiting(c) \ {e} \subseteq Waiting(c)'
<1>1. /\ work[c] = None
      /\ e \in Waiting(c)
      /\ queue' = [queue EXCEPT ![c] = queue[c] (-) SetToBag({e})]
      /\ work' = [work EXCEPT ![c] = [event |-> e, memory |-> memory]]
  BY DEF Take, BagIn, Waiting
<1>2. /\ queue'[c] = queue[c] (-) SetToBag({e})
      /\ \A d \in Consumer \ {c} : queue'[d] = queue[d]
      /\ queue' = [d \in Consumer |-> queue'[d]]
  BY <1>1 DEF BusShape
<1>3. ASSUME NEW d \in Consumer PROVE IsABag(queue'[d])
  <2>1. IsABag(queue[d])
    BY DEF BusShape
  <2>2. IsABag(queue[d] (-) SetToBag({e}))
    BY <2>1, BagMinus
  <2> QED
    BY <1>2, <2>1, <2>2
<1>4. /\ Waiting(c)' \subseteq Waiting(c)
      /\ Waiting(c) \ {e} \subseteq Waiting(c)'
      /\ \A d \in Consumer \ {c} : Waiting(d)' = Waiting(d)
  BY <1>2, BagMinus DEF BusShape, Waiting
<1>5. /\ work'[c] = [event |-> e, memory |-> memory]
      /\ \A d \in Consumer \ {c} : work'[d] = work[d]
      /\ work' = [d \in Consumer |-> work'[d]]
  BY <1>1 DEF BusShape
<1> QED
  BY <1>1, <1>2, <1>3, <1>4, <1>5 DEF BusShape

(* A consumer that ends has nothing in hand, has published, and finds its  *)
(* message again if the acknowledgement was lost.                          *)
LEMMA FinishIs ==
  ASSUME BusShape, NEW c \in Consumer, NEW evs, NEW lost \in BOOLEAN, Finish(c, evs, lost)
  PROVE  /\ BusShape'
         /\ work'[c] = None
         /\ \A d \in Consumer \ {c} :
              work'[d] = work[d] /\ Waiting(d)' = Waiting(d) \cup Seen(d, evs)
         /\ Waiting(c)' = Waiting(c) \cup Seen(c, evs)
                            \cup (IF lost THEN {work[c].event} ELSE {})
<1> DEFINE after == [d \in Consumer |-> queue[d] (+) SetToBag(Seen(d, evs))]
           again == after[c] (+) SetToBag({work[c].event})
<1>1. /\ work' = [work EXCEPT ![c] = None]
      /\ queue' = IF lost THEN [after EXCEPT ![c] = again] ELSE after
  BY DEF Finish, Published, Seen
<1>2. /\ work'[c] = None
      /\ \A d \in Consumer \ {c} : work'[d] = work[d]
      /\ work' = [d \in Consumer |-> work'[d]]
  BY <1>1 DEF BusShape
<1>3. \A d \in Consumer : /\ IsABag(after[d])
                          /\ BagToSet(after[d]) = Waiting(d) \cup Seen(d, evs)
  BY BagPlus DEF BusShape, Waiting
<1>4. /\ IsABag(again)
      /\ BagToSet(again) = Waiting(c) \cup Seen(c, evs) \cup {work[c].event}
  BY <1>3, BagPlus
<1>5. /\ queue' = [d \in Consumer |-> queue'[d]]
      /\ \A d \in Consumer \ {c} : queue'[d] = after[d]
      /\ queue'[c] = IF lost THEN again ELSE after[c]
  <2> HIDE DEF again
  <2> QED BY <1>1
<1> HIDE DEF after, again
<1>6. \A d \in Consumer : IsABag(queue'[d])
  BY <1>3, <1>4, <1>5
<1> QED
  BY <1>2, <1>3, <1>4, <1>5, <1>6 DEF BusShape, Waiting

(* A process that dies has nothing in hand: its messages wait again.       *)
LEMMA GiveBackIs ==
  ASSUME BusShape, NEW cs \in SUBSET Consumer, GiveBack(cs)
  PROVE  /\ BusShape'
         /\ \A d \in Consumer : work'[d] = IF d \in cs THEN None ELSE work[d]
         /\ \A d \in Consumer :
              Waiting(d)' = Waiting(d) \cup
                (IF d \in cs /\ work[d] # None THEN {work[d].event} ELSE {})
<1>1. /\ work' = [d \in Consumer |-> IF d \in cs THEN None ELSE work[d]]
      /\ queue' = [d \in Consumer |->
                     IF d \in cs /\ work[d] # None
                     THEN queue[d] (+) SetToBag({work[d].event}) ELSE queue[d]]
  BY DEF GiveBack
<1>2. \A d \in Consumer :
        queue'[d] = IF d \in cs /\ work[d] # None
                    THEN queue[d] (+) SetToBag({work[d].event}) ELSE queue[d]
  BY <1>1
<1>3. ASSUME NEW d \in Consumer PROVE IsABag(queue'[d])
  <2>1. IsABag(queue[d])
    BY DEF BusShape
  <2>2. IsABag(queue[d] (+) SetToBag({work[d].event}))
    BY <2>1, BagPlus
  <2> QED
    BY <1>2, <2>1, <2>2
<1>4. \A d \in Consumer :
        Waiting(d)' = Waiting(d) \cup
          (IF d \in cs /\ work[d] # None THEN {work[d].event} ELSE {})
  BY <1>2, BagPlus DEF BusShape, Waiting
<1> QED
  BY <1>1, <1>3, <1>4 DEF BusShape

(* What each consumer keeps of a message.                                  *)
LEMMA KeptIs ==
  /\ Kept(LM) = [from : MaybeStatus, to : MaybeStatus]
  /\ Kept(LP) = MaybeStatus
  /\ Kept(MA) = Content \cup {None}
  /\ Kept(SI) = Doc \cup {None}
  /\ Consumer = {LM, LP, MA, SI}
BY DEF Kept, Consumer, LM, LP, MA, SI

(* A consumer that has taken a message has it in hand.                     *)
LEMMA HandIsThere ==
  ASSUME NEW c \in Consumer, NEW e \in Message, NEW memory \in Kept(c)
  PROVE  [event |-> e, memory |-> memory] # None
<1>1. memory \in [from : MaybeStatus, to : MaybeStatus] \cup MaybeStatus \cup Content \cup Doc
  BY KeptIs DEF MaybeStatus
<1>2. [event |-> e, memory |-> memory] \in Hand
  BY <1>1 DEF Hand
<1> QED
  BY <1>2, PipelineAssumption

-----------------------------------------------------------------------------
(* What the queues and the hands hold stays proper.                        *)

Lasts == \A a \in Ad : ads[a] # None => ads'[a] # None

Fit(e) ==
  /\ e \in Message /\ ads[e.ad] # None
  /\ e.subject = "promotion.activated" => e.arg \in Nat

(* An event about an ad that exists is fit to be published.                *)
LEMMA EventFits ==
  ASSUME NEW a \in Ad, ads'[a] # None,
         NEW subject \in ModerationSubjects \cup IndexerSubjects,
         NEW arg \in Status \cup TaskStatus \cup {""}
  PROVE  \A e \in {Event(subject, a, arg)} : Fit(e)'
<1>1. Event(subject, a, arg) \in Message
  BY DEF Event, Message
<1>2. subject # "promotion.activated"
  BY DEF ModerationSubjects, IndexerSubjects
<1>3. ASSUME NEW e, e = Event(subject, a, arg) PROVE Fit(e)'
  <2>1. e \in Message /\ e.subject = subject /\ e.ad = a
    BY <1>1, <1>3 DEF Event
  <2> QED
    BY <1>2, <2>1 DEF Fit
<1> QED
  BY <1>3

(* A proper message stays so: ads are not forgotten.                       *)
LEMMA ProperLasts ==
  ASSUME Lasts, NEW c, NEW e, Proper(c, e)
  PROVE  Proper(c, e)'
BY DEF Lasts, Proper, Message

(* What is fit to be published is proper where it arrives.                 *)
LEMMA SeenIsProper ==
  ASSUME NEW evs, \A e \in evs : Fit(e)', NEW c \in Consumer, NEW x \in Seen(c, evs)
  PROVE  Proper(c, x)'
<1>1. PICK e \in evs : e.subject \in Subscribed(c) /\ x = SeenBy(c, e)
  BY DEF Seen
<1>2. Fit(e)'
  BY <1>1
<1>3. CASE c = SI
  BY <1>1, <1>2, <1>3 DEF SI, Fit, SeenBy, Event, Proper, Message, LP
<1>4. CASE c # SI
  BY <1>1, <1>2, <1>4
  DEF Fit, SeenBy, Proper, SI, LP, Subscribed, PromotionSubjects
<1> QED
  BY <1>3, <1>4

(* Publishing keeps the types of the bus, ...                              *)
LEMMA PublishKeeps ==
  ASSUME BusTypes, Lasts, NEW evs, Publish(evs), work' = work, \A e \in evs : Fit(e)'
  PROVE  BusTypes'
<1>1. /\ BusShape'
      /\ \A c \in Consumer : Waiting(c)' = Waiting(c) \cup Seen(c, evs)
  BY PublishIs DEF BusTypes
<1>2. ASSUME NEW c \in Consumer, NEW e \in Waiting(c)' PROVE Proper(c, e)'
  <2>1. CASE e \in Waiting(c)
    BY <2>1, ProperLasts DEF BusTypes
  <2>2. CASE e \in Seen(c, evs)
    BY <2>2, SeenIsProper
  <2> QED
    BY <1>1, <2>1, <2>2
<1>3. ASSUME NEW c \in Consumer, work'[c] # None
      PROVE  /\ work'[c] \in [event : Message, memory : Kept(c)]
             /\ Proper(c, work[c].event)'
  BY <1>3, ProperLasts DEF BusTypes
<1> QED
  BY <1>1, <1>2, <1>3 DEF BusTypes

(* ... and so does taking a message, ...                                   *)
LEMMA TakeKeeps ==
  ASSUME BusTypes, ads' = ads,
         NEW c \in Consumer, NEW e, NEW memory \in Kept(c), Take(c, e, memory)
  PROVE  BusTypes'
<1>1. /\ BusShape'
      /\ e \in Waiting(c)
      /\ work'[c] = [event |-> e, memory |-> memory]
      /\ \A d \in Consumer \ {c} : work'[d] = work[d] /\ Waiting(d)' = Waiting(d)
      /\ Waiting(c)' \subseteq Waiting(c)
  BY TakeIs DEF BusTypes
<1>2. Lasts
  BY DEF Lasts
<1>3. Proper(c, e)
  BY <1>1 DEF BusTypes
<1>4. ASSUME NEW d \in Consumer, NEW x \in Waiting(d)' PROVE Proper(d, x)'
  <2>1. x \in Waiting(d)
    BY <1>1
  <2> QED
    BY <1>2, <2>1, ProperLasts DEF BusTypes
<1>5. ASSUME NEW d \in Consumer, work'[d] # None
      PROVE  /\ work'[d] \in [event : Message, memory : Kept(d)]
             /\ Proper(d, work[d].event)'
  <2>1. CASE d = c
    <3>1. e \in Message /\ Proper(c, e)'
      BY <1>2, <1>3, ProperLasts DEF Proper
    <3> QED
      BY <1>1, <2>1, <3>1
  <2>2. CASE d # c
    BY <1>1, <1>2, <1>5, <2>2, ProperLasts DEF BusTypes
  <2> QED
    BY <2>1, <2>2
<1> QED
  BY <1>1, <1>4, <1>5 DEF BusTypes

(* ... ending one, ...                                                     *)
LEMMA FinishKeeps ==
  ASSUME BusTypes, Lasts, NEW c \in Consumer, work[c] # None,
         NEW evs, NEW lost \in BOOLEAN, Finish(c, evs, lost), \A e \in evs : Fit(e)'
  PROVE  BusTypes'
<1>1. /\ BusShape'
      /\ work'[c] = None
      /\ \A d \in Consumer \ {c} :
           work'[d] = work[d] /\ Waiting(d)' = Waiting(d) \cup Seen(d, evs)
      /\ Waiting(c)' = Waiting(c) \cup Seen(c, evs)
                         \cup (IF lost THEN {work[c].event} ELSE {})
  BY FinishIs DEF BusTypes
<1>2. ASSUME NEW d \in Consumer, NEW x \in Waiting(d)' PROVE Proper(d, x)'
  <2>1. CASE x \in Waiting(d)
    BY <2>1, ProperLasts DEF BusTypes
  <2>2. CASE x \in Seen(d, evs)
    BY <2>2, SeenIsProper
  <2>3. CASE d = c /\ x = work[c].event
    BY <2>3, ProperLasts DEF BusTypes
  <2> QED
    BY <1>1, <2>1, <2>2, <2>3
<1>3. ASSUME NEW d \in Consumer, work'[d] # None
      PROVE  /\ work'[d] \in [event : Message, memory : Kept(d)]
             /\ Proper(d, work[d].event)'
  <2>1. d # c
    BY <1>1, <1>3
  <2> QED
    BY <1>1, <1>3, <2>1, ProperLasts DEF BusTypes
<1> QED
  BY <1>1, <1>2, <1>3 DEF BusTypes

(* ... with its acknowledgement, ...                                       *)
LEMMA AckedKeeps ==
  ASSUME BusTypes, Lasts, NEW c \in Consumer, work[c] # None,
         NEW evs, Finish(c, evs, FALSE), \A e \in evs : Fit(e)'
  PROVE  BusTypes'
<1>1. PICK lost \in BOOLEAN : lost = FALSE
  OBVIOUS
<1>2. Finish(c, evs, lost)
  BY <1>1
<1> QED
  BY <1>2, FinishKeeps

(* ... and giving messages back.                                           *)
LEMMA GiveBackKeeps ==
  ASSUME BusTypes, ads' = ads, NEW cs \in SUBSET Consumer, GiveBack(cs)
  PROVE  BusTypes'
<1>1. /\ BusShape'
      /\ \A d \in Consumer : work'[d] = IF d \in cs THEN None ELSE work[d]
      /\ \A d \in Consumer :
           Waiting(d)' = Waiting(d) \cup
             (IF d \in cs /\ work[d] # None THEN {work[d].event} ELSE {})
  BY GiveBackIs DEF BusTypes
<1>2. Lasts
  BY DEF Lasts
<1>3. ASSUME NEW d \in Consumer, NEW x \in Waiting(d)' PROVE Proper(d, x)'
  <2>1. x \in Waiting(d) \/ (work[d] # None /\ x = work[d].event)
    BY <1>1
  <2>2. Proper(d, x)
    BY <2>1 DEF BusTypes
  <2> QED
    BY <1>2, <2>2, ProperLasts
<1>4. ASSUME NEW d \in Consumer, work'[d] # None
      PROVE  /\ work'[d] \in [event : Message, memory : Kept(d)]
             /\ Proper(d, work[d].event)'
  <2>1. work'[d] = work[d] /\ work[d] # None
    BY <1>1, <1>4
  <2> QED
    BY <1>2, <2>1, ProperLasts DEF BusTypes
<1> QED
  BY <1>1, <1>3, <1>4 DEF BusTypes

(* So does what leaves the bus alone.                                      *)
LEMMA StillKeeps ==
  ASSUME BusTypes, Lasts, UNCHANGED busVars
  PROVE  BusTypes'
<1>1. BusShape'
  BY DEF BusTypes, BusShape, busVars
<1>2. \A c \in Consumer : Waiting(c)' = Waiting(c) /\ work'[c] = work[c]
  BY DEF Waiting, busVars
<1> QED
  BY <1>1, <1>2, ProperLasts DEF BusTypes

-----------------------------------------------------------------------------
(* Types: the steps of Listing.                                            *)

(* What is spent of a budget makes a difference.                           *)
LEMMA SpendKeeps ==
  ASSUME budget \in [Input -> Nat], NEW what \in Input, Spend(what)
  PROVE  budget' \in [Input -> Nat] /\ budget'[what] # budget[what]
BY DEF Spend

(* An ad that exists has a row.                                            *)
LEMMA RowIsThere ==
  ASSUME DataTypes, NEW a \in Ad
  PROVE  /\ Exists(a) => ads[a] \in Row
         /\ Exists(a) <=> ads[a] # None /\ ads[a] # Gone
         /\ \A row \in Row : row # None /\ row # Gone
BY PipelineAssumption DEF DataTypes, Exists

(* What a call in progress has read.                                       *)
LEMMA CallIsThere ==
  ASSUME Types, NEW k \in Connection, call[k] # None
  PROVE  /\ call[k] \in Call /\ call[k].ad \in Ad
         /\ call[k].read \in Row /\ call[k].read.status \in Status
         /\ CallIsSound(call[k])
BY DEF Types, DataTypes, CallsAreSound, CallIsSound, Call, Row

(* What a step of Listing leaves alone, and what is left to see.           *)
LEMMA ListingKeeps ==
  ASSUME Types, DataTypes', BusTypes', CallsAreSound', Lasts,
         UNCHANGED <<tasks, open>>, work'[LM] = work[LM] \/ work'[LM] = None
  PROVE  Types'
<1>1. AdsComeFirst'
  BY DEF Types, DataTypes, AdsComeFirst, Lasts, Screen
<1>2. PlanIsKept'
  BY DEF Types, PlanIsKept
<1> QED
  BY <1>1, <1>2 DEF Types

(* A call that is answered leaves the others alone.                        *)
LEMMA AnsweredKeeps ==
  ASSUME Types, NEW k \in Connection, Answered(k)
  PROVE  call' \in [Connection -> Call \cup {None}] /\ CallsAreSound'
BY DEF Types, DataTypes, CallsAreSound, Answered

(* The creation of an ad keeps the types.                                  *)
LEMMA CreateTypes ==
  ASSUME Types, UNCHANGED <<moderationVars, index, reindex>>, NEW a \in Ad, Create(a)
  PROVE  Types'
<1>1. PICK c \in Content :
        ads' = [ads EXCEPT ![a] = [status |-> "draft", content |-> c,
                                   expires |-> Never, bumped |-> Never,
                                   top |-> FALSE, ends |-> Never]]
  BY DEF Create
<1>2. /\ Publish({Event("ad.created", a, "draft")})
      /\ UNCHANGED <<call, swept, now, work>>
      /\ Spend("creates")
  BY DEF Create
<1> DEFINE row == [status |-> "draft", content |-> c, expires |-> Never, bumped |-> Never,
                   top |-> FALSE, ends |-> Never]
<1>3. row \in Row
  BY DEF Row, Status, Never
<1>4. row # None
  BY <1>3, PipelineAssumption
<1>5. ads' = [ads EXCEPT ![a] = row]
  BY <1>1
<1> HIDE DEF row
<1>6. ads' \in [Ad -> Row \cup {None, Gone}] /\ Lasts
  BY <1>3, <1>4, <1>5 DEF Types, DataTypes, Lasts
<1>7. budget' \in [Input -> Nat]
  BY <1>2, SpendKeeps DEF Types, DataTypes, Input
<1>8. DataTypes'
  BY <1>2, <1>6, <1>7 DEF Types, DataTypes, moderationVars
<1>9. \A e \in {Event("ad.created", a, "draft")} : Fit(e)'
  <2>1. ads'[a] # None
    BY <1>4, <1>5 DEF Types, DataTypes
  <2> QED
    BY <2>1, EventFits DEF Status, IndexerSubjects
<1>10. BusTypes'
  BY <1>2, <1>6, <1>9, PublishKeeps DEF Types
<1> QED
  BY <1>2, <1>6, <1>8, <1>10, ListingKeeps DEF Types, CallsAreSound, moderationVars

(* Raising an ad keeps the types.                                          *)
LEMMA BumpTypes ==
  ASSUME Types, UNCHANGED <<moderationVars, index, reindex>>, NEW a \in Ad, Bump(a)
  PROVE  Types'
<1>1. /\ ads[a] \in Row
      /\ Spend("bumps")
      /\ ads' = [ads EXCEPT ![a].bumped = now]
      /\ Publish({Event("ad.bumped", a, "active")})
      /\ UNCHANGED <<call, swept, now, work>>
  BY RowIsThere DEF Bump, Matches, Types
<1>2. ads' \in [Ad -> Row \cup {None, Gone}] /\ ads'[a] \in Row
  BY <1>1 DEF Types, DataTypes, Row
<1>3. Lasts
  BY <1>1, <1>2, PipelineAssumption DEF Types, DataTypes, Lasts
<1>4. DataTypes'
  BY <1>1, <1>2, SpendKeeps DEF Types, DataTypes, Input, moderationVars
<1>5. \A e \in {Event("ad.bumped", a, "active")} : Fit(e)'
  <2>1. ads'[a] # None
    BY <1>2, PipelineAssumption
  <2> QED
    BY <2>1, EventFits DEF Status, IndexerSubjects
<1>6. BusTypes'
  BY <1>1, <1>3, <1>5, PublishKeeps DEF Types
<1> QED
  BY <1>1, <1>3, <1>4, <1>6, ListingKeeps DEF Types, CallsAreSound, moderationVars

(* A call that begins is sound when what it is to write is.                *)
LEMMA BeginTypes ==
  ASSUME Types, UNCHANGED <<moderationVars, index, reindex>>,
         NEW k \in Connection, NEW op \in {"edits", "submits", "closes", "renewals", "deletes"},
         NEW a \in Ad, NEW row \in Row \cup {None}, Begin(k, op, a, row),
         CallIsSound([op |-> op, ad |-> a, read |-> ads[a], row |-> row])
  PROVE  Types'
<1> DEFINE w == [op |-> op, ad |-> a, read |-> ads[a], row |-> row]
<1>1. /\ Spend(op)
      /\ call' = [call EXCEPT ![k] = w]
      /\ UNCHANGED <<ads, swept, now, busVars>>
  BY DEF Begin
<1>2. w \in Call
  BY DEF CallIsSound
<1>3. CallIsSound(w)
  OBVIOUS
<1> HIDE DEF w
<1>4. CallsAreSound'
  BY <1>1, <1>3 DEF Types, DataTypes, CallsAreSound
<1>5. budget' \in [Input -> Nat]
  BY <1>1, SpendKeeps DEF Types, DataTypes, Input
<1>6. DataTypes'
  BY <1>1, <1>2, <1>5 DEF Types, DataTypes, moderationVars
<1>7. Lasts
  BY <1>1 DEF Lasts
<1>8. BusTypes'
  BY <1>1, <1>7, StillKeeps DEF Types
<1> QED
  BY <1>1, <1>4, <1>6, <1>7, <1>8, ListingKeeps DEF moderationVars, busVars

(* A call that begins keeps the types.                                     *)
LEMMA BeginsTypes ==
  ASSUME Types, UNCHANGED <<moderationVars, index, reindex>>,
         NEW k \in Connection, NEW a \in Ad,
         \/ BeginEdit(k, a) \/ BeginSubmit(k, a) \/ BeginSold(k, a)
         \/ BeginArchive(k, a) \/ BeginRenew(k, a) \/ BeginDelete(k, a)
  PROVE  Types'
<1>1. /\ ads[a] \in Row /\ ads[a].status \in Status
  <2>1. Exists(a)
    BY DEF BeginEdit, BeginSubmit, BeginSold, BeginArchive, BeginRenew, BeginDelete, Begin
  <2> QED
    BY <2>1, RowIsThere DEF Types, Row
<1>2. CASE BeginEdit(k, a)
  <2>1. PICK c \in Content : /\ Editable(ads[a].status)
                             /\ Begin(k, "edits", a, Edited(ads[a], c))
    BY <1>2 DEF BeginEdit
  <2>2. /\ Edited(ads[a], c) \in Row
        /\ Edited(ads[a], c).status \in {"draft", "pending", "rejected", "active"}
    BY <1>1, <2>1 DEF Edited, Editable, Row, Status
  <2>3. CallIsSound([op |-> "edits", ad |-> a, read |-> ads[a], row |-> Edited(ads[a], c)])
    BY <1>1, <2>2 DEF CallIsSound, Call
  <2> QED
    BY <2>1, <2>2, <2>3, BeginTypes
<1>3. ASSUME NEW op \in {"submits", "closes"}, NEW to \in {"pending", "sold", "archived"},
             CanTransitionTo(ads[a].status, to),
             Begin(k, op, a, [ads[a] EXCEPT !.status = to])
      PROVE  Types'
  <2> DEFINE row == [ads[a] EXCEPT !.status = to]
  <2>1. row \in Row /\ row.status = to
    BY <1>1 DEF Row, Status
  <2>2. ads[a].status # "blocked"
    BY <1>3 DEF CanTransitionTo, Transitions
  <2> HIDE DEF row
  <2>3. CallIsSound([op |-> op, ad |-> a, read |-> ads[a], row |-> row])
    BY <1>1, <2>1, <2>2 DEF CallIsSound, Call
  <2> QED
    BY <1>3, <2>1, <2>3, BeginTypes DEF row
<1>4. CASE BeginSubmit(k, a) \/ BeginSold(k, a) \/ BeginArchive(k, a)
  BY <1>3, <1>4 DEF BeginSubmit, BeginSold, BeginArchive
<1>5. CASE BeginRenew(k, a)
  <2> DEFINE row == [ads[a] EXCEPT !.status = "active", !.expires = now + Lifetime]
  <2>1. /\ ads[a].status \in {"active", "expired"}
        /\ Begin(k, "renewals", a, row)
    BY <1>5 DEF BeginRenew
  <2>2. now + Lifetime \in Nat
    BY PipelineAssumption DEF Types, DataTypes
  <2>3. row \in Row /\ row.status = "active"
    BY <1>1, <2>2 DEF Row, Status
  <2> HIDE DEF row
  <2>4. CallIsSound([op |-> "renewals", ad |-> a, read |-> ads[a], row |-> row])
    BY <1>1, <2>1, <2>3 DEF CallIsSound, Call
  <2> QED
    BY <2>1, <2>3, <2>4, BeginTypes
<1>6. CASE BeginDelete(k, a)
  <2>1. CallIsSound([op |-> "deletes", ad |-> a, read |-> ads[a], row |-> None])
    BY <1>1 DEF CallIsSound, Call
  <2> QED
    BY <1>6, <2>1, BeginTypes DEF BeginDelete
<1> QED
  BY <1>2, <1>4, <1>5, <1>6

(* A row that takes another status, and lasts.                             *)
LEMMA RowMoves ==
  ASSUME DataTypes, NEW a \in Ad, Exists(a), NEW row \in Row, ads' = [ads EXCEPT ![a] = row]
  PROVE  /\ ads' \in [Ad -> Row \cup {None, Gone}]
         /\ Lasts
         /\ ads'[a] = row /\ ads'[a] # None
BY PipelineAssumption DEF DataTypes, Lasts

(* An edit that is written keeps the types.                                *)
LEMMA CommitEditTypes ==
  ASSUME Types, UNCHANGED <<moderationVars, index, reindex>>,
         NEW k \in Connection, CommitEdit(k)
  PROVE  Types'
<1> DEFINE w == call[k]
           row == [ads[w.ad] EXCEPT !.content = w.row.content, !.status = w.row.status]
<1>1. /\ w # None /\ w.op = "edits" /\ Exists(w.ad)
      /\ ads' = [ads EXCEPT ![w.ad].content = w.row.content, ![w.ad].status = w.row.status]
      /\ Publish({Event("ad.updated", w.ad, w.row.status)})
      /\ Answered(k)
      /\ UNCHANGED <<swept, now, budget, work>>
  BY DEF CommitEdit
<1>2. /\ w.ad \in Ad /\ w.row \in Row /\ ads[w.ad] \in Row /\ w.row.status \in Status
  BY <1>1, CallIsThere, RowIsThere DEF CallIsSound, Types, Row
<1>3. row \in Row
  BY <1>2 DEF Row
<1>4. ads' = [ads EXCEPT ![w.ad] = row]
  BY <1>1, <1>2 DEF Types, DataTypes, Row
<1> HIDE DEF row, w
<1>5. PICK a \in Ad : a = w.ad
  BY <1>2
<1>6. /\ ads' \in [Ad -> Row \cup {None, Gone}] /\ Lasts /\ ads'[a] # None
  BY <1>1, <1>3, <1>4, <1>5, RowMoves DEF Types
<1>7. PICK s \in Status : s = w.row.status
  BY <1>2
<1>8. \A e \in {Event("ad.updated", a, s)} : Fit(e)'
  BY <1>6, EventFits DEF IndexerSubjects
<1>9. BusTypes'
  BY <1>1, <1>5, <1>6, <1>7, <1>8, PublishKeeps DEF Types
<1>10. DataTypes' /\ CallsAreSound'
  BY <1>1, <1>6, AnsweredKeeps DEF Types, DataTypes, moderationVars
<1> QED
  BY <1>1, <1>6, <1>9, <1>10, ListingKeeps DEF moderationVars

(* A change of status keeps the types.                                     *)
LEMMA CommitTransitionTypes ==
  ASSUME Types, UNCHANGED <<moderationVars, index, reindex>>,
         NEW k \in Connection, CommitTransition(k)
  PROVE  Types'
<1> DEFINE w == call[k]
           until == IF w.op = "renewals" THEN w.row.expires ELSE Never
           row == [ads[w.ad] EXCEPT !.status = w.row.status,
                                    !.expires = IF until = Never THEN @ ELSE until]
<1>1. /\ w # None /\ w.op \notin {"edits", "deletes"}
      /\ Matches(w.ad, w.read.status)
      /\ ads' = Transitioned(w.ad, w.row.status, until)
      /\ Publish({Event(TransitionSubject(w.row.status), w.ad, w.row.status)})
      /\ Answered(k)
      /\ UNCHANGED <<swept, now, budget, work>>
  BY DEF CommitTransition
<1>2. /\ w.ad \in Ad /\ Exists(w.ad) /\ ads[w.ad] \in Row
      /\ w.row \in Row /\ w.row.status \in Status /\ until \in Nat
  BY <1>1, CallIsThere, RowIsThere DEF CallIsSound, Call, Types, Row, Matches, Never
<1> HIDE DEF w, until
<1>3. row \in Row
  BY <1>2 DEF Row
<1>4. ads' = [ads EXCEPT ![w.ad] = row]
  BY <1>1, <1>2 DEF Types, DataTypes, Row, Transitioned
<1> HIDE DEF row
<1>5. PICK a \in Ad : a = w.ad
  BY <1>2
<1>6. /\ ads' \in [Ad -> Row \cup {None, Gone}] /\ Lasts /\ ads'[a] # None
  BY <1>2, <1>3, <1>4, <1>5, RowMoves DEF Types
<1>7. PICK s \in Status : s = w.row.status
  BY <1>2
<1>8. PICK subject \in {"ad.sold", "ad.updated"} : subject = TransitionSubject(s)
  BY DEF TransitionSubject
<1>9. \A e \in {Event(subject, a, s)} : Fit(e)'
  BY <1>6, EventFits DEF IndexerSubjects
<1>10. BusTypes'
  BY <1>1, <1>5, <1>6, <1>7, <1>8, <1>9, PublishKeeps DEF Types
<1>11. DataTypes' /\ CallsAreSound'
  BY <1>1, <1>6, AnsweredKeeps DEF Types, DataTypes, moderationVars
<1> QED
  BY <1>1, <1>6, <1>10, <1>11, ListingKeeps DEF moderationVars

(* The removal of an ad keeps the types.                                   *)
LEMMA CommitDeleteTypes ==
  ASSUME Types, UNCHANGED <<moderationVars, index, reindex>>,
         NEW k \in Connection, CommitDelete(k)
  PROVE  Types'
<1> DEFINE w == call[k]
<1>1. /\ w # None /\ w.op = "deletes" /\ Exists(w.ad)
      /\ ads' = [ads EXCEPT ![w.ad] = Gone]
      /\ Publish({Event("ad.deleted", w.ad, w.read.status)})
      /\ Answered(k)
      /\ UNCHANGED <<swept, now, budget, work>>
  BY DEF CommitDelete
<1>2. w.ad \in Ad /\ w.read.status \in Status
  BY <1>1, CallIsThere
<1> HIDE DEF w
<1>3. PICK a \in Ad : a = w.ad
  BY <1>2
<1>4. /\ ads' \in [Ad -> Row \cup {None, Gone}] /\ Lasts /\ ads'[a] # None
  BY <1>1, <1>3, PipelineAssumption DEF Types, DataTypes, Lasts
<1>5. PICK s \in Status : s = w.read.status
  BY <1>2
<1>6. \A e \in {Event("ad.deleted", a, s)} : Fit(e)'
  BY <1>4, EventFits DEF IndexerSubjects
<1>7. BusTypes'
  BY <1>1, <1>3, <1>4, <1>5, <1>6, PublishKeeps DEF Types
<1>8. DataTypes' /\ CallsAreSound'
  BY <1>1, <1>4, AnsweredKeeps DEF Types, DataTypes, moderationVars
<1> QED
  BY <1>1, <1>4, <1>7, <1>8, ListingKeeps DEF moderationVars

(* A call that is refused keeps the types.                                 *)
LEMMA RefuseTypes ==
  ASSUME Types, UNCHANGED <<moderationVars, index, reindex>>, NEW k \in Connection, Refuse(k)
  PROVE  Types'
<1>1. Answered(k) /\ UNCHANGED <<ads, swept, now, budget, busVars>>
  BY DEF Refuse
<1>2. DataTypes' /\ CallsAreSound'
  BY <1>1, AnsweredKeeps DEF Types, DataTypes, moderationVars
<1>3. Lasts
  BY <1>1 DEF Lasts
<1>4. BusTypes'
  BY <1>1, <1>3, StillKeeps DEF Types
<1> QED
  BY <1>1, <1>2, <1>3, <1>4, ListingKeeps DEF moderationVars, busVars

(* The shape of the bus is part of its types.                              *)
LEMMA ShapeHolds == Types => BusShape
BY DEF Types, BusTypes

(* A status is not None.                                                   *)
LEMMA StatusIsNotNone == None \notin Status
BY PipelineAssumption

(* What waits for a consumer is proper.                                    *)
LEMMA WaitingIsProper ==
  ASSUME Types, NEW c \in Consumer, NEW e \in Waiting(c)
  PROVE  Proper(c, e) /\ e \in Message /\ e.ad \in Ad /\ ads[e.ad] # None
BY DEF Types, BusTypes, Proper, Message

(* What a consumer has in hand is proper.                                  *)
LEMMA HandIsProper ==
  ASSUME Types, NEW c \in Consumer, work[c] # None
  PROVE  /\ work[c] \in [event : Message, memory : Kept(c)]
         /\ Proper(c, work[c].event)
         /\ work[c].event \in Message /\ work[c].event.ad \in Ad
         /\ ads[work[c].event.ad] # None
         /\ work[c].memory \in Kept(c)
BY DEF Types, BusTypes, Proper, Message

(* An ad that exists has a status.                                         *)
LEMMA StatusOfRow ==
  ASSUME DataTypes, NEW a \in Ad, Exists(a)
  PROVE  ads[a] \in Row /\ ads[a].status \in Status /\ ads[a].status # None
BY RowIsThere, StatusIsNotNone DEF Row

(* The plan is a status, or nothing.                                       *)
LEMMA PlanIs ==
  ASSUME NEW subject \in ModerationSubjects, NEW s \in Status
  PROVE  Plan(subject, s) \in {"active", "rejected", "blocked", None}
BY DEF ModerationSubjects, Plan

(* A decision that Listing takes becomes a plan for the status it reads.   *)
LEMMA ReadDecisionTypes ==
  ASSUME Types, UNCHANGED <<moderationVars, index, reindex>>,
         NEW e \in Waiting(LM), ReadDecision(e)
  PROVE  /\ Types'
         /\ work'[LM] # None /\ work'[LM].event = e
         /\ work'[LM].memory.from = IF Exists(e.ad) THEN ads[e.ad].status ELSE None
         /\ work'[LM].memory.to = IF Exists(e.ad) THEN Plan(e.subject, ads[e.ad].status)
                                                  ELSE None
<1> DEFINE memory == [from |-> IF Exists(e.ad) THEN ads[e.ad].status ELSE None,
                      to |-> IF Exists(e.ad) THEN Plan(e.subject, ads[e.ad].status) ELSE None]
<1>1. LM \in Consumer /\ Kept(LM) = [from : MaybeStatus, to : MaybeStatus]
  BY KeptIs
<1>2. e \in Message /\ e.ad \in Ad /\ e.subject \in ModerationSubjects
  BY <1>1, WaitingIsProper DEF Proper, Subscribed, LM, SI
<1>3. memory \in Kept(LM)
  <2>1. CASE Exists(e.ad)
    BY <1>1, <1>2, <2>1, StatusOfRow, PlanIs DEF Types, MaybeStatus, Status
  <2>2. CASE ~Exists(e.ad)
    BY <1>1, <2>2 DEF MaybeStatus
  <2> QED
    BY <2>1, <2>2
<1>4. Take(LM, e, memory) /\ UNCHANGED listingVars
  BY DEF ReadDecision, LM
<1>5. /\ memory.from = IF Exists(e.ad) THEN ads[e.ad].status ELSE None
      /\ memory.to = IF Exists(e.ad) THEN Plan(e.subject, ads[e.ad].status) ELSE None
  OBVIOUS
<1> HIDE DEF memory
<1>6. BusTypes'
  BY <1>1, <1>3, <1>4, TakeKeeps DEF Types, listingVars
<1>7. /\ work'[LM] = [event |-> e, memory |-> memory]
      /\ work'[LM] # None
  <2>1. work'[LM] = [event |-> e, memory |-> memory]
    BY <1>1, <1>4, TakeIs, ShapeHolds
  <2> QED
    BY <1>1, <1>2, <1>3, <2>1, HandIsThere
<1>8. DataTypes' /\ CallsAreSound' /\ AdsComeFirst'
  BY <1>4 DEF Types, DataTypes, CallsAreSound, AdsComeFirst, listingVars, moderationVars
<1>9. PlanIsKept'
  <2>1. memory.to # None => Exists(e.ad) /\ ads[e.ad].status # None
    BY <1>2, <1>5, StatusOfRow DEF Types
  <2> QED
    BY <1>5, <1>7, <2>1 DEF PlanIsKept
<1> QED
  BY <1>5, <1>6, <1>7, <1>8, <1>9 DEF Types

(* What a decision writes, when the status is still the one it has read.   *)
DecisionHits ==
  LET w == work[LM] IN w.memory.to # None /\ Matches(w.event.ad, w.memory.from)

(* What is planned for a decision.                                         *)
LEMMA DecisionIs ==
  ASSUME Types, work[LM] # None, work[LM].memory.to # None
  PROVE  /\ work[LM].event.subject \in ModerationSubjects
         /\ work[LM].memory.from \in Status
         /\ work[LM].memory.to = Plan(work[LM].event.subject, work[LM].memory.from)
         /\ work[LM].memory.to \in {"active", "rejected", "blocked"}
         /\ work[LM].memory.to = "active" =>
              work[LM].event.subject = "ad.approved" /\ work[LM].memory.from = "pending"
         /\ work[LM].memory.to = "blocked" => work[LM].event.subject = "ad.blocked"
         /\ work[LM].event.subject = "ad.blocked" => work[LM].memory.to = "blocked"
<1>1. /\ work[LM].memory \in [from : MaybeStatus, to : MaybeStatus]
      /\ work[LM].event.subject \in ModerationSubjects
  BY HandIsProper, KeptIs DEF Proper, Subscribed, LM, SI
<1>2. /\ work[LM].memory.from \in Status
      /\ work[LM].memory.to = Plan(work[LM].event.subject, work[LM].memory.from)
  BY <1>1 DEF Types, PlanIsKept, MaybeStatus
<1>3. work[LM].memory.to \in {"active", "rejected", "blocked"}
  BY <1>1, <1>2, PlanIs
<1>4. /\ work[LM].memory.to = "active" =>
           work[LM].event.subject = "ad.approved" /\ work[LM].memory.from = "pending"
      /\ work[LM].memory.to = "blocked" => work[LM].event.subject = "ad.blocked"
      /\ work[LM].event.subject = "ad.blocked" => work[LM].memory.to = "blocked"
  BY <1>1, <1>2 DEF Plan, ModerationSubjects
<1> QED
  BY <1>1, <1>2, <1>3, <1>4

(* A decision that is applied keeps the types.                             *)
LEMMA ApplyDecisionTypes ==
  ASSUME Types, UNCHANGED <<moderationVars, index, reindex>>, ApplyDecision
  PROVE  Types'
<1> DEFINE w == work[LM]
           until == IF w.memory.to = "active" THEN now + Lifetime ELSE Never
           row == [ads[w.event.ad] EXCEPT !.status = w.memory.to,
                                          !.expires = IF until = Never THEN @ ELSE until]
<1>1. PICK evs : evs = IF DecisionHits THEN {Event("ad.updated", w.event.ad, w.memory.to)} ELSE {}
  OBVIOUS
<1>2. /\ w # None
      /\ ads' = IF DecisionHits THEN Transitioned(w.event.ad, w.memory.to, until) ELSE ads
      /\ Finish(LM, evs, FALSE)
      /\ UNCHANGED <<call, swept, now, budget>>
  BY <1>1 DEF ApplyDecision, DecisionHits, LM
<1>3. LM \in Consumer
  BY KeptIs
<1>4. /\ ads' \in [Ad -> Row \cup {None, Gone}] /\ Lasts
      /\ \A e \in evs : Fit(e)'
  <2>1. CASE DecisionHits
    <3>1. w.event.ad \in Ad /\ Exists(w.event.ad) /\ ads[w.event.ad] \in Row
      BY <1>2, <1>3, <2>1, HandIsProper, RowIsThere DEF DecisionHits, Matches, Types
    <3>2. w.memory.to \in Status
      BY <1>2, <2>1, DecisionIs DEF DecisionHits, Status
    <3>3. until \in Nat
      BY PipelineAssumption DEF Types, DataTypes, Never
    <3>4. ads' = Transitioned(w.event.ad, w.memory.to, until)
      BY <1>2, <2>1
    <3> HIDE DEF w, until
    <3>5. row \in Row
      BY <3>1, <3>2, <3>3 DEF Row
    <3>6. ads' = [ads EXCEPT ![w.event.ad] = row]
      BY <3>1, <3>4 DEF Types, DataTypes, Row, Transitioned
    <3> HIDE DEF row
    <3>7. PICK a \in Ad : a = w.event.ad
      BY <3>1
    <3>8. /\ ads' \in [Ad -> Row \cup {None, Gone}] /\ Lasts /\ ads'[a] # None
      BY <3>1, <3>5, <3>6, <3>7, RowMoves DEF Types
    <3>9. PICK s \in Status : s = w.memory.to
      BY <3>2
    <3>10. evs = {Event("ad.updated", a, s)}
      BY <1>1, <2>1, <3>7, <3>9
    <3>11. \A e \in evs : Fit(e)'
      BY <3>8, <3>10, EventFits DEF IndexerSubjects
    <3> QED
      BY <3>8, <3>11
  <2>2. CASE ~DecisionHits
    BY <1>1, <1>2, <2>2 DEF Types, DataTypes, Lasts
  <2> QED
    BY <2>1, <2>2
<1> HIDE DEF w, until, row
<1>5. BusTypes /\ work[LM] # None
  BY <1>2 DEF Types, w
<1>6. BusTypes'
  BY <1>2, <1>3, <1>4, <1>5, AckedKeeps, Zenon
<1>7. work'[LM] = None
  BY <1>2, <1>3, FinishIs, ShapeHolds
<1>8. DataTypes' /\ CallsAreSound'
  BY <1>2, <1>4 DEF Types, DataTypes, CallsAreSound, moderationVars
<1> QED
  BY <1>4, <1>6, <1>7, <1>8, ListingKeeps DEF moderationVars

(* A promotion that Listing takes keeps the types.                         *)
LEMMA ReadPromotionTypes ==
  ASSUME Types, UNCHANGED <<moderationVars, index, reindex>>,
         NEW e \in Waiting(LP), ReadPromotion(e)
  PROVE  Types'
<1>1. PICK memory : memory = IF Exists(e.ad) THEN ads[e.ad].status ELSE None
  OBVIOUS
<1>2. LP \in Consumer /\ LM \in Consumer \ {LP} /\ Kept(LP) = MaybeStatus
  BY KeptIs DEF LM, LP
<1>3. memory \in Kept(LP)
  BY <1>1, <1>2, WaitingIsProper, StatusOfRow DEF MaybeStatus, Types
<1>4. Take(LP, e, memory) /\ UNCHANGED listingVars
  BY <1>1 DEF ReadPromotion, LP
<1>5. BusTypes'
  BY <1>2, <1>3, <1>4, TakeKeeps DEF Types, listingVars
<1>6. work'[LM] = work[LM]
  BY <1>2, <1>4, TakeIs, ShapeHolds
<1>7. DataTypes' /\ CallsAreSound' /\ Lasts
  BY <1>4 DEF Types, DataTypes, CallsAreSound, listingVars, moderationVars, Lasts
<1> QED
  BY <1>5, <1>6, <1>7, ListingKeeps DEF moderationVars

PromotionHits ==
  LET w == work[LP] IN w.memory # None /\ Matches(w.event.ad, "active")

(* A promotion that is applied keeps the types.                            *)
LEMMA ApplyPromotionTypes ==
  ASSUME Types, UNCHANGED <<moderationVars, index, reindex>>,
         NEW lost \in BOOLEAN, ApplyPromotion(lost)
  PROVE  Types'
<1> DEFINE w == work[LP]
           row == [ads[w.event.ad] EXCEPT !.top = TRUE, !.ends = w.event.arg]
<1>1. PICK evs : evs = IF PromotionHits THEN {Event("ad.updated", w.event.ad, w.memory)} ELSE {}
  OBVIOUS
<1>2. /\ w # None
      /\ ads' = IF PromotionHits
                THEN [ads EXCEPT ![w.event.ad].top = TRUE, ![w.event.ad].ends = w.event.arg]
                ELSE ads
      /\ Finish(LP, evs, lost)
      /\ AckLost(lost)
      /\ UNCHANGED <<call, swept, now>>
  BY <1>1 DEF ApplyPromotion, PromotionHits, LP
<1>3. LP \in Consumer /\ LM \in Consumer \ {LP} /\ Kept(LP) = MaybeStatus
  BY KeptIs DEF LM, LP
<1>4. /\ ads' \in [Ad -> Row \cup {None, Gone}] /\ Lasts
      /\ \A e \in evs : Fit(e)'
  <2>1. CASE PromotionHits
    <3>1. /\ w.event.ad \in Ad /\ Exists(w.event.ad) /\ ads[w.event.ad] \in Row
          /\ w.memory \in Status /\ w.event.arg \in Nat
      BY <1>2, <1>3, <2>1, HandIsProper, RowIsThere
      DEF PromotionHits, Matches, Types, MaybeStatus, Proper
    <3>2. ads' = [ads EXCEPT ![w.event.ad].top = TRUE, ![w.event.ad].ends = w.event.arg]
      BY <1>2, <2>1
    <3> HIDE DEF w
    <3>3. row \in Row
      BY <3>1 DEF Row
    <3>4. ads' = [ads EXCEPT ![w.event.ad] = row]
      BY <3>1, <3>2 DEF Types, DataTypes, Row
    <3> HIDE DEF row
    <3>5. PICK a \in Ad : a = w.event.ad
      BY <3>1
    <3>6. /\ ads' \in [Ad -> Row \cup {None, Gone}] /\ Lasts /\ ads'[a] # None
      BY <3>1, <3>3, <3>4, <3>5, RowMoves DEF Types
    <3>7. PICK s \in Status : s = w.memory
      BY <3>1
    <3>8. evs = {Event("ad.updated", a, s)}
      BY <1>1, <2>1, <3>5, <3>7
    <3>9. \A e \in evs : Fit(e)'
      BY <3>6, <3>8, EventFits DEF IndexerSubjects
    <3> QED
      BY <3>6, <3>9
  <2>2. CASE ~PromotionHits
    BY <1>1, <1>2, <2>2 DEF Types, DataTypes, Lasts
  <2> QED
    BY <2>1, <2>2
<1> HIDE DEF w, row
<1>5. BusTypes /\ work[LP] # None
  BY <1>2 DEF Types, w
<1>6. BusTypes'
  BY <1>2, <1>3, <1>4, <1>5, FinishKeeps, Zenon
<1>7. work'[LM] = work[LM]
  BY <1>2, <1>3, FinishIs, ShapeHolds
<1>8. budget' \in [Input -> Nat]
  BY <1>2, SpendKeeps DEF AckLost, Types, DataTypes, Input
<1>9. DataTypes' /\ CallsAreSound'
  BY <1>2, <1>4, <1>8 DEF Types, DataTypes, CallsAreSound, moderationVars
<1> QED
  BY <1>4, <1>6, <1>7, <1>9, ListingKeeps DEF moderationVars

(* The sale of a promotion keeps the types.                                *)
LEMMA SellTopTypes ==
  ASSUME Types, UNCHANGED <<moderationVars, index, reindex>>, NEW a \in Ad, SellTop(a)
  PROVE  Types'
<1>1. /\ Spend("promotions")
      /\ Exists(a)
      /\ UNCHANGED <<ads, call, swept, now, work>>
  BY DEF SellTop, Matches
<1>2. PICK end \in (now + 1)..(now + 2) : Publish({Event("promotion.activated", a, end)})
  BY DEF SellTop
<1>3. end \in Nat
  BY DEF Types, DataTypes
<1>4. Event("promotion.activated", a, end) \in Message
  BY <1>3 DEF Event, Message, PromotionSubjects
<1>5. \A e \in {Event("promotion.activated", a, end)} : Fit(e)'
  <2>1. ads'[a] # None
    BY <1>1 DEF Exists
  <2>2. ASSUME NEW e, e = Event("promotion.activated", a, end) PROVE Fit(e)'
    <3>1. e \in Message /\ e.arg = end /\ e.ad = a
      BY <1>4, <2>2 DEF Event
    <3> QED
      BY <1>3, <2>1, <3>1 DEF Fit
  <2> QED
    BY <2>2
<1>6. Lasts
  BY <1>1 DEF Lasts
<1>7. BusTypes'
  BY <1>1, <1>2, <1>5, <1>6, PublishKeeps DEF Types
<1>8. DataTypes' /\ CallsAreSound'
  BY <1>1, SpendKeeps DEF Types, DataTypes, CallsAreSound, Input, moderationVars
<1> QED
  BY <1>1, <1>6, <1>7, <1>8, ListingKeeps DEF moderationVars

(* A sweep and the clock keep the types.                                   *)
LEMMA SweepTypes ==
  ASSUME Types, UNCHANGED <<moderationVars, index, reindex>>, Sweep \/ Tick
  PROVE  Types'
<1>1. UNCHANGED <<ads, call, busVars>>
  BY DEF Sweep, Tick
<1>2. now' \in Nat /\ budget' \in [Input -> Nat]
  BY SpendKeeps DEF Sweep, Tick, Types, DataTypes, Input
<1>3. DataTypes' /\ CallsAreSound' /\ Lasts
  BY <1>1, <1>2 DEF Types, DataTypes, CallsAreSound, moderationVars, Lasts
<1>4. BusTypes'
  BY <1>1, <1>3, StillKeeps DEF Types
<1> QED
  BY <1>1, <1>3, <1>4, ListingKeeps DEF moderationVars, busVars

(* The expiry of an ad keeps the types.                                    *)
LEMMA ExpireTypes ==
  ASSUME Types, UNCHANGED <<moderationVars, index, reindex>>, NEW a \in Ad, Expire(a)
  PROVE  Types'
<1> DEFINE row == [ads[a] EXCEPT !.status = "expired"]
<1>1. UNCHANGED <<call, now, budget, work>>
  BY DEF Expire
<1>2. CASE Exists(a) /\ StillDue(ads[a])
  <2>1. /\ ads[a] \in Row
        /\ ads' = [ads EXCEPT ![a].status = "expired"]
        /\ Publish({Event("ad.expired", a, "expired")})
    BY <1>2, RowIsThere DEF Expire, Types
  <2>2. row \in Row /\ ads' = [ads EXCEPT ![a] = row]
    BY <2>1 DEF Row, Status, Types, DataTypes
  <2> HIDE DEF row
  <2>3. /\ ads' \in [Ad -> Row \cup {None, Gone}] /\ Lasts /\ ads'[a] # None
    BY <1>2, <2>2, RowMoves DEF Types
  <2>4. \A e \in {Event("ad.expired", a, "expired")} : Fit(e)'
    BY <2>3, EventFits DEF IndexerSubjects, Status
  <2>5. BusTypes'
    BY <1>1, <2>1, <2>3, <2>4, PublishKeeps DEF Types
  <2>6. DataTypes' /\ CallsAreSound'
    BY <1>1, <2>3 DEF Types, DataTypes, CallsAreSound, moderationVars
  <2> QED
    BY <1>1, <2>3, <2>5, <2>6, ListingKeeps DEF moderationVars
<1>3. CASE ~(Exists(a) /\ StillDue(ads[a]))
  <2>1. UNCHANGED <<ads, busVars>>
    BY <1>1, <1>3 DEF Expire, busVars
  <2>2. DataTypes' /\ CallsAreSound' /\ Lasts
    BY <1>1, <2>1 DEF Types, DataTypes, CallsAreSound, moderationVars, Lasts
  <2>3. BusTypes'
    BY <2>1, <2>2, StillKeeps DEF Types
  <2> QED
    BY <1>1, <2>2, <2>3, ListingKeeps DEF moderationVars
<1> QED
  BY <1>2, <1>3

(* The end of a promotion keeps the types.                                 *)
LEMMA ClearPromotionTypes ==
  ASSUME Types, UNCHANGED <<moderationVars, index, reindex>>, NEW a \in Ad, ClearPromotion(a)
  PROVE  Types'
<1> DEFINE row == [ads[a] EXCEPT !.top = FALSE, !.ends = Never]
<1>1. UNCHANGED <<call, now, budget, work>>
  BY DEF ClearPromotion
<1>2. CASE Exists(a) /\ StillOver(ads[a])
  <2>1. /\ ads[a] \in Row
        /\ ads' = [ads EXCEPT ![a].top = FALSE, ![a].ends = Never]
        /\ Publish({Event("ad.updated", a, ads[a].status)})
    BY <1>2, RowIsThere DEF ClearPromotion, Types
  <2>2. row \in Row /\ ads' = [ads EXCEPT ![a] = row]
    BY <2>1 DEF Row, Status, Never, Types, DataTypes
  <2> HIDE DEF row
  <2>3. /\ ads' \in [Ad -> Row \cup {None, Gone}] /\ Lasts /\ ads'[a] # None
    BY <1>2, <2>2, RowMoves DEF Types
  <2>4. PICK s \in Status : s = ads[a].status
    BY <2>1 DEF Row
  <2>5. \A e \in {Event("ad.updated", a, s)} : Fit(e)'
    BY <2>3, EventFits DEF IndexerSubjects
  <2>6. BusTypes'
    BY <1>1, <2>1, <2>3, <2>4, <2>5, PublishKeeps DEF Types
  <2>7. DataTypes' /\ CallsAreSound'
    BY <1>1, <2>3 DEF Types, DataTypes, CallsAreSound, moderationVars
  <2> QED
    BY <1>1, <2>3, <2>6, <2>7, ListingKeeps DEF moderationVars
<1>3. CASE ~(Exists(a) /\ StillOver(ads[a]))
  <2>1. UNCHANGED <<ads, busVars>>
    BY <1>1, <1>3 DEF ClearPromotion, busVars
  <2>2. DataTypes' /\ CallsAreSound' /\ Lasts
    BY <1>1, <2>1 DEF Types, DataTypes, CallsAreSound, moderationVars, Lasts
  <2>3. BusTypes'
    BY <2>1, <2>2, StillKeeps DEF Types
  <2> QED
    BY <1>1, <2>2, <2>3, ListingKeeps DEF moderationVars
<1> QED
  BY <1>2, <1>3

(* A restart of Listing keeps the types.                                   *)
LEMMA ListingRestartTypes ==
  ASSUME Types, UNCHANGED <<moderationVars, index, reindex>>, ListingRestart
  PROVE  Types'
<1>1. /\ Spend("crashes")
      /\ call' = [k \in Connection |-> None]
      /\ GiveBack({LM, LP})
      /\ UNCHANGED <<ads, now>>
  BY DEF ListingRestart, LM, LP
<1>2. {LM, LP} \in SUBSET Consumer /\ LM \in Consumer
  BY KeptIs
<1>3. BusTypes'
  BY <1>1, <1>2, GiveBackKeeps DEF Types
<1>4. work'[LM] = None
  BY <1>1, <1>2, GiveBackIs, ShapeHolds
<1>5. DataTypes' /\ CallsAreSound' /\ Lasts
  BY <1>1, SpendKeeps DEF Types, DataTypes, CallsAreSound, Lasts, Input, moderationVars
<1> QED
  BY <1>3, <1>4, <1>5, ListingKeeps DEF moderationVars

-----------------------------------------------------------------------------
(* Types: the steps of Moderation and of Search.                           *)

(* What leaves ads, calls and decisions alone need only keep its own       *)
(* types.                                                                  *)
LEMMA OthersKeep ==
  ASSUME Types, DataTypes', BusTypes', AdsComeFirst',
         UNCHANGED <<ads, call>>, work'[LM] = work[LM]
  PROVE  Types'
BY DEF Types, CallsAreSound, PlanIsKept

(* The automatic check reads the content of an ad that is pending.         *)
LEMMA ReadPendingTypes ==
  ASSUME Types, UNCHANGED searchVars, NEW e \in Waiting(MA), ReadPending(e)
  PROVE  /\ Types'
         /\ work'[MA].event = e
         /\ work'[MA].memory = IF e.arg = "pending" /\ Matches(e.ad, "pending")
                               THEN ads[e.ad].content ELSE None
         /\ work'[MA] # None
<1>1. PICK memory : memory = IF e.arg = "pending" /\ Matches(e.ad, "pending")
                             THEN ads[e.ad].content ELSE None
  OBVIOUS
<1>2. MA \in Consumer /\ LM \in Consumer \ {MA} /\ Kept(MA) = Content \cup {None}
  BY KeptIs DEF LM, MA
<1>3. memory \in Kept(MA) /\ e \in Message
  BY <1>1, <1>2, WaitingIsProper, StatusOfRow DEF Matches, Row, Types
<1>4. Take(MA, e, memory) /\ UNCHANGED <<listingVars, moderationVars>>
  BY <1>1 DEF ReadPending, MA
<1>5. BusTypes'
  BY <1>2, <1>3, <1>4, TakeKeeps DEF Types, listingVars
<1>6. work'[LM] = work[LM] /\ work'[MA] = [event |-> e, memory |-> memory]
  BY <1>2, <1>4, TakeIs, ShapeHolds
<1>7. work'[MA] # None
  BY <1>2, <1>3, <1>6, HandIsThere
<1>8. DataTypes' /\ AdsComeFirst'
  BY <1>4 DEF Types, DataTypes, AdsComeFirst, listingVars, moderationVars, searchVars
<1>9. Types'
  BY <1>4, <1>5, <1>6, <1>8, OthersKeep DEF listingVars
<1> QED
  BY <1>1, <1>6, <1>7, <1>9

(* What the check makes of the ad it has in hand.                          *)
CheckSaves(status) ==
  LET w == work[MA] IN
    /\ w.memory # None
    /\ SaveTask(w.event.ad, w.memory, status)
    /\ checked' = IF status = "approved"
                  THEN [checked EXCEPT ![w.event.ad] = @ \cup {w.memory}] ELSE checked
    /\ Finish(MA, IF status = "approved" THEN {Event("ad.approved", w.event.ad, "")} ELSE {},
              FALSE)

(* The automatic check approves, asks a moderator, or has nothing to do.   *)
LEMMA CheckIs ==
  ASSUME Check
  PROVE  /\ work[MA] # None
         /\ UNCHANGED <<listingVars, open, reports>>
         /\ \/ CheckSaves("approved")
            \/ CheckSaves("manual")
            \/ /\ work[MA].memory = None
               /\ Finish(MA, {}, FALSE)
               /\ UNCHANGED <<tasks, checked, verdicts>>
BY DEF Check, CheckSaves, SaveApprovedTask, SaveManualTask, MA

(* The automatic check keeps the types.                                    *)
LEMMA CheckTypes ==
  ASSUME Types, UNCHANGED searchVars, Check
  PROVE  Types'
<1>1. work[MA] # None /\ UNCHANGED <<listingVars, open, reports>>
  BY CheckIs
<1>2. MA \in Consumer /\ LM \in Consumer \ {MA} /\ Kept(MA) = Content \cup {None}
  BY KeptIs DEF LM, MA
<1>3. PICK a \in Ad : a = work[MA].event.ad
  BY <1>1, <1>2, HandIsProper
<1>4. ads[a] # None /\ work[MA].memory \in Content \cup {None}
  BY <1>1, <1>2, <1>3, HandIsProper
<1>5. Lasts
  BY <1>1 DEF Lasts, listingVars
<1>6. ASSUME NEW status \in {"approved", "manual"}, CheckSaves(status)
      PROVE  Types'
  <2>1. PICK c \in Content : c = work[MA].memory
    BY <1>4, <1>6 DEF CheckSaves
  <2>2. PICK evs : evs = IF status = "approved" THEN {Event("ad.approved", a, "")} ELSE {}
    OBVIOUS
  <2>3. /\ tasks' = [tasks EXCEPT ![a] = [content |-> c, status |-> status]]
        /\ verdicts' = [verdicts EXCEPT ![a] = IF status = "approved" THEN 1 ELSE 0]
        /\ checked' = IF status = "approved"
                      THEN [checked EXCEPT ![a] = @ \cup {c}] ELSE checked
        /\ Finish(MA, evs, FALSE)
    BY <1>3, <1>6, <2>1, <2>2 DEF CheckSaves, SaveTask
  <2>4. [content |-> c, status |-> status] \in Task
    BY DEF Task, TaskStatus
  <2>5. ads'[a] # None
    BY <1>1, <1>4 DEF listingVars
  <2>6. \A e \in evs : Fit(e)'
    BY <2>2, <2>5, EventFits DEF ModerationSubjects
  <2>7. BusTypes
    BY DEF Types
  <2>8. BusTypes'
    BY <1>1, <1>2, <1>5, <2>3, <2>6, <2>7, AckedKeeps, Zenon
  <2>9. work'[LM] = work[LM]
    BY <1>2, <2>3, FinishIs, ShapeHolds
  <2>10. tasks' \in [Ad -> Task \cup {None}] /\ \A b \in Ad \ {a} : tasks'[b] = tasks[b]
    BY <2>3, <2>4 DEF Types, DataTypes
  <2>11. verdicts' \in [Ad -> Nat] /\ checked' \in [Ad -> SUBSET Content]
    BY <2>3 DEF Types, DataTypes
  <2>12. DataTypes'
    BY <1>1, <2>10, <2>11 DEF Types, DataTypes, listingVars, searchVars
  <2>13. AdsComeFirst'
    BY <1>1, <1>4, <2>10 DEF Types, AdsComeFirst, listingVars
  <2> QED
    BY <1>1, <2>8, <2>9, <2>12, <2>13, OthersKeep DEF listingVars
<1>7. CASE /\ work[MA].memory = None
           /\ Finish(MA, {}, FALSE)
           /\ UNCHANGED <<tasks, checked, verdicts>>
  <2>1. PICK evs : evs = {}
    OBVIOUS
  <2>2. Finish(MA, evs, FALSE) /\ \A e \in evs : Fit(e)'
    BY <1>7, <2>1
  <2>3. BusTypes
    BY DEF Types
  <2>4. BusTypes'
    BY <1>1, <1>2, <1>5, <2>2, <2>3, AckedKeeps, Zenon
  <2>5. work'[LM] = work[LM]
    BY <1>2, <2>2, FinishIs, ShapeHolds
  <2>6. DataTypes' /\ AdsComeFirst'
    BY <1>1, <1>7 DEF Types, DataTypes, AdsComeFirst, listingVars, searchVars
  <2> QED
    BY <1>1, <2>4, <2>5, <2>6, OthersKeep DEF listingVars
<1> QED
  BY <1>6, <1>7, CheckIs

(* A task that is opened keeps the types.                                  *)
LEMMA OpenTaskTypes ==
  ASSUME Types, UNCHANGED searchVars, NEW m \in Moderator, NEW a \in Ad, OpenTask(m, a)
  PROVE  Types'
<1>1. /\ IsManual(a)
      /\ Spend("reviews")
      /\ open' = [open EXCEPT ![m] = [ad |-> a, content |-> tasks[a].content]]
      /\ UNCHANGED <<ads, call, swept, now, tasks, reports, checked, verdicts, busVars>>
  BY DEF OpenTask
<1>2. tasks[a] \in Task /\ ads[a] # None
  BY <1>1 DEF IsManual, Types, DataTypes, AdsComeFirst
<1>3. [ad |-> a, content |-> tasks[a].content] \in Screen
  BY <1>2 DEF Task, Screen
<1>4. DataTypes'
  BY <1>1, <1>3, SpendKeeps DEF Types, DataTypes, Input, searchVars
<1>5. AdsComeFirst'
  BY <1>1, <1>2 DEF Types, DataTypes, AdsComeFirst
<1>6. BusTypes'
  BY <1>1, StillKeeps DEF Types, Lasts
<1> QED
  BY <1>1, <1>4, <1>5, <1>6, OthersKeep DEF busVars

(* A verdict keeps the types.                                              *)
LEMMA DecideTypes ==
  ASSUME Types, UNCHANGED searchVars,
         NEW m \in Moderator, NEW s \in TaskStatus \ {"manual"}, Decide(m, s)
  PROVE  Types'
<1>1. /\ open[m] # None
      /\ open' = [open EXCEPT ![m] = None]
      /\ UNCHANGED <<listingVars, reports, work>>
  BY DEF Decide
<1>2. PICK a \in Ad : a = open[m].ad
  BY <1>1 DEF Types, DataTypes, Screen
<1>3. open[m].content \in Content
  BY <1>1 DEF Types, DataTypes, Screen
<1>4. CASE IsManual(a)
  <2>1. /\ tasks' = [tasks EXCEPT ![a].status = s]
        /\ verdicts' = [verdicts EXCEPT ![a] = @ + 1]
        /\ checked' = IF s = "approved"
                      THEN [checked EXCEPT ![a] = @ \cup {open[m].content}]
                      ELSE checked
        /\ Publish({Event(VerdictSubject(s), a, s)})
    BY <1>2, <1>4 DEF Decide
  <2>2. tasks[a] \in Task /\ ads[a] # None
    BY <1>4 DEF IsManual, Types, DataTypes, AdsComeFirst
  <2>3. /\ tasks' \in [Ad -> Task \cup {None}]
        /\ \A b \in Ad : tasks'[b] # None => tasks[b] # None
    <3>1. [tasks[a] EXCEPT !.status = s] \in Task
      BY <2>2 DEF Task
    <3>2. tasks' = [tasks EXCEPT ![a] = [tasks[a] EXCEPT !.status = s]]
      BY <2>1, <2>2 DEF Types, DataTypes
    <3> HIDE <2>1
    <3> QED
      BY <2>2, <3>1, <3>2, PipelineAssumption DEF Types, DataTypes
  <2>4. verdicts' \in [Ad -> Nat] /\ checked' \in [Ad -> SUBSET Content]
    BY <1>3, <2>1 DEF Types, DataTypes
  <2>5. DataTypes'
    BY <1>1, <2>3, <2>4 DEF Types, DataTypes, listingVars, searchVars
  <2>6. AdsComeFirst'
    BY <1>1, <2>3 DEF Types, DataTypes, AdsComeFirst, listingVars
  <2>7. PICK subject \in ModerationSubjects : subject = VerdictSubject(s)
    BY DEF VerdictSubject, ModerationSubjects
  <2>8. ads'[a] # None
    BY <1>1, <2>2 DEF listingVars
  <2>9. \A e \in {Event(subject, a, s)} : Fit(e)'
    BY <2>8, EventFits
  <2>10. BusTypes'
    BY <1>1, <2>1, <2>7, <2>9, PublishKeeps DEF Types, Lasts, listingVars
  <2> QED
    BY <1>1, <2>5, <2>6, <2>10, OthersKeep DEF listingVars
<1>5. CASE ~IsManual(a)
  <2>1. UNCHANGED <<tasks, verdicts, checked, queue>>
    BY <1>2, <1>5 DEF Decide
  <2>2. DataTypes' /\ AdsComeFirst'
    BY <1>1, <2>1 DEF Types, DataTypes, AdsComeFirst, listingVars, searchVars
  <2>3. BusTypes'
    BY <1>1, <2>1, StillKeeps DEF Types, Lasts, busVars, listingVars
  <2> QED
    BY <1>1, <2>2, <2>3, OthersKeep DEF listingVars
<1> QED
  BY <1>4, <1>5

(* A report keeps the types.                                               *)
LEMMA CreateReportTypes ==
  ASSUME Types, UNCHANGED searchVars, NEW r \in Report, CreateReport(r)
  PROVE  Types'
<1>1. /\ Spend("reports")
      /\ reports' = [reports EXCEPT ![r] = [status |-> "open", resolution |-> ""]]
      /\ UNCHANGED <<ads, call, swept, now, tasks, open, checked, verdicts, busVars>>
  BY DEF CreateReport
<1>2. DataTypes' /\ AdsComeFirst'
  BY <1>1, SpendKeeps DEF Types, DataTypes, AdsComeFirst, ReportRow, Input, searchVars
<1>3. BusTypes'
  BY <1>1, StillKeeps DEF Types, Lasts
<1> QED
  BY <1>1, <1>2, <1>3, OthersKeep DEF busVars

(* The end of a report keeps the types.                                    *)
LEMMA ResolveReportTypes ==
  ASSUME Types, UNCHANGED searchVars, NEW r \in Report, NEW x \in Action, ResolveReport(r, x)
  PROVE  Types'
<1>1. /\ reports' = [reports EXCEPT ![r] = [status |-> ResolvedStatus(x), resolution |-> x]]
      /\ Publish(TakedownEvents(r, x))
      /\ UNCHANGED <<listingVars, tasks, open, checked, verdicts, work>>
  BY DEF ResolveReport
<1>2. DataTypes' /\ AdsComeFirst'
  BY <1>1
  DEF Types, DataTypes, AdsComeFirst, ReportRow, ResolvedStatus, listingVars, searchVars
<1>3. \A e \in TakedownEvents(r, x) : Fit(e)'
  <2>1. CASE TakedownEvents(r, x) = {}
    BY <2>1
  <2>2. CASE /\ Target[r].type = "ad" /\ Exists(Target[r].id)
             /\ TakedownEvents(r, x) = {Event("ad.blocked", Target[r].id, "")}
    <3>1. PICK a \in Ad : a = Target[r].id
      BY <2>2, PipelineAssumption
    <3>2. ads'[a] # None
      BY <1>1, <2>2, <3>1 DEF Exists, listingVars
    <3> QED
      BY <2>2, <3>1, <3>2, EventFits DEF ModerationSubjects
  <2> QED
    BY <2>1, <2>2 DEF TakedownEvents
<1>4. BusTypes'
  BY <1>1, <1>3, PublishKeeps DEF Types, Lasts, listingVars
<1> QED
  BY <1>1, <1>2, <1>4, OthersKeep DEF listingVars

(* A restart of Moderation keeps the types.                                *)
LEMMA ModerationRestartTypes ==
  ASSUME Types, UNCHANGED searchVars, ModerationRestart
  PROVE  Types'
<1>1. /\ Spend("crashes")
      /\ GiveBack({MA})
      /\ UNCHANGED <<ads, call, swept, now, moderationVars>>
  BY DEF ModerationRestart, MA
<1>2. {MA} \in SUBSET Consumer /\ LM \in Consumer /\ LM \notin {MA}
  BY KeptIs DEF LM, MA
<1>3. BusTypes'
  BY <1>1, <1>2, GiveBackKeeps DEF Types
<1>4. work'[LM] = work[LM]
  BY <1>1, <1>2, GiveBackIs, ShapeHolds
<1>5. DataTypes' /\ AdsComeFirst'
  BY <1>1, SpendKeeps DEF Types, DataTypes, AdsComeFirst, Input, moderationVars, searchVars
<1> QED
  BY <1>1, <1>3, <1>4, <1>5, OthersKeep

(* What the index should hold of an ad is a document or nothing.           *)
LEMMA ProjectionIs ==
  ASSUME DataTypes, NEW a \in Ad
  PROVE  Projection(a) \in Doc \cup {None}
<1>1. CASE Exists(a) /\ ads[a].status = "active"
  <2>1. ads[a] \in Row
    BY <1>1, RowIsThere
  <2> QED
    BY <1>1, <2>1 DEF Projection, BuildDoc, Doc, Row
<1>2. CASE ~(Exists(a) /\ ads[a].status = "active")
  BY <1>2 DEF Projection
<1> QED
  BY <1>1, <1>2

(* The indexer has what the index should hold of the ad.                   *)
LEMMA ReadAdTypes ==
  ASSUME Types, NEW e \in Waiting(SI), ReadAd(e)
  PROVE  /\ Types'
         /\ work'[SI] # None
         /\ work'[SI].event = e
         /\ work'[SI].memory = Projection(e.ad)
<1>1. PICK memory : memory = Projection(e.ad)
  OBVIOUS
<1>2. SI \in Consumer /\ LM \in Consumer \ {SI} /\ Kept(SI) = Doc \cup {None}
  BY KeptIs DEF LM, SI
<1>3. memory \in Kept(SI) /\ e \in Message
  BY <1>1, <1>2, WaitingIsProper, ProjectionIs DEF Types
<1>4. Take(SI, e, memory) /\ UNCHANGED <<listingVars, moderationVars, searchVars>>
  BY <1>1 DEF ReadAd, SI
<1>5. BusTypes'
  BY <1>2, <1>3, <1>4, TakeKeeps DEF Types, listingVars
<1>6. work'[LM] = work[LM] /\ work'[SI] = [event |-> e, memory |-> memory]
  BY <1>2, <1>4, TakeIs, ShapeHolds
<1>7. work'[SI] # None
  BY <1>2, <1>3, <1>6, HandIsThere
<1>8. DataTypes' /\ AdsComeFirst'
  BY <1>4 DEF Types, DataTypes, AdsComeFirst, listingVars, moderationVars, searchVars
<1>9. Types'
  BY <1>4, <1>5, <1>6, <1>8, OthersKeep DEF listingVars
<1> QED
  BY <1>1, <1>6, <1>7, <1>9

(* A document that is written keeps the types.                             *)
LEMMA SyncTypes ==
  ASSUME Types, NEW lost \in BOOLEAN, Sync(lost)
  PROVE  Types'
<1>1. PICK evs : evs = {}
  OBVIOUS
<1>2. /\ work[SI] # None
      /\ index' = [index EXCEPT ![work[SI].event.ad] = work[SI].memory]
      /\ Finish(SI, evs, lost) /\ \A e \in evs : Fit(e)'
      /\ AckLost(lost)
      /\ UNCHANGED <<ads, call, swept, now, moderationVars, reindex, overlap>>
  BY <1>1 DEF Sync, SI
<1>3. SI \in Consumer /\ LM \in Consumer \ {SI} /\ Kept(SI) = Doc \cup {None}
  BY KeptIs DEF LM, SI
<1>4. BusTypes /\ Lasts
  BY <1>2 DEF Types, Lasts
<1>5. BusTypes'
  BY <1>2, <1>3, <1>4, FinishKeeps, Zenon
<1>6. work'[LM] = work[LM]
  BY <1>2, <1>3, FinishIs, ShapeHolds
<1>7. work[SI].memory \in Doc \cup {None}
  BY <1>2, <1>3, HandIsProper
<1>8. budget' \in [Input -> Nat]
  BY <1>2, SpendKeeps DEF AckLost, Types, DataTypes, Input
<1>9. DataTypes' /\ AdsComeFirst'
  BY <1>2, <1>7, <1>8 DEF Types, DataTypes, AdsComeFirst, moderationVars
<1> QED
  BY <1>2, <1>5, <1>6, <1>9, OthersKeep

(* The reindex tool holds documents of ads.                                *)
LEMMA BeginReindexTypes ==
  ASSUME Types, BeginReindex
  PROVE  Types'
<1>1. /\ Spend("reindexes")
      /\ reindex' = {<<a, Projection(a)>> : a \in {b \in Ad : Projection(b) # None}}
      /\ UNCHANGED <<ads, call, swept, now, moderationVars, index, overlap, busVars>>
  BY DEF BeginReindex
<1>2. \A a \in Ad : Projection(a) # None => Projection(a) \in Doc
  BY ProjectionIs DEF Types
<1>3. reindex' \subseteq Ad \X Doc
  BY <1>1, <1>2
<1>4. DataTypes' /\ AdsComeFirst'
  BY <1>1, <1>3, SpendKeeps DEF Types, DataTypes, AdsComeFirst, Input, moderationVars
<1>5. BusTypes'
  BY <1>1, StillKeeps DEF Types, Lasts
<1> QED
  BY <1>1, <1>4, <1>5, OthersKeep DEF busVars

(* A copy that is written keeps the types.                                 *)
LEMMA ReindexTypes ==
  ASSUME Types, reindex # None, NEW p \in reindex, Reindex(p)
  PROVE  Types'
<1>1. /\ index' = [index EXCEPT ![p[1]] = p[2]]
      /\ reindex' = IF reindex = {p} THEN None ELSE reindex \ {p}
      /\ UNCHANGED <<listingVars, moderationVars, overlap, busVars>>
  BY DEF Reindex
<1>2. p \in Ad \X Doc
  BY DEF Types, DataTypes
<1>3. DataTypes' /\ AdsComeFirst'
  BY <1>1, <1>2 DEF Types, DataTypes, AdsComeFirst, listingVars, moderationVars
<1>4. BusTypes'
  BY <1>1, StillKeeps DEF Types, Lasts, listingVars
<1> QED
  BY <1>1, <1>3, <1>4, OthersKeep DEF busVars, listingVars

(* A restart of Search keeps the types.                                    *)
LEMMA SearchRestartTypes ==
  ASSUME Types, SearchRestart
  PROVE  Types'
<1>1. /\ Spend("crashes")
      /\ GiveBack({SI})
      /\ UNCHANGED <<ads, call, swept, now, moderationVars, searchVars>>
  BY DEF SearchRestart, SI
<1>2. {SI} \in SUBSET Consumer /\ LM \in Consumer /\ LM \notin {SI}
  BY KeptIs DEF LM, SI
<1>3. BusTypes'
  BY <1>1, <1>2, GiveBackKeeps DEF Types
<1>4. work'[LM] = work[LM]
  BY <1>1, <1>2, GiveBackIs, ShapeHolds
<1>5. DataTypes' /\ AdsComeFirst'
  BY <1>1, SpendKeeps DEF Types, DataTypes, AdsComeFirst, Input, moderationVars, searchVars
<1> QED
  BY <1>1, <1>3, <1>4, <1>5, OthersKeep

-----------------------------------------------------------------------------
(* The steps, one by one.                                                  *)

(* The steps of Listing.                                                   *)
LEMMA ListingSteps ==
  ASSUME ListingStep
  PROVE  /\ UNCHANGED <<moderationVars, index, reindex>> /\ NoteOverlap
         /\ \/ \E a \in Ad : Create(a) \/ Bump(a) \/ Expire(a) \/ ClearPromotion(a) \/ SellTop(a)
            \/ \E k \in Connection, a \in Ad :
                 \/ BeginEdit(k, a) \/ BeginSubmit(k, a) \/ BeginSold(k, a)
                 \/ BeginArchive(k, a) \/ BeginRenew(k, a) \/ BeginDelete(k, a)
            \/ \E k \in Connection :
                 CommitEdit(k) \/ CommitTransition(k) \/ CommitDelete(k) \/ Refuse(k)
            \/ \E e \in Waiting(LM) : ReadDecision(e)
            \/ \E e \in Waiting(LP) : ReadPromotion(e)
            \/ ApplyDecision
            \/ \E l \in BOOLEAN : ApplyPromotion(l)
            \/ Sweep \/ Tick \/ ListingRestart
BY DEF ListingStep, OwnerStep, CallStep, ListingConsumer, Sweeper, LM, LP

(* The steps of Moderation.                                                *)
LEMMA ModerationSteps ==
  ASSUME ModerationStep
  PROVE  /\ UNCHANGED searchVars
         /\ \/ \E e \in Waiting(MA) : ReadPending(e)
            \/ Check
            \/ ModerationRestart
            \/ \E m \in Moderator, a \in Ad : OpenTask(m, a)
            \/ \E m \in Moderator, s \in TaskStatus \ {"manual"} : Decide(m, s)
            \/ \E r \in Report : CreateReport(r)
            \/ \E r \in Report, x \in Action : ResolveReport(r, x)
BY DEF ModerationStep, ModerationConsumer, MA

(* The steps of Search.                                                    *)
LEMMA SearchSteps ==
  ASSUME SearchStep
  PROVE  \/ \E e \in Waiting(SI) : ReadAd(e)
         \/ \E l \in BOOLEAN : Sync(l)
         \/ BeginReindex
         \/ reindex # None /\ \E p \in reindex : Reindex(p)
         \/ SearchRestart
BY DEF SearchStep, Indexer, ReindexTool, SI

(* Every step keeps the types.                                             *)
LEMMA TypesStep ==
  ASSUME Types, Next
  PROVE  Types'
<1>1. CASE ListingStep
  BY <1>1, ListingSteps, CreateTypes, BumpTypes, BeginsTypes, CommitEditTypes,
     CommitTransitionTypes, CommitDeleteTypes, RefuseTypes, ReadDecisionTypes,
     ApplyDecisionTypes, ReadPromotionTypes, ApplyPromotionTypes, SellTopTypes, SweepTypes,
     ExpireTypes, ClearPromotionTypes, ListingRestartTypes
<1>2. CASE ModerationStep
  BY <1>2, ModerationSteps, ReadPendingTypes, CheckTypes, OpenTaskTypes, DecideTypes,
     CreateReportTypes, ResolveReportTypes, ModerationRestartTypes
<1>3. CASE SearchStep
  BY <1>3, SearchSteps, ReadAdTypes, SyncTypes, BeginReindexTypes, ReindexTypes,
     SearchRestartTypes
<1> QED
  BY <1>1, <1>2, <1>3 DEF Next

-----------------------------------------------------------------------------
(* What a step of Listing does to an ad.                                   *)

Announced(a) == Event("", a, "") \in Waiting(SI)'

Coming(a) == \E e \in Waiting(MA)' : e.ad = a /\ e.arg = "pending"

(* An edit that has read an earlier row writes it.                         *)
EditEnds(a) ==
  \E k \in Connection :
    /\ call[k] # None /\ call[k].op = "edits" /\ call[k].ad = a
    /\ call'[k] = None
    /\ ads'[a].content = call[k].row.content
    /\ ads'[a].status = call[k].row.status
    /\ call[k].row.status \in {"draft", "pending", "rejected", "active"}
    /\ call[k].row.status = "pending" => Coming(a)

(* A decision finds the status that it has read.                           *)
DecisionEnds(a) ==
  LET w == work[LM] IN
    /\ w # None /\ w.event.ad = a /\ w.memory.to # None
    /\ work'[LM] = None
    /\ ads[a].status = w.memory.from
    /\ ads'[a].status = w.memory.to

StatusMoves(a) ==
  \/ ads'[a].status = ads[a].status
  \/ /\ ads[a].status # "blocked"
     /\ \/ ads'[a].status = "pending" /\ Coming(a)
        \/ ads'[a].status \in {"sold", "archived"}
        \/ ads'[a].status = "active" /\ ads[a].status \in {"active", "expired"}
        \/ ads'[a].status = "expired" /\ Due(ads[a])
  \/ DecisionEnds(a)

TopMoves(a) ==
  \/ ads'[a].top = ads[a].top /\ ads'[a].ends = ads[a].ends
  \/ PromoOver(ads[a])
  \/ /\ work[LP] # None /\ work'[LP] = None
     /\ ads'[a].ends = work[LP].event.arg
     /\ ads'[a].top

RowStep(a) ==
  \/ ads'[a] = ads[a]
  \/ /\ Announced(a)
     /\ \/ ads[a] = None /\ ads'[a] \in Row /\ ads'[a].status = "draft"
        \/ ads[a] \in Row /\ ads'[a] = Gone
        \/ /\ ads[a] \in Row /\ ads'[a] \in Row
           /\ TopMoves(a)
           /\ \/ EditEnds(a)
              \/ ads'[a].content = ads[a].content /\ StatusMoves(a)

(* Listing takes nothing from the others, ...                              *)
OthersWait ==
  /\ work'[MA] = work[MA] /\ work'[SI] = work[SI]
  /\ Waiting(MA) \subseteq Waiting(MA)'
  /\ Waiting(SI) \subseteq Waiting(SI)'

(* ... and gives them no verdicts.                                         *)
DecisionsWait == work'[LM] = work[LM] /\ Waiting(LM)' = Waiting(LM)

(* An edit that begins keeps an ad active only if it keeps the content.    *)
EditsBegin ==
  \A k \in Connection :
    \/ call'[k] \in {None, call[k]}
    \/ /\ call'[k].op = "edits" /\ call'[k].row.status = "active"
       => /\ Exists(call'[k].ad)
          /\ ads[call'[k].ad].status = "active"
          /\ ads[call'[k].ad].content = call'[k].row.content

RowSteps == \A a \in Ad : RowStep(a)

(* Who sees an event of Listing.                                           *)
LEMMA SeenOne ==
  ASSUME NEW subject, NEW a, NEW arg
  PROVE  /\ subject \in IndexerSubjects => Event("", a, "") \in Seen(SI, {Event(subject, a, arg)})
         /\ subject \in AutoSubjects => Event(subject, a, arg) \in Seen(MA, {Event(subject, a, arg)})
         /\ subject \notin ModerationSubjects => Seen(LM, {Event(subject, a, arg)}) = {}
         /\ Seen(LM, {}) = {}
<1>1. Subscribed(SI) = IndexerSubjects /\ Subscribed(MA) = AutoSubjects
        /\ Subscribed(LM) = ModerationSubjects
  BY DEF Subscribed, SI, MA, LM
<1>2. SeenBy(SI, Event(subject, a, arg)) = Event("", a, "")
  BY DEF SeenBy, SI, Event
<1>3. SeenBy(MA, Event(subject, a, arg)) = Event(subject, a, arg)
  BY DEF SeenBy, MA
<1>4. Event(subject, a, arg).subject = subject
  BY DEF Event
<1> QED
  BY <1>1, <1>2, <1>3, <1>4 DEF Seen

(* What Listing publishes of an ad announces it.                           *)
LEMMA ListingPublishes ==
  ASSUME Types, NEW a \in Ad, NEW subject \in IndexerSubjects \ {"ad.approved"}, NEW arg,
         Publish({Event(subject, a, arg)}), work' = work
  PROVE  /\ OthersWait /\ DecisionsWait /\ Announced(a)
         /\ subject \in AutoSubjects /\ arg = "pending" => Coming(a)
<1>1. \A c \in Consumer : Waiting(c)' = Waiting(c) \cup Seen(c, {Event(subject, a, arg)})
  BY PublishIs, ShapeHolds
<1>2. subject \notin ModerationSubjects
  BY DEF IndexerSubjects, ModerationSubjects
<1>3. OthersWait /\ DecisionsWait
  BY <1>1, <1>2, SeenOne, KeptIs DEF OthersWait, DecisionsWait
<1>4. Announced(a)
  BY <1>1, SeenOne, KeptIs DEF Announced
<1>5. ASSUME subject \in AutoSubjects, arg = "pending" PROVE Coming(a)
  <2>1. Event(subject, a, arg) \in Waiting(MA)'
    BY <1>1, <1>5, SeenOne, KeptIs
  <2> QED
    BY <1>5, <2>1 DEF Coming, Event
<1> QED
  BY <1>3, <1>4, <1>5

(* What leaves the bus alone takes nothing from anybody.                   *)
LEMMA StillWaits ==
  ASSUME UNCHANGED busVars
  PROVE  OthersWait /\ DecisionsWait
BY DEF busVars, OthersWait, DecisionsWait, Waiting

(* What the creation of an ad does to the row.                             *)
LEMMA CreateIs ==
  ASSUME Types, NEW a \in Ad, Create(a)
  PROVE  OthersWait /\ DecisionsWait /\ RowSteps /\ EditsBegin
<1>1. PICK c \in Content :
        ads' = [ads EXCEPT ![a] = [status |-> "draft", content |-> c,
                                   expires |-> Never, bumped |-> Never,
                                   top |-> FALSE, ends |-> Never]]
  BY DEF Create
<1>2. /\ ads[a] = None
      /\ Publish({Event("ad.created", a, "draft")})
      /\ UNCHANGED <<call, swept, now, work>>
  BY DEF Create
<1>3. ads'[a] \in Row /\ ads'[a].status = "draft" /\ \A b \in Ad \ {a} : ads'[b] = ads[b]
  BY <1>1 DEF Types, DataTypes, Row, Status, Never
<1>4. OthersWait /\ DecisionsWait /\ Announced(a)
  BY <1>2, ListingPublishes DEF IndexerSubjects
<1> QED
  BY <1>2, <1>3, <1>4 DEF RowSteps, RowStep, EditsBegin

(* What raising an ad does to the row.                                     *)
LEMMA BumpIs ==
  ASSUME Types, NEW a \in Ad, Bump(a)
  PROVE  OthersWait /\ DecisionsWait /\ RowSteps /\ EditsBegin
<1>1. /\ ads[a] \in Row
      /\ ads' = [ads EXCEPT ![a].bumped = now]
      /\ Publish({Event("ad.bumped", a, "active")})
      /\ UNCHANGED <<call, swept, now, work>>
  BY RowIsThere DEF Bump, Matches, Types
<1>2. /\ ads'[a] \in Row /\ ads'[a].content = ads[a].content
      /\ ads'[a].status = ads[a].status /\ ads'[a].top = ads[a].top
      /\ ads'[a].ends = ads[a].ends
      /\ \A b \in Ad \ {a} : ads'[b] = ads[b]
  BY <1>1 DEF Types, DataTypes, Row
<1>3. OthersWait /\ DecisionsWait /\ Announced(a)
  BY <1>1, ListingPublishes DEF IndexerSubjects
<1> QED
  BY <1>1, <1>2, <1>3 DEF RowSteps, RowStep, TopMoves, StatusMoves, EditsBegin

(* A call that begins only reads the row.                                  *)
LEMMA BeginsIs ==
  ASSUME Types, NEW k \in Connection, NEW a \in Ad,
         \/ BeginEdit(k, a) \/ BeginSubmit(k, a) \/ BeginSold(k, a)
         \/ BeginArchive(k, a) \/ BeginRenew(k, a) \/ BeginDelete(k, a)
  PROVE  OthersWait /\ DecisionsWait /\ RowSteps /\ EditsBegin
<1>1. Exists(a) /\ ads[a] \in Row
  <2>1. Exists(a)
    BY DEF BeginEdit, BeginSubmit, BeginSold, BeginArchive, BeginRenew, BeginDelete, Begin
  <2> QED
    BY <2>1, RowIsThere DEF Types
<1>2. UNCHANGED <<ads, busVars>>
  BY DEF BeginEdit, BeginSubmit, BeginSold, BeginArchive, BeginRenew, BeginDelete, Begin
<1>3. ASSUME NEW op, NEW row, Begin(k, op, a, row),
             op = "edits" /\ row.status = "active" =>
               ads[a].status = "active" /\ ads[a].content = row.content
      PROVE  EditsBegin
  <2>1. call' = [call EXCEPT ![k] = [op |-> op, ad |-> a, read |-> ads[a], row |-> row]]
    BY <1>3 DEF Begin
  <2>2. /\ call'[k] = [op |-> op, ad |-> a, read |-> ads[a], row |-> row]
        /\ \A j \in Connection \ {k} : call'[j] = call[j]
    BY <2>1 DEF Types, DataTypes
  <2> QED
    BY <1>1, <1>3, <2>2 DEF EditsBegin
<1>4. CASE BeginEdit(k, a)
  <2>1. PICK c \in Content : Begin(k, "edits", a, Edited(ads[a], c))
    BY <1>4 DEF BeginEdit
  <2>2. Edited(ads[a], c).status = "active" =>
          ads[a].status = "active" /\ ads[a].content = Edited(ads[a], c).content
    BY <1>1 DEF Edited, Row
  <2> QED
    BY <1>2, <1>3, <2>1, <2>2, StillWaits DEF RowSteps, RowStep
<1>5. CASE \/ BeginSubmit(k, a) \/ BeginSold(k, a)
           \/ BeginArchive(k, a) \/ BeginRenew(k, a) \/ BeginDelete(k, a)
  <2>1. EditsBegin
    BY <1>3, <1>5 DEF BeginSubmit, BeginSold, BeginArchive, BeginRenew, BeginDelete
  <2> QED
    BY <1>2, <2>1, StillWaits DEF RowSteps, RowStep
<1> QED
  BY <1>4, <1>5

(* What an edit does to the row.                                           *)
LEMMA CommitEditIs ==
  ASSUME Types, NEW k \in Connection, CommitEdit(k)
  PROVE  OthersWait /\ DecisionsWait /\ RowSteps /\ EditsBegin
<1> DEFINE w == call[k]
<1>1. /\ w # None /\ w.op = "edits" /\ Exists(w.ad)
      /\ ads' = [ads EXCEPT ![w.ad].content = w.row.content, ![w.ad].status = w.row.status]
      /\ Publish({Event("ad.updated", w.ad, w.row.status)})
      /\ call' = [call EXCEPT ![k] = None]
      /\ UNCHANGED <<swept, now, budget, work>>
  BY DEF CommitEdit, Answered
<1>2. /\ w.ad \in Ad /\ w.row \in Row /\ ads[w.ad] \in Row
      /\ w.row.status \in {"draft", "pending", "rejected", "active"}
  BY <1>1, CallIsThere, RowIsThere DEF CallIsSound, Types
<1>3. PICK a \in Ad : a = w.ad
  BY <1>2
<1>4. /\ ads'[a] \in Row /\ ads'[a].content = w.row.content
      /\ ads'[a].status = w.row.status /\ ads'[a].top = ads[a].top
      /\ ads'[a].ends = ads[a].ends
      /\ \A b \in Ad \ {a} : ads'[b] = ads[b]
  BY <1>1, <1>2, <1>3 DEF Types, DataTypes, Row
<1>5. /\ OthersWait /\ DecisionsWait /\ Announced(a)
      /\ w.row.status = "pending" => Coming(a)
  BY <1>1, <1>3, ListingPublishes DEF IndexerSubjects, AutoSubjects
<1>6. call'[k] = None /\ \A j \in Connection : call'[j] \in {None, call[j]}
  BY <1>1 DEF Types, DataTypes
<1>7. EditEnds(a)
  BY <1>1, <1>2, <1>3, <1>4, <1>5, <1>6 DEF EditEnds
<1>8. RowStep(a)
  BY <1>2, <1>3, <1>4, <1>5, <1>7 DEF RowStep, TopMoves
<1> QED
  BY <1>4, <1>5, <1>6, <1>8 DEF RowSteps, RowStep, EditsBegin

(* What a call of the owner does to the status.                            *)
LEMMA CommitTransitionIs ==
  ASSUME Types, NEW k \in Connection, CommitTransition(k)
  PROVE  OthersWait /\ DecisionsWait /\ RowSteps /\ EditsBegin
<1> DEFINE w == call[k]
           until == IF w.op = "renewals" THEN w.row.expires ELSE Never
<1>1. /\ w # None /\ w.op \notin {"edits", "deletes"}
      /\ Matches(w.ad, w.read.status)
      /\ ads' = Transitioned(w.ad, w.row.status, until)
      /\ Publish({Event(TransitionSubject(w.row.status), w.ad, w.row.status)})
      /\ call' = [call EXCEPT ![k] = None]
      /\ UNCHANGED <<swept, now, budget, work>>
  BY DEF CommitTransition, Answered
<1>2. /\ w.ad \in Ad /\ ads[w.ad] \in Row /\ ads[w.ad].status = w.read.status
      /\ w.row \in Row /\ until \in Nat
      /\ w.read.status # "blocked"
      /\ w.row.status \in {"pending", "sold", "archived", "active"}
      /\ w.row.status = "active" => w.read.status \in {"active", "expired"}
  BY <1>1, CallIsThere, RowIsThere DEF CallIsSound, Call, Types, Row, Matches, Never
<1> HIDE DEF until
<1>3. PICK a \in Ad : a = w.ad
  BY <1>2
<1>4. /\ ads'[a] \in Row /\ ads'[a].content = ads[a].content
      /\ ads'[a].status = w.row.status /\ ads'[a].top = ads[a].top
      /\ ads'[a].ends = ads[a].ends
      /\ \A b \in Ad \ {a} : ads'[b] = ads[b]
  BY <1>1, <1>2, <1>3 DEF Types, DataTypes, Row, Transitioned
<1>5. PICK subject \in {"ad.sold", "ad.updated"} :
        /\ subject = TransitionSubject(w.row.status)
        /\ w.row.status = "pending" => subject = "ad.updated"
  BY DEF TransitionSubject
<1>6. /\ OthersWait /\ DecisionsWait /\ Announced(a)
      /\ w.row.status = "pending" => Coming(a)
  BY <1>1, <1>3, <1>5, ListingPublishes DEF IndexerSubjects, AutoSubjects
<1>7. call'[k] = None /\ \A j \in Connection : call'[j] \in {None, call[j]}
  BY <1>1 DEF Types, DataTypes
<1>8. StatusMoves(a)
  BY <1>2, <1>3, <1>4, <1>6 DEF StatusMoves
<1>9. RowStep(a)
  BY <1>2, <1>3, <1>4, <1>6, <1>8 DEF RowStep, TopMoves
<1> QED
  BY <1>4, <1>6, <1>7, <1>9 DEF RowSteps, RowStep, EditsBegin

(* What the removal of an ad does to the row.                              *)
LEMMA CommitDeleteIs ==
  ASSUME Types, NEW k \in Connection, CommitDelete(k)
  PROVE  OthersWait /\ DecisionsWait /\ RowSteps /\ EditsBegin
<1> DEFINE w == call[k]
<1>1. /\ w # None /\ Exists(w.ad)
      /\ ads' = [ads EXCEPT ![w.ad] = Gone]
      /\ Publish({Event("ad.deleted", w.ad, w.read.status)})
      /\ call' = [call EXCEPT ![k] = None]
      /\ UNCHANGED <<swept, now, budget, work>>
  BY DEF CommitDelete, Answered
<1>2. PICK a \in Ad : a = w.ad
  BY <1>1, CallIsThere
<1>3. ads[a] \in Row /\ ads'[a] = Gone /\ \A b \in Ad \ {a} : ads'[b] = ads[b]
  BY <1>1, <1>2, RowIsThere DEF Types, DataTypes
<1>4. OthersWait /\ DecisionsWait /\ Announced(a)
  BY <1>1, <1>2, ListingPublishes DEF IndexerSubjects
<1>5. \A j \in Connection : call'[j] \in {None, call[j]}
  BY <1>1 DEF Types, DataTypes
<1> QED
  BY <1>3, <1>4, <1>5 DEF RowSteps, RowStep, EditsBegin

(* A call that is refused does nothing to the row.                         *)
LEMMA RefuseIs ==
  ASSUME Types, NEW k \in Connection, Refuse(k)
  PROVE  OthersWait /\ DecisionsWait /\ RowSteps /\ EditsBegin
<1>1. call' = [call EXCEPT ![k] = None] /\ UNCHANGED <<ads, swept, now, budget, busVars>>
  BY DEF Refuse, Answered
<1>2. \A j \in Connection : call'[j] \in {None, call[j]}
  BY <1>1 DEF Types, DataTypes
<1> QED
  BY <1>1, <1>2, StillWaits DEF RowSteps, RowStep, EditsBegin

(* A decision that Listing takes does nothing to the row.                  *)
LEMMA ReadDecisionIs ==
  ASSUME Types, NEW e \in Waiting(LM), ReadDecision(e)
  PROVE  /\ OthersWait /\ RowSteps /\ EditsBegin
         /\ UNCHANGED listingVars
         /\ work[LM] = None
         /\ Waiting(LM)' \subseteq Waiting(LM) /\ Waiting(LM) \ {e} \subseteq Waiting(LM)'
<1>1. PICK memory : Take(LM, e, memory)
  BY DEF ReadDecision, LM
<1>2. UNCHANGED listingVars
  BY DEF ReadDecision
<1>3. LM \in Consumer /\ {MA, SI} \subseteq Consumer \ {LM}
  BY KeptIs DEF LM, MA, SI
<1>4. OthersWait /\ work[LM] = None
        /\ Waiting(LM)' \subseteq Waiting(LM) /\ Waiting(LM) \ {e} \subseteq Waiting(LM)'
  BY <1>1, <1>3, TakeIs, ShapeHolds DEF OthersWait
<1> QED
  BY <1>2, <1>4 DEF RowSteps, RowStep, EditsBegin, listingVars

(* A promotion that Listing takes does nothing to the row.                 *)
LEMMA ReadPromotionIs ==
  ASSUME Types, NEW e \in Waiting(LP), ReadPromotion(e)
  PROVE  OthersWait /\ DecisionsWait /\ RowSteps /\ EditsBegin
<1>1. PICK memory : Take(LP, e, memory)
  BY DEF ReadPromotion, LP
<1>2. UNCHANGED listingVars
  BY DEF ReadPromotion
<1>3. LP \in Consumer /\ {LM, MA, SI} \subseteq Consumer \ {LP}
  BY KeptIs DEF LM, LP, MA, SI
<1>4. OthersWait /\ DecisionsWait
  BY <1>1, <1>3, TakeIs, ShapeHolds DEF OthersWait, DecisionsWait
<1> QED
  BY <1>2, <1>4 DEF RowSteps, RowStep, EditsBegin, listingVars

(* A consumer of Listing that ends and publishes of an ad announces it.    *)
LEMMA ListingFinishes ==
  ASSUME Types, NEW c \in {LM, LP}, NEW evs, NEW lost \in BOOLEAN, Finish(c, evs, lost),
         c = LM => ~lost,
         \/ evs = {}
         \/ \E a, arg : evs = {Event("ad.updated", a, arg)}
  PROVE  /\ OthersWait /\ work'[c] = None
         /\ Waiting(LM)' = Waiting(LM)
         /\ \A d \in {LM, LP} \ {c} : work'[d] = work[d]
         /\ \A a, arg : evs = {Event("ad.updated", a, arg)} => Announced(a)
<1>1. c \in Consumer /\ {MA, SI} \subseteq Consumer \ {c} /\ {LM, LP} \subseteq Consumer
  BY KeptIs DEF LM, LP, MA, SI
<1>2. /\ work'[c] = None
      /\ \A d \in Consumer \ {c} :
           work'[d] = work[d] /\ Waiting(d)' = Waiting(d) \cup Seen(d, evs)
      /\ Waiting(c)' = Waiting(c) \cup Seen(c, evs)
                         \cup (IF lost THEN {work[c].event} ELSE {})
  BY <1>1, FinishIs, ShapeHolds
<1>3. Seen(LM, evs) = {}
  BY SeenOne DEF ModerationSubjects
<1>4. Waiting(LM)' = Waiting(LM)
  BY <1>1, <1>2, <1>3
<1>5. OthersWait /\ \A d \in {LM, LP} \ {c} : work'[d] = work[d]
  BY <1>1, <1>2 DEF OthersWait
<1>6. ASSUME NEW a, NEW arg, evs = {Event("ad.updated", a, arg)} PROVE Announced(a)
  <2>1. Event("", a, "") \in Seen(SI, evs)
    BY <1>6, SeenOne DEF IndexerSubjects
  <2> QED
    BY <1>1, <1>2, <2>1 DEF Announced
<1> QED
  BY <1>2, <1>4, <1>5, <1>6

(* A decision moves the status that it has read, and no other.             *)
LEMMA ApplyDecisionIs ==
  ASSUME Types, ApplyDecision
  PROVE  /\ OthersWait /\ RowSteps /\ EditsBegin
         /\ UNCHANGED <<call, now, budget>>
         /\ work[LM] # None /\ work'[LM] = None
         /\ Waiting(LM)' = Waiting(LM)
         /\ \A a \in Ad : /\ work[LM].event.ad = a
                          /\ work[LM].memory.to # None /\ Matches(a, work[LM].memory.from)
                          => Exists(a)' /\ ads'[a].status = work[LM].memory.to
<1> DEFINE w == work[LM]
           until == IF w.memory.to = "active" THEN now + Lifetime ELSE Never
<1>1. PICK evs : evs = IF DecisionHits THEN {Event("ad.updated", w.event.ad, w.memory.to)} ELSE {}
  OBVIOUS
<1>2. /\ w # None
      /\ ads' = IF DecisionHits THEN Transitioned(w.event.ad, w.memory.to, until) ELSE ads
      /\ Finish(LM, evs, FALSE)
      /\ UNCHANGED <<call, swept, now, budget>>
  BY <1>1 DEF ApplyDecision, DecisionHits, LM
<1>3. PICK a \in Ad : a = w.event.ad
  BY <1>2, HandIsProper, KeptIs
<1>4. PICK lost \in BOOLEAN : lost = FALSE
  OBVIOUS
<1>5. \/ evs = {}
      \/ \E x, arg : evs = {Event("ad.updated", x, arg)}
  BY <1>1
<1>6. /\ OthersWait /\ work'[LM] = None
      /\ Waiting(LM)' = Waiting(LM)
      /\ \A x, arg : evs = {Event("ad.updated", x, arg)} => Announced(x)
  <2>1. Finish(LM, evs, lost) /\ ~lost
    BY <1>2, <1>4
  <2> QED
    BY <1>5, <2>1, ListingFinishes
<1>7. EditsBegin
  BY <1>2 DEF EditsBegin
<1>8. CASE DecisionHits
  <2>1. /\ w.memory.to # None /\ Exists(a) /\ ads[a] \in Row /\ ads[a].status = w.memory.from
    BY <1>3, <1>8, RowIsThere DEF DecisionHits, Matches, Types
  <2>2. w.memory.to \in Status /\ until \in Nat
    BY <1>2, <2>1, DecisionIs, PipelineAssumption DEF Status, Types, DataTypes, Never
  <2>3. ads' = Transitioned(a, w.memory.to, until)
    BY <1>2, <1>3, <1>8
  <2> HIDE DEF until
  <2>4. /\ ads'[a] \in Row /\ ads'[a].content = ads[a].content
        /\ ads'[a].status = w.memory.to /\ ads'[a].top = ads[a].top
        /\ ads'[a].ends = ads[a].ends
        /\ \A b \in Ad \ {a} : ads'[b] = ads[b]
    BY <2>1, <2>2, <2>3 DEF Types, DataTypes, Row, Transitioned
  <2>5. Announced(a)
    BY <1>1, <1>3, <1>6, <1>8
  <2>6. StatusMoves(a)
    BY <1>2, <1>3, <1>6, <2>1, <2>4 DEF StatusMoves, DecisionEnds
  <2>7. RowStep(a)
    BY <2>1, <2>4, <2>5, <2>6 DEF RowStep, TopMoves
  <2>8. RowSteps
    BY <2>4, <2>7 DEF RowSteps, RowStep
  <2>9. Exists(a)'
    BY <2>4, PipelineAssumption DEF Exists
  <2> QED
    BY <1>2, <1>3, <1>6, <1>7, <2>4, <2>8, <2>9
<1>9. CASE ~DecisionHits
  BY <1>2, <1>6, <1>7, <1>9 DEF RowSteps, RowStep, DecisionHits
<1> QED
  BY <1>8, <1>9

(* What a promotion does to the row.                                       *)
LEMMA ApplyPromotionIs ==
  ASSUME Types, NEW lost \in BOOLEAN, ApplyPromotion(lost)
  PROVE  OthersWait /\ DecisionsWait /\ RowSteps /\ EditsBegin
<1> DEFINE w == work[LP]
<1>1. PICK evs : evs = IF PromotionHits THEN {Event("ad.updated", w.event.ad, w.memory)} ELSE {}
  OBVIOUS
<1>2. /\ w # None
      /\ ads' = IF PromotionHits
                THEN [ads EXCEPT ![w.event.ad].top = TRUE, ![w.event.ad].ends = w.event.arg]
                ELSE ads
      /\ Finish(LP, evs, lost)
      /\ UNCHANGED <<call, swept, now>>
  BY <1>1 DEF ApplyPromotion, PromotionHits, LP
<1>3. PICK a \in Ad : a = w.event.ad
  BY <1>2, HandIsProper, KeptIs
<1>4. \/ evs = {}
      \/ \E x, arg : evs = {Event("ad.updated", x, arg)}
  BY <1>1
<1>5. LP # LM
  BY DEF LM, LP
<1>6. /\ OthersWait /\ DecisionsWait /\ work'[LP] = None
      /\ \A x, arg : evs = {Event("ad.updated", x, arg)} => Announced(x)
  BY <1>2, <1>4, <1>5, ListingFinishes DEF DecisionsWait
<1>7. EditsBegin
  BY <1>2 DEF EditsBegin
<1>8. CASE PromotionHits
  <2>1. ads[a] \in Row /\ w.event.arg \in Nat
    BY <1>2, <1>3, <1>8, RowIsThere, HandIsProper, KeptIs
    DEF PromotionHits, Matches, Types, Proper
  <2>2. ads' = [ads EXCEPT ![a].top = TRUE, ![a].ends = w.event.arg]
    BY <1>2, <1>3, <1>8
  <2>3. /\ ads'[a] \in Row /\ ads'[a].content = ads[a].content
        /\ ads'[a].status = ads[a].status /\ ads'[a].top = TRUE
        /\ ads'[a].ends = w.event.arg
        /\ \A b \in Ad \ {a} : ads'[b] = ads[b]
    BY <2>1, <2>2 DEF Types, DataTypes, Row
  <2>4. Announced(a)
    BY <1>1, <1>3, <1>6, <1>8
  <2>5. TopMoves(a)
    BY <1>2, <1>6, <2>3 DEF TopMoves
  <2>6. RowStep(a)
    BY <2>1, <2>3, <2>4, <2>5 DEF RowStep, StatusMoves
  <2> QED
    BY <1>6, <1>7, <2>3, <2>6 DEF RowSteps, RowStep
<1>9. CASE ~PromotionHits
  BY <1>2, <1>6, <1>7, <1>9 DEF RowSteps, RowStep
<1> QED
  BY <1>8, <1>9

(* The sale of a promotion does nothing to the row.                        *)
LEMMA SellTopIs ==
  ASSUME Types, NEW a \in Ad, SellTop(a)
  PROVE  OthersWait /\ DecisionsWait /\ RowSteps /\ EditsBegin
<1>1. PICK end : Publish({Event("promotion.activated", a, end)})
  BY DEF SellTop
<1>2. UNCHANGED <<ads, call, swept, now, work>>
  BY DEF SellTop
<1>3. \A c \in Consumer :
        Waiting(c)' = Waiting(c) \cup Seen(c, {Event("promotion.activated", a, end)})
  BY <1>1, <1>2, PublishIs, ShapeHolds
<1>4. OthersWait /\ DecisionsWait
  BY <1>2, <1>3, SeenOne, KeptIs DEF OthersWait, DecisionsWait, ModerationSubjects
<1> QED
  BY <1>2, <1>4 DEF RowSteps, RowStep, EditsBegin

(* A sweep and the clock do nothing to the rows.                           *)
LEMMA SweepIs ==
  ASSUME Sweep \/ Tick
  PROVE  OthersWait /\ DecisionsWait /\ RowSteps /\ EditsBegin
BY StillWaits DEF Sweep, Tick, RowSteps, RowStep, EditsBegin

(* An expiry finds the lifetime over when it writes.                       *)
LEMMA ExpireIs ==
  ASSUME Types, NEW a \in Ad, Expire(a)
  PROVE  OthersWait /\ DecisionsWait /\ RowSteps /\ EditsBegin
<1>1. UNCHANGED <<call, now, budget, work>>
  BY DEF Expire
<1>2. CASE Exists(a) /\ StillDue(ads[a])
  <2>1. /\ ads[a] \in Row /\ Due(ads[a])
        /\ ads' = [ads EXCEPT ![a].status = "expired"]
        /\ Publish({Event("ad.expired", a, "expired")})
    BY <1>2, RowIsThere DEF Expire, StillDue, Types
  <2>2. /\ ads'[a] \in Row /\ ads'[a].content = ads[a].content
        /\ ads'[a].status = "expired" /\ ads'[a].top = ads[a].top
        /\ ads'[a].ends = ads[a].ends
        /\ \A b \in Ad \ {a} : ads'[b] = ads[b]
    BY <2>1 DEF Types, DataTypes, Row, Status
  <2>3. OthersWait /\ DecisionsWait /\ Announced(a)
    BY <1>1, <2>1, ListingPublishes DEF IndexerSubjects
  <2>4. StatusMoves(a)
    BY <2>1, <2>2 DEF StatusMoves, Due
  <2> QED
    BY <1>1, <2>1, <2>2, <2>3, <2>4 DEF RowSteps, RowStep, TopMoves, EditsBegin
<1>3. CASE ~(Exists(a) /\ StillDue(ads[a]))
  <2>1. UNCHANGED <<ads, busVars>>
    BY <1>1, <1>3 DEF Expire, busVars
  <2> QED
    BY <1>1, <2>1, StillWaits DEF RowSteps, RowStep, EditsBegin
<1> QED
  BY <1>2, <1>3

(* The end of a promotion finds it over when it writes.                    *)
LEMMA ClearPromotionIs ==
  ASSUME Types, NEW a \in Ad, ClearPromotion(a)
  PROVE  OthersWait /\ DecisionsWait /\ RowSteps /\ EditsBegin
<1>1. UNCHANGED <<call, now, budget, work>>
  BY DEF ClearPromotion
<1>2. CASE Exists(a) /\ StillOver(ads[a])
  <2>1. /\ ads[a] \in Row /\ PromoOver(ads[a])
        /\ ads' = [ads EXCEPT ![a].top = FALSE, ![a].ends = Never]
        /\ Publish({Event("ad.updated", a, ads[a].status)})
    BY <1>2, RowIsThere DEF ClearPromotion, StillOver, Types
  <2>2. /\ ads'[a] \in Row /\ ads'[a].content = ads[a].content
        /\ ads'[a].status = ads[a].status
        /\ \A b \in Ad \ {a} : ads'[b] = ads[b]
    BY <2>1 DEF Types, DataTypes, Row, Never
  <2>3. OthersWait /\ DecisionsWait /\ Announced(a)
    BY <1>1, <2>1, ListingPublishes DEF IndexerSubjects
  <2> QED
    BY <1>1, <2>1, <2>2, <2>3 DEF RowSteps, RowStep, TopMoves, StatusMoves, EditsBegin
<1>3. CASE ~(Exists(a) /\ StillOver(ads[a]))
  <2>1. UNCHANGED <<ads, busVars>>
    BY <1>1, <1>3 DEF ClearPromotion, busVars
  <2> QED
    BY <1>1, <2>1, StillWaits DEF RowSteps, RowStep, EditsBegin
<1> QED
  BY <1>2, <1>3

(* A restart of Listing gives back the decision in hand.                   *)
LEMMA ListingRestartIs ==
  ASSUME Types, ListingRestart
  PROVE  /\ OthersWait /\ RowSteps /\ EditsBegin
         /\ UNCHANGED <<ads, now>>
         /\ budget'["crashes"] # budget["crashes"]
         /\ work'[LM] = None
         /\ Waiting(LM)' = Waiting(LM) \cup
              (IF work[LM] # None THEN {work[LM].event} ELSE {})
<1>1. /\ Spend("crashes")
      /\ call' = [k \in Connection |-> None]
      /\ GiveBack({LM, LP})
      /\ UNCHANGED <<ads, now>>
  BY DEF ListingRestart, LM, LP
<1>2. /\ {LM, LP} \in SUBSET Consumer /\ {LM, MA, SI} \subseteq Consumer
      /\ MA \notin {LM, LP} /\ SI \notin {LM, LP}
  BY KeptIs DEF LM, LP, MA, SI
<1>3. /\ \A d \in Consumer : work'[d] = IF d \in {LM, LP} THEN None ELSE work[d]
      /\ \A d \in Consumer :
           Waiting(d)' = Waiting(d) \cup
             (IF d \in {LM, LP} /\ work[d] # None THEN {work[d].event} ELSE {})
  BY <1>1, <1>2, GiveBackIs, ShapeHolds
<1>4. budget'["crashes"] # budget["crashes"]
  BY <1>1, SpendKeeps DEF Types, DataTypes, Input
<1>5. RowSteps /\ EditsBegin
  BY <1>1 DEF RowSteps, RowStep, EditsBegin
<1>6. OthersWait
  BY <1>2, <1>3 DEF OthersWait
<1> QED
  BY <1>1, <1>2, <1>3, <1>4, <1>5, <1>6

(* A step of Listing, as the others see it.                                *)
LEMMA ListingIs ==
  ASSUME Types, ListingStep
  PROVE  /\ OthersWait /\ RowSteps /\ EditsBegin
         /\ UNCHANGED <<moderationVars, index, reindex>> /\ NoteOverlap
         /\ \/ DecisionsWait
            \/ \E e \in Waiting(LM) : ReadDecision(e)
            \/ ApplyDecision
            \/ ListingRestart
<1>1. UNCHANGED <<moderationVars, index, reindex>> /\ NoteOverlap
  BY ListingSteps
<1>2. CASE \E a \in Ad : Create(a) \/ Bump(a) \/ Expire(a) \/ ClearPromotion(a) \/ SellTop(a)
  BY <1>1, <1>2, CreateIs, BumpIs, ExpireIs, ClearPromotionIs, SellTopIs
<1>3. CASE \E k \in Connection, a \in Ad :
             \/ BeginEdit(k, a) \/ BeginSubmit(k, a) \/ BeginSold(k, a)
             \/ BeginArchive(k, a) \/ BeginRenew(k, a) \/ BeginDelete(k, a)
  BY <1>1, <1>3, BeginsIs
<1>4. CASE \E k \in Connection :
             CommitEdit(k) \/ CommitTransition(k) \/ CommitDelete(k) \/ Refuse(k)
  BY <1>1, <1>4, CommitEditIs, CommitTransitionIs, CommitDeleteIs, RefuseIs
<1>5. CASE \/ \E e \in Waiting(LM) : ReadDecision(e)
           \/ ApplyDecision
           \/ ListingRestart
  BY <1>1, <1>5, ReadDecisionIs, ApplyDecisionIs, ListingRestartIs
<1>6. CASE \/ \E e \in Waiting(LP) : ReadPromotion(e)
           \/ \E l \in BOOLEAN : ApplyPromotion(l)
           \/ Sweep \/ Tick
  BY <1>1, <1>6, ReadPromotionIs, ApplyPromotionIs, SweepIs
<1> QED
  BY <1>2, <1>3, <1>4, <1>5, <1>6, ListingSteps

(* A step of Moderation, as Listing and Search see it.                     *)
LEMMA ModerationIs ==
  ASSUME Types, ModerationStep
  PROVE  /\ UNCHANGED <<ads, call, now, searchVars>>
         /\ work'[LM] = work[LM] /\ work'[LP] = work[LP] /\ work'[SI] = work[SI]
         /\ Waiting(LM) \subseteq Waiting(LM)' /\ Waiting(SI) \subseteq Waiting(SI)'
<1>1. UNCHANGED <<ads, call, now, searchVars>>
  <2>1. UNCHANGED searchVars
    BY ModerationSteps
  <2>2. UNCHANGED <<ads, call, now>>
    BY ModerationSteps
    DEF ReadPending, Check, ModerationRestart, OpenTask, Decide, CreateReport, ResolveReport,
        listingVars
  <2> QED
    BY <2>1, <2>2
<1> DEFINE Goal == /\ work'[LM] = work[LM] /\ work'[LP] = work[LP] /\ work'[SI] = work[SI]
                   /\ Waiting(LM) \subseteq Waiting(LM)' /\ Waiting(SI) \subseteq Waiting(SI)'
<1>2. {LM, LP, SI} \subseteq Consumer \ {MA} /\ MA \in Consumer
  BY KeptIs DEF LM, LP, MA, SI
<1>3. ASSUME NEW evs, Publish(evs), work' = work PROVE Goal
  BY <1>2, <1>3, PublishIs, ShapeHolds
<1>4. ASSUME UNCHANGED busVars PROVE Goal
  BY <1>4 DEF busVars, Waiting
<1>5. ASSUME NEW e, ReadPending(e) PROVE Goal
  <2>1. PICK memory : Take(MA, e, memory)
    BY <1>5 DEF ReadPending, MA
  <2> QED
    BY <1>2, <2>1, TakeIs, ShapeHolds
<1>6. ASSUME Check PROVE Goal
  <2>1. PICK evs : Finish(MA, evs, FALSE)
    BY <1>6, CheckIs DEF CheckSaves
  <2>2. PICK lost \in BOOLEAN : Finish(MA, evs, lost)
    BY <2>1
  <2> QED
    BY <1>2, <2>2, FinishIs, ShapeHolds
<1>7. ASSUME ModerationRestart PROVE Goal
  <2>1. GiveBack({MA}) /\ {MA} \in SUBSET Consumer
    BY <1>2, <1>7 DEF ModerationRestart, MA
  <2> QED
    BY <1>2, <2>1, GiveBackIs, ShapeHolds
<1>8. ASSUME NEW m \in Moderator, NEW s, Decide(m, s) PROVE Goal
  <2>1. (\E evs : Publish(evs) /\ work' = work) \/ UNCHANGED busVars
    BY <1>8 DEF Decide, busVars
  <2> QED
    BY <1>3, <1>4, <2>1
<1>9. ASSUME NEW r \in Report, NEW x, ResolveReport(r, x) PROVE Goal
  <2>1. Publish(TakedownEvents(r, x)) /\ work' = work
    BY <1>9 DEF ResolveReport
  <2> QED
    BY <1>3, <2>1
<1>10. ASSUME \/ \E m \in Moderator, a \in Ad : OpenTask(m, a)
              \/ \E r \in Report : CreateReport(r)
       PROVE  Goal
  <2>1. UNCHANGED busVars
    BY <1>10 DEF OpenTask, CreateReport
  <2> QED
    BY <1>4, <2>1
<1> HIDE DEF Goal
<1>11. Goal
  BY <1>5, <1>6, <1>7, <1>8, <1>9, <1>10, ModerationSteps
<1> QED
  BY <1>1, <1>11 DEF Goal

(* A step of Search, as Listing and Moderation see it.                     *)
LEMMA SearchIs ==
  ASSUME Types, SearchStep
  PROVE  /\ UNCHANGED <<ads, call, now, moderationVars>>
         /\ \A c \in {LM, LP, MA} : work'[c] = work[c] /\ Waiting(c)' = Waiting(c)
<1>1. UNCHANGED <<ads, call, now, moderationVars>>
  BY SearchSteps DEF ReadAd, Sync, BeginReindex, Reindex, SearchRestart, listingVars
<1> DEFINE Goal == \A c \in {LM, LP, MA} : work'[c] = work[c] /\ Waiting(c)' = Waiting(c)
<1>2. {LM, LP, MA} \subseteq Consumer \ {SI} /\ SI \in Consumer
  BY KeptIs DEF LM, LP, MA, SI
<1>3. ASSUME UNCHANGED busVars PROVE Goal
  BY <1>3 DEF busVars, Waiting
<1>4. ASSUME NEW e, ReadAd(e) PROVE Goal
  <2>1. PICK memory : Take(SI, e, memory)
    BY <1>4 DEF ReadAd, SI
  <2> QED
    BY <1>2, <2>1, TakeIs, ShapeHolds
<1>5. ASSUME NEW lost \in BOOLEAN, Sync(lost) PROVE Goal
  <2>1. PICK evs : evs = {} /\ Finish(SI, evs, lost)
    BY <1>5 DEF Sync, SI
  <2>2. \A c \in Consumer : Seen(c, evs) = {}
    BY <2>1 DEF Seen
  <2>3. \A c \in Consumer \ {SI} :
          work'[c] = work[c] /\ Waiting(c)' = Waiting(c) \cup Seen(c, evs)
    BY <1>2, <2>1, FinishIs, ShapeHolds
  <2> QED
    BY <1>2, <2>2, <2>3
<1>6. ASSUME SearchRestart PROVE Goal
  <2>1. GiveBack({SI}) /\ {SI} \in SUBSET Consumer
    BY <1>2, <1>6 DEF SearchRestart, SI
  <2> QED
    BY <1>2, <2>1, GiveBackIs, ShapeHolds
<1>7. ASSUME BeginReindex \/ \E p : Reindex(p) PROVE Goal
  <2>1. UNCHANGED busVars
    BY <1>7 DEF BeginReindex, Reindex
  <2> QED
    BY <1>3, <2>1
<1> HIDE DEF Goal
<1>8. Goal
  BY <1>4, <1>5, <1>6, <1>7, SearchSteps
<1> QED
  BY <1>1, <1>8 DEF Goal

-----------------------------------------------------------------------------
(* The index follows.                                                      *)

(* What the indexer owes an ad.                                            *)
Follows(a) ==
  \/ Event("", a, "") \in Waiting(SI)
  \/ work[SI] # None /\ work[SI].event.ad = a /\ work[SI].memory = Projection(a)
  \/ ~(work[SI] # None /\ work[SI].event.ad = a) /\ index[a] = Projection(a)

(* The index follows if it follows each ad.                                *)
LEMMA FollowsIs == IndexFollows <=> \A a \in Ad \ overlap : Follows(a)
BY DEF IndexFollows, Follows

(* An unchanged row has an unchanged document.                             *)
LEMMA ProjectionStays ==
  ASSUME NEW a \in Ad, ads'[a] = ads[a]
  PROVE  Projection(a)' = Projection(a)
BY DEF Projection, Exists

(* Listing announces every change of a row to the indexer.                 *)
LEMMA ListingFollows ==
  ASSUME Types, IndexFollows, CopiesAreTrue, ListingStep
  PROVE  IndexFollows' /\ CopiesAreTrue'
<1>1. OthersWait /\ RowSteps /\ UNCHANGED <<index, reindex>> /\ NoteOverlap
  BY ListingIs
<1>2. ASSUME NEW a \in Ad, a \notin overlap' PROVE Follows(a)'
  <2>1. a \notin overlap /\ Follows(a)
    BY <1>1, <1>2, FollowsIs DEF NoteOverlap
  <2>2. CASE ads'[a] = ads[a]
    <3>1. Projection(a)' = Projection(a)
      BY <2>2, ProjectionStays
    <3> QED
      BY <1>1, <2>1, <3>1 DEF Follows, OthersWait
  <2>3. CASE Announced(a)
    BY <2>3 DEF Announced, Follows
  <2> QED
    BY <1>1, <2>2, <2>3 DEF RowSteps, RowStep
<1>3. IndexFollows'
  BY <1>2 DEF IndexFollows, Follows
<1>4. ASSUME reindex' # None, NEW p \in reindex', p[1] \notin overlap'
      PROVE  p[2] = Projection(p[1])'
  <2>1. PICK a \in Ad : a = p[1]
    BY <1>1, <1>4 DEF Types, DataTypes
  <2>2. ads'[a] = ads[a] /\ a \notin overlap
    BY <1>1, <1>4, <2>1 DEF NoteOverlap
  <2>3. p[2] = Projection(a)
    BY <1>1, <1>4, <2>1, <2>2 DEF CopiesAreTrue
  <2> QED
    BY <2>1, <2>2, <2>3, ProjectionStays
<1>5. CopiesAreTrue'
  BY <1>4 DEF CopiesAreTrue
<1> QED
  BY <1>3, <1>5

(* Moderation changes no row.                                              *)
LEMMA ModerationFollows ==
  ASSUME Types, IndexFollows, CopiesAreTrue, ModerationStep
  PROVE  IndexFollows' /\ CopiesAreTrue'
<1>1. /\ UNCHANGED <<ads, index, reindex, overlap>> /\ work'[SI] = work[SI]
      /\ Waiting(SI) \subseteq Waiting(SI)'
  BY ModerationIs DEF searchVars
<1>2. \A a : Projection(a)' = Projection(a)
  BY <1>1 DEF Projection, Exists
<1> QED
  BY <1>1, <1>2 DEF IndexFollows, CopiesAreTrue

(* The indexer writes what it has read, and rereads what has changed.      *)
LEMMA SearchFollows ==
  ASSUME Types, IndexFollows, CopiesAreTrue, SearchStep
  PROVE  IndexFollows' /\ CopiesAreTrue'
<1>1. UNCHANGED ads
  BY SearchIs
<1>2. \A a : Projection(a)' = Projection(a)
  BY <1>1 DEF Projection, Exists
<1>3. SI \in Consumer
  BY KeptIs
<1>4. \A e \in Waiting(SI) : e = Event("", e.ad, "") /\ e.ad \in Ad
  BY <1>3, WaitingIsProper DEF Proper
<1>5. work[SI] # None => work[SI].event = Event("", work[SI].event.ad, "")
  BY <1>3, HandIsProper DEF Proper
<1>6. ASSUME NEW e \in Waiting(SI), ReadAd(e) PROVE IndexFollows' /\ CopiesAreTrue'
  <2>1. UNCHANGED <<index, reindex, overlap>>
    BY <1>6 DEF ReadAd, searchVars
  <2>2. /\ work[SI] = None /\ work'[SI] # None /\ work'[SI].event = e
        /\ work'[SI].memory = Projection(e.ad)
    <3>1. PICK memory : Take(SI, e, memory)
      BY <1>6 DEF ReadAd, SI
    <3> QED
      BY <1>3, <1>6, <3>1, TakeIs, ShapeHolds, ReadAdTypes
  <2>3. Waiting(SI) \ {e} \subseteq Waiting(SI)'
    <3>1. PICK memory : Take(SI, e, memory)
      BY <1>6 DEF ReadAd, SI
    <3> QED
      BY <1>3, <3>1, TakeIs, ShapeHolds
  <2>4. ASSUME NEW a \in Ad \ overlap PROVE Follows(a)'
    <3>1. CASE a = e.ad
      BY <1>2, <2>2, <3>1 DEF Follows
    <3>2. CASE a # e.ad
      <4>1. e # Event("", a, "")
        <5>1. Event("", a, "").ad = a
          BY DEF Event
        <5> QED
          BY <3>2, <5>1
      <4>2. Follows(a)
        BY FollowsIs
      <4> QED
        BY <1>2, <2>1, <2>2, <2>3, <3>2, <4>1, <4>2 DEF Follows
    <3> QED
      BY <3>1, <3>2
  <2> QED
    BY <1>2, <2>1, <2>4 DEF IndexFollows, Follows, CopiesAreTrue
<1>7. ASSUME NEW lost \in BOOLEAN, Sync(lost) PROVE IndexFollows' /\ CopiesAreTrue'
  <2>1. PICK b \in Ad : work[SI] # None /\ b = work[SI].event.ad
    BY <1>3, <1>7, HandIsProper DEF Sync, SI
  <2>2. /\ index' = [index EXCEPT ![b] = work[SI].memory]
        /\ UNCHANGED <<reindex, overlap>>
    BY <1>7, <2>1 DEF Sync, SI
  <2>3. index'[b] = work[SI].memory /\ \A a \in Ad \ {b} : index'[a] = index[a]
    BY <2>2 DEF Types, DataTypes
  <2>4. work'[SI] = None /\ Waiting(SI) \subseteq Waiting(SI)'
    <3>1. PICK evs : Finish(SI, evs, lost)
      BY <1>7 DEF Sync, SI
    <3> QED
      BY <1>3, <3>1, FinishIs, ShapeHolds
  <2>5. ASSUME NEW a \in Ad \ overlap PROVE Follows(a)'
    <3>1. Follows(a)
      BY FollowsIs
    <3> QED
      BY <1>2, <2>1, <2>3, <2>4, <3>1 DEF Follows
  <2> QED
    BY <1>2, <2>2, <2>5 DEF IndexFollows, Follows, CopiesAreTrue
<1>8. ASSUME BeginReindex PROVE IndexFollows' /\ CopiesAreTrue'
  <2>1. /\ reindex' = {<<a, Projection(a)>> : a \in {b \in Ad : Projection(b) # None}}
        /\ UNCHANGED <<index, overlap, busVars>>
    BY <1>8 DEF BeginReindex
  <2>2. IndexFollows'
    BY <1>2, <2>1 DEF IndexFollows, Waiting, busVars
  <2>3. CopiesAreTrue'
    BY <1>2, <2>1 DEF CopiesAreTrue
  <2> QED
    BY <2>2, <2>3
<1>9. ASSUME reindex # None, NEW p \in reindex, Reindex(p) PROVE IndexFollows' /\ CopiesAreTrue'
  <2>1. /\ index' = [index EXCEPT ![p[1]] = p[2]]
        /\ reindex' = IF reindex = {p} THEN None ELSE reindex \ {p}
        /\ UNCHANGED <<overlap, busVars>>
    BY <1>9 DEF Reindex
  <2>2. p[1] \in Ad
    BY <1>9 DEF Types, DataTypes
  <2>3. \A a \in Ad : index'[a] = IF a = p[1] THEN p[2] ELSE index[a]
    BY <2>1, <2>2 DEF Types, DataTypes
  <2>4. p[1] \notin overlap => p[2] = Projection(p[1])
    BY <1>9 DEF CopiesAreTrue
  <2>5. ASSUME NEW a \in Ad \ overlap PROVE Follows(a)'
    <3>1. Follows(a)
      BY FollowsIs
    <3>2. Waiting(SI)' = Waiting(SI) /\ work' = work
      BY <2>1 DEF Waiting, busVars
    <3> QED
      BY <1>2, <2>3, <2>4, <3>1, <3>2 DEF Follows
  <2>6. CopiesAreTrue'
    BY <1>2, <1>9, <2>1 DEF CopiesAreTrue
  <2> QED
    BY <2>1, <2>5, <2>6 DEF IndexFollows, Follows
<1>10. ASSUME SearchRestart PROVE IndexFollows' /\ CopiesAreTrue'
  <2>1. GiveBack({SI}) /\ work[SI] # None /\ UNCHANGED <<index, reindex, overlap>>
    BY <1>10 DEF SearchRestart, SI, searchVars
  <2>2. {SI} \in SUBSET Consumer
    BY <1>3
  <2>3. /\ work'[SI] = None /\ Waiting(SI) \subseteq Waiting(SI)'
        /\ Event("", work[SI].event.ad, "") \in Waiting(SI)'
    <3>1. Waiting(SI)' = Waiting(SI) \cup {work[SI].event} /\ work'[SI] = None
      BY <1>3, <2>1, <2>2, GiveBackIs, ShapeHolds
    <3> QED
      BY <1>5, <2>1, <3>1
  <2>4. ASSUME NEW a \in Ad \ overlap PROVE Follows(a)'
    <3>1. Follows(a)
      BY FollowsIs
    <3> QED
      BY <1>2, <2>1, <2>3, <3>1 DEF Follows
  <2> QED
    BY <1>2, <2>1, <2>4 DEF IndexFollows, Follows, CopiesAreTrue
<1> QED
  BY <1>6, <1>7, <1>8, <1>9, <1>10, SearchSteps

-----------------------------------------------------------------------------
(* Takedowns hold.                                                         *)

(* What the history remembers of a step.                                   *)
LEMMA HistoryGrows ==
  ASSUME Next
  PROVE  reworked \subseteq reworked' /\ removed \subseteq removed' /\ raced \subseteq raced'
BY DEF Next, NoteEdits, NoteTakedowns

(* A takedown counts as handled when Listing ends with it.                 *)
LEMMA RemovedIs ==
  ASSUME Next, NEW a \in removed', a \notin removed
  PROVE  /\ work[LM] # None /\ work'[LM] = None
         /\ budget'["crashes"] = budget["crashes"]
         /\ work[LM].event.subject = "ad.blocked" /\ work[LM].event.ad = a
BY DEF Next, NoteTakedowns, LM

(* A takedown that is not raced found the status it had read, and no edit  *)
(* wrote over a blocked ad.                                                *)
LEMMA RacedIs ==
  ASSUME Next, NEW a, a \notin raced'
  PROVE  /\ \A k \in Connection :
              call[k] # None /\ call'[k] = None /\ call[k].op = "edits" /\ call[k].ad = a
              => StatusOf(a) # "blocked"
         /\ /\ work[LM] # None /\ work'[LM] = None
            /\ budget'["crashes"] = budget["crashes"]
            /\ work[LM].event.subject = "ad.blocked" /\ work[LM].event.ad = a
            /\ work[LM].memory.to # None
            => StatusOf(a) = work[LM].memory.from
<1>1. PICK ended \in BOOLEAN :
        /\ ended <=> /\ work[LM] # None /\ work'[LM] = None
                     /\ budget'["crashes"] = budget["crashes"]
                     /\ work[LM].event.subject = "ad.blocked"
        /\ raced' = raced
             \cup (IF /\ ended /\ work[LM].memory.to # None
                      /\ StatusOf(work[LM].event.ad) # work[LM].memory.from
                   THEN {work[LM].event.ad} ELSE {})
             \cup {call[k].ad : k \in {j \in Connection :
                     /\ call[j] # None /\ call'[j] = None
                     /\ call[j].op = "edits"
                     /\ StatusOf(call[j].ad) = "blocked"}}
  BY DEF Next, NoteTakedowns, LM
<1>2. ASSUME NEW k \in Connection,
             call[k] # None, call'[k] = None, call[k].op = "edits", call[k].ad = a
      PROVE  StatusOf(a) # "blocked"
  BY <1>1, <1>2
<1>3. ASSUME work[LM] # None, work'[LM] = None,
             budget'["crashes"] = budget["crashes"],
             work[LM].event.subject = "ad.blocked", work[LM].event.ad = a,
             work[LM].memory.to # None
      PROVE  StatusOf(a) = work[LM].memory.from
  BY <1>1, <1>3
<1> QED
  BY <1>2, <1>3

(* Every step does to a row what a step of Listing does.                   *)
LEMMA RowStepAlways ==
  ASSUME Types, Next
  PROVE  RowSteps
<1>1. CASE ListingStep
  BY <1>1, ListingIs
<1>2. CASE ModerationStep \/ SearchStep
  BY <1>2, ModerationIs, SearchIs DEF RowSteps, RowStep
<1> QED
  BY <1>1, <1>2 DEF Next

(* Ids are not reused.                                                     *)
LEMMA GoneStays ==
  ASSUME Types, Next, NEW a \in Ad, ads[a] # None
  PROVE  ads'[a] # None /\ (Exists(a)' => Exists(a))
<1>1. RowStep(a)
  BY RowStepAlways DEF RowSteps
<1> QED
  BY <1>1, PipelineAssumption DEF RowStep, Exists

(* A blocked ad stays so, unless it is raced or removed.                   *)
LEMMA BlockedStays ==
  ASSUME Types, Next, NEW a \in Ad, a \notin raced',
         Exists(a), ads[a].status = "blocked", Exists(a)'
  PROVE  ads'[a].status = "blocked"
<1>1. RowStep(a)
  BY RowStepAlways DEF RowSteps
<1>2. ~EditEnds(a)
  BY RacedIs DEF EditEnds, StatusOf
<1>3. ~DecisionEnds(a)
  <2>1. SUFFICES ASSUME DecisionEnds(a) PROVE FALSE
    OBVIOUS
  <2>2. /\ work[LM] # None /\ work[LM].memory.to # None
        /\ work[LM].memory.from = "blocked"
    BY <2>1 DEF DecisionEnds
  <2> QED
    BY <2>2, DecisionIs DEF Plan, ModerationSubjects
<1> QED
  BY <1>1, <1>2, <1>3 DEF RowStep, StatusMoves, Exists

(* Only Listing takes decisions, or dies with one.                         *)
LEMMA DecisionSteps ==
  ASSUME Types, Next
  PROVE  \/ work'[LM] = work[LM]
         \/ \E e \in Waiting(LM) : ReadDecision(e) /\ ListingStep
         \/ ApplyDecision /\ ListingStep
         \/ ListingRestart /\ ListingStep
<1>1. CASE ListingStep
  BY <1>1, ListingIs DEF DecisionsWait
<1>2. CASE ModerationStep \/ SearchStep
  BY <1>2, ModerationIs, SearchIs
<1> QED
  BY <1>1, <1>2 DEF Next

(* An ad whose takedown is done, or needs nothing done, is not on the site.*)
Down(a) == Exists(a) => ads[a].status = "blocked"

(* What is off the site stays off the site.                                *)
LEMMA DownStays ==
  ASSUME Types, Next, NEW a \in Ad, ads[a] # None, a \notin raced', Down(a)
  PROVE  Down(a)'
BY GoneStays, BlockedStays DEF Down

(* Every step keeps takedowns.                                             *)
LEMMA TakedownsStep ==
  ASSUME Types, TakedownsHold, Next
  PROVE  TakedownsHold'
<1>1. LM \in Consumer
  BY KeptIs
<1>2. \A a \in removed : a \in Ad /\ ads[a] # None /\ (a \notin raced => Down(a))
  BY DEF TakedownsHold, TakedownHoldsUnlessRaced, Down
<1>3. ASSUME NEW a \in removed'
      PROVE  a \in Ad /\ ads'[a] # None /\ (a \notin raced' => Down(a)')
  <2>1. a \in Ad /\ ads[a] # None
    BY <1>1, <1>2, RemovedIs, HandIsProper
  <2>2. CASE a \in removed
    BY <1>2, <2>1, <2>2, HistoryGrows, DownStays, GoneStays
  <2>3. CASE a \notin removed
    <3>1. /\ work[LM] # None /\ work'[LM] = None
          /\ budget'["crashes"] = budget["crashes"]
          /\ work[LM].event.subject = "ad.blocked" /\ work[LM].event.ad = a
      BY <2>3, RemovedIs
    <3>2. ApplyDecision
      BY <3>1, DecisionSteps, ReadDecisionIs, ListingRestartIs
    <3>3. ASSUME a \notin raced', work[LM].memory.to = None PROVE Down(a)'
      <4>1. Down(a)
        BY <3>1, <3>3, HistoryGrows DEF TakedownsHold, Down
      <4> QED
        BY <2>1, <3>3, <4>1, DownStays
    <3>4. ASSUME a \notin raced', work[LM].memory.to # None PROVE Down(a)'
      <4>1. StatusOf(a) = work[LM].memory.from
        BY <3>1, <3>4, RacedIs
      <4>2. work[LM].memory.from \in Status /\ work[LM].memory.to = "blocked"
        BY <3>1, <3>4, DecisionIs
      <4>3. Matches(a, work[LM].memory.from)
        BY <4>1, <4>2 DEF StatusOf, Matches, Status
      <4> QED
        BY <2>1, <3>1, <3>2, <3>4, <4>2, <4>3, ApplyDecisionIs DEF Down
    <3> QED
      BY <2>1, <3>3, <3>4, GoneStays
  <2> QED
    BY <2>2, <2>3
<1>4. ASSUME work'[LM] # None, work'[LM].event.subject = "ad.blocked",
             work'[LM].memory.to = None, work'[LM].event.ad \notin raced',
             NEW a \in Ad, a = work'[LM].event.ad
      PROVE  Down(a)'
  <2>1. CASE work'[LM] = work[LM]
    <3>1. Down(a) /\ ads[a] # None
      BY <1>1, <1>4, <2>1, HistoryGrows, HandIsProper DEF TakedownsHold, Down
    <3> QED
      BY <1>4, <3>1, DownStays
  <2>2. CASE \E e \in Waiting(LM) : ReadDecision(e) /\ ListingStep
    <3>1. PICK e \in Waiting(LM) : ReadDecision(e) /\ ListingStep
      BY <2>2
    <3>2. /\ work'[LM].event = e
          /\ work'[LM].memory.to = IF Exists(e.ad) THEN Plan(e.subject, ads[e.ad].status)
                                                   ELSE None
          /\ UNCHANGED ads
      BY <3>1, ReadDecisionTypes, ReadDecisionIs, ListingIs DEF listingVars
    <3>3. Down(a)
      BY <1>4, <3>2, StatusIsNotNone DEF Plan, Down, Status
    <3> QED
      BY <3>2, <3>3 DEF Down, Exists
  <2>3. CASE ApplyDecision \/ ListingRestart
    BY <1>4, <2>3, ApplyDecisionIs, ListingRestartIs
  <2> QED
    BY <2>1, <2>2, <2>3, DecisionSteps
<1>5. ASSUME work'[LM] # None PROVE work'[LM].event.ad \in Ad
  BY <1>1, <1>5, TypesStep DEF Types, BusTypes, Message
<1> QED
  BY <1>3, <1>4, <1>5 DEF TakedownsHold, TakedownHoldsUnlessRaced, Down, Exists

-----------------------------------------------------------------------------
(* The review.                                                             *)

OnScreen(a) == \E m \in Moderator : open[m] # None /\ open[m].ad = a

InCheck(a) == work[MA] # None /\ work[MA].event.ad = a /\ work[MA].memory # None

Approving(a) ==
  \/ \E e \in Waiting(LM) : e.subject = "ad.approved" /\ e.ad = a
  \/ work[LM] # None /\ work[LM].event.subject = "ad.approved" /\ work[LM].event.ad = a

(* Where a verdict is still to come.                                       *)
LEMMA UnderReviewIs ==
  ASSUME NEW a
  PROVE  UnderReview(a) <=> IsManual(a) \/ OnScreen(a) \/ InCheck(a) \/ Approving(a)
BY DEF UnderReview, OnScreen, InCheck, Approving, MA, LM

Reviewed(a) ==
  Exists(a) /\ a \notin reworked =>
    /\ IsManual(a) => tasks[a].content = ads[a].content
    /\ \A m \in Moderator : open[m] # None /\ open[m].ad = a => open[m].content = ads[a].content
    /\ InCheck(a) => work[MA].memory = ads[a].content
    /\ Approving(a) => ads[a].content \in checked[a]
    /\ ads[a].status \in {"active", "expired"} => ads[a].content \in checked[a]

(* The review is of every ad.                                              *)
LEMMA ReviewedIs == ReviewIsOfTheAd <=> \A a \in Ad : Reviewed(a)
BY DEF ReviewIsOfTheAd, Reviewed, InCheck, Approving

(* Listing makes no approvals.                                             *)
LEMMA ListingApproves ==
  ASSUME Types, ListingStep, NEW a, Approving(a)'
  PROVE  Approving(a)
<1>1. CASE DecisionsWait
  BY <1>1 DEF DecisionsWait, Approving
<1>2. CASE \E e \in Waiting(LM) : ReadDecision(e)
  <2>1. PICK e \in Waiting(LM) : ReadDecision(e)
    BY <1>2
  <2>2. Waiting(LM)' \subseteq Waiting(LM) /\ work'[LM].event = e
    BY <2>1, ReadDecisionIs, ReadDecisionTypes, ListingIs
  <2> QED
    BY <2>2 DEF Approving
<1>3. CASE ApplyDecision \/ ListingRestart
  BY <1>3, ApplyDecisionIs, ListingRestartIs DEF Approving
<1> QED
  BY <1>1, <1>2, <1>3, ListingIs

(* Nothing is about an ad that has not been created.                       *)
LEMMA NothingPrecedes ==
  ASSUME Types, NEW a \in Ad, ads[a] = None
  PROVE  ~IsManual(a) /\ ~OnScreen(a) /\ ~InCheck(a) /\ ~Approving(a)
<1>1. ~IsManual(a) /\ ~OnScreen(a)
  BY DEF Types, AdsComeFirst, IsManual, OnScreen
<1>2. LM \in Consumer /\ MA \in Consumer
  BY KeptIs
<1>3. ~InCheck(a) /\ ~Approving(a)
  BY <1>2, WaitingIsProper, HandIsProper DEF InCheck, Approving
<1> QED
  BY <1>1, <1>3

(* Listing changes contents only where no verdict is to come, or says so.  *)
LEMMA ListingReviews ==
  ASSUME Types, ReviewIsOfTheAd, EditsAreGood, Next, ListingStep
  PROVE  ReviewIsOfTheAd'
<1> SUFFICES ASSUME NEW a \in Ad, Exists(a)', a \notin reworked'
             PROVE  /\ IsManual(a)' => tasks'[a].content = ads'[a].content
                    /\ \A m \in Moderator : open'[m] # None /\ open'[m].ad = a
                                              => open'[m].content = ads'[a].content
                    /\ InCheck(a)' => work'[MA].memory = ads'[a].content
                    /\ Approving(a)' => ads'[a].content \in checked'[a]
                    /\ ads'[a].status \in {"active", "expired"} => ads'[a].content \in checked'[a]
  BY DEF ReviewIsOfTheAd, Reviewed, InCheck, Approving
<1>1. OthersWait /\ RowStep(a) /\ UNCHANGED moderationVars
  BY ListingIs DEF RowSteps
<1>2. /\ IsManual(a)' <=> IsManual(a)
      /\ OnScreen(a)' <=> OnScreen(a)
      /\ InCheck(a)' <=> InCheck(a)
      /\ Approving(a)' => Approving(a)
  BY <1>1, ListingApproves DEF OthersWait, moderationVars, IsManual, OnScreen, InCheck
<1>3. a \notin reworked /\ Reviewed(a)
  BY HistoryGrows, ReviewedIs
<1>4. CASE ads[a] = None
  <2>1. ads'[a].status = "draft"
    BY <1>1, <1>4, PipelineAssumption DEF RowStep, Exists
  <2> QED
    BY <1>2, <1>4, <2>1, NothingPrecedes DEF OnScreen
<1>5. CASE ads[a] # None
  <2>1. Exists(a)
    BY <1>5, GoneStays
  <2>2. ads'[a].status \in {"active", "expired"} => ads'[a].content \in checked'[a]
    <3>1. CASE EditEnds(a)
      <4>1. PICK k \in Connection :
              /\ call[k] # None /\ call[k].op = "edits" /\ call[k].ad = a
              /\ ads'[a].content = call[k].row.content
              /\ ads'[a].status = call[k].row.status
              /\ call[k].row.status \in {"draft", "pending", "rejected", "active"}
        BY <3>1 DEF EditEnds
      <4>2. call[k].row.status = "active" => Good(a, call[k].row.content)
        BY <4>1 DEF EditsAreGood
      <4> QED
        BY <1>1, <1>3, <4>1, <4>2 DEF Good, moderationVars
    <3>2. CASE DecisionEnds(a) /\ ads'[a].content = ads[a].content
      <4>1. work[LM] # None /\ work[LM].memory.to # None /\ work[LM].event.ad = a
              /\ ads'[a].status = work[LM].memory.to
        BY <3>2 DEF DecisionEnds
      <4>2. ads'[a].status = "active" => Approving(a)
        BY <4>1, DecisionIs DEF Approving
      <4>3. ads'[a].status # "expired"
        BY <4>1, DecisionIs
      <4> QED
        BY <1>1, <1>3, <2>1, <3>2, <4>2, <4>3 DEF Reviewed, moderationVars
    <3>3. CASE \/ ads'[a] = ads[a]
               \/ StatusMoves(a) /\ ~DecisionEnds(a) /\ ads'[a].content = ads[a].content
      BY <1>1, <1>3, <2>1, <3>3 DEF StatusMoves, Due, Reviewed, moderationVars
    <3> QED
      BY <1>1, <1>5, <3>1, <3>2, <3>3 DEF RowStep, Exists
  <2>3. CASE ads'[a].content = ads[a].content
    BY <1>1, <1>2, <1>3, <2>1, <2>2, <2>3 DEF Reviewed, OthersWait, moderationVars, InCheck
  <2>4. CASE ads'[a].content # ads[a].content
    <3>1. ContentOf(ads'[a]) # ContentOf(ads[a])
      BY <2>1, <2>4 DEF ContentOf, Exists
    <3>2. ~UnderReview(a)
      BY <1>5, <3>1 DEF Next, NoteEdits
    <3> QED
      BY <1>2, <2>2, <3>2, UnderReviewIs DEF OnScreen
  <2> QED
    BY <2>3, <2>4
<1> QED
  BY <1>4, <1>5

(* What a step of Moderation does to its messages.                         *)
LEMMA ReadPendingIs ==
  ASSUME Types, NEW e \in Waiting(MA), ReadPending(e)
  PROVE  /\ UNCHANGED <<listingVars, moderationVars>>
         /\ work[MA] = None
         /\ Waiting(MA) \ {e} \subseteq Waiting(MA)'
         /\ work'[LM] = work[LM] /\ Waiting(LM)' = Waiting(LM)
<1>1. PICK memory : Take(MA, e, memory)
  BY DEF ReadPending, MA
<1>2. MA \in Consumer /\ LM \in Consumer \ {MA}
  BY KeptIs DEF LM, MA
<1>3. /\ work[MA] = None
      /\ Waiting(MA) \ {e} \subseteq Waiting(MA)'
      /\ work'[LM] = work[LM] /\ Waiting(LM)' = Waiting(LM)
  BY <1>1, <1>2, TakeIs, ShapeHolds
<1> QED
  BY <1>3 DEF ReadPending

(* The automatic check ends with its message.                              *)
LEMMA CheckEnds ==
  ASSUME Types, NEW evs, Finish(MA, evs, FALSE)
  PROVE  /\ work'[MA] = None /\ Waiting(MA) \subseteq Waiting(MA)'
         /\ work'[LM] = work[LM] /\ Waiting(LM)' = Waiting(LM) \cup Seen(LM, evs)
<1>1. PICK lost \in BOOLEAN : Finish(MA, evs, lost)
  OBVIOUS
<1>2. MA \in Consumer /\ LM \in Consumer \ {MA}
  BY KeptIs DEF LM, MA
<1> QED
  BY <1>1, <1>2, FinishIs, ShapeHolds

(* Verdicts are for Listing.                                               *)
LEMMA SeenVerdict ==
  ASSUME NEW subject, NEW a, NEW arg
  PROVE  Seen(LM, {Event(subject, a, arg)}) =
           IF subject \in ModerationSubjects THEN {Event(subject, a, arg)} ELSE {}
BY DEF Seen, SeenBy, Subscribed, LM, Event

(* The check of an ad saves its task, and approves it or not.              *)
LEMMA CheckSavesIs ==
  ASSUME Types, work[MA] # None, NEW a \in Ad, work[MA].event.ad = a,
         NEW status \in {"approved", "manual"}, CheckSaves(status)
  PROVE  /\ InCheck(a)
         /\ tasks'[a].content = work[MA].memory /\ tasks'[a].status = status
         /\ tasks'[a] # None
         /\ \A b \in Ad \ {a} : tasks'[b] = tasks[b] /\ checked'[b] = checked[b]
                                  /\ verdicts'[b] = verdicts[b]
         /\ verdicts'[a] = IF status = "approved" THEN 1 ELSE 0
         /\ checked[a] \subseteq checked'[a]
         /\ status = "approved" => work[MA].memory \in checked'[a]
         /\ work'[MA] = None /\ Waiting(MA) \subseteq Waiting(MA)'
         /\ work'[LM] = work[LM]
         /\ Waiting(LM)' = Waiting(LM) \cup
              (IF status = "approved" THEN {Event("ad.approved", a, "")} ELSE {})
<1>1. PICK evs : /\ evs = IF status = "approved" THEN {Event("ad.approved", a, "")} ELSE {}
                 /\ Finish(MA, evs, FALSE)
  BY DEF CheckSaves
<1>2. Seen(LM, evs) = IF status = "approved" THEN {Event("ad.approved", a, "")} ELSE {}
  <2>1. Seen(LM, {Event("ad.approved", a, "")}) = {Event("ad.approved", a, "")}
    BY SeenVerdict DEF ModerationSubjects
  <2>2. Seen(LM, {}) = {}
    BY DEF Seen
  <2> QED
    BY <1>1, <2>1, <2>2
<1>3. /\ work'[MA] = None /\ Waiting(MA) \subseteq Waiting(MA)'
      /\ work'[LM] = work[LM]
      /\ Waiting(LM)' = Waiting(LM) \cup
           (IF status = "approved" THEN {Event("ad.approved", a, "")} ELSE {})
  BY <1>1, <1>2, CheckEnds
<1>4. PICK c : c = work[MA].memory
  OBVIOUS
<1>5. /\ tasks' = [tasks EXCEPT ![a] = [content |-> c, status |-> status]]
      /\ verdicts' = [verdicts EXCEPT ![a] = IF status = "approved" THEN 1 ELSE 0]
      /\ checked' = IF status = "approved"
                    THEN [checked EXCEPT ![a] = @ \cup {c}] ELSE checked
  BY <1>4 DEF CheckSaves, SaveTask
<1>6. /\ tasks'[a].content = c /\ tasks'[a].status = status
      /\ verdicts'[a] = IF status = "approved" THEN 1 ELSE 0
      /\ \A b \in Ad \ {a} : tasks'[b] = tasks[b] /\ verdicts'[b] = verdicts[b]
  BY <1>5 DEF Types, DataTypes
<1>7. /\ \A b \in Ad \ {a} : checked'[b] = checked[b]
      /\ checked[a] \subseteq checked'[a]
      /\ status = "approved" => c \in checked'[a]
  BY <1>5 DEF Types, DataTypes
<1>8. InCheck(a)
  BY DEF CheckSaves, InCheck
<1>9. tasks'[a] # None
  <2>1. c \in Content
    BY <1>4, <1>8, HandIsProper, KeptIs DEF InCheck
  <2>2. [content |-> c, status |-> status] \in Task
    BY <2>1 DEF Task, TaskStatus
  <2> QED
    BY <1>5, <2>2, PipelineAssumption DEF Types, DataTypes
<1> QED
  BY <1>3, <1>4, <1>6, <1>7, <1>8, <1>9

(* The verdict of a moderator on a task that is still in the queue.        *)
LEMMA DecideIs ==
  ASSUME Types, NEW m \in Moderator, NEW s \in TaskStatus \ {"manual"}, Decide(m, s),
         NEW a \in Ad, a = open[m].ad
  PROVE  /\ open[m] # None /\ open'[m] = None
         /\ \A n \in Moderator \ {m} : open'[n] = open[n]
         /\ work' = work
         /\ Waiting(MA) \subseteq Waiting(MA)'
         /\ \A b \in Ad \ {a} : tasks'[b] = tasks[b] /\ checked'[b] = checked[b]
                                  /\ verdicts'[b] = verdicts[b]
         /\ checked[a] \subseteq checked'[a]
         /\ \/ /\ UNCHANGED <<tasks, checked, verdicts>>
               /\ Waiting(LM)' = Waiting(LM)
            \/ /\ IsManual(a) /\ ~IsManual(a)'
               /\ verdicts'[a] = verdicts[a] + 1
               /\ s = "approved" => open[m].content \in checked'[a]
               /\ Waiting(LM)' = Waiting(LM) \cup {Event(VerdictSubject(s), a, s)}
<1>1. /\ open[m] # None
      /\ open' = [open EXCEPT ![m] = None]
      /\ work' = work
  BY DEF Decide
<1>2. {LM, MA} \subseteq Consumer
  BY KeptIs
<1>3. open'[m] = None /\ \A n \in Moderator \ {m} : open'[n] = open[n]
  BY <1>1 DEF Types, DataTypes
<1>4. CASE IsManual(a)
  <2>1. PICK subject \in ModerationSubjects : subject = VerdictSubject(s)
    BY DEF VerdictSubject, ModerationSubjects
  <2>2. /\ tasks' = [tasks EXCEPT ![a].status = s]
        /\ verdicts' = [verdicts EXCEPT ![a] = @ + 1]
        /\ checked' = IF s = "approved"
                      THEN [checked EXCEPT ![a] = @ \cup {open[m].content}]
                      ELSE checked
        /\ Publish({Event(subject, a, s)})
    BY <1>4, <2>1 DEF Decide
  <2>3. tasks[a] \in Task
    BY <1>4 DEF IsManual, Types, DataTypes
  <2>4. tasks'[a].status = s /\ \A b \in Ad \ {a} : tasks'[b] = tasks[b]
    BY <2>2, <2>3 DEF Types, DataTypes, Task
  <2>5. /\ verdicts'[a] = verdicts[a] + 1
        /\ \A b \in Ad \ {a} : verdicts'[b] = verdicts[b] /\ checked'[b] = checked[b]
        /\ checked[a] \subseteq checked'[a]
        /\ s = "approved" => open[m].content \in checked'[a]
    BY <2>2 DEF Types, DataTypes
  <2>6. /\ Waiting(LM)' = Waiting(LM) \cup {Event(subject, a, s)}
        /\ Waiting(MA) \subseteq Waiting(MA)'
    BY <1>1, <1>2, <2>2, PublishIs, ShapeHolds, SeenVerdict
  <2> QED
    BY <1>1, <1>3, <1>4, <2>1, <2>4, <2>5, <2>6 DEF IsManual
<1>5. CASE ~IsManual(a)
  <2>1. UNCHANGED <<tasks, verdicts, checked, queue>>
    BY <1>5 DEF Decide
  <2> QED
    BY <1>1, <1>3, <2>1 DEF Waiting
<1> QED
  BY <1>4, <1>5

(* The other steps of Moderation move no task.                             *)
LEMMA TakedownIs ==
  ASSUME Types, NEW r \in Report, NEW x \in Action, ResolveReport(r, x)
  PROVE  /\ UNCHANGED <<tasks, open, checked, verdicts, work>>
         /\ Waiting(MA) \subseteq Waiting(MA)'
         /\ \A e \in Waiting(LM)' \ Waiting(LM) : e.subject = "ad.blocked"
<1>1. Publish(TakedownEvents(r, x)) /\ UNCHANGED <<tasks, open, checked, verdicts, work>>
  BY DEF ResolveReport
<1>2. {LM, MA} \subseteq Consumer
  BY KeptIs
<1>3. \A e \in TakedownEvents(r, x) : e.subject = "ad.blocked"
  <2>1. Event("ad.blocked", Target[r].id, "").subject = "ad.blocked"
    BY DEF Event
  <2> QED
    BY <2>1 DEF TakedownEvents
<1>4. \A e \in Seen(LM, TakedownEvents(r, x)) : e.subject = "ad.blocked"
  BY <1>3 DEF Seen, SeenBy, LM
<1>5. /\ Waiting(LM)' = Waiting(LM) \cup Seen(LM, TakedownEvents(r, x))
      /\ Waiting(MA) \subseteq Waiting(MA)'
  BY <1>1, <1>2, PublishIs, ShapeHolds
<1> QED
  BY <1>1, <1>4, <1>5

(* A restart of Moderation gives back the ad in hand.                      *)
LEMMA ModerationRestartIs ==
  ASSUME Types, ModerationRestart
  PROVE  /\ UNCHANGED <<tasks, open, checked, verdicts>>
         /\ work[MA] # None /\ work'[MA] = None
         /\ Waiting(MA)' = Waiting(MA) \cup {work[MA].event}
         /\ work'[LM] = work[LM] /\ Waiting(LM)' = Waiting(LM)
<1>1. GiveBack({MA}) /\ work[MA] # None /\ UNCHANGED moderationVars
  BY DEF ModerationRestart, MA
<1>2. {MA} \in SUBSET Consumer /\ {LM, MA} \subseteq Consumer /\ LM \notin {MA}
  BY KeptIs DEF LM, MA
<1>3. /\ \A d \in Consumer : work'[d] = IF d \in {MA} THEN None ELSE work[d]
      /\ \A d \in Consumer :
           Waiting(d)' = Waiting(d) \cup
             (IF d \in {MA} /\ work[d] # None THEN {work[d].event} ELSE {})
  BY <1>1, <1>2, GiveBackIs, ShapeHolds
<1> QED
  BY <1>1, <1>2, <1>3 DEF moderationVars

(* Of what is found good nothing is forgotten.                             *)
LEMMA CheckedGrows ==
  ASSUME Types, Next, NEW a \in Ad
  PROVE  checked[a] \subseteq checked'[a]
<1>1. CASE ListingStep \/ SearchStep
  BY <1>1, ListingIs, SearchIs DEF moderationVars
<1>2. CASE ModerationStep
  <2>1. ASSUME NEW e \in Waiting(MA), ReadPending(e) PROVE checked[a] \subseteq checked'[a]
    BY <2>1, ReadPendingIs DEF moderationVars
  <2>2. ASSUME Check PROVE checked[a] \subseteq checked'[a]
    <3>1. work[MA] # None /\ work[MA].event.ad \in Ad
      BY <2>2, CheckIs, HandIsProper, KeptIs
    <3> QED
      BY <2>2, <3>1, CheckIs, CheckSavesIs
  <2>3. ASSUME NEW m \in Moderator, NEW s \in TaskStatus \ {"manual"}, Decide(m, s)
        PROVE  checked[a] \subseteq checked'[a]
    <3>1. open[m].ad \in Ad
      BY <2>3 DEF Decide, Types, DataTypes, Screen
    <3> QED
      BY <2>3, <3>1, DecideIs
  <2>4. ASSUME NEW r \in Report, NEW x \in Action, ResolveReport(r, x)
        PROVE  checked[a] \subseteq checked'[a]
    BY <2>4, TakedownIs
  <2>5. ASSUME \/ ModerationRestart
               \/ \E m \in Moderator, b \in Ad : OpenTask(m, b)
               \/ \E r \in Report : CreateReport(r)
        PROVE  checked[a] \subseteq checked'[a]
    BY <2>5 DEF ModerationRestart, OpenTask, CreateReport, moderationVars
  <2> QED
    BY <1>2, <2>1, <2>2, <2>3, <2>4, <2>5, ModerationSteps
<1> QED
  BY <1>1, <1>2 DEF Next

(* Moderation approves the content that was looked at.                     *)
LEMMA ModerationReviews ==
  ASSUME Types, ReviewIsOfTheAd, Next, ModerationStep
  PROVE  ReviewIsOfTheAd'
<1>1. UNCHANGED ads
  BY ModerationIs
<1>2. /\ \A a : Exists(a)' <=> Exists(a)
      /\ \A a : a \notin reworked' => a \notin reworked
      /\ \A a \in Ad : checked[a] \subseteq checked'[a]
  BY <1>1, HistoryGrows, CheckedGrows DEF Exists
<1> SUFFICES ASSUME NEW a \in Ad, Exists(a), a \notin reworked
             PROVE  Reviewed(a)'
  BY <1>1, <1>2 DEF ReviewIsOfTheAd, Reviewed, InCheck, Approving
<1>3. Reviewed(a)
  BY ReviewedIs
<1>4. ASSUME NEW e \in Waiting(MA), ReadPending(e) PROVE Reviewed(a)'
  <2>1. /\ UNCHANGED <<tasks, open, checked>>
        /\ work'[LM] = work[LM] /\ Waiting(LM)' = Waiting(LM)
    BY <1>4, ReadPendingIs DEF moderationVars
  <2>2. Approving(a)' <=> Approving(a)
    BY <2>1 DEF Approving
  <2>3. ModerationStep => UNCHANGED searchVars
    BY ModerationSteps
  <2>4. InCheck(a)' => work'[MA].memory = ads[a].content
    BY <1>4, <2>3, ReadPendingTypes DEF InCheck
  <2> QED
    BY <1>1, <1>3, <2>1, <2>2, <2>4 DEF Reviewed, IsManual
<1>5. ASSUME Check PROVE Reviewed(a)'
  <2>1. PICK b \in Ad : work[MA] # None /\ b = work[MA].event.ad
    BY <1>5, CheckIs, HandIsProper, KeptIs
  <2>2. UNCHANGED open
    BY <1>5, CheckIs
  <2>3. ASSUME NEW status \in {"approved", "manual"}, CheckSaves(status) PROVE Reviewed(a)'
    <3>1. /\ InCheck(b)
          /\ tasks'[b].content = work[MA].memory
          /\ \A c \in Ad \ {b} : tasks'[c] = tasks[c] /\ checked'[c] = checked[c]
          /\ checked[b] \subseteq checked'[b]
          /\ status = "approved" => work[MA].memory \in checked'[b]
          /\ work'[MA] = None
          /\ work'[LM] = work[LM]
          /\ Waiting(LM)' = Waiting(LM) \cup
               (IF status = "approved" THEN {Event("ad.approved", b, "")} ELSE {})
      BY <2>1, <2>3, CheckSavesIs
    <3>2. ~InCheck(a)'
      BY <3>1 DEF InCheck
    <3>3. CASE a = b
      <4>1. work[MA].memory = ads[a].content
        BY <1>3, <3>1, <3>3 DEF Reviewed
      <4>2. tasks'[a].content = ads[a].content
        BY <3>1, <3>3, <4>1
      <4>3. Approving(a)' => ads[a].content \in checked'[a]
        BY <1>3, <3>1, <3>3, <4>1 DEF Reviewed, Approving
      <4> QED
        BY <1>1, <1>3, <2>2, <3>1, <3>2, <3>3, <4>2, <4>3 DEF Reviewed
    <3>4. CASE a # b
      <4>1. Event("ad.approved", b, "").ad = b
        BY DEF Event
      <4>2. Approving(a)' <=> Approving(a)
        BY <3>1, <3>4, <4>1 DEF Approving
      <4> QED
        BY <1>1, <1>3, <2>2, <3>1, <3>2, <3>4, <4>2 DEF Reviewed, IsManual
    <3> QED
      BY <3>3, <3>4
  <2>4. CASE Finish(MA, {}, FALSE) /\ UNCHANGED <<tasks, checked, verdicts>>
    <3>1. PICK evs : evs = {} /\ Finish(MA, evs, FALSE)
      BY <2>4
    <3>2. Seen(LM, evs) = {}
      BY <3>1 DEF Seen
    <3>3. work'[MA] = None /\ work'[LM] = work[LM] /\ Waiting(LM)' = Waiting(LM)
      BY <3>1, <3>2, CheckEnds
    <3> QED
      BY <1>1, <1>3, <2>2, <2>4, <3>3 DEF Reviewed, IsManual, Approving, InCheck
  <2> QED
    BY <1>5, <2>3, <2>4, CheckIs
<1>6. ASSUME NEW m \in Moderator, NEW b \in Ad, OpenTask(m, b) PROVE Reviewed(a)'
  <2>1. /\ IsManual(b)
        /\ open' = [open EXCEPT ![m] = [ad |-> b, content |-> tasks[b].content]]
        /\ UNCHANGED <<tasks, checked, busVars>>
    BY <1>6 DEF OpenTask
  <2>2. /\ open'[m].ad = b /\ open'[m].content = tasks[b].content
        /\ \A n \in Moderator \ {m} : open'[n] = open[n]
    BY <2>1 DEF Types, DataTypes
  <2> QED
    BY <1>1, <1>3, <2>1, <2>2
    DEF Reviewed, IsManual, Approving, InCheck, Waiting, busVars
<1>7. ASSUME NEW m \in Moderator, NEW s \in TaskStatus \ {"manual"}, Decide(m, s)
      PROVE  Reviewed(a)'
  <2>1. PICK b \in Ad : b = open[m].ad
    BY <1>7 DEF Decide, Types, DataTypes, Screen
  <2>2. /\ open[m] # None /\ open'[m] = None
        /\ \A n \in Moderator \ {m} : open'[n] = open[n]
        /\ work' = work
        /\ \A c \in Ad \ {b} : tasks'[c] = tasks[c] /\ checked'[c] = checked[c]
        /\ checked[b] \subseteq checked'[b]
        /\ \/ /\ UNCHANGED <<tasks, checked, verdicts>>
              /\ Waiting(LM)' = Waiting(LM)
           \/ /\ IsManual(b) /\ ~IsManual(b)'
              /\ s = "approved" => open[m].content \in checked'[b]
              /\ Waiting(LM)' = Waiting(LM) \cup {Event(VerdictSubject(s), b, s)}
    BY <1>7, <2>1, DecideIs
  <2>3. /\ Event(VerdictSubject(s), b, s).ad = b
        /\ Event(VerdictSubject(s), b, s).subject = "ad.approved" => s = "approved"
    BY DEF Event, VerdictSubject
  <2>4. CASE UNCHANGED <<tasks, checked, verdicts>> /\ Waiting(LM)' = Waiting(LM)
    BY <1>1, <1>3, <2>2, <2>4 DEF Reviewed, IsManual, Approving, InCheck
  <2>5. CASE a = b /\ ~(UNCHANGED <<tasks, checked, verdicts>> /\ Waiting(LM)' = Waiting(LM))
    <3>1. Approving(a)' => ads[a].content \in checked'[a]
      BY <1>3, <2>1, <2>2, <2>3, <2>5 DEF Reviewed, Approving
    <3>2. InCheck(a)' <=> InCheck(a)
      BY <2>2 DEF InCheck
    <3> QED
      BY <1>1, <1>3, <2>1, <2>2, <2>5, <3>1, <3>2 DEF Reviewed
  <2>6. CASE a # b /\ ~(UNCHANGED <<tasks, checked, verdicts>> /\ Waiting(LM)' = Waiting(LM))
    <3>1. Approving(a)' <=> Approving(a)
      BY <2>2, <2>3, <2>6 DEF Approving
    <3>2. InCheck(a)' <=> InCheck(a)
      BY <2>2 DEF InCheck
    <3> QED
      BY <1>1, <1>3, <2>1, <2>2, <2>6, <3>1, <3>2 DEF Reviewed, IsManual
  <2> QED
    BY <2>4, <2>5, <2>6
<1>8. ASSUME NEW r \in Report, NEW x \in Action, ResolveReport(r, x) PROVE Reviewed(a)'
  <2>1. /\ UNCHANGED <<tasks, open, checked, verdicts, work>>
        /\ \A e \in Waiting(LM)' \ Waiting(LM) : e.subject = "ad.blocked"
    BY <1>8, TakedownIs
  <2>2. Approving(a)' => Approving(a)
    BY <2>1 DEF Approving
  <2> QED
    BY <1>1, <1>3, <2>1, <2>2 DEF Reviewed, IsManual, InCheck
<1>9. ASSUME ModerationRestart PROVE Reviewed(a)'
  BY <1>1, <1>3, <1>9, ModerationRestartIs DEF Reviewed, IsManual, InCheck, Approving
<1>10. ASSUME NEW r \in Report, CreateReport(r) PROVE Reviewed(a)'
  BY <1>1, <1>3, <1>10
  DEF CreateReport, Reviewed, IsManual, InCheck, Approving, Waiting, busVars
<1> QED
  BY <1>4, <1>5, <1>6, <1>7, <1>8, <1>9, <1>10, ModerationSteps

(* Search takes no part in the review.                                     *)
LEMMA SearchReviews ==
  ASSUME Types, ReviewIsOfTheAd, Next, SearchStep
  PROVE  ReviewIsOfTheAd'
<1>1. /\ UNCHANGED <<ads, moderationVars>>
      /\ work'[LM] = work[LM] /\ Waiting(LM)' = Waiting(LM)
      /\ work'[MA] = work[MA]
  BY SearchIs
<1>2. reworked \subseteq reworked'
  BY HistoryGrows
<1> QED
  BY <1>1, <1>2 DEF ReviewIsOfTheAd, Exists, IsManual, moderationVars

(* Every step keeps the review.                                            *)
LEMMA ReviewStep ==
  ASSUME Types, ReviewIsOfTheAd, EditsAreGood, Next
  PROVE  ReviewIsOfTheAd'
BY ListingReviews, ModerationReviews, SearchReviews DEF Next

(* Every step keeps the edits under way.                                   *)
LEMMA EditsStep ==
  ASSUME Types, ReviewIsOfTheAd, EditsAreGood, Next
  PROVE  EditsAreGood'
<1>1. EditsBegin
  <2>1. CASE ListingStep
    BY <2>1, ListingIs
  <2>2. CASE ModerationStep \/ SearchStep
    BY <2>2, ModerationIs, SearchIs DEF EditsBegin
  <2> QED
    BY <2>1, <2>2 DEF Next
<1>2. ASSUME NEW a \in Ad, NEW content, Good(a, content) PROVE Good(a, content)'
  BY <1>2, CheckedGrows, HistoryGrows DEF Good
<1>3. ASSUME NEW k \in Connection, call'[k] # None, call'[k].op = "edits",
             call'[k].row.status = "active"
      PROVE  /\ Good(call[k].ad, call[k].row.content)'
  <2>1. call'[k] \in Call
    BY <1>3, TypesStep DEF Types, DataTypes
  <2>2. PICK a \in Ad : a = call'[k].ad
    BY <2>1 DEF Call
  <2>3. PICK content : content = call'[k].row.content
    OBVIOUS
  <2>4. Good(a, content)
    <3>1. CASE call'[k] = call[k]
      BY <1>3, <2>2, <2>3, <3>1 DEF EditsAreGood
    <3>2. CASE /\ Exists(a) /\ ads[a].status = "active"
               /\ ads[a].content = content
      BY <3>2 DEF ReviewIsOfTheAd, Good
    <3> QED
      BY <1>1, <1>3, <2>2, <2>3, <3>1, <3>2 DEF EditsBegin
  <2>5. Good(a, content)'
    BY <1>2, <2>4
  <2> QED
    BY <2>2, <2>3, <2>5 DEF Good
<1> QED
  BY <1>3 DEF EditsAreGood

(* A task has one verdict at most: it leaves the queue with the first.     *)
LEMMA TasksStep ==
  ASSUME Types, TasksAreCounted, Next
  PROVE  TasksAreCounted'
<1>1. ASSUME UNCHANGED <<tasks, verdicts>> PROVE TasksAreCounted'
  BY <1>1 DEF TasksAreCounted, IsManual
<1>2. CASE ListingStep \/ SearchStep
  BY <1>1, <1>2, ListingIs, SearchIs DEF moderationVars
<1>3. CASE ModerationStep
  <2>1. ASSUME Check PROVE TasksAreCounted'
    <3>1. PICK b \in Ad : work[MA] # None /\ b = work[MA].event.ad
      BY <2>1, CheckIs, HandIsProper, KeptIs
    <3>2. ASSUME NEW status \in {"approved", "manual"}, CheckSaves(status)
          PROVE  TasksAreCounted'
      <4>1. /\ tasks'[b].status = status
            /\ \A c \in Ad \ {b} : tasks'[c] = tasks[c] /\ verdicts'[c] = verdicts[c]
            /\ verdicts'[b] = IF status = "approved" THEN 1 ELSE 0
        BY <3>1, <3>2, CheckSavesIs
      <4> QED
        BY <4>1 DEF TasksAreCounted, IsManual
    <3> QED
      BY <1>1, <2>1, <3>2, CheckIs
  <2>2. ASSUME NEW m \in Moderator, NEW s \in TaskStatus \ {"manual"}, Decide(m, s)
        PROVE  TasksAreCounted'
    <3>1. PICK b \in Ad : b = open[m].ad
      BY <2>2 DEF Decide, Types, DataTypes, Screen
    <3>2. \/ UNCHANGED <<tasks, verdicts>>
          \/ /\ IsManual(b) /\ ~IsManual(b)'
             /\ verdicts'[b] = verdicts[b] + 1
             /\ \A c \in Ad \ {b} : tasks'[c] = tasks[c] /\ verdicts'[c] = verdicts[c]
      BY <2>2, <3>1, DecideIs
    <3> QED
      BY <1>1, <3>2 DEF TasksAreCounted, IsManual
  <2>3. ASSUME \/ \E e \in Waiting(MA) : ReadPending(e)
               \/ ModerationRestart
               \/ \E m \in Moderator, b \in Ad : OpenTask(m, b)
               \/ \E r \in Report : CreateReport(r)
               \/ \E r \in Report, x \in Action : ResolveReport(r, x)
        PROVE  TasksAreCounted'
    BY <1>1, <2>3
    DEF ReadPending, ModerationRestart, OpenTask, CreateReport, ResolveReport, moderationVars
  <2> QED
    BY <1>3, <2>1, <2>2, <2>3, ModerationSteps
<1> QED
  BY <1>2, <1>3 DEF Next

(* A pending ad waits for its verdict somewhere.                           *)
UnderWay(a) ==
  \/ IsManual(a)
  \/ \E e \in Waiting(MA) : e.ad = a /\ e.arg = "pending"
  \/ InCheck(a)
  \/ \E e \in Waiting(LM) : e.ad = a
  \/ work[LM] # None /\ work[LM].event.ad = a /\ work[LM].memory.from = "pending"
                     /\ work[LM].memory.to # None

Pending(a) == Exists(a) /\ ads[a].status = "pending"

(* Pending ads are under way if each is.                                   *)
LEMMA UnderWayIs == PendingIsUnderWay <=> \A a \in Ad : Pending(a) => UnderWay(a)
BY DEF PendingIsUnderWay, Pending, UnderWay, InCheck

(* A pending ad was so before, or comes before the automatic check.        *)
LEMMA PendingFrom ==
  ASSUME Types, Next, NEW a \in Ad, Pending(a)'
  PROVE  \/ Pending(a) /\ ads'[a].status = ads[a].status
         \/ Coming(a)
<1>1. RowStep(a)
  BY RowStepAlways DEF RowSteps
<1>2. DecisionEnds(a) => ads'[a].status # "pending"
  BY DecisionIs DEF DecisionEnds
<1> QED
  BY <1>1, <1>2, PipelineAssumption
  DEF RowStep, Pending, Exists, EditEnds, StatusMoves

(* Listing forgets no pending ad, ...                                      *)
LEMMA ListingPends ==
  ASSUME Types, PendingIsUnderWay, ListingStep, Next, NEW a \in Ad, Pending(a)'
  PROVE  UnderWay(a)'
<1>1. OthersWait /\ UNCHANGED moderationVars
  BY ListingIs
<1>2. CASE Coming(a)
  BY <1>2 DEF Coming, UnderWay
<1>3. CASE Pending(a)
  <2>1. UnderWay(a)
    BY <1>3, UnderWayIs
  <2>2. CASE \/ IsManual(a)
             \/ \E e \in Waiting(MA) : e.ad = a /\ e.arg = "pending"
             \/ InCheck(a)
    BY <1>1, <2>2 DEF OthersWait, moderationVars, IsManual, InCheck, UnderWay
  <2>3. CASE \E e \in Waiting(LM) : e.ad = a
    <3>1. PICK x \in Waiting(LM) : x.ad = a
      BY <2>3
    <3>2. CASE \E e \in Waiting(LM) : ReadDecision(e)
      <4>1. PICK e \in Waiting(LM) : ReadDecision(e)
        BY <3>2
      <4>2. Waiting(LM) \ {e} \subseteq Waiting(LM)'
        BY <4>1, ReadDecisionIs
      <4>3. CASE x = e
        <5>1. /\ work'[LM] # None /\ work'[LM].event = e
              /\ work'[LM].memory.from = "pending"
              /\ work'[LM].memory.to = Plan(e.subject, "pending")
          BY <1>3, <3>1, <4>1, <4>3, ReadDecisionTypes, ListingIs DEF Pending
        <5>2. e.subject \in ModerationSubjects
          BY WaitingIsProper, KeptIs DEF Proper, Subscribed, LM, SI
        <5>3. Plan(e.subject, "pending") # None
          BY <5>2, StatusIsNotNone DEF Plan, ModerationSubjects, Status
        <5> QED
          BY <3>1, <4>3, <5>1, <5>3 DEF UnderWay
      <4>4. CASE x # e
        BY <3>1, <4>2, <4>4 DEF UnderWay
      <4> QED
        BY <4>3, <4>4
    <3>3. CASE DecisionsWait \/ ApplyDecision \/ ListingRestart
      <4>1. Waiting(LM) \subseteq Waiting(LM)'
        BY <3>3, ApplyDecisionIs, ListingRestartIs DEF DecisionsWait
      <4> QED
        BY <3>1, <4>1 DEF UnderWay
    <3> QED
      BY <3>2, <3>3, ListingIs
  <2>4. CASE work[LM] # None /\ work[LM].event.ad = a /\ work[LM].memory.from = "pending"
             /\ work[LM].memory.to # None
    <3>1. CASE DecisionsWait
      BY <2>4, <3>1 DEF DecisionsWait, UnderWay
    <3>2. CASE \E e \in Waiting(LM) : ReadDecision(e)
      BY <2>4, <3>2, ReadDecisionIs
    <3>3. CASE ApplyDecision
      <4>1. Matches(a, "pending")
        BY <1>3 DEF Matches, Pending
      <4>2. ads'[a].status = work[LM].memory.to
        BY <2>4, <3>3, <4>1, ApplyDecisionIs
      <4>3. work[LM].memory.to # "pending"
        BY <2>4, DecisionIs
      <4> QED
        BY <4>2, <4>3 DEF Pending
    <3>4. CASE ListingRestart
      <4>1. work[LM].event \in Waiting(LM)'
        BY <2>4, <3>4, ListingRestartIs
      <4> QED
        BY <2>4, <4>1 DEF UnderWay
    <3> QED
      BY <3>1, <3>2, <3>3, <3>4, ListingIs
  <2> QED
    BY <2>1, <2>2, <2>3, <2>4 DEF UnderWay
<1> QED
  BY <1>2, <1>3, PendingFrom

(* ... nor does Moderation, ...                                            *)
LEMMA ModerationPends ==
  ASSUME Types, PendingIsUnderWay, HandIsPending, ModerationStep, NEW a \in Ad, Pending(a)
  PROVE  UnderWay(a)'
<1>1. /\ UNCHANGED <<ads, searchVars>>
      /\ work'[LM] = work[LM] /\ Waiting(LM) \subseteq Waiting(LM)'
  BY ModerationIs
<1>2. UnderWay(a)
  BY UnderWayIs
<1>3. ASSUME \/ \E e \in Waiting(LM) : e.ad = a
             \/ work[LM] # None /\ work[LM].event.ad = a /\ work[LM].memory.from = "pending"
                  /\ work[LM].memory.to # None
      PROVE  UnderWay(a)'
  BY <1>1, <1>3 DEF UnderWay
<1>4. ASSUME UNCHANGED tasks, work'[MA] = work[MA], Waiting(MA) \subseteq Waiting(MA)'
      PROVE  UnderWay(a)'
  BY <1>1, <1>2, <1>4 DEF UnderWay, IsManual, InCheck
<1>5. ASSUME NEW e \in Waiting(MA), ReadPending(e) PROVE UnderWay(a)'
  <2>1. UNCHANGED tasks /\ work[MA] = None /\ Waiting(MA) \ {e} \subseteq Waiting(MA)'
    BY <1>5, ReadPendingIs DEF moderationVars
  <2>2. CASE IsManual(a)
    BY <2>1, <2>2 DEF IsManual, UnderWay
  <2>3. CASE \E x \in Waiting(MA) : x.ad = a /\ x.arg = "pending"
    <3>1. PICK x \in Waiting(MA) : x.ad = a /\ x.arg = "pending"
      BY <2>3
    <3>2. CASE x = e
      <4>1. Matches(e.ad, "pending")
        BY <3>1, <3>2 DEF Matches, Pending
      <4>2. /\ work'[MA] # None /\ work'[MA].event = e
            /\ work'[MA].memory = ads[a].content
        BY <1>1, <1>5, <3>1, <3>2, <4>1, ReadPendingTypes
      <4>3. ads[a].content # None
        BY StatusOfRow, PipelineAssumption DEF Types, DataTypes, Pending, Exists, Row
      <4> QED
        BY <3>1, <3>2, <4>2, <4>3 DEF UnderWay, InCheck
    <3>3. CASE x # e
      BY <2>1, <3>1, <3>3 DEF UnderWay
    <3> QED
      BY <3>2, <3>3
  <2> QED
    BY <1>2, <1>3, <2>1, <2>2, <2>3 DEF UnderWay, InCheck
<1>6. ASSUME Check PROVE UnderWay(a)'
  <2>1. PICK b \in Ad : work[MA] # None /\ b = work[MA].event.ad
    BY <1>6, CheckIs, HandIsProper, KeptIs
  <2>2. ASSUME NEW status \in {"approved", "manual"}, CheckSaves(status) PROVE UnderWay(a)'
    <3>1. /\ tasks'[b].status = status /\ tasks'[b] # None
          /\ \A c \in Ad \ {b} : tasks'[c] = tasks[c]
          /\ Waiting(MA) \subseteq Waiting(MA)'
          /\ Waiting(LM)' = Waiting(LM) \cup
               (IF status = "approved" THEN {Event("ad.approved", b, "")} ELSE {})
      BY <2>1, <2>2, CheckSavesIs
    <3>2. Event("ad.approved", b, "").ad = b
      BY DEF Event
    <3>3. CASE a = b
      BY <3>1, <3>2, <3>3 DEF UnderWay, IsManual
    <3>4. CASE a # b
      <4>1. ~InCheck(a)
        BY <2>1, <3>4 DEF InCheck
      <4> QED
        BY <1>2, <1>3, <3>1, <3>4, <4>1 DEF UnderWay, IsManual
    <3> QED
      BY <3>3, <3>4
  <2>3. CASE work[MA].memory = None /\ Finish(MA, {}, FALSE)
               /\ UNCHANGED <<tasks, checked, verdicts>>
    <3>1. PICK evs : Finish(MA, evs, FALSE)
      BY <2>3
    <3>2. Waiting(MA) \subseteq Waiting(MA)' /\ ~InCheck(a)
      BY <2>3, <3>1, CheckEnds DEF InCheck
    <3> QED
      BY <1>2, <1>3, <2>3, <3>2 DEF UnderWay, IsManual
  <2> QED
    BY <1>6, <2>2, <2>3, CheckIs
<1>7. ASSUME NEW m \in Moderator, NEW s \in TaskStatus \ {"manual"}, Decide(m, s)
      PROVE  UnderWay(a)'
  <2>1. PICK b \in Ad : b = open[m].ad
    BY <1>7 DEF Decide, Types, DataTypes, Screen
  <2>2. /\ work' = work
        /\ Waiting(MA) \subseteq Waiting(MA)'
        /\ \A c \in Ad \ {b} : tasks'[c] = tasks[c]
        /\ \/ UNCHANGED <<tasks, checked, verdicts>>
           \/ Waiting(LM)' = Waiting(LM) \cup {Event(VerdictSubject(s), b, s)}
    BY <1>7, <2>1, DecideIs
  <2>3. CASE UNCHANGED tasks
    BY <1>4, <2>2, <2>3
  <2>4. CASE a = b /\ Waiting(LM)' = Waiting(LM) \cup {Event(VerdictSubject(s), b, s)}
    <3>1. Event(VerdictSubject(s), b, s).ad = b
      BY DEF Event
    <3> QED
      BY <2>4, <3>1 DEF UnderWay
  <2>5. CASE a # b
    BY <1>1, <1>2, <2>2, <2>5 DEF UnderWay, IsManual, InCheck
  <2> QED
    BY <2>2, <2>3, <2>4, <2>5
<1>8. ASSUME NEW r \in Report, NEW x \in Action, ResolveReport(r, x) PROVE UnderWay(a)'
  BY <1>4, <1>8, TakedownIs
<1>9. ASSUME ModerationRestart PROVE UnderWay(a)'
  <2>1. /\ UNCHANGED tasks
        /\ Waiting(MA)' = Waiting(MA) \cup {work[MA].event}
    BY <1>9, ModerationRestartIs
  <2>2. CASE InCheck(a)
    BY <2>1, <2>2 DEF InCheck, HandIsPending, UnderWay
  <2>3. CASE ~InCheck(a)
    BY <1>2, <1>3, <2>1, <2>3 DEF UnderWay, IsManual
  <2> QED
    BY <2>2, <2>3
<1>10. ASSUME \/ \E m \in Moderator, b \in Ad : OpenTask(m, b)
              \/ \E r \in Report : CreateReport(r)
       PROVE  UnderWay(a)'
  BY <1>4, <1>10 DEF OpenTask, CreateReport, Waiting, busVars
<1> QED
  BY <1>5, <1>6, <1>7, <1>8, <1>9, <1>10, ModerationSteps

(* ... nor anybody.                                                        *)
LEMMA PendingStep ==
  ASSUME Types, PendingIsUnderWay, HandIsPending, Next
  PROVE  PendingIsUnderWay'
<1> SUFFICES ASSUME NEW a \in Ad, Pending(a)'
             PROVE  UnderWay(a)'
  BY DEF PendingIsUnderWay, Pending, UnderWay, InCheck
<1>1. CASE ListingStep
  BY <1>1, ListingPends
<1>2. CASE ModerationStep
  <2>1. Pending(a)
    BY <1>2, ModerationIs DEF Pending, Exists
  <2> QED
    BY <1>2, <2>1, ModerationPends
<1>3. CASE SearchStep
  <2>1. /\ UNCHANGED <<ads, moderationVars>>
        /\ \A c \in {LM, MA} : work'[c] = work[c] /\ Waiting(c)' = Waiting(c)
    BY <1>3, SearchIs
  <2>2. Pending(a)
    BY <2>1 DEF Pending, Exists
  <2>3. UnderWay(a)
    BY <2>2, UnderWayIs
  <2> QED
    BY <2>1, <2>3 DEF UnderWay, IsManual, InCheck, moderationVars
<1> QED
  BY <1>1, <1>2, <1>3 DEF Next

(* What the automatic check has in hand came to it as pending.             *)
LEMMA HandStep ==
  ASSUME Types, HandIsPending, Next
  PROVE  HandIsPending'
<1>1. ASSUME work'[MA] \in {None, work[MA]} PROVE HandIsPending'
  BY <1>1 DEF HandIsPending
<1>2. CASE ListingStep \/ SearchStep
  BY <1>1, <1>2, ListingIs, SearchIs DEF OthersWait
<1>3. CASE ModerationStep
  <2>1. ASSUME NEW e \in Waiting(MA), ReadPending(e) PROVE HandIsPending'
    BY <1>3, <2>1, ReadPendingTypes, ModerationSteps DEF HandIsPending
  <2>2. ASSUME Check PROVE HandIsPending'
    <3>1. PICK evs : Finish(MA, evs, FALSE)
      BY <2>2, CheckIs DEF CheckSaves
    <3> QED
      BY <1>1, <3>1, CheckEnds
  <2>3. ASSUME NEW m \in Moderator, NEW s \in TaskStatus \ {"manual"}, Decide(m, s)
        PROVE  HandIsPending'
    BY <1>1, <2>3 DEF Decide
  <2>4. ASSUME NEW r \in Report, NEW x \in Action, ResolveReport(r, x) PROVE HandIsPending'
    BY <1>1, <2>4 DEF ResolveReport
  <2>5. ASSUME ModerationRestart PROVE HandIsPending'
    BY <1>1, <2>5, ModerationRestartIs
  <2>6. ASSUME \/ \E m \in Moderator, b \in Ad : OpenTask(m, b)
               \/ \E r \in Report : CreateReport(r)
        PROVE  HandIsPending'
    BY <1>1, <2>6 DEF OpenTask, CreateReport, busVars
  <2> QED
    BY <1>3, <2>1, <2>2, <2>3, <2>4, <2>5, <2>6, ModerationSteps
<1> QED
  BY <1>2, <1>3 DEF Next

-----------------------------------------------------------------------------
(* The invariant holds.                                                    *)

(* A consumer that is quiet has nothing waiting and nothing in hand.       *)
LEMMA QuietIs ==
  ASSUME NEW c, Quiet(c)
  PROVE  Waiting(c) = {} /\ work[c] = None
<1>1. BagToSet(EmptyBag) = {}
  BY DEF BagToSet, EmptyBag, SetToBag
<1> QED
  BY <1>1 DEF Quiet, Waiting

(* The invariant holds before the first ad.                                *)
LEMMA InitInv == Init => Inv
<1> SUFFICES ASSUME Init PROVE Inv
  OBVIOUS
<1>1. \A a \in Ad : ads[a] = None /\ tasks[a] = None /\ index[a] = None /\ verdicts[a] = 0
  BY DEF Init, ListingInit, ModerationInit, SearchInit
<1>2. \A c \in Consumer : queue[c] = EmptyBag /\ work[c] = None
  BY DEF Init, BusInit
<1>3. \A c \in Consumer : Waiting(c) = {}
  BY <1>2, QuietIs DEF Quiet
<1>4. BusTypes
  <2>1. queue = [c \in Consumer |-> queue[c]] /\ work = [c \in Consumer |-> work[c]]
    BY DEF Init, BusInit
  <2>2. \A c \in Consumer : IsABag(queue[c])
    BY <1>2 DEF IsABag, EmptyBag, SetToBag
  <2> QED
    BY <1>2, <1>3, <2>1, <2>2 DEF BusTypes, BusShape
<1>5. DataTypes
  <2>1. /\ ads \in [Ad -> Row \cup {None, Gone}]
        /\ call \in [Connection -> Call \cup {None}]
        /\ now \in Nat
        /\ budget \in [Input -> Nat]
    BY PipelineAssumption DEF Init, ListingInit
  <2>2. /\ tasks \in [Ad -> Task \cup {None}]
        /\ open \in [Moderator -> Screen \cup {None}]
        /\ reports \in [Report -> ReportRow \cup {None}]
        /\ checked \in [Ad -> SUBSET Content]
        /\ verdicts \in [Ad -> Nat]
    BY DEF Init, ModerationInit
  <2>3. index \in [Ad -> Doc \cup {None}] /\ reindex = None
    BY DEF Init, SearchInit
  <2> QED
    BY <2>1, <2>2, <2>3 DEF DataTypes
<1>6. \A k \in Connection : call[k] = None
  BY DEF Init, ListingInit
<1>7. \A m \in Moderator : open[m] = None
  BY DEF Init, ModerationInit
<1>8. LM \in Consumer /\ MA \in Consumer /\ SI \in Consumer
  BY KeptIs
<1>9. Types
  BY <1>1, <1>2, <1>4, <1>5, <1>6, <1>7, <1>8
  DEF Types, CallsAreSound, AdsComeFirst, PlanIsKept
<1>10. \A a \in Ad : ~Exists(a) /\ ~IsManual(a) /\ Projection(a) = None
  BY <1>1 DEF Exists, IsManual, Projection
<1>11. TasksAreCounted /\ ReviewIsOfTheAd /\ EditsAreGood /\ PendingIsUnderWay /\ HandIsPending
  BY <1>1, <1>2, <1>6, <1>8, <1>10
  DEF TasksAreCounted, ReviewIsOfTheAd, EditsAreGood, PendingIsUnderWay, HandIsPending
<1>12. TakedownsHold
  BY <1>2, <1>8 DEF Init, TakedownsHold, TakedownHoldsUnlessRaced
<1>13. IndexFollows /\ CopiesAreTrue
  BY <1>1, <1>2, <1>8, <1>10 DEF Init, SearchInit, IndexFollows, CopiesAreTrue
<1> QED
  BY <1>9, <1>11, <1>12, <1>13 DEF Inv

(* Every step keeps the index and the copies.                              *)
LEMMA IndexStep ==
  ASSUME Types, IndexFollows, CopiesAreTrue, Next
  PROVE  IndexFollows' /\ CopiesAreTrue'
BY ListingFollows, ModerationFollows, SearchFollows DEF Next

(* Every step keeps the invariant.                                         *)
LEMMA NextInv == Inv /\ [Next]_vars => Inv'
<1> SUFFICES ASSUME Inv, [Next]_vars PROVE Inv'
  OBVIOUS
<1>1. CASE Next
  BY <1>1, TypesStep, TasksStep, ReviewStep, EditsStep, PendingStep, HandStep, TakedownsStep,
     IndexStep DEF Inv
<1>2. CASE UNCHANGED vars
  <2>1. /\ UNCHANGED <<queue, work, ads, call, now, budget>>
        /\ UNCHANGED <<tasks, open, reports, checked, verdicts>>
        /\ UNCHANGED <<index, reindex, overlap, reworked, removed, raced>>
    BY <1>2 DEF vars, busVars, listingVars, moderationVars, searchVars, history
  <2>2. Types'
    BY <2>1
    DEF Inv, Types, DataTypes, BusTypes, BusShape, Waiting, Proper, CallsAreSound, AdsComeFirst,
        PlanIsKept
  <2>3. TasksAreCounted' /\ ReviewIsOfTheAd' /\ EditsAreGood'
    BY <2>1
    DEF Inv, TasksAreCounted, IsManual, ReviewIsOfTheAd, Exists, Waiting, EditsAreGood, Good
  <2>4. PendingIsUnderWay' /\ HandIsPending' /\ TakedownsHold'
    BY <2>1
    DEF Inv, PendingIsUnderWay, IsManual, Exists, Waiting, HandIsPending, TakedownsHold,
        TakedownHoldsUnlessRaced
  <2>5. IndexFollows' /\ CopiesAreTrue'
    BY <2>1 DEF Inv, IndexFollows, CopiesAreTrue, Projection, Exists, Waiting
  <2> QED
    BY <2>2, <2>3, <2>4, <2>5 DEF Inv
<1> QED
  BY <1>1, <1>2

(* The life of an ad keeps its invariant, whatever the order in which      *)
(* Listing, Moderation and Search take their messages.                     *)
THEOREM InvHolds == Spec => []Inv
BY InitInv, NextInv, PTL DEF Spec

-----------------------------------------------------------------------------
(* What the invariant is for.                                              *)

(* What is on the site was found good, or its content changed while a      *)
(* verdict on the former one was still to come; each task gets one verdict *)
(* at most, and no pending ad is forgotten (moderator.go,                  *)
(* repo/moderation.go, applyModeration).                                   *)
THEOREM ReviewStaysSound == Spec => []ReviewIsSound
<1>1. Inv => ReviewIsSound
  <2> SUFFICES ASSUME Inv PROVE ReviewIsSound
    OBVIOUS
  <2>1. TypeOK
    BY DEF Inv, Types, DataTypes, BusTypes, BusShape, TypeOK
  <2>2. ActiveContentWasChecked
    BY DEF Inv, ReviewIsOfTheAd, ActiveContentWasChecked
  <2>3. OneVerdictPerTask
    BY DEF Inv, TasksAreCounted, OneVerdictPerTask
  <2>4. PendingIsBeingReviewed
    <3>1. ASSUME NEW a \in Ad, Exists(a), ads[a].status = "pending", Quiet(LM), Quiet(MA)
          PROVE  IsManual(a)
      BY <3>1, QuietIs DEF Inv, PendingIsUnderWay
    <3> QED
      BY <3>1 DEF PendingIsBeingReviewed, LM, MA
  <2> QED
    BY <2>1, <2>2, <2>3, <2>4 DEF ReviewIsSound
<1> QED
  BY <1>1, InvHolds, PTL

(* No submission, renewal, verdict, expiry or promotion brings back an ad  *)
(* whose takedown Listing has handled, unless the takedown met a change of *)
(* the row (domain.transitions, the guarded UPDATEs of repo/ad.go).        *)
THEOREM TakedownsStay == Spec => []TakedownHoldsUnlessRaced
<1>1. Inv => TakedownHoldsUnlessRaced
  BY DEF Inv, TakedownsHold
<1> QED
  BY <1>1, InvHolds, PTL

(* When the indexer has nothing to do, the index is what the rows say,     *)
(* but for the ads that changed while the reindex tool held a copy of them *)
(* (indexer.go, reindex.go).                                               *)
THEOREM IndexIsExactWhenQuiet == Spec => []QuietIndexIsExact
<1>1. Inv => QuietIndexIsExact
  <2> SUFFICES ASSUME Inv, Quiet(SI), NEW a \in Ad \ overlap
               PROVE  index[a] = Projection(a)
    BY DEF QuietIndexIsExact, SI
  <2> QED
    BY QuietIs DEF Inv, IndexFollows
<1> QED
  BY <1>1, InvHolds, PTL

(* A row that expires is due when it is written, whatever the sweeper has  *)
(* read.                                                                   *)
LEMMA ExpiryIsDue ==
  ASSUME Types, Next, NEW a \in Ad, Exists(a), ads[a].status = "active",
         ads'[a] \notin {None, Gone}, ads'[a].status = "expired"
  PROVE  ads[a].expires # Never /\ ads[a].expires <= now
<1>1. RowStep(a)
  BY RowStepAlways DEF RowSteps
<1>2. DecisionEnds(a) => ads'[a].status # "expired"
  BY DecisionIs DEF DecisionEnds
<1> QED
  BY <1>1, <1>2, PipelineAssumption DEF RowStep, EditEnds, StatusMoves, Due, Exists

(* A TOP ends early by another activation only.                            *)
LEMMA TopEndsByActivation ==
  ASSUME Types, Next, NEW a \in Ad, Exists(a), ads[a].top, ads[a].ends > now,
         ads'[a] \notin {None, Gone},
         ~ads'[a].top \/ ads'[a].ends < ads[a].ends
  PROVE  /\ work[LP] # None /\ work'[LP] = None
         /\ ads'[a].ends = work[LP].event.arg
<1>1. RowStep(a)
  BY RowStepAlways DEF RowSteps
<1>2. ads[a].ends \in Nat /\ now \in Nat
  BY StatusOfRow DEF Types, DataTypes, Row
<1>3. TopMoves(a)
  BY <1>1, <1>2, PipelineAssumption DEF RowStep, Exists
<1>4. ~(ads'[a].top = ads[a].top /\ ads'[a].ends = ads[a].ends)
  <2>1. CASE ~ads'[a].top
    BY <2>1, Zenon
  <2>2. CASE ads'[a].ends < ads[a].ends
    <3>1. \A n \in Nat : ~(n < n)
      OBVIOUS
    <3>2. ads'[a].ends # ads[a].ends
      BY <1>2, <2>2, <3>1, Zenon
    <3> QED
      BY <3>2, Zenon
  <2> QED
    BY <2>1, <2>2
<1>5. ~PromoOver(ads[a])
  BY <1>2 DEF PromoOver
<1> QED
  BY <1>3, <1>4, <1>5 DEF TopMoves

(* A lifetime that was renewed, and a promotion that was prolonged, after  *)
(* a sweep has read the ad, are not cut short by it (expiry.go,            *)
(* ExpireWithEvent, ClearPromotionWithEvent).                              *)
THEOREM EndsAreAlwaysRespected == Spec => EndsAreRespected
<1> DEFINE Expiry == \A a \in Ad :
             Exists(a) /\ ads[a].status = "active"
               /\ ads'[a] \notin {None, Gone} /\ ads'[a].status = "expired"
             => ads[a].expires # Never /\ ads[a].expires <= now
           Cut == \A a \in Ad :
             Exists(a) /\ ads[a].top /\ ads[a].ends > now /\ ads'[a] \notin {None, Gone}
               /\ (~ads'[a].top \/ ads'[a].ends < ads[a].ends)
             => /\ work["listing-promotion"] # None
                /\ work'["listing-promotion"] = None
                /\ ads'[a].ends = work["listing-promotion"].event.arg
<1>1. Inv /\ [Next]_vars => [Expiry]_vars
  BY ExpiryIsDue DEF Inv
<1>2. Inv /\ [Next]_vars => [Cut]_vars
  BY TopEndsByActivation DEF Inv, LP
<1>3. Spec => [][Expiry]_vars /\ [][Cut]_vars
  <2> HIDE DEF Expiry, Cut
  <2> QED BY <1>1, <1>2, InvHolds, PTL DEF Spec
<1> QED
  BY <1>3 DEF EndsAreRespected, ExpiryRespectsRenewal, TopCutOnlyByActivation

=============================================================================
