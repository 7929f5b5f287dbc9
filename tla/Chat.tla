-------------------------------- MODULE Chat --------------------------------
(***************************************************************************)
(* The chat service: conversations, messages, read marks, the projection   *)
(* of bans and the blocking of messages, over the hub of ChatHub.          *)
(*                                                                         *)
(* conversations, messages, banned   the tables                            *)
(* outbox   message_sent events for the recipient, by message              *)
(* tokens   the send limiter, kept in the memory of each replica           *)
(* req      the requests in progress; a request also names the row it adds *)
(* orders   events of moderation: ban a user, block a message; both        *)
(*          consumers apply, then mark the event, then acknowledge it      *)
(* processed   the inbox of those consumers                                *)
(* budget   how often each input may still happen                          *)
(***************************************************************************)
EXTENDS ChatHub

CONSTANTS Request, Ad, Owner(_), Burst, Budgets

ASSUME ChatAssumption == Burst \in Nat /\ \A a \in Ad : Owner(a) \in User

VARIABLES conversations, messages, banned, outbox, tokens, req, orders, processed, budget

(* History.                                                                *)
VARIABLES
  acked,  \* messages whose sender was told that they were sent
  lost    \* messages whose frame was not published

tables == <<conversations, messages, banned, outbox>>
service == <<tokens, req, orders, processed, budget, acked, lost>>
vars == <<hubVars, tables, service>>

Idle == [op |-> "idle"]
Done == [op |-> "done"]
May(input) == budget[input] > 0
Spend(input) == budget' = [budget EXCEPT ![input] = @ - 1]
At(q, op, step) == req[q].op = op /\ req[q].step = step
GoTo(q, r) == req' = [req EXCEPT ![q] = r]
(* Ids grow with time (uuid v7): a request takes the next one.             *)
Fresh(q) == req[q] = Idle /\ \A p \in Request : p < q => req[p] # Idle

Conversation == [id : Request, ad : Ad, buyer : User, seller : User]
Message == [id : Request, conv : Request, sender : User, read : BOOLEAN, blocked : BOOLEAN]
Participant(k, u) == u \in {k.buyer, k.seller}
Counterpart(k, u) == IF u = k.buyer THEN k.seller ELSE k.buyer
ConversationOf(id) == CHOOSE k \in conversations : k.id = id
MessageOf(id) == CHOOSE m \in messages : m.id = id

Init ==
  /\ HubInit
  /\ conversations = {} /\ messages = {} /\ banned = {} /\ outbox = {}
  /\ tokens = [r \in Replica |-> [u \in User |-> Burst]]
  /\ req = [q \in Request |-> Idle]
  /\ orders = {} /\ processed = {} /\ acked = {} /\ lost = {}
  /\ budget \in Budgets

(***************************************************************************)
(* StartConversation                                                       *)
(***************************************************************************)
Start(q, u, a, r) ==
  /\ Fresh(q) /\ May("starts") /\ Spend("starts")
  /\ IF u \in banned THEN GoTo(q, Done)
     ELSE GoTo(q, [op |-> "start", step |-> "ad", user |-> u, ad |-> a, at |-> r])
  /\ UNCHANGED <<hubVars, tables, tokens, orders, processed, acked, lost>>

(* GetAd of Listing, which may not have the ad or fail.                    *)
StartGetAd(q) ==
  /\ At(q, "start", "ad")
  /\ \/ /\ Owner(req[q].ad) # req[q].user
        /\ GoTo(q, [req[q] EXCEPT !.step = "insert"])
     \/ GoTo(q, Done)
  /\ UNCHANGED <<hubVars, tables, tokens, orders, processed, budget, acked, lost>>

(* EnsureConversation: the row that is there, or a new one; the caller is  *)
(* answered with the row.                                                  *)
Same(k, a, buyer) == k.ad = a /\ k.buyer = buyer /\ k.seller = Owner(a)
(* Mutant: the caller is answered with the row he wanted to add.           *)
EnsuredNew(q) ==
  [id |-> q, ad |-> req[q].ad, buyer |-> req[q].user, seller |-> Owner(req[q].ad)]

Ensured(q) ==
  LET k == [id |-> q, ad |-> req[q].ad, buyer |-> req[q].user, seller |-> Owner(req[q].ad)]
      there == {x \in conversations : Same(x, k.ad, k.buyer)}
  IN  IF there = {} THEN k ELSE CHOOSE x \in there : TRUE

StartInsert(q) ==
  /\ At(q, "start", "insert")
  /\ conversations' = conversations \cup {Ensured(q)}
  /\ GoTo(q, [op |-> "started", answer |-> Ensured(q)])
  /\ UNCHANGED <<hubVars, messages, banned, outbox, tokens, orders, processed, budget, acked, lost>>

(***************************************************************************)
(* SendMessage, over HTTP (via = Free) or a live websocket.                *)
(***************************************************************************)
Via(u, r, c) == c = Free \/ (c \in Entry(r, u) /\ conn[c].state = "live")

(* The limiter counts first; then the ban and the conversation are read,   *)
(* in an order that makes no difference.                                   *)
Send(q, u, k, r, c) ==
  /\ Fresh(q) /\ May("sends") /\ Spend("sends") /\ Via(u, r, c)
  /\ tokens' = IF tokens[r][u] > 0 THEN [tokens EXCEPT ![r][u] = @ - 1] ELSE tokens
  /\ IF tokens[r][u] > 0 /\ u \notin banned /\ Participant(k, u)
     THEN GoTo(q, [op |-> "send", step |-> "presence", user |-> u, conv |-> k.id, at |-> r,
                   via |-> c, to |-> Counterpart(k, u), online |-> FALSE, seen |-> {}])
     ELSE GoTo(q, [op |-> "refused", via |-> c])
  /\ UNCHANGED <<hubVars, tables, orders, processed, acked, lost>>

(* Whoever answers the presence request; no answer in 300 ms or an error   *)
(* counts as offline.                                                      *)
SendPresence(q) ==
  /\ At(q, "send", "presence")
  /\ \E answer \in {Online(req[q].to), FALSE} :
       /\ answer \/ ~Online(req[q].to) \/ May("timeouts")
       /\ budget' = IF Online(req[q].to) /\ ~answer
                    THEN [budget EXCEPT !.timeouts = @ - 1] ELSE budget
       /\ GoTo(q, [req[q] EXCEPT !.step = "insert", !.online = answer,
            !.seen = {c \in Connection : conn[c].state = "live" /\ conn[c].user = req[q].to}])
  /\ UNCHANGED <<hubVars, tables, tokens, orders, processed, acked, lost>>

(* InsertMessage: the message and, for a recipient who is offline, the     *)
(* event, in one transaction.                                              *)
Inserted(q) ==
  /\ messages' = messages \cup {[id |-> q, conv |-> req[q].conv, sender |-> req[q].user,
                                 read |-> FALSE, blocked |-> FALSE]}
  /\ outbox' = IF req[q].online THEN outbox ELSE outbox \cup {q}
  /\ UNCHANGED <<conversations, banned>>

SendInsert(q) ==
  /\ At(q, "send", "insert")
  /\ Inserted(q)
  /\ GoTo(q, [req[q] EXCEPT !.step = "deliver"])
  /\ UNCHANGED <<hubVars, tokens, orders, processed, budget, acked, lost>>

(* Mutant: the event is not in the transaction of the message.             *)
SendInsertFailsApart(q) ==
  /\ At(q, "send", "insert")
  /\ May("failures") /\ Spend("failures")
  /\ outbox' = outbox \cup {q}
  /\ GoTo(q, [op |-> "refused", via |-> req[q].via])
  /\ UNCHANGED <<hubVars, conversations, messages, banned, tokens, orders, processed, acked, lost>>

(* The transaction fails, or commits and its answer is lost: the sender is *)
(* told that nothing was sent, and the frame is not published.             *)
SendInsertFails(q) ==
  /\ At(q, "send", "insert")
  /\ May("failures") /\ Spend("failures")
  /\ \/ UNCHANGED tables
     \/ Inserted(q)
  /\ GoTo(q, [op |-> "refused", via |-> req[q].via])
  /\ UNCHANGED <<hubVars, tokens, orders, processed, acked, lost>>

Frame(kind, id) == [kind |-> kind, id |-> id]

SendDeliver(q) ==
  /\ At(q, "send", "deliver")
  /\ \/ /\ PublishTo(req[q].to, Frame("message", q))
        /\ UNCHANGED <<lost, budget>>
     \/ /\ May("failures") /\ Spend("failures")
        /\ LosePublished
        /\ lost' = lost \cup {q}
  /\ GoTo(q, [op |-> "sent", via |-> req[q].via, seen |-> req[q].seen])
  /\ UNCHANGED <<tables, tokens, orders, processed, acked>>

(* The answer: 201, an ack frame, an error or an error frame.              *)
Answer(q) ==
  /\ req[q].op \in {"sent", "refused"}
  /\ IF req[q].via \in Connection
     THEN Reply(req[q].via, Frame(IF req[q].op = "sent" THEN "ack" ELSE "error", q))
     ELSE UNCHANGED hubVars
  /\ acked' = IF req[q].op = "sent" THEN acked \cup {q} ELSE acked
  /\ GoTo(q, IF req[q].op = "sent" THEN [op |-> "answered", seen |-> req[q].seen] ELSE Done)
  /\ UNCHANGED <<tables, tokens, orders, processed, budget, lost>>

(***************************************************************************)
(* MarkRead: one UPDATE of what the others sent; a receipt if it found any.*)
(***************************************************************************)
Unread(k, u) == {m \in messages : m.conv = k.id /\ m.sender # u /\ ~m.read}

MarkRead(q, u, k) ==
  /\ Fresh(q) /\ May("reads") /\ Spend("reads")
  /\ Participant(k, u)
  /\ messages' = {IF m \in Unread(k, u) THEN [m EXCEPT !.read = TRUE] ELSE m : m \in messages}
  /\ GoTo(q, IF Unread(k, u) = {} THEN Done
             ELSE [op |-> "read", to |-> Counterpart(k, u), via |-> Free])
  /\ UNCHANGED <<hubVars, conversations, banned, outbox, tokens, orders, processed, acked, lost>>

NotifyRead(q) ==
  /\ req[q].op = "read"
  /\ PublishTo(req[q].to, Frame("read", q))
  /\ GoTo(q, Done)
  /\ UNCHANGED <<tables, tokens, orders, processed, budget, acked, lost>>

(***************************************************************************)
(* The limiter: a bucket refills, and is forgotten when it is idle.        *)
(***************************************************************************)
Refill(r, u) ==
  /\ tokens[r][u] < Burst /\ May("refills") /\ Spend("refills")
  /\ tokens' = [tokens EXCEPT ![r][u] = @ + 1]
  /\ UNCHANGED <<hubVars, tables, req, orders, processed, acked, lost>>

(* After ten idle minutes; at the rates that are configured it is full.    *)
Janitor(r, u) ==
  /\ tokens[r][u] < Burst /\ May("refills") /\ Spend("refills")
  /\ tokens' = [tokens EXCEPT ![r][u] = Burst]
  /\ UNCHANGED <<hubVars, tables, req, orders, processed, acked, lost>>

(***************************************************************************)
(* Moderation: bozor.user.banned and bozor.chat.message_blocked.           *)
(***************************************************************************)
Order == [kind : {"ban"}, of : User] \cup [kind : {"block"}, of : Request]

Moderate(o) ==
  /\ May("orders") /\ Spend("orders")
  /\ o.kind = "block" => \E m \in messages : m.id = o.of
  /\ \A x \in orders : x.order # o
  /\ orders' = orders \cup {[order |-> o, step |-> "pending"]}
  /\ UNCHANGED <<hubVars, tables, tokens, req, processed, acked, lost>>

(* An event that is not in the inbox is applied.                           *)
Applied(o) ==
  /\ banned' = IF o.kind = "ban" THEN banned \cup {o.of} ELSE banned
  /\ messages' = IF o.kind = "ban" THEN messages
                 ELSE {IF m.id = o.of THEN [m EXCEPT !.blocked = TRUE] ELSE m : m \in messages}
  /\ UNCHANGED <<conversations, outbox>>

(* Mutant: the event is marked first and applied after that.               *)
HandleApplyMarksFirst(x) ==
  /\ \/ /\ x.step = "pending" /\ x.order \notin processed
        /\ processed' = processed \cup {x.order}
        /\ orders' = (orders \ {x}) \cup {[x EXCEPT !.step = "marked"]}
        /\ UNCHANGED tables
     \/ /\ x.step = "marked"
        /\ Applied(x.order)
        /\ orders' = (orders \ {x}) \cup {[x EXCEPT !.step = "over"]}
        /\ UNCHANGED processed
  /\ UNCHANGED <<hubVars, tokens, req, budget, acked, lost>>

HandleApply(x) ==
  /\ x.step = "pending" /\ x.order \notin processed
  /\ Applied(x.order)
  /\ orders' = (orders \ {x}) \cup {[x EXCEPT !.step = "applied"]}
  /\ UNCHANGED <<hubVars, tokens, req, processed, budget, acked, lost>>

HandleMark(x) ==
  /\ x.step = "applied"
  /\ processed' = processed \cup {x.order}
  /\ orders' = (orders \ {x}) \cup {[x EXCEPT !.step = "over"]}
  /\ UNCHANGED <<hubVars, tables, tokens, req, budget, acked, lost>>

(* The same event again: it is in the inbox.                               *)
HandleAgain(x) ==
  /\ x.step = "pending" /\ x.order \in processed
  /\ orders' = (orders \ {x}) \cup {[x EXCEPT !.step = "over"]}
  /\ UNCHANGED <<hubVars, tables, tokens, req, processed, budget, acked, lost>>

(* A handler fails or its acknowledgement is lost: JetStream sends again.  *)
Redeliver(x) ==
  /\ x.step # "pending" /\ May("failures") /\ Spend("failures")
  /\ orders' = (orders \ {x}) \cup {[x EXCEPT !.step = "pending"]}
  /\ UNCHANGED <<hubVars, tables, tokens, req, processed, acked, lost>>

(***************************************************************************)
(* The hub on its own, and the death of a replica with what it is doing.   *)
(***************************************************************************)
Connect(c, u, r) == May("connects") /\ Spend("connects") /\ Accept(c, u, r)
Leave(c) == May("leaves") /\ Spend("leaves") /\ Close(c)
Refuse(c) == May("failures") /\ Spend("failures") /\ AddFails(c)
RunHub(c, r) ==
  /\ Add(c) \/ AddSubscribes(c) \/ AddResponds(c) \/ Remove(c) \/ RemoveResponder(c)
       \/ Write(c) \/ \E u \in User : Deliver(r, u)
  /\ UNCHANGED budget

HubStep(c, u, r) ==
  /\ Connect(c, u, r) \/ Leave(c) \/ Refuse(c) \/ RunHub(c, r)
  /\ UNCHANGED <<tables, tokens, req, orders, processed, acked, lost>>

HasPlace(q) == req[q].op \in {"start", "send"}
Crash(r) ==
  /\ May("crashes") /\ Spend("crashes")
  /\ LoseReplica(r)
  /\ req' = [q \in Request |-> IF HasPlace(q) /\ req[q].at = r THEN Done ELSE req[q]]
  /\ tokens' = [tokens EXCEPT ![r] = [u \in User |-> Burst]]
  /\ UNCHANGED <<tables, orders, processed, acked, lost>>

RequestStep(q) ==
  \/ StartGetAd(q) \/ StartInsert(q)
  \/ SendPresence(q) \/ SendInsert(q) \/ SendInsertFails(q) \/ SendDeliver(q) \/ Answer(q)
  \/ NotifyRead(q)

ModerationStep(x) == HandleApply(x) \/ HandleMark(x) \/ HandleAgain(x)

Next ==
  \/ \E q \in Request, u \in User, r \in Replica :
       \/ \E a \in Ad : Start(q, u, a, r)
       \/ \E k \in conversations, c \in Connection \cup {Free} : Send(q, u, k, r, c)
       \/ \E k \in conversations : MarkRead(q, u, k)
  \/ \E q \in Request : RequestStep(q)
  \/ \E r \in Replica, u \in User : Refill(r, u) \/ Janitor(r, u)
  \/ \E o \in Order : Moderate(o)
  \/ \E x \in orders : ModerationStep(x) \/ Redeliver(x)
  \/ \E c \in Connection, u \in User, r \in Replica : HubStep(c, u, r)
  \/ \E r \in Replica : Crash(r)

(* Handlers and the loops of a connection are scheduled; the consumers are *)
(* given their events until they acknowledge them.                         *)
Fairness ==
  /\ \A c \in Connection, r \in Replica :
       WF_vars(RunHub(c, r) /\ UNCHANGED <<tables, tokens, req, orders, processed, acked, lost>>)
  /\ \A q \in Request : WF_vars(RequestStep(q))
  /\ \A o \in Order : WF_vars(\E x \in orders : x.order = o /\ ModerationStep(x))

Spec == Init /\ [][Next]_vars /\ Fairness

(***************************************************************************)
(* Properties.                                                             *)
(***************************************************************************)
ReqOps == {"idle", "done", "start", "started", "send", "sent", "answered", "refused", "read"}

(* The state has the shape the tables and the hub give it (migrations/00001*)
(* and 00002, hub.go); a channel never holds more than its capacity.       *)
TypeOK ==
  /\ conversations \subseteq Conversation /\ messages \subseteq Message
  /\ banned \subseteq User /\ outbox \subseteq Request /\ processed \subseteq Order
  /\ \A r \in Replica, u \in User : tokens[r][u] \in 0..Burst
  /\ \A q \in Request : req[q].op \in ReqOps
  /\ \A c \in Connection : Len(queue[c]) <= SendBuffer

(* A message that was acknowledged without an event for a notification     *)
(* (app/chat.go SendMessage: the recipient answered the presence request)  *)
(* was not silent: each connection of the recipient that was live at the   *)
(* answer got it, will get it or has been closed since.                    *)
Shown(q, c) ==
  conn[c].state # "live" \/ Frame("message", q) \in got[c] \cup OnTheWay(c)
QuietMessageWasShown == \A q \in acked \ (outbox \cup lost) :
  req[q].op = "answered" => \A c \in req[q].seen : Shown(q, c)

(* Two starts of one buyer about one ad are answered with the same         *)
(* conversation, whatever they ran into (repo/chat.go EnsureConversation). *)
OneConversation == \A p, q \in Request :
  /\ req[p].op = "started" /\ req[q].op = "started"
  /\ req[p].answer.ad = req[q].answer.ad /\ req[p].answer.buyer = req[q].answer.buyer
  => req[p].answer.id = req[q].answer.id /\ req[p].answer \in conversations

(* The sender is told that a message was sent only if it is stored, and    *)
(* the event of a message never outlives it (one transaction).             *)
AcknowledgedIsStored == acked \cup outbox \subseteq {m.id : m \in messages}

(* What a moderator ordered happens: a banned user ends up in the          *)
(* projection, a blocked message is hidden, also when the process dies     *)
(* between the change and its mark in the inbox (worker.go once).          *)
InForce(o) == IF o.kind = "ban" THEN o.of \in banned
              ELSE \E m \in messages : m.id = o.of /\ m.blocked
OrdersAreObeyed == \A o \in Order : (\E x \in orders : x.order = o) ~> InForce(o)

(* A user whose connections are all over is offline for the senders of     *)
(* messages sooner or later, so that he is notified again (Remove).        *)
Nobody(u) == \A c \in Connection : conn[c].user = u => conn[c].state \in {"closing", "gone"}
SilenceEnds == \A u \in User : Nobody(u) ~> (~Online(u) \/ ~Nobody(u))

(* Who is connected misses nothing, and who is not is known to be away     *)
(* (ws/hub.go, ws/presence.go).                                            *)
ConnectionsAreServed == TypeOK /\ NoGapOnLiveConnection /\ PresenceIsConnections

(* What was started and sent is there for both, in one conversation,       *)
(* stored, and shown or notified (app/chat.go, repo/chat.go).              *)
MessagesAreKept ==
  /\ OneConversation
  /\ AcknowledgedIsStored
  /\ QuietMessageWasShown

(* In the end moderators are obeyed and users who have left are offline.   *)
ChatSettles == OrdersAreObeyed /\ SilenceEnds
=============================================================================
