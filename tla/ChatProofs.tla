----------------------------- MODULE ChatProofs -----------------------------
(***************************************************************************)
(* Theorems about the chat service: who is connected misses nothing and is *)
(* known to be there, and what was started and sent is kept.               *)
(***************************************************************************)
EXTENDS Chat, SequenceTheorems, TLAPS

(* What a frame is.                                                        *)
Frames == [kind : {"message", "read", "ack", "error"}, id : Request]

(* The type of the variables of the hub.                                   *)
ConnStates == {"unused", "open", "live", "closing", "gone"}
ConnRow == [state : ConnStates, user : User \cup {Free}, at : Replica \cup {Free}]
HubTypeOK ==
  /\ conn \in [Connection -> ConnRow]
  /\ lock \in [Replica -> Connection \cup {Free}]
  /\ sub \in SUBSET Subscription /\ psub \in SUBSET Subscription
  /\ wire \in [Subscription -> Seq(Frames)]
  /\ queue \in [Connection -> Seq(Frames)]
  /\ got \in [Connection -> SUBSET Frames] /\ due \in [Connection -> SUBSET Frames]

(* A connection that was accepted has a user and a replica, its channel    *)
(* is no longer than it may be, and nothing is due to it before the hub    *)
(* has it.                                                                 *)
Placed ==
  \A c \in Connection :
    /\ conn[c].state = "unused" => conn[c].at = Free
    /\ conn[c].state # "unused" => conn[c].user \in User /\ conn[c].at \in Replica
    /\ Len(queue[c]) <= SendBuffer
    /\ conn[c].state \in {"unused", "open"} => due[c] = {}

(* Who holds the mutex of a hub between two statements is adding the first *)
(* connection of a user, or has removed his last one.                      *)
HolderIsAlone ==
  \A r \in Replica : lock[r] # Free =>
    /\ conn[lock[r]].at = r /\ conn[lock[r]].state \in {"open", "gone"}
    /\ \A d \in Connection :
         ~(Registered(d) /\ conn[d].at = r /\ conn[d].user = conn[lock[r]].user)

(* The user whose first connection is being added has his subscription to  *)
(* frames already; the one whose last connection was removed still has the *)
(* one that answers for his presence.                                      *)
Has(r, u) == \E c \in Connection : Registered(c) /\ conn[c].at = r /\ conn[c].user = u
Held(r, u, s) == lock[r] # Free /\ conn[lock[r]].state = s /\ conn[lock[r]].user = u
SubscriptionsFit ==
  \A r \in Replica, u \in User :
    /\ <<r, u>> \in sub <=> Has(r, u) \/ Held(r, u, "open")
    /\ <<r, u>> \in psub <=> Has(r, u) \/ Held(r, u, "gone")

HubInv == HubTypeOK /\ Placed /\ HolderIsAlone /\ SubscriptionsFit /\ NoGapOnLiveConnection

(* What a request has in hand, by what it does and how far it is.          *)
Asked == [op : {"start"}, step : {"ad", "insert"}, user : User, ad : Ad, at : Replica]
Started == [op : {"started"}, answer : Conversation]
Sending == [op : {"send"}, step : {"presence", "insert", "deliver"}, user : User, conv : Request,
            at : Replica, via : Connection \cup {Free}, to : User, online : BOOLEAN,
            seen : SUBSET Connection]
Sent == [op : {"sent"}, via : Connection \cup {Free}, seen : SUBSET Connection]
Answered == [op : {"answered"}, seen : SUBSET Connection]
Refusal == [op : {"refused"}, via : Connection \cup {Free}]
Reading == [op : {"read"}, to : User, via : {Free}]
RequestType == {Idle, Done} \cup Asked \cup Started \cup Sending \cup Sent
                 \cup Answered \cup Refusal \cup Reading

(* The type of the variables of the service.                               *)
ServiceTypeOK ==
  /\ conversations \in SUBSET Conversation /\ messages \in SUBSET Message
  /\ banned \in SUBSET User /\ outbox \in SUBSET Request /\ processed \in SUBSET Order
  /\ orders \in SUBSET [order : Order, step : {"pending", "applied", "over"}]
  /\ tokens \in [Replica -> [User -> 0..Burst]]
  /\ req \in [Request -> RequestType]
  /\ acked \in SUBSET Request /\ lost \in SUBSET Request

(* A conversation is with the owner of its ad, and the only one of its     *)
(* buyer about it; who was answered with one was answered with that one.   *)
ConversationsAreUnique ==
  /\ \A k \in conversations : k.seller = Owner(k.ad)
  /\ \A k, l \in conversations : k.ad = l.ad /\ k.buyer = l.buyer => k = l
  /\ \A q \in Request : req[q].op = "started" => req[q].answer \in conversations

(* What is about to be delivered, was sent, acknowledged or noted for a    *)
(* notification is stored.                                                 *)
Ids == {m.id : m \in messages}
Stored(q) == req[q].op = "sent" \/ (req[q].op = "send" /\ req[q].step = "deliver")
StoredBeforeSent ==
  /\ \A q \in Request : Stored(q) => q \in Ids
  /\ acked \cup outbox \subseteq Ids

(* The connections of the recipient that were live when he answered were   *)
(* his, and once the frame is published it is due to each of them that is  *)
(* live still.                                                             *)
Over(c) == conn[c].state \in {"live", "closing", "gone"}
Answers(q) == req[q].op = "send" /\ req[q].step \in {"insert", "deliver"}
Delivered(q) == req[q].op \in {"sent", "answered"}
SeenByIsServed(q) ==
  \A c \in Connection :
    /\ Answers(q) /\ c \in req[q].seen => Over(c) /\ conn[c].user = req[q].to
    /\ Delivered(q) /\ c \in req[q].seen =>
         Over(c) /\ (q \in lost \/ conn[c].state # "live" \/ Frame("message", q) \in due[c])
SeenAreServed == \A q \in Request : SeenByIsServed(q)

ServiceInv == ServiceTypeOK /\ ConversationsAreUnique /\ StoredBeforeSent /\ SeenAreServed

Inv == HubInv /\ ServiceInv

-----------------------------------------------------------------------------
(* What is in a channel after a frame was put there or taken out.          *)
LEMMA AppendedRange ==
  ASSUME NEW S, NEW s \in Seq(S), NEW e \in S
  PROVE  /\ Append(s, e) \in Seq(S) /\ Len(Append(s, e)) = Len(s) + 1
         /\ Range(Append(s, e)) = Range(s) \cup {e}
<1> DEFINE a == Append(s, e)
<1>1. a \in Seq(S) /\ Len(a) = Len(s) + 1 /\ Len(s) \in Nat
  OBVIOUS
<1>2. a[Len(s) + 1] = e /\ \A i \in 1..Len(s) : a[i] = s[i]
  OBVIOUS
<1>3. DOMAIN s = 1..Len(s) /\ DOMAIN a = 1..(Len(s) + 1)
  BY <1>1
<1> HIDE DEF a
<1>4. Range(a) = Range(s) \cup {e}
  <2>1. \A i \in 1..(Len(s) + 1) : a[i] \in Range(s) \cup {e}
    BY <1>1, <1>2, <1>3 DEF Range
  <2>2. Range(s) \subseteq Range(a) /\ e \in Range(a)
    BY <1>1, <1>2, <1>3 DEF Range
  <2> QED
    BY <2>1, <2>2, <1>3 DEF Range
<1> QED
  BY <1>1, <1>4 DEF a

(* What is in a channel after its first frame was taken.                   *)
LEMMA TakenRange ==
  ASSUME NEW S, NEW s \in Seq(S), s # <<>>
  PROVE  /\ Head(s) \in S /\ Tail(s) \in Seq(S) /\ Len(Tail(s)) = Len(s) - 1
         /\ Range(s) = {Head(s)} \cup Range(Tail(s))
<1>1. Head(s) \in S /\ Tail(s) \in Seq(S) /\ Len(Tail(s)) = Len(s) - 1 /\ Len(s) \in Nat \ {0}
  OBVIOUS
<1>2. /\ DOMAIN s = 1..Len(s) /\ DOMAIN Tail(s) = 1..(Len(s) - 1) /\ s[1] = Head(s)
      /\ \A i \in 1..(Len(s) - 1) : Tail(s)[i] = s[i + 1]
  BY <1>1
<1>3. ASSUME NEW e \in Range(s) PROVE e \in {Head(s)} \cup Range(Tail(s))
  <2>1. PICK i \in 1..Len(s) : s[i] = e
    BY <1>2 DEF Range
  <2>2. i = 1 \/ (i - 1 \in 1..(Len(s) - 1) /\ Tail(s)[i - 1] = e)
    BY <1>1, <1>2, <2>1
  <2> QED
    BY <1>2, <2>1, <2>2 DEF Range
<1>4. ASSUME NEW e \in {Head(s)} \cup Range(Tail(s)) PROVE e \in Range(s)
  <2>1. CASE e = Head(s)
    BY <1>1, <1>2, <2>1 DEF Range
  <2>2. CASE e \in Range(Tail(s))
    <3>1. PICK i \in 1..(Len(s) - 1) : Tail(s)[i] = e
      BY <1>2, <2>2 DEF Range
    <3>2. i + 1 \in 1..Len(s) /\ s[i + 1] = e
      BY <1>1, <1>2, <3>1
    <3> QED
      BY <1>2, <3>2 DEF Range
  <2> QED
    BY <2>1, <2>2
<1> QED
  BY <1>1, <1>3, <1>4

(* A connection whose state changes stays where it is.                     *)
LEMMA RowSet ==
  ASSUME NEW x \in ConnRow, NEW s \in ConnStates
  PROVE  LET y == [x EXCEPT !.state = s] IN
         y \in ConnRow /\ y.state = s /\ y.user = x.user /\ y.at = x.at
  BY DEF ConnRow

(* A connection changes its state and nothing else.                        *)
LEMMA StateSet ==
  ASSUME HubTypeOK, NEW c \in Connection, NEW s \in ConnStates, SetState(c, s)
  PROVE  /\ conn' \in [Connection -> ConnRow]
         /\ conn'[c].state = s /\ conn'[c].user = conn[c].user /\ conn'[c].at = conn[c].at
         /\ \A d \in Connection : d # c => conn'[d] = conn[d]
  BY RowSet DEF HubTypeOK, SetState

(* What enqueue does to connections and their channels.                    *)
LEMMA EnqueueSets ==
  ASSUME HubTypeOK, \A d \in Connection : Len(queue[d]) <= SendBuffer,
         NEW C, NEW f \in Frames, conn' = Slow(C), queue' = Enqueued(C, f)
  PROVE  /\ conn' \in [Connection -> ConnRow] /\ queue' \in [Connection -> Seq(Frames)]
         /\ \A d \in Connection :
              /\ conn'[d].user = conn[d].user /\ conn'[d].at = conn[d].at
              /\ \/ conn'[d].state = conn[d].state
                 \/ d \in C /\ conn[d].state = "live" /\ conn'[d].state = "closing"
              /\ d \notin C => queue'[d] = queue[d]
              /\ d \in C => \/ /\ queue'[d] = Append(queue[d], f)
                               /\ Len(queue'[d]) = Len(queue[d]) + 1 /\ Len(queue'[d]) <= SendBuffer
                            \/ queue'[d] = queue[d] /\ conn'[d].state # "live"
<1> USE BufferAssumption
<1>1. "closing" \in ConnStates
  BY DEF ConnStates
<1>2. conn \in [Connection -> ConnRow] /\ queue \in [Connection -> Seq(Frames)]
  BY DEF HubTypeOK
<1> SUFFICES ASSUME NEW d \in Connection
             PROVE  /\ conn'[d] \in ConnRow /\ queue'[d] \in Seq(Frames)
                    /\ conn'[d].user = conn[d].user /\ conn'[d].at = conn[d].at
                    /\ \/ conn'[d].state = conn[d].state
                       \/ d \in C /\ conn[d].state = "live" /\ conn'[d].state = "closing"
                    /\ d \notin C => queue'[d] = queue[d]
                    /\ d \in C => \/ /\ queue'[d] = Append(queue[d], f)
                                     /\ Len(queue'[d]) = Len(queue[d]) + 1
                                     /\ Len(queue'[d]) <= SendBuffer
                                  \/ queue'[d] = queue[d] /\ conn'[d].state # "live"
  BY DEF Slow, Enqueued
<1>3. conn[d] \in ConnRow /\ queue[d] \in Seq(Frames)
  BY <1>2
<1>4. CASE d \notin C
  BY <1>3, <1>4 DEF Slow, Enqueued
<1>5. CASE d \in C /\ ~Full(d)
  <2>1. conn'[d] = conn[d] /\ queue'[d] = Append(queue[d], f)
    BY <1>5 DEF Slow, Enqueued
  <2>2. Append(queue[d], f) \in Seq(Frames) /\ Len(Append(queue[d], f)) = Len(queue[d]) + 1
    BY <1>3, AppendedRange
  <2>3. Len(queue[d]) < SendBuffer
    BY <1>3, <1>5 DEF Full
  <2> QED
    BY <1>3, <1>5, <2>1, <2>2, <2>3
<1>6. CASE d \in C /\ Full(d)
  <2>1. queue'[d] = queue[d]
    BY <1>6 DEF Enqueued
  <2>2. CASE conn[d].state = "live"
    <3>1. conn'[d] = [conn[d] EXCEPT !.state = "closing"]
      BY <1>6, <2>2 DEF Slow
    <3> QED
      BY <1>1, <1>3, <1>6, <2>1, <2>2, <3>1, RowSet
  <2>3. CASE conn[d].state # "live"
    <3>1. conn'[d] = conn[d]
      BY <2>3 DEF Slow
    <3> QED
      BY <1>3, <1>6, <2>1, <2>3, <3>1
  <2> QED
    BY <2>2, <2>3
<1> QED
  BY <1>4, <1>5, <1>6

(* A connection that is accepted is in no hub yet.                         *)
LEMMA AcceptKeeps ==
  ASSUME HubInv, NEW c \in Connection, NEW u \in User, NEW r \in Replica, Accept(c, u, r)
  PROVE  HubInv'
<1> USE BufferAssumption, FreeAssumption
<1>g. /\ conn[c].state = "unused"
      /\ conn' = [conn EXCEPT ![c] = [state |-> "open", user |-> u, at |-> r]]
      /\ UNCHANGED <<lock, sub, psub, wire, queue, got, due>>
  BY DEF Accept, NoConn
<1>t. /\ lock \in [Replica -> Connection \cup {Free}]
      /\ \A d \in Connection : conn[d].state # "unused" => conn[d].user \in User /\ conn[d].at \in Replica
      /\ HolderIsAlone
  BY DEF HubInv, HubTypeOK, Placed
<1>1. HubTypeOK'
  BY <1>g DEF HubInv, HubTypeOK, Placed, ConnRow, ConnStates, Subscription, Where
<1>2. Placed'
  BY <1>g, AppendedRange, TakenRange DEF HubInv, HubTypeOK, Placed
<1>3. HolderIsAlone'
  BY <1>g, <1>t DEF HolderIsAlone, Registered, Where
<1>4. SubscriptionsFit'
  <2> SUFFICES ASSUME NEW x \in Replica, NEW v \in User
               PROVE  /\ <<x, v>> \in sub' <=> Has(x, v)' \/ Held(x, v, "open")'
                      /\ <<x, v>> \in psub' <=> Has(x, v)' \/ Held(x, v, "gone")'
    BY DEF SubscriptionsFit
  <2>0. /\ <<x, v>> \in sub <=> Has(x, v) \/ Held(x, v, "open")
        /\ <<x, v>> \in psub <=> Has(x, v) \/ Held(x, v, "gone")
    BY DEF HubInv, SubscriptionsFit
  <2>1. Has(x, v)' <=> Has(x, v)
    BY <1>g, <1>t DEF HolderIsAlone, Registered, Has, Where
  <2>2. Held(x, v, "open")' <=> Held(x, v, "open")
    BY <1>g, <1>t DEF HolderIsAlone, Registered, Held, Where
  <2>3. Held(x, v, "gone")' <=> Held(x, v, "gone")
    BY <1>g, <1>t DEF HolderIsAlone, Registered, Held, Where
  <2> QED
    BY <1>g, <2>0, <2>1, <2>2, <2>3 DEF HubInv, HubTypeOK, Subscription
<1>5. NoGapOnLiveConnection'
  <2> SUFFICES ASSUME NEW d \in Connection, conn'[d].state = "live"
               PROVE  due'[d] \subseteq got'[d] \cup OnTheWay(d)'
    BY DEF NoGapOnLiveConnection
  <2>1. due'[d] = due[d] /\ got'[d] = got[d] /\ due[d] \subseteq got[d] \cup OnTheWay(d)
    BY <1>g DEF HubInv, NoGapOnLiveConnection
  <2>2. queue'[d] = queue[d] /\ wire'[Where(d)'] = wire[Where(d)]
    BY <1>g DEF Where
  <2>3. OnTheWay(d)' = OnTheWay(d)
    BY <2>2 DEF OnTheWay
  <2> QED
    BY <2>1, <2>3
<1> QED
  BY <1>1, <1>2, <1>3, <1>4, <1>5 DEF HubInv

(* Adding to a hub: the first connection of a user takes the mutex and     *)
(* subscribes.                                                             *)
LEMMA AddKeeps ==
  ASSUME HubInv, NEW c \in Connection, Add(c)
  PROVE  HubInv'
<1> USE BufferAssumption, FreeAssumption
<1>g. /\ conn[c].state = "open" /\ lock[conn[c].at] = Free
      /\ \E d \in Connection : Registered(d) /\ Where(d) = Where(c)
      /\ UNCHANGED <<lock, sub, psub, wire, queue, got, due>>
  BY DEF Add, Entry, Where, SetState
<1>0. /\ conn' \in [Connection -> ConnRow]
      /\ conn'[c].state = "live" /\ conn'[c].user = conn[c].user /\ conn'[c].at = conn[c].at
      /\ \A d \in Connection : d # c => conn'[d] = conn[d]
  <2>1. SetState(c, "live") /\ "live" \in ConnStates
    BY DEF Add, ConnStates
  <2> QED
    BY <2>1, StateSet DEF HubInv
<1>t. /\ lock \in [Replica -> Connection \cup {Free}]
      /\ \A d \in Connection : conn[d].state # "unused" => conn[d].user \in User /\ conn[d].at \in Replica
      /\ HolderIsAlone
  BY DEF HubInv, HubTypeOK, Placed
<1>1. HubTypeOK'
  BY <1>g, <1>0 DEF HubInv, HubTypeOK, Placed, ConnRow, ConnStates, Subscription, Where
<1>2. Placed'
  <2> SUFFICES ASSUME NEW d \in Connection
               PROVE  /\ conn'[d].state = "unused" => conn'[d].at = Free
                      /\ conn'[d].state # "unused" => conn'[d].user \in User /\ conn'[d].at \in Replica
                      /\ Len(queue'[d]) <= SendBuffer
                      /\ conn'[d].state \in {"unused", "open"} => due'[d] = {}
    BY DEF Placed
  <2>1. /\ conn[d].state = "unused" => conn[d].at = Free
        /\ conn[d].state # "unused" => conn[d].user \in User /\ conn[d].at \in Replica
        /\ Len(queue[d]) <= SendBuffer
        /\ conn[d].state \in {"unused", "open"} => due[d] = {}
    BY DEF HubInv, Placed
  <2>2. CASE d = c
    BY <1>g, <1>0, <2>1, <2>2
  <2>3. CASE d # c
    BY <1>g, <1>0, <2>1, <2>3
  <2> QED
    BY <2>2, <2>3
<1>3. HolderIsAlone'
  BY <1>g, <1>0, <1>t DEF HolderIsAlone, Registered, Where
<1>4. SubscriptionsFit'
  <2> SUFFICES ASSUME NEW x \in Replica, NEW v \in User
               PROVE  /\ <<x, v>> \in sub' <=> Has(x, v)' \/ Held(x, v, "open")'
                      /\ <<x, v>> \in psub' <=> Has(x, v)' \/ Held(x, v, "gone")'
    BY DEF SubscriptionsFit
  <2>0. /\ <<x, v>> \in sub <=> Has(x, v) \/ Held(x, v, "open")
        /\ <<x, v>> \in psub <=> Has(x, v) \/ Held(x, v, "gone")
    BY DEF HubInv, SubscriptionsFit
  <2>1. Has(x, v)' <=> Has(x, v)
    BY <1>g, <1>0, <1>t DEF HolderIsAlone, Registered, Has, Where
  <2>2. Held(x, v, "open")' <=> Held(x, v, "open")
    BY <1>g, <1>0, <1>t DEF HolderIsAlone, Registered, Held, Where
  <2>3. Held(x, v, "gone")' <=> Held(x, v, "gone")
    BY <1>g, <1>0, <1>t DEF HolderIsAlone, Registered, Held, Where
  <2> QED
    BY <1>g, <2>0, <2>1, <2>2, <2>3 DEF HubInv, HubTypeOK, Subscription
<1>5. NoGapOnLiveConnection'
  <2> SUFFICES ASSUME NEW d \in Connection, conn'[d].state = "live"
               PROVE  due'[d] \subseteq got'[d] \cup OnTheWay(d)'
    BY DEF NoGapOnLiveConnection
  <2>1. CASE d = c
    <3>1. due'[d] = {}
      BY <1>g, <1>0, <2>1 DEF HubInv, Placed
    <3> QED
      BY <3>1
  <2>2. CASE d # c
    <3>1. due'[d] = due[d] /\ got'[d] = got[d] /\ due[d] \subseteq got[d] \cup OnTheWay(d)
      BY <1>g, <1>0, <2>2 DEF HubInv, NoGapOnLiveConnection
    <3>2. queue'[d] = queue[d] /\ wire'[Where(d)'] = wire[Where(d)]
      BY <1>g, <1>0, <2>2 DEF Where
    <3>3. OnTheWay(d)' = OnTheWay(d)
      BY <3>2 DEF OnTheWay
    <3> QED
      BY <3>1, <3>3
  <2> QED
    BY <2>1, <2>2
<1> QED
  BY <1>1, <1>2, <1>3, <1>4, <1>5 DEF HubInv

(* The frames of a user are subscribed to before his connection is live.   *)
LEMMA AddSubscribesKeeps ==
  ASSUME HubInv, NEW c \in Connection, AddSubscribes(c)
  PROVE  HubInv'
<1> USE BufferAssumption, FreeAssumption
<1>g. /\ conn[c].state = "open" /\ lock[conn[c].at] = Free
      /\ \A d \in Connection : ~(Registered(d) /\ conn[d].at = conn[c].at /\ conn[d].user = conn[c].user)
      /\ lock' = [lock EXCEPT ![conn[c].at] = c] /\ sub' = sub \cup {Where(c)}
      /\ UNCHANGED <<conn, psub, wire, queue, got, due>>
  BY DEF AddSubscribes, Entry, Where
<1>t. /\ lock \in [Replica -> Connection \cup {Free}]
      /\ \A d \in Connection : conn[d].state # "unused" => conn[d].user \in User /\ conn[d].at \in Replica
      /\ HolderIsAlone
  BY DEF HubInv, HubTypeOK, Placed
<1>1. HubTypeOK'
  BY <1>g DEF HubInv, HubTypeOK, Placed, ConnRow, ConnStates, Subscription, Where
<1>2. Placed'
  BY <1>g, AppendedRange, TakenRange DEF HubInv, HubTypeOK, Placed
<1>3. HolderIsAlone'
  BY <1>g, <1>t DEF HolderIsAlone, Registered, Where
<1>4. SubscriptionsFit'
  <2> SUFFICES ASSUME NEW x \in Replica, NEW v \in User
               PROVE  /\ <<x, v>> \in sub' <=> Has(x, v)' \/ Held(x, v, "open")'
                      /\ <<x, v>> \in psub' <=> Has(x, v)' \/ Held(x, v, "gone")'
    BY DEF SubscriptionsFit
  <2>0. /\ <<x, v>> \in sub <=> Has(x, v) \/ Held(x, v, "open")
        /\ <<x, v>> \in psub <=> Has(x, v) \/ Held(x, v, "gone")
    BY DEF HubInv, SubscriptionsFit
  <2>1. Has(x, v)' <=> Has(x, v)
    BY <1>g, <1>t DEF HolderIsAlone, Registered, Has, Where
  <2>2. Held(x, v, "open")' <=> Held(x, v, "open") \/ <<x, v>> = Where(c)
    BY <1>g, <1>t DEF HolderIsAlone, Registered, Held, Where
  <2>3. Held(x, v, "gone")' <=> Held(x, v, "gone")
    BY <1>g, <1>t DEF HolderIsAlone, Registered, Held, Where
  <2>4. <<x, v>> = Where(c) => ~Has(x, v)
    BY <1>g, <1>t DEF HolderIsAlone, Registered, Has, Held, Where
  <2> QED
    BY <1>g, <2>0, <2>1, <2>2, <2>3, <2>4 DEF HubInv, HubTypeOK, Subscription
<1>5. NoGapOnLiveConnection'
  <2> SUFFICES ASSUME NEW d \in Connection, conn'[d].state = "live"
               PROVE  due'[d] \subseteq got'[d] \cup OnTheWay(d)'
    BY DEF NoGapOnLiveConnection
  <2>1. due'[d] = due[d] /\ got'[d] = got[d] /\ due[d] \subseteq got[d] \cup OnTheWay(d)
    BY <1>g DEF HubInv, NoGapOnLiveConnection
  <2>2. queue'[d] = queue[d] /\ wire'[Where(d)'] = wire[Where(d)]
    BY <1>g DEF Where
  <2>3. OnTheWay(d)' = OnTheWay(d)
    BY <2>2 DEF OnTheWay
  <2> QED
    BY <2>1, <2>3
<1> QED
  BY <1>1, <1>2, <1>3, <1>4, <1>5 DEF HubInv

(* The answer for his presence is subscribed to when it is.                *)
LEMMA AddRespondsKeeps ==
  ASSUME HubInv, NEW c \in Connection, AddResponds(c)
  PROVE  HubInv'
<1> USE BufferAssumption, FreeAssumption
<1>g. /\ conn[c].state = "open" /\ lock[conn[c].at] = c
      /\ psub' = psub \cup {Where(c)} /\ lock' = [lock EXCEPT ![conn[c].at] = Free]
      /\ UNCHANGED <<sub, wire, queue, got, due>>
  BY DEF AddResponds, SetState
<1>0. /\ conn' \in [Connection -> ConnRow]
      /\ conn'[c].state = "live" /\ conn'[c].user = conn[c].user /\ conn'[c].at = conn[c].at
      /\ \A d \in Connection : d # c => conn'[d] = conn[d]
  <2>1. SetState(c, "live") /\ "live" \in ConnStates
    BY DEF AddResponds, ConnStates
  <2> QED
    BY <2>1, StateSet DEF HubInv
<1>t. /\ lock \in [Replica -> Connection \cup {Free}]
      /\ \A d \in Connection : conn[d].state # "unused" => conn[d].user \in User /\ conn[d].at \in Replica
      /\ HolderIsAlone
  BY DEF HubInv, HubTypeOK, Placed
<1>1. HubTypeOK'
  BY <1>g, <1>0 DEF HubInv, HubTypeOK, Placed, ConnRow, ConnStates, Subscription, Where
<1>2. Placed'
  <2> SUFFICES ASSUME NEW d \in Connection
               PROVE  /\ conn'[d].state = "unused" => conn'[d].at = Free
                      /\ conn'[d].state # "unused" => conn'[d].user \in User /\ conn'[d].at \in Replica
                      /\ Len(queue'[d]) <= SendBuffer
                      /\ conn'[d].state \in {"unused", "open"} => due'[d] = {}
    BY DEF Placed
  <2>1. /\ conn[d].state = "unused" => conn[d].at = Free
        /\ conn[d].state # "unused" => conn[d].user \in User /\ conn[d].at \in Replica
        /\ Len(queue[d]) <= SendBuffer
        /\ conn[d].state \in {"unused", "open"} => due[d] = {}
    BY DEF HubInv, Placed
  <2>2. CASE d = c
    BY <1>g, <1>0, <2>1, <2>2
  <2>3. CASE d # c
    BY <1>g, <1>0, <2>1, <2>3
  <2> QED
    BY <2>2, <2>3
<1>3. HolderIsAlone'
  BY <1>g, <1>0, <1>t DEF HolderIsAlone, Registered, Where
<1>4. SubscriptionsFit'
  <2> SUFFICES ASSUME NEW x \in Replica, NEW v \in User
               PROVE  /\ <<x, v>> \in sub' <=> Has(x, v)' \/ Held(x, v, "open")'
                      /\ <<x, v>> \in psub' <=> Has(x, v)' \/ Held(x, v, "gone")'
    BY DEF SubscriptionsFit
  <2>0. /\ <<x, v>> \in sub <=> Has(x, v) \/ Held(x, v, "open")
        /\ <<x, v>> \in psub <=> Has(x, v) \/ Held(x, v, "gone")
    BY DEF HubInv, SubscriptionsFit
  <2>1. Has(x, v)' <=> Has(x, v) \/ <<x, v>> = Where(c)
    BY <1>g, <1>0, <1>t DEF HolderIsAlone, Registered, Has, Where
  <2>2. Held(x, v, "open")' <=> Held(x, v, "open") /\ <<x, v>> # Where(c)
    BY <1>g, <1>0, <1>t DEF HolderIsAlone, Registered, Held, Where
  <2>3. Held(x, v, "gone")' <=> Held(x, v, "gone")
    BY <1>g, <1>0, <1>t DEF HolderIsAlone, Registered, Held, Where
  <2>4. <<x, v>> = Where(c) => ~Has(x, v) /\ Held(x, v, "open") /\ ~Held(x, v, "gone")
    BY <1>g, <1>t DEF HolderIsAlone, Registered, Has, Held, Where
  <2> QED
    BY <1>g, <2>0, <2>1, <2>2, <2>3, <2>4 DEF HubInv, HubTypeOK, Subscription
<1>5. NoGapOnLiveConnection'
  <2> SUFFICES ASSUME NEW d \in Connection, conn'[d].state = "live"
               PROVE  due'[d] \subseteq got'[d] \cup OnTheWay(d)'
    BY DEF NoGapOnLiveConnection
  <2>1. CASE d = c
    <3>1. due'[d] = {}
      BY <1>g, <1>0, <2>1 DEF HubInv, Placed
    <3> QED
      BY <3>1
  <2>2. CASE d # c
    <3>1. due'[d] = due[d] /\ got'[d] = got[d] /\ due[d] \subseteq got[d] \cup OnTheWay(d)
      BY <1>g, <1>0, <2>2 DEF HubInv, NoGapOnLiveConnection
    <3>2. queue'[d] = queue[d] /\ wire'[Where(d)'] = wire[Where(d)]
      BY <1>g, <1>0, <2>2 DEF Where
    <3>3. OnTheWay(d)' = OnTheWay(d)
      BY <3>2 DEF OnTheWay
    <3> QED
      BY <3>1, <3>3
  <2> QED
    BY <2>1, <2>2
<1> QED
  BY <1>1, <1>2, <1>3, <1>4, <1>5 DEF HubInv

(* A subscription that fails leaves nothing in the hub.                    *)
LEMMA AddFailsKeeps ==
  ASSUME HubInv, NEW c \in Connection, AddFails(c)
  PROVE  HubInv'
<1> USE BufferAssumption, FreeAssumption
<1>g. /\ conn[c].state = "open" /\ lock[conn[c].at] = c
      /\ sub' = sub \ {Where(c)} /\ lock' = [lock EXCEPT ![conn[c].at] = Free]
      /\ wire' = [wire EXCEPT ![Where(c)] = <<>>]
      /\ UNCHANGED <<psub, queue, got, due>>
  BY DEF AddFails, SetState
<1>0. /\ conn' \in [Connection -> ConnRow]
      /\ conn'[c].state = "gone" /\ conn'[c].user = conn[c].user /\ conn'[c].at = conn[c].at
      /\ \A d \in Connection : d # c => conn'[d] = conn[d]
  <2>1. SetState(c, "gone") /\ "gone" \in ConnStates
    BY DEF AddFails, ConnStates
  <2> QED
    BY <2>1, StateSet DEF HubInv
<1>t. /\ lock \in [Replica -> Connection \cup {Free}]
      /\ \A d \in Connection : conn[d].state # "unused" => conn[d].user \in User /\ conn[d].at \in Replica
      /\ HolderIsAlone
  BY DEF HubInv, HubTypeOK, Placed
<1>1. HubTypeOK'
  BY <1>g, <1>0 DEF HubInv, HubTypeOK, Placed, ConnRow, ConnStates, Subscription, Where
<1>2. Placed'
  <2> SUFFICES ASSUME NEW d \in Connection
               PROVE  /\ conn'[d].state = "unused" => conn'[d].at = Free
                      /\ conn'[d].state # "unused" => conn'[d].user \in User /\ conn'[d].at \in Replica
                      /\ Len(queue'[d]) <= SendBuffer
                      /\ conn'[d].state \in {"unused", "open"} => due'[d] = {}
    BY DEF Placed
  <2>1. /\ conn[d].state = "unused" => conn[d].at = Free
        /\ conn[d].state # "unused" => conn[d].user \in User /\ conn[d].at \in Replica
        /\ Len(queue[d]) <= SendBuffer
        /\ conn[d].state \in {"unused", "open"} => due[d] = {}
    BY DEF HubInv, Placed
  <2>2. CASE d = c
    BY <1>g, <1>0, <2>1, <2>2
  <2>3. CASE d # c
    BY <1>g, <1>0, <2>1, <2>3
  <2> QED
    BY <2>2, <2>3
<1>3. HolderIsAlone'
  BY <1>g, <1>0, <1>t DEF HolderIsAlone, Registered, Where
<1>4. SubscriptionsFit'
  <2> SUFFICES ASSUME NEW x \in Replica, NEW v \in User
               PROVE  /\ <<x, v>> \in sub' <=> Has(x, v)' \/ Held(x, v, "open")'
                      /\ <<x, v>> \in psub' <=> Has(x, v)' \/ Held(x, v, "gone")'
    BY DEF SubscriptionsFit
  <2>0. /\ <<x, v>> \in sub <=> Has(x, v) \/ Held(x, v, "open")
        /\ <<x, v>> \in psub <=> Has(x, v) \/ Held(x, v, "gone")
    BY DEF HubInv, SubscriptionsFit
  <2>1. Has(x, v)' <=> Has(x, v)
    BY <1>g, <1>0, <1>t DEF HolderIsAlone, Registered, Has, Where
  <2>2. Held(x, v, "open")' <=> Held(x, v, "open") /\ <<x, v>> # Where(c)
    BY <1>g, <1>0, <1>t DEF HolderIsAlone, Registered, Held, Where
  <2>3. Held(x, v, "gone")' <=> Held(x, v, "gone")
    BY <1>g, <1>0, <1>t DEF HolderIsAlone, Registered, Held, Where
  <2>4. <<x, v>> = Where(c) => ~Has(x, v) /\ Held(x, v, "open") /\ ~Held(x, v, "gone")
    BY <1>g, <1>t DEF HolderIsAlone, Registered, Has, Held, Where
  <2> QED
    BY <1>g, <2>0, <2>1, <2>2, <2>3, <2>4 DEF HubInv, HubTypeOK, Subscription
<1>5. NoGapOnLiveConnection'
  <2> SUFFICES ASSUME NEW d \in Connection, conn'[d].state = "live"
               PROVE  due'[d] \subseteq got'[d] \cup OnTheWay(d)'
    BY DEF NoGapOnLiveConnection
  <2>1. d # c /\ conn'[d] = conn[d]
    BY <1>0
  <2>2. due'[d] = due[d] /\ got'[d] = got[d] /\ due[d] \subseteq got[d] \cup OnTheWay(d)
    BY <1>g, <2>1 DEF HubInv, NoGapOnLiveConnection
  <2>3. Where(d)' = Where(d) /\ Where(d) # Where(c)
    <3>1. conn[d].at # conn[c].at \/ conn[d].user # conn[c].user
      BY <1>g, <1>t, <2>1 DEF HolderIsAlone, Registered
    <3> QED
      BY <2>1, <3>1 DEF Where
  <2>4. queue'[d] = queue[d] /\ wire'[Where(d)'] = wire[Where(d)]
    <3>1. wire \in [Subscription -> Seq(Frames)] /\ queue \in [Connection -> Seq(Frames)]
      BY DEF HubInv, HubTypeOK
    <3>2. Where(d) \in Subscription
      BY <1>t, <2>1 DEF Where, Subscription
    <3> QED
      BY <1>g, <2>1, <2>3, <3>1, <3>2
  <2> QED
    BY <2>2, <2>4 DEF OnTheWay
<1> QED
  BY <1>1, <1>2, <1>3, <1>4, <1>5 DEF HubInv

(* A connection that closes is in the hub until it is removed.             *)
LEMMA CloseKeeps ==
  ASSUME HubInv, NEW c \in Connection, Close(c)
  PROVE  HubInv'
<1> USE BufferAssumption, FreeAssumption
<1>g. /\ conn[c].state = "live"
      /\ UNCHANGED <<lock, sub, psub, wire, queue, got, due>>
  BY DEF Close, SetState
<1>0. /\ conn' \in [Connection -> ConnRow]
      /\ conn'[c].state = "closing" /\ conn'[c].user = conn[c].user /\ conn'[c].at = conn[c].at
      /\ \A d \in Connection : d # c => conn'[d] = conn[d]
  <2>1. SetState(c, "closing") /\ "closing" \in ConnStates
    BY DEF Close, ConnStates
  <2> QED
    BY <2>1, StateSet DEF HubInv
<1>t. /\ lock \in [Replica -> Connection \cup {Free}]
      /\ \A d \in Connection : conn[d].state # "unused" => conn[d].user \in User /\ conn[d].at \in Replica
      /\ HolderIsAlone
  BY DEF HubInv, HubTypeOK, Placed
<1>1. HubTypeOK'
  BY <1>g, <1>0 DEF HubInv, HubTypeOK, Placed, ConnRow, ConnStates, Subscription, Where
<1>2. Placed'
  <2> SUFFICES ASSUME NEW d \in Connection
               PROVE  /\ conn'[d].state = "unused" => conn'[d].at = Free
                      /\ conn'[d].state # "unused" => conn'[d].user \in User /\ conn'[d].at \in Replica
                      /\ Len(queue'[d]) <= SendBuffer
                      /\ conn'[d].state \in {"unused", "open"} => due'[d] = {}
    BY DEF Placed
  <2>1. /\ conn[d].state = "unused" => conn[d].at = Free
        /\ conn[d].state # "unused" => conn[d].user \in User /\ conn[d].at \in Replica
        /\ Len(queue[d]) <= SendBuffer
        /\ conn[d].state \in {"unused", "open"} => due[d] = {}
    BY DEF HubInv, Placed
  <2>2. CASE d = c
    BY <1>g, <1>0, <2>1, <2>2
  <2>3. CASE d # c
    BY <1>g, <1>0, <2>1, <2>3
  <2> QED
    BY <2>2, <2>3
<1>3. HolderIsAlone'
  BY <1>g, <1>0, <1>t DEF HolderIsAlone, Registered, Where
<1>4. SubscriptionsFit'
  <2> SUFFICES ASSUME NEW x \in Replica, NEW v \in User
               PROVE  /\ <<x, v>> \in sub' <=> Has(x, v)' \/ Held(x, v, "open")'
                      /\ <<x, v>> \in psub' <=> Has(x, v)' \/ Held(x, v, "gone")'
    BY DEF SubscriptionsFit
  <2>0. /\ <<x, v>> \in sub <=> Has(x, v) \/ Held(x, v, "open")
        /\ <<x, v>> \in psub <=> Has(x, v) \/ Held(x, v, "gone")
    BY DEF HubInv, SubscriptionsFit
  <2>1. Has(x, v)' <=> Has(x, v)
    BY <1>g, <1>0, <1>t DEF HolderIsAlone, Registered, Has, Where
  <2>2. Held(x, v, "open")' <=> Held(x, v, "open")
    BY <1>g, <1>0, <1>t DEF HolderIsAlone, Registered, Held, Where
  <2>3. Held(x, v, "gone")' <=> Held(x, v, "gone")
    BY <1>g, <1>0, <1>t DEF HolderIsAlone, Registered, Held, Where
  <2> QED
    BY <1>g, <2>0, <2>1, <2>2, <2>3 DEF HubInv, HubTypeOK, Subscription
<1>5. NoGapOnLiveConnection'
  <2> SUFFICES ASSUME NEW d \in Connection, conn'[d].state = "live"
               PROVE  due'[d] \subseteq got'[d] \cup OnTheWay(d)'
    BY DEF NoGapOnLiveConnection
  <2>1. due'[d] = due[d] /\ got'[d] = got[d] /\ due[d] \subseteq got[d] \cup OnTheWay(d)
    BY <1>g, <1>0 DEF HubInv, NoGapOnLiveConnection
  <2>2. queue'[d] = queue[d] /\ wire'[Where(d)'] = wire[Where(d)]
    BY <1>g, <1>0 DEF Where
  <2>3. OnTheWay(d)' = OnTheWay(d)
    BY <2>2 DEF OnTheWay
  <2> QED
    BY <2>1, <2>3
<1> QED
  BY <1>1, <1>2, <1>3, <1>4, <1>5 DEF HubInv

(* Who has another connection keeps his subscriptions.                     *)
LEMMA RemoveOneKeeps ==
  ASSUME HubInv, NEW c \in Connection, Remove(c), Entry(conn[c].at, conn[c].user) # {c}
  PROVE  HubInv'
<1> USE BufferAssumption, FreeAssumption
<1>g. /\ conn[c].state = "closing" /\ lock[conn[c].at] = Free
      /\ \E d \in Connection : d # c /\ Registered(d) /\ Where(d) = Where(c)
      /\ queue' = [queue EXCEPT ![c] = <<>>]
      /\ UNCHANGED <<lock, sub, psub, wire, got, due>>
  <2>1. /\ conn[c].state = "closing" /\ lock[conn[c].at] = Free
        /\ queue' = [queue EXCEPT ![c] = <<>>]
        /\ UNCHANGED <<lock, sub, psub, wire, got, due>>
    BY DEF Remove
  <2>2. c \in Entry(conn[c].at, conn[c].user)
    BY <2>1 DEF Entry, Registered
  <2>3. PICK d \in Entry(conn[c].at, conn[c].user) : d # c
    BY <2>2
  <2> QED
    BY <2>1, <2>3 DEF Entry, Where
<1>0. /\ conn' \in [Connection -> ConnRow]
      /\ conn'[c].state = "gone" /\ conn'[c].user = conn[c].user /\ conn'[c].at = conn[c].at
      /\ \A d \in Connection : d # c => conn'[d] = conn[d]
  <2>1. SetState(c, "gone") /\ "gone" \in ConnStates
    BY DEF Remove, ConnStates
  <2> QED
    BY <2>1, StateSet DEF HubInv
<1>t. /\ lock \in [Replica -> Connection \cup {Free}]
      /\ \A d \in Connection : conn[d].state # "unused" => conn[d].user \in User /\ conn[d].at \in Replica
      /\ HolderIsAlone
  BY DEF HubInv, HubTypeOK, Placed
<1>1. HubTypeOK'
  <2>1. HubTypeOK /\ <<>> \in Seq(Frames)
    BY DEF HubInv
  <2>2. queue' \in [Connection -> Seq(Frames)] /\ wire' \in [Subscription -> Seq(Frames)]
    BY <1>g, <2>1 DEF HubTypeOK
  <2>3. sub' \in SUBSET Subscription /\ lock' \in [Replica -> Connection \cup {Free}]
    BY <1>g, <2>1 DEF HubTypeOK
  <2> QED
    BY <1>g, <1>0, <2>1, <2>2, <2>3 DEF HubTypeOK
<1>2. Placed'
  BY <1>g, <1>0, AppendedRange, TakenRange DEF HubInv, HubTypeOK, Placed
<1>3. HolderIsAlone'
  BY <1>g, <1>0, <1>t DEF HolderIsAlone, Registered, Where
<1>4. SubscriptionsFit'
  <2> SUFFICES ASSUME NEW x \in Replica, NEW v \in User
               PROVE  /\ <<x, v>> \in sub' <=> Has(x, v)' \/ Held(x, v, "open")'
                      /\ <<x, v>> \in psub' <=> Has(x, v)' \/ Held(x, v, "gone")'
    BY DEF SubscriptionsFit
  <2>0. /\ <<x, v>> \in sub <=> Has(x, v) \/ Held(x, v, "open")
        /\ <<x, v>> \in psub <=> Has(x, v) \/ Held(x, v, "gone")
    BY DEF HubInv, SubscriptionsFit
  <2>1. Has(x, v)' <=> Has(x, v)
    BY <1>g, <1>0, <1>t DEF HolderIsAlone, Registered, Has, Where
  <2>2. Held(x, v, "open")' <=> Held(x, v, "open")
    BY <1>g, <1>0, <1>t DEF HolderIsAlone, Registered, Held, Where
  <2>3. Held(x, v, "gone")' <=> Held(x, v, "gone")
    BY <1>g, <1>0, <1>t DEF HolderIsAlone, Registered, Held, Where
  <2> QED
    BY <1>g, <2>0, <2>1, <2>2, <2>3 DEF HubInv, HubTypeOK, Subscription
<1>5. NoGapOnLiveConnection'
  <2> SUFFICES ASSUME NEW d \in Connection, conn'[d].state = "live"
               PROVE  due'[d] \subseteq got'[d] \cup OnTheWay(d)'
    BY DEF NoGapOnLiveConnection
  <2>1. due'[d] = due[d] /\ got'[d] = got[d] /\ due[d] \subseteq got[d] \cup OnTheWay(d)
    BY <1>g, <1>0 DEF HubInv, NoGapOnLiveConnection
  <2>2. queue'[d] = queue[d] /\ wire'[Where(d)'] = wire[Where(d)]
    BY <1>g, <1>0 DEF Where
  <2>3. OnTheWay(d)' = OnTheWay(d)
    BY <2>2 DEF OnTheWay
  <2> QED
    BY <2>1, <2>3
<1> QED
  BY <1>1, <1>2, <1>3, <1>4, <1>5 DEF HubInv

(* The last connection of a user takes his subscription to frames with it. *)
LEMMA RemoveLastKeeps ==
  ASSUME HubInv, NEW c \in Connection, Remove(c), Entry(conn[c].at, conn[c].user) = {c}
  PROVE  HubInv'
<1> USE BufferAssumption, FreeAssumption
<1>g. /\ conn[c].state = "closing" /\ lock[conn[c].at] = Free
      /\ \A d \in Connection : Registered(d) /\ conn[d].at = conn[c].at /\ conn[d].user = conn[c].user => d = c
      /\ queue' = [queue EXCEPT ![c] = <<>>]
      /\ lock' = [lock EXCEPT ![conn[c].at] = c] /\ sub' = sub \ {Where(c)}
      /\ wire' = [wire EXCEPT ![Where(c)] = <<>>]
      /\ UNCHANGED <<psub, got, due>>
  BY DEF Remove, Entry, SetState
<1>0. /\ conn' \in [Connection -> ConnRow]
      /\ conn'[c].state = "gone" /\ conn'[c].user = conn[c].user /\ conn'[c].at = conn[c].at
      /\ \A d \in Connection : d # c => conn'[d] = conn[d]
  <2>1. SetState(c, "gone") /\ "gone" \in ConnStates
    BY DEF Remove, ConnStates
  <2> QED
    BY <2>1, StateSet DEF HubInv
<1>t. /\ lock \in [Replica -> Connection \cup {Free}]
      /\ \A d \in Connection : conn[d].state # "unused" => conn[d].user \in User /\ conn[d].at \in Replica
      /\ HolderIsAlone
  BY DEF HubInv, HubTypeOK, Placed
<1>1. HubTypeOK'
  <2>1. HubTypeOK /\ <<>> \in Seq(Frames)
    BY DEF HubInv
  <2>2. queue' \in [Connection -> Seq(Frames)] /\ wire' \in [Subscription -> Seq(Frames)]
    BY <1>g, <2>1 DEF HubTypeOK
  <2>3. sub' \in SUBSET Subscription /\ lock' \in [Replica -> Connection \cup {Free}]
    BY <1>g, <2>1 DEF HubTypeOK
  <2> QED
    BY <1>g, <1>0, <2>1, <2>2, <2>3 DEF HubTypeOK
<1>2. Placed'
  BY <1>g, <1>0, AppendedRange, TakenRange DEF HubInv, HubTypeOK, Placed
<1>3. HolderIsAlone'
  BY <1>g, <1>0, <1>t DEF HolderIsAlone, Registered, Where
<1>4. SubscriptionsFit'
  <2> SUFFICES ASSUME NEW x \in Replica, NEW v \in User
               PROVE  /\ <<x, v>> \in sub' <=> Has(x, v)' \/ Held(x, v, "open")'
                      /\ <<x, v>> \in psub' <=> Has(x, v)' \/ Held(x, v, "gone")'
    BY DEF SubscriptionsFit
  <2>0. /\ <<x, v>> \in sub <=> Has(x, v) \/ Held(x, v, "open")
        /\ <<x, v>> \in psub <=> Has(x, v) \/ Held(x, v, "gone")
    BY DEF HubInv, SubscriptionsFit
  <2>1. Has(x, v)' <=> Has(x, v) /\ <<x, v>> # Where(c)
    BY <1>g, <1>0, <1>t DEF HolderIsAlone, Registered, Has, Where
  <2>2. Held(x, v, "open")' <=> Held(x, v, "open")
    BY <1>g, <1>0, <1>t DEF HolderIsAlone, Registered, Held, Where
  <2>3. Held(x, v, "gone")' <=> Held(x, v, "gone") \/ <<x, v>> = Where(c)
    BY <1>g, <1>0, <1>t DEF HolderIsAlone, Registered, Held, Where
  <2>4. <<x, v>> = Where(c) => Has(x, v) /\ ~Held(x, v, "open")
    BY <1>g, <1>t DEF HolderIsAlone, Registered, Has, Held, Where
  <2> QED
    BY <1>g, <2>0, <2>1, <2>2, <2>3, <2>4 DEF HubInv, HubTypeOK, Subscription
<1>5. NoGapOnLiveConnection'
  <2> SUFFICES ASSUME NEW d \in Connection, conn'[d].state = "live"
               PROVE  due'[d] \subseteq got'[d] \cup OnTheWay(d)'
    BY DEF NoGapOnLiveConnection
  <2>1. d # c /\ conn'[d] = conn[d]
    BY <1>0
  <2>2. due'[d] = due[d] /\ got'[d] = got[d] /\ due[d] \subseteq got[d] \cup OnTheWay(d)
    BY <1>g, <2>1 DEF HubInv, NoGapOnLiveConnection
  <2>3. Where(d)' = Where(d) /\ Where(d) # Where(c)
    <3>1. conn[d].at # conn[c].at \/ conn[d].user # conn[c].user
      BY <1>g, <1>t, <2>1 DEF HolderIsAlone, Registered
    <3> QED
      BY <2>1, <3>1 DEF Where
  <2>4. queue'[d] = queue[d] /\ wire'[Where(d)'] = wire[Where(d)]
    <3>1. wire \in [Subscription -> Seq(Frames)] /\ queue \in [Connection -> Seq(Frames)]
      BY DEF HubInv, HubTypeOK
    <3>2. Where(d) \in Subscription
      BY <1>t, <2>1 DEF Where, Subscription
    <3> QED
      BY <1>g, <2>1, <2>3, <3>1, <3>2
  <2> QED
    BY <2>2, <2>4 DEF OnTheWay
<1> QED
  BY <1>1, <1>2, <1>3, <1>4, <1>5 DEF HubInv

(* The subscription that answers for his presence goes next.               *)
LEMMA RemoveResponderKeeps ==
  ASSUME HubInv, NEW c \in Connection, RemoveResponder(c)
  PROVE  HubInv'
<1> USE BufferAssumption, FreeAssumption
<1>g. /\ conn[c].state = "gone" /\ lock[conn[c].at] = c
      /\ psub' = psub \ {Where(c)} /\ lock' = [lock EXCEPT ![conn[c].at] = Free]
      /\ UNCHANGED <<conn, sub, wire, queue, got, due>>
  BY DEF RemoveResponder
<1>t. /\ lock \in [Replica -> Connection \cup {Free}]
      /\ \A d \in Connection : conn[d].state # "unused" => conn[d].user \in User /\ conn[d].at \in Replica
      /\ HolderIsAlone
  BY DEF HubInv, HubTypeOK, Placed
<1>1. HubTypeOK'
  BY <1>g DEF HubInv, HubTypeOK, Placed, ConnRow, ConnStates, Subscription, Where
<1>2. Placed'
  BY <1>g, AppendedRange, TakenRange DEF HubInv, HubTypeOK, Placed
<1>3. HolderIsAlone'
  BY <1>g, <1>t DEF HolderIsAlone, Registered, Where
<1>4. SubscriptionsFit'
  <2> SUFFICES ASSUME NEW x \in Replica, NEW v \in User
               PROVE  /\ <<x, v>> \in sub' <=> Has(x, v)' \/ Held(x, v, "open")'
                      /\ <<x, v>> \in psub' <=> Has(x, v)' \/ Held(x, v, "gone")'
    BY DEF SubscriptionsFit
  <2>0. /\ <<x, v>> \in sub <=> Has(x, v) \/ Held(x, v, "open")
        /\ <<x, v>> \in psub <=> Has(x, v) \/ Held(x, v, "gone")
    BY DEF HubInv, SubscriptionsFit
  <2>1. Has(x, v)' <=> Has(x, v)
    BY <1>g, <1>t DEF HolderIsAlone, Registered, Has, Where
  <2>2. Held(x, v, "open")' <=> Held(x, v, "open")
    BY <1>g, <1>t DEF HolderIsAlone, Registered, Held, Where
  <2>3. Held(x, v, "gone")' <=> Held(x, v, "gone") /\ <<x, v>> # Where(c)
    BY <1>g, <1>t DEF HolderIsAlone, Registered, Held, Where
  <2>4. <<x, v>> = Where(c) => ~Has(x, v) /\ Held(x, v, "gone") /\ ~Held(x, v, "open")
    BY <1>g, <1>t DEF HolderIsAlone, Registered, Has, Held, Where
  <2> QED
    BY <1>g, <2>0, <2>1, <2>2, <2>3, <2>4 DEF HubInv, HubTypeOK, Subscription
<1>5. NoGapOnLiveConnection'
  <2> SUFFICES ASSUME NEW d \in Connection, conn'[d].state = "live"
               PROVE  due'[d] \subseteq got'[d] \cup OnTheWay(d)'
    BY DEF NoGapOnLiveConnection
  <2>1. due'[d] = due[d] /\ got'[d] = got[d] /\ due[d] \subseteq got[d] \cup OnTheWay(d)
    BY <1>g DEF HubInv, NoGapOnLiveConnection
  <2>2. queue'[d] = queue[d] /\ wire'[Where(d)'] = wire[Where(d)]
    BY <1>g DEF Where
  <2>3. OnTheWay(d)' = OnTheWay(d)
    BY <2>2 DEF OnTheWay
  <2> QED
    BY <2>1, <2>3
<1> QED
  BY <1>1, <1>2, <1>3, <1>4, <1>5 DEF HubInv

(* A replica that dies takes its connections and subscriptions with it.    *)
LEMMA LoseReplicaKeeps ==
  ASSUME HubInv, NEW r \in Replica, LoseReplica(r)
  PROVE  HubInv'
<1> USE BufferAssumption, FreeAssumption
<1>g. /\ lock' = [lock EXCEPT ![r] = Free]
      /\ sub' = {s \in sub : s[1] # r} /\ psub' = {s \in psub : s[1] # r}
      /\ wire' = [s \in Subscription |-> IF s[1] = r THEN <<>> ELSE wire[s]]
      /\ queue' = [d \in Connection |-> IF conn[d].at = r THEN <<>> ELSE queue[d]]
      /\ UNCHANGED <<got, due>>
  BY DEF LoseReplica
<1>0. /\ conn' \in [Connection -> ConnRow]
      /\ \A d \in Connection : conn[d].at # r => conn'[d] = conn[d]
      /\ \A d \in Connection : conn[d].at = r =>
           conn'[d].state = "gone" /\ conn'[d].user = conn[d].user /\ conn'[d].at = r
  <2>1. conn' = [d \in Connection |-> IF conn[d].at = r THEN [conn[d] EXCEPT !.state = "gone"] ELSE conn[d]]
    BY DEF LoseReplica
  <2>2. conn \in [Connection -> ConnRow] /\ "gone" \in ConnStates
    BY DEF HubInv, HubTypeOK, ConnStates
  <2> QED
    BY <2>1, <2>2, RowSet
<1>s. \A d \in Connection : /\ Registered(d)' <=> Registered(d) /\ conn[d].at # r
                            /\ conn'[d].at = conn[d].at /\ conn'[d].user = conn[d].user
                            /\ conn[d].at # r => conn'[d] = conn[d]
  BY <1>0 DEF Registered
<1>t. /\ lock \in [Replica -> Connection \cup {Free}]
      /\ \A d \in Connection : conn[d].state # "unused" => conn[d].user \in User /\ conn[d].at \in Replica
      /\ HolderIsAlone
  BY DEF HubInv, HubTypeOK, Placed
<1>1. HubTypeOK'
  BY <1>g, <1>0 DEF HubInv, HubTypeOK, Placed, ConnRow, ConnStates, Subscription, Where
<1>2. Placed'
  <2> SUFFICES ASSUME NEW d \in Connection
               PROVE  /\ conn'[d].state = "unused" => conn'[d].at = Free
                      /\ conn'[d].state # "unused" => conn'[d].user \in User /\ conn'[d].at \in Replica
                      /\ Len(queue'[d]) <= SendBuffer
                      /\ conn'[d].state \in {"unused", "open"} => due'[d] = {}
    BY DEF Placed
  <2>1. /\ conn[d].state = "unused" => conn[d].at = Free
        /\ Len(queue[d]) <= SendBuffer
        /\ conn[d].state \in {"unused", "open"} => due[d] = {}
    BY DEF HubInv, Placed
  <2>2. CASE conn[d].at = r
    <3>1. queue'[d] = <<>> /\ Len(<<>>) = 0
      BY <1>g, <2>2
    <3> QED
      BY <1>0, <1>t, <2>1, <2>2, <3>1
  <2>3. CASE conn[d].at # r
    BY <1>g, <1>0, <1>t, <2>1, <2>3
  <2> QED
    BY <2>2, <2>3
<1>3. HolderIsAlone'
  BY <1>g, <1>s, <1>t DEF HolderIsAlone, Where
<1>4. SubscriptionsFit'
  <2> SUFFICES ASSUME NEW x \in Replica, NEW v \in User
               PROVE  /\ <<x, v>> \in sub' <=> Has(x, v)' \/ Held(x, v, "open")'
                      /\ <<x, v>> \in psub' <=> Has(x, v)' \/ Held(x, v, "gone")'
    BY DEF SubscriptionsFit
  <2>0. /\ <<x, v>> \in sub <=> Has(x, v) \/ Held(x, v, "open")
        /\ <<x, v>> \in psub <=> Has(x, v) \/ Held(x, v, "gone")
    BY DEF HubInv, SubscriptionsFit
  <2>1. Has(x, v)' <=> Has(x, v) /\ x # r
    BY <1>g, <1>s, <1>t DEF HolderIsAlone, Has, Where
  <2>2. Held(x, v, "open")' <=> Held(x, v, "open") /\ x # r
    BY <1>g, <1>s, <1>t DEF HolderIsAlone, Held, Where
  <2>3. Held(x, v, "gone")' <=> Held(x, v, "gone") /\ x # r
    BY <1>g, <1>s, <1>t DEF HolderIsAlone, Held, Where
  <2> QED
    BY <1>g, <2>0, <2>1, <2>2, <2>3 DEF HubInv, HubTypeOK, Subscription
<1>5. NoGapOnLiveConnection'
  <2> SUFFICES ASSUME NEW d \in Connection, conn'[d].state = "live"
               PROVE  due'[d] \subseteq got'[d] \cup OnTheWay(d)'
    BY DEF NoGapOnLiveConnection
  <2>1. conn[d].at # r /\ conn'[d] = conn[d]
    BY <1>0
  <2>2. due'[d] = due[d] /\ got'[d] = got[d] /\ due[d] \subseteq got[d] \cup OnTheWay(d)
    BY <1>g, <2>1 DEF HubInv, NoGapOnLiveConnection
  <2>3. Where(d)' = Where(d) /\ Where(d) \in Subscription /\ Where(d)[1] # r
    BY <1>t, <2>1 DEF Where, Subscription
  <2>4. queue'[d] = queue[d] /\ wire'[Where(d)'] = wire[Where(d)]
    BY <1>g, <2>1, <2>3
  <2> QED
    BY <2>2, <2>4 DEF OnTheWay
<1> QED
  BY <1>1, <1>2, <1>3, <1>4, <1>5 DEF HubInv

(* A frame is on the wire of every subscription, and due to every live     *)
(* connection.                                                             *)
LEMMA PublishToKeeps ==
  ASSUME HubInv, NEW u \in User, NEW f \in Frames, PublishTo(u, f)
  PROVE  HubInv'
<1> USE BufferAssumption, FreeAssumption
<1>g. /\ wire' = [s \in Subscription |-> IF s \in sub /\ s[2] = u THEN Append(wire[s], f) ELSE wire[s]]
      /\ due' = [d \in Connection |-> IF conn[d].state = "live" /\ conn[d].user = u THEN due[d] \cup {f} ELSE due[d]]
      /\ UNCHANGED <<conn, lock, sub, psub, queue, got>>
  BY DEF PublishTo, Published, NowDue
<1>t. /\ lock \in [Replica -> Connection \cup {Free}]
      /\ \A d \in Connection : conn[d].state # "unused" => conn[d].user \in User /\ conn[d].at \in Replica
      /\ HolderIsAlone
  BY DEF HubInv, HubTypeOK, Placed
<1>1. HubTypeOK'
  BY <1>g DEF HubInv, HubTypeOK, Placed, ConnRow, ConnStates, Subscription, Where
<1>2. Placed'
  BY <1>g, AppendedRange, TakenRange DEF HubInv, HubTypeOK, Placed
<1>3. HolderIsAlone'
  BY <1>g, <1>t DEF HolderIsAlone, Registered, Where
<1>4. SubscriptionsFit'
  <2> SUFFICES ASSUME NEW x \in Replica, NEW v \in User
               PROVE  /\ <<x, v>> \in sub' <=> Has(x, v)' \/ Held(x, v, "open")'
                      /\ <<x, v>> \in psub' <=> Has(x, v)' \/ Held(x, v, "gone")'
    BY DEF SubscriptionsFit
  <2>0. /\ <<x, v>> \in sub <=> Has(x, v) \/ Held(x, v, "open")
        /\ <<x, v>> \in psub <=> Has(x, v) \/ Held(x, v, "gone")
    BY DEF HubInv, SubscriptionsFit
  <2>1. Has(x, v)' <=> Has(x, v)
    BY <1>g, <1>t DEF HolderIsAlone, Registered, Has, Where
  <2>2. Held(x, v, "open")' <=> Held(x, v, "open")
    BY <1>g, <1>t DEF HolderIsAlone, Registered, Held, Where
  <2>3. Held(x, v, "gone")' <=> Held(x, v, "gone")
    BY <1>g, <1>t DEF HolderIsAlone, Registered, Held, Where
  <2> QED
    BY <1>g, <2>0, <2>1, <2>2, <2>3 DEF HubInv, HubTypeOK, Subscription
<1>5. NoGapOnLiveConnection'
  <2> SUFFICES ASSUME NEW d \in Connection, conn'[d].state = "live"
               PROVE  due'[d] \subseteq got'[d] \cup OnTheWay(d)'
    BY DEF NoGapOnLiveConnection
  <2>1. /\ got'[d] = got[d] /\ queue'[d] = queue[d] /\ Where(d)' = Where(d)
        /\ due[d] \subseteq got[d] \cup OnTheWay(d) /\ conn[d].state = "live"
    BY <1>g DEF HubInv, NoGapOnLiveConnection, Where
  <2>2. Where(d) \in Subscription /\ wire[Where(d)] \in Seq(Frames)
    BY <1>t, <2>1 DEF HubInv, HubTypeOK, Where, Subscription
  <2>3. CASE conn[d].user = u
    <3>1. Where(d) \in sub
      <4>1. Has(conn[d].at, conn[d].user)
        BY <2>1 DEF Has, Registered
      <4> QED
        BY <1>t, <2>1, <4>1 DEF HubInv, SubscriptionsFit, Where
    <3>2. wire'[Where(d)] = Append(wire[Where(d)], f) /\ due'[d] = due[d] \cup {f}
      BY <1>g, <2>1, <2>2, <2>3, <3>1 DEF Where
    <3>3. Range(wire'[Where(d)]) = Range(wire[Where(d)]) \cup {f}
      BY <2>2, <3>2, AppendedRange
    <3> QED
      BY <2>1, <3>2, <3>3 DEF OnTheWay
  <2>4. CASE conn[d].user # u
    <3>1. wire'[Where(d)] = wire[Where(d)] /\ due'[d] = due[d]
      BY <1>g, <2>1, <2>2, <2>4 DEF Where
    <3> QED
      BY <2>1, <3>1 DEF OnTheWay
  <2> QED
    BY <2>3, <2>4
<1> QED
  BY <1>1, <1>2, <1>3, <1>4, <1>5 DEF HubInv

(* A frame goes from the wire to the channels, or the connection is        *)
(* closed.                                                                 *)
LEMMA DeliverKeeps ==
  ASSUME HubInv, NEW r \in Replica, NEW u \in User, Deliver(r, u)
  PROVE  HubInv'
<1> USE BufferAssumption, FreeAssumption
<1>g. /\ wire[<<r, u>>] # <<>>
      /\ wire' = [wire EXCEPT ![<<r, u>>] = Tail(@)]
      /\ UNCHANGED <<lock, sub, psub, got, due>>
  BY DEF Deliver
<1>a. Head(wire[<<r, u>>]) \in Frames /\ Tail(wire[<<r, u>>]) \in Seq(Frames)
  BY <1>g, TakenRange DEF HubInv, HubTypeOK, Subscription
<1>b. conn' = Slow(Entry(r, u)) /\ queue' = Enqueued(Entry(r, u), Head(wire[<<r, u>>]))
  BY DEF Deliver
<1>0. /\ conn' \in [Connection -> ConnRow] /\ queue' \in [Connection -> Seq(Frames)]
      /\ \A d \in Connection :
           /\ conn'[d].user = conn[d].user /\ conn'[d].at = conn[d].at
           /\ \/ conn'[d].state = conn[d].state
              \/ (Registered(d) /\ conn[d].at = r /\ conn[d].user = u) /\ conn[d].state = "live" /\ conn'[d].state = "closing"
           /\ ~(Registered(d) /\ conn[d].at = r /\ conn[d].user = u) => queue'[d] = queue[d]
           /\ (Registered(d) /\ conn[d].at = r /\ conn[d].user = u) =>
                \/ /\ queue'[d] = Append(queue[d], Head(wire[<<r, u>>]))
                   /\ Len(queue'[d]) = Len(queue[d]) + 1 /\ Len(queue'[d]) <= SendBuffer
                \/ queue'[d] = queue[d] /\ conn'[d].state # "live"
  <2>0. HubTypeOK /\ \A d \in Connection : Len(queue[d]) <= SendBuffer
    BY DEF HubInv, Placed
  <2>1. \A d \in Connection : d \in Entry(r, u) <=> Registered(d) /\ conn[d].at = r /\ conn[d].user = u
    BY DEF Entry
  <2>2. /\ conn' \in [Connection -> ConnRow] /\ queue' \in [Connection -> Seq(Frames)]
        /\ \A d \in Connection :
             /\ conn'[d].user = conn[d].user /\ conn'[d].at = conn[d].at
             /\ \/ conn'[d].state = conn[d].state
                \/ d \in Entry(r, u) /\ conn[d].state = "live" /\ conn'[d].state = "closing"
             /\ d \notin Entry(r, u) => queue'[d] = queue[d]
             /\ d \in Entry(r, u) =>
                  \/ /\ queue'[d] = Append(queue[d], Head(wire[<<r, u>>]))
                     /\ Len(queue'[d]) = Len(queue[d]) + 1 /\ Len(queue'[d]) <= SendBuffer
                  \/ queue'[d] = queue[d] /\ conn'[d].state # "live"
    BY <1>a, <1>b, <2>0, EnqueueSets
  <2> QED
    BY <2>1, <2>2
<1>s. \A d \in Connection : /\ Registered(d)' <=> Registered(d)
                            /\ conn'[d].at = conn[d].at /\ conn'[d].user = conn[d].user
                            /\ conn'[d].state # conn[d].state => Registered(d)
                            /\ conn[d].state \in {"open", "gone"} => conn'[d].state = conn[d].state
                            /\ conn'[d].state \in {"open", "gone"} => conn'[d].state = conn[d].state
  BY <1>0 DEF Registered
<1>t. /\ lock \in [Replica -> Connection \cup {Free}]
      /\ \A d \in Connection : conn[d].state # "unused" => conn[d].user \in User /\ conn[d].at \in Replica
      /\ HolderIsAlone
  BY DEF HubInv, HubTypeOK, Placed
<1>1. HubTypeOK'
  BY <1>g, <1>0, <1>a DEF HubInv, HubTypeOK, Placed, ConnRow, ConnStates, Subscription, Where
<1>2. Placed'
  <2> SUFFICES ASSUME NEW d \in Connection
               PROVE  /\ conn'[d].state = "unused" => conn'[d].at = Free
                      /\ conn'[d].state # "unused" => conn'[d].user \in User /\ conn'[d].at \in Replica
                      /\ Len(queue'[d]) <= SendBuffer
                      /\ conn'[d].state \in {"unused", "open"} => due'[d] = {}
    BY DEF Placed
  <2>1. /\ conn[d].state = "unused" => conn[d].at = Free
        /\ conn[d].state # "unused" => conn[d].user \in User /\ conn[d].at \in Replica
        /\ Len(queue[d]) <= SendBuffer
        /\ conn[d].state \in {"unused", "open"} => due[d] = {}
    BY DEF HubInv, Placed
  <2>2. Len(queue'[d]) <= SendBuffer
    BY <1>0, <2>1
  <2>3. due'[d] = due[d] /\ conn'[d].user = conn[d].user /\ conn'[d].at = conn[d].at
    BY <1>g, <1>0
  <2>4. conn'[d].state = conn[d].state \/ (conn[d].state = "live" /\ conn'[d].state = "closing")
    BY <1>0
  <2> QED
    BY <2>1, <2>2, <2>3, <2>4
<1>3. HolderIsAlone'
  BY <1>g, <1>s, <1>t DEF HolderIsAlone, Where
<1>4. SubscriptionsFit'
  <2> SUFFICES ASSUME NEW x \in Replica, NEW v \in User
               PROVE  /\ <<x, v>> \in sub' <=> Has(x, v)' \/ Held(x, v, "open")'
                      /\ <<x, v>> \in psub' <=> Has(x, v)' \/ Held(x, v, "gone")'
    BY DEF SubscriptionsFit
  <2>0. /\ <<x, v>> \in sub <=> Has(x, v) \/ Held(x, v, "open")
        /\ <<x, v>> \in psub <=> Has(x, v) \/ Held(x, v, "gone")
    BY DEF HubInv, SubscriptionsFit
  <2>1. Has(x, v)' <=> Has(x, v)
    BY <1>g, <1>s, <1>t DEF HolderIsAlone, Has, Where
  <2>2. Held(x, v, "open")' <=> Held(x, v, "open")
    BY <1>g, <1>s, <1>t DEF HolderIsAlone, Held, Where
  <2>3. Held(x, v, "gone")' <=> Held(x, v, "gone")
    BY <1>g, <1>s, <1>t DEF HolderIsAlone, Held, Where
  <2> QED
    BY <1>g, <2>0, <2>1, <2>2, <2>3 DEF HubInv, HubTypeOK, Subscription
<1>5. NoGapOnLiveConnection'
  <2> SUFFICES ASSUME NEW d \in Connection, conn'[d].state = "live"
               PROVE  due'[d] \subseteq got'[d] \cup OnTheWay(d)'
    BY DEF NoGapOnLiveConnection
  <2>1. /\ due'[d] = due[d] /\ got'[d] = got[d] /\ conn[d].state = "live" /\ Where(d)' = Where(d)
        /\ due[d] \subseteq got[d] \cup OnTheWay(d)
    BY <1>g, <1>0 DEF HubInv, NoGapOnLiveConnection, Where
  <2>2. Where(d) \in Subscription /\ wire \in [Subscription -> Seq(Frames)] /\ queue[d] \in Seq(Frames)
    BY <1>t, <2>1 DEF HubInv, HubTypeOK, Where, Subscription
  <2>3. CASE Where(d) = <<r, u>>
    <3>1. queue'[d] = Append(queue[d], Head(wire[<<r, u>>]))
      BY <1>0, <2>1, <2>3 DEF Where, Registered
    <3>2. Range(queue'[d]) = Range(queue[d]) \cup {Head(wire[<<r, u>>])}
      BY <1>a, <2>2, <3>1, AppendedRange
    <3>3. wire'[Where(d)] = Tail(wire[<<r, u>>])
      BY <1>g, <2>2, <2>3
    <3>4. Range(wire[Where(d)]) = {Head(wire[<<r, u>>])} \cup Range(Tail(wire[<<r, u>>]))
      BY <1>g, <2>2, <2>3, TakenRange
    <3> QED
      BY <2>1, <3>2, <3>3, <3>4 DEF OnTheWay
  <2>4. CASE Where(d) # <<r, u>>
    <3>1. queue'[d] = queue[d]
      BY <1>0, <2>4 DEF Where
    <3>2. wire'[Where(d)] = wire[Where(d)]
      BY <1>g, <2>2, <2>4
    <3> QED
      BY <2>1, <3>1, <3>2 DEF OnTheWay
  <2> QED
    BY <2>3, <2>4
<1> QED
  BY <1>1, <1>2, <1>3, <1>4, <1>5 DEF HubInv

(* A frame goes from the channel to the client.                            *)
LEMMA WriteKeeps ==
  ASSUME HubInv, NEW c \in Connection, Write(c)
  PROVE  HubInv'
<1> USE BufferAssumption, FreeAssumption
<1>g. /\ conn[c].state = "live" /\ queue[c] # <<>>
      /\ got' = [got EXCEPT ![c] = @ \cup {Head(queue[c])}] /\ queue' = [queue EXCEPT ![c] = Tail(@)]
      /\ UNCHANGED <<conn, lock, sub, psub, wire, due>>
  BY DEF Write
<1>t. /\ lock \in [Replica -> Connection \cup {Free}]
      /\ \A d \in Connection : conn[d].state # "unused" => conn[d].user \in User /\ conn[d].at \in Replica
      /\ HolderIsAlone
  BY DEF HubInv, HubTypeOK, Placed
<1>1. HubTypeOK'
  BY <1>g DEF HubInv, HubTypeOK, Placed, ConnRow, ConnStates, Subscription, Where
<1>2. Placed'
  BY <1>g, AppendedRange, TakenRange DEF HubInv, HubTypeOK, Placed
<1>3. HolderIsAlone'
  BY <1>g, <1>t DEF HolderIsAlone, Registered, Where
<1>4. SubscriptionsFit'
  <2> SUFFICES ASSUME NEW x \in Replica, NEW v \in User
               PROVE  /\ <<x, v>> \in sub' <=> Has(x, v)' \/ Held(x, v, "open")'
                      /\ <<x, v>> \in psub' <=> Has(x, v)' \/ Held(x, v, "gone")'
    BY DEF SubscriptionsFit
  <2>0. /\ <<x, v>> \in sub <=> Has(x, v) \/ Held(x, v, "open")
        /\ <<x, v>> \in psub <=> Has(x, v) \/ Held(x, v, "gone")
    BY DEF HubInv, SubscriptionsFit
  <2>1. Has(x, v)' <=> Has(x, v)
    BY <1>g, <1>t DEF HolderIsAlone, Registered, Has, Where
  <2>2. Held(x, v, "open")' <=> Held(x, v, "open")
    BY <1>g, <1>t DEF HolderIsAlone, Registered, Held, Where
  <2>3. Held(x, v, "gone")' <=> Held(x, v, "gone")
    BY <1>g, <1>t DEF HolderIsAlone, Registered, Held, Where
  <2> QED
    BY <1>g, <2>0, <2>1, <2>2, <2>3 DEF HubInv, HubTypeOK, Subscription
<1>5. NoGapOnLiveConnection'
  <2> SUFFICES ASSUME NEW d \in Connection, conn'[d].state = "live"
               PROVE  due'[d] \subseteq got'[d] \cup OnTheWay(d)'
    BY DEF NoGapOnLiveConnection
  <2>1. due'[d] = due[d] /\ due[d] \subseteq got[d] \cup OnTheWay(d)
    BY <1>g DEF HubInv, NoGapOnLiveConnection
  <2>2. wire'[Where(d)'] = wire[Where(d)]
    BY <1>g DEF Where
  <2>3. got'[d] \cup Range(queue'[d]) = got[d] \cup Range(queue[d])
    <3>1. queue \in [Connection -> Seq(Frames)] /\ got \in [Connection -> SUBSET Frames]
      BY DEF HubInv, HubTypeOK
    <3>2. CASE d = c
      <4>1. queue[d] \in Seq(Frames) /\ queue[d] # <<>>
        BY <1>g, <3>1, <3>2
      <4>2. Range(queue[d]) = {Head(queue[d])} \cup Range(Tail(queue[d]))
        BY <4>1, TakenRange
      <4>3. got'[d] = got[d] \cup {Head(queue[d])} /\ queue'[d] = Tail(queue[d])
        BY <1>g, <3>1, <3>2
      <4> QED
        BY <4>2, <4>3
    <3>3. CASE d # c
      BY <1>g, <3>1, <3>3
    <3> QED
      BY <3>2, <3>3
  <2> QED
    BY <2>1, <2>2, <2>3 DEF OnTheWay
<1> QED
  BY <1>1, <1>2, <1>3, <1>4, <1>5 DEF HubInv

(* An answer to the client waits in his channel.                           *)
LEMMA ReplyKeeps ==
  ASSUME HubInv, NEW c \in Connection, NEW f \in Frames, Reply(c, f)
  PROVE  HubInv'
<1> USE BufferAssumption, FreeAssumption
<1>g. /\ UNCHANGED <<lock, sub, psub, wire, got, due>>
  BY DEF Reply
<1>a. f \in Frames
  OBVIOUS
<1>b. conn' = Slow({c}) /\ queue' = Enqueued({c}, f)
  BY DEF Reply
<1>0. /\ conn' \in [Connection -> ConnRow] /\ queue' \in [Connection -> Seq(Frames)]
      /\ \A d \in Connection :
           /\ conn'[d].user = conn[d].user /\ conn'[d].at = conn[d].at
           /\ \/ conn'[d].state = conn[d].state
              \/ (d = c) /\ conn[d].state = "live" /\ conn'[d].state = "closing"
           /\ ~(d = c) => queue'[d] = queue[d]
           /\ (d = c) =>
                \/ /\ queue'[d] = Append(queue[d], f)
                   /\ Len(queue'[d]) = Len(queue[d]) + 1 /\ Len(queue'[d]) <= SendBuffer
                \/ queue'[d] = queue[d] /\ conn'[d].state # "live"
  <2>0. HubTypeOK /\ \A d \in Connection : Len(queue[d]) <= SendBuffer
    BY DEF HubInv, Placed
  <2>1. \A d \in Connection : d \in {c} <=> d = c
    BY DEF Entry
  <2>2. /\ conn' \in [Connection -> ConnRow] /\ queue' \in [Connection -> Seq(Frames)]
        /\ \A d \in Connection :
             /\ conn'[d].user = conn[d].user /\ conn'[d].at = conn[d].at
             /\ \/ conn'[d].state = conn[d].state
                \/ d \in {c} /\ conn[d].state = "live" /\ conn'[d].state = "closing"
             /\ d \notin {c} => queue'[d] = queue[d]
             /\ d \in {c} =>
                  \/ /\ queue'[d] = Append(queue[d], f)
                     /\ Len(queue'[d]) = Len(queue[d]) + 1 /\ Len(queue'[d]) <= SendBuffer
                  \/ queue'[d] = queue[d] /\ conn'[d].state # "live"
    BY <1>a, <1>b, <2>0, EnqueueSets
  <2> QED
    BY <2>1, <2>2
<1>s. \A d \in Connection : /\ Registered(d)' <=> Registered(d)
                            /\ conn'[d].at = conn[d].at /\ conn'[d].user = conn[d].user
                            /\ conn'[d].state # conn[d].state => Registered(d)
                            /\ conn[d].state \in {"open", "gone"} => conn'[d].state = conn[d].state
                            /\ conn'[d].state \in {"open", "gone"} => conn'[d].state = conn[d].state
  BY <1>0 DEF Registered
<1>t. /\ lock \in [Replica -> Connection \cup {Free}]
      /\ \A d \in Connection : conn[d].state # "unused" => conn[d].user \in User /\ conn[d].at \in Replica
      /\ HolderIsAlone
  BY DEF HubInv, HubTypeOK, Placed
<1>1. HubTypeOK'
  BY <1>g, <1>0, <1>a DEF HubInv, HubTypeOK, Placed, ConnRow, ConnStates, Subscription, Where
<1>2. Placed'
  <2> SUFFICES ASSUME NEW d \in Connection
               PROVE  /\ conn'[d].state = "unused" => conn'[d].at = Free
                      /\ conn'[d].state # "unused" => conn'[d].user \in User /\ conn'[d].at \in Replica
                      /\ Len(queue'[d]) <= SendBuffer
                      /\ conn'[d].state \in {"unused", "open"} => due'[d] = {}
    BY DEF Placed
  <2>1. /\ conn[d].state = "unused" => conn[d].at = Free
        /\ conn[d].state # "unused" => conn[d].user \in User /\ conn[d].at \in Replica
        /\ Len(queue[d]) <= SendBuffer
        /\ conn[d].state \in {"unused", "open"} => due[d] = {}
    BY DEF HubInv, Placed
  <2>2. Len(queue'[d]) <= SendBuffer
    BY <1>0, <2>1
  <2>3. due'[d] = due[d] /\ conn'[d].user = conn[d].user /\ conn'[d].at = conn[d].at
    BY <1>g, <1>0
  <2>4. conn'[d].state = conn[d].state \/ (conn[d].state = "live" /\ conn'[d].state = "closing")
    BY <1>0
  <2> QED
    BY <2>1, <2>2, <2>3, <2>4
<1>3. HolderIsAlone'
  BY <1>g, <1>s, <1>t DEF HolderIsAlone, Where
<1>4. SubscriptionsFit'
  <2> SUFFICES ASSUME NEW x \in Replica, NEW v \in User
               PROVE  /\ <<x, v>> \in sub' <=> Has(x, v)' \/ Held(x, v, "open")'
                      /\ <<x, v>> \in psub' <=> Has(x, v)' \/ Held(x, v, "gone")'
    BY DEF SubscriptionsFit
  <2>0. /\ <<x, v>> \in sub <=> Has(x, v) \/ Held(x, v, "open")
        /\ <<x, v>> \in psub <=> Has(x, v) \/ Held(x, v, "gone")
    BY DEF HubInv, SubscriptionsFit
  <2>1. Has(x, v)' <=> Has(x, v)
    BY <1>g, <1>s, <1>t DEF HolderIsAlone, Has, Where
  <2>2. Held(x, v, "open")' <=> Held(x, v, "open")
    BY <1>g, <1>s, <1>t DEF HolderIsAlone, Held, Where
  <2>3. Held(x, v, "gone")' <=> Held(x, v, "gone")
    BY <1>g, <1>s, <1>t DEF HolderIsAlone, Held, Where
  <2> QED
    BY <1>g, <2>0, <2>1, <2>2, <2>3 DEF HubInv, HubTypeOK, Subscription
<1>5. NoGapOnLiveConnection'
  <2> SUFFICES ASSUME NEW d \in Connection, conn'[d].state = "live"
               PROVE  due'[d] \subseteq got'[d] \cup OnTheWay(d)'
    BY DEF NoGapOnLiveConnection
  <2>1. /\ due'[d] = due[d] /\ got'[d] = got[d] /\ conn[d].state = "live" /\ wire'[Where(d)'] = wire[Where(d)]
        /\ due[d] \subseteq got[d] \cup OnTheWay(d)
    BY <1>g, <1>0 DEF HubInv, NoGapOnLiveConnection, Where
  <2>2. queue[d] \in Seq(Frames)
    BY DEF HubInv, HubTypeOK
  <2>3. Range(queue[d]) \subseteq Range(queue'[d])
    <3>1. CASE d = c
      <4>1. queue'[d] = Append(queue[d], f)
        BY <1>0, <2>1, <3>1
      <4> QED
        BY <2>2, <4>1, AppendedRange
    <3>2. CASE d # c
      BY <1>0, <3>2
    <3> QED
      BY <3>1, <3>2
  <2> QED
    BY <2>1, <2>3 DEF OnTheWay
<1> QED
  BY <1>1, <1>2, <1>3, <1>4, <1>5 DEF HubInv
(* Removal, of the last connection or another.                             *)
LEMMA RemoveKeeps ==
  ASSUME HubInv, NEW c \in Connection, Remove(c)
  PROVE  HubInv'
  BY RemoveOneKeeps, RemoveLastKeeps

(* An action that leaves the hub alone.                                    *)
LEMMA HubStutter ==
  ASSUME HubInv, UNCHANGED hubVars
  PROVE  HubInv'
  BY DEF hubVars, HubInv, HubTypeOK, Placed, HolderIsAlone, SubscriptionsFit, Has, Held, Registered,
         NoGapOnLiveConnection, OnTheWay, Where

(* The hubs are empty at first.                                            *)
LEMMA HubInitial == HubInit => HubInv
<1> SUFFICES ASSUME HubInit PROVE HubInv
  OBVIOUS
<1> USE DEF HubInit, NoConn
<1>1. HubTypeOK
  BY DEF HubTypeOK, ConnRow, ConnStates
<1>2. Placed
  BY BufferAssumption DEF Placed
<1>3. HolderIsAlone
  BY DEF HolderIsAlone
<1>4. SubscriptionsFit
  BY DEF SubscriptionsFit, Has, Held, Registered
<1>5. NoGapOnLiveConnection
  BY DEF NoGapOnLiveConnection
<1> QED
  BY <1>1, <1>2, <1>3, <1>4, <1>5 DEF HubInv

(***************************************************************************)
(* What a step of the hub does to a connection, as the service sees it: it *)
(* stays its user's, it never comes back to life, and nothing that was due *)
(* to it stops being due.                                                  *)
(***************************************************************************)
Kept(c) ==
  /\ due[c] \subseteq due'[c]
  /\ Over(c) => conn'[c].state \in {"live", "closing", "gone"} /\ conn'[c].user = conn[c].user
  /\ Over(c) /\ conn[c].state # "live" => conn'[c].state # "live"
AllKept == \A c \in Connection : Kept(c)

(* What is due and live stays so: when nothing happens in the hubs, ...    *)
LEMMA StillKept == ASSUME UNCHANGED hubVars PROVE AllKept
  BY DEF AllKept, Kept, Over, hubVars

(* ... when a connection is accepted, ...                                  *)
LEMMA AcceptKept == ASSUME HubTypeOK, NEW c \in Connection, NEW u, NEW r, Accept(c, u, r) PROVE AllKept
  BY DEF Accept, NoConn, AllKept, Kept, Over, HubTypeOK, ConnRow, ConnStates

(* ... added, ...                                                          *)
LEMMA AddKept == ASSUME HubTypeOK, NEW c \in Connection, Add(c) PROVE AllKept
<1>1. conn[c].state = "open" /\ SetState(c, "live") /\ UNCHANGED due
  BY DEF Add
<1>2. /\ conn'[c].state = "live" /\ conn'[c].user = conn[c].user
      /\ \A d \in Connection : d # c => conn'[d] = conn[d]
  BY <1>1, StateSet DEF ConnStates
<1> QED
  BY <1>1, <1>2 DEF AllKept, Kept, Over

(* ... subscribed for, ...                                                 *)
LEMMA AddSubscribesKept == ASSUME HubTypeOK, NEW c \in Connection, AddSubscribes(c) PROVE AllKept
  BY DEF AddSubscribes, AllKept, Kept, Over, HubTypeOK, ConnRow, ConnStates

(* ... answered for, ...                                                   *)
LEMMA AddRespondsKept == ASSUME HubTypeOK, NEW c \in Connection, AddResponds(c) PROVE AllKept
<1>1. conn[c].state = "open" /\ SetState(c, "live") /\ UNCHANGED due
  BY DEF AddResponds
<1>2. /\ conn'[c].state = "live" /\ conn'[c].user = conn[c].user
      /\ \A d \in Connection : d # c => conn'[d] = conn[d]
  BY <1>1, StateSet DEF ConnStates
<1> QED
  BY <1>1, <1>2 DEF AllKept, Kept, Over

(* ... refused, ...                                                        *)
LEMMA AddFailsKept == ASSUME HubTypeOK, NEW c \in Connection, AddFails(c) PROVE AllKept
<1>1. conn[c].state = "open" /\ SetState(c, "gone") /\ UNCHANGED due
  BY DEF AddFails
<1>2. /\ conn'[c].state = "gone" /\ conn'[c].user = conn[c].user
      /\ \A d \in Connection : d # c => conn'[d] = conn[d]
  BY <1>1, StateSet DEF ConnStates
<1> QED
  BY <1>1, <1>2 DEF AllKept, Kept, Over

(* ... closed, ...                                                         *)
LEMMA CloseKept == ASSUME HubTypeOK, NEW c \in Connection, Close(c) PROVE AllKept
<1>1. conn[c].state = "live" /\ SetState(c, "closing") /\ UNCHANGED due
  BY DEF Close
<1>2. /\ conn'[c].state = "closing" /\ conn'[c].user = conn[c].user
      /\ \A d \in Connection : d # c => conn'[d] = conn[d]
  BY <1>1, StateSet DEF ConnStates
<1> QED
  BY <1>1, <1>2 DEF AllKept, Kept, Over

(* ... removed, ...                                                        *)
LEMMA RemoveKept == ASSUME HubTypeOK, NEW c \in Connection, Remove(c) PROVE AllKept
<1>1. conn[c].state = "closing" /\ SetState(c, "gone") /\ UNCHANGED due
  BY DEF Remove
<1>2. /\ conn'[c].state = "gone" /\ conn'[c].user = conn[c].user
      /\ \A d \in Connection : d # c => conn'[d] = conn[d]
  BY <1>1, StateSet DEF ConnStates
<1> QED
  BY <1>1, <1>2 DEF AllKept, Kept, Over

(* ... answered for no more, ...                                           *)
LEMMA RemoveResponderKept == ASSUME HubTypeOK, NEW c \in Connection, RemoveResponder(c) PROVE AllKept
  BY DEF RemoveResponder, AllKept, Kept, Over, HubTypeOK, ConnRow, ConnStates

(* ... or lost with its replica, ...                                       *)
LEMMA LoseReplicaKept == ASSUME HubTypeOK, NEW r \in Replica, LoseReplica(r) PROVE AllKept
  BY DEF LoseReplica, AllKept, Kept, Over, HubTypeOK, ConnRow, ConnStates

(* ... when a frame is published, ...                                      *)
LEMMA PublishToKept == ASSUME HubTypeOK, NEW u \in User, NEW f \in Frames, PublishTo(u, f) PROVE AllKept
  BY DEF PublishTo, NowDue, AllKept, Kept, Over, HubTypeOK, ConnRow, ConnStates

(* ... delivered, ...                                                      *)
LEMMA DeliverKept == ASSUME HubTypeOK, NEW r, NEW u, Deliver(r, u) PROVE AllKept
  BY DEF Deliver, Slow, AllKept, Kept, Over, HubTypeOK, ConnRow, ConnStates

(* ... written, ...                                                        *)
LEMMA WriteKept == ASSUME HubTypeOK, NEW c \in Connection, Write(c) PROVE AllKept
  BY DEF Write, AllKept, Kept, Over, HubTypeOK, ConnRow, ConnStates

(* ... or put into a channel as an answer.                                 *)
LEMMA ReplyKept == ASSUME HubTypeOK, NEW c, NEW f, Reply(c, f) PROVE AllKept
  BY DEF Reply, Slow, AllKept, Kept, Over, HubTypeOK, ConnRow, ConnStates

(***************************************************************************)
(* The service.                                                            *)
(***************************************************************************)

(* What a request has in hand, by what it is doing.                        *)
LEMMA ByOp ==
  ASSUME NEW x \in RequestType
  PROVE  /\ x.op = "start" => x \in Asked
         /\ x.op = "started" => x \in Started
         /\ x.op = "send" => x \in Sending
         /\ x.op = "sent" => x \in Sent
         /\ x.op = "answered" => x \in Answered
         /\ x.op = "refused" => x \in Refusal
         /\ x.op = "read" => x \in Reading
<1> USE DEF Asked, Started, Sending, Sent, Answered, Refusal, Reading
<1>1. x \in {Idle, Done} \/ x \in Asked \/ x \in Started \/ x \in Sending
        \/ x \in Sent \/ x \in Answered \/ x \in Refusal \/ x \in Reading
  BY DEF RequestType
<1>2. CASE x \in {Idle, Done}
  BY <1>2 DEF Idle, Done
<1>3. CASE x \in Asked
  BY <1>3
<1>4. CASE x \in Started
  BY <1>4
<1>6. CASE x \in Sending
  BY <1>6
<1>7. CASE x \in Sent
  BY <1>7
<1>8. CASE x \in Answered
  BY <1>8
<1>9. CASE x \in Refusal
  BY <1>9
<1>10. CASE x \in Reading
  BY <1>10
<1> QED
  BY <1>1, <1>2, <1>3, <1>4, <1>6, <1>7, <1>8, <1>9, <1>10

(* A request that does not move stays served.                              *)
LEMMA ServedStays ==
  ASSUME NEW q \in Request, SeenByIsServed(q), AllKept, req'[q] = req[q], lost \subseteq lost'
  PROVE  SeenByIsServed(q)'
<1> SUFFICES ASSUME NEW c \in Connection
    PROVE  /\ Answers(q)' /\ c \in req'[q].seen => Over(c)' /\ conn'[c].user = req'[q].to
           /\ Delivered(q)' /\ c \in req'[q].seen =>
                Over(c)' /\ (q \in lost' \/ conn'[c].state # "live" \/ Frame("message", q) \in due'[c])
  BY DEF SeenByIsServed
<1>1. /\ Answers(q)' <=> Answers(q)
      /\ Delivered(q)' <=> Delivered(q)
  BY DEF Answers, Delivered
<1>2. /\ due[c] \subseteq due'[c]
      /\ Over(c) => Over(c)' /\ conn'[c].user = conn[c].user
      /\ Over(c) /\ conn[c].state # "live" => conn'[c].state # "live"
  BY DEF AllKept, Kept, Over
<1>3. /\ Answers(q) /\ c \in req[q].seen => Over(c) /\ conn[c].user = req[q].to
      /\ Delivered(q) /\ c \in req[q].seen =>
           Over(c) /\ (q \in lost \/ conn[c].state # "live" \/ Frame("message", q) \in due[c])
  BY DEF SeenByIsServed
<1> QED
  BY <1>1, <1>2, <1>3

(* Nobody moves.                                                           *)
Stays ==
  /\ ConversationsAreUnique' /\ StoredBeforeSent' /\ SeenAreServed'
(* What serves the recipients stays when no request goes on.               *)
LEMMA NobodyMoves ==
  ASSUME ServiceInv, AllKept, UNCHANGED <<conversations, req, lost, acked, outbox>>, Ids \subseteq Ids'
  PROVE  Stays
<1>1. ConversationsAreUnique'
  BY DEF ServiceInv, ConversationsAreUnique
<1>2. StoredBeforeSent'
  BY DEF ServiceInv, StoredBeforeSent, Stored
<1>3. SeenAreServed'
  <2> SUFFICES ASSUME NEW q \in Request PROVE SeenByIsServed(q)'
    BY DEF SeenAreServed
  <2> QED
    BY ServedStays DEF ServiceInv, SeenAreServed
<1> QED
  BY <1>1, <1>2, <1>3 DEF Stays

(* One request moves, to where what it needs is there.                     *)
LEMMA OneMoves ==
  ASSUME ServiceInv, AllKept, NEW q \in Request, NEW x, GoTo(q, x),
         ConversationsAreUnique', SeenByIsServed(q)', lost \subseteq lost', Ids \subseteq Ids',
         x.op = "sent" \/ (x.op = "send" /\ x.step = "deliver") => q \in Ids',
         acked' \cup outbox' \subseteq acked \cup outbox \cup Ids'
  PROVE  Stays
<1>1. req'[q] = x /\ \A p \in Request : p # q => req'[p] = req[p]
  BY DEF GoTo, ServiceInv, ServiceTypeOK
<1>2. StoredBeforeSent'
  <2>1. \A p \in Request : Stored(p)' => p \in Ids'
    <3> SUFFICES ASSUME NEW p \in Request, Stored(p)' PROVE p \in Ids'
      OBVIOUS
    <3>1. CASE p = q
      BY <1>1, <3>1 DEF Stored
    <3>2. CASE p # q
      BY <1>1, <3>2 DEF Stored, ServiceInv, StoredBeforeSent
    <3> QED
      BY <3>1, <3>2
  <2>2. acked \cup outbox \subseteq Ids
    BY DEF ServiceInv, StoredBeforeSent
  <2> QED
    BY <2>1, <2>2 DEF StoredBeforeSent
<1>3. SeenAreServed'
  <2> SUFFICES ASSUME NEW p \in Request, p # q PROVE SeenByIsServed(p)'
    BY DEF SeenAreServed
  <2>1. req'[p] = req[p]
    BY <1>1
  <2> QED
    BY <2>1, ServedStays DEF ServiceInv, SeenAreServed
<1> QED
  BY <1>2, <1>3 DEF Stays

(* The conversations stay, and nobody is answered with one.                *)
LEMMA ConversationsStay ==
  ASSUME ServiceInv, NEW q \in Request, NEW x, GoTo(q, x), x.op # "started", UNCHANGED conversations
  PROVE  ConversationsAreUnique'
<1>1. req'[q] = x /\ \A p \in Request : p # q => req'[p] = req[p]
  BY DEF GoTo, ServiceInv, ServiceTypeOK
<1> QED
  BY <1>1 DEF ServiceInv, ConversationsAreUnique

(* A request that is over, or has not asked for the presence yet.          *)
Aside(x) == x.op \in {"done", "start", "refused", "read"} \/ (x.op = "send" /\ x.step = "presence")
(* It stays when one request goes on to what needs no serving.             *)
LEMMA OneSteps ==
  ASSUME ServiceInv, AllKept, NEW q \in Request, NEW x, GoTo(q, x), Aside(x),
         UNCHANGED <<conversations, lost>>, Ids \subseteq Ids',
         acked' \cup outbox' \subseteq acked \cup outbox \cup Ids'
  PROVE  Stays
<1>1. req'[q] = x
  BY DEF GoTo, ServiceInv, ServiceTypeOK
<1>2. SeenByIsServed(q)'
  BY <1>1 DEF SeenByIsServed, Answers, Delivered, Aside
<1>3. /\ ConversationsAreUnique'
      /\ ~(x.op = "sent" \/ (x.op = "send" /\ x.step = "deliver"))
  BY ConversationsStay DEF Aside
<1> QED
  BY <1>2, <1>3, OneMoves

(* The invariant, from its parts; and a step that leaves the hub alone.    *)
LEMMA Whole ==
  ASSUME HubInv', ServiceTypeOK', Stays
  PROVE  Inv'
  BY DEF Inv, ServiceInv, Stays

(* A step of the service that leaves the hubs alone keeps their invariant. *)
LEMMA HubRests ==
  ASSUME Inv, UNCHANGED hubVars
  PROVE  HubInv /\ ServiceInv /\ HubTypeOK /\ HubInv' /\ AllKept
  BY HubStutter, StillKept DEF Inv, HubInv

(* A conversation is asked for.                                            *)
LEMMA StartKeeps ==
  ASSUME Inv, NEW q \in Request, NEW u \in User, NEW a \in Ad, NEW r \in Replica, Start(q, u, a, r)
  PROVE  Inv'
<1>h. HubInv /\ ServiceInv /\ HubInv' /\ AllKept
  BY HubRests DEF Start, service
<1> DEFINE w == [op |-> "start", step |-> "ad", user |-> u, ad |-> a, at |-> r]
<1>g. /\ \E x \in {Done, w} : GoTo(q, x)
      /\ UNCHANGED <<conversations, messages, banned, outbox, tokens, orders, processed, acked, lost>>
  BY DEF Start, tables
<1> PICK x \in {Done, w} : GoTo(q, x)
  BY <1>g
<1>i. Ids' = Ids
  BY <1>g DEF Ids
<1>t. ServiceTypeOK'
  <2>1. x \in RequestType
    BY DEF RequestType, Asked
  <2>2. req' \in [Request -> RequestType]
    BY <2>1, <1>g, <1>h DEF GoTo, ServiceInv, ServiceTypeOK
  <2> QED
    BY <2>2, <1>g, <1>h DEF ServiceInv, ServiceTypeOK
<1>s. Stays
  <2>1. Aside(x)
    BY DEF Aside, Done
  <2> QED
    BY <2>1, <1>h, <1>g, <1>i, OneSteps
<1> QED
  BY <1>h, <1>t, <1>s, Whole

(* Listing is asked for the owner of the ad.                               *)
LEMMA StartGetAdKeeps ==
  ASSUME Inv, NEW q \in Request, StartGetAd(q)
  PROVE  Inv'
<1>h. HubInv /\ ServiceInv /\ HubInv' /\ AllKept
  BY HubRests DEF StartGetAd, service
<1> DEFINE w == [req[q] EXCEPT !.step = "insert"]
<1>g. /\ req[q].op = "start" /\ \E x \in {Done, w} : GoTo(q, x)
      /\ UNCHANGED <<conversations, messages, banned, outbox, tokens, orders, processed, acked, lost>>
  BY DEF StartGetAd, At, tables
<1>w. w \in Asked
  <2>1. req[q] \in Asked
    BY <1>g, <1>h, ByOp DEF ServiceInv, ServiceTypeOK
  <2> QED
    BY <2>1 DEF Asked
<1> PICK x \in {Done, w} : GoTo(q, x)
  BY <1>g
<1>i. Ids' = Ids
  BY <1>g DEF Ids
<1>t. ServiceTypeOK'
  <2>1. x \in RequestType
    BY <1>w DEF RequestType
  <2>2. req' \in [Request -> RequestType]
    BY <2>1, <1>g, <1>h DEF GoTo, ServiceInv, ServiceTypeOK
  <2> QED
    BY <2>2, <1>g, <1>h DEF ServiceInv, ServiceTypeOK
<1>s. Stays
  <2>1. Aside(x)
    <3>1. w.op = "start"
      BY <1>w DEF Asked
    <3>2. Done.op = "done"
      BY DEF Done
    <3>3. x.op \in {"start", "done"}
      BY <3>1, <3>2
    <3> QED
      BY <3>3 DEF Aside
  <2> QED
    BY <2>1, <1>h, <1>g, <1>i, OneSteps
<1> QED
  BY <1>h, <1>t, <1>s, Whole

(* The conversation is inserted, or the one that is there is the answer.   *)
LEMMA StartInsertKeeps ==
  ASSUME Inv, NEW q \in Request, StartInsert(q)
  PROVE  Inv'
<1>h. HubInv /\ ServiceInv /\ HubInv' /\ AllKept
  BY HubRests DEF StartInsert, service
<1> DEFINE e == Ensured(q)
           x == [op |-> "started", answer |-> e]
<1>g. /\ req[q].op = "start" /\ req[q].step = "insert" /\ GoTo(q, x)
      /\ conversations' = conversations \cup {e}
      /\ UNCHANGED <<messages, banned, outbox, tokens, orders, processed, acked, lost>>
  BY DEF StartInsert, At
<1>a. req[q].ad \in Ad /\ req[q].user \in User /\ Owner(req[q].ad) \in User
  <2>1. req[q] \in Asked
    BY <1>g, <1>h, ByOp DEF ServiceInv, ServiceTypeOK
  <2> QED
    BY <2>1, ChatAssumption DEF Asked
<1>e. /\ e \in Conversation /\ e.seller = Owner(e.ad)
      /\ \A k \in conversations : k.ad = e.ad /\ k.buyer = e.buyer => k = e
  <2> DEFINE n == [id |-> q, ad |-> req[q].ad, buyer |-> req[q].user, seller |-> Owner(req[q].ad)]
             there == {y \in conversations : Same(y, n.ad, n.buyer)}
  <2>n. /\ n.ad = req[q].ad /\ n.buyer = req[q].user /\ n.seller = Owner(req[q].ad)
        /\ n \in Conversation
    BY <1>a DEF Conversation
  <2>c. /\ conversations \subseteq Conversation
        /\ \A k \in conversations : k.seller = Owner(k.ad)
        /\ \A k, l \in conversations : k.ad = l.ad /\ k.buyer = l.buyer => k = l
    BY <1>h DEF ServiceInv, ServiceTypeOK, ConversationsAreUnique
  <2>1. CASE there = {}
    <3>1. e = n
      BY <2>1 DEF Ensured
    <3>2. \A k \in conversations : ~(k.ad = n.ad /\ k.buyer = n.buyer)
      BY <2>1, <2>n, <2>c DEF Same
    <3> QED
      BY <3>1, <3>2, <2>n
  <2>2. CASE there # {}
    <3>1. e = CHOOSE y \in there : TRUE
      BY <2>2 DEF Ensured
    <3>2. e \in there
      BY <3>1, <2>2
    <3> QED
      BY <3>2, <2>c
  <2> QED
    BY <2>1, <2>2
<1>i. Ids' = Ids
  BY <1>g DEF Ids
<1>t. ServiceTypeOK'
  <2>1. x \in RequestType
    BY <1>e DEF RequestType, Started
  <2>2. req' \in [Request -> RequestType]
    BY <2>1, <1>g, <1>h DEF GoTo, ServiceInv, ServiceTypeOK
  <2>3. conversations' \in SUBSET Conversation
    BY <1>g, <1>e, <1>h DEF ServiceInv, ServiceTypeOK
  <2> QED
    BY <2>2, <2>3, <1>g, <1>h DEF ServiceInv, ServiceTypeOK
<1>s. Stays
  <2>0. req'[q] = x /\ x.op = "started" /\ x.answer = e /\ \A p \in Request : p # q => req'[p] = req[p]
    BY <1>g, <1>h DEF GoTo, ServiceInv, ServiceTypeOK
  <2>1. ConversationsAreUnique'
    <3>1. /\ \A k \in conversations : k.seller = Owner(k.ad)
          /\ \A k, l \in conversations : k.ad = l.ad /\ k.buyer = l.buyer => k = l
          /\ \A p \in Request : req[p].op = "started" => req[p].answer \in conversations
      BY <1>h DEF ServiceInv, ConversationsAreUnique
    <3>2. \A k \in conversations' : k.seller = Owner(k.ad)
      BY <3>1, <1>e, <1>g
    <3>3. \A k, l \in conversations' : k.ad = l.ad /\ k.buyer = l.buyer => k = l
      BY <3>1, <1>e, <1>g
    <3>4. \A p \in Request : req'[p].op = "started" => req'[p].answer \in conversations'
      BY <3>1, <2>0, <1>g
    <3> QED
      BY <3>2, <3>3, <3>4 DEF ConversationsAreUnique
  <2>2. SeenByIsServed(q)'
    BY <2>0 DEF SeenByIsServed, Answers, Delivered
  <2>3. ~(x.op = "sent" \/ (x.op = "send" /\ x.step = "deliver"))
    BY <2>0
  <2> QED
    BY <2>1, <2>2, <2>3, <1>g, <1>h, <1>i, OneMoves
<1> QED
  BY <1>h, <1>t, <1>s, Whole

(* A message is sent, if its sender may.                                   *)
LEMMA SendKeeps ==
  ASSUME Inv, NEW q \in Request, NEW u \in User, NEW k \in conversations, NEW r \in Replica,
         NEW c \in Connection \cup {Free}, Send(q, u, k, r, c)
  PROVE  Inv'
<1>h. HubInv /\ ServiceInv /\ HubInv' /\ AllKept
  BY HubRests DEF Send, service
<1> DEFINE w == [op |-> "send", step |-> "presence", user |-> u, conv |-> k.id, at |-> r,
                via |-> c, to |-> Counterpart(k, u), online |-> FALSE, seen |-> {}]
           n == [op |-> "refused", via |-> c]
<1>g. /\ \E x \in {n, w} : GoTo(q, x)
      /\ tokens' = IF tokens[r][u] > 0 THEN [tokens EXCEPT ![r][u] = @ - 1] ELSE tokens
      /\ UNCHANGED <<conversations, messages, banned, outbox, orders, processed, acked, lost>>
  BY DEF Send, tables
<1>k. k.id \in Request /\ Counterpart(k, u) \in User
  BY <1>h DEF ServiceInv, ServiceTypeOK, Conversation, Counterpart
<1> PICK x \in {n, w} : GoTo(q, x)
  BY <1>g
<1>i. Ids' = Ids
  BY <1>g DEF Ids
<1>t. ServiceTypeOK'
  <2>a. w \in Sending
    BY <1>k DEF Sending
  <2>b. n \in Refusal
    BY DEF Refusal
  <2>1. x \in RequestType
    BY <2>a, <2>b DEF RequestType
  <2>2. req' \in [Request -> RequestType]
    BY <2>1, <1>g, <1>h DEF GoTo, ServiceInv, ServiceTypeOK
  <2>3. tokens' \in [Replica -> [User -> 0..Burst]]
    <3>1. tokens \in [Replica -> [User -> 0..Burst]]
      BY <1>h DEF ServiceInv, ServiceTypeOK
    <3>2. CASE tokens[r][u] > 0
      <4>1. tokens[r][u] - 1 \in 0..Burst
        BY <3>1, <3>2, ChatAssumption
      <4> QED
        BY <4>1, <3>1, <3>2, <1>g
    <3>3. CASE ~(tokens[r][u] > 0)
      BY <3>1, <3>3, <1>g
    <3> QED
      BY <3>2, <3>3
  <2> QED
    BY <2>2, <2>3, <1>g, <1>h DEF ServiceInv, ServiceTypeOK
<1>s. Stays
  <2>1. Aside(x)
    BY DEF Aside
  <2> QED
    BY <2>1, <1>h, <1>g, <1>i, OneSteps
<1> QED
  BY <1>h, <1>t, <1>s, Whole

(* The recipient answers that he is there, with the connections that he    *)
(* has.                                                                    *)
LEMMA SendPresenceKeeps ==
  ASSUME Inv, NEW q \in Request, SendPresence(q)
  PROVE  Inv'
<1>h. HubInv /\ ServiceInv /\ HubInv' /\ AllKept
  BY HubRests DEF SendPresence, service
<1> DEFINE C == {c \in Connection : conn[c].state = "live" /\ conn[c].user = req[q].to}
           y(b) == [req[q] EXCEPT !.step = "insert", !.online = b, !.seen = C]
<1>g. /\ req[q].op = "send" /\ \E b \in BOOLEAN : GoTo(q, y(b))
      /\ UNCHANGED <<conversations, messages, banned, outbox, tokens, orders, processed, acked, lost>>
  BY DEF SendPresence, At, Online, tables
<1> PICK b \in BOOLEAN : GoTo(q, y(b))
  BY <1>g
<1> DEFINE x == y(b)
<1>y. x \in Sending /\ x.op = "send" /\ x.step = "insert" /\ x.to = req[q].to /\ x.seen = C
  <2>1. req[q] \in Sending
    BY <1>g, <1>h, ByOp DEF ServiceInv, ServiceTypeOK
  <2> QED
    BY <2>1 DEF Sending
<1>m. GoTo(q, x)
  OBVIOUS
<1> HIDE DEF x
<1>i. Ids' = Ids
  BY <1>g DEF Ids
<1>t. ServiceTypeOK'
  <2>1. x \in RequestType
    BY <1>y DEF RequestType
  <2>2. req' \in [Request -> RequestType]
    BY <2>1, <1>m, <1>h DEF GoTo, ServiceInv, ServiceTypeOK
  <2> QED
    BY <2>2, <1>g, <1>h DEF ServiceInv, ServiceTypeOK
<1>s. Stays
  <2>1. req'[q] = x
    BY <1>h, <1>m DEF GoTo, ServiceInv, ServiceTypeOK
  <2>2. SeenByIsServed(q)'
    <3>1. UNCHANGED conn
      BY DEF SendPresence, hubVars
    <3> QED
      BY <2>1, <1>y, <3>1 DEF SeenByIsServed, Answers, Delivered, Over
  <2>3. ConversationsAreUnique'
    BY <1>y, <1>m, <1>h, <1>g, ConversationsStay
  <2>4. ~(x.op = "sent" \/ (x.op = "send" /\ x.step = "deliver"))
    BY <1>y
  <2> QED
    BY <1>m, <2>2, <2>3, <2>4, <1>g, <1>h, <1>i, OneMoves
<1> QED
  BY <1>h, <1>t, <1>s, Whole

(* The message is stored, with its notification if nobody answered.        *)
LEMMA SendInsertKeeps ==
  ASSUME Inv, NEW q \in Request, SendInsert(q)
  PROVE  Inv'
<1>h. HubInv /\ ServiceInv /\ HubInv' /\ AllKept
  BY HubRests DEF SendInsert, service
<1> DEFINE x == [req[q] EXCEPT !.step = "deliver"]
           m == [id |-> q, conv |-> req[q].conv, sender |-> req[q].user, read |-> FALSE, blocked |-> FALSE]
<1>g. /\ req[q].op = "send" /\ req[q].step = "insert" /\ GoTo(q, x)
      /\ messages' = messages \cup {m} /\ outbox' \in {outbox, outbox \cup {q}}
      /\ UNCHANGED <<conversations, banned, tokens, orders, processed, acked, lost, conn>>
  BY DEF SendInsert, At, Inserted, hubVars
<1>r. req[q] \in Sending
  BY <1>g, <1>h, ByOp DEF ServiceInv, ServiceTypeOK
<1>x. /\ x \in Sending /\ x.op = "send" /\ x.step = "deliver"
      /\ x.to = req[q].to /\ x.seen = req[q].seen
  BY <1>r, <1>g DEF Sending
<1>m. m \in Message /\ m.id = q
  BY <1>r DEF Message, Sending
<1>i. Ids \subseteq Ids' /\ q \in Ids'
  <2> HIDE DEF m
  <2> QED
    BY <1>g, <1>m DEF Ids
<1> HIDE DEF x, m
<1>t. ServiceTypeOK'
  <2>1. x \in RequestType
    BY <1>x DEF RequestType
  <2>2. req' \in [Request -> RequestType]
    BY <2>1, <1>g, <1>h DEF GoTo, ServiceInv, ServiceTypeOK
  <2>3. messages' \in SUBSET Message /\ outbox' \in SUBSET Request
    BY <1>g, <1>m, <1>h DEF ServiceInv, ServiceTypeOK
  <2> QED
    BY <2>2, <2>3, <1>g, <1>h DEF ServiceInv, ServiceTypeOK
<1>s. Stays
  <2>1. req'[q] = x
    BY <1>h, <1>g DEF GoTo, ServiceInv, ServiceTypeOK
  <2>2. SeenByIsServed(q)'
    <3>1. SeenByIsServed(q)
      BY <1>h DEF ServiceInv, SeenAreServed
    <3>2. \A c \in Connection : c \in req[q].seen => Over(c) /\ conn[c].user = req[q].to
      BY <3>1, <1>g DEF SeenByIsServed, Answers
    <3> QED
      BY <2>1, <1>x, <1>g, <3>2 DEF SeenByIsServed, Answers, Delivered, Over
  <2>3. ConversationsAreUnique'
    BY <1>x, <1>h, <1>g, ConversationsStay
  <2>4. acked' \cup outbox' \subseteq acked \cup outbox \cup Ids'
    BY <1>g, <1>i
  <2> QED
    BY <2>2, <2>3, <2>4, <1>g, <1>h, <1>i, OneMoves
<1> QED
  BY <1>h, <1>t, <1>s, Whole

(* The transaction fails, and nothing is stored.                           *)
LEMMA SendInsertFailsKeeps ==
  ASSUME Inv, NEW q \in Request, SendInsertFails(q)
  PROVE  Inv'
<1>h. HubInv /\ ServiceInv /\ HubInv' /\ AllKept
  BY HubRests DEF SendInsertFails, service
<1> DEFINE x == [op |-> "refused", via |-> req[q].via]
           m == [id |-> q, conv |-> req[q].conv, sender |-> req[q].user, read |-> FALSE, blocked |-> FALSE]
<1>g. /\ req[q].op = "send" /\ GoTo(q, x)
      /\ \/ UNCHANGED <<messages, outbox>>
         \/ messages' = messages \cup {m} /\ outbox' \in {outbox, outbox \cup {q}}
      /\ UNCHANGED <<conversations, banned, tokens, orders, processed, acked, lost>>
  BY DEF SendInsertFails, At, Inserted, tables
<1>r. req[q] \in Sending
  BY <1>g, <1>h, ByOp DEF ServiceInv, ServiceTypeOK
<1>x. x \in Refusal /\ x.op = "refused"
  BY <1>r DEF Sending, Refusal
<1>m. m \in Message /\ m.id = q
  BY <1>r DEF Message, Sending
<1>i. Ids \subseteq Ids' /\ (outbox' = outbox \/ q \in Ids')
  <2> HIDE DEF m, x
  <2>1. CASE UNCHANGED <<messages, outbox>>
    BY <2>1 DEF Ids
  <2>2. CASE messages' = messages \cup {m}
    BY <2>2, <1>m DEF Ids
  <2> QED
    BY <2>1, <2>2, <1>g
<1> HIDE DEF x, m
<1>t. ServiceTypeOK'
  <2>1. x \in RequestType
    BY <1>x DEF RequestType
  <2>2. req' \in [Request -> RequestType]
    BY <2>1, <1>g, <1>h DEF GoTo, ServiceInv, ServiceTypeOK
  <2>3. messages' \in SUBSET Message /\ outbox' \in SUBSET Request
    BY <1>g, <1>m, <1>h DEF ServiceInv, ServiceTypeOK
  <2> QED
    BY <2>2, <2>3, <1>g, <1>h DEF ServiceInv, ServiceTypeOK
<1>s. Stays
  <2>1. Aside(x)
    BY <1>x DEF Aside
  <2>2. acked' \cup outbox' \subseteq acked \cup outbox \cup Ids'
    BY <1>g, <1>i
  <2> QED
    BY <2>1, <2>2, <1>h, <1>g, <1>i, OneSteps
<1> QED
  BY <1>h, <1>t, <1>s, Whole

(* The frame is published, or the publication is lost.                     *)
LEMMA SendDeliverKeeps ==
  ASSUME Inv, NEW q \in Request, SendDeliver(q)
  PROVE  Inv'
<1> DEFINE f == Frame("message", q)
           x == [op |-> "sent", via |-> req[q].via, seen |-> req[q].seen]
<1>g. /\ req[q].op = "send" /\ req[q].step = "deliver" /\ GoTo(q, x)
      /\ \/ PublishTo(req[q].to, f) /\ UNCHANGED lost
         \/ UNCHANGED hubVars /\ lost' = lost \cup {q}
      /\ UNCHANGED <<conversations, messages, banned, outbox, tokens, orders, processed, acked>>
  BY DEF SendDeliver, At, LosePublished, tables
<1>f. f \in Frames
  BY DEF Frame, Frames
<1>k. HubInv /\ ServiceInv /\ HubTypeOK
  BY DEF Inv, HubInv
<1>r. req[q] \in Sending
  BY <1>g, <1>k, ByOp DEF ServiceInv, ServiceTypeOK
<1>u. req[q].to \in User
  BY <1>r DEF Sending
<1>h. HubInv /\ ServiceInv /\ HubInv' /\ AllKept
  BY <1>k, <1>f, <1>g, <1>u, PublishToKeeps, PublishToKept, HubStutter, StillKept
<1>x. x \in Sent /\ x.op = "sent" /\ x.seen = req[q].seen
  BY <1>r DEF Sending, Sent
<1>i. Ids' = Ids
  BY <1>g DEF Ids
<1> HIDE DEF x
<1>t. ServiceTypeOK'
  <2>1. x \in RequestType
    BY <1>x DEF RequestType
  <2>2. req' \in [Request -> RequestType]
    BY <2>1, <1>g, <1>h DEF GoTo, ServiceInv, ServiceTypeOK
  <2>3. lost' \in SUBSET Request
    BY <1>g, <1>h DEF ServiceInv, ServiceTypeOK
  <2> QED
    BY <2>2, <2>3, <1>g, <1>h DEF ServiceInv, ServiceTypeOK
<1>s. Stays
  <2>1. req'[q] = x
    BY <1>h, <1>g DEF GoTo, ServiceInv, ServiceTypeOK
  <2>2. SeenByIsServed(q)'
    <3>1. SeenByIsServed(q)
      BY <1>h DEF ServiceInv, SeenAreServed
    <3>2. \A c \in Connection : c \in req[q].seen => Over(c) /\ conn[c].user = req[q].to
      BY <3>1, <1>g DEF SeenByIsServed, Answers
    <3>3. /\ ~Answers(q)'
          /\ \A c \in Connection : c \in req'[q].seen <=> c \in req[q].seen
      BY <2>1, <1>x DEF Answers
    <3>4. CASE lost' = lost \cup {q} /\ UNCHANGED hubVars
      <4>1. UNCHANGED conn /\ q \in lost'
        BY <3>4 DEF hubVars
      <4> QED
        BY <4>1, <3>2, <3>3 DEF SeenByIsServed, Over
    <3>5. CASE PublishTo(req[q].to, f)
      <4>1. UNCHANGED conn
        BY <3>5 DEF PublishTo
      <4>2. \A c \in Connection : conn[c].state = "live" /\ conn[c].user = req[q].to => f \in due'[c]
        BY <3>5 DEF PublishTo, NowDue
      <4> QED
        BY <4>1, <4>2, <3>2, <3>3 DEF SeenByIsServed, Over
    <3> QED
      BY <3>4, <3>5, <1>g
  <2>3. ConversationsAreUnique'
    BY <1>x, <1>h, <1>g, ConversationsStay
  <2>4. q \in Ids' /\ lost \subseteq lost'
    BY <1>g, <1>i, <1>h DEF ServiceInv, StoredBeforeSent, Stored
  <2> QED
    BY <2>2, <2>3, <2>4, <1>g, <1>h, <1>i, OneMoves
<1> QED
  BY <1>h, <1>t, <1>s, Whole

(* The sender has his answer.                                              *)
LEMMA AnswerKeeps ==
  ASSUME Inv, NEW q \in Request, Answer(q)
  PROVE  Inv'
<1> DEFINE sent == req[q].op = "sent"
           x == IF sent THEN [op |-> "answered", seen |-> req[q].seen] ELSE Done
<1>g. /\ req[q].op \in {"sent", "refused"} /\ GoTo(q, x)
      /\ \/ \E f \in Frames : req[q].via \in Connection /\ Reply(req[q].via, f)
         \/ UNCHANGED hubVars
      /\ acked' = IF sent THEN acked \cup {q} ELSE acked
      /\ UNCHANGED <<conversations, messages, banned, outbox, tokens, orders, processed, lost>>
  BY DEF Answer, tables, Frame, Frames
<1>k. HubInv /\ ServiceInv /\ HubTypeOK
  BY DEF Inv, HubInv
<1>h. HubInv /\ ServiceInv /\ HubInv' /\ AllKept
  BY <1>k, <1>g, ReplyKeeps, ReplyKept, HubStutter, StillKept
<1>x. /\ sent => x \in Answered /\ x.op = "answered" /\ x.seen = req[q].seen
      /\ ~sent => x = Done /\ x.op = "done"
  <2>1. sent => req[q].seen \in SUBSET Connection
    BY <1>h, ByOp DEF Sent, ServiceInv, ServiceTypeOK
  <2> QED
    BY <2>1 DEF Answered, Done
<1>i. Ids' = Ids
  BY <1>g DEF Ids
<1>j. sent => q \in Ids'
  BY <1>i, <1>h DEF ServiceInv, StoredBeforeSent, Stored
<1> HIDE DEF x
<1>t. ServiceTypeOK'
  <2>1. x \in RequestType
    BY <1>x DEF RequestType
  <2>2. req' \in [Request -> RequestType]
    BY <2>1, <1>g, <1>h DEF GoTo, ServiceInv, ServiceTypeOK
  <2>3. acked' \in SUBSET Request
    BY <1>g, <1>h DEF ServiceInv, ServiceTypeOK
  <2> QED
    BY <2>2, <2>3, <1>g, <1>h DEF ServiceInv, ServiceTypeOK
<1>s. Stays
  <2>0. acked' \cup outbox' \subseteq acked \cup outbox \cup Ids'
    BY <1>g, <1>j
  <2>1. CASE ~sent
    <3>1. Aside(x)
      BY <1>x, <2>1 DEF Aside
    <3> QED
      BY <2>0, <3>1, <1>h, <1>g, <1>i, OneSteps
  <2>2. CASE sent
    <3>0. req'[q] = x
      BY <1>h, <1>g DEF GoTo, ServiceInv, ServiceTypeOK
    <3>1. SeenByIsServed(q)
      BY <1>h DEF ServiceInv, SeenAreServed
    <3>2. \A c \in Connection : c \in req[q].seen =>
            Over(c) /\ (q \in lost \/ conn[c].state # "live" \/ Frame("message", q) \in due[c])
      BY <3>1, <2>2 DEF SeenByIsServed, Delivered
    <3>3. SeenByIsServed(q)'
      <4> SUFFICES ASSUME NEW c \in Connection, c \in req'[q].seen
          PROVE Over(c)' /\ (q \in lost' \/ conn'[c].state # "live" \/ Frame("message", q) \in due'[c])
        BY <3>0, <2>2, <1>x DEF SeenByIsServed, Answers
      <4>1. Over(c) /\ (q \in lost \/ conn[c].state # "live" \/ Frame("message", q) \in due[c])
        BY <3>2, <3>0, <2>2, <1>x
      <4>2. /\ due[c] \subseteq due'[c] /\ Over(c)'
            /\ conn[c].state # "live" => conn'[c].state # "live"
        BY <4>1, <1>h DEF AllKept, Kept, Over
      <4> QED
        BY <4>1, <4>2, <1>g
    <3>4. ConversationsAreUnique'
      BY <2>2, <1>x, <1>h, <1>g, ConversationsStay
    <3>5. ~(x.op = "sent" \/ (x.op = "send" /\ x.step = "deliver"))
      BY <2>2, <1>x
    <3> QED
      BY <2>0, <3>3, <3>4, <3>5, <1>g, <1>h, <1>i, OneMoves
  <2> QED
    BY <2>1, <2>2
<1> QED
  BY <1>h, <1>t, <1>s, Whole

(* The messages of the other side are marked as read.                      *)
LEMMA MarkReadKeeps ==
  ASSUME Inv, NEW q \in Request, NEW u \in User, NEW k \in conversations, MarkRead(q, u, k)
  PROVE  Inv'
<1>h. HubInv /\ ServiceInv /\ HubInv' /\ AllKept
  BY HubRests DEF MarkRead, service
<1> DEFINE w == [op |-> "read", to |-> Counterpart(k, u), via |-> Free]
<1>g. /\ \E x \in {Done, w} : GoTo(q, x)
      /\ messages' = {IF m \in Unread(k, u) THEN [m EXCEPT !.read = TRUE] ELSE m : m \in messages}
      /\ UNCHANGED <<conversations, banned, outbox, tokens, orders, processed, acked, lost>>
  BY DEF MarkRead
<1> PICK x \in {Done, w} : GoTo(q, x)
  BY <1>g
<1>w. w \in Reading
  BY <1>h DEF ServiceInv, ServiceTypeOK, Conversation, Counterpart, Reading
<1>m. messages' \subseteq Message /\ Ids \subseteq Ids'
  <2> DEFINE F(m) == IF m \in Unread(k, u) THEN [m EXCEPT !.read = TRUE] ELSE m
  <2>1. messages \subseteq Message
    BY <1>h DEF ServiceInv, ServiceTypeOK
  <2>2. \A m \in messages : F(m) \in Message /\ F(m).id = m.id
    BY <2>1 DEF Message
  <2>3. messages' = {F(m) : m \in messages}
    BY <1>g
  <2> HIDE DEF F
  <2> QED
    BY <2>2, <2>3 DEF Ids
<1>t. ServiceTypeOK'
  <2>1. x \in RequestType
    BY <1>w DEF RequestType
  <2>2. req' \in [Request -> RequestType]
    BY <2>1, <1>h DEF GoTo, ServiceInv, ServiceTypeOK
  <2> QED
    BY <2>2, <1>g, <1>m, <1>h DEF ServiceInv, ServiceTypeOK
<1>s. Stays
  <2>1. Aside(x)
    BY DEF Aside, Done
  <2> QED
    BY <2>1, <1>h, <1>g, <1>m, OneSteps
<1> QED
  BY <1>h, <1>t, <1>s, Whole

(* The other side is shown that they are.                                  *)
LEMMA NotifyReadKeeps ==
  ASSUME Inv, NEW q \in Request, NotifyRead(q)
  PROVE  Inv'
<1> DEFINE f == Frame("read", q)
<1>g. /\ req[q].op = "read" /\ GoTo(q, Done) /\ PublishTo(req[q].to, f)
      /\ UNCHANGED <<conversations, messages, banned, outbox, tokens, orders, processed, acked, lost>>
  BY DEF NotifyRead, tables
<1>f. f \in Frames
  BY DEF Frame, Frames
<1>k. HubInv /\ ServiceInv /\ HubTypeOK
  BY DEF Inv, HubInv
<1>u. req[q].to \in User
  BY <1>g, <1>k, ByOp DEF Reading, ServiceInv, ServiceTypeOK
<1>h. HubInv /\ ServiceInv /\ HubInv' /\ AllKept
  BY <1>k, <1>f, <1>g, <1>u, PublishToKeeps, PublishToKept
<1>i. Ids' = Ids
  BY <1>g DEF Ids
<1>t. ServiceTypeOK'
  <2>1. req' \in [Request -> RequestType]
    BY <1>g, <1>h DEF GoTo, ServiceInv, ServiceTypeOK, RequestType
  <2> QED
    BY <2>1, <1>g, <1>h DEF ServiceInv, ServiceTypeOK
<1>s. Stays
  <2>1. Aside(Done)
    BY DEF Aside, Done
  <2> QED
    BY <2>1, <1>h, <1>g, <1>i, OneSteps
<1> QED
  BY <1>h, <1>t, <1>s, Whole

(* Tokens of the rate limit change nothing else.                           *)
LEMMA RefillKeeps ==
  ASSUME Inv, NEW r \in Replica, NEW u \in User, Refill(r, u)
  PROVE  Inv'
<1>h. HubInv /\ ServiceInv /\ HubInv' /\ AllKept
  BY HubRests DEF Refill, service
<1>g. /\ tokens[r][u] < Burst /\ tokens' = [tokens EXCEPT ![r][u] = @ + 1]
      /\ UNCHANGED <<conversations, messages, banned, outbox, req, orders, processed, acked, lost>>
  BY DEF Refill, tables
<1>i. Ids' = Ids
  BY <1>g DEF Ids
<1>t. ServiceTypeOK'
  <2>1. tokens \in [Replica -> [User -> 0..Burst]]
    BY <1>h DEF ServiceInv, ServiceTypeOK
  <2>2. tokens[r][u] + 1 \in 0..Burst /\ Burst \in 0..Burst
    BY <2>1, <1>g, ChatAssumption
  <2>3. tokens' \in [Replica -> [User -> 0..Burst]]
    BY <2>1, <2>2, <1>g
  <2> QED
    BY <2>3, <1>g, <1>h DEF ServiceInv, ServiceTypeOK
<1>s. Stays
  BY <1>g, <1>h, <1>i, NobodyMoves
<1> QED
  BY <1>h, <1>t, <1>s, Whole

(* A bucket that is dropped is a full one.                                 *)
LEMMA JanitorKeeps ==
  ASSUME Inv, NEW r \in Replica, NEW u \in User, Janitor(r, u)
  PROVE  Inv'
<1>h. HubInv /\ ServiceInv /\ HubInv' /\ AllKept
  BY HubRests DEF Janitor, service
<1>g. /\ tokens[r][u] < Burst /\ tokens' = [tokens EXCEPT ![r][u] = Burst]
      /\ UNCHANGED <<conversations, messages, banned, outbox, req, orders, processed, acked, lost>>
  BY DEF Janitor, tables
<1>i. Ids' = Ids
  BY <1>g DEF Ids
<1>t. ServiceTypeOK'
  <2>1. tokens \in [Replica -> [User -> 0..Burst]]
    BY <1>h DEF ServiceInv, ServiceTypeOK
  <2>2. tokens[r][u] + 1 \in 0..Burst /\ Burst \in 0..Burst
    BY <2>1, <1>g, ChatAssumption
  <2>3. tokens' \in [Replica -> [User -> 0..Burst]]
    BY <2>1, <2>2, <1>g
  <2> QED
    BY <2>3, <1>g, <1>h DEF ServiceInv, ServiceTypeOK
<1>s. Stays
  BY <1>g, <1>h, <1>i, NobodyMoves
<1> QED
  BY <1>h, <1>t, <1>s, Whole

(* Moderation orders a ban or a block.                                     *)
LEMMA ModerateKeeps ==
  ASSUME Inv, NEW o \in Order, Moderate(o)
  PROVE  Inv'
<1>h. HubInv /\ ServiceInv /\ HubInv' /\ AllKept
  BY HubRests DEF Moderate, service
<1>g. /\ orders' = orders \cup {[order |-> o, step |-> "pending"]}
      /\ UNCHANGED <<conversations, messages, banned, outbox, tokens, req, processed, acked, lost>>
  BY DEF Moderate, tables
<1>i. Ids' = Ids
  BY <1>g DEF Ids
<1>t. ServiceTypeOK'
  <2>1. orders \subseteq [order : Order, step : {"pending", "applied", "over"}]
    BY <1>h DEF ServiceInv, ServiceTypeOK
  <2>2. orders' \in SUBSET [order : Order, step : {"pending", "applied", "over"}]
    BY <2>1, <1>g
  <2> QED
    BY <2>2, <1>g, <1>h DEF ServiceInv, ServiceTypeOK
<1>s. Stays
  BY <1>g, <1>h, <1>i, NobodyMoves
<1> QED
  BY <1>h, <1>t, <1>s, Whole

(* An order is noted in the inbox.                                         *)
LEMMA HandleMarkKeeps ==
  ASSUME Inv, NEW x \in orders, HandleMark(x)
  PROVE  Inv'
<1>h. HubInv /\ ServiceInv /\ HubInv' /\ AllKept
  BY HubRests DEF HandleMark, service
<1>g. /\ orders' = (orders \ {x}) \cup {[x EXCEPT !.step = "over"]}
      /\ processed' = processed \cup {x.order}
      /\ UNCHANGED <<conversations, messages, banned, outbox, tokens, req, acked, lost>>
  BY DEF HandleMark, tables
<1>i. Ids' = Ids
  BY <1>g DEF Ids
<1>t. ServiceTypeOK'
  <2>1. orders \subseteq [order : Order, step : {"pending", "applied", "over"}]
    BY <1>h DEF ServiceInv, ServiceTypeOK
  <2>2. orders' \in SUBSET [order : Order, step : {"pending", "applied", "over"}]
    BY <2>1, <1>g
  <2>3. processed' \in SUBSET Order
    BY <2>1, <1>g, <1>h DEF ServiceInv, ServiceTypeOK
  <2> QED
    BY <2>2, <2>3, <1>g, <1>h DEF ServiceInv, ServiceTypeOK
<1>s. Stays
  BY <1>g, <1>h, <1>i, NobodyMoves
<1> QED
  BY <1>h, <1>t, <1>s, Whole

(* An order that the inbox knows is over.                                  *)
LEMMA HandleAgainKeeps ==
  ASSUME Inv, NEW x \in orders, HandleAgain(x)
  PROVE  Inv'
<1>h. HubInv /\ ServiceInv /\ HubInv' /\ AllKept
  BY HubRests DEF HandleAgain, service
<1>g. /\ orders' = (orders \ {x}) \cup {[x EXCEPT !.step = "over"]}
      /\ UNCHANGED <<conversations, messages, banned, outbox, tokens, req, processed, acked, lost>>
  BY DEF HandleAgain, tables
<1>i. Ids' = Ids
  BY <1>g DEF Ids
<1>t. ServiceTypeOK'
  <2>1. orders \subseteq [order : Order, step : {"pending", "applied", "over"}]
    BY <1>h DEF ServiceInv, ServiceTypeOK
  <2>2. orders' \in SUBSET [order : Order, step : {"pending", "applied", "over"}]
    BY <2>1, <1>g
  <2> QED
    BY <2>2, <1>g, <1>h DEF ServiceInv, ServiceTypeOK
<1>s. Stays
  BY <1>g, <1>h, <1>i, NobodyMoves
<1> QED
  BY <1>h, <1>t, <1>s, Whole

(* An order comes again.                                                   *)
LEMMA RedeliverKeeps ==
  ASSUME Inv, NEW x \in orders, Redeliver(x)
  PROVE  Inv'
<1>h. HubInv /\ ServiceInv /\ HubInv' /\ AllKept
  BY HubRests DEF Redeliver, service
<1>g. /\ orders' = (orders \ {x}) \cup {[x EXCEPT !.step = "pending"]}
      /\ UNCHANGED <<conversations, messages, banned, outbox, tokens, req, processed, acked, lost>>
  BY DEF Redeliver, tables
<1>i. Ids' = Ids
  BY <1>g DEF Ids
<1>t. ServiceTypeOK'
  <2>1. orders \subseteq [order : Order, step : {"pending", "applied", "over"}]
    BY <1>h DEF ServiceInv, ServiceTypeOK
  <2>2. orders' \in SUBSET [order : Order, step : {"pending", "applied", "over"}]
    BY <2>1, <1>g
  <2> QED
    BY <2>2, <1>g, <1>h DEF ServiceInv, ServiceTypeOK
<1>s. Stays
  BY <1>g, <1>h, <1>i, NobodyMoves
<1> QED
  BY <1>h, <1>t, <1>s, Whole

(* An order is carried out.                                                *)
LEMMA HandleApplyKeeps ==
  ASSUME Inv, NEW x \in orders, HandleApply(x)
  PROVE  Inv'
<1>h. HubInv /\ ServiceInv /\ HubInv' /\ AllKept
  BY HubRests DEF HandleApply, service
<1>g. /\ orders' = (orders \ {x}) \cup {[x EXCEPT !.step = "applied"]}
      /\ Applied(x.order)
      /\ UNCHANGED <<conversations, outbox, tokens, req, processed, acked, lost>>
  BY DEF HandleApply, Applied
<1>o. x.order \in Order
  BY <1>h DEF ServiceInv, ServiceTypeOK
<1>b. banned' \in SUBSET User
  <2>1. x.order.kind = "ban" => x.order.of \in User
    BY <1>o DEF Order
  <2>2. banned' = IF x.order.kind = "ban" THEN banned \cup {x.order.of} ELSE banned
    BY <1>g DEF Applied
  <2> QED
    BY <2>1, <2>2, <1>h DEF ServiceInv, ServiceTypeOK
<1>m. messages' \in SUBSET Message /\ Ids \subseteq Ids'
  <2> DEFINE F(m) == IF m.id = x.order.of THEN [m EXCEPT !.blocked = TRUE] ELSE m
  <2>1. messages \subseteq Message
    BY <1>h DEF ServiceInv, ServiceTypeOK
  <2>2. \A m \in messages : F(m) \in Message /\ F(m).id = m.id
    BY <2>1 DEF Message
  <2>3. messages' = messages \/ messages' = {F(m) : m \in messages}
    BY <1>g DEF Applied
  <2> HIDE DEF F
  <2> QED
    BY <2>1, <2>2, <2>3 DEF Ids
<1>i. Ids \subseteq Ids'
  BY <1>m
<1>t. ServiceTypeOK'
  <2>1. orders \subseteq [order : Order, step : {"pending", "applied", "over"}]
    BY <1>h DEF ServiceInv, ServiceTypeOK
  <2>2. orders' \in SUBSET [order : Order, step : {"pending", "applied", "over"}]
    BY <2>1, <1>g
  <2> QED
    BY <2>2, <1>b, <1>m, <1>g, <1>h DEF ServiceInv, ServiceTypeOK
<1>s. Stays
  BY <1>g, <1>h, <1>i, NobodyMoves
<1> QED
  BY <1>h, <1>t, <1>s, Whole

(* A step of a hub alone.                                                  *)
LEMMA HubStepKeeps ==
  ASSUME Inv, NEW c \in Connection, NEW u \in User, NEW r \in Replica, HubStep(c, u, r)
  PROVE  Inv'
<1>g. /\ \/ Accept(c, u, r) \/ Close(c) \/ AddFails(c) \/ Add(c) \/ AddSubscribes(c) \/ AddResponds(c)
         \/ Remove(c) \/ RemoveResponder(c) \/ Write(c) \/ \E v \in User : Deliver(r, v)
      /\ UNCHANGED <<conversations, messages, banned, outbox, tokens, req, orders, processed, acked, lost>>
  BY DEF HubStep, Connect, Leave, Refuse, RunHub, tables
<1>k. HubInv /\ ServiceInv /\ HubTypeOK
  BY DEF Inv, HubInv
<1>h. HubInv /\ ServiceInv /\ HubInv' /\ AllKept
  <2>1. HubInv'
    BY <1>g, <1>k, AcceptKeeps, CloseKeeps, AddFailsKeeps, AddKeeps, AddSubscribesKeeps, AddRespondsKeeps,
       RemoveKeeps, RemoveResponderKeeps, WriteKeeps, DeliverKeeps
  <2>2. AllKept
    BY <1>g, <1>k, AcceptKept, CloseKept, AddFailsKept, AddKept, AddSubscribesKept, AddRespondsKept,
       RemoveKept, RemoveResponderKept, WriteKept, DeliverKept
  <2> QED
    BY <1>k, <2>1, <2>2
<1>i. Ids' = Ids
  BY <1>g DEF Ids
<1>t. ServiceTypeOK'
  BY <1>g, <1>h DEF ServiceInv, ServiceTypeOK
<1>s. Stays
  BY <1>g, <1>h, <1>i, NobodyMoves
<1> QED
  BY <1>h, <1>t, <1>s, Whole

(* A replica dies with its requests.                                       *)
LEMMA CrashKeeps ==
  ASSUME Inv, NEW r \in Replica, Crash(r)
  PROVE  Inv'
<1>g. /\ LoseReplica(r)
      /\ req' = [q \in Request |-> IF HasPlace(q) /\ req[q].at = r THEN Done ELSE req[q]]
      /\ tokens' = [tokens EXCEPT ![r] = [u \in User |-> Burst]]
      /\ UNCHANGED <<conversations, messages, banned, outbox, orders, processed, acked, lost>>
  BY DEF Crash, tables
<1>k. HubInv /\ ServiceInv /\ HubTypeOK
  BY DEF Inv, HubInv
<1>h. HubInv /\ ServiceInv /\ HubInv' /\ AllKept
  BY <1>k, <1>g, LoseReplicaKeeps, LoseReplicaKept
<1>q. \A q \in Request : req'[q] = req[q] \/ (req'[q] = Done /\ req'[q].op = "done")
  BY <1>g DEF Done
<1>i. Ids' = Ids
  BY <1>g DEF Ids
<1>t. ServiceTypeOK'
  <2>1. req' \in [Request -> RequestType]
    BY <1>g, <1>h DEF ServiceInv, ServiceTypeOK, RequestType
  <2>2. tokens \in [Replica -> [User -> 0..Burst]]
    BY <1>h DEF ServiceInv, ServiceTypeOK
  <2>3. Burst \in 0..Burst
    BY ChatAssumption
  <2>4. tokens' \in [Replica -> [User -> 0..Burst]]
    BY <2>2, <2>3, <1>g
  <2> QED
    BY <2>1, <2>4, <1>g, <1>h DEF ServiceInv, ServiceTypeOK
<1>s. Stays
  <2>1. ConversationsAreUnique'
    BY <1>q, <1>g, <1>h DEF ServiceInv, ConversationsAreUnique
  <2>2. StoredBeforeSent'
    BY <1>q, <1>g, <1>h, <1>i DEF ServiceInv, StoredBeforeSent, Stored
  <2>3. SeenAreServed'
    <3> SUFFICES ASSUME NEW q \in Request PROVE SeenByIsServed(q)'
      BY DEF SeenAreServed
    <3>1. CASE req'[q] = req[q]
      BY <3>1, <1>g, <1>h, ServedStays DEF ServiceInv, SeenAreServed
    <3>2. CASE req'[q].op = "done"
      BY <3>2 DEF SeenByIsServed, Answers, Delivered
    <3> QED
      BY <3>1, <3>2, <1>q
  <2> QED
    BY <2>1, <2>2, <2>3 DEF Stays
<1> QED
  BY <1>h, <1>t, <1>s, Whole

(***************************************************************************)
(* The theorems.                                                           *)
(***************************************************************************)
LEMMA InitInv == Init => Inv
<1> SUFFICES ASSUME Init PROVE Inv
  OBVIOUS
<1>1. HubInv
  BY HubInitial DEF Init
<1>2. ServiceTypeOK
  BY ChatAssumption DEF Init, ServiceTypeOK, RequestType
<1>3. ConversationsAreUnique
  BY DEF Init, Idle, ConversationsAreUnique
<1>4. StoredBeforeSent
  BY DEF Init, Idle, StoredBeforeSent, Stored
<1>5. SeenAreServed
  BY DEF Init, Idle, SeenAreServed, SeenByIsServed, Answers, Delivered
<1> QED
  BY <1>1, <1>2, <1>3, <1>4, <1>5 DEF Inv, ServiceInv

(* Every step keeps the invariant.                                         *)
LEMMA InvInductive == Inv /\ [Next]_vars => Inv'
<1> SUFFICES ASSUME Inv, [Next]_vars PROVE Inv'
  OBVIOUS
<1>1. ASSUME NEW q \in Request, NEW u \in User, NEW r \in Replica,
             \/ \E a \in Ad : Start(q, u, a, r)
             \/ \E k \in conversations, c \in Connection \cup {Free} : Send(q, u, k, r, c)
             \/ \E k \in conversations : MarkRead(q, u, k)
      PROVE  Inv'
  BY <1>1, StartKeeps, SendKeeps, MarkReadKeeps
<1>2. ASSUME NEW q \in Request, RequestStep(q) PROVE Inv'
  BY <1>2, StartGetAdKeeps, StartInsertKeeps, SendPresenceKeeps, SendInsertKeeps, SendInsertFailsKeeps,
     SendDeliverKeeps, AnswerKeeps, NotifyReadKeeps DEF RequestStep
<1>3. ASSUME NEW r \in Replica, NEW u \in User, Refill(r, u) \/ Janitor(r, u) PROVE Inv'
  BY <1>3, RefillKeeps, JanitorKeeps
<1>4. ASSUME NEW o \in Order, Moderate(o) PROVE Inv'
  BY <1>4, ModerateKeeps
<1>5. ASSUME NEW x \in orders, ModerationStep(x) \/ Redeliver(x) PROVE Inv'
  BY <1>5, HandleApplyKeeps, HandleMarkKeeps, HandleAgainKeeps, RedeliverKeeps DEF ModerationStep
<1>6. ASSUME NEW c \in Connection, NEW u \in User, NEW r \in Replica, HubStep(c, u, r) PROVE Inv'
  BY <1>6, HubStepKeeps
<1>7. ASSUME NEW r \in Replica, Crash(r) PROVE Inv'
  BY <1>7, CrashKeeps
<1>8. ASSUME UNCHANGED vars PROVE Inv'
  <2>1. HubInv' /\ AllKept /\ ServiceInv
    BY <1>8, HubRests DEF vars
  <2>2. UNCHANGED <<conversations, messages, banned, outbox, tokens, req, orders, processed, acked, lost>>
    BY <1>8 DEF vars, tables, service
  <2>3. ServiceTypeOK'
    BY <2>1, <2>2 DEF ServiceInv, ServiceTypeOK
  <2>4. Ids' = Ids
    BY <2>2 DEF Ids
  <2>5. Stays
    BY <2>1, <2>2, <2>4, NobodyMoves
  <2> QED
    BY <2>1, <2>3, <2>5, Whole
<1> QED
  BY <1>1, <1>2, <1>3, <1>4, <1>5, <1>6, <1>7, <1>8 DEF Next

(* The invariant of the hubs and of what is stored holds of every          *)
(* execution.                                                              *)
LEMMA SpecInv == Spec => []Inv
<1> QED
  BY InitInv, InvInductive, PTL DEF Spec

(* The frames of a live connection are received or on their way, and       *)
(* outside the critical sections of its hub a replica is subscribed to     *)
(* exactly the users it has connections of, whatever connects, leaves,     *)
(* fails or dies (ws/hub.go: Add, Remove, enqueue; ws/presence.go).        *)
THEOREM ServedTheorem == Spec => []ConnectionsAreServed
<1>1. Inv => ConnectionsAreServed
  <2> SUFFICES ASSUME Inv PROVE ConnectionsAreServed
    OBVIOUS
  <2>1. NoGapOnLiveConnection
    BY DEF Inv, HubInv
  <2>2. PresenceIsConnections
    <3> SUFFICES ASSUME NEW r \in Replica, NEW u \in User, lock[r] = Free
        PROVE /\ <<r, u>> \in psub <=> Entry(r, u) # {}
              /\ <<r, u>> \in sub <=> Entry(r, u) # {}
      BY DEF PresenceIsConnections
    <3>1. ~Held(r, u, "open") /\ ~Held(r, u, "gone")
      BY DEF Held
    <3>2. Has(r, u) <=> Entry(r, u) # {}
      BY DEF Has, Entry
    <3> QED
      BY <3>1, <3>2 DEF Inv, HubInv, SubscriptionsFit
  <2>3. TypeOK
    <3>1. /\ conversations \subseteq Conversation /\ messages \subseteq Message
          /\ banned \subseteq User /\ outbox \subseteq Request /\ processed \subseteq Order
          /\ \A r \in Replica, u \in User : tokens[r][u] \in 0..Burst
      BY DEF Inv, ServiceInv, ServiceTypeOK
    <3>2. \A x \in RequestType : x.op \in ReqOps
      BY DEF RequestType, ReqOps, Idle, Done, Asked, Started, Sending, Sent, Answered, Refusal, Reading
    <3>3. \A q \in Request : req[q].op \in ReqOps
      BY <3>2 DEF Inv, ServiceInv, ServiceTypeOK
    <3>4. \A c \in Connection : Len(queue[c]) <= SendBuffer
      BY DEF Inv, HubInv, Placed
    <3> QED
      BY <3>1, <3>3, <3>4 DEF TypeOK
  <2> QED
    BY <2>1, <2>2, <2>3 DEF ConnectionsAreServed
<1> QED
  BY <1>1, SpecInv, PTL

(* Whatever interleaves, fails or dies, a buyer has one conversation about *)
(* an ad, what was acknowledged or noted for a notification is stored, and *)
(* a recipient who was online was shown the message or has left (app/      *)
(* chat.go StartConversation, SendMessage; repo/chat.go).                  *)
THEOREM KeptTheorem == Spec => []MessagesAreKept
<1>1. Inv => MessagesAreKept
  <2> SUFFICES ASSUME Inv PROVE MessagesAreKept
    OBVIOUS
  <2>1. OneConversation
    BY DEF Inv, ServiceInv, ConversationsAreUnique, OneConversation
  <2>2. AcknowledgedIsStored
    BY DEF Inv, ServiceInv, StoredBeforeSent, Ids, AcknowledgedIsStored
  <2>3. QuietMessageWasShown
    <3> SUFFICES ASSUME NEW q \in acked \ (outbox \cup lost), req[q].op = "answered",
                        NEW c \in req[q].seen
        PROVE Shown(q, c)
      BY DEF QuietMessageWasShown
    <3>1. q \in Request /\ c \in Connection
      BY ByOp DEF Inv, ServiceInv, ServiceTypeOK, Answered
    <3>2. conn[c].state = "live" => Frame("message", q) \in due[c]
      BY <3>1 DEF Inv, ServiceInv, SeenAreServed, SeenByIsServed, Delivered
    <3>3. conn[c].state = "live" => due[c] \subseteq got[c] \cup OnTheWay(c)
      BY <3>1 DEF Inv, HubInv, NoGapOnLiveConnection
    <3> QED
      BY <3>2, <3>3 DEF Shown
  <2> QED
    BY <2>1, <2>2, <2>3 DEF MessagesAreKept
<1> QED
  BY <1>1, SpecInv, PTL
====
