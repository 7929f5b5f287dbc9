------------------------------ MODULE ChatHub ------------------------------
(***************************************************************************)
(* The live part of the chat service: the websocket connections of its     *)
(* replicas, the registry (Hub) of each replica, and the two NATS subjects *)
(* of a user, one for frames and one that answers "is he online".          *)
(*                                                                         *)
(* conn      a connection: unused; open (the handshake is over, the hub    *)
(*           does not have it yet); live; closing (slow or cancelled, still*)
(*           in the hub); gone                                             *)
(* lock      which connection holds the mutex of a replica's hub           *)
(* sub, psub the subscriptions that the NATS server knows, by replica and  *)
(*           user: frames and presence                                     *)
(* wire      the frames NATS has for each subscription to frames; every    *)
(*           subscription has a goroutine of its own that delivers them    *)
(* queue     the channel of a connection, got what its client received     *)
(***************************************************************************)
EXTENDS Integers, Sequences, Functions

CONSTANTS User, Replica, Connection, Free, SendBuffer

ASSUME BufferAssumption == SendBuffer \in Nat \ {0}
ASSUME FreeAssumption == Free \notin Connection \cup Replica

VARIABLES conn, lock, sub, psub, wire, queue, got

(* History: the frames published to the user of a connection while the hub *)
(* had it.                                                                 *)
VARIABLES due

hubVars == <<conn, lock, sub, psub, wire, queue, got, due>>

(* The replica that subscribes, and for which of its users.                *)
Subscription == Replica \X User

NoConn == [state |-> "unused", user |-> Free, at |-> Free]

HubInit ==
  /\ conn = [c \in Connection |-> NoConn]
  /\ lock = [r \in Replica |-> Free]
  /\ sub = {} /\ psub = {}
  /\ wire = [s \in Subscription |-> <<>>]
  /\ queue = [c \in Connection |-> <<>>]
  /\ got = [c \in Connection |-> {}] /\ due = [c \in Connection |-> {}]

(* The entry of a user in the registry of a replica.                       *)
Registered(c) == conn[c].state \in {"live", "closing"}
Entry(r, u) == {c \in Connection : Registered(c) /\ conn[c].at = r /\ conn[c].user = u}

Online(u) == \E r \in Replica : <<r, u>> \in psub

SetState(c, s) == conn' = [conn EXCEPT ![c].state = s]

(***************************************************************************)
(* A client connects: the token is checked, the websocket accepted, and    *)
(* only then Add takes the mutex of the hub.                               *)
(***************************************************************************)
Accept(c, u, r) ==
  /\ conn[c] = NoConn /\ \A d \in Connection : d < c => conn[d] # NoConn
  /\ conn' = [conn EXCEPT ![c] = [state |-> "open", user |-> u, at |-> r]]
  /\ UNCHANGED <<lock, sub, psub, wire, queue, got, due>>

Where(c) == <<conn[c].at, conn[c].user>>

(* Another connection of the same user is there: no subscription to make.  *)
Add(c) ==
  /\ conn[c].state = "open" /\ lock[conn[c].at] = Free
  /\ Entry(conn[c].at, conn[c].user) # {}
  /\ SetState(c, "live")
  /\ UNCHANGED <<lock, sub, psub, wire, queue, got, due>>

AddSubscribes(c) ==
  /\ conn[c].state = "open" /\ lock[conn[c].at] = Free
  /\ Entry(conn[c].at, conn[c].user) = {}
  /\ lock' = [lock EXCEPT ![conn[c].at] = c]
  /\ sub' = sub \cup {Where(c)}
  /\ UNCHANGED <<conn, psub, wire, queue, got, due>>

AddResponds(c) ==
  /\ conn[c].state = "open" /\ lock[conn[c].at] = c
  /\ psub' = psub \cup {Where(c)}
  /\ SetState(c, "live")
  /\ lock' = [lock EXCEPT ![conn[c].at] = Free]
  /\ UNCHANGED <<sub, wire, queue, got, due>>

(* A subscription fails: the first one is taken back, the socket closed.   *)
AddFails(c) ==
  /\ conn[c].state = "open" /\ lock[conn[c].at] = c
  /\ sub' = sub \ {Where(c)}
  /\ wire' = [wire EXCEPT ![Where(c)] = <<>>]
  /\ SetState(c, "gone")
  /\ lock' = [lock EXCEPT ![conn[c].at] = Free]
  /\ UNCHANGED <<psub, queue, got, due>>

(***************************************************************************)
(* A connection ends: the client leaves, a write fails, the service stops. *)
(* The handler then returns and Remove takes it out of the hub.            *)
(***************************************************************************)
Close(c) ==
  /\ conn[c].state = "live"
  /\ SetState(c, "closing")
  /\ UNCHANGED <<lock, sub, psub, wire, queue, got, due>>

(* Mutant: the last connection of a user is never taken out.               *)
RemoveKeepsLast(c) ==
  /\ conn[c].state = "closing" /\ lock[conn[c].at] = Free
  /\ Entry(conn[c].at, conn[c].user) # {c}
  /\ SetState(c, "gone") /\ queue' = [queue EXCEPT ![c] = <<>>]
  /\ UNCHANGED <<lock, sub, psub, wire, got, due>>

Remove(c) ==
  /\ conn[c].state = "closing" /\ lock[conn[c].at] = Free
  /\ SetState(c, "gone") /\ queue' = [queue EXCEPT ![c] = <<>>]
  /\ IF Entry(conn[c].at, conn[c].user) # {c}
     THEN UNCHANGED <<lock, sub, wire>>
     ELSE /\ lock' = [lock EXCEPT ![conn[c].at] = c]
          /\ sub' = sub \ {Where(c)}
          /\ wire' = [wire EXCEPT ![Where(c)] = <<>>]
  /\ UNCHANGED <<psub, got, due>>

(* Mutant: Remove forgets the subscription that answers for the presence.  *)
RemoveResponderLeaks(c) ==
  /\ conn[c].state = "gone" /\ lock[conn[c].at] = c
  /\ lock' = [lock EXCEPT ![conn[c].at] = Free]
  /\ UNCHANGED <<conn, sub, psub, wire, queue, got, due>>

RemoveResponder(c) ==
  /\ conn[c].state = "gone" /\ lock[conn[c].at] = c
  /\ psub' = psub \ {Where(c)}
  /\ lock' = [lock EXCEPT ![conn[c].at] = Free]
  /\ UNCHANGED <<conn, sub, wire, queue, got, due>>

(* A replica dies: NATS drops its subscriptions.                           *)
LoseReplica(r) ==
  /\ conn' = [c \in Connection |->
       IF conn[c].at = r THEN [conn[c] EXCEPT !.state = "gone"] ELSE conn[c]]
  /\ lock' = [lock EXCEPT ![r] = Free]
  /\ sub' = {s \in sub : s[1] # r} /\ psub' = {s \in psub : s[1] # r}
  /\ wire' = [s \in Subscription |-> IF s[1] = r THEN <<>> ELSE wire[s]]
  /\ queue' = [c \in Connection |-> IF conn[c].at = r THEN <<>> ELSE queue[c]]
  /\ UNCHANGED <<got, due>>

(***************************************************************************)
(* Frames.                                                                 *)
(***************************************************************************)

(* Mutant: a frame for a full channel is dropped and the client left.      *)
SlowIgnored(C) == conn

(* enqueue: a client whose channel is full is closed, nothing is dropped   *)
(* from under it.                                                          *)
Full(c) == Len(queue[c]) = SendBuffer
Slow(C) == [c \in Connection |->
  IF c \in C /\ Full(c) /\ conn[c].state = "live" THEN [conn[c] EXCEPT !.state = "closing"]
  ELSE conn[c]]
Enqueued(C, f) == [c \in Connection |->
  IF c \in C /\ ~Full(c) THEN Append(queue[c], f) ELSE queue[c]]

(* Mutant: one replica gets the frame, as a queue group would have it.     *)
PublishedToOne(u, f) ==
  LET one == {s \in sub : s[2] = u}
  IN  [s \in Subscription |-> IF one # {} /\ s = CHOOSE x \in one : TRUE
                              THEN Append(wire[s], f) ELSE wire[s]]

(* Hub.Publish: every replica that is subscribed to the user gets it.      *)
Published(u, f) == [s \in Subscription |->
  IF s \in sub /\ s[2] = u THEN Append(wire[s], f) ELSE wire[s]]
NowDue(u, f) == [c \in Connection |->
  IF conn[c].state = "live" /\ conn[c].user = u THEN due[c] \cup {f} ELSE due[c]]

PublishTo(u, f) ==
  /\ wire' = Published(u, f)
  /\ due' = NowDue(u, f)
  /\ UNCHANGED <<conn, lock, sub, psub, queue, got>>

(* Publish fails or NATS loses the frame; DeliverMessage ignores the error.*)
LosePublished == UNCHANGED hubVars

(* Hub.deliver, called for a frame of the subscription.  The connections   *)
(* are copied under the mutex.                                             *)
Deliver(r, u) ==
  /\ wire[<<r, u>>] # <<>> /\ lock[r] = Free
  /\ conn' = Slow(Entry(r, u))
  /\ queue' = Enqueued(Entry(r, u), Head(wire[<<r, u>>]))
  /\ wire' = [wire EXCEPT ![<<r, u>>] = Tail(@)]
  /\ UNCHANGED <<lock, sub, psub, got, due>>

(* writeLoop                                                               *)
Write(c) ==
  /\ conn[c].state = "live" /\ queue[c] # <<>>
  /\ got' = [got EXCEPT ![c] = @ \cup {Head(queue[c])}]
  /\ queue' = [queue EXCEPT ![c] = Tail(@)]
  /\ UNCHANGED <<conn, lock, sub, psub, wire, due>>

(* onFrame answers on the connection the frame came from.                  *)
Reply(c, f) ==
  /\ conn' = Slow({c})
  /\ queue' = Enqueued({c}, f)
  /\ UNCHANGED <<lock, sub, psub, wire, got, due>>

(***************************************************************************)
(* Properties.                                                             *)
(***************************************************************************)

(* A connection that stays open has no gap: every frame published to its   *)
(* user since the hub has it was received or is still on its way; a slow   *)
(* client is closed instead (hub.go: enqueue, deliver, Add, Remove).       *)
OnTheWay(c) == Range(queue[c]) \cup Range(wire[Where(c)])
NoGapOnLiveConnection == \A c \in Connection :
  conn[c].state = "live" => due[c] \subseteq got[c] \cup OnTheWay(c)

(* Outside the critical sections of its hub a replica says that a user is  *)
(* online, and receives his frames, exactly when it has a connection of    *)
(* his (hub.go: Add, Remove; a leak would switch off his notifications).   *)
PresenceIsConnections == \A r \in Replica, u \in User :
  lock[r] = Free => /\ <<r, u>> \in psub <=> Entry(r, u) # {}
                    /\ <<r, u>> \in sub <=> Entry(r, u) # {}
=============================================================================
