---------------------------- MODULE StoresProofs ----------------------------
(***************************************************************************)
(* Proofs about Stores: media whose rows and objects belong together, a    *)
(* catalog whose tree, attributes and caches agree, and the views that are *)
(* in the row, in the buffer or with a flusher.                            *)
(***************************************************************************)
EXTENDS Stores, SumLemmas, SequenceTheorems

(***************************************************************************)
(* Requests.  A component only moves requests of its own and such as have  *)
(* not begun; what is done stays done.                                     *)
(***************************************************************************)
RequestsOK == req = [q \in Request |-> req[q]] /\ \A q \in Request : "op" \in DOMAIN req[q]

Moved(ops) == RequestsOK' /\ \A p \in Request :
  req'[p] = req[p] \/ (req[p].op \in ops \cup {"idle"} /\ (req'[p] = Done \/ req'[p].op \in ops))

(* What a table is with a row more.                                        *)
LEMMA PutIs ==
  ASSUME NEW f, NEW k, NEW v
  PROVE  /\ DOMAIN Put(f, k, v) = DOMAIN f \cup {k} /\ Put(f, k, v)[k] = v
         /\ \A x \in DOMAIN f \ {k} : Put(f, k, v)[x] = f[x]
  BY DEF Put

(* One request is turned into another.                                     *)
LEMMA Turns ==
  ASSUME RequestsOK, NEW q \in Request, NEW r, Turn(q, r), "op" \in DOMAIN r
  PROVE  /\ RequestsOK' /\ req'[q] = r
         /\ \A p \in Request : p # q => req'[p] = req[p]
  BY DEF RequestsOK, Turn

(* A request is done.                                                      *)
LEMMA TurnsDone ==
  ASSUME RequestsOK, NEW q \in Request, Turn(q, Done)
  PROVE  /\ RequestsOK' /\ req'[q] = Done
         /\ \A p \in Request : p # q => req'[p] = req[p]
<1>1. "op" \in DOMAIN Done
  BY DEF Done
<1> QED
  BY <1>1, Turns

(* One request goes on.                                                    *)
LEMMA Proceeds ==
  ASSUME RequestsOK, NEW q \in Request, NEW step, Proceed(q, step)
  PROVE  /\ RequestsOK' /\ req'[q] = [req[q] EXCEPT !.step = step] /\ req'[q].op = req[q].op
         /\ \A p \in Request : p # q => req'[p] = req[p]
<1>1. PICK r : r = [req[q] EXCEPT !.step = step]
  OBVIOUS
<1>2. "op" \in DOMAIN r /\ r.op = req[q].op
  BY <1>1 DEF RequestsOK
<1>3. Turn(q, r)
  BY <1>1 DEF Proceed, Turn, RequestsOK
<1> QED
  BY <1>1, <1>2, <1>3, Turns

(* A request of the component itself is moved.                             *)
LEMMA MovesOne ==
  ASSUME RequestsOK', NEW q \in Request, NEW ops, req[q].op \in ops \cup {"idle"},
         req'[q] = Done \/ req'[q].op \in ops,
         \A p \in Request : p # q => req'[p] = req[p]
  PROVE  Moved(ops)
  BY DEF Moved

(* So it is when it is turned into another of the same component, ...      *)
LEMMA MovesTurn ==
  ASSUME RequestsOK, NEW q \in Request, NEW ops, req[q].op \in ops \cup {"idle"},
         NEW r, Turn(q, r), r = Done \/ ("op" \in DOMAIN r /\ r.op \in ops)
  PROVE  Moved(ops)
  BY Turns, TurnsDone, MovesOne

(* ... or goes on to its next step.                                        *)
LEMMA MovesOn ==
  ASSUME RequestsOK, NEW q \in Request, NEW ops, req[q].op \in ops,
         NEW step, Proceed(q, step)
  PROVE  Moved(ops)
  BY Proceeds, MovesOne

(* Nothing is moved.                                                       *)
LEMMA MovesNone ==
  ASSUME RequestsOK, UNCHANGED req, NEW ops
  PROVE  Moved(ops)
  BY DEF Moved, RequestsOK

(* What a record is with other fields.                                     *)
LEMMA WithIs ==
  ASSUME NEW r, NEW f
  PROVE  /\ DOMAIN With(r, f) = DOMAIN r \cup DOMAIN f
         /\ \A x \in DOMAIN f : With(r, f)[x] = f[x]
         /\ \A x \in DOMAIN r \ DOMAIN f : With(r, f)[x] = r[x]
  BY DEF With

(* A request with more in hand is still the same operation.                *)
LEMMA WithOp ==
  ASSUME NEW r, NEW f, "op" \in DOMAIN r, "op" \notin DOMAIN f
  PROVE  "op" \in DOMAIN With(r, f) /\ With(r, f).op = r.op
  BY DEF With

(* The requests of another component stay.                                 *)
LEMMA OthersStay ==
  ASSUME NEW ops, Moved(ops), NEW q \in Request
  PROVE  /\ req[q].op \notin ops \cup {"idle"} => req'[q] = req[q]
         /\ req'[q].op \notin ops \cup {"done"} => req'[q] = req[q]
  BY DEF Moved, Done

(* What is done stays done, whatever another component does.               *)
LEMMA DoneStays ==
  ASSUME NEW ops, Moved(ops), "done" \notin ops, NEW q \in Request, req[q] = Done
  PROVE  req'[q] = Done
  BY DEF Moved, Done

(***************************************************************************)
(* The counter of views.                                                   *)
(***************************************************************************)
ViewRead(q) == req[q].op = "view" =>
  req[q] = [op |-> "view", step |-> "incr", ad |-> req[q].ad] /\ req[q].ad \in ViewedAd

Counts == [ViewedAd -> Nat]
FlushFits(f) == flush[f] # Idle =>
  /\ flush[f] = [op |-> flush[f].op, counts |-> flush[f].counts]
  /\ flush[f].op \in {"add", "restore"} /\ flush[f].counts \in Counts

ViewTables ==
  /\ DOMAIN views \subseteq ViewedAd /\ \A a \in DOMAIN views : views[a] \in Nat
  /\ buffer \in Counts /\ viewed \in Counts /\ lost \in Counts /\ doubled \in Counts
  /\ flush = [f \in Flusher |-> flush[f]] /\ \A f \in Flusher : FlushFits(f)

Conserved(a) == views[a] + buffer[a] + Held(a) + lost[a] = viewed[a] + doubled[a]

ViewInv ==
  /\ \A q \in Request : ViewRead(q)
  /\ ViewTables
  /\ \A a \in DOMAIN views : Conserved(a)

(* What a flusher has in hand.                                             *)
Has(f, a) == IF flush[f] = Idle THEN 0 ELSE flush[f].counts[a]

(* What the flushers hold of an ad, as a sum.                              *)
LEMMA HeldIs ==
  ASSUME NEW a
  PROVE  Held(a) = SumFunctionOnSet([f \in Flusher |-> Has(f, a)], Flusher)
  BY DEF Held, Has

(* What one of them holds is a number, ...                                 *)
LEMMA HasNat ==
  ASSUME ViewTables, NEW a \in ViewedAd, NEW f \in Flusher
  PROVE  Has(f, a) \in Nat
  BY DEF ViewTables, FlushFits, Has, Counts

(* ... and so is what they hold together.                                  *)
LEMMA HeldIsNat ==
  ASSUME ViewTables, NEW a \in ViewedAd
  PROVE  Held(a) \in Nat
  BY HeldIs, HasNat, FlusherAssumption, SumType

(* What one flusher takes or gives away, all of them have more or less.    *)
LEMMA HeldChanges ==
  ASSUME ViewTables, ViewTables', NEW f \in Flusher, NEW h, flush' = [flush EXCEPT ![f] = h],
         NEW a \in ViewedAd
  PROVE  Held(a)' = Held(a) + (Has(f, a)' - Has(f, a))
<1>1. PICK before, after : before = [g \in Flusher |-> Has(g, a)] /\ after = [g \in Flusher |-> Has(g, a)']
  OBVIOUS
<1>2. \A x \in Flusher : before[x] \in Int /\ after[x] \in Int
  <2>1. \A x \in Flusher : Has(x, a) \in Nat
    BY HasNat
  <2>2. \A x \in Flusher : Has(x, a)' \in Nat
    BY DEF ViewTables, FlushFits, Has, Counts
  <2> QED
    BY <1>1, <2>1, <2>2
<1>3. \A x \in Flusher \ {f} : after[x] = before[x]
  BY <1>1 DEF Has, ViewTables
<1>4. SumFunctionOnSet(after, Flusher) = SumFunctionOnSet(before, Flusher) + (after[f] - before[f])
  <2>1. \A x \in Flusher \ {f} : after[x] = before[x]
    BY <1>3
  <2>2. \A x \in Flusher : before[x] \in Int /\ after[x] \in Int
    BY <1>2
  <2>3. ASSUME NEW s, NEW t, \A x \in Flusher : s[x] \in Int /\ t[x] \in Int,
               \A x \in Flusher \ {f} : t[x] = s[x]
        PROVE  SumFunctionOnSet(t, Flusher) = SumFunctionOnSet(s, Flusher) + (t[f] - s[f])
    BY <2>3, FlusherAssumption, SumWithChange
  <2> QED
    BY <2>1, <2>2, <2>3
<1>5. Held(a)' = SumFunctionOnSet(after, Flusher)
  BY <1>1 DEF Held, Has
<1>6. Held(a) = SumFunctionOnSet(before, Flusher)
  BY <1>1, HeldIs
<1>7. after[f] = Has(f, a)' /\ before[f] = Has(f, a)
  BY <1>1
<1> QED
  BY <1>4, <1>5, <1>6, <1>7

(* No view is counted at first.                                            *)
LEMMA ViewInit == RequestsInit /\ CountsInit => ViewInv
<1> SUFFICES ASSUME RequestsInit, CountsInit PROVE ViewInv
  OBVIOUS
<1>1. \A q \in Request : ViewRead(q)
  BY DEF RequestsInit, ViewRead, Idle
<1>2. Nothing \in Counts /\ \A a \in ViewedAd : Nothing[a] = 0
  BY DEF Nothing, Counts
<1>3. ViewTables
  BY <1>2 DEF CountsInit, ViewTables, FlushFits, Nothing
<1>4. ASSUME NEW a \in ViewedAd PROVE Conserved(a)
  <2>1. \A f \in Flusher : Has(f, a) = 0
    BY DEF CountsInit, Has
  <2>2. Held(a) = 0
    BY <2>1, HeldIs, SumOfZeros, FlusherAssumption
  <2> QED
    BY <1>2, <2>2 DEF CountsInit, Conserved
<1> QED
  BY <1>1, <1>3, <1>4 DEF ViewInv, ViewTables

(* A request of another component, or a step of none, leaves the requests  *)
(* of the counter alone.                                                   *)
LEMMA ViewRequestsStay ==
  ASSUME NEW ops, Moved(ops), "view" \notin ops, \A q \in Request : ViewRead(q)
  PROVE  \A q \in Request : ViewRead(q)'
<1> SUFFICES ASSUME NEW q \in Request, req'[q].op = "view" PROVE ViewRead(q)'
  BY DEF ViewRead
<1>1. req'[q] = req[q]
  BY OthersStay
<1> QED
  BY <1>1 DEF ViewRead

(* What leaves the flushers alone leaves alone what they hold.             *)
LEMMA HeldStays == ASSUME UNCHANGED flush, NEW a PROVE Held(a)' = Held(a)
  BY DEF Held

(* The other services leave the views alone.                               *)
LEMMA ViewStays ==
  ASSUME ViewInv, NEW ops, Moved(ops), "view" \notin ops, UNCHANGED countVars
  PROVE  ViewInv'
<1>1. UNCHANGED <<views, buffer, flush, viewed, lost, doubled>>
  BY DEF countVars, counts
<1>2. ViewTables'
  BY <1>1 DEF ViewInv, ViewTables, FlushFits
<1>3. \A a \in DOMAIN views : Conserved(a)'
  BY <1>1, HeldStays DEF ViewInv, Conserved
<1> QED
  BY <1>1, <1>2, <1>3, ViewRequestsStay DEF ViewInv

(* The requests of the counter.                                            *)
ViewRequest(q) == (\E a \in ViewedAd : GetAd(q, a)) \/ Incr(q) \/ IncrFails(q)

(* A page that is opened moves the request of its own.                     *)
LEMMA ViewMoves ==
  ASSUME RequestsOK, NEW q \in Request, ViewRequest(q)
  PROVE  Moved({"view"})
<1>1. CASE \E a \in ViewedAd : GetAd(q, a)
  <2>1. PICK a \in ViewedAd : GetAd(q, a)
    BY <1>1
  <2>2. PICK r : Turn(q, r) /\ (r = Done \/ ("op" \in DOMAIN r /\ r.op = "view"))
    BY <2>1 DEF GetAd
  <2>3. req[q].op = "idle"
    BY <2>1 DEF GetAd, Fresh, Idle
  <2> QED
    BY <2>2, <2>3, MovesTurn
<1>2. CASE Incr(q) \/ IncrFails(q)
  <2>1. req[q].op = "view" /\ Turn(q, Done)
    BY <1>2 DEF Incr, IncrFails, Asks
  <2> QED
    BY <2>1, MovesTurn
<1> QED
  BY <1>1, <1>2 DEF ViewRequest

(* Those who look at an ad look at one that has a row.                     *)
LEMMA ViewRequestsFit ==
  ASSUME ViewInv, RequestsOK, NEW q \in Request, ViewRequest(q)
  PROVE  \A p \in Request : ViewRead(p)'
<1>1. CASE \E a \in ViewedAd : GetAd(q, a)
  <2>1. PICK a \in ViewedAd : GetAd(q, a)
    BY <1>1
  <2>2. PICK r : Turn(q, r) /\ (r = Done \/ r = [op |-> "view", step |-> "incr", ad |-> a])
    BY <2>1 DEF GetAd
  <2>3. req'[q] = r /\ \A p \in Request : p # q => req'[p] = req[p]
    <3>1. "op" \in DOMAIN r
      BY <2>2 DEF Done
    <3> QED
      BY <2>2, <3>1, Turns
  <2>4. ViewRead(q)'
    BY <2>2, <2>3 DEF ViewRead, Done
  <2> QED
    BY <2>3, <2>4 DEF ViewInv, ViewRead
<1>2. CASE Incr(q) \/ IncrFails(q)
  <2>1. Turn(q, Done)
    BY <1>2 DEF Incr, IncrFails
  <2>2. req'[q] = Done /\ \A p \in Request : p # q => req'[p] = req[p]
    BY <2>1, TurnsDone
  <2>3. ViewRead(q)'
    BY <2>2 DEF ViewRead, Done
  <2> QED
    BY <2>2, <2>3 DEF ViewInv, ViewRead
<1> QED
  BY <1>1, <1>2 DEF ViewRequest

(* A view is counted in the buffer.                                        *)
LEMMA IncrConserves ==
  ASSUME ViewInv, NEW q \in Request, Incr(q)
  PROVE  ViewTables' /\ \A a \in DOMAIN views' : Conserved(a)'
<1>1. PICK a : a = req[q].ad
  OBVIOUS
<1>2. a \in ViewedAd
  BY <1>1 DEF ViewInv, ViewRead, Incr, Asks
<1>3. /\ buffer' = [buffer EXCEPT ![a] = @ + 1] /\ viewed' = [viewed EXCEPT ![a] = @ + 1]
      /\ UNCHANGED <<views, flush, lost, doubled>>
  BY <1>1 DEF Incr
<1>4. ViewTables'
  BY <1>2, <1>3 DEF ViewInv, ViewTables, Counts, FlushFits
<1>5. ASSUME NEW b \in DOMAIN views PROVE Conserved(b)'
  <2>1. Conserved(b) /\ b \in ViewedAd /\ ViewTables
    BY DEF ViewInv, ViewTables
  <2>2. Held(b)' = Held(b) /\ Held(b) \in Nat
    BY <1>3, <2>1, HeldStays, HeldIsNat
  <2>3. /\ views[b] \in Nat /\ buffer[b] \in Nat /\ lost[b] \in Nat /\ viewed[b] \in Nat
        /\ doubled[b] \in Nat
    BY <2>1 DEF ViewTables, Counts
  <2>4. \E n \in {0, 1} : buffer'[b] = buffer[b] + n /\ viewed'[b] = viewed[b] + n
    BY <1>2, <1>3, <2>1, <2>3 DEF ViewTables, Counts
  <2> QED
    BY <1>3, <2>1, <2>2, <2>3, <2>4 DEF Conserved
<1> QED
  BY <1>3, <1>4, <1>5

(* What a flusher takes or gives away is taken from, or given to, the      *)
(* buffer, the rows or the losses.                                         *)
LEMMA FlushConserves ==
  ASSUME ViewInv, NEW f \in Flusher, NEW h, flush' = [flush EXCEPT ![f] = h],
         ViewTables', UNCHANGED viewed, NEW a \in DOMAIN views, a \in DOMAIN views',
         NEW was, was = Has(f, a), NEW is, is = Has(f, a)',
         views'[a] + buffer'[a] + is + lost'[a] + doubled[a]
         = views[a] + buffer[a] + was + lost[a] + doubled'[a]
  PROVE  Conserved(a)'
<1>1. Conserved(a) /\ a \in ViewedAd /\ ViewTables
  BY DEF ViewInv, ViewTables
<1>2. /\ views[a] \in Nat /\ buffer[a] \in Nat /\ lost[a] \in Nat /\ viewed[a] \in Nat
      /\ doubled[a] \in Nat
  BY <1>1 DEF ViewTables, Counts
<1>3. /\ views'[a] \in Nat /\ buffer'[a] \in Nat /\ lost'[a] \in Nat /\ viewed'[a] = viewed[a]
      /\ doubled'[a] \in Nat
  BY <1>1 DEF ViewTables, Counts
<1>4. was \in Nat /\ is \in Nat
  <2>1. is \in Nat
    BY <1>1 DEF ViewTables, FlushFits, Has, Counts
  <2> QED
    BY <1>1, <2>1, HasNat
<1>5. PICK m, n : m = Held(a) /\ n = Held(a)'
  OBVIOUS
<1>6. n = m + (is - was) /\ m \in Nat
  BY <1>1, <1>5, HeldChanges, HeldIsNat
<1>7. views[a] + buffer[a] + m + lost[a] = viewed[a] + doubled[a]
  BY <1>1, <1>5 DEF Conserved
<1>8. views'[a] + buffer'[a] + n + lost'[a] = viewed'[a] + doubled'[a]
  <2>1. PICK v, b, l, t, d : v = views[a] /\ b = buffer[a] /\ l = lost[a] /\ t = viewed[a] /\ d = doubled[a]
    OBVIOUS
  <2>2. PICK vv, bb, ll, dd : vv = views'[a] /\ bb = buffer'[a] /\ ll = lost'[a] /\ dd = doubled'[a]
    OBVIOUS
  <2>3. /\ v \in Nat /\ b \in Nat /\ l \in Nat /\ t \in Nat /\ d \in Nat
        /\ vv \in Nat /\ bb \in Nat /\ ll \in Nat /\ dd \in Nat
    BY <1>2, <1>3, <2>1, <2>2
  <2>4. v + b + m + l = t + d /\ vv + bb + is + ll + d = v + b + was + l + dd
    BY <1>7, <2>1, <2>2
  <2>5. vv + bb + n + ll = t + dd
    BY <1>4, <1>6, <2>3, <2>4
  <2> QED
    BY <1>3, <2>1, <2>2, <2>5
<1> QED
  BY <1>5, <1>8 DEF Conserved

(* The steps of a flusher.                                                 *)
FlushStep(f) == FlushWork(f) \/ DrainUnanswered(f) \/ AddFails(f) \/ FlushDies(f)

(* Every step of a flusher moves views and loses none that is not counted  *)
(* as lost: from the buffer to its hand, from its hand to the row or back. *)
LEMMA FlushMoves ==
  ASSUME ViewInv, NEW f \in Flusher, FlushStep(f)
  PROVE  ViewTables' /\ \A a \in DOMAIN views' : Conserved(a)'
<1>0. ViewTables
  BY DEF ViewInv
<1>1. ASSUME NEW h, flush' = [flush EXCEPT ![f] = h]
      PROVE  flush'[f] = h /\ flush' = [g \in Flusher |-> flush'[g]]
             /\ \A g \in Flusher : g # f => flush'[g] = flush[g]
  BY <1>0, <1>1 DEF ViewTables
<1>2. ASSUME NEW h, flush' = [flush EXCEPT ![f] = h], NEW a,
             NEW n, flush[f] = Idle => n = 0, flush[f] # Idle => n = flush[f].counts[a],
             NEW m, h = Idle => m = 0, h # Idle => m = h.counts[a]
      PROVE  n = Has(f, a) /\ m = Has(f, a)'
  BY <1>1, <1>2 DEF Has
<1>3. FlushFits(f)
  BY <1>0 DEF ViewTables
<1>4. \A a \in DOMAIN views : a \in ViewedAd
  BY <1>0 DEF ViewTables
<1>5. CASE Drain(f)
  <2> DEFINE h == [op |-> "add", counts |-> buffer]
  <2>1. /\ flush[f] = Idle /\ flush' = [flush EXCEPT ![f] = h] /\ buffer' = Nothing
        /\ UNCHANGED <<views, viewed, lost, doubled>>
    BY <1>5 DEF Drain, Drained
  <2>2. h # Idle /\ h.counts = buffer
    BY DEF Idle
  <2>3. h = [op |-> h.op, counts |-> h.counts] /\ h.op \in {"add", "restore"} /\ h.counts \in Counts
    BY <1>0 DEF ViewTables
  <2> HIDE DEF h
  <2>4. ViewTables'
    BY <1>0, <1>1, <2>1, <2>3 DEF ViewTables, FlushFits, Counts, Nothing
  <2>5. ASSUME NEW a \in DOMAIN views PROVE Conserved(a)'
    <3>1. 0 = Has(f, a) /\ buffer[a] = Has(f, a)'
      BY <1>1, <2>1, <2>2 DEF Has
    <3>4. buffer'[a] = 0
      BY <1>4, <2>1 DEF Nothing
    <3>2. views[a] \in Nat /\ buffer[a] \in Nat /\ lost[a] \in Nat /\ doubled[a] \in Nat
      BY <1>0, <1>4 DEF ViewTables, Counts
    <3>3. views'[a] + buffer'[a] + buffer[a] + lost'[a] + doubled[a]
          = views[a] + buffer[a] + 0 + lost[a] + doubled'[a]
      BY <2>1, <3>2, <3>4
    <3> QED
      BY <2>1, <2>4, <3>1, <3>3, FlushConserves
  <2> QED
    BY <2>1, <2>4, <2>5
<1>6. CASE DrainUnanswered(f)
  <2>1. /\ buffer' = Nothing /\ lost' = Together(lost, buffer) /\ UNCHANGED <<views, flush, viewed, doubled>>
    BY <1>6 DEF DrainUnanswered
  <2>2. \A a \in ViewedAd : buffer'[a] = 0 /\ lost'[a] = lost[a] + buffer[a]
    BY <2>1 DEF Nothing, Together
  <2>3. ViewTables'
    BY <1>0, <2>1 DEF ViewTables, FlushFits, Counts, Nothing, Together
  <2>4. ASSUME NEW a \in DOMAIN views PROVE Conserved(a)'
    <3>1. Conserved(a) /\ Held(a) \in Nat /\ Held(a)' = Held(a)
      BY <1>0, <1>4, <2>1, HeldIsNat, HeldStays DEF ViewInv
    <3>2. /\ views[a] \in Nat /\ buffer[a] \in Nat /\ lost[a] \in Nat /\ viewed[a] \in Nat
          /\ doubled[a] \in Nat
      BY <1>0, <1>4 DEF ViewTables, Counts
    <3> QED
      BY <1>4, <2>1, <2>2, <3>1, <3>2 DEF Conserved
  <2> QED
    BY <2>1, <2>3, <2>4
<1>7. ASSUME flush[f] # Idle
      PROVE  /\ flush[f].counts \in Counts
             /\ \A a \in DOMAIN views : /\ views[a] \in Nat /\ buffer[a] \in Nat /\ lost[a] \in Nat
                                        /\ doubled[a] \in Nat /\ flush[f].counts[a] \in Nat
  BY <1>0, <1>3, <1>4, <1>7 DEF ViewTables, Counts, FlushFits
<1>8. ASSUME flush[f] # Idle, flush' = [flush EXCEPT ![f] = Idle]
      PROVE  /\ flush' = [g \in Flusher |-> flush'[g]] /\ \A g \in Flusher : FlushFits(g)'
             /\ \A a : flush[f].counts[a] = Has(f, a) /\ 0 = Has(f, a)'
  <2>1. \A g \in Flusher : FlushFits(g)'
    BY <1>0, <1>1, <1>8 DEF ViewTables, FlushFits
  <2> QED
    BY <1>1, <1>2, <1>8, <2>1
<1>9. CASE AddViews(f)
  <2>1. /\ flush[f] # Idle /\ flush' = [flush EXCEPT ![f] = Idle] /\ Added(f)
        /\ UNCHANGED <<buffer, viewed, lost, doubled>>
    BY <1>9 DEF AddViews, Finish, Idle
  <2>2. DOMAIN views' = DOMAIN views /\ \A a \in DOMAIN views : views'[a] = views[a] + flush[f].counts[a]
    BY <2>1 DEF Added
  <2>3. ViewTables'
    BY <1>0, <1>7, <1>8, <2>1, <2>2 DEF ViewTables
  <2>4. ASSUME NEW a \in DOMAIN views PROVE Conserved(a)'
    <3>1. flush[f].counts[a] = Has(f, a) /\ 0 = Has(f, a)'
      BY <1>8, <2>1
    <3>2. views'[a] + buffer'[a] + 0 + lost'[a] + doubled[a]
          = views[a] + buffer[a] + flush[f].counts[a] + lost[a] + doubled'[a]
      BY <1>7, <2>1, <2>2
    <3> QED
      BY <2>1, <2>2, <2>3, <3>1, <3>2, FlushConserves
  <2> QED
    BY <2>2, <2>3, <2>4
<1>10. CASE AddFails(f)
  <2> DEFINE h == [flush[f] EXCEPT !.op = "restore"]
  <2>1. /\ flush[f].op = "add" /\ flush' = [flush EXCEPT ![f] = h]
        /\ UNCHANGED <<buffer, viewed, lost>>
    BY <1>10 DEF AddFails
  <2>2. flush[f] # Idle
    BY <2>1 DEF Idle
  <2>3. h = [op |-> "restore", counts |-> flush[f].counts]
    BY <1>3, <2>2 DEF FlushFits
  <2>4. h # Idle /\ h.counts = flush[f].counts
    BY <2>3 DEF Idle
  <2>5. h = [op |-> h.op, counts |-> h.counts] /\ h.op \in {"add", "restore"} /\ h.counts \in Counts
    BY <1>7, <2>2, <2>3
  <2> HIDE DEF h
  <2>6. flush' = [g \in Flusher |-> flush'[g]] /\ \A g \in Flusher : FlushFits(g)'
    BY <1>0, <1>1, <2>1, <2>5 DEF ViewTables, FlushFits
  <2>7. ASSUME NEW a PROVE flush[f].counts[a] = Has(f, a) /\ flush[f].counts[a] = Has(f, a)'
    BY <1>1, <2>1, <2>2, <2>4 DEF Has
  <2>8. CASE UNCHANGED <<views, doubled>>
    <3>1. ViewTables'
      BY <1>0, <2>1, <2>6, <2>8 DEF ViewTables
    <3>2. ASSUME NEW a \in DOMAIN views PROVE Conserved(a)'
      <4>1. flush[f].counts[a] = Has(f, a) /\ flush[f].counts[a] = Has(f, a)'
        BY <2>7
      <4>2. views'[a] + buffer'[a] + flush[f].counts[a] + lost'[a] + doubled[a]
            = views[a] + buffer[a] + flush[f].counts[a] + lost[a] + doubled'[a]
        BY <2>1, <2>8
      <4> QED
        BY <2>1, <2>8, <3>1, <4>1, <4>2, FlushConserves
    <3> QED
      BY <2>8, <3>1, <3>2
  <2>9. CASE Added(f) /\ doubled' = Together(doubled, flush[f].counts)
    <3>1. DOMAIN views' = DOMAIN views /\ \A a \in DOMAIN views : views'[a] = views[a] + flush[f].counts[a]
      BY <2>9 DEF Added
    <3>2. \A a \in ViewedAd : doubled'[a] = doubled[a] + flush[f].counts[a]
      BY <2>9 DEF Together
    <3>3. doubled' \in Counts
      BY <1>0, <1>7, <2>2, <2>9 DEF Together, Counts, ViewTables
    <3>4. ViewTables'
      BY <1>0, <1>7, <2>1, <2>2, <2>6, <3>1, <3>3 DEF ViewTables
    <3>5. ASSUME NEW a \in DOMAIN views PROVE Conserved(a)'
      <4>1. flush[f].counts[a] = Has(f, a) /\ flush[f].counts[a] = Has(f, a)'
        BY <2>7
      <4>2. views'[a] + buffer'[a] + flush[f].counts[a] + lost'[a] + doubled[a]
            = views[a] + buffer[a] + flush[f].counts[a] + lost[a] + doubled'[a]
        BY <1>4, <1>7, <2>1, <2>2, <3>1, <3>2
      <4> QED
        BY <2>1, <3>1, <3>4, <4>1, <4>2, FlushConserves
    <3> QED
      BY <3>1, <3>4, <3>5
  <2> QED
    BY <1>10, <2>8, <2>9 DEF AddFails
<1>11. CASE Restore(f)
  <2>1. /\ flush[f] # Idle /\ flush' = [flush EXCEPT ![f] = Idle]
        /\ buffer' = Together(buffer, flush[f].counts) /\ UNCHANGED <<views, viewed, lost, doubled>>
    BY <1>11 DEF Restore, Finish, Idle
  <2>2. \A a \in ViewedAd : buffer'[a] = buffer[a] + flush[f].counts[a]
    BY <2>1 DEF Together
  <2>3. buffer' \in Counts
    BY <1>0, <1>7, <2>1 DEF Together, Counts, ViewTables
  <2>4. ViewTables'
    BY <1>0, <1>8, <2>1, <2>3 DEF ViewTables
  <2>5. ASSUME NEW a \in DOMAIN views PROVE Conserved(a)'
    <3>1. flush[f].counts[a] = Has(f, a) /\ 0 = Has(f, a)'
      BY <1>8, <2>1
    <3>2. views'[a] + buffer'[a] + 0 + lost'[a] + doubled[a]
          = views[a] + buffer[a] + flush[f].counts[a] + lost[a] + doubled'[a]
      BY <1>4, <1>7, <2>1, <2>2
    <3> QED
      BY <2>1, <2>4, <3>1, <3>2, FlushConserves
  <2> QED
    BY <2>1, <2>4, <2>5
<1>12. CASE FlushDies(f)
  <2>1. /\ flush[f] # Idle /\ flush' = [flush EXCEPT ![f] = Idle]
        /\ lost' = Together(lost, flush[f].counts) /\ UNCHANGED <<views, buffer, viewed, doubled>>
    BY <1>12 DEF FlushDies, Finish
  <2>2. \A a \in ViewedAd : lost'[a] = lost[a] + flush[f].counts[a]
    BY <2>1 DEF Together
  <2>3. lost' \in Counts
    BY <1>0, <1>7, <2>1 DEF Together, Counts, ViewTables
  <2>4. ViewTables'
    BY <1>0, <1>8, <2>1, <2>3 DEF ViewTables
  <2>5. ASSUME NEW a \in DOMAIN views PROVE Conserved(a)'
    <3>1. flush[f].counts[a] = Has(f, a) /\ 0 = Has(f, a)'
      BY <1>8, <2>1
    <3>2. views'[a] + buffer'[a] + 0 + lost'[a] + doubled[a]
          = views[a] + buffer[a] + flush[f].counts[a] + lost[a] + doubled'[a]
      BY <1>4, <1>7, <2>1, <2>2
    <3> QED
      BY <2>1, <2>4, <3>1, <3>2, FlushConserves
  <2> QED
    BY <2>1, <2>4, <2>5
<1> QED
  BY <1>5, <1>6, <1>9, <1>10, <1>11, <1>12 DEF FlushStep, FlushWork

(* Every step of the counter.                                              *)
LEMMA CountMoves ==
  ASSUME RequestsOK, CountNext
  PROVE  Moved({"view"})
<1>1. CASE \E q \in Request : ViewRequest(q)
  BY <1>1, ViewMoves
<1>2. CASE UNCHANGED req
  BY <1>2, MovesNone
<1>3. (\E q \in Request : ViewRequest(q)) \/ UNCHANGED req
  BY DEF CountNext, ViewRequest, DeleteViewed, FlushWork, Drain, AddViews, Restore, DrainUnanswered,
         AddFails, FlushDies, inputs
<1> QED
  BY <1>1, <1>2, <1>3

(* The steps of the counter keep the views.                                *)
LEMMA CountKeeps ==
  ASSUME ViewInv, RequestsOK, CountNext
  PROVE  ViewInv'
<1>1. ASSUME NEW q \in Request, ViewRequest(q) PROVE ViewInv'
  <2>1. \A p \in Request : ViewRead(p)'
    BY <1>1, ViewRequestsFit
  <2>2. CASE Incr(q)
    BY <2>1, <2>2, IncrConserves DEF ViewInv
  <2>3. CASE UNCHANGED countVars
    <3>1. UNCHANGED <<views, buffer, flush, viewed, lost, doubled>>
      BY <2>3 DEF countVars, counts
    <3>2. ViewTables'
      BY <3>1 DEF ViewInv, ViewTables, FlushFits
    <3>3. \A a \in DOMAIN views : Conserved(a)'
      BY <3>1, HeldStays DEF ViewInv, Conserved
    <3> QED
      BY <2>1, <3>1, <3>2, <3>3 DEF ViewInv
  <2> QED
    BY <1>1, <2>2, <2>3 DEF ViewRequest, GetAd, IncrFails
<1>2. ASSUME NEW a \in ViewedAd, DeleteViewed(a) PROVE ViewInv'
  <2>1. /\ views' = [b \in DOMAIN views \ {a} |-> views[b]]
        /\ UNCHANGED <<req, buffer, flush, viewed, lost, doubled>>
    BY <1>2 DEF DeleteViewed
  <2>2. ViewTables'
    BY <2>1 DEF ViewInv, ViewTables, FlushFits
  <2>3. \A b \in DOMAIN views' : Conserved(b)'
    BY <2>1, HeldStays DEF ViewInv, Conserved
  <2> QED
    BY <2>1, <2>2, <2>3 DEF ViewInv, ViewRead
<1>3. ASSUME NEW f \in Flusher, FlushStep(f) PROVE ViewInv'
  <2>1. UNCHANGED req
    BY <1>3 DEF FlushStep, FlushWork, Drain, AddViews, Restore, DrainUnanswered, AddFails, FlushDies, inputs
  <2>2. \A q \in Request : ViewRead(q)'
    BY <2>1 DEF ViewInv, ViewRead
  <2> QED
    BY <1>3, <2>2, FlushMoves DEF ViewInv
<1> QED
  BY <1>1, <1>2, <1>3 DEF CountNext, ViewRequest, FlushStep

(***************************************************************************)
(* What each service moves.                                                *)
(***************************************************************************)
LEMMA UploadMoves ==
  ASSUME RequestsOK, NEW q \in Request, UploadRequest(q)
  PROVE  Moved({"upload"})
<1>1. CASE \E f \in budget.files : Upload(q, f)
  <2>1. PICK f \in budget.files : Upload(q, f)
    BY <1>1
  <2>2. PICK r : Turn(q, r) /\ (r = Done \/ ("op" \in DOMAIN r /\ r.op = "upload"))
    BY <2>1 DEF Upload
  <2>3. req[q].op = "idle"
    BY <2>1 DEF Upload, Fresh, Idle
  <2> QED
    BY <2>2, <2>3, MovesTurn
<1>2. ASSUME req[q].op = "upload", Turn(q, Done) \/ \E step : Proceed(q, step) PROVE Moved({"upload"})
  BY <1>2, MovesTurn, MovesOn
<1>3. CASE CountByAd(q)
  BY <1>2, <1>3 DEF CountByAd, Asks
<1>4. CASE PutOriginal(q) \/ InsertFails(q) \/ InsertUnknown(q)
  BY <1>2, <1>4 DEF PutOriginal, InsertFails, InsertUnknown, Asks
<1>5. CASE InsertWithEvent(q) \/ Compensate(q) \/ UploadDies(q)
  BY <1>2, <1>5 DEF InsertWithEvent, Compensate, UploadDies, Asks
<1> QED
  BY <1>1, <1>3, <1>4, <1>5 DEF UploadRequest

(* The workers of media touch no request.                                  *)
LEMMA WorkersLeaveRequests ==
  ASSUME NEW w \in Goroutine, MediaWork(w) \/ MediaFaults(w)
  PROVE  UNCHANGED req
<1>1. CASE MediaWork(w)
  BY <1>1 DEF MediaWork, Give, Acknowledge, ReadRow, MarkEventProcessed, GetOriginal, CleanOriginal,
              PutPreview, MarkProcessedWithEvent, Sweep, RemoveBlob, DeleteWithEvent, inputs
<1>2. CASE MediaFaults(w)
  BY <1>2 DEF MediaFaults, RemoveBlobFails, DeleteFails, Break
<1> QED
  BY <1>1, <1>2

(* Media moves its own requests.                                           *)
LEMMA MediaMoves ==
  ASSUME RequestsOK, MediaNext
  PROVE  Moved({"upload"})
<1>1. (\E q \in Request : UploadRequest(q)) \/ UNCHANGED req
  BY WorkersLeaveRequests DEF MediaNext, GrowOld, inputs
<1> QED
  BY <1>1, UploadMoves, MovesNone

CatalogOps == {"tree", "attrs", "ad", "add category", "update category", "delete category",
               "add attribute", "update attribute", "delete attribute", "link", "unlink"}

(* The catalog is asked, ...                                               *)
LEMMA CatalogAsksMove ==
  ASSUME RequestsOK, NEW q \in Request, CatalogAsks(q)
  PROVE  Moved(CatalogOps)
<1>1. ASSUME Fresh(q), NEW r, Turn(q, r), "op" \in DOMAIN r, r.op \in CatalogOps
      PROVE  Moved(CatalogOps)
  <2>1. req[q].op = "idle"
    BY <1>1 DEF Fresh, Idle
  <2> QED
    BY <1>1, <2>1, MovesTurn
<1>2. CASE AskTree(q)
  <2>1. PICK r : r = [op |-> "tree", step |-> "get"]
    OBVIOUS
  <2> QED
    BY <1>1, <1>2, <2>1 DEF AskTree, CatalogOps
<1>3. ASSUME NEW c, AskAttributes(q, c) PROVE Moved(CatalogOps)
  <2>1. PICK r : r = [op |-> "attrs", step |-> "check", cat |-> c]
    OBVIOUS
  <2> QED
    BY <1>1, <1>3, <2>1 DEF AskAttributes, CatalogOps
<1>4. ASSUME NEW c, NEW values, AskAd(q, c, values) PROVE Moved(CatalogOps)
  <2>1. PICK r : r = [op |-> "ad", step |-> "check", cat |-> c, values |-> values]
    OBVIOUS
  <2> QED
    BY <1>1, <1>4, <2>1 DEF AskAd, CatalogOps
<1>5. ASSUME NEW c, NEW op \in CatalogOps, NEW s, NEW l, AskCategory(q, op, c, s, l)
      PROVE  Moved(CatalogOps)
  <2>1. PICK r : r = [op |-> op, step |-> "read", cat |-> c, slug |-> s, label |-> l]
    OBVIOUS
  <2> QED
    BY <1>1, <1>5, <2>1 DEF AskCategory
<1>6. ASSUME NEW c, NEW op \in CatalogOps, NEW a, NEW body, AskAttribute(q, op, c, a, body)
      PROVE  Moved(CatalogOps)
  <2>1. PICK r : r = [op |-> op, step |-> IF op = "link" THEN "check" ELSE "read",
                      cat |-> c, attr |-> a, body |-> body]
    OBVIOUS
  <2> QED
    BY <1>1, <1>6, <2>1 DEF AskAttribute
<1>7. ASSUME NEW input, Refused(q, input) PROVE Moved(CatalogOps)
  <2>1. req[q].op = "idle" /\ Turn(q, Done)
    BY <1>7 DEF Refused, Fresh, Idle
  <2> QED
    BY <2>1, MovesTurn
<1>8. {"add category", "update category", "delete category", "add attribute", "update attribute",
       "delete attribute", "link", "unlink"} \subseteq CatalogOps
  BY DEF CatalogOps
<1> QED
  BY <1>2, <1>3, <1>4, <1>5, <1>6, <1>7, <1>8 DEF CatalogAsks

(* ... and works on what it was asked, ...                                 *)
LEMMA CatalogWorkMoves ==
  ASSUME RequestsOK, NEW q \in Request, CatalogWork(q) \/ CacheFails(q) \/ InvalidationFails(q)
  PROVE  Moved(CatalogOps)
<1>0. /\ {"tree", "attrs", "ad", "link", "add attribute"} \subseteq CatalogOps
      /\ CategoryChanges \subseteq CatalogOps /\ AttributeChanges \subseteq CatalogOps /\ Readers \subseteq CatalogOps
  BY DEF CatalogOps, CategoryChanges, AttributeChanges, Readers
<1>1. ASSUME req[q].op \in CatalogOps, Turn(q, Done) \/ \E step : Proceed(q, step)
      PROVE  Moved(CatalogOps)
  BY <1>1, MovesTurn, MovesOn
<1>2. ASSUME req[q].op \in CatalogOps, NEW f, "op" \notin DOMAIN f, Turn(q, With(req[q], f))
      PROVE  Moved(CatalogOps)
  <2>1. "op" \in DOMAIN With(req[q], f) /\ With(req[q], f).op = req[q].op
    BY <1>2, WithOp DEF RequestsOK
  <2> QED
    BY <1>2, <2>1, MovesTurn
<1>3. CASE GetTree(q)
  BY <1>0, <1>1, <1>3 DEF GetTree, Asks
<1>4. CASE AllCategories(q)
  <2>1. PICK r : r = [op |-> "tree", step |-> "set", body |-> BuildTree(cats)]
    OBVIOUS
  <2> QED
    BY <1>0, <1>4, <2>1, MovesTurn DEF AllCategories, Asks
<1>5. CASE SetTree(q) \/ SetAttributes(q) \/ StoreAd(q)
  BY <1>0, <1>1, <1>5 DEF SetTree, SetAttributes, StoreAd, Asks
<1>6. CASE CheckCategory(q) \/ GetCached(q)
  BY <1>0, <1>1, <1>6 DEF CheckCategory, GetCached, Asks
<1>7. CASE GetGeneration(q)
  <2>1. PICK f : Turn(q, With(req[q], f)) /\ "op" \notin DOMAIN f
    <3>1. PICK f : f = [step |-> "get", at |-> gen]
      OBVIOUS
    <3>2. "op" \notin DOMAIN f /\ Turn(q, With(req[q], f))
      BY <1>7, <3>1 DEF GetGeneration
    <3> QED
      BY <3>2
  <2> QED
    BY <1>0, <1>2, <1>7, <2>1 DEF GetGeneration, Asks
<1>8. CASE EffectiveRows(q)
  <2>1. PICK f : Turn(q, With(req[q], f)) /\ "op" \notin DOMAIN f
    BY <1>8 DEF EffectiveRows
  <2> QED
    BY <1>0, <1>2, <1>8, <2>1 DEF EffectiveRows
<1>9. CASE EffectiveOptions(q)
  <2>1. PICK f : Turn(q, With(req[q], f)) /\ "op" \notin DOMAIN f
    BY <1>9 DEF EffectiveOptions
  <2> QED
    BY <1>0, <1>2, <1>9, <2>1 DEF EffectiveOptions
<1>10. CASE GetGenerationAgain(q)
  <2>1. PICK f : Turn(q, With(req[q], f)) /\ "op" \notin DOMAIN f
    <3>1. PICK f : f = [step |-> "set", at |-> gen]
      OBVIOUS
    <3>2. "op" \notin DOMAIN f /\ Turn(q, With(req[q], f))
      BY <1>10, <3>1 DEF GetGenerationAgain
    <3> QED
      BY <3>2
  <2> QED
    BY <1>0, <1>2, <1>10, <2>1 DEF GetGenerationAgain, Asks
<1>11. CASE ReadCategory(q)
  <2> DEFINE next == CASE req[q].op = "delete category" -> "count" [] OTHER -> "write"
  <2>1. Turn(q, Done) \/ \E f : Turn(q, With(req[q], f)) /\ "op" \notin DOMAIN f
    <3>1. PICK f, g : f = [step |-> "write", row |-> None] /\ g = [step |-> next, row |-> cats[req[q].cat]]
      OBVIOUS
    <3>2. "op" \notin DOMAIN f /\ "op" \notin DOMAIN g
      BY <3>1
    <3>3. Turn(q, Done) \/ Turn(q, With(req[q], f)) \/ Turn(q, With(req[q], g))
      BY <1>11, <3>1 DEF ReadCategory
    <3> QED
      BY <3>2, <3>3
  <2> QED
    BY <1>0, <1>1, <1>2, <1>11, <2>1 DEF ReadCategory
<1>12. CASE CreateCategory(q) \/ UpdateCategory(q) \/ CountChildren(q) \/ DeleteCategory(q)
  BY <1>0, <1>1, <1>12 DEF CreateCategory, UpdateCategory, CountChildren, DeleteCategory, Written,
     Asks, CategoryChanges
<1>13. CASE InvalidateTree(q) \/ InvalidateAttributes(q) \/ InvalidationFails(q)
  BY <1>0, <1>1, <1>13 DEF InvalidateTree, InvalidateAttributes, InvalidationFails
<1>14. CASE CreateAttribute(q) \/ CheckLinked(q)
  BY <1>0, <1>1, <1>14 DEF CreateAttribute, CheckLinked, Asks
<1>15. CASE ReadAttribute(q)
  <2>1. Turn(q, Done) \/ \E f : Turn(q, With(req[q], f)) /\ "op" \notin DOMAIN f
    <3>1. PICK f : f = [step |-> "write", body |-> [req[q].body EXCEPT !.type = attrs[req[q].attr].type]]
      OBVIOUS
    <3>2. "op" \notin DOMAIN f
      BY <3>1
    <3>3. Turn(q, Done) \/ Turn(q, With(req[q], f))
      BY <1>15, <3>1 DEF ReadAttribute
    <3> QED
      BY <3>2, <3>3
  <2> QED
    BY <1>0, <1>1, <1>2, <1>15, <2>1 DEF ReadAttribute, Asks, AttributeChanges
<1>16. CASE UpdateAttribute(q) \/ DeleteAttribute(q) \/ LinkAttribute(q) \/ UnlinkAttribute(q)
  BY <1>0, <1>1, <1>16 DEF UpdateAttribute, DeleteAttribute, LinkAttribute, UnlinkAttribute, Written,
     Asks, AttributeChanges
<1>17. CASE CacheFails(q)
  BY <1>0, <1>1, <1>17 DEF CacheFails
<1> QED
  BY <1>3, <1>4, <1>5, <1>6, <1>7, <1>8, <1>9, <1>10, <1>11, <1>12, <1>13, <1>14, <1>15, <1>16, <1>17
     DEF CatalogWork

(* ... and so moves its own requests.                                      *)
LEMMA CatalogMoves ==
  ASSUME RequestsOK, CatalogNext
  PROVE  Moved(CatalogOps)
<1>1. CASE \E q \in Request : CatalogAsks(q) \/ CatalogWork(q) \/ CacheFails(q) \/ InvalidationFails(q)
  BY <1>1, CatalogAsksMove, CatalogWorkMoves
<1>2. CASE Expiry
  BY <1>2, MovesNone DEF Expiry, ExpireTree, ExpireAttributes, inputs
<1> QED
  BY <1>1, <1>2 DEF CatalogNext

(***************************************************************************)
(* Media.  A media is born when its request has written, or tried to       *)
(* write, its row; a sweep removes the objects of one media at a time; and *)
(* a processor is at the previews when it has cleaned the original.        *)
(***************************************************************************)
Born(m) == m \in Request /\ (req[m] = Done \/ (req[m].op = "upload" /\ req[m].step = "compensate"))
Cur(m) == \E w \in Goroutine : work[w].op = "sweep" /\ Current(w).media = m
Previewing(m) == \E w \in Goroutine : In(w, "process", "previews") /\ work[w].media = m

Holding(q) == req[q].op = "upload" /\ req[q].step \in {"insert", "compensate"}

UploadRead(q) == req[q].op = "upload" =>
  /\ req[q] = [op |-> "upload", step |-> req[q].step, file |-> req[q].file]
  /\ req[q].step \in {"count", "put", "insert", "compensate"}
  /\ req[q].step = "insert" => <<q, 0>> \in DOMAIN objects
  /\ req[q].step = "compensate" /\ q \in DOMAIN rows => q \in torn

RowFits(m) ==
  /\ rows[m] = [ad |-> rows[m].ad, side |-> rows[m].side, status |-> rows[m].status,
                previews |-> rows[m].previews, old |-> rows[m].old]
  /\ Born(m) /\ rows[m].old \in BOOLEAN
  /\ \/ rows[m].status = "uploaded" /\ rows[m].previews = {}
     \/ rows[m].status = "ready" /\ rows[m].previews = Previews(rows[m].side)

(* The objects of a row are those it may show; those it does not show yet  *)
(* are left over or being made.  Without a row they are left over, or the  *)
(* original of a request that goes on.                                     *)
ObjectFits(k) ==
  /\ k \in MediaKeys /\ objects[k] \in {"raw", "clean"} /\ (k[2] # 0 => objects[k] = "clean")
  /\ k[1] \in DOMAIN rows =>
       /\ k[2] \in {0} \cup Previews(rows[k[1]].side)
       /\ k \in Shown(k[1]) \/ k[1] \in spilled \/ Previewing(k[1])
  /\ k[1] \notin DOMAIN rows => k[1] \in spilled \/ (Holding(k[1]) /\ k[2] = 0)

(* A media no failure has touched and no sweep is removing.                *)
Calm(m) == m \in DOMAIN rows \ torn /\ ~Cur(m)
Made(m, sizes) ==
  /\ <<m, 0>> \in DOMAIN objects /\ objects[<<m, 0>>] = "clean"
  /\ \A s \in sizes : <<m, s>> \in DOMAIN objects
Whole(m) == Calm(m) =>
  /\ <<m, 0>> \in DOMAIN objects
  /\ rows[m].status = "ready" => Made(m, Previews(rows[m].side))

Making == {"get", "clean", "previews"}
ProcessFits(w) ==
  /\ {"op", "step", "media"} \subseteq DOMAIN work[w] /\ work[w].op = "process"
  /\ Born(work[w].media) /\ work[w].step \in {"row", "skip", "over"} \cup Making
  /\ work[w].step \in Making =>
       /\ "side" \in DOMAIN work[w]
       /\ work[w].media \in DOMAIN rows => rows[work[w].media].side = work[w].side
       /\ work[w].media \in DOMAIN rows \cup spilled
  /\ work[w].step = "previews" =>
       /\ "todo" \in DOMAIN work[w] /\ work[w].todo \subseteq Previews(work[w].side)
       /\ Calm(work[w].media) => Made(work[w].media, Previews(work[w].side) \ work[w].todo)

EntryFits(c) ==
  /\ c = [media |-> c.media, shown |-> c.shown, keys |-> c.keys]
  /\ Born(c.media) /\ c.keys \subseteq c.shown
  /\ c.shown \subseteq {<<c.media, s>> : s \in {0} \cup PreviewSizes}
  /\ \A k \in c.shown \ c.keys :
       k \in DOMAIN objects => c.media \in spilled \/ Previewing(c.media)
SweepFits(w) ==
  /\ work[w] = [op |-> "sweep", left |-> work[w].left]
  /\ work[w].left # {} /\ IsFiniteSet(work[w].left)
  /\ \A c \in work[w].left : EntryFits(c)
  /\ \A c, d \in work[w].left : c.media = d.media => c = d
JobFits(w) == work[w] = Idle \/ ProcessFits(w) \/ SweepFits(w)

ToldFits(e) ==
  /\ told[e] = 1 /\ e = <<e[1], e[2]>> /\ Born(e[2])
  /\ \/ e[1] = "uploaded"
     \/ e[1] = "processed" /\ ~(e[2] \in DOMAIN rows /\ rows[e[2]].status = "uploaded")
     \/ e[1] = "deleted" /\ e[2] \notin DOMAIN rows

LimitFits(a) == a \notin crowded /\ a # None =>
  /\ Cardinality(OfAd(a)) \in Nat /\ Cardinality(OfAd(a)) <= MaxPerAd
  /\ \A p, q \in Counted(a) : p = q
  /\ Counted(a) # {} => Cardinality(OfAd(a)) < MaxPerAd

MediaTables ==
  /\ DOMAIN rows \subseteq Request /\ IsFiniteSet(DOMAIN rows)
  /\ mail \subseteq [media : Request, left : 0..MaxDeliver] /\ \A x \in mail : Born(x.media)
  /\ inbox \subseteq Request /\ torn \subseteq Request /\ \A m \in spilled : Born(m)
  /\ work = [w \in Goroutine |-> work[w]]

MediaInv ==
  /\ MediaTables
  /\ \A q \in Request : UploadRead(q)
  /\ \A m \in DOMAIN rows : RowFits(m) /\ Whole(m)
  /\ \A k \in DOMAIN objects : ObjectFits(k)
  /\ \A w \in Goroutine : JobFits(w)
  /\ \A e \in DOMAIN told : ToldFits(e)
  /\ \A a : LimitFits(a)


(* The step leaves a media in order, as far as others see it that have it  *)
(* in hand.                                                                *)
Settled(m) == ~Swept(m) /\ m \in DOMAIN rows /\ \A k \in DOMAIN objects : k[1] = m => k \in Shown(m)'
Gentle(m) ==
  /\ Born(m) => Born(m)'
  /\ m \in spilled => m \in spilled'
  /\ Previewing(m) => m \in spilled' \/ Previewing(m)' \/ Settled(m)
  /\ Born(m) =>
       /\ m \in DOMAIN rows' => m \in DOMAIN rows /\ rows'[m].side = rows[m].side
       /\ m \in DOMAIN rows => m \in DOMAIN rows' \cup spilled' \/ InHand(m) = {}
       /\ Calm(m)' => Calm(m)
       /\ \A k \in DOMAIN objects : k[1] = m /\ Calm(m)' =>
            k \in DOMAIN objects' /\ (objects[k] = "clean" => objects'[k] = "clean")
       /\ \A k \in DOMAIN objects' \ DOMAIN objects :
            k[1] = m => m \in spilled' \/ Previewing(m)'

(* What a worker processes fits when another step is gentle, ...           *)
LEMMA ProcessStays ==
  ASSUME \A m : Gentle(m), NEW w \in Goroutine, ProcessFits(w), work'[w] = work[w]
  PROVE  ProcessFits(w)'
<1>1. PICK m, j : m = work[w].media /\ j = work[w]
  OBVIOUS
<1>2. Gentle(m) /\ Born(m) /\ w \in InHand(m)
  BY <1>1 DEF ProcessFits, InHand
<1>3. Born(m)'
  BY <1>2 DEF Gentle
<1>4. ASSUME j.step \in Making
      PROVE  /\ "side" \in DOMAIN j /\ (m \in DOMAIN rows' => rows'[m].side = j.side)
             /\ m \in DOMAIN rows' \cup spilled'
  BY <1>1, <1>2, <1>4 DEF ProcessFits, Gentle
<1>5. ASSUME j.step = "previews", Calm(m)'
      PROVE  Made(m, Previews(j.side) \ j.todo)'
  <2>1. Calm(m)
    BY <1>2, <1>5 DEF Gentle
  <2>2. Made(m, Previews(j.side) \ j.todo)
    BY <1>1, <1>5, <2>1 DEF ProcessFits
  <2>3. \A k \in DOMAIN objects : k[1] = m =>
          k \in DOMAIN objects' /\ (objects[k] = "clean" => objects'[k] = "clean")
    BY <1>2, <1>5 DEF Gentle
  <2> QED
    BY <2>2, <2>3 DEF Made
<1>6. {"op", "step", "media"} \subseteq DOMAIN j /\ j.op = "process" /\ j.media = m
      /\ j.step \in {"row", "skip", "over"} \cup Making
  BY <1>1 DEF ProcessFits
<1>7. j.step = "previews" => "todo" \in DOMAIN j /\ j.todo \subseteq Previews(j.side)
  BY <1>1 DEF ProcessFits
<1>8. work'[w] = j
  BY <1>1
<1> QED
  BY <1>3, <1>4, <1>5, <1>6, <1>7, <1>8 DEF ProcessFits

(* ... so does an entry of a sweep, ...                                    *)
LEMMA EntryStays ==
  ASSUME NEW c, EntryFits(c), Gentle(c.media), Swept(c.media)
  PROVE  EntryFits(c)'
<1>1. Born(c.media)'
  BY DEF EntryFits, Gentle
<1>2. ASSUME NEW k \in c.shown \ c.keys, k \in DOMAIN objects'
      PROVE  c.media \in spilled' \/ Previewing(c.media)'
  <2>1. k[1] = c.media
    BY DEF EntryFits
  <2>2. CASE k \in DOMAIN objects
    <3>1. c.media \in spilled \/ Previewing(c.media)
      BY <2>2 DEF EntryFits
    <3> QED
      BY <3>1 DEF Gentle, Settled
  <2>3. CASE k \notin DOMAIN objects
    BY <1>2, <2>1, <2>3 DEF Gentle, EntryFits
  <2> QED
    BY <2>2, <2>3
<1> QED
  BY <1>1, <1>2 DEF EntryFits

(* ... the sweep, ...                                                      *)
LEMMA SweepStays ==
  ASSUME \A m : Gentle(m), NEW w \in Goroutine, SweepFits(w), work'[w] = work[w]
  PROVE  SweepFits(w)'
<1>1. \A c \in work[w].left : EntryFits(c)'
  BY EntryStays DEF SweepFits, Swept
<1> QED
  BY <1>1 DEF SweepFits

(* ... and so whatever a worker does.                                      *)
LEMMA JobStays ==
  ASSUME \A m : Gentle(m), NEW w \in Goroutine, JobFits(w), work'[w] = work[w]
  PROVE  JobFits(w)'
  BY ProcessStays, SweepStays DEF JobFits

(* A medium that is whole stays so, unless it becomes ready.               *)
LEMMA WholeStays ==
  ASSUME NEW m \in DOMAIN rows, Gentle(m), Born(m), Whole(m), m \in DOMAIN rows',
         rows'[m].status = "ready" => rows[m].status = "ready"
  PROVE  Whole(m)'
<1> SUFFICES ASSUME Calm(m)'
             PROVE  /\ <<m, 0>> \in DOMAIN objects'
                    /\ rows'[m].status = "ready" => Made(m, Previews(rows[m].side))'
  <2>1. rows'[m].side = rows[m].side
    BY DEF Gentle
  <2>2. Previews(rows[m].side)' = Previews(rows[m].side)
    BY <2>1 DEF Previews, Fit
  <2> QED
    BY <2>1, <2>2 DEF Whole, Made
<1>1. Calm(m)
  BY DEF Gentle
<1>2. \A k \in DOMAIN objects : k[1] = m =>
        k \in DOMAIN objects' /\ (objects[k] = "clean" => objects'[k] = "clean")
  BY DEF Gentle
<1>3. <<m, 0>> \in DOMAIN objects /\ (rows[m].status = "ready" => Made(m, Previews(rows[m].side)))
  BY <1>1 DEF Whole
<1>4. rows'[m].side = rows[m].side
  BY DEF Gentle
<1>5. ASSUME rows'[m].status = "ready" PROVE Made(m, Previews(rows[m].side))'
  BY <1>2, <1>3, <1>4, <1>5 DEF Made, Previews, Fit
<1> QED
  BY <1>2, <1>3, <1>5

(* The least of what a sweep and a processor choose from.                  *)
LEMMA CurrentIs ==
  ASSUME NEW w \in Goroutine, SweepFits(w)
  PROVE  /\ Current(w) \in work[w].left /\ EntryFits(Current(w))
         /\ \A d \in work[w].left : d.media = Current(w).media => d = Current(w)
<1>1. PICK S : S = {c.media : c \in work[w].left}
  OBVIOUS
<1>2. S \subseteq Nat /\ S # {}
  BY <1>1, RequestAssumption DEF SweepFits, EntryFits, Born
<1>3. Min(S) \in S /\ \A x \in S : Min(S) <= x
  BY <1>2, MinIsLeast
<1>4. \E c \in work[w].left : \A d \in work[w].left : c.media <= d.media
  BY <1>1, <1>3
<1>5. Current(w) \in work[w].left
  BY <1>4 DEF Current
<1> QED
  BY <1>5 DEF SweepFits

(* The key that a sweep removes next is one of those it listed.            *)
LEMMA NextKeyIs ==
  ASSUME NEW w \in Goroutine, SweepFits(w), Current(w).keys # {}
  PROVE  NextKey(w) \in Current(w).keys
<1>0. EntryFits(Current(w))
  BY CurrentIs
<1>1. PICK K : K = Current(w).keys
  OBVIOUS
<1>2. PICK S : S = {k[2] : k \in K}
  OBVIOUS
<1>3. S \subseteq Nat /\ S # {}
  BY <1>0, <1>1, <1>2, MediaAssumption DEF EntryFits
<1>4. Min(S) \in S /\ \A x \in S : Min(S) <= x
  BY <1>3, MinIsLeast
<1>5. \E k \in K : \A l \in K : k[2] <= l[2]
  BY <1>2, <1>4
<1> QED
  BY <1>1, <1>5 DEF NextKey

(* A set of sizes has a least one.                                         *)
LEMMA LeastIs ==
  ASSUME NEW S, S \subseteq Nat, S # {}
  PROVE  (CHOOSE s \in S : \A t \in S : s <= t) \in S
<1>1. Min(S) \in S /\ \A x \in S : Min(S) <= x
  BY MinIsLeast
<1> QED
  BY <1>1

(* The previews of an image are of sizes that there are.                   *)
LEMMA PreviewsAreSizes ==
  ASSUME NEW side
  PROVE  Previews(side) \subseteq PreviewSizes
  BY DEF Previews

(* One goroutine goes on.                                                  *)
LEMMA WorksOn ==
  ASSUME work = [g \in Goroutine |-> work[g]], NEW w \in Goroutine, NEW j, work' = [work EXCEPT ![w] = j]
  PROVE  /\ work' = [g \in Goroutine |-> work'[g]] /\ work'[w] = j
         /\ \A g \in Goroutine : g # w => work'[g] = work[g]
  OBVIOUS

(* A worker that rests is at the same entry.                               *)
LEMMA CurrentStays ==
  ASSUME NEW g, work'[g] = work[g]
  PROVE  Current(g)' = Current(g)
  BY DEF Current

(* The steps of a goroutine that leave the rows and the objects alone.     *)
Handles(w) ==
  /\ \A g \in Goroutine : g # w => work'[g] = work[g]
  /\ UNCHANGED <<req, rows, objects, told, crowded>>
  /\ spilled \subseteq spilled' /\ torn \subseteq torn'
  /\ In(w, "process", "previews") =>
       work[w].media \in spilled' \/ (In(w, "process", "previews")' /\ work'[w].media = work[w].media)
  /\ work[w].op = "sweep" =>
       Current(w).media \in torn' \/ (work'[w].op = "sweep" /\ Current(w)'.media = Current(w).media)

(* A worker still makes previews when another moves.                       *)
LEMMA PreviewingStays ==
  ASSUME NEW w \in Goroutine, \A g \in Goroutine : g # w => work'[g] = work[g],
         In(w, "process", "previews") =>
           work[w].media \in spilled' \/ (In(w, "process", "previews")' /\ work'[w].media = work[w].media),
         NEW m, Previewing(m)
  PROVE  m \in spilled' \/ Previewing(m)'
<1>1. PICK g \in Goroutine : In(g, "process", "previews") /\ work[g].media = m
  BY DEF Previewing
<1>2. CASE g = w
  BY <1>1, <1>2 DEF Previewing
<1>3. CASE g # w
  <2>1. work'[g] = work[g]
    BY <1>3
  <2> QED
    BY <1>1, <2>1 DEF Previewing, In
<1> QED
  BY <1>2, <1>3

(* A sweep is still at the same medium when another worker moves.          *)
LEMMA CurStays ==
  ASSUME NEW w \in Goroutine, \A g \in Goroutine : g # w => work'[g] = work[g],
         NEW m, work[w].op = "sweep" /\ Current(w).media = m => work'[w].op = "sweep" /\ Current(w)'.media = m,
         Cur(m)
  PROVE  Cur(m)'
<1>1. PICK g \in Goroutine : work[g].op = "sweep" /\ Current(g).media = m
  BY DEF Cur
<1>2. CASE g = w
  BY <1>1, <1>2 DEF Cur
<1>3. CASE g # w
  <2>1. work'[g] = work[g]
    BY <1>3
  <2>2. Current(g)' = Current(g)
    BY <2>1, CurrentStays
  <2> QED
    BY <1>1, <2>1, <2>2 DEF Cur
<1> QED
  BY <1>2, <1>3

(* Messages taken, acknowledged or given back are gentle to every medium.  *)
LEMMA HandlesGently ==
  ASSUME NEW w \in Goroutine, Handles(w), NEW m
  PROVE  Gentle(m)
<1>1. Born(m) => Born(m)'
  BY DEF Handles, Born
<1>2. Previewing(m) => m \in spilled' \/ Previewing(m)'
  BY PreviewingStays DEF Handles
<1>3. UNCHANGED <<rows, objects>> /\ spilled \subseteq spilled'
  BY DEF Handles
<1>4. Calm(m)' => Calm(m)
  <2> SUFFICES ASSUME Calm(m)', Cur(m) PROVE FALSE
    BY <1>3 DEF Calm, Handles
  <2>1. m \notin torn'
    BY DEF Calm
  <2>2. work[w].op = "sweep" /\ Current(w).media = m => work'[w].op = "sweep" /\ Current(w)'.media = m
    BY <2>1 DEF Handles
  <2>3. Cur(m)'
    BY <2>2, CurStays DEF Handles
  <2> QED
    BY <2>3 DEF Calm
<1> QED
  BY <1>1, <1>2, <1>3, <1>4 DEF Gentle

(* What is there stays in order.                                           *)
LEMMA RowStays ==
  ASSUME NEW m, Gentle(m), RowFits(m), rows'[m] = rows[m]
  PROVE  RowFits(m)'
<1>1. Born(m)'
  BY DEF Gentle, RowFits
<1>2. Previews(rows[m].side)' = Previews(rows[m].side)
  BY DEF Previews, Fit
<1> QED
  BY <1>1, <1>2 DEF RowFits

(* An object in the store still has its reason to be there, ...            *)
LEMMA ObjectStays ==
  ASSUME NEW k, ObjectFits(k), Gentle(k[1]), objects'[k] = objects[k] \/ objects'[k] = "clean",
         k[1] \in DOMAIN rows' <=> k[1] \in DOMAIN rows,
         k[1] \in DOMAIN rows => /\ rows'[k[1]].side = rows[k[1]].side
                                /\ rows[k[1]].previews \subseteq rows'[k[1]].previews,
         k \in DOMAIN objects,
         Holding(k[1]) => k[1] \in DOMAIN rows \/ k[1] \in spilled' \/ Holding(k[1])'
  PROVE  ObjectFits(k)'
<1>1. k[1] \in spilled => k[1] \in spilled'
  BY DEF Gentle
<1>2. Previewing(k[1]) => k[1] \in spilled' \/ Previewing(k[1])' \/ k \in Shown(k[1])'
  BY DEF Gentle, Settled
<1>3. MediaKeys' = MediaKeys /\ (k[1] \in DOMAIN rows => Shown(k[1]) \subseteq Shown(k[1])')
  BY DEF Shown, MediaKeys
<1>4. k[1] \in DOMAIN rows => /\ k[2] \in {0} \cup Previews(rows'[k[1]].side)
                              /\ k \in Shown(k[1])' \/ k[1] \in spilled' \/ Previewing(k[1])'
  BY <1>1, <1>2, <1>3 DEF ObjectFits
<1>5. k[1] \notin DOMAIN rows => k[1] \in spilled' \/ (Holding(k[1])' /\ k[2] = 0)
  BY <1>1 DEF ObjectFits
<1>6. k \in MediaKeys /\ objects'[k] \in {"raw", "clean"} /\ (k[2] # 0 => objects'[k] = "clean")
  BY DEF ObjectFits
<1> QED
  BY <1>3, <1>4, <1>5, <1>6 DEF ObjectFits

(* ... and an event its row.                                               *)
LEMMA ToldStays ==
  ASSUME NEW e, ToldFits(e), Gentle(e[2]), told'[e] = told[e],
         e[2] \in DOMAIN rows' /\ rows'[e[2]].status = "uploaded" => rows[e[2]].status = "uploaded"
  PROVE  ToldFits(e)'
  BY DEF ToldFits, Gentle

(* A worker that writes no row keeps the invariant if its own job and the  *)
(* objects do.                                                             *)
LEMMA WorkKeeps ==
  ASSUME MediaInv, NEW w \in Goroutine, \A g \in Goroutine : g # w => work'[g] = work[g],
         UNCHANGED <<req, rows, told, crowded>>, torn \subseteq torn', \A m : Gentle(m), MediaTables', JobFits(w)',
         \A k \in DOMAIN objects' : ObjectFits(k)',
         \A q \in Request : req[q].step = "insert" /\ req[q].op = "upload" /\ <<q, 0>> \in DOMAIN objects
           => <<q, 0>> \in DOMAIN objects'
  PROVE  MediaInv'
<1>1. ASSUME NEW q \in Request PROVE UploadRead(q)'
  BY DEF MediaInv, UploadRead
<1>2. ASSUME NEW m \in DOMAIN rows' PROVE RowFits(m)' /\ Whole(m)'
  <2>1. m \in DOMAIN rows /\ RowFits(m) /\ Whole(m) /\ Born(m)
    BY DEF MediaInv, RowFits
  <2>2. RowFits(m)'
    BY <2>1, RowStays
  <2>3. Whole(m)'
    BY <2>1, WholeStays
  <2> QED
    BY <2>2, <2>3
<1>3. ASSUME NEW g \in Goroutine PROVE JobFits(g)'
  <2>1. CASE g = w
    BY <2>1
  <2>2. CASE g # w
    <3>1. JobFits(g) /\ work'[g] = work[g]
      BY <2>2 DEF MediaInv
    <3> QED
      BY <3>1, JobStays
  <2> QED
    BY <2>1, <2>2
<1>4. ASSUME NEW e \in DOMAIN told' PROVE ToldFits(e)'
  <2>1. ToldFits(e)
    BY DEF MediaInv
  <2> QED
    BY <2>1, ToldStays
<1>5. ASSUME NEW a PROVE LimitFits(a)'
  <2>1. LimitFits(a)
    BY DEF MediaInv
  <2>2. OfAd(a)' = OfAd(a) /\ Counted(a)' = Counted(a)
    BY DEF OfAd, Counted
  <2> QED
    BY <2>1, <2>2 DEF LimitFits
<1> QED
  BY <1>1, <1>2, <1>3, <1>4, <1>5 DEF MediaInv

(* A worker that only handles its message keeps it if its job does.        *)
LEMMA WorkerKeeps ==
  ASSUME MediaInv, NEW w \in Goroutine, Handles(w), MediaTables', JobFits(w)'
  PROVE  MediaInv'
<1>1. \A m : Gentle(m)
  BY HandlesGently
<1>2. /\ UNCHANGED <<req, rows, objects, told, crowded>> /\ torn \subseteq torn'
      /\ \A g \in Goroutine : g # w => work'[g] = work[g]
  BY DEF Handles
<1>3. ASSUME NEW k \in DOMAIN objects' PROVE ObjectFits(k)'
  <2>1. k \in DOMAIN objects /\ ObjectFits(k)
    BY <1>2 DEF MediaInv
  <2> QED
    BY <1>1, <1>2, <2>1, ObjectStays DEF Holding
<1> QED
  BY <1>1, <1>2, <1>3, WorkKeeps

(* The least of the entries that are left is one of them.                  *)
LEMMA FirstIs ==
  ASSUME NEW L, L # {}, \A c \in L : c.media \in Nat,
         NEW f, f = CHOOSE c \in L : \A d \in L : c.media <= d.media
  PROVE  f \in L /\ \A d \in L : f.media <= d.media
<1>1. PICK S : S = {c.media : c \in L}
  OBVIOUS
<1>2. S \subseteq Nat /\ S # {}
  BY <1>1
<1>3. Min(S) \in S /\ \A x \in S : Min(S) <= x
  BY <1>2, MinIsLeast
<1>4. \E c \in L : \A d \in L : c.media <= d.media
  BY <1>1, <1>3
<1> QED
  BY <1>4

(* A sweep whose current media has a key less to remove.                   *)
KeyTaken(w) == work'[w] = [work[w] EXCEPT !.left = WithoutKey(w)]
(* When a sweep has removed a key, its entry lists it no more, ...         *)
LEMMA KeyIsTaken ==
  ASSUME NEW w \in Goroutine, SweepFits(w), Current(w).keys # {},
         KeyTaken(w), NEW m, m = Current(w).media
  PROVE  /\ work'[w].op = "sweep" /\ Current(w)'.media = m
         /\ \E n : /\ n = [media |-> m, shown |-> Current(w).shown, keys |-> Current(w).keys \ {NextKey(w)}]
                  /\ work'[w] = [op |-> "sweep", left |-> (work[w].left \ {Current(w)}) \cup {n}]
<1>1. PICK c, k, L : c = Current(w) /\ m = c.media /\ k = NextKey(w) /\ L = work[w].left
  OBVIOUS
<1>2. c \in L /\ EntryFits(c)
  BY <1>1, CurrentIs
<1>3. \A d \in L : d.media \in Nat
  BY <1>1, RequestAssumption DEF SweepFits, EntryFits, Born
<1>4. \A d \in L : m <= d.media
  BY <1>1, <1>2, <1>3, FirstIs DEF Current
<1>5. PICK n : n = [c EXCEPT !.keys = @ \ {k}]
  OBVIOUS
<1>6. n = [media |-> m, shown |-> c.shown, keys |-> c.keys \ {k}]
  BY <1>1, <1>2, <1>5 DEF EntryFits
<1>7. PICK M : M = (L \ {c}) \cup {n}
  OBVIOUS
<1>8. work'[w] = [op |-> "sweep", left |-> M]
  <2>1. WithoutKey(w) = M
    BY <1>1, <1>5, <1>7 DEF WithoutKey, Rest
  <2> QED
    BY <2>1 DEF SweepFits, KeyTaken
<1>9. Current(w)'.media = m
  <2>1. PICK f : f = Current(w)'
    OBVIOUS
  <2>2. f = CHOOSE d \in M : \A e \in M : d.media <= e.media
    BY <1>8, <2>1 DEF Current
  <2>3. \A d \in M : d.media \in Nat /\ m <= d.media
    <3>1. n.media = m /\ m \in Nat /\ m <= m
      BY <1>1, <1>2, <1>3, <1>6
    <3> QED
      BY <1>3, <1>4, <1>7, <3>1
  <2>4. f \in M /\ f.media <= n.media
    <3>1. M # {} /\ n \in M
      BY <1>7
    <3>2. f \in M /\ \A d \in M : f.media <= d.media
      BY <2>2, <2>3, <3>1, FirstIs
    <3> QED
      BY <3>1, <3>2
  <2>5. f.media = m
    <3>1. f.media \in Nat /\ m <= f.media /\ n.media = m /\ m \in Nat
      BY <1>1, <1>2, <1>3, <1>6, <2>3, <2>4
    <3> QED
      BY <2>4, <3>1
  <2> QED
    BY <2>1, <2>5
<1>10. n = [media |-> m, shown |-> Current(w).shown, keys |-> Current(w).keys \ {NextKey(w)}]
  BY <1>1, <1>6
<1>11. work'[w] = [op |-> "sweep", left |-> (work[w].left \ {Current(w)}) \cup {n}]
  BY <1>1, <1>7, <1>8
<1>12. work'[w].op = "sweep"
  BY <1>8
<1> QED
  BY <1>9, <1>10, <1>11, <1>12

(* ... and the sweep still fits.                                           *)
LEMMA KeyTakenFits ==
  ASSUME \A m : Gentle(m), NEW w \in Goroutine, SweepFits(w), Current(w).keys # {},
         KeyTaken(w), NEW m, m = Current(w).media,
         NextKey(w) \notin DOMAIN objects' \/ m \in spilled' \/ Previewing(m)'
  PROVE  JobFits(w)'
<1>1. PICK c, k, L : c = Current(w) /\ m = c.media /\ k = NextKey(w) /\ L = work[w].left
  OBVIOUS
<1>2. c \in L /\ EntryFits(c) /\ k \in c.keys /\ \A d \in L : d.media = m => d = c
  BY <1>1, CurrentIs, NextKeyIs
<1>3. PICK n : /\ n = [media |-> m, shown |-> c.shown, keys |-> c.keys \ {k}]
               /\ work'[w] = [op |-> "sweep", left |-> (L \ {c}) \cup {n}]
  <2>1. \E n : /\ n = [media |-> m, shown |-> Current(w).shown, keys |-> Current(w).keys \ {NextKey(w)}]
               /\ work'[w] = [op |-> "sweep", left |-> (work[w].left \ {Current(w)}) \cup {n}]
    BY KeyIsTaken
  <2> QED
    BY <1>1, <2>1
<1>4. PICK M : M = (L \ {c}) \cup {n}
  OBVIOUS
<1>5. EntryFits(n)'
  <2>1. EntryFits(c)'
    BY <1>1, <1>2, EntryStays DEF Swept, SweepFits
  <2>2. k \notin DOMAIN objects' \/ m \in spilled' \/ Previewing(m)'
    BY <1>1
  <2> QED
    BY <1>1, <1>2, <1>3, <2>1, <2>2 DEF EntryFits
<1>6. \A d \in M : EntryFits(d)'
  BY <1>1, <1>4, <1>5, EntryStays DEF SweepFits, Swept
<1>7. IsFiniteSet(M)
  <2>1. IsFiniteSet(L \ {c})
    BY <1>1, FS_RemoveElement DEF SweepFits
  <2> QED
    BY <1>4, <2>1, FS_AddElement
<1>8. \A d, e \in M : d.media = e.media => d = e
  <2>1. \A d, e \in L : d.media = e.media => d = e
    BY <1>1 DEF SweepFits
  <2>2. n.media = m
    BY <1>3
  <2> QED
    BY <1>2, <1>4, <2>1, <2>2
<1>9. SweepFits(w)'
  <2>1. M # {} /\ work'[w] = [op |-> "sweep", left |-> M]
    BY <1>3, <1>4
  <2> QED
    BY <1>6, <1>7, <1>8, <2>1 DEF SweepFits
<1> QED
  BY <1>9 DEF JobFits

(* A sweep that is through with its current media.                         *)
Passed(w) == work'[w] = IF Rest(w, {}) = {} THEN Idle ELSE [work[w] EXCEPT !.left = Rest(w, {})]
(* It also fits when the entry is passed.                                  *)
LEMMA CurrentIsPassed ==
  ASSUME \A m : Gentle(m), NEW w \in Goroutine, SweepFits(w), Passed(w)
  PROVE  JobFits(w)'
<1>1. PICK M : M = Rest(w, {})
  OBVIOUS
<1>2. M \subseteq work[w].left
  BY <1>1 DEF Rest
<1>3. CASE M = {}
  BY <1>1, <1>3 DEF Passed, JobFits
<1>4. CASE M # {}
  <2>1. work'[w] = [op |-> "sweep", left |-> M]
    BY <1>1, <1>4 DEF Passed, SweepFits
  <2>2. IsFiniteSet(M)
    BY <1>2, FS_Subset DEF SweepFits
  <2>3. \A d \in M : EntryFits(d)'
    BY <1>2, EntryStays DEF SweepFits, Swept
  <2>4. \A d, e \in M : d.media = e.media => d = e
    BY <1>2 DEF SweepFits
  <2>5. SweepFits(w)'
    BY <1>4, <2>1, <2>2, <2>3, <2>4 DEF SweepFits
  <2> QED
    BY <2>5 DEF JobFits
<1> QED
  BY <1>3, <1>4

(* A processor that goes on, but not to the making of the previews.        *)
LEMMA ProcessGoes ==
  ASSUME \A m : Gentle(m), NEW w \in Goroutine, ProcessFits(w),
         NEW j, work'[w] = j, {"op", "step", "media"} \subseteq DOMAIN j, j.op = "process",
         j.media = work[w].media, j.step \in {"row", "skip", "over"}
  PROVE  JobFits(w)'
<1>1. Born(j.media)'
  BY DEF ProcessFits, Gentle
<1>2. j.step \notin Making /\ j.step # "previews"
  BY DEF Making
<1>3. ProcessFits(w)'
  BY <1>1, <1>2 DEF ProcessFits
<1> QED
  BY <1>3 DEF JobFits

(* A worker that is not idle processes or sweeps.                          *)
LEMMA JobIs ==
  ASSUME NEW w, JobFits(w), work[w] # Idle
  PROVE  /\ work[w].op = "process" => ProcessFits(w)
         /\ work[w].op = "sweep" => SweepFits(w)
         /\ work[w].op \in {"process", "sweep"}
<1>1. CASE ProcessFits(w)
  BY <1>1 DEF ProcessFits
<1>2. CASE SweepFits(w)
  <2>1. work[w].op = "sweep"
    BY <1>2 DEF SweepFits
  <2> QED
    BY <1>2, <2>1
<1> QED
  BY <1>1, <1>2 DEF JobFits

(***************************************************************************)
(* The steps that leave the rows and the objects alone.                    *)
(***************************************************************************)
LEMMA GiveKeeps ==
  ASSUME MediaInv, NEW w \in Goroutine, NEW x \in mail, Give(w, x)
  PROVE  MediaInv'
<1>1. PICK j : /\ work' = [work EXCEPT ![w] = j]
               /\ j = [op |-> "process", media |-> x.media, step |-> IF x.media \in inbox THEN "over" ELSE "row"]
  BY DEF Give
<1>2. /\ work[w] = Idle /\ UNCHANGED <<req, rows, objects, inbox, told, given, crowded, torn, spilled>>
      /\ mail' = (mail \ {x}) \cup {[x EXCEPT !.left = @ - 1]} /\ x.left > 0
  BY DEF Give, mediaHistory
<1>3. MediaTables
  BY DEF MediaInv
<1>4. /\ work' = [g \in Goroutine |-> work'[g]] /\ work'[w] = j
      /\ \A g \in Goroutine : g # w => work'[g] = work[g]
  BY <1>1, <1>3, WorksOn DEF MediaTables
<1>5. x.media \in Request /\ Born(x.media) /\ x.left \in 0..MaxDeliver /\ x = [media |-> x.media, left |-> x.left]
  BY <1>3 DEF MediaTables
<1>6. \A m : Born(m)' <=> Born(m)
  BY <1>2 DEF Born
<1>7. MediaTables'
  <2>1. [x EXCEPT !.left = @ - 1] = [media |-> x.media, left |-> x.left - 1] /\ x.left - 1 \in 0..MaxDeliver
    BY <1>2, <1>5, MediaAssumption
  <2>2. mail' \subseteq [media : Request, left : 0..MaxDeliver] /\ \A y \in mail' : Born(y.media)
    BY <1>2, <1>3, <1>5, <2>1 DEF MediaTables
  <2>3. \A y \in mail' : Born(y.media)'
    BY <1>6, <2>2
  <2>4. \A m \in spilled' : Born(m)'
    BY <1>2, <1>3, <1>6 DEF MediaTables
  <2> QED
    BY <1>2, <1>3, <1>4, <2>2, <2>3, <2>4 DEF MediaTables
<1>8. Handles(w)
  BY <1>2, <1>4 DEF Handles, In, Idle
<1>9. JobFits(w)'
  <2>1. Born(x.media)'
    BY <1>5, <1>6
  <2>2. j.step \in {"row", "over"} /\ j.step \notin Making /\ j.step # "previews"
    BY <1>1 DEF Making
  <2>3. {"op", "step", "media"} \subseteq DOMAIN j /\ j.op = "process" /\ j.media = x.media
    BY <1>1
  <2>4. ProcessFits(w)'
    BY <1>4, <2>1, <2>2, <2>3 DEF ProcessFits
  <2> QED
    BY <2>4 DEF JobFits
<1> QED
  BY <1>7, <1>8, <1>9, WorkerKeeps

(* The tables after a step that adds media to those that are spilled,      *)
(* torn or in the inbox, and takes messages away.                          *)
LEMMA TablesFollow ==
  ASSUME MediaTables, NEW w \in Goroutine, NEW j, work' = [work EXCEPT ![w] = j],
         UNCHANGED <<req, rows>>, mail' \subseteq mail,
         inbox' \subseteq Request, torn' \subseteq Request, \A m \in spilled' \ spilled : Born(m)
  PROVE  MediaTables' /\ work'[w] = j /\ \A g \in Goroutine : g # w => work'[g] = work[g]
<1>1. /\ work' = [g \in Goroutine |-> work'[g]] /\ work'[w] = j
      /\ \A g \in Goroutine : g # w => work'[g] = work[g]
  BY WorksOn DEF MediaTables
<1>2. \A m : Born(m)' <=> Born(m)
  BY DEF Born
<1>3. \A x \in mail' : Born(x.media)'
  BY <1>2 DEF MediaTables
<1>4. \A m \in spilled' : Born(m)'
  BY <1>2 DEF MediaTables
<1> QED
  BY <1>1, <1>3, <1>4 DEF MediaTables

(* What a worker has in hand.                                              *)
LEMMA InProcess ==
  ASSUME MediaInv, NEW w \in Goroutine, work[w].op = "process"
  PROVE  ProcessFits(w) /\ Born(work[w].media) /\ work[w].media \in Request
<1>1. JobFits(w) /\ work[w] # Idle
  BY DEF MediaInv, Idle
<1>2. ProcessFits(w)
  BY <1>1, JobIs
<1> QED
  BY <1>2 DEF ProcessFits, Born

(* What is known of a worker that sweeps.                                  *)
LEMMA InSweep ==
  ASSUME MediaInv, NEW w \in Goroutine, work[w].op = "sweep"
  PROVE  /\ SweepFits(w) /\ EntryFits(Current(w)) /\ Current(w) \in work[w].left
         /\ Born(Current(w).media) /\ Current(w).media \in Request
<1>1. JobFits(w) /\ work[w] # Idle
  BY DEF MediaInv, Idle
<1>2. SweepFits(w)
  BY <1>1, JobIs
<1>3. EntryFits(Current(w)) /\ Current(w) \in work[w].left
  BY <1>2, CurrentIs
<1> QED
  BY <1>2, <1>3 DEF EntryFits, Born

(* A message is acknowledged.                                              *)
LEMMA AcknowledgeKeeps ==
  ASSUME MediaInv, NEW w \in Goroutine, Acknowledge(w)
  PROVE  MediaInv'
<1>1. /\ work' = [work EXCEPT ![w] = Idle] /\ mail' \subseteq mail /\ work[w].op = "process" /\ work[w].step = "over"
      /\ UNCHANGED <<req, rows, objects, inbox, told, given, crowded, torn, spilled>>
  BY DEF Acknowledge, In, mediaHistory, inputs
<1>2. MediaTables' /\ work'[w] = Idle /\ \A g \in Goroutine : g # w => work'[g] = work[g]
  BY <1>1, TablesFollow DEF MediaInv, MediaTables
<1>3. Handles(w)
  BY <1>1, <1>2 DEF Handles, In
<1>4. JobFits(w)'
  BY <1>2 DEF JobFits
<1> QED
  BY <1>2, <1>3, <1>4, WorkerKeeps

(* The step of a worker changes, and its side is kept.                     *)
LEMMA GoIs ==
  ASSUME work = [g \in Goroutine |-> work[g]], NEW w \in Goroutine, NEW step, Go(w, step),
         "step" \in DOMAIN work[w]
  PROVE  \E j : /\ work' = [work EXCEPT ![w] = j] /\ DOMAIN j = DOMAIN work[w] /\ j.step = step
                /\ \A x \in DOMAIN j : x # "step" => j[x] = work[w][x]
<1>1. PICK j : j = [work[w] EXCEPT !.step = step]
  OBVIOUS
<1>2. work' = [work EXCEPT ![w] = j]
  BY <1>1 DEF Go
<1>3. DOMAIN j = DOMAIN work[w] /\ \A x \in DOMAIN j : j[x] = IF x = "step" THEN step ELSE work[w][x]
  BY <1>1
<1>4. j.step = step
  BY <1>3
<1> QED
  BY <1>2, <1>3, <1>4

(* The inbox notes an event.                                               *)
LEMMA MarkEventKeeps ==
  ASSUME MediaInv, NEW w \in Goroutine, MarkEventProcessed(w)
  PROVE  MediaInv'
<1>1. /\ inbox' = inbox \cup {work[w].media} /\ work[w].op = "process" /\ work[w].step = "skip"
      /\ Go(w, "over")
      /\ UNCHANGED <<req, rows, objects, mail, told, given, crowded, torn, spilled>>
  BY DEF MarkEventProcessed, In, mediaHistory, inputs
<1>2. MediaTables /\ ProcessFits(w) /\ work[w].media \in Request
  BY <1>1, InProcess DEF MediaInv
<1>3. PICK j : /\ work' = [work EXCEPT ![w] = j] /\ DOMAIN j = DOMAIN work[w] /\ j.step = "over"
               /\ \A x \in DOMAIN j : x # "step" => j[x] = work[w][x]
  BY <1>1, <1>2, GoIs DEF MediaTables, ProcessFits
<1>4. MediaTables' /\ work'[w] = j /\ \A g \in Goroutine : g # w => work'[g] = work[g]
  BY <1>1, <1>2, <1>3, TablesFollow DEF MediaTables
<1>5. Handles(w)
  BY <1>1, <1>4 DEF Handles, In
<1>6. {"op", "step", "media"} \subseteq DOMAIN j /\ j.op = "process" /\ j.media = work[w].media
  BY <1>2, <1>3 DEF ProcessFits
<1>7. JobFits(w)'
  BY <1>2, <1>3, <1>4, <1>5, <1>6, HandlesGently, ProcessGoes
<1> QED
  BY <1>4, <1>5, <1>7, WorkerKeeps

(* The row is read, and its processing begins or is skipped.               *)
LEMMA ReadRowKeeps ==
  ASSUME MediaInv, NEW w \in Goroutine, ReadRow(w)
  PROVE  MediaInv'
<1>1. /\ work[w].op = "process" /\ work[w].step = "row"
      /\ UNCHANGED <<req, rows, objects, mail, inbox, told, given, crowded, torn, spilled>>
  BY DEF ReadRow, In, mediaHistory, inputs
<1>2. MediaTables /\ ProcessFits(w) /\ work[w].media \in Request
  BY <1>1, InProcess DEF MediaInv
<1>3. ASSUME NEW j, work' = [work EXCEPT ![w] = j]
      PROVE  /\ MediaTables' /\ work'[w] = j /\ Handles(w)
             /\ \A m : Gentle(m)
  <2>1. MediaTables' /\ work'[w] = j /\ \A g \in Goroutine : g # w => work'[g] = work[g]
    BY <1>1, <1>2, <1>3, TablesFollow DEF MediaTables
  <2>2. Handles(w)
    BY <1>1, <2>1 DEF Handles, In
  <2> QED
    BY <2>1, <2>2, HandlesGently
<1>4. CASE work[w].media \in DOMAIN rows /\ rows[work[w].media].status = "uploaded"
  <2>1. PICK j, m : m = work[w].media /\ j = With(work[w], [step |-> "get", side |-> rows[m].side])
    OBVIOUS
  <2>2. work' = [work EXCEPT ![w] = j]
    BY <1>2, <1>4, <2>1 DEF ReadRow, MediaTables
  <2>3. MediaTables' /\ work'[w] = j /\ Handles(w) /\ \A n : Gentle(n)
    BY <1>3, <2>2
  <2>4. /\ {"op", "step", "media", "side"} \subseteq DOMAIN j /\ j.op = "process" /\ j.media = m
        /\ j.step = "get" /\ j.side = rows[m].side
    BY <1>2, <2>1 DEF ProcessFits, With
  <2>5. Born(m)'
    BY <1>2, <2>1, <2>3 DEF Gentle, ProcessFits
  <2>6. ProcessFits(w)'
    BY <1>1, <1>4, <2>1, <2>3, <2>4, <2>5 DEF ProcessFits, Making
  <2> QED
    BY <2>3, <2>6, WorkerKeeps DEF JobFits
<1>5. CASE ~(work[w].media \in DOMAIN rows /\ rows[work[w].media].status = "uploaded")
  <2>1. Go(w, "skip")
    BY <1>5 DEF ReadRow
  <2>2. PICK j : /\ work' = [work EXCEPT ![w] = j] /\ DOMAIN j = DOMAIN work[w] /\ j.step = "skip"
                 /\ \A x \in DOMAIN j : x # "step" => j[x] = work[w][x]
    BY <1>2, <2>1, GoIs DEF MediaTables, ProcessFits
  <2>3. MediaTables' /\ work'[w] = j /\ Handles(w) /\ \A n : Gentle(n)
    BY <1>3, <2>2
  <2>4. {"op", "step", "media"} \subseteq DOMAIN j /\ j.op = "process" /\ j.media = work[w].media
    BY <1>2, <2>2 DEF ProcessFits
  <2>5. JobFits(w)'
    BY <1>2, <2>2, <2>3, <2>4, ProcessGoes
  <2> QED
    BY <2>3, <2>5, WorkerKeeps
<1> QED
  BY <1>4, <1>5

(* A handler fails, and the message comes again or is given up.            *)
LEMMA HandleFailsKeeps ==
  ASSUME MediaInv, NEW w \in Goroutine, work[w].op = "process", HandleFails(w), UNCHANGED req
  PROVE  MediaInv'
<1>1. /\ work' = [work EXCEPT ![w] = Idle] /\ mail' \subseteq mail
      /\ spilled' = IF work[w].step = "previews" THEN spilled \cup {work[w].media} ELSE spilled
      /\ UNCHANGED <<rows, objects, inbox, told, crowded, torn>>
  BY DEF HandleFails
<1>2. MediaTables /\ Born(work[w].media)
  BY InProcess DEF MediaInv
<1>3. \A m \in spilled' \ spilled : Born(m)
  BY <1>1, <1>2
<1>4. MediaTables' /\ work'[w] = Idle /\ \A g \in Goroutine : g # w => work'[g] = work[g]
  BY <1>1, <1>2, <1>3, TablesFollow DEF MediaTables
<1>5. Handles(w)
  BY <1>1, <1>4 DEF Handles, In
<1> QED
  BY <1>4, <1>5, WorkerKeeps DEF JobFits

(* The original is read from the store.                                    *)
LEMMA GetOriginalKeeps ==
  ASSUME MediaInv, NEW w \in Goroutine, GetOriginal(w)
  PROVE  MediaInv'
<1>1. work[w].op = "process" /\ work[w].step = "get" /\ UNCHANGED req
  BY DEF GetOriginal, In, inputs
<1>2. CASE HandleFails(w)
  BY <1>1, <1>2, HandleFailsKeeps
<1>3. CASE Go(w, "clean") /\ UNCHANGED <<rows, objects, mail, inbox, mediaHistory>>
  <2>1. MediaTables /\ ProcessFits(w) /\ work[w].media \in Request
    BY <1>1, InProcess DEF MediaInv
  <2>2. PICK j : /\ work' = [work EXCEPT ![w] = j] /\ DOMAIN j = DOMAIN work[w] /\ j.step = "clean"
                 /\ \A x \in DOMAIN j : x # "step" => j[x] = work[w][x]
    BY <1>3, <2>1, GoIs DEF MediaTables, ProcessFits
  <2>3. MediaTables' /\ work'[w] = j /\ \A g \in Goroutine : g # w => work'[g] = work[g]
    BY <1>1, <1>3, <2>1, <2>2, TablesFollow DEF MediaTables, mediaHistory
  <2>4. Handles(w)
    BY <1>1, <1>3, <2>3 DEF Handles, In, mediaHistory
  <2>5. /\ {"op", "step", "media", "side"} \subseteq DOMAIN j /\ j.op = "process"
        /\ j.media = work[w].media /\ j.side = work[w].side
    BY <1>1, <2>1, <2>2 DEF ProcessFits, Making
  <2>6. Born(work[w].media) /\ (work[w].media \in DOMAIN rows => rows[work[w].media].side = work[w].side)
        /\ work[w].media \in DOMAIN rows \cup spilled
    BY <1>1, <2>1 DEF ProcessFits, Making
  <2>7. PICK m : m = work[w].media
    OBVIOUS
  <2>8. Born(m)'
    BY <1>1, <2>6, <2>7 DEF Born
  <2>9. ProcessFits(w)'
    BY <1>3, <2>2, <2>3, <2>5, <2>6, <2>7, <2>8 DEF ProcessFits, Making, mediaHistory
  <2> QED
    BY <2>3, <2>4, <2>9, WorkerKeeps DEF JobFits
<1> QED
  BY <1>2, <1>3 DEF GetOriginal

(* A sweep lists the old rows and the keys that they show.                 *)
LEMMA SweepKeeps ==
  ASSUME MediaInv, NEW w \in Goroutine, Sweep(w)
  PROVE  MediaInv'
<1>1. PICK S, L : S = Oldest(Orphans, Batch) /\ L = {Copy(m) : m \in S}
  OBVIOUS
<1>2. /\ work[w] = Idle /\ Orphans # {} /\ work' = [work EXCEPT ![w] = [op |-> "sweep", left |-> L]]
      /\ UNCHANGED <<req, rows, objects, mail, inbox, told, given, crowded, torn, spilled>>
  BY <1>1 DEF Sweep, mediaHistory, inputs
<1>3. MediaTables /\ Orphans \subseteq DOMAIN rows /\ S \subseteq Orphans
  BY <1>1 DEF MediaInv, Orphans, Oldest
<1>4. /\ MediaTables' /\ work'[w] = [op |-> "sweep", left |-> L]
      /\ \A g \in Goroutine : g # w => work'[g] = work[g]
  BY <1>2, <1>3, TablesFollow DEF MediaTables
<1>5. Handles(w)
  BY <1>2, <1>4 DEF Handles, In, Idle
<1>6. IsFiniteSet(L)
  <2>1. IsFiniteSet(S)
    BY <1>3, FS_Subset DEF MediaTables
  <2>2. PICK f : f = [m \in S |-> Copy(m)]
    OBVIOUS
  <2>3. f \in Surjection(S, L)
    BY <1>1, <2>2 DEF Surjection
  <2> QED
    BY <2>1, <2>3, FS_Surjection
<1>7. L # {}
  <2>1. Orphans \subseteq Nat
    BY <1>3, RequestAssumption DEF MediaTables
  <2>2. Min(Orphans) \in Orphans /\ \A x \in Orphans : Min(Orphans) <= x
    BY <1>2, <2>1, MinIsLeast
  <2>3. PICK m \in Orphans : \A x \in Orphans : m <= x
    BY <2>2
  <2>4. {k \in Orphans : k < m} = {}
    <3>1. ASSUME NEW k \in Orphans PROVE ~(k < m)
      <4>1. m <= k /\ m \in Nat /\ k \in Nat
        BY <2>1, <2>3
      <4> QED
        BY <4>1
    <3> QED
      BY <3>1
  <2>5. Cardinality({k \in Orphans : k < m}) < Batch
    BY <2>4, FS_EmptySet, MediaAssumption
  <2>6. m \in S
    BY <1>1, <2>5 DEF Oldest
  <2> QED
    BY <1>1, <2>6
<1>8. ASSUME NEW m \in S PROVE EntryFits(Copy(m))'
  <2>1. RowFits(m) /\ m \in DOMAIN rows
    BY <1>3 DEF MediaInv
  <2>2. rows[m].previews \subseteq PreviewSizes
    BY <2>1, PreviewsAreSizes DEF RowFits
  <2>3. Born(m)'
    BY <1>2, <2>1 DEF RowFits, Born
  <2>4. PICK c : c = Copy(m)
    OBVIOUS
  <2>5. c = [media |-> m, shown |-> Shown(m), keys |-> Shown(m)]
    BY <2>4 DEF Copy
  <2>6. Shown(m) \subseteq {<<m, s>> : s \in {0} \cup PreviewSizes}
    BY <2>2 DEF Shown
  <2>7. EntryFits(c)'
    BY <2>3, <2>5, <2>6 DEF EntryFits
  <2>8. Copy(m)' = c
    BY <1>2, <2>4 DEF Copy, Shown
  <2> QED
    BY <2>7, <2>8 DEF EntryFits
<1>9. \A c \in L : EntryFits(c)'
  <2> SUFFICES ASSUME NEW c \in L PROVE EntryFits(c)'
    OBVIOUS
  <2>1. PICK m \in S : c = Copy(m)
    BY <1>1
  <2>2. EntryFits(Copy(m))'
    BY <1>8
  <2>3. Copy(m)' = Copy(m)
    BY <1>2 DEF Copy, Shown
  <2> QED
    BY <2>1, <2>2, <2>3 DEF EntryFits
<1>10. \A c, d \in L : c.media = d.media => c = d
  BY <1>1 DEF Copy
<1>11. SweepFits(w)'
  BY <1>4, <1>6, <1>7, <1>9, <1>10 DEF SweepFits
<1> QED
  BY <1>4, <1>5, <1>11, WorkerKeeps DEF JobFits

(* An object that cannot be removed leaves its row where it is.            *)
LEMMA RemoveFailsKeeps ==
  ASSUME MediaInv, NEW w \in Goroutine, RemoveBlobFails(w)
  PROVE  MediaInv'
<1>1. PICK m, j : m = Current(w).media /\ j = [work[w] EXCEPT !.left = WithoutKey(w)]
  OBVIOUS
<1>2. /\ work[w].op = "sweep" /\ Current(w).keys # {} /\ work' = [work EXCEPT ![w] = j]
      /\ spilled' = spilled \cup {m}
      /\ UNCHANGED <<req, rows, objects, mail, inbox, told, given, crowded, torn>>
  BY <1>1 DEF RemoveBlobFails, Sweeping
<1>3. MediaTables /\ SweepFits(w) /\ Born(m)
  BY <1>1, <1>2, InSweep DEF MediaInv
<1>4. MediaTables' /\ work'[w] = j /\ \A g \in Goroutine : g # w => work'[g] = work[g]
  BY <1>2, <1>3, TablesFollow DEF MediaTables
<1>5. work'[w].op = "sweep" /\ Current(w)'.media = m
  BY <1>1, <1>2, <1>3, <1>4, KeyIsTaken DEF KeyTaken
<1>6. Handles(w)
  BY <1>1, <1>2, <1>4, <1>5 DEF Handles, In
<1>7. \A n : Gentle(n)
  BY <1>6, HandlesGently
<1>8. JobFits(w)'
  BY <1>1, <1>2, <1>3, <1>4, <1>7, KeyTakenFits DEF KeyTaken
<1> QED
  BY <1>4, <1>6, <1>8, WorkerKeeps

(* So does a transaction that fails.                                       *)
LEMMA DeleteFailsKeeps ==
  ASSUME MediaInv, NEW w \in Goroutine, DeleteFails(w)
  PROVE  MediaInv'
<1>1. PICK j : j = IF Rest(w, {}) = {} THEN Idle ELSE [work[w] EXCEPT !.left = Rest(w, {})]
  OBVIOUS
<1>2. /\ work[w].op = "sweep" /\ work' = [work EXCEPT ![w] = j]
      /\ torn' = torn \cup {Current(w).media}
      /\ UNCHANGED <<req, rows, objects, mail, inbox, told, given, crowded, spilled>>
  BY <1>1 DEF DeleteFails, Sweeping
<1>3. MediaTables /\ SweepFits(w) /\ Current(w).media \in Request
  BY <1>2, InSweep DEF MediaInv
<1>4. MediaTables' /\ work'[w] = j /\ \A g \in Goroutine : g # w => work'[g] = work[g]
  BY <1>2, <1>3, TablesFollow DEF MediaTables
<1>5. Handles(w)
  BY <1>2, <1>4 DEF Handles, In
<1>6. JobFits(w)'
  BY <1>1, <1>3, <1>4, <1>5, HandlesGently, CurrentIsPassed DEF Passed
<1> QED
  BY <1>4, <1>5, <1>6, WorkerKeeps

(* A worker dies: its message comes again, its sweep is forgotten.         *)
LEMMA BreakKeeps ==
  ASSUME MediaInv, NEW w \in Goroutine, Break(w)
  PROVE  MediaInv'
<1>1. CASE work[w].op = "process"
  BY <1>1, HandleFailsKeeps DEF Break
<1>2. CASE work[w].op # "process"
  <2>1. /\ work[w] # Idle /\ work' = [work EXCEPT ![w] = Idle]
        /\ torn' = torn \cup {Current(w).media}
        /\ UNCHANGED <<req, rows, objects, mail, inbox, told, given, crowded, spilled>>
    BY <1>2 DEF Break
  <2>2. work[w].op = "sweep"
    BY <1>2, <2>1, JobIs DEF MediaInv
  <2>3. MediaTables /\ Current(w).media \in Request
    BY <2>2, InSweep DEF MediaInv
  <2>4. MediaTables' /\ work'[w] = Idle /\ \A g \in Goroutine : g # w => work'[g] = work[g]
    BY <2>1, <2>3, TablesFollow DEF MediaTables
  <2>5. Handles(w)
    BY <2>1, <2>2, <2>4 DEF Handles, In
  <2> QED
    BY <2>4, <2>5, WorkerKeeps DEF JobFits
<1> QED
  BY <1>1, <1>2

(***************************************************************************)
(* The steps that put objects into the bucket or remove them.              *)
(***************************************************************************)

(* A processor puts an object without metadata.                            *)
PutsClean(w, j, k) ==
  /\ work' = [work EXCEPT ![w] = j] /\ objects' = Put(objects, k, "clean")
  /\ work[w].op = "process" /\ work[w].step \in {"clean", "previews"}
  /\ {"op", "step", "media", "side", "todo"} \subseteq DOMAIN j
  /\ j.op = "process" /\ j.step = "previews" /\ j.media = work[w].media /\ j.side = work[w].side
  /\ UNCHANGED <<req, rows, mail, inbox, told, given, crowded, torn, spilled>>

(* An object that is put is gentle to every medium.                        *)
LEMMA PutsGently ==
  ASSUME MediaInv, NEW w \in Goroutine, NEW j, NEW k, k[1] = work[w].media, PutsClean(w, j, k)
  PROVE  /\ MediaTables' /\ work'[w] = j /\ \A g \in Goroutine : g # w => work'[g] = work[g]
         /\ \A m : Gentle(m)
<1>1. MediaTables
  BY DEF MediaInv
<1>2. MediaTables' /\ work'[w] = j /\ \A g \in Goroutine : g # w => work'[g] = work[g]
  BY <1>1, TablesFollow DEF PutsClean, MediaTables
<1>3. UNCHANGED <<req, rows, torn, spilled>>
  BY DEF PutsClean
<1>4. In(w, "process", "previews")' /\ work'[w].media = work[w].media
  BY <1>2 DEF PutsClean, In
<1>5. ASSUME NEW m PROVE Gentle(m)
  <2>1. Born(m) <=> Born(m)'
    BY <1>3 DEF Born
  <2>2. Previewing(m) => m \in spilled' \/ Previewing(m)'
    BY <1>2, <1>4, PreviewingStays
  <2>3. Calm(m)' => Calm(m)
    <3>1. Cur(m) => Cur(m)'
      BY <1>2, CurStays DEF PutsClean
    <3> QED
      BY <1>3, <3>1 DEF Calm
  <2>4. \A o \in DOMAIN objects : o \in DOMAIN objects' /\ (objects[o] = "clean" => objects'[o] = "clean")
    BY DEF PutsClean, Put
  <2>5. ASSUME NEW o \in DOMAIN objects' \ DOMAIN objects, o[1] = m PROVE Previewing(m)'
    <3>1. o = k
      BY <2>5 DEF PutsClean, Put
    <3> QED
      BY <1>4, <2>5, <3>1 DEF Previewing
  <2> QED
    BY <1>3, <2>1, <2>2, <2>3, <2>4, <2>5 DEF Gentle
<1> QED
  BY <1>2, <1>5

(* An object put by the worker that makes it has its reason to be there.   *)
LEMMA PutsKeep ==
  ASSUME MediaInv, NEW w \in Goroutine, NEW j, NEW s \in {0} \cup Previews(work[w].side),
         NEW k, k = <<work[w].media, s>>, PutsClean(w, j, k), j.todo \subseteq Previews(j.side),
         \A m : Calm(m)' /\ m = j.media => Made(m, Previews(j.side) \ j.todo)'
  PROVE  MediaInv'
<1>0. k[1] = work[w].media /\ k[2] = s
  OBVIOUS
<1>1. /\ MediaTables' /\ work'[w] = j /\ \A g \in Goroutine : g # w => work'[g] = work[g]
      /\ \A m : Gentle(m)
  BY <1>0, PutsGently
<1>2. ProcessFits(w) /\ Born(work[w].media) /\ work[w].media \in Request
  BY InProcess DEF PutsClean
<1>3. UNCHANGED <<req, rows, torn, spilled>>
  BY DEF PutsClean
<1>4. PICK m : m = work[w].media
  OBVIOUS
<1>5. /\ m \in DOMAIN rows => rows[m].side = work[w].side
      /\ m \in DOMAIN rows \cup spilled
  BY <1>2, <1>4 DEF ProcessFits, PutsClean, Making
<1>6. JobFits(w)'
  <2>1. Born(m)'
    BY <1>1, <1>2, <1>4 DEF Gentle
  <2>2. Calm(m)' => Made(m, Previews(j.side) \ j.todo)'
    BY <1>4 DEF PutsClean
  <2>3. /\ {"op", "step", "media", "side", "todo"} \subseteq DOMAIN j
        /\ j.op = "process" /\ j.step = "previews" /\ j.media = m /\ j.side = work[w].side
    BY <1>4 DEF PutsClean
  <2>4. ProcessFits(w)'
    BY <1>1, <1>3, <1>5, <2>1, <2>2, <2>3 DEF ProcessFits, Making
  <2> QED
    BY <2>4 DEF JobFits
<1>7. ASSUME NEW o \in DOMAIN objects' PROVE ObjectFits(o)'
  <2>1. CASE o = k
    <3>1. objects'[k] = "clean"
      BY DEF PutsClean, Put
    <3>2. k \in MediaKeys
      <4>1. s \in {0} \cup PreviewSizes
        BY PreviewsAreSizes
      <4> QED
        BY <1>2, <4>1 DEF MediaKeys
    <3>3. Previewing(m)'
      BY <1>1, <1>4 DEF Previewing, In, PutsClean
    <3>4. m \in DOMAIN rows => s \in {0} \cup Previews(rows[m].side)
      BY <1>5
    <3> QED
      BY <1>0, <1>3, <1>4, <1>5, <2>1, <3>1, <3>2, <3>3, <3>4 DEF ObjectFits, MediaKeys
  <2>2. CASE o # k
    <3>1. o \in DOMAIN objects /\ objects'[o] = objects[o]
      BY <2>2 DEF PutsClean, Put
    <3>2. ObjectFits(o)
      BY <3>1 DEF MediaInv
    <3> QED
      BY <1>1, <1>3, <3>1, <3>2, ObjectStays DEF Holding
  <2> QED
    BY <2>1, <2>2
<1>8. \A o \in DOMAIN objects : o \in DOMAIN objects'
  BY DEF PutsClean, Put
<1>9. UNCHANGED <<req, rows, told, crowded>> /\ torn \subseteq torn'
  BY DEF PutsClean
<1> QED
  BY <1>1, <1>6, <1>7, <1>8, <1>9, WorkKeeps

(* The original is replaced by the cleaned one.                            *)
LEMMA CleanKeeps ==
  ASSUME MediaInv, NEW w \in Goroutine, CleanOriginal(w)
  PROVE  MediaInv'
<1>1. PICK j, k, side : /\ side = work[w].side /\ k = <<work[w].media, 0>>
                        /\ j = With(work[w], [step |-> "previews", todo |-> Previews(side)])
  OBVIOUS
<1>2. /\ objects' = Put(objects, k, "clean") /\ work[w].op = "process" /\ work[w].step = "clean"
      /\ UNCHANGED <<req, rows, mail, inbox, told, given, crowded, torn, spilled>>
  BY <1>1 DEF CleanOriginal, In, mediaHistory, inputs
<1>3. MediaTables /\ ProcessFits(w)
  BY <1>2, InProcess DEF MediaInv
<1>4. work' = [work EXCEPT ![w] = j]
  BY <1>1, <1>3 DEF CleanOriginal, MediaTables
<1>5. {"op", "step", "media", "side"} \subseteq DOMAIN work[w] /\ work[w].op = "process"
  BY <1>2, <1>3 DEF ProcessFits, Making
<1>6. /\ {"op", "step", "media", "side", "todo"} \subseteq DOMAIN j /\ j.op = "process" /\ j.step = "previews"
      /\ j.media = work[w].media /\ j.side = work[w].side /\ j.todo = Previews(side)
  BY <1>1, <1>5 DEF With
<1>7. PutsClean(w, j, k)
  BY <1>2, <1>4, <1>6 DEF PutsClean
<1>8. ASSUME NEW m, m = j.media PROVE Made(m, Previews(j.side) \ j.todo)'
  <2>1. Previews(j.side) \ j.todo = {}
    BY <1>1, <1>6
  <2>2. k \in DOMAIN objects' /\ objects'[k] = "clean" /\ k = <<m, 0>>
    BY <1>1, <1>2, <1>6, <1>8 DEF Put
  <2> QED
    BY <2>1, <2>2 DEF Made
<1>9. j.todo \subseteq Previews(j.side)
  BY <1>1, <1>6
<1> QED
  BY <1>1, <1>7, <1>8, <1>9, PutsKeep

(* A preview is put.                                                       *)
LEMMA PreviewKeeps ==
  ASSUME MediaInv, NEW w \in Goroutine, PutPreview(w)
  PROVE  MediaInv'
<1>1. PICK s, T : T = work[w].todo /\ s = CHOOSE r \in T : \A t \in T : r <= t
  OBVIOUS
<1>2. PICK j, k : j = [work[w] EXCEPT !.todo = @ \ {s}] /\ k = <<work[w].media, s>>
  OBVIOUS
<1>3. /\ objects' = Put(objects, k, "clean") /\ work' = [work EXCEPT ![w] = j]
      /\ work[w].op = "process" /\ work[w].step = "previews" /\ T # {}
      /\ UNCHANGED <<req, rows, mail, inbox, told, given, crowded, torn, spilled>>
  BY <1>1, <1>2 DEF PutPreview, In, mediaHistory, inputs
<1>4. MediaTables /\ ProcessFits(w)
  BY <1>3, InProcess DEF MediaInv
<1>5. {"op", "step", "media", "side", "todo"} \subseteq DOMAIN work[w] /\ T \subseteq Previews(work[w].side)
  BY <1>1, <1>3, <1>4 DEF ProcessFits, Making
<1>6. s \in T
  <2>1. T \subseteq Nat
    BY <1>5, PreviewsAreSizes, MediaAssumption
  <2> QED
    BY <1>1, <1>3, <2>1, LeastIs
<1>7. /\ {"op", "step", "media", "side", "todo"} \subseteq DOMAIN j /\ j.op = "process" /\ j.step = "previews"
      /\ j.media = work[w].media /\ j.side = work[w].side /\ j.todo = T \ {s}
  BY <1>1, <1>2, <1>3, <1>5
<1>8. PutsClean(w, j, k)
  BY <1>3, <1>7 DEF PutsClean
<1>9. ASSUME NEW m, Calm(m)', m = j.media PROVE Made(m, Previews(j.side) \ j.todo)'
  <2>1. Gentle(m) /\ Born(m)
    <3>1. k[1] = work[w].media
      BY <1>2
    <3> QED
      BY <1>3, <1>7, <1>8, <1>9, <3>1, PutsGently, InProcess
  <2>2. Calm(m)
    BY <1>9, <2>1 DEF Gentle
  <2>3. Made(m, Previews(j.side) \ T)
    BY <1>1, <1>3, <1>4, <1>7, <1>9, <2>2 DEF ProcessFits
  <2>4. k \in DOMAIN objects' /\ k = <<m, s>>
    BY <1>2, <1>3, <1>7, <1>9 DEF Put
  <2>5. \A o \in DOMAIN objects : o \in DOMAIN objects' /\ (objects[o] = "clean" => objects'[o] = "clean")
    BY <1>3 DEF Put
  <2>6. Previews(j.side) \ j.todo \subseteq (Previews(j.side) \ T) \cup {s}
    BY <1>7
  <2> QED
    BY <2>3, <2>4, <2>5, <2>6 DEF Made
<1>10. s \in Previews(work[w].side) /\ j.todo \subseteq Previews(j.side)
  BY <1>5, <1>6, <1>7
<1> QED
  BY <1>2, <1>8, <1>9, <1>10, PutsKeep

(* A sweep removes an object.                                              *)
LEMMA RemoveKeeps ==
  ASSUME MediaInv, NEW w \in Goroutine, RemoveBlob(w)
  PROVE  MediaInv'
<1>1. PICK m, k, j : m = Current(w).media /\ k = NextKey(w) /\ j = [work[w] EXCEPT !.left = WithoutKey(w)]
  OBVIOUS
<1>2. /\ work[w].op = "sweep" /\ Current(w).keys # {} /\ work' = [work EXCEPT ![w] = j]
      /\ objects' = Without(objects, {k})
      /\ UNCHANGED <<req, rows, mail, inbox, told, given, crowded, torn, spilled>>
  BY <1>1 DEF RemoveBlob, Sweeping, mediaHistory, inputs
<1>3. MediaTables /\ SweepFits(w) /\ EntryFits(Current(w)) /\ Born(m)
  BY <1>1, <1>2, InSweep DEF MediaInv
<1>4. MediaTables' /\ work'[w] = j /\ \A g \in Goroutine : g # w => work'[g] = work[g]
  BY <1>2, <1>3, TablesFollow DEF MediaTables
<1>5. work'[w].op = "sweep" /\ Current(w)'.media = m
  BY <1>1, <1>2, <1>3, <1>4, KeyIsTaken DEF KeyTaken
<1>6. k[1] = m
  <2>1. k \in Current(w).shown
    BY <1>1, <1>2, <1>3, NextKeyIs DEF EntryFits
  <2> QED
    BY <1>1, <1>3, <2>1 DEF EntryFits
<1>7. DOMAIN objects' = DOMAIN objects \ {k} /\ \A o \in DOMAIN objects' : objects'[o] = objects[o]
  BY <1>2 DEF Without
<1>8. ASSUME NEW n PROVE Gentle(n)
  <2>1. Born(n) <=> Born(n)'
    BY <1>2 DEF Born
  <2>2. Previewing(n) => n \in spilled' \/ Previewing(n)'
    <3>1. ~In(w, "process", "previews")
      BY <1>2 DEF In
    <3> QED
      BY <1>4, <3>1, PreviewingStays
  <2>3. Cur(n) => Cur(n)'
    BY <1>1, <1>4, <1>5, CurStays
  <2>4. Calm(n)' => Calm(n) /\ n # m
    BY <1>2, <1>5, <2>3 DEF Calm, Cur
  <2>5. \A o \in DOMAIN objects : o[1] = n /\ Calm(n)' =>
          o \in DOMAIN objects' /\ (objects[o] = "clean" => objects'[o] = "clean")
    BY <1>6, <1>7, <2>4
  <2> QED
    BY <1>2, <1>7, <2>1, <2>2, <2>4, <2>5 DEF Gentle
<1>9. JobFits(w)'
  BY <1>1, <1>2, <1>3, <1>4, <1>7, <1>8, KeyTakenFits DEF KeyTaken
<1>10. ASSUME NEW o \in DOMAIN objects' PROVE ObjectFits(o)'
  <2>1. o \in DOMAIN objects /\ ObjectFits(o) /\ objects'[o] = objects[o]
    BY <1>7 DEF MediaInv
  <2> QED
    BY <1>2, <1>8, <2>1, ObjectStays DEF Holding
<1>11. ASSUME NEW q \in Request, req[q].step = "insert", req[q].op = "upload", <<q, 0>> \in DOMAIN objects
       PROVE  <<q, 0>> \in DOMAIN objects'
  <2>1. ~Born(q)
    BY <1>11 DEF Born, Done
  <2>2. <<q, 0>> # k
    BY <1>3, <1>6, <2>1
  <2> QED
    BY <1>7, <1>11, <2>2
<1> QED
  BY <1>2, <1>4, <1>8, <1>9, <1>10, <1>11, WorkKeeps

(***************************************************************************)
(* The steps that change the rows.                                         *)
(***************************************************************************)

(* An event that has not been told yet is told once.                       *)
LEMMA TellsOnce ==
  ASSUME NEW e, e \notin DOMAIN told, Tell(e)
  PROVE  /\ DOMAIN told' = DOMAIN told \cup {e} /\ told'[e] = 1
         /\ \A x \in DOMAIN told : told'[x] = told[x]
  BY DEF Tell, Put

(* What the limit of an ad needs of a step that adds nothing.              *)
LEMMA LimitStays ==
  ASSUME NEW a, LimitFits(a), OfAd(a)' \subseteq OfAd(a), IsFiniteSet(DOMAIN rows),
         Counted(a)' \subseteq Counted(a), crowded \subseteq crowded', MaxPerAd \in Nat
  PROVE  LimitFits(a)'
<1> SUFFICES ASSUME a \notin crowded, a # None
             PROVE  /\ Cardinality(OfAd(a))' \in Nat /\ Cardinality(OfAd(a))' <= MaxPerAd
                    /\ \A p, q \in Counted(a)' : p = q
                    /\ Counted(a)' # {} => Cardinality(OfAd(a))' < MaxPerAd
  BY DEF LimitFits
<1>1. PICK S, T : S = OfAd(a) /\ T = OfAd(a)'
  OBVIOUS
<1>2. IsFiniteSet(S) /\ T \subseteq S
  <2>1. OfAd(a) \subseteq DOMAIN rows
    BY DEF OfAd
  <2> QED
    BY <1>1, <2>1, FS_Subset
<1>3. Cardinality(T) \in Nat /\ Cardinality(S) \in Nat /\ Cardinality(T) <= Cardinality(S)
  BY <1>2, FS_Subset, FS_CardinalityType
<1>4. Cardinality(S) <= MaxPerAd /\ (\A p, q \in Counted(a) : p = q) /\ (Counted(a) # {} => Cardinality(S) < MaxPerAd)
  BY <1>1 DEF LimitFits
<1> QED
  BY <1>1, <1>3, <1>4

(* A row grows old.                                                        *)
LEMMA GrowKeeps ==
  ASSUME MediaInv, NEW m \in Request, GrowOld(m)
  PROVE  MediaInv'
<1>1. /\ m \in DOMAIN rows /\ rows' = [rows EXCEPT ![m].old = TRUE]
      /\ UNCHANGED <<req, objects, mail, inbox, work, told, given, crowded, torn, spilled>>
  BY DEF GrowOld, mediaHistory, inputs
<1>2. \A n \in DOMAIN rows : RowFits(n) /\ Whole(n) /\ Born(n)
  BY DEF MediaInv, RowFits
<1>3. DOMAIN rows' = DOMAIN rows /\ \A n \in DOMAIN rows : n # m => rows'[n] = rows[n]
  BY <1>1
<1>4. rows'[m] = [ad |-> rows[m].ad, side |-> rows[m].side, status |-> rows[m].status,
                  previews |-> rows[m].previews, old |-> TRUE]
  <2>1. PICK r : r = rows[m]
    OBVIOUS
  <2>2. r = [ad |-> r.ad, side |-> r.side, status |-> r.status, previews |-> r.previews, old |-> r.old]
    BY <1>1, <1>2, <2>1 DEF RowFits
  <2>3. rows'[m] = [r EXCEPT !.old = TRUE]
    BY <1>1, <2>1
  <2>4. PICK a, s, t, p, o : r = [ad |-> a, side |-> s, status |-> t, previews |-> p, old |-> o]
    BY <2>2
  <2>5. PICK x : x = [r EXCEPT !.old = TRUE]
    OBVIOUS
  <2>6. x = [ad |-> a, side |-> s, status |-> t, previews |-> p, old |-> TRUE]
    BY <2>4, <2>5
  <2>7. r.ad = a /\ r.side = s /\ r.status = t /\ r.previews = p
    BY <2>4
  <2> QED
    BY <2>1, <2>3, <2>5, <2>6, <2>7
<1>5. \A n \in DOMAIN rows : /\ rows'[n].ad = rows[n].ad /\ rows'[n].side = rows[n].side
                             /\ rows'[n].status = rows[n].status /\ rows'[n].previews = rows[n].previews
  BY <1>3, <1>4
<1>6. ASSUME NEW n PROVE Gentle(n)
  <2>1. (Born(n) <=> Born(n)') /\ (Previewing(n) => Previewing(n)')
    BY <1>1 DEF Born, Previewing, In
  <2>2. Calm(n)' => Calm(n)
    BY <1>1, <1>3 DEF Calm, Cur, Current
  <2> QED
    BY <1>1, <1>3, <1>5, <2>1, <2>2 DEF Gentle
<1>7. MediaTables'
  BY <1>1, <1>3 DEF MediaInv, MediaTables, Born
<1>8. \A q \in Request : UploadRead(q)'
  BY <1>1, <1>3 DEF MediaInv, UploadRead
<1>9. ASSUME NEW n \in DOMAIN rows' PROVE RowFits(n)' /\ Whole(n)'
  <2>1. n \in DOMAIN rows /\ RowFits(n) /\ Whole(n) /\ Born(n)
    BY <1>2, <1>3
  <2>2. Whole(n)'
    BY <1>3, <1>5, <1>6, <2>1, WholeStays
  <2>3. CASE n = m
    <3>1. Born(m)'
      BY <1>1, <1>2 DEF Born
    <3>2. \/ rows[m].status = "uploaded" /\ rows[m].previews = {}
          \/ rows[m].status = "ready" /\ rows[m].previews = Previews(rows[m].side)
      <4>1. RowFits(m)
        BY <1>1, <1>2
      <4> QED
        BY <4>1 DEF RowFits
    <3>3. RowFits(m)'
      BY <1>4, <3>1, <3>2 DEF RowFits, Previews, Fit
    <3> QED
      BY <2>2, <2>3, <3>3
  <2>4. CASE n # m
    BY <1>3, <1>6, <2>1, <2>2, <2>4, RowStays
  <2> QED
    BY <2>3, <2>4
<1>10. ASSUME NEW k \in DOMAIN objects' PROVE ObjectFits(k)'
  <2>1. k \in DOMAIN objects /\ ObjectFits(k) /\ objects'[k] = objects[k]
    BY <1>1 DEF MediaInv
  <2> QED
    BY <1>1, <1>3, <1>5, <1>6, <2>1, ObjectStays DEF Holding
<1>11. \A g \in Goroutine : JobFits(g)'
  BY <1>1, <1>6, JobStays DEF MediaInv
<1>12. ASSUME NEW e \in DOMAIN told' PROVE ToldFits(e)'
  <2>1. ToldFits(e)
    BY <1>1 DEF MediaInv
  <2> QED
    BY <1>1, <1>3, <1>5, <1>6, <2>1, ToldStays
<1>13. ASSUME NEW a PROVE LimitFits(a)'
  <2>1. LimitFits(a) /\ IsFiniteSet(DOMAIN rows)
    BY DEF MediaInv, MediaTables
  <2>2. OfAd(a)' \subseteq OfAd(a)
    BY <1>3, <1>5 DEF OfAd
  <2>3. Counted(a)' \subseteq Counted(a)
    BY <1>1 DEF Counted
  <2> QED
    BY <1>1, <2>1, <2>2, <2>3, LimitStays, MediaAssumption
<1> QED
  BY <1>7, <1>8, <1>9, <1>10, <1>11, <1>12, <1>13 DEF MediaInv

(* A sweep deletes the row whose objects it removed: what was put in       *)
(* between is spilled.                                                     *)
LEMMA DeleteKeeps ==
  ASSUME MediaInv, NEW w \in Goroutine, DeleteWithEvent(w)
  PROVE  MediaInv'
<1>1. PICK m, c, j : /\ c = Current(w) /\ m = c.media
                     /\ j = IF Rest(w, {}) = {} THEN Idle ELSE [work[w] EXCEPT !.left = Rest(w, {})]
  OBVIOUS
<1>2. /\ work[w].op = "sweep" /\ c.keys = {} /\ work' = [work EXCEPT ![w] = j]
      /\ UNCHANGED <<req, objects, mail, inbox, given, crowded, torn>>
  BY <1>1 DEF DeleteWithEvent, Sweeping, inputs
<1>3. MediaTables /\ SweepFits(w) /\ EntryFits(c) /\ c \in work[w].left /\ Born(m)
  BY <1>1, <1>2, InSweep DEF MediaInv
<1>4. \/ /\ m \in DOMAIN rows /\ rows' = Without(rows, {m}) /\ Tell(<<"deleted", m>>)
         /\ spilled' = IF InHand(m) # {} \/ Shown(m) # c.shown THEN spilled \cup {m} ELSE spilled
      \/ m \notin DOMAIN rows /\ UNCHANGED <<rows, told, spilled>>
  BY <1>1 DEF DeleteWithEvent
<1>5. DOMAIN rows' = DOMAIN rows \ {m} /\ \A n \in DOMAIN rows' : rows'[n] = rows[n]
  BY <1>4 DEF Without
<1>6. /\ work' = [g \in Goroutine |-> work'[g]] /\ work'[w] = j
      /\ \A g \in Goroutine : g # w => work'[g] = work[g]
  BY <1>2, <1>3, WorksOn DEF MediaTables
<1>7. spilled \subseteq spilled' /\ \A n \in spilled' : n \in spilled \/ n = m
  BY <1>4
<1>8. \A n : Born(n)' <=> Born(n)
  BY <1>2 DEF Born
<1>9. ASSUME NEW n PROVE Gentle(n)
  <2>1. Previewing(n) => n \in spilled' \/ Previewing(n)'
    <3>1. ~In(w, "process", "previews")
      BY <1>2 DEF In
    <3> QED
      BY <1>6, <3>1, PreviewingStays
  <2>2. Calm(n)' => Calm(n)
    <3> SUFFICES ASSUME Calm(n)', Cur(n) PROVE FALSE
      BY <1>2, <1>5 DEF Calm
    <3>1. n # m
      BY <1>5 DEF Calm
    <3>2. Cur(n)'
      BY <1>1, <1>6, <3>1, CurStays
    <3> QED
      BY <3>2 DEF Calm
  <2>3. n \in DOMAIN rows => n \in DOMAIN rows' \cup spilled' \/ InHand(n) = {}
    BY <1>4, <1>5
  <2>4. Born(n) => Born(n)'
    BY <1>8
  <2> QED
    BY <1>2, <1>5, <1>7, <2>1, <2>2, <2>3, <2>4 DEF Gentle
<1>10. MediaTables'
  <2>1. IsFiniteSet(DOMAIN rows') /\ DOMAIN rows' \subseteq Request
    BY <1>3, <1>5, FS_Subset DEF MediaTables
  <2>2. \A n \in spilled' : Born(n)'
    BY <1>3, <1>7, <1>8 DEF MediaTables
  <2>3. \A x \in mail' : Born(x.media)'
    BY <1>2, <1>3, <1>8 DEF MediaTables
  <2> QED
    BY <1>2, <1>3, <1>6, <2>1, <2>2, <2>3 DEF MediaTables
<1>11. \A q \in Request : UploadRead(q)'
  BY <1>2, <1>5 DEF MediaInv, UploadRead
<1>12. ASSUME NEW n \in DOMAIN rows' PROVE RowFits(n)' /\ Whole(n)'
  <2>1. n \in DOMAIN rows /\ RowFits(n) /\ Whole(n) /\ Born(n)
    BY <1>5 DEF MediaInv, RowFits
  <2>2. RowFits(n)'
    BY <1>5, <1>9, <2>1, RowStays
  <2>3. Whole(n)'
    BY <1>5, <1>9, <2>1, WholeStays
  <2> QED
    BY <2>2, <2>3
<1>13. ASSUME NEW k \in DOMAIN objects' PROVE ObjectFits(k)'
  <2>1. k \in DOMAIN objects /\ ObjectFits(k) /\ objects'[k] = objects[k]
    BY <1>2 DEF MediaInv
  <2>2. CASE k[1] = m /\ m \in DOMAIN rows
    <3>1. m \in spilled'
      <4> SUFFICES ASSUME InHand(m) = {}, Shown(m) = c.shown, m \notin spilled PROVE FALSE
        BY <1>4, <2>2
      <4>1. ~Previewing(m)
        BY DEF Previewing, In, InHand
      <4>2. k \in Shown(m)
        BY <2>1, <2>2, <4>1 DEF ObjectFits
      <4> QED
        BY <1>1, <1>2, <1>3, <2>1, <4>1, <4>2 DEF EntryFits
    <3> QED
      BY <1>5, <2>1, <2>2, <3>1 DEF ObjectFits, MediaKeys
  <2>3. CASE ~(k[1] = m /\ m \in DOMAIN rows)
    <3>1. k[1] \in DOMAIN rows' <=> k[1] \in DOMAIN rows
      BY <1>5, <2>3
    <3> QED
      BY <1>2, <1>5, <1>9, <2>1, <3>1, ObjectStays DEF Holding
  <2> QED
    BY <2>2, <2>3
<1>14. ASSUME NEW g \in Goroutine PROVE JobFits(g)'
  <2>1. CASE g = w
    BY <1>1, <1>3, <1>6, <1>9, <2>1, CurrentIsPassed DEF Passed
  <2>2. CASE g # w
    BY <1>6, <1>9, <2>2, JobStays DEF MediaInv
  <2> QED
    BY <2>1, <2>2
<1>15. ASSUME NEW e \in DOMAIN told' PROVE ToldFits(e)'
  <2>1. CASE e \in DOMAIN told /\ told'[e] = told[e]
    <3>1. ToldFits(e)
      BY <2>1 DEF MediaInv
    <3> QED
      BY <1>5, <1>9, <2>1, <3>1, ToldStays
  <2>2. CASE ~(e \in DOMAIN told /\ told'[e] = told[e])
    <3>1. m \in DOMAIN rows /\ Tell(<<"deleted", m>>)
      BY <1>4, <2>2
    <3>2. <<"deleted", m>> \notin DOMAIN told
      BY <3>1 DEF MediaInv, ToldFits
    <3>3. e = <<"deleted", m>> /\ told'[e] = 1
      BY <2>2, <3>1, <3>2, TellsOnce
    <3> QED
      BY <1>3, <1>5, <1>8, <3>3 DEF ToldFits
  <2> QED
    BY <2>1, <2>2
<1>16. ASSUME NEW a PROVE LimitFits(a)'
  <2>1. LimitFits(a) /\ IsFiniteSet(DOMAIN rows)
    BY DEF MediaInv, MediaTables
  <2>2. OfAd(a)' \subseteq OfAd(a)
    BY <1>5 DEF OfAd
  <2>3. Counted(a)' \subseteq Counted(a)
    BY <1>2 DEF Counted
  <2> QED
    BY <1>2, <2>1, <2>2, <2>3, LimitStays, MediaAssumption
<1> QED
  BY <1>10, <1>11, <1>12, <1>13, <1>14, <1>15, <1>16 DEF MediaInv

(* A row becomes ready with the previews that were made, if it is still    *)
(* there.                                                                  *)
LEMMA MarkKeeps ==
  ASSUME MediaInv, NEW w \in Goroutine, MarkProcessedWithEvent(w)
  PROVE  MediaInv'
<1>1. PICK m, side : m = work[w].media /\ side = work[w].side
  OBVIOUS
<1>2. /\ work[w].op = "process" /\ work[w].step = "previews" /\ work[w].todo = {} /\ Go(w, "over")
      /\ inbox' = inbox \cup {m}
      /\ spilled' = IF m \in DOMAIN rows /\ ~Swept(m) THEN spilled ELSE spilled \cup {m}
      /\ UNCHANGED <<req, objects, mail, given, crowded, torn>>
  BY <1>1 DEF MarkProcessedWithEvent, In, inputs
<1>3. \/ /\ m \in DOMAIN rows /\ rows[m].status = "uploaded"
         /\ rows' = [rows EXCEPT ![m].status = "ready", ![m].previews = Previews(side)]
         /\ Tell(<<"processed", m>>)
      \/ ~(m \in DOMAIN rows /\ rows[m].status = "uploaded") /\ UNCHANGED <<rows, told>>
  BY <1>1 DEF MarkProcessedWithEvent
<1>4. MediaTables /\ ProcessFits(w) /\ Born(m) /\ m \in Request
  BY <1>1, <1>2, InProcess DEF MediaInv
<1>5. m \in DOMAIN rows => rows[m].side = side
  BY <1>1, <1>2, <1>4 DEF ProcessFits, Making
<1>6. PICK j : /\ work' = [work EXCEPT ![w] = j] /\ DOMAIN j = DOMAIN work[w] /\ j.step = "over"
               /\ \A x \in DOMAIN j : x # "step" => j[x] = work[w][x]
  BY <1>2, <1>4, GoIs DEF MediaTables, ProcessFits
<1>7. /\ work' = [g \in Goroutine |-> work'[g]] /\ work'[w] = j
      /\ \A g \in Goroutine : g # w => work'[g] = work[g]
  BY <1>4, <1>6, WorksOn DEF MediaTables
<1>8. {"op", "step", "media"} \subseteq DOMAIN j /\ j.op = "process" /\ j.media = m
  BY <1>1, <1>4, <1>6 DEF ProcessFits
<1>9. \A n : Born(n)' <=> Born(n)
  BY <1>2 DEF Born
<1>10. \A n \in DOMAIN rows : RowFits(n) /\ Whole(n) /\ Born(n)
  BY DEF MediaInv, RowFits
<1>11. DOMAIN rows' = DOMAIN rows /\ \A n \in DOMAIN rows : n # m => rows'[n] = rows[n]
  BY <1>3
<1>12. ASSUME m \in DOMAIN rows, rows[m].status = "uploaded"
       PROVE  rows'[m] = [ad |-> rows[m].ad, side |-> side, status |-> "ready",
                         previews |-> Previews(side), old |-> rows[m].old]
  <2>1. PICK r, P : r = rows[m] /\ P = Previews(side)
    OBVIOUS
  <2>2. RowFits(m)
    BY <1>10, <1>12
  <2>3. r = [ad |-> r.ad, side |-> side, status |-> r.status, previews |-> r.previews, old |-> r.old]
    BY <1>5, <1>12, <2>1, <2>2 DEF RowFits
  <2>4. PICK a, t, p, o : r = [ad |-> a, side |-> side, status |-> t, previews |-> p, old |-> o]
    BY <2>3
  <2>5. PICK x : x = [[r EXCEPT !.status = "ready"] EXCEPT !.previews = P]
    OBVIOUS
  <2>6. PICK y : y = [r EXCEPT !.status = "ready"]
    OBVIOUS
  <2>7. y = [ad |-> a, side |-> side, status |-> "ready", previews |-> p, old |-> o]
    BY <2>4, <2>6
  <2>8. x = [ad |-> a, side |-> side, status |-> "ready", previews |-> P, old |-> o]
    <3>1. x = [y EXCEPT !.previews = P]
      BY <2>5, <2>6
    <3> QED
      BY <2>7, <3>1
  <2>9. rows'[m] = x
    BY <1>3, <1>12, <2>1, <2>5
  <2>10. r.ad = a /\ r.old = o
    BY <2>4
  <2> QED
    BY <2>1, <2>8, <2>9, <2>10
<1>13. \A n \in DOMAIN rows : rows'[n].ad = rows[n].ad /\ rows'[n].side = rows[n].side
  BY <1>3, <1>5, <1>11, <1>12
<1>14. ASSUME NEW n \in DOMAIN rows
       PROVE  /\ rows[n].previews \subseteq rows'[n].previews
              /\ rows'[n].status = "uploaded" => rows[n].status = "uploaded"
  <2>1. ASSUME m \in DOMAIN rows, rows[m].status = "uploaded"
        PROVE  rows[m].previews = {} /\ rows'[m].status = "ready"
    BY <1>10, <1>12, <2>1 DEF RowFits
  <2> QED
    BY <1>3, <1>11, <2>1
<1>15. ASSUME m \in DOMAIN rows
       PROVE  rows'[m].status = "ready" /\ rows'[m].previews = Previews(side)
  <2>1. RowFits(m) /\ rows[m].side = side
    BY <1>5, <1>10, <1>15
  <2>2. CASE rows[m].status = "uploaded"
    BY <1>12, <1>15, <2>2
  <2>3. CASE rows[m].status # "uploaded"
    <3>1. rows'[m] = rows[m]
      BY <1>3, <2>3
    <3> QED
      BY <2>1, <2>3, <3>1 DEF RowFits
  <2> QED
    BY <2>2, <2>3
<1>16. m \in spilled' \/ Settled(m)
  <2> SUFFICES ASSUME m \notin spilled' PROVE Settled(m)
    OBVIOUS
  <2>1. m \in DOMAIN rows /\ ~Swept(m)
    BY <1>2
  <2>2. ASSUME NEW k \in DOMAIN objects, k[1] = m PROVE k \in Shown(m)'
    <3>1. ObjectFits(k)
      BY DEF MediaInv
    <3>2. k = <<m, k[2]>> /\ k[2] \in {0} \cup Previews(rows[m].side)
      BY <2>1, <2>2, <3>1 DEF ObjectFits, MediaKeys
    <3>3. rows'[m].previews = Previews(side)
      BY <1>15, <2>1
    <3>4. k[2] \in {0} \cup Previews(side)
      BY <1>5, <2>1, <3>2
    <3> QED
      BY <3>2, <3>3, <3>4 DEF Shown
  <2> QED
    BY <2>1, <2>2 DEF Settled
<1>17. ASSUME NEW n PROVE Gentle(n)
  <2>1. Previewing(n) => n \in spilled' \/ Previewing(n)' \/ Settled(n)
    <3>1. CASE n = m
      BY <1>16, <3>1
    <3>2. CASE n # m
      <4> SUFFICES ASSUME Previewing(n) PROVE Previewing(n)'
        OBVIOUS
      <4>1. PICK g \in Goroutine : In(g, "process", "previews") /\ work[g].media = n
        BY DEF Previewing
      <4>2. work'[g] = work[g]
        BY <1>1, <1>7, <3>2, <4>1
      <4> QED
        BY <4>1, <4>2 DEF Previewing, In
    <3> QED
      BY <3>1, <3>2
  <2>2. Cur(n) => Cur(n)'
    BY <1>2, <1>7, CurStays
  <2>3. Calm(n)' => Calm(n)
    BY <1>2, <1>11, <2>2 DEF Calm
  <2>4. (Born(n) => Born(n)') /\ (n \in spilled => n \in spilled')
    BY <1>2, <1>9
  <2> QED
    BY <1>2, <1>11, <1>13, <2>1, <2>3, <2>4 DEF Gentle
<1>18. MediaTables'
  <2>1. \A n \in spilled' : Born(n)'
    BY <1>2, <1>4, <1>9 DEF MediaTables
  <2>2. \A x \in mail' : Born(x.media)'
    BY <1>2, <1>4, <1>9 DEF MediaTables
  <2> QED
    BY <1>2, <1>4, <1>7, <1>11, <2>1, <2>2 DEF MediaTables
<1>19. \A q \in Request : UploadRead(q)'
  BY <1>2, <1>11 DEF MediaInv, UploadRead
<1>20. ASSUME NEW n \in DOMAIN rows' PROVE RowFits(n)' /\ Whole(n)'
  <2>1. n \in DOMAIN rows /\ RowFits(n) /\ Whole(n) /\ Born(n)
    BY <1>10, <1>11
  <2>2. CASE rows'[n] = rows[n]
    BY <1>11, <1>17, <2>1, <2>2, RowStays, WholeStays
  <2>3. CASE rows'[n] # rows[n]
    <3>1. n = m /\ rows[m].status = "uploaded"
      BY <1>3, <1>11, <2>1, <2>3
    <3>2. PICK P : P = Previews(side)
      OBVIOUS
    <3>3. rows'[m] = [ad |-> rows[m].ad, side |-> side, status |-> "ready", previews |-> P, old |-> rows[m].old]
      BY <1>12, <2>1, <3>1, <3>2
    <3>4. RowFits(m)'
      <4>1. Born(m)' /\ rows[m].old \in BOOLEAN
        BY <1>9, <2>1, <3>1 DEF RowFits
      <4>2. Previews(rows'[m].side) = P
        BY <3>2, <3>3
      <4> QED
        BY <3>3, <4>1, <4>2 DEF RowFits, Previews, Fit
    <3>5. Whole(m)'
      <4> SUFFICES ASSUME Calm(m)' PROVE Made(m, P)'
        BY <3>2, <3>3 DEF Whole, Made, Previews, Fit
      <4>1. Calm(m)
        BY <1>17, <2>1, <3>1 DEF Gentle
      <4>2. Made(m, Previews(side) \ work[w].todo)
        BY <1>1, <1>2, <1>4, <4>1 DEF ProcessFits
      <4> QED
        BY <1>2, <3>2, <4>2 DEF Made
    <3> QED
      BY <3>1, <3>4, <3>5
  <2> QED
    BY <2>2, <2>3
<1>21. ASSUME NEW k \in DOMAIN objects' PROVE ObjectFits(k)'
  <2>1. k \in DOMAIN objects /\ ObjectFits(k) /\ objects'[k] = objects[k]
    BY <1>2 DEF MediaInv
  <2> QED
    <3>1. k[1] \in DOMAIN rows => /\ rows'[k[1]].side = rows[k[1]].side
                                 /\ rows[k[1]].previews \subseteq rows'[k[1]].previews
      BY <1>13, <1>14
    <3>2. Gentle(k[1])
      BY <1>17
    <3>3. Holding(k[1]) => Holding(k[1])'
      BY <1>2 DEF Holding
    <3> QED
      BY <1>11, <2>1, <3>1, <3>2, <3>3, ObjectStays
<1>22. ASSUME NEW g \in Goroutine PROVE JobFits(g)'
  <2>1. CASE g = w
    BY <1>1, <1>4, <1>6, <1>7, <1>8, <1>17, <2>1, ProcessGoes
  <2>2. CASE g # w
    BY <1>7, <1>17, <2>2, JobStays DEF MediaInv
  <2> QED
    BY <2>1, <2>2
<1>23. ASSUME NEW e \in DOMAIN told' PROVE ToldFits(e)'
  <2>1. CASE e \in DOMAIN told /\ told'[e] = told[e]
    <3>1. ToldFits(e)
      BY <2>1 DEF MediaInv
    <3> QED
      <4>1. e[2] \in DOMAIN rows' /\ rows'[e[2]].status = "uploaded" => rows[e[2]].status = "uploaded"
        BY <1>11, <1>14
      <4>2. Gentle(e[2])
        BY <1>17
      <4> QED
        BY <2>1, <3>1, <4>1, <4>2, ToldStays
  <2>2. CASE ~(e \in DOMAIN told /\ told'[e] = told[e])
    <3>1. m \in DOMAIN rows /\ rows[m].status = "uploaded" /\ Tell(<<"processed", m>>)
      BY <1>3, <2>2
    <3>2. <<"processed", m>> \notin DOMAIN told
      BY <3>1 DEF MediaInv, ToldFits
    <3>3. e = <<"processed", m>> /\ told'[e] = 1
      BY <2>2, <3>1, <3>2, TellsOnce
    <3>4. rows'[m].status = "ready"
      BY <1>15, <3>1
    <3> QED
      BY <1>4, <1>9, <3>3, <3>4 DEF ToldFits
  <2> QED
    BY <2>1, <2>2
<1>24. ASSUME NEW a PROVE LimitFits(a)'
  <2>1. LimitFits(a) /\ IsFiniteSet(DOMAIN rows)
    BY DEF MediaInv, MediaTables
  <2>2. OfAd(a)' \subseteq OfAd(a)
    BY <1>11, <1>13 DEF OfAd
  <2>3. Counted(a)' \subseteq Counted(a)
    BY <1>2 DEF Counted
  <2> QED
    BY <1>2, <2>1, <2>2, <2>3, LimitStays, MediaAssumption
<1> QED
  BY <1>18, <1>19, <1>20, <1>21, <1>22, <1>23, <1>24 DEF MediaInv

(***************************************************************************)
(* The steps of a request.                                                 *)
(***************************************************************************)
LEMMA RequestGently ==
  ASSUME MediaInv, NEW q \in Request, UNCHANGED work, \A p \in Request : p # q => req'[p] = req[p],
         Born(q) => Born(q)', spilled \subseteq spilled', torn \subseteq torn',
         DOMAIN rows \subseteq DOMAIN rows', \A m \in DOMAIN rows : rows'[m] = rows[m],
         DOMAIN rows' \subseteq DOMAIN rows \cup {q}, q \in DOMAIN rows' \ DOMAIN rows => ~Born(q),
         \A k \in DOMAIN objects : k[1] # q => k \in DOMAIN objects' /\ objects'[k] = objects[k],
         \A k \in DOMAIN objects' \ DOMAIN objects : k[1] = q /\ ~Born(q),
         NEW m, m = q /\ Born(q) => ~Calm(q)' \/ UNCHANGED objects
  PROVE  Gentle(m)
<1>1. Born(m) => Born(m)'
  BY DEF Born
<1>2. Previewing(m)' <=> Previewing(m)
  BY DEF Previewing, In
<1>3. Cur(m)' <=> Cur(m)
  BY DEF Cur, Current
<1>4. Born(m) => (m \in DOMAIN rows' => m \in DOMAIN rows /\ rows'[m].side = rows[m].side)
  OBVIOUS
<1>5. Born(m) /\ Calm(m)' => Calm(m)
  BY <1>3, <1>4 DEF Calm
<1> QED
  BY <1>1, <1>2, <1>4, <1>5 DEF Gentle

(* A step of an upload that adds at most its own row keeps the invariant.  *)
LEMMA RequestKeeps ==
  ASSUME MediaInv, NEW q \in Request, UNCHANGED work, \A p \in Request : p # q => req'[p] = req[p],
         torn \subseteq torn', torn' \subseteq torn \cup {q},
         DOMAIN rows \subseteq DOMAIN rows', \A m \in DOMAIN rows : rows'[m] = rows[m],
         DOMAIN rows' \subseteq DOMAIN rows \cup {q},
         \A k \in DOMAIN objects : k[1] # q => k \in DOMAIN objects' /\ objects'[k] = objects[k],
         \A k \in DOMAIN objects' : k[1] # q => k \in DOMAIN objects,
         \A m : Gentle(m), MediaTables', UploadRead(q)',
         q \in DOMAIN rows' \ DOMAIN rows => RowFits(q)' /\ Whole(q)',
         \A k \in DOMAIN objects' : k[1] = q => ObjectFits(k)',
         \A e \in DOMAIN told' : ToldFits(e)', \A a : LimitFits(a)'
  PROVE  MediaInv'
<1>1. ASSUME NEW p \in Request PROVE UploadRead(p)'
  <2>1. CASE p = q
    BY <2>1
  <2>2. CASE p # q
    <3>1. UploadRead(p) /\ req'[p] = req[p]
      BY <2>2 DEF MediaInv
    <3>2. PICK k : k = <<p, 0>>
      OBVIOUS
    <3>3. k \in DOMAIN objects => k \in DOMAIN objects'
      BY <2>2, <3>2
    <3> QED
      BY <2>2, <3>1, <3>2, <3>3 DEF UploadRead
  <2> QED
    BY <2>1, <2>2
<1>2. ASSUME NEW m \in DOMAIN rows' PROVE RowFits(m)' /\ Whole(m)'
  <2>1. CASE m \in DOMAIN rows
    <3>1. RowFits(m) /\ Whole(m) /\ Born(m) /\ rows'[m] = rows[m]
      BY <2>1 DEF MediaInv, RowFits
    <3>2. RowFits(m)'
      BY <3>1, RowStays
    <3>3. Whole(m)'
      BY <2>1, <3>1, WholeStays
    <3> QED
      BY <3>2, <3>3
  <2>2. CASE m \notin DOMAIN rows
    BY <2>2
  <2> QED
    BY <2>1, <2>2
<1>3. ASSUME NEW k \in DOMAIN objects' PROVE ObjectFits(k)'
  <2>1. CASE k[1] = q
    BY <2>1
  <2>2. CASE k[1] # q
    <3>1. k \in DOMAIN objects /\ objects'[k] = objects[k] /\ ObjectFits(k)
      BY <2>2 DEF MediaInv
    <3>2. k[1] \in Request
      BY <3>1 DEF ObjectFits, MediaKeys
    <3>3. Holding(k[1]) => Holding(k[1])'
      BY <2>2, <3>2 DEF Holding
    <3>4. k[1] \in DOMAIN rows' <=> k[1] \in DOMAIN rows
      BY <2>2
    <3> QED
      BY <3>1, <3>3, <3>4, ObjectStays
  <2> QED
    BY <2>1, <2>2
<1>4. \A g \in Goroutine : JobFits(g)'
  BY JobStays DEF MediaInv
<1> QED
  BY <1>1, <1>2, <1>3, <1>4 DEF MediaInv

(* What has not been born has no row, no object and no event.              *)
LEMMA Unborn ==
  ASSUME MediaInv, NEW q \in Request, ~Born(q)
  PROVE  /\ q \notin DOMAIN rows /\ q \notin spilled
         /\ \A k \in DOMAIN objects : k[1] = q => Holding(q) /\ k[2] = 0
         /\ \A e \in DOMAIN told : e[2] # q
<1>1. q \notin DOMAIN rows /\ q \notin spilled
  BY DEF MediaInv, RowFits, MediaTables
<1>2. \A k \in DOMAIN objects : k[1] = q => Holding(q) /\ k[2] = 0
  BY <1>1 DEF MediaInv, ObjectFits
<1>3. \A e \in DOMAIN told : e[2] # q
  BY DEF MediaInv, ToldFits
<1> QED
  BY <1>1, <1>2, <1>3

(* The events keep their rows when no row is written.                      *)
LEMMA ToldAllStay ==
  ASSUME MediaInv, UNCHANGED <<rows, told>>, \A m : Gentle(m)
  PROVE  \A e \in DOMAIN told' : ToldFits(e)'
<1> SUFFICES ASSUME NEW e \in DOMAIN told' PROVE ToldFits(e)'
  OBVIOUS
<1>1. ToldFits(e)
  BY DEF MediaInv
<1> QED
  BY <1>1, ToldStays

(* The limit of an ad holds when no row is written.                        *)
LEMMA LimitsStay ==
  ASSUME MediaInv, UNCHANGED rows, crowded \subseteq crowded', NEW q \in Request,
         \A p \in Request : p # q => req'[p] = req[p],
         \/ req'[q].op # "upload" \/ req'[q].step \in {"count", "compensate"} \/ req'[q].file.ad = None
         \/ /\ req[q].op = "upload" /\ req[q].step = "put" /\ req'[q].op = "upload"
            /\ req'[q].step = "insert" /\ req[q].file = req'[q].file
  PROVE  \A a : LimitFits(a)'
<1> SUFFICES ASSUME NEW a, a # None PROVE LimitFits(a)'
  BY DEF LimitFits
<1>1. LimitFits(a) /\ IsFiniteSet(DOMAIN rows)
  BY DEF MediaInv, MediaTables
<1>2. OfAd(a)' \subseteq OfAd(a)
  BY DEF OfAd
<1>3. Counted(a)' \subseteq Counted(a)
  <2> SUFFICES ASSUME NEW p \in Counted(a)' PROVE p \in Counted(a)
    OBVIOUS
  <2>1. CASE p = q
    BY <2>1 DEF Counted
  <2>2. CASE p # q
    BY <2>2 DEF Counted
  <2> QED
    BY <2>1, <2>2
<1> QED
  BY <1>1, <1>2, <1>3, LimitStays, MediaAssumption

(* The tables fit when only a request moves.                               *)
LEMMA TablesWait ==
  ASSUME MediaInv, NEW q \in Request, \A p \in Request : p # q => req'[p] = req[p], Born(q) => Born(q)',
         UNCHANGED <<rows, mail, inbox, work>>, torn' \subseteq Request,
         \A m \in spilled' : m \in spilled \/ (m = q /\ Born(q)')
  PROVE  MediaTables'
<1>1. \A m : Born(m) => Born(m)'
  BY DEF Born
<1>2. MediaTables
  BY DEF MediaInv
<1>3. \A x \in mail' : Born(x.media)'
  BY <1>1, <1>2 DEF MediaTables
<1>4. \A m \in spilled' : Born(m)'
  BY <1>1, <1>2 DEF MediaTables
<1> QED
  BY <1>2, <1>3, <1>4 DEF MediaTables

(* A file is uploaded.                                                     *)
LEMMA UploadKeeps ==
  ASSUME MediaInv, RequestsOK, NEW q \in Request, NEW f, Upload(q, f)
  PROVE  MediaInv'
<1>1. PICK r : /\ Turn(q, r)
               /\ r = IF ~ValidateUpload(f) THEN Done
                      ELSE [op |-> "upload", step |-> IF f.ad = None THEN "put" ELSE "count", file |-> f]
  BY DEF Upload
<1>2. req[q].op = "idle" /\ req[q] # Done
  BY DEF Upload, Fresh, Idle, Done
<1>3. UNCHANGED <<rows, objects, mail, inbox, work, told, given, crowded, torn, spilled>>
  BY DEF Upload, mediaVars, mediaTables, mediaHistory
<1>4. "op" \in DOMAIN r
  BY <1>1 DEF Done
<1>5. req'[q] = r /\ \A p \in Request : p # q => req'[p] = req[p]
  BY <1>1, <1>4, Turns
<1>6. ~Born(q)
  BY <1>2 DEF Born
<1>7. /\ q \notin DOMAIN rows /\ q \notin spilled
      /\ \A k \in DOMAIN objects : k[1] # q
  BY <1>2, <1>6, Unborn DEF Holding
<1>8. \A m : Gentle(m)
  BY <1>3, <1>5, <1>6, RequestGently
<1>9. MediaTables'
  BY <1>3, <1>5, <1>6, TablesWait DEF MediaInv, MediaTables
<1>10. UploadRead(q)'
  BY <1>1, <1>5 DEF UploadRead, Done
<1>11. \A e \in DOMAIN told' : ToldFits(e)'
  BY <1>3, <1>8, ToldAllStay
<1>12. \A a : LimitFits(a)'
  <2>1. req'[q].op # "upload" \/ req'[q].step \in {"count", "compensate"} \/ req'[q].file.ad = None
    BY <1>1, <1>5 DEF Done
  <2> QED
    BY <1>3, <1>5, <2>1, LimitsStay
<1> QED
  BY <1>3, <1>5, <1>7, <1>8, <1>9, <1>10, <1>11, <1>12, RequestKeeps

(* A request that goes on.                                                 *)
LEMMA UploadGoes ==
  ASSUME MediaInv, RequestsOK, NEW q \in Request, req[q].op = "upload", NEW step, Proceed(q, step)
  PROVE  /\ req'[q] = [op |-> "upload", step |-> step, file |-> req[q].file]
         /\ \A p \in Request : p # q => req'[p] = req[p]
<1>1. req[q] = [op |-> "upload", step |-> req[q].step, file |-> req[q].file]
  BY DEF MediaInv, UploadRead
<1>2. req'[q] = [req[q] EXCEPT !.step = step] /\ \A p \in Request : p # q => req'[p] = req[p]
  BY Proceeds
<1>3. PICK s, f : req[q] = [op |-> "upload", step |-> s, file |-> f]
  BY <1>1
<1>4. req'[q] = [op |-> "upload", step |-> step, file |-> f]
  BY <1>2, <1>3
<1> QED
  BY <1>2, <1>3, <1>4

(* The media of the ad are counted.                                        *)
LEMMA CountKeepsMedia ==
  ASSUME MediaInv, RequestsOK, NEW q \in Request, CountByAd(q)
  PROVE  MediaInv'
<1>1. /\ req[q].op = "upload" /\ req[q].step = "count"
      /\ UNCHANGED <<rows, objects, mail, inbox, work, told, given, torn, spilled>>
  BY DEF CountByAd, Asks, mediaTables
<1>2. PICK b : b = req[q].file.ad
  OBVIOUS
<1>3. crowded' = IF Counted(b) # {} THEN crowded \cup {b} ELSE crowded
  BY <1>2 DEF CountByAd
<1>4. Turn(q, Done) \/ (Proceed(q, "put") /\ ~(Cardinality(OfAd(b)) >= MaxPerAd))
  BY <1>2 DEF CountByAd
<1>5. /\ \A p \in Request : p # q => req'[p] = req[p]
      /\ req'[q] = Done \/ req'[q] = [op |-> "upload", step |-> "put", file |-> req[q].file]
  BY <1>1, <1>4, TurnsDone, UploadGoes
<1>6. ~Born(q)
  BY <1>1 DEF Born, Done
<1>7. /\ q \notin DOMAIN rows /\ q \notin spilled
      /\ \A k \in DOMAIN objects : k[1] # q
  BY <1>1, <1>6, Unborn DEF Holding
<1>8. \A m : Gentle(m)
  BY <1>1, <1>5, <1>6, RequestGently
<1>9. MediaTables'
  BY <1>1, <1>5, <1>6, TablesWait DEF MediaInv, MediaTables
<1>10. UploadRead(q)'
  BY <1>5 DEF UploadRead, Done
<1>11. \A e \in DOMAIN told' : ToldFits(e)'
  BY <1>1, <1>8, ToldAllStay
<1>12. ASSUME NEW a, a # None PROVE LimitFits(a)'
  <2>1. LimitFits(a) /\ OfAd(a)' = OfAd(a)
    BY <1>1 DEF MediaInv, OfAd
  <2>2. CASE Counted(a)' \subseteq Counted(a)
    BY <1>1, <1>3, <2>1, <2>2, LimitStays, MediaAssumption DEF MediaInv, MediaTables
  <2>3. CASE ~(Counted(a)' \subseteq Counted(a))
    <3>1. \A p \in Counted(a)' : p \in Counted(a) \/ p = q
      BY <1>5 DEF Counted
    <3>2. q \in Counted(a)'
      BY <2>3, <3>1
    <3>3. req'[q] # Done /\ a = b
      BY <1>2, <1>5, <3>2 DEF Counted, Done
    <3>4. ~(Cardinality(OfAd(a)) >= MaxPerAd)
      <4>1. Proceed(q, "put") => ~(Cardinality(OfAd(b)) >= MaxPerAd)
        BY <1>1, <1>4, <1>5, <3>3, TurnsDone
      <4> QED
        BY <1>4, <3>3, <4>1, TurnsDone
    <3> SUFFICES ASSUME a \notin crowded'
                 PROVE  /\ Cardinality(OfAd(a)) \in Nat /\ Cardinality(OfAd(a)) <= MaxPerAd
                        /\ \A p, r \in Counted(a)' : p = r
                        /\ Cardinality(OfAd(a)) < MaxPerAd
      BY <2>1 DEF LimitFits
    <3>5. Counted(a) = {} /\ a \notin crowded
      BY <1>3, <3>3
    <3>6. Cardinality(OfAd(a)) \in Nat
      BY <1>12, <2>1, <3>5 DEF LimitFits
    <3> QED
      BY <3>1, <3>4, <3>5, <3>6, MediaAssumption
  <2> QED
    BY <2>2, <2>3
<1>13. \A a : LimitFits(a)'
  BY <1>12 DEF LimitFits
<1> QED
  BY <1>1, <1>5, <1>7, <1>8, <1>9, <1>10, <1>11, <1>13, RequestKeeps

(* The original is put into the store before its row.                      *)
LEMMA PutOriginalKeeps ==
  ASSUME MediaInv, RequestsOK, NEW q \in Request, PutOriginal(q)
  PROVE  MediaInv'
<1>1. /\ req[q].op = "upload" /\ req[q].step = "put" /\ Proceed(q, "insert")
      /\ UNCHANGED <<rows, mail, inbox, work, told, given, crowded, torn, spilled>>
  BY DEF PutOriginal, Asks, mediaHistory
<1>2. PICK o : o = <<q, 0>> /\ objects' = Put(objects, o, "raw")
  BY DEF PutOriginal
<1>3. /\ \A p \in Request : p # q => req'[p] = req[p]
      /\ req'[q] = [op |-> "upload", step |-> "insert", file |-> req[q].file]
  BY <1>1, UploadGoes
<1>4. ~Born(q)
  BY <1>1 DEF Born, Done
<1>5. q \notin DOMAIN rows /\ q \notin spilled /\ \A k \in DOMAIN objects : k[1] # q
  BY <1>1, <1>4, Unborn DEF Holding
<1>6. /\ DOMAIN objects' = DOMAIN objects \cup {o} /\ objects'[o] = "raw" /\ o[1] = q
      /\ \A k \in DOMAIN objects : k # o => objects'[k] = objects[k]
  BY <1>2 DEF Put
<1>7. \A m : Gentle(m)
  BY <1>1, <1>3, <1>4, <1>5, <1>6, RequestGently
<1>8. MediaTables'
  BY <1>1, <1>3, <1>4, TablesWait DEF MediaInv, MediaTables
<1>9. UploadRead(q)'
  BY <1>2, <1>3, <1>6 DEF UploadRead
<1>10. \A e \in DOMAIN told' : ToldFits(e)'
  BY <1>1, <1>7, ToldAllStay
<1>11. \A a : LimitFits(a)'
  BY <1>1, <1>3, LimitsStay
<1>12. ASSUME NEW k \in DOMAIN objects', k[1] = q PROVE ObjectFits(k)'
  <2>1. k = o
    BY <1>5, <1>6, <1>12
  <2>2. o \in MediaKeys /\ o[2] = 0
    BY <1>2 DEF MediaKeys
  <2>3. Holding(q)'
    BY <1>3 DEF Holding
  <2>4. q \notin DOMAIN rows'
    BY <1>1, <1>5
  <2> QED
    BY <1>6, <2>1, <2>2, <2>3, <2>4 DEF ObjectFits, MediaKeys
<1> QED
  BY <1>1, <1>3, <1>5, <1>6, <1>7, <1>8, <1>9, <1>10, <1>11, <1>12, RequestKeeps

(* The row of an upload is inserted, whatever the service hears of it.     *)
LEMMA InsertedLimits ==
  ASSUME MediaInv, NEW q \in Request, req[q].op = "upload", req[q].step = "insert",
         ~Born(q), Inserted(q), UNCHANGED crowded, \A p \in Request : p # q => req'[p] = req[p],
         req'[q].op # "upload" \/ req'[q].step = "compensate"
  PROVE  \A a : LimitFits(a)'
<1> SUFFICES ASSUME NEW a, a # None PROVE LimitFits(a)'
  BY DEF LimitFits
<1>1. PICK b, side : b = req[q].file.ad /\ side = req[q].file.side
  OBVIOUS
<1>2. q \notin DOMAIN rows
  BY Unborn
<1>3. rows' = Put(rows, q, [ad |-> b, side |-> side, status |-> "uploaded", previews |-> {}, old |-> FALSE])
  BY <1>1 DEF Inserted
<1>4. DOMAIN rows' = DOMAIN rows \cup {q} /\ rows'[q].ad = b /\ \A m \in DOMAIN rows : rows'[m] = rows[m]
  BY <1>2, <1>3 DEF Put
<1>5. LimitFits(a) /\ IsFiniteSet(DOMAIN rows)
  BY DEF MediaInv, MediaTables
<1>6. Counted(a)' \subseteq Counted(a) \ {q}
  <2> SUFFICES ASSUME NEW p \in Counted(a)' PROVE p \in Counted(a) /\ p # q
    OBVIOUS
  <2>1. p # q
    BY DEF Counted
  <2> QED
    BY <2>1 DEF Counted
<1>7. CASE a # b
  <2>1. OfAd(a)' \subseteq OfAd(a)
    BY <1>4, <1>7 DEF OfAd
  <2> QED
    BY <1>5, <1>6, <2>1, LimitStays, MediaAssumption
<1>8. CASE a = b
  <2> SUFFICES ASSUME a \notin crowded
               PROVE  /\ Cardinality(OfAd(a))' \in Nat /\ Cardinality(OfAd(a))' <= MaxPerAd
                      /\ \A p, r \in Counted(a)' : p = r
                      /\ Counted(a)' # {} => Cardinality(OfAd(a))' < MaxPerAd
    BY DEF LimitFits
  <2>1. PICK S, T : S = OfAd(a) /\ T = OfAd(a)'
    OBVIOUS
  <2>2. q \in Counted(a)
    BY <1>1, <1>8 DEF Counted
  <2>3. Cardinality(S) \in Nat /\ Cardinality(S) < MaxPerAd /\ \A p, r \in Counted(a) : p = r
    BY <1>5, <2>1, <2>2 DEF LimitFits
  <2>4. Counted(a)' = {}
    BY <1>6, <2>2, <2>3
  <2>5. T = S \cup {q} /\ q \notin S
    BY <1>2, <1>4, <1>8, <2>1 DEF OfAd
  <2>6. IsFiniteSet(S)
    <3>1. S \subseteq DOMAIN rows
      BY <2>1 DEF OfAd
    <3> QED
      BY <1>5, <3>1, FS_Subset
  <2>7. Cardinality(T) = Cardinality(S) + 1
    BY <2>5, <2>6, FS_AddElement
  <2> QED
    BY <2>1, <2>3, <2>4, <2>7, MediaAssumption
<1> QED
  BY <1>7, <1>8

(* Row and event are stored.                                               *)
LEMMA InsertedKeeps ==
  ASSUME MediaInv, NEW q \in Request, req[q].op = "upload", req[q].step = "insert",
         Inserted(q), UNCHANGED <<objects, inbox, work, given, crowded, spilled>>,
         \A p \in Request : p # q => req'[p] = req[p],
         torn \subseteq torn', torn' \subseteq torn \cup {q},
         \/ req'[q] = Done
         \/ req'[q] = [op |-> "upload", step |-> "compensate", file |-> req[q].file] /\ q \in torn'
  PROVE  MediaInv'
<1>1. ~Born(q)
  BY DEF Born, Done
<1>2. Born(q)' /\ (req'[q].op # "upload" \/ req'[q].step = "compensate")
  BY DEF Born, Done
<1>3. /\ q \notin DOMAIN rows /\ q \notin spilled
      /\ \A k \in DOMAIN objects : k[1] = q => Holding(q) /\ k[2] = 0
      /\ \A e \in DOMAIN told : e[2] # q
  BY <1>1, Unborn
<1>4. PICK b, side : /\ b = req[q].file.ad /\ side = req[q].file.side
  OBVIOUS
<1>5. PICK r : /\ r = [ad |-> b, side |-> side, status |-> "uploaded", previews |-> {}, old |-> FALSE]
               /\ rows' = Put(rows, q, r)
  BY <1>4 DEF Inserted
<1>6. DOMAIN rows' = DOMAIN rows \cup {q} /\ rows'[q] = r /\ \A m \in DOMAIN rows : rows'[m] = rows[m]
  BY <1>3, <1>5 DEF Put
<1>7. mail' = mail \cup {[media |-> q, left |-> MaxDeliver]}
  BY DEF Inserted
<1>8. \A m : Gentle(m)
  BY <1>1, <1>2, <1>6, RequestGently
<1>9. \A m : Born(m) => Born(m)'
  BY <1>8 DEF Gentle
<1>10. MediaTables'
  <2>1. MediaTables
    BY DEF MediaInv
  <2>2. IsFiniteSet(DOMAIN rows')
    BY <1>6, <2>1, FS_AddElement DEF MediaTables
  <2>3. mail' \subseteq [media : Request, left : 0..MaxDeliver]
    BY <1>7, <2>1, MediaAssumption DEF MediaTables
  <2>4. \A x \in mail' : Born(x.media)'
    BY <1>2, <1>7, <1>9, <2>1 DEF MediaTables
  <2>5. \A m \in spilled' : Born(m)'
    BY <1>9, <2>1 DEF MediaTables
  <2> QED
    BY <1>6, <2>1, <2>2, <2>3, <2>4, <2>5 DEF MediaTables
<1>11. UploadRead(q)'
  BY DEF UploadRead, Done
<1>12. RowFits(q)'
  <2>1. rows'[q] = [ad |-> b, side |-> side, status |-> "uploaded", previews |-> {}, old |-> FALSE]
    BY <1>5, <1>6
  <2>2. rows'[q].status = "uploaded" /\ rows'[q].previews = {} /\ rows'[q].old = FALSE
    BY <2>1
  <2>3. rows'[q] = [ad |-> rows'[q].ad, side |-> rows'[q].side, status |-> rows'[q].status,
                    previews |-> rows'[q].previews, old |-> rows'[q].old]
    BY <2>1
  <2> QED
    BY <1>2, <2>2, <2>3 DEF RowFits
<1>13. Whole(q)'
  <2>1. <<q, 0>> \in DOMAIN objects
    BY DEF MediaInv, UploadRead
  <2> QED
    BY <1>5, <1>6, <2>1 DEF Whole
<1>14. ASSUME NEW k \in DOMAIN objects', k[1] = q PROVE ObjectFits(k)'
  <2>1. k \in DOMAIN objects /\ ObjectFits(k) /\ k[2] = 0
    BY <1>3, <1>14 DEF MediaInv
  <2>2. k = <<q, 0>>
    BY <1>14, <2>1 DEF ObjectFits, MediaKeys
  <2>3. k \in Shown(q)' /\ q \in DOMAIN rows'
    BY <1>6, <2>2 DEF Shown
  <2> QED
    BY <1>14, <2>1, <2>3 DEF ObjectFits
<1>15. ASSUME NEW e \in DOMAIN told' PROVE ToldFits(e)'
  <2>1. PICK n : n = <<"uploaded", q>>
    OBVIOUS
  <2>2. n \notin DOMAIN told /\ Tell(n)
    BY <1>3, <2>1 DEF Inserted
  <2>3. CASE e = n
    <3>1. told'[e] = 1
      BY <2>2, <2>3, TellsOnce
    <3> QED
      BY <1>2, <2>1, <2>3, <3>1 DEF ToldFits
  <2>4. CASE e # n
    <3>1. e \in DOMAIN told /\ told'[e] = told[e] /\ ToldFits(e)
      BY <2>2, <2>4, TellsOnce DEF MediaInv
    <3>2. e[2] # q
      BY <1>3, <3>1
    <3> QED
      BY <1>6, <1>8, <3>1, <3>2, ToldStays
  <2> QED
    BY <2>3, <2>4
<1>16. \A a : LimitFits(a)'
  BY <1>1, <1>2, InsertedLimits
<1> QED
  BY <1>6, <1>8, <1>10, <1>11, <1>12, <1>13, <1>14, <1>15, <1>16, RequestKeeps

(* The upload is answered, or its answer is lost with the row in the       *)
(* table.                                                                  *)
LEMMA InsertKeeps ==
  ASSUME MediaInv, RequestsOK, NEW q \in Request, InsertWithEvent(q) \/ InsertUnknown(q)
  PROVE  MediaInv'
<1>1. /\ req[q].op = "upload" /\ req[q].step = "insert" /\ Inserted(q)
      /\ UNCHANGED <<objects, inbox, work, given, crowded, spilled>>
  BY DEF InsertWithEvent, InsertUnknown, Asks
<1>2. CASE InsertWithEvent(q)
  <2>1. Turn(q, Done) /\ torn' = torn
    BY <1>2 DEF InsertWithEvent
  <2>2. req'[q] = Done /\ \A p \in Request : p # q => req'[p] = req[p]
    BY <2>1, TurnsDone
  <2> QED
    BY <1>1, <2>1, <2>2, InsertedKeeps
<1>3. CASE InsertUnknown(q)
  <2>1. Proceed(q, "compensate") /\ torn' = torn \cup {q}
    BY <1>3 DEF InsertUnknown
  <2>2. /\ req'[q] = [op |-> "upload", step |-> "compensate", file |-> req[q].file]
        /\ \A p \in Request : p # q => req'[p] = req[p]
    BY <1>1, <2>1, UploadGoes
  <2> QED
    BY <1>1, <2>1, <2>2, InsertedKeeps
<1> QED
  BY <1>2, <1>3

(* The row is not stored.                                                  *)
LEMMA InsertFailsKeeps ==
  ASSUME MediaInv, RequestsOK, NEW q \in Request, InsertFails(q)
  PROVE  MediaInv'
<1>1. /\ req[q].op = "upload" /\ req[q].step = "insert" /\ Proceed(q, "compensate")
      /\ UNCHANGED <<rows, objects, mail, inbox, work, told, given, crowded, torn, spilled>>
  BY DEF InsertFails, Asks, mediaVars, mediaTables, mediaHistory
<1>2. /\ req'[q] = [op |-> "upload", step |-> "compensate", file |-> req[q].file]
      /\ \A p \in Request : p # q => req'[p] = req[p]
  BY <1>1, UploadGoes
<1>3. ~Born(q)
  BY <1>1 DEF Born, Done
<1>4. q \notin DOMAIN rows /\ \A k \in DOMAIN objects : k[1] = q => k[2] = 0
  BY <1>3, Unborn
<1>5. \A m : Gentle(m)
  BY <1>1, <1>2, <1>3, RequestGently
<1>6. MediaTables'
  BY <1>1, <1>2, <1>3, TablesWait DEF MediaInv, MediaTables
<1>7. UploadRead(q)'
  BY <1>1, <1>2, <1>4 DEF UploadRead
<1>8. \A e \in DOMAIN told' : ToldFits(e)'
  BY <1>1, <1>5, ToldAllStay
<1>9. \A a : LimitFits(a)'
  BY <1>1, <1>2, LimitsStay
<1>10. ASSUME NEW k \in DOMAIN objects', k[1] = q PROVE ObjectFits(k)'
  <2>1. k \in DOMAIN objects /\ ObjectFits(k) /\ k[2] = 0 /\ objects'[k] = objects[k]
    BY <1>1, <1>4, <1>10 DEF MediaInv
  <2>2. Holding(q)'
    BY <1>2 DEF Holding
  <2>3. q \notin DOMAIN rows'
    BY <1>1, <1>4
  <2> QED
    BY <1>10, <2>1, <2>2, <2>3 DEF ObjectFits
<1> QED
  BY <1>1, <1>2, <1>4, <1>5, <1>6, <1>7, <1>8, <1>9, <1>10, RequestKeeps

(* The original is removed again, as its row was not stored.               *)
LEMMA CompensateKeeps ==
  ASSUME MediaInv, RequestsOK, NEW q \in Request, Compensate(q)
  PROVE  MediaInv'
<1>1. /\ req[q].op = "upload" /\ req[q].step = "compensate" /\ Turn(q, Done)
      /\ UNCHANGED <<rows, mail, inbox, work, told, given, crowded, torn, spilled>>
  BY DEF Compensate, Asks, mediaHistory
<1>2. PICK o : o = <<q, 0>> /\ objects' = Without(objects, {o})
  BY DEF Compensate
<1>3. /\ DOMAIN objects' = DOMAIN objects \ {o} /\ o[1] = q
      /\ \A k \in DOMAIN objects' : objects'[k] = objects[k]
  BY <1>2 DEF Without
<1>4. req'[q] = Done /\ \A p \in Request : p # q => req'[p] = req[p]
  BY <1>1, TurnsDone
<1>5. Born(q)'
  BY <1>4 DEF Born
<1>6. ~Calm(q)'
  <2>1. q \in DOMAIN rows => q \in torn
    BY <1>1 DEF MediaInv, UploadRead
  <2> QED
    BY <1>1, <2>1 DEF Calm
<1>7. ASSUME NEW m PROVE Gentle(m)
  BY <1>1, <1>3, <1>4, <1>5, <1>6, RequestGently
<1>8. MediaTables'
  BY <1>1, <1>4, <1>5, TablesWait DEF MediaInv, MediaTables
<1>9. UploadRead(q)'
  BY <1>4 DEF UploadRead, Done
<1>10. \A e \in DOMAIN told' : ToldFits(e)'
  BY <1>1, <1>7, ToldAllStay
<1>11. \A a : LimitFits(a)'
  <2>1. req'[q].op # "upload"
    BY <1>4 DEF Done
  <2> QED
    BY <1>1, <1>4, <2>1, LimitsStay
<1>12. ASSUME NEW k \in DOMAIN objects', k[1] = q PROVE ObjectFits(k)'
  <2>1. k \in DOMAIN objects /\ ObjectFits(k) /\ objects'[k] = objects[k] /\ k # o
    BY <1>3 DEF MediaInv
  <2>2. k[2] # 0
    BY <1>2, <1>12, <2>1 DEF ObjectFits, MediaKeys
  <2>3. Gentle(q) /\ (Previewing(q) <=> Previewing(q)')
    BY <1>1, <1>7 DEF Previewing, In
  <2>4. Shown(q)' = Shown(q)
    BY <1>1 DEF Shown
  <2> QED
    BY <1>1, <1>12, <2>1, <2>2, <2>3, <2>4 DEF ObjectFits, Previews, Fit
<1> QED
  BY <1>1, <1>3, <1>4, <1>7, <1>8, <1>9, <1>10, <1>11, <1>12, RequestKeeps

(* The instance dies between the two.                                      *)
LEMMA UploadDiesKeeps ==
  ASSUME MediaInv, RequestsOK, NEW q \in Request, UploadDies(q)
  PROVE  MediaInv'
<1>1. /\ req[q].op = "upload" /\ Turn(q, Done)
      /\ UNCHANGED <<rows, objects, mail, inbox, work, told, given, crowded, torn>>
  BY DEF UploadDies, mediaTables
<1>2. PICK o : o = <<q, 0>> /\ spilled' = IF o \in DOMAIN objects THEN spilled \cup {q} ELSE spilled
  BY DEF UploadDies
<1>3. req'[q] = Done /\ \A p \in Request : p # q => req'[p] = req[p]
  BY <1>1, TurnsDone
<1>4. Born(q)'
  BY <1>3 DEF Born
<1>5. \A m : Gentle(m)
  BY <1>1, <1>2, <1>3, <1>4, RequestGently
<1>6. MediaTables'
  BY <1>1, <1>2, <1>3, <1>4, TablesWait DEF MediaInv, MediaTables
<1>7. UploadRead(q)'
  BY <1>3 DEF UploadRead, Done
<1>8. \A e \in DOMAIN told' : ToldFits(e)'
  BY <1>1, <1>5, ToldAllStay
<1>9. \A a : LimitFits(a)'
  <2>1. req'[q].op # "upload"
    BY <1>3 DEF Done
  <2> QED
    BY <1>1, <1>3, <2>1, LimitsStay
<1>10. ASSUME NEW k \in DOMAIN objects', k[1] = q PROVE ObjectFits(k)'
  <2>1. k \in DOMAIN objects /\ ObjectFits(k) /\ objects'[k] = objects[k]
    BY <1>1 DEF MediaInv
  <2>2. CASE k[2] = 0
    <3>1. q \in spilled'
      BY <1>2, <1>10, <2>1, <2>2 DEF ObjectFits, MediaKeys
    <3> QED
      BY <1>1, <1>10, <2>1, <3>1 DEF ObjectFits, Previews, Fit
  <2>3. CASE k[2] # 0
    <3>1. (Previewing(q) <=> Previewing(q)') /\ Shown(q)' = Shown(q) /\ spilled \subseteq spilled'
      BY <1>1, <1>2 DEF Previewing, In, Shown
    <3> QED
      BY <1>1, <1>10, <2>1, <2>3, <3>1 DEF ObjectFits, Previews, Fit
  <2> QED
    BY <2>2, <2>3
<1> QED
  BY <1>1, <1>2, <1>3, <1>5, <1>6, <1>7, <1>8, <1>9, <1>10, RequestKeeps

(***************************************************************************)
(* What others do leaves media as it is.                                   *)
(***************************************************************************)
LEMMA MediaRests ==
  ASSUME MediaInv, NEW ops, Moved(ops), "upload" \notin ops, "done" \notin ops,
         UNCHANGED mediaVars
  PROVE  MediaInv'
<1>1. UNCHANGED <<rows, objects, mail, inbox, work, told, given, crowded, torn, spilled>>
  BY DEF mediaVars, mediaTables, mediaHistory
<1>2. ASSUME NEW q \in Request, req[q].op = "upload" \/ req'[q].op = "upload" PROVE req'[q] = req[q]
  BY <1>2, OthersStay
<1>3. ASSUME NEW m, Born(m) PROVE Born(m)'
  <2>1. req[m] = Done => req'[m] = Done
    BY <1>3, DoneStays DEF Born
  <2> QED
    BY <1>2, <1>3, <2>1 DEF Born
<1>4. ASSUME NEW m PROVE Gentle(m)
  <2>1. (Previewing(m) <=> Previewing(m)') /\ (Calm(m) <=> Calm(m)')
    BY <1>1 DEF Previewing, In, Calm, Cur, Current
  <2> QED
    BY <1>1, <1>3, <2>1 DEF Gentle
<1>5. MediaTables'
  BY <1>1, <1>3 DEF MediaInv, MediaTables
<1>6. ASSUME NEW q \in Request PROVE UploadRead(q)'
  <2>1. UploadRead(q)
    BY DEF MediaInv
  <2> QED
    BY <1>1, <1>2, <2>1 DEF UploadRead
<1>7. ASSUME NEW m \in DOMAIN rows' PROVE RowFits(m)' /\ Whole(m)'
  <2>1. m \in DOMAIN rows /\ RowFits(m) /\ Whole(m) /\ Born(m)
    BY <1>1 DEF MediaInv, RowFits
  <2> QED
    BY <1>1, <1>4, <2>1, RowStays, WholeStays
<1>8. ASSUME NEW k \in DOMAIN objects' PROVE ObjectFits(k)'
  <2>1. k \in DOMAIN objects /\ ObjectFits(k)
    BY <1>1 DEF MediaInv
  <2>2. Holding(k[1]) => Holding(k[1])'
    BY <1>2, <2>1 DEF Holding, ObjectFits, MediaKeys
  <2> QED
    BY <1>1, <1>4, <2>1, <2>2, ObjectStays
<1>9. \A g \in Goroutine : JobFits(g)'
  BY <1>1, <1>4, JobStays DEF MediaInv
<1>10. \A e \in DOMAIN told' : ToldFits(e)'
  BY <1>1, <1>4, ToldAllStay
<1>11. ASSUME NEW a PROVE LimitFits(a)'
  <2>1. LimitFits(a) /\ IsFiniteSet(DOMAIN rows)
    BY DEF MediaInv, MediaTables
  <2>2. OfAd(a)' = OfAd(a)
    BY <1>1 DEF OfAd
  <2>3. Counted(a)' \subseteq Counted(a)
    BY <1>2 DEF Counted
  <2> QED
    BY <1>1, <2>1, <2>2, <2>3, LimitStays, MediaAssumption
<1> QED
  BY <1>5, <1>6, <1>7, <1>8, <1>9, <1>10, <1>11 DEF MediaInv

(* Every step of media keeps the invariant.                                *)
LEMMA MediaNextKeeps ==
  ASSUME MediaInv, RequestsOK, MediaNext
  PROVE  MediaInv'
<1>1. ASSUME NEW q \in Request, UploadRequest(q) PROVE MediaInv'
  BY <1>1, UploadKeeps, CountKeepsMedia, PutOriginalKeeps, InsertKeeps, InsertFailsKeeps, CompensateKeeps,
     UploadDiesKeeps DEF UploadRequest
<1>2. ASSUME NEW w \in Goroutine, MediaWork(w) PROVE MediaInv'
  BY <1>2, GiveKeeps, AcknowledgeKeeps, ReadRowKeeps, MarkEventKeeps, GetOriginalKeeps, CleanKeeps, PreviewKeeps,
     MarkKeeps, SweepKeeps, RemoveKeeps, DeleteKeeps DEF MediaWork
<1>3. ASSUME NEW w \in Goroutine, MediaFaults(w) PROVE MediaInv'
  BY <1>3, RemoveFailsKeeps, DeleteFailsKeeps, BreakKeeps DEF MediaFaults
<1>4. ASSUME NEW m \in Request, GrowOld(m) PROVE MediaInv'
  BY <1>4, GrowKeeps
<1> QED
  BY <1>1, <1>2, <1>3, <1>4 DEF MediaNext

(* No media at first.                                                      *)
LEMMA MediaBegins ==
  ASSUME RequestsInit, MediaInit
  PROVE  MediaInv
<1>1. req = [q \in Request |-> Idle]
  BY DEF RequestsInit
<1>2. /\ DOMAIN rows = {} /\ DOMAIN objects = {} /\ DOMAIN told = {} /\ mail = {} /\ inbox = {}
      /\ work = [w \in Goroutine |-> Idle] /\ torn = {} /\ spilled = {}
  BY DEF MediaInit
<1>3. MediaTables
  BY <1>2, FS_EmptySet DEF MediaTables
<1>4. \A q \in Request : UploadRead(q)
  BY <1>1 DEF UploadRead, Idle
<1>5. ASSUME NEW a PROVE LimitFits(a)
  <2>1. OfAd(a) = {} /\ Counted(a) = {}
    BY <1>1, <1>2 DEF OfAd, Counted, Idle
  <2>2. Cardinality(OfAd(a)) = 0
    BY <2>1, FS_EmptySet
  <2> QED
    BY <2>1, <2>2, MediaAssumption DEF LimitFits
<1>6. \A w \in Goroutine : JobFits(w)
  BY <1>2 DEF JobFits
<1> QED
  BY <1>2, <1>3, <1>4, <1>5, <1>6 DEF MediaInv

(* What the invariant says of the media.                                   *)
LEMMA MediaAreWhole ==
  ASSUME MediaInv
  PROVE  MediaIsWhole
<1>1. \A m \in DOMAIN rows : RowFits(m) /\ Whole(m)
  BY DEF MediaInv
<1>2. \A k \in DOMAIN objects : ObjectFits(k)
  BY DEF MediaInv
<1>3. MediaTypeOK
  <2>1. ASSUME NEW m \in DOMAIN rows
        PROVE  /\ rows[m].status \in {"uploaded", "ready"}
               /\ rows[m].previews \subseteq PreviewSizes /\ rows[m].old \in BOOLEAN
    BY <1>1, PreviewsAreSizes DEF RowFits
  <2>2. DOMAIN objects \subseteq MediaKeys /\ \A k \in DOMAIN objects : objects[k] \in {"raw", "clean"}
    BY <1>2 DEF ObjectFits
  <2>3. ASSUME NEW w \in Goroutine PROVE work[w].op \in {"idle", "process", "sweep"}
    BY JobIs DEF MediaInv, Idle
  <2>4. spilled \subseteq Request
    BY DEF MediaInv, MediaTables, Born
  <2> QED
    BY <2>1, <2>2, <2>3, <2>4 DEF MediaTypeOK, MediaInv, MediaTables
<1>4. QuietMediaIsWhole
  <2> SUFFICES ASSUME NEW m \in DOMAIN rows \ torn, ~Swept(m)
               PROVE  /\ Shown(m) \subseteq DOMAIN objects
                      /\ rows[m].status = "ready" => /\ \A k \in Shown(m) : objects[k] = "clean"
                                                     /\ rows[m].previews = Previews(rows[m].side)
    BY DEF QuietMediaIsWhole
  <2>1. Calm(m)
    <3>1. ~Cur(m)
      BY InSweep DEF Cur, Swept
    <3> QED
      BY <3>1 DEF Calm
  <2>2. <<m, 0>> \in DOMAIN objects /\ (rows[m].status = "ready" => Made(m, Previews(rows[m].side)))
    BY <1>1, <2>1 DEF Whole
  <2>3. \/ rows[m].status = "uploaded" /\ rows[m].previews = {}
        \/ rows[m].status = "ready" /\ rows[m].previews = Previews(rows[m].side)
    BY <1>1 DEF RowFits
  <2>4. Shown(m) \subseteq DOMAIN objects
    BY <2>2, <2>3 DEF Made, Shown
  <2>5. ASSUME rows[m].status = "ready", NEW k \in Shown(m) PROVE objects[k] = "clean"
    <3>1. CASE k = <<m, 0>>
      BY <2>2, <2>5, <3>1 DEF Made
    <3>2. CASE k # <<m, 0>>
      <4>1. PICK s \in rows[m].previews : k = <<m, s>>
        BY <2>5, <3>2 DEF Shown
      <4>2. s # 0
        BY <2>3, <4>1, PreviewsAreSizes, MediaAssumption
      <4> QED
        BY <1>2, <2>4, <2>5, <4>1, <4>2 DEF ObjectFits
    <3> QED
      BY <3>1, <3>2
  <2> QED
    BY <2>3, <2>4, <2>5
<1>5. NoObjectIsForgotten
  BY <1>2 DEF NoObjectIsForgotten, ObjectFits, Holding, WorkedOn
<1>6. MediaEventsAreToldOnce
  BY DEF MediaEventsAreToldOnce, MediaInv, ToldFits
<1>7. AdMediaAreLimited
  BY DEF AdMediaAreLimited, MediaInv, LimitFits
<1> QED
  BY <1>3, <1>4, <1>5, <1>6, <1>7 DEF MediaIsWhole

(***************************************************************************)
(* Catalog.  A category has grown when its row was written; it never grows *)
(* again.                                                                  *)
(***************************************************************************)
Grown(c) == c = Root \/ (c \in Request /\ (req[c] = Done \/ (req[c].op = "add category" /\ req[c].step = "invalidate")))
Kept(a) == a = Root \/ (a \in Request /\ req[a] = Done)

CategoryFits(c) ==
  /\ {"parent", "slug", "path", "level", "label"} \subseteq DOMAIN cats[c]
  /\ Grown(c) /\ cats[c].slug \in Slug /\ cats[c].label \in Label /\ cats[c].level \in Nat
  /\ cats[c].path \in Seq(Slug) /\ Len(cats[c].path) = cats[c].level + 1
  /\ cats[c].path[cats[c].level + 1] = cats[c].slug
  /\ cats[c].parent = None => cats[c].level = 0
  /\ cats[c].parent # None =>
       cats[c].parent \in DOMAIN cats /\ cats[c].path = Append(cats[cats[c].parent].path, cats[c].slug)
(* Of every length its path goes through, a category has an ancestor.      *)
Rooted(c) == \A n \in 0..cats[c].level : \E a \in Ancestors(c) : cats[a].level = n

TreeInv ==
  /\ \A c \in DOMAIN cats : CategoryFits(c) /\ Rooted(c)
  /\ \A c, d \in DOMAIN cats : cats[c].slug = cats[d].slug => c = d

AttributesInv ==
  /\ \A a \in DOMAIN attrs : Kept(a) /\ ValidOptions(attrs[a].type, attrs[a].options)
  /\ \A l \in links : l[1] \in DOMAIN cats /\ l[2] \in DOMAIN attrs

TreeRead(q) == req[q].op = "tree" =>
  /\ {"op", "step"} \subseteq DOMAIN req[q]
  /\ req[q].step = "set" /\ q \notin outrun => req[q].body = BuildTree(cats)

ReaderFits(q) == req[q].op \in Readers =>
  /\ {"op", "step", "cat"} \subseteq DOMAIN req[q] /\ Grown(req[q].cat)
  /\ req[q].step = "again" => "body" \in DOMAIN req[q]
  /\ q \notin outrun =>
       /\ req[q].op = "ad" /\ req[q].step # "check" => req[q].cat \in DOMAIN cats
       /\ req[q].cat \in DOMAIN cats =>
            /\ req[q].step = "options" => req[q].rows = Rows(req[q].cat)
            /\ req[q].step \in {"again", "set", "validate"} => req[q].body = Effective(req[q].cat)
  /\ req[q].op = "attrs" /\ req[q].step = "set" => req[q].at \in Nat /\ req[q].at <= gen

ChangeFits(q) ==
  /\ req[q].op \in CategoryChanges =>
       /\ {"op", "step", "cat", "slug", "label"} \subseteq DOMAIN req[q]
       /\ req[q].op # "delete category" => req[q].label \in Label
       /\ req[q].op = "add category" =>
            /\ req[q].slug \in Slug
            /\ req[q].cat # None => Grown(req[q].cat)
            /\ req[q].step = "write" /\ req[q].cat # None /\ req[q].cat \in DOMAIN cats =>
                 req[q].row.path = cats[req[q].cat].path /\ req[q].row.level = cats[req[q].cat].level
  /\ req[q].op \in AttributeChanges \cup {"add attribute"} => {"op", "step", "body"} \subseteq DOMAIN req[q]
  /\ req[q].op = "update attribute" =>
       /\ req[q].step = "read" => {"type", "options"} \subseteq DOMAIN req[q].body
       /\ req[q].step = "write" => ValidOptions(req[q].body.type, req[q].body.options)

KeyFits(key) ==
  /\ key = <<key[1], key[2]>> /\ key[1] \in Nat /\ key[1] <= gen /\ Grown(key[2])
  /\ key[1] = gen /\ key[2] \in DOMAIN cats /\ key \notin doubtful /\ ~Changing(AttributeChanges)
       => attrCache[key] = Effective(key[2])

TreeCached == ~Changing(CategoryChanges) /\ TreeKey \notin doubtful => TreeIsExact

CatalogInv ==
  /\ TreeInv
  /\ AttributesInv
  /\ \A q \in Request : TreeRead(q) /\ ReaderFits(q) /\ ChangeFits(q)
  /\ TreeCached /\ \A key \in DOMAIN attrCache : KeyFits(key)
  /\ gen \in Nat /\ DOMAIN ads \subseteq Request /\ outrun \subseteq Request

(***************************************************************************)
(* Paths.                                                                  *)
(***************************************************************************)
LEMMA PrefixIs ==
  ASSUME NEW S, NEW s \in Seq(S), NEW t \in Seq(S)
  PROVE  IsPrefix(s, t) <=> Len(s) <= Len(t) /\ \A i \in 1..Len(s) : s[i] = t[i]
<1>1. CASE Len(s) <= Len(t)
  <2>1. PICK n : n = Len(s) /\ n \in Nat
    BY LenProperties
  <2>2. PICK u : u = SubSeq(t, 1, n)
    OBVIOUS
  <2>3. \A i \in 1..n : t[i] \in S
    BY <1>1, <2>1, LenProperties, ElementOfSeq
  <2>4. u \in Seq(S) /\ Len(u) = n /\ \A i \in 1..n : u[i] = t[i]
    <3>1. /\ SubSeq(t, 1, n) \in Seq(S) /\ Len(SubSeq(t, 1, n)) = IF 1 <= n THEN n - 1 + 1 ELSE 0
          /\ \A i \in 1..(n - 1 + 1) : SubSeq(t, 1, n)[i] = t[1 + i - 1]
      BY <2>1, <2>3, SubSeqProperties
    <3> QED
      BY <2>1, <2>2, <3>1
  <2>5. u = s <=> \A i \in 1..n : u[i] = s[i]
    <3>1. ASSUME \A i \in 1..n : u[i] = s[i] PROVE u = s
      BY <2>1, <2>4, <3>1, SeqEqual
    <3> QED
      BY <3>1
  <2> QED
    BY <1>1, <2>1, <2>2, <2>4, <2>5 DEF IsPrefix
<1>2. CASE ~(Len(s) <= Len(t))
  BY <1>2 DEF IsPrefix
<1> QED
  BY <1>1, <1>2

(* The levels of the categories on a path.                                 *)
LEMMA PathIs ==
  ASSUME NEW c \in DOMAIN cats, CategoryFits(c)
  PROVE  /\ cats[c].path \in Seq(Slug) /\ cats[c].level \in Nat /\ Len(cats[c].path) = cats[c].level + 1
         /\ cats[c].path[cats[c].level + 1] = cats[c].slug
  BY DEF CategoryFits

(* An ancestor has a path that begins the path of the category.            *)
LEMMA AncestorIs ==
  ASSUME NEW c \in DOMAIN cats, NEW a \in DOMAIN cats, CategoryFits(c), CategoryFits(a)
  PROVE  a \in Ancestors(c) <=> /\ cats[a].level <= cats[c].level
                                /\ \A i \in 1..(cats[a].level + 1) : cats[a].path[i] = cats[c].path[i]
<1>1. PICK s, t, m, n : s = cats[a].path /\ t = cats[c].path /\ m = cats[a].level /\ n = cats[c].level
  OBVIOUS
<1>2. s \in Seq(Slug) /\ t \in Seq(Slug) /\ m \in Nat /\ n \in Nat /\ Len(s) = m + 1 /\ Len(t) = n + 1
  BY <1>1, PathIs
<1>3. IsPrefix(s, t) <=> Len(s) <= Len(t) /\ \A i \in 1..Len(s) : s[i] = t[i]
  BY <1>2, PrefixIs
<1>4. IsPrefix(s, t) <=> m <= n /\ \A i \in 1..(m + 1) : s[i] = t[i]
  BY <1>2, <1>3
<1> QED
  BY <1>1, <1>4 DEF Ancestors

(* The path of a category, and the path of its parent.                     *)
LEMMA ParentIs ==
  ASSUME NEW c \in DOMAIN cats, CategoryFits(c), cats[c].parent # None, NEW p, p = cats[c].parent,
         p \in DOMAIN cats => CategoryFits(p)
  PROVE  /\ p \in DOMAIN cats /\ cats[c].level = cats[p].level + 1
         /\ \A i \in 1..(cats[p].level + 1) : cats[c].path[i] = cats[p].path[i]
<1>1. p \in DOMAIN cats /\ cats[c].path = Append(cats[p].path, cats[c].slug) /\ cats[c].slug \in Slug
  BY DEF CategoryFits
<1>2. PICK s, t, e, m, n : /\ s = cats[p].path /\ t = cats[c].path /\ e = cats[c].slug
                           /\ m = cats[p].level /\ n = cats[c].level
  OBVIOUS
<1>3. s \in Seq(Slug) /\ t \in Seq(Slug) /\ m \in Nat /\ n \in Nat /\ Len(s) = m + 1 /\ Len(t) = n + 1
  BY <1>1, <1>2, PathIs
<1>4. t = Append(s, e) /\ e \in Slug
  BY <1>1, <1>2
<1>5. Len(t) = Len(s) + 1 /\ \A i \in 1..Len(s) : t[i] = s[i]
  BY <1>3, <1>4, AppendProperties
<1>6. n = m + 1 /\ \A i \in 1..(m + 1) : t[i] = s[i]
  BY <1>3, <1>5
<1> QED
  BY <1>1, <1>2, <1>6

(* A category has no other ancestor on its own level: its slug is its own. *)
LEMMA SameLevel ==
  ASSUME TreeInv, NEW c \in DOMAIN cats, NEW a \in Ancestors(c), cats[a].level = cats[c].level
  PROVE  a = c
<1>1. a \in DOMAIN cats /\ CategoryFits(c) /\ CategoryFits(a)
  BY DEF TreeInv, Ancestors
<1>2. \A i \in 1..(cats[a].level + 1) : cats[a].path[i] = cats[c].path[i]
  BY <1>1, AncestorIs
<1>3. PICK n : n = cats[a].level /\ n \in Nat
  BY <1>1, PathIs
<1>4. cats[a].slug = cats[c].slug
  <2>1. cats[a].path[n + 1] = cats[c].path[n + 1]
    BY <1>2, <1>3
  <2>2. cats[a].path[n + 1] = cats[a].slug
    BY <1>1, <1>3, PathIs
  <2>3. cats[c].path[n + 1] = cats[c].slug
    BY <1>1, <1>3, PathIs
  <2> QED
    BY <2>1, <2>2, <2>3
<1> QED
  BY <1>1, <1>4 DEF TreeInv

(* A category counts among its ancestors.                                  *)
LEMMA SelfIsAncestor ==
  ASSUME TreeInv, NEW c \in DOMAIN cats
  PROVE  c \in Ancestors(c)
<1>1. CategoryFits(c)
  BY DEF TreeInv
<1>2. cats[c].level <= cats[c].level
  BY <1>1, PathIs
<1> QED
  BY <1>1, <1>2, AncestorIs

(* What a category inherits from is itself and what its parent inherits    *)
(* from.                                                                   *)
LEMMA AncestorsFollow ==
  ASSUME TreeInv, NEW c \in DOMAIN cats
  PROVE  /\ cats[c].parent = None => Ancestors(c) = {c} /\ cats[c].level = 0
         /\ cats[c].parent # None =>
              /\ cats[c].parent \in DOMAIN cats /\ Ancestors(c) = {c} \cup Ancestors(cats[c].parent)
              /\ cats[c].level = cats[cats[c].parent].level + 1
<1>1. \A d \in DOMAIN cats : CategoryFits(d)
  BY DEF TreeInv
<1>2. c \in Ancestors(c)
  BY SelfIsAncestor
<1>3. Ancestors(c) \subseteq DOMAIN cats
  BY DEF Ancestors
<1>4. ASSUME cats[c].parent = None PROVE Ancestors(c) = {c} /\ cats[c].level = 0
  <2>1. cats[c].level = 0
    BY <1>1, <1>4 DEF CategoryFits
  <2>2. ASSUME NEW a \in Ancestors(c) PROVE a = c
    <3>1. cats[a].level \in Nat /\ cats[a].level <= cats[c].level
      BY <1>1, <1>3, AncestorIs, PathIs
    <3>2. cats[a].level = cats[c].level
      BY <2>1, <3>1
    <3> QED
      BY <3>2, SameLevel
  <2> QED
    BY <1>2, <2>1, <2>2
<1>5. ASSUME cats[c].parent # None, NEW p, p = cats[c].parent
      PROVE  p \in DOMAIN cats /\ Ancestors(c) = {c} \cup Ancestors(p) /\ cats[c].level = cats[p].level + 1
  <2>1. /\ p \in DOMAIN cats /\ cats[c].level = cats[p].level + 1
        /\ \A i \in 1..(cats[p].level + 1) : cats[c].path[i] = cats[p].path[i]
    BY <1>1, <1>5, ParentIs
  <2>2. PICK n : n = cats[p].level /\ n \in Nat
    BY <1>1, <2>1, PathIs
  <2>3. ASSUME NEW a \in DOMAIN cats, cats[a].level <= n
        PROVE  a \in Ancestors(c) <=> a \in Ancestors(p)
    <3>1. PICK m : m = cats[a].level /\ m \in Nat
      BY <1>1, PathIs
    <3>2. a \in Ancestors(c) <=> \A i \in 1..(m + 1) : cats[a].path[i] = cats[c].path[i]
      BY <1>1, <2>1, <2>2, <2>3, <3>1, AncestorIs
    <3>3. a \in Ancestors(p) <=> \A i \in 1..(m + 1) : cats[a].path[i] = cats[p].path[i]
      BY <1>1, <2>1, <2>2, <2>3, <3>1, AncestorIs
    <3>4. \A i \in 1..(m + 1) : cats[c].path[i] = cats[p].path[i]
      BY <2>1, <2>2, <2>3, <3>1
    <3> QED
      BY <3>2, <3>3, <3>4
  <2>4. ASSUME NEW a \in Ancestors(c), a # c PROVE a \in Ancestors(p)
    <3>1. a \in DOMAIN cats /\ cats[a].level \in Nat /\ cats[a].level <= cats[c].level /\ cats[a].level # cats[c].level
      BY <1>1, <1>3, <2>4, AncestorIs, PathIs, SameLevel
    <3>2. cats[a].level <= n
      BY <2>1, <2>2, <3>1
    <3> QED
      BY <2>3, <2>4, <3>1, <3>2
  <2>5. ASSUME NEW a \in Ancestors(p) PROVE a \in Ancestors(c)
    <3>1. a \in DOMAIN cats
      BY <2>5 DEF Ancestors
    <3>2. cats[a].level <= n
      BY <1>1, <2>1, <2>2, <2>5, <3>1, AncestorIs
    <3> QED
      BY <2>3, <2>5, <3>1, <3>2
  <2> QED
    BY <1>2, <2>1, <2>4, <2>5
<1> QED
  BY <1>4, <1>5

(* A category under which others are has a child.                          *)
LEMMA AncestorHasChild ==
  ASSUME TreeInv, NEW d \in DOMAIN cats, NEW x \in Ancestors(d), x # d
  PROVE  Children(x) # {}
<1>1. \A c \in DOMAIN cats : CategoryFits(c)
  BY DEF TreeInv
<1>2. x \in DOMAIN cats
  BY DEF Ancestors
<1>3. PICK m, n : m = cats[x].level /\ n = cats[d].level /\ m \in Nat /\ n \in Nat
  BY <1>1, <1>2, PathIs
<1>4. m < n
  BY <1>1, <1>2, <1>3, AncestorIs, SameLevel
<1>5. PICK b \in Ancestors(d) : cats[b].level = m + 1
  BY <1>3, <1>4 DEF TreeInv, Rooted
<1>6. b \in DOMAIN cats
  BY DEF Ancestors
<1>7. PICK p : p = cats[b].parent
  OBVIOUS
<1>8. p # None
  <2>1. cats[b].level # 0
    BY <1>3, <1>5
  <2> QED
    BY <1>1, <1>6, <1>7, <2>1 DEF CategoryFits
<1>9. /\ p \in DOMAIN cats /\ cats[b].level = cats[p].level + 1
      /\ \A i \in 1..(cats[p].level + 1) : cats[b].path[i] = cats[p].path[i]
  BY <1>1, <1>6, <1>7, <1>8, ParentIs
<1>10. cats[p].level = m
  <2>1. cats[p].level \in Nat
    BY <1>1, <1>9, PathIs
  <2> QED
    BY <1>3, <1>5, <1>9, <2>1
<1>11. cats[p].slug = cats[x].slug
  <2>1. cats[x].path[m + 1] = cats[d].path[m + 1]
    BY <1>1, <1>2, <1>3, AncestorIs
  <2>2. cats[b].path[m + 1] = cats[d].path[m + 1]
    BY <1>1, <1>3, <1>5, <1>6, AncestorIs
  <2>3. cats[b].path[m + 1] = cats[p].path[m + 1]
    BY <1>3, <1>9, <1>10
  <2>4. cats[p].path[m + 1] = cats[p].slug
    BY <1>1, <1>9, <1>10, PathIs
  <2>5. cats[x].path[m + 1] = cats[x].slug
    BY <1>1, <1>2, <1>3, PathIs
  <2> QED
    BY <2>1, <2>2, <2>3, <2>4, <2>5
<1>12. p = x
  BY <1>2, <1>9, <1>11 DEF TreeInv
<1> QED
  BY <1>6, <1>7, <1>12 DEF Children

(* Every slug on a path is the slug of a category.                         *)
LEMMA PathIsTaken ==
  ASSUME TreeInv, NEW d \in DOMAIN cats, NEW i \in 1..(cats[d].level + 1)
  PROVE  SlugTaken(cats[d].path[i])
<1>1. \A c \in DOMAIN cats : CategoryFits(c)
  BY DEF TreeInv
<1>2. PICK n : n = cats[d].level /\ n \in Nat
  BY <1>1, PathIs
<1>3. PICK k : k = i - 1 /\ k \in 0..n
  BY <1>2
<1>4. PICK a \in Ancestors(d) : cats[a].level = k
  BY <1>2, <1>3 DEF TreeInv, Rooted
<1>5. a \in DOMAIN cats
  BY DEF Ancestors
<1>6. cats[a].path[k + 1] = cats[d].path[k + 1]
  <2>1. k + 1 \in 1..(k + 1)
    BY <1>2, <1>3
  <2> QED
    BY <1>1, <1>4, <1>5, <2>1, AncestorIs
<1>7. cats[a].path[k + 1] = cats[a].slug
  BY <1>1, <1>4, <1>5, PathIs
<1>8. k + 1 = i
  BY <1>2, <1>3
<1> QED
  BY <1>5, <1>6, <1>7, <1>8 DEF SlugTaken

(***************************************************************************)
(* What the steps of a request leave to the others.                        *)
(***************************************************************************)
Grows == \A c : (Grown(c) => Grown(c)') /\ (Kept(c) => Kept(c)')
Steady(c) == Rows(c)' = Rows(c) /\ Effective(c)' = Effective(c)
Fits(q) == TreeRead(q) /\ ReaderFits(q) /\ ChangeFits(q)

(* What a request that goes on may take as it was.                         *)
Old(p) ==
  /\ \A c \in DOMAIN cats' : Grown(c) =>
       /\ c \in DOMAIN cats /\ cats'[c].path = cats[c].path /\ cats'[c].level = cats[c].level
       /\ p \in ReadersOf(Readers) \ outrun' => Steady(c)
  /\ \A c \in DOMAIN cats : p \in Checked(c) \ outrun' => c \in DOMAIN cats'
  /\ p \in ReadersOf({"tree"}) \ outrun' => BuildTree(cats)' = BuildTree(cats)

(* What a category inherits stays when its ancestors and what is linked to *)
(* them do.                                                                *)
LEMMA EffectiveStays ==
  ASSUME NEW c, Ancestors(c)' = Ancestors(c), UNCHANGED attrs, links' \subseteq links,
         \A l \in links : l[1] \in Ancestors(c) => l \in links'
  PROVE  Steady(c)
<1>1. Linked(c)' = Linked(c)
  BY DEF Linked
<1>2. Rows(c)' = Rows(c)
  BY <1>1 DEF Rows
<1>3. Options(Linked(c))' = Options(Linked(c))
  BY <1>1 DEF Options
<1> QED
  BY <1>2, <1>3 DEF Steady, Effective, Specified

(* It stays when no table is written.                                      *)
LEMMA TablesStay ==
  ASSUME UNCHANGED tables, NEW c
  PROVE  Steady(c) /\ Ancestors(c)' = Ancestors(c) /\ BuildTree(cats)' = BuildTree(cats)
<1>1. cats' = cats /\ attrs' = attrs /\ links' = links
  BY DEF tables
<1>2. Ancestors(c)' = Ancestors(c)
  BY <1>1 DEF Ancestors
<1>3. BuildTree(cats)' = BuildTree(cats)
  BY <1>1 DEF BuildTree
<1> QED
  BY <1>1, <1>2, <1>3, EffectiveStays

(* What was read of the tables is still so when none is written.           *)
LEMMA OldTables ==
  ASSUME UNCHANGED tables, NEW p
  PROVE  Old(p)
<1>1. cats' = cats
  BY DEF tables
<1> QED
  BY <1>1, TablesStay DEF Old

(* What a reader of the tree read is still what there is, unless it was    *)
(* outrun, ...                                                             *)
LEMMA TreeReadStays ==
  ASSUME NEW p \in Request, TreeRead(p), req'[p] = req[p], Old(p), outrun \subseteq outrun'
  PROVE  TreeRead(p)'
<1> SUFFICES ASSUME req[p].op = "tree", req[p].step = "set", p \notin outrun'
             PROVE  req[p].body = BuildTree(cats)'
  BY DEF TreeRead
<1>1. req[p].body = BuildTree(cats)
  BY DEF TreeRead
<1>2. p \in ReadersOf({"tree"}) \ outrun'
  BY DEF ReadersOf
<1> QED
  BY <1>1, <1>2 DEF Old

(* ... what a reader of attributes read is, ...                            *)
LEMMA ReaderStays ==
  ASSUME NEW p \in Request, ReaderFits(p), req'[p] = req[p], Old(p), outrun \subseteq outrun', Grows,
         gen \in Nat, gen' \in Nat, gen <= gen'
  PROVE  ReaderFits(p)'
<1> SUFFICES ASSUME req[p].op \in Readers
             PROVE  ReaderFits(p)'
  BY DEF ReaderFits, Readers
<1>1. PICK c : c = req[p].cat
  OBVIOUS
<1>2. {"op", "step", "cat"} \subseteq DOMAIN req[p] /\ Grown(c) /\ Grown(c)'
      /\ (req[p].step = "again" => "body" \in DOMAIN req[p])
  BY <1>1 DEF ReaderFits, Grows
<1>3. req[p].op = "attrs" /\ req[p].step = "set" => req[p].at \in Nat /\ req[p].at <= gen'
  BY DEF ReaderFits
<1>4. ASSUME p \notin outrun', req[p].op = "ad", req[p].step # "check" PROVE c \in DOMAIN cats'
  <2>1. c \in DOMAIN cats /\ p \in Checked(c)
    BY <1>1, <1>4 DEF ReaderFits, Checked
  <2> QED
    BY <1>4, <2>1 DEF Old
<1>5. ASSUME p \notin outrun', c \in DOMAIN cats', req[p].step \in {"options", "again", "set", "validate"}
      PROVE  c \in DOMAIN cats /\ p \notin outrun /\ Rows(c)' = Rows(c) /\ Effective(c)' = Effective(c)
  <2>1. p \in ReadersOf(Readers) \ outrun'
    BY <1>5 DEF ReadersOf
  <2> QED
    BY <1>2, <1>5, <2>1 DEF Old, Steady
<1>6. ASSUME p \notin outrun', c \in DOMAIN cats'
      PROVE  /\ req[p].step = "options" => req[p].rows = Rows(c)'
             /\ req[p].step \in {"again", "set", "validate"} => req[p].body = Effective(c)'
  BY <1>1, <1>5, <1>6 DEF ReaderFits
<1> QED
  BY <1>1, <1>2, <1>3, <1>4, <1>6 DEF ReaderFits

(* ... and what a change of the catalog checked is.                        *)
LEMMA ChangeStays ==
  ASSUME NEW p \in Request, ChangeFits(p), req'[p] = req[p], Old(p), Grows
  PROVE  ChangeFits(p)'
<1>1. ASSUME req[p].op = "add category", NEW c, c = req[p].cat, c # None
      PROVE  /\ Grown(c)'
             /\ req[p].step = "write" /\ c \in DOMAIN cats' =>
                  req[p].row.path = cats'[c].path /\ req[p].row.level = cats'[c].level
  <2>1. Grown(c)
    BY <1>1 DEF ChangeFits, CategoryChanges
  <2>2. Grown(c)'
    BY <2>1 DEF Grows
  <2>3. ASSUME req[p].step = "write", c \in DOMAIN cats'
        PROVE  req[p].row.path = cats'[c].path /\ req[p].row.level = cats'[c].level
    <3>1. c \in DOMAIN cats /\ cats'[c].path = cats[c].path /\ cats'[c].level = cats[c].level
      BY <2>1, <2>3 DEF Old
    <3> QED
      BY <1>1, <2>3, <3>1 DEF ChangeFits, CategoryChanges
  <2> QED
    BY <2>2, <2>3
<1>2. PICK c : c = req[p].cat
  OBVIOUS
<1> QED
  BY <1>1, <1>2 DEF ChangeFits

(* So what a request has in hand stays good.                               *)
LEMMA FitsStay ==
  ASSUME NEW p \in Request, Fits(p), req'[p] = req[p], Old(p), outrun \subseteq outrun', Grows,
         gen \in Nat, gen' \in Nat, gen <= gen'
  PROVE  Fits(p)'
  BY TreeReadStays, ReaderStays, ChangeStays DEF Fits

(* A request that is done asks for nothing.                                *)
LEMMA DoneFits ==
  ASSUME NEW q \in Request, req'[q] = Done
  PROVE  Fits(q)'
<1>1. req'[q].op = "done"
  BY DEF Done
<1> QED
  BY <1>1 DEF Fits, TreeRead, ReaderFits, ChangeFits, Readers, CategoryChanges, AttributeChanges

(* No id is used again.                                                    *)
LEMMA GrowsOn ==
  ASSUME NEW q \in Request, \A p \in Request : p # q => req'[p] = req[p],
         req[q] = Done => req'[q] = Done, ~Grown(q) \/ req'[q] = Done
  PROVE  Grows
<1>1. ASSUME NEW c, Grown(c) PROVE Grown(c)'
  BY <1>1 DEF Grown
<1>2. ASSUME NEW c, Kept(c) PROVE Kept(c)'
  BY <1>2 DEF Kept
<1> QED
  BY <1>1, <1>2 DEF Grows

(* A change that has yet to invalidate stays one.                          *)
LEMMA ChangingStays ==
  ASSUME NEW q \in Request, \A p \in Request : p # q => req'[p] = req[p], NEW ops,
         ~(req[q].op \in ops /\ req[q].step = "invalidate"), Changing(ops)
  PROVE  Changing(ops)'
  BY DEF Changing

(* The tree stays a tree when no category is written.                      *)
LEMMA TreeStays ==
  ASSUME TreeInv, UNCHANGED cats, Grows
  PROVE  TreeInv'
<1>1. \A c \in DOMAIN cats : CategoryFits(c)' /\ Rooted(c)'
  BY DEF TreeInv, CategoryFits, Rooted, Ancestors, Grows
<1> QED
  BY <1>1 DEF TreeInv

(* Attributes and their links stay good when no table is written.          *)
LEMMA AttributesStay ==
  ASSUME AttributesInv, UNCHANGED tables, Grows
  PROVE  AttributesInv'
  BY DEF AttributesInv, tables, Grows

(* The caches stay true when neither they nor the tables are written.      *)
LEMMA CachesStay ==
  ASSUME TreeCached, \A key \in DOMAIN attrCache : KeyFits(key), UNCHANGED <<tables, caches, doubtful>>, Grows,
         Changing(CategoryChanges) => Changing(CategoryChanges)',
         Changing(AttributeChanges) => Changing(AttributeChanges)'
  PROVE  TreeCached' /\ \A key \in DOMAIN attrCache' : KeyFits(key)'
<1>1. cats' = cats /\ UNCHANGED <<treeCache, attrCache, gen, doubtful>>
  BY DEF tables, caches
<1>2. TreeCached'
  BY <1>1 DEF TreeCached, TreeIsExact, BuildTree
<1>3. ASSUME NEW key \in DOMAIN attrCache PROVE KeyFits(key)'
  <2>1. PICK c : c = key[2]
    OBVIOUS
  <2>2. Effective(c)' = Effective(c)
    BY TablesStay DEF Steady
  <2>3. KeyFits(key) /\ (Grown(c) => Grown(c)')
    BY DEF Grows
  <2> QED
    BY <1>1, <2>1, <2>2, <2>3 DEF KeyFits
<1> QED
  BY <1>1, <1>2, <1>3

(* The step of a request that leaves the rows alone.                       *)
LEMMA CatalogGoesOn ==
  ASSUME CatalogInv, NEW q \in Request, \A p \in Request : p # q => req'[p] = req[p], Fits(q)',
         UNCHANGED <<tables, outrun>>, Grows, gen' \in Nat, gen <= gen', DOMAIN ads' \subseteq Request,
         TreeCached', \A key \in DOMAIN attrCache' : KeyFits(key)'
  PROVE  CatalogInv'
<1>1. ASSUME NEW p \in Request PROVE Fits(p)'
  <2>1. CASE p = q
    BY <2>1
  <2>2. CASE p # q
    BY <2>2, OldTables, FitsStay DEF CatalogInv, Fits
  <2> QED
    BY <2>1, <2>2
<1>2. TreeInv' /\ AttributesInv'
  BY TreeStays, AttributesStay DEF CatalogInv, tables
<1> QED
  BY <1>1, <1>2 DEF CatalogInv, Fits

(* A request that only reads.                                              *)
LEMMA CatalogReads ==
  ASSUME CatalogInv, NEW q \in Request, \A p \in Request : p # q => req'[p] = req[p], Fits(q)',
         req[q] # Done, req[q].step # "invalidate" \/ req[q].op \notin CategoryChanges \cup AttributeChanges,
         UNCHANGED <<tables, caches, outrun, doubtful>>, DOMAIN ads' \subseteq Request
  PROVE  CatalogInv'
<1>1. ~Grown(q)
  BY RequestAssumption DEF Grown, Root, CategoryChanges
<1>2. Grows
  BY <1>1, GrowsOn
<1>3. /\ Changing(CategoryChanges) => Changing(CategoryChanges)'
      /\ Changing(AttributeChanges) => Changing(AttributeChanges)'
  BY ChangingStays
<1>4. gen' = gen /\ gen \in Nat
  BY DEF caches, CatalogInv
<1>5. TreeCached' /\ \A key \in DOMAIN attrCache' : KeyFits(key)'
  BY <1>2, <1>3, CachesStay DEF CatalogInv
<1> QED
  BY <1>2, <1>4, <1>5, CatalogGoesOn

(* A request goes on to its next step, ...                                 *)
LEMMA GoesOn ==
  ASSUME RequestsOK, NEW q \in Request, "step" \in DOMAIN req[q], NEW step, Proceed(q, step)
  PROVE  /\ DOMAIN req'[q] = DOMAIN req[q] /\ req'[q].step = step
         /\ \A x \in DOMAIN req[q] : x # "step" => req'[q][x] = req[q][x]
         /\ \A p \in Request : p # q => req'[p] = req[p]
<1>1. PICK r, s : r = req[q] /\ s = req'[q]
  OBVIOUS
<1>2. s = [r EXCEPT !.step = step] /\ \A p \in Request : p # q => req'[p] = req[p]
  BY <1>1, Proceeds
<1>3. DOMAIN s = DOMAIN r /\ s.step = step /\ \A x \in DOMAIN r : x # "step" => s[x] = r[x]
  BY <1>1, <1>2
<1> QED
  BY <1>1, <1>2, <1>3

(* ... with more in hand.                                                  *)
LEMMA TurnsWith ==
  ASSUME RequestsOK, NEW q \in Request, NEW f, "op" \notin DOMAIN f, Turn(q, With(req[q], f))
  PROVE  /\ DOMAIN req'[q] = DOMAIN req[q] \cup DOMAIN f
         /\ \A x \in DOMAIN f : req'[q][x] = f[x]
         /\ \A x \in DOMAIN req[q] \ DOMAIN f : req'[q][x] = req[q][x]
         /\ \A p \in Request : p # q => req'[p] = req[p]
<1>1. PICK r : r = With(req[q], f)
  OBVIOUS
<1>2. "op" \in DOMAIN r /\ Turn(q, r)
  BY <1>1, WithOp DEF RequestsOK
<1>3. req'[q] = r /\ \A p \in Request : p # q => req'[p] = req[p]
  BY <1>2, Turns
<1>4. PICK b, s : b = req[q] /\ s = req'[q]
  OBVIOUS
<1>5. s = With(b, f)
  BY <1>1, <1>3, <1>4
<1>6. /\ DOMAIN s = DOMAIN b \cup DOMAIN f /\ \A x \in DOMAIN f : s[x] = f[x]
      /\ \A x \in DOMAIN b \ DOMAIN f : s[x] = b[x]
  BY <1>5 DEF With
<1> QED
  BY <1>3, <1>4, <1>6

(* What is asked.                                                          *)
LEMMA AskedFits ==
  ASSUME CatalogInv, RequestsOK, NEW q \in Request, Fresh(q), NEW r, Turn(q, r), "op" \in DOMAIN r,
         UNCHANGED catalogVars, req'[q] = r => Fits(q)'
  PROVE  CatalogInv'
<1>1. req'[q] = r /\ \A p \in Request : p # q => req'[p] = req[p]
  BY Turns
<1>2. req[q].op = "idle" /\ req[q] # Done
  BY DEF Fresh, Idle, Done
<1>3. req[q].op \notin CategoryChanges \cup AttributeChanges
  BY <1>2 DEF CategoryChanges, AttributeChanges
<1>4. UNCHANGED <<tables, caches, outrun, doubtful>> /\ ads' = ads
  BY DEF catalogVars, catalogHistory
<1> QED
  BY <1>1, <1>2, <1>3, <1>4, CatalogReads DEF CatalogInv

(* An id that is known stays known.                                        *)
LEMMA KnownStay ==
  ASSUME CatalogInv, RequestsOK, NEW q \in Request, Fresh(q), NEW r, Turn(q, r), "op" \in DOMAIN r,
         NEW c \in Known
  PROVE  Grown(c)'
<1>1. Grown(c)
  BY DEF CatalogInv, TreeInv, CategoryFits, Known, Grown
<1>2. c # q \/ c = Root
  <2>1. req[q] # Done /\ req[q].op # "add category"
    BY DEF Fresh, Idle, Done
  <2> QED
    BY <1>1, <2>1 DEF Grown
<1>3. \A p \in Request : p # q => req'[p] = req[p]
  BY Turns
<1> QED
  BY <1>1, <1>2, <1>3 DEF Grown

(* Somebody asks for the tree, for attributes or for an ad.                *)
LEMMA ReadAsked ==
  ASSUME CatalogInv, RequestsOK, NEW q \in Request,
         \/ AskTree(q)
         \/ \E c \in Known : AskAttributes(q, c) \/ \E values \in budget.values : AskAd(q, c, values)
  PROVE  CatalogInv'
<1>1. CASE AskTree(q)
  <2>1. PICK r : r = [op |-> "tree", step |-> "get"]
    OBVIOUS
  <2>2. Fresh(q) /\ Turn(q, r) /\ UNCHANGED catalogVars
    BY <1>1, <2>1 DEF AskTree
  <2>3. ASSUME req'[q] = r PROVE Fits(q)'
    BY <2>1, <2>3 DEF Fits, TreeRead, ReaderFits, ChangeFits, Readers, CategoryChanges, AttributeChanges
  <2>4. "op" \in DOMAIN r
    BY <2>1
  <2> QED
    BY <2>2, <2>3, <2>4, AskedFits
<1>2. ASSUME NEW c \in Known, AskAttributes(q, c) \/ \E values \in budget.values : AskAd(q, c, values)
      PROVE  CatalogInv'
  <2>1. PICK r : /\ Fresh(q) /\ Turn(q, r) /\ UNCHANGED catalogVars /\ r.step = "check" /\ r.cat = c
                 /\ {"op", "step", "cat"} \subseteq DOMAIN r /\ r.op \in {"attrs", "ad"}
    <3>1. CASE AskAttributes(q, c)
      <4>1. PICK r : r = [op |-> "attrs", step |-> "check", cat |-> c]
        OBVIOUS
      <4>2. Fresh(q) /\ Turn(q, r) /\ UNCHANGED catalogVars
        BY <3>1, <4>1 DEF AskAttributes
      <4>3. r.step = "check" /\ r.cat = c /\ {"op", "step", "cat"} \subseteq DOMAIN r /\ r.op \in {"attrs", "ad"}
        BY <4>1
      <4> QED
        BY <4>2, <4>3
    <3>2. CASE \E values \in budget.values : AskAd(q, c, values)
      <4>1. PICK values : AskAd(q, c, values)
        BY <3>2
      <4>2. PICK r : r = [op |-> "ad", step |-> "check", cat |-> c, values |-> values]
        OBVIOUS
      <4>3. Fresh(q) /\ Turn(q, r) /\ UNCHANGED catalogVars
        BY <4>1, <4>2 DEF AskAd
      <4>4. r.step = "check" /\ r.cat = c /\ {"op", "step", "cat"} \subseteq DOMAIN r /\ r.op \in {"attrs", "ad"}
        BY <4>2
      <4> QED
        BY <4>3, <4>4
    <3> QED
      BY <1>2, <3>1, <3>2
  <2>2. Grown(c)'
    BY <2>1, KnownStay
  <2>3. ASSUME req'[q] = r PROVE Fits(q)'
    <3>1. r.op \notin CategoryChanges /\ r.op \notin AttributeChanges \cup {"add attribute"} /\ r.op # "tree"
      BY <2>1 DEF CategoryChanges, AttributeChanges
    <3>2. TreeRead(q)' /\ ChangeFits(q)'
      BY <2>3, <3>1 DEF TreeRead, ChangeFits, AttributeChanges
    <3>3. ReaderFits(q)'
      BY <2>1, <2>2, <2>3 DEF ReaderFits
    <3> QED
      BY <3>2, <3>3 DEF Fits
  <2> QED
    BY <2>1, <2>3, AskedFits
<1> QED
  BY <1>1, <1>2

(* A request to change a category has nothing to show yet.                 *)
LEMMA CategoryIsAsked ==
  ASSUME CatalogInv, RequestsOK, NEW q \in Request, NEW op \in CategoryChanges, NEW c, NEW s, NEW l,
         AskCategory(q, op, c, s, l), op # "delete category" => l \in Label,
         op = "add category" => s \in Slug /\ c \in Known \cup {None}
  PROVE  CatalogInv'
<1>2. PICK r : r = [op |-> op, step |-> "read", cat |-> c, slug |-> s, label |-> l]
  OBVIOUS
<1>3. Fresh(q) /\ Turn(q, r) /\ UNCHANGED catalogVars
  BY <1>2 DEF AskCategory
<1>4. /\ DOMAIN r = {"op", "step", "cat", "slug", "label"} /\ r.op = op /\ r.step = "read" /\ r.cat = c
      /\ r.slug = s /\ r.label = l
  BY <1>2
<1>5. op = "add category" /\ c # None => Grown(c)'
  BY <1>3, <1>4, KnownStay
<1>6. ASSUME req'[q] = r PROVE Fits(q)'
  <2>1. op \notin AttributeChanges \cup {"add attribute"} /\ op # "tree" /\ op \notin Readers
    BY DEF CategoryChanges, AttributeChanges, Readers
  <2>2. TreeRead(q)' /\ ReaderFits(q)'
    BY <1>4, <1>6, <2>1 DEF TreeRead, ReaderFits, Readers
  <2>3. ChangeFits(q)'
    BY <1>4, <1>5, <1>6, <2>1 DEF ChangeFits, CategoryChanges, AttributeChanges
  <2> QED
    BY <2>2, <2>3 DEF Fits
<1> QED
  BY <1>3, <1>4, <1>6, AskedFits

(* An administrator asks to add, change or delete one.                     *)
LEMMA CategoryAsked ==
  ASSUME CatalogInv, RequestsOK, StoryFits(budget), NEW q \in Request,
         \/ \E c \in Known, l \in Label : AskCategory(q, "update category", c, None, l)
         \/ \E c \in Known \cup {None}, s \in budget.slugs : AskCategory(q, "add category", c, s, budget.label)
         \/ \E c \in Known : AskCategory(q, "delete category", c, None, None)
  PROVE  CatalogInv'
<1>1. "update category" \in CategoryChanges /\ "add category" \in CategoryChanges
      /\ "delete category" \in CategoryChanges
  BY DEF CategoryChanges
<1>2. budget.slugs \subseteq Slug /\ budget.label \in Label
  BY DEF StoryFits
<1>3. ASSUME NEW c, NEW l \in Label, AskCategory(q, "update category", c, None, l) PROVE CatalogInv'
  BY <1>1, <1>3, CategoryIsAsked
<1>4. ASSUME NEW c \in Known \cup {None}, NEW s \in budget.slugs,
             AskCategory(q, "add category", c, s, budget.label)
      PROVE  CatalogInv'
  BY <1>1, <1>2, <1>4, CategoryIsAsked
<1>5. ASSUME NEW c, AskCategory(q, "delete category", c, None, None) PROVE CatalogInv'
  BY <1>1, <1>5, CategoryIsAsked
<1> QED
  BY <1>3, <1>4, <1>5

(* A request to change an attribute has nothing to show yet.               *)
LEMMA AttributeIsAsked ==
  ASSUME CatalogInv, RequestsOK, NEW q \in Request, NEW op \in AttributeChanges \cup {"add attribute"},
         NEW c, NEW a, NEW body, AskAttribute(q, op, c, a, body),
         op = "update attribute" => {"type", "options"} \subseteq DOMAIN body
  PROVE  CatalogInv'
<1>2. PICK step : step = IF op = "link" THEN "check" ELSE "read"
  OBVIOUS
<1>3. PICK r : r = [op |-> op, step |-> step, cat |-> c, attr |-> a, body |-> body]
  OBVIOUS
<1>4. Fresh(q) /\ Turn(q, r) /\ UNCHANGED catalogVars
  BY <1>2, <1>3 DEF AskAttribute
<1>5. {"op", "step", "body"} \subseteq DOMAIN r /\ r.op = op /\ r.step = step /\ r.body = body
  BY <1>3
<1>6. ASSUME req'[q] = r PROVE Fits(q)'
  <2>1. op \notin CategoryChanges /\ op # "tree" /\ op \notin Readers
    BY DEF CategoryChanges, AttributeChanges, Readers
  <2>2. TreeRead(q)' /\ ReaderFits(q)'
    BY <1>5, <1>6, <2>1 DEF TreeRead, ReaderFits, Readers
  <2>3. ChangeFits(q)'
    BY <1>2, <1>5, <1>6, <2>1 DEF ChangeFits, CategoryChanges
  <2> QED
    BY <2>2, <2>3 DEF Fits
<1> QED
  BY <1>4, <1>5, <1>6, AskedFits

(* An administrator asks to add, change, delete, link or unlink one.       *)
LEMMA AttributeAsked ==
  ASSUME CatalogInv, RequestsOK, StoryFits(budget), NEW q \in Request,
         \/ \E body \in budget.bodies : AskAttribute(q, "add attribute", None, None, body)
         \/ \E a \in DOMAIN attrs, body \in budget.bodies : AskAttribute(q, "update attribute", None, a, body)
         \/ \E a \in DOMAIN attrs : AskAttribute(q, "delete attribute", None, a, None)
         \/ \E c \in Known, a \in DOMAIN attrs, op \in {"link", "unlink"} : AskAttribute(q, op, c, a, None)
  PROVE  CatalogInv'
<1>1. {"update attribute", "delete attribute", "link", "unlink"} = AttributeChanges
  BY DEF AttributeChanges
<1>2. \A body \in budget.bodies : {"type", "options"} \subseteq DOMAIN body
  BY DEF StoryFits
<1>3. ASSUME NEW body, AskAttribute(q, "add attribute", None, None, body) PROVE CatalogInv'
  BY <1>1, <1>3, AttributeIsAsked
<1>4. ASSUME NEW a, NEW body \in budget.bodies, AskAttribute(q, "update attribute", None, a, body)
      PROVE  CatalogInv'
  BY <1>1, <1>2, <1>4, AttributeIsAsked
<1>5. ASSUME NEW a, AskAttribute(q, "delete attribute", None, a, None) PROVE CatalogInv'
  BY <1>1, <1>5, AttributeIsAsked
<1>6. ASSUME NEW c, NEW a, NEW op \in {"link", "unlink"}, AskAttribute(q, op, c, a, None)
      PROVE  CatalogInv'
  BY <1>1, <1>6, AttributeIsAsked
<1> QED
  BY <1>3, <1>4, <1>5, <1>6

(* The catalog is asked.                                                   *)
LEMMA CatalogAsked ==
  ASSUME CatalogInv, RequestsOK, StoryFits(budget), NEW q \in Request, CatalogAsks(q)
  PROVE  CatalogInv'
<1>1. CASE \E input \in {"categories", "attributes"} : Refused(q, input)
  <2>1. Fresh(q) /\ Turn(q, Done) /\ UNCHANGED catalogVars
    BY <1>1 DEF Refused
  <2>2. "op" \in DOMAIN Done
    BY DEF Done
  <2> QED
    BY <2>1, <2>2, DoneFits, AskedFits
<1> QED
  BY <1>1, ReadAsked, CategoryAsked, AttributeAsked DEF CatalogAsks

(***************************************************************************)
(* The steps that only read.                                               *)
(***************************************************************************)
LEMMA ReadsDone ==
  ASSUME CatalogInv, RequestsOK, NEW q \in Request, Turn(q, Done), UNCHANGED <<tables, caches, outrun, doubtful>>,
         DOMAIN ads' \subseteq Request, req[q] # Done,
         req[q].step # "invalidate" \/ req[q].op \notin CategoryChanges \cup AttributeChanges
  PROVE  CatalogInv'
<1>1. req'[q] = Done /\ \A p \in Request : p # q => req'[p] = req[p]
  BY TurnsDone
<1> QED
  BY <1>1, DoneFits, CatalogReads

(* The tree is read from the cache or from the table.                      *)
LEMMA TreeReads ==
  ASSUME CatalogInv, RequestsOK, NEW q \in Request, GetTree(q) \/ AllCategories(q)
  PROVE  CatalogInv'
<1>1. /\ req[q].op = "tree" /\ req[q].step \in {"get", "rows"} /\ req[q] # Done
      /\ UNCHANGED <<tables, caches, outrun, doubtful>> /\ ads' = ads
  BY DEF GetTree, AllCategories, Asks, catalogVars, catalogHistory, Done
<1>2. DOMAIN ads' \subseteq Request /\ "step" \in DOMAIN req[q]
  BY <1>1 DEF CatalogInv, TreeRead
<1>3. CASE Turn(q, Done)
  BY <1>1, <1>2, <1>3, ReadsDone
<1>4. CASE GetTree(q) /\ ~Turn(q, Done)
  <2>1. Proceed(q, "rows")
    BY <1>4 DEF GetTree
  <2>2. req'[q].op = "tree" /\ req'[q].step = "rows" /\ DOMAIN req'[q] = DOMAIN req[q]
        /\ \A p \in Request : p # q => req'[p] = req[p]
    <3>1. "op" \in DOMAIN req[q]
      BY DEF RequestsOK
    <3> QED
      BY <1>1, <1>2, <2>1, <3>1, GoesOn
  <2>3. Fits(q)'
    <3>1. {"op", "step"} \subseteq DOMAIN req[q]
      BY <1>1 DEF CatalogInv, TreeRead
    <3> QED
      BY <2>2, <3>1 DEF Fits, TreeRead, ReaderFits, ChangeFits, Readers, CategoryChanges, AttributeChanges
  <2> QED
    BY <1>1, <1>2, <2>2, <2>3, CatalogReads
<1>5. CASE AllCategories(q)
  <2>1. PICK b, r : b = BuildTree(cats) /\ r = [op |-> "tree", step |-> "set", body |-> b] /\ Turn(q, r)
    BY <1>5 DEF AllCategories
  <2>2. r.op = "tree" /\ r.step = "set" /\ r.body = b /\ {"op", "step"} \subseteq DOMAIN r
    BY <2>1
  <2>3. req'[q] = r /\ \A p \in Request : p # q => req'[p] = req[p]
    BY <2>1, <2>2, Turns
  <2>4. BuildTree(cats)' = b
    BY <1>1, <2>1, TablesStay
  <2>5. TreeRead(q)'
    BY <2>2, <2>3, <2>4 DEF TreeRead
  <2>6. Fits(q)'
    BY <2>2, <2>3, <2>5 DEF Fits, ReaderFits, ChangeFits, Readers, CategoryChanges, AttributeChanges
  <2> QED
    BY <1>1, <1>2, <2>3, <2>6, CatalogReads
<1> QED
  BY <1>3, <1>4, <1>5

(* A reader of attributes goes on to what it has read.                     *)
LEMMA ReaderGoesOn ==
  ASSUME CatalogInv, NEW q \in Request, req[q].op \in Readers, req[q] # Done,
         \A p \in Request : p # q => req'[p] = req[p],
         {"op", "step", "cat"} \subseteq DOMAIN req'[q], req'[q].op = req[q].op, req'[q].cat = req[q].cat,
         UNCHANGED <<tables, caches, outrun, doubtful>>, ads' = ads,
         req'[q].step = "again" => "body" \in DOMAIN req'[q],
         q \notin outrun =>
           /\ req[q].op = "ad" /\ req'[q].step # "check" => req[q].cat \in DOMAIN cats
           /\ req[q].cat \in DOMAIN cats =>
                /\ req'[q].step = "options" => req'[q].rows = Rows(req[q].cat)
                /\ req'[q].step \in {"again", "set", "validate"} => req'[q].body = Effective(req[q].cat),
         req[q].op = "attrs" /\ req'[q].step = "set" => req'[q].at \in Nat /\ req'[q].at <= gen
  PROVE  CatalogInv'
<1>1. req[q].op \notin CategoryChanges \cup AttributeChanges
  BY DEF Readers, CategoryChanges, AttributeChanges
<1>2. Grown(req[q].cat) /\ ~Grown(q)
  <2>1. req[q].op # "add category" /\ q # Root
    BY RequestAssumption DEF Readers, Root
  <2>2. Grown(req[q].cat)
    BY DEF CatalogInv, ReaderFits
  <2> QED
    BY <2>1, <2>2 DEF Grown
<1>3. Grows
  BY <1>2, GrowsOn
<1>4. PICK c : c = req[q].cat
  OBVIOUS
<1>5. cats' = cats /\ gen' = gen /\ outrun' = outrun
  BY DEF tables, caches
<1>6. Rows(c)' = Rows(c) /\ Effective(c)' = Effective(c) /\ Grown(c)'
  BY <1>2, <1>3, <1>4, TablesStay DEF Steady, Grows
<1>7. ReaderFits(q)'
  <2>1. req'[q].cat = c /\ req[q].cat = c
    BY <1>4
  <2> QED
    BY <1>5, <1>6, <2>1 DEF ReaderFits
<1>8. Fits(q)'
  BY <1>7 DEF Fits, TreeRead, ChangeFits, Readers, CategoryChanges, AttributeChanges
<1>9. DOMAIN ads' \subseteq Request
  BY DEF CatalogInv
<1> QED
  BY <1>1, <1>8, <1>9, CatalogReads

(* What is known of a reader of attributes.                                *)
LEMMA ReaderIs ==
  ASSUME CatalogInv, NEW q \in Request, req[q].op \in Readers
  PROVE  /\ {"op", "step", "cat"} \subseteq DOMAIN req[q] /\ req[q] # Done
         /\ req[q].op \notin CategoryChanges \cup AttributeChanges /\ req[q].op \in {"attrs", "ad"}
<1>1. {"op", "step", "cat"} \subseteq DOMAIN req[q]
  BY DEF CatalogInv, ReaderFits
<1> QED
  BY <1>1 DEF Readers, Done, CategoryChanges, AttributeChanges

(* It goes on, or is over.                                                 *)
LEMMA ReaderProceeds ==
  ASSUME CatalogInv, RequestsOK, NEW q \in Request, req[q].op \in Readers, NEW step \in {"gen", "rows"},
         Proceed(q, step) \/ Turn(q, Done), UNCHANGED <<tables, caches, outrun, doubtful>>, ads' = ads,
         req[q].op = "ad" => req[q].cat \in DOMAIN cats
  PROVE  CatalogInv'
<1>1. {"op", "step", "cat"} \subseteq DOMAIN req[q] /\ req[q] # Done
      /\ req[q].op \notin CategoryChanges \cup AttributeChanges
  BY ReaderIs
<1>2. DOMAIN ads' \subseteq Request
  BY DEF CatalogInv
<1>3. CASE Turn(q, Done)
  BY <1>1, <1>2, <1>3, ReadsDone
<1>4. CASE Proceed(q, step)
  <2>1. /\ DOMAIN req'[q] = DOMAIN req[q] /\ req'[q].step = step
        /\ req'[q].op = req[q].op /\ req'[q].cat = req[q].cat
        /\ \A p \in Request : p # q => req'[p] = req[p]
    BY <1>1, <1>4, GoesOn
  <2> QED
    BY <1>1, <2>1, ReaderGoesOn
<1> QED
  BY <1>3, <1>4

(* It goes on with what it read.                                           *)
LEMMA ReaderTurns ==
  ASSUME CatalogInv, RequestsOK, NEW q \in Request, req[q].op \in Readers,
         NEW f, "op" \notin DOMAIN f, "cat" \notin DOMAIN f, "step" \in DOMAIN f, Turn(q, With(req[q], f))
  PROVE  /\ {"op", "step", "cat"} \subseteq DOMAIN req'[q] /\ req'[q].op = req[q].op /\ req'[q].cat = req[q].cat
         /\ DOMAIN req'[q] = DOMAIN req[q] \cup DOMAIN f
         /\ \A x \in DOMAIN f : req'[q][x] = f[x]
         /\ \A x \in DOMAIN req[q] \ DOMAIN f : req'[q][x] = req[q][x]
         /\ \A p \in Request : p # q => req'[p] = req[p]
<1>1. {"op", "step", "cat"} \subseteq DOMAIN req[q]
  BY ReaderIs
<1> QED
  BY <1>1, TurnsWith

(* The category is looked up, then the cache.                              *)
LEMMA CheckKeeps ==
  ASSUME CatalogInv, RequestsOK, NEW q \in Request, CheckCategory(q) \/ GetCached(q)
  PROVE  CatalogInv'
<1>1. req[q].op \in Readers /\ UNCHANGED <<tables, caches, outrun, doubtful>> /\ ads' = ads
  BY DEF CheckCategory, GetCached, Asks, Readers, catalogVars, catalogHistory
<1>2. CASE CheckCategory(q)
  <2>1. CASE req[q].cat \notin DOMAIN cats
    <3>1. Turn(q, Done)
      BY <1>2, <2>1 DEF CheckCategory
    <3>2. DOMAIN ads' \subseteq Request
      BY <1>1 DEF CatalogInv
    <3> QED
      BY <1>1, <3>1, <3>2, ReaderIs, ReadsDone
  <2>2. CASE req[q].cat \in DOMAIN cats
    <3>1. Proceed(q, "gen") \/ Proceed(q, "rows")
      BY <1>2, <2>2 DEF CheckCategory
    <3> QED
      BY <1>1, <2>2, <3>1, ReaderProceeds
  <2> QED
    BY <2>1, <2>2
<1>3. CASE GetCached(q)
  <2>1. req[q].op # "ad" /\ (Turn(q, Done) \/ Proceed(q, "rows"))
    BY <1>3 DEF GetCached, Asks
  <2> QED
    BY <1>1, <2>1, ReaderProceeds
<1> QED
  BY <1>2, <1>3

(* The generation of the cache is read before the tables.                  *)
LEMMA GetGenerationKeeps ==
  ASSUME CatalogInv, RequestsOK, NEW q \in Request, GetGeneration(q)
  PROVE  CatalogInv'
<1>1. /\ req[q].op = "attrs" /\ req[q].op \in Readers
      /\ UNCHANGED <<tables, caches, outrun, doubtful>> /\ ads' = ads
  BY DEF GetGeneration, Asks, Readers, catalogVars, catalogHistory
<1>2. PICK f : f = [step |-> "get", at |-> gen] /\ Turn(q, With(req[q], f))
  BY DEF GetGeneration
<1>3. DOMAIN f = {"step", "at"} /\ f.step = "get"
  BY <1>2
<1>4. /\ {"op", "step", "cat"} \subseteq DOMAIN req'[q] /\ req'[q].op = req[q].op /\ req'[q].cat = req[q].cat
      /\ req'[q].step = "get" /\ \A p \in Request : p # q => req'[p] = req[p]
  BY <1>1, <1>2, <1>3, ReaderTurns
<1> QED
  BY <1>1, <1>4, ReaderIs, ReaderGoesOn

(* What somebody who stores an ad has read is what there is, unless he was *)
(* outrun.                                                                 *)
LEMMA AdReaderHas ==
  ASSUME CatalogInv, NEW q \in Request, req[q].op \in Readers, q \notin outrun
  PROVE  /\ req[q].op = "ad" /\ req[q].step # "check" => req[q].cat \in DOMAIN cats
         /\ req[q].cat \in DOMAIN cats =>
              /\ req[q].step = "options" => req[q].rows = Rows(req[q].cat)
              /\ req[q].step \in {"again", "set", "validate"} => req[q].body = Effective(req[q].cat)
  BY DEF CatalogInv, ReaderFits

(* The attributes of the category and of its ancestors are read, ...       *)
LEMMA EffectiveRowsKeeps ==
  ASSUME CatalogInv, RequestsOK, NEW q \in Request, EffectiveRows(q)
  PROVE  CatalogInv'
<1>1. /\ req[q].op \in Readers /\ req[q].step = "rows"
      /\ UNCHANGED <<tables, caches, outrun, doubtful>> /\ ads' = ads
  BY DEF EffectiveRows, catalogVars, catalogHistory
<1>2. PICK c, R, f : /\ c = req[q].cat /\ R = (IF c \in DOMAIN cats THEN Rows(c) ELSE <<>>)
                     /\ f = [step |-> "options", rows |-> R]
  OBVIOUS
<1>3. Turn(q, With(req[q], f))
  BY <1>2 DEF EffectiveRows
<1>4. DOMAIN f = {"step", "rows"} /\ f.step = "options" /\ f.rows = R
  BY <1>2
<1>5. /\ {"op", "step", "cat"} \subseteq DOMAIN req'[q] /\ req'[q].op = req[q].op /\ req'[q].cat = req[q].cat
      /\ req'[q].step = "options" /\ req'[q].rows = R /\ \A p \in Request : p # q => req'[p] = req[p]
  BY <1>1, <1>3, <1>4, ReaderTurns
<1>6. q \notin outrun /\ req[q].op = "ad" => c \in DOMAIN cats
  BY <1>1, <1>2, AdReaderHas
<1> QED
  BY <1>1, <1>2, <1>5, <1>6, ReaderIs, ReaderGoesOn

(* ... and then their options.                                             *)
LEMMA EffectiveOptionsKeeps ==
  ASSUME CatalogInv, RequestsOK, NEW q \in Request, EffectiveOptions(q)
  PROVE  CatalogInv'
<1>1. /\ req[q].op \in Readers /\ req[q].step = "options"
      /\ UNCHANGED <<tables, caches, outrun, doubtful>> /\ ads' = ads
  BY DEF EffectiveOptions, catalogVars, catalogHistory
<1>2. PICK c, R, B, s, f : /\ c = req[q].cat /\ R = req[q].rows /\ B = Specified(R, Options(DOMAIN R))
                           /\ s = (IF req[q].op = "ad" THEN "validate" ELSE "again")
                           /\ f = [step |-> s, body |-> B]
  OBVIOUS
<1>3. Turn(q, With(req[q], f))
  BY <1>2 DEF EffectiveOptions
<1>4. DOMAIN f = {"step", "body"} /\ f.step = s /\ f.body = B
  BY <1>2
<1>5. /\ {"op", "step", "cat"} \subseteq DOMAIN req'[q] /\ req'[q].op = req[q].op /\ req'[q].cat = req[q].cat
      /\ req'[q].step = s /\ req'[q].body = B /\ "body" \in DOMAIN req'[q]
      /\ \A p \in Request : p # q => req'[p] = req[p]
  BY <1>1, <1>3, <1>4, ReaderTurns
<1>6. ASSUME q \notin outrun
      PROVE  (req[q].op = "ad" => c \in DOMAIN cats) /\ (c \in DOMAIN cats => B = Effective(c))
  <2>1. (req[q].op = "ad" => c \in DOMAIN cats) /\ (c \in DOMAIN cats => R = Rows(c))
    BY <1>1, <1>2, <1>6, AdReaderHas
  <2>2. DOMAIN Rows(c) = Linked(c)
    BY DEF Rows
  <2>3. c \in DOMAIN cats => DOMAIN R = Linked(c)
    BY <2>1, <2>2
  <2> QED
    BY <1>2, <2>1, <2>3 DEF Effective
<1>7. s \in {"again", "validate"}
  BY <1>2
<1> QED
  BY <1>1, <1>2, <1>5, <1>6, <1>7, ReaderIs, ReaderGoesOn

(* The generation is read again after the tables.                          *)
LEMMA GenerationAgainKeeps ==
  ASSUME CatalogInv, RequestsOK, NEW q \in Request, GetGenerationAgain(q)
  PROVE  CatalogInv'
<1>1. /\ req[q].op = "attrs" /\ req[q].op \in Readers /\ req[q].step = "again"
      /\ UNCHANGED <<tables, caches, outrun, doubtful>> /\ ads' = ads
  BY DEF GetGenerationAgain, Asks, Readers, catalogVars, catalogHistory
<1>2. PICK f : f = [step |-> "set", at |-> gen] /\ Turn(q, With(req[q], f))
  BY DEF GetGenerationAgain
<1>3. DOMAIN f = {"step", "at"} /\ f.step = "set" /\ f.at = gen
  BY <1>2
<1>4. "body" \in DOMAIN req[q]
  BY <1>1 DEF CatalogInv, ReaderFits
<1>5. /\ {"op", "step", "cat"} \subseteq DOMAIN req'[q] /\ req'[q].op = req[q].op /\ req'[q].cat = req[q].cat
      /\ req'[q].step = "set" /\ req'[q].at = gen /\ req'[q].body = req[q].body
      /\ \A p \in Request : p # q => req'[p] = req[p]
  BY <1>1, <1>2, <1>3, <1>4, ReaderTurns
<1>6. gen \in Nat /\ gen <= gen
  BY DEF CatalogInv
<1>7. ASSUME q \notin outrun, req[q].cat \in DOMAIN cats PROVE req[q].body = Effective(req[q].cat)
  BY <1>1, <1>7, AdReaderHas
<1> QED
  BY <1>1, <1>5, <1>6, <1>7, ReaderIs, ReaderGoesOn

(* The ad is stored, or refused for its values.                            *)
LEMMA StoreKeeps ==
  ASSUME CatalogInv, RequestsOK, NEW q \in Request, StoreAd(q)
  PROVE  CatalogInv'
<1>1. /\ req[q].op \in Readers /\ Turn(q, Done) /\ UNCHANGED <<tables, caches, outrun, doubtful>>
  BY DEF StoreAd, Asks, Readers, catalogHistory
<1>2. DOMAIN ads' \subseteq Request
  <2>1. DOMAIN ads \subseteq Request
    BY DEF CatalogInv
  <2>2. DOMAIN ads' = DOMAIN ads \/ DOMAIN ads' = DOMAIN ads \cup {q}
    BY PutIs DEF StoreAd
  <2> QED
    BY <2>1, <2>2
<1> QED
  BY <1>1, <1>2, ReaderIs, ReadsDone

(* A cache that does not answer sends a reader to the tables.              *)
LEMMA CacheFailsKeeps ==
  ASSUME CatalogInv, RequestsOK, NEW q \in Request, CacheFails(q)
  PROVE  CatalogInv'
<1>1. /\ req[q].op \in {"tree", "attrs"} /\ UNCHANGED <<tables, caches, outrun, doubtful>> /\ ads' = ads
      /\ Proceed(q, "rows") \/ Turn(q, Done)
  BY DEF CacheFails, catalogVars, catalogHistory
<1>2. DOMAIN ads' \subseteq Request
  BY <1>1 DEF CatalogInv
<1>3. CASE req[q].op = "attrs"
  BY <1>1, <1>3, ReaderProceeds DEF Readers
<1>4. CASE req[q].op = "tree"
  <2>1. {"op", "step"} \subseteq DOMAIN req[q] /\ req[q] # Done
        /\ req[q].op \notin CategoryChanges \cup AttributeChanges
    BY <1>4 DEF CatalogInv, TreeRead, Done, CategoryChanges, AttributeChanges
  <2>2. CASE Turn(q, Done)
    BY <1>1, <1>2, <2>1, <2>2, ReadsDone
  <2>3. CASE Proceed(q, "rows")
    <3>1. req'[q].op = "tree" /\ req'[q].step = "rows" /\ {"op", "step"} \subseteq DOMAIN req'[q]
          /\ \A p \in Request : p # q => req'[p] = req[p]
      BY <1>4, <2>1, <2>3, GoesOn
    <3>2. Fits(q)'
      BY <3>1 DEF Fits, TreeRead, ReaderFits, ChangeFits, Readers, CategoryChanges, AttributeChanges
    <3> QED
      BY <1>1, <1>2, <2>1, <3>1, <3>2, CatalogReads
  <2> QED
    BY <1>1, <2>2, <2>3
<1> QED
  BY <1>1, <1>3, <1>4

(***************************************************************************)
(* The changes read what they change.                                      *)
(***************************************************************************)
LEMMA CategoryChangeIs ==
  ASSUME CatalogInv, NEW q \in Request, req[q].op \in CategoryChanges
  PROVE  /\ {"op", "step", "cat", "slug", "label"} \subseteq DOMAIN req[q] /\ req[q] # Done
         /\ req[q].op \notin AttributeChanges /\ ChangeFits(q)
<1>1. ChangeFits(q)
  BY DEF CatalogInv
<1> QED
  BY <1>1 DEF ChangeFits, CategoryChanges, AttributeChanges, Done

(* What is known of a change of an attribute.                              *)
LEMMA AttributeChangeIs ==
  ASSUME CatalogInv, NEW q \in Request, req[q].op \in AttributeChanges \cup {"add attribute"}
  PROVE  /\ {"op", "step", "body"} \subseteq DOMAIN req[q] /\ req[q] # Done
         /\ req[q].op \notin CategoryChanges /\ ChangeFits(q)
<1>1. ChangeFits(q)
  BY DEF CatalogInv
<1> QED
  BY <1>1 DEF ChangeFits, CategoryChanges, AttributeChanges, Done

(* A change of a category goes on to its next step.                        *)
LEMMA CategoryChangeGoesOn ==
  ASSUME CatalogInv, NEW q \in Request, req[q].op \in CategoryChanges, req[q].step # "invalidate",
         \A p \in Request : p # q => req'[p] = req[p],
         {"op", "step", "cat", "slug", "label"} \subseteq DOMAIN req'[q], req'[q].op = req[q].op,
         req'[q].cat = req[q].cat, req'[q].slug = req[q].slug, req'[q].label = req[q].label,
         req[q].op = "add category" /\ req'[q].step = "write" /\ req[q].cat # None /\ req[q].cat \in DOMAIN cats =>
           req'[q].row.path = cats[req[q].cat].path /\ req'[q].row.level = cats[req[q].cat].level,
         UNCHANGED <<tables, caches, outrun, doubtful>>, ads' = ads
  PROVE  CatalogInv'
<1>1. req[q] # Done /\ ChangeFits(q)
  BY CategoryChangeIs
<1>2. ~Grown(q)
  BY <1>1, RequestAssumption DEF Grown, Root
<1>3. Grows
  BY <1>1, <1>2, GrowsOn
<1>4. PICK c : c = req[q].cat
  OBVIOUS
<1>5. cats' = cats
  BY DEF tables
<1>6. req[q].op # "delete category" => req'[q].label \in Label
  BY <1>1 DEF ChangeFits
<1>7. ASSUME req[q].op = "add category"
      PROVE  /\ req'[q].slug \in Slug /\ (c # None => Grown(c)')
             /\ req'[q].step = "write" /\ c # None /\ c \in DOMAIN cats' =>
                  req'[q].row.path = cats'[c].path /\ req'[q].row.level = cats'[c].level
  <2>1. req[q].slug \in Slug /\ (c # None => Grown(c))
    BY <1>1, <1>4, <1>7 DEF ChangeFits, CategoryChanges
  <2> QED
    BY <1>3, <1>4, <1>5, <1>7, <2>1 DEF Grows
<1>8. ChangeFits(q)'
  <2>1. req'[q].op \in CategoryChanges /\ req'[q].op \notin AttributeChanges \cup {"add attribute"}
    BY DEF CategoryChanges, AttributeChanges
  <2>2. req'[q].cat = c
    BY <1>4
  <2> QED
    BY <1>6, <1>7, <2>1, <2>2 DEF ChangeFits, AttributeChanges
<1>9. Fits(q)'
  BY <1>8 DEF Fits, TreeRead, ReaderFits, Readers, CategoryChanges
<1>10. DOMAIN ads' \subseteq Request
  BY DEF CatalogInv
<1> QED
  BY <1>1, <1>9, <1>10, CatalogReads

(* The category, or the parent of a new one, is read.                      *)
LEMMA ReadCategoryKeeps ==
  ASSUME CatalogInv, RequestsOK, NEW q \in Request, ReadCategory(q)
  PROVE  CatalogInv'
<1>1. PICK c, next : c = req[q].cat /\ next = (CASE req[q].op = "delete category" -> "count" [] OTHER -> "write")
  OBVIOUS
<1>2. /\ req[q].op \in CategoryChanges /\ req[q].step = "read"
      /\ UNCHANGED <<tables, caches, outrun, doubtful>> /\ ads' = ads
  BY DEF ReadCategory, catalogVars, catalogHistory
<1>3. \/ Turn(q, Done)
      \/ c = None /\ Turn(q, With(req[q], [step |-> "write", row |-> None]))
      \/ c # None /\ c \in DOMAIN cats /\ Turn(q, With(req[q], [step |-> next, row |-> cats[c]]))
  BY <1>1 DEF ReadCategory
<1>4. /\ {"op", "step", "cat", "slug", "label"} \subseteq DOMAIN req[q] /\ req[q] # Done
      /\ DOMAIN ads' \subseteq Request
  BY <1>2, CategoryChangeIs DEF CatalogInv
<1>5. CASE Turn(q, Done)
  BY <1>2, <1>4, <1>5, ReadsDone
<1>6. ASSUME NEW s, NEW row, Turn(q, With(req[q], [step |-> s, row |-> row])), c # None => row = cats[c]
      PROVE  CatalogInv'
  <2>1. PICK f : f = [step |-> s, row |-> row]
    OBVIOUS
  <2>2. DOMAIN f = {"step", "row"} /\ f.step = s /\ f.row = row /\ Turn(q, With(req[q], f))
    BY <1>6, <2>1
  <2>3. /\ {"op", "step", "cat", "slug", "label"} \subseteq DOMAIN req'[q] /\ req'[q].op = req[q].op
        /\ req'[q].cat = req[q].cat /\ req'[q].slug = req[q].slug /\ req'[q].label = req[q].label
        /\ req'[q].row = row /\ \A p \in Request : p # q => req'[p] = req[p]
    BY <1>4, <2>2, TurnsWith
  <2> QED
    BY <1>1, <1>2, <1>6, <2>3, CategoryChangeGoesOn
<1> QED
  BY <1>3, <1>5, <1>6

(* Its children are counted, ...                                           *)
LEMMA CountChildrenKeeps ==
  ASSUME CatalogInv, RequestsOK, NEW q \in Request, CountChildren(q)
  PROVE  CatalogInv'
<1>1. /\ req[q].op = "delete category" /\ req[q].op \in CategoryChanges /\ req[q].step = "count"
      /\ UNCHANGED <<tables, caches, outrun, doubtful>> /\ ads' = ads /\ (Turn(q, Done) \/ Proceed(q, "write"))
  BY DEF CountChildren, Asks, catalogVars, catalogHistory, CategoryChanges
<1>2. /\ {"op", "step", "cat", "slug", "label"} \subseteq DOMAIN req[q] /\ req[q] # Done
      /\ DOMAIN ads' \subseteq Request
  BY <1>1, CategoryChangeIs DEF CatalogInv
<1>3. CASE Turn(q, Done)
  BY <1>1, <1>2, <1>3, ReadsDone
<1>4. CASE Proceed(q, "write")
  <2>1. /\ DOMAIN req'[q] = DOMAIN req[q] /\ \A x \in DOMAIN req[q] : x # "step" => req'[q][x] = req[q][x]
        /\ \A p \in Request : p # q => req'[p] = req[p]
    BY <1>2, <1>4, GoesOn
  <2>2. /\ req'[q].op = req[q].op /\ req'[q].cat = req[q].cat /\ req'[q].slug = req[q].slug
        /\ req'[q].label = req[q].label
    BY <1>2, <2>1
  <2> QED
    BY <1>1, <1>2, <2>1, <2>2, CategoryChangeGoesOn
<1> QED
  BY <1>1, <1>3, <1>4

(* ... and the attributes that are linked to it.                           *)
LEMMA CheckLinkedKeeps ==
  ASSUME CatalogInv, RequestsOK, NEW q \in Request, CheckLinked(q)
  PROVE  CatalogInv'
<1>1. /\ req[q].op = "link" /\ req[q].op \in AttributeChanges /\ req[q].step \in {"check", "read"}
      /\ UNCHANGED <<tables, caches, outrun, doubtful>> /\ ads' = ads
  BY DEF CheckLinked, catalogVars, catalogHistory, AttributeChanges
<1>2. /\ {"op", "step", "body"} \subseteq DOMAIN req[q] /\ req[q] # Done /\ DOMAIN ads' \subseteq Request
  BY <1>1, AttributeChangeIs DEF CatalogInv
<1>3. Turn(q, Done) \/ Proceed(q, "read") \/ Proceed(q, "write")
  BY DEF CheckLinked
<1>4. CASE Turn(q, Done)
  BY <1>1, <1>2, <1>4, ReadsDone
<1>5. ASSUME NEW s, Proceed(q, s) PROVE CatalogInv'
  <2>1. /\ {"op", "step", "body"} \subseteq DOMAIN req'[q] /\ req'[q].op = "link"
        /\ \A p \in Request : p # q => req'[p] = req[p]
    BY <1>1, <1>2, <1>5, GoesOn
  <2>2. Fits(q)'
    BY <2>1 DEF Fits, TreeRead, ReaderFits, ChangeFits, Readers, CategoryChanges
  <2> QED
    BY <1>1, <1>2, <2>1, <2>2, CatalogReads
<1> QED
  BY <1>3, <1>4, <1>5

(* The attribute is read.                                                  *)
LEMMA ReadAttributeKeeps ==
  ASSUME CatalogInv, RequestsOK, NEW q \in Request, ReadAttribute(q)
  PROVE  CatalogInv'
<1>1. PICK a, b, t : a = req[q].attr /\ b = req[q].body /\ t = attrs[a].type
  OBVIOUS
<1>2. /\ req[q].op = "update attribute" /\ req[q].op \in AttributeChanges /\ req[q].step = "read"
      /\ UNCHANGED <<tables, caches, outrun, doubtful>> /\ ads' = ads
  BY DEF ReadAttribute, Asks, catalogVars, catalogHistory, AttributeChanges
<1>3. \/ Turn(q, Done)
      \/ /\ ValidOptions(t, b.options)
         /\ Turn(q, With(req[q], [step |-> "write", body |-> [b EXCEPT !.type = t]]))
  BY <1>1 DEF ReadAttribute
<1>4. /\ {"op", "step", "body"} \subseteq DOMAIN req[q] /\ req[q] # Done /\ DOMAIN ads' \subseteq Request
      /\ {"type", "options"} \subseteq DOMAIN b
  BY <1>1, <1>2, AttributeChangeIs DEF CatalogInv, ChangeFits
<1>5. CASE Turn(q, Done)
  BY <1>2, <1>4, <1>5, ReadsDone
<1>6. ASSUME ValidOptions(t, b.options), Turn(q, With(req[q], [step |-> "write", body |-> [b EXCEPT !.type = t]]))
      PROVE  CatalogInv'
  <2>1. PICK x, f : x = [b EXCEPT !.type = t] /\ f = [step |-> "write", body |-> x]
    OBVIOUS
  <2>2. x.type = t /\ x.options = b.options
    BY <1>4, <2>1
  <2>3. DOMAIN f = {"step", "body"} /\ f.step = "write" /\ f.body = x /\ Turn(q, With(req[q], f))
    BY <1>6, <2>1
  <2>4. /\ {"op", "step", "body"} \subseteq DOMAIN req'[q] /\ req'[q].op = req[q].op
        /\ req'[q].step = "write" /\ req'[q].body = x /\ \A p \in Request : p # q => req'[p] = req[p]
    BY <1>4, <2>3, TurnsWith
  <2>5. Fits(q)'
    BY <1>2, <1>6, <2>2, <2>4 DEF Fits, TreeRead, ReaderFits, ChangeFits, Readers, CategoryChanges
  <2> QED
    BY <1>2, <1>4, <2>4, <2>5, CatalogReads
<1> QED
  BY <1>3, <1>5, <1>6

(* A key of the attributes is not the key of the tree.                     *)
LEMMA PairIsNotTree ==
  ASSUME NEW key, NEW a, NEW b, key = <<a, b>>
  PROVE  key # TreeKey
<1>1. Len(<<a, b>>) = 2 /\ Len(<<"catalog:tree">>) = 1
  OBVIOUS
<1> QED
  BY <1>1 DEF TreeKey

(* The cached tree stays true, or is gone.                                 *)
LEMMA TreeCacheStays ==
  ASSUME TreeCached, UNCHANGED cats, treeCache' \in {treeCache, None},
         Changing(CategoryChanges) => Changing(CategoryChanges)', TreeKey \in doubtful => TreeKey \in doubtful'
  PROVE  TreeCached'
  BY DEF TreeCached, TreeIsExact, BuildTree

(* A cached list of attributes stays true when its entry and the tables    *)
(* stay.                                                                   *)
LEMMA KeyStays ==
  ASSUME UNCHANGED <<tables, gen>>, Grows, Changing(AttributeChanges) => Changing(AttributeChanges)',
         NEW key, KeyFits(key), attrCache'[key] = attrCache[key], key \in doubtful => key \in doubtful'
  PROVE  KeyFits(key)'
<1>1. PICK c : c = key[2]
  OBVIOUS
<1>2. Effective(c)' = Effective(c) /\ cats' = cats
  BY TablesStay DEF Steady, tables
<1>3. Grown(c) => Grown(c)'
  BY DEF Grows
<1> QED
  BY <1>1, <1>2, <1>3 DEF KeyFits

(* A request that only writes the caches keeps the invariant if what is    *)
(* cached is true.                                                         *)
LEMMA CacheKeeps ==
  ASSUME CatalogInv, RequestsOK, NEW q \in Request, Turn(q, Done), req[q] # Done,
         UNCHANGED <<tables, outrun, ads>>, gen' \in Nat, gen <= gen',
         Grows => TreeCached' /\ \A key \in DOMAIN attrCache' : KeyFits(key)'
  PROVE  CatalogInv'
<1>1. req'[q] = Done /\ \A p \in Request : p # q => req'[p] = req[p]
  BY TurnsDone
<1>2. Grows
  BY <1>1, GrowsOn
<1>3. DOMAIN ads' \subseteq Request
  BY DEF CatalogInv
<1> QED
  BY <1>1, <1>2, <1>3, DoneFits, CatalogGoesOn

(* A change that has yet to invalidate is not over when another is.        *)
LEMMA DoneLeavesChanging ==
  ASSUME NEW q \in Request, Turn(q, Done), RequestsOK, NEW ops, req[q].op \notin ops \/ req[q].step # "invalidate"
  PROVE  Changing(ops) => Changing(ops)'
<1>1. \A p \in Request : p # q => req'[p] = req[p]
  BY TurnsDone
<1> QED
  BY <1>1, ChangingStays

(* The tree that was read is cached; it is doubtful if it changed since.   *)
LEMMA SetTreeKeeps ==
  ASSUME CatalogInv, RequestsOK, NEW q \in Request, SetTree(q)
  PROVE  CatalogInv'
<1>1. /\ req[q].op = "tree" /\ req[q].step = "set" /\ Turn(q, Done) /\ treeCache' = req[q].body
      /\ doubtful' = (IF q \in outrun THEN doubtful \cup {TreeKey} ELSE doubtful \ {TreeKey})
      /\ UNCHANGED <<tables, attrCache, gen, ads, outrun>>
  BY DEF SetTree, Asks
<1>2. req[q] # Done /\ req[q].op \notin CategoryChanges /\ req[q].op \notin AttributeChanges
  BY <1>1 DEF Done, CategoryChanges, AttributeChanges
<1>3. gen \in Nat /\ TreeRead(q) /\ \A key \in DOMAIN attrCache : KeyFits(key)
  BY DEF CatalogInv
<1>4. TreeCached'
  <2> SUFFICES ASSUME TreeKey \notin doubtful' PROVE TreeIsExact'
    BY DEF TreeCached
  <2>1. q \notin outrun
    BY <1>1
  <2>2. req[q].body = BuildTree(cats)
    BY <1>1, <1>3, <2>1 DEF TreeRead
  <2>3. BuildTree(cats)' = BuildTree(cats)
    BY <1>1, TablesStay
  <2> QED
    BY <1>1, <2>2, <2>3 DEF TreeIsExact
<1>5. ASSUME Grows, NEW key \in DOMAIN attrCache PROVE KeyFits(key)'
  <2>1. KeyFits(key) /\ key # TreeKey
    BY <1>3, PairIsNotTree DEF KeyFits
  <2>2. Changing(AttributeChanges) => Changing(AttributeChanges)'
    BY <1>1, <1>2, DoneLeavesChanging
  <2>3. key \in doubtful => key \in doubtful'
    BY <1>1, <2>1
  <2> QED
    BY <1>1, <1>5, <2>1, <2>2, <2>3, KeyStays
<1>6. gen' \in Nat /\ gen <= gen' /\ attrCache' = attrCache
  BY <1>1, <1>3
<1> QED
  BY <1>1, <1>2, <1>4, <1>5, <1>6, CacheKeeps

(* Attributes are cached under the generation that was read last.          *)
LEMMA SetAttributesKeeps ==
  ASSUME CatalogInv, RequestsOK, NEW q \in Request, SetAttributes(q)
  PROVE  CatalogInv'
<1>1. PICK c, n, k : c = req[q].cat /\ n = req[q].at /\ k = <<n, c>>
  OBVIOUS
<1>2. /\ req[q].op = "attrs" /\ req[q].step = "set" /\ Turn(q, Done) /\ attrCache' = Put(attrCache, k, req[q].body)
      /\ doubtful' = (IF q \in outrun THEN doubtful \cup {k} ELSE doubtful \ {k})
      /\ UNCHANGED <<tables, treeCache, gen, ads, outrun>>
  BY <1>1 DEF SetAttributes, Asks
<1>3. req[q] # Done /\ req[q].op \notin CategoryChanges /\ req[q].op \notin AttributeChanges
      /\ req[q].op \in Readers
  BY <1>2 DEF Done, CategoryChanges, AttributeChanges, Readers
<1>4. gen \in Nat /\ TreeCached /\ \A key \in DOMAIN attrCache : KeyFits(key)
  BY DEF CatalogInv
<1>5. /\ n \in Nat /\ n <= gen /\ Grown(c)
      /\ q \notin outrun /\ c \in DOMAIN cats => req[q].body = Effective(c)
  BY <1>1, <1>2, <1>3 DEF CatalogInv, ReaderFits
<1>6. DOMAIN attrCache' = DOMAIN attrCache \cup {k} /\ attrCache'[k] = req[q].body
      /\ \A key \in DOMAIN attrCache : key # k => attrCache'[key] = attrCache[key]
  BY <1>2 DEF Put
<1>7. TreeCached'
  <2>1. TreeKey \in doubtful => TreeKey \in doubtful'
    BY <1>1, <1>2, PairIsNotTree
  <2>2. Changing(CategoryChanges) => Changing(CategoryChanges)'
    BY <1>2, <1>3, DoneLeavesChanging
  <2> QED
    BY <1>2, <1>4, <2>1, <2>2, TreeCacheStays DEF tables
<1>8. ASSUME Grows PROVE KeyFits(k)'
  <2>1. k[1] = n /\ k[2] = c /\ k = <<k[1], k[2]>>
    BY <1>1
  <2>2. Grown(c)'
    BY <1>5, <1>8 DEF Grows
  <2>3. Effective(c)' = Effective(c) /\ cats' = cats /\ gen' = gen
    BY <1>2, TablesStay DEF Steady, tables
  <2>4. k \notin doubtful' => q \notin outrun
    BY <1>2
  <2> QED
    BY <1>4, <1>5, <1>6, <2>1, <2>2, <2>3, <2>4 DEF KeyFits
<1>9. ASSUME Grows, NEW key \in DOMAIN attrCache, key # k PROVE KeyFits(key)'
  <2>1. KeyFits(key) /\ attrCache'[key] = attrCache[key]
    BY <1>4, <1>6, <1>9
  <2>2. Changing(AttributeChanges) => Changing(AttributeChanges)'
    BY <1>2, <1>3, DoneLeavesChanging
  <2>3. key \in doubtful => key \in doubtful'
    BY <1>2, <1>9
  <2> QED
    BY <1>2, <1>9, <2>1, <2>2, <2>3, KeyStays
<1>10. gen' \in Nat /\ gen <= gen'
  BY <1>2, <1>4
<1>11. ASSUME Grows, NEW key \in DOMAIN attrCache' PROVE KeyFits(key)'
  BY <1>6, <1>8, <1>9, <1>11
<1> QED
  BY <1>2, <1>3, <1>7, <1>10, <1>11, CacheKeeps

(* A change of a category drops the cached tree.                           *)
LEMMA InvalidateTreeKeeps ==
  ASSUME CatalogInv, RequestsOK, NEW q \in Request, InvalidateTree(q)
  PROVE  CatalogInv'
<1>1. /\ req[q].op \in CategoryChanges /\ treeCache' = None /\ doubtful' = doubtful \ {TreeKey} /\ Turn(q, Done)
      /\ UNCHANGED <<tables, attrCache, gen, ads, outrun>>
  BY DEF InvalidateTree
<1>2. req[q] # Done /\ req[q].op \notin AttributeChanges
  BY <1>1, CategoryChangeIs
<1>3. gen \in Nat /\ \A key \in DOMAIN attrCache : KeyFits(key)
  BY DEF CatalogInv
<1>4. TreeCached'
  BY <1>1 DEF TreeCached, TreeIsExact
<1>5. ASSUME Grows, NEW key \in DOMAIN attrCache PROVE KeyFits(key)'
  <2>1. KeyFits(key) /\ key # TreeKey
    BY <1>3, PairIsNotTree DEF KeyFits
  <2>2. Changing(AttributeChanges) => Changing(AttributeChanges)'
    BY <1>1, <1>2, DoneLeavesChanging
  <2> QED
    BY <1>1, <1>5, <2>1, <2>2, KeyStays
<1>6. gen' \in Nat /\ gen <= gen' /\ attrCache' = attrCache
  BY <1>1, <1>3
<1> QED
  BY <1>1, <1>2, <1>4, <1>5, <1>6, CacheKeeps

(* A change of an attribute takes the next generation.                     *)
LEMMA InvalidateAttributesKeeps ==
  ASSUME CatalogInv, RequestsOK, NEW q \in Request, InvalidateAttributes(q)
  PROVE  CatalogInv'
<1>1. /\ req[q].op \in AttributeChanges /\ gen' = gen + 1 /\ Turn(q, Done)
      /\ UNCHANGED <<tables, treeCache, attrCache, ads, outrun, doubtful>>
  BY DEF InvalidateAttributes, catalogHistory
<1>2. req[q] # Done /\ req[q].op \notin CategoryChanges
  BY <1>1, AttributeChangeIs
<1>3. gen \in Nat /\ TreeCached /\ \A key \in DOMAIN attrCache : KeyFits(key)
  BY DEF CatalogInv
<1>4. TreeCached'
  <2>1. Changing(CategoryChanges) => Changing(CategoryChanges)'
    BY <1>1, <1>2, DoneLeavesChanging
  <2> QED
    BY <1>1, <1>3, <2>1, TreeCacheStays DEF tables
<1>5. ASSUME Grows, NEW key \in DOMAIN attrCache PROVE KeyFits(key)'
  <2>1. PICK n, c : n = key[1] /\ c = key[2]
    OBVIOUS
  <2>2. key = <<n, c>> /\ n \in Nat /\ n <= gen /\ Grown(c)
    BY <1>3, <2>1 DEF KeyFits
  <2>3. n <= gen' /\ n # gen' /\ Grown(c)'
    BY <1>1, <1>3, <1>5, <2>2 DEF Grows
  <2> QED
    BY <2>1, <2>2, <2>3 DEF KeyFits
<1>6. gen' \in Nat /\ gen <= gen' /\ attrCache' = attrCache
  BY <1>1, <1>3
<1> QED
  BY <1>1, <1>2, <1>4, <1>5, <1>6, CacheKeeps

(* A cache that is not told keeps a doubtful entry.                        *)
LEMMA InvalidationFailsKeeps ==
  ASSUME CatalogInv, RequestsOK, NEW q \in Request, InvalidationFails(q)
  PROVE  CatalogInv'
<1>1. /\ req[q].op \in CategoryChanges \cup AttributeChanges /\ Turn(q, Done)
      /\ doubtful' = doubtful \cup (IF req[q].op \in CategoryChanges THEN {TreeKey} ELSE DOMAIN attrCache)
      /\ UNCHANGED <<tables, treeCache, attrCache, gen, ads, outrun>>
  BY DEF InvalidationFails, caches
<1>2. req[q] # Done /\ (req[q].op \notin CategoryChanges \/ req[q].op \notin AttributeChanges)
  BY <1>1, CategoryChangeIs, AttributeChangeIs
<1>3. gen \in Nat /\ TreeCached /\ \A key \in DOMAIN attrCache : KeyFits(key)
  BY DEF CatalogInv
<1>4. TreeCached'
  <2>1. CASE req[q].op \in CategoryChanges
    BY <1>1, <2>1 DEF TreeCached
  <2>2. CASE req[q].op \notin CategoryChanges
    <3>1. Changing(CategoryChanges) => Changing(CategoryChanges)'
      BY <1>1, <2>2, DoneLeavesChanging
    <3> QED
      BY <1>1, <1>3, <3>1, TreeCacheStays DEF tables
  <2> QED
    BY <2>1, <2>2
<1>5. ASSUME Grows, NEW key \in DOMAIN attrCache PROVE KeyFits(key)'
  <2>0. KeyFits(key)
    BY <1>3, <1>5
  <2>1. CASE req[q].op \notin AttributeChanges
    <3>1. Changing(AttributeChanges) => Changing(AttributeChanges)'
      BY <1>1, <2>1, DoneLeavesChanging
    <3> QED
      BY <1>1, <1>5, <2>0, <3>1, KeyStays
  <2>2. CASE req[q].op \in AttributeChanges
    <3>1. key \in doubtful' /\ gen' = gen
      BY <1>1, <1>2, <1>5, <2>2
    <3>2. PICK c : c = key[2]
      OBVIOUS
    <3>3. Grown(c)'
      BY <1>5, <2>0, <3>2 DEF KeyFits, Grows
    <3> QED
      BY <2>0, <3>1, <3>2, <3>3 DEF KeyFits
  <2> QED
    BY <2>1, <2>2
<1>6. gen' \in Nat /\ gen <= gen' /\ attrCache' = attrCache
  BY <1>1, <1>3
<1> QED
  BY <1>1, <1>2, <1>4, <1>5, <1>6, CacheKeeps

(* An entry of a cache expires.                                            *)
LEMMA ExpiryKeeps ==
  ASSUME CatalogInv, RequestsOK, Expiry
  PROVE  CatalogInv'
<1>1. UNCHANGED <<req, tables, gen, ads, outrun>>
  BY DEF Expiry, ExpireTree, ExpireAttributes, inputs
<1>2. Grows /\ (\A ops : Changing(ops) => Changing(ops)')
  BY <1>1 DEF Grows, Grown, Kept, Changing
<1>3. gen \in Nat /\ TreeCached /\ \A key \in DOMAIN attrCache : KeyFits(key)
  BY DEF CatalogInv
<1>4. TreeCached' /\ \A key \in DOMAIN attrCache' : KeyFits(key)'
  <2>1. CASE ExpireTree
    <3>1. treeCache' = None /\ doubtful' = doubtful \ {TreeKey} /\ attrCache' = attrCache
      BY <2>1 DEF ExpireTree
    <3>2. TreeCached'
      BY <3>1 DEF TreeCached, TreeIsExact
    <3>3. ASSUME NEW key \in DOMAIN attrCache PROVE KeyFits(key)'
      <4>1. KeyFits(key) /\ key # TreeKey
        BY <1>3, PairIsNotTree DEF KeyFits
      <4> QED
        BY <1>1, <1>2, <3>1, <4>1, KeyStays
    <3> QED
      BY <3>1, <3>2, <3>3
  <2>2. ASSUME NEW k \in DOMAIN attrCache, ExpireAttributes(k)
        PROVE  TreeCached' /\ \A key \in DOMAIN attrCache' : KeyFits(key)'
    <3>1. treeCache' = treeCache /\ doubtful' = doubtful \ {k} /\ attrCache' = Drop(attrCache, {k})
      BY <2>2 DEF ExpireAttributes
    <3>2. KeyFits(k) /\ k # TreeKey
      BY <1>3, PairIsNotTree DEF KeyFits
    <3>3. TreeCached'
      BY <1>1, <1>2, <1>3, <3>1, <3>2, TreeCacheStays DEF tables
    <3>4. ASSUME NEW key \in DOMAIN attrCache' PROVE KeyFits(key)'
      <4>1. key # k /\ key \in DOMAIN attrCache /\ attrCache'[key] = attrCache[key]
        BY <3>1 DEF Drop
      <4>2. KeyFits(key) /\ (key \in doubtful => key \in doubtful')
        BY <1>3, <3>1, <4>1
      <4> QED
        BY <1>1, <1>2, <4>1, <4>2, KeyStays
    <3> QED
      BY <3>3, <3>4
  <2> QED
    BY <2>1, <2>2 DEF Expiry
<1>5. ASSUME NEW p \in Request PROVE Fits(p)'
  BY <1>1, <1>2, <1>3, OldTables, FitsStay DEF CatalogInv, Fits
<1>6. TreeInv' /\ AttributesInv'
  BY <1>1, <1>2, TreeStays, AttributesStay DEF CatalogInv, tables
<1> QED
  BY <1>1, <1>3, <1>4, <1>5, <1>6 DEF CatalogInv, Fits

(***************************************************************************)
(* The rows of the categories.                                             *)
(***************************************************************************)
LEMMA WrittenIs ==
  ASSUME CatalogInv, RequestsOK, NEW q \in Request, req[q].op \in CategoryChanges, req[q].step = "write", Written(q)
  PROVE  /\ Grows /\ ~Grown(q) /\ (req[q].op = "add category" => Grown(q)') /\ Fits(q)'
         /\ \A p \in Request : p # q => req'[p] = req[p]
         /\ Changing(CategoryChanges)' /\ (Changing(AttributeChanges) => Changing(AttributeChanges)')
<1>1. /\ {"op", "step", "cat", "slug", "label"} \subseteq DOMAIN req[q] /\ req[q] # Done
      /\ req[q].op \notin AttributeChanges /\ ChangeFits(q)
  BY CategoryChangeIs
<1>2. Proceed(q, "invalidate")
  BY DEF Written
<1>3. /\ DOMAIN req'[q] = DOMAIN req[q] /\ req'[q].step = "invalidate"
      /\ req'[q].op = req[q].op /\ req'[q].cat = req[q].cat /\ req'[q].slug = req[q].slug
      /\ req'[q].label = req[q].label
      /\ \A p \in Request : p # q => req'[p] = req[p]
  BY <1>1, <1>2, GoesOn
<1>4. ~Grown(q)
  BY <1>1, RequestAssumption DEF Grown, Root
<1>5. Grows
  BY <1>1, <1>3, <1>4, GrowsOn
<1>6. req[q].op = "add category" => Grown(q)'
  BY <1>3 DEF Grown
<1>7. Changing(CategoryChanges)' /\ (Changing(AttributeChanges) => Changing(AttributeChanges)')
  BY <1>1, <1>3 DEF Changing
<1>8. Fits(q)'
  <2>1. req[q].op = "add category" /\ req[q].cat # None => Grown(req[q].cat)
    BY <1>1 DEF ChangeFits
  <2>2. PICK c : c = req[q].cat
    OBVIOUS
  <2>3. req[q].op = "add category" /\ c # None => Grown(c)'
    BY <1>5, <2>1, <2>2 DEF Grows
  <2>4. req[q].op # "tree" /\ req[q].op \notin Readers
        /\ req[q].op \notin AttributeChanges \cup {"add attribute"}
    BY <1>1 DEF CategoryChanges, Readers
  <2>5. TreeRead(q)' /\ ReaderFits(q)'
    BY <1>3, <2>4 DEF TreeRead, ReaderFits, Readers
  <2>6. ChangeFits(q)'
    BY <1>1, <1>3, <2>2, <2>3, <2>4 DEF ChangeFits, AttributeChanges
  <2> QED
    BY <2>5, <2>6 DEF Fits
<1> QED
  BY <1>3, <1>4, <1>5, <1>6, <1>7, <1>8

(* A category that was there keeps its place and what it inherits.         *)
Remains(c) == c \in DOMAIN cats /\ cats'[c].path = cats[c].path /\ cats'[c].level = cats[c].level /\ Steady(c)

(* Or who has looked at it will be outrun.                                 *)
Missed(c) == c \in DOMAIN cats' \/ Checked(c) \subseteq outrun'

(* A change of a category keeps the invariant if tree and attributes fit   *)
(* after it.                                                               *)
LEMMA CategoryWritten ==
  ASSUME CatalogInv, RequestsOK, NEW q \in Request, req[q].op \in CategoryChanges, req[q].step = "write", Written(q),
         UNCHANGED <<caches, ads, doubtful>>, TreeInv', AttributesInv',
         outrun \subseteq outrun', ReadersOf({"tree"}) \subseteq outrun', outrun' \subseteq Request,
         \A c \in DOMAIN cats' : Grown(c) => Remains(c),
         \A c \in DOMAIN cats : Missed(c)
  PROVE  CatalogInv'
<1>1. /\ Grows /\ Fits(q)' /\ \A p \in Request : p # q => req'[p] = req[p]
      /\ Changing(CategoryChanges)' /\ (Changing(AttributeChanges) => Changing(AttributeChanges)')
  BY WrittenIs
<1>2. gen \in Nat /\ gen' = gen /\ attrCache' = attrCache /\ doubtful' = doubtful
      /\ \A key \in DOMAIN attrCache : KeyFits(key)
  BY DEF CatalogInv, caches
<1>3. TreeCached'
  BY <1>1 DEF TreeCached
<1>4. ASSUME NEW key \in DOMAIN attrCache PROVE KeyFits(key)'
  <2>1. PICK c : c = key[2]
    OBVIOUS
  <2>2. KeyFits(key) /\ Grown(c) /\ Grown(c)'
    BY <1>1, <1>2, <2>1 DEF KeyFits, Grows
  <2>3. c \in DOMAIN cats' => c \in DOMAIN cats /\ Effective(c)' = Effective(c)
    BY <2>2 DEF Remains, Steady
  <2> QED
    BY <1>1, <1>2, <2>1, <2>2, <2>3 DEF KeyFits
<1>5. ASSUME NEW p \in Request PROVE Fits(p)'
  <2>1. CASE p = q
    BY <1>1, <2>1
  <2>2. CASE p # q
    <3>1. Old(p)
      BY DEF Old, Remains, Missed
    <3> QED
      BY <1>1, <1>2, <2>2, <3>1, FitsStay DEF CatalogInv, Fits
  <2> QED
    BY <2>1, <2>2
<1> QED
  BY <1>2, <1>3, <1>4, <1>5 DEF CatalogInv, Fits

(* Refused by the database, or already gone.                               *)
LEMMA RowsRefused ==
  ASSUME CatalogInv, RequestsOK, NEW q \in Request, Turn(q, Done), req[q].step # "invalidate",
         req[q].op \in CategoryChanges \cup AttributeChanges, UNCHANGED <<tables, caches, ads, outrun, doubtful>>
  PROVE  CatalogInv'
<1>1. req[q] # Done /\ DOMAIN ads' \subseteq Request
  BY CategoryChangeIs, AttributeChangeIs DEF CatalogInv
<1> QED
  BY <1>1, ReadsDone

(* A category under a new path takes nothing from the others.              *)
LEMMA NewPath ==
  ASSUME TreeInv, NEW row, NEW q, q \notin DOMAIN cats, cats' = Put(cats, q, row), row.path \in Seq(Slug),
         row.path # <<>>, ~SlugTaken(row.path[Len(row.path)]), NEW d \in DOMAIN cats
  PROVE  Ancestors(d)' = Ancestors(d)
<1>1. /\ DOMAIN cats' = DOMAIN cats \cup {q} /\ cats'[q] = row
      /\ \A c \in DOMAIN cats : cats'[c] = cats[c]
  BY DEF Put
<1>2. ~IsPrefix(row.path, cats[d].path)
  <2>1. PICK s, t, n : s = row.path /\ t = cats[d].path /\ n = Len(s) /\ n \in Nat /\ n # 0
    BY LenProperties, EmptySeq
  <2>2. t \in Seq(Slug) /\ Len(t) = cats[d].level + 1 /\ cats[d].level \in Nat
    BY <2>1, PathIs DEF TreeInv
  <2>3. SUFFICES ASSUME IsPrefix(s, t) PROVE FALSE
    BY <2>1
  <2>4. n <= Len(t) /\ \A i \in 1..n : s[i] = t[i]
    BY <2>1, <2>2, <2>3, PrefixIs
  <2>5. n \in 1..(cats[d].level + 1) /\ s[n] = t[n]
    BY <2>1, <2>2, <2>4
  <2>6. SlugTaken(cats[d].path[n])
    BY <2>5, PathIsTaken
  <2> QED
    BY <2>1, <2>5, <2>6
<1> QED
  BY <1>1, <1>2 DEF Ancestors

(* The path of a category without a parent, ...                            *)
LEMMA RootRow ==
  ASSUME NEW s \in Slug, NEW t, NEW n, t = <<s>>, n = 0
  PROVE  n \in Nat /\ t \in Seq(Slug) /\ Len(t) = n + 1 /\ t[n + 1] = s
  OBVIOUS

(* ... and of one below another.                                           *)
LEMMA RowBelow ==
  ASSUME NEW s \in Slug, NEW p \in Seq(Slug), NEW m \in Nat, Len(p) = m + 1,
         NEW t, NEW n, t = Append(p, s), n = m + 1
  PROVE  n \in Nat /\ t \in Seq(Slug) /\ Len(t) = n + 1 /\ t[n + 1] = s
  OBVIOUS

(* The row of a new category.                                              *)
LEMMA NewRow ==
  ASSUME TreeInv, NEW q, req[q].cat \in DOMAIN cats \cup {None}, req[q].slug \in Slug, req[q].label \in Label,
         req[q].cat # None =>
           req[q].row.path = cats[req[q].cat].path /\ req[q].row.level = cats[req[q].cat].level,
         NEW row, row.parent = req[q].cat, row.slug = req[q].slug, row.path = PathOf(q), row.level = LevelOf(q),
         row.label = req[q].label
  PROVE  /\ row.slug \in Slug /\ row.label \in Label /\ row.level \in Nat
         /\ row.path \in Seq(Slug) /\ Len(row.path) = row.level + 1 /\ row.path[row.level + 1] = row.slug
         /\ req[q].cat = None => row.level = 0
         /\ req[q].cat # None =>
              /\ req[q].cat \in DOMAIN cats /\ row.path = Append(cats[req[q].cat].path, row.slug)
              /\ row.level = cats[req[q].cat].level + 1
<1>1. PICK c, s : c = req[q].cat /\ s = req[q].slug
  OBVIOUS
<1>2. /\ s \in Slug /\ req[q].label \in Label
      /\ c # None => req[q].row.path = cats[c].path /\ req[q].row.level = cats[c].level
  BY <1>1
<1>3. /\ row.parent = c /\ row.slug = s
      /\ row.path = PathOf(q) /\ row.level = LevelOf(q) /\ row.label = req[q].label
  BY <1>1
<1>4. CASE c = None
  <2>1. row.path = <<s>> /\ row.level = 0
    BY <1>1, <1>3, <1>4 DEF PathOf, LevelOf
  <2>2. PICK t, n : t = row.path /\ n = row.level
    OBVIOUS
  <2>3. n \in Nat /\ t \in Seq(Slug) /\ Len(t) = n + 1 /\ t[n + 1] = s
    BY <1>2, <2>1, <2>2, RootRow
  <2> QED
    BY <1>1, <1>2, <1>3, <1>4, <2>1, <2>2, <2>3
<1>5. CASE c # None
  <2>1. PICK p, m, t, n : p = cats[c].path /\ m = cats[c].level /\ t = row.path /\ n = row.level
    OBVIOUS
  <2>2. c \in DOMAIN cats /\ t = Append(p, s) /\ n = m + 1
    BY <1>1, <1>2, <1>3, <1>5, <2>1 DEF PathOf, LevelOf
  <2>3. p \in Seq(Slug) /\ m \in Nat /\ Len(p) = m + 1
    BY <2>1, <2>2, PathIs DEF TreeInv
  <2>4. n \in Nat /\ t \in Seq(Slug) /\ Len(t) = n + 1 /\ t[n + 1] = s
    BY <1>2, <2>2, <2>3, RowBelow
  <2> QED
    BY <1>1, <1>2, <1>3, <1>5, <2>1, <2>2, <2>4
<1> QED
  BY <1>4, <1>5

(* The tree with a row more.                                               *)
LEMMA TreeGrowsBy ==
  ASSUME TreeInv, NEW q, q \notin DOMAIN cats, None \notin DOMAIN cats, NEW row, cats' = Put(cats, q, row),
         Grows, Grown(q)',
         DOMAIN row = {"parent", "slug", "path", "level", "label"}, ~SlugTaken(row.slug),
         row.slug \in Slug, row.label \in Label, row.level \in Nat, row.path \in Seq(Slug),
         Len(row.path) = row.level + 1, row.path[row.level + 1] = row.slug,
         row.parent = None => row.level = 0,
         row.parent # None =>
           row.parent \in DOMAIN cats /\ row.path = Append(cats[row.parent].path, row.slug)
           /\ row.level = cats[row.parent].level + 1
  PROVE  TreeInv' /\ \A d \in DOMAIN cats : Ancestors(d)' = Ancestors(d)
<1>1. /\ DOMAIN cats' = DOMAIN cats \cup {q} /\ cats'[q] = row
      /\ \A c \in DOMAIN cats : cats'[c] = cats[c]
  BY DEF Put
<1>2. ASSUME NEW d \in DOMAIN cats PROVE Ancestors(d)' = Ancestors(d)
  <2>1. row.path # <<>> /\ ~SlugTaken(row.path[Len(row.path)])
    OBVIOUS
  <2> QED
    BY <2>1, NewPath
<1>3. ASSUME NEW d \in DOMAIN cats PROVE CategoryFits(d)' /\ Rooted(d)'
  <2>1. CategoryFits(d) /\ Rooted(d) /\ cats'[d] = cats[d] /\ Ancestors(d)' = Ancestors(d)
    BY <1>1, <1>2, <1>3 DEF TreeInv
  <2>2. Grown(d)'
    BY <2>1 DEF CategoryFits, Grows
  <2>3. cats[d].parent # None => cats[d].parent \in DOMAIN cats' /\ cats'[cats[d].parent] = cats[cats[d].parent]
    BY <1>1, <2>1 DEF CategoryFits
  <2>4. CategoryFits(d)'
    BY <2>1, <2>2, <2>3 DEF CategoryFits
  <2>5. \A a \in Ancestors(d) : cats'[a] = cats[a]
    BY <1>1 DEF Ancestors
  <2> QED
    BY <2>1, <2>4, <2>5 DEF Rooted
<1>4. CategoryFits(q)'
  <2>1. row.parent # None => row.parent \in DOMAIN cats' /\ cats'[row.parent] = cats[row.parent]
    BY <1>1
  <2> QED
    BY <1>1, <2>1 DEF CategoryFits
<1>5. IsPrefix(row.path, row.path)
  <2>1. PICK t : t = row.path /\ t \in Seq(Slug)
    OBVIOUS
  <2>2. Len(t) <= Len(t)
    BY <2>1
  <2>3. IsPrefix(t, t)
    BY <2>1, <2>2, PrefixIs
  <2> QED
    BY <2>1, <2>3
<1>6. q \in Ancestors(q)'
  BY <1>1, <1>5 DEF Ancestors
<1>7. ASSUME NEW c, c = row.parent, c # None, NEW a \in Ancestors(c)
      PROVE  a \in Ancestors(q)' /\ cats'[a] = cats[a]
  <2>1. a \in DOMAIN cats /\ c \in DOMAIN cats /\ IsPrefix(cats[a].path, cats[c].path)
    BY <1>7 DEF Ancestors
  <2>2. PICK s, t, e : s = cats[a].path /\ t = cats[c].path /\ e = row.slug
    OBVIOUS
  <2>3. s \in Seq(Slug) /\ t \in Seq(Slug) /\ e \in Slug
    BY <2>1, <2>2, PathIs DEF TreeInv
  <2>4. Len(s) <= Len(t) /\ \A i \in 1..Len(s) : s[i] = t[i]
    BY <2>1, <2>2, <2>3, PrefixIs
  <2>5. PICK u : u = Append(t, e)
    OBVIOUS
  <2>6. u \in Seq(Slug) /\ Len(u) = Len(t) + 1 /\ \A i \in 1..Len(t) : u[i] = t[i]
    BY <2>3, <2>5
  <2>7. Len(s) \in Nat /\ Len(t) \in Nat
    BY <2>3, LenProperties
  <2>8. Len(s) <= Len(u) /\ \A i \in 1..Len(s) : s[i] = u[i]
    BY <2>4, <2>6, <2>7
  <2>9. IsPrefix(s, u)
    BY <2>3, <2>6, <2>8, PrefixIs
  <2>10. row.path = u
    BY <1>7, <2>2, <2>5
  <2> QED
    BY <1>1, <2>1, <2>2, <2>9, <2>10 DEF Ancestors
<1>8. Rooted(q)'
  <2> SUFFICES ASSUME NEW n \in 0..row.level PROVE \E a \in Ancestors(q)' : cats'[a].level = n
    BY <1>1 DEF Rooted
  <2>1. CASE n = row.level
    BY <1>1, <1>6, <2>1
  <2>2. CASE n # row.level
    <3>1. PICK c : c = row.parent
      OBVIOUS
    <3>2. PICK m : m = row.level /\ m \in Nat /\ n \in Nat /\ n < m
      BY <2>2
    <3>3. c # None /\ c \in DOMAIN cats /\ m = cats[c].level + 1
      BY <3>1, <3>2
    <3>4. cats[c].level \in Nat /\ Rooted(c)
      BY <3>3 DEF TreeInv, CategoryFits
    <3>5. n \in 0..cats[c].level
      BY <3>2, <3>3, <3>4
    <3>6. PICK a \in Ancestors(c) : cats[a].level = n
      BY <3>4, <3>5 DEF Rooted
    <3> QED
      BY <1>7, <3>1, <3>3, <3>6
  <2> QED
    BY <2>1, <2>2
<1>9. ASSUME NEW c \in DOMAIN cats', NEW d \in DOMAIN cats', cats'[c].slug = cats'[d].slug PROVE c = d
  BY <1>1, <1>9 DEF TreeInv, SlugTaken
<1> QED
  BY <1>1, <1>2, <1>3, <1>4, <1>8, <1>9 DEF TreeInv

(* Every category has an id that was given.                                *)
LEMMA NoneIsNoCategory ==
  ASSUME CatalogInv
  PROVE  None \notin DOMAIN cats /\ \A c \in DOMAIN cats : Grown(c)
<1>1. \A c \in DOMAIN cats : Grown(c)
  BY DEF CatalogInv, TreeInv, CategoryFits
<1>2. ~Grown(None)
  <2>1. None # 0
    BY RequestAssumption
  <2>2. None \notin Request
    BY RequestAssumption
  <2> QED
    BY <2>1, <2>2 DEF Grown, Root
<1> QED
  BY <1>1, <1>2

(* A category is added below its parent, which is there: the table refuses *)
(* the row otherwise.                                                      *)
LEMMA CreateCategoryKeeps ==
  ASSUME CatalogInv, RequestsOK, NEW q \in Request, CreateCategory(q)
  PROVE  CatalogInv'
<1>1. /\ req[q].op = "add category" /\ req[q].step = "write" /\ req[q].op \in CategoryChanges
      /\ UNCHANGED <<attrs, links, caches, ads, doubtful>>
  BY DEF CreateCategory, Asks, CategoryChanges
<1>2. CASE SlugTaken(req[q].slug) \/ req[q].cat \notin DOMAIN cats \cup {None}
  <2>1. Turn(q, Done) /\ UNCHANGED <<cats, outrun>>
    BY <1>2 DEF CreateCategory
  <2> QED
    BY <1>1, <2>1, RowsRefused DEF tables
<1>3. CASE ~SlugTaken(req[q].slug) /\ req[q].cat \in DOMAIN cats \cup {None}
  <2>1. PICK row : row = [parent |-> req[q].cat, slug |-> req[q].slug, path |-> PathOf(q),
                          level |-> LevelOf(q), label |-> req[q].label]
    OBVIOUS
  <2>2. cats' = Put(cats, q, row) /\ Outruns({"tree"}) /\ Written(q)
    BY <1>3, <2>1 DEF CreateCategory
  <2>3. Grows /\ ~Grown(q) /\ Grown(q)'
    BY <1>1, <2>2, WrittenIs
  <2>4. q \notin DOMAIN cats /\ None \notin DOMAIN cats
    BY <2>3, NoneIsNoCategory
  <2>0. /\ DOMAIN row = {"parent", "slug", "path", "level", "label"} /\ row.parent = req[q].cat
        /\ row.slug = req[q].slug /\ row.path = PathOf(q) /\ row.level = LevelOf(q) /\ row.label = req[q].label
    BY <2>1
  <2>6. TreeInv
    BY DEF CatalogInv
  <2>5. /\ row.slug \in Slug /\ row.label \in Label /\ row.level \in Nat
        /\ row.path \in Seq(Slug) /\ Len(row.path) = row.level + 1 /\ row.path[row.level + 1] = row.slug
        /\ req[q].cat = None => row.level = 0
        /\ req[q].cat # None =>
             /\ req[q].cat \in DOMAIN cats /\ row.path = Append(cats[req[q].cat].path, row.slug)
             /\ row.level = cats[req[q].cat].level + 1
    <3>1. /\ req[q].slug \in Slug /\ req[q].label \in Label
          /\ req[q].cat # None =>
               req[q].row.path = cats[req[q].cat].path /\ req[q].row.level = cats[req[q].cat].level
      BY <1>1, <1>3 DEF CatalogInv, ChangeFits, CategoryChanges
    <3> QED
      BY <1>3, <2>0, <2>6, <3>1, NewRow
  <2>7. TreeInv' /\ \A d \in DOMAIN cats : Ancestors(d)' = Ancestors(d)
    BY <1>3, <2>0, <2>2, <2>3, <2>4, <2>5, <2>6, TreeGrowsBy
  <2>8. DOMAIN cats' = DOMAIN cats \cup {q} /\ \A c \in DOMAIN cats : cats'[c] = cats[c]
    BY <2>2, <2>4 DEF Put
  <2>9. ASSUME NEW c \in DOMAIN cats', Grown(c) PROVE Remains(c)
    <3>1. c \in DOMAIN cats
      BY <2>3, <2>8, <2>9
    <3>2. Steady(c)
      BY <1>1, <2>7, <3>1, EffectiveStays
    <3> QED
      BY <2>8, <3>1, <3>2 DEF Remains
  <2>10. AttributesInv'
    BY <1>1, <2>3, <2>8 DEF CatalogInv, AttributesInv, Grows
  <2>11. outrun \subseteq outrun' /\ ReadersOf({"tree"}) \subseteq outrun' /\ outrun' \subseteq Request
    BY <2>2 DEF Outruns, ReadersOf, CatalogInv
  <2>12. \A c \in DOMAIN cats : Missed(c)
    BY <2>8 DEF Missed
  <2> QED
    BY <1>1, <2>2, <2>7, <2>9, <2>10, <2>11, <2>12, CategoryWritten
<1> QED
  BY <1>2, <1>3

(* A category takes another label.                                         *)
LEMMA UpdateCategoryKeeps ==
  ASSUME CatalogInv, RequestsOK, NEW q \in Request, UpdateCategory(q)
  PROVE  CatalogInv'
<1>1. /\ req[q].op = "update category" /\ req[q].step = "write" /\ req[q].op \in CategoryChanges
      /\ UNCHANGED <<attrs, links, caches, ads, doubtful>>
  BY DEF UpdateCategory, Asks, CategoryChanges
<1>2. PICK x, label : x = req[q].cat /\ label = req[q].label
  OBVIOUS
<1>3. CASE x \notin DOMAIN cats
  <2>1. Turn(q, Done) /\ UNCHANGED <<cats, outrun>>
    BY <1>2, <1>3 DEF UpdateCategory
  <2> QED
    BY <1>1, <2>1, RowsRefused DEF tables
<1>4. CASE x \in DOMAIN cats
  <2>1. cats' = [cats EXCEPT ![x].label = label] /\ Outruns({"tree"}) /\ Written(q)
    BY <1>2, <1>4 DEF UpdateCategory
  <2>2. label \in Label
    BY <1>1, <1>2, CategoryChangeIs DEF ChangeFits
  <2>3. Grows
    BY <1>1, <2>1, WrittenIs
  <2>4. ASSUME NEW c \in DOMAIN cats
        PROVE  /\ c \in DOMAIN cats' /\ cats'[c].path = cats[c].path /\ cats'[c].slug = cats[c].slug
               /\ cats'[c].level = cats[c].level /\ cats'[c].parent = cats[c].parent
               /\ cats'[c].label \in {label, cats[c].label} /\ DOMAIN cats'[c] = DOMAIN cats[c]
               /\ CategoryFits(c)
    <3>1. CategoryFits(c) /\ {"parent", "slug", "path", "level", "label"} \subseteq DOMAIN cats[c]
      BY DEF CatalogInv, TreeInv, CategoryFits
    <3>2. PICK r, s : r = cats[c] /\ s = cats'[c]
      OBVIOUS
    <3>3. c \in DOMAIN cats' /\ (s = r \/ s = [r EXCEPT !.label = label])
      BY <2>1, <3>2
    <3>4. /\ s.path = r.path /\ s.slug = r.slug /\ s.level = r.level /\ s.parent = r.parent
          /\ s.label \in {label, r.label} /\ DOMAIN s = DOMAIN r
      BY <3>1, <3>2, <3>3
    <3> QED
      BY <3>1, <3>2, <3>3, <3>4
  <2>5. DOMAIN cats' = DOMAIN cats
    BY <2>1
  <2>6. \A d \in DOMAIN cats : Ancestors(d)' = Ancestors(d)
    BY <2>4, <2>5 DEF Ancestors
  <2>7. ASSUME NEW c \in DOMAIN cats PROVE CategoryFits(c)' /\ Rooted(c)'
    <3>1. Grown(c)'
      BY <2>3, <2>4, <2>7 DEF CategoryFits, Grows
    <3>2. cats[c].label \in Label /\ cats'[c].label \in Label
      BY <2>2, <2>4, <2>7 DEF CategoryFits
    <3>3. CategoryFits(c)'
      BY <2>4, <2>5, <2>7, <3>1, <3>2 DEF CategoryFits
    <3>4. Rooted(c) /\ Ancestors(c) \subseteq DOMAIN cats
      BY <2>7 DEF CatalogInv, TreeInv, Ancestors
    <3> QED
      BY <2>4, <2>6, <2>7, <3>3, <3>4 DEF Rooted
  <2>8. \A c, d \in DOMAIN cats : cats[c].slug = cats[d].slug => c = d
    BY DEF CatalogInv, TreeInv
  <2>9. TreeInv'
    BY <2>4, <2>5, <2>7, <2>8 DEF TreeInv
  <2>10. ASSUME NEW c \in DOMAIN cats PROVE Remains(c)
    <3>1. Steady(c)
      BY <1>1, <2>6, <2>10, EffectiveStays
    <3> QED
      BY <2>4, <2>10, <3>1 DEF Remains
  <2>11. AttributesInv'
    BY <1>1, <2>3, <2>5 DEF CatalogInv, AttributesInv, Grows
  <2>12. outrun \subseteq outrun' /\ ReadersOf({"tree"}) \subseteq outrun' /\ outrun' \subseteq Request
    BY <2>1 DEF Outruns, ReadersOf, CatalogInv
  <2>13. \A c \in DOMAIN cats : Missed(c)
    BY <2>5 DEF Missed
  <2> QED
    BY <1>1, <2>1, <2>5, <2>9, <2>10, <2>11, <2>12, <2>13, CategoryWritten
<1> QED
  BY <1>3, <1>4

(* A category without children goes, and its links with it.                *)
LEMMA DeleteCategoryKeeps ==
  ASSUME CatalogInv, RequestsOK, NEW q \in Request, DeleteCategory(q)
  PROVE  CatalogInv'
<1>1. /\ req[q].op = "delete category" /\ req[q].step = "write" /\ req[q].op \in CategoryChanges
      /\ UNCHANGED <<attrs, caches, ads, doubtful>>
  BY DEF DeleteCategory, Asks, CategoryChanges
<1>2. PICK x : x = req[q].cat
  OBVIOUS
<1>3. CASE x \notin DOMAIN cats \/ Children(x) # {}
  <2>1. Turn(q, Done) /\ UNCHANGED <<cats, links, outrun>>
    BY <1>2, <1>3 DEF DeleteCategory
  <2> QED
    BY <1>1, <2>1, RowsRefused DEF tables
<1>4. CASE x \in DOMAIN cats /\ Children(x) = {}
  <2>1. cats' = Drop(cats, {x}) /\ links' = {l \in links : l[1] # x} /\ OutrunsAll(x) /\ Written(q)
    BY <1>2, <1>4 DEF DeleteCategory
  <2>2. Grows
    BY <1>1, <2>1, WrittenIs
  <2>3. DOMAIN cats' = DOMAIN cats \ {x} /\ \A c \in DOMAIN cats' : cats'[c] = cats[c]
    BY <2>1 DEF Drop
  <2>4. TreeInv
    BY DEF CatalogInv
  <2>5. ASSUME NEW d \in DOMAIN cats' PROVE x \notin Ancestors(d) /\ Ancestors(d)' = Ancestors(d)
    <3>1. d \in DOMAIN cats /\ d # x
      BY <2>3, <2>5
    <3>2. x \notin Ancestors(d)
      BY <1>4, <2>4, <3>1, AncestorHasChild
    <3> QED
      BY <2>3, <2>5, <3>2 DEF Ancestors
  <2>6. ASSUME NEW c \in DOMAIN cats' PROVE CategoryFits(c)' /\ Rooted(c)'
    <3>1. CategoryFits(c) /\ Rooted(c) /\ c \in DOMAIN cats /\ cats'[c] = cats[c]
      BY <2>3, <2>4, <2>6 DEF TreeInv
    <3>2. Grown(c)'
      BY <2>2, <3>1 DEF CategoryFits, Grows
    <3>3. cats[c].parent # x
      BY <1>4, <3>1 DEF Children
    <3>4. cats[c].parent # None => cats[c].parent \in DOMAIN cats' /\ cats'[cats[c].parent] = cats[cats[c].parent]
      BY <2>3, <3>1, <3>3 DEF CategoryFits
    <3>5. CategoryFits(c)'
      BY <2>6, <3>1, <3>2, <3>4 DEF CategoryFits
    <3>6. \A a \in Ancestors(c) : a \in DOMAIN cats'
      BY <2>3, <2>5, <2>6 DEF Ancestors
    <3> QED
      BY <2>3, <2>5, <2>6, <3>1, <3>5, <3>6 DEF Rooted
  <2>7. \A c, d \in DOMAIN cats : cats[c].slug = cats[d].slug => c = d
    BY <2>4 DEF TreeInv
  <2>8. TreeInv'
    BY <2>3, <2>6, <2>7 DEF TreeInv
  <2>9. ASSUME NEW c \in DOMAIN cats' PROVE Remains(c)
    <3>1. Steady(c)
      BY <1>1, <2>1, <2>5, <2>9, EffectiveStays
    <3> QED
      BY <2>3, <2>9, <3>1 DEF Remains
  <2>10. AttributesInv'
    <3>1. \A l \in links' : l \in links /\ l[1] # x
      BY <2>1
    <3> QED
      BY <1>1, <2>2, <2>3, <3>1 DEF CatalogInv, AttributesInv, Grows
  <2>11. /\ outrun \subseteq outrun' /\ ReadersOf({"tree"}) \subseteq outrun' /\ outrun' \subseteq Request
         /\ Checked(x) \subseteq outrun'
    BY <2>1 DEF OutrunsAll, ReadersOf, Checked, CatalogInv
  <2>12. \A c \in DOMAIN cats : Missed(c)
    BY <2>3, <2>11 DEF Missed
  <2>13. \A c \in DOMAIN cats' : Grown(c) => Remains(c)
    BY <2>9
  <2>14. /\ req[q].op \in CategoryChanges /\ req[q].step = "write" /\ Written(q)
         /\ UNCHANGED <<caches, ads, doubtful>>
    BY <1>1, <2>1
  <2> QED
    BY <2>8, <2>10, <2>11, <2>12, <2>13, <2>14, CategoryWritten
<1>5. (x \notin DOMAIN cats \/ Children(x) # {}) \/ (x \in DOMAIN cats /\ Children(x) = {})
  OBVIOUS
<1> QED
  BY <1>3, <1>4, <1>5

(***************************************************************************)
(* The rows of the attributes, and their links.                            *)
(***************************************************************************)
LEMMA AttributeWritten ==
  ASSUME CatalogInv, RequestsOK, NEW q \in Request, req[q].op \in AttributeChanges, Written(q),
         UNCHANGED <<cats, caches, ads, doubtful>>, Outruns(Readers), Grows => AttributesInv'
  PROVE  CatalogInv'
<1>1. /\ {"op", "step", "body"} \subseteq DOMAIN req[q] /\ req[q] # Done
      /\ req[q].op \notin CategoryChanges /\ ChangeFits(q)
  BY AttributeChangeIs
<1>2. Proceed(q, "invalidate")
  BY DEF Written
<1>3. /\ DOMAIN req'[q] = DOMAIN req[q] /\ req'[q].step = "invalidate"
      /\ req'[q].op = req[q].op /\ \A p \in Request : p # q => req'[p] = req[p]
  BY <1>1, <1>2, GoesOn
<1>4. ~Grown(q)
  BY <1>1, RequestAssumption DEF Grown, Root, AttributeChanges
<1>5. Grows
  BY <1>1, <1>3, <1>4, GrowsOn
<1>6. Changing(AttributeChanges)' /\ (Changing(CategoryChanges) => Changing(CategoryChanges)')
  BY <1>1, <1>3 DEF Changing
<1>7. Fits(q)'
  <2>1. req[q].op # "tree" /\ req[q].op \notin Readers
    BY DEF AttributeChanges, Readers
  <2>2. TreeRead(q)' /\ ReaderFits(q)'
    BY <1>3, <2>1 DEF TreeRead, ReaderFits, Readers
  <2>3. ChangeFits(q)'
    BY <1>1, <1>3 DEF ChangeFits, CategoryChanges
  <2> QED
    BY <2>2, <2>3 DEF Fits
<1>8. /\ outrun \subseteq outrun' /\ ReadersOf(Readers) \subseteq outrun' /\ outrun' \subseteq Request
  BY DEF Outruns, ReadersOf, CatalogInv
<1>9. /\ gen \in Nat /\ gen' = gen /\ attrCache' = attrCache /\ doubtful' = doubtful /\ treeCache' = treeCache
      /\ TreeCached /\ \A key \in DOMAIN attrCache : KeyFits(key)
  BY DEF CatalogInv, caches
<1>10. TreeCached'
  BY <1>6, <1>9, TreeCacheStays
<1>11. ASSUME NEW key \in DOMAIN attrCache PROVE KeyFits(key)'
  <2>1. PICK c : c = key[2]
    OBVIOUS
  <2>2. KeyFits(key) /\ Grown(c)'
    BY <1>5, <1>9, <2>1 DEF KeyFits, Grows
  <2> QED
    BY <1>6, <1>9, <2>1, <2>2 DEF KeyFits
<1>12. ASSUME NEW p \in Request PROVE Fits(p)'
  <2>1. CASE p = q
    BY <1>7, <2>1
  <2>2. CASE p # q
    <3>1. BuildTree(cats)' = BuildTree(cats)
      BY DEF BuildTree
    <3>2. Old(p)
      BY <1>8, <3>1 DEF Old
    <3> QED
      BY <1>3, <1>5, <1>8, <1>9, <2>2, <3>2, FitsStay DEF CatalogInv, Fits
  <2> QED
    BY <2>1, <2>2
<1>13. TreeInv' /\ AttributesInv'
  BY <1>5, TreeStays DEF CatalogInv
<1>14. DOMAIN ads' \subseteq Request
  BY DEF CatalogInv
<1> QED
  BY <1>8, <1>9, <1>10, <1>11, <1>12, <1>13, <1>14 DEF CatalogInv, Fits

(* An attribute takes another type and other options.                      *)
LEMMA UpdateAttributeKeeps ==
  ASSUME CatalogInv, RequestsOK, NEW q \in Request, UpdateAttribute(q)
  PROVE  CatalogInv'
<1>1. PICK x, body : x = req[q].attr /\ body = req[q].body
  OBVIOUS
<1>2. /\ req[q].op = "update attribute" /\ req[q].step = "write" /\ req[q].op \in AttributeChanges
      /\ UNCHANGED <<cats, links, caches, ads, doubtful>>
  BY DEF UpdateAttribute, Asks, AttributeChanges
<1>3. CASE x \notin DOMAIN attrs
  <2>1. Turn(q, Done) /\ UNCHANGED <<attrs, outrun>>
    BY <1>1, <1>3 DEF UpdateAttribute
  <2> QED
    BY <1>2, <2>1, RowsRefused DEF tables
<1>4. CASE x \in DOMAIN attrs
  <2>1. attrs' = [attrs EXCEPT ![x] = body] /\ Outruns(Readers) /\ Written(q)
    BY <1>1, <1>4 DEF UpdateAttribute
  <2>2. ValidOptions(body.type, body.options)
    BY <1>1, <1>2, AttributeChangeIs DEF ChangeFits
  <2>3. \A a \in DOMAIN attrs : attrs'[a] \in {attrs[a], body}
    BY <2>1
  <2>4. DOMAIN attrs' = DOMAIN attrs
    BY <2>1
  <2>5. ASSUME Grows PROVE AttributesInv'
    <3>1. AttributesInv
      BY DEF CatalogInv
    <3>2. ASSUME NEW a \in DOMAIN attrs
          PROVE  Kept(a)' /\ ValidOptions(attrs'[a].type, attrs'[a].options)
      BY <2>2, <2>3, <2>5, <3>1, <3>2 DEF AttributesInv, Grows
    <3>3. \A l \in links' : l[1] \in DOMAIN cats' /\ l[2] \in DOMAIN attrs'
      BY <1>2, <2>4, <3>1 DEF AttributesInv
    <3> QED
      BY <2>4, <3>2, <3>3 DEF AttributesInv, ValidOptions
  <2> QED
    BY <1>2, <2>1, <2>5, AttributeWritten
<1> QED
  BY <1>3, <1>4

(* An attribute goes, and its links with it.                               *)
LEMMA DeleteAttributeKeeps ==
  ASSUME CatalogInv, RequestsOK, NEW q \in Request, DeleteAttribute(q)
  PROVE  CatalogInv'
<1>1. PICK x : x = req[q].attr
  OBVIOUS
<1>2. /\ req[q].op = "delete attribute" /\ req[q].step = "read" /\ req[q].op \in AttributeChanges
      /\ UNCHANGED <<cats, caches, ads, doubtful>>
  BY DEF DeleteAttribute, Asks, AttributeChanges
<1>3. CASE x \notin DOMAIN attrs
  <2>1. Turn(q, Done) /\ UNCHANGED <<attrs, links, outrun>>
    BY <1>1, <1>3 DEF DeleteAttribute
  <2> QED
    BY <1>2, <2>1, RowsRefused DEF tables
<1>4. CASE x \in DOMAIN attrs
  <2>1. attrs' = Drop(attrs, {x}) /\ links' = {l \in links : l[2] # x} /\ Outruns(Readers) /\ Written(q)
    BY <1>1, <1>4 DEF DeleteAttribute
  <2>2. DOMAIN attrs' = DOMAIN attrs \ {x} /\ \A a \in DOMAIN attrs' : attrs'[a] = attrs[a]
    BY <2>1 DEF Drop
  <2>3. ASSUME Grows PROVE AttributesInv'
    <3>1. AttributesInv
      BY DEF CatalogInv
    <3>2. \A a \in DOMAIN attrs' : Kept(a)' /\ ValidOptions(attrs'[a].type, attrs'[a].options)
      BY <2>2, <2>3, <3>1 DEF AttributesInv, Grows
    <3>3. \A l \in links' : l[1] \in DOMAIN cats' /\ l[2] \in DOMAIN attrs'
      BY <1>2, <2>1, <2>2, <3>1 DEF AttributesInv
    <3> QED
      BY <3>2, <3>3 DEF AttributesInv, ValidOptions
  <2> QED
    BY <1>2, <2>1, <2>3, AttributeWritten
<1> QED
  BY <1>3, <1>4

(* An attribute is linked to a category, or is so no more.                 *)
LEMMA LinkKeeps ==
  ASSUME CatalogInv, RequestsOK, NEW q \in Request, LinkAttribute(q) \/ UnlinkAttribute(q)
  PROVE  CatalogInv'
<1>1. PICK c, a, link : c = req[q].cat /\ a = req[q].attr /\ link = <<c, a>>
  OBVIOUS
<1>2. /\ req[q].op \in {"link", "unlink"} /\ req[q].step \in {"write", "read"} /\ req[q].op \in AttributeChanges
      /\ UNCHANGED <<cats, attrs, caches, ads, doubtful>>
  BY DEF LinkAttribute, UnlinkAttribute, Asks, AttributeChanges
<1>3. \/ Turn(q, Done) /\ UNCHANGED <<links, outrun>>
      \/ /\ Outruns(Readers) /\ Written(q)
         /\ \/ links' = links \ {link}
            \/ links' = links \cup {link} /\ link[1] \in DOMAIN cats /\ link[2] \in DOMAIN attrs
  <2>1. CASE LinkAttribute(q)
    BY <1>1, <2>1 DEF LinkAttribute
  <2>2. CASE UnlinkAttribute(q)
    <3>1. CASE link \notin links
      BY <1>1, <2>2, <3>1 DEF UnlinkAttribute
    <3>2. CASE link \in links
      BY <1>1, <2>2, <3>2 DEF UnlinkAttribute
    <3> QED
      BY <3>1, <3>2
  <2> QED
    BY <2>1, <2>2
<1>4. CASE Turn(q, Done) /\ UNCHANGED <<links, outrun>>
  BY <1>2, <1>4, RowsRefused DEF tables
<1>5. CASE /\ Outruns(Readers) /\ Written(q)
           /\ \/ links' = links \ {link}
              \/ links' = links \cup {link} /\ link[1] \in DOMAIN cats /\ link[2] \in DOMAIN attrs
  <2>1. ASSUME Grows PROVE AttributesInv'
    <3>1. AttributesInv
      BY DEF CatalogInv
    <3>2. \A x \in DOMAIN attrs' : Kept(x)' /\ ValidOptions(attrs'[x].type, attrs'[x].options)
      BY <1>2, <2>1, <3>1 DEF AttributesInv, Grows
    <3>3. \A l \in links' : l[1] \in DOMAIN cats' /\ l[2] \in DOMAIN attrs'
      BY <1>2, <1>5, <3>1 DEF AttributesInv
    <3> QED
      BY <3>2, <3>3 DEF AttributesInv, ValidOptions
  <2> QED
    BY <1>2, <1>5, <2>1, AttributeWritten
<1> QED
  BY <1>3, <1>4, <1>5

(* A new attribute is linked to nothing.                                   *)
LEMMA CreateAttributeKeeps ==
  ASSUME CatalogInv, RequestsOK, NEW q \in Request, CreateAttribute(q)
  PROVE  CatalogInv'
<1>1. PICK body : body = req[q].body
  OBVIOUS
<1>2. /\ req[q].op = "add attribute" /\ req[q].step = "read" /\ Turn(q, Done)
      /\ attrs' = (IF ValidOptions(body.type, body.options) THEN Put(attrs, q, body) ELSE attrs)
      /\ UNCHANGED <<cats, links, caches, ads, outrun, doubtful>>
  BY <1>1 DEF CreateAttribute, Asks, catalogHistory
<1>3. req[q] # Done /\ req[q].op \notin CategoryChanges /\ req[q].op \notin AttributeChanges
  <2>1. req[q].op = "add attribute" /\ Done.op = "done"
    BY <1>2 DEF Done
  <2>2. req[q] # Done
    BY <2>1
  <2>3. req[q].op \notin CategoryChanges
    BY <2>1 DEF CategoryChanges
  <2>4. req[q].op \notin AttributeChanges
    BY <2>1 DEF AttributeChanges
  <2> QED
    BY <2>2, <2>3, <2>4
<1>4. req'[q] = Done /\ \A p \in Request : p # q => req'[p] = req[p]
  BY <1>2, TurnsDone
<1>5. Grows
  BY <1>3, <1>4, GrowsOn
<1>6. q \notin DOMAIN attrs
  <2>1. ~Kept(q)
    BY <1>3, RequestAssumption DEF Kept, Root
  <2> QED
    BY <2>1 DEF CatalogInv, AttributesInv
<1>7. /\ DOMAIN attrs \subseteq DOMAIN attrs' /\ \A a \in DOMAIN attrs : attrs'[a] = attrs[a]
      /\ \A a \in DOMAIN attrs' : a \notin DOMAIN attrs =>
           a = q /\ attrs'[a] = body /\ ValidOptions(body.type, body.options)
  BY <1>2, <1>6 DEF Put
<1>8. AttributesInv'
  <2>1. AttributesInv
    BY DEF CatalogInv
  <2>2. ASSUME NEW a \in DOMAIN attrs' PROVE Kept(a)' /\ ValidOptions(attrs'[a].type, attrs'[a].options)
    <3>1. CASE a \in DOMAIN attrs
      BY <1>5, <1>7, <2>1, <3>1 DEF AttributesInv, Grows
    <3>2. CASE a \notin DOMAIN attrs
      <4>1. a = q /\ attrs'[a] = body /\ ValidOptions(body.type, body.options)
        BY <1>7, <2>2, <3>2
      <4>2. Kept(q)'
        BY <1>4 DEF Kept
      <4> QED
        BY <4>1, <4>2
    <3> QED
      BY <3>1, <3>2
  <2>3. \A l \in links' : l[1] \in DOMAIN cats' /\ l[2] \in DOMAIN attrs'
    BY <1>2, <1>7, <2>1 DEF AttributesInv
  <2> QED
    BY <2>2, <2>3 DEF AttributesInv, ValidOptions
<1>9. ASSUME NEW c PROVE Steady(c)
  <2>1. Linked(c)' = Linked(c)
    BY <1>2 DEF Linked, Ancestors
  <2>2. Linked(c) \subseteq DOMAIN attrs
    BY DEF CatalogInv, AttributesInv, Linked
  <2>3. Rows(c)' = Rows(c)
    BY <1>7, <2>1, <2>2 DEF Rows
  <2>4. Options(Linked(c))' = Options(Linked(c))
    BY <1>7, <2>1, <2>2 DEF Options
  <2> QED
    BY <2>3, <2>4 DEF Steady, Effective, Specified
<1>10. /\ gen \in Nat /\ gen' = gen /\ attrCache' = attrCache /\ doubtful' = doubtful /\ treeCache' = treeCache
       /\ TreeCached /\ \A key \in DOMAIN attrCache : KeyFits(key)
  BY <1>2 DEF CatalogInv, caches
<1>11. /\ Changing(CategoryChanges) => Changing(CategoryChanges)'
       /\ Changing(AttributeChanges) => Changing(AttributeChanges)'
  BY <1>2, <1>3, DoneLeavesChanging
<1>12. TreeCached'
  BY <1>2, <1>10, <1>11, TreeCacheStays
<1>13. ASSUME NEW key \in DOMAIN attrCache PROVE KeyFits(key)'
  <2>1. PICK c : c = key[2]
    OBVIOUS
  <2>2. KeyFits(key) /\ Grown(c)' /\ Effective(c)' = Effective(c)
    BY <1>5, <1>9, <1>10, <2>1 DEF KeyFits, Grows, Steady
  <2> QED
    BY <1>2, <1>10, <1>11, <2>1, <2>2 DEF KeyFits
<1>14. ASSUME NEW p \in Request PROVE Fits(p)'
  <2>1. CASE p = q
    BY <1>4, <2>1, DoneFits
  <2>2. CASE p # q
    <3>1. BuildTree(cats)' = BuildTree(cats)
      BY <1>2 DEF BuildTree
    <3>2. Old(p)
      BY <1>2, <1>9, <3>1 DEF Old
    <3>3. Fits(p)
      BY DEF CatalogInv, Fits
    <3>4. req'[p] = req[p] /\ outrun \subseteq outrun'
      BY <1>2, <1>4, <2>2
    <3>5. gen \in Nat /\ gen' \in Nat /\ gen <= gen'
      BY <1>10
    <3> QED
      BY <1>5, <3>2, <3>3, <3>4, <3>5, FitsStay
  <2> QED
    BY <2>1, <2>2
<1>15. TreeInv'
  BY <1>2, <1>5, TreeStays DEF CatalogInv
<1>16. DOMAIN ads' \subseteq Request /\ outrun' \subseteq Request
  BY <1>2 DEF CatalogInv
<1> QED
  BY <1>8, <1>10, <1>12, <1>13, <1>14, <1>15, <1>16 DEF CatalogInv, Fits

(***************************************************************************)
(* What a story allows is spent; what it says of the catalog stays.        *)
(***************************************************************************)
Counters == {"uploads", "retakes", "failures", "reads", "ads", "categories", "attributes", "views", "deletions"}
Spends == budget' = budget \/ \E input \in Counters : Spend(input)

(* What the story says of the catalog stays.                               *)
LEMMA StoryStays ==
  ASSUME StoryFits(budget), Spends
  PROVE  StoryFits(budget)'
<1>1. /\ budget'.root = budget.root /\ budget'.label = budget.label /\ budget'.attribute = budget.attribute
      /\ budget'.slugs = budget.slugs /\ budget'.bodies = budget.bodies /\ DOMAIN budget' = DOMAIN budget
  <2>1. ASSUME NEW input \in Counters, Spend(input), NEW x, x \in DOMAIN budget, x \notin Counters
        PROVE  budget'[x] = budget[x] /\ DOMAIN budget' = DOMAIN budget
    BY <2>1 DEF Spend
  <2>2. ASSUME NEW x \in DOMAIN budget, x \notin Counters
        PROVE  budget'[x] = budget[x] /\ DOMAIN budget' = DOMAIN budget
    BY <2>1, <2>2 DEF Spends
  <2>3. /\ "root" \in DOMAIN budget /\ "label" \in DOMAIN budget /\ "attribute" \in DOMAIN budget
        /\ "slugs" \in DOMAIN budget /\ "bodies" \in DOMAIN budget
    BY DEF StoryFits
  <2>4. "root" \notin Counters /\ "label" \notin Counters /\ "attribute" \notin Counters
        /\ "slugs" \notin Counters /\ "bodies" \notin Counters
    BY DEF Counters
  <2> QED
    BY <2>2, <2>3, <2>4
<1> QED
  BY <1>1 DEF StoryFits, ValidOptions

(* Uploads spend of the budget, ...                                        *)
LEMMA UploadsSpend ==
  ASSUME NEW q \in Request, UploadRequest(q)
  PROVE  Spends
<1>1. CASE \E f \in budget.files : Upload(q, f)
  BY <1>1 DEF Upload, Spends, Counters
<1>2. CASE CountByAd(q) \/ PutOriginal(q) \/ InsertWithEvent(q) \/ Compensate(q)
  BY <1>2 DEF CountByAd, PutOriginal, InsertWithEvent, Compensate, Spends
<1>3. CASE InsertFails(q) \/ InsertUnknown(q) \/ UploadDies(q)
  BY <1>3 DEF InsertFails, InsertUnknown, UploadDies, Spends, Counters
<1> QED
  BY <1>1, <1>2, <1>3 DEF UploadRequest

(* ... as the workers of media do, ...                                     *)
LEMMA MediaSpends ==
  ASSUME MediaNext
  PROVE  Spends
<1>1. ASSUME NEW w \in Goroutine, MediaWork(w) PROVE Spends
  <2>1. ASSUME NEW x, Give(w, x) PROVE Spends
    <3>1. budget' = budget \/ budget' = [budget EXCEPT !.retakes = @ - 1]
      BY <2>1 DEF Give
    <3> QED
      BY <3>1 DEF Spends, Counters, Spend
  <2>2. CASE ~\E x \in mail : Give(w, x)
    BY <1>1, <2>2 DEF MediaWork, Acknowledge, ReadRow, MarkEventProcessed, GetOriginal, CleanOriginal,
                      PutPreview, MarkProcessedWithEvent, Sweep, RemoveBlob, DeleteWithEvent, inputs, Spends
  <2> QED
    BY <2>1, <2>2
<1>2. ASSUME NEW w \in Goroutine, MediaFaults(w) PROVE Spends
  BY <1>2 DEF MediaFaults, RemoveBlobFails, DeleteFails, Break, Spends, Counters
<1>3. ASSUME NEW m \in Request, GrowOld(m) PROVE Spends
  BY <1>3 DEF GrowOld, inputs, Spends
<1> QED
  BY <1>1, <1>2, <1>3, UploadsSpend DEF MediaNext

(* ... the catalog, ...                                                    *)
LEMMA CatalogSpends ==
  ASSUME CatalogNext
  PROVE  Spends
<1>1. ASSUME NEW q \in Request, CatalogAsks(q) PROVE Spends
  <2>1. CASE AskTree(q)
    BY <2>1 DEF AskTree, Spends, Counters
  <2>2. ASSUME NEW c, NEW values, AskAttributes(q, c) \/ AskAd(q, c, values) PROVE Spends
    BY <2>2 DEF AskAttributes, AskAd, Spends, Counters
  <2>3. ASSUME NEW op, NEW c, NEW s, NEW l, AskCategory(q, op, c, s, l) PROVE Spends
    BY <2>3 DEF AskCategory, Spends, Counters
  <2>4. ASSUME NEW op, NEW c, NEW a, NEW body, AskAttribute(q, op, c, a, body) PROVE Spends
    BY <2>4 DEF AskAttribute, Spends, Counters
  <2>5. ASSUME NEW input \in {"categories", "attributes"}, Refused(q, input) PROVE Spends
    BY <2>5 DEF Refused, Spends, Counters
  <2> QED
    BY <1>1, <2>1, <2>2, <2>3, <2>4, <2>5 DEF CatalogAsks
<1>2. ASSUME NEW q \in Request, CatalogWork(q) PROVE Spends
  <2>1. CASE \/ GetTree(q) \/ AllCategories(q) \/ SetTree(q) \/ CheckCategory(q) \/ GetGeneration(q) \/ GetCached(q)
             \/ EffectiveRows(q) \/ EffectiveOptions(q) \/ GetGenerationAgain(q) \/ SetAttributes(q) \/ StoreAd(q)
    BY <2>1 DEF GetTree, AllCategories, SetTree, CheckCategory, GetGeneration, GetCached, EffectiveRows,
                EffectiveOptions, GetGenerationAgain, SetAttributes, StoreAd, Spends
  <2>2. CASE \/ ReadCategory(q) \/ CreateCategory(q) \/ UpdateCategory(q) \/ CountChildren(q) \/ DeleteCategory(q)
             \/ InvalidateTree(q)
    BY <2>2 DEF ReadCategory, CreateCategory, UpdateCategory, CountChildren, DeleteCategory, InvalidateTree, Spends
  <2>3. CASE \/ CreateAttribute(q) \/ CheckLinked(q) \/ ReadAttribute(q) \/ UpdateAttribute(q)
             \/ DeleteAttribute(q) \/ LinkAttribute(q) \/ UnlinkAttribute(q) \/ InvalidateAttributes(q)
    BY <2>3 DEF CreateAttribute, CheckLinked, ReadAttribute, UpdateAttribute, DeleteAttribute, LinkAttribute,
                UnlinkAttribute, InvalidateAttributes, Spends
  <2> QED
    BY <1>2, <2>1, <2>2, <2>3 DEF CatalogWork
<1>3. ASSUME NEW q \in Request, CacheFails(q) \/ InvalidationFails(q) PROVE Spends
  BY <1>3 DEF CacheFails, InvalidationFails, Spends, Counters
<1>4. ASSUME Expiry PROVE Spends
  BY <1>4 DEF Expiry, ExpireTree, ExpireAttributes, inputs, Spends
<1> QED
  BY <1>1, <1>2, <1>3, <1>4 DEF CatalogNext

(* ... and the counter of views.                                           *)
LEMMA CountsSpend ==
  ASSUME CountNext
  PROVE  Spends
<1>1. ASSUME NEW q \in Request, ViewRequest(q) PROVE Spends
  BY <1>1 DEF ViewRequest, GetAd, Incr, IncrFails, Spends, Counters
<1>2. ASSUME NEW a \in ViewedAd, DeleteViewed(a) PROVE Spends
  BY <1>2 DEF DeleteViewed, Spends, Counters
<1>3. ASSUME NEW f \in Flusher, FlushWork(f) PROVE Spends
  BY <1>3 DEF FlushWork, Drain, AddViews, Restore, inputs, Spends
<1>4. ASSUME NEW f \in Flusher, DrainUnanswered(f) \/ AddFails(f) \/ FlushDies(f) PROVE Spends
  BY <1>4 DEF DrainUnanswered, AddFails, FlushDies, Spends, Counters
<1> QED
  BY <1>1, <1>2, <1>3, <1>4 DEF CountNext, ViewRequest

(* What is left alone, by its parts.                                       *)
LEMMA CatalogLeft ==
  ASSUME UNCHANGED catalogVars
  PROVE  UNCHANGED <<tables, caches, outrun, doubtful>> /\ ads' = ads
  BY DEF catalogVars, catalogHistory

(* What the other services do.                                             *)
LEMMA CatalogAtRest ==
  ASSUME CatalogInv, NEW ops, Moved(ops), \A op \in CatalogOps : op \notin ops, "done" \notin ops,
         UNCHANGED catalogVars
  PROVE  CatalogInv'
<1>0. UNCHANGED <<tables, caches, outrun, doubtful>> /\ ads' = ads
  BY CatalogLeft
<1>1. UNCHANGED <<tables, caches, doubtful>> /\ UNCHANGED <<cats, gen, ads, outrun, attrs, links>>
  <2>1. UNCHANGED <<cats, attrs, links>>
    BY <1>0 DEF tables
  <2>2. gen' = gen
    BY <1>0 DEF caches
  <2> QED
    BY <1>0, <2>1, <2>2
<1>2. "idle" \notin CatalogOps /\ "done" \notin CatalogOps
  BY DEF CatalogOps
<1>3. ASSUME NEW p \in Request, req[p].op \in CatalogOps \/ req'[p].op \in CatalogOps PROVE req'[p] = req[p]
  BY <1>2, <1>3, OthersStay
<1>4. /\ CategoryChanges \subseteq CatalogOps /\ AttributeChanges \subseteq CatalogOps /\ Readers \subseteq CatalogOps
      /\ "tree" \in CatalogOps /\ "add attribute" \in CatalogOps /\ "add category" \in CatalogOps
      /\ "update attribute" \in CatalogOps
  BY DEF CatalogOps, CategoryChanges, AttributeChanges, Readers
<1>5. Grows
  <2>1. ASSUME NEW q \in Request, req[q] = Done PROVE req'[q] = Done
    BY <2>1, DoneStays
  <2>2. ASSUME NEW c, Grown(c) PROVE Grown(c)'
    BY <1>3, <1>4, <2>1, <2>2 DEF Grown
  <2>3. ASSUME NEW c, Kept(c) PROVE Kept(c)'
    BY <2>1, <2>3 DEF Kept
  <2> QED
    BY <2>2, <2>3 DEF Grows
<1>6. ASSUME NEW kinds, kinds \subseteq CatalogOps, Changing(kinds) PROVE Changing(kinds)'
  <2>1. PICK q \in Request : req[q].op \in kinds /\ req[q].step = "invalidate"
    BY <1>6 DEF Changing
  <2>2. req'[q] = req[q]
    BY <1>3, <1>6, <2>1
  <2> QED
    BY <2>1, <2>2 DEF Changing
<1>7. ASSUME NEW p \in Request PROVE Fits(p)'
  <2>1. CASE req'[p].op \in CatalogOps
    <3>1. req'[p] = req[p] /\ outrun \subseteq outrun'
      BY <1>1, <1>3, <2>1
    <3>2. Fits(p) /\ gen \in Nat /\ gen' \in Nat
      BY <1>1 DEF CatalogInv, Fits
    <3>3. gen <= gen'
      BY <1>1, <3>2
    <3>4. Old(p)
      BY <1>1, OldTables
    <3> QED
      BY <1>5, <3>1, <3>2, <3>3, <3>4, FitsStay
  <2>2. CASE req'[p].op \notin CatalogOps
    <3>1. /\ req'[p].op # "tree" /\ req'[p].op \notin Readers /\ req'[p].op \notin CategoryChanges
          /\ req'[p].op \notin AttributeChanges \cup {"add attribute"} /\ req'[p].op # "update attribute"
      BY <1>4, <2>2
    <3> QED
      BY <3>1 DEF Fits, TreeRead, ReaderFits, ChangeFits, Readers
  <2> QED
    BY <2>1, <2>2
<1>8. TreeInv' /\ AttributesInv'
  BY <1>1, <1>5, TreeStays, AttributesStay DEF CatalogInv
<1>9. TreeCached' /\ \A key \in DOMAIN attrCache' : KeyFits(key)'
  <2>1. /\ Changing(CategoryChanges) => Changing(CategoryChanges)'
        /\ Changing(AttributeChanges) => Changing(AttributeChanges)'
    BY <1>4, <1>6
  <2>2. UNCHANGED <<tables, caches, doubtful>>
    BY <1>1
  <2> QED
    BY <1>5, <2>1, <2>2, CachesStay DEF CatalogInv
<1> QED
  BY <1>1, <1>7, <1>8, <1>9 DEF CatalogInv, Fits

(* A root category with one attribute at first, and nothing is cached.     *)
LEMMA CatalogBegins ==
  ASSUME Init
  PROVE  CatalogInv /\ StoryFits(budget)
<1>1. StoryFits(budget) /\ \A q \in Request : req[q].op = "idle"
  BY BudgetAssumption DEF Init, RequestsInit, Idle
<1>2. PICK s, l, a : s = budget.root /\ l = budget.label /\ a = budget.attribute
  OBVIOUS
<1>3. s \in Slug /\ l \in Label /\ ValidOptions(a.type, a.options)
  BY <1>1, <1>2 DEF StoryFits
<1>4. PICK row : row = [parent |-> None, slug |-> s, path |-> <<s>>, level |-> 0, label |-> l]
  OBVIOUS
<1>5. /\ cats = Put(<<>>, Root, row) /\ attrs = Put(<<>>, Root, a) /\ links = {<<Root, Root>>}
      /\ treeCache = None /\ attrCache = <<>> /\ gen = 0 /\ ads = <<>> /\ outrun = {} /\ doubtful = {}
  BY <1>2, <1>4 DEF Init, CatalogInit
<1>6. DOMAIN cats = {Root} /\ cats[Root] = row /\ DOMAIN attrs = {Root} /\ attrs[Root] = a
  <2>1. DOMAIN <<>> = {}
    OBVIOUS
  <2> QED
    BY <1>5, <2>1 DEF Put
<1>7. /\ DOMAIN row = {"parent", "slug", "path", "level", "label"} /\ row.parent = None /\ row.slug = s
      /\ row.path = <<s>> /\ row.level = 0 /\ row.label = l
  BY <1>4
<1>8. TreeInv
  <2>1. PICK t, n : t = row.path /\ n = row.level
    OBVIOUS
  <2>2. n \in Nat /\ t \in Seq(Slug) /\ Len(t) = n + 1 /\ t[n + 1] = s
    BY <1>3, <1>7, <2>1, RootRow
  <2>3. CategoryFits(Root)
    BY <1>3, <1>6, <1>7, <2>1, <2>2 DEF CategoryFits, Grown
  <2>4. IsPrefix(t, t)
    <3>1. Len(t) <= Len(t)
      BY <2>2
    <3> QED
      BY <2>2, <3>1, PrefixIs
  <2>5. Root \in Ancestors(Root)
    BY <1>6, <2>1, <2>4 DEF Ancestors
  <2>6. \A k \in 0..n : k = n
    BY <1>7, <2>1
  <2>7. Rooted(Root)
    BY <1>6, <2>1, <2>5, <2>6 DEF Rooted
  <2> QED
    BY <1>6, <2>3, <2>7 DEF TreeInv
<1>9. AttributesInv
  BY <1>3, <1>5, <1>6 DEF AttributesInv, Kept
<1>10. \A q \in Request : TreeRead(q) /\ ReaderFits(q) /\ ChangeFits(q)
  BY <1>1 DEF TreeRead, ReaderFits, ChangeFits, Readers, CategoryChanges, AttributeChanges
<1>11. TreeCached /\ \A key \in DOMAIN attrCache : KeyFits(key)
  <2>1. DOMAIN <<>> = {}
    OBVIOUS
  <2> QED
    BY <1>5, <2>1 DEF TreeCached, TreeIsExact
<1>12. gen \in Nat /\ DOMAIN ads \subseteq Request /\ outrun \subseteq Request
  <2>1. DOMAIN <<>> = {}
    OBVIOUS
  <2> QED
    BY <1>5, <2>1
<1> QED
  BY <1>1, <1>8, <1>9, <1>10, <1>11, <1>12 DEF CatalogInv

(* Every step of the catalog keeps the invariant.                          *)
LEMMA CatalogNextKeeps ==
  ASSUME CatalogInv, RequestsOK, StoryFits(budget), CatalogNext
  PROVE  CatalogInv'
<1>1. ASSUME NEW q \in Request, CatalogAsks(q) PROVE CatalogInv'
  BY <1>1, CatalogAsked
<1>2. ASSUME NEW q \in Request, CatalogWork(q) PROVE CatalogInv'
  <2>1. CASE \/ GetTree(q) \/ AllCategories(q) \/ SetTree(q) \/ CheckCategory(q) \/ GetGeneration(q) \/ GetCached(q)
             \/ EffectiveRows(q) \/ EffectiveOptions(q) \/ GetGenerationAgain(q) \/ SetAttributes(q) \/ StoreAd(q)
    BY <2>1, TreeReads, SetTreeKeeps, CheckKeeps, GetGenerationKeeps, EffectiveRowsKeeps, EffectiveOptionsKeeps,
       GenerationAgainKeeps, SetAttributesKeeps, StoreKeeps
  <2>2. CASE \/ ReadCategory(q) \/ CreateCategory(q) \/ UpdateCategory(q) \/ CountChildren(q) \/ DeleteCategory(q)
             \/ InvalidateTree(q)
    BY <2>2, ReadCategoryKeeps, CreateCategoryKeeps, UpdateCategoryKeeps, CountChildrenKeeps,
       DeleteCategoryKeeps, InvalidateTreeKeeps
  <2>3. CASE \/ CreateAttribute(q) \/ CheckLinked(q) \/ ReadAttribute(q) \/ UpdateAttribute(q)
             \/ DeleteAttribute(q) \/ LinkAttribute(q) \/ UnlinkAttribute(q) \/ InvalidateAttributes(q)
    BY <2>3, CreateAttributeKeeps, CheckLinkedKeeps, ReadAttributeKeeps, UpdateAttributeKeeps,
       DeleteAttributeKeeps, LinkKeeps, InvalidateAttributesKeeps
  <2> QED
    BY <1>2, <2>1, <2>2, <2>3 DEF CatalogWork
<1>3. ASSUME NEW q \in Request, CacheFails(q) \/ InvalidationFails(q) PROVE CatalogInv'
  BY <1>3, CacheFailsKeeps, InvalidationFailsKeeps
<1> QED
  BY <1>1, <1>2, <1>3, ExpiryKeeps DEF CatalogNext

(* It implies what is asked of the catalog.                                *)
LEMMA CoherentFromInv ==
  ASSUME CatalogInv
  PROVE  CatalogIsCoherent
<1>1. CatalogTypeOK
  <2>1. ASSUME NEW c \in DOMAIN cats
        PROVE  /\ c \in Request \cup {Root}
               /\ cats[c].slug \in Slug /\ cats[c].label \in Label /\ cats[c].level \in Nat
    BY <2>1 DEF CatalogInv, TreeInv, CategoryFits, Grown
  <2>2. AttributesInv /\ gen \in Nat /\ DOMAIN ads \subseteq Request /\ outrun \subseteq Request
    BY DEF CatalogInv
  <2> QED
    BY <2>1, <2>2 DEF CatalogTypeOK, AttributesInv
<1>2. InheritanceFollowsTheTree
  BY AncestorsFollow DEF CatalogInv, InheritanceFollowsTheTree
<1>3. QuietCachesAreExact
  <2>1. ~Changing(CategoryChanges) /\ TreeKey \notin doubtful => TreeIsExact
    BY DEF CatalogInv, TreeCached
  <2>2. ASSUME ~Changing(AttributeChanges), NEW key \in KeysInUse \ doubtful
        PROVE  attrCache[key] = Effective(key[2])
    <3>1. PICK c \in DOMAIN cats : key = <<gen, c>>
      BY <2>2 DEF KeysInUse
    <3>2. key \in DOMAIN attrCache /\ key \notin doubtful /\ KeyFits(key)
      BY <2>2 DEF KeysInUse, CatalogInv
    <3>3. key[1] = gen /\ key[2] = c
      BY <3>1
    <3> QED
      BY <2>2, <3>2, <3>3 DEF KeyFits
  <2> QED
    BY <2>1, <2>2 DEF QuietCachesAreExact
<1> QED
  BY <1>1, <1>2, <1>3 DEF CatalogIsCoherent

(* Only StoreAd stores an ad.                                              *)
LEMMA AdsAreStored ==
  ASSUME CatalogNext
  PROVE  ads' = ads \/ \E q \in Request : StoreAd(q)
<1>1. ASSUME NEW q \in Request, CatalogAsks(q) PROVE ads' = ads
  BY <1>1 DEF CatalogAsks, AskTree, AskAttributes, AskAd, AskCategory, AskAttribute, Refused, catalogVars
<1>2. ASSUME NEW q \in Request, CatalogWork(q), ~StoreAd(q) PROVE ads' = ads
  <2>1. CASE \/ GetTree(q) \/ AllCategories(q) \/ SetTree(q) \/ CheckCategory(q) \/ GetGeneration(q) \/ GetCached(q)
             \/ EffectiveRows(q) \/ EffectiveOptions(q) \/ GetGenerationAgain(q) \/ SetAttributes(q)
    BY <2>1 DEF GetTree, AllCategories, SetTree, CheckCategory, GetGeneration, GetCached, EffectiveRows,
                EffectiveOptions, GetGenerationAgain, SetAttributes, catalogVars
  <2>2. CASE \/ ReadCategory(q) \/ CreateCategory(q) \/ UpdateCategory(q) \/ CountChildren(q) \/ DeleteCategory(q)
             \/ InvalidateTree(q)
    BY <2>2 DEF ReadCategory, CreateCategory, UpdateCategory, CountChildren, DeleteCategory, InvalidateTree,
                catalogVars
  <2>3. CASE \/ CreateAttribute(q) \/ CheckLinked(q) \/ ReadAttribute(q) \/ UpdateAttribute(q)
             \/ DeleteAttribute(q) \/ LinkAttribute(q) \/ UnlinkAttribute(q) \/ InvalidateAttributes(q)
    BY <2>3 DEF CreateAttribute, CheckLinked, ReadAttribute, UpdateAttribute, DeleteAttribute, LinkAttribute,
                UnlinkAttribute, InvalidateAttributes, catalogVars
  <2> QED
    BY <1>2, <2>1, <2>2, <2>3 DEF CatalogWork
<1>3. ASSUME NEW q \in Request, CacheFails(q) \/ InvalidationFails(q) PROVE ads' = ads
  BY <1>3 DEF CacheFails, InvalidationFails, catalogVars
<1>4. ASSUME Expiry PROVE ads' = ads
  BY <1>4 DEF Expiry, ExpireTree, ExpireAttributes
<1> QED
  BY <1>1, <1>2, <1>3, <1>4 DEF CatalogNext

(* An ad that is stored fits the attributes its category has at that       *)
(* moment.                                                                 *)
LEMMA StoredFits ==
  ASSUME CatalogInv, NEW r \in Request, StoreAd(r), NEW q \in DOMAIN ads' \ (DOMAIN ads \cup outrun)
  PROVE  /\ ads'[q].cat \in DOMAIN cats
         /\ ValidateAttributes(Effective(ads'[q].cat), ads'[q].values)
<1>1. PICK c, v, b : c = req[r].cat /\ v = req[r].values /\ b = req[r].body
  OBVIOUS
<1>2. PICK row : row = [cat |-> c, values |-> v]
  OBVIOUS
<1>3. /\ req[r].op = "ad" /\ req[r].step = "validate"
      /\ ads' = (IF ValidateAttributes(b, v) THEN Put(ads, r, row) ELSE ads)
  BY <1>1, <1>2 DEF StoreAd, Asks
<1>4. ValidateAttributes(b, v) /\ ads' = Put(ads, r, row)
  BY <1>3
<1>5. q = r /\ ads'[r] = row
  BY <1>4 DEF Put
<1>6. row.cat = c /\ row.values = v
  BY <1>2
<1>7. c \in DOMAIN cats /\ b = Effective(c)
  BY <1>1, <1>3, <1>5, AdReaderHas DEF Readers
<1> QED
  BY <1>4, <1>5, <1>6, <1>7

(***************************************************************************)
(* The services together.                                                  *)
(***************************************************************************)
StoresInv == RequestsOK /\ MediaInv /\ CatalogInv /\ StoryFits(budget) /\ ViewInv

(* Of each step, one service moves; the others rest.                       *)
LEMMA StepsOfMedia ==
  ASSUME StoresInv, MediaNext, UNCHANGED <<catalogVars, countVars>>
  PROVE  StoresInv'
<1>1. Moved({"upload"})
  BY MediaMoves DEF StoresInv
<1>2. MediaInv'
  BY MediaNextKeeps DEF StoresInv
<1>3. ViewInv'
  BY <1>1, ViewStays DEF StoresInv
<1>4. CatalogInv'
  <2>1. (\A op \in CatalogOps : op \notin {"upload"}) /\ "done" \notin {"upload"}
    BY DEF CatalogOps
  <2> QED
    BY <1>1, <2>1, CatalogAtRest DEF StoresInv
<1>5. StoryFits(budget)'
  BY MediaSpends, StoryStays DEF StoresInv
<1> QED
  BY <1>1, <1>2, <1>3, <1>4, <1>5 DEF StoresInv, Moved

(* ... a step of the catalog, ...                                          *)
LEMMA StepsOfCatalog ==
  ASSUME StoresInv, CatalogNext, UNCHANGED <<mediaVars, countVars>>
  PROVE  StoresInv'
<1>1. Moved(CatalogOps)
  BY CatalogMoves DEF StoresInv
<1>2. "upload" \notin CatalogOps /\ "done" \notin CatalogOps /\ "view" \notin CatalogOps
  BY DEF CatalogOps
<1>3. MediaInv'
  BY <1>1, <1>2, MediaRests DEF StoresInv
<1>4. ViewInv'
  BY <1>1, <1>2, ViewStays DEF StoresInv
<1>5. CatalogInv'
  BY CatalogNextKeeps DEF StoresInv
<1>6. StoryFits(budget)'
  BY CatalogSpends, StoryStays DEF StoresInv
<1> QED
  BY <1>1, <1>3, <1>4, <1>5, <1>6 DEF StoresInv, Moved

(* ... and a step of the counter of views.                                 *)
LEMMA StepsOfViews ==
  ASSUME StoresInv, CountNext, UNCHANGED <<mediaVars, catalogVars>>
  PROVE  StoresInv'
<1>1. Moved({"view"})
  BY CountMoves DEF StoresInv
<1>2. MediaInv'
  <2>1. "upload" \notin {"view"} /\ "done" \notin {"view"}
    OBVIOUS
  <2> QED
    BY <1>1, <2>1, MediaRests DEF StoresInv
<1>3. ViewInv'
  BY CountKeeps DEF StoresInv
<1>4. CatalogInv'
  <2>1. (\A op \in CatalogOps : op \notin {"view"}) /\ "done" \notin {"view"}
    BY DEF CatalogOps
  <2> QED
    BY <1>1, <2>1, CatalogAtRest DEF StoresInv
<1>5. StoryFits(budget)'
  BY CountsSpend, StoryStays DEF StoresInv
<1> QED
  BY <1>1, <1>2, <1>3, <1>4, <1>5 DEF StoresInv, Moved

(* Nothing happens.                                                        *)
LEMMA StoresRest ==
  ASSUME StoresInv, UNCHANGED vars
  PROVE  StoresInv'
<1>1. UNCHANGED <<req, budget, mediaVars, catalogVars, countVars>>
  BY DEF vars, inputs
<1>2. Moved({})
  BY <1>1, MovesNone DEF StoresInv
<1>3. MediaInv'
  BY <1>1, <1>2, MediaRests DEF StoresInv
<1>4. ViewInv'
  BY <1>1, <1>2, ViewStays DEF StoresInv
<1>5. CatalogInv'
  <2>1. (\A op \in CatalogOps : op \notin {}) /\ "done" \notin {}
    OBVIOUS
  <2> QED
    BY <1>1, <1>2, <2>1, CatalogAtRest DEF StoresInv
<1>6. StoryFits(budget)'
  BY <1>1, StoryStays DEF StoresInv, Spends
<1> QED
  BY <1>2, <1>3, <1>4, <1>5, <1>6 DEF StoresInv, Moved

(* The invariant holds at first.                                           *)
LEMMA StoresBegin ==
  ASSUME Init
  PROVE  StoresInv
<1>1. RequestsOK
  BY DEF Init, RequestsInit, RequestsOK, Idle
<1> QED
  BY <1>1, MediaBegins, CatalogBegins, ViewInit DEF Init, StoresInv

(* Whatever the services, their workers and the failures do, the requests, *)
(* the media, the catalog with its caches and the counters of views stay   *)
(* as the parts of the invariant say.                                      *)
THEOREM InvariantHolds == Spec => []StoresInv
<1>1. Init => StoresInv
  BY StoresBegin
<1>2. StoresInv /\ [Next]_vars => StoresInv'
  BY StepsOfMedia, StepsOfCatalog, StepsOfViews, StoresRest DEF Next
<1> QED
  BY <1>1, <1>2, PTL DEF Spec

(* What GET /media/{id} points to is in the bucket and clean, no object is *)
(* forgotten, events are told once and the limit of an ad is kept: with    *)
(* any number of uploads, goroutines, previews and failures.               *)
THEOREM MediaTheorem == Spec => []MediaIsWhole
<1>1. StoresInv => MediaIsWhole
  BY MediaAreWhole DEF StoresInv
<1> QED
  BY <1>1, InvariantHolds, PTL

(* No view of an ad is lost but by a failure that the code only logs, and  *)
(* none is counted twice but by an answer that did not come: with any      *)
(* number of readers and flushers.                                         *)
THEOREM ViewsTheorem == Spec => []ViewsAreConserved
<1>1. ViewInv => CountsTypeOK
  <2> SUFFICES ASSUME ViewTables PROVE CountsTypeOK
    BY DEF ViewInv
  <2>1. \A f \in Flusher : flush[f].op \in {"idle", "add", "restore"}
    BY DEF ViewTables, FlushFits, Idle
  <2> QED
    BY <2>1 DEF ViewTables, Counts, CountsTypeOK
<1>2. StoresInv => ViewsAreConserved
  BY <1>1 DEF StoresInv, ViewInv, Conserved, ViewsAreConserved
<1> QED
  BY <1>2, InvariantHolds, PTL

(* The tree of categories, what is inherited along it and what the caches  *)
(* say of both agree: with any number of requests, whatever order rows are *)
(* added and deleted in, and with every failure of Redis.                  *)
THEOREM CatalogTheorem == Spec => []CatalogIsCoherent
<1>1. StoresInv => CatalogIsCoherent
  BY CoherentFromInv DEF StoresInv
<1> QED
  BY <1>1, InvariantHolds, PTL

(* Listing stores an ad only with values that fit the attributes of its    *)
(* category, of which none has changed since they were read.               *)
THEOREM AdsTheorem == Spec => StoredAdsFit
<1>1. ASSUME StoresInv, [Next]_vars
      PROVE  [\A q \in DOMAIN ads' \ (DOMAIN ads \cup outrun) :
                /\ ads'[q].cat \in DOMAIN cats
                /\ ValidateAttributes(Effective(ads'[q].cat), ads'[q].values)]_catalogVars
  <2>1. CASE \E r \in Request : StoreAd(r)
    BY <1>1, <2>1, StoredFits DEF StoresInv
  <2>2. CASE CatalogNext /\ ads' = ads
    BY <2>2
  <2>3. CASE UNCHANGED catalogVars
    BY <2>3
  <2>4. CASE UNCHANGED vars
    BY <2>4 DEF vars
  <2> QED
    BY <1>1, <2>1, <2>2, <2>3, <2>4, AdsAreStored DEF Next
<1> QED
  BY <1>1, InvariantHolds, PTL DEF Spec, StoredAdsFit
=============================================================================
