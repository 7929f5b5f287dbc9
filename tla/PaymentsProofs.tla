--------------------------- MODULE PaymentsProofs ---------------------------
(***************************************************************************)
(* Proofs about payments: top-ups (Topups), for every set of users,        *)
(* payments, transactions and handlers; paid services (Promotions), for    *)
(* any ads, owners, requests, plans, prices and faults; and the two places *)
(* where the database keeps processes apart: the lock of a wallet's row    *)
(* (WalletRowLock), for every set of connections and sums and every length *)
(* of the ledger, and the claims of bump_runs (BumpSchedule), for any      *)
(* number of instances, promotions and days, every schedule and any number *)
(* of faults.                                                              *)
(***************************************************************************)
EXTENDS Topups, Promotions, WalletRowLock, BumpSchedule, SumLemmas, SequenceTheorems, TLAPS

(***************************************************************************)
(* Topups.  The inductive invariant adds to the properties one fact about  *)
(* the handlers: the payment a handler has decided on exists.  Nothing     *)
(* more is known of it, since other handlers may have moved it since the   *)
(* read; that the properties hold all the same is due to the conditions of *)
(* the UPDATEs, which are evaluated in the transaction.                    *)
(***************************************************************************)
HandlersKnowPayments ==
  \A h \in Handler : handler[h] # NoCall => Exists(handler[h].payment)

TopupsInv ==
  /\ TopupsTypeOK
  /\ HandlersKnowPayments
  /\ CreditedOnce
  /\ EventPerTransition
  /\ FinalAnswersAreFinal

-----------------------------------------------------------------------------
(* Appending an element that refers to p gives p one more position and     *)
(* leaves the positions of the others alone.                               *)
LEMMA AppendRef ==
  ASSUME NEW S, NEW s \in Seq(S), NEW e \in S
  PROVE  /\ Append(s, e) \in Seq(S)
         /\ DOMAIN Append(s, e) = DOMAIN s \cup {Len(s) + 1}
         /\ Len(s) + 1 \notin DOMAIN s
         /\ Append(s, e)[Len(s) + 1] = e
         /\ \A i \in DOMAIN s : Append(s, e)[i] = s[i]
  BY AppendProperties, LenProperties

(* Serving a callback up to the write changes nothing but the handler, and *)
(* the payment decided on exists: it was just read.                        *)
LEMMA CallbackDecides ==
  ASSUME TopupsTypeOK, NEW h \in Handler, Callback(h)
  PROVE  \E c \in Call :
           /\ Exists(c.payment)
           /\ handler[h] = NoCall
           /\ handler' = [handler EXCEPT ![h] = c]
           /\ UNCHANGED <<walletVars, payments, paymentEvents, answered>>
<1>1. ASSUME NEW w \in {"bind", "confirm", "cancel"},
             NEW p \in Payment, NEW t \in External,
             Exists(p), Decide(h, w, p, t)
      PROVE  \E c \in Call :
               /\ Exists(c.payment)
               /\ handler[h] = NoCall
               /\ handler' = [handler EXCEPT ![h] = c]
               /\ UNCHANGED <<walletVars, payments, paymentEvents, answered>>
  <2> DEFINE c == [write |-> w, payment |-> p, txn |-> t]
  <2>1. c \in Call /\ c.payment = p
    BY DEF Call
  <2> QED
    BY <1>1, <2>1 DEF Decide
<1>2. CASE \E p \in Payment, t \in Txn, tiyin \in RequestTiyin :
             \/ PaymeCreate(h, p, t, tiyin)
             \/ ClickPrepare(h, p, t, tiyin)
             \/ ClickComplete(h, p, t, tiyin)
  BY <1>1, <1>2 DEF PaymeCreate, ClickPrepare, ClickComplete, External
<1>3. CASE \E t \in Txn : PaymePerform(h, t) \/ PaymeCancel(h, t)
  BY <1>1, <1>3 DEF PaymePerform, PaymeCancel, FoundByExternal, External
<1>4. CASE \E p \in Payment : ConfirmMock(h, p)
  BY <1>1, <1>4 DEF ConfirmMock, External
<1> QED
  BY <1>2, <1>3, <1>4 DEF Callback

-----------------------------------------------------------------------------
(* The part of the invariant that is about the tables only.                *)
TablesOK ==
  /\ WalletTypeOK
  /\ payments \in [Payment -> Row \cup {NoRow}]
  /\ paymentEvents \in Seq(Event)
  /\ CreditedOnce
  /\ EventPerTransition

(* Rows stay, and stay as they are once terminal.                          *)
Advances ==
  \A q \in Payment : /\ Exists(q) => Exists(q)'
                     /\ IsTerminal(q) => payments'[q] = payments[q]

(* A row keeps the types of the table payments.                            *)
LEMMA RowFields ==
  ASSUME payments \in [Payment -> Row \cup {NoRow}], NEW p \in Payment, Exists(p)
  PROVE  /\ payments[p] \in Row
         /\ payments[p].user \in User
         /\ payments[p].amount \in Nat \ {0}
         /\ payments[p].status \in Status
  BY DEF Exists, Row

(* Opening a payment keeps the invariants of the tables (InitTopup).       *)
LEMMA OpenKeepsTables ==
  ASSUME TablesOK, NEW p \in Payment, NEW u \in User, NEW provider \in Provider,
         NEW n \in Amount, InitTopup(p, u, provider, n)
  PROVE  TablesOK' /\ Advances
<1> DEFINE r == [user |-> u, provider |-> provider, amount |-> n,
                 status |-> "pending", external |-> NoTxn]
<1>1. r \in Row /\ r # NoRow /\ r.status = "pending"
  BY TopupAssumption DEF Row, Status, InitTopup
<1>2. payments' = [payments EXCEPT ![p] = r] /\ UNCHANGED <<walletVars, paymentEvents>> /\ ~Exists(p)
  BY DEF InitTopup
<1>3. /\ payments' \in [Payment -> Row \cup {NoRow}]
      /\ payments'[p] = r
      /\ \A q \in Payment \ {p} : payments'[q] = payments[q]
  BY <1>1, <1>2 DEF TablesOK
<1> HIDE DEF r
<1>4. WalletTypeOK' /\ paymentEvents' \in Seq(Event)
  BY <1>2 DEF TablesOK, WalletTypeOK, walletVars
<1>5. CreditedOnce'
  BY <1>1, <1>2, <1>3 DEF TablesOK, CreditedOnce, StatusIs, Exists, OperationsOn, TopupOf, walletVars
<1>6. EventPerTransition'
  BY <1>1, <1>2, <1>3 DEF TablesOK, EventPerTransition, IsTerminal, StatusIs, Exists, EventsOf, EventFor
<1>7. Advances
  BY <1>2, <1>3 DEF Advances, Exists, IsTerminal
<1> QED
  BY <1>3, <1>4, <1>5, <1>6, <1>7 DEF TablesOK

(* Binding changes at most the external id of a pending row, which no      *)
(* part of the invariant looks at.                                         *)
LEMMA BindKeepsTables ==
  ASSUME TablesOK, NEW p \in Payment, NEW t \in External, Exists(p), SetExternalID(p, t)
  PROVE  TablesOK' /\ Advances
<1> USE DEF Exists
<1>1. UNCHANGED <<walletVars, paymentEvents>>
  BY DEF SetExternalID
<1>2. \/ payments' = payments
      \/ payments[p].status = "pending" /\ payments' = [payments EXCEPT ![p].external = t]
  BY DEF SetExternalID
<1>3. /\ payments' \in [Payment -> Row \cup {NoRow}]
      /\ payments'[p].status = payments[p].status
      /\ payments'[p] # NoRow
      /\ payments'[p].user = payments[p].user
      /\ payments'[p].amount = payments[p].amount
      /\ \A q \in Payment \ {p} : payments'[q] = payments[q]
      /\ IsTerminal(p) => payments'[p] = payments[p]
  <2>1. CASE payments' = payments
    BY <2>1 DEF TablesOK
  <2>2. CASE payments[p].status = "pending" /\ payments' = [payments EXCEPT ![p].external = t]
    <3>1. payments[p] \in Row /\ [payments[p] EXCEPT !.external = t] \in Row
      BY RowFields DEF Row, TablesOK
    <3>2. payments' = [payments EXCEPT ![p] = [payments[p] EXCEPT !.external = t]]
      BY <2>2
    <3> QED
      BY <2>2, <3>1, <3>2, TopupAssumption DEF TablesOK, Row, IsTerminal
  <2> QED
    BY <1>2, <2>1, <2>2
<1>4. WalletTypeOK' /\ paymentEvents' \in Seq(Event)
  BY <1>1 DEF TablesOK, WalletTypeOK, walletVars
<1>5. CreditedOnce'
  BY <1>1, <1>3 DEF TablesOK, CreditedOnce, StatusIs, OperationsOn, TopupOf, walletVars
<1>6. EventPerTransition'
  BY <1>1, <1>3 DEF TablesOK, EventPerTransition, IsTerminal, StatusIs, EventsOf, EventFor
<1>7. Advances
  BY <1>3 DEF Advances, IsTerminal
<1> QED
  BY <1>3, <1>4, <1>5, <1>6, <1>7 DEF TablesOK

(* The transition of a pending row: `s` is its new status, `row` its new   *)
(* value.  Cancelling and confirming share the event.                      *)
LEMMA EndAppendsEvent ==
  ASSUME TablesOK, NEW p \in Payment, StatusIs(p, "pending"),
         NEW row \in Row, row.status # "pending",
         payments' = [payments EXCEPT ![p] = row],
         NEW subject \in {"payment.succeeded", "payment.failed"},
         subject = "payment.succeeded" <=> row.status = "succeeded",
         paymentEvents' = Append(paymentEvents, [subject |-> subject, payment |-> p])
  PROVE  /\ payments' \in [Payment -> Row \cup {NoRow}]
         /\ paymentEvents' \in Seq(Event)
         /\ EventPerTransition'
         /\ Advances
         /\ IsTerminal(p)'
<1> DEFINE e == [subject |-> subject, payment |-> p]
<1>1. e \in Event /\ e.payment = p
  BY DEF Event
<1>2. /\ paymentEvents' \in Seq(Event)
      /\ DOMAIN paymentEvents' = DOMAIN paymentEvents \cup {Len(paymentEvents) + 1}
      /\ Len(paymentEvents) + 1 \notin DOMAIN paymentEvents
      /\ paymentEvents'[Len(paymentEvents) + 1] = e
      /\ \A i \in DOMAIN paymentEvents : paymentEvents'[i] = paymentEvents[i]
  BY <1>1, AppendRef DEF TablesOK
<1>3. row # NoRow
  BY TopupAssumption
<1>4. /\ payments' \in [Payment -> Row \cup {NoRow}]
      /\ payments'[p] = row
      /\ \A q \in Payment \ {p} : payments'[q] = payments[q]
  BY DEF TablesOK
<1>5. IsTerminal(p)' /\ EventFor(p)' = e
  BY <1>3, <1>4 DEF IsTerminal, Exists, EventFor, StatusIs
<1>6. EventsOf(p)' = {Len(paymentEvents) + 1}
  <2>1. EventsOf(p) = {}
    BY DEF TablesOK, EventPerTransition, StatusIs, IsTerminal, Exists
  <2> QED
    BY <1>1, <1>2, <2>1 DEF EventsOf
<1>7. ASSUME NEW q \in Payment \ {p}
      PROVE  EventsOf(q)' = EventsOf(q) /\ (IsTerminal(q)' <=> IsTerminal(q)) /\ EventFor(q)' = EventFor(q)
  BY <1>1, <1>2, <1>4 DEF EventsOf, IsTerminal, Exists, EventFor, StatusIs
<1>8. EventPerTransition'
  <2> SUFFICES ASSUME NEW q \in Payment
               PROVE  IF IsTerminal(q)'
                      THEN \E i \in DOMAIN paymentEvents' : EventsOf(q)' = {i} /\ paymentEvents'[i] = EventFor(q)'
                      ELSE EventsOf(q)' = {}
    BY DEF EventPerTransition
  <2>1. CASE q = p
    BY <2>1, <1>2, <1>5, <1>6
  <2>2. CASE q # p
    BY <2>2, <1>2, <1>7 DEF TablesOK, EventPerTransition
  <2> QED
    BY <2>1, <2>2
<1>9. Advances
  BY <1>3, <1>4 DEF Advances, Exists, IsTerminal, StatusIs
<1> QED
  BY <1>2, <1>4, <1>5, <1>8, <1>9

(* Canceling a pending payment does, too (FailPayment).                    *)
LEMMA CancelKeepsTables ==
  ASSUME TablesOK, NEW p \in Payment, Exists(p), CancelPending(p)
  PROVE  TablesOK' /\ Advances /\ IsTerminal(p)'
<1> DEFINE row == [payments[p] EXCEPT !.status = "canceled"]
<1>1. payments[p] \in Row /\ row \in Row /\ row.status = "canceled"
  BY RowFields DEF TablesOK, Row, Status
<1>2. /\ StatusIs(p, "pending")
      /\ payments' = [payments EXCEPT ![p] = row]
      /\ paymentEvents' = Append(paymentEvents, [subject |-> "payment.failed", payment |-> p])
      /\ UNCHANGED walletVars
  BY DEF CancelPending, StatusIs
<1> HIDE DEF row
<1>3. /\ payments' \in [Payment -> Row \cup {NoRow}]
      /\ paymentEvents' \in Seq(Event)
      /\ EventPerTransition'
      /\ Advances
      /\ IsTerminal(p)'
  BY <1>1, <1>2, EndAppendsEvent
<1>4. /\ payments'[p].status = "canceled"
      /\ \A q \in Payment \ {p} : payments'[q] = payments[q]
  BY <1>1, <1>2 DEF TablesOK
<1>5. CreditedOnce'
  BY <1>2, <1>4 DEF TablesOK, CreditedOnce, StatusIs, Exists, OperationsOn, TopupOf, walletVars
<1>6. WalletTypeOK'
  BY <1>2 DEF TablesOK, WalletTypeOK, walletVars
<1> QED
  BY <1>3, <1>5, <1>6 DEF TablesOK

(* Confirming a pending payment does, too (ConfirmPayment).                *)
LEMMA ConfirmKeepsTables ==
  ASSUME TablesOK, NEW p \in Payment, NEW t \in External, Exists(p), ConfirmPending(p, t)
  PROVE  TablesOK' /\ Advances /\ IsTerminal(p)'
<1> DEFINE row == [payments[p] EXCEPT !.status = "succeeded", !.external = t]
           op  == TopupOf(p)
<1>1. /\ payments[p] \in Row /\ row \in Row /\ row.status = "succeeded"
      /\ row.user = payments[p].user /\ row.amount = payments[p].amount
  BY RowFields DEF TablesOK, Row, Status
<1>2. op \in Operation /\ op.ref = p
  BY RowFields, TopupAssumption DEF TablesOK, TopupOf, Operation, Kind, Account
<1>3. /\ StatusIs(p, "pending")
      /\ payments' = [payments EXCEPT ![p] = row]
      /\ paymentEvents' = Append(paymentEvents, [subject |-> "payment.succeeded", payment |-> p])
      /\ ledger' = Append(ledger, op)
  BY DEF ConfirmPending, Confirmed, CreditTx, StatusIs, TopupOf
<1> HIDE DEF row, op
<1>4. /\ payments' \in [Payment -> Row \cup {NoRow}]
      /\ paymentEvents' \in Seq(Event)
      /\ EventPerTransition'
      /\ Advances
      /\ IsTerminal(p)'
  BY <1>1, <1>3, EndAppendsEvent
<1>5. /\ payments'[p] = row /\ row # NoRow
      /\ \A q \in Payment \ {p} : payments'[q] = payments[q]
  BY <1>1, <1>3, TopupAssumption DEF TablesOK
<1>6. /\ ledger' \in Seq(Operation)
      /\ DOMAIN ledger' = DOMAIN ledger \cup {Len(ledger) + 1}
      /\ Len(ledger) + 1 \notin DOMAIN ledger
      /\ ledger'[Len(ledger) + 1] = op
      /\ \A i \in DOMAIN ledger : ledger'[i] = ledger[i]
  BY <1>2, <1>3, AppendRef DEF TablesOK, WalletTypeOK
<1>7. WalletTypeOK'
  BY <1>6, RowFields DEF ConfirmPending, Confirmed, CreditTx, TablesOK, WalletTypeOK
<1>8. OperationsOn(p)' = {Len(ledger) + 1} /\ TopupOf(p)' = op /\ StatusIs(p, "succeeded")'
  <2>1. OperationsOn(p) = {}
    BY <1>3 DEF TablesOK, CreditedOnce, StatusIs
  <2>2. OperationsOn(p)' = {Len(ledger) + 1}
    BY <1>2, <1>6, <2>1 DEF OperationsOn
  <2> QED
    BY <2>2, <1>1, <1>5 DEF TopupOf, StatusIs, Exists, op
<1>9. ASSUME NEW q \in Payment \ {p}
      PROVE  /\ OperationsOn(q)' = OperationsOn(q)
             /\ TopupOf(q)' = TopupOf(q)
             /\ StatusIs(q, "succeeded")' <=> StatusIs(q, "succeeded")
  BY <1>2, <1>5, <1>6 DEF OperationsOn, TopupOf, StatusIs, Exists
<1>10. CreditedOnce'
  <2> SUFFICES ASSUME NEW q \in Payment
               PROVE  IF StatusIs(q, "succeeded")'
                      THEN \E i \in DOMAIN ledger' : OperationsOn(q)' = {i} /\ ledger'[i] = TopupOf(q)'
                      ELSE OperationsOn(q)' = {}
    BY DEF CreditedOnce
  <2>1. CASE q = p
    BY <2>1, <1>6, <1>8
  <2>2. CASE q # p
    BY <2>2, <1>6, <1>9 DEF TablesOK, CreditedOnce
  <2> QED
    BY <2>1, <2>2
<1> QED
  BY <1>4, <1>7, <1>10 DEF TablesOK

(* A step that leaves the tables alone does, too.                          *)
LEMMA UnchangedTables ==
  ASSUME TablesOK, UNCHANGED <<walletVars, payments, paymentEvents>>
  PROVE  TablesOK' /\ Advances
<1>1. WalletTypeOK'
  BY DEF TablesOK, WalletTypeOK, walletVars
<1>2. CreditedOnce'
  BY DEF TablesOK, CreditedOnce, StatusIs, Exists, OperationsOn, TopupOf, walletVars
<1>3. EventPerTransition'
  BY DEF TablesOK, EventPerTransition, IsTerminal, StatusIs, Exists, EventsOf, EventFor
<1> QED
  BY <1>1, <1>2, <1>3 DEF TablesOK, Advances, Exists, IsTerminal

(* Whatever a handler decided on, its transaction keeps the tables right;  *)
(* a confirmation or a cancellation leaves the payment terminal.           *)
LEMMA WriteKeepsTables ==
  ASSUME TablesOK, NEW c \in Call, Exists(c.payment), Write(c)
  PROVE  /\ TablesOK'
         /\ Advances
         /\ c.write # "bind" => IsTerminal(c.payment)'
<1>1. c.payment \in Payment /\ c.txn \in External
  BY DEF Call
<1>2. CASE c.write = "bind" /\ SetExternalID(c.payment, c.txn)
  BY <1>1, <1>2, BindKeepsTables
<1>3. CASE c.write = "confirm" /\ ConfirmPending(c.payment, c.txn)
  BY <1>1, <1>3, ConfirmKeepsTables
<1>4. CASE c.write = "cancel" /\ CancelPending(c.payment)
  BY <1>1, <1>4, CancelKeepsTables
<1>5. CASE AlreadyTerminal(c.payment)
  <2>1. UNCHANGED <<walletVars, payments, paymentEvents>>
    BY <1>5 DEF AlreadyTerminal
  <2>2. TablesOK'
    BY <2>1, UnchangedTables
  <2> QED
    BY <1>5, <2>1, <2>2 DEF AlreadyTerminal, Advances, Exists, IsTerminal
<1> QED
  BY <1>2, <1>3, <1>4, <1>5 DEF Write, ConfirmPayment, FailPayment

-----------------------------------------------------------------------------
(* The rest of the invariant depends on the tables only through Advances.  *)

(* Answers already given stay true, as no payment that ended moves.        *)
LEMMA AdvancesKeeps ==
  ASSUME FinalAnswersAreFinal, answered \subseteq Answer, Advances, UNCHANGED answered
  PROVE  FinalAnswersAreFinal'
  BY DEF FinalAnswersAreFinal, Advances, Answer, IsTerminal, Exists

(* A new answer is true if it names no end, or the payment has ended.      *)
LEMMA NewAnswer ==
  ASSUME TopupsTypeOK, FinalAnswersAreFinal, Advances,
         NEW state \in {"created", "performed", "canceled"},
         NEW p \in Payment, Tell(state, p),
         state # "created" => IsTerminal(p)'
  PROVE  FinalAnswersAreFinal' /\ answered' \subseteq Answer
<1> DEFINE a == [state |-> state, payment |-> p]
<1>1. a \in Answer /\ a.state = state /\ a.payment = p
  BY DEF Answer
<1>2. answered' = answered \cup {a}
  BY DEF Tell
<1> HIDE DEF a
<1>3. \A b \in answered : b.state # "created" => IsTerminal(b.payment)'
  BY DEF TopupsTypeOK, Answer, FinalAnswersAreFinal, Advances, IsTerminal, Exists
<1> QED
  BY <1>1, <1>2, <1>3 DEF TopupsTypeOK, FinalAnswersAreFinal

(* Handlers go on knowing their payments when one of them moves.           *)
LEMMA HandlersKeep ==
  ASSUME TopupsTypeOK, HandlersKnowPayments, Advances, NEW h \in Handler,
         NEW c \in Call \cup {NoCall}, c # NoCall => Exists(c.payment),
         handler' = [handler EXCEPT ![h] = c]
  PROVE  HandlersKnowPayments' /\ handler' \in [Handler -> Call \cup {NoCall}]
<1>1. handler' \in [Handler -> Call \cup {NoCall}]
  BY DEF TopupsTypeOK
<1>2. ASSUME NEW g \in Handler, handler'[g] # NoCall
      PROVE  payments'[handler'[g].payment] # NoRow
  <2>1. Exists(handler'[g].payment) /\ handler'[g].payment \in Payment
    BY <1>2 DEF TopupsTypeOK, HandlersKnowPayments, Call
  <2> QED
    BY <2>1 DEF Advances, Exists
<1> QED
  BY <1>1, <1>2 DEF HandlersKnowPayments, Exists

(* The invariant holds at the start.                                       *)
LEMMA TopupsInitial == TopupsInit => TopupsInv
<1> SUFFICES ASSUME TopupsInit PROVE TopupsInv
  OBVIOUS
<1>1. TopupsTypeOK
  BY DEF TopupsInit, TopupsTypeOK, WalletInit, WalletTypeOK
<1>2. \A p \in Payment : ~Exists(p)
  BY DEF TopupsInit, Exists
<1>3. ledger = <<>> /\ paymentEvents = <<>>
  BY DEF TopupsInit, WalletInit
<1> QED
  BY <1>1, <1>2, <1>3 DEF TopupsInit, TopupsInv, HandlersKnowPayments, CreditedOnce, EventPerTransition,
     FinalAnswersAreFinal, StatusIs, IsTerminal, OperationsOn, EventsOf

(* Every step keeps the invariant and advances the payments.               *)
LEMMA TopupsInductive == TopupsInv /\ [TopupsNext]_paymentVars => TopupsInv' /\ Advances
<1> SUFFICES ASSUME TopupsInv, [TopupsNext]_paymentVars PROVE TopupsInv' /\ Advances
  OBVIOUS
<1> USE DEF TopupsInv
<1>0. TablesOK
  BY DEF TopupsTypeOK, TablesOK
<1>a. ASSUME TablesOK', Advances, HandlersKnowPayments', FinalAnswersAreFinal',
             handler' \in [Handler -> Call \cup {NoCall}], answered' \subseteq Answer
      PROVE  TopupsInv' /\ Advances
  BY <1>a DEF TablesOK, TopupsTypeOK
<1>1. ASSUME NEW p \in Payment, NEW u \in User, NEW provider \in Provider, NEW n \in Amount,
             InitTopup(p, u, provider, n)
      PROVE  TopupsInv' /\ Advances
  <2>1. TablesOK' /\ Advances
    BY <1>0, <1>1, OpenKeepsTables
  <2>2. UNCHANGED <<handler, answered>>
    BY <1>1 DEF InitTopup
  <2>3. HandlersKnowPayments'
    BY <2>1, <2>2 DEF TopupsTypeOK, HandlersKnowPayments, Advances, Exists, Call
  <2>4. FinalAnswersAreFinal'
    BY <2>1, <2>2, AdvancesKeeps DEF TopupsTypeOK
  <2> QED
    BY <1>a, <2>1, <2>2, <2>3, <2>4 DEF TopupsTypeOK
<1>2. ASSUME NEW t \in Txn, PaymeCheck(t)
      PROVE  TopupsInv' /\ Advances
  <2> PICK p \in FoundByExternal("payme", t) :
             /\ Tell(StateOf(payments[p].status), p)
             /\ UNCHANGED <<walletVars, payments, paymentEvents, handler>>
    BY <1>2 DEF PaymeCheck
  <2>1. TablesOK' /\ Advances
    BY <1>0, UnchangedTables
  <2>2. p \in Payment /\ Exists(p) /\ payments[p].status \in Status
    BY RowFields DEF FoundByExternal, TopupsTypeOK
  <2>3. StateOf(payments[p].status) \in {"created", "performed", "canceled"}
    BY <2>2 DEF StateOf, Status
  <2>4. StateOf(payments[p].status) # "created" => IsTerminal(p)'
    BY <2>2 DEF StateOf, Status, IsTerminal, Exists
  <2>5. FinalAnswersAreFinal' /\ answered' \subseteq Answer
    BY <2>1, <2>2, <2>3, <2>4, NewAnswer
  <2>6. HandlersKnowPayments'
    BY DEF HandlersKnowPayments, Exists
  <2> QED
    BY <1>a, <2>1, <2>5, <2>6 DEF TopupsTypeOK
<1>3. ASSUME NEW h \in Handler, Callback(h)
      PROVE  TopupsInv' /\ Advances
  <2> PICK c \in Call : /\ Exists(c.payment)
                        /\ handler' = [handler EXCEPT ![h] = c]
                        /\ UNCHANGED <<walletVars, payments, paymentEvents, answered>>
    BY <1>3, CallbackDecides
  <2>1. TablesOK' /\ Advances
    BY <1>0, UnchangedTables
  <2>2. FinalAnswersAreFinal'
    BY <2>1, AdvancesKeeps DEF TopupsTypeOK
  <2>3. HandlersKnowPayments' /\ handler' \in [Handler -> Call \cup {NoCall}]
    BY <2>1, HandlersKeep
  <2> QED
    BY <1>a, <2>1, <2>2, <2>3 DEF TopupsTypeOK
<1>4. ASSUME NEW h \in Handler, Commit(h)
      PROVE  TopupsInv' /\ Advances
  <2> PICK c \in Call : c = handler[h]
    BY <1>4 DEF Commit, TopupsTypeOK
  <2>1. Exists(c.payment) /\ Write(c)
    BY <1>4 DEF Commit, TopupsTypeOK, HandlersKnowPayments
  <2>2. TablesOK' /\ Advances /\ (c.write # "bind" => IsTerminal(c.payment)')
    BY <1>0, <2>1, WriteKeepsTables
  <2>3. HandlersKnowPayments' /\ handler' \in [Handler -> Call \cup {NoCall}]
    BY <1>4, <2>2, HandlersKeep DEF Commit, FinishCall
  <2>4. CASE UNCHANGED answered
    BY <1>a, <2>2, <2>3, <2>4, AdvancesKeeps DEF TopupsTypeOK
  <2>5. CASE Tell(AnswerTo(c.write), c.payment)
    <3>1. /\ c.payment \in Payment
          /\ AnswerTo(c.write) \in {"created", "performed", "canceled"}
          /\ AnswerTo(c.write) # "created" => c.write # "bind"
      BY <2>1 DEF Call, AnswerTo
    <3>2. FinalAnswersAreFinal' /\ answered' \subseteq Answer
      BY <2>2, <2>5, <3>1, NewAnswer
    <3> QED
      BY <1>a, <2>2, <2>3, <3>2
  <2> QED
    BY <1>4, <2>4, <2>5 DEF Commit
<1>5. ASSUME NEW h \in Handler, Abort(h)
      PROVE  TopupsInv' /\ Advances
  <2>1. TablesOK' /\ Advances
    BY <1>0, <1>5, UnchangedTables DEF Abort
  <2>2. FinalAnswersAreFinal'
    BY <1>5, <2>1, AdvancesKeeps DEF TopupsTypeOK, Abort
  <2>3. HandlersKnowPayments' /\ handler' \in [Handler -> Call \cup {NoCall}]
    BY <1>5, <2>1, HandlersKeep DEF Abort, FinishCall
  <2> QED
    BY <1>5, <1>a, <2>1, <2>2, <2>3 DEF TopupsTypeOK, Abort
<1>6. CASE UNCHANGED paymentVars
  <2>1. TablesOK' /\ Advances
    BY <1>0, <1>6, UnchangedTables DEF paymentVars, topupVars
  <2>2. FinalAnswersAreFinal'
    BY <1>6, <2>1, AdvancesKeeps DEF TopupsTypeOK, paymentVars, topupVars
  <2>3. HandlersKnowPayments'
    BY <1>6 DEF HandlersKnowPayments, Exists, paymentVars, topupVars
  <2> QED
    BY <1>6, <1>a, <2>1, <2>2, <2>3 DEF TopupsTypeOK, paymentVars, topupVars
<1> QED
  BY <1>1, <1>2, <1>3, <1>4, <1>5, <1>6 DEF TopupsNext

-----------------------------------------------------------------------------
(* The invariant holds of every behaviour: each of the properties below is *)
(* a conjunct of it.                                                       *)
THEOREM TopupsHold == TopupsSpec => []TopupsInv
<1>1. TopupsInv /\ [TopupsNext]_paymentVars => TopupsInv'
  BY TopupsInductive
<1> QED
  BY TopupsInitial, <1>1, PTL DEF TopupsSpec

(* The tables, handlers and answers always have their types.               *)
THEOREM TypeCorrect == TopupsSpec => []TopupsTypeOK
  BY TopupsHold, PTL DEF TopupsInv

(* A payment is credited once if it succeeded, never otherwise, however    *)
(* its callbacks interleave.                                               *)
THEOREM CreditedExactlyOnce == TopupsSpec => []CreditedOnce
  BY TopupsHold, PTL DEF TopupsInv

(* A payment that ended has exactly one event, of the right subject.       *)
THEOREM NotifiedExactlyOnce == TopupsSpec => []EventPerTransition
  BY TopupsHold, PTL DEF TopupsInv

(* No provider is told "performed" or "canceled" of a pending payment.     *)
THEOREM FinalAnswers == TopupsSpec => []FinalAnswersAreFinal
  BY TopupsHold, PTL DEF TopupsInv

(* No step of anybody changes a payment that has ended.                    *)
THEOREM EndIsFinal == TopupsSpec => TerminalIsFinal
<1>1. TopupsInv /\ [TopupsNext]_paymentVars => [\A p \in Payment : IsTerminal(p) => payments'[p] = payments[p]]_paymentVars
  BY TopupsInductive DEF Advances
<1> QED
  BY TopupsHold, <1>1, PTL DEF TopupsSpec, TerminalIsFinal

(* A write leaves the binding of a payment alone, or ends the payment.     *)
LEMMA WriteKeepsBinding ==
  ASSUME payments \in [Payment -> Row \cup {NoRow}], NEW c \in Call, Exists(c.payment), Write(c),
         NEW p \in Payment, StatusIs(p, "pending"), payments[p].external # NoTxn,
         StatusIs(p, "pending")'
  PROVE  payments'[p].external = payments[p].external
<1>0. c.payment \in Payment
  BY DEF Call
<1>1. CASE SetExternalID(c.payment, c.txn)
  <2>1. CASE c.payment = p
    <3>1. \/ payments' = payments
          \/ payments[p].external = c.txn /\ payments' = [payments EXCEPT ![p].external = c.txn]
      BY <1>1, <2>1 DEF SetExternalID
    <3>2. payments[p] \in Row
      BY RowFields DEF StatusIs
    <3> QED
      BY <3>1, <3>2 DEF Row
  <2>2. CASE c.payment # p
    BY <1>0, <1>1, <2>2 DEF SetExternalID
  <2> QED
    BY <2>1, <2>2
<1>2. CASE ConfirmPending(c.payment, c.txn)
  <2>1. CASE c.payment = p
    <3>1. payments[p] \in Row
      BY RowFields DEF StatusIs
    <3>2. payments'[p].status = "succeeded"
      BY <1>2, <2>1, <3>1 DEF ConfirmPending, Confirmed, Row
    <3> QED
      BY <3>2 DEF StatusIs
  <2>2. CASE c.payment # p
    BY <1>0, <1>2, <2>2 DEF ConfirmPending, Confirmed
  <2> QED
    BY <2>1, <2>2
<1>3. CASE CancelPending(c.payment)
  <2>1. payments[c.payment] \in Row
    BY <1>0, RowFields
  <2> QED
    BY <1>0, <1>3, <2>1 DEF CancelPending, Row
<1>4. CASE AlreadyTerminal(c.payment)
  BY <1>4 DEF AlreadyTerminal
<1> QED
  BY <1>1, <1>2, <1>3, <1>4 DEF Write, ConfirmPayment, FailPayment

(* While it is pending, a payment keeps its first provider transaction.    *)
THEOREM BindingSticks == TopupsSpec => BindingIsSticky
<1> DEFINE Kept == \A p \in Payment :
             StatusIs(p, "pending") /\ payments[p].external # NoTxn /\ StatusIs(p, "pending")'
               => payments'[p].external = payments[p].external
<1>1. ASSUME TopupsInv, TopupsNext PROVE Kept
  <2>1. CASE UNCHANGED payments
    BY <2>1
  <2>2. ASSUME NEW q \in Payment, NEW u \in User, NEW provider \in Provider, NEW n \in Amount,
               InitTopup(q, u, provider, n)
        PROVE  Kept
    BY <1>1, <2>2 DEF InitTopup, StatusIs, TopupsInv, TopupsTypeOK
  <2>3. ASSUME NEW t \in Txn, PaymeCheck(t) PROVE Kept
    BY <2>1, <2>3 DEF PaymeCheck
  <2>4. ASSUME NEW h \in Handler, Callback(h) PROVE Kept
    BY <1>1, <2>1, <2>4, CallbackDecides DEF TopupsInv
  <2>5. ASSUME NEW h \in Handler, Commit(h) PROVE Kept
    <3> PICK c \in Call : c = handler[h]
      BY <1>1, <2>5 DEF Commit, TopupsInv, TopupsTypeOK
    <3>1. Exists(c.payment) /\ Write(c)
      BY <1>1, <2>5 DEF Commit, TopupsInv, HandlersKnowPayments, TopupsTypeOK
    <3> QED
      BY <1>1, <3>1, WriteKeepsBinding DEF TopupsInv, TopupsTypeOK
  <2>6. ASSUME NEW h \in Handler, Abort(h) PROVE Kept
    BY <2>1, <2>6 DEF Abort
  <2> QED
    BY <1>1, <2>2, <2>3, <2>4, <2>5, <2>6 DEF TopupsNext
<1>2. TopupsInv /\ [TopupsNext]_paymentVars => [Kept]_paymentVars
  BY <1>1
<1> QED
  BY TopupsHold, <1>2, PTL DEF TopupsSpec, BindingIsSticky

-----------------------------------------------------------------------------
(* The balances.                                                           *)

(* What is posted after a credit is what was posted, and the amount if it  *)
(* is the wallet credited and the account the postings go to.              *)
LEMMA CreditPosts ==
  ASSUME WalletTypeOK, NEW u \in User, NEW n \in Nat \ {0}, NEW p \in Reference,
         CreditTx(u, n, "topup", p), NEW v \in User
  PROVE  /\ Posted(v, "to") \in Int /\ Posted(v, "from") \in Int
         /\ Posted(v, "to")' = Posted(v, "to") + (IF v = u THEN n ELSE 0)
         /\ Posted(v, "from")' = Posted(v, "from")
<1> DEFINE k  == Len(ledger) + 1
           op == [kind |-> "topup", user |-> u, from |-> "external_topup",
                  to |-> "user_wallet", amount |-> n, ref |-> p]
<1>1. op \in Operation
  BY DEF Operation, Kind, Account
<1>2. ledger' = Append(ledger, op)
  BY DEF CreditTx
<1>3. /\ DOMAIN ledger' = DOMAIN ledger \cup {k}
      /\ k \notin DOMAIN ledger
      /\ ledger'[k] = op
      /\ \A i \in DOMAIN ledger : ledger'[i] = ledger[i]
  BY <1>1, <1>2, AppendRef DEF WalletTypeOK
<1>4. IsFiniteSet(DOMAIN ledger)
  BY FS_Interval, LenProperties DEF WalletTypeOK
<1>5. \A i \in DOMAIN ledger : ledger[i].amount \in Int
  <2>1. \A i \in DOMAIN ledger : ledger[i] \in Operation
    BY ElementOfSeq, LenProperties DEF WalletTypeOK
  <2> QED
    BY <2>1 DEF Operation
<1> DEFINE value(a) == IF v = u /\ op[a] = "user_wallet" THEN n ELSE 0
<1>6. ASSUME NEW a \in {"to", "from"}
      PROVE  Posted(v, a) \in Int /\ Posted(v, a)' = Posted(v, a) + value(a)
  <2> DEFINE before == Posting(v, a)
             after  == Posting(v, a)'
  <2>1. \A i \in DOMAIN ledger : before[i] \in Int /\ after[i] = before[i]
    BY <1>3, <1>5 DEF Posting
  <2>2. after[k] = value(a) /\ value(a) \in Int
    BY <1>3 DEF Posting
  <2> HIDE DEF before, after, value, k
  <2>3. SumFunctionOnSet(before, DOMAIN ledger) \in Int
    BY <1>4, <2>1, SumType
  <2>4. SumFunctionOnSet(after, DOMAIN ledger) = SumFunctionOnSet(before, DOMAIN ledger)
    BY <1>4, <2>1, SumOfSame
  <2>5. SumFunctionOnSet(after, DOMAIN ledger \cup {k})
          = after[k] + SumFunctionOnSet(after, DOMAIN ledger)
    BY <1>3, <1>4, <2>1, <2>2, SumWith
  <2>6. SumFunctionOnSet(after, DOMAIN ledger \cup {k})
          = SumFunctionOnSet(before, DOMAIN ledger) + value(a)
    BY <2>2, <2>3, <2>4, <2>5
  <2>7. /\ Posted(v, a) = SumFunctionOnSet(before, DOMAIN ledger)
        /\ Posted(v, a)' = SumFunctionOnSet(after, DOMAIN ledger \cup {k})
    BY <1>3 DEF Posted, before, after
  <2> QED
    BY <2>3, <2>6, <2>7
<1>7. value("to") = (IF v = u THEN n ELSE 0) /\ value("from") = 0
  OBVIOUS
<1> QED
  BY <1>6, <1>7

(* A credit adds the same to the balance as to the postings, and one to    *)
(* the version as to their number (creditTx).                              *)
LEMMA CreditExplained ==
  ASSUME WalletTypeOK, LedgerExplainsBalance,
         NEW u \in User, NEW n \in Nat \ {0}, NEW p \in Reference, CreditTx(u, n, "topup", p)
  PROVE  LedgerExplainsBalance'
<1> SUFFICES ASSUME NEW v \in User
             PROVE  /\ balance'[v] = Posted(v, "to")' - Posted(v, "from")'
                    /\ version'[v] = Cardinality({i \in DOMAIN ledger' : ledger'[i].user = v})
  BY DEF LedgerExplainsBalance
<1>1. balance'[v] = Posted(v, "to")' - Posted(v, "from")'
  <2>1. balance'[v] = balance[v] + (IF v = u THEN n ELSE 0) /\ balance[v] \in Nat
    BY DEF CreditTx, WalletTypeOK
  <2>2. balance[v] = Posted(v, "to") - Posted(v, "from")
    BY DEF LedgerExplainsBalance
  <2>3. /\ Posted(v, "to") \in Int /\ Posted(v, "from") \in Int
        /\ Posted(v, "to")' = Posted(v, "to") + (IF v = u THEN n ELSE 0)
        /\ Posted(v, "from")' = Posted(v, "from")
    BY CreditPosts
  <2> HIDE DEF Posted
  <2> QED
    BY <2>1, <2>2, <2>3
<1>2. version'[v] = Cardinality({i \in DOMAIN ledger' : ledger'[i].user = v})
  <2> DEFINE k    == Len(ledger) + 1
             op   == [kind |-> "topup", user |-> u, from |-> "external_topup",
                      to |-> "user_wallet", amount |-> n, ref |-> p]
             mine == {i \in DOMAIN ledger : ledger[i].user = v}
  <2>1. op \in Operation
    BY DEF Operation, Kind, Account
  <2>2. /\ DOMAIN ledger' = DOMAIN ledger \cup {k}
        /\ k \notin DOMAIN ledger
        /\ ledger'[k].user = u
        /\ \A i \in DOMAIN ledger : ledger'[i] = ledger[i]
    BY <2>1, AppendRef DEF CreditTx, WalletTypeOK
  <2>3. IsFiniteSet(mine)
    BY FS_Interval, FS_Subset, LenProperties DEF WalletTypeOK
  <2>4. {i \in DOMAIN ledger' : ledger'[i].user = v} = IF v = u THEN mine \cup {k} ELSE mine
    BY <2>2
  <2>5. version[v] = Cardinality(mine) /\ version[v] \in Nat
    BY DEF LedgerExplainsBalance, WalletTypeOK
  <2>6. version'[v] = version[v] + (IF v = u THEN 1 ELSE 0)
    BY DEF CreditTx, WalletTypeOK
  <2>7. k \notin mine
    BY <2>2
  <2> HIDE DEF mine, k
  <2>8. Cardinality(mine \cup {k}) = Cardinality(mine) + 1
    BY <2>3, <2>7, FS_AddElement
  <2> DEFINE posted == {i \in DOMAIN ledger' : ledger'[i].user = v}
  <2>9. posted = IF v = u THEN mine \cup {k} ELSE mine
    BY <2>4
  <2> HIDE DEF posted
  <2>10. version'[v] = Cardinality(posted)
    BY <2>5, <2>6, <2>8, <2>9
  <2> QED
    BY <2>10 DEF posted
<1> QED
  BY <1>1, <1>2

(* The wallets move by credits only, of a payment that is being confirmed. *)
LEMMA WalletSteps ==
  ASSUME TopupsInv, [TopupsNext]_paymentVars
  PROVE  \/ UNCHANGED walletVars
         \/ \E u \in User, n \in Nat \ {0}, p \in Reference : CreditTx(u, n, "topup", p)
<1> USE DEF TopupsInv
<1>1. ASSUME NEW p \in Payment, NEW u \in User, NEW provider \in Provider, NEW n \in Amount,
             InitTopup(p, u, provider, n)
      PROVE  UNCHANGED walletVars
  BY <1>1 DEF InitTopup
<1>2. ASSUME NEW t \in Txn, PaymeCheck(t) PROVE UNCHANGED walletVars
  BY <1>2 DEF PaymeCheck
<1>3. ASSUME NEW h \in Handler, Callback(h) PROVE UNCHANGED walletVars
  BY <1>3, CallbackDecides
<1>4. ASSUME NEW h \in Handler, Abort(h) PROVE UNCHANGED walletVars
  BY <1>4 DEF Abort
<1>5. ASSUME NEW h \in Handler, Commit(h)
      PROVE  \/ UNCHANGED walletVars
             \/ \E u \in User, n \in Nat \ {0}, p \in Reference : CreditTx(u, n, "topup", p)
  <2> PICK c \in Call : c = handler[h]
    BY <1>5 DEF Commit, TopupsTypeOK
  <2>1. Exists(c.payment) /\ Write(c) /\ c.payment \in Payment
    BY <1>5 DEF Commit, TopupsTypeOK, HandlersKnowPayments, Call
  <2>2. CASE ConfirmPending(c.payment, c.txn)
    <3>1. /\ CreditTx(payments[c.payment].user, payments[c.payment].amount, "topup", c.payment)
          /\ payments[c.payment].user \in User
          /\ payments[c.payment].amount \in Nat \ {0}
          /\ c.payment \in Reference
      BY <2>1, <2>2, RowFields, TopupAssumption DEF TopupsTypeOK, ConfirmPending, Confirmed
    <3> QED
      BY <3>1
  <2>3. CASE SetExternalID(c.payment, c.txn)
    BY <2>3 DEF SetExternalID
  <2>4. CASE CancelPending(c.payment)
    BY <2>4 DEF CancelPending
  <2>5. CASE AlreadyTerminal(c.payment)
    BY <2>5 DEF AlreadyTerminal
  <2> QED
    BY <2>1, <2>2, <2>3, <2>4, <2>5 DEF Write, ConfirmPayment, FailPayment
<1>6. CASE UNCHANGED paymentVars
  BY <1>6 DEF paymentVars
<1> QED
  BY <1>1, <1>2, <1>3, <1>4, <1>5, <1>6 DEF TopupsNext

(* The balance is what the postings of the append-only ledger add up to,   *)
(* and the version is their number, whatever the number of payments.       *)
THEOREM LedgerExplains == TopupsSpec => []LedgerExplainsBalance
<1>1. TopupsInit => LedgerExplainsBalance
  <2> SUFFICES ASSUME TopupsInit, NEW u \in User
               PROVE  /\ balance[u] = Posted(u, "to") - Posted(u, "from")
                      /\ version[u] = Cardinality({i \in DOMAIN ledger : ledger[i].user = u})
    BY DEF LedgerExplainsBalance
  <2>1. ledger = <<>> /\ DOMAIN ledger = {} /\ balance[u] = 0 /\ version[u] = 0
    BY DEF TopupsInit, WalletInit
  <2>2. Posted(u, "to") = 0 /\ Posted(u, "from") = 0
    BY <2>1, SumOfNone DEF Posted
  <2>3. {i \in DOMAIN ledger : ledger[i].user = u} = {}
    BY <2>1
  <2> QED
    BY <2>1, <2>2, <2>3, FS_EmptySet
<1>2. TopupsInv /\ LedgerExplainsBalance /\ [TopupsNext]_paymentVars => LedgerExplainsBalance'
  <2> SUFFICES ASSUME TopupsInv, LedgerExplainsBalance, [TopupsNext]_paymentVars PROVE LedgerExplainsBalance'
    OBVIOUS
  <2>1. CASE UNCHANGED walletVars
    BY <2>1 DEF LedgerExplainsBalance, Posted, Posting, walletVars
  <2>2. ASSUME NEW u \in User, NEW n \in Nat \ {0}, NEW p \in Reference,
               CreditTx(u, n, "topup", p)
        PROVE  LedgerExplainsBalance'
    BY <2>2, CreditExplained DEF TopupsInv, TopupsTypeOK
  <2> QED
    BY <2>1, <2>2, WalletSteps
<1> QED
  BY TopupsHold, <1>1, <1>2, PTL DEF TopupsSpec

-----------------------------------------------------------------------------
(* Refinement of the contract.                                             *)

(* A step that keeps the tables keeps the contract's view of them.         *)
LEMMA ContractStutters ==
  ASSUME \A p \in Payment : PhaseOf(p)' = PhaseOf(p) /\ TermsOf(p)' = TermsOf(p),
         UNCHANGED balance
  PROVE  UNCHANGED Contract!contractVars
  BY DEF Contract!contractVars

(* A step that changes one row.                                            *)
LEMMA OthersKeepPhase ==
  ASSUME payments \in [Payment -> Row \cup {NoRow}], NEW p \in Payment, NEW row,
         payments' = [payments EXCEPT ![p] = row]
  PROVE  /\ payments'[p] = row
         /\ \A q \in Payment \ {p} : PhaseOf(q)' = PhaseOf(q) /\ TermsOf(q)' = TermsOf(q)
  BY DEF PhaseOf, TermsOf, Exists

(* The start is a start of the contract.                                   *)
LEMMA InitContract == TopupsInit => Contract!ContractInit
  BY DEF TopupsInit, WalletInit, Contract!ContractInit, PhaseOf, TermsOf, Exists

(* InitTopup opens a payment of the contract.                              *)
LEMMA OpenContract ==
  ASSUME TopupsTypeOK, NEW p \in Payment, NEW u \in User, NEW provider \in Provider, NEW n \in Amount,
         InitTopup(p, u, provider, n)
  PROVE  Contract!ContractNext
<1> DEFINE row == [user |-> u, provider |-> provider, amount |-> n,
                   status |-> "pending", external |-> NoTxn]
           t == [user |-> u, amount |-> n]
<1>1. payments' = [payments EXCEPT ![p] = row] /\ UNCHANGED balance /\ ~Exists(p)
  BY DEF InitTopup, walletVars
<1>2. row # NoRow /\ row.status = "pending" /\ row.user = u /\ row.amount = n
  BY TopupAssumption DEF Row, Status, InitTopup
<1>3. t \in Contract!Terms
  BY TopupAssumption DEF InitTopup, Contract!Terms
<1>4. /\ payments'[p] = row
      /\ \A q \in Payment \ {p} : PhaseOf(q)' = PhaseOf(q) /\ TermsOf(q)' = TermsOf(q)
  BY <1>1, OthersKeepPhase DEF TopupsTypeOK
<1> HIDE DEF row
<1>5. PhaseOf(p) = "none" /\ PhaseOf(p)' = "open" /\ TermsOf(p)' = t
  BY <1>1, <1>2, <1>4 DEF PhaseOf, TermsOf, Exists
<1> HIDE DEF t
<1>6. Contract!Open(p, t)
  BY <1>1, <1>4, <1>5 DEF Contract!Open
<1> QED
  BY <1>3, <1>6 DEF Contract!ContractNext

(* ConfirmPayment of a pending payment pays it.                            *)
LEMMA ConfirmContract ==
  ASSUME TopupsTypeOK, NEW p \in Payment, NEW t \in External, Exists(p), ConfirmPending(p, t)
  PROVE  Contract!ContractNext
<1> DEFINE row == [payments[p] EXCEPT !.status = "succeeded", !.external = t]
<1>1. payments' = [payments EXCEPT ![p] = row]
  BY DEF ConfirmPending, Confirmed
<1>2. /\ row \in Row /\ row # NoRow /\ row.status = "succeeded"
      /\ row.user = payments[p].user /\ row.amount = payments[p].amount
  BY RowFields, TopupAssumption DEF TopupsTypeOK, Row, Status
<1> HIDE DEF row
<1>3. /\ payments'[p] = row
      /\ \A q \in Payment \ {p} : PhaseOf(q)' = PhaseOf(q) /\ TermsOf(q)' = TermsOf(q)
  BY <1>1, OthersKeepPhase DEF TopupsTypeOK
<1>4. /\ PhaseOf(p) = "open" /\ PhaseOf(p)' = "paid" /\ TermsOf(p)' = TermsOf(p)
      /\ TermsOf(p).user = payments[p].user /\ TermsOf(p).amount = payments[p].amount
  BY <1>2, <1>3 DEF PhaseOf, TermsOf, Exists, ConfirmPending, Confirmed
<1>5. balance' = [balance EXCEPT ![TermsOf(p).user] = @ + TermsOf(p).amount]
  BY <1>4 DEF ConfirmPending, Confirmed, CreditTx
<1>6. Contract!Settle(p)
  BY <1>3, <1>4, <1>5 DEF Contract!Settle
<1> QED
  BY <1>6 DEF Contract!ContractNext

(* FailPayment of a pending payment voids it.                              *)
LEMMA CancelContract ==
  ASSUME TopupsTypeOK, NEW p \in Payment, Exists(p), CancelPending(p)
  PROVE  Contract!ContractNext
<1> DEFINE row == [payments[p] EXCEPT !.status = "canceled"]
<1>1. payments' = [payments EXCEPT ![p] = row] /\ UNCHANGED balance
  BY DEF CancelPending, walletVars
<1>2. /\ row # NoRow /\ row.status = "canceled"
      /\ row.user = payments[p].user /\ row.amount = payments[p].amount
  BY RowFields, TopupAssumption DEF TopupsTypeOK, Row, Status
<1> HIDE DEF row
<1>3. /\ payments'[p] = row
      /\ \A q \in Payment \ {p} : PhaseOf(q)' = PhaseOf(q) /\ TermsOf(q)' = TermsOf(q)
  BY <1>1, OthersKeepPhase DEF TopupsTypeOK
<1>4. PhaseOf(p) = "open" /\ PhaseOf(p)' = "void" /\ TermsOf(p)' = TermsOf(p)
  BY <1>2, <1>3 DEF PhaseOf, TermsOf, Exists, CancelPending
<1>5. Contract!Void(p)
  BY <1>1, <1>3, <1>4 DEF Contract!Void
<1> QED
  BY <1>5 DEF Contract!ContractNext

(* SetExternalID is not visible in the contract.                           *)
LEMMA BindContract ==
  ASSUME TopupsTypeOK, NEW p \in Payment, NEW t \in External, Exists(p), SetExternalID(p, t)
  PROVE  UNCHANGED Contract!contractVars
<1>1. UNCHANGED balance
  BY DEF SetExternalID, walletVars
<1>2. CASE payments' = payments
  BY <1>1, <1>2, ContractStutters DEF PhaseOf, TermsOf, Exists
<1>3. CASE payments' = [payments EXCEPT ![p].external = t]
  <2> DEFINE row == [payments[p] EXCEPT !.external = t]
  <2>1. payments' = [payments EXCEPT ![p] = row]
    BY <1>3
  <2>2. /\ row \in Row /\ row # NoRow /\ row.status = payments[p].status
        /\ row.user = payments[p].user /\ row.amount = payments[p].amount
    BY RowFields, TopupAssumption DEF TopupsTypeOK, Row
  <2> HIDE DEF row
  <2>3. /\ payments'[p] = row
        /\ \A q \in Payment \ {p} : PhaseOf(q)' = PhaseOf(q) /\ TermsOf(q)' = TermsOf(q)
    BY <2>1, OthersKeepPhase DEF TopupsTypeOK
  <2>4. PhaseOf(p)' = PhaseOf(p) /\ TermsOf(p)' = TermsOf(p)
    BY <2>2, <2>3 DEF PhaseOf, TermsOf, Exists
  <2> QED
    BY <1>1, <2>3, <2>4, ContractStutters
<1> QED
  BY <1>2, <1>3 DEF SetExternalID

(* Every step is a step of the contract or a stutter.                      *)
LEMMA StepContract ==
  TopupsInv /\ [TopupsNext]_paymentVars => [Contract!ContractNext]_Contract!contractVars
<1> SUFFICES ASSUME TopupsInv, [TopupsNext]_paymentVars
             PROVE  [Contract!ContractNext]_Contract!contractVars
  OBVIOUS
<1> USE DEF TopupsInv
<1>1. CASE UNCHANGED <<walletVars, payments>>
  BY <1>1, ContractStutters DEF walletVars, PhaseOf, TermsOf, Exists
<1>2. ASSUME NEW p \in Payment, NEW u \in User, NEW provider \in Provider, NEW n \in Amount,
             InitTopup(p, u, provider, n)
      PROVE  Contract!ContractNext
  BY <1>2, OpenContract
<1>3. ASSUME NEW h \in Handler, Commit(h)
      PROVE  [Contract!ContractNext]_Contract!contractVars
  <2> PICK c \in Call : c = handler[h]
    BY <1>3 DEF Commit, TopupsTypeOK
  <2>1. Exists(c.payment) /\ Write(c) /\ c.payment \in Payment /\ c.txn \in External
    BY <1>3 DEF Commit, TopupsTypeOK, HandlersKnowPayments, Call
  <2>2. CASE SetExternalID(c.payment, c.txn)
    BY <2>1, <2>2, BindContract
  <2>3. CASE ConfirmPending(c.payment, c.txn)
    BY <2>1, <2>3, ConfirmContract
  <2>4. CASE CancelPending(c.payment)
    BY <2>1, <2>4, CancelContract
  <2>5. CASE AlreadyTerminal(c.payment)
    BY <1>1, <2>5 DEF AlreadyTerminal
  <2> QED
    BY <2>1, <2>2, <2>3, <2>4, <2>5 DEF Write, ConfirmPayment, FailPayment
<1>4. ASSUME NEW t \in Txn, PaymeCheck(t) PROVE UNCHANGED <<walletVars, payments>>
  BY <1>4 DEF PaymeCheck
<1>5. ASSUME NEW h \in Handler, Callback(h) PROVE UNCHANGED <<walletVars, payments>>
  BY <1>5, CallbackDecides
<1>6. ASSUME NEW h \in Handler, Abort(h) PROVE UNCHANGED <<walletVars, payments>>
  BY <1>6 DEF Abort
<1>7. CASE UNCHANGED paymentVars
  BY <1>1, <1>7 DEF paymentVars, topupVars
<1> QED
  BY <1>1, <1>2, <1>3, <1>4, <1>5, <1>6, <1>7 DEF TopupsNext

(* The callbacks, interleaved in any way, implement the contract: fixed    *)
(* terms, one end, and a balance that grows by the amount of a payment in  *)
(* the step in which it becomes paid and at no other time.                 *)
THEOREM TopupsImplementContract == TopupsSpec => ImplementsContract
<1>1. TopupsInv /\ [TopupsNext]_paymentVars => [Contract!ContractNext]_Contract!contractVars
  BY StepContract
<1> QED
  BY InitContract, TopupsHold, <1>1, PTL DEF TopupsSpec, ImplementsContract, Contract!ContractSpec

(***************************************************************************)
(* Promotions: paid days, removed ads, announced ends and money.           *)
(*                                                                         *)
(* Most holds for any number of consumers.  What a consumer computes from  *)
(* the rows it has listed, and applies to the rows it finds later, is      *)
(* right only if no other consumer comes in between: the two theorems that *)
(* rest on it say OneConsumer.                                             *)
(***************************************************************************)
OneConsumer == \A v, w \in Worker : v = w

Term == [term : Nat, served : Nat]

(* The time at which a row stopped being served, or t.                     *)
AsOf(p, t) == IF p.status = "suspended" THEN p.suspendedAt ELSE t

(* What relates a row p, its term s and the time t: the end is never       *)
(* nearer than what was sold, and what is left until it is what has not    *)
(* been served.                                                            *)
RowIsKept(p, s, t) ==
  /\ s.served <= s.term
  /\ p.starts <= t
  /\ p.status = "suspended" => p.suspendedAt \in Nat /\ p.suspendedAt <= t
  /\ p.ends # Never => p.ends >= p.starts + s.term
  /\ p.status \in Open /\ p.ends # Never =>
       s.term - s.served = IF p.ends > AsOf(p, t) THEN p.ends - AsOf(p, t) ELSE 0

RowsAreKept == \A i \in DOMAIN promos : RowIsKept(promos[i], spent[i], now)

(* An open service of a removed ad waits for the event of the removal.     *)
RemovalsArePending ==
  \A ad \in Ad \ raced :
    Removed(ad) /\ RowsOf(ad, Open) # {} =>
      \E e \in bus : e.ad = ad /\ e.kind \in {"blocked", "deleted"}

(* The part of the invariant that is not about money.                      *)
Rows == PromotionsTypeOK /\ RowsAreKept /\ RemovalsArePending

-----------------------------------------------------------------------------
(* Helpers.                                                                *)

(* The larger of two numbers.                                              *)
LEMMA MaxOfTwo == ASSUME NEW a \in Int, NEW b \in Int PROVE Max({a, b}) = IF a >= b THEN a ELSE b
<1>1. \E x \in {a, b} : \A y \in {a, b} : x >= y
  OBVIOUS
<1>2. Max({a, b}) \in {a, b} /\ \A y \in {a, b} : Max({a, b}) >= y
  BY <1>1 DEF Max
<1> QED
  BY <1>2

(* The smaller of two numbers.                                             *)
LEMMA MinOfTwo == ASSUME NEW a \in Int, NEW b \in Int PROVE Min({a, b}) = IF a <= b THEN a ELSE b
<1>1. \E x \in {a, b} : \A y \in {a, b} : x <= y
  OBVIOUS
<1>2. Min({a, b}) \in {a, b} /\ \A y \in {a, b} : Min({a, b}) <= y
  BY <1>1 DEF Min
<1> QED
  BY <1>2

(* A table of rows is a sequence.                                          *)
LEMMA FunctionIsSeq ==
  ASSUME NEW S, NEW n \in Nat, NEW f \in [1..n -> S]
  PROVE  f \in Seq(S) /\ Len(f) = n /\ DOMAIN f = 1..n
<1>1. f \in Seq(S)
  BY SeqDef
<1> QED
  BY <1>1, LenProperties

(* The types of rows and terms.                                            *)
LEMMA RowTypes ==
  ASSUME PromotionsTypeOK
  PROVE  /\ Len(promos) \in Nat /\ Len(spent) = Len(promos)
         /\ DOMAIN promos = 1..Len(promos) /\ DOMAIN spent = 1..Len(promos)
         /\ \A i \in DOMAIN promos : promos[i] \in Promo /\ spent[i] \in Term
<1>1. promos \in Seq(Promo) /\ spent \in Seq(Term) /\ Len(spent) = Len(promos)
  BY DEF PromotionsTypeOK, Term
<1>2. /\ Len(promos) \in Nat
      /\ DOMAIN promos = 1..Len(promos) /\ DOMAIN spent = 1..Len(promos)
  BY <1>1, LenProperties
<1>3. \A i \in 1..Len(promos) : promos[i] \in Promo
  BY <1>1, ElementOfSeq
<1>4. \A i \in 1..Len(promos) : spent[i] \in Term
  BY <1>1, ElementOfSeq
<1> QED
  BY <1>1, <1>2, <1>3, <1>4

(* Writing some rows writes those and no other.                            *)
LEMMA SetRowsIs ==
  ASSUME promos \in Seq(Promo), NEW f, DOMAIN f \subseteq DOMAIN promos,
         \A i \in DOMAIN f : f[i] \in Promo, SetRows(f)
  PROVE  /\ promos' \in Seq(Promo) /\ Len(promos') = Len(promos)
         /\ DOMAIN promos' = DOMAIN promos
         /\ \A i \in DOMAIN promos : promos'[i] = IF i \in DOMAIN f THEN f[i] ELSE promos[i]
<1>1. /\ DOMAIN promos = 1..Len(promos) /\ Len(promos) \in Nat
      /\ \A i \in DOMAIN promos : promos[i] \in Promo
  BY ElementOfSeq, LenProperties
<1>2. promos' \in [1..Len(promos) -> Promo]
  BY <1>1 DEF SetRows
<1>3. promos' \in Seq(Promo)
  BY <1>1, <1>2, SeqDef
<1>4. DOMAIN promos' = 1..Len(promos) /\ Len(promos') = Len(promos)
  BY <1>1, <1>2, <1>3, LenProperties
<1> QED
  BY <1>1, <1>3, <1>4 DEF SetRows

(* The two databases keep their types when money moves.                    *)
LEMMA CreditKeepsType ==
  ASSUME WalletTypeOK, NEW u \in User, NEW n \in Nat \ {0}, NEW kind \in Kind,
         NEW ref \in Reference, CreditTx(u, n, kind, ref)
  PROVE  WalletTypeOK'
<1> DEFINE op == [kind |-> kind, user |-> u, from |-> "external_topup",
                  to |-> "user_wallet", amount |-> n, ref |-> ref]
<1>1. op \in Operation
  BY DEF Operation, Account
<1>2. ledger' \in Seq(Operation)
  BY <1>1, AppendProperties DEF CreditTx, WalletTypeOK
<1> QED
  BY <1>2 DEF CreditTx, WalletTypeOK

(* A debit keeps the types of the wallet.                                  *)
LEMMA DebitKeepsType ==
  ASSUME WalletTypeOK, NEW u \in User, NEW n \in Nat \ {0}, NEW ref \in Reference,
         DebitTx(u, n, "purchase", ref)
  PROVE  WalletTypeOK'
<1> DEFINE op == [kind |-> "purchase", user |-> u, from |-> "user_wallet",
                  to |-> "promotion_revenue", amount |-> n, ref |-> ref]
<1>1. op \in Operation
  BY DEF Operation, Account, Kind
<1>2. ledger' \in Seq(Operation)
  BY <1>1, AppendProperties DEF DebitTx, Withdraw, WalletTypeOK
<1>3. balance[u] \in Nat /\ balance[u] >= n
  BY DEF DebitTx, InsufficientFunds, WalletTypeOK
<1> QED
  BY <1>2, <1>3 DEF DebitTx, Withdraw, WalletTypeOK

-----------------------------------------------------------------------------
(* What each change does to a row.                                         *)

(* Suspending: the clock of the row stops (SuspendPromotions).             *)
LEMMA FrozenIsKept ==
  ASSUME NEW p \in Promo, p.status = "active", NEW s \in Term, now \in Nat,
         RowIsKept(p, s, now)
  PROVE  /\ Frozen(p) \in Promo /\ RowIsKept(Frozen(p), s, now)
         /\ Frozen(p).status = "suspended"
         /\ Frozen(p).ad = p.ad /\ Frozen(p).amount = p.amount
<1>1. /\ Frozen(p) \in Promo
      /\ Frozen(p).status = "suspended" /\ Frozen(p).suspendedAt = now
      /\ Frozen(p).ad = p.ad /\ Frozen(p).amount = p.amount
      /\ Frozen(p).starts = p.starts /\ Frozen(p).ends = p.ends
  BY DEF Frozen, Promo, PromoStatus
<1> QED
  BY <1>1 DEF RowIsKept, AsOf, Open

(* Resuming: the end moves by as long as the row was frozen                *)
(* (ResumePromotions).                                                     *)
LEMMA ResumedIsKept ==
  ASSUME NEW p \in Promo, p.status = "suspended", NEW s \in Term, now \in Nat,
         RowIsKept(p, s, now)
  PROVE  /\ Resumed(p) \in Promo /\ RowIsKept(Resumed(p), s, now)
         /\ Resumed(p).status = "active" /\ Resumed(p).service = p.service
         /\ Resumed(p).ad = p.ad /\ Resumed(p).amount = p.amount
         /\ p.ends # Never => /\ Resumed(p).ends = AnnouncedEnd(p)
                              /\ AnnouncedEnd(p) \in Nat
<1>1. p.ends \in Nat \cup {Never} /\ p.suspendedAt \in Nat /\ p.suspendedAt <= now
  BY DEF RowIsKept, Promo
<1>2. /\ Resumed(p).status = "active" /\ Resumed(p).service = p.service
      /\ Resumed(p).ad = p.ad /\ Resumed(p).amount = p.amount
      /\ Resumed(p).starts = p.starts
      /\ Resumed(p).ends = IF p.ends = Never THEN Never ELSE AnnouncedEnd(p)
  BY DEF Resumed, Promo, AnnouncedEnd
<1>3. p.ends # Never => AnnouncedEnd(p) \in Nat
  BY <1>1 DEF AnnouncedEnd
<1>4. Resumed(p) \in Promo
  BY <1>1, <1>3 DEF Resumed, Promo, PromoStatus, AnnouncedEnd
<1>5. RowIsKept(Resumed(p), s, now)
  BY <1>1, <1>2, <1>3 DEF RowIsKept, AsOf, Open, AnnouncedEnd, Promo, Term
<1> QED
  BY <1>2, <1>3, <1>4, <1>5

(* Closing: nothing is promised of the row any more (RefundPromotions).    *)
LEMMA ClosedIsKept ==
  ASSUME NEW p \in Promo, NEW s \in Term, NEW t \in Nat, RowIsKept(p, s, t)
  PROVE  /\ Closed(p) \in Promo /\ RowIsKept(Closed(p), s, t)
         /\ Closed(p).status = "refunded"
         /\ Closed(p).ad = p.ad /\ Closed(p).amount = p.amount
<1>1. /\ Closed(p) \in Promo /\ Closed(p).status = "refunded"
      /\ Closed(p).ad = p.ad /\ Closed(p).amount = p.amount
      /\ Closed(p).starts = p.starts /\ Closed(p).ends = p.ends
  BY DEF Closed, Promo, PromoStatus
<1> QED
  BY <1>1 DEF RowIsKept, Open

(* A day goes by: a row that is served is a day nearer to its end.         *)
LEMMA ServedIsKept ==
  ASSUME NEW p \in Promo, NEW s \in Term, NEW t \in Nat, RowIsKept(p, s, t),
         NEW q, q = IF p.status = "active" /\ s.served < s.term
                    THEN [s EXCEPT !.served = @ + 1] ELSE s
  PROVE  q \in Term /\ RowIsKept(p, q, t + 1)
<1>0. /\ s.term \in Nat /\ s.served \in Nat /\ p.starts \in Nat /\ p.ends \in Nat \cup {Never}
      /\ p.status \in PromoStatus
  BY DEF Term, Promo
<1>1. CASE p.status = "active" /\ s.served < s.term
  <2>1. q \in Term /\ q.term = s.term /\ q.served = s.served + 1
    BY <1>1 DEF Term
  <2> QED
    BY <1>0, <1>1, <2>1 DEF RowIsKept, AsOf, Open
<1>2. CASE ~(p.status = "active" /\ s.served < s.term)
  BY <1>0, <1>2 DEF RowIsKept, AsOf, Open, PromoStatus
<1> QED
  BY <1>1, <1>2

-----------------------------------------------------------------------------
(* What each action does to the table of rows.                             *)


(* The rows of the table are changed, none is added or moved.              *)
Rewritten ==
  /\ promos' \in Seq(Promo) /\ Len(promos') = Len(promos) /\ DOMAIN promos' = DOMAIN promos
  /\ \A i \in DOMAIN promos : /\ promos'[i].ad = promos[i].ad
                              /\ promos'[i].amount = promos[i].amount
                              /\ RowIsKept(promos'[i], spent[i], now)

(* Blocking an ad suspends its active rows and no other.                   *)
LEMMA SuspendRows ==
  ASSUME PromotionsTypeOK, RowsAreKept, NEW ad \in Ad,
         SetRows([i \in RowsOf(ad, {"active"}) |-> Frozen(promos[i])])
  PROVE  /\ Rewritten
         /\ \A i \in DOMAIN promos :
              promos'[i].status = IF i \in RowsOf(ad, {"active"}) THEN "suspended"
                                                                  ELSE promos[i].status
<1> DEFINE rows == RowsOf(ad, {"active"})
           f    == [i \in rows |-> Frozen(promos[i])]
<1>1. rows \subseteq DOMAIN promos /\ \A i \in rows : promos[i].status = "active"
  BY DEF RowsOf
<1>2. \A i \in DOMAIN promos : /\ promos[i] \in Promo /\ spent[i] \in Term
                               /\ RowIsKept(promos[i], spent[i], now)
  BY RowTypes DEF RowsAreKept
<1>3. now \in Nat /\ promos \in Seq(Promo)
  BY DEF PromotionsTypeOK
<1>4. \A i \in rows : /\ f[i] \in Promo /\ RowIsKept(f[i], spent[i], now)
                      /\ f[i].status = "suspended"
                      /\ f[i].ad = promos[i].ad /\ f[i].amount = promos[i].amount
  BY <1>1, <1>2, <1>3, FrozenIsKept
<1>5. DOMAIN f = rows /\ SetRows(f)
  OBVIOUS
<1> HIDE DEF f, rows
<1>6. /\ promos' \in Seq(Promo) /\ Len(promos') = Len(promos) /\ DOMAIN promos' = DOMAIN promos
      /\ \A i \in DOMAIN promos : promos'[i] = IF i \in rows THEN f[i] ELSE promos[i]
  BY <1>1, <1>3, <1>4, <1>5, SetRowsIs
<1> QED
  BY <1>2, <1>4, <1>6 DEF Rewritten, rows

(* Showing an ad again resumes its suspended rows and no other.            *)
LEMMA ResumeRows ==
  ASSUME PromotionsTypeOK, RowsAreKept, NEW ad \in Ad,
         SetRows([i \in RowsOf(ad, {"suspended"}) |-> Resumed(promos[i])])
  PROVE  /\ Rewritten
         /\ \A i \in DOMAIN promos :
              promos'[i].status = IF i \in RowsOf(ad, {"suspended"}) THEN "active"
                                                                     ELSE promos[i].status
         /\ \A i \in RowsOf(ad, {"suspended"}) : promos'[i] = Resumed(promos[i])
<1> DEFINE rows == RowsOf(ad, {"suspended"})
           f    == [i \in rows |-> Resumed(promos[i])]
<1>1. rows \subseteq DOMAIN promos /\ \A i \in rows : promos[i].status = "suspended"
  BY DEF RowsOf
<1>2. \A i \in DOMAIN promos : /\ promos[i] \in Promo /\ spent[i] \in Term
                               /\ RowIsKept(promos[i], spent[i], now)
  BY RowTypes DEF RowsAreKept
<1>3. now \in Nat /\ promos \in Seq(Promo)
  BY DEF PromotionsTypeOK
<1>4. \A i \in rows : /\ f[i] \in Promo /\ RowIsKept(f[i], spent[i], now)
                      /\ f[i].status = "active"
                      /\ f[i].ad = promos[i].ad /\ f[i].amount = promos[i].amount
  BY <1>1, <1>2, <1>3, ResumedIsKept
<1>5. DOMAIN f = rows /\ SetRows(f) /\ \A i \in rows : f[i] = Resumed(promos[i])
  OBVIOUS
<1> HIDE DEF f, rows
<1>6. /\ promos' \in Seq(Promo) /\ Len(promos') = Len(promos) /\ DOMAIN promos' = DOMAIN promos
      /\ \A i \in DOMAIN promos : promos'[i] = IF i \in rows THEN f[i] ELSE promos[i]
  BY <1>1, <1>3, <1>4, <1>5, SetRowsIs
<1>7. Rewritten
  BY <1>2, <1>4, <1>6 DEF Rewritten
<1>8. \A i \in DOMAIN promos : promos'[i].status = IF i \in rows THEN "active" ELSE promos[i].status
  BY <1>4, <1>6
<1>9. \A i \in rows : promos'[i] = Resumed(promos[i])
  BY <1>1, <1>5, <1>6
<1> QED
  BY <1>7, <1>8, <1>9 DEF rows

(* Removing an ad closes its open rows and no other.                       *)
LEMMA RefundRows ==
  ASSUME PromotionsTypeOK, RowsAreKept, NEW ad \in Ad,
         SetRows([i \in RowsOf(ad, Open) |-> Closed(promos[i])])
  PROVE  /\ Rewritten
         /\ \A i \in DOMAIN promos :
              promos'[i].status = IF i \in RowsOf(ad, Open) THEN "refunded"
                                                            ELSE promos[i].status
<1> DEFINE rows == RowsOf(ad, Open)
           f    == [i \in rows |-> Closed(promos[i])]
<1>1. rows \subseteq DOMAIN promos
  BY DEF RowsOf
<1>2. \A i \in DOMAIN promos : /\ promos[i] \in Promo /\ spent[i] \in Term
                               /\ RowIsKept(promos[i], spent[i], now)
  BY RowTypes DEF RowsAreKept
<1>3. now \in Nat /\ promos \in Seq(Promo)
  BY DEF PromotionsTypeOK
<1>4. \A i \in rows : /\ f[i] \in Promo /\ RowIsKept(f[i], spent[i], now)
                      /\ f[i].status = "refunded"
                      /\ f[i].ad = promos[i].ad /\ f[i].amount = promos[i].amount
  BY <1>1, <1>2, <1>3, ClosedIsKept
<1>5. DOMAIN f = rows /\ SetRows(f)
  OBVIOUS
<1> HIDE DEF f, rows
<1>6. /\ promos' \in Seq(Promo) /\ Len(promos') = Len(promos) /\ DOMAIN promos' = DOMAIN promos
      /\ \A i \in DOMAIN promos : promos'[i] = IF i \in rows THEN f[i] ELSE promos[i]
  BY <1>1, <1>3, <1>4, <1>5, SetRowsIs
<1> QED
  BY <1>2, <1>4, <1>6 DEF Rewritten, rows

(* The parts of a purchase under way.                                      *)
LEMMA PurchaseTypes ==
  ASSUME PromotionsTypeOK, NEW r \in Request, saga[r] # None
  PROVE  /\ saga[r] \in Purchase
         /\ saga[r].ad \in Ad /\ saga[r].plan \in Plan
         /\ Owner[saga[r].ad] \in User /\ saga[r].ad \in Reference
         /\ saga[r].plan.amount \in Nat \ {0}
         /\ saga[r].plan.items \in Seq(Item) /\ Len(saga[r].plan.items) \in Nat \ {0}
<1>1. saga[r] \in Purchase
  BY DEF PromotionsTypeOK
<1>2. saga[r].ad \in Ad /\ saga[r].plan \in Plan
  BY <1>1 DEF Purchase
<1>3. saga[r].plan.items \in Seq(Item) /\ saga[r].plan.items # <<>>
  BY <1>2, PromotionAssumption
<1>4. Len(saga[r].plan.items) \in Nat \ {0}
  BY <1>3, LenProperties, EmptySeq
<1> QED
  BY <1>1, <1>2, <1>3, <1>4, PromotionAssumption

(* Activating appends the rows of the plan (ActivatePromotions).           *)
LEMMA ActivateRows ==
  ASSUME PromotionsTypeOK, NEW ad \in Ad, NEW plan \in Plan, ActivatePromotions(ad, plan)
  PROVE  /\ promos' \in Seq(Promo) /\ spent' \in Seq(Term)
         /\ Len(plan.items) \in Nat \ {0}
         /\ DOMAIN promos' = 1..(Len(promos) + Len(plan.items))
         /\ Len(promos') = Len(promos) + Len(plan.items)
         /\ Len(spent') = Len(promos) + Len(plan.items)
         /\ \A i \in DOMAIN promos : promos'[i] = promos[i] /\ spent'[i] = spent[i]
         /\ \A i \in 1..Len(plan.items) :
              /\ promos'[Len(promos) + i] = NewRows(ad, plan)[i]
              /\ spent'[Len(promos) + i] = NewSpent(plan)[i]
              /\ NewRows(ad, plan)[i] \in Promo /\ NewSpent(plan)[i] \in Term
              /\ RowIsKept(NewRows(ad, plan)[i], NewSpent(plan)[i], now)
<1> DEFINE n == Len(promos)
           m == Len(plan.items)
           a == NewRows(ad, plan)
           b == NewSpent(plan)
<1>1. /\ plan.amount \in Nat \ {0} /\ plan.items \in Seq(Item) /\ plan.items # <<>>
      /\ Owner[ad] \in User
  BY PromotionAssumption
<1>2. m \in Nat \ {0} /\ DOMAIN plan.items = 1..m
  BY <1>1, LenProperties, EmptySeq
<1>3. now \in Nat /\ Never \notin Nat
  BY PromotionAssumption DEF PromotionsTypeOK
<1>4. ASSUME NEW i \in 1..m
      PROVE  a[i] \in Promo /\ b[i] \in Term /\ RowIsKept(a[i], b[i], now)
  <2>1. plan.items[i] \in Item
    BY <1>1, <1>2, ElementOfSeq
  <2>2. /\ a[i] = [ad |-> ad, user |-> Owner[ad], service |-> plan.items[i].service,
                   amount |-> IF i = 1 THEN plan.amount ELSE 0, status |-> "active",
                   starts |-> now, ends |-> EndsAt(plan.items[i]), suspendedAt |-> Never]
        /\ b[i] = [term |-> IF plan.items[i].service = "BUMP" THEN 0 ELSE plan.items[i].days,
                   served |-> 0]
    BY <1>2 DEF NewRows, NewSpent
  <2>3. plan.items[i].service \in {"TOP", "VIP", "BUMP"} /\ plan.items[i].days \in Nat
    BY <2>1 DEF Item
  <2>4. EndsAt(plan.items[i]) = IF plan.items[i].service = "BUMP" THEN Never
                                                                  ELSE now + plan.items[i].days
    BY DEF EndsAt
  <2>5. a[i] \in Promo /\ b[i] \in Term
    BY <1>1, <1>3, <2>2, <2>3, <2>4 DEF Promo, Term, PromoStatus
  <2> HIDE DEF a, b
  <2>6. RowIsKept(a[i], b[i], now)
    BY <1>3, <2>2, <2>3, <2>4 DEF RowIsKept, AsOf
  <2> QED
    BY <2>5, <2>6
<1>5. a \in [1..m -> Promo] /\ b \in [1..m -> Term]
  BY <1>2, <1>4 DEF NewRows, NewSpent
<1>6. promos' = promos \o a /\ spent' = spent \o b
  BY DEF ActivatePromotions
<1>7. /\ promos \in Seq(Promo) /\ spent \in Seq(Term)
      /\ Len(promos) = n /\ Len(spent) = n /\ n \in Nat
  BY LenProperties DEF PromotionsTypeOK, Term
<1> HIDE DEF a, b, n, m
<1>8. a \in Seq(Promo) /\ b \in Seq(Term) /\ Len(a) = m /\ Len(b) = m
  BY <1>2, <1>5, SeqDef, LenProperties
<1>9. /\ promos' \in Seq(Promo) /\ Len(promos') = n + m
      /\ \A i \in 1..(n + m) : promos'[i] = IF i <= n THEN promos[i] ELSE a[i - n]
  BY <1>6, <1>7, <1>8, ConcatProperties
<1>10. /\ spent' \in Seq(Term) /\ Len(spent') = n + m
       /\ \A i \in 1..(n + m) : spent'[i] = IF i <= n THEN spent[i] ELSE b[i - n]
  BY <1>6, <1>7, <1>8, ConcatProperties
<1>11. DOMAIN promos' = 1..(n + m) /\ DOMAIN promos = 1..n
  BY <1>7, <1>9, LenProperties DEF n
<1>12. \A i \in DOMAIN promos : promos'[i] = promos[i] /\ spent'[i] = spent[i]
  BY <1>2, <1>7, <1>9, <1>10, <1>11
<1>13. \A i \in 1..m : promos'[n + i] = a[i] /\ spent'[n + i] = b[i]
  <2> SUFFICES ASSUME NEW i \in 1..m PROVE promos'[n + i] = a[i] /\ spent'[n + i] = b[i]
    OBVIOUS
  <2>1. n + i \in 1..(n + m) /\ ~(n + i <= n) /\ (n + i) - n = i
    BY <1>2, <1>7
  <2> QED
    BY <1>9, <1>10, <2>1
<1> QED
  BY <1>2, <1>4, <1>9, <1>10, <1>11, <1>12, <1>13 DEF n, m, a, b

-----------------------------------------------------------------------------
(* Types.                                                                  *)

(* The steps of the purchase keep the types.                               *)
LEMMA SagaTypes ==
  ASSUME PromotionsTypeOK, NEW r \in Request, NEW stage \in Stage, saga[r] # None, GoTo(r, stage)
  PROVE  saga' \in [Request -> Purchase \cup {None}]
<1>1. saga[r] \in Purchase /\ saga \in [Request -> Purchase \cup {None}]
  BY PurchaseTypes DEF PromotionsTypeOK
<1>2. [saga[r] EXCEPT !.at = stage] \in Purchase
  BY <1>1 DEF Purchase
<1> QED
  BY <1>1, <1>2 DEF GoTo

(* Events of the outbox keep their type.                                   *)
LEMMA EnqueueTypes ==
  ASSUME PromotionsTypeOK, NEW subject \in {"promotion.activated", "wallet.refunded"}, NEW ad \in Ad,
         NEW value \in Nat \cup {Never}, Enqueue(subject, ad, value)
  PROVE  outbox' \subseteq OutEvent
<1>1. [subject |-> subject, ad |-> ad, value |-> value] \in OutEvent
  BY DEF OutEvent
<1> QED
  BY <1>1 DEF Enqueue, PromotionsTypeOK

(* The largest of some positions of a list is one of them.                 *)
LEMMA MaxIsOne ==
  ASSUME NEW n \in Nat, NEW S \in SUBSET (1..n), S # {}
  PROVE  Max(S) \in S
<1> DEFINE flipped == {n - x : x \in S}
<1>1. flipped \in SUBSET Nat /\ flipped # {}
  <2>1. \A x \in S : n - x \in Nat
    OBVIOUS
  <2> QED
    BY <2>1
<1>2. Min(flipped) \in flipped /\ \A y \in flipped : Min(flipped) <= y
  BY <1>1, MinIsLeast
<1>3. PICK x \in S : \A y \in S : n - x <= n - y
  BY <1>2
<1>4. \A y \in S : x >= y
  BY <1>3
<1> QED
  BY <1>4 DEF Max

(* The end that a purchase announces is that of one of its items.          *)
LEMMA TopEndIs ==
  ASSUME PromotionsTypeOK, NEW plan \in Plan, TopEnd(plan) # Never
  PROVE  \E i \in DOMAIN plan.items :
           plan.items[i].service = "TOP" /\ TopEnd(plan) = EndsAt(plan.items[i])
<1> DEFINE tops == {i \in DOMAIN plan.items : plan.items[i].service = "TOP"}
<1>1. tops # {} /\ TopEnd(plan) = EndsAt(plan.items[Max(tops)])
  BY DEF TopEnd
<1>2. DOMAIN plan.items = 1..Len(plan.items) /\ Len(plan.items) \in Nat
  BY PromotionAssumption, LenProperties
<1>3. Max(tops) \in tops
  BY <1>1, <1>2, MaxIsOne
<1> QED
  BY <1>1, <1>3

(* A purchase announces a time, or nothing.                                *)
LEMMA TopEndTypes ==
  ASSUME PromotionsTypeOK, NEW plan \in Plan
  PROVE  TopEnd(plan) \in Nat \cup {Never}
<1> SUFFICES ASSUME TopEnd(plan) # Never PROVE TopEnd(plan) \in Nat
  OBVIOUS
<1>1. PICK i \in DOMAIN plan.items :
             plan.items[i].service = "TOP" /\ TopEnd(plan) = EndsAt(plan.items[i])
  BY TopEndIs
<1>2. plan.items[i] \in Item
  BY PromotionAssumption, ElementOfSeq, LenProperties
<1> QED
  BY <1>1, <1>2 DEF EndsAt, Item, PromotionsTypeOK

(* What a consumer lists has its type: amounts are natural numbers, and    *)
(* the end announced for a suspended TOP is one.                           *)
LEMMA RefundIsBounded ==
  ASSUME NEW p \in Promo, now \in Nat, p.status = "suspended" => p.suspendedAt \in Nat
  PROVE  RefundAmount(p) \in Nat /\ RefundAmount(p) <= p.amount
<1> DEFINE total == p.ends - p.starts
           asOf  == IF p.status = "suspended" THEN p.suspendedAt ELSE now
           left  == Min({p.ends - asOf, total})
<1>1. p.amount \in Nat /\ p.starts \in Nat /\ p.ends \in Nat \cup {Never} /\ asOf \in Nat
  BY DEF Promo
<1>2. RefundAmount(p) = IF p.ends # Never /\ p.amount > 0 /\ total > 0 /\ left > 0
                        THEN (p.amount * left) \div total ELSE 0
  BY DEF RefundAmount
<1>3. CASE p.ends # Never /\ p.amount > 0 /\ total > 0 /\ left > 0
  <2>1. total \in Nat /\ total > 0
    BY <1>1, <1>3
  <2>2. left = IF p.ends - asOf <= total THEN p.ends - asOf ELSE total
    BY <1>1, <1>3, MinOfTwo
  <2>3. left \in Nat /\ left <= total /\ RefundAmount(p) = (p.amount * left) \div total
    BY <1>1, <1>2, <1>3, <2>1, <2>2
  <2> HIDE DEF total, left
  <2>4. \A a, l, t \in Nat : t > 0 /\ l <= t => (a * l) \div t \in Nat /\ (a * l) \div t <= a
    <3> SUFFICES ASSUME NEW a \in Nat, NEW l \in Nat, NEW t \in Nat, t > 0, l <= t
                 PROVE  (a * l) \div t \in Nat /\ (a * l) \div t <= a
      OBVIOUS
    <3>1. a * l \in Nat /\ a * l <= a * t
      OBVIOUS
    <3> DEFINE q == (a * l) \div t
    <3>2. q \in Nat /\ q * t <= a * l
      BY <3>1
    <3> HIDE DEF q
    <3>3. q * t <= a * t
      BY <3>1, <3>2
    <3>4. q <= a
      BY <3>2, <3>3
    <3> QED
      BY <3>2, <3>4 DEF q
  <2> QED
    BY <1>1, <2>1, <2>3, <2>4
<1>4. CASE ~(p.ends # Never /\ p.amount > 0 /\ total > 0 /\ left > 0)
  BY <1>1, <1>2, <1>4
<1> QED
  BY <1>3, <1>4

(* A worker in the middle of an event: its parts.                          *)
LEMMA ListedTypes ==
  ASSUME PromotionsTypeOK, NEW w \in Worker, worker[w] # Idle
  PROVE  /\ worker[w].event \in AdEvent /\ worker[w].event.ad \in Ad
         /\ worker[w].amount \in Nat /\ worker[w].top \in Nat \cup {Never}
<1>1. worker[w] \in Listed
  BY DEF PromotionsTypeOK
<1> QED
  BY <1>1 DEF Listed, AdEvent

(* What is due for rows is an amount.                                      *)
LEMMA AmountDueType ==
  ASSUME PromotionsTypeOK, RowsAreKept, NEW rows \in SUBSET DOMAIN promos
  PROVE  AmountDue(rows) \in Nat
<1> DEFINE f == [i \in DOMAIN promos |-> IF i \in rows THEN RefundAmount(promos[i]) ELSE 0]
<1>1. ASSUME NEW i \in DOMAIN promos PROVE RefundAmount(promos[i]) \in Nat
  <2>1. promos[i] \in Promo
    BY RowTypes
  <2>2. now \in Nat /\ (promos[i].status = "suspended" => promos[i].suspendedAt \in Nat)
    BY DEF RowsAreKept, RowIsKept, PromotionsTypeOK
  <2> QED
    BY <2>1, <2>2, RefundIsBounded
<1>2. \A i \in DOMAIN promos : f[i] \in Nat
  BY <1>1
<1>3. IsFiniteSet(DOMAIN promos)
  BY RowTypes, FS_Interval
<1> HIDE DEF f
<1>4. SumFunctionOnSet(f, DOMAIN promos) \in Nat
  BY <1>2, <1>3, SumType
<1> QED
  BY <1>4 DEF AmountDue, f

(* The end announced by a listed resumption.                               *)
LEMMA ResumeTop ==
  ASSUME PromotionsTypeOK, RowsAreKept, NEW w \in Worker, NEW e \in bus, ListToResume(w, e)
  PROVE  \E top \in Nat \cup {Never} :
           /\ worker' = [worker EXCEPT ![w] = [event |-> e, amount |-> 0, top |-> top]]
           /\ top # Never =>
                \E i \in RowsOf(e.ad, {"suspended"}) :
                   /\ promos[i].service = "TOP" /\ promos[i].ends # Never
                   /\ top = AnnouncedEnd(promos[i])
<1> DEFINE rows == RowsOf(e.ad, {"suspended"})
           tops == {i \in rows : promos[i].service = "TOP" /\ promos[i].ends # Never}
           top  == IF tops = {} THEN Never ELSE AnnouncedEnd(promos[Max(tops)])
<1>1. worker' = [worker EXCEPT ![w] = [event |-> e, amount |-> 0, top |-> top]]
  BY DEF ListToResume
<1>2. CASE tops = {}
  BY <1>1, <1>2
<1>3. CASE tops # {}
  <2>1. tops \in SUBSET (1..Len(promos)) /\ Len(promos) \in Nat
    BY RowTypes DEF RowsOf
  <2>2. Max(tops) \in tops
    BY <1>3, <2>1, MaxIsOne
  <2>3. PICK i \in tops : i = Max(tops)
    BY <2>2
  <2>4. /\ i \in DOMAIN promos /\ promos[i].status = "suspended"
        /\ i \in RowsOf(e.ad, {"suspended"})
        /\ promos[i].service = "TOP" /\ promos[i].ends # Never
    BY DEF RowsOf
  <2>5. AnnouncedEnd(promos[i]) \in Nat
    <3>1. /\ promos[i] \in Promo /\ spent[i] \in Term /\ now \in Nat
          /\ RowIsKept(promos[i], spent[i], now)
      BY <2>4, RowTypes DEF RowsAreKept, PromotionsTypeOK
    <3> QED
      BY <2>4, <3>1, ResumedIsKept
  <2>6. top = AnnouncedEnd(promos[i])
    BY <1>3, <2>3
  <2> HIDE DEF top, tops
  <2> QED
    BY <1>1, <2>4, <2>5, <2>6
<1> QED
  BY <1>2, <1>3

(* What a consumer has listed keeps its type.                              *)
LEMMA WorkerTypes ==
  ASSUME PromotionsTypeOK, NEW w \in Worker, NEW e \in bus, NEW n \in Nat, NEW top \in Nat \cup {Never},
         worker' = [worker EXCEPT ![w] = [event |-> e, amount |-> n, top |-> top]]
  PROVE  worker' \in [Worker -> Listed \cup {Idle}]
<1>1. [event |-> e, amount |-> n, top |-> top] \in Listed
  BY DEF Listed, PromotionsTypeOK
<1> QED
  BY <1>1 DEF PromotionsTypeOK

(* Every step keeps the types.                                             *)
LEMMA TypesStep ==
  ASSUME PromotionsTypeOK, RowsAreKept, [PromotionsNext]_promotionVars
  PROVE  PromotionsTypeOK'
<1>0. /\ WalletTypeOK /\ promos \in Seq(Promo) /\ spent \in Seq(Term)
      /\ Len(spent) = Len(promos)
      /\ saga \in [Request -> Purchase \cup {None}]
      /\ worker \in [Worker -> Listed \cup {Idle}]
      /\ outbox \subseteq OutEvent /\ bus \subseteq AdEvent
      /\ adStatus \in [Ad -> AdState] /\ takedown \subseteq Ad
      /\ now \in 0..MaxTime /\ raced \subseteq Ad /\ hurt \subseteq Request
  BY DEF PromotionsTypeOK, Term
<1> USE DEF PromotionsTypeOK, Term, marks, listingVars
<1>w. UNCHANGED walletVars => WalletTypeOK'
  BY <1>0 DEF WalletTypeOK, walletVars
<1>1. ASSUME NEW u \in User, Topup(u) PROVE PromotionsTypeOK'
  <2>1. WalletTypeOK'
    BY <1>0, <1>1, CreditKeepsType, PromotionAssumption DEF Topup, Kind
  <2> QED
    BY <1>0, <1>1, <2>1 DEF Topup
<1>2. ASSUME NEW r \in Request, NEW ad \in Ad, NEW plan \in Plan, ReadAd(r, ad, plan) PROVE PromotionsTypeOK'
  <2>1. [at |-> "debit", ad |-> ad, plan |-> plan] \in Purchase
    BY DEF Purchase, Stage
  <2> QED
    BY <1>0, <1>2, <1>w, <2>1 DEF ReadAd
<1>3. ASSUME NEW r \in Request, Debit(r) PROVE PromotionsTypeOK'
  <2>1. saga' \in [Request -> Purchase \cup {None}]
    BY <1>3, SagaTypes DEF Debit, SagaAt, Stage
  <2>2. WalletTypeOK'
    BY <1>0, <1>3, <1>w, PurchaseTypes, DebitKeepsType DEF Debit, SagaAt
  <2> QED
    BY <1>0, <1>3, <2>1, <2>2 DEF Debit
<1>4. ASSUME NEW r \in Request, Activate(r) PROVE PromotionsTypeOK'
  <2>1. saga' \in [Request -> Purchase \cup {None}]
    BY <1>4, SagaTypes DEF Activate, SagaAt, Stage
  <2>2. saga[r].ad \in Ad /\ saga[r].plan \in Plan
    BY <1>4, PurchaseTypes DEF Activate, SagaAt
  <2>3. promos' \in Seq(Promo) /\ spent' \in Seq(Term) /\ Len(spent') = Len(promos')
    BY <1>4, <2>2, ActivateRows DEF Activate
  <2>4. outbox' \subseteq OutEvent
    BY <1>4, <2>2, EnqueueTypes, TopEndTypes DEF Activate, ActivatePromotions
  <2>5. raced' \subseteq Ad /\ hurt' \subseteq Request
    BY <1>0, <1>4, <2>2 DEF Activate
  <2> QED
    BY <1>0, <1>4, <1>w, <2>1, <2>3, <2>4, <2>5 DEF Activate
<1>5. ASSUME NEW r \in Request, ActivationFails(r) PROVE PromotionsTypeOK'
  <2>1. saga' \in [Request -> Purchase \cup {None}]
    BY <1>5, SagaTypes DEF ActivationFails, SagaAt, Stage
  <2> QED
    BY <1>0, <1>5, <1>w, <2>1 DEF ActivationFails
<1>6. ASSUME NEW r \in Request, Compensate(r) PROVE PromotionsTypeOK'
  <2>1. saga' \in [Request -> Purchase \cup {None}]
    BY <1>6, SagaTypes DEF Compensate, SagaAt, Stage
  <2>2. WalletTypeOK'
    BY <1>0, <1>6, <1>w, PurchaseTypes, CreditKeepsType DEF Compensate, SagaAt, Kind
  <2>3. outbox' \subseteq OutEvent
    BY <1>0, <1>6, PurchaseTypes, EnqueueTypes DEF Compensate, SagaAt
  <2> QED
    BY <1>0, <1>6, <2>1, <2>2, <2>3 DEF Compensate
<1>7. ASSUME NEW r \in Request, Crash(r) PROVE PromotionsTypeOK'
  <2>1. saga' \in [Request -> Purchase \cup {None}]
    BY <1>7, SagaTypes DEF Crash, InFlight, Stage
  <2> QED
    BY <1>0, <1>7, <1>w, <2>1 DEF Crash
<1>8. ASSUME NEW w \in Worker, NEW e \in bus, Suspend(w, e) PROVE PromotionsTypeOK'
  <2>1. Rewritten
    BY <1>0, <1>8, SuspendRows DEF Suspend, AdEvent
  <2> QED
    BY <1>0, <1>8, <1>w, <2>1 DEF Suspend, Acknowledge, Rewritten
<1>9. ASSUME NEW w \in Worker, NEW e \in bus, ListToResume(w, e) PROVE PromotionsTypeOK'
  <2>1. PICK top \in Nat \cup {Never} :
               worker' = [worker EXCEPT ![w] = [event |-> e, amount |-> 0, top |-> top]]
    BY <1>9, ResumeTop
  <2>2. worker' \in [Worker -> Listed \cup {Idle}]
    BY <2>1, WorkerTypes
  <2> QED
    BY <1>0, <1>9, <1>w, <2>2 DEF ListToResume
<1>10. ASSUME NEW w \in Worker, NEW e \in bus, ListToRefund(w, e) PROVE PromotionsTypeOK'
  <2>1. AmountDue(RowsOf(e.ad, Open)) \in Nat
    BY AmountDueType DEF RowsOf
  <2>2. worker' \in [Worker -> Listed \cup {Idle}]
    BY <1>10, <2>1, WorkerTypes DEF ListToRefund
  <2> QED
    BY <1>0, <1>10, <1>w, <2>2 DEF ListToRefund
<1>11. ASSUME NEW w \in Worker, NEW e \in bus, NothingToDo(w, e) PROVE PromotionsTypeOK'
  BY <1>0, <1>11, <1>w DEF NothingToDo
<1>12. ASSUME NEW w \in Worker, NEW e \in bus, DeadLetter(w, e) PROVE PromotionsTypeOK'
  BY <1>0, <1>12, <1>w DEF DeadLetter, AdEvent
<1>13. ASSUME NEW w \in Worker, ResumePromotions(w) PROVE PromotionsTypeOK'
  <2>1. Rewritten
    BY <1>0, <1>13, ListedTypes, ResumeRows DEF ResumePromotions
  <2>2. outbox' \subseteq OutEvent
    BY <1>0, <1>13, ListedTypes, EnqueueTypes DEF ResumePromotions
  <2>3. worker' \in [Worker -> Listed \cup {Idle}] /\ bus' \subseteq AdEvent
    BY <1>0, <1>13 DEF ResumePromotions, Finish, Acknowledge
  <2> QED
    BY <1>0, <1>13, <1>w, <2>1, <2>2, <2>3 DEF ResumePromotions, Rewritten
<1>14. ASSUME NEW w \in Worker, RefundPromotions(w) PROVE PromotionsTypeOK'
  <2>0. /\ worker[w].event.ad \in Ad /\ worker[w].event.ad \in Reference
        /\ Owner[worker[w].event.ad] \in User /\ worker[w].amount \in Nat
    BY <1>14, ListedTypes, PromotionAssumption DEF RefundPromotions
  <2>1. Rewritten
    BY <1>0, <1>14, <2>0, RefundRows DEF RefundPromotions
  <2>2. outbox' \subseteq OutEvent
    BY <1>0, <1>14, <2>0, EnqueueTypes DEF RefundPromotions
  <2>3. worker' \in [Worker -> Listed \cup {Idle}] /\ bus' \subseteq AdEvent
    BY <1>0, <1>14 DEF RefundPromotions, Finish, Acknowledge
  <2>4. WalletTypeOK'
    BY <1>0, <1>14, <1>w, <2>0, CreditKeepsType DEF RefundPromotions, Kind
  <2> QED
    BY <1>0, <1>14, <2>1, <2>2, <2>3, <2>4 DEF RefundPromotions, Rewritten
<1>15. ASSUME NEW w \in Worker, GiveBack(w) PROVE PromotionsTypeOK'
  BY <1>0, <1>15, <1>w DEF GiveBack
<1>16. ASSUME NEW ad \in Ad, Listing(ad) PROVE PromotionsTypeOK'
  <2>1. adStatus' \in [Ad -> AdState] /\ takedown' \subseteq Ad /\ bus' \subseteq AdEvent
    BY <1>0, <1>16 DEF Listing, Expire, Renew, Takedown, Block, Delete, Publish, AdEvent, AdState
  <2> QED
    BY <1>0, <1>16, <1>w, <2>1 DEF Listing
<1>17. CASE Tick
  <2>1. spent' \in Seq(Term) /\ Len(spent') = Len(spent)
    <3> DEFINE next(i) == IF promos[i].status = "active" /\ spent[i].served < spent[i].term
                          THEN [spent[i] EXCEPT !.served = @ + 1] ELSE spent[i]
    <3>1. ASSUME NEW i \in 1..Len(promos) PROVE next(i) \in Term
      <4> DEFINE s == spent[i]
      <4>1. s \in Term
        BY RowTypes
      <4> HIDE DEF s
      <4>2. [s EXCEPT !.served = @ + 1] \in Term
        <5> DEFINE n == s.served + 1
        <5>1. n \in Nat
          BY <4>1
        <5> HIDE DEF n
        <5>2. [s EXCEPT !.served = n] \in Term
          BY <4>1, <5>1
        <5> QED
          BY <5>2 DEF n
      <4>3. next(i) \in {s, [s EXCEPT !.served = @ + 1]}
        BY DEF s
      <4> QED
        BY <4>1, <4>2, <4>3
    <3>2. spent' = [i \in 1..Len(promos) |-> next(i)]
      <4>1. DOMAIN promos = 1..Len(promos) /\ DOMAIN spent = 1..Len(promos)
        BY RowTypes
      <4> QED
        BY <1>17, <4>1 DEF Tick
    <3> HIDE DEF next
    <3>3. spent' \in [1..Len(promos) -> Term] /\ Len(promos) \in Nat
      BY <3>1, <3>2, RowTypes
    <3> HIDE DEF Term
    <3> QED
      BY <1>0, <3>3, FunctionIsSeq
  <2>2. now' \in 0..MaxTime
    BY <1>0, <1>17, PromotionAssumption DEF Tick
  <2> QED
    BY <1>0, <1>17, <1>w, <2>1, <2>2 DEF Tick
<1>18. CASE UNCHANGED promotionVars
  BY <1>0, <1>18, <1>w DEF promotionVars
<1> QED
  BY <1>1, <1>2, <1>3, <1>4, <1>5, <1>6, <1>7, <1>8, <1>9, <1>10, <1>11, <1>12, <1>13, <1>14,
     <1>15, <1>16, <1>17, <1>18 DEF PromotionsNext

-----------------------------------------------------------------------------
(* Paid time.                                                              *)

(* A step rewrites rows, appends some, lets a day go by, or does not touch *)
(* them.                                                                   *)
LEMMA RowsChange ==
  ASSUME PromotionsTypeOK, RowsAreKept, [PromotionsNext]_promotionVars
  PROVE  \/ UNCHANGED <<promos, spent, now>>
         \/ Rewritten /\ UNCHANGED <<spent, now>>
         \/ \E r \in Request : Activate(r)
         \/ Tick
<1> DEFINE Goal == \/ UNCHANGED <<promos, spent, now>>
                   \/ Rewritten /\ UNCHANGED <<spent, now>>
                   \/ \E r \in Request : Activate(r)
                   \/ Tick
<1>0. bus \subseteq AdEvent
  BY DEF PromotionsTypeOK
<1>1. ASSUME NEW u \in User, Topup(u) PROVE Goal
  BY <1>1 DEF Topup
<1>2. ASSUME NEW r \in Request, NEW ad \in Ad, NEW plan \in Plan, ReadAd(r, ad, plan) PROVE Goal
  BY <1>2 DEF ReadAd
<1>3. ASSUME NEW r \in Request, Debit(r) \/ ActivationFails(r) \/ Compensate(r) \/ Crash(r)
      PROVE  Goal
  BY <1>3 DEF Debit, ActivationFails, Compensate, Crash
<1>4. ASSUME NEW w \in Worker, NEW e \in bus, Suspend(w, e) PROVE Goal
  BY <1>0, <1>4, SuspendRows DEF Suspend, AdEvent
<1>5. ASSUME NEW w \in Worker, NEW e \in bus,
             ListToResume(w, e) \/ ListToRefund(w, e) \/ NothingToDo(w, e) \/ DeadLetter(w, e)
      PROVE  Goal
  BY <1>5 DEF ListToResume, ListToRefund, NothingToDo, DeadLetter
<1>6. ASSUME NEW w \in Worker, ResumePromotions(w) PROVE Goal
  BY <1>6, ListedTypes, ResumeRows DEF ResumePromotions
<1>7. ASSUME NEW w \in Worker, RefundPromotions(w) PROVE Goal
  BY <1>7, ListedTypes, RefundRows DEF RefundPromotions
<1>8. ASSUME NEW w \in Worker, GiveBack(w) PROVE Goal
  BY <1>8 DEF GiveBack
<1>9. ASSUME NEW ad \in Ad, Listing(ad) PROVE Goal
  BY <1>9 DEF Listing
<1>10. CASE UNCHANGED promotionVars
  BY <1>10 DEF promotionVars
<1> QED
  BY <1>1, <1>2, <1>3, <1>4, <1>5, <1>6, <1>7, <1>8, <1>9, <1>10 DEF PromotionsNext

(* Every step keeps the rows as a purchase, a suspension or a closing left *)
(* them.                                                                   *)
LEMMA KeptStep ==
  ASSUME PromotionsTypeOK, RowsAreKept, [PromotionsNext]_promotionVars
  PROVE  RowsAreKept'
<1>1. CASE UNCHANGED <<promos, spent, now>>
  BY <1>1 DEF RowsAreKept
<1>2. CASE Rewritten /\ UNCHANGED <<spent, now>>
  BY <1>2 DEF RowsAreKept, Rewritten
<1>3. ASSUME NEW r \in Request, Activate(r) PROVE RowsAreKept'
  <2> DEFINE ad   == saga[r].ad
             plan == saga[r].plan
             n    == Len(promos)
             m    == Len(plan.items)
  <2>1. ad \in Ad /\ plan \in Plan /\ ActivatePromotions(ad, plan) /\ now' = now
    BY <1>3, PurchaseTypes DEF Activate, SagaAt
  <2> HIDE DEF ad, plan
  <2>2. /\ m \in Nat \ {0} /\ DOMAIN promos' = 1..(n + m)
        /\ \A i \in DOMAIN promos : promos'[i] = promos[i] /\ spent'[i] = spent[i]
        /\ \A i \in 1..m : /\ promos'[n + i] = NewRows(ad, plan)[i]
                           /\ spent'[n + i] = NewSpent(plan)[i]
                           /\ RowIsKept(NewRows(ad, plan)[i], NewSpent(plan)[i], now)
    BY <2>1, ActivateRows
  <2>3. n \in Nat /\ DOMAIN promos = 1..n
    BY RowTypes
  <2>4. ASSUME NEW i \in DOMAIN promos' PROVE RowIsKept(promos'[i], spent'[i], now)
    <3>1. CASE i \in DOMAIN promos
      BY <2>2, <3>1 DEF RowsAreKept
    <3>2. CASE i \notin DOMAIN promos
      <4>1. i - n \in 1..m /\ i = n + (i - n)
        BY <2>2, <2>3, <3>2
      <4> QED
        BY <2>2, <4>1
    <3> QED
      BY <3>1, <3>2
  <2> QED
    BY <2>1, <2>4 DEF RowsAreKept
<1>4. CASE Tick
  <2>1. /\ promos' = promos /\ now' = now + 1 /\ now \in Nat
        /\ DOMAIN spent = DOMAIN promos
    BY <1>4, RowTypes DEF Tick, PromotionsTypeOK
  <2>2. ASSUME NEW i \in DOMAIN promos PROVE RowIsKept(promos[i], spent'[i], now + 1)
    <3>1. spent'[i] = IF promos[i].status = "active" /\ spent[i].served < spent[i].term
                      THEN [spent[i] EXCEPT !.served = @ + 1] ELSE spent[i]
      BY <1>4, <2>1 DEF Tick
    <3>2. promos[i] \in Promo /\ spent[i] \in Term /\ RowIsKept(promos[i], spent[i], now)
      BY RowTypes DEF RowsAreKept
    <3> QED
      BY <2>1, <3>1, <3>2, ServedIsKept
  <2> QED
    BY <2>1, <2>2 DEF RowsAreKept
<1> QED
  BY <1>1, <1>2, <1>3, <1>4, RowsChange

-----------------------------------------------------------------------------
(* Removed ads.                                                            *)

(* A step that opens no service, removes no ad, and takes no event of a    *)
(* removal from the bus.                                                   *)
LEMMA NothingOpens ==
  ASSUME RemovalsArePending, raced \subseteq raced', bus \subseteq bus',
         \A ad \in Ad : Removed(ad)' => Removed(ad),
         \A ad \in Ad : RowsOf(ad, Open) = {} => RowsOf(ad, Open)' = {}
  PROVE  RemovalsArePending'
  BY DEF RemovalsArePending

(* Taking an event from the bus is right if it is none of a removal, or if *)
(* no open service of its ad is left.                                      *)
LEMMA Acknowledged ==
  ASSUME RemovalsArePending, NEW e \in bus, bus' \in {bus, bus \ {e}}, raced \subseteq raced',
         \A ad \in Ad : Removed(ad)' => Removed(ad),
         \A ad \in Ad : RowsOf(ad, Open) = {} => RowsOf(ad, Open)' = {},
         e.kind \in {"blocked", "deleted"} => RowsOf(e.ad, Open)' = {} \/ e.ad \in raced'
  PROVE  RemovalsArePending'
<1> SUFFICES ASSUME NEW ad \in Ad, ad \notin raced', Removed(ad)', RowsOf(ad, Open)' # {}
             PROVE  \E d \in bus' : d.ad = ad /\ d.kind \in {"blocked", "deleted"}
  BY DEF RemovalsArePending
<1>1. PICK d \in bus : d.ad = ad /\ d.kind \in {"blocked", "deleted"}
  BY DEF RemovalsArePending
<1>2. d # e
  BY <1>1
<1> QED
  BY <1>1, <1>2

(* Rows that were not open do not open.                                    *)
LEMMA RewrittenOpensNone ==
  ASSUME Rewritten, \A i \in DOMAIN promos : promos'[i].status \in Open => promos[i].status \in Open,
         NEW ad \in Ad
  PROVE  RowsOf(ad, Open) = {} => RowsOf(ad, Open)' = {}
  BY DEF Rewritten, RowsOf

(* The removal of an ad with open rows stays on its way.                   *)
LEMMA PendingStep ==
  ASSUME PromotionsTypeOK, RowsAreKept, RemovalsArePending, [PromotionsNext]_promotionVars
  PROVE  RemovalsArePending'
<1>0. bus \subseteq AdEvent /\ adStatus \in [Ad -> AdState]
  BY DEF PromotionsTypeOK
<1> DEFINE Quiet == \A ad \in Ad : Removed(ad)' => Removed(ad)
           Shut  == \A ad \in Ad : RowsOf(ad, Open) = {} => RowsOf(ad, Open)' = {}
<1>a. UNCHANGED <<adStatus, takedown>> => Quiet
  BY DEF Removed
<1>b. UNCHANGED promos => Shut
  BY DEF RowsOf
<1>c. UNCHANGED <<promos, adStatus, takedown, bus, raced>> => RemovalsArePending'
  BY <1>a, <1>b, NothingOpens
<1> USE DEF listingVars, marks
<1>1. ASSUME NEW u \in User, Topup(u) PROVE RemovalsArePending'
  BY <1>1, <1>c DEF Topup
<1>2. ASSUME NEW r \in Request, NEW ad \in Ad, NEW plan \in Plan, ReadAd(r, ad, plan)
      PROVE  RemovalsArePending'
  BY <1>2, <1>c DEF ReadAd
<1>3. ASSUME NEW r \in Request, Debit(r) \/ ActivationFails(r) \/ Compensate(r) \/ Crash(r)
      PROVE  RemovalsArePending'
  BY <1>3, <1>c DEF Debit, ActivationFails, Compensate, Crash
<1>4. ASSUME NEW r \in Request, Activate(r) PROVE RemovalsArePending'
  <2>1. /\ saga[r].ad \in Ad /\ saga[r].plan \in Plan
        /\ ActivatePromotions(saga[r].ad, saga[r].plan)
    BY <1>4, PurchaseTypes DEF Activate, SagaAt
  <2>2. UNCHANGED <<adStatus, takedown, bus>> /\ raced \subseteq raced'
    BY <1>4 DEF Activate
  <2> SUFFICES ASSUME NEW ad \in Ad, ad \notin raced', Removed(ad)', RowsOf(ad, Open)' # {}
               PROVE  \E d \in bus : d.ad = ad /\ d.kind \in {"blocked", "deleted"}
    BY <2>2 DEF RemovalsArePending
  <2>3. Removed(ad) /\ ad \notin raced
    BY <2>2 DEF Removed
  <2>4. ad # saga[r].ad
    BY <1>4, <2>3 DEF Activate
  <2>5. RowsOf(ad, Open)' \subseteq RowsOf(ad, Open)
    <3> DEFINE n == Len(promos)
               m == Len(saga[r].plan.items)
    <3>1. /\ m \in Nat \ {0} /\ DOMAIN promos' = 1..(n + m)
          /\ \A i \in DOMAIN promos : promos'[i] = promos[i]
          /\ \A i \in 1..m : promos'[n + i] = NewRows(saga[r].ad, saga[r].plan)[i]
      BY <2>1, ActivateRows
    <3>2. n \in Nat /\ DOMAIN promos = 1..n
      BY RowTypes
    <3>3. \A i \in 1..m : NewRows(saga[r].ad, saga[r].plan)[i].ad = saga[r].ad
      <4>1. DOMAIN saga[r].plan.items = 1..m
        BY <2>1, PromotionAssumption, LenProperties
      <4> QED
        BY <4>1 DEF NewRows
    <3>4. ASSUME NEW i \in DOMAIN promos', i \notin DOMAIN promos PROVE promos'[i].ad = saga[r].ad
      <4>1. i - n \in 1..m /\ i = n + (i - n)
        BY <3>1, <3>2, <3>4
      <4> QED
        BY <3>1, <3>3, <4>1
    <3> QED
      BY <2>4, <3>1, <3>4 DEF RowsOf
  <2> QED
    BY <2>3, <2>5 DEF RemovalsArePending
<1>5. ASSUME NEW w \in Worker, NEW e \in bus, Suspend(w, e) PROVE RemovalsArePending'
  <2>1. /\ Rewritten
        /\ \A i \in DOMAIN promos :
             promos'[i].status = IF i \in RowsOf(e.ad, {"active"}) THEN "suspended"
                                                                   ELSE promos[i].status
    BY <1>0, <1>5, SuspendRows DEF Suspend, AdEvent
  <2>2. \A i \in DOMAIN promos : promos'[i].status \in Open => promos[i].status \in Open
    BY <2>1 DEF RowsOf, Open
  <2>3. Shut
    BY <2>1, <2>2, RewrittenOpensNone
  <2> HIDE DEF Shut, Quiet
  <2>4. Quiet /\ e.kind = "expired" /\ bus' \in {bus, bus \ {e}} /\ raced' = raced
    BY <1>5, <1>a DEF Suspend, Acknowledge
  <2> QED
    BY <2>3, <2>4, Acknowledged DEF Shut, Quiet
<1>6. ASSUME NEW w \in Worker, NEW e \in bus, ListToResume(w, e) \/ ListToRefund(w, e)
      PROVE  RemovalsArePending'
  BY <1>6, <1>c DEF ListToResume, ListToRefund
<1>7. ASSUME NEW w \in Worker, NEW e \in bus, NothingToDo(w, e) PROVE RemovalsArePending'
  <2>1. /\ UNCHANGED <<promos, adStatus, takedown, raced>> /\ bus' = bus \ {e}
        /\ e.kind \in {"blocked", "deleted"} => RowsOf(e.ad, Open) = {}
    BY <1>7 DEF NothingToDo
  <2>2. RowsOf(e.ad, Open)' = RowsOf(e.ad, Open)
    BY <2>1 DEF RowsOf
  <2> QED
    BY <1>a, <1>b, <2>1, <2>2, Acknowledged
<1>8. ASSUME NEW w \in Worker, NEW e \in bus, DeadLetter(w, e) PROVE RemovalsArePending'
  <2>1. /\ UNCHANGED <<promos, adStatus, takedown>> /\ bus' = bus \ {e} /\ raced \subseteq raced'
        /\ e.kind \in {"blocked", "deleted"} => e.ad \in raced'
    BY <1>8 DEF DeadLetter
  <2> QED
    BY <1>a, <1>b, <2>1, Acknowledged
<1>9. ASSUME NEW w \in Worker, ResumePromotions(w) PROVE RemovalsArePending'
  <2> DEFINE e == worker[w].event
  <2>0. e.ad \in Ad /\ e.kind = "updated"
    BY <1>9, ListedTypes DEF ResumePromotions
  <2>1. /\ Rewritten
        /\ \A i \in DOMAIN promos :
             promos'[i].status = IF i \in RowsOf(e.ad, {"suspended"}) THEN "active"
                                                                      ELSE promos[i].status
    BY <1>9, <2>0, ResumeRows DEF ResumePromotions
  <2>2. \A i \in DOMAIN promos : promos'[i].status \in Open => promos[i].status \in Open
    BY <2>1 DEF RowsOf, Open
  <2>3. Shut
    BY <2>1, <2>2, RewrittenOpensNone
  <2>4. bus' \in {bus, bus \ {e}} /\ UNCHANGED <<adStatus, takedown, raced>>
    BY <1>9 DEF ResumePromotions, Finish, Acknowledge
  <2>5. CASE e \in bus
    BY <1>a, <2>0, <2>3, <2>4, <2>5, Acknowledged
  <2>6. CASE e \notin bus
    <3>1. bus' = bus
      BY <2>4, <2>6
    <3> QED
      BY <1>a, <2>3, <2>4, <3>1, NothingOpens
  <2> QED
    BY <2>5, <2>6
<1>10. ASSUME NEW w \in Worker, RefundPromotions(w) PROVE RemovalsArePending'
  <2> PICK e \in AdEvent : e = worker[w].event
    BY <1>10, ListedTypes DEF RefundPromotions
  <2>0. e.ad \in Ad
    BY DEF AdEvent
  <2>1. /\ Rewritten
        /\ \A i \in DOMAIN promos :
             promos'[i].status = IF i \in RowsOf(e.ad, Open) THEN "refunded" ELSE promos[i].status
    BY <1>10, <2>0, RefundRows DEF RefundPromotions
  <2>2. \A i \in DOMAIN promos : promos'[i].status \in Open => promos[i].status \in Open
    BY <2>1 DEF RowsOf, Open
  <2>3. Shut
    BY <2>1, <2>2, RewrittenOpensNone
  <2>4. RowsOf(e.ad, Open)' = {}
    BY <2>1 DEF Rewritten, RowsOf, Open
  <2>5. bus' \in {bus, bus \ {e}} /\ UNCHANGED <<adStatus, takedown, raced>>
    BY <1>10 DEF RefundPromotions, Finish, Acknowledge
  <2>6. CASE e \in bus
    BY <1>a, <2>3, <2>4, <2>5, <2>6, Acknowledged
  <2>7. CASE e \notin bus
    <3>1. bus' = bus
      BY <2>5, <2>7
    <3> QED
      BY <1>a, <2>3, <2>5, <3>1, NothingOpens
  <2> QED
    BY <2>6, <2>7
<1>11. ASSUME NEW w \in Worker, GiveBack(w) PROVE RemovalsArePending'
  BY <1>11, <1>c DEF GiveBack
<1>12. ASSUME NEW ad \in Ad, Listing(ad) PROVE RemovalsArePending'
  <2>0. UNCHANGED <<promos, raced>>
    BY <1>12 DEF Listing
  <2>1. \A a \in Ad : RowsOf(a, Open)' = RowsOf(a, Open)
    BY <2>0 DEF RowsOf
  <2>2. CASE Expire(ad) \/ Renew(ad) \/ Block(ad)
    <3>1. Quiet
      BY <1>0, <2>2 DEF Expire, Renew, Block, Removed, AdState
    <3>2. bus \subseteq bus'
      BY <2>2 DEF Expire, Renew, Block, Publish
    <3> QED
      BY <1>b, <2>0, <3>1, <3>2, NothingOpens
  <2>3. CASE Takedown(ad) \/ Delete(ad)
    <3>1. PICK kind \in {"blocked", "deleted"} : bus' = bus \cup {[kind |-> kind, ad |-> ad]}
      BY <2>3 DEF Takedown, Delete, Publish
    <3>2. \A a \in Ad \ {ad} : Removed(a)' => Removed(a)
      BY <1>0, <2>3 DEF Takedown, Delete, Removed
    <3> SUFFICES ASSUME NEW a \in Ad \ raced, Removed(a)', RowsOf(a, Open)' # {}
                 PROVE  \E d \in bus' : d.ad = a /\ d.kind \in {"blocked", "deleted"}
      BY <2>0 DEF RemovalsArePending
    <3>3. CASE a = ad
      <4> DEFINE d == [kind |-> kind, ad |-> ad]
      <4>1. d \in bus' /\ d.ad = ad /\ d.kind = kind
        BY <3>1
      <4> QED
        BY <3>3, <4>1
    <3>4. CASE a # ad
      BY <2>1, <3>1, <3>2, <3>4 DEF RemovalsArePending
    <3> QED
      BY <3>3, <3>4
  <2> QED
    BY <1>12, <2>2, <2>3 DEF Listing
<1>13. CASE Tick
  BY <1>13, <1>c DEF Tick
<1>14. CASE UNCHANGED promotionVars
  BY <1>14, <1>c DEF promotionVars
<1> QED
  BY <1>1, <1>2, <1>3, <1>4, <1>5, <1>6, <1>7, <1>8, <1>9, <1>10, <1>11, <1>12, <1>13, <1>14 DEF PromotionsNext

-----------------------------------------------------------------------------
(* The invariant of the rows, and what follows from it.                    *)

(* There are no rows at first.                                             *)
LEMMA InitRows == PromotionsInit => Rows
<1> SUFFICES ASSUME PromotionsInit PROVE Rows
  OBVIOUS
<1>1. promos = <<>> /\ spent = <<>> /\ DOMAIN promos = {} /\ Len(promos) = 0 /\ Len(spent) = 0
  BY DEF PromotionsInit
<1>2. PromotionsTypeOK
  BY <1>1, PromotionAssumption DEF PromotionsInit, PromotionsTypeOK, WalletInit, WalletTypeOK, AdState
<1>3. RowsAreKept /\ RemovalsArePending
  BY <1>1 DEF RowsAreKept, RemovalsArePending, RowsOf
<1> QED
  BY <1>2, <1>3 DEF Rows

(* Every step keeps the invariant of the rows.                             *)
LEMMA RowsStep == Rows /\ [PromotionsNext]_promotionVars => Rows'
  BY TypesStep, KeptStep, PendingStep DEF Rows

(* The invariant of the rows of promotions (activate, lifecycle.go).       *)
THEOREM RowsHold == PromotionsSpec => []Rows
  BY InitRows, RowsStep, PTL DEF PromotionsSpec

(* Every table, request, event and clock has its type.                     *)
THEOREM PromotionTypes == PromotionsSpec => []PromotionsTypeOK
  BY RowsHold, PTL DEF Rows

(* What is left until the end of a row is what has not been served, for    *)
(* any order of expiries, renewals, duplicated, lost and late events.      *)
THEOREM PaidTimeIsConserved == PromotionsSpec => []PaidTimeConserved
<1>1. Rows => PaidTimeConserved
  <2> SUFFICES ASSUME Rows, NEW i \in DOMAIN promos,
                      promos[i].status \in Open, promos[i].ends # Never
               PROVE  Max({0, promos[i].ends - (IF promos[i].status = "suspended"
                                                THEN promos[i].suspendedAt ELSE now)})
                        = Unused(i)
    BY DEF PaidTimeConserved
  <2> DEFINE left == promos[i].ends - AsOf(promos[i], now)
  <2>1. /\ promos[i] \in Promo /\ spent[i] \in Term /\ now \in Nat
        /\ RowIsKept(promos[i], spent[i], now)
    BY RowTypes DEF Rows, RowsAreKept, PromotionsTypeOK
  <2>2. promos[i].ends \in Nat /\ AsOf(promos[i], now) \in Nat
    BY <2>1 DEF Promo, RowIsKept, AsOf
  <2>3. left \in Int /\ Unused(i) = IF left > 0 THEN left ELSE 0
    BY <2>1, <2>2 DEF RowIsKept, Unused
  <2>4. Max({0, left}) = IF 0 >= left THEN 0 ELSE left
    BY <2>3, MaxOfTwo
  <2>5. Max({0, left}) = Unused(i)
    BY <2>3, <2>4
  <2> QED
    BY <2>5 DEF AsOf
<1> QED
  BY <1>1, RowsHold, PTL

(* Once all is settled, a removed ad has no open service, unless it was    *)
(* bought during the removal or the removal was set aside.                 *)
THEOREM RemovedAdsAreClosed == PromotionsSpec => []RemovedAdHasNoService
<1>1. Rows => RemovedAdHasNoService
  BY DEF Rows, RemovalsArePending, RemovedAdHasNoService, Settled, Removed
<1> QED
  BY <1>1, RowsHold, PTL

-----------------------------------------------------------------------------
(* Announced ends.                                                         *)

(* The row for which a consumer is about to announce an end is still       *)
(* there, and would get that end now.                                      *)
TopsAreStill ==
  \A w \in Worker :
    worker[w] # Idle /\ worker[w].event.kind = "updated" /\ worker[w].top # Never =>
      \E i \in RowsOf(worker[w].event.ad, {"suspended"}) :
         /\ promos[i].service = "TOP" /\ promos[i].ends # Never
         /\ worker[w].top = AnnouncedEnd(promos[i])

(* With one consumer, what it has read of the rows stays true until it     *)
(* writes.                                                                 *)
LEMMA TopsStep ==
  ASSUME OneConsumer, PromotionsTypeOK, RowsAreKept, TopsAreStill, [PromotionsNext]_promotionVars
  PROVE  TopsAreStill'
<1>0. worker \in [Worker -> Listed \cup {Idle}] /\ bus \subseteq AdEvent
  BY DEF PromotionsTypeOK
<1>a. UNCHANGED <<promos, now, worker>> => TopsAreStill'
  BY DEF TopsAreStill, RowsOf, AnnouncedEnd
<1>b. ASSUME NEW w \in Worker, worker'[w] = Idle PROVE TopsAreStill'
  BY <1>b DEF TopsAreStill, OneConsumer
<1>1. ASSUME NEW u \in User, Topup(u) PROVE TopsAreStill'
  BY <1>1, <1>a DEF Topup
<1>2. ASSUME NEW r \in Request, NEW ad \in Ad, NEW plan \in Plan, ReadAd(r, ad, plan)
      PROVE  TopsAreStill'
  BY <1>2, <1>a DEF ReadAd
<1>3. ASSUME NEW r \in Request, Debit(r) \/ ActivationFails(r) \/ Compensate(r) \/ Crash(r)
      PROVE  TopsAreStill'
  BY <1>3, <1>a DEF Debit, ActivationFails, Compensate, Crash
<1>4. ASSUME NEW r \in Request, Activate(r) PROVE TopsAreStill'
  <2>1. /\ saga[r].ad \in Ad /\ saga[r].plan \in Plan /\ UNCHANGED <<worker, now>>
        /\ ActivatePromotions(saga[r].ad, saga[r].plan)
    BY <1>4, PurchaseTypes DEF Activate, SagaAt
  <2>2. /\ DOMAIN promos \subseteq DOMAIN promos'
        /\ \A i \in DOMAIN promos : promos'[i] = promos[i]
    BY <2>1, ActivateRows, RowTypes
  <2> QED
    BY <2>1, <2>2 DEF TopsAreStill, RowsOf, AnnouncedEnd
<1>5. ASSUME NEW w \in Worker, NEW e \in bus, Suspend(w, e) PROVE TopsAreStill'
  <2>1. worker'[w] = Idle
    BY <1>5 DEF Suspend
  <2> QED
    BY <1>b, <2>1
<1>6. ASSUME NEW w \in Worker, NEW e \in bus, ListToResume(w, e) PROVE TopsAreStill'
  <2> PICK top \in Nat \cup {Never} :
         /\ worker' = [worker EXCEPT ![w] = [event |-> e, amount |-> 0, top |-> top]]
         /\ top # Never =>
              \E i \in RowsOf(e.ad, {"suspended"}) :
                 /\ promos[i].service = "TOP" /\ promos[i].ends # Never
                 /\ top = AnnouncedEnd(promos[i])
    BY <1>6, ResumeTop
  <2>1. worker'[w].event = e /\ worker'[w].top = top
    BY <1>0
  <2>2. UNCHANGED <<promos, now>>
    BY <1>6 DEF ListToResume
  <2> QED
    BY <2>1, <2>2 DEF TopsAreStill, OneConsumer, RowsOf, AnnouncedEnd
<1>7. ASSUME NEW w \in Worker, NEW e \in bus, ListToRefund(w, e) PROVE TopsAreStill'
  <2>1. worker'[w].top = Never
    BY <1>0, <1>7 DEF ListToRefund
  <2> QED
    BY <2>1 DEF TopsAreStill, OneConsumer
<1>8. ASSUME NEW w \in Worker, NEW e \in bus, NothingToDo(w, e) \/ DeadLetter(w, e)
      PROVE  TopsAreStill'
  <2>1. worker'[w] = Idle
    BY <1>8 DEF NothingToDo, DeadLetter
  <2> QED
    BY <1>b, <2>1
<1>9. ASSUME NEW w \in Worker, ResumePromotions(w) \/ RefundPromotions(w) \/ GiveBack(w)
      PROVE  TopsAreStill'
  <2>1. worker'[w] = Idle
    BY <1>0, <1>9 DEF ResumePromotions, RefundPromotions, GiveBack, Finish
  <2> QED
    BY <1>b, <2>1
<1>10. ASSUME NEW ad \in Ad, Listing(ad) PROVE TopsAreStill'
  BY <1>10, <1>a DEF Listing
<1>11. CASE Tick
  BY <1>11 DEF Tick, TopsAreStill
<1>12. CASE UNCHANGED promotionVars
  BY <1>12, <1>a DEF promotionVars
<1> QED
  BY <1>1, <1>2, <1>3, <1>4, <1>5, <1>6, <1>7, <1>8, <1>9, <1>10, <1>11, <1>12 DEF PromotionsNext

(* An event that announces an end is sent in the step that gives a TOP     *)
(* that end: a purchase, or a resumption.                                  *)
Announced ==
  \A e \in outbox' \ outbox :
    e.subject = "promotion.activated" /\ e.value # Never =>
      \E i \in DOMAIN promos' : /\ promos'[i].ad = e.ad
                                /\ promos'[i].service = "TOP"
                                /\ promos'[i].status = "active"
                                /\ promos'[i].ends = e.value

(* An end that a step announces is that of a row.                          *)
LEMMA AnnouncedStep ==
  ASSUME PromotionsTypeOK, RowsAreKept, TopsAreStill, PromotionsNext
  PROVE  Announced
<1>0. bus \subseteq AdEvent /\ outbox \subseteq OutEvent
  BY DEF PromotionsTypeOK
<1>a. UNCHANGED outbox => Announced
  BY DEF Announced
<1>b. ASSUME NEW ad, NEW value, Enqueue("wallet.refunded", ad, value) PROVE Announced
  BY <1>b DEF Enqueue, Announced
<1>1. ASSUME NEW u \in User, Topup(u) PROVE Announced
  BY <1>1, <1>a DEF Topup
<1>2. ASSUME NEW r \in Request, NEW ad \in Ad, NEW plan \in Plan, ReadAd(r, ad, plan)
      PROVE  Announced
  BY <1>2, <1>a DEF ReadAd
<1>3. ASSUME NEW r \in Request, Debit(r) \/ ActivationFails(r) \/ Compensate(r) \/ Crash(r)
      PROVE  Announced
  BY <1>3, <1>a, <1>b DEF Debit, ActivationFails, Compensate, Crash
<1>4. ASSUME NEW r \in Request, Activate(r) PROVE Announced
  <2> DEFINE ad   == saga[r].ad
             plan == saga[r].plan
             n    == Len(promos)
             m    == Len(plan.items)
  <2>1. /\ ad \in Ad /\ plan \in Plan /\ ActivatePromotions(ad, plan)
        /\ outbox' = outbox \cup {[subject |-> "promotion.activated", ad |-> ad,
                                   value |-> TopEnd(plan)]}
    BY <1>4, PurchaseTypes DEF Activate, SagaAt, ActivatePromotions, Enqueue
  <2> HIDE DEF ad, plan
  <2> SUFFICES ASSUME TopEnd(plan) # Never
               PROVE  \E i \in DOMAIN promos' : /\ promos'[i].ad = ad
                                                /\ promos'[i].service = "TOP"
                                                /\ promos'[i].status = "active"
                                                /\ promos'[i].ends = TopEnd(plan)
    BY <2>1 DEF Announced
  <2>2. PICK i \in DOMAIN plan.items :
               plan.items[i].service = "TOP" /\ TopEnd(plan) = EndsAt(plan.items[i])
    BY <2>1, TopEndIs
  <2>3. DOMAIN plan.items = 1..m /\ m \in Nat
    BY <2>1, PromotionAssumption, LenProperties
  <2>4. /\ DOMAIN promos' = 1..(n + m)
        /\ \A j \in 1..m : promos'[n + j] = NewRows(ad, plan)[j]
    BY <2>1, ActivateRows
  <2>5. n \in Nat
    BY RowTypes
  <2>6. n + i \in DOMAIN promos' /\ promos'[n + i] = NewRows(ad, plan)[i]
    BY <2>3, <2>4, <2>5
  <2>7. /\ NewRows(ad, plan)[i].ad = ad
        /\ NewRows(ad, plan)[i].service = "TOP"
        /\ NewRows(ad, plan)[i].status = "active"
        /\ NewRows(ad, plan)[i].ends = TopEnd(plan)
    BY <2>2 DEF NewRows
  <2> QED
    BY <2>6, <2>7
<1>5. ASSUME NEW w \in Worker, NEW e \in bus, Suspend(w, e) PROVE Announced
  BY <1>5, <1>a DEF Suspend
<1>6. ASSUME NEW w \in Worker, NEW e \in bus,
             ListToResume(w, e) \/ ListToRefund(w, e) \/ NothingToDo(w, e) \/ DeadLetter(w, e)
      PROVE  Announced
  BY <1>6, <1>a DEF ListToResume, ListToRefund, NothingToDo, DeadLetter
<1>7. ASSUME NEW w \in Worker, ResumePromotions(w) PROVE Announced
  <2> PICK ad \in Ad, top \in Nat \cup {Never} : ad = worker[w].event.ad /\ top = worker[w].top
    BY <1>7, ListedTypes DEF ResumePromotions
  <2>1. \/ UNCHANGED outbox
        \/ /\ top # Never
           /\ outbox' = outbox \cup {[subject |-> "promotion.activated", ad |-> ad, value |-> top]}
    BY <1>7 DEF ResumePromotions, Enqueue
  <2>2. CASE top # Never
    <3> PICK i \in RowsOf(ad, {"suspended"}) : /\ promos[i].service = "TOP" /\ promos[i].ends # Never
                                               /\ top = AnnouncedEnd(promos[i])
      BY <1>7, <2>2 DEF TopsAreStill, ResumePromotions
    <3>1. promos'[i] = Resumed(promos[i]) /\ DOMAIN promos' = DOMAIN promos
      BY <1>7, ResumeRows DEF ResumePromotions, Rewritten
    <3>2. i \in DOMAIN promos /\ promos[i].status = "suspended" /\ promos[i].ad = ad
      BY DEF RowsOf
    <3>3. /\ promos[i] \in Promo /\ spent[i] \in Term /\ now \in Nat
          /\ RowIsKept(promos[i], spent[i], now)
      BY <3>2, RowTypes DEF RowsAreKept, PromotionsTypeOK
    <3>4. /\ promos'[i].ad = ad /\ promos'[i].service = "TOP"
          /\ promos'[i].status = "active" /\ promos'[i].ends = top
      BY <3>1, <3>2, <3>3, ResumedIsKept
    <3> QED
      BY <1>a, <2>1, <3>1, <3>2, <3>4 DEF Announced
  <2> QED
    BY <1>a, <2>1, <2>2
<1>8. ASSUME NEW w \in Worker, RefundPromotions(w) PROVE Announced
  BY <1>8, <1>a, <1>b DEF RefundPromotions
<1>9. ASSUME NEW w \in Worker, GiveBack(w) PROVE Announced
  BY <1>9, <1>a DEF GiveBack
<1>10. ASSUME NEW ad \in Ad, Listing(ad) PROVE Announced
  BY <1>10, <1>a DEF Listing
<1>11. CASE Tick
  BY <1>11, <1>a DEF Tick
<1> QED
  BY <1>1, <1>2, <1>3, <1>4, <1>5, <1>6, <1>7, <1>8, <1>9, <1>10, <1>11 DEF PromotionsNext

(* With one consumer, the end that Listing and Search are told of is that  *)
(* of an active TOP of the ad, however requests and events interleave.     *)
THEOREM AnnouncedEndsAreReal == OneConsumer => (PromotionsSpec => AnnouncedTopIsReal)
<1> SUFFICES ASSUME OneConsumer PROVE PromotionsSpec => AnnouncedTopIsReal
  OBVIOUS
<1>1. PromotionsInit => TopsAreStill
  BY DEF PromotionsInit, TopsAreStill
<1>2. Rows /\ TopsAreStill /\ [PromotionsNext]_promotionVars => TopsAreStill'
  BY TopsStep DEF Rows
<1>3. Rows /\ TopsAreStill /\ [PromotionsNext]_promotionVars => [Announced]_promotionVars
  BY AnnouncedStep DEF Rows
<1> QED
  BY RowsHold, <1>1, <1>2, <1>3, PTL DEF PromotionsSpec, AnnouncedTopIsReal, Announced

-----------------------------------------------------------------------------
(* Sums.                                                                   *)

(* The ledger of an ad grows by the operations that refer to it.           *)
LEMMA OpSumGrows ==
  ASSUME ledger \in Seq(Operation), NEW op \in Operation, ledger' = Append(ledger, op),
         NEW ad, NEW kind
  PROVE  /\ OpSum(ad, kind) \in Nat
         /\ OpSum(ad, kind)' = OpSum(ad, kind) +
              (IF op.ref = ad /\ op.kind = kind THEN op.amount ELSE 0)
<1> DEFINE D      == DOMAIN ledger
           k      == Len(ledger) + 1
           before == OpAmounts(ad, kind)
           after  == OpAmounts(ad, kind)'
           value  == IF op.ref = ad /\ op.kind = kind THEN op.amount ELSE 0
<1>1. D = 1..Len(ledger) /\ Len(ledger) \in Nat /\ \A i \in D : ledger[i] \in Operation
  BY ElementOfSeq, LenProperties
<1>2. /\ DOMAIN ledger' = D \cup {k} /\ ledger'[k] = op
      /\ \A i \in D : ledger'[i] = ledger[i]
  BY <1>1, AppendProperties, LenProperties
<1>3. k \notin D /\ IsFiniteSet(D)
  BY <1>1, FS_Interval
<1>4. \A i \in D : before[i] \in Nat /\ before[i] \in Int /\ after[i] = before[i]
  BY <1>1, <1>2 DEF OpAmounts, Operation
<1>5. after[k] = value /\ value \in Int
  BY <1>2 DEF OpAmounts, Operation
<1> HIDE DEF D, k, before, after, value
<1>6. SumFunctionOnSet(before, D) \in Nat
  BY <1>3, <1>4, SumType
<1>7. SumFunctionOnSet(after, D) = SumFunctionOnSet(before, D)
  BY <1>3, <1>4, SumOfSame
<1>8. SumFunctionOnSet(after, D \cup {k}) = after[k] + SumFunctionOnSet(after, D)
  BY <1>3, <1>4, <1>5, SumWith
<1>9. SumFunctionOnSet(after, D \cup {k}) = SumFunctionOnSet(before, D) + value
  BY <1>5, <1>6, <1>7, <1>8
<1>10. /\ OpSum(ad, kind) = SumFunctionOnSet(before, D)
       /\ OpSum(ad, kind)' = SumFunctionOnSet(after, D \cup {k})
  BY <1>2 DEF OpSum, before, after, D
<1> QED
  BY <1>6, <1>9, <1>10 DEF value

(* The entries of one kind sum up to an amount.                            *)
LEMMA OpSumType ==
  ASSUME PromotionsTypeOK, NEW ad, NEW kind
  PROVE  OpSum(ad, kind) \in Nat
<1>1. IsFiniteSet(DOMAIN ledger) /\ \A i \in DOMAIN ledger : ledger[i] \in Operation
  BY ElementOfSeq, LenProperties, FS_Interval DEF PromotionsTypeOK, WalletTypeOK
<1>2. \A i \in DOMAIN ledger : OpAmounts(ad, kind)[i] \in Nat
  BY <1>1 DEF OpAmounts, Operation
<1> QED
  BY <1>1, <1>2, SumType DEF OpSum

(* The purchases of an ad that are at given stages.                        *)
LEMMA SagaSumType ==
  ASSUME PromotionsTypeOK, IsFiniteSet(Started), NEW ad, NEW stages
  PROVE  SagaSum(ad, stages) \in Nat
<1>1. \A r \in Started : saga[r].plan.amount \in Nat
  BY PurchaseTypes DEF Started
<1>2. \A r \in Started : SagaAmounts(ad, stages)[r] \in Nat
  BY <1>1 DEF SagaAmounts
<1> QED
  BY <1>2, SumType DEF SagaSum

(* A purchase that goes to another stage takes its price along.            *)
LEMMA SagaMoves ==
  ASSUME PromotionsTypeOK, IsFiniteSet(Started), NEW r \in Request, NEW old \in Stage, NEW new \in Stage,
         SagaAt(r, old), GoTo(r, new), NEW ad, NEW stages
  PROVE  /\ SagaSum(ad, stages)' = SagaSum(ad, stages)
              + ((IF saga[r].ad = ad /\ new \in stages THEN saga[r].plan.amount ELSE 0)
                 - (IF saga[r].ad = ad /\ old \in stages THEN saga[r].plan.amount ELSE 0))
         /\ Started' = Started
         /\ \A q \in Started : saga'[q].ad = saga[q].ad
<1> DEFINE before == SagaAmounts(ad, stages)
           after  == SagaAmounts(ad, stages)'
<1>1. saga[r] \in Purchase /\ saga[r].plan.amount \in Nat /\ saga[r].at = old /\ r \in Started
  BY PurchaseTypes DEF SagaAt, Started
<1>2. saga' = [saga EXCEPT ![r] = [saga[r] EXCEPT !.at = new]] /\ r \in DOMAIN saga
  BY DEF GoTo, PromotionsTypeOK
<1>3. /\ [saga[r] EXCEPT !.at = new] \in Purchase
      /\ [saga[r] EXCEPT !.at = new].at = new
      /\ [saga[r] EXCEPT !.at = new].ad = saga[r].ad
      /\ [saga[r] EXCEPT !.at = new].plan = saga[r].plan
  BY <1>1 DEF Purchase
<1>4. /\ saga'[r] \in Purchase /\ saga'[r].at = new
      /\ saga'[r].ad = saga[r].ad /\ saga'[r].plan = saga[r].plan
      /\ \A q \in Request \ {r} : saga'[q] = saga[q]
  BY <1>2, <1>3 DEF PromotionsTypeOK
<1>5. Started' = Started
  BY <1>1, <1>4, PromotionAssumption DEF Started
<1>6. \A q \in Started : saga[q].plan.amount \in Nat
  BY PurchaseTypes DEF Started
<1>7. \A q \in Started : before[q] \in Int /\ after[q] \in Int
  <2>1. \A q \in Started : saga'[q].plan.amount \in Nat
    BY <1>1, <1>4, <1>6 DEF Started
  <2> QED
    BY <1>5, <1>6, <2>1 DEF SagaAmounts
<1>8. \A q \in Started \ {r} : after[q] = before[q]
  BY <1>4, <1>5 DEF SagaAmounts, Started
<1>9. /\ before[r] = IF saga[r].ad = ad /\ old \in stages THEN saga[r].plan.amount ELSE 0
      /\ after[r] = IF saga[r].ad = ad /\ new \in stages THEN saga[r].plan.amount ELSE 0
  BY <1>1, <1>4, <1>5 DEF SagaAmounts
<1> HIDE DEF before, after
<1>10. SumFunctionOnSet(after, Started) = SumFunctionOnSet(before, Started) + (after[r] - before[r])
  BY <1>1, <1>7, <1>8, SumWithChange
<1>11. SagaSum(ad, stages)' = SumFunctionOnSet(after, Started)
       /\ SagaSum(ad, stages) = SumFunctionOnSet(before, Started)
  BY <1>5 DEF SagaSum, before, after
<1>12. \A q \in Started : saga'[q].ad = saga[q].ad
  BY <1>4 DEF Started
<1> QED
  BY <1>5, <1>9, <1>10, <1>11, <1>12

(* A new purchase has taken nothing yet.                                   *)
LEMMA SagaStarts ==
  ASSUME PromotionsTypeOK, IsFiniteSet(Started), NEW r \in Request, NEW ad \in Ad, NEW plan \in Plan,
         ReadAd(r, ad, plan)
  PROVE  /\ IsFiniteSet(Started') /\ Started \subseteq Started'
         /\ \A q \in Started : saga'[q] = saga[q]
         /\ \A a, stages : "debit" \notin stages => SagaSum(a, stages)' = SagaSum(a, stages)
<1> DEFINE new == [at |-> "debit", ad |-> ad, plan |-> plan]
<1>1. new \in Purchase /\ new # None /\ new.at = "debit" /\ saga[r] = None
  BY PromotionAssumption DEF Purchase, Stage, ReadAd
<1>2. saga'[r] = new /\ \A q \in Request \ {r} : saga'[q] = saga[q]
  BY DEF ReadAd, PromotionsTypeOK
<1> HIDE DEF new
<1>3. Started' = Started \cup {r} /\ r \notin Started
  BY <1>1, <1>2 DEF Started
<1>4. IsFiniteSet(Started')
  BY <1>3, FS_AddElement
<1>5. \A q \in Started : saga'[q] = saga[q]
  BY <1>2, <1>3 DEF Started
<1>6. ASSUME NEW a, NEW stages, "debit" \notin stages
      PROVE  SagaSum(a, stages)' = SagaSum(a, stages)
  <2> DEFINE before == SagaAmounts(a, stages)
             after  == SagaAmounts(a, stages)'
  <2>1. \A q \in Started : saga[q].plan.amount \in Nat
    BY PurchaseTypes DEF Started
  <2>2. \A q \in Started : before[q] \in Int /\ after[q] = before[q]
    BY <1>3, <1>5, <2>1 DEF SagaAmounts
  <2>3. after[r] = 0
    BY <1>1, <1>2, <1>3, <1>6 DEF SagaAmounts
  <2> HIDE DEF before, after
  <2>4. SumFunctionOnSet(after, Started \cup {r}) = after[r] + SumFunctionOnSet(after, Started)
    <3>1. \A q \in Started \cup {r} : after[q] \in Int
      BY <2>2, <2>3
    <3> QED
      BY <1>3, <3>1, SumWith
  <2>5. /\ SumFunctionOnSet(after, Started) = SumFunctionOnSet(before, Started)
        /\ SumFunctionOnSet(before, Started) \in Int
    BY <2>2, SumOfSame, SumType
  <2>6. SumFunctionOnSet(after, Started \cup {r}) = SumFunctionOnSet(before, Started)
    BY <2>3, <2>4, <2>5
  <2>7. SagaSum(a, stages)' = SumFunctionOnSet(after, Started \cup {r})
        /\ SagaSum(a, stages) = SumFunctionOnSet(before, Started)
    BY <1>3 DEF SagaSum, before, after
  <2> QED
    BY <2>6, <2>7
<1> QED
  BY <1>3, <1>4, <1>5, <1>6

-----------------------------------------------------------------------------
(* Sums of rows.                                                           *)

(* There are finitely many rows.                                           *)
LEMMA RowsAreFinite ==
  ASSUME PromotionsTypeOK
  PROVE  IsFiniteSet(DOMAIN promos)
  BY RowTypes, FS_Interval

(* The prices of rows sum up to an amount.                                 *)
LEMMA RowSumType ==
  ASSUME PromotionsTypeOK, NEW ad, NEW statuses
  PROVE  RowSum(ad, statuses) \in Nat
<1>1. \A i \in DOMAIN promos : promos[i].amount \in Nat
  BY RowTypes DEF Promo
<1>2. \A i \in DOMAIN promos : RowAmounts(ad, statuses)[i] \in Nat
  BY <1>1 DEF RowAmounts
<1> QED
  BY <1>2, RowsAreFinite, SumType DEF RowSum

(* Rows that change status take their price along.                         *)
LEMMA RowSumMoves ==
  ASSUME PromotionsTypeOK, Rewritten, NEW ad, NEW old, NEW new,
         \A i \in DOMAIN promos :
           promos[i].ad = ad => (promos'[i].status \in new <=> promos[i].status \in old)
  PROVE  RowSum(ad, new)' = RowSum(ad, old)
<1> DEFINE before == RowAmounts(ad, old)
           after  == RowAmounts(ad, new)'
<1>1. DOMAIN promos' = DOMAIN promos
  BY DEF Rewritten
<1>2. \A i \in DOMAIN promos : after[i] = before[i]
  BY <1>1 DEF Rewritten, RowAmounts, RowsOf
<1> HIDE DEF before, after
<1>3. SumFunctionOnSet(after, DOMAIN promos) = SumFunctionOnSet(before, DOMAIN promos)
  BY <1>2, RowsAreFinite, SumOfSame
<1>4. RowSum(ad, new)' = SumFunctionOnSet(after, DOMAIN promos)
  BY <1>1 DEF RowSum, after
<1>5. RowSum(ad, old) = SumFunctionOnSet(before, DOMAIN promos)
  BY DEF RowSum, before
<1> QED
  BY <1>3, <1>4, <1>5

(* The rows of different statuses add up.                                  *)
LEMMA RowSumSplits ==
  ASSUME PromotionsTypeOK, NEW ad, NEW some, NEW others, some \cap others = {}
  PROVE  RowSum(ad, some \cup others) = RowSum(ad, some) + RowSum(ad, others)
<1> DEFINE f == RowAmounts(ad, some)
           g == RowAmounts(ad, others)
           h == RowAmounts(ad, some \cup others)
<1>1. \A i \in DOMAIN promos : promos[i].amount \in Nat
  BY RowTypes DEF Promo
<1>2. \A i \in DOMAIN promos : f[i] \in Int /\ g[i] \in Int /\ h[i] = f[i] + g[i]
  BY <1>1 DEF RowAmounts, RowsOf
<1> HIDE DEF f, g, h
<1>3. SumFunctionOnSet(h, DOMAIN promos) =
        SumFunctionOnSet(f, DOMAIN promos) + SumFunctionOnSet(g, DOMAIN promos)
  BY <1>2, RowsAreFinite, SumPlus
<1> QED
  BY <1>3 DEF RowSum, f, g, h

(* A purchase puts its whole price on the rows of its ad, once.            *)
LEMMA RowSumGrows ==
  ASSUME PromotionsTypeOK, NEW ad \in Ad, NEW plan \in Plan, ActivatePromotions(ad, plan),
         NEW a, NEW statuses
  PROVE  RowSum(a, statuses)' = RowSum(a, statuses) +
           (IF a = ad /\ "active" \in statuses THEN plan.amount ELSE 0)
<1> DEFINE n      == Len(promos)
           m      == Len(plan.items)
           D      == 1..n
           E      == (n + 1)..(n + m)
           first  == n + 1
           before == RowAmounts(a, statuses)
           after  == RowAmounts(a, statuses)'
           value  == IF a = ad /\ "active" \in statuses THEN plan.amount ELSE 0
<1>1. /\ n \in Nat /\ DOMAIN promos = D
      /\ \A i \in D : promos[i].amount \in Nat
  BY RowTypes DEF Promo
<1>2. /\ m \in Nat \ {0} /\ DOMAIN promos' = 1..(n + m)
      /\ \A i \in D : promos'[i] = promos[i]
      /\ \A i \in 1..m : promos'[n + i] = NewRows(ad, plan)[i]
  BY <1>1, ActivateRows
<1>3. DOMAIN plan.items = 1..m /\ plan.amount \in Nat
  BY PromotionAssumption, LenProperties
<1>4. ASSUME NEW i \in 1..m
      PROVE  /\ promos'[n + i].ad = ad /\ promos'[n + i].status = "active"
             /\ promos'[n + i].amount = IF i = 1 THEN plan.amount ELSE 0
  <2>1. promos'[n + i] = NewRows(ad, plan)[i]
    BY <1>2
  <2>2. i \in DOMAIN plan.items
    BY <1>3
  <2> QED
    BY <2>1, <2>2 DEF NewRows
<1>5. ASSUME NEW i \in E
      PROVE  /\ promos'[i].ad = ad /\ promos'[i].status = "active"
             /\ promos'[i].amount = IF i = first THEN plan.amount ELSE 0
  <2>1. i - n \in 1..m /\ i = n + (i - n) /\ (i - n = 1 <=> i = first)
    BY <1>1, <1>2
  <2> QED
    BY <1>4, <2>1
<1>6. DOMAIN promos' = D \cup E /\ D \cap E = {} /\ first \in E
  BY <1>1, <1>2
<1>7. IsFiniteSet(D) /\ IsFiniteSet(E)
  BY <1>1, <1>2, FS_Interval
<1>8. \A i \in D : before[i] \in Int /\ after[i] = before[i] /\ after[i] \in Int
  BY <1>1, <1>2, <1>6 DEF RowAmounts, RowsOf
<1>9. after[first] = value /\ value \in Int
  BY <1>3, <1>5, <1>6 DEF RowAmounts, RowsOf
<1>10. \A i \in E \ {first} : after[i] = 0
  BY <1>5, <1>6 DEF RowAmounts, RowsOf
<1>11. /\ RowSum(a, statuses)' = SumFunctionOnSet(after, D \cup E)
       /\ RowSum(a, statuses) = SumFunctionOnSet(before, D)
  BY <1>1, <1>6 DEF RowSum
<1>12. RowSum(a, statuses) \in Nat
  BY RowSumType
<1> HIDE DEF D, E, first, before, after, value, n, m
<1>13. \A i \in D \cup E : after[i] \in Int
  BY <1>8, <1>9, <1>10
<1>14. SumFunctionOnSet(after, D \cup E) = SumFunctionOnSet(after, D) + SumFunctionOnSet(after, E)
  BY <1>6, <1>7, <1>13, SumOfUnion
<1>15. SumFunctionOnSet(after, D) = SumFunctionOnSet(before, D)
  BY <1>7, <1>8, SumOfSame
<1>16. SumFunctionOnSet(after, E) = value
  <2>1. IsFiniteSet(E \ {first})
    BY <1>7, FS_Subset
  <2>2. SumFunctionOnSet(after, E \ {first}) = 0
    BY <1>10, <2>1, SumOfZeros
  <2>3. SumFunctionOnSet(after, E) = after[first] + SumFunctionOnSet(after, E \ {first})
    BY <1>6, <1>7, <1>13, SumWithout
  <2> QED
    BY <1>9, <2>2, <2>3
<1>17. RowSum(a, statuses)' = RowSum(a, statuses) + value
  BY <1>9, <1>11, <1>12, <1>14, <1>15, <1>16
<1> QED
  BY <1>17 DEF value

(* What the open rows of an ad give back is covered by their price.        *)
LEMMA DueIsCovered ==
  ASSUME PromotionsTypeOK, RowsAreKept, NEW ad
  PROVE  AmountDue(RowsOf(ad, Open)) <= RowSum(ad, Open)
<1> DEFINE rows == RowsOf(ad, Open)
           due  == [i \in DOMAIN promos |-> IF i \in rows THEN RefundAmount(promos[i]) ELSE 0]
           paid == RowAmounts(ad, Open)
<1>1. \A i \in DOMAIN promos : /\ promos[i].amount \in Nat
                               /\ RefundAmount(promos[i]) \in Nat
                               /\ RefundAmount(promos[i]) <= promos[i].amount
  <2> SUFFICES ASSUME NEW i \in DOMAIN promos
               PROVE  /\ promos[i].amount \in Nat
                      /\ RefundAmount(promos[i]) \in Nat
                      /\ RefundAmount(promos[i]) <= promos[i].amount
    OBVIOUS
  <2>1. promos[i] \in Promo /\ promos[i].amount \in Nat
    BY RowTypes DEF Promo
  <2>2. now \in Nat /\ (promos[i].status = "suspended" => promos[i].suspendedAt \in Nat)
    BY DEF RowsAreKept, RowIsKept, PromotionsTypeOK
  <2> QED
    BY <2>1, <2>2, RefundIsBounded
<1>2. \A i \in DOMAIN promos : due[i] \in Int /\ paid[i] \in Int /\ due[i] <= paid[i]
  BY <1>1 DEF RowAmounts
<1>3. AmountDue(rows) = SumFunctionOnSet(due, DOMAIN promos)
  BY DEF AmountDue
<1> HIDE DEF rows, due, paid
<1>4. SumFunctionOnSet(due, DOMAIN promos) <= SumFunctionOnSet(paid, DOMAIN promos)
  BY <1>2, RowsAreFinite, SumMonotone
<1> QED
  BY <1>3, <1>4 DEF rows, paid, RowSum

-----------------------------------------------------------------------------
(* Money.                                                                  *)

(* What was taken for an ad and given back, and what its rows and its      *)
(* purchases stand for.                                                    *)
Taken(ad)     == OpSum(ad, "purchase")
Given(ad)     == OpSum(ad, "refund")
Sold(ad)      == RowSum(ad, PromoStatus)
ToActivate(ad)  == SagaSum(ad, {"activate"})
Unserved(ad)    == SagaSum(ad, {"activate", "refund", "failed"})
Unaccounted(ad) == SagaSum(ad, {"activate", "refund", "failed", "lost"})
Failed(ad)      == SagaSum(ad, {"failed"})

Unhurt(ad) == \A r \in hurt : saga[r].ad # ad

(* The price of a purchase, if it is one of the ad.                        *)
Price(r, ad) == IF saga[r].ad = ad THEN saga[r].plan.amount ELSE 0

(* What is still to be activated has been taken too: that is what makes    *)
(* PurchasesAreBacked last when it is activated.                           *)
BooksAgree(ad) ==
  /\ Sold(ad) + ToActivate(ad) <= Taken(ad)
  /\ Taken(ad) <= Sold(ad) + Unaccounted(ad)
  /\ Unhurt(ad) => Taken(ad) = Sold(ad) + Unserved(ad) /\ Failed(ad) <= Given(ad)

Money == /\ IsFiniteSet(Started) /\ hurt \subseteq Started
         /\ \A ad \in Ad : BooksAgree(ad)

(* The items of the account of an ad are amounts.                          *)
LEMMA BookTypes ==
  ASSUME PromotionsTypeOK, IsFiniteSet(Started), NEW ad
  PROVE  /\ Taken(ad) \in Nat /\ Given(ad) \in Nat /\ Sold(ad) \in Nat
         /\ ToActivate(ad) \in Nat /\ Unserved(ad) \in Nat
         /\ Unaccounted(ad) \in Nat /\ Failed(ad) \in Nat
  BY OpSumType, RowSumType, SagaSumType
     DEF Taken, Given, Sold, ToActivate, Unserved, Unaccounted, Failed

(* A credit or a debit is seen in the sums of its kind and its ad.         *)
LEMMA LedgerMoves ==
  ASSUME PromotionsTypeOK, NEW u \in User, NEW n \in Nat \ {0}, NEW kind \in Kind, NEW ref \in Reference,
         CreditTx(u, n, kind, ref) \/ DebitTx(u, n, kind, ref), NEW ad
  PROVE  /\ Taken(ad)' = Taken(ad) + (IF ref = ad /\ kind = "purchase" THEN n ELSE 0)
         /\ Given(ad)' = Given(ad) + (IF ref = ad /\ kind = "refund" THEN n ELSE 0)
<1>1. PICK from \in Account, to \in Account :
        ledger' = Append(ledger, [kind |-> kind, user |-> u, from |-> from, to |-> to,
                                  amount |-> n, ref |-> ref])
  BY DEF CreditTx, DebitTx, Withdraw, Account
<1> DEFINE op == [kind |-> kind, user |-> u, from |-> from, to |-> to, amount |-> n, ref |-> ref]
<1>2. op \in Operation /\ op.ref = ref /\ op.kind = kind /\ op.amount = n
  BY DEF Operation
<1>3. ledger \in Seq(Operation) /\ ledger' = Append(ledger, op)
  BY <1>1 DEF PromotionsTypeOK, WalletTypeOK
<1> HIDE DEF op
<1> QED
  BY <1>2, <1>3, OpSumGrows DEF Taken, Given

(* What leaves the ledger, the rows or the purchases alone leaves the sums *)
(* over them alone.                                                        *)
LEMMA BooksStay ==
  ASSUME NEW ad
  PROVE  /\ UNCHANGED ledger => UNCHANGED <<Taken(ad), Given(ad)>>
         /\ UNCHANGED promos => UNCHANGED Sold(ad)
         /\ UNCHANGED saga =>
              UNCHANGED <<ToActivate(ad), Unserved(ad), Unaccounted(ad), Failed(ad), Started>>
         /\ UNCHANGED <<saga, hurt>> => UNCHANGED Unhurt(ad)
  BY DEF Taken, Given, Sold, ToActivate, Unserved, Unaccounted, Failed, Unhurt,
         OpSum, OpAmounts, RowSum, RowAmounts, RowsOf, SagaSum, SagaAmounts, Started

(* What rows were sold for does not change with their status.              *)
LEMMA SoldStays ==
  ASSUME PromotionsTypeOK, PromotionsTypeOK', Rewritten, NEW ad
  PROVE  Sold(ad)' = Sold(ad)
<1>1. \A i \in DOMAIN promos : promos[i].status \in PromoStatus /\ promos'[i].status \in PromoStatus
  <2>1. DOMAIN promos' = DOMAIN promos /\ \A i \in DOMAIN promos' : promos'[i] \in Promo
    BY ElementOfSeq, LenProperties DEF Rewritten
  <2> QED
    BY <2>1, RowTypes DEF Promo
<1> QED
  BY <1>1, RowSumMoves DEF Sold

(* A purchase that goes from a stage to another.                           *)
LEMMA SagaBooks ==
  ASSUME PromotionsTypeOK, IsFiniteSet(Started), hurt \subseteq Started,
         NEW r \in Request, NEW old \in Stage, NEW new \in Stage,
         SagaAt(r, old), GoTo(r, new), NEW ad
  PROVE  LET change(stages) == (IF new \in stages THEN Price(r, ad) ELSE 0)
                               - (IF old \in stages THEN Price(r, ad) ELSE 0)
         IN /\ Price(r, ad) \in Nat
            /\ Started' = Started /\ r \in Started
            /\ ToActivate(ad)' = ToActivate(ad) + change({"activate"})
            /\ Unserved(ad)' = Unserved(ad) + change({"activate", "refund", "failed"})
            /\ Unaccounted(ad)' = Unaccounted(ad) + change({"activate", "refund", "failed", "lost"})
            /\ Failed(ad)' = Failed(ad) + change({"failed"})
            /\ hurt' = hurt /\ Unhurt(ad)' => Unhurt(ad)
            /\ hurt' = hurt \cup {r} /\ Unhurt(ad)' => Unhurt(ad) /\ Price(r, ad) = 0
<1> DEFINE p == Price(r, ad)
<1>1. saga[r] # None /\ r \in Started
  BY DEF SagaAt, Started
<1>2. p \in Nat
  BY <1>1, PurchaseTypes DEF Price
<1>3. /\ Started' = Started
      /\ \A q \in Started : saga'[q].ad = saga[q].ad
  BY SagaMoves
<1>4. ASSUME NEW stages
      PROVE  SagaSum(ad, stages)' = SagaSum(ad, stages)
               + ((IF new \in stages THEN p ELSE 0) - (IF old \in stages THEN p ELSE 0))
  <2>1. SagaSum(ad, stages)' = SagaSum(ad, stages)
              + ((IF saga[r].ad = ad /\ new \in stages THEN saga[r].plan.amount ELSE 0)
                 - (IF saga[r].ad = ad /\ old \in stages THEN saga[r].plan.amount ELSE 0))
    BY SagaMoves
  <2> QED
    BY <2>1 DEF Price
<1>5. hurt' = hurt /\ Unhurt(ad)' => Unhurt(ad)
  BY <1>3 DEF Unhurt
<1>6. hurt' = hurt \cup {r} /\ Unhurt(ad)' => Unhurt(ad) /\ p = 0
  BY <1>1, <1>3 DEF Unhurt, Price
<1> HIDE DEF p
<1>7. /\ ToActivate(ad)' = ToActivate(ad) + ((IF new \in {"activate"} THEN p ELSE 0)
                                             - (IF old \in {"activate"} THEN p ELSE 0))
      /\ Failed(ad)' = Failed(ad) + ((IF new \in {"failed"} THEN p ELSE 0)
                                     - (IF old \in {"failed"} THEN p ELSE 0))
  BY <1>4 DEF ToActivate, Failed
<1>8. Unserved(ad)' = Unserved(ad) + ((IF new \in {"activate", "refund", "failed"} THEN p ELSE 0)
                                      - (IF old \in {"activate", "refund", "failed"} THEN p ELSE 0))
  BY <1>4 DEF Unserved
<1>9. Unaccounted(ad)' = Unaccounted(ad) +
         ((IF new \in {"activate", "refund", "failed", "lost"} THEN p ELSE 0)
          - (IF old \in {"activate", "refund", "failed", "lost"} THEN p ELSE 0))
  BY <1>4 DEF Unaccounted
<1> QED
  BY <1>1, <1>2, <1>3, <1>5, <1>6, <1>7, <1>8, <1>9 DEF p

(* Money is kept by a step that leaves its sums alone.                     *)
LEMMA BooksKept ==
  ASSUME Money, UNCHANGED <<ledger, saga, hurt>>, \A ad \in Ad : Sold(ad)' = Sold(ad)
  PROVE  Money'
<1>1. ASSUME NEW ad \in Ad PROVE BooksAgree(ad)'
  <2>1. /\ UNCHANGED <<Taken(ad), Given(ad), Sold(ad), ToActivate(ad), Unserved(ad),
                       Unaccounted(ad), Failed(ad), Started>>
        /\ UNCHANGED Unhurt(ad)
    BY BooksStay
  <2> QED
    BY <2>1 DEF Money, BooksAgree
<1>2. IsFiniteSet(Started)' /\ (hurt \subseteq Started)'
  BY DEF Money, Started
<1> QED
  BY <1>1, <1>2 DEF Money

(* Every step keeps the accounts, whatever the consumers do.               *)
LEMMA MoneyStep ==
  ASSUME PromotionsTypeOK, PromotionsTypeOK', RowsAreKept, Money, [PromotionsNext]_promotionVars
  PROVE  Money'
<1>0. /\ IsFiniteSet(Started) /\ hurt \subseteq Started
      /\ \A ad \in Ad : BooksAgree(ad)
      /\ bus \subseteq AdEvent
  BY DEF Money, PromotionsTypeOK
<1>p. UNCHANGED promos => \A ad \in Ad : Sold(ad)' = Sold(ad)
  BY BooksStay
<1>q. UNCHANGED <<ledger, promos, saga, hurt>> => Money'
  BY <1>p, BooksKept
<1> USE DEF listingVars, marks, walletVars
<1>1. ASSUME NEW u \in User, Topup(u) PROVE Money'
  <2> PICK ref \in Ad : CreditTx(u, Funds, "topup", ref)
    BY <1>1 DEF Topup
  <2>1. UNCHANGED <<promos, saga, hurt>>
    BY <1>1 DEF Topup
  <2>2. \A ad \in Ad : BooksAgree(ad)'
    <3> SUFFICES ASSUME NEW ad \in Ad PROVE BooksAgree(ad)'
      OBVIOUS
    <3>1. Taken(ad)' = Taken(ad) /\ Given(ad)' = Given(ad)
      <4>1. /\ Taken(ad)' = Taken(ad) + 0 /\ Given(ad)' = Given(ad) + 0
        BY LedgerMoves, PromotionAssumption DEF Kind
      <4> QED
        BY <1>0, <4>1, BookTypes
    <3>2. /\ UNCHANGED <<Sold(ad), ToActivate(ad), Unserved(ad), Unaccounted(ad), Failed(ad)>>
          /\ UNCHANGED Unhurt(ad)
      BY <2>1, BooksStay
    <3> QED
      BY <1>0, <3>1, <3>2 DEF BooksAgree
  <2> QED
    BY <1>0, <2>1, <2>2 DEF Money, Started
<1>2. ASSUME NEW r \in Request, NEW ad \in Ad, NEW plan \in Plan, ReadAd(r, ad, plan) PROVE Money'
  <2>1. UNCHANGED <<ledger, promos, hurt>>
    BY <1>2 DEF ReadAd
  <2>2. /\ IsFiniteSet(Started') /\ Started \subseteq Started'
        /\ \A q \in Started : saga'[q] = saga[q]
        /\ \A a, stages : "debit" \notin stages => SagaSum(a, stages)' = SagaSum(a, stages)
    BY <1>0, <1>2, SagaStarts
  <2>3. ASSUME NEW a \in Ad PROVE BooksAgree(a)'
    <3>1. UNCHANGED <<Taken(a), Given(a), Sold(a)>>
      BY <2>1, BooksStay
    <3>2. UNCHANGED <<ToActivate(a), Unserved(a), Unaccounted(a), Failed(a)>>
      BY <2>2 DEF ToActivate, Unserved, Unaccounted, Failed
    <3>3. Unhurt(a)' => Unhurt(a)
      BY <1>0, <2>1, <2>2 DEF Unhurt
    <3> QED
      BY <1>0, <3>1, <3>2, <3>3 DEF BooksAgree
  <2> QED
    BY <1>0, <2>1, <2>2, <2>3 DEF Money
<1>3. ASSUME NEW r \in Request, Debit(r) PROVE Money'
  <2>0. /\ SagaAt(r, "debit") /\ UNCHANGED <<promos, hurt>>
        /\ saga[r] # None
    BY <1>3 DEF Debit, SagaAt
  <2>1. CASE GoTo(r, "activate") /\ DebitTx(Owner[saga[r].ad], saga[r].plan.amount, "purchase", saga[r].ad)
    <3>1. ASSUME NEW ad \in Ad PROVE BooksAgree(ad)' /\ Started' = Started
      <4>1. /\ Price(r, ad) \in Nat /\ Started' = Started
            /\ ToActivate(ad)' = ToActivate(ad) + Price(r, ad)
            /\ Unserved(ad)' = Unserved(ad) + Price(r, ad)
            /\ Unaccounted(ad)' = Unaccounted(ad) + Price(r, ad)
            /\ Failed(ad)' = Failed(ad)
            /\ Unhurt(ad)' => Unhurt(ad)
        <5>1. "debit" \in Stage /\ "activate" \in Stage
          BY DEF Stage
        <5> QED
          BY <1>0, <2>0, <2>1, <5>1, SagaBooks, BookTypes
      <4>2. Taken(ad)' = Taken(ad) + Price(r, ad) /\ Given(ad)' = Given(ad)
        <5>1. /\ Taken(ad)' = Taken(ad) + (IF saga[r].ad = ad THEN saga[r].plan.amount ELSE 0)
              /\ Given(ad)' = Given(ad) + 0
          BY <2>0, <2>1, PurchaseTypes, LedgerMoves DEF Kind
        <5> QED
          BY <1>0, <5>1, BookTypes DEF Price
      <4>3. Sold(ad)' = Sold(ad)
        BY <1>p, <2>0
      <4> QED
        BY <1>0, <4>1, <4>2, <4>3, BookTypes DEF BooksAgree
    <3> QED
      BY <1>0, <2>0, <2>1, <3>1, PurchaseTypes DEF Money
  <2>2. CASE GoTo(r, "rejected") /\ UNCHANGED walletVars
    <3>1. ASSUME NEW ad \in Ad PROVE BooksAgree(ad)' /\ Started' = Started
      <4>1. /\ Started' = Started
            /\ UNCHANGED <<ToActivate(ad), Unserved(ad), Unaccounted(ad), Failed(ad)>>
            /\ Unhurt(ad)' => Unhurt(ad)
        <5>1. "debit" \in Stage /\ "rejected" \in Stage
          BY DEF Stage
        <5> QED
          BY <1>0, <2>0, <2>2, <5>1, SagaBooks, BookTypes
      <4>2. UNCHANGED <<Taken(ad), Given(ad), Sold(ad)>>
        BY <2>0, <2>2, BooksStay
      <4> QED
        BY <1>0, <4>1, <4>2 DEF BooksAgree
    <3> QED
      BY <1>0, <2>0, <2>2, <3>1, PurchaseTypes DEF Money
  <2> QED
    BY <1>3, <2>1, <2>2 DEF Debit
<1>4. ASSUME NEW r \in Request, Activate(r) PROVE Money'
  <2>0. /\ SagaAt(r, "activate") /\ saga[r] # None
        /\ saga[r].ad \in Ad /\ saga[r].plan \in Plan
        /\ ActivatePromotions(saga[r].ad, saga[r].plan)
        /\ UNCHANGED ledger
    BY <1>4, PurchaseTypes DEF Activate, SagaAt
  <2>1. ASSUME NEW ad \in Ad PROVE Sold(ad)' = Sold(ad) + Price(r, ad)
    <3>1. "active" \in PromoStatus
      BY DEF PromoStatus
    <3> QED
      BY <2>0, <3>1, RowSumGrows DEF Sold, Price
  <2>2. ASSUME NEW ad \in Ad PROVE Taken(ad)' = Taken(ad) /\ Given(ad)' = Given(ad)
    BY <2>0, BooksStay
  <2>3. CASE GoTo(r, "done") /\ UNCHANGED hurt
    <3>1. ASSUME NEW ad \in Ad PROVE BooksAgree(ad)' /\ Started' = Started
      <4>1. /\ Price(r, ad) \in Nat /\ Started' = Started
            /\ ToActivate(ad)' = ToActivate(ad) - Price(r, ad)
            /\ Unserved(ad)' = Unserved(ad) - Price(r, ad)
            /\ Unaccounted(ad)' = Unaccounted(ad) - Price(r, ad)
            /\ Failed(ad)' = Failed(ad)
            /\ Unhurt(ad)' => Unhurt(ad)
        <5>1. "activate" \in Stage /\ "done" \in Stage
          BY DEF Stage
        <5> QED
          BY <1>0, <2>0, <2>3, <5>1, SagaBooks, BookTypes
      <4> QED
        BY <1>0, <2>1, <2>2, <4>1, BookTypes DEF BooksAgree
    <3> QED
      BY <1>0, <2>0, <2>3, <3>1 DEF Money
  <2>4. CASE GoTo(r, "refund") /\ hurt' = hurt \cup {r}
    <3>1. ASSUME NEW ad \in Ad PROVE BooksAgree(ad)' /\ Started' = Started /\ r \in Started
      <4>1. /\ Price(r, ad) \in Nat /\ Started' = Started /\ r \in Started
            /\ ToActivate(ad)' = ToActivate(ad) - Price(r, ad)
            /\ UNCHANGED <<Unserved(ad), Unaccounted(ad), Failed(ad)>>
            /\ Unhurt(ad)' => Unhurt(ad) /\ Price(r, ad) = 0
        <5>1. "activate" \in Stage /\ "refund" \in Stage
          BY DEF Stage
        <5> QED
          BY <1>0, <2>0, <2>4, <5>1, SagaBooks, BookTypes
      <4> QED
        BY <1>0, <2>1, <2>2, <4>1, BookTypes DEF BooksAgree
    <3> QED
      BY <1>0, <2>0, <2>4, <3>1 DEF Money
  <2> QED
    BY <1>4, <2>3, <2>4 DEF Activate
<1>5. ASSUME NEW r \in Request, ActivationFails(r) PROVE Money'
  <2>0. /\ SagaAt(r, "activate") /\ GoTo(r, "refund") /\ saga[r] # None
        /\ UNCHANGED <<ledger, promos, hurt>>
    BY <1>5 DEF ActivationFails, SagaAt
  <2>1. ASSUME NEW ad \in Ad PROVE BooksAgree(ad)' /\ Started' = Started
    <3>1. /\ Price(r, ad) \in Nat /\ Started' = Started
          /\ ToActivate(ad)' = ToActivate(ad) - Price(r, ad)
          /\ UNCHANGED <<Unserved(ad), Unaccounted(ad), Failed(ad)>>
          /\ Unhurt(ad)' => Unhurt(ad)
      <4>1. "activate" \in Stage /\ "refund" \in Stage
        BY DEF Stage
      <4> QED
        BY <1>0, <2>0, <4>1, SagaBooks, BookTypes
    <3>2. UNCHANGED <<Taken(ad), Given(ad), Sold(ad)>>
      BY <2>0, BooksStay
    <3> QED
      BY <1>0, <3>1, <3>2, BookTypes DEF BooksAgree
  <2> QED
    BY <1>0, <2>0, <2>1, PurchaseTypes DEF Money
<1>6. ASSUME NEW r \in Request, Compensate(r) PROVE Money'
  <2>0. /\ SagaAt(r, "refund") /\ GoTo(r, "failed") /\ saga[r] # None
        /\ UNCHANGED promos
    BY <1>6 DEF Compensate, SagaAt
  <2>1. "refund" \in Stage /\ "failed" \in Stage
    BY DEF Stage
  <2>2. ASSUME NEW ad \in Ad
        PROVE  /\ Price(r, ad) \in Nat /\ Started' = Started /\ r \in Started
               /\ UNCHANGED <<ToActivate(ad), Unserved(ad), Unaccounted(ad), Sold(ad)>>
               /\ Failed(ad)' = Failed(ad) + Price(r, ad)
               /\ UNCHANGED hurt => (Unhurt(ad)' => Unhurt(ad))
               /\ hurt' = hurt \cup {r} => (Unhurt(ad)' => Unhurt(ad) /\ Price(r, ad) = 0)
    BY <1>0, <2>0, <2>1, <1>p, SagaBooks, BookTypes
  <2>3. CASE UNCHANGED hurt /\ CreditTx(Owner[saga[r].ad], saga[r].plan.amount, "refund", saga[r].ad)
    <3>1. ASSUME NEW ad \in Ad PROVE BooksAgree(ad)'
      <4>1. Taken(ad)' = Taken(ad) /\ Given(ad)' = Given(ad) + Price(r, ad)
        <5>1. /\ Taken(ad)' = Taken(ad) + 0
              /\ Given(ad)' = Given(ad) + (IF saga[r].ad = ad THEN saga[r].plan.amount ELSE 0)
          BY <2>0, <2>3, PurchaseTypes, LedgerMoves DEF Kind
        <5> QED
          BY <1>0, <5>1, BookTypes DEF Price
      <4> QED
        BY <1>0, <2>2, <2>3, <4>1, BookTypes DEF BooksAgree
    <3> QED
      BY <1>0, <2>0, <2>2, <2>3, <3>1, PurchaseTypes DEF Money
  <2>4. CASE hurt' = hurt \cup {r} /\ UNCHANGED walletVars
    <3>1. ASSUME NEW ad \in Ad PROVE BooksAgree(ad)'
      <4>1. Taken(ad)' = Taken(ad) /\ Given(ad)' = Given(ad)
        BY <2>4, BooksStay
      <4> QED
        BY <1>0, <2>2, <2>4, <4>1, BookTypes DEF BooksAgree
    <3> QED
      BY <1>0, <2>0, <2>2, <2>4, <3>1, PurchaseTypes DEF Money
  <2> QED
    BY <1>6, <2>3, <2>4 DEF Compensate
<1>7. ASSUME NEW r \in Request, Crash(r) PROVE Money'
  <2>0. /\ GoTo(r, "lost") /\ saga[r] # None
        /\ UNCHANGED <<ledger, promos>> /\ hurt' = hurt \cup {r}
    BY <1>7 DEF Crash, InFlight
  <2>1. PICK old \in {"debit", "activate", "refund"} : SagaAt(r, old)
    BY <1>7 DEF Crash, InFlight, SagaAt
  <2>2. old \in Stage /\ "lost" \in Stage
    BY DEF Stage
  <2>3. ASSUME NEW ad \in Ad PROVE BooksAgree(ad)' /\ Started' = Started /\ r \in Started
    <3>1. /\ Price(r, ad) \in Nat /\ Started' = Started /\ r \in Started
          /\ ToActivate(ad)' = ToActivate(ad) - (IF old = "activate" THEN Price(r, ad) ELSE 0)
          /\ Unserved(ad)' = Unserved(ad) - (IF old = "debit" THEN 0 ELSE Price(r, ad))
          /\ Unaccounted(ad)' = Unaccounted(ad) + (IF old = "debit" THEN Price(r, ad) ELSE 0)
          /\ Failed(ad)' = Failed(ad)
          /\ Unhurt(ad)' => Unhurt(ad) /\ Price(r, ad) = 0
      BY <1>0, <2>0, <2>1, <2>2, SagaBooks, BookTypes
    <3>2. UNCHANGED <<Taken(ad), Given(ad), Sold(ad)>>
      BY <2>0, BooksStay
    <3> QED
      BY <1>0, <3>1, <3>2, BookTypes DEF BooksAgree
  <2> QED
    BY <1>0, <2>0, <2>3, PurchaseTypes DEF Money
<1>8. ASSUME NEW w \in Worker, NEW e \in bus, Suspend(w, e) PROVE Money'
  <2>1. Rewritten /\ UNCHANGED <<ledger, saga, hurt>>
    BY <1>0, <1>8, SuspendRows DEF Suspend, AdEvent
  <2> QED
    BY <2>1, SoldStays, BooksKept
<1>9. ASSUME NEW w \in Worker, NEW e \in bus,
             ListToResume(w, e) \/ ListToRefund(w, e) \/ NothingToDo(w, e) \/ DeadLetter(w, e)
      PROVE  Money'
  BY <1>9, <1>q DEF ListToResume, ListToRefund, NothingToDo, DeadLetter
<1>10. ASSUME NEW w \in Worker, ResumePromotions(w) PROVE Money'
  <2>1. Rewritten /\ UNCHANGED <<ledger, saga, hurt>>
    BY <1>10, ListedTypes, ResumeRows DEF ResumePromotions
  <2> QED
    BY <2>1, SoldStays, BooksKept
<1>11. ASSUME NEW w \in Worker, RefundPromotions(w) PROVE Money'
  <2> PICK ref \in Ad, n \in Nat : ref = worker[w].event.ad /\ n = worker[w].amount
    BY <1>11, ListedTypes DEF RefundPromotions
  <2>1. Rewritten /\ UNCHANGED <<saga, hurt>>
    BY <1>11, RefundRows DEF RefundPromotions
  <2>2. \/ UNCHANGED ledger
        \/ n > 0 /\ CreditTx(Owner[ref], n, "refund", ref)
    BY <1>11 DEF RefundPromotions
  <2>3. ASSUME NEW ad \in Ad PROVE BooksAgree(ad)'
    <3>1. Taken(ad)' = Taken(ad) /\ Given(ad)' \in Nat /\ Given(ad)' >= Given(ad)
      <4>1. CASE UNCHANGED ledger
        BY <1>0, <4>1, BooksStay, BookTypes
      <4>2. CASE n > 0 /\ CreditTx(Owner[ref], n, "refund", ref)
        <5>1. /\ Taken(ad)' = Taken(ad) + 0
              /\ Given(ad)' = Given(ad) + (IF ref = ad THEN n ELSE 0)
          BY <4>2, LedgerMoves, PromotionAssumption DEF Kind
        <5> QED
          BY <1>0, <5>1, BookTypes
      <4> QED
        BY <2>2, <4>1, <4>2
    <3>2. /\ UNCHANGED <<ToActivate(ad), Unserved(ad), Unaccounted(ad), Failed(ad)>>
          /\ UNCHANGED Unhurt(ad)
      BY <2>1, BooksStay
    <3>3. Sold(ad)' = Sold(ad)
      BY <2>1, SoldStays
    <3>4. Failed(ad) <= Given(ad) => Failed(ad)' <= Given(ad)'
      BY <1>0, <3>1, <3>2, BookTypes
    <3> QED
      BY <1>0, <3>1, <3>2, <3>3, <3>4 DEF BooksAgree
  <2> QED
    BY <1>0, <2>1, <2>3 DEF Money, Started
<1>12. ASSUME NEW w \in Worker, GiveBack(w) PROVE Money'
  BY <1>12, <1>q DEF GiveBack
<1>13. ASSUME NEW ad \in Ad, Listing(ad) PROVE Money'
  BY <1>13, <1>q DEF Listing
<1>14. CASE Tick
  BY <1>14, <1>q DEF Tick
<1>15. CASE UNCHANGED promotionVars
  BY <1>15, <1>q DEF promotionVars
<1> QED
  BY <1>1, <1>2, <1>3, <1>4, <1>5, <1>6, <1>7, <1>8, <1>9, <1>10, <1>11, <1>12, <1>13, <1>14,
     <1>15 DEF PromotionsNext

-----------------------------------------------------------------------------
(* Refunds.                                                                *)

Reimbursed(ad) == RowSum(ad, {"refunded"})

(* Nothing is given back that no closed row and no failed purchase pays    *)
(* for.                                                                    *)
RefundsArePaidFor == \A ad \in Ad : Given(ad) <= Reimbursed(ad) + Failed(ad)

(* What a consumer is about to give back is still covered by open rows.    *)
DuesAreCovered ==
  \A w \in Worker, ad \in Ad :
    worker[w] # Idle /\ worker[w].event.kind \in {"blocked", "deleted"}
                     /\ worker[w].event.ad = ad =>
      worker[w].amount <= RowSum(ad, Open)

Refunds == RefundsArePaidFor /\ DuesAreCovered

(* Rows that stay open, or stay closed, keep both sums.                    *)
LEMMA SumsStay ==
  ASSUME PromotionsTypeOK, Rewritten, NEW ad,
         \A i \in DOMAIN promos : promos'[i].status \in Open <=> promos[i].status \in Open,
         \A i \in DOMAIN promos : promos'[i].status = "refunded" <=> promos[i].status = "refunded"
  PROVE  Reimbursed(ad)' = Reimbursed(ad) /\ RowSum(ad, Open)' = RowSum(ad, Open)
<1>1. RowSum(ad, {"refunded"})' = RowSum(ad, {"refunded"})
  BY RowSumMoves
<1>2. RowSum(ad, Open)' = RowSum(ad, Open)
  BY RowSumMoves
<1> QED
  BY <1>1, <1>2 DEF Reimbursed

(* With one consumer, every step keeps refunds within what was sold.       *)
LEMMA RefundsStep ==
  ASSUME OneConsumer, PromotionsTypeOK, RowsAreKept, Money, Refunds, [PromotionsNext]_promotionVars
  PROVE  Refunds'
<1>0. /\ IsFiniteSet(Started) /\ hurt \subseteq Started
      /\ \A ad \in Ad : Given(ad) <= Reimbursed(ad) + Failed(ad)
      /\ DuesAreCovered
      /\ bus \subseteq AdEvent /\ worker \in [Worker -> Listed \cup {Idle}]
  BY DEF Money, Refunds, RefundsArePaidFor, PromotionsTypeOK
<1>t. \A ad : /\ Given(ad) \in Nat /\ Reimbursed(ad) \in Nat /\ Failed(ad) \in Nat
              /\ RowSum(ad, Open) \in Nat
  BY <1>0, BookTypes, RowSumType DEF Reimbursed
<1>p. UNCHANGED promos => \A ad : UNCHANGED <<Reimbursed(ad), RowSum(ad, Open)>>
  BY DEF Reimbursed, RowSum, RowAmounts, RowsOf
<1>q. UNCHANGED <<ledger, saga>> => \A ad : UNCHANGED <<Given(ad), Failed(ad)>>
  BY BooksStay
<1> HIDE DEF Open
<1>r. UNCHANGED <<ledger, saga, promos>> => RefundsArePaidFor'
  BY <1>0, <1>p, <1>q DEF RefundsArePaidFor
<1>d. UNCHANGED <<promos, worker>> => DuesAreCovered'
  BY <1>0, <1>p DEF DuesAreCovered
<1>e. ASSUME NEW w \in Worker, worker'[w] = Idle PROVE DuesAreCovered'
  BY <1>e DEF DuesAreCovered, OneConsumer
<1> USE DEF listingVars, marks, walletVars
<1>1. ASSUME NEW u \in User, Topup(u) PROVE Refunds'
  <2> PICK ref \in Ad : CreditTx(u, Funds, "topup", ref)
    BY <1>1 DEF Topup
  <2>1. UNCHANGED <<promos, saga, worker>>
    BY <1>1 DEF Topup
  <2>2. ASSUME NEW ad \in Ad PROVE Given(ad)' = Given(ad) /\ Failed(ad)' = Failed(ad)
    <3>1. Given(ad)' = Given(ad) + 0
      BY LedgerMoves, PromotionAssumption DEF Kind
    <3> QED
      BY <1>t, <2>1, <3>1, BooksStay
  <2> QED
    BY <1>0, <1>p, <1>d, <2>1, <2>2 DEF Refunds, RefundsArePaidFor
<1>2. ASSUME NEW r \in Request, NEW ad \in Ad, NEW plan \in Plan, ReadAd(r, ad, plan) PROVE Refunds'
  <2>1. UNCHANGED <<ledger, promos, worker>>
    BY <1>2 DEF ReadAd
  <2>2. ASSUME NEW a \in Ad PROVE Given(a)' = Given(a) /\ Failed(a)' = Failed(a)
    BY <1>0, <1>2, <2>1, SagaStarts, BooksStay DEF Failed
  <2> QED
    BY <1>0, <1>p, <1>d, <2>1, <2>2 DEF Refunds, RefundsArePaidFor
<1>3. ASSUME NEW r \in Request, NEW old \in Stage \ {"failed"}, NEW new \in Stage \ {"failed"},
             SagaAt(r, old), GoTo(r, new), NEW ad
      PROVE  Failed(ad)' = Failed(ad)
  BY <1>0, <1>3, <1>t, SagaBooks
<1>4. ASSUME NEW r \in Request, Debit(r) PROVE Refunds'
  <2>0. SagaAt(r, "debit") /\ saga[r] # None /\ UNCHANGED <<promos, worker>>
    BY <1>4 DEF Debit, SagaAt
  <2>1. ASSUME NEW ad \in Ad PROVE Failed(ad)' = Failed(ad)
    <3>1. /\ "debit" \in Stage \ {"failed"}
          /\ "activate" \in Stage \ {"failed"} /\ "rejected" \in Stage \ {"failed"}
      BY DEF Stage
    <3> QED
      BY <1>3, <1>4, <2>0, <3>1 DEF Debit
  <2>2. ASSUME NEW ad \in Ad PROVE Given(ad)' = Given(ad)
    <3>1. CASE UNCHANGED walletVars
      BY <3>1, BooksStay
    <3>2. CASE DebitTx(Owner[saga[r].ad], saga[r].plan.amount, "purchase", saga[r].ad)
      <4>1. Given(ad)' = Given(ad) + 0
        BY <2>0, <3>2, PurchaseTypes, LedgerMoves DEF Kind
      <4> QED
        BY <1>t, <4>1
    <3> QED
      BY <1>4, <3>1, <3>2 DEF Debit
  <2> QED
    BY <1>0, <1>p, <1>d, <2>0, <2>1, <2>2 DEF Refunds, RefundsArePaidFor
<1>5. ASSUME NEW r \in Request, Activate(r) PROVE Refunds'
  <2>0. /\ SagaAt(r, "activate")
        /\ saga[r].ad \in Ad /\ saga[r].plan \in Plan /\ saga[r].plan.amount \in Nat
        /\ ActivatePromotions(saga[r].ad, saga[r].plan)
        /\ UNCHANGED <<ledger, worker>>
    BY <1>5, PurchaseTypes DEF Activate, SagaAt
  <2>1. ASSUME NEW ad PROVE RowSum(ad, Open)' >= RowSum(ad, Open)
    <3>1. RowSum(ad, Open)' = RowSum(ad, Open) +
            (IF saga[r].ad = ad /\ "active" \in Open THEN saga[r].plan.amount ELSE 0)
      BY <2>0, RowSumGrows
    <3> QED
      BY <1>t, <2>0, <3>1
  <2>2. ASSUME NEW ad PROVE Reimbursed(ad)' = Reimbursed(ad)
    <3>1. RowSum(ad, {"refunded"})' = RowSum(ad, {"refunded"}) + 0
      BY <2>0, RowSumGrows
    <3> QED
      BY <1>t, <3>1 DEF Reimbursed
  <2>3. ASSUME NEW ad PROVE Failed(ad)' = Failed(ad) /\ Given(ad)' = Given(ad)
    <3>1. /\ "activate" \in Stage \ {"failed"}
          /\ "done" \in Stage \ {"failed"} /\ "refund" \in Stage \ {"failed"}
      BY DEF Stage
    <3> QED
      BY <1>3, <1>5, <2>0, <3>1, BooksStay DEF Activate
  <2>4. RefundsArePaidFor'
    BY <1>0, <2>2, <2>3 DEF RefundsArePaidFor
  <2>5. DuesAreCovered'
    <3> SUFFICES ASSUME NEW w \in Worker, NEW ad \in Ad, worker[w] # Idle,
                        worker[w].event.kind \in {"blocked", "deleted"}, worker[w].event.ad = ad
                 PROVE  worker[w].amount <= RowSum(ad, Open)'
      BY <2>0 DEF DuesAreCovered
    <3> PICK n \in Nat : n = worker[w].amount
      BY ListedTypes
    <3>1. n <= RowSum(ad, Open)
      BY <1>0 DEF DuesAreCovered
    <3>2. RowSum(ad, Open)' = RowSum(ad, Open) +
            (IF saga[r].ad = ad /\ "active" \in Open THEN saga[r].plan.amount ELSE 0)
      BY <2>0, RowSumGrows
    <3>3. n <= RowSum(ad, Open)'
      BY <1>t, <2>0, <3>1, <3>2
    <3> QED
      BY <3>3
  <2> QED
    BY <2>4, <2>5 DEF Refunds
<1>6. ASSUME NEW r \in Request, ActivationFails(r) PROVE Refunds'
  <2>0. SagaAt(r, "activate") /\ GoTo(r, "refund") /\ UNCHANGED <<ledger, promos, worker>>
    BY <1>6 DEF ActivationFails
  <2>1. "activate" \in Stage \ {"failed"} /\ "refund" \in Stage \ {"failed"}
    BY DEF Stage
  <2>2. ASSUME NEW ad PROVE Failed(ad)' = Failed(ad) /\ Given(ad)' = Given(ad)
    BY <1>3, <2>0, <2>1, BooksStay
  <2> QED
    BY <1>0, <1>p, <1>d, <2>0, <2>2 DEF Refunds, RefundsArePaidFor
<1>7. ASSUME NEW r \in Request, Compensate(r) PROVE Refunds'
  <2>0. /\ SagaAt(r, "refund") /\ GoTo(r, "failed") /\ saga[r] # None
        /\ UNCHANGED <<promos, worker>>
    BY <1>7 DEF Compensate, SagaAt
  <2>1. ASSUME NEW ad PROVE Failed(ad)' = Failed(ad) + Price(r, ad) /\ Price(r, ad) \in Nat
    <3>1. "refund" \in Stage /\ "failed" \in Stage
      BY DEF Stage
    <3> QED
      BY <1>0, <2>0, <3>1, <1>t, SagaBooks
  <2>2. ASSUME NEW ad \in Ad PROVE Given(ad)' \in {Given(ad), Given(ad) + Price(r, ad)}
    <3>1. CASE UNCHANGED walletVars
      BY <3>1, BooksStay
    <3>2. CASE CreditTx(Owner[saga[r].ad], saga[r].plan.amount, "refund", saga[r].ad)
      <4>1. Given(ad)' = Given(ad) + (IF saga[r].ad = ad THEN saga[r].plan.amount ELSE 0)
        BY <2>0, <3>2, PurchaseTypes, LedgerMoves DEF Kind
      <4> QED
        BY <4>1 DEF Price
    <3> QED
      BY <1>7, <3>1, <3>2 DEF Compensate
  <2>3. RefundsArePaidFor'
    <3> SUFFICES ASSUME NEW ad \in Ad PROVE Given(ad)' <= Reimbursed(ad)' + Failed(ad)'
      BY DEF RefundsArePaidFor
    <3> QED
      BY <1>0, <1>p, <1>t, <2>0, <2>1, <2>2
  <2> QED
    BY <1>d, <2>0, <2>3 DEF Refunds
<1>8. ASSUME NEW r \in Request, Crash(r) PROVE Refunds'
  <2>0. GoTo(r, "lost") /\ UNCHANGED <<ledger, promos, worker>>
    BY <1>8 DEF Crash
  <2>1. PICK old \in {"debit", "activate", "refund"} : SagaAt(r, old)
    BY <1>8 DEF Crash, InFlight, SagaAt
  <2>2. old \in Stage \ {"failed"} /\ "lost" \in Stage \ {"failed"}
    BY DEF Stage
  <2>3. ASSUME NEW ad PROVE Failed(ad)' = Failed(ad) /\ Given(ad)' = Given(ad)
    BY <1>3, <2>0, <2>1, <2>2, BooksStay
  <2> QED
    BY <1>0, <1>p, <1>d, <2>0, <2>3 DEF Refunds, RefundsArePaidFor
<1>9. ASSUME NEW w \in Worker, NEW e \in bus, Suspend(w, e) PROVE Refunds'
  <2>0. UNCHANGED <<ledger, saga>> /\ worker'[w] = Idle
    BY <1>9 DEF Suspend
  <2>1. /\ Rewritten
        /\ \A i \in DOMAIN promos :
             promos'[i].status = IF i \in RowsOf(e.ad, {"active"}) THEN "suspended"
                                                                   ELSE promos[i].status
    BY <1>0, <1>9, SuspendRows DEF Suspend, AdEvent
  <2>2. \A i \in DOMAIN promos :
          /\ promos'[i].status \in Open <=> promos[i].status \in Open
          /\ promos'[i].status = "refunded" <=> promos[i].status = "refunded"
    BY <2>1 DEF RowsOf, Open
  <2>3. RefundsArePaidFor'
    BY <1>0, <1>q, <2>0, <2>1, <2>2, SumsStay DEF RefundsArePaidFor
  <2> QED
    BY <1>e, <2>0, <2>3 DEF Refunds
<1>10. ASSUME NEW w \in Worker, NEW e \in bus, ListToResume(w, e) PROVE Refunds'
  <2>1. /\ UNCHANGED <<ledger, saga, promos>>
        /\ worker'[w].event = e /\ e.kind = "updated"
    BY <1>0, <1>10 DEF ListToResume
  <2>2. DuesAreCovered'
    BY <2>1 DEF DuesAreCovered, OneConsumer
  <2> QED
    BY <1>r, <2>1, <2>2 DEF Refunds
<1>11. ASSUME NEW w \in Worker, NEW e \in bus, ListToRefund(w, e) PROVE Refunds'
  <2>1. /\ UNCHANGED <<ledger, saga, promos>>
        /\ worker'[w].event = e /\ worker'[w].amount = AmountDue(RowsOf(e.ad, Open))
    BY <1>0, <1>11 DEF ListToRefund
  <2>2. AmountDue(RowsOf(e.ad, Open)) <= RowSum(e.ad, Open)
    BY DueIsCovered
  <2>3. DuesAreCovered'
    <3> SUFFICES ASSUME NEW v \in Worker, NEW ad \in Ad, worker'[v].event.ad = ad
                 PROVE  worker'[v].amount <= RowSum(ad, Open)'
      BY DEF DuesAreCovered
    <3>1. v = w /\ ad = e.ad
      BY <2>1 DEF OneConsumer
    <3>2. RowSum(ad, Open)' = RowSum(ad, Open)
      BY <1>p, <2>1
    <3> QED
      BY <2>1, <2>2, <3>1, <3>2
  <2> QED
    BY <1>r, <2>1, <2>3 DEF Refunds
<1>12. ASSUME NEW w \in Worker, NEW e \in bus, NothingToDo(w, e) \/ DeadLetter(w, e) PROVE Refunds'
  BY <1>12, <1>r, <1>d DEF NothingToDo, DeadLetter, Refunds
<1>13. ASSUME NEW w \in Worker, ResumePromotions(w) PROVE Refunds'
  <2>0. UNCHANGED <<ledger, saga>> /\ worker'[w] = Idle
    BY <1>0, <1>13 DEF ResumePromotions, Finish
  <2> PICK ref \in Ad : ref = worker[w].event.ad
    BY <1>13, ListedTypes DEF ResumePromotions
  <2>1. /\ Rewritten
        /\ \A i \in DOMAIN promos :
             promos'[i].status = IF i \in RowsOf(ref, {"suspended"}) THEN "active"
                                                                     ELSE promos[i].status
    BY <1>13, ResumeRows DEF ResumePromotions
  <2>2. \A i \in DOMAIN promos :
          /\ promos'[i].status \in Open <=> promos[i].status \in Open
          /\ promos'[i].status = "refunded" <=> promos[i].status = "refunded"
    BY <2>1 DEF RowsOf, Open
  <2>3. RefundsArePaidFor'
    BY <1>0, <1>q, <2>0, <2>1, <2>2, SumsStay DEF RefundsArePaidFor
  <2> QED
    BY <1>e, <2>0, <2>3 DEF Refunds
<1>14. ASSUME NEW w \in Worker, RefundPromotions(w) PROVE Refunds'
  <2>0. UNCHANGED saga /\ worker'[w] = Idle
    BY <1>0, <1>14 DEF RefundPromotions, Finish
  <2> PICK ref \in Ad, n \in Nat : ref = worker[w].event.ad /\ n = worker[w].amount
    BY <1>14, ListedTypes DEF RefundPromotions
  <2>1. /\ Rewritten
        /\ \A i \in DOMAIN promos :
             promos'[i].status = IF i \in RowsOf(ref, Open) THEN "refunded" ELSE promos[i].status
    BY <1>14, RefundRows DEF RefundPromotions
  <2>2. n <= RowSum(ref, Open)
    BY <1>0, <1>14 DEF DuesAreCovered, RefundPromotions
  <2>3. \/ UNCHANGED ledger
        \/ n > 0 /\ CreditTx(Owner[ref], n, "refund", ref)
    BY <1>14 DEF RefundPromotions
  <2>4. ASSUME NEW ad \in Ad, ad # ref
        PROVE  Given(ad)' = Given(ad) /\ Reimbursed(ad)' = Reimbursed(ad)
    <3>1. Given(ad)' = Given(ad)
      <4>1. CASE UNCHANGED ledger
        BY <4>1, BooksStay
      <4>2. CASE n > 0 /\ CreditTx(Owner[ref], n, "refund", ref)
        <5>1. Given(ad)' = Given(ad) + 0
          BY <2>4, <4>2, LedgerMoves, PromotionAssumption DEF Kind
        <5> QED
          BY <1>t, <5>1
      <4> QED
        BY <2>3, <4>1, <4>2
    <3>2. RowSum(ad, {"refunded"})' = RowSum(ad, {"refunded"})
      <4>1. \A i \in DOMAIN promos :
              promos[i].ad = ad =>
                (promos'[i].status \in {"refunded"} <=> promos[i].status \in {"refunded"})
        BY <2>1, <2>4 DEF RowsOf
      <4> QED
        BY <2>1, <4>1, RowSumMoves
    <3> QED
      BY <3>1, <3>2 DEF Reimbursed
  <2>5. /\ Given(ref)' \in {Given(ref), Given(ref) + n}
        /\ Reimbursed(ref)' = Reimbursed(ref) + RowSum(ref, Open)
    <3>1. Given(ref)' \in {Given(ref), Given(ref) + n}
      BY <2>3, LedgerMoves, PromotionAssumption, BooksStay DEF Kind
    <3>2. RowSum(ref, {"refunded"})' = RowSum(ref, {"refunded"} \cup Open)
      <4>1. \A i \in DOMAIN promos :
              promos[i].ad = ref =>
                (promos'[i].status \in {"refunded"} <=> promos[i].status \in {"refunded"} \cup Open)
        BY <2>1 DEF RowsOf
      <4> QED
        BY <2>1, <4>1, RowSumMoves
    <3>3. {"refunded"} \cap Open = {}
      BY DEF Open
    <3> QED
      BY <3>1, <3>2, <3>3, RowSumSplits DEF Reimbursed
  <2>6. ASSUME NEW ad \in Ad PROVE Failed(ad)' = Failed(ad)
    BY <2>0, BooksStay
  <2>7. RefundsArePaidFor'
    <3> SUFFICES ASSUME NEW ad \in Ad PROVE Given(ad)' <= Reimbursed(ad)' + Failed(ad)'
      BY DEF RefundsArePaidFor
    <3>1. CASE ad # ref
      BY <1>0, <2>4, <2>6, <3>1
    <3>2. CASE ad = ref
      <4>1. Given(ref)' <= Reimbursed(ref)' + Failed(ref)
        BY <1>0, <1>t, <2>2, <2>5
      <4>2. Failed(ref)' = Failed(ref)
        BY <2>6
      <4> QED
        BY <3>2, <4>1, <4>2
    <3> QED
      BY <3>1, <3>2
  <2> QED
    BY <1>e, <2>0, <2>7 DEF Refunds
<1>15. ASSUME NEW w \in Worker, GiveBack(w) PROVE Refunds'
  <2>1. worker'[w] = Idle /\ UNCHANGED <<ledger, saga, promos>>
    BY <1>0, <1>15 DEF GiveBack
  <2> QED
    BY <1>e, <1>r, <2>1 DEF Refunds
<1>16. ASSUME NEW ad \in Ad, Listing(ad) PROVE Refunds'
  BY <1>16, <1>r, <1>d DEF Listing, Refunds
<1>17. CASE Tick
  BY <1>17, <1>r, <1>d DEF Tick, Refunds
<1>18. CASE UNCHANGED promotionVars
  BY <1>18, <1>r, <1>d DEF promotionVars, Refunds
<1> QED
  BY <1>1, <1>2, <1>4, <1>5, <1>6, <1>7, <1>8, <1>9, <1>10, <1>11, <1>12, <1>13, <1>14,
     <1>15, <1>16, <1>17, <1>18 DEF PromotionsNext

-----------------------------------------------------------------------------
(* What a row gives back is worth its unserved days at most, and exactly   *)
(* that if its end never moved (RefundAmount).                             *)
LEMMA RefundIsFair ==
  ASSUME NEW p \in Promo, NEW s \in Term, now \in Nat, RowIsKept(p, s, now), p.status \in Open
  PROVE  /\ RefundAmount(p) * s.term <= p.amount * (s.term - s.served)
         /\ s.term > 0 /\ p.ends = p.starts + s.term =>
              RefundAmount(p) = (p.amount * (s.term - s.served)) \div s.term
<1> DEFINE total == p.ends - p.starts
           asOf  == IF p.status = "suspended" THEN p.suspendedAt ELSE now
           left  == Min({p.ends - asOf, total})
           sold  == s.term
           rest  == s.term - s.served
           price == p.amount
           back  == RefundAmount(p)
<1>1. /\ price \in Nat /\ p.starts \in Nat /\ p.ends \in Nat \cup {Never} /\ asOf \in Nat
      /\ sold \in Nat /\ s.served \in Nat /\ rest \in Nat
  BY DEF Promo, Term, RowIsKept
<1>2. back = IF p.ends # Never /\ price > 0 /\ total > 0 /\ left > 0
             THEN (price * left) \div total ELSE 0
  BY DEF RefundAmount
<1>3. p.ends # Never => /\ total >= sold
                        /\ rest = IF p.ends > asOf THEN p.ends - asOf ELSE 0
  BY <1>1 DEF RowIsKept, AsOf
<1>4. p.ends # Never => left = IF p.ends - asOf <= total THEN p.ends - asOf ELSE total
  BY <1>1, MinOfTwo
<1>5. Never \notin Nat
  BY PromotionAssumption
<1>6. p.ends = p.starts + s.term => p.ends # Never /\ total = sold
  BY <1>1, <1>5
<1>7. p.ends # Never => total \in Int
  BY <1>1
<1>a. \A x \in Nat, y \in Nat : x * y \in Nat
  OBVIOUS
<1>8. CASE p.ends # Never /\ price > 0 /\ total > 0 /\ left > 0
  <2>1. left \in Nat /\ total \in Nat /\ total > 0 /\ left <= rest /\ sold <= total
    BY <1>1, <1>3, <1>4, <1>7, <1>8
  <2>2. back = (price * left) \div total
    BY <1>2, <1>8
  <2>3. total = sold => left = rest
    BY <1>1, <1>3, <1>4, <1>8
  <2> HIDE DEF total, left, sold, rest, price, back, asOf
  <2>4. back \in Nat /\ back * total <= price * left
    <3>1. price * left \in Nat
      BY <1>1, <1>a, <2>1
    <3> DEFINE num == price * left
    <3> HIDE DEF num
    <3>2. \A x \in Nat, t \in Nat : t > 0 => x \div t \in Nat /\ (x \div t) * t <= x
      OBVIOUS
    <3> QED
      BY <2>1, <2>2, <3>1, <3>2
  <2>5. \A x \in Nat, y \in Nat, z \in Nat : y <= z => x * y <= x * z
    OBVIOUS
  <2>6. back * sold <= back * total /\ price * left <= price * rest
    BY <1>1, <2>1, <2>4, <2>5
  <2>7. back * sold <= price * rest
    <3>1. back * sold \in Nat /\ back * total \in Nat /\ price * left \in Nat /\ price * rest \in Nat
      BY <1>1, <1>a, <2>1, <2>4
    <3> QED
      BY <2>4, <2>6, <3>1
  <2>8. total = sold => back = (price * rest) \div sold
    BY <2>2, <2>3
  <2> QED
    BY <1>6, <2>7, <2>8 DEF back, sold, rest, price
<1>9. CASE ~(p.ends # Never /\ price > 0 /\ total > 0 /\ left > 0)
  <2>1. back = 0
    BY <1>2, <1>9
  <2>2. p.ends # Never /\ total = sold /\ sold > 0 => price = 0 \/ rest = 0
    BY <1>1, <1>3, <1>4, <1>9
  <2> HIDE DEF total, left, sold, rest, price, back, asOf
  <2>3. back * sold <= price * rest
    <3>1. back * sold = 0 /\ price * rest \in Nat
      BY <1>1, <1>a, <2>1
    <3> QED
      BY <3>1
  <2>4. p.ends # Never /\ total = sold /\ sold > 0 => back = (price * rest) \div sold
    <3> SUFFICES ASSUME p.ends # Never, total = sold, sold > 0
                 PROVE  back = (price * rest) \div sold
      OBVIOUS
    <3>1. price * rest = 0
      BY <1>1, <2>2
    <3>2. \A t \in Nat : t > 0 => 0 \div t = 0
      OBVIOUS
    <3> QED
      BY <1>1, <2>1, <3>1, <3>2
  <2> QED
    BY <1>6, <2>3, <2>4 DEF back, sold, rest, price
<1> QED
  BY <1>8, <1>9

-----------------------------------------------------------------------------
(* The theorems about money.                                               *)

(* The accounts are empty at first.                                        *)
LEMMA InitMoney == PromotionsInit => Money /\ Refunds
<1> SUFFICES ASSUME PromotionsInit PROVE Money /\ Refunds
  OBVIOUS
<1>1. /\ Started = {} /\ DOMAIN promos = {} /\ DOMAIN ledger = {} /\ hurt = {}
      /\ \A w \in Worker : worker[w] = Idle
  BY DEF PromotionsInit, WalletInit, Started
<1>2. /\ \A ad, kind : OpSum(ad, kind) = 0
      /\ \A ad, statuses : RowSum(ad, statuses) = 0
      /\ \A ad, stages : SagaSum(ad, stages) = 0
  BY <1>1, SumOfNone DEF OpSum, RowSum, SagaSum
<1>3. \A ad \in Ad : BooksAgree(ad)
  BY <1>2 DEF BooksAgree, Taken, Given, Sold, ToActivate, Unserved, Unaccounted, Failed
<1>4. Refunds
  BY <1>1, <1>2 DEF Refunds, RefundsArePaidFor, DuesAreCovered, Given, Reimbursed, Failed
<1> QED
  BY <1>1, <1>3, <1>4, FS_EmptySet DEF Money

(* The invariant of the accounts (purchase.go, lifecycle.go).              *)
THEOREM MoneyHolds == PromotionsSpec => []Money
<1>1. PromotionsInit => Money
  BY InitMoney
<1>2. Rows /\ Rows' /\ Money /\ [PromotionsNext]_promotionVars => Money'
  BY MoneyStep DEF Rows
<1> QED
  BY RowsHold, <1>1, <1>2, PTL DEF PromotionsSpec

(* What the accounts say of purchases and refunds.                         *)
LEMMA MoneyMeans ==
  ASSUME Rows, Money
  PROVE  PurchasesAreBacked /\ CompensatedOrServed /\ NeverOverRefunded
<1>1. PurchasesAreBacked
  <2> SUFFICES ASSUME NEW ad \in Ad
               PROVE  /\ Sold(ad) <= Taken(ad)
                      /\ Taken(ad) <= Sold(ad) + Unaccounted(ad)
    BY DEF PurchasesAreBacked, Sold, Taken, Unaccounted
  <2> QED
    BY BookTypes DEF Rows, Money, BooksAgree
<1>2. CompensatedOrServed
  BY DEF CompensatedOrServed, Money, BooksAgree, Unhurt, Sold, Taken, Unserved, Failed, Given
<1>3. NeverOverRefunded
  <2> SUFFICES ASSUME NEW ad \in Ad, NEW i \in RowsOf(ad, Open)
               PROVE  LET p    == promos[i]
                          sold == spent[i].term
                      IN /\ RefundAmount(p) * sold <= p.amount * Unused(i)
                         /\ sold > 0 /\ p.ends = p.starts + sold =>
                              RefundAmount(p) = (p.amount * Unused(i)) \div sold
    BY DEF NeverOverRefunded
  <2>1. /\ i \in DOMAIN promos /\ promos[i].status \in Open
        /\ promos[i] \in Promo /\ spent[i] \in Term /\ now \in Nat
        /\ RowIsKept(promos[i], spent[i], now)
    BY RowTypes DEF RowsOf, Rows, RowsAreKept, PromotionsTypeOK
  <2> QED
    BY <2>1, RefundIsFair DEF Unused
<1> QED
  BY <1>1, <1>2, <1>3

(* Whatever requests, deliveries and faults do: what was taken for an ad   *)
(* pays for its rows, is given back if it brought none, and no row gives   *)
(* back more than its unserved days.                                       *)
THEOREM MoneyIsBacked == PromotionsSpec => [](PurchasesAreBacked /\ CompensatedOrServed /\ NeverOverRefunded)
<1>1. Rows /\ Money => PurchasesAreBacked /\ CompensatedOrServed /\ NeverOverRefunded
  BY MoneyMeans
<1> QED
  BY <1>1, RowsHold, MoneyHolds, PTL

(* With one consumer, nothing is given back beyond the closed rows and the *)
(* failed purchases either: the money of an ad is accounted for.           *)
THEOREM MoneyIsKept == OneConsumer => (PromotionsSpec => []MoneyIsAccountedFor)
<1> SUFFICES ASSUME OneConsumer PROVE PromotionsSpec => []MoneyIsAccountedFor
  OBVIOUS
<1>1. PromotionsInit => Refunds
  BY InitMoney
<1>2. Rows /\ Money /\ Refunds /\ [PromotionsNext]_promotionVars => Refunds'
  BY RefundsStep DEF Rows
<1>3. Rows /\ Money /\ Refunds => MoneyIsAccountedFor
  <2> SUFFICES ASSUME Rows, Money, Refunds PROVE MoneyIsAccountedFor
    OBVIOUS
  <2>1. RefundsWithinPurchases
    BY DEF Refunds, RefundsArePaidFor, RefundsWithinPurchases, Given, Reimbursed, Failed
  <2> QED
    BY <2>1, MoneyMeans DEF Rows, MoneyIsAccountedFor
<1> QED
  BY RowsHold, MoneyHolds, <1>1, <1>2, <1>3, PTL DEF PromotionsSpec

(***************************************************************************)
(* WalletRowLock.  The inductive invariant says that a transaction that    *)
(* has read or upserted a wallet holds its lock.  Two transactions then    *)
(* never hold the same wallet, so a commit changes no balance another one  *)
(* has checked.                                                            *)
(***************************************************************************)
HoldsWhatItRead ==
  \A x \in Tx : tx[x] # NoTx /\ tx[x].at # "begun" => holder[tx[x].job.user] = x

RowLockInv == RowLockTypeOK /\ HoldsWhatItRead /\ CheckedStaysCovered

(* The job of a running transaction has its types.                         *)
LEMMA JobOf ==
  ASSUME RowLockTypeOK, NEW x \in Tx, tx[x] # NoTx
  PROVE  /\ tx[x] \in Running /\ tx[x].job \in Job
         /\ tx[x].job.user \in User /\ tx[x].job.kind \in Kind
         /\ tx[x].job.amount \in Nat \ {0} /\ tx[x].job.ref \in Reference
         /\ x # Free
  BY RowLockAssumption DEF RowLockTypeOK, Running, Job

(* The invariant holds at the start.                                       *)
LEMMA RowLockInitial == RowLockInit => RowLockInv
  BY DEF RowLockInit, WalletInit, RowLockInv, RowLockTypeOK, WalletTypeOK, HoldsWhatItRead, CheckedStaysCovered, At

(* A step of x that moves x from one stage to another and leaves the       *)
(* wallets alone.                                                          *)
LEMMA MoveKeeps ==
  ASSUME RowLockInv, NEW x \in Tx, tx[x] # NoTx, NEW s \in {"read", "checked"}, MoveTo(x, s),
         UNCHANGED walletVars,
         \/ UNCHANGED holder /\ tx[x].at # "begun"
         \/ LockRow(x),
         s = "checked" /\ tx[x].job.kind = "purchase"
           => ~InsufficientFunds(tx[x].job.user, tx[x].job.amount)
  PROVE  RowLockInv'
<1> USE DEF RowLockInv
<1>1. /\ tx[x] \in Running /\ tx[x].job.user \in User /\ x # Free
  BY JobOf
<1> DEFINE r == [tx[x] EXCEPT !.at = s]
<1>2. r \in Running /\ r.at = s /\ r.job = tx[x].job /\ tx' = [tx EXCEPT ![x] = r]
  BY <1>1 DEF MoveTo, Running
<1>3. r # NoTx
  BY <1>2, RowLockAssumption
<1> HIDE DEF r
<1>4. /\ tx' \in [Tx -> Running \cup {NoTx}]
      /\ tx'[x] = r
      /\ \A y \in Tx \ {x} : tx'[y] = tx[y]
  BY <1>2 DEF RowLockTypeOK
<1>5. /\ holder' \in [User -> Tx \cup {Free}]
      /\ holder'[r.job.user] = x
      /\ \A u \in User : holder[u] # Free => holder'[u] = holder[u]
  BY <1>1, <1>2 DEF RowLockTypeOK, LockRow, HoldsWhatItRead
<1>6. RowLockTypeOK'
  BY <1>4, <1>5 DEF RowLockTypeOK, WalletTypeOK, walletVars
<1>7. HoldsWhatItRead'
  <2> SUFFICES ASSUME NEW y \in Tx, tx'[y] # NoTx, tx'[y].at # "begun"
               PROVE  holder'[tx'[y].job.user] = y
    BY DEF HoldsWhatItRead
  <2>1. CASE y = x
    BY <1>4, <1>5, <2>1
  <2>2. CASE y # x
    <3>1. tx'[y] = tx[y] /\ holder[tx[y].job.user] = y
      BY <1>4, <2>2 DEF HoldsWhatItRead
    <3>2. tx[y].job.user \in User /\ y # Free
      BY <3>1, JobOf
    <3> QED
      BY <1>5, <3>1, <3>2
  <2> QED
    BY <2>1, <2>2
<1>8. CheckedStaysCovered'
  BY <1>2, <1>4 DEF CheckedStaysCovered, At, InsufficientFunds, walletVars
<1> QED
  BY <1>6, <1>7, <1>8

(* The end of x: whatever x did to its wallet, nobody else has read it.    *)
LEMMA EndKeeps ==
  ASSUME RowLockInv, NEW x \in Tx, tx[x] # NoTx, End(x), WalletTypeOK',
         \A y \in Tx \ {x} : tx[y] # NoTx /\ tx[y].at # "begun"
           => /\ balance'[tx[y].job.user] = balance[tx[y].job.user]
              /\ version'[tx[y].job.user] = version[tx[y].job.user]
  PROVE  RowLockInv'
<1> USE DEF RowLockInv
<1>1. /\ tx' \in [Tx -> Running \cup {NoTx}]
      /\ tx'[x] = NoTx
      /\ \A y \in Tx \ {x} : tx'[y] = tx[y]
  BY DEF RowLockTypeOK, End
<1>2. /\ holder' \in [User -> Tx \cup {Free}]
      /\ \A u \in User : holder[u] # x => holder'[u] = holder[u]
  BY DEF RowLockTypeOK, End
<1>3. RowLockTypeOK'
  BY <1>1, <1>2 DEF RowLockTypeOK
<1>4. HoldsWhatItRead'
  BY <1>1, <1>2, JobOf DEF HoldsWhatItRead
<1>5. CheckedStaysCovered'
  BY <1>1 DEF CheckedStaysCovered, At, InsufficientFunds
<1> QED
  BY <1>3, <1>4, <1>5

(* Two transactions past their first statement are on different wallets.   *)
LEMMA Exclusive ==
  ASSUME RowLockInv, NEW x \in Tx, NEW y \in Tx \ {x},
         tx[x] # NoTx, tx[x].at # "begun", tx[y] # NoTx, tx[y].at # "begun"
  PROVE  tx[x].job.user # tx[y].job.user
  BY DEF RowLockInv, HoldsWhatItRead

(* A commit keeps the invariant: no other debit was checked on its wallet. *)
LEMMA CommitKeeps ==
  ASSUME RowLockInv, NEW x \in Tx, CommitTx(x)
  PROVE  RowLockInv'
<1> USE DEF RowLockInv
<1> DEFINE j == tx[x].job
<1>1. /\ tx[x] # NoTx /\ tx[x].at = "checked" /\ End(x)
      /\ \/ j.kind = "purchase" /\ Withdraw(j.user, j.amount, j.kind, j.ref)
         \/ j.kind # "purchase" /\ CreditTx(j.user, j.amount, j.kind, j.ref)
  BY DEF CommitTx, At
<1>2. /\ j.user \in User /\ j.kind \in Kind /\ j.amount \in Nat \ {0} /\ j.ref \in Reference
  BY <1>1, JobOf
<1>3. CASE j.kind = "purchase" /\ Withdraw(j.user, j.amount, j.kind, j.ref)
  <2>1. j.amount <= balance[j.user]
    BY <1>1, <1>2, <1>3 DEF CheckedStaysCovered, At, InsufficientFunds, RowLockTypeOK, WalletTypeOK
  <2>2. /\ balance' \in [User -> Nat] /\ version' \in [User -> Nat]
        /\ \A u \in User \ {j.user} : balance'[u] = balance[u] /\ version'[u] = version[u]
    BY <1>2, <1>3, <2>1 DEF Withdraw, RowLockTypeOK, WalletTypeOK
  <2>3. ledger' \in Seq(Operation)
    BY <1>2, <1>3 DEF Withdraw, RowLockTypeOK, WalletTypeOK, Operation, Account
  <2>4. WalletTypeOK'
    BY <2>2, <2>3 DEF WalletTypeOK
  <2> QED
    BY <1>1, <2>2, <2>4, EndKeeps, Exclusive, JobOf
<1>4. CASE j.kind # "purchase" /\ CreditTx(j.user, j.amount, j.kind, j.ref)
  <2>2. /\ balance' \in [User -> Nat] /\ version' \in [User -> Nat]
        /\ \A u \in User \ {j.user} : balance'[u] = balance[u] /\ version'[u] = version[u]
    BY <1>2, <1>4 DEF CreditTx, RowLockTypeOK, WalletTypeOK
  <2>3. ledger' \in Seq(Operation)
    BY <1>2, <1>4 DEF CreditTx, RowLockTypeOK, WalletTypeOK, Operation, Account
  <2>4. WalletTypeOK'
    BY <2>2, <2>3 DEF WalletTypeOK
  <2> QED
    BY <1>1, <2>2, <2>4, EndKeeps, Exclusive, JobOf
<1> QED
  BY <1>1, <1>3, <1>4

(* Every step keeps the invariant.                                         *)
LEMMA RowLockInductive == RowLockInv /\ [RowLockNext]_rowLockVars => RowLockInv'
<1> SUFFICES ASSUME RowLockInv, [RowLockNext]_rowLockVars PROVE RowLockInv'
  OBVIOUS
<1> USE DEF RowLockInv
<1>1. ASSUME NEW x \in Tx, NEW j \in Job, Begin(x, j) PROVE RowLockInv'
  <2> DEFINE r == [job |-> j, at |-> "begun"]
  <2>1. r \in Running /\ r.at = "begun" /\ tx' = [tx EXCEPT ![x] = r]
    BY <1>1 DEF Begin, Running
  <2> HIDE DEF r
  <2>2. /\ tx' \in [Tx -> Running \cup {NoTx}]
        /\ tx'[x].at = "begun"
        /\ \A y \in Tx \ {x} : tx'[y] = tx[y]
    BY <2>1 DEF RowLockTypeOK
  <2>3. UNCHANGED <<balance, version, ledger, holder>>
    BY <1>1 DEF Begin, walletVars
  <2>4. RowLockTypeOK'
    BY <2>2, <2>3 DEF RowLockTypeOK, WalletTypeOK
  <2>5. HoldsWhatItRead'
    BY <2>2, <2>3 DEF HoldsWhatItRead
  <2>6. CheckedStaysCovered'
    BY <2>2, <2>3 DEF CheckedStaysCovered, At, InsufficientFunds
  <2> QED
    BY <2>4, <2>5, <2>6
<1>2. ASSUME NEW x \in Tx, SelectForUpdate(x) PROVE RowLockInv'
  BY <1>2, MoveKeeps DEF SelectForUpdate, At
<1>3. ASSUME NEW x \in Tx, Upsert(x) PROVE RowLockInv'
  BY <1>3, MoveKeeps DEF Upsert, At
<1>4. ASSUME NEW x \in Tx, CheckBalance(x) PROVE RowLockInv'
  BY <1>4, MoveKeeps DEF CheckBalance, At
<1>5. ASSUME NEW x \in Tx, CommitTx(x) PROVE RowLockInv'
  BY <1>5, CommitKeeps
<1>6. ASSUME NEW x \in Tx, Rollback(x) PROVE RowLockInv'
  <2>1. WalletTypeOK' /\ UNCHANGED <<balance, version>>
    BY <1>6 DEF Rollback, RowLockTypeOK, WalletTypeOK, walletVars
  <2> QED
    BY <1>6, <2>1, EndKeeps DEF Rollback
<1>7. CASE UNCHANGED rowLockVars
  BY <1>7 DEF rowLockVars, walletVars, RowLockTypeOK, WalletTypeOK, HoldsWhatItRead, CheckedStaysCovered,
              At, InsufficientFunds
<1> QED
  BY <1>1, <1>2, <1>3, <1>4, <1>5, <1>6, <1>7 DEF RowLockNext

-----------------------------------------------------------------------------
(* The lock discipline and the types hold of every behaviour.              *)
THEOREM Locked == RowLockSpec => []RowLockInv
  BY RowLockInitial, RowLockInductive, PTL DEF RowLockSpec

(* A balance that Debit found sufficient is still sufficient when it is    *)
(* debited.                                                                *)
THEOREM CheckedCovered == RowLockSpec => []CheckedStaysCovered
  BY Locked, PTL DEF RowLockInv

(* Interleaved transactions change the wallets as credits and covered      *)
(* debits run one at a time would; in particular no balance is overdrawn.  *)
THEOREM Serializable == RowLockSpec => ImplementsSerialWallet
<1>1. RowLockInit => WalletInit
  BY DEF RowLockInit
<1>2. RowLockInv /\ [RowLockNext]_rowLockVars => [SerialNext]_walletVars
  <2> SUFFICES ASSUME RowLockInv, [RowLockNext]_rowLockVars PROVE [SerialNext]_walletVars
    OBVIOUS
  <2>1. ASSUME NEW x \in Tx, CommitTx(x) PROVE SerialNext
    <3> DEFINE j == tx[x].job
    <3>1. tx[x] # NoTx /\ j \in Job
      BY <2>1, JobOf DEF CommitTx, At, RowLockInv
    <3>2. j.user \in User /\ j.ref \in Reference /\ j.kind \in Kind /\ j.amount \in Amounts
      BY <3>1 DEF Job
    <3>3. CASE j.kind # "purchase" /\ CreditTx(j.user, j.amount, j.kind, j.ref)
      BY <3>2, <3>3 DEF SerialNext
    <3>4. CASE j.kind = "purchase" /\ Withdraw(j.user, j.amount, j.kind, j.ref)
      <4>1. ~InsufficientFunds(j.user, j.amount)
        BY <2>1, <3>1, <3>4 DEF RowLockInv, CheckedStaysCovered, CommitTx
      <4> QED
        BY <3>2, <3>4, <4>1 DEF SerialNext, DebitTx
    <3> QED
      BY <2>1, <3>3, <3>4 DEF CommitTx
  <2>2. ASSUME NEW x \in Tx,
               \/ \E j \in Job : Begin(x, j)
               \/ SelectForUpdate(x) \/ Upsert(x) \/ CheckBalance(x) \/ Rollback(x)
        PROVE  UNCHANGED walletVars
    BY <2>2 DEF Begin, SelectForUpdate, Upsert, CheckBalance, Rollback
  <2>3. CASE UNCHANGED rowLockVars
    BY <2>3 DEF rowLockVars
  <2> QED
    BY <2>1, <2>2, <2>3 DEF RowLockNext
<1> QED
  BY Locked, <1>1, <1>2, PTL DEF RowLockSpec, ImplementsSerialWallet, SerialWallet

(***************************************************************************)
(* BumpSchedule.  The inductive invariant ties the table bump_runs to the  *)
(* instances: a day that an instance is at is on record and not written    *)
(* off, and a day that was raised and answered stays on record, where      *)
(* nobody claims it.                                                       *)
(***************************************************************************)
(* Whoever is at a day has claimed it, and has not left it behind.         *)
ClaimIsOnRecord ==
  \A i \in Instance : run[i] # NoRun => run[i].day \in bumpRuns \ forsaken

(* A day that was raised, and answered, is on record and nobody is at it.  *)
RaisedStaysOnRecord ==
  \A x \in DueBump \ unanswered : raised[x] > 0 =>
    x \in bumpRuns /\ \A i \in Instance : run[i] # NoRun => run[i].day # x

BumpInv ==
  /\ BumpTypeOK
  /\ ClaimIsOnRecord
  /\ ClaimIsExclusive
  /\ RaisedStaysOnRecord
  /\ RaisedAtMostOnce
  /\ RunMeansExecuted

Claim == [day : DueBump, next : {"bump", "release"}]

(* A claim is not the absence of one, whatever becomes of it.              *)
LEMMA ClaimIsNotNone == \A c \in Claim : c # NoRun /\ c.day \in DueBump
  BY BumpAssumption DEF Claim

(* A fault spends one of its chances.                                      *)
LEMMA SpendKeepsType ==
  ASSUME budget \in [Chance -> Nat], NEW chance \in Chance, May(chance), Spend(chance)
  PROVE  budget' \in [Chance -> Nat]
  BY DEF May, Spend

(* Before the first sweep no day is done.                                  *)
LEMMA BumpInitial == BumpInit => BumpInv
  BY BumpAssumption
  DEF BumpInit, BumpInv, BumpTypeOK, ClaimIsOnRecord, ClaimIsExclusive, RaisedStaysOnRecord,
      RaisedAtMostOnce, RunMeansExecuted

(* What the parts of the invariant about claims speak of.                  *)
claimVars == <<bumpRuns, raised, skipped, run, unanswered, forsaken>>

(* What touches no claim keeps the invariant.                              *)
LEMMA ClaimsKept ==
  ASSUME BumpInv, UNCHANGED claimVars, BumpTypeOK'
  PROVE  BumpInv'
  BY DEF BumpInv, claimVars, ClaimIsOnRecord, ClaimIsExclusive, RaisedStaysOnRecord,
         RaisedAtMostOnce, RunMeansExecuted

(* Time, the end of a promotion and the fate of its ad touch no claim.     *)
LEMMA WorldKeeps == ASSUME BumpInv, World PROVE BumpInv'
<1> USE DEF BumpInv
<1>1. UNCHANGED claimVars /\ UNCHANGED batch
  BY DEF World, claimVars, history
<1>2. BumpTypeOK'
  <2>1. CASE NextDay
    BY <1>1, <2>1, BumpAssumption DEF NextDay, BumpTypeOK, claimVars
  <2>2. ASSUME NEW p \in Promotion, SetStatus(p) PROVE BumpTypeOK'
    BY <1>1, <2>2, SpendKeepsType DEF SetStatus, BumpTypeOK, claimVars, Chance
  <2>3. ASSUME NEW p \in Promotion, SetLive(p) PROVE BumpTypeOK'
    BY <1>1, <2>3, SpendKeepsType DEF SetLive, BumpTypeOK, claimVars, Chance
  <2> QED
    BY <2>1, <2>2, <2>3 DEF World
<1> QED
  BY <1>1, <1>2, ClaimsKept

(* A sweep claims days that are due and new.                               *)
LEMMA SweepKeeps == ASSUME BumpInv, NEW i \in Instance, Sweep(i) PROVE BumpInv'
<1> USE DEF BumpInv
<1>1. UNCHANGED claimVars /\ UNCHANGED worldVars /\ UNCHANGED budget
  BY DEF Sweep, Safely, claimVars, history
<1>2. \E q \in SUBSET DueBump : batch' = [batch EXCEPT ![i] = q]
  BY DEF Sweep, Oldest, DueBumps
<1>3. BumpTypeOK'
  BY <1>1, <1>2 DEF BumpTypeOK, worldVars, claimVars
<1> QED
  BY <1>1, <1>3, ClaimsKept

(* A day is claimed only if it is not on record: nobody is at it, and it   *)
(* has not been raised.                                                    *)
LEMMA ClaimBumpKeeps == ASSUME BumpInv, NEW i \in Instance, ClaimBump(i) PROVE BumpInv'
<1> USE DEF BumpInv
<1>0. run[i] = NoRun
  BY DEF ClaimBump
<1>1. PICK x \in batch[i] :
        /\ batch' = [batch EXCEPT ![i] = @ \ {x}]
        /\ \/ /\ x \notin bumpRuns
              /\ bumpRuns' = bumpRuns \cup {x}
              /\ run' = [run EXCEPT ![i] = [day |-> x, next |-> "bump"]]
           \/ x \in bumpRuns /\ UNCHANGED <<bumpRuns, run>>
  BY DEF ClaimBump
<1>2. UNCHANGED worldVars /\ UNCHANGED <<raised, skipped, budget, unanswered, forsaken>>
  BY DEF ClaimBump, Safely, history
<1>3. x \in DueBump /\ batch' \in [Instance -> SUBSET DueBump]
  BY <1>1 DEF BumpTypeOK
<1>4. CASE UNCHANGED <<bumpRuns, run>>
  BY <1>2, <1>3, <1>4, ClaimsKept DEF BumpTypeOK, worldVars, claimVars
<1>5. CASE x \notin bumpRuns /\ bumpRuns' = bumpRuns \cup {x}
           /\ run' = [run EXCEPT ![i] = [day |-> x, next |-> "bump"]]
  <2> DEFINE c == [day |-> x, next |-> "bump"]
  <2>1. c \in Claim /\ c # NoRun /\ c.day = x
    BY <1>3, ClaimIsNotNone DEF Claim
  <2>2. run'[i] = c /\ \A j \in Instance \ {i} : run'[j] = run[j]
    BY <1>5 DEF BumpTypeOK
  <2>3. BumpTypeOK'
    BY <1>2, <1>3, <1>5, <2>1 DEF BumpTypeOK, worldVars, Claim
  <2>4. \A j \in Instance : run[j] # NoRun => run[j].day # x
    BY <1>5 DEF ClaimIsOnRecord
  <2> HIDE DEF c
  <2>5. ClaimIsOnRecord'
    BY <1>2, <1>5, <2>1, <2>2 DEF ClaimIsOnRecord, BumpTypeOK
  <2>6. ClaimIsExclusive'
    BY <2>1, <2>2, <2>4 DEF ClaimIsExclusive
  <2>7. RaisedStaysOnRecord' /\ RaisedAtMostOnce'
    BY <1>2, <1>5, <2>1, <2>2 DEF RaisedStaysOnRecord, RaisedAtMostOnce
  <2>8. RunMeansExecuted'
    BY <1>0, <1>2, <1>5, <2>1, <2>2 DEF RunMeansExecuted
  <2> QED
    BY <2>3, <2>5, <2>6, <2>7, <2>8
<1> QED
  BY <1>1, <1>4, <1>5

(* An instance gives up the day it is at, by an answer, an end or a death. *)
LEMMA AtADay ==
  ASSUME BumpTypeOK, NEW i \in Instance, run[i] # NoRun
  PROVE  run[i] \in Claim /\ run[i].day \in DueBump
  BY DEF BumpTypeOK, Claim

(* A claim that Listing has raised is done.                                *)
LEMMA BumpRaisedKeeps == ASSUME BumpInv, NEW i \in Instance, BumpRaised(i) PROVE BumpInv'
<1> USE DEF BumpInv
<1> DEFINE x == run[i].day
<1>1. /\ run[i] # NoRun /\ raised' = [raised EXCEPT ![x] = @ + 1]
      /\ UNCHANGED worldVars /\ UNCHANGED <<bumpRuns, skipped, batch, forsaken>>
  BY DEF BumpRaised, Safely, history
<1>2. run[i] \in Claim /\ x \in DueBump
  BY <1>1, AtADay
<1>3. /\ x \in bumpRuns \ forsaken
      /\ \A j \in Instance \ {i} : run[j] # NoRun => run[j].day # x
  BY <1>1 DEF ClaimIsOnRecord, ClaimIsExclusive
<1>4. /\ raised' \in [DueBump -> Nat] /\ raised'[x] = raised[x] + 1
      /\ \A y \in DueBump \ {x} : raised'[y] = raised[y]
  BY <1>1, <1>2 DEF BumpTypeOK
<1>5. RunMeansExecuted'
  <2> SUFFICES ASSUME NEW y \in bumpRuns' \ forsaken'
               PROVE  \/ raised'[y] > 0 \/ y \in skipped'
                      \/ \E j \in Instance : run'[j] # NoRun /\ run'[j].day = y
    BY DEF RunMeansExecuted
  <2>1. CASE y = x
    BY <1>2, <1>4, <2>1 DEF BumpTypeOK
  <2>2. CASE y # x
    <3>1. y \in DueBump /\ raised'[y] = raised[y] /\ y \in bumpRuns \ forsaken
      BY <1>1, <1>4, <2>2 DEF BumpTypeOK
    <3>2. \A j \in Instance : run[j] # NoRun /\ run[j].day = y => run'[j] = run[j]
      BY <2>2 DEF BumpRaised, Answered, RequestFailed, BumpTypeOK
    <3> QED
      BY <1>1, <3>1, <3>2 DEF RunMeansExecuted
  <2> QED
    BY <2>1, <2>2
<1>6. CASE Answered(i) /\ Safely
  <2>1. run'[i] = NoRun /\ \A j \in Instance \ {i} : run'[j] = run[j]
    BY <1>6 DEF Answered, BumpTypeOK
  <2>2. UNCHANGED <<budget, unanswered>>
    BY <1>6 DEF Safely, history
  <2>3. BumpTypeOK'
    BY <1>1, <1>4, <1>6, <2>2 DEF BumpTypeOK, Answered, worldVars
  <2>4. ClaimIsOnRecord' /\ ClaimIsExclusive'
    BY <1>1, <2>1 DEF ClaimIsOnRecord, ClaimIsExclusive
  <2>5. x \notin unanswered => raised[x] = 0
    BY <1>1, <1>2 DEF RaisedStaysOnRecord, BumpTypeOK
  <2>6. RaisedAtMostOnce'
    BY <1>2, <1>4, <2>2, <2>5 DEF RaisedAtMostOnce
  <2>7. RaisedStaysOnRecord'
    BY <1>1, <1>3, <1>4, <2>1, <2>2 DEF RaisedStaysOnRecord
  <2> QED
    BY <1>5, <2>3, <2>4, <2>6, <2>7
<1>7. CASE /\ May("lost") /\ Spend("lost") /\ RequestFailed(i)
           /\ unanswered' = unanswered \cup {x}
  <2> DEFINE c == [run[i] EXCEPT !.next = "release"]
  <2>1. c \in Claim /\ c # NoRun /\ c.day = x
    BY <1>2, ClaimIsNotNone DEF Claim
  <2>2. run'[i] = c /\ \A j \in Instance \ {i} : run'[j] = run[j]
    BY <1>7 DEF RequestFailed, BumpTypeOK
  <2>3. run' \in [Instance -> Claim \cup {NoRun}]
    BY <1>7, <2>1 DEF RequestFailed, BumpTypeOK, Claim
  <2>4. BumpTypeOK'
    BY <1>1, <1>2, <1>4, <1>7, <2>3, SpendKeepsType DEF BumpTypeOK, Claim, Chance, worldVars
  <2> HIDE DEF c
  <2>5. ClaimIsOnRecord' /\ ClaimIsExclusive'
    BY <1>1, <1>3, <2>1, <2>2 DEF ClaimIsOnRecord, ClaimIsExclusive
  <2>6. RaisedAtMostOnce'
    BY <1>4, <1>7 DEF RaisedAtMostOnce
  <2>7. RaisedStaysOnRecord'
    BY <1>1, <1>4, <1>7, <2>1, <2>2 DEF RaisedStaysOnRecord
  <2> QED
    BY <1>5, <2>4, <2>5, <2>6, <2>7
<1> QED
  BY <1>6, <1>7 DEF BumpRaised

(* A claim whose ad cannot be raised is done.                              *)
LEMMA BumpSkippedKeeps == ASSUME BumpInv, NEW i \in Instance, BumpSkipped(i) PROVE BumpInv'
<1> USE DEF BumpInv
<1> DEFINE x == run[i].day
<1>1. /\ run[i] # NoRun /\ skipped' = skipped \cup {x} /\ Answered(i)
      /\ UNCHANGED worldVars
      /\ UNCHANGED <<bumpRuns, raised, batch, budget, unanswered, forsaken>>
  BY DEF BumpSkipped, Safely, history
<1>2. x \in DueBump
  BY <1>1, AtADay
<1>3. run'[i] = NoRun /\ \A j \in Instance \ {i} : run'[j] = run[j]
  BY <1>1 DEF Answered, BumpTypeOK
<1>4. BumpTypeOK'
  BY <1>1, <1>2 DEF BumpTypeOK, Answered, worldVars
<1>5. ClaimIsOnRecord' /\ ClaimIsExclusive' /\ RaisedStaysOnRecord' /\ RaisedAtMostOnce'
  BY <1>1, <1>3 DEF ClaimIsOnRecord, ClaimIsExclusive, RaisedStaysOnRecord, RaisedAtMostOnce
<1>6. RunMeansExecuted'
  BY <1>1, <1>3 DEF RunMeansExecuted
<1> QED
  BY <1>4, <1>5, <1>6

(* A refused claim is given back, or its release fails.                    *)
LEMMA BumpRefusedKeeps == ASSUME BumpInv, NEW i \in Instance, BumpRefused(i) PROVE BumpInv'
<1> USE DEF BumpInv
<1> DEFINE c == [run[i] EXCEPT !.next = "release"]
<1>1. /\ run[i] # NoRun /\ RequestFailed(i) /\ UNCHANGED worldVars
      /\ UNCHANGED <<bumpRuns, raised, skipped, batch, budget, unanswered, forsaken>>
  BY DEF BumpRefused, Safely, history
<1>2. c \in Claim /\ c # NoRun /\ c.day = run[i].day
  BY <1>1, AtADay, ClaimIsNotNone DEF Claim
<1>3. run'[i] = c /\ \A j \in Instance \ {i} : run'[j] = run[j]
  BY <1>1 DEF RequestFailed, BumpTypeOK
<1>4. BumpTypeOK'
  BY <1>1, <1>2 DEF BumpTypeOK, RequestFailed, worldVars, Claim
<1> HIDE DEF c
<1>5. \A j \in Instance : /\ run'[j] # NoRun <=> run[j] # NoRun
                          /\ run[j] # NoRun => run'[j].day = run[j].day
  BY <1>1, <1>2, <1>3
<1>6. ClaimIsOnRecord' /\ ClaimIsExclusive' /\ RaisedStaysOnRecord' /\ RaisedAtMostOnce'
  BY <1>1, <1>5 DEF ClaimIsOnRecord, ClaimIsExclusive, RaisedStaysOnRecord, RaisedAtMostOnce
<1>7. RunMeansExecuted'
  BY <1>1, <1>5 DEF RunMeansExecuted
<1> QED
  BY <1>4, <1>6, <1>7

(* Giving a day back, or leaving it behind: it was claimed by nobody else, *)
(* and it has not been raised, or the answer was lost.                     *)
LEMMA ReleaseBumpKeeps == ASSUME BumpInv, NEW i \in Instance, ReleaseBump(i) PROVE BumpInv'
<1> USE DEF BumpInv
<1> DEFINE x == run[i].day
<1>1. /\ run[i] # NoRun /\ Answered(i) /\ UNCHANGED worldVars
      /\ UNCHANGED <<raised, skipped, batch, unanswered>>
      /\ \/ bumpRuns' = bumpRuns \ {x} /\ UNCHANGED <<budget, forsaken>>
         \/ /\ May("release") /\ Spend("release")
            /\ forsaken' = forsaken \cup {x} /\ UNCHANGED bumpRuns
  BY DEF ReleaseBump, Safely, history
<1>2. x \in DueBump /\ x \in bumpRuns \ forsaken
  BY <1>1, AtADay DEF ClaimIsOnRecord
<1>3. run'[i] = NoRun /\ \A j \in Instance \ {i} : run'[j] = run[j]
  BY <1>1 DEF Answered, BumpTypeOK
<1>4. \A j \in Instance : run'[j] # NoRun => run'[j] = run[j] /\ run[j].day # x
  BY <1>1, <1>3 DEF ClaimIsExclusive
<1>5. BumpTypeOK'
  BY <1>1, <1>2, SpendKeepsType DEF BumpTypeOK, Answered, worldVars, Chance
<1>6. ClaimIsOnRecord' /\ ClaimIsExclusive' /\ RaisedAtMostOnce'
  BY <1>1, <1>4 DEF ClaimIsOnRecord, ClaimIsExclusive, RaisedAtMostOnce
<1>7. RaisedStaysOnRecord'
  BY <1>1, <1>2, <1>4 DEF RaisedStaysOnRecord
<1>8. RunMeansExecuted'
  BY <1>1, <1>3 DEF RunMeansExecuted
<1> QED
  BY <1>5, <1>6, <1>7, <1>8

(* A crash leaves the claims of its instance behind.                       *)
LEMMA CrashKeeps == ASSUME BumpInv, NEW i \in Instance, InstanceCrash(i) PROVE BumpInv'
<1> USE DEF BumpInv
<1>1. /\ run' = [run EXCEPT ![i] = NoRun] /\ batch' = [batch EXCEPT ![i] = {}]
      /\ forsaken' = IF run[i] = NoRun THEN forsaken ELSE forsaken \cup {run[i].day}
      /\ UNCHANGED worldVars /\ UNCHANGED <<bumpRuns, raised, skipped, unanswered>>
      /\ budget' \in [Chance -> Nat]
  BY SpendKeepsType DEF InstanceCrash, BumpTypeOK, Chance
<1>2. run[i] # NoRun => run[i].day \in bumpRuns
  BY DEF ClaimIsOnRecord
<1>3. run'[i] = NoRun /\ \A j \in Instance \ {i} : run'[j] = run[j]
  BY <1>1 DEF BumpTypeOK
<1>4. \A j \in Instance : run'[j] # NoRun =>
         run'[j] = run[j] /\ run[j].day \notin forsaken'
  BY <1>1, <1>3 DEF ClaimIsOnRecord, ClaimIsExclusive
<1>5. BumpTypeOK'
  BY <1>1, <1>2 DEF BumpTypeOK, worldVars
<1>6. ClaimIsOnRecord' /\ ClaimIsExclusive' /\ RaisedAtMostOnce' /\ RaisedStaysOnRecord'
  BY <1>1, <1>4
  DEF ClaimIsOnRecord, ClaimIsExclusive, RaisedAtMostOnce, RaisedStaysOnRecord
<1>7. RunMeansExecuted'
  BY <1>1, <1>3 DEF RunMeansExecuted
<1> QED
  BY <1>5, <1>6, <1>7

(* Every step keeps the invariant.                                         *)
LEMMA NextInv == BumpInv /\ [BumpNext]_bumpVars => BumpInv'
<1> SUFFICES ASSUME BumpInv, [BumpNext]_bumpVars PROVE BumpInv'
  OBVIOUS
<1>1. CASE World
  BY <1>1, WorldKeeps
<1>2. ASSUME NEW i \in Instance, Work(i) \/ InstanceCrash(i) PROVE BumpInv'
  BY <1>2, SweepKeeps, ClaimBumpKeeps, BumpRaisedKeeps, BumpSkippedKeeps,
     BumpRefusedKeeps, ReleaseBumpKeeps, CrashKeeps DEF Work
<1>3. CASE UNCHANGED bumpVars
  BY <1>3, ClaimsKept DEF bumpVars, history, claimVars, BumpInv, BumpTypeOK
<1> QED
  BY <1>1, <1>2, <1>3 DEF BumpNext

-----------------------------------------------------------------------------
(* Two instances are never at the same day, a day is raised at most once   *)
(* unless Listing's answer was lost, and a day on record is somebody's,    *)
(* done, or one that a fault has left behind (claim, request and release   *)
(* of worker/bump.go).                                                     *)
THEOREM DaysAreExecutedOnce == BumpSpec => []EachDayOnce
<1>1. BumpInv => EachDayOnce
  BY DEF BumpInv, EachDayOnce
<1> QED
  BY <1>1, BumpInitial, NextInv, PTL DEF BumpSpec

(* A day once raised and answered is never given back, so that no later    *)
(* sweep of any instance selects it (DueBumps of repo/ad_promotion.go).    *)
THEOREM RaisedIsNeverDueAgain ==
  BumpSpec => [](\A x \in DueBump \ unanswered : raised[x] > 0 => x \notin DueBumps)
<1>1. BumpInv => \A x \in DueBump \ unanswered : raised[x] > 0 => x \notin DueBumps
  BY DEF BumpInv, RaisedStaysOnRecord, DueBumps
<1> QED
  BY <1>1, BumpInitial, NextInv, PTL DEF BumpSpec
=============================================================================
