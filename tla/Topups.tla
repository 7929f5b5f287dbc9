------------------------------- MODULE Topups -------------------------------
(***************************************************************************)
(* Topping up a wallet through a payment provider                          *)
(* (services/payments/internal: app/payment.go, repo/payment.go,           *)
(* provider/payme, provider/click, provider/mock).                         *)
(*                                                                         *)
(* A user opens a payment (InitTopup); the provider then calls back, as    *)
(* often and from as many connections as it likes.  A callback is served   *)
(* by a handler, a goroutine of some replica of the service: it reads the  *)
(* payment, decides on the row it has READ, and only then runs the one     *)
(* database transaction that binds, confirms or cancels the payment.       *)
(* Between the two steps any other handler may run; that is the            *)
(* interleaving this module is about.  A handler may also fail at the      *)
(* second step, or commit it and lose the reply.                           *)
(*                                                                         *)
(* payments  the table payments: NoRow or the row                          *)
(* paymentEvents    the rows of the table outbox, in order of insertion    *)
(* handler   NoCall, or the write the handler has decided on               *)
(* answered  what the providers were told about each payment               *)
(*                                                                         *)
(* The signature checks, JSON and logging are left out; a provider is not  *)
(* restricted to the payments opened with it, since ByID of the code is    *)
(* not either.                                                             *)
(***************************************************************************)
EXTENDS Wallet, FiniteSetsExt

CONSTANTS Payment,        \* ids of payments
          Txn,            \* ids of transactions at the providers
          Handler,        \* handlers that may run at the same time
          Amount,         \* amounts (UZS) a user may ask to top up
          RequestTiyin,   \* amounts (tiyin) a callback may carry
          TopupMin, TopupMax,
          NoTxn, NoRow, NoCall

VARIABLES payments, paymentEvents, handler, answered

topupVars == <<payments, paymentEvents, handler, answered>>
paymentVars == <<walletVars, topupVars>>

Provider == {"mock", "payme", "click"}

Status == {"pending", "succeeded", "failed", "canceled"}

TiyinPerUZS == 100

(* "mock-" + id of the payment *)
MockTxn(p) == <<"mock", p>>

External == Txn \cup {MockTxn(p) : p \in Payment}

Row == [user     : User,
        provider : Provider,
        amount   : Nat \ {0},
        status   : Status,
        external : External \cup {NoTxn}]

(* A write a handler has decided on.                                       *)
Call == [write   : {"bind", "confirm", "cancel"},
         payment : Payment,
         txn     : External]

(* state 1, 2, -1 of Payme; Success to a Prepare (1) or Complete (2) of    *)
(* Click.                                                                  *)
Answer == [state : {"created", "performed", "canceled"}, payment : Payment]

Event == [subject : {"payment.succeeded", "payment.failed"}, payment : Payment]

ASSUME TopupAssumption ==
  /\ Payment \subseteq Reference
  /\ Amount \subseteq Nat
  /\ TopupMin \in Nat \ {0}
  /\ TopupMax \in Nat
  /\ NoRow \notin Row
  /\ NoCall \notin Call
  /\ NoTxn \notin External

TopupsTypeOK ==
  /\ WalletTypeOK
  /\ payments \in [Payment -> Row \cup {NoRow}]
  /\ paymentEvents \in Seq(Event)
  /\ handler \in [Handler -> Call \cup {NoCall}]
  /\ answered \subseteq Answer

TopupsInit ==
  /\ WalletInit
  /\ payments = [p \in Payment |-> NoRow]
  /\ paymentEvents = <<>>
  /\ handler = [h \in Handler |-> NoCall]
  /\ answered = {}

-----------------------------------------------------------------------------
Exists(p) == payments[p] # NoRow

StatusIs(p, s) == Exists(p) /\ payments[p].status = s

IsTerminal(p) == Exists(p) /\ payments[p].status # "pending"

(* GetPaymentByExternal *)
FoundByExternal(provider, t) ==
  {p \in Payment : Exists(p) /\ payments[p].provider = provider /\ payments[p].external = t}

(* The unique index on (provider, external_id) lets p take t.              *)
IndexAllows(p, t) == FoundByExternal(payments[p].provider, t) \subseteq {p}

PaymeAmountMatches(tiyin, n) == tiyin = n * TiyinPerUZS

(* |amount - n| < 0.5 on the sum in UZS                                    *)
ClickAmountMatches(tiyin, n) ==
  /\ tiyin - n * TiyinPerUZS < 50
  /\ n * TiyinPerUZS - tiyin < 50

Decide(h, write, p, t) ==
  /\ handler[h] = NoCall
  /\ handler' = [handler EXCEPT ![h] = [write |-> write, payment |-> p, txn |-> t]]
  /\ UNCHANGED <<walletVars, payments, paymentEvents, answered>>

Tell(state, p) == answered' = answered \cup {[state |-> state, payment |-> p]}

-----------------------------------------------------------------------------
(* POST /wallet/topup *)
InitTopup(p, u, provider, n) ==
  /\ n >= TopupMin /\ n <= TopupMax
  /\ ~Exists(p)
  /\ payments' = [payments EXCEPT ![p] =
        [user |-> u, provider |-> provider, amount |-> n, status |-> "pending", external |-> NoTxn]]
  /\ UNCHANGED <<walletVars, paymentEvents, handler, answered>>

-----------------------------------------------------------------------------
(* Payme: the reads, each with the checks made on the row that was read.   *)

PaymeCreate(h, p, t, tiyin) ==
  /\ Exists(p)
  /\ PaymeAmountMatches(tiyin, payments[p].amount)
  /\ payments[p].external \in {NoTxn, t}
  /\ payments[p].status = "pending"
  /\ Decide(h, "bind", p, t)

PaymePerform(h, t) ==
  \E p \in FoundByExternal("payme", t) : Decide(h, "confirm", p, t)

PaymeCancel(h, t) ==
  \E p \in FoundByExternal("payme", t) : Decide(h, "cancel", p, t)

StateOf(status) ==
  CASE status = "pending"   -> "created"
    [] status = "succeeded" -> "performed"
    [] OTHER                -> "canceled"

PaymeCheck(t) ==
  \E p \in FoundByExternal("payme", t) :
    /\ Tell(StateOf(payments[p].status), p)
    /\ UNCHANGED <<walletVars, payments, paymentEvents, handler>>

-----------------------------------------------------------------------------
(* Click: Prepare looks at the status, not at the transaction the payment  *)
(* is bound to; Complete looks at neither.                                 *)

ClickPrepare(h, p, t, tiyin) ==
  /\ Exists(p)
  /\ ClickAmountMatches(tiyin, payments[p].amount)
  /\ payments[p].status = "pending"
  /\ Decide(h, "bind", p, t)

ClickComplete(h, p, t, tiyin) ==
  /\ Exists(p)
  /\ ClickAmountMatches(tiyin, payments[p].amount)
  /\ Decide(h, "confirm", p, t)

(* POST /payments/{id}/confirm-mock *)
ConfirmMock(h, p) ==
  /\ Exists(p)
  /\ payments[p].provider = "mock"
  /\ Decide(h, "confirm", p, MockTxn(p))

-----------------------------------------------------------------------------
(* The writes, one database transaction each.                              *)

(* Mutant of SetExternalID: the WHERE does not look at the transaction the *)
(* payment is bound to.                                                    *)
SetExternalIDRebinds(p, t) ==
  LET hit == payments[p].status = "pending" IN
  /\ hit => IndexAllows(p, t)
  /\ payments' = IF hit THEN [payments EXCEPT ![p].external = t] ELSE payments
  /\ UNCHANGED <<walletVars, paymentEvents>>

(* SetExternalID: an UPDATE whose WHERE may match no row; the number of    *)
(* rows is not looked at.                                                  *)
SetExternalID(p, t) ==
  LET hit == payments[p].status = "pending" /\ payments[p].external \in {NoTxn, t} IN
  /\ hit => IndexAllows(p, t)
  /\ payments' = IF hit THEN [payments EXCEPT ![p].external = t] ELSE payments
  /\ UNCHANGED <<walletVars, paymentEvents>>

(* The effect of a confirmation.                                           *)
Confirmed(p, t) ==
  /\ IndexAllows(p, t)
  /\ payments' = [payments EXCEPT ![p].status = "succeeded", ![p].external = t]
  /\ CreditTx(payments[p].user, payments[p].amount, "topup", p)
  /\ paymentEvents' = Append(paymentEvents, [subject |-> "payment.succeeded", payment |-> p])

(* Mutants of ConfirmPending: the status is not looked at, or a canceled   *)
(* payment passes.                                                         *)
ConfirmAny(p, t) == Confirmed(p, t)

ConfirmCanceled(p, t) == payments[p].status # "succeeded" /\ Confirmed(p, t)

(* ConfirmPayment, of a payment still pending: the only credit.            *)
ConfirmPending(p, t) ==
  /\ payments[p].status = "pending"
  /\ Confirmed(p, t)

(* Mutant of CancelPending: the status is not looked at.                   *)
CancelAny(p) ==
  /\ payments' = [payments EXCEPT ![p].status = "canceled"]
  /\ paymentEvents' = Append(paymentEvents, [subject |-> "payment.failed", payment |-> p])
  /\ UNCHANGED walletVars

(* FailPayment(canceled), of a payment still pending.                      *)
CancelPending(p) ==
  /\ payments[p].status = "pending"
  /\ payments' = [payments EXCEPT ![p].status = "canceled"]
  /\ paymentEvents' = Append(paymentEvents, [subject |-> "payment.failed", payment |-> p])
  /\ UNCHANGED walletVars

(* Mutant of AlreadyTerminal: a statement that changes nothing is taken    *)
(* for one that found the payment terminal.                                *)
TakenForTerminal(p) == UNCHANGED <<walletVars, payments, paymentEvents>>

(* Either of them finds the payment terminal: it returns the current row   *)
(* and no error.                                                           *)
AlreadyTerminal(p) ==
  /\ payments[p].status # "pending"
  /\ UNCHANGED <<walletVars, payments, paymentEvents>>

ConfirmPayment(p, t) == ConfirmPending(p, t) \/ AlreadyTerminal(p)

FailPayment(p) == CancelPending(p) \/ AlreadyTerminal(p)

Write(c) ==
  \/ c.write = "bind"    /\ SetExternalID(c.payment, c.txn)
  \/ c.write = "confirm" /\ ConfirmPayment(c.payment, c.txn)
  \/ c.write = "cancel"  /\ FailPayment(c.payment)

(* The state the answer names depends on the request only.                 *)
AnswerTo(write) ==
  CASE write = "bind"    -> "created"
    [] write = "confirm" -> "performed"
    [] write = "cancel"  -> "canceled"

FinishCall(h) == handler' = [handler EXCEPT ![h] = NoCall]

(* The transaction commits, and the provider gets the answer or does not.  *)
Commit(h) ==
  /\ handler[h] # NoCall
  /\ Write(handler[h])
  /\ FinishCall(h)
  /\ \/ Tell(AnswerTo(handler[h].write), handler[h].payment)
     \/ UNCHANGED answered

(* The transaction is rolled back (an error of the database, a violation   *)
(* of the index, the death of the replica): an error or no answer at all.  *)
Abort(h) ==
  /\ handler[h] # NoCall
  /\ FinishCall(h)
  /\ UNCHANGED <<walletVars, payments, paymentEvents, answered>>

-----------------------------------------------------------------------------
Callback(h) ==
  \/ \E t \in Txn : PaymePerform(h, t) \/ PaymeCancel(h, t)
  \/ \E p \in Payment, t \in Txn, tiyin \in RequestTiyin :
        \/ PaymeCreate(h, p, t, tiyin)
        \/ ClickPrepare(h, p, t, tiyin)
        \/ ClickComplete(h, p, t, tiyin)
  \/ \E p \in Payment : ConfirmMock(h, p)

TopupsNext ==
  \/ \E p \in Payment, u \in User, provider \in Provider, n \in Amount :
        InitTopup(p, u, provider, n)
  \/ \E t \in Txn : PaymeCheck(t)
  \/ \E h \in Handler : Callback(h) \/ Commit(h) \/ Abort(h)

TopupsSpec == TopupsInit /\ [][TopupsNext]_paymentVars

-----------------------------------------------------------------------------
(* Safety.                                                                 *)

OperationsOn(p) == {i \in DOMAIN ledger : ledger[i].ref = p}

TopupOf(p) == [kind |-> "topup", user |-> payments[p].user, from |-> "external_topup",
               to |-> "user_wallet", amount |-> payments[p].amount, ref |-> p]

(* However many callbacks race, repeat or come in the wrong order, a       *)
(* payment is credited in one ledger operation, to its owner and in its    *)
(* amount, if it succeeded, and in none otherwise (ConfirmPayment).        *)
CreditedOnce ==
  \A p \in Payment :
    IF StatusIs(p, "succeeded")
    THEN \E i \in DOMAIN ledger : OperationsOn(p) = {i} /\ ledger[i] = TopupOf(p)
    ELSE OperationsOn(p) = {}

EventsOf(p) == {i \in DOMAIN paymentEvents : paymentEvents[i].payment = p}

EventFor(p) == [subject |-> IF StatusIs(p, "succeeded") THEN "payment.succeeded"
                                                        ELSE "payment.failed",
                payment |-> p]

(* The owner is notified of the end of a payment by exactly one event, of  *)
(* the subject that matches how it ended, and of nothing before the end    *)
(* (enqueuePaymentEvent in the transaction that moves the row).            *)
EventPerTransition ==
  \A p \in Payment :
    IF IsTerminal(p)
    THEN \E i \in DOMAIN paymentEvents : EventsOf(p) = {i} /\ paymentEvents[i] = EventFor(p)
    ELSE EventsOf(p) = {}

(* What each operation moves into or out of the wallet of u.               *)
Posting(u, account) ==
  [i \in DOMAIN ledger |->
     IF ledger[i].user = u /\ ledger[i][account] = "user_wallet" THEN ledger[i].amount ELSE 0]

Posted(u, account) == SumFunctionOnSet(Posting(u, account), DOMAIN ledger)

(* The balance column is what the postings of the ledger add up to, and    *)
(* the version column counts them: neither drifts from the append-only     *)
(* ledger (creditTx, insertPostings).                                      *)
LedgerExplainsBalance ==
  \A u \in User :
    /\ balance[u] = Posted(u, "to") - Posted(u, "from")
    /\ version[u] = Cardinality({i \in DOMAIN ledger : ledger[i].user = u})

(* An answer "performed" or "canceled" is only given about a payment that  *)
(* has ended, whatever happened between the handler's read and its write.  *)
FinalAnswersAreFinal ==
  \A a \in answered : a.state # "created" => IsTerminal(a.payment)

-----------------------------------------------------------------------------
(* Action properties.                                                      *)

(* A payment that has ended never changes again: late, repeated and        *)
(* contradicting callbacks do not reopen it, move it from one end to       *)
(* another or rebind it.                                                   *)
TerminalIsFinal ==
  [][\A p \in Payment : IsTerminal(p) => payments'[p] = payments[p]]_paymentVars

(* Until it ends, a payment keeps the provider transaction it was first    *)
(* bound to, although handlers bind on a row they read earlier             *)
(* (SetExternalID).                                                        *)
BindingIsSticky ==
  [][\A p \in Payment :
       StatusIs(p, "pending") /\ payments[p].external # NoTxn /\ StatusIs(p, "pending")'
         => payments'[p].external = payments[p].external]_paymentVars

-----------------------------------------------------------------------------
(* The contract.                                                           *)

PhaseOf(p) ==
  IF ~Exists(p) THEN "none"
  ELSE CASE payments[p].status = "pending"   -> "open"
         [] payments[p].status = "succeeded" -> "paid"
         [] OTHER                            -> "void"

TermsOf(p) ==
  IF Exists(p) THEN [user |-> payments[p].user, amount |-> payments[p].amount] ELSE NoRow

Contract == INSTANCE TopupContract WITH
  phase   <- [p \in Payment |-> PhaseOf(p)],
  terms   <- [p \in Payment |-> TermsOf(p)],
  NoTerms <- NoRow

(* Every behaviour of the callbacks is one of the contract: terms never    *)
(* change, a payment ends once, and a wallet grows only in the step in     *)
(* which a payment of its owner becomes paid, by its amount.               *)
ImplementsContract == Contract!ContractSpec

=============================================================================
