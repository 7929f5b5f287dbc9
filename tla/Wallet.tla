------------------------------- MODULE Wallet -------------------------------
(***************************************************************************)
(* The wallet of a user and its double-entry ledger                        *)
(* (services/payments/internal/repo/wallet.go, tables wallets and          *)
(* wallet_transactions).                                                   *)
(*                                                                         *)
(* balance and version are the columns of the table wallets; a user whose  *)
(* version is 0 has no row yet, since the first credit inserts the row     *)
(* with version 1.  ledger is the append-only table wallet_transactions:   *)
(* one element per operation_id, that is per pair of postings, `from`      *)
(* being the account debited and `to` the account credited.                *)
(*                                                                         *)
(* CreditTx and DebitTx are the bodies of single database transactions;    *)
(* the modules that extend this one call them from their actions.  The     *)
(* row lock that makes DebitTx atomic is the subject of WalletRowLock.     *)
(***************************************************************************)
EXTENDS Integers, Sequences

CONSTANTS User,       \* owners of wallets
          Reference   \* what an operation may refer to: payments and ads

VARIABLES balance, version, ledger

walletVars == <<balance, version, ledger>>

Kind == {"topup", "purchase", "refund"}

Account == {"user_wallet", "external_topup", "promotion_revenue", "refund_source"}

Operation == [kind   : Kind,
              user   : User,
              from   : Account,
              to     : Account,
              amount : Nat \ {0},
              ref    : Reference]

WalletTypeOK ==
  /\ balance \in [User -> Nat]
  /\ version \in [User -> Nat]
  /\ ledger \in Seq(Operation)

WalletInit ==
  /\ balance = [u \in User |-> 0]
  /\ version = [u \in User |-> 0]
  /\ ledger = <<>>

-----------------------------------------------------------------------------
(* Mutant of CreditTx: the upsert replaces the balance.                    *)
CreditReplaces(u, n, kind, ref) ==
  /\ balance' = [balance EXCEPT ![u] = n]
  /\ version' = [version EXCEPT ![u] = @ + 1]
  /\ ledger' = Append(ledger, [kind |-> kind, user |-> u, from |-> "external_topup",
                               to |-> "user_wallet", amount |-> n, ref |-> ref])

(* creditTx: upsert of the row and a pair of postings.                     *)
CreditTx(u, n, kind, ref) ==
  /\ balance' = [balance EXCEPT ![u] = @ + n]
  /\ version' = [version EXCEPT ![u] = @ + 1]
  /\ ledger' = Append(ledger, [kind |-> kind, user |-> u, from |-> "external_topup",
                               to |-> "user_wallet", amount |-> n, ref |-> ref])

InsufficientFunds(u, n) == version[u] = 0 \/ balance[u] < n

(* Debit: the UPDATE is relative and has no condition of its own; what     *)
(* makes it safe is the check made before it, under the row lock.          *)
Withdraw(u, n, kind, ref) ==
  /\ balance' = [balance EXCEPT ![u] = @ - n]
  /\ version' = [version EXCEPT ![u] = @ + 1]
  /\ ledger' = Append(ledger, [kind |-> kind, user |-> u, from |-> "user_wallet",
                               to |-> "promotion_revenue", amount |-> n, ref |-> ref])

DebitTx(u, n, kind, ref) ==
  /\ ~InsufficientFunds(u, n)
  /\ Withdraw(u, n, kind, ref)

=============================================================================
