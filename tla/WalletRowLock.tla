---------------------------- MODULE WalletRowLock ----------------------------
(***************************************************************************)
(* The database transactions that move money, statement by statement       *)
(* (services/payments/internal/repo: Debit, creditTx; pkg/shared/pgxx:     *)
(* WithTx).                                                                *)
(*                                                                         *)
(* The other modules take these transactions for single steps.  Here each  *)
(* runs in the database next to the others, under READ COMMITTED: it takes *)
(* the lock of the wallet when it reads the row FOR UPDATE or upserts it,  *)
(* waits for a lock another one holds, works on the committed value of the *)
(* row, and gives the lock back when it commits or rolls back.             *)
(*                                                                         *)
(* balance, version and ledger are the committed values.                   *)
(*                                                                         *)
(* holder  of the lock of each wallet, or Free                             *)
(* tx      NoTx, or a running transaction: its job and how far it got      *)
(***************************************************************************)
EXTENDS Wallet, TLC

CONSTANTS Tx,        \* connections, each running one transaction at a time
          Amounts,   \* sums a job may be about
          MaxOps,    \* bound of the model: operations in the ledger
          Free, NoTx

VARIABLES holder, tx

rowLockVars == <<walletVars, holder, tx>>

Job == [kind : Kind, user : User, amount : Amounts, ref : Reference]

Running == [job : Job, at : {"begun", "read", "checked"}]

ASSUME RowLockAssumption ==
  /\ Amounts \subseteq Nat \ {0}
  /\ Free \notin Tx
  /\ NoTx \notin Running
  /\ MaxOps \in Nat

RowLockTypeOK ==
  /\ WalletTypeOK
  /\ holder \in [User -> Tx \cup {Free}]
  /\ tx \in [Tx -> Running \cup {NoTx}]

RowLockInit ==
  /\ WalletInit
  /\ holder = [u \in User |-> Free]
  /\ tx = [x \in Tx |-> NoTx]

-----------------------------------------------------------------------------
At(x, stage) == tx[x] # NoTx /\ tx[x].at = stage

MoveTo(x, stage) == tx' = [tx EXCEPT ![x].at = stage]

Begin(x, j) ==
  /\ tx[x] = NoTx
  /\ tx' = [tx EXCEPT ![x] = [job |-> j, at |-> "begun"]]
  /\ UNCHANGED <<walletVars, holder>>

(* Mutant of LockRow: the row is read without FOR UPDATE.                  *)
ReadUnlocked(x) ==
  /\ holder[tx[x].job.user] = Free
  /\ UNCHANGED holder

(* The statement that reads or upserts the row gets its lock.  It may      *)
(* have waited for it; what it sees then is the committed row.             *)
LockRow(x) ==
  /\ holder[tx[x].job.user] = Free
  /\ holder' = [holder EXCEPT ![tx[x].job.user] = x]

SelectForUpdate(x) ==
  /\ At(x, "begun") /\ tx[x].job.kind = "purchase"
  /\ LockRow(x)
  /\ MoveTo(x, "read")
  /\ UNCHANGED walletVars

Upsert(x) ==
  /\ At(x, "begun") /\ tx[x].job.kind # "purchase"
  /\ LockRow(x)
  /\ MoveTo(x, "checked")
  /\ UNCHANGED walletVars

(* Mutant of CheckBalance: the balance is compared with 0.                 *)
CheckNotEmpty(x) ==
  /\ At(x, "read")
  /\ ~InsufficientFunds(tx[x].job.user, 1)
  /\ MoveTo(x, "checked")
  /\ UNCHANGED <<walletVars, holder>>

(* Debit compares the balance of the row with the amount.                  *)
CheckBalance(x) ==
  /\ At(x, "read")
  /\ ~InsufficientFunds(tx[x].job.user, tx[x].job.amount)
  /\ MoveTo(x, "checked")
  /\ UNCHANGED <<walletVars, holder>>

End(x) ==
  /\ holder' = [u \in User |-> IF holder[u] = x THEN Free ELSE holder[u]]
  /\ tx' = [tx EXCEPT ![x] = NoTx]

(* The relative UPDATE and the postings become visible.                    *)
CommitTx(x) ==
  /\ At(x, "checked")
  /\ Len(ledger) < MaxOps
  /\ LET j == tx[x].job IN
       \/ j.kind = "purchase" /\ Withdraw(j.user, j.amount, j.kind, j.ref)
       \/ j.kind # "purchase" /\ CreditTx(j.user, j.amount, j.kind, j.ref)
  /\ End(x)

(* ErrInsufficientFunds, any other error, or a lost connection.            *)
Rollback(x) ==
  /\ tx[x] # NoTx
  /\ End(x)
  /\ UNCHANGED walletVars

RowLockNext ==
  \E x \in Tx :
    \/ \E j \in Job : Begin(x, j)
    \/ SelectForUpdate(x) \/ Upsert(x) \/ CheckBalance(x)
    \/ CommitTx(x) \/ Rollback(x)

RowLockSpec == RowLockInit /\ [][RowLockNext]_rowLockVars

-----------------------------------------------------------------------------
(* What Debit compared with the amount is still there when it updates the  *)
(* row, however many transactions touch the wallet meanwhile; so the CHECK *)
(* (balance_uzs >= 0) of the table never rejects the update.               *)
CheckedStaysCovered ==
  \A x \in Tx : At(x, "checked") /\ tx[x].job.kind = "purchase"
    => ~InsufficientFunds(tx[x].job.user, tx[x].job.amount)

(* The wallet as its callers may think of it: credits and covered debits,  *)
(* one at a time.                                                          *)
SerialNext ==
  \E u \in User, ref \in Reference, kind \in Kind, n \in Amounts :
    CreditTx(u, n, kind, ref) \/ DebitTx(u, n, kind, ref)

SerialWallet == WalletInit /\ [][SerialNext]_walletVars

(* The transactions are serializable as far as the wallet can tell: every  *)
(* behaviour of its tables is one of SerialWallet, no debit overdrawing.   *)
ImplementsSerialWallet == SerialWallet

(* For TLC: users and connections may change places.                       *)
Symmetry == Permutations(User) \cup Permutations(Tx)

=============================================================================
