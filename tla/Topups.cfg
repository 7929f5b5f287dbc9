\* Two payments, two provider transactions and two handlers racing for them.
CONSTANTS
  u1 = u1  u2 = u2  p1 = p1  p2 = p2  t1 = t1  t2 = t2  h1 = h1  h2 = h2
  NoTxn = NoTxn  NoRow = NoRow  NoCall = NoCall
  User <- MCUsers
  Payment <- MCPayments
  Reference <- MCPayments
  Txn <- MCTxns
  Handler <- MCHandlers
  Amount <- MCAmounts
  RequestTiyin <- MCTiyin
  TopupMin = 2
  TopupMax = 3
SPECIFICATION TopupsSpec
SYMMETRY MCSymmetry
INVARIANTS CreditedOnce LedgerExplainsBalance FinalAnswersAreFinal
PROPERTIES BindingIsSticky ImplementsContract
