\* Three connections on two wallets.
CONSTANTS
  Free = Free  NoTx = NoTx
  User = {u1, u2}
  Reference = {r1}
  Tx = {x1, x2, x3}
  Amounts = {1, 2}
  MaxOps = 3
SPECIFICATION RowLockSpec
SYMMETRY Symmetry
PROPERTIES ImplementsSerialWallet
