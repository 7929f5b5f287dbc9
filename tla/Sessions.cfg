CONSTANTS
  None = None
  Telegram = {t1, t2}
  Nonce = {n1, n2}
  Conn = {c1, c2}
  MaxTokens = 3
  Budgets <- MCBudgets
SPECIFICATION Spec
CHECK_DEADLOCK FALSE
INVARIANTS SessionsHold LoginIsGenuine
PROPERTIES BanIsApplied
