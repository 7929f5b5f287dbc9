------------------------------ MODULE MCTopups ------------------------------
(***************************************************************************)
(* Topups for TLC: two payments, two provider transactions and two         *)
(* handlers at a time.  The wallet and the outbox are bounded by the       *)
(* payments, so no bound is needed on the behaviours.                      *)
(***************************************************************************)
EXTENDS Topups, TLC

CONSTANTS u1, u2, p1, p2, t1, t2, h1, h2

MCUsers == {u1, u2}
MCPayments == {p1, p2}
MCTxns == {t1, t2}
MCHandlers == {h1, h2}

(* A sum below the minimum, one within, one above the maximum.             *)
MCAmounts == {1, 2, 4}

(* Exact, off by less and by more than half a sum, and another amount.     *)
MCTiyin == {200, 249, 250, 400}

(* Payments, transactions and handlers are interchangeable, users too: no  *)
(* definition picks one of them.                                           *)
MCSymmetry ==
  Permutations(MCTxns) \cup Permutations(MCHandlers)
    \cup Permutations(MCPayments) \cup Permutations(MCUsers)

=============================================================================
