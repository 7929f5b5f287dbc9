---------------------------- MODULE MCPromotions ----------------------------
(***************************************************************************)
(* Promotions for TLC: one ad, one owner, a few requests.                  *)
(***************************************************************************)
EXTENDS Promotions, TLC

CONSTANTS u1, a1, r1, r2, w1

MCUsers == {u1}
MCAds == {a1}
MCOwner == [a \in MCAds |-> u1]
MCRequests == {r1, r2}
MCWorkers == {w1}

(* A set, the TOP of two days of which carries the price.                  *)
MCSet == [amount |-> 5, items |-> <<[service |-> "TOP", days |-> 2],
                                    [service |-> "BUMP", days |-> 0]>>]
MCPlans == {MCSet}

AllFaults == FaultKind

MCSymmetry == Permutations(MCRequests)

=============================================================================
