---------------------------- MODULE TopupContract ----------------------------
(***************************************************************************)
(* What topping up promises, with no provider, handler, event or           *)
(* transaction id in sight: a payment is opened once on fixed terms (who,  *)
(* how much), it ends at most once, paid or void, and the wallet of its    *)
(* owner grows by exactly its amount in the step in which it becomes paid, *)
(* and in no other.  Topups implements this (services/payments).           *)
(***************************************************************************)
EXTENDS Integers

CONSTANTS User, Payment, TopupMin, TopupMax, NoTerms

VARIABLES phase,   \* of a payment
          terms,   \* what was agreed when the payment was opened
          balance

contractVars == <<phase, terms, balance>>

Terms == [user : User, amount : TopupMin..TopupMax]

ContractInit ==
  /\ phase = [p \in Payment |-> "none"]
  /\ terms = [p \in Payment |-> NoTerms]
  /\ balance = [u \in User |-> 0]

Open(p, t) ==
  /\ phase[p] = "none"
  /\ phase' = [phase EXCEPT ![p] = "open"]
  /\ terms' = [terms EXCEPT ![p] = t]
  /\ UNCHANGED balance

Settle(p) ==
  /\ phase[p] = "open"
  /\ phase' = [phase EXCEPT ![p] = "paid"]
  /\ balance' = [balance EXCEPT ![terms[p].user] = @ + terms[p].amount]
  /\ UNCHANGED terms

Void(p) ==
  /\ phase[p] = "open"
  /\ phase' = [phase EXCEPT ![p] = "void"]
  /\ UNCHANGED <<terms, balance>>

ContractNext ==
  \E p \in Payment : (\E t \in Terms : Open(p, t)) \/ Settle(p) \/ Void(p)

ContractSpec == ContractInit /\ [][ContractNext]_contractVars

=============================================================================
