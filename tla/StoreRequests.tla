--------------------------- MODULE StoreRequests ---------------------------
(***************************************************************************)
(* The requests of the services that keep the same data in two stores that *)
(* no transaction spans: Media (PostgreSQL and the object storage),        *)
(* Catalog (PostgreSQL and the caches in Redis) and the counter of views   *)
(* of Listing (Redis and PostgreSQL).                                      *)
(*                                                                         *)
(* req     of each request, what it does and what it has read; a request   *)
(*         also names the row it adds (ids are uuid v7, they grow)         *)
(* budget  how often each input may still happen, and the inputs           *)
(***************************************************************************)
EXTENDS Integers, Sequences, FiniteSets

CONSTANTS Request, None, Budgets

ASSUME RequestAssumption == Request \subseteq Nat \ {0} /\ None \notin Nat

VARIABLES req, budget

inputs == <<req, budget>>

May(input) == budget[input] > 0
Spend(input) == budget' = [budget EXCEPT ![input] = @ - 1]

(* A table with a row more, or another row; a record with other fields.    *)
Put(table, key, row) == [k \in DOMAIN table \cup {key} |-> IF k = key THEN row ELSE table[k]]
With(r, fields) ==
  [f \in DOMAIN r \cup DOMAIN fields |-> IF f \in DOMAIN fields THEN fields[f] ELSE r[f]]

Idle == [op |-> "idle"]
Done == [op |-> "done"]

RequestsInit == req = [q \in Request |-> Idle] /\ budget \in Budgets

Fresh(q) == req[q] = Idle /\ \A p \in Request : p < q => req[p] # Idle
Asks(q, op, step) == req[q].op = op /\ req[q].step = step
Turn(q, r) == req' = [req EXCEPT ![q] = r]
Proceed(q, step) == req' = [req EXCEPT ![q].step = step]
=============================================================================
