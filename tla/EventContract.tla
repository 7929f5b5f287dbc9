---------------------------- MODULE EventContract ----------------------------
(***************************************************************************)
(* What the event bus promises to the services: an event that a service    *)
(* has committed takes effect in a consumer, once, or is put aside as a    *)
(* dead letter if a handler could not deal with it; never one that was not *)
(* committed.  An event may be both, when the last attempt fails after an  *)
(* earlier one had succeeded unnoticed.                                    *)
(***************************************************************************)
EXTENDS Naturals

CONSTANT Event

VARIABLES enqueued, effects, dead

Init ==
  /\ enqueued = {}
  /\ effects = [e \in Event |-> 0]
  /\ dead = {}

Enqueue(e) ==
  /\ e \notin enqueued
  /\ enqueued' = enqueued \cup {e}
  /\ UNCHANGED <<effects, dead>>

Apply(e) ==
  /\ e \in enqueued /\ effects[e] = 0
  /\ effects' = [effects EXCEPT ![e] = 1]
  /\ UNCHANGED <<enqueued, dead>>

Bury(e) ==
  /\ e \in enqueued \ dead
  /\ dead' = dead \cup {e}
  /\ UNCHANGED <<enqueued, effects>>

Next == \E e \in Event : Enqueue(e) \/ Apply(e) \/ Bury(e)

ContractSpec == Init /\ [][Next]_<<enqueued, effects, dead>>

=============================================================================
