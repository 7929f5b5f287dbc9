------------------------------- MODULE Stores -------------------------------
(***************************************************************************)
(* The services that keep two stores in step, together: the requests of    *)
(* their users, their workers, and the failures between the two writes.    *)
(***************************************************************************)
EXTENDS MediaFiles, Catalog, ViewCounter

vars == <<inputs, mediaVars, catalogVars, countVars>>

Init == RequestsInit /\ MediaInit /\ CatalogInit /\ CountsInit

Next ==
  \/ MediaNext /\ UNCHANGED <<catalogVars, countVars>>
  \/ CatalogNext /\ UNCHANGED <<mediaVars, countVars>>
  \/ CountNext /\ UNCHANGED <<mediaVars, catalogVars>>

(* The tickers go on, messages are given again, keys expire, and a request *)
(* that has begun goes on; nobody has to ask for anything.                 *)
Fairness ==
  /\ WF_vars((\E w \in Goroutine : MediaWork(w)) /\ UNCHANGED <<catalogVars, countVars>>)
  /\ WF_vars((\E m \in Request : GrowOld(m)) /\ UNCHANGED <<catalogVars, countVars>>)
  /\ WF_vars((\E q \in Request : CatalogWork(q)) /\ UNCHANGED <<mediaVars, countVars>>)
  /\ WF_vars(Expiry /\ UNCHANGED <<mediaVars, countVars>>)
  /\ WF_vars((\E f \in Flusher : FlushWork(f)) /\ UNCHANGED <<mediaVars, catalogVars>>)

Spec == Init /\ [][Next]_vars /\ Fairness

(* Left alone, the two stores of each service come to agree: orphans are   *)
(* removed, uploads settled, the caches say what the rows say, and every   *)
(* view is in its row.                                                     *)
StoresConverge ==
  /\ OrphansAreRemoved
  /\ UploadsAreSettled
  /\ CachesConverge
  /\ ViewsReachTheRow
=============================================================================
