----------------------------- MODULE ViewCounter -----------------------------
(***************************************************************************)
(* The views of the ads: GET /ads/{id} of Listing counts them in a hash in *)
(* Redis, which flushers drain into the column views_count.                *)
(*                                                                         *)
(* views   the rows of ads that are there, and their views_count           *)
(* buffer  the hash listing:views                                          *)
(* flush   of each flusher, what it has drained                            *)
(***************************************************************************)
EXTENDS StoreRequests, FiniteSetsExt

CONSTANTS ViewedAd, Flusher

ASSUME FlusherAssumption == IsFiniteSet(Flusher)

VARIABLES views, buffer, flush

(* History, of each ad: its views; those that were lost and counted twice. *)
VARIABLES viewed, lost, doubled

counts == <<views, buffer, flush>>
countVars == <<counts, viewed, lost, doubled>>

Nothing == [a \in ViewedAd |-> 0]
CountsInit ==
  /\ views = Nothing /\ buffer = Nothing /\ flush = [f \in Flusher |-> Idle]
  /\ viewed = Nothing /\ lost = Nothing /\ doubled = Nothing

Together(m, n) == [a \in ViewedAd |-> m[a] + n[a]]

(* GetByID, then recordView: an increment that may fail.                   *)
GetAd(q, a) ==
  /\ Fresh(q) /\ May("views") /\ Spend("views")
  /\ Turn(q, IF a \in DOMAIN views THEN [op |-> "view", step |-> "incr", ad |-> a] ELSE Done)
  /\ UNCHANGED countVars

Incr(q) ==
  /\ Asks(q, "view", "incr")
  /\ buffer' = [buffer EXCEPT ![req[q].ad] = @ + 1]
  /\ viewed' = [viewed EXCEPT ![req[q].ad] = @ + 1]
  /\ Turn(q, Done)
  /\ UNCHANGED <<budget, views, flush, lost, doubled>>

IncrFails(q) ==
  /\ Asks(q, "view", "incr") /\ May("failures") /\ Spend("failures")
  /\ Turn(q, Done)
  /\ UNCHANGED countVars

(* The owner deletes the ad.                                               *)
DeleteViewed(a) ==
  /\ a \in DOMAIN views /\ May("deletions") /\ Spend("deletions")
  /\ views' = [b \in DOMAIN views \ {a} |-> views[b]]
  /\ UNCHANGED <<req, buffer, flush, viewed, lost, doubled>>

(***************************************************************************)
(* ViewFlusher.Flush.                                                      *)
(***************************************************************************)
Drained(f, step) == flush' = [flush EXCEPT ![f] = [op |-> step, counts |-> buffer]]
Finish(f) == flush' = [flush EXCEPT ![f] = Idle]

(* Mutant: the hash is read, and deleted by a statement of its own.        *)
ReadThenDelete(f) ==
  \/ /\ flush[f] = Idle /\ buffer # Nothing
     /\ Drained(f, "delete")
     /\ UNCHANGED <<inputs, views, buffer, viewed, lost, doubled>>
  \/ /\ flush[f].op = "delete"
     /\ buffer' = Nothing /\ flush' = [flush EXCEPT ![f].op = "add"]
     /\ UNCHANGED <<inputs, views, viewed, lost, doubled>>

(* One script reads the hash and deletes it.                               *)
Drain(f) ==
  /\ flush[f] = Idle /\ buffer # Nothing
  /\ Drained(f, "add") /\ buffer' = Nothing
  /\ UNCHANGED <<inputs, views, viewed, lost, doubled>>

(* The script has run, but its answer does not come back.                  *)
DrainUnanswered(f) ==
  /\ flush[f] = Idle /\ buffer # Nothing /\ May("failures") /\ Spend("failures")
  /\ lost' = Together(lost, buffer) /\ buffer' = Nothing
  /\ UNCHANGED <<req, views, flush, viewed, doubled>>

(* One UPDATE adds to the ads that are there.                              *)
Added(f) == views' = [a \in DOMAIN views |-> views[a] + flush[f].counts[a]]
AddViews(f) ==
  /\ flush[f].op = "add"
  /\ Added(f) /\ Finish(f)
  /\ UNCHANGED <<inputs, buffer, viewed, lost, doubled>>

(* It fails; or it is reported as failed, but took place.                  *)
AddFails(f) ==
  /\ flush[f].op = "add" /\ May("failures") /\ Spend("failures")
  /\ flush' = [flush EXCEPT ![f].op = "restore"]
  /\ \/ UNCHANGED <<views, doubled>>
     \/ Added(f) /\ doubled' = Together(doubled, flush[f].counts)
  /\ UNCHANGED <<req, buffer, viewed, lost>>

(* Mutant: the buffer gets the old counts, whatever it has meanwhile.      *)
RestoreOver(f) ==
  /\ flush[f].op = "restore"
  /\ buffer' = flush[f].counts /\ Finish(f)
  /\ UNCHANGED <<inputs, views, viewed, lost, doubled>>

Restore(f) ==
  /\ flush[f].op = "restore"
  /\ buffer' = Together(buffer, flush[f].counts) /\ Finish(f)
  /\ UNCHANGED <<inputs, views, viewed, lost, doubled>>

(* The restore fails, or the process dies with what it has drained.        *)
FlushDies(f) ==
  /\ flush[f] # Idle /\ May("failures") /\ Spend("failures")
  /\ lost' = Together(lost, flush[f].counts) /\ Finish(f)
  /\ UNCHANGED <<req, views, buffer, viewed, doubled>>

(* Mutant: a flush whose UPDATE failed is not put back.                    *)
FlushWithoutRestore(f) == Drain(f) \/ AddViews(f)
FlushWork(f) == Drain(f) \/ AddViews(f) \/ Restore(f)

CountNext ==
  \/ \E q \in Request : (\E a \in ViewedAd : GetAd(q, a)) \/ Incr(q) \/ IncrFails(q)
  \/ \E a \in ViewedAd : DeleteViewed(a)
  \/ \E f \in Flusher : FlushWork(f) \/ DrainUnanswered(f) \/ AddFails(f) \/ FlushDies(f)

(***************************************************************************)
(* Properties.                                                             *)
(***************************************************************************)
CountsTypeOK ==
  /\ DOMAIN views \subseteq ViewedAd /\ \A a \in DOMAIN views : views[a] \in Nat
  /\ buffer \in [ViewedAd -> Nat]
  /\ \A f \in Flusher : flush[f].op \in {"idle", "add", "restore"}

Held(a) == SumFunctionOnSet([f \in Flusher |-> IF flush[f] = Idle THEN 0 ELSE flush[f].counts[a]], Flusher)

(* Every view of an ad that is still there is in its row, in the buffer or *)
(* with one flusher, and in one of them only: but for those a failure has  *)
(* lost, and those an UPDATE has added that was reported as failed.        *)
ViewsAreConserved ==
  /\ CountsTypeOK
  /\ \A a \in DOMAIN views : views[a] + buffer[a] + Held(a) + lost[a] = viewed[a] + doubled[a]

(* They all come to the row.                                               *)
ViewsReachTheRow ==
  <>[](\A a \in DOMAIN views : views[a] + lost[a] = viewed[a] + doubled[a])
=============================================================================
