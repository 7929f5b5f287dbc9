------------------------------ MODULE AdSearch ------------------------------
(***************************************************************************)
(* The read model of ads (services/search): the indexer that follows the   *)
(* events of ads, the tool that fills the index anew, and the block of     *)
(* promoted ads over the results.                                          *)
(*                                                                         *)
(* An event only says which ad to look at: the indexer reads the ad from   *)
(* Listing, and brings the document to what it has read, in two steps.     *)
(*                                                                         *)
(* index    the collection of Typesense, None where there is no document   *)
(* reindex  the documents the tool has read and still has to write, or     *)
(*          None when it does not run                                      *)
(* overlap  the ads that changed while the tool held a copy of them        *)
(*          (history)                                                      *)
(***************************************************************************)
EXTENDS AdModeration

VARIABLES index, reindex, overlap

searchVars == <<index, reindex, overlap>>

Doc == [content : Content, bumped : Nat, top : BOOLEAN, ends : Nat]

SearchInit ==
  /\ index = [a \in Ad |-> None]
  /\ reindex = None
  /\ overlap = {}

BuildDoc(row) == [content |-> row.content, bumped |-> row.bumped,
                  top |-> row.top, ends |-> row.ends]

(* What the index should hold of an ad: a document while it is active.     *)
Projection(a) ==
  IF Exists(a) /\ ads[a].status = "active" THEN BuildDoc(ads[a]) ELSE None

(* The consumer search-indexer reads the ad.                               *)
ReadAd(e) ==
  /\ Take("search-indexer", e, Projection(e.ad))
  /\ UNCHANGED <<listingVars, moderationVars, searchVars>>

(* It upserts the document, or deletes it.                                 *)
Sync(ackLost) ==
  LET w == work["search-indexer"] IN
    /\ w # None
    /\ index' = [index EXCEPT ![w.event.ad] = w.memory]
    /\ Finish("search-indexer", {}, ackLost)
    /\ AckLost(ackLost)
    /\ UNCHANGED <<ads, call, swept, now, moderationVars, reindex, overlap>>

(* search -reindex: a page of the active ads is read from Listing, then    *)
(* its documents are written one after the other.  Nothing is deleted.     *)
BeginReindex ==
  /\ reindex = None
  /\ Spend("reindexes")
  /\ reindex' = {<<a, Projection(a)>> : a \in {b \in Ad : Projection(b) # None}}
  /\ reindex' # {}
  /\ UNCHANGED <<ads, call, swept, now, moderationVars, index, overlap, busVars>>

Reindex(p) ==
  /\ reindex # None
  /\ p \in reindex
  /\ index' = [index EXCEPT ![p[1]] = p[2]]
  /\ reindex' = IF reindex = {p} THEN None ELSE reindex \ {p}
  /\ UNCHANGED <<listingVars, moderationVars, overlap, busVars>>

(* Any step may change an ad of which the tool holds a copy.               *)
NoteOverlap ==
  overlap' = overlap \cup
    {a \in Ad : ads'[a] # ads[a] /\ reindex # None
                  /\ \E p \in reindex : p[1] = a}

SearchRestart ==
  /\ Spend("crashes")
  /\ work["search-indexer"] # None
  /\ GiveBack({"search-indexer"})
  /\ UNCHANGED <<ads, call, swept, now, moderationVars, searchVars>>

=============================================================================
