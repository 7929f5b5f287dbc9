---------------------------- MODULE MCAdPipeline ----------------------------
(***************************************************************************)
(* AdPipeline for TLC.  A run starts from any of a few budgets: each lets  *)
(* the inputs of one story happen, so that the stories do not multiply.    *)
(***************************************************************************)
EXTENDS AdPipeline

CONSTANTS c1, c2, c3, k1, k2, m1, m2, r1, r2

MCTarget == [r \in {r1, r2} |->
  IF r = r1 THEN [type |-> "ad", id |-> 1] ELSE [type |-> "user", id |-> "u"]]

None0 == [creates |-> 0, submits |-> 0, edits |-> 0, closes |-> 0,
          renewals |-> 0, deletes |-> 0, bumps |-> 0, promotions |-> 0,
          reviews |-> 0, reports |-> 0, reindexes |-> 0, ticks |-> 0,
          losses |-> 0, crashes |-> 0]

(* Two ads of one owner, which may be duplicates.                          *)
Duplicates == [None0 EXCEPT !.creates = 2, !.submits = 2]

(* Edits while moderation has the ad.                                      *)
Rework == [None0 EXCEPT !.creates = 1, !.submits = 1, !.edits = 2]

(* Two moderators with one task on their screens.                          *)
Reviews == [None0 EXCEPT !.creates = 1, !.submits = 1, !.edits = 1, !.reviews = 2]

(* A takedown amid a restart, the end of the sale, an edit.                *)
Restarts == [None0 EXCEPT !.creates = 1, !.submits = 1, !.reports = 1, !.crashes = 1]
Closing == [None0 EXCEPT !.creates = 1, !.submits = 1, !.closes = 1, !.reports = 1]
Editing == [None0 EXCEPT !.creates = 1, !.submits = 1, !.edits = 1, !.reports = 1]

(* The end of a lifetime against a renewal, and of a TOP against another.  *)
Lifetimes == [None0 EXCEPT !.creates = 1, !.submits = 1, !.renewals = 1, !.ticks = 3]
Tops == [None0 EXCEPT !.creates = 1, !.submits = 1, !.promotions = 2, !.ticks = 1]
TopTwice == [None0 EXCEPT !.creates = 1, !.submits = 1, !.promotions = 1,
                          !.losses = 1, !.ticks = 1]

(* The reindex tool beside the indexer; bumps, closing and deleting.       *)
Reindexing == [None0 EXCEPT !.creates = 1, !.submits = 1, !.closes = 1,
                            !.reindexes = 1, !.losses = 1]
Deleting == [None0 EXCEPT !.creates = 1, !.submits = 1, !.bumps = 1, !.deletes = 1,
                          !.reindexes = 1]

MCBudgets == {Duplicates, Rework, Reviews, Restarts, Closing, Editing, Lifetimes,
              Tops, TopTwice, Reindexing, Deleting}
=============================================================================
