--------------------------- MODULE MCBumpSchedule ---------------------------
(***************************************************************************)
(* BumpSchedule for TLC: three promotions, one to raise on two days, the   *)
(* last bought a day after the others; two instances.  Each budget is one  *)
(* story.                                                                  *)
(***************************************************************************)
EXTENDS BumpSchedule, TLC

CONSTANTS p1, p2, p3, i1, i2

MCPromotions == {p1, p2, p3}
MCInstances == {i1, i2}
MCStarts == (p1 :> 0) @@ (p2 :> 0) @@ (p3 :> 1)
MCSchedule == (p1 :> {0}) @@ (p2 :> {0, 1}) @@ (p3 :> {0})
MCBroken == {p1}

Calm == [lost |-> 0, crash |-> 0, release |-> 0, change |-> 0]
MCBudgets == {[Calm EXCEPT !.change = 2],
              [Calm EXCEPT !.lost = 1, !.release = 1, !.change = 1],
              [Calm EXCEPT !.crash = 1, !.change = 1],
              [Calm EXCEPT !.crash = 2, !.lost = 1]}
=============================================================================
