----------------------------- MODULE MCSessions -----------------------------
(***************************************************************************)
(* Sessions for TLC.  A run starts from any of a few budgets, each for one *)
(* story.                                                                  *)
(***************************************************************************)
EXTENDS Sessions

None0 == [logins |-> 1, starts |-> 0, contacts |-> 0, polls |-> 0,
          refreshes |-> 0, logouts |-> 0, bans |-> 0, timeouts |-> 0, expiries |-> 0,
          failures |-> 0]

(* Two users and two logins at the bot, with redelivered webhooks.         *)
Bot == [None0 EXCEPT !.logins = 2, !.starts = 2, !.contacts = 2, !.polls = 1, !.timeouts = 1]
Polls == [None0 EXCEPT !.starts = 1, !.contacts = 2, !.polls = 2, !.failures = 1]

(* One session: rotations that meet each other and a logout.               *)
Login == [None0 EXCEPT !.starts = 1, !.contacts = 1, !.polls = 1]
Rotations == [Login EXCEPT !.refreshes = 3, !.expiries = 1]
Leaving == [Login EXCEPT !.refreshes = 2, !.logouts = 1, !.failures = 1]

(* A ban against a rotation, a logout and a second login.                  *)
Banned == [Login EXCEPT !.refreshes = 1, !.logouts = 1, !.bans = 1, !.failures = 1]
Again == [None0 EXCEPT !.logins = 2, !.starts = 2, !.contacts = 2, !.polls = 2,
                       !.refreshes = 1, !.bans = 1]

MCBudgets == {Bot, Polls, Rotations, Leaving, Banned, Again}
=============================================================================
