------------------------------- MODULE MCChat -------------------------------
(***************************************************************************)
(* Chat for TLC: a buyer and a seller; each budget is one story.           *)
(***************************************************************************)
EXTENDS Chat

CONSTANTS seller

MCOwner(a) == seller

Quiet == [starts |-> 1, sends |-> 0, reads |-> 0, connects |-> 0, leaves |-> 0, refills |-> 0,
          orders |-> 0, failures |-> 0, timeouts |-> 0, crashes |-> 0]

(* Two starts of one conversation, with a ban.                             *)
Starting == [Quiet EXCEPT !.starts = 2, !.orders = 1, !.failures = 1]

(* One message to a recipient who comes and goes, with two connections.    *)
Coming == [Quiet EXCEPT !.sends = 1, !.connects = 2, !.leaves = 1, !.failures = 1]
Crashing == [Quiet EXCEPT !.sends = 1, !.connects = 2, !.crashes = 1, !.timeouts = 1]

(* Two messages and a mark of reading, for a slow client.                  *)
Talking == [Quiet EXCEPT !.sends = 2, !.connects = 1, !.reads = 1]

(* Moderation of what was sent, and the limiter.                           *)
Moderating == [Quiet EXCEPT !.sends = 1, !.orders = 2, !.failures = 2]
Limited == [Quiet EXCEPT !.sends = 2, !.refills = 2]

MCBudgets == {Starting, Coming, Crashing, Talking, Moderating, Limited}
=============================================================================
