--------------------------- MODULE MCEventDelivery ---------------------------
(***************************************************************************)
(* EventDelivery for TLC: two events, two relays and two handlers.  Each   *)
(* budget is one story.                                                    *)
(***************************************************************************)
EXTENDS EventDelivery, TLC

CONSTANTS r1, r2, h1, h2

MCEvents == {1, 2}
MCRelays == {r1, r2}
MCHandlers == {h1, h2}

Calm == [c \in Chance |-> IF c = "event" THEN 2 ELSE 0]
Single == [Calm EXCEPT !["event"] = 1]
MCBudgets == {[Calm EXCEPT !["window"] = 1],
              [Single EXCEPT !["relay"] = 1, !["window"] = 1, !["reply"] = 1, !["handler"] = 1],
              [Single EXCEPT !["window"] = 1, !["handler"] = 1, !["ack"] = 1, !["dlq"] = 1]}
=============================================================================
