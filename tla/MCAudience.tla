----------------------------- MODULE MCAudience -----------------------------
(***************************************************************************)
(* Audience for TLC: a seller of two ads and a buyer; each budget is one   *)
(* story, with the consumers it is about.                                  *)
(***************************************************************************)
EXTENDS Audience

CONSTANTS buyer, seller, a1, a2, boat

MCOwner(a) == seller
MCAdView(a) == [category |-> boat, text |-> a]

Switched(g) == {[group |-> g, enabled |-> FALSE]}
Anything == [category |-> Every, text |-> Every]
ThisBoat == [category |-> boat, text |-> a1]

Quiet == [users |-> 0, reviews |-> 0, blocks |-> 0, patches |-> 0, puts |-> 0,
          favorites |-> 0, removals |-> 0, deletions |-> 0, approvals |-> 0, searches |-> 0,
          ticks |-> 0, failures |-> 0, retakes |-> 0, channel |-> TRUE,
          people |-> {buyer}, stars |-> {5}, lists |-> {{}}, queries |-> {Anything},
          consumers |-> {}]

(* Two reviews, one of which may be blocked, counted by two replicas.      *)
Rating == [Quiet EXCEPT !.reviews = 2, !.blocks = 1, !.failures = 1, !.retakes = 1,
                        !.stars = {5, 6},
                        !.consumers = {"ratings", "reviews-block"}]

(* Patches of one profile that user.created creates as well; PUTs.         *)
Patching == [Quiet EXCEPT !.users = 1, !.patches = 3, !.failures = 1, !.consumers = {"profiles"}]
Switching == [Quiet EXCEPT !.puts = 3,
                !.lists = {{}, Switched("review"), Switched("saved_search"), Switched("weather")}]

(* A review whose target is notified, under failures, without a bot, and   *)
(* while he turns the switch off.                                          *)
Notifying == [Quiet EXCEPT !.users = 1, !.reviews = 1, !.failures = 2, !.retakes = 1,
                           !.people = {buyer, seller}, !.consumers = {"recipients", "delivery"}]
Silent == [Quiet EXCEPT !.reviews = 1, !.failures = 1, !.channel = FALSE,
                        !.consumers = {"delivery"}]
TurningOff == [Quiet EXCEPT !.users = 1, !.reviews = 2, !.puts = 1, !.ticks = 1,
                            !.people = {buyer, seller}, !.lists = {Switched("review")},
                            !.consumers = {"recipients", "delivery"}]
Abandoning == [TurningOff EXCEPT !.reviews = 1, !.ticks = 2, !.failures = 1]

(* Saved searches, approvals of both ads, alerts and their notification.   *)
Searching == [Quiet EXCEPT !.searches = 3, !.approvals = 1, !.removals = 1, !.failures = 1,
                           !.queries = {Anything, ThisBoat}, !.consumers = {"matcher"}]
Alerting == [Quiet EXCEPT !.searches = 1, !.approvals = 2, !.ticks = 2, !.failures = 1,
                          !.retakes = 1, !.consumers = {"matcher"}]
Telling == [Quiet EXCEPT !.users = 1, !.searches = 1, !.approvals = 1, !.deletions = 1,
                         !.consumers = {"matcher", "recipients", "delivery"}]

(* Favorites of an ad that is deleted.                                     *)
Liking == [Quiet EXCEPT !.favorites = 3, !.removals = 1, !.deletions = 1, !.failures = 1,
                        !.people = {buyer, seller}, !.consumers = {"favorites"}]

MCBudgets == {Rating, Patching, Switching, Notifying, Silent, TurningOff, Abandoning, Searching,
              Alerting, Telling, Liking}
=============================================================================
