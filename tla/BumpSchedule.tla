---------------------------- MODULE BumpSchedule ----------------------------
(***************************************************************************)
(* The worker that raises ads in the feed on the days of their schedules   *)
(* (services/payments/internal: worker/bump.go, DueBumps, ClaimBump and    *)
(* ReleaseBump of repo/ad_promotion.go, listingclient/client.go).          *)
(*                                                                         *)
(* On each tick of its interval an instance selects a batch of the days    *)
(* that are due, and for each of them claims the day by a row of bump_runs,*)
(* asks Listing over HTTP to raise the ad, and gives the claim up if the   *)
(* request failed.  Instances share only the database.                     *)
(*                                                                         *)
(* bumpRuns   the table bump_runs                                          *)
(* raised     how often Listing has raised the ad for a day (history)      *)
(* skipped    days whose ad Listing reported as not active (history)       *)
(* batch      of each instance, the days selected and not handled yet      *)
(* run        of each instance, the day it has claimed, and what is next   *)
(* status, live    the services, and the ads that Listing has as active    *)
(* budget     how often each fault, and the rest of the world, may strike  *)
(***************************************************************************)
EXTENDS Integers, FiniteSets, FiniteSetsExt

CONSTANTS Promotion,
          Starts,     \* of each promotion, the day it was bought
          Schedule,   \* of each promotion, the days after that to raise it
          Instance,   \* processes that run the worker
          Batch,      \* PAYMENTS_BUMP_BATCH
          Broken,     \* promotions whose ad Listing cannot raise: HTTP 500
          MaxDay,     \* bound of the model: the clock
          Budgets,    \* bound of the model: the faults and the changes of the world
          NoRun

VARIABLES today, status, live, bumpRuns, raised, skipped, batch, run, budget

(* History: days whose raising was not answered, and days that an instance *)
(* has left on record without doing them.                                  *)
VARIABLES unanswered, forsaken

history == <<unanswered, forsaken>>
bumpVars == <<today, status, live, bumpRuns, raised, skipped, batch, run, budget, history>>
worldVars == <<today, status, live>>

(* "lost": the answer of Listing is lost after it raised the ad.  "crash": *)
(* an instance dies and is started again.  "release": giving up the claim  *)
(* fails, which is only logged.  "change": a service or an ad changes.     *)
Chance == {"lost", "crash", "release", "change"}

DueBump == {x \in [promotion : Promotion, day : UNION {Schedule[p] : p \in Promotion}] :
              x.day \in Schedule[x.promotion]}

ASSUME BumpAssumption ==
  /\ Starts \in [Promotion -> Nat]
  /\ Schedule \in [Promotion -> SUBSET Nat]
  /\ Batch \in Nat \ {0}
  /\ Broken \subseteq Promotion
  /\ MaxDay \in Nat
  /\ Budgets \subseteq [Chance -> Nat]
  /\ NoRun \notin [day : DueBump, next : {"bump", "release"}]

BumpTypeOK ==
  /\ today \in 0..MaxDay
  /\ status \in [Promotion -> {"active", "suspended", "refunded"}]
  /\ live \subseteq Promotion
  /\ bumpRuns \subseteq DueBump
  /\ raised \in [DueBump -> Nat]
  /\ skipped \subseteq DueBump
  /\ batch \in [Instance -> SUBSET DueBump]
  /\ run \in [Instance -> [day : DueBump, next : {"bump", "release"}] \cup {NoRun}]
  /\ budget \in [Chance -> Nat]
  /\ unanswered \subseteq DueBump /\ forsaken \subseteq bumpRuns

BumpInit ==
  /\ today = 0
  /\ status = [p \in Promotion |-> "active"]
  /\ live = Promotion
  /\ bumpRuns = {}
  /\ raised = [x \in DueBump |-> 0]
  /\ skipped = {}
  /\ batch = [i \in Instance |-> {}]
  /\ run = [i \in Instance |-> NoRun]
  /\ budget \in Budgets
  /\ unanswered = {} /\ forsaken = {}

May(chance) == budget[chance] > 0
Spend(chance) == budget' = [budget EXCEPT ![chance] = @ - 1]
Safely == UNCHANGED <<budget, history>>

-----------------------------------------------------------------------------
(* The rows DueBumps selects: of active services, ripe, not executed.      *)
Ripe(x) == Starts[x.promotion] + x.day <= today

(* Mutant of DueBumps: days on record are selected, too.                   *)
DueBumpsAgain == {x \in DueBump : status[x.promotion] = "active" /\ Ripe(x)}

DueBumps == {x \in DueBump : status[x.promotion] = "active" /\ Ripe(x) /\ x \notin bumpRuns}

(* The oldest of them first, at most Batch.                                *)
Oldest(S, n) ==
  {q \in SUBSET S : /\ Cardinality(q) = Min({n, Cardinality(S)})
                    /\ \A x \in q, y \in S \ q : Starts[x.promotion] <= Starts[y.promotion]}

(* A tick: the day is not claimed yet by selecting it.                     *)
Sweep(i) ==
  /\ batch[i] = {} /\ run[i] = NoRun
  /\ DueBumps # {}
  /\ \E q \in Oldest(DueBumps, Batch) : batch' = [batch EXCEPT ![i] = q]
  /\ UNCHANGED <<worldVars, bumpRuns, raised, skipped, run>> /\ Safely

(* Mutant of ClaimBump: the conflict is not noticed.                       *)
ClaimAnyway(i) ==
  /\ run[i] = NoRun
  /\ \E x \in batch[i] :
       /\ \A y \in batch[i] : Starts[x.promotion] <= Starts[y.promotion]
       /\ batch' = [batch EXCEPT ![i] = @ \ {x}]
       /\ bumpRuns' = bumpRuns \cup {x}
       /\ run' = [run EXCEPT ![i] = [day |-> x, next |-> "bump"]]
  /\ UNCHANGED <<worldVars, raised, skipped>> /\ Safely

(* INSERT ... ON CONFLICT DO NOTHING: a day claimed already is skipped.    *)
ClaimBump(i) ==
  /\ run[i] = NoRun
  /\ \E x \in batch[i] :
       /\ \A y \in batch[i] : Starts[x.promotion] <= Starts[y.promotion]
       /\ batch' = [batch EXCEPT ![i] = @ \ {x}]
       /\ \/ /\ x \notin bumpRuns
             /\ bumpRuns' = bumpRuns \cup {x}
             /\ run' = [run EXCEPT ![i] = [day |-> x, next |-> "bump"]]
          \/ x \in bumpRuns /\ UNCHANGED <<bumpRuns, run>>
  /\ UNCHANGED <<worldVars, raised, skipped>> /\ Safely

(* What becomes of the claim, given whether the request was answered.      *)
Answered(i) == run' = [run EXCEPT ![i] = NoRun]

RequestFailed(i) == run' = [run EXCEPT ![i].next = "release"]

(* Mutant of BumpRaised: the answer 200 is taken for an error.             *)
RaisedTakenForError(i) ==
  /\ run[i] # NoRun /\ run[i].next = "bump"
  /\ LET x == run[i].day IN
       /\ x.promotion \in live \ Broken
       /\ raised' = [raised EXCEPT ![x] = @ + 1]
  /\ RequestFailed(i)
  /\ UNCHANGED <<worldVars, bumpRuns, skipped, batch>> /\ Safely

(* Listing raises the ad: 200.                                             *)
BumpRaised(i) ==
  /\ run[i] # NoRun /\ run[i].next = "bump"
  /\ LET x == run[i].day IN
       /\ x.promotion \in live \ Broken
       /\ raised' = [raised EXCEPT ![x] = @ + 1]
       /\ \/ Answered(i) /\ Safely
          \/ /\ May("lost") /\ Spend("lost") /\ RequestFailed(i)
             /\ unanswered' = unanswered \cup {x} /\ UNCHANGED forsaken
  /\ UNCHANGED <<worldVars, bumpRuns, skipped, batch>>

(* The ad is gone or not active, 404: the day counts as executed.          *)
BumpSkipped(i) ==
  /\ run[i] # NoRun /\ run[i].next = "bump"
  /\ run[i].day.promotion \notin live \cup Broken
  /\ skipped' = skipped \cup {run[i].day}
  /\ Answered(i)
  /\ UNCHANGED <<worldVars, bumpRuns, raised, batch>> /\ Safely

(* Mutant of BumpRefused: an error is taken for an answer.                 *)
RefusedTakenForAnswer(i) ==
  /\ run[i] # NoRun /\ run[i].next = "bump"
  /\ run[i].day.promotion \in Broken
  /\ Answered(i)
  /\ UNCHANGED <<worldVars, bumpRuns, raised, skipped, batch>> /\ Safely

BumpRefused(i) ==
  /\ run[i] # NoRun /\ run[i].next = "bump"
  /\ run[i].day.promotion \in Broken
  /\ RequestFailed(i)
  /\ UNCHANGED <<worldVars, bumpRuns, raised, skipped, batch>> /\ Safely

ReleaseBump(i) ==
  /\ run[i] # NoRun /\ run[i].next = "release"
  /\ \/ bumpRuns' = bumpRuns \ {run[i].day} /\ Safely
     \/ /\ May("release") /\ Spend("release")
        /\ forsaken' = forsaken \cup {run[i].day} /\ UNCHANGED <<bumpRuns, unanswered>>
  /\ Answered(i)
  /\ UNCHANGED <<worldVars, raised, skipped, batch>>

InstanceCrash(i) ==
  /\ May("crash") /\ Spend("crash")
  /\ batch[i] # {} \/ run[i] # NoRun
  /\ batch' = [batch EXCEPT ![i] = {}]
  /\ run' = [run EXCEPT ![i] = NoRun]
  /\ forsaken' = IF run[i] = NoRun THEN forsaken ELSE forsaken \cup {run[i].day}
  /\ UNCHANGED <<worldVars, bumpRuns, raised, skipped, unanswered>>

-----------------------------------------------------------------------------
(* The rest of the world.                                                  *)

NextDay == today < MaxDay /\ today' = today + 1 /\ UNCHANGED <<status, live, budget>>

(* SuspendPromotions, ResumePromotions, RefundPromotions.                  *)
SetStatus(p) ==
  /\ May("change") /\ Spend("change")
  /\ \/ status[p] = "active" /\ status' = [status EXCEPT ![p] = "suspended"]
     \/ status[p] = "suspended" /\ status' = [status EXCEPT ![p] = "active"]
     \/ status[p] # "refunded" /\ status' = [status EXCEPT ![p] = "refunded"]
  /\ UNCHANGED <<today, live>>

(* The ad expires, is renewed or is removed.                               *)
SetLive(p) ==
  /\ May("change") /\ Spend("change")
  /\ live' \in {live \cup {p}, live \ {p}}
  /\ UNCHANGED <<today, status>>

World ==
  /\ NextDay \/ \E p \in Promotion : SetStatus(p) \/ SetLive(p)
  /\ UNCHANGED <<bumpRuns, raised, skipped, batch, run, history>>

(* What an instance does without a fault.                                  *)
Work(i) ==
  Sweep(i) \/ ClaimBump(i) \/ BumpRaised(i) \/ BumpSkipped(i) \/ BumpRefused(i) \/ ReleaseBump(i)

BumpNext == World \/ \E i \in Instance : Work(i) \/ InstanceCrash(i)

BumpSpec == BumpInit /\ [][BumpNext]_bumpVars

(* The ticker fires for as long as the process runs, and a request has a   *)
(* timeout: an instance that can work does.                                *)
FairBumpSpec == BumpSpec /\ \A i \in Instance : WF_bumpVars(Work(i))

-----------------------------------------------------------------------------
(* However many instances sweep at the same time, and whichever of them    *)
(* die, an ad is raised at most once for a day of its schedule, but for a  *)
(* day of which Listing's answer was lost.                                 *)
RaisedAtMostOnce == \A x \in DueBump \ unanswered : raised[x] <= 1

(* A day is on record only if an instance is at it, or it has been         *)
(* executed: raised, or skipped for an ad that was not active; but for the *)
(* day an instance died at, or could not give back, which is lost.         *)
RunMeansExecuted ==
  \A x \in bumpRuns \ forsaken :
    \/ raised[x] > 0 \/ x \in skipped
    \/ \E i \in Instance : run[i] # NoRun /\ run[i].day = x

(* Two instances are never at the same day.                                *)
ClaimIsExclusive ==
  \A i, j \in Instance :
    i # j /\ run[i] # NoRun /\ run[j] # NoRun => run[i].day # run[j].day

(* A day that is due is executed in the end, or its service ends or is     *)
(* suspended, although Listing fails for the ads of other services (less   *)
(* than a batch of failing days does not hold up the rest) and whatever    *)
(* has failed before.                                                      *)
DueIsExecuted ==
  \A x \in DueBump : x.promotion \notin Broken =>
    (x \in DueBumps ~> (x \in bumpRuns \/ status[x.promotion] # "active"))

(* Each day of a schedule is somebody's, raised once and not forgotten     *)
(* (claim, request and release of bump.go), with the exceptions of the     *)
(* parts.                                                                  *)
EachDayOnce ==
  /\ BumpTypeOK
  /\ ClaimIsExclusive
  /\ RaisedAtMostOnce
  /\ RunMeansExecuted
=============================================================================
