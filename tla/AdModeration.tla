---------------------------- MODULE AdModeration ----------------------------
(***************************************************************************)
(* Moderation of ads (services/moderation): the automatic check of what is *)
(* submitted, the queue of tasks that moderators decide by hand, and the   *)
(* reports of users with their takedowns.                                  *)
(*                                                                         *)
(* tasks    the table moderation_tasks: one task for an ad, overwritten    *)
(*          when the ad is checked again                                   *)
(* open     of each moderator, the task on the screen: the moderator       *)
(*          decides on what it said when it was opened                     *)
(* reports  the table reports                                              *)
(* checked  of each ad, the contents that were found good, by the check or *)
(*          by a moderator who saw them (history)                          *)
(* verdicts of each ad, the verdicts given on its present task (history)   *)
(***************************************************************************)
EXTENDS AdLifecycle

CONSTANTS Moderator,
          Suspect,    \* contents with a stop word, or of a forbidden category
          Report,     \* ids of reports
          Target      \* what each is about: a type and an id

VARIABLES tasks, open, reports, checked, verdicts

moderationVars == <<tasks, open, reports, checked, verdicts>>

TaskStatus == {"approved", "manual", "rejected", "edit_requested"}

Task == [content : Content, status : TaskStatus]

Action == {"dismiss", "warn", "takedown"}

ReportRow == [status : {"open", "resolved", "dismissed"}, resolution : Action \cup {""}]

ModerationInit ==
  /\ tasks = [a \in Ad |-> None]
  /\ open = [m \in Moderator |-> None]
  /\ reports = [r \in Report |-> None]
  /\ checked = [a \in Ad |-> {}]
  /\ verdicts = [a \in Ad |-> 0]

(***************************************************************************)
(* The consumer moderation-auto.  All ads of the model have one owner, so  *)
(* that two of the same content are duplicates.                            *)
(***************************************************************************)
HasDuplicate(content, a) ==
  \E b \in Ad \ {a} : tasks[b] # None /\ tasks[b].content = content

Evaluate(content, a) == content \in Suspect \/ HasDuplicate(content, a)

(* The handler reads the ad from Listing.  There is nothing to check when  *)
(* the event, or the ad by now, is not pending.                            *)
ReadPending(e) ==
  /\ Take("moderation-auto", e,
          IF /\ e.arg = "pending"
             /\ Matches(e.ad, "pending")
          THEN ads[e.ad].content ELSE None)
  /\ UNCHANGED <<listingVars, moderationVars>>

(* upsertTask: a task takes the place of the one there was.                *)
SaveTask(a, content, status) ==
  /\ tasks' = [tasks EXCEPT ![a] = [content |-> content, status |-> status]]
  /\ verdicts' = [verdicts EXCEPT ![a] = IF status = "approved" THEN 1 ELSE 0]

SaveApprovedTask(a, content) ==
  /\ SaveTask(a, content, "approved")
  /\ checked' = [checked EXCEPT ![a] = @ \cup {content}]
  /\ Finish("moderation-auto", {Event("ad.approved", a, "")}, FALSE)

SaveManualTask(a, content) ==
  /\ SaveTask(a, content, "manual")
  /\ Finish("moderation-auto", {}, FALSE)
  /\ UNCHANGED checked

Check ==
  LET w == work["moderation-auto"] IN
    /\ w # None
    /\ IF w.memory = None
       THEN Finish("moderation-auto", {}, FALSE)
              /\ UNCHANGED <<tasks, checked, verdicts>>
       ELSE IF Evaluate(w.memory, w.event.ad)
            THEN SaveManualTask(w.event.ad, w.memory)
            ELSE SaveApprovedTask(w.event.ad, w.memory)
    /\ UNCHANGED <<listingVars, open, reports>>

(***************************************************************************)
(* Decisions by hand.                                                      *)
(***************************************************************************)
HasTask(a) == tasks[a] # None    \* mutant
IsManual(a) == tasks[a] # None /\ tasks[a].status = "manual"

(* GET /moderation/tasks: a moderator has a task of the queue before them. *)
OpenTask(m, a) ==
  /\ IsManual(a)
  /\ open[m] = None
  /\ Spend("reviews")
  /\ open' = [open EXCEPT ![m] = [ad |-> a, content |-> tasks[a].content]]
  /\ UNCHANGED <<ads, call, swept, now, tasks, reports, checked, verdicts,
                 busVars>>

VerdictSubject(status) ==
  IF status = "approved" THEN "ad.approved" ELSE "ad.rejected"

(* approve, reject and request-edit: the service reads the task again, and *)
(* the UPDATE takes it only while it is in the queue.                      *)
Decide(m, status) ==
  LET a == open[m].ad IN
    /\ open[m] # None
    /\ open' = [open EXCEPT ![m] = None]
    /\ IF IsManual(a)
       THEN /\ tasks' = [tasks EXCEPT ![a].status = status]
            /\ verdicts' = [verdicts EXCEPT ![a] = @ + 1]
            /\ checked' = IF status = "approved"
                          THEN [checked EXCEPT ![a] = @ \cup {open[m].content}]
                          ELSE checked
            /\ Publish({Event(VerdictSubject(status), a, status)})
       ELSE UNCHANGED <<tasks, verdicts, checked, queue>>
    /\ UNCHANGED <<listingVars, reports, work>>

(***************************************************************************)
(* Reports of users.                                                       *)
(***************************************************************************)

(* POST /reports: the report is stored; its event has no consumer.  An ad  *)
(* has an id that may be reported once it is created.                      *)
CreateReport(r) ==
  /\ reports[r] = None
  /\ Target[r].type = "ad" => ads[Target[r].id] # None
  /\ Spend("reports")
  /\ reports' = [reports EXCEPT ![r] = [status |-> "open", resolution |-> ""]]
  /\ UNCHANGED <<ads, call, swept, now, tasks, open, checked, verdicts, busVars>>

ValidAction(action, type) ==
  action = "takedown" => type \in {"ad", "message", "review"}

ResolvedStatus(action) == IF action = "dismiss" THEN "dismissed" ELSE "resolved"

(* The event of a takedown.  Those of a message and of a review have their *)
(* consumers in Chat and in Reviews; an ad that is gone needs none.        *)
TakedownEvents(r, action) ==
  IF action = "takedown" /\ Target[r].type = "ad" /\ Exists(Target[r].id)
  THEN {Event("ad.blocked", Target[r].id, "")}
  ELSE {}

ResolveReport(r, action) ==
  /\ reports[r] # None /\ reports[r].status = "open"
  /\ ValidAction(action, Target[r].type)
  /\ reports' = [reports EXCEPT ![r] = [status |-> ResolvedStatus(action),
                                        resolution |-> action]]
  /\ Publish(TakedownEvents(r, action))
  /\ UNCHANGED <<listingVars, tasks, open, checked, verdicts, work>>

ModerationRestart ==
  /\ Spend("crashes")
  /\ work["moderation-auto"] # None
  /\ GiveBack({"moderation-auto"})
  /\ UNCHANGED <<ads, call, swept, now, moderationVars>>

=============================================================================
