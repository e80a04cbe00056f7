---------------------------- MODULE MCAutomation ----------------------------
(***************************************************************************)
(* What acts by itself, in one run: scheduled messages, scripts and the    *)
(* search for the next time of a schedule.  They share no state: "part"    *)
(* says which of them a behaviour is about, and the variables of the       *)
(* others keep their first values.                                         *)
(***************************************************************************)
EXTENDS ScheduledMessages, Sequences, AutomationBounds

CONSTANTS
  ScriptIds, Names, Tasks, Crons, Matching, Items, TriggerIds, Triggers, Events,
  Outcomes, MaxEdits, MaxRuns, MaxWork, MaxMinutes, MaxRestarts,
                                                     (* For Scripts, and    *)
  Minutes, Hours, Weekdays, MonthDays, Horizon, Zones, Exprs, Starts
                                                     (* for CronTime.       *)

VARIABLES
  part,
  scripts, triggers, cron, updates, task, now, edited, edits, runs, restarts,
  zone, expr, from, t, search

scriptVars == <<scripts, triggers, cron, updates, task, now, edited, edits, runs, restarts>>
searchVars == <<zone, expr, from, t, search>>
allVars    == <<part, vars, scriptVars, searchVars>>

S == INSTANCE Scripts WITH Ids <- ScriptIds, MaxTime <- MaxMinutes, rows <- scripts

C == INSTANCE CronTime

(* A calendar, and schedules with fields of the forms that are parsed.     *)
ASSUME CalendarAssumption ==
  /\ Minutes \in Nat \ {0} /\ Hours \in Nat \ {0} /\ Weekdays \in Nat \ {0}
  /\ MonthDays \in Seq(Nat \ {0}) /\ MonthDays # <<>>
  /\ Exprs \subseteq [min : C!Fields, hour : C!Fields, dom : C!Fields, mon : C!Fields, dow : C!Fields]
  /\ Starts \subseteq Int

(* Clocks change on the full hour, and by an hour at most, as in nearly    *)
(* all zones.                                                              *)
ASSUME ZonesAssumption ==
  /\ Zones \subseteq [before : Int, after : Int, at : Int]
  /\ \A z \in Zones :
       /\ (z.at + z.before) % Minutes = 0
       /\ z.after - z.before \in -Minutes .. Minutes

(* The first values of the parts a behaviour is not about.                 *)
AutomationInit ==
  /\ part \in {"messages", "scripts", "search"}
  /\ Init /\ S!Init /\ C!Init
  /\ part # "scripts" => \A i \in ScriptIds : scripts[i] # S!NoRow => scripts[i].cron = ""
  /\ part # "search" =>
       /\ zone = CHOOSE z \in Zones : TRUE
       /\ expr = CHOOSE e \in Exprs : TRUE
       /\ from = CHOOSE u \in Starts : TRUE

AutomationNext ==
  /\ part' = part
  /\ \/ part = "messages" /\ Next /\ UNCHANGED <<scriptVars, searchVars>>
     \/ part = "scripts" /\ S!Next /\ UNCHANGED <<vars, searchVars>>
     \/ part = "search" /\ C!Next /\ UNCHANGED <<vars, scriptVars>>

(* The fairness of each part, for the behaviours that are about it.        *)
AutomationSpec ==
  /\ AutomationInit /\ [][AutomationNext]_allVars
  /\ WF_vars(part = "messages" /\ Worker)
  /\ \A g \in Tasks : WF_scriptVars(part = "scripts" /\ S!Proceed(g))
  /\ WF_searchVars(part = "search" /\ C!Next)

(* nextCronTime: the minute found matches, and none that matches is passed *)
(* over, but for an hour that summer time repeats.                         *)
FirstMatch == C!FirstMatch

(* patchScript, deleteScript, runScript and the schedules: no run and no   *)
(* schedule takes an edit of a script back.                                *)
RowsAreAsEdited == S!RowsAreAsEdited

(* cronTickLoop: a schedule whose time has come moves on.                  *)
ScheduleGoesOn == S!ScheduleGoesOn
=============================================================================
