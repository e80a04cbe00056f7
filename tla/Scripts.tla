------------------------------- MODULE Scripts -------------------------------
(***************************************************************************)
(* Stored scripts: internal/api/scripts.go and scriptsio.go (the rows, the *)
(* requests that edit and run them), cronmanager.go (the schedules) and    *)
(* triggers.go (scripts that saved events start).                          *)
(*                                                                         *)
(* A request, a scheduled run and a triggered run are goroutines of their  *)
(* own.  Each works on a copy of a row, loaded before the script runs, and *)
(* Save writes the fields in which its copy has been changed.              *)
(***************************************************************************)
EXTENDS Integers, SequencesExt, FiniteSetsExt, Functions

CONSTANTS
  Ids,         (* Record ids: 1 .. n, never used again.                     *)
  Names,       (* What scripts are called.                                  *)
  Tasks,       (* Goroutines that may work at a time.                       *)
  Crons,       (* Cron expressions; "" is none.                             *)
  Matching,    (* The minutes an expression matches (CronTime).             *)
  Items,       (* What an import may say of a script: enabled and cron.     *)
  TriggerIds,  (* Ids of triggers.                                          *)
  Triggers,    (* What a trigger may be: a type, a chat and a text it asks  *)
               (* for ("" if any), and whether it is enabled.               *)
  Events,      (* What is saved: a type, a chat and the texts it contains.  *)
  Outcomes,    (* What runs result in: status, output and error.            *)
  MaxEdits, MaxRuns,     (* Bounds of the model: edits, and runs,           *)
  MaxWork,               (* both together,                                  *)
  MaxTime, MaxRestarts   (* minutes, and restarts.                          *)

VARIABLES
  rows,        (* The collection scripts.                                   *)
  triggers,    (* The collection script_triggers.                           *)
  cron,        (* cronSchedules.                                            *)
  updates,     (* Goroutines that will store a schedule's next time.        *)
  task,        (* What each goroutine is doing.                             *)
  now,         (* Minutes passed.                                           *)
  edited,      (* History: what each row was last asked to be.              *)
  edits, runs, restarts  (* Edits, runs and restarts so far.                *)

counters == <<edits, runs, restarts>>
vars == <<rows, triggers, cron, updates, task, now, edited, counters>>

NoRow   == [name |-> "none"]
NoEntry == [expr |-> "none"]
Never   == -1
Free    == [kind |-> "free"]

Unrun == [status |-> "", output |-> "", error |-> ""]

Row(name, code, enabled, expr) ==
  [name |-> name, code |-> code, enabled |-> enabled, cron |-> expr, next |-> Never,
   status |-> Unrun.status, output |-> Unrun.output, error |-> Unrun.error]

Exists(i) == i \in Ids /\ rows[i] # NoRow
FreeTasks == {g \in Tasks : task[g] = Free}
Idle(g) == FreeTasks # {} /\ g = CHOOSE h \in FreeTasks : TRUE

(* The bound of runs.                                                      *)
CountRuns(n) == /\ runs + n <= MaxRuns /\ edits + runs + n <= MaxWork
                /\ runs' = runs + n
Become(g, work) == task' = [task EXCEPT ![g] = work]

(***************************************************************************)
(* Records.                                                                *)
(***************************************************************************)

(* Mutant: the row becomes what the copy is.                               *)
WriteWhole(i, loaded, changed) ==
  IF Exists(i) THEN [rows EXCEPT ![i] = changed] ELSE rows

(* Save of a record that is not new: an UPDATE of the fields that differ   *)
(* from what was loaded; no row, nothing updated.                          *)
Write(i, loaded, changed) ==
  IF Exists(i)
  THEN [rows EXCEPT ![i] =
         [f \in DOMAIN @ |-> IF changed[f] = loaded[f] THEN @[f] ELSE changed[f]]]
  ELSE rows

(* The new record gets the next id; a name that is taken is refused.       *)
Unused == {i \in Ids : edited[i] = NoRow}
Taken(name) == \E i \in Ids : rows[i].name = name

Edited(row) == [code |-> row.code, enabled |-> row.enabled, cron |-> row.cron]

Insert(row) ==
  /\ Unused # {}
  /\ rows' = [rows EXCEPT ![Min(Unused)] = row]
  /\ edited' = [edited EXCEPT ![Min(Unused)] = Edited(row)]

(***************************************************************************)
(* Schedules.                                                              *)
(***************************************************************************)

(* nextCronTime: the first minute after this one, if there is one.         *)
NextCronTime(expr, minute) ==
  LET later == {d \in Matching[expr] : d > minute}
  IN IF later = {} THEN Never ELSE Min(later)

(* loadCronSchedules and registerCron, once, when the program starts.      *)
Loaded(table, minute) ==
  [i \in Ids |->
    IF /\ table[i] # NoRow /\ table[i].enabled /\ table[i].cron # ""
       /\ NextCronTime(table[i].cron, minute) # Never
    THEN [expr |-> table[i].cron, next |-> NextCronTime(table[i].cron, minute), prev |-> Never]
    ELSE NoEntry]

Announced(entries) ==
  {[id |-> i, next |-> entries[i].next] : i \in {j \in Ids : entries[j] # NoEntry}}

Init ==
  /\ \E expr \in Crons :
       rows = [i \in Ids |-> IF i = 1 THEN Row(CHOOSE n \in Names : TRUE, 1, TRUE, expr) ELSE NoRow]
  /\ triggers = [k \in TriggerIds |-> NoRow]
  /\ now = 0
  /\ cron = Loaded(rows, now)
  /\ updates = Announced(cron)
  /\ task = [g \in Tasks |-> Free]
  /\ edited = [i \in Ids |-> IF Exists(i) THEN Edited(rows[i]) ELSE NoRow]
  /\ edits = 0 /\ runs = 0 /\ restarts = 0

(* The schedules whose time has come.                                      *)
DueNow(minute) ==
  {i \in Ids : cron[i] # NoEntry /\ cron[i].next # Never /\ cron[i].next <= minute}

CronTask(i, step, rec) == [kind |-> "cron", step |-> step, id |-> i, rec |-> rec]

(* cronTickLoop: a goroutine for each of them, even if the one of an       *)
(* earlier tick is still running.                                          *)
Tick ==
  /\ now < MaxTime /\ now' = now + 1
  /\ CountRuns(Cardinality(DueNow(now + 1)))
  /\ \E g \in Injection(DueNow(now + 1), FreeTasks) :
       task' = [h \in Tasks |->
         IF \E i \in DOMAIN g : g[i] = h
         THEN CronTask(CHOOSE i \in DOMAIN g : g[i] = h, "load", NoRow)
         ELSE task[h]]
  /\ UNCHANGED <<rows, triggers, cron, updates, edited, edits, restarts>>

(* Mutant: the goroutine of a script that is gone ends at once.            *)
CronLoadOrEnd(g) ==
  /\ task[g].kind = "cron" /\ task[g].step = "load"
  /\ Become(g, IF Exists(task[g].id)
               THEN CronTask(task[g].id, "run", rows[task[g].id]) ELSE Free)
  /\ UNCHANGED <<rows, triggers, cron, updates, now, edited, counters>>

(* runScriptByID loads the script; one that is gone is not run.            *)
CronLoad(g) ==
  /\ task[g].kind = "cron" /\ task[g].step = "load"
  /\ Become(g, IF Exists(task[g].id)
               THEN CronTask(task[g].id, "run", rows[task[g].id])
               ELSE CronTask(task[g].id, "advance", NoRow))
  /\ UNCHANGED <<rows, triggers, cron, updates, now, edited, counters>>

(* After the run the schedule moves on, if there is one, and a goroutine   *)
(* is started that will store its next time.                               *)
CronAdvance(g) ==
  LET i    == task[g].id
      next == NextCronTime(cron[i].expr, now)
  IN /\ task[g].kind = "cron" /\ task[g].step = "advance"
     /\ cron' = [cron EXCEPT ![i].next = next, ![i].prev = now]
     /\ updates' = updates \cup {[id |-> i, next |-> next]}
     /\ Become(g, Free)
     /\ UNCHANGED <<rows, triggers, now, edited, counters>>

(* updateNextRunAt writes this field only, and nothing else writes it:     *)
(* loading and saving are one step.                                        *)
UpdateNextRunAt(u) ==
  /\ rows' = IF Exists(u.id) THEN [rows EXCEPT ![u.id].next = u.next] ELSE rows
  /\ updates' = updates \ {u}
  /\ UNCHANGED <<triggers, cron, task, now, edited, counters>>

(***************************************************************************)
(* Runs.                                                                   *)
(***************************************************************************)

(* postScriptRun.                                                          *)
StartRun(g) ==
  /\ Idle(g) /\ CountRuns(1)
  /\ \E i \in Ids : /\ Exists(i)
                    /\ Become(g, [kind |-> "run", step |-> "run", id |-> i, rec |-> rows[i]])
  /\ UNCHANGED <<rows, triggers, cron, updates, now, edited, edits, restarts>>

(* What a run sets in the copy it loaded.                                  *)
Done(rec, out) ==
  [rec EXCEPT !.status = out.status, !.output = out.output, !.error = out.error]

(* runScript: the script ends by itself, throws, or is interrupted when    *)
(* its time is up.  What became of it is saved in the copy loaded before.  *)
EndRun(g) ==
  /\ task[g].kind \in {"run", "cron"} /\ task[g].step = "run"
  /\ \E out \in Outcomes :
       rows' \in {Write(task[g].id, task[g].rec, Done(task[g].rec, out)), rows}
  /\ Become(g, IF task[g].kind = "cron" THEN CronTask(task[g].id, "advance", NoRow) ELSE Free)
  /\ UNCHANGED <<triggers, cron, updates, now, edited, counters>>

Asks(trigger, event) ==
  /\ trigger.enabled /\ trigger.type = event.type
  /\ trigger.chat \in {"", event.chat}
  /\ trigger.text \in {""} \cup event.texts

(* The triggers an event fires: those whose script has code.               *)
FiredBy(event) ==
  {k \in TriggerIds : /\ triggers[k] # NoRow /\ Asks(triggers[k], event)
                      /\ Exists(triggers[k].id) /\ rows[triggers[k].id].code # 0}

(* dispatchTriggers, after an event is saved.                              *)
Fire(event) ==
  LET fired == FiredBy(event)
  IN /\ fired # {} /\ CountRuns(Cardinality(fired))
     /\ \E g \in Injection(fired, FreeTasks) :
          task' = [h \in Tasks |->
            IF \E k \in fired : g[k] = h
            THEN [kind |-> "fired", step |-> "run",
                  id |-> triggers[CHOOSE k \in fired : g[k] = h].id]
            ELSE task[h]]
     /\ UNCHANGED <<rows, triggers, cron, updates, now, edited, edits, restarts>>

(* A triggered run loads the row when the script has ended ...             *)
EndFired(g) ==
  LET Ok(out) == IF out.status = "success" THEN [out EXCEPT !.status = "ok"] ELSE out
  IN /\ task[g].kind = "fired" /\ task[g].step = "run"
     /\ IF Exists(task[g].id)
        THEN \E out \in Outcomes :
               Become(g, [kind |-> "fired", step |-> "save", id |-> task[g].id,
                          rec |-> rows[task[g].id], out |-> Ok(out)])
        ELSE Become(g, Free)
     /\ UNCHANGED <<rows, triggers, cron, updates, now, edited, counters>>

(* ... and saves it at once.                                               *)
SaveFired(g) ==
  /\ task[g].kind = "fired" /\ task[g].step = "save"
  /\ rows' \in {Write(task[g].id, task[g].rec, Done(task[g].rec, task[g].out)), rows}
  /\ Become(g, Free)
  /\ UNCHANGED <<triggers, cron, updates, now, edited, counters>>

(***************************************************************************)
(* Edits.                                                                  *)
(***************************************************************************)

Count == edits < MaxEdits /\ edits + runs < MaxWork /\ edits' = edits + 1

(* postScript.  The schedule of a new script is set by an import only.     *)
PostScript ==
  /\ Count
  /\ \E name \in Names, enabled \in BOOLEAN :
       ~Taken(name) /\ Insert(Row(name, edits', enabled, ""))
  /\ UNCHANGED <<triggers, cron, updates, task, now, runs, restarts>>

(* patchScript loads the row, sets what the body gives and saves.  Codes   *)
(* are numbers; every edit gives a new one.                                *)
PatchLoad(g) ==
  /\ Idle(g) /\ Count
  /\ \E i \in Ids, given \in SUBSET {"code", "enabled"} :
       /\ Exists(i) /\ given # {}
       /\ Become(g, [kind |-> "edit", id |-> i, rec |-> rows[i], given |-> given,
            row |-> [rows[i] EXCEPT !.code = IF "code" \in given THEN edits' ELSE @,
                                    !.enabled = IF "enabled" \in given THEN ~@ ELSE @]])
  /\ UNCHANGED <<rows, triggers, cron, updates, now, edited, runs, restarts>>

(* postScriptsImport looks each item up by its name: a script that exists  *)
(* is edited, its schedule only if the item has one ...                    *)
ImportLoad(g) ==
  /\ Idle(g) /\ Count
  /\ \E i \in Ids, item \in Items :
       /\ Exists(i)
       /\ Become(g, [kind |-> "edit", id |-> i, rec |-> rows[i],
            given |-> {"code", "enabled"} \cup (IF item.cron = "" THEN {} ELSE {"cron"}),
            row |-> [rows[i] EXCEPT !.code = edits', !.enabled = item.enabled,
                                    !.cron = IF item.cron = "" THEN @ ELSE item.cron]])
  /\ UNCHANGED <<rows, triggers, cron, updates, now, edited, runs, restarts>>

EditSave(g) ==
  /\ task[g].kind = "edit"
  /\ \/ /\ rows' = Write(task[g].id, task[g].rec, task[g].row)
        /\ edited' = [edited EXCEPT ![task[g].id] =
             IF ~Exists(task[g].id) THEN @
             ELSE [f \in DOMAIN @ |->
               IF f \in task[g].given /\ task[g].row[f] # task[g].rec[f]
               THEN task[g].row[f] ELSE @[f]]]
     \/ UNCHANGED <<rows, edited>>
  /\ Become(g, Free)
  /\ UNCHANGED <<triggers, cron, updates, now, counters>>

(* ... and one that does not is created.  No schedule is registered.       *)
ImportNew ==
  /\ Count
  /\ \E name \in Names, item \in Items :
       ~Taken(name) /\ Insert(Row(name, edits', item.enabled, item.cron))
  /\ UNCHANGED <<triggers, cron, updates, task, now, runs, restarts>>

(* deleteScript.  Schedules and triggers keep the id.                      *)
DeleteScript ==
  /\ Count
  /\ \E i \in Ids : /\ Exists(i)
                    /\ rows' = [rows EXCEPT ![i] = NoRow]
                    /\ edited' = [edited EXCEPT ![i] = [gone |-> TRUE]]
  /\ UNCHANGED <<triggers, cron, updates, task, now, runs, restarts>>

(* postTrigger and patchTrigger; the id is not looked up.                  *)
PutTrigger ==
  /\ Count
  /\ \E k \in TriggerIds, i \in Ids, t \in Triggers :
       triggers' = [triggers EXCEPT ![k] = [id |-> i] @@ t]
  /\ UNCHANGED <<rows, cron, updates, task, now, edited, runs, restarts>>

DeleteTrigger ==
  /\ Count
  /\ \E k \in TriggerIds :
       triggers[k] # NoRow /\ triggers' = [triggers EXCEPT ![k] = NoRow]
  /\ UNCHANGED <<rows, cron, updates, task, now, edited, runs, restarts>>

(* The program stops, with all it is doing, and starts again.              *)
Restart ==
  /\ restarts < MaxRestarts /\ restarts' = restarts + 1
  /\ task' = [g \in Tasks |-> Free]
  /\ cron' = Loaded(rows, now)
  /\ updates' = Announced(cron')
  /\ UNCHANGED <<rows, triggers, now, edited, edits, runs>>

(***************************************************************************)
(* The specification.                                                      *)
(***************************************************************************)

(* What goes on by itself once it has begun.                               *)
Proceed(g) == CronLoad(g) \/ CronAdvance(g) \/ EndRun(g) \/ EndFired(g) \/ SaveFired(g)

Next ==
  \/ Tick \/ Restart
  \/ \E g \in Tasks : Proceed(g) \/ StartRun(g) \/ PatchLoad(g) \/ ImportLoad(g) \/ EditSave(g)
  \/ \E u \in updates : UpdateNextRunAt(u)
  \/ \E event \in Events : Fire(event)
  \/ PostScript \/ ImportNew \/ DeleteScript \/ PutTrigger \/ DeleteTrigger

Spec == Init /\ [][Next]_vars

(* Goroutines are scheduled, and a run ends: its time-out interrupts the   *)
(* script, and what it calls has time-outs of its own.                     *)
FairSpec == Spec /\ \A g \in Tasks : WF_vars(Proceed(g))

(***************************************************************************)
(* Properties.                                                             *)
(***************************************************************************)

TypeOK ==
  /\ \A i \in Ids : Exists(i) =>
       /\ rows[i].name \in Names /\ rows[i].code \in 0 .. MaxEdits \cup {1}
       /\ rows[i].enabled \in BOOLEAN /\ rows[i].cron \in Crons
       /\ \A j \in Ids : rows[j].name = rows[i].name => j = i
  /\ \A i \in Ids : cron[i] # NoEntry =>
       cron[i].next \in Matching[cron[i].expr] \cup {Never} /\ cron[i].prev \in 0 .. MaxTime \cup {Never}
  /\ \A u \in updates : u.id \in Ids
  /\ now \in 0 .. MaxTime

(* A row's code, its switch and its schedule are what the last request     *)
(* that set them asked for, and a deleted script stays deleted: no run     *)
(* that loaded the row earlier, and no schedule, takes an edit back.       *)
RowsAreAsEdited ==
  \A i \in Ids : IF Exists(i) THEN edited[i] = Edited(rows[i])
                 ELSE edited[i] \in {NoRow, [gone |-> TRUE]}

(* A schedule whose time has come moves on to a later time, or has none    *)
(* left: neither a run that fails, nor one longer than a minute, which is  *)
(* started again beside itself, nor the deletion of its script stops it.   *)
ScheduleGoesOn ==
  \A i \in Ids :
    (cron[i] # NoEntry /\ i \in DueNow(now)) ~> (i \notin DueNow(now))

(* "Last-run metadata is stored back after each execution": what a row     *)
(* says of the last run is what one run resulted in.                       *)
ResultOfOneRun ==
  \A i \in Ids : Exists(i) =>
    LET last == [status |-> IF rows[i].status = "ok" THEN "success" ELSE rows[i].status,
                 output |-> rows[i].output, error |-> rows[i].error]
    IN last \in Outcomes \cup {Unrun}
=============================================================================
