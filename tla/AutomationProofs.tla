-------------------------- MODULE AutomationProofs --------------------------
(***************************************************************************)
(* What acts by itself: nothing scheduled is sent twice without a lost     *)
(* mark, for any number of rows and requests, any limit, and any number of *)
(* lost marks and crashes; no run and no schedule takes an edit of a       *)
(* script back, for any number of scripts, triggers and goroutines; the    *)
(* search for the next time of a schedule misses none, for any calendar.   *)
(***************************************************************************)
EXTENDS MCAutomation, TLAPS, WellFoundedInduction

(***************************************************************************)
(* Scheduled messages.                                                     *)
(*                                                                         *)
(* A row may be sent while it is pending, so the argument counts: a row    *)
(* that is pending, or loaded and not reached, has reached WhatsApp at     *)
(* most as often as its mark was lost, and the one being marked at most    *)
(* once more.  Requests do not disturb this because a PATCH that loaded    *)
(* "pending" can write "cancelled" or nothing.                             *)
(***************************************************************************)

Marking(id) == current # Resting /\ current.sent = id
Loaded(id)  == \E b \in batch : b.id = id

(* The types the argument needs.                                           *)
ScheduleType ==
  /\ rows \in [Ids -> Rows]
  /\ batch \subseteq [id : Ids, row : Rows]
  /\ current \in {Resting} \cup [sent : Ids, error : BOOLEAN]
  /\ request \in [Requests -> {Idle} \cup [op : {"patch", "delete"}, id : Ids, row : Rows]]
  /\ sends \in [Ids -> Nat] /\ troubles \in [Ids -> Nat]
  /\ clock \in Times

Unmarked ==
  \A id \in Ids :
    /\ rows[id].status = "unborn" => sends[id] = 0
    /\ (rows[id].status = "pending" /\ ~Marking(id)) \/ Loaded(id) => sends[id] <= troubles[id]
    /\ Marking(id) => ~Loaded(id) /\ (~current.error => sends[id] > 0)
    /\ rows[id].status = "sent" => sends[id] > 0
    /\ Loaded(id) => rows[id].status # "unborn"
    /\ sends[id] <= 1 + troubles[id]

(* A batch holds each row once; a request that holds a row holds one that  *)
(* was created, and a PATCH one that was pending.                          *)
Copies ==
  /\ \A b, c \in batch : b.id = c.id => b = c
  /\ \A q \in Requests : request[q] # Idle =>
       /\ rows[request[q].id].status # "unborn"
       /\ request[q].op = "patch" => request[q].row.status = "pending"

IndInv == ScheduleType /\ Unmarked /\ Copies

LEMMA InitIndInv == Init => IndInv
<1> SUFFICES ASSUME Init PROVE IndInv
  OBVIOUS
<1>1. ScheduleType
  BY ScheduleAssumption DEF ScheduleAssumption, Init, ScheduleType, Rows, NoRow, Statuses, Times
<1> QED
  BY <1>1 DEF Init, IndInv, Unmarked, Copies, Marking, Loaded, NoRow

(* What the steps of the worker do to the counts.                          *)
LEMMA LoadIndInv == ASSUME IndInv, Load PROVE IndInv'
<1> USE DEF IndInv, ScheduleType
<1>1. PICK picked \in SUBSET {id \in Ids : Due(rows[id])} :
        batch' = {[id |-> id, row |-> rows[id]] : id \in picked}
  BY DEF Load, kSubset
<1>2. batch = {} /\ current = Resting
      /\ UNCHANGED <<rows, clock, current, request, sends, troubles>>
  BY DEF Load
<1>3. ScheduleType'
  BY <1>1, <1>2
<1>4. \A id \in Ids : Loaded(id)' => rows[id].status = "pending"
  BY <1>1 DEF Loaded, Due
<1>5. Unmarked'
  BY <1>2, <1>4 DEF Unmarked, Marking
<1>6. Copies'
  BY <1>1, <1>2 DEF Copies
<1> QED BY <1>3, <1>5, <1>6

LEMMA SendIndInv == ASSUME IndInv, Send PROVE IndInv'
<1> USE DEF IndInv, ScheduleType
<1>1. PICK b \in batch, reached \in BOOLEAN, error \in BOOLEAN :
        /\ reached \/ error
        /\ batch' = batch \ {b}
        /\ current' = [sent |-> b.id, error |-> error]
        /\ sends' = IF reached THEN [sends EXCEPT ![b.id] = @ + 1] ELSE sends
  BY DEF Send
<1>2. current = Resting /\ UNCHANGED <<rows, clock, request, troubles>>
  BY DEF Send
<1>3. b.id \in Ids
  OBVIOUS
<1>4. ScheduleType'
  BY <1>1, <1>2, <1>3
<1>5. /\ Marking(b.id)' /\ ~Loaded(b.id)' /\ Loaded(b.id)
      /\ \A id \in Ids \ {b.id} : ~Marking(id)' /\ ~Marking(id) /\ (Loaded(id)' => Loaded(id))
      /\ current'.error = error
  BY <1>1, <1>2, <1>3 DEF Marking, Loaded, Copies, Resting
<1>6. /\ sends[b.id] <= sends'[b.id] /\ sends'[b.id] <= sends[b.id] + 1
      /\ reached => sends'[b.id] = sends[b.id] + 1
      /\ \A id \in Ids \ {b.id} : sends'[id] = sends[id]
  BY <1>1, <1>3
<1>7. Unmarked'
  BY <1>1, <1>2, <1>3, <1>4, <1>5, <1>6 DEF Unmarked
<1>8. Copies'
  BY <1>1, <1>2 DEF Copies
<1> QED BY <1>4, <1>7, <1>8

LEMMA MarkIndInv == ASSUME IndInv, Mark PROVE IndInv'
<1> USE DEF IndInv, ScheduleType
<1> DEFINE id == current.sent
           mark == IF current.error THEN "failed" ELSE "sent"
<1>1. /\ current # Resting /\ current' = Resting
      /\ UNCHANGED <<clock, batch, request, sends, troubles>>
      /\ rows' = IF Exists(id) THEN [rows EXCEPT ![id].status = mark] ELSE rows
  BY DEF Mark
<1>2. id \in Ids /\ current.error \in BOOLEAN
  BY <1>1
<1>3. \A i \in Ids : rows'[i].status = rows[i].status \/ (i = id /\ rows'[i].status = mark /\ Exists(id))
  BY <1>1, <1>2 DEF Rows
<1>4. rows' \in [Ids -> Rows]
  BY <1>1, <1>2 DEF Rows, Statuses
<1>5. Exists(id) => rows'[id].status = mark
  BY <1>1, <1>2 DEF Rows
<1>6. /\ Marking(id) /\ \A i \in Ids : ~Marking(i)' /\ (Loaded(i)' <=> Loaded(i))
  BY <1>1 DEF Marking, Loaded
<1>7. \A i \in Ids \ {id} : ~Marking(i)
  BY DEF Marking
<1>8. Unmarked'
  BY <1>1, <1>2, <1>3, <1>5, <1>6, <1>7 DEF Unmarked, Exists
<1>9. Copies'
  BY <1>1, <1>3 DEF Copies, Exists
<1> QED BY <1>1, <1>4, <1>8, <1>9

LEMMA MarkFailsIndInv == ASSUME IndInv, MarkFails PROVE IndInv'
<1> USE DEF IndInv, ScheduleType
<1>1. /\ current # Resting /\ current' = Resting
      /\ troubles' = [troubles EXCEPT ![current.sent] = @ + 1]
      /\ UNCHANGED <<rows, clock, batch, request, sends>>
  BY DEF MarkFails
<1>2. current.sent \in Ids
  BY <1>1
<1>3. \A i \in Ids : troubles'[i] = IF i = current.sent THEN troubles[i] + 1 ELSE troubles[i]
  BY <1>1, <1>2
<1>4. ScheduleType'
  BY <1>1, <1>2
<1>5. Unmarked'
  BY <1>1, <1>2, <1>3 DEF Unmarked, Marking, Loaded
<1> QED BY <1>1, <1>4, <1>5 DEF Copies

LEMMA CrashIndInv == ASSUME IndInv, Crash PROVE IndInv'
<1> USE DEF IndInv, ScheduleType
<1>1. /\ batch' = {} /\ current' = Resting /\ request' = [q \in Requests |-> Idle]
      /\ troubles' = [id \in Ids |-> IF Marking(id) THEN troubles[id] + 1 ELSE troubles[id]]
      /\ UNCHANGED <<rows, clock, sends>>
  BY DEF Crash, Marking
<1>2. \A i \in Ids : ~Loaded(i)' /\ ~Marking(i)'
  BY <1>1 DEF Loaded, Marking
<1>3. \A i \in Ids : troubles'[i] = IF Marking(i) THEN troubles[i] + 1 ELSE troubles[i]
  BY <1>1
<1>4. ScheduleType'
  BY <1>1
<1>5. Unmarked'
  BY <1>1, <1>2, <1>3 DEF Unmarked
<1> QED BY <1>1, <1>4, <1>5 DEF Copies

(* Requests change rows, not what was loaded, sent or lost.                *)
LEMMA CreateIndInv == ASSUME IndInv, Create PROVE IndInv'
<1> USE DEF IndInv, ScheduleType
<1>1. PICK id \in Ids, at \in Times :
        /\ rows[id].status = "unborn"
        /\ rows' = [rows EXCEPT ![id] = [status |-> "pending", at |-> at]]
  BY DEF Create
<1>2. UNCHANGED <<clock, batch, current, request, sends, troubles>>
  BY DEF Create
<1>3. rows' \in [Ids -> Rows]
  BY <1>1 DEF Rows, Statuses
<1>4. rows'[id].status = "pending" /\ \A i \in Ids \ {id} : rows'[i] = rows[i]
  BY <1>1
<1>5. Unmarked'
  BY <1>1, <1>2, <1>4 DEF Unmarked, Marking, Loaded
<1>6. Copies'
  BY <1>1, <1>2, <1>4 DEF Copies
<1> QED BY <1>2, <1>3, <1>5, <1>6

LEMMA FetchIndInv == ASSUME IndInv, NEW q \in Requests, Fetch(q) PROVE IndInv'
<1> USE DEF IndInv, ScheduleType
<1>1. UNCHANGED <<rows, clock, batch, current, sends, troubles>>
  BY DEF Fetch
<1>2. PICK id \in Ids, op \in {"patch", "delete"} :
        /\ rows[id].status # "unborn" /\ (op = "patch" => rows[id].status = "pending")
        /\ request' = [request EXCEPT ![q] = [op |-> op, id |-> id, row |-> rows[id]]]
  BY DEF Fetch
<1>3. ScheduleType'
  BY <1>1, <1>2
<1>4. Unmarked'
  BY <1>1 DEF Unmarked, Marking, Loaded
<1>5. Copies'
  BY <1>1, <1>2 DEF Copies
<1> QED BY <1>3, <1>4, <1>5

(* A request that writes a row keeps its status, or makes it cancelled or  *)
(* deleted.                                                                *)
LEMMA WithdrawIndInv ==
  ASSUME IndInv, NEW q \in Requests, request[q] # Idle, request' = [request EXCEPT ![q] = Idle],
         UNCHANGED <<clock, batch, current, sends, troubles>>,
         rows' \in [Ids -> Rows],
         \A i \in Ids : \/ rows'[i].status = rows[i].status
                        \/ rows[i].status # "unborn" /\ rows'[i].status \in {"cancelled", "deleted"}
  PROVE  IndInv'
<1> USE DEF IndInv, ScheduleType
<1>1. Unmarked'
  BY DEF Unmarked, Marking, Loaded
<1>2. Copies'
  BY DEF Copies
<1> QED BY <1>1, <1>2

LEMMA PatchIndInv == ASSUME IndInv, NEW q \in Requests, Patch(q) PROVE IndInv'
<1> USE DEF IndInv, ScheduleType
<1> DEFINE id == request[q].id
           was == request[q].row
           Written(stored, loaded, new) == IF new = loaded THEN stored ELSE new
<1>1. PICK at \in Times, status \in {"pending", "cancelled"} :
        rows' = IF Exists(id)
                THEN [rows EXCEPT ![id] = [at     |-> Written(@.at, was.at, at),
                                           status |-> Written(@.status, was.status, status)]]
                ELSE rows
  BY DEF Patch
<1>2. /\ request[q].op = "patch" /\ request' = [request EXCEPT ![q] = Idle]
      /\ UNCHANGED <<clock, batch, current, sends, troubles>>
  BY DEF Patch
<1>3. request[q] # Idle
  BY <1>2 DEF Idle
<1>4. id \in Ids /\ was \in Rows /\ was.status = "pending" /\ rows[id].status # "unborn"
  BY <1>2, <1>3 DEF Copies
<1>5. rows' \in [Ids -> Rows]
  BY <1>1, <1>4 DEF Rows, Statuses
<1>6. \A i \in Ids : \/ rows'[i].status = rows[i].status
                     \/ rows[i].status # "unborn" /\ rows'[i].status = "cancelled"
  BY <1>1, <1>4
<1> QED BY <1>2, <1>3, <1>5, <1>6, WithdrawIndInv

LEMMA DeleteIndInv == ASSUME IndInv, NEW q \in Requests, Delete(q) PROVE IndInv'
<1> USE DEF IndInv, ScheduleType
<1>1. /\ request[q].op = "delete" /\ request' = [request EXCEPT ![q] = Idle]
      /\ rows' = [rows EXCEPT ![request[q].id].status = "deleted"]
      /\ UNCHANGED <<clock, batch, current, sends, troubles>>
  BY DEF Delete
<1>2. request[q] # Idle
  BY <1>1 DEF Idle
<1>3. request[q].id \in Ids /\ rows[request[q].id].status # "unborn"
  BY <1>2 DEF Copies
<1>4. rows' \in [Ids -> Rows]
  BY <1>1, <1>3 DEF Rows, Statuses
<1>5. \A i \in Ids : \/ rows'[i].status = rows[i].status
                     \/ rows[i].status # "unborn" /\ rows'[i].status = "deleted"
  BY <1>1, <1>3 DEF Rows
<1> QED BY <1>1, <1>2, <1>4, <1>5, WithdrawIndInv

LEMMA NextIndInv == IndInv /\ [Next]_vars => IndInv'
<1> SUFFICES ASSUME IndInv, [Next]_vars PROVE IndInv'
  OBVIOUS
<1>1. CASE Pass
  <2>1. clock' \in Times
    BY <1>1, ScheduleAssumption DEF ScheduleAssumption, Pass, IndInv, ScheduleType, Times
  <2> QED
    BY <1>1, <2>1 DEF Pass, IndInv, ScheduleType, Unmarked, Copies, Marking, Loaded
<1>2. CASE Worker
  BY <1>2, LoadIndInv, SendIndInv, MarkIndInv, MarkFailsIndInv DEF Worker
<1>3. CASE Create
  BY <1>3, CreateIndInv
<1>4. CASE Crash
  BY <1>4, CrashIndInv
<1>5. ASSUME NEW q \in Requests, Serve(q) PROVE IndInv'
  <2>1. CASE Refuse(q)
    BY <2>1, WithdrawIndInv DEF Refuse, IndInv, ScheduleType
  <2> QED
    BY <1>5, <2>1, FetchIndInv, PatchIndInv, DeleteIndInv DEF Serve
<1>6. CASE UNCHANGED vars
  BY <1>6 DEF vars, IndInv, ScheduleType, Unmarked, Copies, Marking, Loaded
<1> QED
  BY <1>1, <1>2, <1>3, <1>4, <1>5, <1>6 DEF Next

LEMMA Inductive == Spec => []IndInv
  BY InitIndInv, NextIndInv, PTL DEF Spec

(* A message is sent again only if its mark was lost, for any number of    *)
(* requests that change, cancel and delete rows while the worker sends.    *)
THEOREM SentAgainOnlyAfterLoss == Spec => []NoResend
<1>1. IndInv => NoResend
  BY DEF IndInv, Unmarked, NoResend, Marking
<1> QED BY <1>1, Inductive, PTL

(* A row that says it was sent was sent.                                   *)
THEOREM SentRowsWereSent == Spec => []SentWasSent
<1>1. IndInv => SentWasSent
  BY DEF IndInv, Unmarked, SentWasSent
<1> QED BY <1>1, Inductive, PTL

(***************************************************************************)
(* Scripts.                                                                *)
(***************************************************************************)

(* What requests set.                                                      *)
Kept == {"code", "enabled", "cron"}

(* Rows are what they were asked to be.                                    *)
RowsOK(table, asked) ==
  /\ table = [i \in ScriptIds |-> table[i]] /\ asked = [i \in ScriptIds |-> asked[i]]
  /\ \A i \in ScriptIds : table[i] # S!NoRow =>
       Kept \subseteq DOMAIN table[i] /\ asked[i] = S!Edited(table[i])
  /\ \A i \in ScriptIds : table[i] = S!NoRow => asked[i] \in {S!NoRow, [gone |-> TRUE]}

(* What a goroutine holds: a run a copy of a row, an edit a copy and what  *)
(* it makes of it, which differs from the copy in what the request gives.  *)
TaskOK(k) ==
  \/ k = S!Free
  \/ k.kind = "cron" /\ k.step \in {"load", "advance"}
  \/ k.kind \in {"cron", "run"} /\ k.step = "run" /\ Kept \subseteq DOMAIN k.rec
  \/ k.kind = "fired" /\ k.step = "run"
  \/ k.kind = "fired" /\ k.step = "save" /\ Kept \subseteq DOMAIN k.rec
  \/ k.kind = "edit" /\ \A f \in Kept \ k.given : k.row[f] = k.rec[f]

ScriptsInv ==
  /\ RowsOK(scripts, edited)
  /\ task = [g \in Tasks |-> task[g]]
  /\ \A g \in Tasks : TaskOK(task[g])

(***************************************************************************)
(* Records.                                                                *)
(***************************************************************************)

(* Something with a code is a row.                                         *)
LEMMA RowIsRow ==
  ASSUME NEW row, "code" \in DOMAIN row
  PROVE  row # S!NoRow
<1>1. DOMAIN S!NoRow = {"name"}
  BY DEF S!NoRow
<1> QED BY <1>1

(* A row may change in anything but what requests set.                     *)
LEMMA RowMayChange ==
  ASSUME NEW table, NEW asked, RowsOK(table, asked), NEW i \in ScriptIds, NEW row,
         table[i] # S!NoRow, DOMAIN row = DOMAIN table[i],
         \A f \in Kept : row[f] = table[i][f]
  PROVE  RowsOK([table EXCEPT ![i] = row], asked)
<1>1. Kept \subseteq DOMAIN row /\ row # S!NoRow
  BY RowIsRow DEF RowsOK, Kept
<1>2. S!Edited(row) = S!Edited(table[i])
  BY DEF S!Edited, Kept
<1> DEFINE new == [table EXCEPT ![i] = row]
<1>3. /\ new = [j \in ScriptIds |-> new[j]]
      /\ new[i] = row
      /\ \A j \in ScriptIds \ {i} : new[j] = table[j]
  BY DEF RowsOK
<1> HIDE DEF new
<1>4. RowsOK(new, asked)
  BY <1>1, <1>2, <1>3 DEF RowsOK
<1> QED BY <1>4 DEF new

(* A copy in which nothing that requests set is changed may be saved.      *)
LEMMA WriteKeeps ==
  ASSUME RowsOK(scripts, edited), NEW i, NEW loaded, NEW changed,
         \A f \in Kept : changed[f] = loaded[f]
  PROVE  RowsOK(S!Write(i, loaded, changed), edited)
<1> DEFINE row == [f \in DOMAIN scripts[i] |-> IF changed[f] = loaded[f] THEN scripts[i][f] ELSE changed[f]]
<1>1. CASE S!Exists(i)
  <2>1. Kept \subseteq DOMAIN scripts[i] /\ scripts[i] # S!NoRow
    BY <1>1 DEF RowsOK, S!Exists
  <2>2. DOMAIN row = DOMAIN scripts[i] /\ \A f \in Kept : row[f] = scripts[i][f]
    BY <2>1
  <2>3. S!Write(i, loaded, changed) = [scripts EXCEPT ![i] = row]
    BY <1>1 DEF S!Write
  <2> HIDE DEF row
  <2>4. RowsOK([scripts EXCEPT ![i] = row], edited)
    BY <1>1, <2>1, <2>2, RowMayChange, Zenon DEF S!Exists
  <2> QED BY <2>3, <2>4, Zenon
<1>2. CASE ~S!Exists(i)
  BY <1>2 DEF S!Write
<1> QED BY <1>1, <1>2

(* The result of a run is nothing that requests set.                       *)
LEMMA DoneKeeps ==
  ASSUME NEW out, NEW rec, Kept \subseteq DOMAIN rec
  PROVE  \A f \in Kept : S!Done(rec, out)[f] = rec[f]
BY DEF S!Done, Kept

(* A new row.                                                              *)
LEMMA InsertRow ==
  ASSUME RowsOK(scripts, edited), NEW row, Kept \subseteq DOMAIN row, S!Insert(row)
  PROVE  RowsOK(scripts', edited')
<1> DEFINE i == S!Min(S!Unused)
<1>1. scripts' = [scripts EXCEPT ![i] = row] /\ edited' = [edited EXCEPT ![i] = S!Edited(row)]
  BY DEF S!Insert
<1>2. row # S!NoRow
  BY RowIsRow DEF Kept
<1> HIDE DEF i
<1>3. /\ scripts' = [j \in ScriptIds |-> IF j = i THEN row ELSE scripts[j]]
      /\ edited' = [j \in ScriptIds |-> IF j = i THEN S!Edited(row) ELSE edited[j]]
  BY <1>1 DEF RowsOK
<1> QED BY <1>2, <1>3 DEF RowsOK

LEMMA NewRow ==
  ASSUME NEW name, NEW code, NEW enabled, NEW crontab
  PROVE  Kept \subseteq DOMAIN S!Row(name, code, enabled, crontab)
BY DEF S!Row, Kept

(***************************************************************************)
(* The steps.                                                              *)
(***************************************************************************)

(* One goroutine goes on.                                                  *)
LEMMA TaskStep ==
  ASSUME ScriptsInv, NEW g \in Tasks, NEW work, TaskOK(work), S!Become(g, work)
  PROVE  task' = [h \in Tasks |-> task'[h]] /\ \A h \in Tasks : TaskOK(task'[h])
<1>1. task' = [h \in Tasks |-> IF h = g THEN work ELSE task[h]]
  BY DEF ScriptsInv, S!Become
<1>2. \A h \in Tasks : task'[h] = IF h = g THEN work ELSE task[h]
  BY <1>1
<1> QED BY <1>1, <1>2 DEF ScriptsInv

LEMMA FreeOK == TaskOK(S!Free)
BY DEF TaskOK

(* A run that ends saves nothing that requests set.                        *)
LEMMA EndRunStep ==
  ASSUME ScriptsInv, NEW g \in Tasks, S!EndRun(g)
  PROVE  ScriptsInv'
<1>1. task[g].kind \in {"run", "cron"} /\ task[g].step = "run" /\ TaskOK(task[g])
  BY DEF S!EndRun, ScriptsInv
<1>2. Kept \subseteq DOMAIN task[g].rec
  BY <1>1 DEF TaskOK, S!Free
<1>3. PICK out \in Outcomes :
        scripts' \in {S!Write(task[g].id, task[g].rec, S!Done(task[g].rec, out)), scripts}
  BY DEF S!EndRun
<1>4. RowsOK(scripts', edited)
  <2>1. \A f \in Kept : S!Done(task[g].rec, out)[f] = task[g].rec[f]
    BY <1>2, DoneKeeps
  <2>2. RowsOK(S!Write(task[g].id, task[g].rec, S!Done(task[g].rec, out)), edited)
    BY <2>1, WriteKeeps DEF ScriptsInv
  <2> QED BY <1>3, <2>2 DEF ScriptsInv
<1>5. \E work : TaskOK(work) /\ S!Become(g, work)
  <2>1. TaskOK(S!CronTask(task[g].id, "advance", S!NoRow))
    BY DEF TaskOK, S!CronTask
  <2> QED BY <2>1, FreeOK DEF S!EndRun
<1>6. edited' = edited
  BY DEF S!EndRun
<1> QED BY <1>4, <1>5, <1>6, TaskStep DEF ScriptsInv

LEMMA SaveFiredStep ==
  ASSUME ScriptsInv, NEW g \in Tasks, S!SaveFired(g)
  PROVE  ScriptsInv'
<1>1. task[g].kind = "fired" /\ task[g].step = "save" /\ TaskOK(task[g])
  BY DEF S!SaveFired, ScriptsInv
<1>2. Kept \subseteq DOMAIN task[g].rec
  BY <1>1 DEF TaskOK, S!Free
<1>3. \A f \in Kept : S!Done(task[g].rec, task[g].out)[f] = task[g].rec[f]
  BY <1>2, DoneKeeps
<1>4. RowsOK(scripts', edited)
  <2>1. RowsOK(S!Write(task[g].id, task[g].rec, S!Done(task[g].rec, task[g].out)), edited)
    BY <1>3, WriteKeeps DEF ScriptsInv
  <2> QED BY <2>1 DEF ScriptsInv, S!SaveFired
<1>5. S!Become(g, S!Free) /\ edited' = edited
  BY DEF S!SaveFired
<1> QED BY <1>4, <1>5, FreeOK, TaskStep DEF ScriptsInv

(* An edit saves what its request gives, and nothing else.                 *)
LEMMA EditSaveStep ==
  ASSUME ScriptsInv, NEW g \in Tasks, S!EditSave(g)
  PROVE  ScriptsInv'
<1> DEFINE k == task[g]
           i == k.id
           row == [f \in DOMAIN scripts[i] |-> IF k.row[f] = k.rec[f] THEN scripts[i][f] ELSE k.row[f]]
           asked == [f \in DOMAIN edited[i] |->
             IF f \in k.given /\ k.row[f] # k.rec[f] THEN k.row[f] ELSE edited[i][f]]
<1>1. \A f \in Kept \ k.given : k.row[f] = k.rec[f]
  BY DEF S!EditSave, ScriptsInv, TaskOK, S!Free
<1>2. RowsOK(scripts', edited')
  <2>1. CASE UNCHANGED <<scripts, edited>>
    BY <2>1 DEF ScriptsInv
  <2>2. CASE /\ scripts' = S!Write(i, k.rec, k.row)
             /\ edited' = [edited EXCEPT ![i] = IF ~S!Exists(i) THEN @ ELSE asked]
    <3>1. CASE S!Exists(i)
      <4>1. /\ scripts[i] # S!NoRow /\ Kept \subseteq DOMAIN scripts[i]
            /\ edited[i] = S!Edited(scripts[i])
        BY <3>1 DEF ScriptsInv, RowsOK, S!Exists
      <4>2. scripts' = [scripts EXCEPT ![i] = row] /\ edited' = [edited EXCEPT ![i] = asked]
        BY <2>2, <3>1 DEF S!Write
      <4>3. Kept \subseteq DOMAIN row /\ \A f \in Kept :
              row[f] = IF k.row[f] = k.rec[f] THEN scripts[i][f] ELSE k.row[f]
        BY <4>1
      <4>4. /\ DOMAIN edited[i] = Kept
            /\ \A f \in Kept : edited[i][f] = scripts[i][f]
        BY <4>1 DEF S!Edited, Kept
      <4>5. asked = [f \in Kept |-> row[f]]
        BY <1>1, <4>3, <4>4
      <4>6. asked = S!Edited(row)
        BY <4>5 DEF S!Edited, Kept
      <4>7. row # S!NoRow
        BY <4>3, RowIsRow DEF Kept
      <4> HIDE DEF row, asked
      <4>8. /\ scripts' = [j \in ScriptIds |-> IF j = i THEN row ELSE scripts[j]]
            /\ edited' = [j \in ScriptIds |-> IF j = i THEN asked ELSE edited[j]]
        BY <4>2 DEF ScriptsInv, RowsOK
      <4> QED BY <3>1, <4>3, <4>6, <4>7, <4>8 DEF ScriptsInv, RowsOK, S!Exists
    <3>2. CASE ~S!Exists(i)
      <4>1. scripts' = scripts /\ edited' = edited
        BY <2>2, <3>2 DEF S!Write, ScriptsInv, RowsOK
      <4> QED BY <4>1 DEF ScriptsInv
    <3> QED BY <3>1, <3>2
  <2> QED BY <2>1, <2>2 DEF S!EditSave
<1>3. S!Become(g, S!Free)
  BY DEF S!EditSave
<1> QED BY <1>2, <1>3, FreeOK, TaskStep DEF ScriptsInv

(* What a goroutine loads is a row; what a request makes of it differs in  *)
(* what it gives.                                                          *)
LEMMA LoadStep ==
  ASSUME ScriptsInv, NEW g \in Tasks,
         S!StartRun(g) \/ S!CronLoad(g) \/ S!CronAdvance(g) \/ S!EndFired(g) \/ S!PatchLoad(g) \/ S!ImportLoad(g)
  PROVE  ScriptsInv'
<1>1. \A i : S!Exists(i) => Kept \subseteq DOMAIN scripts[i]
  BY DEF ScriptsInv, RowsOK, S!Exists
<1>2. CASE S!StartRun(g)
  <2>1. PICK i \in ScriptIds : /\ S!Exists(i)
                         /\ S!Become(g, [kind |-> "run", step |-> "run", id |-> i, rec |-> scripts[i]])
    BY <1>2 DEF S!StartRun
  <2>2. TaskOK([kind |-> "run", step |-> "run", id |-> i, rec |-> scripts[i]])
    BY <1>1, <2>1 DEF TaskOK
  <2> QED BY <1>2, <2>1, <2>2, TaskStep DEF S!StartRun, ScriptsInv
<1>3. CASE S!CronLoad(g)
  <2>1. S!Exists(task[g].id) => TaskOK(S!CronTask(task[g].id, "run", scripts[task[g].id]))
    BY <1>1 DEF TaskOK, S!CronTask
  <2>2. TaskOK(S!CronTask(task[g].id, "advance", S!NoRow))
    BY DEF TaskOK, S!CronTask
  <2>3. \E work : TaskOK(work) /\ S!Become(g, work)
    BY <1>3, <2>1, <2>2 DEF S!CronLoad
  <2> QED BY <1>3, <2>3, TaskStep DEF S!CronLoad, ScriptsInv
<1>4. CASE S!CronAdvance(g)
  BY <1>4, FreeOK, TaskStep DEF S!CronAdvance, ScriptsInv
<1>5. CASE S!EndFired(g)
  <2>1. ASSUME NEW out, S!Exists(task[g].id)
        PROVE  TaskOK([kind |-> "fired", step |-> "save", id |-> task[g].id,
                       rec |-> scripts[task[g].id], out |-> out])
    BY <1>1, <2>1 DEF TaskOK
  <2>2. \E work : TaskOK(work) /\ S!Become(g, work)
    BY <1>5, <2>1, FreeOK DEF S!EndFired
  <2> QED BY <1>5, <2>2, TaskStep DEF S!EndFired, ScriptsInv
<1>6. CASE S!PatchLoad(g)
  <2>1. PICK i \in ScriptIds, given \in SUBSET {"code", "enabled"} :
          /\ S!Exists(i)
          /\ S!Become(g, [kind |-> "edit", id |-> i, rec |-> scripts[i], given |-> given,
               row |-> [scripts[i] EXCEPT !.code = IF "code" \in given THEN edits' ELSE @,
                                       !.enabled = IF "enabled" \in given THEN ~@ ELSE @]])
    BY <1>6 DEF S!PatchLoad
  <2> DEFINE row == [scripts[i] EXCEPT !.code = IF "code" \in given THEN edits' ELSE @,
                                    !.enabled = IF "enabled" \in given THEN ~@ ELSE @]
  <2>2. \A f \in Kept \ given : row[f] = scripts[i][f]
    BY <1>1, <2>1 DEF Kept
  <2> HIDE DEF row
  <2>3. TaskOK([kind |-> "edit", id |-> i, rec |-> scripts[i], given |-> given, row |-> row])
    BY <2>2 DEF TaskOK
  <2>4. S!Become(g, [kind |-> "edit", id |-> i, rec |-> scripts[i], given |-> given, row |-> row])
    BY <2>1 DEF row
  <2> QED BY <1>6, <2>3, <2>4, TaskStep DEF S!PatchLoad, ScriptsInv
<1>7. CASE S!ImportLoad(g)
  <2>1. PICK i \in ScriptIds, item \in Items :
          /\ S!Exists(i)
          /\ S!Become(g, [kind |-> "edit", id |-> i, rec |-> scripts[i],
               given |-> {"code", "enabled"} \cup (IF item.cron = "" THEN {} ELSE {"cron"}),
               row |-> [scripts[i] EXCEPT !.code = edits', !.enabled = item.enabled,
                                       !.cron = IF item.cron = "" THEN @ ELSE item.cron]])
    BY <1>7 DEF S!ImportLoad
  <2> DEFINE given == {"code", "enabled"} \cup (IF item.cron = "" THEN {} ELSE {"cron"})
             row == [scripts[i] EXCEPT !.code = edits', !.enabled = item.enabled,
                                    !.cron = IF item.cron = "" THEN @ ELSE item.cron]
  <2>2. \A f \in Kept \ given : row[f] = scripts[i][f]
    BY <1>1, <2>1 DEF Kept
  <2> HIDE DEF row, given
  <2>3. TaskOK([kind |-> "edit", id |-> i, rec |-> scripts[i], given |-> given, row |-> row])
    BY <2>2 DEF TaskOK
  <2>4. S!Become(g, [kind |-> "edit", id |-> i, rec |-> scripts[i], given |-> given, row |-> row])
    BY <2>1 DEF row, given
  <2> QED BY <1>7, <2>3, <2>4, TaskStep DEF S!ImportLoad, ScriptsInv
<1> QED BY <1>2, <1>3, <1>4, <1>5, <1>6, <1>7

(* A tick and an event start goroutines that hold nothing yet; a restart   *)
(* ends them all.                                                          *)
LEMMA StartStep ==
  ASSUME ScriptsInv, S!Tick \/ S!Restart \/ \E event \in Events : S!Fire(event)
  PROVE  ScriptsInv'
<1>1. ASSUME S!Tick PROVE ScriptsInv'
  <2>1. \A i : TaskOK(S!CronTask(i, "load", S!NoRow))
    BY DEF TaskOK, S!CronTask
  <2>2. PICK g : task' = [h \in Tasks |->
          IF \E i \in DOMAIN g : g[i] = h
          THEN S!CronTask(CHOOSE i \in DOMAIN g : g[i] = h, "load", S!NoRow) ELSE task[h]]
    BY <1>1 DEF S!Tick
  <2> QED BY <1>1, <2>1, <2>2 DEF S!Tick, ScriptsInv
<1>2. ASSUME NEW event \in Events, S!Fire(event) PROVE ScriptsInv'
  <2>1. \A i : TaskOK([kind |-> "fired", step |-> "run", id |-> i])
    BY DEF TaskOK
  <2> DEFINE fired == S!FiredBy(event)
  <2>2. PICK g \in S!Injection(fired, S!FreeTasks) : task' = [h \in Tasks |->
          IF \E k \in fired : g[k] = h
          THEN [kind |-> "fired", step |-> "run",
                id |-> triggers[CHOOSE k \in fired : g[k] = h].id] ELSE task[h]]
    BY <1>2, Zenon DEF S!Fire
  <2> HIDE DEF fired
  <2> QED BY <1>2, <2>1, <2>2 DEF S!Fire, ScriptsInv
<1>3. ASSUME S!Restart PROVE ScriptsInv'
  BY <1>3, FreeOK DEF S!Restart, ScriptsInv
<1> QED BY <1>1, <1>2, <1>3

(* Rows come, go, and are told their next time.                            *)
LEMMA RowStep ==
  ASSUME ScriptsInv, S!PostScript \/ S!ImportNew \/ S!DeleteScript \/ \E u \in updates : S!UpdateNextRunAt(u)
  PROVE  ScriptsInv'
<1>1. ASSUME S!PostScript \/ S!ImportNew PROVE ScriptsInv'
  <2>1. PICK row : Kept \subseteq DOMAIN row /\ S!Insert(row)
    BY <1>1, NewRow DEF S!PostScript, S!ImportNew
  <2> QED BY <1>1, <2>1, InsertRow DEF S!PostScript, S!ImportNew, ScriptsInv
<1>2. ASSUME S!DeleteScript PROVE ScriptsInv'
  BY <1>2 DEF S!DeleteScript, ScriptsInv, RowsOK
<1>3. ASSUME NEW u \in updates, S!UpdateNextRunAt(u) PROVE ScriptsInv'
  <2>1. CASE S!Exists(u.id)
    <3> DEFINE row == [scripts[u.id] EXCEPT !.next = u.next]
    <3>1. scripts' = [scripts EXCEPT ![u.id] = row]
      BY <1>3, <2>1 DEF S!UpdateNextRunAt
    <3>2. DOMAIN row = DOMAIN scripts[u.id] /\ \A f \in Kept : row[f] = scripts[u.id][f]
      BY <2>1 DEF ScriptsInv, RowsOK, S!Exists, Kept
    <3> HIDE DEF row
    <3>3. RowsOK([scripts EXCEPT ![u.id] = row], edited)
      BY <2>1, <3>2, RowMayChange, Zenon DEF S!Exists, ScriptsInv
    <3> QED BY <1>3, <3>1, <3>3 DEF S!UpdateNextRunAt, ScriptsInv
  <2>2. CASE ~S!Exists(u.id)
    BY <1>3, <2>2 DEF S!UpdateNextRunAt, ScriptsInv
  <2> QED BY <2>1, <2>2
<1> QED BY <1>1, <1>2, <1>3

LEMMA InitScripts == S!Init => ScriptsInv
<1> SUFFICES ASSUME S!Init PROVE ScriptsInv
  OBVIOUS
<1>1. PICK crontab \in Crons :
        scripts = [i \in ScriptIds |-> IF i = 1 THEN S!Row(CHOOSE n \in Names : TRUE, 1, TRUE, crontab) ELSE S!NoRow]
  BY DEF S!Init
<1>2. edited = [i \in ScriptIds |-> IF S!Exists(i) THEN S!Edited(scripts[i]) ELSE S!NoRow]
  BY DEF S!Init
<1>3. \A i \in ScriptIds : scripts[i] # S!NoRow => Kept \subseteq DOMAIN scripts[i]
  BY <1>1, NewRow
<1>4. scripts = [i \in ScriptIds |-> scripts[i]] /\ edited = [i \in ScriptIds |-> edited[i]]
  BY <1>1, <1>2
<1>5. \A i \in ScriptIds : edited[i] = IF S!Exists(i) THEN S!Edited(scripts[i]) ELSE S!NoRow
  BY <1>2
<1>6. RowsOK(scripts, edited)
  BY <1>3, <1>4, <1>5 DEF RowsOK, S!Exists
<1> QED BY <1>6, FreeOK DEF S!Init, ScriptsInv

(* A step keeps what is known of the scripts.                              *)
LEMMA NextScripts == ScriptsInv /\ [S!Next]_scriptVars => ScriptsInv'
<1> SUFFICES ASSUME ScriptsInv, [S!Next]_scriptVars PROVE ScriptsInv'
  OBVIOUS
<1>1. CASE UNCHANGED scriptVars \/ S!PutTrigger \/ S!DeleteTrigger
  BY <1>1 DEF scriptVars, S!PutTrigger, S!DeleteTrigger, ScriptsInv
<1> QED BY <1>1, EndRunStep, SaveFiredStep, EditSaveStep, LoadStep, StartStep, RowStep
        DEF S!Next, S!Proceed

(* scripts.go, cronmanager.go, triggers.go: the code, the switch and the   *)
(* schedule of a row are what the last request that set them asked for,    *)
(* and a deleted script stays deleted, however many runs and requests work *)
(* on copies they loaded earlier.                                          *)
THEOREM EditsStand == AutomationSpec => []RowsAreAsEdited
<1>1. AutomationInit => ScriptsInv
  BY InitScripts DEF AutomationInit
<1>2. ScriptsInv /\ [AutomationNext]_allVars => ScriptsInv'
  <2>1. [AutomationNext]_allVars => [S!Next]_scriptVars
    BY DEF AutomationNext, allVars, scriptVars
  <2> QED BY <2>1, NextScripts
<1>3. ScriptsInv => RowsAreAsEdited
  BY DEF ScriptsInv, RowsOK, RowsAreAsEdited, S!RowsAreAsEdited, S!Exists
<1> QED BY <1>1, <1>2, <1>3, PTL DEF AutomationSpec

(***************************************************************************)
(* Numbers: the least of a set, induction, functions defined by recursion, *)
(* quotients.                                                              *)
(***************************************************************************)

LEMMA LeastNumber ==
  ASSUME NEW T, T \subseteq Nat, T # {}
  PROVE  \E n \in T : \A m \in T : n <= m
<1> DEFINE R == OpToRel(<, Nat)
<1>1. IsWellFoundedOn(R, Nat)
  BY NatLessThanWellFounded, Zenon
<1> HIDE DEF R
<1>2. PICK n \in T : \A m \in T : ~(<<m, n>> \in R)
  BY <1>1, WFMin, Zenon
<1>3. ASSUME NEW m \in T, m < n PROVE FALSE
  <2>1. m \in Nat /\ n \in Nat
    OBVIOUS
  <2>2. <<m, n>> \in {ss \in Nat \X Nat : ss[1] < ss[2]}
    BY <1>3, <2>1
  <2>3. <<m, n>> \in R
    BY <2>2, Zenon DEF R, OpToRel
  <2> QED BY <1>2, <2>3, Zenon
<1> QED BY <1>3

LEMMA FirstAndNext ==
  ASSUME NEW n \in Nat, NEW T, 1 \in T, \A i \in 1 .. n - 1 : i \in T => i + 1 \in T
  PROVE  \A i \in 1 .. n : i \in T
<1> DEFINE Others == (1 .. n) \ T
<1> SUFFICES ASSUME Others # {} PROVE FALSE
  OBVIOUS
<1>1. Others \subseteq Nat
  OBVIOUS
<1> HIDE DEF Others
<1>2. PICK least \in Others : \A m \in Others : least <= m
  BY <1>1, LeastNumber
<1>3. least \in 1 .. n /\ least \notin T
  BY DEF Others
<1>4. least - 1 \in 1 .. n - 1
  BY <1>3
<1>5. ASSUME least - 1 \in Others PROVE FALSE
  <2>1. least <= least - 1
    BY <1>2, <1>5, Zenon
  <2> QED BY <1>3, <2>1
<1>6. least - 1 \in T
  BY <1>4, <1>5 DEF Others
<1>7. (least - 1) + 1 \in T /\ (least - 1) + 1 = least
  <2>1. (least - 1) + 1 \in T
    BY <1>4, <1>6, Zenon
  <2>2. (least - 1) + 1 = least
    BY <1>3
  <2> QED BY <2>1, <2>2
<1> QED BY <1>3, <1>7, Zenon

(* The sums of a sequence of numbers, which MonthStart is one of.          *)
SumsOf(c, days, n) == c = [k \in 1 .. n |-> IF k = 1 THEN 0 ELSE c[k - 1] + days[k - 1]]

LEMMA SumsExist ==
  ASSUME NEW n \in Nat \ {0}, NEW days \in [1 .. n - 1 -> Nat]
  PROVE  \E c \in [1 .. n -> Nat] : SumsOf(c, days, n)
<1> DEFINE T == {m \in 1 .. n : \E c \in [1 .. m -> Nat] : SumsOf(c, days, m)}
<1>1. 1 \in T
  <2>1. [k \in 1 .. 1 |-> 0] \in [1 .. 1 -> Nat] /\ SumsOf([k \in 1 .. 1 |-> 0], days, 1)
    BY DEF SumsOf
  <2> QED BY <2>1
<1>2. ASSUME NEW i \in 1 .. n - 1, i \in T PROVE i + 1 \in T
  <2>1. PICK c \in [1 .. i -> Nat] : SumsOf(c, days, i)
    BY <1>2
  <2>2. PICK v \in Nat : v = c[i] + days[i]
    <3>1. i \in 1 .. i /\ i \in 1 .. n - 1
      OBVIOUS
    <3>2. c[i] \in Nat /\ days[i] \in Nat
      BY <3>1
    <3> QED BY <3>2
  <2> DEFINE d == [k \in 1 .. i + 1 |-> IF k = i + 1 THEN v ELSE c[k]]
  <2>3. d \in [1 .. i + 1 -> Nat] /\ d[i + 1] = v /\ \A k \in 1 .. i : d[k] = c[k]
    OBVIOUS
  <2> HIDE DEF d
  <2>4. \A k \in 1 .. i : c[k] = IF k = 1 THEN 0 ELSE c[k - 1] + days[k - 1]
    BY <2>1 DEF SumsOf
  <2>5. ASSUME NEW k \in 1 .. i + 1
        PROVE  d[k] = IF k = 1 THEN 0 ELSE d[k - 1] + days[k - 1]
    <3>1. CASE k = i + 1
      <4>1. k # 1 /\ k - 1 = i /\ i \in 1 .. i
        BY <3>1
      <4> QED BY <2>2, <2>3, <3>1, <4>1
    <3>2. CASE k # i + 1
      <4>1. k \in 1 .. i /\ (k # 1 => k - 1 \in 1 .. i)
        BY <3>2
      <4> QED BY <2>3, <2>4, <4>1
    <3> QED BY <3>1, <3>2
  <2>6. SumsOf(d, days, i + 1)
    BY <2>3, <2>5 DEF SumsOf
  <2> QED BY <2>3, <2>6
<1> HIDE DEF T
<1>3. n \in Nat /\ n \in 1 .. n
  OBVIOUS
<1>4. \A i \in 1 .. n : i \in T
  BY <1>1, <1>2, <1>3, FirstAndNext, Zenon
<1> QED BY <1>3, <1>4 DEF T

LEMMA Quotient ==
  ASSUME NEW a \in Int, NEW n \in Nat \ {0}
  PROVE  /\ a \div n \in Int /\ a % n \in 0 .. n - 1
         /\ a = n * (a \div n) + (a % n)
  OBVIOUS

LEMMA Division ==
  ASSUME NEW a \in Int, NEW n \in Nat \ {0}
  PROVE  \E q, r, m \in Int : /\ q = a \div n /\ r = a % n /\ m = n * q
                             /\ a = m + r /\ 0 <= r /\ r < n
<1>1. /\ a \div n \in Int /\ a % n \in Int /\ n * (a \div n) \in Int
      /\ a = n * (a \div n) + (a % n) /\ 0 <= a % n /\ a % n < n
  BY Quotient
<1> QED BY <1>1, Zenon

LEMMA QuotientIs ==
  ASSUME NEW a \in Int, NEW n \in Nat \ {0}, NEW q \in Int, n * q <= a, a < n * q + n
  PROVE  a \div n = q
  OBVIOUS

LEMMA Apart ==
  ASSUME NEW n \in Nat \ {0}, NEW a \in Int, NEW b \in Int, a < b
  PROVE  n * a + n <= n * b /\ n * a \in Int /\ n * b \in Int
<1>1. PICK d \in Nat : b = a + 1 + d
  OBVIOUS
<1>2. n * b = n * a + n + n * d /\ n * d >= 0 /\ n * a \in Int /\ n * b \in Int
  BY <1>1
<1> QED BY <1>2

LEMMA NextMultiple ==
  ASSUME NEW n \in Nat \ {0}, NEW a \in Int, NEW b \in Int, n * a < n * b
  PROVE  n * a + n <= n * b
<1>1. a < b
  OBVIOUS
<1> QED BY <1>1, Apart

LEMMA IsMultiple ==
  ASSUME NEW a \in Int, NEW n \in Nat \ {0}, a % n = 0
  PROVE  \E q \in Int : a = n * q
  OBVIOUS

LEMMA NoRest ==
  ASSUME NEW q \in Int, NEW n \in Nat \ {0}
  PROVE  (q * n) % n = 0
  OBVIOUS

(***************************************************************************)
(* The search for the next time of a schedule: calendars.                  *)
(***************************************************************************)

LEMMA TheCalendar ==
  /\ Minutes \in Nat \ {0} /\ Hours \in Nat \ {0} /\ Weekdays \in Nat \ {0}
  /\ Len(MonthDays) \in Nat \ {0} /\ DOMAIN MonthDays = 1 .. Len(MonthDays)
  /\ \A k \in 1 .. Len(MonthDays) : MonthDays[k] \in Nat \ {0}
<1>1. Len(MonthDays) # 0
  BY CalendarAssumption DEF CalendarAssumption
<1> QED BY <1>1, CalendarAssumption DEF CalendarAssumption

LEMMA DayIsLong ==
  C!DayLength \in Nat \ {0} /\ C!DayLength >= Minutes /\ C!DayLength = Minutes * Hours
<1>1. PICK m, h \in Nat \ {0} : m = Minutes /\ h = Hours
  BY TheCalendar
<1>2. h * m = m * h /\ m * h >= m /\ m * h \in Nat \ {0}
  OBVIOUS
<1> QED BY <1>1, <1>2 DEF C!DayLength

(* The days the months begin at.                                           *)
LEMMA MonthStarts ==
  /\ C!MonthStart \in [1 .. Len(MonthDays) + 1 -> Nat] /\ C!MonthStart[1] = 0
  /\ \A k \in 1 .. Len(MonthDays) : C!MonthStart[k + 1] = C!MonthStart[k] + MonthDays[k]
<1>p. PICK n, days : n = Len(MonthDays) + 1 /\ days = [k \in 1 .. n - 1 |-> MonthDays[k]]
  OBVIOUS
<1>1. n \in Nat \ {0} /\ n - 1 = Len(MonthDays)
  BY <1>p, TheCalendar
<1>2. days \in [1 .. n - 1 -> Nat] /\ \A k \in 1 .. n - 1 : days[k] = MonthDays[k]
  BY <1>p, <1>1, TheCalendar
<1> DEFINE Body(f) == [k \in 1 .. n |-> IF k = 1 THEN 0 ELSE f[k - 1] + MonthDays[k - 1]]
<1>3. PICK c \in [1 .. n -> Nat] : SumsOf(c, days, n)
  BY <1>1, <1>2, SumsExist
<1>4. c = Body(c)
  <2>1. \A k \in 1 .. n : k # 1 => k - 1 \in 1 .. n - 1
    BY <1>1
  <2> QED BY <1>2, <1>3, <2>1 DEF SumsOf
<1>5. C!MonthStart = CHOOSE f : f = Body(f)
  BY <1>p DEF C!MonthStart
<1>6. C!MonthStart = Body(C!MonthStart)
  BY <1>4, <1>5
<1> PICK start : start = C!MonthStart
  OBVIOUS
<1>7. start[1] = 0 /\ \A k \in 1 .. n - 1 : start[k + 1] = start[k] + MonthDays[k]
  <2>1. \A k \in 1 .. n : start[k] = IF k = 1 THEN 0 ELSE start[k - 1] + MonthDays[k - 1]
    BY <1>6
  <2>2. \A k \in 1 .. n - 1 : k + 1 \in 1 .. n /\ k + 1 # 1 /\ (k + 1) - 1 = k
    BY <1>1
  <2>3. 1 \in 1 .. n
    BY <1>1
  <2> QED BY <2>1, <2>2, <2>3
<1>8. \A k \in 1 .. n : start[k] \in Nat
  <2> DEFINE T == {k \in 1 .. n : start[k] \in Nat}
  <2>1. 1 \in T
    BY <1>1, <1>7
  <2>2. ASSUME NEW i \in 1 .. n - 1, i \in T PROVE i + 1 \in T
    <3>1. MonthDays[i] \in Nat /\ i + 1 \in 1 .. n
      BY <1>1, TheCalendar
    <3> QED BY <1>7, <2>2, <3>1
  <2> HIDE DEF T
  <2>3. n \in Nat
    BY <1>1
  <2>4. \A k \in 1 .. n : k \in T
    BY <2>1, <2>2, <2>3, FirstAndNext, Zenon
  <2> QED BY <2>4 DEF T
<1>9. start \in [1 .. n -> Nat]
  BY <1>6, <1>8
<1> QED BY <1>p, <1>1, <1>7, <1>9

(* A later month begins later.                                             *)
LEMMA MonthsFollow ==
  \A k \in 1 .. Len(MonthDays) + 1 : \A j \in 1 .. k : C!MonthStart[j] <= C!MonthStart[k]
<1>p. PICK n, start : n = Len(MonthDays) + 1 /\ start = C!MonthStart
  OBVIOUS
<1>1. /\ n \in Nat /\ 1 \in 1 .. n /\ start \in [1 .. n -> Nat]
      /\ \A k \in 1 .. n - 1 : start[k + 1] = start[k] + MonthDays[k] /\ MonthDays[k] \in Nat
  BY <1>p, TheCalendar, MonthStarts
<1> DEFINE T == {k \in 1 .. n : \A j \in 1 .. k : start[j] <= start[k]}
<1>2. 1 \in T
  BY <1>1
<1>3. ASSUME NEW i \in 1 .. n - 1, i \in T PROVE i + 1 \in T
  <2>1. i \in 1 .. n /\ i + 1 \in 1 .. n
    BY <1>1
  <2>2. start[i] \in Nat /\ start[i + 1] \in Nat /\ start[i] <= start[i + 1]
    <3>1. start[i] \in Nat /\ start[i + 1] = start[i] + MonthDays[i] /\ MonthDays[i] \in Nat
      BY <1>1, <2>1
    <3> QED BY <3>1
  <2>3. ASSUME NEW j \in 1 .. i + 1 PROVE start[j] <= start[i + 1]
    <3>1. CASE j = i + 1
      BY <2>2, <3>1
    <3>2. CASE j # i + 1
      <4>1. j \in 1 .. i /\ j \in 1 .. n
        BY <1>1, <3>2
      <4>2. start[j] \in Nat /\ start[j] <= start[i]
        BY <1>1, <1>3, <4>1
      <4> QED BY <2>2, <4>2
    <3> QED BY <3>1, <3>2
  <2> QED BY <2>1, <2>3
<1> HIDE DEF T
<1>4. \A k \in 1 .. n : k \in T
  BY <1>1, <1>2, <1>3, FirstAndNext, Zenon
<1> QED BY <1>p, <1>4 DEF T

(* A day of the year is in one month.                                      *)
LEMMA OneMonth ==
  ASSUME NEW day \in 0 .. C!YearLength - 1
  PROVE  \E k \in 1 .. Len(MonthDays) :
           /\ C!MonthStart[k] <= day /\ day < C!MonthStart[k + 1]
           /\ \A j \in 1 .. Len(MonthDays) :
                C!MonthStart[j] <= day /\ day < C!MonthStart[j + 1] => j = k
<1>p. PICK n, start : n = Len(MonthDays) /\ start = C!MonthStart
  OBVIOUS
<1>1. n \in Nat \ {0} /\ start \in [1 .. n + 1 -> Nat] /\ start[1] = 0
  BY <1>p, TheCalendar, MonthStarts
<1>2. day \in Nat /\ day < start[n + 1]
  <2>1. C!YearLength = start[n + 1] /\ n + 1 \in 1 .. n + 1
    BY <1>p, <1>1 DEF C!YearLength
  <2> QED BY <1>1, <2>1
<1> DEFINE T == {k \in 1 .. n : day < start[k + 1]}
<1>3. T \subseteq Nat /\ n \in T
  BY <1>1, <1>2
<1>4. PICK k \in T : \A j \in T : k <= j
  BY <1>3, LeastNumber
<1>5. k \in 1 .. n /\ day < start[k + 1]
  OBVIOUS
<1>6. start[k] <= day
  <2>1. CASE k = 1
    BY <1>1, <1>2, <2>1
  <2>2. CASE k # 1
    <3>1. k - 1 \in 1 .. n /\ (k - 1) + 1 = k /\ k \in 1 .. n + 1 /\ ~(k <= k - 1)
      BY <1>1, <1>5, <2>2
    <3>2. ~(day < start[k])
      BY <1>4, <3>1
    <3>3. start[k] \in Nat
      BY <1>1, <3>1
    <3> QED BY <1>2, <3>2, <3>3
  <2> QED BY <2>1, <2>2
<1>7. ASSUME NEW j \in 1 .. n, start[j] <= day, day < start[j + 1] PROVE j = k
  <2>1. j \in T
    BY <1>7
  <2>2. k <= j /\ k \in Nat
    BY <1>4, <1>5, <2>1
  <2> HIDE DEF T
  <2>3. ASSUME k < j PROVE FALSE
    <3>1. k + 1 \in 1 .. j /\ j \in 1 .. n + 1 /\ k + 1 \in 1 .. n + 1
      BY <1>1, <1>5, <2>3
    <3>2. start[k + 1] <= start[j]
      BY <1>p, <3>1, MonthsFollow
    <3>3. start[k + 1] \in Nat /\ start[j] \in Nat
      BY <1>1, <3>1
    <3> QED BY <1>2, <1>5, <1>7, <3>2, <3>3
  <2> QED BY <2>2, <2>3
<1> QED BY <1>p, <1>5, <1>6, <1>7

(* What a clock reads: the month its day is in, and values of their kind.  *)
LEMMA YearIsLong == C!YearLength \in Nat \ {0}
<1>p. PICK n, start : n = Len(MonthDays) /\ start = C!MonthStart
  OBVIOUS
<1>1. n \in Nat \ {0} /\ start \in [1 .. n + 1 -> Nat] /\ start[1] = 0 /\ start[2] = start[1] + MonthDays[1]
      /\ MonthDays[1] \in Nat \ {0}
  <2>1. 1 \in 1 .. Len(MonthDays) /\ 1 + 1 = 2
    BY TheCalendar
  <2> QED BY <1>p, <2>1, TheCalendar, MonthStarts
<1>2. n + 1 \in 1 .. n + 1 /\ 2 \in 1 .. n + 1
  BY <1>1
<1>3. start[2] <= start[n + 1]
  BY <1>p, <1>2, MonthsFollow
<1>4. start[n + 1] \in Nat /\ start[2] \in Nat /\ C!YearLength = start[n + 1]
  BY <1>p, <1>1, <1>2 DEF C!YearLength
<1> QED BY <1>1, <1>3, <1>4

LEMMA MonthIs ==
  ASSUME NEW c \in Int
  PROVE  /\ C!DayOf(c) \in Int /\ C!YearDay(c) \in 0 .. C!YearLength - 1
         /\ C!MonthOf(c) \in 1 .. Len(MonthDays)
         /\ C!MonthStart[C!MonthOf(c)] <= C!YearDay(c) /\ C!YearDay(c) < C!MonthStart[C!MonthOf(c) + 1]
         /\ \A j \in 1 .. Len(MonthDays) :
              C!MonthStart[j] <= C!YearDay(c) /\ C!YearDay(c) < C!MonthStart[j + 1] => j = C!MonthOf(c)
<1>1. C!DayOf(c) \in Int
  BY DayIsLong, Quotient DEF C!DayOf
<1> PICK day : day = C!YearDay(c)
  OBVIOUS
<1>2. day \in 0 .. C!YearLength - 1
  BY <1>1, YearIsLong, Quotient DEF C!YearDay
<1>3. PICK k \in 1 .. Len(MonthDays) :
        /\ C!MonthStart[k] <= day /\ day < C!MonthStart[k + 1]
        /\ \A j \in 1 .. Len(MonthDays) :
             C!MonthStart[j] <= day /\ day < C!MonthStart[j + 1] => j = k
  BY <1>2, OneMonth
<1>4. \A j \in DOMAIN MonthDays :
        day \in C!MonthStart[j] .. C!MonthStart[j + 1] - 1 <=> C!MonthStart[j] <= day /\ day < C!MonthStart[j + 1]
  <2> SUFFICES ASSUME NEW j \in DOMAIN MonthDays
               PROVE  day \in C!MonthStart[j] .. C!MonthStart[j + 1] - 1
                        <=> C!MonthStart[j] <= day /\ day < C!MonthStart[j + 1]
    OBVIOUS
  <2>1. j \in 1 .. Len(MonthDays) + 1 /\ j + 1 \in 1 .. Len(MonthDays) + 1
    BY TheCalendar
  <2>2. C!MonthStart[j] \in Nat /\ C!MonthStart[j + 1] \in Nat
    BY <2>1, MonthStarts
  <2>3. day \in Int
    BY <1>2, YearIsLong
  <2> QED BY <2>2, <2>3
<1>5. \A j \in DOMAIN MonthDays : day \in C!MonthStart[j] .. C!MonthStart[j + 1] - 1 <=> j = k
  BY <1>3, <1>4, TheCalendar
<1>6. C!MonthOf(c) = k
  BY <1>3, <1>5, TheCalendar DEF C!MonthOf
<1> QED BY <1>1, <1>2, <1>3, <1>6

LEMMA Readings ==
  ASSUME NEW c \in Int
  PROVE  /\ C!Reading(c).mon \in 1 .. Len(MonthDays)
         /\ C!Reading(c).dom \in 1 .. MonthDays[C!Reading(c).mon]
         /\ C!Reading(c).dow \in 0 .. Weekdays - 1
         /\ C!Reading(c).hour \in 0 .. Hours - 1
         /\ C!Reading(c).min \in 0 .. Minutes - 1
<1>p. PICK k, day : k = C!MonthOf(c) /\ day = C!YearDay(c)
  OBVIOUS
<1>1. /\ k \in 1 .. Len(MonthDays) /\ day \in Int /\ C!DayOf(c) \in Int
      /\ C!MonthStart[k] <= day /\ day < C!MonthStart[k + 1]
  <2>1. /\ k \in 1 .. Len(MonthDays) /\ day \in 0 .. C!YearLength - 1 /\ C!DayOf(c) \in Int
        /\ C!MonthStart[k] <= day /\ day < C!MonthStart[k + 1]
    BY <1>p, MonthIs
  <2>2. \A n \in Nat : \A d \in 0 .. n - 1 : d \in Int
    OBVIOUS
  <2>3. day \in Int
    BY <2>1, <2>2, YearIsLong
  <2> QED BY <2>1, <2>3, Zenon
<1>2. /\ C!MonthStart[k] \in Nat /\ C!MonthStart[k + 1] = C!MonthStart[k] + MonthDays[k]
      /\ MonthDays[k] \in Nat
  <2>1. k \in 1 .. Len(MonthDays) + 1
    BY <1>1, TheCalendar
  <2> QED BY <1>1, <2>1, TheCalendar, MonthStarts
<1>3. day - C!MonthStart[k] + 1 \in 1 .. MonthDays[k]
  BY <1>1, <1>2
<1>4. C!DayOf(c) % Weekdays \in 0 .. Weekdays - 1 /\ c % Minutes \in 0 .. Minutes - 1
  BY <1>1, TheCalendar, Quotient
<1>5. (c \div Minutes) % Hours \in 0 .. Hours - 1
  <2>1. c \div Minutes \in Int
    BY TheCalendar, Quotient
  <2> QED BY <2>1, TheCalendar, Quotient
<1> QED BY <1>p, <1>1, <1>3, <1>4, <1>5 DEF C!Reading

(***************************************************************************)
(* Fields: matchField accepts what a field stands for.                     *)
(***************************************************************************)

LEMMA StepsFrom ==
  ASSUME NEW v \in Int, NEW start \in Int, NEW step \in Nat \ {0}
  PROVE  (\E n \in 0 .. v - start : v = start + n * step)
           <=> v >= start /\ (v - start) % step = 0
<1>1. ASSUME NEW n \in 0 .. v - start, v = start + n * step
      PROVE  v >= start /\ (v - start) % step = 0
  <2>1. n \in Nat /\ v - start = n * step /\ v >= start
    BY <1>1
  <2>2. (n * step) % step = 0
    BY <2>1, NoRest
  <2> QED BY <2>1, <2>2
<1>2. ASSUME v >= start, (v - start) % step = 0
      PROVE  \E n \in 0 .. v - start : v = start + n * step
  <2>1. PICK d \in Nat : d = v - start
    BY <1>2
  <2>2. PICK n \in Int : d = step * n
    BY <1>2, <2>1, IsMultiple
  <2>3. n \in Nat /\ n <= d /\ step * n = n * step
    BY <2>1, <2>2
  <2> QED BY <2>1, <2>2, <2>3
<1> QED BY <1>1, <1>2

LEMMA Denoted ==
  ASSUME NEW field \in C!Fields, NEW low \in Int, NEW high \in Int, NEW v \in low .. high
  PROVE  v \in C!Denotes(field, low .. high) <=> C!MatchField(field, v, low)
<1>1. CASE field \in [form : {"any", "bad"}]
  <2>1. CASE field.form = "any"
    <3>1. C!Denotes(field, low .. high) = low .. high
      BY <2>1, Zenon DEF C!Denotes
    <3>2. C!MatchField(field, v, low)
      BY <2>1, Zenon DEF C!MatchField
    <3> QED BY <3>1, <3>2
  <2>2. CASE field.form = "bad"
    <3>1. C!Denotes(field, low .. high) = {}
      BY <2>2 DEF C!Denotes
    <3>2. ~C!MatchField(field, v, low)
      BY <2>2 DEF C!MatchField
    <3> QED BY <3>1, <3>2
  <2> QED BY <1>1, <2>1, <2>2
<1>2. CASE field \in [form : {"list"}, parts : SUBSET [lo : Int, hi : Int]]
  <2>1. field.form = "list"
    BY <1>2
  <2> HIDE <1>2
  <2>2. C!Denotes(field, low .. high) = {w \in low .. high : \E p \in field.parts : w \in p.lo .. p.hi}
    BY <2>1 DEF C!Denotes
  <2>3. C!MatchField(field, v, low) <=> \E p \in field.parts : v \in p.lo .. p.hi
    BY <2>1 DEF C!MatchField
  <2> QED BY <2>2, <2>3, Zenon
<1>3. CASE field \in [form : {"step"}, start : Int, step : Int]
  <2>p. PICK start : start = IF field.start = C!Star THEN low ELSE field.start
    OBVIOUS
  <2>1. start \in Int /\ field.step \in Int /\ field.form = "step" /\ field.start \in Int
    BY <1>3, <2>p
  <2>2. (CHOOSE w \in low .. high : \A x \in low .. high : w <= x) = low
    <3>1. \A w \in low .. high : (\A x \in low .. high : w <= x) <=> w = low
      OBVIOUS
    <3>2. low \in low .. high
      OBVIOUS
    <3> QED BY <3>1, <3>2
  <2>3. v \in C!Denotes(field, low .. high)
          <=> field.step > 0 /\ \E n \in 0 .. v - start : v = start + n * field.step
    BY <2>1, <2>2, <2>p DEF C!Denotes
  <2>4. C!MatchField(field, v, low)
          <=> field.step > 0 /\ v >= start /\ (v - start) % field.step = 0
    BY <2>1, <2>p DEF C!MatchField
  <2>5. CASE field.step > 0
    <3>1. field.step \in Nat \ {0} /\ v \in Int
      BY <2>1, <2>5
    <3>2. (\E n \in 0 .. v - start : v = start + n * field.step)
            <=> v >= start /\ (v - start) % field.step = 0
      BY <2>1, <3>1, StepsFrom, Zenon
    <3> QED BY <2>3, <2>4, <3>2, Zenon
  <2> QED BY <2>3, <2>4, <2>5
<1> QED BY <1>1, <1>2, <1>3 DEF C!Fields

(* An expression matches a clock field by field.                           *)
FitsAt(e, c, name) == C!MatchField(e[name], C!Reading(c)[name], C!Least[name])

Accepts(e, c) == \A name \in {"mon", "dom", "dow", "hour", "min"} : FitsAt(e, c, name)

LEMMA MatchesIs ==
  ASSUME expr \in Exprs, NEW u, C!Clock(zone, u) \in Int
  PROVE  C!Matches(u) <=> Accepts(expr, C!Clock(zone, u))
<1>p. PICK c, r : c = C!Clock(zone, u) /\ r = C!Reading(c)
  OBVIOUS
<1>1. /\ expr.mon \in C!Fields /\ expr.dom \in C!Fields /\ expr.dow \in C!Fields
      /\ expr.hour \in C!Fields /\ expr.min \in C!Fields
  BY CalendarAssumption DEF CalendarAssumption
<1>2. /\ r.mon \in 1 .. Len(MonthDays) /\ r.dom \in 1 .. MonthDays[r.mon] /\ MonthDays[r.mon] \in Int
      /\ r.dow \in 0 .. Weekdays - 1 /\ r.hour \in 0 .. Hours - 1 /\ r.min \in 0 .. Minutes - 1
  BY <1>p, Readings, TheCalendar
<1>3. DOMAIN MonthDays = 1 .. Len(MonthDays) /\ Len(MonthDays) \in Int
      /\ Weekdays - 1 \in Int /\ Hours - 1 \in Int /\ Minutes - 1 \in Int
  BY TheCalendar
<1>4. /\ C!Least["mon"] = 1 /\ C!Least["dom"] = 1 /\ C!Least["dow"] = 0
      /\ C!Least["hour"] = 0 /\ C!Least["min"] = 0
  BY DEF C!Least
<1>5. /\ r.mon \in C!Denotes(expr.mon, 1 .. Len(MonthDays)) <=> C!MatchField(expr.mon, r.mon, 1)
      /\ r.dom \in C!Denotes(expr.dom, 1 .. MonthDays[r.mon]) <=> C!MatchField(expr.dom, r.dom, 1)
      /\ r.dow \in C!Denotes(expr.dow, 0 .. Weekdays - 1) <=> C!MatchField(expr.dow, r.dow, 0)
      /\ r.hour \in C!Denotes(expr.hour, 0 .. Hours - 1) <=> C!MatchField(expr.hour, r.hour, 0)
      /\ r.min \in C!Denotes(expr.min, 0 .. Minutes - 1) <=> C!MatchField(expr.min, r.min, 0)
  <2>1. 0 \in Int /\ 1 \in Int
    OBVIOUS
  <2> QED BY <1>1, <1>2, <1>3, <2>1, Denoted, Zenon
<1>6. /\ FitsAt(expr, c, "mon") <=> C!MatchField(expr.mon, r.mon, 1)
      /\ FitsAt(expr, c, "dom") <=> C!MatchField(expr.dom, r.dom, 1)
      /\ FitsAt(expr, c, "dow") <=> C!MatchField(expr.dow, r.dow, 0)
      /\ FitsAt(expr, c, "hour") <=> C!MatchField(expr.hour, r.hour, 0)
      /\ FitsAt(expr, c, "min") <=> C!MatchField(expr.min, r.min, 0)
  BY <1>p, <1>4, Zenon DEF FitsAt
<1>7. C!Matches(u) <=> /\ r.mon \in C!Denotes(expr.mon, DOMAIN MonthDays)
                       /\ r.dom \in C!Denotes(expr.dom, 1 .. MonthDays[r.mon])
                       /\ r.dow \in C!Denotes(expr.dow, 0 .. Weekdays - 1)
                       /\ r.hour \in C!Denotes(expr.hour, 0 .. Hours - 1)
                       /\ r.min \in C!Denotes(expr.min, 0 .. Minutes - 1)
  BY <1>p, Zenon DEF C!Matches
<1>8. Accepts(expr, c) <=> /\ FitsAt(expr, c, "mon") /\ FitsAt(expr, c, "dom") /\ FitsAt(expr, c, "dow")
                           /\ FitsAt(expr, c, "hour") /\ FitsAt(expr, c, "min")
  BY Zenon DEF Accepts
<1> QED BY <1>p, <1>3, <1>5, <1>6, <1>7, <1>8, Zenon

(* Clocks of one hour, of one day and of one month read alike.             *)
LEMMA SameHour ==
  ASSUME NEW c \in Int, NEW d \in Int,
         Minutes * (c \div Minutes) <= d, d < Minutes * (c \div Minutes + 1)
  PROVE  C!Reading(d).hour = C!Reading(c).hour
<1>1. PICK n, q : n = Minutes /\ q = c \div Minutes
  OBVIOUS
<1>2. n \in Nat \ {0} /\ q \in Int
  BY <1>1, TheCalendar, Quotient
<1>3. n * (q + 1) = n * q + n
  BY <1>2
<1>4. d \div n = q
  BY <1>1, <1>2, <1>3, QuotientIs
<1> QED BY <1>1, <1>4 DEF C!Reading

LEMMA SameDay ==
  ASSUME NEW c \in Int, NEW d \in Int, C!DayOf(d) = C!DayOf(c)
  PROVE  /\ C!Reading(d).mon = C!Reading(c).mon /\ C!Reading(d).dom = C!Reading(c).dom
         /\ C!Reading(d).dow = C!Reading(c).dow
  BY DEF C!Reading, C!MonthOf, C!YearDay

LEMMA DayIs ==
  ASSUME NEW d \in Int, NEW q \in Int, C!DayLength * q <= d, d < C!DayLength * (q + 1)
  PROVE  C!DayOf(d) = q
<1>1. PICK n : n = C!DayLength
  OBVIOUS
<1>2. n \in Nat \ {0}
  BY <1>1, DayIsLong
<1>3. n * (q + 1) = n * q + n
  BY <1>2
<1> QED BY <1>1, <1>2, <1>3, QuotientIs DEF C!DayOf

LEMMA DayHas ==
  ASSUME NEW c \in Int
  PROVE  C!DayOf(c) \in Int /\ C!DayLength * C!DayOf(c) <= c /\ c < C!DayLength * (C!DayOf(c) + 1)
<1>1. PICK n, q : n = C!DayLength /\ q = C!DayOf(c)
  OBVIOUS
<1>2. n \in Nat \ {0} /\ q = c \div n
  BY <1>1, DayIsLong DEF C!DayOf
<1>3. q \in Int /\ c % n \in 0 .. n - 1 /\ c = n * q + (c % n) /\ n * (q + 1) = n * q + n /\ n * q \in Int
  BY <1>2, Quotient
<1> QED BY <1>1, <1>2, <1>3

(***************************************************************************)
(* Zones: what an advance passes over.                                     *)
(***************************************************************************)

LEMMA ClockIs ==
  ASSUME NEW z \in Zones, NEW u \in Int
  PROVE  /\ z.at \in Int /\ z.before \in Int /\ z.after \in Int
         /\ C!Clock(z, u) = IF u < z.at THEN u + z.before ELSE u + z.after
         /\ C!Clock(z, u) \in Int
<1>1. z.at \in Int /\ z.before \in Int /\ z.after \in Int
  BY ZonesAssumption DEF ZonesAssumption
<1>2. C!Clock(z, u) = IF u < z.at THEN u + z.before ELSE u + z.after
  BY <1>1 DEF C!Clock, C!Offset
<1> QED BY <1>1, <1>2

LEMMA DateIs ==
  ASSUME NEW z \in Zones, NEW c \in Int
  PROVE  C!Date(z, c) =
           IF c < z.at THEN IF c - z.before < z.at THEN c - z.before ELSE c - z.after
           ELSE IF c - z.after < z.at THEN c - z.before ELSE c - z.after
<1>1. z.at \in Int /\ z.before \in Int /\ z.after \in Int
  BY ZonesAssumption DEF ZonesAssumption
<1>2. CASE c < z.at
  <2>1. C!Offset(z, c) = z.before
    BY <1>2 DEF C!Offset
  <2> QED BY <1>1, <1>2, <2>1 DEF C!Date, C!Offset
<1>3. CASE ~(c < z.at)
  <2>1. C!Offset(z, c) = z.after
    BY <1>3 DEF C!Offset
  <2> QED BY <1>1, <1>3, <2>1 DEF C!Date, C!Offset
<1> QED BY <1>2, <1>3

(* A clock that shows the same twice was turned back in between.           *)
LEMMA ShownAgain ==
  ASSUME NEW z \in Zones, NEW a \in Int, NEW b \in Int, a < b, C!Clock(z, a) = C!Clock(z, b)
  PROVE  b <= a + Minutes
<1>1. PICK at, before, after, m \in Int :
        at = z.at /\ before = z.before /\ after = z.after /\ m = Minutes
  <2>1. Minutes \in Int
    BY TheCalendar
  <2> QED BY <2>1, ClockIs, Zenon
<1>2. after - before >= -m
  <2>1. after - before \in -m .. m
    BY <1>1, ZonesAssumption DEF ZonesAssumption
  <2> QED BY <2>1
<1>3. /\ C!Clock(z, a) = IF a < at THEN a + before ELSE a + after
      /\ C!Clock(z, b) = IF b < at THEN b + before ELSE b + after
  BY <1>1, ClockIs
<1>4. (IF a < at THEN a + before ELSE a + after) = IF b < at THEN b + before ELSE b + after
  BY <1>3, Zenon
<1>5. b <= a + m
  BY <1>1, <1>2, <1>4
<1> QED BY <1>1, <1>5, Zenon

(* The instants between a candidate and the date that ends its hour, day   *)
(* or month are of that hour, day or month, or their clock comes again.    *)
LEMMA PassedOver ==
  ASSUME NEW z \in Zones, NEW v \in Int, NEW a \in Int, NEW b \in Int,
         Minutes * a <= C!Clock(z, v), C!Clock(z, v) < Minutes * b
  PROVE  \A u \in v .. C!Date(z, Minutes * b) - 1 :
           \/ C!Clock(z, u) \in Minutes * a .. Minutes * b - 1
           \/ \E again \in C!Date(z, Minutes * b) .. u + Minutes : C!Clock(z, again) = C!Clock(z, u)
<1> TAKE u \in v .. C!Date(z, Minutes * b) - 1
<1>1. PICK at, before, after \in Int : at = z.at /\ before = z.before /\ after = z.after
  BY ClockIs
<1>2. PICK m \in Nat \ {0} : m = Minutes
  BY TheCalendar
<1>3. PICK e \in Int : at + before = m * e
  <2>1. (at + before) % m = 0 /\ at + before \in Int
    BY <1>1, <1>2, ZonesAssumption DEF ZonesAssumption
  <2> QED BY <2>1, IsMultiple
<1>4. PICK lo, hi, x \in Int : lo = m * a /\ hi = m * b /\ x = m * e
  OBVIOUS
<1>5. /\ lo < x => lo + m <= x
      /\ x < hi => x + m <= hi
      /\ hi < x => hi + m <= x
  BY <1>4, NextMultiple
<1>6. x = at + before /\ after - before >= -m /\ after - before <= m
  <2>1. after - before \in -m .. m
    BY <1>1, <1>2, ZonesAssumption DEF ZonesAssumption
  <2> QED BY <1>3, <1>4, <2>1
<1>7. PICK next \in Int : next = C!Date(z, hi)
  BY <1>1, DateIs
<1>8. next = IF hi < at THEN IF hi - before < at THEN hi - before ELSE hi - after
             ELSE IF hi - after < at THEN hi - before ELSE hi - after
  BY <1>1, <1>7, DateIs
<1>9. u \in Int /\ v <= u /\ u < next
  BY <1>2, <1>4, <1>7
<1>10. PICK there, here \in Int :
         /\ here = C!Clock(z, v) /\ here = IF v < at THEN v + before ELSE v + after
         /\ there = C!Clock(z, u) /\ there = IF u < at THEN u + before ELSE u + after
  BY <1>1, <1>9, ClockIs
<1>11. lo <= here /\ here < hi
  BY <1>2, <1>4, <1>10
<1>12. CASE lo <= there /\ there < hi
  BY <1>2, <1>4, <1>10, <1>12
<1>13. CASE ~(lo <= there /\ there < hi)
  <2>1. u < at /\ u + before - after >= at /\ u + before - after >= next /\ u + before - after <= u + m
    BY <1>5, <1>6, <1>8, <1>9, <1>10, <1>11, <1>13
  <2>2. PICK again \in Int : again = u + before - after
    OBVIOUS
  <2>3. C!Clock(z, again) = again + after
    BY <1>1, <2>1, <2>2, ClockIs
  <2>4. C!Clock(z, again) = C!Clock(z, u)
    BY <1>10, <2>1, <2>2, <2>3
  <2> QED BY <1>2, <1>4, <1>7, <1>9, <2>1, <2>2, <2>4
<1> QED BY <1>12, <1>13

(***************************************************************************)
(* What was passed over is of no use.                                      *)
(***************************************************************************)

(* Up to an instant.                                                       *)
NoneMissed(z, e, first, next) ==
  \A u \in first + 1 .. next - 1 :
    Accepts(e, C!Clock(z, u)) =>
      \E again \in next .. next + C!DayLength : C!Clock(z, again) = C!Clock(z, u)

LEMMA StillNoneMissed ==
  ASSUME NEW z \in Zones, NEW e, NEW first \in Int, NEW v \in Int, NoneMissed(z, e, first, v),
         NEW a \in Int, NEW b \in Int, Minutes * a <= C!Clock(z, v), C!Clock(z, v) < Minutes * b,
         \A c \in Minutes * a .. Minutes * b - 1 : ~Accepts(e, c)
  PROVE  NoneMissed(z, e, first, C!Date(z, Minutes * b)) /\ C!Date(z, Minutes * b) \in Int
<1>1. PICK next, m, long \in Int :
        next = C!Date(z, Minutes * b) /\ m = Minutes /\ long = C!DayLength /\ m <= long /\ m > 0
  <2>1. Minutes * b \in Int
    BY TheCalendar
  <2>2. C!Date(z, Minutes * b) \in Int
    BY <2>1, ClockIs, DateIs
  <2> QED BY <2>2, TheCalendar, DayIsLong
<1>0. \A u \in v .. C!Date(z, Minutes * b) - 1 :
        \/ C!Clock(z, u) \in Minutes * a .. Minutes * b - 1
        \/ \E again \in C!Date(z, Minutes * b) .. u + Minutes : C!Clock(z, again) = C!Clock(z, u)
  BY PassedOver
<1>2. ASSUME NEW u \in Int, v <= u, u < next, Accepts(e, C!Clock(z, u))
      PROVE  \E again \in next .. u + m : C!Clock(z, again) = C!Clock(z, u)
  <2>1. u \in v .. C!Date(z, Minutes * b) - 1
    BY <1>1, <1>2
  <2>2. C!Clock(z, u) \notin Minutes * a .. Minutes * b - 1
    BY <1>2
  <2>3. \E again \in C!Date(z, Minutes * b) .. u + Minutes : C!Clock(z, again) = C!Clock(z, u)
    BY <2>1, <2>2, <1>0, Zenon
  <2> QED BY <1>1, <2>3, Zenon
<1>3. ASSUME NEW u \in first + 1 .. next - 1, Accepts(e, C!Clock(z, u))
      PROVE  \E again \in next .. next + long : C!Clock(z, again) = C!Clock(z, u)
  <2>1. u \in Int /\ first + 1 <= u /\ u < next
    BY <1>1
  <2>2. CASE v <= u
    <3>1. PICK again \in next .. u + m : C!Clock(z, again) = C!Clock(z, u)
      BY <1>2, <1>3, <2>1, <2>2
    <3>2. again \in next .. next + long
      BY <1>1, <2>1
    <3> QED BY <3>1, <3>2
  <2>3. CASE u < v
    <3>1. PICK again \in v .. v + long : C!Clock(z, again) = C!Clock(z, u)
      <4>1. u \in first + 1 .. v - 1
        BY <2>1, <2>3
      <4> QED BY <1>1, <1>3, <4>1 DEF NoneMissed
    <3>2. again \in Int /\ u < again /\ v <= again
      BY <1>1, <2>1, <2>3
    <3>3. again <= u + m
      BY <1>1, <2>1, <3>1, <3>2, ShownAgain
    <3>4. CASE next <= again
      <4>1. again \in next .. next + long
        BY <1>1, <2>1, <3>2, <3>3, <3>4
      <4> QED BY <3>1, <4>1
    <3>5. CASE again < next
      <4>1. PICK later \in next .. again + m : C!Clock(z, later) = C!Clock(z, again)
        BY <1>2, <1>3, <3>1, <3>2, <3>5
      <4>2. later \in next .. next + long
        BY <1>1, <3>2, <3>5
      <4> QED BY <3>1, <4>1, <4>2
    <3> QED BY <1>1, <3>2, <3>4, <3>5
  <2> QED BY <2>1, <2>2, <2>3
<1> QED BY <1>1, <1>3 DEF NoneMissed

LEMMA NoneMissedByOne ==
  ASSUME NEW z \in Zones, NEW e, NEW first \in Int, NEW v \in Int, NoneMissed(z, e, first, v),
         ~Accepts(e, C!Clock(z, v))
  PROVE  NoneMissed(z, e, first, v + 1)
<1>1. C!DayLength \in Nat /\ C!DayLength >= 1 /\ Minutes \in Nat /\ C!DayLength >= Minutes
  BY DayIsLong, TheCalendar
<1> SUFFICES ASSUME NEW u \in first + 1 .. (v + 1) - 1, Accepts(e, C!Clock(z, u))
             PROVE  \E again \in v + 1 .. v + 1 + C!DayLength : C!Clock(z, again) = C!Clock(z, u)
  BY DEF NoneMissed
<1>2. u # v /\ u \in Int
  OBVIOUS
<1>3. u \in first + 1 .. v - 1
  BY <1>2
<1>4. PICK again \in v .. v + C!DayLength : C!Clock(z, again) = C!Clock(z, u)
  BY <1>3 DEF NoneMissed
<1>5. again # v
  BY <1>4
<1>6. again \in v + 1 .. v + 1 + C!DayLength
  BY <1>1, <1>5
<1> QED BY <1>4, <1>6

(* Days in minutes.                                                        *)
LEMMA DaysInMinutes ==
  ASSUME NEW q \in Int
  PROVE  /\ C!DayLength * q = Minutes * (Hours * q) /\ q * C!DayLength = Minutes * (Hours * q)
         /\ Hours * q \in Int
<1>1. PICK m, h \in Nat : m = Minutes /\ h = Hours
  BY TheCalendar
<1>2. (h * m) * q = m * (h * q) /\ q * (h * m) = m * (h * q) /\ h * q \in Int
  OBVIOUS
<1> QED BY <1>1, <1>2 DEF C!DayLength

LEMMA DaysBetween ==
  ASSUME NEW d \in Int, NEW p \in Int, NEW q \in Int, C!DayLength * p <= d, d < C!DayLength * q
  PROVE  C!DayOf(d) \in Int /\ p <= C!DayOf(d) /\ C!DayOf(d) < q
<1>1. PICK n, k \in Int : n = C!DayLength /\ k = C!DayOf(d) /\ n \in Nat \ {0}
  BY DayIsLong, DayHas
<1>2. n * k <= d /\ d < n * k + n
  <2>1. n * (k + 1) = n * k + n
    BY <1>1
  <2> QED BY <1>1, <2>1, DayHas
<1>3. n * k \in Int /\ n * p \in Int /\ n * q \in Int /\ n * p <= d /\ d < n * q
  BY <1>1
<1>4. ASSUME k < p PROVE FALSE
  <2>1. n * k + n <= n * p
    BY <1>1, <1>4, Apart
  <2> QED BY <1>1, <1>2, <1>3, <2>1
<1>5. ASSUME q <= k PROVE FALSE
  <2>1. n * q <= n * k
    <3>1. CASE q = k
      BY <1>3, <3>1
    <3>2. CASE q < k
      <4>1. n * q + n <= n * k
        BY <1>1, <3>2, Apart
      <4> QED BY <1>1, <1>3, <4>1
    <3> QED BY <1>1, <1>5, <3>1, <3>2
  <2> QED BY <1>1, <1>2, <1>3, <2>1
<1> QED BY <1>1, <1>4, <1>5

(* The first day of a clock's year.                                        *)
LEMMA SameMonth ==
  ASSUME NEW c \in Int, NEW d \in Int, NEW first, first = C!DayOf(c) - C!YearDay(c),
         C!DayLength * (first + C!MonthStart[C!MonthOf(c)]) <= d,
         d < C!DayLength * (first + C!MonthStart[C!MonthOf(c) + 1])
  PROVE  C!Reading(d).mon = C!Reading(c).mon
<1>1. PICK year \in Nat \ {0} : year = C!YearLength
  BY YearIsLong
<1>2. PICK k \in 1 .. Len(MonthDays) : k = C!MonthOf(c)
  BY MonthIs
<1>3. PICK start, end \in Nat : start = C!MonthStart[k] /\ end = C!MonthStart[k + 1] /\ end <= year
  <2>1. k \in 1 .. Len(MonthDays) + 1 /\ k + 1 \in 1 .. Len(MonthDays) + 1
        /\ Len(MonthDays) + 1 \in 1 .. Len(MonthDays) + 1
    BY TheCalendar
  <2>2. C!MonthStart[k + 1] <= C!MonthStart[Len(MonthDays) + 1]
    BY <2>1, MonthsFollow
  <2>3. C!MonthStart[k] \in Nat /\ C!MonthStart[k + 1] \in Nat
    BY <2>1, MonthStarts
  <2> QED BY <1>1, <2>2, <2>3 DEF C!YearLength
<1>4. PICK today \in Int : today = C!DayOf(c)
  BY MonthIs
<1>5. PICK y, rest, passed \in Int :
        /\ y = today \div year /\ rest = today % year /\ passed = year * y
        /\ today = passed + rest /\ 0 <= rest /\ rest < year
  BY <1>1, <1>4, Division, Zenon
<1>f. first = passed /\ first \in Int
  <2>1. C!YearDay(c) = rest
    BY <1>1, <1>4, <1>5, Zenon DEF C!YearDay
  <2>2. first = today - rest
    BY <1>4, <2>1, Zenon
  <2>3. today - rest = passed
    BY <1>5
  <2> QED BY <2>2, <2>3
<1>6. PICK day \in Int : day = C!DayOf(d) /\ first + start <= day /\ day < first + end
  <2>1. PICK p, q \in Int : p = first + start /\ q = first + end
    BY <1>3, <1>f
  <2>2. C!DayLength * p <= d /\ d < C!DayLength * q
    BY <1>2, <1>3, <2>1
  <2>3. C!DayOf(d) \in Int /\ p <= C!DayOf(d) /\ C!DayOf(d) < q
    BY <2>1, <2>2, DaysBetween, Zenon
  <2> QED BY <2>1, <2>3
<1>7. C!YearDay(d) = day - first /\ start <= day - first /\ day - first < end
  <2>1. PICK n \in Int : n = day - first
    BY <1>6, <1>f
  <2>2. 0 <= n /\ n < year /\ start <= n /\ n < end /\ day = passed + n
    <3>1. n = day - passed /\ passed + start <= day /\ day < passed + end
      BY <1>6, <1>f, <2>1, Zenon
    <3>2. end <= year
      BY <1>3
    <3> QED BY <3>1, <3>2
  <2>3. year * y <= day /\ day < year * y + year
    BY <1>1, <1>5, <2>2
  <2>4. day \div year = y
    BY <1>1, <1>5, <1>6, <2>3, QuotientIs
  <2>5. PICK q, r, m \in Int :
          /\ q = day \div year /\ r = day % year /\ m = year * q
          /\ day = m + r /\ 0 <= r /\ r < year
    BY <1>1, <1>6, Division, Zenon
  <2>6. m = passed
    BY <1>5, <2>4, <2>5
  <2>7. r = n
    BY <2>2, <2>5, <2>6
  <2>8. C!YearDay(d) = n
    BY <1>1, <1>6, <2>5, <2>7, Zenon DEF C!YearDay
  <2> QED BY <2>1, <2>2, <2>8
<1>8. C!MonthStart[k] <= C!YearDay(d) /\ C!YearDay(d) < C!MonthStart[k + 1]
  BY <1>3, <1>7
<1>9. k = C!MonthOf(d)
  BY <1>8, MonthIs
<1> QED BY <1>2, <1>9 DEF C!Reading

(* What is known of a search.                                              *)
SearchInv ==
  /\ zone \in Zones /\ expr \in Exprs /\ from \in Int /\ t \in Int
  /\ NoneMissed(zone, expr, from, t)
  /\ search = "found" => Accepts(expr, C!Clock(zone, t))

LEMMA SearchedFirst == SearchInv => FirstMatch
<1> SUFFICES ASSUME SearchInv PROVE C!FirstMatch
  BY DEF FirstMatch
<1>1. zone \in Zones /\ expr \in Exprs /\ from \in Int /\ t \in Int
  BY DEF SearchInv
<1>2. \A u \in Int : C!Matches(u) <=> Accepts(expr, C!Clock(zone, u))
  BY <1>1, ClockIs, MatchesIs
<1>3. \A u \in from + 1 .. t - 1 : C!Matches(u) =>
        \E again \in t .. t + C!DayLength : C!Clock(zone, again) = C!Clock(zone, u)
  BY <1>1, <1>2 DEF SearchInv, NoneMissed
<1>4. search = "found" => C!Matches(t)
  BY <1>1, <1>2 DEF SearchInv
<1> QED BY <1>3, <1>4, Zenon DEF C!FirstMatch

LEMMA FitsIs == \A name : C!Fits(name) <=> FitsAt(expr, C!Clock(zone, t), name)
  BY DEF C!Fits, FitsAt

(* An advance beyond an hour, a day or a month that does not fit.          *)
LEMMA AdvanceStep ==
  ASSUME SearchInv, NEW a \in Int, NEW b \in Int, C!Advance(Minutes * b), search # "found",
         Minutes * a <= C!Clock(zone, t), C!Clock(zone, t) < Minutes * b,
         \A c \in Minutes * a .. Minutes * b - 1 : ~Accepts(expr, c)
  PROVE  SearchInv'
<1>1. /\ zone' = zone /\ expr' = expr /\ from' = from /\ search' = search
      /\ t' = C!Date(zone, Minutes * b)
  BY DEF C!Advance
<1>2. zone \in Zones /\ expr \in Exprs /\ from \in Int /\ t \in Int /\ NoneMissed(zone, expr, from, t)
  BY DEF SearchInv
<1>3. NoneMissed(zone, expr, from, C!Date(zone, Minutes * b)) /\ C!Date(zone, Minutes * b) \in Int
  BY <1>2, StillNoneMissed
<1>4. NoneMissed(zone', expr', from', t')
  BY <1>1, <1>3, Zenon
<1> QED BY <1>1, <1>2, <1>3, <1>4 DEF SearchInv, NoneMissed

LEMMA HourStep == ASSUME SearchInv, C!NextHour PROVE SearchInv'
<1>1. zone \in Zones /\ t \in Int
  BY DEF SearchInv
<1>2. PICK c \in Int : c = C!Clock(zone, t)
  BY <1>1, ClockIs
<1>3. PICK q \in Int : q = c \div Minutes
  BY TheCalendar, Quotient
<1>4. Minutes * q <= c /\ c < Minutes * (q + 1)
  <2>1. PICK n \in Nat \ {0} : n = Minutes
    BY TheCalendar
  <2>2. c = n * q + (c % n) /\ c % n \in 0 .. n - 1 /\ n * q \in Int /\ n * (q + 1) = n * q + n
    BY <1>3, <2>1, Quotient
  <2> QED BY <2>1, <2>2
<1>5. C!Advance(Minutes * (q + 1)) /\ search # "found" /\ ~FitsAt(expr, c, "hour")
  <2>1. (q + 1) * Minutes = Minutes * (q + 1)
    BY TheCalendar
  <2>2. (C!Clock(zone, t) \div Minutes + 1) * Minutes = Minutes * (q + 1)
    BY <1>2, <1>3, <2>1
  <2> QED BY <1>2, <2>2, FitsIs DEF C!NextHour, C!Searching
<1>6. ASSUME NEW d \in Minutes * q .. Minutes * (q + 1) - 1 PROVE ~Accepts(expr, d)
  <2>1. d \in Int /\ Minutes * q <= d /\ d < Minutes * (q + 1)
    BY TheCalendar
  <2>2. C!Reading(d).hour = C!Reading(c).hour
    BY <1>3, <2>1, SameHour
  <2>3. ~FitsAt(expr, d, "hour")
    BY <1>5, <2>2 DEF FitsAt
  <2> QED BY <2>3 DEF Accepts
<1>7. q + 1 \in Int
  OBVIOUS
<1> QED BY <1>2, <1>4, <1>5, <1>6, <1>7, AdvanceStep

LEMMA DayStep == ASSUME SearchInv, C!NextDay PROVE SearchInv'
<1>1. zone \in Zones /\ t \in Int
  BY DEF SearchInv
<1>2. PICK c \in Int : c = C!Clock(zone, t)
  BY <1>1, ClockIs
<1>3. PICK q \in Int : q = C!DayOf(c) /\ C!DayLength * q <= c /\ c < C!DayLength * (q + 1)
  BY DayHas
<1>4. PICK a, b \in Int :
        /\ a = Hours * q /\ b = Hours * (q + 1)
        /\ C!DayLength * q = Minutes * a /\ C!DayLength * (q + 1) = Minutes * b
        /\ (q + 1) * C!DayLength = Minutes * b
  BY DaysInMinutes
<1>5. /\ C!Advance(Minutes * b) /\ search # "found"
      /\ ~FitsAt(expr, c, "dom") \/ ~FitsAt(expr, c, "dow")
  <2>1. (C!DayOf(C!Clock(zone, t)) + 1) * C!DayLength = Minutes * b
    BY <1>2, <1>3, <1>4
  <2> QED BY <1>2, <2>1, FitsIs DEF C!NextDay, C!Searching
<1>6. ASSUME NEW d \in Minutes * a .. Minutes * b - 1 PROVE ~Accepts(expr, d)
  <2>1. d \in Int /\ C!DayLength * q <= d /\ d < C!DayLength * (q + 1)
    BY <1>4, TheCalendar
  <2>2. C!DayOf(d) = C!DayOf(c)
    BY <1>3, <2>1, DayIs
  <2>3. C!Reading(d).dom = C!Reading(c).dom /\ C!Reading(d).dow = C!Reading(c).dow
    BY <2>1, <2>2, SameDay
  <2>4. ~FitsAt(expr, d, "dom") \/ ~FitsAt(expr, d, "dow")
    BY <1>5, <2>3 DEF FitsAt
  <2> QED BY <2>4 DEF Accepts
<1> QED BY <1>2, <1>3, <1>4, <1>5, <1>6, AdvanceStep

LEMMA MonthStep == ASSUME SearchInv, C!NextMonth PROVE SearchInv'
<1>1. zone \in Zones /\ t \in Int
  BY DEF SearchInv
<1>2. PICK c \in Int : c = C!Clock(zone, t)
  BY <1>1, ClockIs
<1>3. PICK k \in 1 .. Len(MonthDays) : k = C!MonthOf(c)
  BY MonthIs
<1>4. PICK start, end, yearday, today \in Int :
        /\ start = C!MonthStart[k] /\ end = C!MonthStart[k + 1]
        /\ yearday = C!YearDay(c) /\ today = C!DayOf(c)
  <2>1. k \in 1 .. Len(MonthDays) + 1 /\ k + 1 \in 1 .. Len(MonthDays) + 1
    BY TheCalendar
  <2>2. C!MonthStart[k] \in Int /\ C!MonthStart[k + 1] \in Int
    BY <2>1, MonthStarts
  <2>3. C!YearDay(c) \in Int
    <3>1. \A n \in Nat \ {0} : \A i \in 0 .. n - 1 : i \in Int
      OBVIOUS
    <3>2. C!YearDay(c) \in 0 .. C!YearLength - 1
      BY MonthIs
    <3> QED BY <3>1, <3>2, YearIsLong
  <2> QED BY <2>2, <2>3, MonthIs, Zenon
<1>5. PICK first, p, q \in Int : first = today - yearday /\ p = first + start /\ q = first + end
  OBVIOUS
<1>b. p <= today /\ today + 1 <= q
  <2>1. start <= yearday /\ yearday < end
    BY <1>3, <1>4, MonthIs
  <2> QED BY <1>5, <2>1
<1>6. PICK a, b \in Int :
        /\ C!DayLength * p = Minutes * a /\ C!DayLength * q = Minutes * b
        /\ q * C!DayLength = Minutes * b
  BY DaysInMinutes
<1>7. Minutes * a <= c /\ c < Minutes * b
  <2>1. PICK n \in Nat \ {0} : n = C!DayLength
    BY DayIsLong
  <2>2. n * today <= c /\ c < n * (today + 1)
    BY <1>4, <2>1, DayHas
  <2>3. n * p <= n * today /\ n * (today + 1) <= n * q
    <3>1. \A i, j \in Int : i <= j => n * i <= n * j
      <4> SUFFICES ASSUME NEW i \in Int, NEW j \in Int, i <= j PROVE n * i <= n * j
        OBVIOUS
      <4>1. CASE i = j
        BY <2>1, <4>1
      <4>2. CASE i < j
        <5>1. n * i + n <= n * j /\ n * i \in Int /\ n * j \in Int
          BY <2>1, <4>2, Apart
        <5> QED BY <2>1, <5>1
      <4> QED BY <4>1, <4>2
    <3>2. today + 1 \in Int
      OBVIOUS
    <3> QED BY <1>b, <3>1, <3>2, Zenon
  <2>4. n * p \in Int /\ n * today \in Int /\ n * (today + 1) \in Int /\ n * q \in Int
    BY <2>1
  <2>5. n * p <= c /\ c < n * q
    BY <2>2, <2>3, <2>4
  <2> QED BY <1>6, <2>1, <2>5, Zenon
<1>8. C!Advance(Minutes * b) /\ search # "found" /\ ~FitsAt(expr, c, "mon")
  <2>1. C!DayOf(c) - C!YearDay(c) + C!MonthStart[C!MonthOf(c) + 1] = q
    <3>1. today - yearday + end = q
      BY <1>4, <1>5
    <3> QED BY <1>3, <1>4, <3>1
  <2>2. C!NextMonth => C!Advance((C!DayOf(c) - C!YearDay(c) + C!MonthStart[C!MonthOf(c) + 1]) * C!DayLength)
    BY <1>2, Zenon DEF C!NextMonth
  <2>3. C!Advance(q * C!DayLength)
    BY <2>1, <2>2, Zenon
  <2> QED BY <1>2, <1>6, <2>3, FitsIs DEF C!NextMonth, C!Searching
<1>9. ASSUME NEW d \in Minutes * a .. Minutes * b - 1 PROVE ~Accepts(expr, d)
  <2>1. d \in Int /\ C!DayLength * p <= d /\ d < C!DayLength * q
    BY <1>6, TheCalendar
  <2>2. C!Reading(d).mon = C!Reading(c).mon
    BY <1>3, <1>4, <1>5, <2>1, SameMonth
  <2>3. ~FitsAt(expr, d, "mon")
    BY <1>8, <2>2 DEF FitsAt
  <2> QED BY <2>3 DEF Accepts
<1> QED BY <1>2, <1>6, <1>7, <1>8, <1>9, AdvanceStep

LEMMA MinuteStep == ASSUME SearchInv, C!NextMinute PROVE SearchInv'
<1>1. zone \in Zones /\ expr \in Exprs /\ from \in Int /\ t \in Int /\ NoneMissed(zone, expr, from, t)
  BY DEF SearchInv
<1>2. /\ zone' = zone /\ expr' = expr /\ from' = from /\ search' = search /\ t' = t + 1
      /\ search # "found"
  BY DEF C!NextMinute, C!Searching
<1>3. ~Accepts(expr, C!Clock(zone, t))
  BY FitsIs DEF C!NextMinute, Accepts
<1>4. NoneMissed(zone, expr, from, t + 1)
  BY <1>1, <1>3, NoneMissedByOne
<1>5. NoneMissed(zone', expr', from', t')
  BY <1>2, <1>4, Zenon
<1> QED BY <1>1, <1>2, <1>5 DEF SearchInv, NoneMissed

LEMMA InitSearch == C!Init => SearchInv
<1> SUFFICES ASSUME C!Init PROVE SearchInv
  OBVIOUS
<1>1. zone \in Zones /\ expr \in Exprs /\ from \in Int /\ t = from + 1 /\ search = "on"
  BY CalendarAssumption DEF C!Init, CalendarAssumption
<1>2. NoneMissed(zone, expr, from, t)
  BY <1>1 DEF NoneMissed
<1> QED BY <1>1, <1>2 DEF SearchInv

LEMMA NextSearch == SearchInv /\ [C!Next]_searchVars => SearchInv'
<1> SUFFICES ASSUME SearchInv, C!Next \/ UNCHANGED searchVars PROVE SearchInv'
  OBVIOUS
<1>1. CASE UNCHANGED searchVars
  BY <1>1 DEF searchVars, SearchInv, NoneMissed
<1>2. CASE C!Found
  <2>1. Accepts(expr, C!Clock(zone, t))
    <3>1. DOMAIN C!Least = {"mon", "dom", "dow", "hour", "min"}
      BY DEF C!Least
    <3> QED BY <1>2, <3>1, FitsIs, Zenon DEF C!Found, Accepts
  <2>2. UNCHANGED <<zone, expr, from, t>>
    BY <1>2 DEF C!Found
  <2> QED BY <2>1, <2>2 DEF SearchInv, NoneMissed
<1>3. CASE C!GiveUp
  BY <1>3 DEF C!GiveUp, SearchInv, NoneMissed
<1> QED BY <1>1, <1>2, <1>3, MonthStep, DayStep, HourStep, MinuteStep, Zenon DEF C!Next

(* nextCronTime: the minute it finds matches the schedule, and none that   *)
(* matches is passed over unless the clock shows it again, for any         *)
(* calendar, any expression and any zone whose clock changes on the full   *)
(* hour and by an hour at most.                                            *)
THEOREM SearchesMissNothing == AutomationSpec => []FirstMatch
<1>1. AutomationInit => SearchInv
  BY InitSearch, Zenon DEF AutomationInit
<1>2. SearchInv /\ [AutomationNext]_allVars => SearchInv'
  <2>1. [AutomationNext]_allVars => [C!Next]_searchVars
    BY DEF AutomationNext, allVars, searchVars
  <2> QED BY <2>1, NextSearch
<1> QED BY <1>1, <1>2, SearchedFirst, PTL DEF AutomationSpec
=============================================================================
