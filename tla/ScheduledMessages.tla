-------------------------- MODULE ScheduledMessages --------------------------
(***************************************************************************)
(* Scheduled messages: the minute worker of internal/api/scheduledmsgs.go  *)
(* and the requests that create, change, cancel and delete rows of the     *)
(* scheduled_messages collection while it sends.                           *)
(*                                                                         *)
(* Time is counted in units of which Day make a UTC day.  Of a row, its    *)
(* status and its time matter; recipient, text and type are left out.      *)
(***************************************************************************)
EXTENDS Integers, FiniteSets, FiniteSetsExt

CONSTANTS
  Ids,         (* Rows that may be created; an id is never used again.      *)
  Requests,    (* API request goroutines.                                   *)
  Limit,       (* Rows of a tick: 10 in the code.                           *)
  Day,         (* Length of a day.                                          *)
  MaxTime,     (* Bound of the model: the last moment.                      *)
  MaxTroubles  (* Bound of the model: failed saves of a row, and crashes.   *)

ASSUME ScheduleAssumption ==
  Limit \in Nat \ {0} /\ Day \in Nat \ {0} /\ MaxTime \in Nat /\ MaxTroubles \in Nat

VARIABLES
  rows,      (* The collection.                                             *)
  clock,     (* The time of day, and the day.                               *)
  batch,     (* Rows the worker loaded at its tick and has not reached.     *)
  current,   (* The row it has sent, or tried to, and not marked yet.       *)
  request,   (* What each request holds.                                    *)
  sends,     (* History: messages that reached WhatsApp, for each row.      *)
  troubles,  (* History: failed saves and crashes that cost a row its mark. *)
  crashes    (* Crashes so far.                                             *)

vars == <<rows, clock, batch, current, request, sends, troubles, crashes>>

Statuses == {"unborn", "pending", "sent", "failed", "cancelled", "deleted"}
Times    == 0 .. MaxTime
Rows     == [status : Statuses, at : Times]
NoRow    == [status |-> "unborn", at |-> 0]

Idle    == [op |-> "idle"]
Resting == [sent |-> "nothing"]

Exists(id) == rows[id].status \notin {"unborn", "deleted"}

(* WHERE status = 'pending' AND scheduled_at <= datetime('now'): the column *)
(* is text.  "2026-04-20T10:00:00Z" is compared with "2026-04-20 11:00:00", *)
(* whose space comes before the T: a row is due from the next day on.      *)
Due(row) == row.status = "pending" /\ row.at \div Day < clock \div Day

Init ==
  /\ rows = [id \in Ids |-> NoRow]
  /\ clock = 0 /\ batch = {} /\ current = Resting
  /\ request = [q \in Requests |-> Idle]
  /\ sends = [id \in Ids |-> 0] /\ troubles = [id \in Ids |-> 0]
  /\ crashes = 0

Pass ==
  /\ clock < MaxTime
  /\ clock' = clock + 1
  /\ UNCHANGED <<rows, batch, current, request, sends, troubles, crashes>>

(***************************************************************************)
(* fireScheduledMessages.                                                  *)
(***************************************************************************)

(* Mutant: a tick without a limit.                                         *)
LoadAll ==
  /\ batch = {} /\ current = Resting
  /\ batch' = {[id |-> id, row |-> rows[id]] : id \in {i \in Ids : Due(rows[i])}}
  /\ UNCHANGED <<rows, clock, current, request, sends, troubles, crashes>>

(* The tick loads due rows, at most Limit, in no particular order.         *)
Load ==
  /\ batch = {} /\ current = Resting
  /\ LET due == {id \in Ids : Due(rows[id])}
     IN \E picked \in kSubset(Min({Cardinality(due), Limit}), due) :
          batch' = {[id |-> id, row |-> rows[id]] : id \in picked}
  /\ UNCHANGED <<rows, clock, current, request, sends, troubles, crashes>>

(* The next row is sent as it was loaded.  It may reach WhatsApp or not,   *)
(* and SendConversationMessage may report an error in either case: a bad   *)
(* JID, no connection, or a lost acknowledgement.                          *)
Send ==
  /\ current = Resting
  /\ \E b \in batch, reached, error \in BOOLEAN :
       /\ reached \/ error
       /\ batch' = batch \ {b}
       /\ current' = [sent |-> b.id, error |-> error]
       /\ sends' = IF reached THEN [sends EXCEPT ![b.id] = @ + 1] ELSE sends
  /\ UNCHANGED <<rows, clock, request, troubles, crashes>>

(* Mutant: a row that could not be sent is passed over.                    *)
MarkSentOnly ==
  /\ current # Resting
  /\ current' = Resting
  /\ rows' = IF Exists(current.sent) /\ ~current.error
             THEN [rows EXCEPT ![current.sent].status = "sent"] ELSE rows
  /\ UNCHANGED <<clock, batch, request, sends, troubles, crashes>>

(* The row is looked up again and its status saved, unless it is gone.     *)
Mark ==
  /\ current # Resting
  /\ current' = Resting
  /\ rows' = IF Exists(current.sent)
             THEN [rows EXCEPT ![current.sent].status =
                     IF current.error THEN "failed" ELSE "sent"]
             ELSE rows
  /\ UNCHANGED <<clock, batch, request, sends, troubles, crashes>>

(* The error of the save is dropped.                                       *)
MarkFails ==
  /\ current # Resting /\ troubles[current.sent] < MaxTroubles
  /\ current' = Resting
  /\ troubles' = [troubles EXCEPT ![current.sent] = @ + 1]
  /\ UNCHANGED <<rows, clock, batch, request, sends, crashes>>

(***************************************************************************)
(* Requests.                                                               *)
(***************************************************************************)

Create ==
  /\ \E id \in Ids, at \in Times :
       /\ rows[id].status = "unborn"
       /\ rows' = [rows EXCEPT ![id] = [status |-> "pending", at |-> at]]
  /\ UNCHANGED <<clock, batch, current, request, sends, troubles, crashes>>

(* PATCH and DELETE look the row up and check its status ...               *)
Fetch(q) ==
  /\ request[q] = Idle
  /\ \E id \in Ids :
       \/ /\ rows[id].status = "pending"
          /\ request' = [request EXCEPT ![q] = [op |-> "patch", id |-> id, row |-> rows[id]]]
       \/ /\ rows[id].status \in {"pending", "cancelled"}
          /\ request' = [request EXCEPT ![q] = [op |-> "delete", id |-> id, row |-> rows[id]]]
  /\ UNCHANGED <<rows, clock, batch, current, sends, troubles, crashes>>

(* Mutant: the save writes the whole record back.                          *)
PatchWhole(q) ==
  /\ request[q].op = "patch"
  /\ request' = [request EXCEPT ![q] = Idle]
  /\ \E at \in Times, cancel \in BOOLEAN :
       rows' = IF Exists(request[q].id)
               THEN [rows EXCEPT ![request[q].id] =
                       [at |-> at, status |-> IF cancel THEN "cancelled" ELSE "pending"]]
               ELSE rows
  /\ UNCHANGED <<clock, batch, current, sends, troubles, crashes>>

(* ... and save what the body changes, field by field, in whatever row is  *)
(* there by then.  Values equal to those loaded are not written.           *)
Patch(q) ==
  LET id == request[q].id
      was == request[q].row
      Written(now, loaded, new) == IF new = loaded THEN now ELSE new
  IN /\ request[q].op = "patch"
     /\ request' = [request EXCEPT ![q] = Idle]
     /\ \E at \in Times, status \in {"pending", "cancelled"} :
          rows' = IF Exists(id)
                  THEN [rows EXCEPT ![id] =
                          [at     |-> Written(@.at, was.at, at),
                           status |-> Written(@.status, was.status, status)]]
                  ELSE rows
     /\ UNCHANGED <<clock, batch, current, sends, troubles, crashes>>

Delete(q) ==
  /\ request[q].op = "delete"
  /\ request' = [request EXCEPT ![q] = Idle]
  /\ rows' = [rows EXCEPT ![request[q].id].status = "deleted"]
  /\ UNCHANGED <<clock, batch, current, sends, troubles, crashes>>

(* A bad body, or a save or delete that fails.                             *)
Refuse(q) ==
  /\ request[q] # Idle
  /\ request' = [request EXCEPT ![q] = Idle]
  /\ UNCHANGED <<rows, clock, batch, current, sends, troubles, crashes>>

(* The process ends and starts again: the collection stays.                *)
Crash ==
  /\ crashes < MaxTroubles /\ crashes' = crashes + 1
  /\ batch' = {} /\ current' = Resting /\ request' = [q \in Requests |-> Idle]
  /\ troubles' = [id \in Ids |-> IF current # Resting /\ current.sent = id
                                 THEN troubles[id] + 1 ELSE troubles[id]]
  /\ UNCHANGED <<rows, clock, sends>>

(***************************************************************************)
(* The specification.                                                      *)
(***************************************************************************)

Worker == Load \/ Send \/ Mark \/ MarkFails
Serve(q) == Fetch(q) \/ Patch(q) \/ Delete(q) \/ Refuse(q)

Next == Pass \/ Worker \/ Create \/ Crash \/ \E q \in Requests : Serve(q)

(* The ticker fires for ever and the loop over a batch waits for nobody.   *)
Fairness == WF_vars(Worker)

Spec == Init /\ [][Next]_vars
FairSpec == Spec /\ Fairness

(***************************************************************************)
(* Properties.                                                             *)
(***************************************************************************)

(* The type invariant.                                                     *)
TypeOK ==
  /\ rows \in [Ids -> Rows] /\ clock \in Times
  /\ batch \subseteq [id : Ids, row : Rows] /\ Cardinality(batch) <= Limit
  /\ current \in {Resting} \cup [sent : Ids, error : BOOLEAN]
  /\ request \in [Requests -> {Idle} \cup [op : {"patch", "delete"}, id : Ids, row : Rows]]
  /\ sends \in [Ids -> Nat] /\ troubles \in [Ids -> Nat]
  /\ crashes \in 0 .. MaxTroubles

(* A message is sent again only if its mark was lost: whatever requests    *)
(* change in a row while it is being sent, they never make it pending.     *)
NoResend ==
  \A id \in Ids :
    LET marking == current # Resting /\ current.sent = id
    IN /\ sends[id] <= 1 + troubles[id]
       /\ rows[id].status = "pending" /\ ~marking => sends[id] <= troubles[id]

(* A row that says it was sent was sent.                                   *)
SentWasSent == \A id \in Ids : rows[id].status = "sent" => sends[id] > 0

(* A row that is due does not stay so: it is sent, fails, or a request     *)
(* withdraws or postpones it.                                              *)
DueIsHandled == \A id \in Ids : Due(rows[id]) ~> ~Due(rows[id])

(* What the index of the collection documents as the worker's query: a     *)
(* pending row is due when its time has come.                              *)
DueInTime == \A id \in Ids : rows[id].status = "pending" /\ rows[id].at <= clock => Due(rows[id])
=============================================================================
