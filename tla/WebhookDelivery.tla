-------------------------- MODULE WebhookDelivery ---------------------------
(***************************************************************************)
(* The default and the error webhook of internal/webhook/webhook.go, the   *)
(* goroutines that deliver to them with up to three attempts, and the rows *)
(* internal/whatsapp/webhookdelivery.go keeps of the attempts.             *)
(*                                                                         *)
(* A delivery does not hold a URL but a pointer to the configured one: it  *)
(* reads it again for each attempt, and once more for the attempt's row.   *)
(* The time between attempts is left out: the next one may come at once.   *)
(***************************************************************************)
EXTENDS Integers, FiniteSets

CONSTANTS
  Slots,       (* The default and the error webhook.                        *)
  Urls,        (* Receivers.                                                *)
  NoUrl,       (* The empty URL of a slot that is not configured.           *)
  Deliveries,  (* Calls of SendToDefault and SendToError.                   *)
  Attempts,    (* Attempts of a delivery: 3 in the code.                    *)
  MaxChanges   (* Bound of the model: changes of a slot.                    *)

ASSUME DeliveryAssumption ==
  /\ Attempts \in Nat \ {0} /\ MaxChanges \in Nat
  /\ Slots # {} /\ NoUrl \notin Urls \cup Slots

VARIABLES
  url,       (* The configured URL of each slot.                            *)
  delivery,  (* Where each delivery is.                                     *)
  received,  (* History: the requests that reached a receiver.              *)
  rows,      (* The collection webhook_deliveries.                          *)
  unsaved,   (* History: attempts without a row.                            *)
  purged,    (* History: deliveries whose rows were purged.                 *)
  stopping,  (* shuttingDown.                                               *)
  changes    (* Changes so far.                                             *)

vars == <<url, delivery, received, rows, unsaved, purged, stopping, changes>>
log  == <<received, rows, unsaved, purged>>

Phases   == {"new", "taking", "posting", "logging", "ended", "killed"}
Outcomes == {"none", "delivered", "failed"}

(* A pointer is to a slot, or to an empty URL.                             *)
Fresh == [phase |-> "new", slot |-> CHOOSE s \in Slots : TRUE, pointer |-> NoUrl,
          attempt |-> 0, outcome |-> "none"]

Init ==
  /\ url \in [Slots -> Urls \cup {NoUrl}]
  /\ delivery = [d \in Deliveries |-> Fresh]
  /\ received = {} /\ rows = {} /\ unsaved = {} /\ purged = {}
  /\ stopping = FALSE /\ changes = 0

(* SetDefaultWebhook, ClearDefaultWebhook and the same for errors change   *)
(* the URL before they try to write the file.                              *)
Configure(slot, u) ==
  /\ changes < MaxChanges /\ changes' = changes + 1
  /\ url[slot] # u
  /\ url' = [url EXCEPT ![slot] = u]
  /\ UNCHANGED <<delivery, log, stopping>>

(* SendToDefault and SendToError do nothing without a URL ...              *)
Send(d, slot) ==
  /\ delivery[d].phase = "new"
  /\ delivery' = [delivery EXCEPT ![d].slot = slot,
       ![d].phase = IF url[slot] = NoUrl THEN "ended" ELSE "taking"]
  /\ UNCHANGED <<url, log, stopping, changes>>

(* Mutant: the goroutine gets the URL itself.                              *)
SendCopy(d) ==
  /\ delivery[d].phase = "taking"
  /\ delivery' = [delivery EXCEPT ![d].phase = "posting", ![d].attempt = 1,
                    ![d].pointer = url[delivery[d].slot]]
  /\ UNCHANGED <<url, log, stopping, changes>>

(* ... and pass on a pointer to it; if it was cleared in between, to an    *)
(* empty URL of their own.                                                 *)
SendAsync(d) ==
  /\ delivery[d].phase = "taking"
  /\ delivery' = [delivery EXCEPT ![d].phase = "posting", ![d].attempt = 1,
                    ![d].pointer = IF url[delivery[d].slot] = NoUrl THEN NoUrl ELSE delivery[d].slot]
  /\ UNCHANGED <<url, log, stopping, changes>>

Target(d) == IF delivery[d].pointer \in Slots THEN url[delivery[d].pointer] ELSE delivery[d].pointer

Attempted(d, outcome) ==
  delivery' = [delivery EXCEPT ![d].phase = "logging", ![d].outcome = outcome]

(* sendOnce refuses an empty URL, or posts.  The request may reach the     *)
(* receiver or not, and only an answer of 2xx in time is a delivery.       *)
Post(d) ==
  /\ delivery[d].phase = "posting"
  /\ \/ /\ Attempted(d, "failed")
        /\ UNCHANGED received
     \/ /\ Target(d) # NoUrl
        /\ \E outcome \in {"delivered", "failed"} : Attempted(d, outcome)
        /\ received' = received \cup {[delivery |-> d, attempt |-> delivery[d].attempt, url |-> Target(d)]}
  /\ UNCHANGED <<url, rows, unsaved, purged, stopping, changes>>

(* Mutant: a delivery is tried again whatever its outcome.                 *)
AdvanceAlways(d) ==
  delivery' = [delivery EXCEPT
    ![d].phase   = IF delivery[d].attempt = Attempts THEN "ended" ELSE "posting",
    ![d].attempt = IF delivery[d].attempt = Attempts THEN @ ELSE @ + 1]

(* A delivered request ends the goroutine, and so does the last attempt.   *)
Advance(d) ==
  LET over == delivery[d].outcome = "delivered" \/ delivery[d].attempt = Attempts
  IN delivery' = [delivery EXCEPT ![d].phase = IF over THEN "ended" ELSE "posting",
                                  ![d].attempt = IF over THEN @ ELSE @ + 1]

Row(d) == [delivery |-> d, attempt |-> delivery[d].attempt,
           url |-> Target(d), status |-> delivery[d].outcome]

(* Mutant: only the end of a delivery is recorded.                         *)
LogLast(d) ==
  /\ delivery[d].phase = "logging" /\ ~stopping /\ Target(d) # NoUrl
  /\ rows' = IF delivery[d].outcome = "delivered" \/ delivery[d].attempt = Attempts
             THEN rows \cup {Row(d)} ELSE rows
  /\ Advance(d)
  /\ UNCHANGED <<url, received, unsaved, purged, stopping, changes>>

(* OnDelivery saves a row for the attempt ...                              *)
Log(d) ==
  /\ delivery[d].phase = "logging" /\ ~stopping /\ Target(d) # NoUrl
  /\ rows' = rows \cup {Row(d)}
  /\ Advance(d)
  /\ UNCHANGED <<url, received, unsaved, purged, stopping, changes>>

(* ... unless the program stops or the save fails; a row needs a URL.  The *)
(* goroutine goes on.                                                      *)
LogFails(d) ==
  /\ delivery[d].phase = "logging"
  /\ unsaved' = unsaved \cup {[delivery |-> d, attempt |-> delivery[d].attempt]}
  /\ Advance(d)
  /\ UNCHANGED <<url, received, rows, purged, stopping, changes>>

(* deleteWebhookDeliveries removes rows that are days old: a delivery is   *)
(* over in minutes.                                                        *)
Purge(d) ==
  /\ delivery[d].phase = "ended" /\ d \notin purged
  /\ purged' = purged \cup {d}
  /\ rows' = {r \in rows : r.delivery # d}
  /\ UNCHANGED <<url, delivery, received, unsaved, stopping, changes>>

SetShuttingDown ==
  /\ ~stopping /\ stopping' = TRUE
  /\ UNCHANGED <<url, delivery, log, changes>>

(* The process ends, and its goroutines with it.                           *)
Exit ==
  /\ stopping
  /\ delivery' = [d \in Deliveries |->
       IF delivery[d].phase = "ended" THEN delivery[d] ELSE [delivery[d] EXCEPT !.phase = "killed"]]
  /\ UNCHANGED <<url, log, stopping, changes>>

Deliver(d) == SendAsync(d) \/ Post(d) \/ Log(d) \/ LogFails(d)

Next ==
  \/ \E slot \in Slots, u \in Urls \cup {NoUrl} : Configure(slot, u)
  \/ \E d \in Deliveries : (\E slot \in Slots : Send(d, slot)) \/ Deliver(d) \/ Purge(d)
  \/ SetShuttingDown \/ Exit

(* A delivery is a goroutine that waits for timers and for requests that   *)
(* time out.                                                               *)
Fairness == \A d \in Deliveries : WF_vars(Deliver(d))

Spec == Init /\ [][Next]_vars
FairSpec == Spec /\ Fairness

(***************************************************************************)
(* Properties.                                                             *)
(***************************************************************************)

Attempt == [delivery : Deliveries, attempt : 1 .. Attempts]

(* The type invariant.                                                     *)
TypeOK ==
  /\ url \in [Slots -> Urls \cup {NoUrl}]
  /\ delivery \in [Deliveries -> [phase : Phases, slot : Slots, pointer : Slots \cup {NoUrl},
                                  attempt : 0 .. Attempts, outcome : Outcomes]]
  /\ \A d \in Deliveries : delivery[d].phase \in {"posting", "logging"} => delivery[d].attempt > 0
  /\ received \subseteq [delivery : Deliveries, attempt : 1 .. Attempts, url : Urls]
  /\ rows \subseteq [delivery : Deliveries, attempt : 1 .. Attempts, url : Urls,
                     status : {"delivered", "failed"}]
  /\ unsaved \subseteq Attempt /\ purged \subseteq Deliveries
  /\ stopping \in BOOLEAN /\ changes \in 0 .. MaxChanges

Done(d) == 1 .. IF delivery[d].phase = "ended" THEN delivery[d].attempt ELSE delivery[d].attempt - 1

(* Every attempt that is over has one row, with its outcome, or is known   *)
(* not to have been saved: only the last one may have been a delivery.     *)
EveryAttemptLogged ==
  \A d \in Deliveries \ purged :
    LET logged == {r \in rows : r.delivery = d}
    IN /\ \A n \in Done(d) :
            \/ [delivery |-> d, attempt |-> n] \in unsaved
            \/ \E r \in logged : r.attempt = n /\ (r.status = "delivered" => n = delivery[d].attempt)
       /\ \A r, t \in logged : r.attempt = t.attempt => r = t

(* What is logged as delivered was received, and was not sent again: a     *)
(* second copy means that the sender took the earlier attempts for failed. *)
ConfirmedOnce ==
  \A r \in rows : r.status = "delivered" =>
    /\ \E q \in received : q.delivery = r.delivery /\ q.attempt = r.attempt
    /\ \A q \in received : q.delivery = r.delivery => q.attempt <= r.attempt

(* A retry goes to the URL that is configured when it is made: one that    *)
(* was cleared or replaced receives nothing more.                          *)
CurrentUrlOnly ==
  [][\A q \in received' \ received :
       q.url = url[delivery[q.delivery].slot]]_vars
=============================================================================
