---------------------------- MODULE EventPipeline ----------------------------
(***************************************************************************)
(* The event pipeline of internal/whatsapp: handler() runs inside          *)
(* whatsmeow and only enqueues; one worker goroutine drains eventQueue     *)
(* through handleAsync(); a second one drains receiptLatencyQueue.  Other  *)
(* goroutines (HTTP sends, connection events, recovery notices) save       *)
(* events next to the worker through the same saveEvent().                 *)
(*                                                                         *)
(* An inbound event is its arrival number.  Its payload is reduced to      *)
(* the path it takes through handleAsync (its kind) and, where it points   *)
(* at another message, that message (its target).                          *)
(***************************************************************************)
EXTENDS Naturals, Sequences, FiniteSets, Functions

CONSTANTS
  Outbound,     (* Records saved by goroutines other than the queue's worker, *)
                (* one goroutine each: sent messages, connection events.      *)
  Worker,       (* The goroutine startEventWorker starts.                     *)
  None,         (* No message.                                                *)
  Delivered,    (* Bound of the model: the kinds of event that arrive.        *)
  QueueCap,     (* Capacity of eventQueue: 2000 in the code.                  *)
  LatencyCap,   (* Capacity of receiptLatencyQueue: 500 in the code.          *)
  MaxArrivals,  (* Bound of the model: events whatsmeow delivers.             *)
  MaxCrashes    (* Bound of the model: times the process dies.                *)

ASSUME ConstantsAssumption ==
  /\ Outbound \cap Nat = {}
  /\ Worker \notin Outbound
  /\ None \notin Outbound \cup Nat
  /\ QueueCap \in Nat \ {0} /\ LatencyCap \in Nat \ {0}
  /\ MaxArrivals \in Nat /\ MaxCrashes \in Nat

VARIABLES
  arrivals,     (* History: every event whatsmeow delivered, [kind, target].  *)
  queue,        (* eventQueue: arrival numbers.                               *)
  cur,          (* The event handleAsync works on, 0 while the worker waits.  *)
  reply,        (* The command reply the worker itself sends, or None.        *)
  pc,           (* Where each goroutine that saves an event is.               *)
  sent,         (* Outbound messages the WhatsApp server accepted.            *)
  shuttingDown, (* The shuttingDown flag.                                     *)
  crashes,      (* How often the process died and was started again.          *)
  stored,       (* The events collection, oldest row first.  Durable.         *)
  probed,       (* Messages whose activity probe handler() was told of.       *)
  screened,     (* Messages given to text webhooks, mentions and auto-reply.  *)
  hooked,       (* Records handed to the default and the event webhooks.      *)
  published,    (* Records given to the SSE broker and, in a goroutine, to    *)
                (* the trigger dispatcher; in that order.                     *)
  latencyQueue, (* receiptLatencyQueue: arrival numbers of receipts.          *)
  latency,      (* receipt_latency rows: [receipt, lookup]; without a send    *)
                (* time unless the lookup found the message.                  *)
  recovering,   (* recoverAndNotify goroutines, by revoke or edit event.      *)
  notices,      (* What recoverAndNotify was answered: [event, lookup].       *)
  gone          (* History: arrivals that left memory, [event, how].          *)

outside == <<arrivals, sent, probed, crashes>>
worker  == <<queue, cur, reply>>
output  == <<screened, hooked, stored, published>>
timing  == <<latencyQueue, latency>>
notify  == <<recovering, notices>>
vars    == <<outside, worker, pc, shuttingDown, output, timing, notify, gone>>

(***************************************************************************)
(* The paths of handleAsync.                                               *)
(*   plain    a message saved as it is: text, location, group edit, ...    *)
(*   vote     an encrypted poll vote or reaction: decrypting it may fail   *)
(*   media    downloaded and saved with its file, or else saved as plain   *)
(*   command  an own "/cmd", "/setSecrete", ...: answered, never saved     *)
(*   revoke   deletes or edits its target: saved, then maybe recovered     *)
(*   receipt  delivered or read, for its target: saved, then timed         *)
(*   notice   no message: presence, group info, other known receipts, ...  *)
(*   sync     history or app state: a file or a presence send may fail     *)
(*   ignored  receipts of an unknown type, app state of another name       *)
(***************************************************************************)
Messages == {"plain", "vote", "media", "command", "revoke"}
Fallible == {"vote", "sync"}
Kinds    == Messages \cup {"receipt", "notice", "sync", "ignored"}

ASSUME DeliveredAssumption == Delivered \subseteq Kinds

Threads == Outbound \cup {Worker}
Inbound == 1 .. MaxArrivals
Ids == 1 .. Len(arrivals)

Kind(i)   == arrivals[i].kind
Target(i) == arrivals[i].target

(* The record goroutine t is saving.                                       *)
Item(t) == IF t # Worker THEN t ELSE IF reply # None THEN reply ELSE cur

Saving == {"check", "save", "checkFile", "saveFile"}

(* How an arrival leaves the memory of the process.                        *)
Endings == {"dropped", "lost", "stored", "unsaved", "answered", "rejected", "ignored"}

Init ==
  /\ arrivals = <<>> /\ queue = <<>> /\ cur = 0 /\ reply = None
  /\ pc = [t \in Threads |-> "idle"]
  /\ sent = {} /\ shuttingDown = FALSE /\ crashes = 0
  /\ stored = <<>> /\ latency = {}
  /\ probed = {} /\ screened = {} /\ hooked = {} /\ published = <<>>
  /\ latencyQueue = <<>> /\ recovering = {} /\ notices = {} /\ gone = {}

(***************************************************************************)
(* whatsmeow calls handler().                                              *)
(***************************************************************************)

(* What an event of kind k may point at: a message that was sent, or, when *)
(* it is a revoke, another inbound one, even one that is yet to arrive.    *)
Targets(k) == CASE k = "revoke"  -> (Inbound \ {Len(arrivals) + 1}) \cup sent
                [] k = "receipt" -> sent
                [] k \in {"notice", "ignored"} -> sent \cup {None}
                [] OTHER         -> {None}

(* Mutant: the send blocks no more, whatever the queue holds.              *)
EnqueueUnbounded(i) == queue' = Append(queue, i) /\ UNCHANGED gone

(* Mutant: a full queue makes room by forgetting its oldest event.         *)
EnqueueEvicting(i) ==
  /\ queue' = Append(IF Len(queue) < QueueCap THEN queue ELSE Tail(queue), i)
  /\ UNCHANGED gone

(* The send to eventQueue has a default branch: a full queue drops.        *)
Enqueue(i) ==
  IF Len(queue) < QueueCap
  THEN queue' = Append(queue, i) /\ UNCHANGED gone
  ELSE gone' = gone \cup {[event |-> i, how |-> "dropped"]} /\ UNCHANGED queue

(* Mutant: handler(), not the worker, starts the recovery of a revoke.     *)
ArriveAndRecover(k) ==
  /\ Len(arrivals) < MaxArrivals
  /\ \E x \in Targets(k) : arrivals' = Append(arrivals, [kind |-> k, target |-> x])
  /\ recovering' = recovering \cup (IF k = "revoke" THEN {Len(arrivals) + 1} ELSE {})
  /\ Enqueue(Len(arrivals) + 1)
  /\ UNCHANGED <<cur, reply, pc, sent, probed, crashes, shuttingDown, output, timing, notices>>

(* Receipts signal their activity probe before the queue is tried.         *)
Arrive(k) ==
  /\ Len(arrivals) < MaxArrivals
  /\ \E x \in Targets(k) :
       /\ arrivals' = Append(arrivals, [kind |-> k, target |-> x])
       /\ probed' = IF k = "revoke" THEN probed ELSE probed \cup ({x} \ {None})
  /\ Enqueue(Len(arrivals) + 1)
  /\ UNCHANGED <<cur, reply, pc, sent, crashes, shuttingDown, output, timing, notify>>

(***************************************************************************)
(* Saving.  saveEvent and saveEventFile, run by any goroutine: look at     *)
(* shuttingDown, call the webhooks, save the row, publish it.  saveError   *)
(* rows are not modelled: nothing in the pipeline reads them.              *)
(***************************************************************************)

(* handleAsync returns; a receipt is first offered to receiptLatencyQueue  *)
(* and a revoke, if recovery is enabled, gets its goroutine.               *)
WorkerDone(how) ==
  /\ cur' = 0
  /\ gone' = gone \cup {[event |-> cur, how |-> how]}
  /\ latencyQueue' = IF Kind(cur) = "receipt" /\ Len(latencyQueue) < LatencyCap
                     THEN Append(latencyQueue, cur)
                     ELSE latencyQueue
  /\ \/ Kind(cur) = "revoke" /\ recovering' = recovering \cup {cur}
     \/ UNCHANGED recovering

(* The save returned to its caller.  Once the reply to a command is saved  *)
(* or lost, the worker is done with the command, which has no row.         *)
Return(t, how) ==
  IF t = Worker
  THEN /\ pc' = [pc EXCEPT ![t] = "idle"]
       /\ reply' = None
       /\ WorkerDone(IF reply = None THEN how ELSE "answered")
  ELSE /\ pc' = [pc EXCEPT ![t] = "done"]
       /\ UNCHANGED <<cur, reply, gone, latencyQueue, recovering>>

Goto(t, label) ==
  /\ pc' = [pc EXCEPT ![t] = label]
  /\ UNCHANGED <<cur, reply, gone, latencyQueue, recovering>>

untouched == <<outside, queue, shuttingDown, latency, notices>>

CheckShutdown(t) ==
  /\ pc[t] \in {"check", "checkFile"}
  /\ IF shuttingDown
     THEN Return(t, "unsaved") /\ UNCHANGED hooked
     ELSE /\ Goto(t, IF pc[t] = "check" THEN "save" ELSE "saveFile")
          /\ hooked' = hooked \cup {Item(t)}
  /\ UNCHANGED <<untouched, screened, stored, published>>

(* Mutant: once the server shuts down a saved row is not published.        *)
SaveRowSilently(t) ==
  /\ pc[t] \in {"save", "saveFile"}
  /\ stored' = Append(stored, Item(t))
  /\ IF shuttingDown THEN Return(t, "stored") ELSE Goto(t, "publish")
  /\ UNCHANGED <<untouched, screened, hooked, published>>

SaveRow(t) ==
  /\ pc[t] \in {"save", "saveFile"}
  /\ stored' = Append(stored, Item(t))
  /\ Goto(t, "publish")
  /\ UNCHANGED <<untouched, screened, hooked, published>>

(* After a failed file save handleAsync falls through to the plain save,   *)
(* unless shuttingDown made the failure look like a success.               *)
SaveFails(t) ==
  /\ pc[t] \in Saving
  /\ IF pc[t] \in {"checkFile", "saveFile"} /\ ~shuttingDown
     THEN Goto(t, "check")
     ELSE Return(t, "unsaved")
  /\ UNCHANGED <<untouched, output>>

(* Mutant: no return between the file save and the plain save of a media   *)
(* message.                                                                *)
PublishFallsThrough(t) ==
  /\ pc[t] = "publish"
  /\ published' = Append(published, Item(t))
  /\ IF t = Worker /\ Kind(cur) = "media" THEN Goto(t, "check") ELSE Return(t, "stored")
  /\ UNCHANGED <<untouched, screened, hooked, stored>>

Publish(t) ==
  /\ pc[t] = "publish"
  /\ published' = Append(published, Item(t))
  /\ Return(t, "stored")
  /\ UNCHANGED <<untouched, screened, hooked, stored>>

(***************************************************************************)
(* The worker: handleAsync up to the point where it saves.                 *)
(***************************************************************************)

(* Messages pass text webhooks, mention detection and auto-reply first.    *)
Take ==
  /\ pc[Worker] = "idle" /\ queue # <<>>
  /\ cur' = Head(queue) /\ queue' = Tail(queue)
  /\ pc' = [pc EXCEPT ![Worker] = "handle"]
  /\ screened' = IF Kind(cur') \in Messages THEN screened \cup {cur'} ELSE screened
  /\ UNCHANGED <<outside, reply, shuttingDown, hooked, stored, published, timing, notify, gone>>

Handling(kinds) ==
  /\ pc[Worker] = "handle" /\ Kind(cur) \in kinds
  /\ UNCHANGED <<untouched, output>>

HandleSave ==
  /\ Handling({"plain", "revoke", "receipt", "notice"} \cup Fallible)
  /\ Goto(Worker, "check")

(* Mutant: a failure to decrypt ends the loop of the worker.               *)
HandleRejectEndsWorker ==
  /\ Handling(Fallible)
  /\ pc' = [pc EXCEPT ![Worker] = "done"]
  /\ UNCHANGED <<cur, reply, gone, latencyQueue, recovering>>

HandleReject ==
  /\ Handling(Fallible)
  /\ Return(Worker, "rejected")

HandleIgnored ==
  /\ Handling({"ignored"})
  /\ Return(Worker, "ignored")

(* A failed download leaves the plain save.                                *)
Download ==
  /\ Handling({"media"})
  /\ Goto(Worker, "checkFile") \/ Goto(Worker, "check")

(* The worker sends the answer itself and saves it as a SentMessage.       *)
Answer ==
  /\ pc[Worker] = "handle" /\ Kind(cur) = "command"
  /\ \E o \in Outbound :
       /\ pc[o] = "idle"
       /\ pc' = [pc EXCEPT ![Worker] = "check", ![o] = "done"]
       /\ reply' = o
       /\ sent' = sent \cup {o}
  /\ UNCHANGED <<arrivals, probed, crashes, queue, cur, shuttingDown, output, timing, notify, gone>>

AnswerFails ==
  /\ Handling({"command"})
  /\ Return(Worker, "answered")

(***************************************************************************)
(* The other goroutines.                                                   *)
(***************************************************************************)

(* An HTTP send, or a connection event with its presence message.  It is   *)
(* saved, or fails; a send that failed here may yet have reached the       *)
(* server.                                                                 *)
SendOutside(o) ==
  /\ pc[o] = "idle"
  /\ \E end \in {"check", "done"} : pc' = [pc EXCEPT ![o] = end]
  /\ sent' \in {sent, sent \cup {o}}
  /\ UNCHANGED <<arrivals, probed, crashes, worker, shuttingDown, output, timing, notify, gone>>

(* A query of the events collection for a message.  Neither caller tells   *)
(* an error from a result without rows; the model keeps which it was.      *)
Lookup(x) == {"failed"} \cup (IF x \in Range(stored) THEN {"found"} ELSE {"missing"})

(* Mutant: the sent message is looked for in the feed, not the collection. *)
RecordLatencyFromFeed ==
  /\ latencyQueue # <<>>
  /\ latencyQueue' = Tail(latencyQueue)
  /\ LET r == Head(latencyQueue)
         lookup == IF Target(r) \in Range(published) THEN "found" ELSE "missing"
     IN latency' \in {latency, latency \cup {[receipt |-> r, lookup |-> lookup]}}
  /\ UNCHANGED <<outside, worker, pc, shuttingDown, output, notify, gone>>

(* recordReceiptLatency looks the sent message up and saves a row with its *)
(* send time or, after a miss or an error, without; or the save fails.     *)
RecordLatency ==
  /\ latencyQueue # <<>>
  /\ latencyQueue' = Tail(latencyQueue)
  /\ LET r == Head(latencyQueue)
     IN \E lookup \in Lookup(Target(r)) :
          latency' \in {latency, latency \cup {[receipt |-> r, lookup |-> lookup]}}
  /\ UNCHANGED <<outside, worker, pc, shuttingDown, output, notify, gone>>

(* recoverAndNotify looks the target up and returns after a miss or an     *)
(* error.  A target that is found is the subject of a notice, which is     *)
(* saved like any sent message; or the send fails.                         *)
Recover(e) ==
  /\ e \in recovering
  /\ recovering' = recovering \ {e}
  /\ \E lookup \in Lookup(Target(e)) :
        /\ notices' = notices \cup {[event |-> e, lookup |-> lookup]}
        /\ \/ UNCHANGED <<pc, sent>>
           \/ /\ lookup = "found"
              /\ \E o \in Outbound :
                   /\ pc[o] = "idle"
                   /\ pc' = [pc EXCEPT ![o] = "check"]
                   /\ sent' = sent \cup {o}
  /\ UNCHANGED <<arrivals, probed, crashes, worker, shuttingDown, output, timing, gone>>

SetShuttingDown ==
  /\ ~shuttingDown
  /\ shuttingDown' = TRUE
  /\ UNCHANGED <<outside, worker, pc, output, timing, notify, gone>>

(* The process ends, orderly or not, and is started again: what was only   *)
(* in memory is gone, the collections are not.                             *)
Restart ==
  /\ crashes < MaxCrashes
  /\ crashes' = crashes + 1
  /\ gone' = gone \cup {[event |-> i, how |-> "lost"] : i \in Range(queue) \cup ({cur} \ {0})}
  /\ queue' = <<>> /\ cur' = 0 /\ reply' = None
  /\ pc' = [t \in Threads |-> IF t = Worker \/ pc[t] = "idle" THEN "idle" ELSE "done"]
  /\ shuttingDown' = FALSE
  /\ latencyQueue' = <<>> /\ recovering' = {}
  /\ UNCHANGED <<arrivals, sent, probed, output, latency, notices>>

(***************************************************************************)
(* The specification.                                                      *)
(***************************************************************************)

Save(t) == CheckShutdown(t) \/ SaveRow(t) \/ SaveFails(t) \/ Publish(t)

HandleAsync ==
  \/ HandleSave \/ HandleReject \/ HandleIgnored
  \/ Download \/ Answer \/ AnswerFails

Next ==
  \/ \E k \in Delivered : Arrive(k)
  \/ Take
  \/ HandleAsync
  \/ \E t \in Threads : Save(t)
  \/ \E o \in Outbound : SendOutside(o)
  \/ \E e \in recovering : Recover(e)
  \/ RecordLatency
  \/ SetShuttingDown
  \/ Restart

(* Every goroutine that is running keeps running; nobody has to deliver,   *)
(* send, shut down or crash.                                               *)
Fairness ==
  /\ WF_vars(Take) /\ WF_vars(HandleAsync)
  /\ \A t \in Threads : WF_vars(Save(t))
  /\ WF_vars(RecordLatency)
  /\ \A e \in Inbound : WF_vars(Recover(e))

Spec == Init /\ [][Next]_vars

FairSpec == Spec /\ Fairness

(***************************************************************************)
(* Properties.                                                             *)
(***************************************************************************)

(* The type invariant: what each variable may hold, and the capacities of  *)
(* the two channels.                                                       *)
TypeQueues ==
  /\ arrivals \in Seq([kind : Kinds, target : Inbound \cup Outbound \cup {None}])
  /\ Len(arrivals) <= MaxArrivals
  /\ queue \in Seq(Inbound) /\ Len(queue) <= QueueCap
  /\ latencyQueue \in Seq(Inbound) /\ Len(latencyQueue) <= LatencyCap
  /\ cur \in Inbound \cup {0}
  /\ crashes \in 0 .. MaxCrashes

TypeThreads ==
  /\ pc \in [Threads -> Saving \cup {"idle", "handle", "publish", "done"}]
  /\ reply \in Outbound \cup {None}
  /\ shuttingDown \in BOOLEAN

TypeRecords ==
  /\ stored \in Seq(Inbound \cup Outbound) /\ published \in Seq(Inbound \cup Outbound)
  /\ hooked \subseteq Inbound \cup Outbound
  /\ probed \subseteq Inbound \cup Outbound
  /\ sent \subseteq Outbound
  /\ screened \subseteq Inbound /\ recovering \subseteq Inbound

Lookups == {"found", "missing", "failed"}

TypeHistories ==
  /\ latency \subseteq [receipt : Inbound, lookup : Lookups]
  /\ notices \subseteq [event : Inbound, lookup : Lookups]
  /\ gone \subseteq [event : Inbound, how : Endings]

TypeOK == TypeQueues /\ TypeThreads /\ TypeRecords /\ TypeHistories

(* What is true of an event that left memory as g says.                    *)
LeftAsRecorded(g) ==
  IF g.how = "stored"
  THEN /\ g.event \in Range(stored) \cap Range(published) \cap hooked
       /\ Kind(g.event) \in Messages => g.event \in screened
  ELSE g.event \in Range(stored) => g.how = "lost"

(* Nothing is handled twice and nothing vanishes: at every moment a        *)
(* delivered event waits in the queue, once, or is the one the worker      *)
(* handles, or left memory in exactly one recorded way.  What left as      *)
(* stored has been through it all: webhooks, row, feed, and a message      *)
(* through mentions and auto-reply; what left otherwise has no row, unless *)
(* the process died.                                                       *)
EachArrivalOnce ==
  /\ \A i \in Ids :
       LET waiting == {n \in DOMAIN queue : queue[n] = i}
           left    == {g \in gone : g.event = i}
       IN Cardinality(waiting) + Cardinality(left) + (IF cur = i THEN 1 ELSE 0) = 1
  /\ \A g \in gone : LeftAsRecorded(g)

(* When recoverAndNotify is answered that there is no row of an original   *)
(* that arrived before the revoke, no later save can produce one: the      *)
(* worker handles the revoke after the original, so the original is        *)
(* already stored, or lost for good.  Not so after a failed query, which   *)
(* the code takes for the same answer, nor for an original that arrives    *)
(* late or a message this server sent, whose row another goroutine saves.  *)
RecoveryLookupIsFinal ==
  \A n \in notices :
    n.lookup = "missing" /\ Target(n.event) \in 1 .. (n.event - 1) =>
      Target(n.event) \notin Range(stored)

(* A latency row lacks its send time only if the receipt overtook the      *)
(* sent message's own row in the events collection, or the query failed,   *)
(* whose error the code drops.                                             *)
LatencyKnowsEarlierRows ==
  \A row \in latency :
    \A m, n \in DOMAIN stored :
      (m < n /\ stored[m] = Target(row.receipt) /\ stored[n] = row.receipt) =>
        row.lookup # "missing"

(* The inductive invariant behind the log: the queue is ahead of the event *)
(* being handled, that is ahead of every inbound row, and no goroutine is  *)
(* about to save a record that already has a row.                          *)
QueueAhead ==
  /\ \A m, n \in DOMAIN queue : m < n => queue[m] < queue[n]
  /\ \A n \in DOMAIN queue : cur < queue[n] /\ queue[n] <= Len(arrivals)
  /\ cur <= Len(arrivals)

RowsBehind ==
  \A x \in Range(stored) \cap Inbound :
    /\ x <= Len(arrivals)
    /\ \A n \in DOMAIN queue : x < queue[n]
    /\ cur # 0 => x <= cur
    /\ x = cur => pc[Worker] = "publish" /\ reply = None

ThreadShape ==
  /\ cur = 0 <=> pc[Worker] = "idle"
  /\ pc[Worker] # "done"
  /\ reply # None => pc[Worker] \in {"check", "save", "publish"} /\ pc[reply] = "done"
  /\ \A o \in Outbound : pc[o] \in {"idle", "check", "save", "publish", "done"}

OneRow ==
  /\ Range(published) \subseteq Range(stored)
  /\ \A o \in Outbound : pc[o] = "idle" => o \notin Range(stored)
  /\ \A t \in Threads :
       /\ pc[t] \in Saving => Item(t) \notin Range(stored)
       /\ pc[t] = "publish" => Item(t) \in Range(stored) \ Range(published)

LogInv == QueueAhead /\ RowsBehind /\ ThreadShape /\ OneRow

(* Events somebody still looks a message up for, or did: the worker is     *)
(* done with them, whether their own row was saved or not.                 *)
Past ==
  recovering \cup {n.event : n \in notices}
    \cup Range(latencyQueue) \cup {row.receipt : row \in latency}

(* The inductive invariant behind the lookups: a past event is older than  *)
(* all the worker has not finished.                                        *)
PastInv ==
  \A e \in Past :
    /\ e <= Len(arrivals)
    /\ \A n \in DOMAIN queue : e < queue[n]
    /\ cur # 0 => e < cur

(* The inductive invariant behind EachArrivalOnce: an arrival is in one    *)
(* place, and the event in hand has passed what its stage says.            *)
PlaceInv ==
  /\ Ids \subseteq Range(queue) \cup {cur} \cup {g.event : g \in gone}
  /\ \A g \in gone : g.event \in Ids \ (Range(queue) \cup {cur})
  /\ \A g, h \in gone : g.event = h.event => g = h

PassedInv ==
  /\ pc[Worker] \in {"save", "saveFile", "publish"} /\ reply = None => cur \in hooked
  /\ cur # 0 /\ Kind(cur) \in Messages => cur \in screened

(* The collection and the feed are a log of the arrivals: one row each, in *)
(* arrival order, published only once it is stored and in the same order.  *)
Log == INSTANCE EventLog WITH stored <- stored, published <- published
ImplementsEventLog == Log!Spec

(* A queued event leaves the queue and is dealt with, or dies with the     *)
(* process: the worker never stops, whatever fails while it handles one.   *)
QueuedIsHandled ==
  \A i \in Inbound : (i \in Range(queue)) ~> (\E g \in gone : g.event = i)

(* A record with a row reaches the feed and the trigger dispatcher, unless *)
(* the process died: a row saved just before that is never published.      *)
SavedIsPublished ==
  \A x \in Outbound \cup Inbound :
    (x \in Range(stored)) ~> (x \in Range(published) \/ crashes > 0)
=============================================================================
