------------------------ MODULE EventPipelineProofs ------------------------
(***************************************************************************)
(* Theorems about EventPipeline, for any queue sizes, any number of        *)
(* events, any number of restarts and any set of outbound records.         *)
(***************************************************************************)
EXTENDS EventPipeline, FiniteSetTheorems, TLAPS

Typed == TypeOK /\ ThreadShape

(* A goroutine that saves has something to save.                           *)
LEMMA ItemType ==
  ASSUME Typed, NEW t \in Threads, pc[t] # "idle"
  PROVE  Item(t) \in Inbound \cup Outbound
<1> USE DEF Typed, TypeOK, TypeQueues, TypeThreads, ThreadShape, Threads, Item
<1>1. CASE t # Worker
  BY <1>1
<1>2. CASE t = Worker /\ reply # None
  BY <1>2
<1>3. CASE t = Worker /\ reply = None
  BY <1>3
<1> QED BY <1>1, <1>2, <1>3

(* Moving on to another label keeps every goroutine's shape.               *)
LEMMA GotoType ==
  ASSUME Typed, NEW t \in Threads, pc[t] # "idle", pc[t] # "done",
         NEW label \in Saving \cup {"publish"},
         (t = Worker /\ reply = None) \/ label \in {"check", "save", "publish"},
         Goto(t, label), UNCHANGED shuttingDown
  PROVE  TypeThreads' /\ ThreadShape' /\ UNCHANGED <<cur, reply, gone, latencyQueue, recovering>>
<1> USE ConstantsAssumption DEF ConstantsAssumption, Typed, TypeOK, TypeThreads, Goto, Threads, Saving
<1>1. TypeThreads'
  OBVIOUS
<1>2. ThreadShape'
  BY DEF ThreadShape
<1> QED BY <1>1, <1>2

(* Returning from a save, the worker forgets its event and its reply.      *)
LEMMA ReturnType ==
  ASSUME Typed, NEW t \in Threads, pc[t] # "idle", pc[t] # "done", NEW how \in Endings,
         Return(t, how), UNCHANGED shuttingDown
  PROVE  /\ TypeThreads' /\ ThreadShape'
         /\ cur' \in Inbound \cup {0} /\ recovering' \subseteq Inbound
         /\ latencyQueue' \in Seq(Inbound) /\ Len(latencyQueue') <= LatencyCap
         /\ gone' \subseteq [event : Inbound, how : Endings]
<1> USE ConstantsAssumption DEF ConstantsAssumption, Typed, TypeOK
<1>1. CASE t # Worker
  <2>1. pc' = [pc EXCEPT ![t] = "done"] /\ UNCHANGED <<cur, reply, gone, latencyQueue, recovering>>
    BY <1>1 DEF Return
  <2>2. TypeThreads'
    BY <2>1 DEF TypeThreads
  <2>3. ThreadShape'
    BY <1>1, <2>1 DEF ThreadShape, TypeThreads, Threads, Saving
  <2> QED BY <2>1, <2>2, <2>3 DEF TypeQueues, TypeRecords, TypeHistories, Endings
<1>2. CASE t = Worker
  <2>1. pc' = [pc EXCEPT ![t] = "idle"] /\ reply' = None
        /\ WorkerDone(IF reply = None THEN how ELSE "answered")
    BY <1>2 DEF Return
  <2>2. cur \in Inbound
    BY <1>2 DEF TypeQueues, ThreadShape
  <2>3. TypeThreads'
    BY <2>1 DEF TypeThreads, Threads
  <2>4. cur' = 0
    BY <2>1 DEF WorkerDone
  <2>5. ThreadShape'
    BY <1>2, <2>1, <2>4 DEF ThreadShape, TypeThreads, Threads, Saving
  <2>6. recovering' \subseteq Inbound
    BY <2>1, <2>2 DEF WorkerDone, TypeRecords
  <2>7. gone' \subseteq [event : Inbound, how : Endings]
    BY <2>1, <2>2 DEF WorkerDone, TypeHistories, Endings
  <2>8. latencyQueue' \in Seq(Inbound) /\ Len(latencyQueue') <= LatencyCap
    <3>1. CASE Kind(cur) = "receipt" /\ Len(latencyQueue) < LatencyCap
      <4>1. latencyQueue' = Append(latencyQueue, cur)
        BY <3>1, <2>1 DEF WorkerDone
      <4> QED BY <4>1, <2>2, <3>1 DEF TypeQueues
    <3>2. CASE ~(Kind(cur) = "receipt" /\ Len(latencyQueue) < LatencyCap)
      BY <3>2, <2>1 DEF WorkerDone, TypeQueues
    <3> QED BY <3>1, <3>2
  <2> QED BY <2>3, <2>4, <2>5, <2>6, <2>7, <2>8
<1> QED BY <1>1, <1>2

-----------------------------------------------------------------------------
(* The type invariant, with the shape of the goroutines it needs.          *)
LEMMA InitTyped == Init => Typed
<1> SUFFICES ASSUME Init PROVE Typed
  OBVIOUS
<1> USE ConstantsAssumption DEF ConstantsAssumption, Init, Inbound, Threads
<1>1. TypeQueues
  BY DEF TypeQueues
<1>2. pc \in [Threads -> Saving \cup {"idle", "handle", "publish", "done"}]
  OBVIOUS
<1>3. TypeThreads
  BY <1>2, Zenon DEF TypeThreads
<1>4. TypeRecords
  BY DEF TypeRecords
<1>5. TypeHistories
  BY Zenon DEF TypeHistories
<1>6. ThreadShape
  BY DEF ThreadShape
<1> QED BY <1>1, <1>3, <1>4, <1>5, <1>6 DEF Typed, TypeOK

LEMMA ArriveTyped == ASSUME Typed, NEW k \in Delivered, Arrive(k) PROVE Typed'
<1> USE ConstantsAssumption DEF ConstantsAssumption, Typed, TypeOK
<1>1. PICK x \in Targets(k) :
        /\ arrivals' = Append(arrivals, [kind |-> k, target |-> x])
        /\ probed' = IF k = "revoke" THEN probed ELSE probed \cup ({x} \ {None})
  BY DEF Arrive
<1>2. x \in Inbound \cup Outbound \cup {None}
  BY DEF Targets, Ids, Inbound, TypeQueues, TypeRecords
<1>3. k \in Kinds
  BY DeliveredAssumption DEF DeliveredAssumption
<1>4. Len(arrivals) < MaxArrivals /\ Enqueue(Len(arrivals) + 1)
      /\ UNCHANGED <<cur, reply, pc, sent, crashes, shuttingDown, screened, hooked, stored,
                     published, latencyQueue, latency, recovering, notices>>
  BY DEF Arrive, output, timing, notify
<1>5. Len(arrivals) + 1 \in Inbound
  BY <1>4 DEF TypeQueues, Inbound
<1>6. queue' \in Seq(Inbound) /\ Len(queue') <= QueueCap
  <2>1. CASE Len(queue) < QueueCap
    <3>1. queue' = Append(queue, Len(arrivals) + 1)
      BY <1>4, <2>1 DEF Enqueue
    <3> QED BY <3>1, <1>5, <2>1 DEF TypeQueues
  <2>2. CASE ~(Len(queue) < QueueCap)
    BY <1>4, <2>2 DEF Enqueue, TypeQueues
  <2> QED BY <2>1, <2>2
<1>7. TypeQueues'
  BY <1>1, <1>2, <1>3, <1>4, <1>6 DEF TypeQueues
<1>8. TypeThreads' /\ ThreadShape'
  BY <1>4 DEF TypeThreads, ThreadShape
<1>9. TypeRecords'
  BY <1>1, <1>2, <1>4 DEF TypeRecords
<1>10. TypeHistories'
  BY <1>4, <1>5 DEF TypeHistories, Endings, Enqueue
<1> QED BY <1>7, <1>8, <1>9, <1>10

LEMMA TakeTyped == ASSUME Typed, Take PROVE Typed'
<1> USE ConstantsAssumption DEF ConstantsAssumption, Typed, TypeOK, Take
<1>1. TypeQueues'
  BY DEF TypeQueues, outside, timing
<1>2. TypeThreads'
  BY DEF TypeThreads, Threads
<1>3. TypeRecords'
  BY DEF TypeQueues, TypeRecords, outside, notify
<1>4. TypeHistories'
  BY DEF TypeHistories, timing, notify
<1>5. ThreadShape'
  <2>1. cur' \in Inbound
    BY DEF TypeQueues
  <2>2. cur' # 0
    BY <2>1 DEF Inbound
  <2> QED BY <2>2 DEF ThreadShape, TypeThreads, Threads
<1> QED BY <1>1, <1>2, <1>3, <1>4, <1>5

(* The steps of saveEvent and of handleAsync before it end in Goto or in   *)
(* Return and otherwise only extend hooked, stored or published.           *)
LEMMA StepTyped ==
  ASSUME Typed, NEW t \in Threads, pc[t] # "idle", pc[t] # "done",
         \/ \E how \in Endings : Return(t, how)
         \/ \E label \in Saving \cup {"publish"} :
              /\ Goto(t, label)
              /\ (t = Worker /\ reply = None) \/ label \in {"check", "save", "publish"},
         hooked' \in {hooked, hooked \cup {Item(t)}},
         stored' \in {stored, Append(stored, Item(t))},
         published' \in {published, Append(published, Item(t))},
         UNCHANGED <<untouched, screened>>
  PROVE  Typed'
<1> USE DEF Typed, TypeOK
<1>1. UNCHANGED <<arrivals, sent, probed, crashes, queue, shuttingDown, latency, notices, screened>>
  BY DEF untouched, outside
<1>2. /\ TypeThreads' /\ ThreadShape'
      /\ cur' \in Inbound \cup {0} /\ recovering' \subseteq Inbound
      /\ latencyQueue' \in Seq(Inbound) /\ Len(latencyQueue') <= LatencyCap
      /\ gone' \subseteq [event : Inbound, how : Endings]
  <2>1. CASE \E how \in Endings : Return(t, how)
    BY <2>1, <1>1, ReturnType
  <2>2. CASE \E label \in Saving \cup {"publish"} :
                 /\ Goto(t, label)
                 /\ (t = Worker /\ reply = None) \/ label \in {"check", "save", "publish"}
    <3>1. PICK label \in Saving \cup {"publish"} :
            /\ Goto(t, label)
            /\ (t = Worker /\ reply = None) \/ label \in {"check", "save", "publish"}
      BY <2>2
    <3>2. TypeThreads' /\ ThreadShape' /\ UNCHANGED <<cur, reply, gone, latencyQueue, recovering>>
      BY <3>1, <1>1, GotoType
    <3> QED BY <3>2 DEF TypeQueues, TypeRecords, TypeHistories, Endings
  <2> QED BY <2>1, <2>2
<1>3. Item(t) \in Inbound \cup Outbound
  BY ItemType
<1>4. TypeQueues'
  BY <1>1, <1>2 DEF TypeQueues
<1>5. TypeRecords'
  <2>1. stored' \in Seq(Inbound \cup Outbound) /\ published' \in Seq(Inbound \cup Outbound)
    <3>1. Append(stored, Item(t)) \in Seq(Inbound \cup Outbound)
      BY <1>3 DEF TypeRecords
    <3>2. Append(published, Item(t)) \in Seq(Inbound \cup Outbound)
      BY <1>3 DEF TypeRecords
    <3> QED BY <3>1, <3>2 DEF TypeRecords
  <2>2. hooked' \subseteq Inbound \cup Outbound
    BY <1>3 DEF TypeRecords
  <2> QED BY <1>1, <1>2, <2>1, <2>2 DEF TypeRecords
<1>6. TypeHistories'
  BY <1>1, <1>2 DEF TypeHistories, Endings
<1> QED BY <1>2, <1>4, <1>5, <1>6

LEMMA SaveTyped == ASSUME Typed, NEW t \in Threads, Save(t) PROVE Typed'
<1> USE DEF Saving, Endings
<1>1. CASE CheckShutdown(t)
  <2> USE <1>1 DEF CheckShutdown
  <2>1. CASE shuttingDown
    BY <2>1, StepTyped
  <2>2. CASE ~shuttingDown
    <3>1. pc[t] = "checkFile" => t = Worker /\ reply = None
      BY DEF Typed, ThreadShape, Threads
    <3>2. PICK label \in {"save", "saveFile"} :
            Goto(t, label) /\ (label = "saveFile" => pc[t] = "checkFile")
      BY <2>2
    <3> QED BY <2>2, <3>1, <3>2, StepTyped
  <2> QED BY <2>1, <2>2
<1>2. CASE SaveRow(t)
  BY <1>2, StepTyped DEF SaveRow
<1>3. CASE SaveFails(t)
  BY <1>3, StepTyped DEF SaveFails, output
<1>4. CASE Publish(t)
  BY <1>4, StepTyped DEF Publish
<1> QED BY <1>1, <1>2, <1>3, <1>4 DEF Save

LEMMA AnswerTyped == ASSUME Typed, Answer PROVE Typed'
<1> USE ConstantsAssumption DEF ConstantsAssumption, Typed, TypeOK
<1>1. PICK o \in Outbound :
        /\ pc[o] = "idle"
        /\ pc' = [pc EXCEPT ![Worker] = "check", ![o] = "done"]
        /\ reply' = o
        /\ sent' = sent \cup {o}
  BY DEF Answer
<1>2. UNCHANGED <<arrivals, probed, crashes, queue, cur, shuttingDown, output, timing, notify, gone>>
  BY DEF Answer
<1>3. TypeQueues'
  BY <1>2 DEF TypeQueues, timing
<1>4. TypeThreads'
  BY <1>1, <1>2 DEF TypeThreads, Saving, Threads
<1>5. TypeRecords'
  BY <1>1, <1>2 DEF TypeRecords, output, notify
<1>6. TypeHistories'
  BY <1>2 DEF TypeHistories, timing, notify
<1>7. ThreadShape'
  BY <1>1, <1>2 DEF Answer, ThreadShape, TypeThreads, Threads
<1> QED BY <1>3, <1>4, <1>5, <1>6, <1>7

LEMMA HandleTyped == ASSUME Typed, HandleAsync PROVE Typed'
<1>1. CASE Answer
  BY <1>1, AnswerTyped
<1>2. CASE HandleSave \/ HandleReject \/ HandleIgnored \/ Download \/ AnswerFails
  <2>1. pc[Worker] = "handle" /\ UNCHANGED <<untouched, output>> /\ reply = None
    BY <1>2 DEF HandleSave, HandleReject, HandleIgnored, Download, AnswerFails, Handling,
                Typed, ThreadShape
  <2>2. \/ \E how \in Endings : Return(Worker, how)
        \/ \E label \in Saving \cup {"publish"} : Goto(Worker, label)
    BY <1>2 DEF HandleSave, HandleReject, HandleIgnored, Download, AnswerFails, Endings, Saving
  <2> QED BY <2>1, <2>2, StepTyped DEF Threads, output
<1> QED BY <1>1, <1>2 DEF HandleAsync

LEMMA SendOutsideTyped == ASSUME Typed, NEW o \in Outbound, SendOutside(o) PROVE Typed'
<1> USE ConstantsAssumption DEF ConstantsAssumption, Typed, TypeOK, SendOutside
<1>1. TypeQueues'
  BY DEF TypeQueues, worker, timing
<1>2. TypeThreads'
  BY DEF TypeThreads, worker, Threads, Saving
<1>3. TypeRecords'
  BY DEF TypeRecords, output, notify
<1>4. TypeHistories'
  BY DEF TypeHistories, timing, notify
<1>5. ThreadShape'
  BY DEF ThreadShape, TypeThreads, worker, Threads
<1> QED BY <1>1, <1>2, <1>3, <1>4, <1>5

(* The answers to a query.                                                 *)
LEMMA LookupType == \A x : Lookup(x) \subseteq Lookups
BY DEF Lookup, Lookups

LEMMA RecordLatencyTyped == ASSUME Typed, RecordLatency PROVE Typed'
<1> USE ConstantsAssumption DEF ConstantsAssumption, Typed, TypeOK, RecordLatency
<1>1. TypeQueues'
  BY DEF TypeQueues, outside, worker
<1>2. TypeThreads' /\ ThreadShape'
  BY DEF TypeThreads, ThreadShape, worker
<1>3. TypeRecords'
  BY DEF TypeRecords, outside, output, notify
<1>4. TypeHistories'
  <2>1. Head(latencyQueue) \in Inbound
    BY DEF TypeQueues
  <2>2. PICK lookup \in Lookup(Target(Head(latencyQueue))) :
          latency' \in {latency, latency \cup {[receipt |-> Head(latencyQueue), lookup |-> lookup]}}
    BY Zenon
  <2>3. [receipt |-> Head(latencyQueue), lookup |-> lookup] \in [receipt : Inbound, lookup : Lookups]
    BY <2>1, LookupType, Zenon
  <2>4. latency' \subseteq [receipt : Inbound, lookup : Lookups]
    BY <2>2, <2>3, Zenon DEF TypeHistories
  <2> QED BY <2>4 DEF TypeHistories, notify
<1> QED BY <1>1, <1>2, <1>3, <1>4

LEMMA RecoverTyped == ASSUME Typed, NEW e \in recovering, Recover(e) PROVE Typed'
<1> USE ConstantsAssumption DEF ConstantsAssumption, Typed, TypeOK, Recover
<1>1. TypeQueues'
  BY DEF TypeQueues, worker, timing
<1>2. TypeThreads'
  BY DEF TypeThreads, worker, Threads, Saving
<1>3. TypeRecords'
  BY DEF TypeRecords, output
<1>4. TypeHistories'
  <2>1. e \in Inbound
    BY DEF TypeRecords
  <2>2. PICK lookup \in Lookup(Target(e)) :
          notices' = notices \cup {[event |-> e, lookup |-> lookup]}
    BY Zenon
  <2>3. [event |-> e, lookup |-> lookup] \in [event : Inbound, lookup : Lookups]
    BY <2>1, LookupType, Zenon
  <2>4. notices' \subseteq [event : Inbound, lookup : Lookups]
    BY <2>2, <2>3, Zenon DEF TypeHistories
  <2> QED BY <2>4 DEF TypeHistories, timing
<1>5. ThreadShape'
  BY DEF ThreadShape, TypeThreads, worker, Threads
<1> QED BY <1>1, <1>2, <1>3, <1>4, <1>5

LEMMA RestartTyped == ASSUME Typed, Restart PROVE Typed'
<1> USE ConstantsAssumption DEF ConstantsAssumption, Typed, TypeOK, Restart
<1>1. TypeQueues'
  BY DEF TypeQueues
<1>2. pc' \in [Threads -> Saving \cup {"idle", "handle", "publish", "done"}]
  BY DEF TypeThreads
<1>3. TypeThreads'
  BY <1>2, Zenon DEF TypeThreads
<1>4. TypeRecords'
  BY DEF TypeRecords, output
<1>5. TypeHistories'
  BY DEF TypeHistories, Endings, TypeQueues, Range
<1>6. ThreadShape'
  BY DEF ThreadShape, TypeThreads, Threads
<1> QED BY <1>1, <1>3, <1>4, <1>5, <1>6

LEMMA NextTyped == Typed /\ [Next]_vars => Typed'
<1> SUFFICES ASSUME Typed, [Next]_vars PROVE Typed'
  OBVIOUS
<1>1. CASE SetShuttingDown
  <2> USE <1>1 DEF SetShuttingDown, Typed, TypeOK
  <2>1. shuttingDown' \in BOOLEAN
    OBVIOUS
  <2>2. TypeThreads'
    BY <2>1 DEF TypeThreads, worker
  <2>3. TypeQueues' /\ TypeRecords' /\ TypeHistories' /\ ThreadShape'
    BY DEF TypeQueues, TypeRecords, TypeHistories, ThreadShape, outside, worker, output,
           timing, notify
  <2> QED BY <2>2, <2>3
<1>2. CASE UNCHANGED vars
  BY <1>2 DEF vars, outside, worker, output, timing, notify, Typed, TypeOK, TypeQueues,
              TypeThreads, TypeRecords, TypeHistories, ThreadShape
<1> QED
  BY <1>1, <1>2, ArriveTyped, TakeTyped, HandleTyped, SaveTyped, SendOutsideTyped,
     RecoverTyped, RecordLatencyTyped, RestartTyped DEF Next

(* Every variable always has its type and the channels their capacity.     *)
THEOREM TypeCorrect == Spec => []TypeOK
<1>1. Typed => TypeOK
  BY DEF Typed
<1> QED BY <1>1, InitTyped, NextTyped, PTL DEF Spec

-----------------------------------------------------------------------------
(* The log.  Full is Typed with the part of the invariant about rows.      *)
Full == Typed /\ LogInv

Busy == Saving \cup {"publish"}

LEMMA AppendRange ==
  ASSUME NEW S, NEW s \in Seq(S), NEW x
  PROVE  Range(Append(s, x)) = Range(s) \cup {x}
  BY DEF Range

(* Two goroutines never save the same record.                              *)
LEMMA ItemsDiffer ==
  ASSUME Typed, NEW t \in Threads, NEW u \in Threads, t # u, pc[t] \in Busy, pc[u] \in Busy
  PROVE  Item(t) # Item(u)
<1> USE ConstantsAssumption DEF ConstantsAssumption, Typed, TypeOK, TypeThreads, ThreadShape,
        Threads, Item, Busy, Saving
<1>1. CASE t # Worker /\ u # Worker
  BY <1>1
<1>2. cur # 0 => cur \notin Outbound
  BY DEF TypeQueues, Inbound
<1>3. CASE t = Worker
  <2>1. CASE reply = None
    BY <1>2, <1>3, <2>1
  <2>2. CASE reply # None
    BY <1>3, <2>2
  <2> QED BY <2>1, <2>2
<1>4. CASE u = Worker
  <2>1. CASE reply = None
    BY <1>2, <1>4, <2>1
  <2>2. CASE reply # None
    BY <1>4, <2>2
  <2> QED BY <2>1, <2>2
<1> QED BY <1>1, <1>3, <1>4

(* The numbers in the queue.                                               *)
LEMMA QueueNumbers ==
  ASSUME Typed
  PROVE  /\ queue \in Seq(Inbound) /\ cur \in Nat
         /\ \A n \in DOMAIN queue : queue[n] \in Inbound /\ queue[n] \in Int
<1>1. queue \in Seq(Inbound) /\ cur \in Inbound \cup {0} /\ Inbound \subseteq Nat
  BY DEF Typed, TypeOK, TypeQueues, Inbound
<1>2. \A n \in DOMAIN queue : queue[n] \in Inbound
  BY <1>1
<1>3. \A x \in Inbound : x \in Int
  BY DEF Inbound
<1>4. cur \in Nat
  BY <1>1
<1> QED BY <1>1, <1>2, <1>3, <1>4

LEMMA InitFull == Init => Full
<1> SUFFICES ASSUME Init PROVE Full
  OBVIOUS
<1>1. Typed
  BY InitTyped
<1>2. LogInv
  BY <1>1 DEF Init, LogInv, QueueAhead, RowsBehind, OneRow, Typed, Range, Saving
<1> QED BY <1>1, <1>2 DEF Full

LEMMA ArriveLog == ASSUME Full, NEW k \in Delivered, Arrive(k) PROVE LogInv'
<1> USE DEF Full, LogInv
<1>1. UNCHANGED <<cur, reply, pc, stored, published>> /\ Enqueue(Len(arrivals) + 1)
      /\ Len(arrivals') = Len(arrivals) + 1 /\ Len(arrivals) \in Nat
  BY DEF Arrive, output, Typed, TypeOK, TypeQueues
<1>2. queue \in Seq(Inbound) /\ cur \in Nat /\ \A n \in DOMAIN queue : queue[n] \in Int
  BY QueueNumbers
<1>3. QueueAhead' /\ RowsBehind'
  <2>1. CASE queue' = queue
    BY <1>1, <1>2, <2>1 DEF QueueAhead, RowsBehind, Inbound
  <2>2. CASE queue' = Append(queue, Len(arrivals) + 1)
    BY <1>1, <1>2, <2>2 DEF QueueAhead, RowsBehind, Inbound
  <2> QED BY <1>1, <2>1, <2>2 DEF Enqueue
<1>4. ThreadShape' /\ OneRow'
  BY <1>1 DEF ThreadShape, OneRow, Item
<1> QED BY <1>3, <1>4

LEMMA TakeLog == ASSUME Full, Take PROVE LogInv'
<1> USE DEF Full, LogInv
<1>1. /\ queue \in Seq(Inbound) /\ queue # <<>> /\ cur' = queue[1] /\ queue' = Tail(queue)
      /\ UNCHANGED <<arrivals, reply, stored, published>>
      /\ pc' = [pc EXCEPT ![Worker] = "handle"]
  BY DEF Take, outside, Typed, TypeOK, TypeQueues
<1>2. \A n \in DOMAIN queue : queue[n] \in Int
  BY QueueNumbers
<1>3. \A n \in DOMAIN queue' : n + 1 \in DOMAIN queue /\ queue'[n] = queue[n + 1] /\ n >= 1
  BY <1>1
<1>4. QueueAhead'
  BY <1>1, <1>2, <1>3 DEF QueueAhead
<1>5. RowsBehind'
  BY <1>1, <1>2, <1>3 DEF RowsBehind, QueueAhead, Inbound
<1>6. ThreadShape'
  BY TakeTyped DEF Typed
<1>7. OneRow'
  BY <1>1, ConstantsAssumption DEF ConstantsAssumption, OneRow, Item, Threads, Saving,
     Typed, TypeOK, TypeThreads
<1> QED BY <1>4, <1>5, <1>6, <1>7

(* A step of t that leaves the log alone.                                  *)
LEMMA MoveLog ==
  ASSUME Full, NEW t \in Threads, pc[t] \notin {"idle", "done"}, pc[t] # "publish",
         \/ \E how \in Endings : Return(t, how)
         \/ \E label \in Saving : Goto(t, label),
         UNCHANGED <<arrivals, queue, stored, published>>, Typed'
  PROVE  LogInv'
<1> USE ConstantsAssumption DEF ConstantsAssumption, Full, LogInv
<1>1. CASE \E label \in Saving : Goto(t, label)
  <2>1. PICK label \in Saving : pc' = [pc EXCEPT ![t] = label]
    BY <1>1 DEF Goto
  <2>2. UNCHANGED <<cur, reply>>
    BY <1>1 DEF Goto
  <2>3. QueueAhead'
    BY <2>2 DEF QueueAhead
  <2>4. RowsBehind'
    BY <2>1, <2>2 DEF RowsBehind, Typed, TypeOK, TypeThreads
  <2>5. Item(t) \notin Range(stored)
    BY DEF RowsBehind, OneRow, Typed, TypeOK, TypeThreads, TypeQueues, ThreadShape, Item, Saving, Threads
  <2>6. OneRow'
    BY <2>1, <2>2, <2>5 DEF OneRow, Item, Typed, TypeOK, TypeThreads, Saving
  <2> QED BY <2>3, <2>4, <2>6 DEF Typed
<1>2. CASE \E how \in Endings : Return(t, how)
  <2>1. CASE t = Worker
    <3>1. cur' = 0 /\ reply' = None /\ pc' = [pc EXCEPT ![t] = "idle"]
      BY <1>2, <2>1 DEF Return, WorkerDone
    <3>2. QueueAhead'
      BY <3>1 DEF QueueAhead, Typed, TypeOK, TypeQueues, Inbound
    <3>3. RowsBehind'
      BY <3>1 DEF RowsBehind, Inbound
    <3>4. OneRow'
      <4>1. \A u \in Outbound : Item(u)' = Item(u) /\ pc'[u] = pc[u]
        BY <2>1, <3>1 DEF Item, Typed, TypeOK, TypeThreads, Threads
      <4>2. pc'[Worker] = "idle"
        BY <2>1, <3>1 DEF Typed, TypeOK, TypeThreads, Threads
      <4> QED BY <4>1, <4>2 DEF OneRow, Saving, Threads
    <3> QED BY <3>2, <3>3, <3>4 DEF Typed
  <2>2. CASE t # Worker
    <3>1. UNCHANGED <<cur, reply>> /\ pc' = [pc EXCEPT ![t] = "done"]
      BY <1>2, <2>2 DEF Return
    <3>2. QueueAhead' /\ RowsBehind'
      BY <2>2, <3>1 DEF QueueAhead, RowsBehind, Typed, TypeOK, TypeThreads
    <3>3. OneRow'
      BY <2>2, <3>1 DEF OneRow, Item, Typed, TypeOK, TypeThreads, Saving, Threads
    <3> QED BY <3>2, <3>3 DEF Typed
  <2> QED BY <2>1, <2>2
<1> QED BY <1>1, <1>2

(* The record about to be saved has no row, and fits behind all the rows.  *)
LEMMA FreshItem ==
  ASSUME Full, NEW t \in Threads, pc[t] \in Saving
  PROVE  /\ Item(t) \in Inbound \cup Outbound
         /\ Item(t) \notin Range(stored)
         /\ Log!InOrder(stored, Item(t))
         /\ Item(t) \in Inbound => t = Worker /\ reply = None /\ Item(t) = cur
<1> USE ConstantsAssumption DEF ConstantsAssumption, Full, LogInv, Saving
<1>1. Item(t) \in Inbound \cup Outbound
  BY ItemType
<1>2. Item(t) \notin Range(stored)
  BY DEF OneRow
<1>3. Item(t) \in Inbound => t = Worker /\ reply = None /\ Item(t) = cur
  BY DEF Item, Typed, TypeOK, TypeThreads, Threads, Inbound
<1>4. ASSUME Item(t) \in Inbound, NEW y \in Range(stored) \cap Inbound PROVE y < Item(t)
  <2>1. y \in Int /\ cur \in Int /\ cur # 0
    BY <1>3, <1>4, QueueNumbers DEF Inbound
  <2> QED BY <1>2, <1>3, <1>4, <2>1 DEF RowsBehind
<1>5. Log!InOrder(stored, Item(t))
  BY <1>4, Zenon DEF Log!InOrder, Log!Range, Range
<1> QED BY <1>1, <1>2, <1>3, <1>5

LEMMA SaveRowLog == ASSUME Full, NEW t \in Threads, SaveRow(t) PROVE LogInv'
<1> USE DEF Full, LogInv
<1>1. /\ pc[t] \in Saving /\ stored' = Append(stored, Item(t)) /\ pc' = [pc EXCEPT ![t] = "publish"]
      /\ UNCHANGED <<arrivals, queue, cur, reply, published>>
  BY DEF SaveRow, Goto, untouched, outside, Saving
<1>2. Range(stored') = Range(stored) \cup {Item(t)}
  BY <1>1, AppendRange DEF Typed, TypeOK, TypeRecords
<1>3. /\ pc'[t] = "publish" /\ \A u \in Threads \ {t} : pc'[u] = pc[u]
      /\ \A u \in Threads : Item(u)' = Item(u)
  BY <1>1 DEF Item, Typed, TypeOK, TypeThreads
<1>4. QueueAhead'
  BY <1>1 DEF QueueAhead
<1>5. ThreadShape'
  BY SaveTyped DEF Save, Typed
<1>6. RowsBehind'
  <2> SUFFICES ASSUME NEW x \in Range(stored') \cap Inbound
               PROVE  /\ x <= Len(arrivals) /\ \A n \in DOMAIN queue : x < queue[n]
                      /\ cur # 0 => x <= cur
                      /\ x = cur => pc'[Worker] = "publish" /\ reply = None
    BY <1>1 DEF RowsBehind
  <2>1. CASE x \in Range(stored)
    BY <1>1, <1>3, <2>1 DEF RowsBehind, Threads, Saving
  <2>2. CASE x = Item(t)
    <3>1. t = Worker /\ reply = None /\ x = cur
      BY <2>2, <1>1, FreshItem
    <3> QED BY <3>1, <1>3, QueueNumbers DEF QueueAhead
  <2> QED BY <2>1, <2>2, <1>2
<1>7. OneRow'
  <2>1. Item(t) \notin Range(published)
    BY <1>1, FreshItem DEF OneRow
  <2>2. \A u \in Threads \ {t} : pc[u] \in Busy => Item(u) # Item(t)
    BY <1>1, ItemsDiffer DEF Busy
  <2>3. \A o \in Outbound : pc'[o] = "idle" => o \notin Range(stored')
    <3> SUFFICES ASSUME NEW o \in Outbound, pc'[o] = "idle", o = Item(t) PROVE FALSE
      BY <1>2, <1>3 DEF OneRow, Threads
    <3>1. o \in Threads \ {t} /\ pc[o] = "idle"
      BY <1>3 DEF Threads
    <3>2. t = Worker
      BY <3>1 DEF Item
    <3>3. CASE reply # None
      BY <3>1, <3>2, <3>3 DEF Item, Typed, ThreadShape
    <3>4. CASE reply = None
      BY <1>1, <3>2, <3>4, ConstantsAssumption, QueueNumbers DEF ConstantsAssumption, Item
    <3> QED BY <3>3, <3>4
  <2>4. \A u \in Threads : pc'[u] \in Saving => Item(u)' \notin Range(stored')
    BY <1>2, <1>3, <2>2 DEF OneRow, Busy, Saving
  <2>5. \A u \in Threads : pc'[u] = "publish" => Item(u)' \in Range(stored') \ Range(published')
    BY <1>1, <1>2, <1>3, <2>1 DEF OneRow
  <2> QED BY <1>1, <1>2, <2>3, <2>4, <2>5 DEF OneRow
<1> QED BY <1>4, <1>5, <1>6, <1>7

LEMMA PublishLog == ASSUME Full, NEW t \in Threads, Publish(t) PROVE LogInv'
<1> USE ConstantsAssumption DEF ConstantsAssumption, Full, LogInv
<1>1. /\ pc[t] = "publish" /\ published' = Append(published, Item(t))
      /\ Return(t, "stored") /\ UNCHANGED <<arrivals, queue, stored>>
  BY DEF Publish, untouched, outside
<1>2. Range(published') = Range(published) \cup {Item(t)}
  BY <1>1, AppendRange DEF Typed, TypeOK, TypeRecords
<1>3. Typed'
  BY SaveTyped DEF Save
<1>4. \A u \in Threads \ {t} : pc[u] \in Busy => Item(u) # Item(t)
  BY <1>1, ItemsDiffer DEF Busy
<1>5. /\ pc'[t] \in {"idle", "done"} /\ (t # Worker => pc'[t] = "done")
      /\ \A u \in Threads \ {t} : pc'[u] = pc[u] /\ Item(u)' = Item(u)
  BY <1>1 DEF Return, Item, Typed, TypeOK, TypeThreads, Threads
<1>6. cur' \in {cur, 0}
  BY <1>1 DEF Return, WorkerDone
<1>7. QueueAhead'
  <2>1. \A n \in DOMAIN queue : queue[n] \in Inbound
    BY QueueNumbers
  <2> QED BY <1>1, <1>6, <2>1 DEF QueueAhead, Inbound, Typed, TypeOK, TypeQueues
<1>8. RowsBehind'
  <2>1. CASE t = Worker
    <3>1. cur' = 0
      BY <2>1, <1>1 DEF Return, WorkerDone
    <3> QED BY <3>1, <1>1 DEF RowsBehind, Inbound
  <2>2. CASE t # Worker
    <3>1. UNCHANGED <<cur, reply>> /\ pc'[Worker] = pc[Worker]
      BY <2>2, <1>1, <1>5 DEF Return, Threads
    <3> QED BY <3>1, <1>1 DEF RowsBehind
  <2> QED BY <2>1, <2>2
<1>9. OneRow'
  <2>1. Range(published') \subseteq Range(stored')
    BY <1>1, <1>2 DEF OneRow
  <2>2. \A o \in Outbound : pc'[o] = "idle" => o \notin Range(stored')
    BY <1>1, <1>5 DEF OneRow, Threads
  <2>3. \A u \in Threads : pc'[u] \in Saving => Item(u)' \notin Range(stored')
    BY <1>1, <1>5 DEF OneRow, Saving
  <2>4. \A u \in Threads : pc'[u] = "publish" => Item(u)' \in Range(stored') \ Range(published')
    BY <1>1, <1>2, <1>4, <1>5 DEF OneRow, Busy
  <2> QED BY <2>1, <2>2, <2>3, <2>4 DEF OneRow
<1> QED BY <1>3, <1>7, <1>8, <1>9 DEF Typed

LEMMA CheckShutdownLog == ASSUME Full, NEW t \in Threads, CheckShutdown(t) PROVE LogInv'
<1>1. Typed'
  BY SaveTyped DEF Full, Save
<1>2. UNCHANGED <<arrivals, queue, stored, published>>
  BY DEF CheckShutdown, untouched, outside
<1>3. \/ \E how \in Endings : Return(t, how)
      \/ \E label \in Saving : Goto(t, label)
  BY DEF CheckShutdown, Endings, Saving
<1>4. pc[t] \in {"check", "checkFile"}
  BY DEF CheckShutdown
<1> QED BY <1>1, <1>2, <1>3, <1>4, MoveLog

LEMMA SaveFailsLog == ASSUME Full, NEW t \in Threads, SaveFails(t) PROVE LogInv'
<1>1. Typed'
  BY SaveTyped DEF Full, Save
<1>2. UNCHANGED <<arrivals, queue, stored, published>>
  BY DEF SaveFails, untouched, outside, output
<1>3. \/ \E how \in Endings : Return(t, how)
      \/ \E label \in Saving : Goto(t, label)
  BY DEF SaveFails, Endings, Saving
<1>4. pc[t] \in Saving
  BY DEF SaveFails
<1> QED BY <1>1, <1>2, <1>3, <1>4, MoveLog DEF Saving

LEMMA AnswerLog == ASSUME Full, Answer PROVE LogInv'
<1> USE ConstantsAssumption DEF ConstantsAssumption, Full, LogInv
<1>1. PICK o \in Outbound :
        /\ pc[o] = "idle"
        /\ pc' = [pc EXCEPT ![Worker] = "check", ![o] = "done"]
        /\ reply' = o
  BY DEF Answer
<1>2. pc[Worker] = "handle" /\ UNCHANGED <<arrivals, queue, cur, stored, published>>
  BY DEF Answer, output
<1>3. ThreadShape'
  BY AnswerTyped DEF Typed
<1>4. QueueAhead'
  BY <1>2 DEF QueueAhead
<1>5. pc'[Worker] = "check" /\ pc'[o] = "done" /\ Item(Worker)' = o
      /\ \A u \in Threads \ {Worker, o} : pc'[u] = pc[u] /\ Item(u)' = Item(u)
  BY <1>1 DEF Item, Typed, TypeOK, TypeThreads, Threads
<1>6. RowsBehind'
  <2>1. \A x \in Range(stored) \cap Inbound : x # cur
    BY <1>2 DEF RowsBehind
  <2> QED BY <1>2, <2>1 DEF RowsBehind
<1>7. OneRow'
  <2>1. o \notin Range(stored)
    BY <1>1 DEF OneRow
  <2>2. Range(published') \subseteq Range(stored')
    BY <1>2 DEF OneRow
  <2>3. \A p \in Outbound : pc'[p] = "idle" => p \notin Range(stored')
    BY <1>2, <1>5, <2>1 DEF OneRow, Threads
  <2>4. \A u \in Threads : pc'[u] \in Saving => Item(u)' \notin Range(stored')
    BY <1>2, <1>5, <2>1 DEF OneRow, Saving
  <2>5. \A u \in Threads : pc'[u] = "publish" => Item(u)' \in Range(stored') \ Range(published')
    BY <1>2, <1>5 DEF OneRow
  <2> QED BY <2>2, <2>3, <2>4, <2>5 DEF OneRow
<1> QED BY <1>3, <1>4, <1>6, <1>7

LEMMA HandleLog == ASSUME Full, HandleAsync PROVE LogInv'
<1>1. CASE Answer
  BY <1>1, AnswerLog
<1>2. CASE HandleSave \/ HandleReject \/ HandleIgnored \/ Download \/ AnswerFails
  <2>1. pc[Worker] = "handle" /\ UNCHANGED <<untouched, output>>
    BY <1>2 DEF HandleSave, HandleReject, HandleIgnored, Download, AnswerFails, Handling
  <2>2. UNCHANGED <<arrivals, queue, stored, published>>
    BY <2>1 DEF untouched, outside, output
  <2>3. \/ \E how \in Endings : Return(Worker, how)
        \/ \E label \in Saving : Goto(Worker, label)
    BY <1>2 DEF HandleSave, HandleReject, HandleIgnored, Download, AnswerFails, Endings, Saving
  <2>4. Typed'
    BY HandleTyped DEF Full
  <2> QED BY <2>1, <2>2, <2>3, <2>4, MoveLog DEF Threads
<1> QED BY <1>1, <1>2 DEF HandleAsync

(* A goroutine that was idle is about to save its record, or is done.      *)
LEMMA StartLog ==
  ASSUME Full, Typed', NEW o \in Outbound, pc[o] = "idle", NEW end \in {"check", "done"},
         pc' = [pc EXCEPT ![o] = end],
         UNCHANGED <<arrivals, queue, cur, reply, stored, published>>
  PROVE  LogInv'
<1> USE ConstantsAssumption DEF ConstantsAssumption, Full, LogInv
<1>1. /\ \A u \in Threads \ {o} : pc'[u] = pc[u]
      /\ \A u \in Threads : Item(u)' = Item(u)
      /\ pc'[o] = end /\ Item(o) = o /\ Worker \in Threads \ {o}
  BY DEF Item, Typed, TypeOK, TypeThreads, Threads
<1>2. QueueAhead' /\ RowsBehind'
  BY <1>1 DEF QueueAhead, RowsBehind
<1>3. o \notin Range(stored)
  BY DEF OneRow
<1>4. \A p \in Outbound : pc'[p] = "idle" => p \notin Range(stored')
  BY <1>1, <1>3 DEF OneRow, Threads
<1>5. \A u \in Threads : pc'[u] \in Saving => Item(u)' \notin Range(stored')
  BY <1>1, <1>3 DEF OneRow
<1>6. \A u \in Threads : pc'[u] = "publish" => Item(u)' \in Range(stored') \ Range(published')
  BY <1>1 DEF OneRow
<1>7. OneRow'
  BY <1>4, <1>5, <1>6 DEF OneRow
<1> QED BY <1>2, <1>7 DEF Typed

(* Steps that leave goroutines, queue and log alone.                       *)
LEMMA StutterLog ==
  ASSUME Full, Typed', UNCHANGED <<arrivals, queue, cur, reply, pc, stored, published>>
  PROVE  LogInv'
<1>1. \A u \in Threads : Item(u)' = Item(u)
  BY DEF Item
<1> QED BY <1>1 DEF Full, LogInv, QueueAhead, RowsBehind, OneRow, Typed

LEMMA RecoverLog == ASSUME Full, NEW e \in recovering, Recover(e) PROVE LogInv'
<1>1. Typed' /\ UNCHANGED <<arrivals, queue, cur, reply, stored, published>>
  BY RecoverTyped DEF Full, Recover, worker, output
<1>2. CASE UNCHANGED pc
  BY <1>1, <1>2, StutterLog
<1>3. CASE \E o \in Outbound : pc[o] = "idle" /\ pc' = [pc EXCEPT ![o] = "check"]
  BY <1>1, <1>3, StartLog
<1> QED BY <1>2, <1>3 DEF Recover

LEMMA SendOutsideLog == ASSUME Full, NEW o \in Outbound, SendOutside(o) PROVE LogInv'
<1>1. Typed' /\ UNCHANGED <<arrivals, queue, cur, reply, stored, published>>
  BY SendOutsideTyped DEF Full, SendOutside, worker, output
<1>2. pc[o] = "idle" /\ \E end \in {"check", "done"} : pc' = [pc EXCEPT ![o] = end]
  BY DEF SendOutside
<1> QED BY <1>1, <1>2, StartLog

LEMMA RestartLog == ASSUME Full, Restart PROVE LogInv'
<1> USE ConstantsAssumption DEF ConstantsAssumption, Full, LogInv
<1>1. /\ queue' = <<>> /\ cur' = 0 /\ UNCHANGED <<arrivals, stored, published>>
      /\ pc' = [t \in Threads |-> IF t = Worker \/ pc[t] = "idle" THEN "idle" ELSE "done"]
  BY DEF Restart, output
<1>2. ThreadShape'
  BY RestartTyped DEF Typed
<1>3. QueueAhead' /\ RowsBehind'
  BY <1>1 DEF QueueAhead, RowsBehind, Inbound, Typed, TypeOK, TypeQueues
<1>4. \A u \in Threads : pc'[u] \in {"idle", "done"}
  BY <1>1
<1>5. \A o \in Outbound : pc'[o] = "idle" => pc[o] = "idle"
  BY <1>1 DEF Threads
<1>6. OneRow'
  BY <1>1, <1>4, <1>5 DEF OneRow, Saving
<1> QED BY <1>2, <1>3, <1>6

LEMMA NextFull == Full /\ [Next]_vars => Full'
<1> SUFFICES ASSUME Full, [Next]_vars PROVE Full'
  OBVIOUS
<1>1. Typed'
  BY NextTyped DEF Full
<1>2. CASE SetShuttingDown \/ RecordLatency \/ UNCHANGED vars
  <2>1. UNCHANGED <<arrivals, queue, cur, reply, pc, stored, published>>
    BY <1>2 DEF SetShuttingDown, RecordLatency, vars, outside, worker, output
  <2> QED BY <1>1, <2>1, StutterLog DEF Full
<1>3. CASE \E t \in Threads : Save(t)
  BY <1>1, <1>3, CheckShutdownLog, SaveRowLog, SaveFailsLog, PublishLog DEF Save, Full
<1> QED
  BY <1>1, <1>2, <1>3, ArriveLog, TakeLog, HandleLog, SendOutsideLog, RecoverLog, RestartLog
     DEF Next, Full

(* One row per record, and none out of arrival order, in every state.      *)
THEOREM LogOrder == Spec => []LogInv
<1>1. Full => LogInv
  BY DEF Full
<1> QED BY <1>1, InitFull, NextFull, PTL DEF Spec

(* Steps of the pipeline are steps of the abstract log, or stutter: saving *)
(* a row is Store, the broker's call is Publish.                           *)
LEMMA StepImplements == Full /\ [Next]_vars => [Log!Next]_(Log!vars)
<1> SUFFICES ASSUME Full, [Next]_vars PROVE [Log!Next]_(Log!vars)
  OBVIOUS
<1>1. ASSUME NEW t \in Threads, SaveRow(t) PROVE Log!Next
  <2>1. pc[t] \in Saving /\ stored' = Append(stored, Item(t)) /\ UNCHANGED published
    BY <1>1 DEF SaveRow, Saving
  <2>2. Log!Store(Item(t)) /\ Item(t) \in Log!Record
    BY <2>1, FreshItem DEF Log!Store, Log!Record, Log!Range, Range
  <2> QED BY <2>2 DEF Log!Next
<1>2. ASSUME NEW t \in Threads, Publish(t) PROVE Log!Next
  <2>1. pc[t] = "publish" /\ published' = Append(published, Item(t)) /\ UNCHANGED stored
    BY <1>2 DEF Publish
  <2>2. Item(t) \in Range(stored) \ Range(published) /\ Item(t) \in Inbound \cup Outbound
    BY <2>1, ItemType DEF Full, LogInv, OneRow
  <2>3. ASSUME Item(t) \in Inbound, NEW y \in Range(published) \cap Inbound
        PROVE  y < Item(t)
    <3>1. Item(t) = cur
      BY <2>3, ConstantsAssumption
         DEF ConstantsAssumption, Item, Full, Typed, TypeOK, TypeThreads, Threads, Inbound
    <3>2. y \in Range(stored) /\ y # cur
      BY <2>2, <3>1 DEF Full, LogInv, OneRow
    <3>3. cur # 0 /\ cur \in Int /\ y \in Int
      BY <2>3, <3>1 DEF Inbound
    <3> QED BY <3>1, <3>2, <3>3 DEF Full, LogInv, RowsBehind
  <2>4. Log!InOrder(published, Item(t))
    BY <2>3, Zenon DEF Log!InOrder, Log!Range, Range
  <2>5. Log!Publish(Item(t)) /\ Item(t) \in Log!Record
    BY <2>1, <2>2, <2>4 DEF Log!Publish, Log!Record, Log!Range, Range
  <2> QED BY <2>5 DEF Log!Next
<1>3. CASE \E t \in Threads : CheckShutdown(t) \/ SaveFails(t)
  BY <1>3 DEF CheckShutdown, SaveFails, output, Log!vars
<1>4. CASE HandleAsync
  BY <1>4 DEF HandleAsync, HandleSave, HandleReject, HandleIgnored, Download, Answer, AnswerFails,
              Handling, output, Log!vars
<1>5. CASE \/ \E k \in Delivered : Arrive(k)
           \/ Take \/ RecordLatency \/ SetShuttingDown \/ Restart \/ UNCHANGED vars
           \/ \E o \in Outbound : SendOutside(o)
           \/ \E e \in recovering : Recover(e)
  BY <1>5 DEF Arrive, Take, RecordLatency, SetShuttingDown, Restart, vars, SendOutside, Recover,
              output, Log!vars
<1> QED BY <1>1, <1>2, <1>3, <1>4, <1>5 DEF Next, Save

(* The events collection and the live feed implement the abstract log.     *)
THEOREM Implementation == Spec => ImplementsEventLog
<1>1. Init => Log!Init
  BY DEF Init, Log!Init
<1> QED BY <1>1, InitFull, NextFull, StepImplements, PTL DEF Spec, ImplementsEventLog, Log!Spec

-----------------------------------------------------------------------------
(* The lookups of recoverAndNotify and of recordReceiptLatency.            *)

(* What a save or the worker leaves behind: nothing, or the event it had.  *)
LEMMA ReturnPast ==
  ASSUME Typed, NEW t, \/ \E how \in Endings : Return(t, how)
                       \/ \E label \in Busy : Goto(t, label),
         UNCHANGED <<notices, latency>>
  PROVE  \/ UNCHANGED <<cur, gone>> /\ Past' = Past
         \/ /\ t = Worker /\ cur' = 0
            /\ Past' \subseteq Past \cup {cur}
<1>1. CASE \/ \E label \in Busy : Goto(t, label)
           \/ t # Worker /\ \E how \in Endings : Return(t, how)
  BY <1>1 DEF Goto, Return, Past
<1>2. CASE t = Worker /\ \E how \in Endings : Return(t, how)
  <2>1. cur' = 0 /\ recovering' \subseteq recovering \cup {cur}
    BY <1>2 DEF Return, WorkerDone
  <2>2. latencyQueue' \in {latencyQueue, Append(latencyQueue, cur)}
    BY <1>2 DEF Return, WorkerDone
  <2>3. Range(latencyQueue') \subseteq Range(latencyQueue) \cup {cur}
    BY <2>2, AppendRange DEF Typed, TypeOK, TypeQueues
  <2> QED BY <1>2, <2>1, <2>3 DEF Past
<1> QED BY <1>1, <1>2

(* Dealing with the event in hand, or forgetting the queue, keeps the      *)
(* order between past events and the others.                               *)
LEMMA PastStep ==
  ASSUME Full, PastInv, UNCHANGED arrivals, queue' \in {queue, <<>>},
         \/ UNCHANGED cur /\ Past' \subseteq Past
         \/ cur' = 0 /\ Past' \subseteq Past \cup ({cur} \ {0})
  PROVE  PastInv'
<1>1. ASSUME NEW e \in Past'
      PROVE  /\ e <= Len(arrivals) /\ \A n \in DOMAIN queue : e < queue[n]
             /\ cur' # 0 => e < cur
  BY <1>1 DEF Full, LogInv, QueueAhead, PastInv
<1> QED BY <1>1 DEF PastInv

(* An arrival gets the next number, and changes no earlier one.            *)
LEMMA ArriveTarget ==
  ASSUME Typed, NEW k \in Delivered, Arrive(k)
  PROVE  /\ Len(arrivals') = Len(arrivals) + 1 /\ Len(arrivals) \in Nat
         /\ Ids' = Ids \cup {Len(arrivals) + 1}
         /\ \A i \in Ids : arrivals'[i] = arrivals[i]
<1> USE DEF Typed, TypeOK
<1>1. PICK x \in Targets(k) : arrivals' = Append(arrivals, [kind |-> k, target |-> x])
  BY DEF Arrive
<1>2. Len(arrivals) \in Nat
  BY DEF TypeQueues
<1>3. Len(arrivals') = Len(arrivals) + 1 /\ \A i \in Ids : arrivals'[i] = arrivals[i]
  BY <1>1, <1>2 DEF TypeQueues, Ids
<1>4. Ids' = Ids \cup {Len(arrivals) + 1}
  BY <1>2, <1>3 DEF Ids
<1> QED BY <1>2, <1>3, <1>4

(* Who looks something up is a past event, by number.                      *)
LEMMA PastNumbers == ASSUME Typed, PastInv PROVE Past \subseteq Ids /\ Ids \subseteq Inbound
<1>1. Past \subseteq Inbound
  BY DEF Past, Typed, TypeOK, TypeQueues, TypeRecords, TypeHistories, Range
<1>2. Len(arrivals) \in Nat /\ Len(arrivals) <= MaxArrivals /\ MaxArrivals \in Nat
  BY ConstantsAssumption DEF ConstantsAssumption, Typed, TypeOK, TypeQueues
<1> QED BY <1>1, <1>2 DEF PastInv, Ids, Inbound

LEMMA ArrivePast == ASSUME Full, PastInv, NEW k \in Delivered, Arrive(k) PROVE PastInv'
<1> USE ConstantsAssumption DEF ConstantsAssumption
<1> DEFINE new == Len(arrivals) + 1
<1>1. /\ Len(arrivals') = new /\ Len(arrivals) \in Nat /\ Ids' = Ids \cup {new}
      /\ \A i \in Ids : arrivals'[i] = arrivals[i]
  BY ArriveTarget DEF Full
<1>2. Past' = Past /\ cur' = cur /\ queue' \in {queue, Append(queue, new)}
  BY DEF Arrive, Past, Enqueue, timing, notify
<1>3. queue \in Seq(Inbound) /\ cur \in Nat /\ \A n \in DOMAIN queue : queue[n] \in Int
  BY QueueNumbers DEF Full
<1>4. Past \subseteq Ids
  BY PastNumbers DEF Full
<1>5. ASSUME NEW e \in Past
      PROVE  e <= Len(arrivals') /\ (\A n \in DOMAIN queue' : e < queue'[n]) /\ (cur # 0 => e < cur)
  <2>1. e \in Nat /\ e <= Len(arrivals) /\ (\A n \in DOMAIN queue : e < queue[n]) /\ (cur # 0 => e < cur)
    BY <1>4 DEF PastInv, Ids
  <2>2. \A n \in DOMAIN queue' : e < queue'[n]
    BY <1>1, <1>2, <1>3, <2>1
  <2> QED BY <1>1, <2>1, <2>2
<1> QED BY <1>2, <1>5 DEF PastInv

LEMMA TakePast == ASSUME Full, PastInv, Take PROVE PastInv'
<1>1. /\ queue \in Seq(Inbound) /\ queue # <<>> /\ cur' = queue[1] /\ queue' = Tail(queue)
      /\ UNCHANGED arrivals /\ Past' = Past
  BY DEF Take, outside, timing, notify, Past, Full, Typed, TypeOK, TypeQueues
<1>2. \A n \in DOMAIN queue' : n + 1 \in DOMAIN queue /\ queue'[n] = queue[n + 1]
  BY <1>1
<1> QED BY <1>1, <1>2 DEF PastInv

LEMMA SavePast == ASSUME Full, PastInv, NEW t \in Threads, Save(t) PROVE PastInv'
<1>1. UNCHANGED <<arrivals, queue, notices, latency>>
  BY DEF Save, CheckShutdown, SaveRow, SaveFails, Publish, untouched, outside
<1>2. \/ \E how \in Endings : Return(t, how)
      \/ \E label \in Busy : Goto(t, label)
  BY DEF Save, CheckShutdown, SaveRow, SaveFails, Publish, Busy, Saving, Endings
<1>3. t = Worker => cur # 0
  BY DEF Full, Typed, ThreadShape, Save, CheckShutdown, SaveRow, SaveFails, Publish, Saving
<1> QED BY <1>1, <1>2, <1>3, ReturnPast, PastStep DEF Full

LEMMA HandlePast == ASSUME Full, PastInv, HandleAsync PROVE PastInv'
<1>1. CASE Answer
  BY <1>1, PastStep DEF Answer, Past, timing, notify
<1>2. CASE HandleSave \/ HandleReject \/ HandleIgnored \/ Download \/ AnswerFails
  <2>1. pc[Worker] = "handle" /\ UNCHANGED <<arrivals, queue, notices, latency>>
    BY <1>2 DEF HandleSave, HandleReject, HandleIgnored, Download, AnswerFails, Handling, untouched, outside
  <2>2. \/ \E how \in Endings : Return(Worker, how)
        \/ \E label \in Busy : Goto(Worker, label)
    BY <1>2 DEF HandleSave, HandleReject, HandleIgnored, Download, AnswerFails, Endings, Busy, Saving
  <2>3. cur # 0
    BY <2>1 DEF Full, Typed, ThreadShape
  <2> QED BY <2>1, <2>2, <2>3, ReturnPast, PastStep DEF Full
<1> QED BY <1>1, <1>2 DEF HandleAsync

LEMMA NextPast == Full /\ PastInv /\ [Next]_vars => PastInv'
<1> SUFFICES ASSUME Full, PastInv, [Next]_vars PROVE PastInv'
  OBVIOUS
<1>1. CASE RecordLatency
  <2>1. /\ latencyQueue # <<>> /\ latencyQueue' = Tail(latencyQueue)
        /\ \E lookup : latency' \in
             {latency, latency \cup {[receipt |-> Head(latencyQueue), lookup |-> lookup]}}
        /\ UNCHANGED <<arrivals, queue, cur, recovering, notices>>
    BY <1>1 DEF RecordLatency, outside, worker, notify
  <2>2. Head(latencyQueue) \in Range(latencyQueue)
        /\ Range(Tail(latencyQueue)) \subseteq Range(latencyQueue)
    BY <2>1 DEF Range, Full, Typed, TypeOK, TypeQueues
  <2>3. Past' \subseteq Past
    BY <2>1, <2>2 DEF Past
  <2> QED BY <2>1, <2>3, PastStep
<1>2. CASE \E e \in recovering : Recover(e)
  <2>1. PICK e \in recovering : Recover(e)
    BY <1>2
  <2>2. /\ recovering' = recovering \ {e}
        /\ \E lookup : notices' = notices \cup {[event |-> e, lookup |-> lookup]}
        /\ UNCHANGED <<arrivals, queue, cur, latencyQueue, latency>>
    BY <2>1 DEF Recover, worker, timing
  <2>3. Past' \subseteq Past
    BY <2>2 DEF Past
  <2> QED BY <2>2, <2>3, PastStep
<1>3. CASE Restart
  <2>1. /\ queue' = <<>> /\ cur' = 0 /\ latencyQueue' = <<>> /\ recovering' = {}
        /\ UNCHANGED <<arrivals, notices, latency>>
    BY <1>3 DEF Restart
  <2>2. Past' \subseteq Past
    BY <2>1 DEF Past, Range
  <2> QED BY <2>1, <2>2, PastStep
<1>4. CASE SetShuttingDown \/ (\E o \in Outbound : SendOutside(o)) \/ UNCHANGED vars
  <2>1. UNCHANGED <<arrivals, queue, cur, Past>>
    BY <1>4 DEF SetShuttingDown, SendOutside, vars, outside, worker, timing, notify, Past
  <2> QED BY <2>1, PastStep
<1> QED BY <1>1, <1>2, <1>3, <1>4, ArrivePast, TakePast, HandlePast, SavePast DEF Next

(* A new row is younger than every past event, or not an inbound event.    *)
LEMMA RowsGrow ==
  ASSUME Full, PastInv, [Next]_vars
  PROVE  \/ stored' = stored
         \/ \E y : /\ stored' = Append(stored, y) /\ UNCHANGED <<arrivals, notices, latency>>
                   /\ y \in Inbound => \A e \in Past : e < y
<1>1. ASSUME NEW t \in Threads, SaveRow(t)
      PROVE  /\ stored' = Append(stored, Item(t)) /\ UNCHANGED <<arrivals, notices, latency>>
             /\ Item(t) \in Inbound => \A e \in Past : e < Item(t)
  <2>1. /\ pc[t] \in Saving /\ stored' = Append(stored, Item(t))
        /\ UNCHANGED <<arrivals, notices, latency>>
    BY <1>1 DEF SaveRow, Saving, untouched, outside
  <2>2. Item(t) \in Inbound => Item(t) = cur /\ cur # 0
    BY <2>1, FreshItem DEF Inbound
  <2> QED BY <2>1, <2>2 DEF PastInv
<1>2. CASE \E t \in Threads : CheckShutdown(t) \/ SaveFails(t) \/ Publish(t)
  BY <1>2 DEF CheckShutdown, SaveFails, Publish, output
<1>3. CASE HandleAsync
  BY <1>3 DEF HandleAsync, HandleSave, HandleReject, HandleIgnored, Download, Answer, AnswerFails,
              Handling, output
<1>4. CASE \/ \E k \in Delivered : Arrive(k)
           \/ Take \/ RecordLatency \/ SetShuttingDown \/ Restart \/ UNCHANGED vars
           \/ \E o \in Outbound : SendOutside(o)
           \/ \E e \in recovering : Recover(e)
  BY <1>4 DEF Arrive, Take, RecordLatency, SetShuttingDown, Restart, vars, SendOutside, Recover,
              output
<1> QED BY <1>1, <1>2, <1>3, <1>4 DEF Next, Save

(* What an event points at never changes.                                  *)
LEMMA TargetsKept ==
  ASSUME Full, [Next]_vars, NEW i \in Ids
  PROVE  Kind(i)' = Kind(i) /\ Target(i)' = Target(i)
<1>1. CASE \E k \in Delivered : Arrive(k)
  BY <1>1, ArriveTarget DEF Full, Kind, Target
<1>2. CASE HandleAsync \/ \E t \in Threads : Save(t)
  BY <1>2 DEF HandleAsync, HandleSave, HandleReject, HandleIgnored, Download, Answer, AnswerFails,
              Handling, Save, CheckShutdown, SaveRow, SaveFails, Publish, untouched, outside,
              Kind, Target
<1>3. CASE \/ Take \/ RecordLatency \/ SetShuttingDown \/ Restart \/ UNCHANGED vars
           \/ \E o \in Outbound : SendOutside(o)
           \/ \E e \in recovering : Recover(e)
  BY <1>3 DEF Take, RecordLatency, SetShuttingDown, Restart, vars, SendOutside, Recover, outside,
              Kind, Target
<1> QED BY <1>1, <1>2, <1>3 DEF Next

(* A lookup that missed was made when the collection had no such row.      *)
LEMMA LookupsGrow ==
  ASSUME [Next]_vars
  PROVE  /\ \A n \in notices' \ notices :
              /\ UNCHANGED <<arrivals, stored>>
              /\ n.lookup = "missing" => Target(n.event) \notin Range(stored)
         /\ \A row \in latency' \ latency :
              /\ UNCHANGED <<arrivals, stored>>
              /\ row.lookup = "missing" => Target(row.receipt) \notin Range(stored)
<1>0. \A x : "missing" \in Lookup(x) => x \notin Range(stored)
  BY DEF Lookup
<1>1. CASE \E e \in recovering : Recover(e)
  <2>1. PICK e \in recovering : Recover(e)
    BY <1>1
  <2>2. PICK lookup \in Lookup(Target(e)) : notices' = notices \cup {[event |-> e, lookup |-> lookup]}
    BY <2>1 DEF Recover
  <2>3. UNCHANGED <<arrivals, stored, latency>>
    BY <2>1 DEF Recover, output, timing
  <2>4. \A n \in notices' \ notices : n.event = e /\ n.lookup = lookup
    BY <2>2
  <2> QED BY <1>0, <2>3, <2>4
<1>2. CASE RecordLatency
  <2> DEFINE r == Head(latencyQueue)
  <2>1. PICK lookup \in Lookup(Target(r)) :
          latency' \in {latency, latency \cup {[receipt |-> r, lookup |-> lookup]}}
    BY <1>2 DEF RecordLatency
  <2>2. UNCHANGED <<arrivals, stored, notices>>
    BY <1>2 DEF RecordLatency, outside, output, notify
  <2> HIDE DEF r
  <2>3. \A row \in latency' \ latency : row.receipt = r /\ row.lookup = lookup
    BY <2>1
  <2> QED BY <1>0, <2>2, <2>3
<1>3. CASE HandleAsync \/ \E t \in Threads : Save(t)
  BY <1>3 DEF HandleAsync, HandleSave, HandleReject, HandleIgnored, Download, Answer, AnswerFails,
              Handling, Save, CheckShutdown, SaveRow, SaveFails, Publish, untouched, timing, notify
<1>4. CASE \/ \E k \in Delivered : Arrive(k)
           \/ Take \/ SetShuttingDown \/ Restart \/ UNCHANGED vars
           \/ \E o \in Outbound : SendOutside(o)
  BY <1>4 DEF Arrive, Take, SetShuttingDown, Restart, vars, SendOutside, timing, notify
<1> QED BY <1>1, <1>2, <1>3, <1>4 DEF Next

LEMMA NextFinal ==
  Full /\ PastInv /\ RecoveryLookupIsFinal /\ [Next]_vars => RecoveryLookupIsFinal'
<1> SUFFICES ASSUME Full, PastInv, RecoveryLookupIsFinal, [Next]_vars,
                    NEW n \in notices', n.lookup = "missing", Target(n.event)' \in 1 .. (n.event - 1)
             PROVE  Target(n.event)' \notin Range(stored')
  BY DEF RecoveryLookupIsFinal
<1>1. CASE n \notin notices
  BY <1>1, LookupsGrow DEF Target
<1>2. CASE n \in notices
  <2>1. n.event \in Past /\ n.event \in Ids /\ Target(n.event)' = Target(n.event)
    BY <1>2, PastNumbers, TargetsKept DEF Full, Past
  <2>2. n.event \in Inbound
    BY <2>1, PastNumbers DEF Full
  <2>a. PICK e, x : e = n.event /\ x = Target(n.event)
    OBVIOUS
  <2>b. e \in 1 .. MaxArrivals /\ x \in 1 .. (e - 1) /\ MaxArrivals \in Nat
    BY <2>1, <2>2, <2>a, ConstantsAssumption DEF ConstantsAssumption, Inbound
  <2>c. x < e /\ x \in 1 .. MaxArrivals
    BY <2>b
  <2>3. Target(n.event) \in 1 .. (n.event - 1) /\ Target(n.event) \in Inbound
    BY <2>a, <2>b, <2>c DEF Inbound
  <2>4. Target(n.event) \notin Range(stored)
    BY <1>2, <2>3 DEF RecoveryLookupIsFinal
  <2>5. CASE stored' = stored
    BY <2>1, <2>4, <2>5
  <2>6. ASSUME NEW y, stored' = Append(stored, y), y \in Inbound => \A i \in Past : i < y
        PROVE  Target(n.event) \notin Range(stored')
    <3>1. Range(stored') = Range(stored) \cup {y}
      BY <2>6, AppendRange DEF Full, Typed, TypeOK, TypeRecords
    <3>2. y \in Inbound => e < y
      BY <2>1, <2>6, <2>a
    <3>3. y # x
      BY <2>b, <2>c, <3>2 DEF Inbound
    <3> QED BY <2>4, <2>a, <3>1, <3>3
  <2> QED BY <2>1, <2>5, <2>6, RowsGrow
<1> QED BY <1>1, <1>2

LEMMA NextKnows ==
  Full /\ PastInv /\ LatencyKnowsEarlierRows /\ [Next]_vars => LatencyKnowsEarlierRows'
<1> SUFFICES ASSUME Full, PastInv, LatencyKnowsEarlierRows, [Next]_vars,
                    NEW row \in latency', NEW m \in DOMAIN stored', NEW n \in DOMAIN stored',
                    m < n, stored'[m] = Target(row.receipt)', stored'[n] = row.receipt
             PROVE  row.lookup # "missing"
  BY DEF LatencyKnowsEarlierRows
<1>1. CASE row \notin latency
  BY <1>1, LookupsGrow DEF Target, Range
<1>2. CASE row \in latency
  <2>1. row.receipt \in Past /\ row.receipt \in Ids /\ Target(row.receipt)' = Target(row.receipt)
    BY <1>2, PastNumbers, TargetsKept DEF Full, Past
  <2>2. CASE stored' = stored
    BY <1>2, <2>1, <2>2 DEF LatencyKnowsEarlierRows
  <2>3. ASSUME NEW y, stored' = Append(stored, y), y \in Inbound => \A e \in Past : e < y
        PROVE  row.lookup # "missing"
    <3>1. y # row.receipt
      BY <2>1, <2>3, PastNumbers DEF Full, Ids
    <3>2. stored \in Seq(Inbound \cup Outbound)
      BY DEF Full, Typed, TypeOK, TypeRecords
    <3>3. n \in DOMAIN stored /\ m \in DOMAIN stored /\ stored'[m] = stored[m] /\ stored'[n] = stored[n]
      BY <2>3, <3>1, <3>2
    <3> QED BY <1>2, <2>1, <3>3 DEF LatencyKnowsEarlierRows
  <2> QED BY <2>2, <2>3, RowsGrow
<1> QED BY <1>1, <1>2

(* The invariant under both lookups.                                       *)
LEMMA PastCorrect == Spec => [](Full /\ PastInv)
<1>1. Init => PastInv
  BY DEF Init, PastInv, Past, Ids, Range
<1> QED BY <1>1, InitFull, NextFull, NextPast, PTL DEF Spec

(* When recoverAndNotify is answered that an original which arrived before *)
(* the revoke has no row, no later save produces one, however many events  *)
(* arrive, fail, are recovered or die with the process.  A failed query is *)
(* no such answer, though the code takes it for one.                       *)
THEOREM LookupsAreFinal == Spec => []RecoveryLookupIsFinal
<1>1. Init => RecoveryLookupIsFinal
  BY DEF Init, RecoveryLookupIsFinal
<1> QED BY <1>1, PastCorrect, NextFinal, PTL DEF Spec

(* recordReceiptLatency is answered that a sent message has no row only if *)
(* the message's row was saved after the receipt's; otherwise its own row  *)
(* has the send time, unless the query failed.                             *)
THEOREM LatencySeesEarlierRows == Spec => []LatencyKnowsEarlierRows
<1>1. Init => LatencyKnowsEarlierRows
  BY DEF Init, LatencyKnowsEarlierRows
<1> QED BY <1>1, PastCorrect, NextKnows, PTL DEF Spec

-----------------------------------------------------------------------------
(* Each arrival in one place.                                              *)

(* The worker leaves its event to gone, or keeps it.                       *)
LEMMA ReturnPlace ==
  ASSUME NEW t, \/ \E how \in Endings : Return(t, how)
                \/ \E label \in Busy : Goto(t, label)
  PROVE  \/ UNCHANGED <<cur, gone>>
         \/ /\ t = Worker /\ cur' = 0
            /\ \E how \in Endings : gone' = gone \cup {[event |-> cur, how |-> how]}
<1>1. CASE \/ \E label \in Busy : Goto(t, label)
           \/ t # Worker /\ \E how \in Endings : Return(t, how)
  BY <1>1 DEF Goto, Return
<1>2. ASSUME t = Worker, NEW how \in Endings, Return(t, how)
      PROVE  cur' = 0 /\ \E h \in Endings : gone' = gone \cup {[event |-> cur, how |-> h]}
  <2>1. /\ cur' = 0
        /\ gone' = gone \cup {[event |-> cur, how |-> IF reply = None THEN how ELSE "answered"]}
    BY <1>2 DEF Return, WorkerDone
  <2>2. (IF reply = None THEN how ELSE "answered") \in Endings
    BY DEF Endings
  <2> QED BY <2>1, <2>2
<1> QED BY <1>1, <1>2

(* One more event that left memory.                                        *)
LEMMA LeftGrows ==
  ASSUME NEW S, NEW i, NEW how
  PROVE  {g.event : g \in S \cup {[event |-> i, how |-> how]}} = {g.event : g \in S} \cup {i}
<1> DEFINE new == [event |-> i, how |-> how]
<1>1. new.event = i
  OBVIOUS
<1> HIDE DEF new
<1>2. {g.event : g \in S \cup {new}} = {g.event : g \in S} \cup {new.event}
  OBVIOUS
<1> QED BY <1>1, <1>2 DEF new

LEMMA PlaceStep ==
  ASSUME Full, PlaceInv, UNCHANGED <<arrivals, queue>>,
         \/ UNCHANGED <<cur, gone>>
         \/ /\ cur # 0 /\ cur' = 0
            /\ \E how \in Endings : gone' = gone \cup {[event |-> cur, how |-> how]}
  PROVE  PlaceInv'
<1>1. CASE UNCHANGED <<cur, gone>>
  BY <1>1 DEF PlaceInv, Ids
<1>2. ASSUME cur # 0, cur' = 0, NEW how \in Endings,
             gone' = gone \cup {[event |-> cur, how |-> how]}
      PROVE  PlaceInv'
  <2>1. cur \in Ids /\ 0 \notin Ids /\ cur \notin Range(queue)
    BY <1>2, QueueNumbers DEF Full, LogInv, QueueAhead, Ids, Range, Typed, TypeOK, TypeQueues
  <2>2. {g.event : g \in gone'} = {g.event : g \in gone} \cup {cur}
    BY <1>2, LeftGrows
  <2>3. Ids' \subseteq Range(queue') \cup {cur'} \cup {g.event : g \in gone'}
    BY <2>2 DEF PlaceInv, Ids
  <2>4. \A g \in gone' : g.event \in Ids' \ (Range(queue') \cup {cur'})
    BY <1>2, <2>1 DEF PlaceInv, Ids
  <2>5. \A g, h \in gone' : g.event = h.event => g = h
    BY <1>2 DEF PlaceInv
  <2> QED BY <2>3, <2>4, <2>5 DEF PlaceInv
<1> QED BY <1>1, <1>2

LEMMA ArrivePlace == ASSUME Full, PlaceInv, NEW k \in Delivered, Arrive(k) PROVE PlaceInv'
<1> DEFINE new == Len(arrivals) + 1
<1>1. Len(arrivals) \in Nat /\ Ids' = Ids \cup {new}
  BY ArriveTarget DEF Full
<1>2. UNCHANGED cur /\ Enqueue(new)
  BY DEF Arrive
<1>3. new \notin Ids /\ cur # new /\ new \notin Range(queue)
  BY <1>1, QueueNumbers DEF Full, LogInv, QueueAhead, Ids, Range
<1> HIDE DEF new
<1>4. CASE queue' = Append(queue, new) /\ gone' = gone
  <2>1. Range(queue') = Range(queue) \cup {new}
    BY <1>4, AppendRange DEF Full, Typed, TypeOK, TypeQueues
  <2> QED BY <1>1, <1>2, <1>3, <1>4, <2>1 DEF PlaceInv
<1>5. CASE queue' = queue /\ gone' = gone \cup {[event |-> new, how |-> "dropped"]}
  <2>1. {g.event : g \in gone'} = {g.event : g \in gone} \cup {new}
    BY <1>5, LeftGrows
  <2>2. Ids' \subseteq Range(queue') \cup {cur'} \cup {g.event : g \in gone'}
    BY <1>1, <1>2, <1>5, <2>1 DEF PlaceInv
  <2>3. \A g \in gone' : g.event \in Ids' \ (Range(queue') \cup {cur'})
    BY <1>1, <1>2, <1>3, <1>5 DEF PlaceInv
  <2>4. \A g, h \in gone' : g.event = h.event => g = h
    BY <1>3, <1>5 DEF PlaceInv
  <2> QED BY <2>2, <2>3, <2>4 DEF PlaceInv
<1> QED BY <1>2, <1>4, <1>5 DEF Enqueue

LEMMA TakePlace == ASSUME Full, PlaceInv, Take PROVE PlaceInv'
<1>1. /\ queue \in Seq(Inbound) /\ queue # <<>> /\ cur = 0 /\ cur' = Head(queue)
      /\ queue' = Tail(queue) /\ UNCHANGED <<arrivals, gone>>
  BY DEF Take, outside, Full, Typed, TypeOK, TypeQueues, ThreadShape
<1>2. Range(queue) = Range(queue') \cup {cur'}
  <2>1. Head(queue) \in Range(queue) /\ Range(Tail(queue)) \subseteq Range(queue)
    BY <1>1 DEF Range
  <2>2. ASSUME NEW n \in DOMAIN queue, n # 1 PROVE queue[n] \in Range(Tail(queue))
    <3>1. n - 1 \in DOMAIN Tail(queue) /\ Tail(queue)[n - 1] = queue[n]
      BY <1>1, <2>2
    <3> QED BY <3>1 DEF Range
  <2> QED BY <1>1, <2>1, <2>2 DEF Range
<1>3. 0 \notin Ids
  BY DEF Ids
<1> QED BY <1>1, <1>2, <1>3 DEF PlaceInv, Ids

LEMMA SavePlace == ASSUME Full, PlaceInv, NEW t \in Threads, Save(t) PROVE PlaceInv'
<1>1. UNCHANGED <<arrivals, queue>>
  BY DEF Save, CheckShutdown, SaveRow, SaveFails, Publish, untouched, outside
<1>2. \/ \E how \in Endings : Return(t, how)
      \/ \E label \in Busy : Goto(t, label)
  BY DEF Save, CheckShutdown, SaveRow, SaveFails, Publish, Busy, Saving, Endings
<1>3. t = Worker => cur # 0
  BY DEF Full, Typed, ThreadShape, Save, CheckShutdown, SaveRow, SaveFails, Publish, Saving
<1> QED BY <1>1, <1>2, <1>3, ReturnPlace, PlaceStep

LEMMA HandlePlace == ASSUME Full, PlaceInv, HandleAsync PROVE PlaceInv'
<1>1. CASE Answer
  BY <1>1, PlaceStep DEF Answer
<1>2. CASE HandleSave \/ HandleReject \/ HandleIgnored \/ Download \/ AnswerFails
  <2>1. pc[Worker] = "handle" /\ UNCHANGED <<arrivals, queue>>
    BY <1>2 DEF HandleSave, HandleReject, HandleIgnored, Download, AnswerFails, Handling, untouched, outside
  <2>2. \/ \E how \in Endings : Return(Worker, how)
        \/ \E label \in Busy : Goto(Worker, label)
    BY <1>2 DEF HandleSave, HandleReject, HandleIgnored, Download, AnswerFails, Endings, Busy, Saving
  <2>3. cur # 0
    BY <2>1 DEF Full, Typed, ThreadShape
  <2> QED BY <2>1, <2>2, <2>3, ReturnPlace, PlaceStep
<1> QED BY <1>1, <1>2 DEF HandleAsync

LEMMA RestartPlace == ASSUME Full, PlaceInv, Restart PROVE PlaceInv'
<1> DEFINE lost == Range(queue) \cup ({cur} \ {0})
<1>1. /\ gone' = gone \cup {[event |-> i, how |-> "lost"] : i \in lost}
      /\ queue' = <<>> /\ cur' = 0 /\ UNCHANGED arrivals
  BY DEF Restart
<1>2. lost \subseteq Ids /\ 0 \notin Ids
  <2>1. \A n \in DOMAIN queue : queue[n] \in Ids
    BY QueueNumbers DEF Full, LogInv, QueueAhead, Ids, Inbound, Typed, TypeOK, TypeQueues
  <2>2. cur # 0 => cur \in Ids
    BY DEF Full, LogInv, QueueAhead, Ids, Inbound, Typed, TypeOK, TypeQueues
  <2> QED BY <2>1, <2>2 DEF Ids, Range
<1>3. \A g \in gone : g.event \notin lost
  BY DEF PlaceInv
<1>4. Ids \subseteq lost \cup {g.event : g \in gone}
  BY <1>2 DEF PlaceInv
<1>5. Range(queue') = {}
  BY <1>1 DEF Range
<1> HIDE DEF lost
<1>6. {g.event : g \in gone'} = lost \cup {g.event : g \in gone}
  <2>1. \A i \in lost : [event |-> i, how |-> "lost"] \in gone' /\ [event |-> i, how |-> "lost"].event = i
    BY <1>1
  <2>2. \A g \in gone' : g \in gone \/ g.event \in lost
    BY <1>1
  <2> QED BY <1>1, <2>1, <2>2
<1>7. \A g \in gone' : g.event \in Ids
  BY <1>1, <1>2 DEF PlaceInv
<1>8. \A g, h \in gone' : g.event = h.event => g = h
  BY <1>1, <1>3 DEF PlaceInv
<1> QED BY <1>1, <1>2, <1>4, <1>5, <1>6, <1>7, <1>8 DEF PlaceInv, Ids

LEMMA NextPlace == Full /\ PlaceInv /\ [Next]_vars => PlaceInv'
<1> SUFFICES ASSUME Full, PlaceInv, [Next]_vars PROVE PlaceInv'
  OBVIOUS
<1>1. CASE \/ RecordLatency \/ SetShuttingDown \/ UNCHANGED vars
           \/ \E o \in Outbound : SendOutside(o)
           \/ \E e \in recovering : Recover(e)
  <2>1. UNCHANGED <<arrivals, queue, cur, gone>>
    BY <1>1 DEF RecordLatency, SetShuttingDown, SendOutside, Recover, vars, outside, worker
  <2> QED BY <2>1, PlaceStep
<1> QED BY <1>1, ArrivePlace, TakePlace, HandlePlace, SavePlace, RestartPlace DEF Next

-----------------------------------------------------------------------------
(* What the event in hand has passed, and what one that left has been      *)
(* through.                                                                *)

(* Rows, feed, webhooks and screening only grow, and the only inbound row  *)
(* a step can add is that of the event in hand.                            *)
LEMMA OutputGrows ==
  ASSUME Full, [Next]_vars
  PROVE  /\ Range(stored) \subseteq Range(stored') /\ Range(published) \subseteq Range(published')
         /\ hooked \subseteq hooked' /\ screened \subseteq screened'
         /\ \A x \in Range(stored') \cap Inbound : x \in Range(stored) \/ x = cur
<1>1. stored \in Seq(Inbound \cup Outbound) /\ published \in Seq(Inbound \cup Outbound)
  BY DEF Full, Typed, TypeOK, TypeRecords
<1>2. ASSUME NEW t \in Threads, SaveRow(t)
      PROVE  /\ Range(stored') = Range(stored) \cup {Item(t)}
             /\ UNCHANGED <<published, hooked, screened>>
             /\ Item(t) \in Inbound => Item(t) = cur
  <2>1. /\ pc[t] \in Saving /\ stored' = Append(stored, Item(t))
        /\ UNCHANGED <<published, hooked, screened>>
    BY <1>2 DEF SaveRow, Saving
  <2> QED BY <1>1, <2>1, AppendRange, FreshItem
<1>3. ASSUME NEW t \in Threads, Publish(t)
      PROVE  Range(published) \subseteq Range(published') /\ UNCHANGED <<stored, hooked, screened>>
  <2>1. published' = Append(published, Item(t)) /\ UNCHANGED <<stored, hooked, screened>>
    BY <1>3 DEF Publish
  <2> QED BY <1>1, <2>1, AppendRange
<1>4. CASE \E t \in Threads : CheckShutdown(t) \/ SaveFails(t)
  BY <1>4 DEF CheckShutdown, SaveFails, output
<1>5. CASE HandleAsync
  BY <1>5 DEF HandleAsync, HandleSave, HandleReject, HandleIgnored, Download, Answer, AnswerFails,
              Handling, output
<1>6. CASE \/ \E k \in Delivered : Arrive(k)
           \/ Take \/ RecordLatency \/ SetShuttingDown \/ Restart \/ UNCHANGED vars
           \/ \E o \in Outbound : SendOutside(o)
           \/ \E e \in recovering : Recover(e)
  BY <1>6 DEF Arrive, Take, RecordLatency, SetShuttingDown, Restart, vars, SendOutside, Recover,
              output
<1> QED BY <1>2, <1>3, <1>4, <1>5, <1>6 DEF Next, Save

LEMMA NextPassed == Full /\ PassedInv /\ [Next]_vars => PassedInv'
<1> SUFFICES ASSUME Full, PassedInv, [Next]_vars PROVE PassedInv'
  OBVIOUS
<1> USE ConstantsAssumption DEF ConstantsAssumption
<1> DEFINE Hooking(l) == l \in {"save", "saveFile", "publish"}
<1>1. hooked \subseteq hooked' /\ screened \subseteq screened'
  BY OutputGrows
<1>2. cur # 0 => cur \in Ids
  BY DEF Full, LogInv, QueueAhead, Ids, Inbound, Typed, TypeOK, TypeQueues
<1>3. cur # 0 => Kind(cur)' = Kind(cur) \/ cur' # cur
  BY <1>2, TargetsKept DEF Kind
<1>4. ASSUME cur' \in {cur, 0} PROVE cur' # 0 /\ Kind(cur)' \in Messages => cur' \in screened'
  BY <1>1, <1>3, <1>4 DEF PassedInv
<1>5. ASSUME UNCHANGED <<cur, reply>>, pc'[Worker] = pc[Worker] \/ ~Hooking(pc'[Worker])
      PROVE  PassedInv'
  BY <1>1, <1>4, <1>5 DEF PassedInv
<1>6. ASSUME cur' = 0, ~Hooking(pc'[Worker]) PROVE PassedInv'
  BY <1>6 DEF PassedInv
<1>7. pc \in [Threads -> Saving \cup {"idle", "handle", "publish", "done"}]
  BY DEF Full, Typed, TypeOK, TypeThreads
<1>8. ASSUME NEW t \in Threads, Save(t) PROVE PassedInv'
  <2>1. CASE t # Worker
    <3>1. UNCHANGED <<cur, reply>> /\ pc'[Worker] = pc[Worker]
      BY <1>7, <1>8, <2>1 DEF Save, CheckShutdown, SaveRow, SaveFails, Publish, Return, Goto, Threads
    <3> QED BY <1>5, <3>1
  <2>2. CASE t = Worker /\ \E how \in Endings : Return(t, how)
    <3>1. cur' = 0 /\ pc'[Worker] = "idle"
      BY <1>7, <2>2 DEF Return, WorkerDone, Threads
    <3> QED BY <1>6, <3>1
  <2>3. CASE t = Worker /\ \E label \in Busy : Goto(t, label)
    <3>1. UNCHANGED <<cur, reply>>
      BY <2>3 DEF Goto
    <3>2. Hooking(pc'[Worker]) /\ reply = None => cur \in hooked'
      <4>1. CASE CheckShutdown(Worker) /\ ~shuttingDown
        BY <4>1 DEF CheckShutdown, Item
      <4>2. CASE CheckShutdown(Worker) /\ shuttingDown
        BY <1>7, <2>3, <4>2 DEF CheckShutdown, Return, Goto, Threads, Busy, Saving
      <4>3. CASE SaveRow(Worker)
        BY <4>3 DEF SaveRow, PassedInv
      <4>4. CASE SaveFails(Worker)
        BY <1>7, <4>4 DEF SaveFails, Return, Goto, Threads
      <4>5. CASE Publish(Worker)
        BY <4>5 DEF Publish, PassedInv
      <4> QED BY <1>8, <2>3, <4>1, <4>2, <4>3, <4>4, <4>5 DEF Save
    <3> QED BY <1>4, <3>1, <3>2 DEF PassedInv
  <2> QED
    BY <1>8, <2>1, <2>2, <2>3
       DEF Save, CheckShutdown, SaveRow, SaveFails, Publish, Endings, Busy, Saving
<1>9. CASE HandleAsync
  <2>1. CASE Answer
    <3>1. UNCHANGED cur /\ pc'[Worker] = "check"
      BY <1>7, <2>1 DEF Answer, Threads
    <3> QED BY <1>4, <3>1 DEF PassedInv
  <2>2. CASE HandleSave \/ Download
    <3>1. UNCHANGED <<cur, reply>> /\ pc'[Worker] \in {"check", "checkFile"}
      BY <1>7, <2>2 DEF HandleSave, Download, Goto, Threads
    <3> QED BY <1>5, <3>1
  <2>3. CASE HandleReject \/ HandleIgnored \/ AnswerFails
    <3>1. cur' = 0 /\ pc'[Worker] = "idle"
      BY <1>7, <2>3 DEF HandleReject, HandleIgnored, AnswerFails, Return, WorkerDone, Threads
    <3> QED BY <1>6, <3>1
  <2> QED BY <1>9, <2>1, <2>2, <2>3 DEF HandleAsync
<1>10. CASE Take
  <2>1. pc'[Worker] = "handle" /\ screened' = IF Kind(cur)' \in Messages THEN screened \cup {cur'} ELSE screened
    BY <1>7, <1>10 DEF Take, Threads, Kind, outside
  <2> QED BY <2>1 DEF PassedInv
<1>11. CASE Restart
  BY <1>6, <1>11 DEF Restart, Threads
<1>12. CASE \/ (\E o \in Outbound : SendOutside(o)) \/ (\E e \in recovering : Recover(e))
            \/ \E k \in Delivered : Arrive(k)
            \/ RecordLatency \/ SetShuttingDown \/ UNCHANGED vars
  <2>1. UNCHANGED <<cur, reply>> /\ pc'[Worker] = pc[Worker]
    BY <1>7, <1>12 DEF SendOutside, Recover, Arrive, RecordLatency, SetShuttingDown, vars, worker,
                       outside, Threads
  <2> QED BY <1>5, <2>1
<1> QED BY <1>8, <1>9, <1>10, <1>11, <1>12 DEF Next

LeftInv == \A g \in gone : LeftAsRecorded(g)

Kept == Full /\ PlaceInv /\ PassedInv /\ LeftInv

(* What was true of an event when it left stays true.                      *)
LEMMA LeftStays == ASSUME Kept, [Next]_vars, NEW g \in gone PROVE LeftAsRecorded(g)'
<1>1. /\ Range(stored) \subseteq Range(stored') /\ Range(published) \subseteq Range(published')
      /\ hooked \subseteq hooked' /\ screened \subseteq screened'
      /\ \A x \in Range(stored') \cap Inbound : x \in Range(stored) \/ x = cur
  BY OutputGrows DEF Kept
<1>2. g.event \in Ids /\ g.event # cur /\ g.event \in Inbound
  BY DEF Kept, PlaceInv, Full, Typed, TypeOK, TypeHistories
<1>3. Kind(g.event)' = Kind(g.event)
  BY <1>2, TargetsKept DEF Kept
<1>4. LeftAsRecorded(g)
  BY DEF Kept, LeftInv
<1> QED BY <1>1, <1>2, <1>3, <1>4 DEF LeftAsRecorded

(* The worker leaves an event as stored after it has published its row,    *)
(* and otherwise without a row.                                            *)
LEMMA FinishLeft ==
  ASSUME Kept, NEW how \in Endings, Return(Worker, how), pc[Worker] # "idle",
         UNCHANGED <<arrivals, stored, screened>>, hooked \subseteq hooked',
         \/ how # "stored" /\ pc[Worker] # "publish"
         \/ /\ how = "stored" /\ pc[Worker] = "publish"
            /\ published' = Append(published, Item(Worker)),
         NEW g \in gone' \ gone
  PROVE  LeftAsRecorded(g)'
<1> USE DEF Kept, Full
<1>1. g = [event |-> cur, how |-> IF reply = None THEN how ELSE "answered"]
  BY DEF Return, WorkerDone
<1>2. g.event = cur /\ g.how = IF reply = None THEN how ELSE "answered"
  BY <1>1
<1>3. cur # 0 /\ cur \in Inbound /\ Kind(g.event)' = Kind(g.event)
  BY DEF Typed, TypeOK, TypeQueues, ThreadShape, Kind
<1>4. CASE how = "stored" /\ reply = None
  <2>1. Item(Worker) = cur /\ pc[Worker] = "publish" /\ Worker \in Threads
    BY <1>4 DEF Item, Threads
  <2>2. Range(published') = Range(published) \cup {cur}
    BY <1>4, <2>1, AppendRange DEF Typed, TypeOK, TypeRecords
  <2>3. cur \in Range(stored') \cap Range(published') \cap hooked'
    BY <1>4, <2>1, <2>2 DEF LogInv, OneRow, PassedInv
  <2>4. Kind(g.event)' \in Messages => g.event \in screened'
    BY <1>2, <1>3 DEF PassedInv
  <2> QED BY <1>2, <1>4, <2>3, <2>4 DEF LeftAsRecorded
<1>5. CASE ~(how = "stored" /\ reply = None)
  <2>1. g.how # "stored"
    BY <1>2, <1>5
  <2>2. cur \notin Range(stored)
    BY <1>3, <1>5 DEF LogInv, RowsBehind
  <2> QED BY <1>2, <2>1, <2>2 DEF LeftAsRecorded
<1> QED BY <1>4, <1>5

LEMMA SaveLeft ==
  ASSUME Kept, NEW t \in Threads, Save(t), NEW g \in gone' \ gone
  PROVE  LeftAsRecorded(g)'
<1>1. t = Worker
  BY DEF Save, CheckShutdown, SaveRow, SaveFails, Publish, Return, Goto
<1>2. pc[Worker] # "idle" /\ UNCHANGED <<arrivals, screened>> /\ hooked \subseteq hooked'
  BY <1>1 DEF Save, CheckShutdown, SaveRow, SaveFails, Publish, Saving, untouched, outside, output
<1>3. CASE CheckShutdown(Worker)
  <2>1. Return(Worker, "unsaved") /\ UNCHANGED stored /\ pc[Worker] # "publish" /\ "unsaved" \in Endings
    BY <1>3 DEF CheckShutdown, Goto, Endings
  <2> QED BY <1>2, <2>1, FinishLeft
<1>4. CASE SaveRow(Worker)
  BY <1>4 DEF SaveRow, Goto
<1>5. CASE SaveFails(Worker)
  <2>1. Return(Worker, "unsaved") /\ UNCHANGED stored /\ pc[Worker] # "publish" /\ "unsaved" \in Endings
    BY <1>5 DEF SaveFails, Goto, Endings, output, Saving
  <2> QED BY <1>2, <2>1, FinishLeft
<1>6. CASE Publish(Worker)
  <2>1. /\ Return(Worker, "stored") /\ UNCHANGED stored /\ pc[Worker] = "publish"
        /\ published' = Append(published, Item(Worker)) /\ "stored" \in Endings
    BY <1>6 DEF Publish, Endings
  <2> QED BY <1>2, <2>1, FinishLeft
<1> QED BY <1>1, <1>3, <1>4, <1>5, <1>6 DEF Save

LEMMA HandleLeft ==
  ASSUME Kept, HandleAsync, NEW g \in gone' \ gone
  PROVE  LeftAsRecorded(g)'
<1>1. \E how \in Endings \ {"stored"} : Return(Worker, how)
  BY DEF HandleAsync, HandleSave, HandleReject, HandleIgnored, Download, Answer, AnswerFails, Goto,
         Endings
<1>2. /\ pc[Worker] = "handle"
      /\ UNCHANGED <<arrivals, stored, screened, hooked>>
  BY DEF HandleAsync, HandleSave, HandleReject, HandleIgnored, Download, Answer, AnswerFails,
         Handling, untouched, outside, output
<1> QED BY <1>1, <1>2, FinishLeft

LEMMA ArriveLeft ==
  ASSUME Kept, NEW k \in Delivered, Arrive(k), NEW g \in gone' \ gone
  PROVE  LeftAsRecorded(g)'
<1> DEFINE new == Len(arrivals) + 1
<1>1. g = [event |-> new, how |-> "dropped"] /\ UNCHANGED stored
  BY DEF Arrive, Enqueue, output
<1>2. Len(arrivals) \in Nat
  BY ArriveTarget DEF Kept, Full
<1>3. new \in Inbound => new \notin Range(stored)
  BY <1>2 DEF Kept, Full, LogInv, RowsBehind
<1>4. new \in Inbound
  <2>1. Len(arrivals) < MaxArrivals
    BY DEF Arrive
  <2> QED BY <1>2, <2>1, ConstantsAssumption DEF ConstantsAssumption, Inbound
<1> HIDE DEF new
<1>5. g.event = new /\ g.how = "dropped"
  BY <1>1
<1> QED BY <1>1, <1>3, <1>4, <1>5 DEF LeftAsRecorded

LEMMA NextLeft == Kept /\ [Next]_vars => LeftInv'
<1> SUFFICES ASSUME Kept, [Next]_vars, NEW g \in gone' \ gone PROVE LeftAsRecorded(g)'
  BY LeftStays DEF LeftInv
<1>1. CASE Restart
  <2>1. g.how = "lost"
    BY <1>1 DEF Restart
  <2> QED BY <2>1 DEF LeftAsRecorded
<1>2. CASE \/ Take \/ RecordLatency \/ SetShuttingDown \/ UNCHANGED vars
           \/ \E o \in Outbound : SendOutside(o)
           \/ \E e \in recovering : Recover(e)
  BY <1>2 DEF Take, RecordLatency, SetShuttingDown, SendOutside, Recover, vars
<1> QED BY <1>1, <1>2, ArriveLeft, HandleLeft, SaveLeft DEF Next

(* In one place, by number: what PlaceInv and the order of the queue say.  *)
LEMMA OnePlace ==
  ASSUME Kept, NEW i \in Ids
  PROVE  Cardinality({n \in DOMAIN queue : queue[n] = i}) + Cardinality({g \in gone : g.event = i})
           + (IF cur = i THEN 1 ELSE 0) = 1
<1> DEFINE waiting == {n \in DOMAIN queue : queue[n] = i}
           left    == {g \in gone : g.event = i}
<1> USE DEF Kept
<1>1. queue \in Seq(Inbound) /\ \A n \in DOMAIN queue : queue[n] \in Int
  BY QueueNumbers DEF Full
<1>2. waiting = {} \/ \E n : waiting = {n} /\ n \in DOMAIN queue /\ queue[n] = i
  <2>1. \A m, n \in waiting : m = n
    BY <1>1 DEF Full, LogInv, QueueAhead
  <2> QED BY <2>1
<1>3. left = {} \/ \E g : left = {g} /\ g \in gone /\ g.event = i
  <2>1. \A g, h \in left : g = h
    BY DEF PlaceInv
  <2> QED BY <2>1
<1>4. i \in Range(queue) <=> waiting # {}
  BY DEF Range
<1>5. i \in {g.event : g \in gone} <=> left # {}
  OBVIOUS
<1>6. cur = i => i \notin Range(queue)
  BY <1>1, QueueNumbers DEF Full, LogInv, QueueAhead, Range
<1>7. waiting # {} \/ left # {} \/ cur = i
  BY <1>4, <1>5 DEF PlaceInv
<1>8. left # {} => waiting = {} /\ cur # i
  BY <1>4, <1>5 DEF PlaceInv
<1>9. Cardinality({}) = 0 /\ (\A x : Cardinality({x}) = 1)
  BY FS_EmptySet, FS_Singleton
<1> HIDE DEF waiting, left
<1>10. Cardinality(waiting) = IF waiting = {} THEN 0 ELSE 1
  BY <1>2, <1>9
<1>11. Cardinality(left) = IF left = {} THEN 0 ELSE 1
  BY <1>3, <1>9
<1>12. Cardinality(waiting) + Cardinality(left) + (IF cur = i THEN 1 ELSE 0) = 1
  BY <1>4, <1>6, <1>7, <1>8, <1>10, <1>11
<1> QED BY <1>12 DEF waiting, left

(* Nothing is handled twice and nothing vanishes, for queues of any size,  *)
(* any number of events and any number of crashes: an arrival waits, is in *)
(* hand, or left memory once, in the way that is recorded of it.           *)
THEOREM ArrivalsAreAccountedFor == Spec => []EachArrivalOnce
<1>1. Init => Kept
  BY InitFull, ConstantsAssumption
     DEF ConstantsAssumption, Init, Kept, PlaceInv, PassedInv, LeftInv, Ids, Threads
<1>2. Kept /\ [Next]_vars => Kept'
  BY NextFull, NextPlace, NextPassed, NextLeft DEF Kept
<1>3. Kept => EachArrivalOnce
  BY OnePlace DEF EachArrivalOnce, Kept, LeftInv
<1> QED BY <1>1, <1>2, <1>3, PTL DEF Spec
=============================================================================
