---------------------------- MODULE WebhookProofs ----------------------------
(***************************************************************************)
(* Webhooks.  For any number of deliveries: a confirmed one is not         *)
(* repeated, every attempt is logged or known to be unsaved, a retry takes *)
(* the current URL.  For lists of any contents and any number of edits and *)
(* walks: what an edit leaves, and what a dispatch calls.                  *)
(***************************************************************************)
EXTENDS MCMessaging, SequenceTheorems, FiniteSetTheorems, TLAPS

(***************************************************************************)
(* Deliveries.                                                             *)
(***************************************************************************)
(* Nothing was attempted before the goroutine runs; its pointer is to its  *)
(* own slot; an attempt that was made has an outcome.                      *)
PhaseShape ==
  \A d \in Deliveries :
    /\ delivery[d].phase \in {"new", "taking"} =>
         delivery[d].attempt = 0 /\ delivery[d].pointer = NoUrl
    /\ delivery[d].pointer \in {NoUrl, delivery[d].slot}
    /\ delivery[d].phase = "logging" => delivery[d].outcome \in {"delivered", "failed"}

(* What was received belongs to an attempt made by now; a request that has *)
(* an outcome "delivered" was received.                                    *)
ReceivedBehind ==
  /\ \A q \in received :
       /\ q.attempt <= delivery[q.delivery].attempt
       /\ delivery[q.delivery].phase = "posting" => q.attempt < delivery[q.delivery].attempt
  /\ \A d \in Deliveries : delivery[d].phase = "logging" /\ delivery[d].outcome = "delivered" =>
       \E q \in received : q.delivery = d /\ q.attempt = delivery[d].attempt

(* A row belongs to an attempt that is over; a delivered one to the last.  *)
RowsBehindAttempt ==
  \A r \in rows :
    LET now == delivery[r.delivery]
    IN /\ r.attempt <= now.attempt
       /\ now.phase \in {"posting", "logging"} => r.attempt < now.attempt
       /\ r.status = "delivered" =>
            /\ now.phase \in {"ended", "killed"} /\ r.attempt = now.attempt
            /\ \E q \in received : q.delivery = r.delivery /\ q.attempt = r.attempt

DeliveryInv == TypeOK /\ PhaseShape /\ ReceivedBehind /\ RowsBehindAttempt /\ EveryAttemptLogged

(* The invariant says more than that a confirmed request is not repeated.  *)
LEMMA InvImpliesConfirmedOnce == DeliveryInv => ConfirmedOnce
<1> SUFFICES ASSUME DeliveryInv,
                    NEW r \in rows, r.status = "delivered"
             PROVE  /\ \E q \in received : q.delivery = r.delivery /\ q.attempt = r.attempt
                    /\ \A q \in received : q.delivery = r.delivery => q.attempt <= r.attempt
  BY DEF ConfirmedOnce
<1>1. r.attempt = delivery[r.delivery].attempt
  BY DEF DeliveryInv, RowsBehindAttempt
<1> QED BY <1>1 DEF DeliveryInv, RowsBehindAttempt, ReceivedBehind

LEMMA InitDelivery == Init => DeliveryInv
<1> SUFFICES ASSUME Init PROVE DeliveryInv
  OBVIOUS
<1> USE DeliveryAssumption DEF DeliveryAssumption
<1>1. Fresh \in [phase : Phases, slot : Slots, pointer : Slots \cup {NoUrl},
                 attempt : 0 .. Attempts, outcome : Outcomes]
  BY DEF Fresh, Phases, Outcomes
<1>2. \A d \in Deliveries : delivery[d] = Fresh
  BY DEF Init
<1>3. Fresh.phase = "new" /\ Fresh.attempt = 0 /\ Fresh.pointer = NoUrl
  BY DEF Fresh
<1>4. /\ TypeOK
      /\ PhaseShape
  <2>1. delivery \in [Deliveries -> [phase : Phases, slot : Slots, pointer : Slots \cup {NoUrl},
                                     attempt : 0 .. Attempts, outcome : Outcomes]]
    BY <1>1 DEF Init
  <2>2. \A d \in Deliveries : delivery[d].phase = "new"
    BY <1>2, <1>3
  <2>3. TypeOK
    <3>1. /\ url \in [Slots -> Urls \cup {NoUrl}]
          /\ received = {} /\ rows = {} /\ unsaved = {} /\ purged = {}
          /\ stopping \in BOOLEAN /\ changes \in 0 .. MaxChanges
      <4>1. /\ url \in [Slots -> Urls \cup {NoUrl}]
            /\ received = {} /\ rows = {} /\ unsaved = {} /\ purged = {}
            /\ stopping = FALSE /\ changes = 0
        BY Zenon DEF Init
      <4>2. stopping \in BOOLEAN
        BY <4>1, Zenon
      <4>3. changes \in 0 .. MaxChanges
        BY <4>1, SMT
      <4> QED BY <4>1, <4>2, <4>3, Zenon
    <3> QED BY <2>1, <2>2, <3>1 DEF TypeOK
  <2>4. PhaseShape
    BY <1>2, <1>3 DEF PhaseShape
  <2> QED BY <2>3, <2>4
<1>5. ReceivedBehind /\ RowsBehindAttempt
  BY <1>2 DEF Init, ReceivedBehind, RowsBehindAttempt, Fresh
<1>6. EveryAttemptLogged
  BY <1>2, <1>3 DEF Init, EveryAttemptLogged, Done
<1> QED BY <1>4, <1>5, <1>6 DEF DeliveryInv

(* What the steps of one delivery leave alone.                             *)
OnlyDelivery(d) ==
  /\ delivery' \in [Deliveries -> [phase : Phases, slot : Slots, pointer : Slots \cup {NoUrl},
                                   attempt : 0 .. Attempts, outcome : Outcomes]]
  /\ \A e \in Deliveries \ {d} : delivery'[e] = delivery[e]

(* Before it posts, a delivery has neither requests nor rows.              *)
LEMMA SendStep ==
  ASSUME DeliveryInv, NEW d \in Deliveries, NEW slot \in Slots, Send(d, slot)
  PROVE  DeliveryInv'
<1> USE DeliveryAssumption DEF DeliveryAssumption
<1>1. /\ OnlyDelivery(d) /\ delivery'[d].attempt = 0 /\ delivery[d].attempt = 0
      /\ delivery'[d].phase \in {"ended", "taking"} /\ delivery'[d].pointer = NoUrl
      /\ delivery[d].phase = "new"
  BY DEF Send, DeliveryInv, TypeOK, PhaseShape, OnlyDelivery, Phases, Outcomes
<1>2. UNCHANGED <<url, received, rows, unsaved, purged, stopping, changes>>
  BY DEF Send, log
<1>3. TypeOK'
  BY <1>1, <1>2 DEF DeliveryInv, TypeOK, OnlyDelivery
<1>4. PhaseShape'
  BY <1>1 DEF DeliveryInv, PhaseShape, OnlyDelivery
<1>5. ReceivedBehind'
  BY <1>1, <1>2 DEF DeliveryInv, ReceivedBehind, OnlyDelivery, TypeOK
<1>6. RowsBehindAttempt'
  BY <1>1, <1>2 DEF DeliveryInv, RowsBehindAttempt, OnlyDelivery, TypeOK
<1>7. EveryAttemptLogged'
  <2>1. \A e \in Deliveries : Done(e)' = Done(e)
    BY <1>1 DEF Done, OnlyDelivery
  <2>2. \A e \in Deliveries : delivery'[e].attempt = delivery[e].attempt \/ Done(e)' = {}
    BY <1>1 DEF Done, OnlyDelivery
  <2> QED BY <1>2, <2>1, <2>2 DEF DeliveryInv, EveryAttemptLogged
<1> QED BY <1>3, <1>4, <1>5, <1>6, <1>7 DEF DeliveryInv

LEMMA SendAsyncStep ==
  ASSUME DeliveryInv, NEW d \in Deliveries, SendAsync(d)
  PROVE  DeliveryInv'
<1> USE DeliveryAssumption DEF DeliveryAssumption
<1>1. /\ OnlyDelivery(d) /\ delivery'[d].attempt = 1 /\ delivery[d].attempt = 0
      /\ delivery'[d].phase = "posting"
      /\ delivery'[d].pointer \in {NoUrl, delivery'[d].slot}
      /\ delivery[d].phase = "taking"
  BY DEF SendAsync, DeliveryInv, TypeOK, PhaseShape, OnlyDelivery, Phases, Outcomes
<1>2. UNCHANGED <<url, received, rows, unsaved, purged, stopping, changes>>
  BY DEF SendAsync, log
<1>3. TypeOK'
  BY <1>1, <1>2 DEF DeliveryInv, TypeOK, OnlyDelivery
<1>4. PhaseShape'
  BY <1>1 DEF DeliveryInv, PhaseShape, OnlyDelivery
<1>5. ReceivedBehind'
  BY <1>1, <1>2 DEF DeliveryInv, ReceivedBehind, OnlyDelivery, TypeOK
<1>6. RowsBehindAttempt'
  BY <1>1, <1>2 DEF DeliveryInv, RowsBehindAttempt, OnlyDelivery, TypeOK
<1>7. EveryAttemptLogged'
  <2>1. \A e \in Deliveries : Done(e)' = Done(e)
    BY <1>1 DEF Done, OnlyDelivery
  <2>2. \A e \in Deliveries : delivery'[e].attempt = delivery[e].attempt \/ Done(e)' = {}
    BY <1>1 DEF Done, OnlyDelivery
  <2> QED BY <1>2, <2>1, <2>2 DEF DeliveryInv, EveryAttemptLogged
<1> QED BY <1>3, <1>4, <1>5, <1>6, <1>7 DEF DeliveryInv

(* A request is received in the attempt that posts it.                     *)
LEMMA PostStep ==
  ASSUME DeliveryInv, NEW d \in Deliveries, Post(d)
  PROVE  DeliveryInv'
<1> USE DeliveryAssumption DEF DeliveryAssumption
<1> DEFINE new == [delivery |-> d, attempt |-> delivery[d].attempt, url |-> Target(d)]
<1>1. PICK outcome \in {"delivered", "failed"} :
        /\ Attempted(d, outcome)
        /\ \/ received' = received /\ outcome = "failed"
           \/ received' = received \cup {new} /\ Target(d) # NoUrl
  BY DEF Post
<1>2. /\ OnlyDelivery(d) /\ delivery'[d].attempt = delivery[d].attempt
      /\ delivery[d].attempt \in 1 .. Attempts
      /\ delivery'[d].phase = "logging" /\ delivery'[d].outcome = outcome
      /\ delivery'[d].pointer = delivery[d].pointer /\ delivery'[d].slot = delivery[d].slot
      /\ delivery[d].phase = "posting"
  BY <1>1 DEF Post, Attempted, DeliveryInv, TypeOK, OnlyDelivery, Phases, Outcomes
<1>3. UNCHANGED <<url, rows, unsaved, purged, stopping, changes>>
  BY DEF Post
<1>4. Target(d) \in Urls \cup {NoUrl}
  BY DEF Target, DeliveryInv, TypeOK
<1>5. received \subseteq received' /\ received' \subseteq received \cup {new}
  BY <1>1
<1>6. TypeOK'
  BY <1>1, <1>2, <1>3, <1>4 DEF DeliveryInv, TypeOK, OnlyDelivery
<1>7. PhaseShape'
  BY <1>2 DEF DeliveryInv, PhaseShape, OnlyDelivery
<1>8. ReceivedBehind'
  <2>1. \A q \in received' :
          /\ q.attempt <= delivery'[q.delivery].attempt
          /\ delivery'[q.delivery].phase = "posting" => q.attempt < delivery'[q.delivery].attempt
    BY <1>2, <1>5 DEF DeliveryInv, ReceivedBehind, OnlyDelivery, TypeOK
  <2>2. \A e \in Deliveries : delivery'[e].phase = "logging" /\ delivery'[e].outcome = "delivered" =>
          \E q \in received' : q.delivery = e /\ q.attempt = delivery'[e].attempt
    <3> SUFFICES ASSUME NEW e \in Deliveries,
                        delivery'[e].phase = "logging", delivery'[e].outcome = "delivered"
                 PROVE  \E q \in received' : q.delivery = e /\ q.attempt = delivery'[e].attempt
      OBVIOUS
    <3>1. CASE e = d
      <4>1. new \in received'
        BY <1>1, <1>2, <3>1
      <4> QED BY <1>2, <3>1, <4>1
    <3>2. CASE e # d
      BY <1>2, <1>5, <3>2 DEF DeliveryInv, ReceivedBehind, OnlyDelivery
    <3> QED BY <3>1, <3>2
  <2> QED BY <2>1, <2>2 DEF ReceivedBehind
<1>9. RowsBehindAttempt'
  BY <1>2, <1>3, <1>5 DEF DeliveryInv, RowsBehindAttempt, OnlyDelivery, TypeOK
<1>10. EveryAttemptLogged'
  <2>1. \A e \in Deliveries : Done(e)' = Done(e) /\ delivery'[e].attempt = delivery[e].attempt
    BY <1>2 DEF Done, OnlyDelivery
  <2> QED BY <1>3, <2>1 DEF DeliveryInv, EveryAttemptLogged
<1> QED BY <1>6, <1>7, <1>8, <1>9, <1>10 DEF DeliveryInv

(* After an attempt the goroutine ends or begins the next one.             *)
LEMMA Advanced ==
  ASSUME DeliveryInv, NEW d \in Deliveries, delivery[d].phase = "logging", Advance(d)
  PROVE  /\ OnlyDelivery(d)
         /\ delivery[d].attempt \in 1 .. Attempts
         /\ delivery[d].outcome \in {"delivered", "failed"}
         /\ delivery'[d].pointer = delivery[d].pointer /\ delivery'[d].slot = delivery[d].slot
         /\ \/ /\ delivery'[d].phase = "ended" /\ delivery'[d].attempt = delivery[d].attempt
            \/ /\ delivery'[d].phase = "posting" /\ delivery'[d].attempt = delivery[d].attempt + 1
               /\ delivery[d].outcome = "failed"
<1> USE DeliveryAssumption DEF DeliveryAssumption
<1>1. /\ delivery[d].attempt \in 1 .. Attempts
      /\ delivery[d].outcome \in {"delivered", "failed"}
  BY DEF DeliveryInv, TypeOK, PhaseShape
<1>2. CASE delivery[d].outcome = "delivered" \/ delivery[d].attempt = Attempts
  <2>1. delivery' = [delivery EXCEPT ![d].phase = "ended", ![d].attempt = delivery[d].attempt]
    BY <1>2 DEF Advance
  <2> QED BY <1>1, <2>1, ZenonT(40) DEF DeliveryInv, TypeOK, OnlyDelivery, Phases, Outcomes
<1>3. CASE ~(delivery[d].outcome = "delivered" \/ delivery[d].attempt = Attempts)
  <2>1. delivery' = [delivery EXCEPT ![d].phase = "posting", ![d].attempt = delivery[d].attempt + 1]
    BY <1>3 DEF Advance
  <2>2. delivery[d].attempt + 1 \in 0 .. Attempts /\ delivery[d].outcome = "failed"
    BY <1>1, <1>3
  <2> QED BY <1>1, <2>1, <2>2 DEF DeliveryInv, TypeOK, OnlyDelivery, Phases, Outcomes
<1> QED BY <1>2, <1>3

LEMMA LogStep ==
  ASSUME DeliveryInv, NEW d \in Deliveries, Log(d) \/ LogFails(d)
  PROVE  DeliveryInv'
<1> USE DeliveryAssumption DEF DeliveryAssumption
<1> DEFINE missing == [delivery |-> d, attempt |-> delivery[d].attempt]
<1>1. /\ delivery[d].phase = "logging" /\ Advance(d)
      /\ UNCHANGED <<url, received, purged, stopping, changes>>
      /\ rows \subseteq rows' /\ rows' \subseteq rows \cup {Row(d)}
      /\ unsaved \subseteq unsaved' /\ unsaved' \subseteq unsaved \cup {missing}
      /\ Row(d) \in rows' \/ missing \in unsaved'
      /\ rows' # rows => Target(d) # NoUrl
  BY DEF Log, LogFails
<1>2. /\ OnlyDelivery(d)
      /\ delivery[d].attempt \in 1 .. Attempts
      /\ delivery[d].outcome \in {"delivered", "failed"}
      /\ delivery'[d].pointer = delivery[d].pointer /\ delivery'[d].slot = delivery[d].slot
      /\ \/ /\ delivery'[d].phase = "ended" /\ delivery'[d].attempt = delivery[d].attempt
         \/ /\ delivery'[d].phase = "posting" /\ delivery'[d].attempt = delivery[d].attempt + 1
            /\ delivery[d].outcome = "failed"
  BY <1>1, Advanced
<1>3. Target(d) \in Urls \cup {NoUrl}
  BY DEF Target, DeliveryInv, TypeOK
<1>4. TypeOK'
  <2>1. rows' \subseteq [delivery : Deliveries, attempt : 1 .. Attempts, url : Urls,
                         status : {"delivered", "failed"}]
    BY <1>1, <1>2, <1>3 DEF DeliveryInv, TypeOK, Row
  <2>2. unsaved' \subseteq Attempt
    BY <1>1, <1>2 DEF DeliveryInv, TypeOK, Attempt
  <2> QED BY <1>1, <1>2, <2>1, <2>2 DEF DeliveryInv, TypeOK, OnlyDelivery
<1>5. PhaseShape'
  BY <1>2 DEF DeliveryInv, PhaseShape, OnlyDelivery
<1>6. ReceivedBehind'
  BY <1>1, <1>2 DEF DeliveryInv, ReceivedBehind, OnlyDelivery, TypeOK
<1>7. RowsBehindAttempt'
  <2> SUFFICES ASSUME NEW r \in rows'
               PROVE  /\ r.attempt <= delivery'[r.delivery].attempt
                      /\ delivery'[r.delivery].phase \in {"posting", "logging"} =>
                           r.attempt < delivery'[r.delivery].attempt
                      /\ r.status = "delivered" =>
                           /\ delivery'[r.delivery].phase \in {"ended", "killed"}
                           /\ r.attempt = delivery'[r.delivery].attempt
                           /\ \E q \in received' : q.delivery = r.delivery /\ q.attempt = r.attempt
    BY DEF RowsBehindAttempt
  <2>1. CASE r \in rows
    BY <1>1, <1>2, <2>1 DEF DeliveryInv, RowsBehindAttempt, OnlyDelivery, TypeOK
  <2>2. CASE r = Row(d)
    BY <1>1, <1>2, <2>2 DEF Row, DeliveryInv, ReceivedBehind, OnlyDelivery
  <2> QED BY <1>1, <2>1, <2>2
<1>8. EveryAttemptLogged'
  <2>1. purged' = purged
    BY <1>1
  <2>2. ASSUME NEW e \in Deliveries \ purged, NEW n \in Done(e)'
        PROVE  \/ [delivery |-> e, attempt |-> n] \in unsaved'
               \/ \E r \in rows' : /\ r.delivery = e /\ r.attempt = n
                                   /\ r.status = "delivered" => n = delivery'[e].attempt
    <3>1. CASE n \in Done(e) /\ (e = d => n < delivery[d].attempt)
      <4>1. CASE [delivery |-> e, attempt |-> n] \in unsaved
        BY <1>1, <4>1
      <4>2. CASE [delivery |-> e, attempt |-> n] \notin unsaved
        <5>1. PICK r \in rows : /\ r.delivery = e /\ r.attempt = n
                                /\ r.status = "delivered" => n = delivery[e].attempt
          BY <3>1, <4>2 DEF DeliveryInv, EveryAttemptLogged
        <5>2. r.status = "delivered" => n = delivery'[e].attempt
          BY <1>2, <3>1, <5>1 DEF OnlyDelivery
        <5> QED BY <1>1, <5>1, <5>2
      <4> QED BY <4>1, <4>2
    <3>2. CASE ~(n \in Done(e) /\ (e = d => n < delivery[d].attempt))
      <4>1. e = d /\ n = delivery[d].attempt
        BY <1>1, <1>2, <3>2 DEF Done, OnlyDelivery
      <4>2. Row(d).status = "delivered" => n = delivery'[d].attempt
        BY <1>2, <4>1 DEF Row
      <4>3. Row(d).delivery = d /\ Row(d).attempt = n
        BY <4>1 DEF Row
      <4> QED BY <1>1, <4>1, <4>2, <4>3
    <3> QED BY <3>1, <3>2
  <2>3. ASSUME NEW r \in rows', NEW t \in rows',
               r.delivery = t.delivery, r.attempt = t.attempt, r.delivery \notin purged
        PROVE  r = t
    <3>1. \A x \in rows : x.delivery = d => x.attempt < delivery[d].attempt
      BY <1>1 DEF DeliveryInv, RowsBehindAttempt
    <3>2. \A x \in rows : x.attempt \in Nat /\ x.delivery \in Deliveries
      BY DEF DeliveryInv, TypeOK
    <3>3. Row(d).delivery = d /\ Row(d).attempt = delivery[d].attempt
      BY DEF Row
    <3>4. CASE r \in rows /\ t \in rows
      BY <2>3, <3>2, <3>4 DEF DeliveryInv, EveryAttemptLogged
    <3>5. CASE r = Row(d) \/ t = Row(d)
      BY <1>1, <1>2, <2>3, <3>1, <3>2, <3>3, <3>5
    <3> QED BY <1>1, <3>4, <3>5
  <2> QED BY <2>1, <2>2, <2>3 DEF EveryAttemptLogged
<1> QED BY <1>4, <1>5, <1>6, <1>7, <1>8 DEF DeliveryInv

LEMMA PurgeStep ==
  ASSUME DeliveryInv, NEW d \in Deliveries, Purge(d)
  PROVE  DeliveryInv'
<1>1. /\ UNCHANGED <<url, delivery, received, unsaved, stopping, changes>>
      /\ rows' = {r \in rows : r.delivery # d} /\ purged' = purged \cup {d}
  BY DEF Purge
<1>2. EveryAttemptLogged'
  BY <1>1 DEF DeliveryInv, EveryAttemptLogged, Done
<1> QED BY <1>1, <1>2 DEF DeliveryInv, TypeOK, PhaseShape, ReceivedBehind, RowsBehindAttempt

LEMMA ExitStep ==
  ASSUME DeliveryInv, Exit
  PROVE  DeliveryInv'
<1>1. UNCHANGED <<url, received, rows, unsaved, purged, stopping, changes>>
  BY DEF Exit, log
<1>2. /\ delivery' \in [Deliveries -> [phase : Phases, slot : Slots, pointer : Slots \cup {NoUrl},
                                       attempt : 0 .. Attempts, outcome : Outcomes]]
      /\ \A d \in Deliveries :
           /\ delivery'[d].attempt = delivery[d].attempt
           /\ delivery'[d].pointer = delivery[d].pointer /\ delivery'[d].slot = delivery[d].slot
           /\ delivery'[d].phase \in {"ended", "killed"}
           /\ delivery'[d].phase = "ended" => delivery[d].phase = "ended"
  BY ZenonT(40) DEF Exit, DeliveryInv, TypeOK, Phases
<1>3. TypeOK'
  BY <1>1, <1>2 DEF DeliveryInv, TypeOK
<1>4. PhaseShape'
  BY <1>2 DEF DeliveryInv, PhaseShape
<1>5. ReceivedBehind'
  BY <1>1, <1>2 DEF DeliveryInv, ReceivedBehind, TypeOK
<1>6. RowsBehindAttempt'
  BY <1>1, <1>2 DEF DeliveryInv, RowsBehindAttempt, TypeOK
<1>7. EveryAttemptLogged'
  <2>1. \A e \in Deliveries : Done(e)' \subseteq Done(e)
    BY <1>2 DEF Done, DeliveryInv, TypeOK
  <2> QED BY <1>1, <1>2, <2>1 DEF DeliveryInv, EveryAttemptLogged
<1> QED BY <1>3, <1>4, <1>5, <1>6, <1>7 DEF DeliveryInv

LEMMA ConfigureStep ==
  ASSUME DeliveryInv, NEW slot \in Slots, NEW u \in Urls \cup {NoUrl}, Configure(slot, u)
  PROVE  DeliveryInv'
<1> USE DeliveryAssumption DEF DeliveryAssumption
<1>1. UNCHANGED <<delivery, received, rows, unsaved, purged, stopping>>
  BY DEF Configure, log
<1>2. url' \in [Slots -> Urls \cup {NoUrl}] /\ changes' \in 0 .. MaxChanges
  BY DEF Configure, DeliveryInv, TypeOK
<1> QED BY <1>1, <1>2 DEF DeliveryInv, TypeOK, PhaseShape, ReceivedBehind, RowsBehindAttempt,
                      EveryAttemptLogged, Done

LEMMA NextDelivery == DeliveryInv /\ [Next]_vars => DeliveryInv'
<1> SUFFICES ASSUME DeliveryInv, [Next]_vars PROVE DeliveryInv'
  OBVIOUS
<1>1. CASE \E slot \in Slots, u \in Urls \cup {NoUrl} : Configure(slot, u)
  BY <1>1, ConfigureStep
<1>2. CASE \E d \in Deliveries, slot \in Slots : Send(d, slot)
  BY <1>2, SendStep
<1>3. CASE \E d \in Deliveries : Deliver(d)
  BY <1>3, SendAsyncStep, PostStep, LogStep DEF Deliver
<1>4. CASE \E d \in Deliveries : Purge(d)
  BY <1>4, PurgeStep
<1>5. CASE SetShuttingDown
  BY <1>5 DEF SetShuttingDown, log, DeliveryInv, TypeOK, PhaseShape, ReceivedBehind, RowsBehindAttempt,
              EveryAttemptLogged, Done
<1>6. CASE Exit
  BY <1>6, ExitStep
<1>7. CASE UNCHANGED vars
  BY <1>7 DEF vars, DeliveryInv, TypeOK, PhaseShape, ReceivedBehind, RowsBehindAttempt,
              EveryAttemptLogged, Done
<1> QED BY <1>1, <1>2, <1>3, <1>4, <1>5, <1>6, <1>7 DEF Next

LEMMA DeliveryInvHolds == Spec => []DeliveryInv
BY InitDelivery, NextDelivery, PTL DEF Spec

(* Whatever receivers answer, however often a webhook is changed: a row    *)
(* that says delivered belongs to a request that was received, and none    *)
(* was sent after it.                                                      *)
THEOREM ConfirmedIsLast == Spec => []ConfirmedOnce
BY DeliveryInvHolds, InvImpliesConfirmedOnce, PTL

(* No attempt is without a row unless its row could not be saved, and none *)
(* has two.                                                                *)
THEOREM AttemptsAreLogged == Spec => []EveryAttemptLogged
<1>1. DeliveryInv => EveryAttemptLogged
  BY DEF DeliveryInv
<1> QED BY <1>1, DeliveryInvHolds, PTL

(* A request goes to the URL that is configured at that moment.            *)
THEOREM RetriesAreCurrent == Spec => CurrentUrlOnly
<1>1. DeliveryInv /\ [Next]_vars =>
        [\A q \in received' \ received : q.url = url[delivery[q.delivery].slot]]_vars
  <2> SUFFICES ASSUME DeliveryInv, Next, NEW q \in received' \ received
               PROVE  q.url = url[delivery[q.delivery].slot]
    OBVIOUS
  <2> USE DeliveryAssumption DEF DeliveryAssumption
  <2>1. PICK d \in Deliveries : Post(d)
    BY DEF Next, Configure, Send, Deliver, SendAsync, Log, LogFails, Purge, SetShuttingDown, Exit, log
  <2>2. /\ Target(d) # NoUrl
        /\ q = [delivery |-> d, attempt |-> delivery[d].attempt, url |-> Target(d)]
    BY <2>1 DEF Post
  <2>3. delivery[d].pointer = delivery[d].slot /\ delivery[d].slot \in Slots
    BY <2>2 DEF Target, DeliveryInv, TypeOK, PhaseShape
  <2> QED BY <2>2, <2>3 DEF Target
<1> QED BY <1>1, DeliveryInvHolds, PTL DEF Spec, CurrentUrlOnly

(***************************************************************************)
(* The lists of webhooks.                                                  *)
(***************************************************************************)

(* What every state of the lists, their edits and walks satisfies.         *)
ListsInv == L!TypeOK /\ L!LoneInv /\ L!WalkInv

Cells(k) == L!Hook(k) \cup {L!Spare}
Array(k)  == Seq(Cells(k))

LEMMA SameUrl ==
  ASSUME NEW k \in L!Kinds, NEW hook \in L!Hook(k), NEW u \in STRING
  PROVE  [hook EXCEPT !.url = u] \in L!Hook(k) /\ [hook EXCEPT !.url = u].key = hook.key
BY DEF L!Hook

(* Two hooks of a kind with the same key differ in their URLs only.        *)
LEMMA SameHook ==
  ASSUME NEW k \in L!Kinds, NEW old \in L!Hook(k), NEW hook \in L!Hook(k), old.key = hook.key
  PROVE  [old EXCEPT !.url = hook.url] = hook
BY DEF L!Hook

LEMMA Slice ==
  ASSUME NEW X, NEW Y, NEW a \in Seq(X \cup Y), NEW n \in Nat, n <= Len(a),
         \A i \in 1 .. n : a[i] \in X
  PROVE  /\ SubSeq(a, 1, n) \in Seq(X) /\ Len(SubSeq(a, 1, n)) = n
         /\ DOMAIN SubSeq(a, 1, n) = 1 .. n
         /\ \A i \in 1 .. n : SubSeq(a, 1, n)[i] = a[i]
<1>1. SubSeq(a, 1, n) = [i \in 1 .. n |-> a[i]]
  OBVIOUS
<1>2. SubSeq(a, 1, n) \in Seq(X)
  BY <1>1
<1> QED BY <1>1, <1>2

(* What a sound slice holds, before a step and after it.                   *)
LEMMA AtSlice ==
  ASSUME NEW k \in L!Kinds, NEW s \in L!Slices, L!Sound(k, s),
         memory[k] \in Seq(Array(k))
  PROVE  /\ L!At(k, s) \in Seq(L!Hook(k)) /\ Len(L!At(k, s)) = s.len
         /\ DOMAIN L!At(k, s) = 1 .. s.len
         /\ \A i \in 1 .. s.len : L!At(k, s)[i] = memory[k][s.array][i]
<1> PICK a, n : a = memory[k][s.array] /\ n = s.len
  OBVIOUS
<1>1. a \in Seq(L!Hook(k) \cup {L!Spare}) /\ n \in Nat /\ n <= Len(a)
      /\ \A i \in 1 .. n : a[i] \in L!Hook(k)
  BY DEF L!Sound, L!Slices, Array, Cells
<1>2. L!At(k, s) = SubSeq(a, 1, n)
  BY DEF L!At
<1> QED BY <1>1, <1>2, Slice

LEMMA NextSlice ==
  ASSUME NEW k \in L!Kinds, list'[k] \in L!Slices, L!Sound(k, list[k])',
         memory'[k] \in Seq(Array(k))
  PROVE  /\ L!Hooks(k)' \in Seq(L!Hook(k)) /\ Len(L!Hooks(k)') = list'[k].len
         /\ DOMAIN L!Hooks(k)' = 1 .. list'[k].len
         /\ \A i \in 1 .. list'[k].len : L!Hooks(k)'[i] = memory'[k][list'[k].array][i]
<1> PICK a, n : a = memory'[k][list'[k].array] /\ n = list'[k].len
  OBVIOUS
<1>1. a \in Seq(L!Hook(k) \cup {L!Spare}) /\ n \in Nat /\ n <= Len(a)
      /\ \A i \in 1 .. n : a[i] \in L!Hook(k)
  BY DEF L!Sound, L!Slices, Array, Cells
<1>2. L!Hooks(k)' = SubSeq(a, 1, n)
  BY DEF L!Hooks, L!At
<1> QED BY <1>1, <1>2, Slice

(* The sequences a slice may turn into.                                    *)
LEMMA Removed ==
  ASSUME NEW X, NEW s \in Seq(X), NEW at \in DOMAIN s
  PROVE  L!RemoveAt(s, at) = [i \in 1 .. Len(s) - 1 |-> IF i < at THEN s[i] ELSE s[i + 1]]
         /\ L!RemoveAt(s, at) \in Seq(X)
<1> DEFINE front == SubSeq(s, 1, at - 1)
           back  == SubSeq(s, at + 1, Len(s))
<1>1. at \in 1 .. Len(s) /\ Len(s) \in Nat
  OBVIOUS
<1>2. front \in Seq(X) /\ Len(front) = at - 1 /\ \A i \in 1 .. at - 1 : front[i] = s[i]
  BY <1>1
<1>3. /\ back \in Seq(X) /\ Len(back) = Len(s) - at
      /\ \A i \in 1 .. Len(s) - at : back[i] = s[at + i]
  BY <1>1
<1>4. L!RemoveAt(s, at) = front \o back
  BY DEF L!RemoveAt
<1> HIDE DEF front, back
<1>5. front \o back \in Seq(X) /\ Len(front \o back) = Len(s) - 1
  BY <1>1, <1>2, <1>3
<1>6. \A i \in 1 .. Len(s) - 1 : (front \o back)[i] = IF i < at THEN s[i] ELSE s[i + 1]
  <2> TAKE i \in 1 .. Len(s) - 1
  <2>1. CASE i < at
    BY <2>1, <1>1, <1>2, <1>3
  <2>2. CASE ~(i < at)
    <3>1. i - (at - 1) \in 1 .. Len(s) - at /\ at + (i - (at - 1)) = i + 1
      BY <2>2, <1>1
    <3>2. (front \o back)[i] = back[i - (at - 1)]
      <4>1. i \in 1 .. Len(front) + Len(back) /\ ~(i <= Len(front)) /\ i - Len(front) = i - (at - 1)
        BY <2>2, <1>1, <1>2, <1>3
      <4>2. (front \o back)[i] = IF i <= Len(front) THEN front[i] ELSE back[i - Len(front)]
        <5>1. front \in Seq(X) /\ back \in Seq(X)
          BY <1>2, <1>3
        <5>2. \A j \in 1 .. Len(front) + Len(back) :
                (front \o back)[j] = IF j <= Len(front) THEN front[j] ELSE back[j - Len(front)]
          BY <5>1, ConcatProperties, Zenon
        <5> QED BY <4>1, <5>2, Zenon
      <4>3. (front \o back)[i] = back[i - Len(front)]
        BY <4>1, <4>2, Zenon
      <4> QED BY <4>1, <4>3, Zenon
    <3>3. back[i - (at - 1)] = s[i + 1]
      BY <3>1, <1>3
    <3> QED BY <3>2, <3>3, <2>2
  <2> QED BY <2>1, <2>2
<1>7. front \o back = [i \in 1 .. Len(s) - 1 |-> (front \o back)[i]]
  <2> DEFINE c == front \o back
  <2>1. c \in Seq(X) /\ Len(c) = Len(s) - 1
    BY <1>5
  <2> HIDE DEF c
  <2>2. c = [i \in 1 .. Len(s) - 1 |-> c[i]]
    BY <2>1
  <2> QED BY <2>2 DEF c
<1>8. front \o back = [i \in 1 .. Len(s) - 1 |-> IF i < at THEN s[i] ELSE s[i + 1]]
  BY <1>6, <1>7, Zenon
<1> QED BY <1>4, <1>5, <1>8, Zenon

LEMMA Replaced ==
  ASSUME NEW X, NEW s \in Seq(X), NEW i \in DOMAIN s, NEW x \in X
  PROVE  /\ [s EXCEPT ![i] = x] \in Seq(X) /\ Len([s EXCEPT ![i] = x]) = Len(s)
         /\ DOMAIN [s EXCEPT ![i] = x] = DOMAIN s
         /\ \A j \in DOMAIN s : [s EXCEPT ![i] = x][j] = IF j = i THEN x ELSE s[j]
OBVIOUS

(***************************************************************************)
(* Writing to memory.                                                      *)
(***************************************************************************)

(* What no write undoes: arrays keep their places and lengths, written     *)
(* slots stay written, and other kinds have memory of their own.           *)
Kept(k) ==
  /\ memory' = [j \in L!Kinds |-> memory'[j]]
  /\ \A j \in L!Kinds : memory'[j] \in Seq(Array(j))
  /\ \A j \in L!Kinds \ {k} : memory'[j] = memory[j]
  /\ \A a \in DOMAIN memory[k] :
       /\ a \in DOMAIN memory'[k] /\ Len(memory'[k][a]) = Len(memory[k][a])
       /\ \A i \in DOMAIN memory[k][a] :
            memory[k][a][i] \in L!Hook(k) => memory'[k][a][i] \in L!Hook(k)

Memory ==
  memory = [k \in L!Kinds |-> memory[k]] /\ \A k \in L!Kinds : memory[k] \in Seq(Array(k))

LEMMA SoundStays ==
  ASSUME Memory, NEW k \in L!Kinds, Kept(k), NEW j \in L!Kinds, NEW s \in L!Slices, L!Sound(j, s)
  PROVE  L!Sound(j, s)'
<1> SUFFICES L!Sound(j, s) /\ memory'[j] # memory[j] => L!Sound(j, s)'
  BY DEF L!Sound
<1> SUFFICES ASSUME j = k PROVE L!Sound(j, s)'
  BY DEF Kept
<1>1. /\ s.array \in DOMAIN memory[k] /\ s.len <= Len(memory[k][s.array])
      /\ \A i \in 1 .. s.len : memory[k][s.array][i] \in L!Hook(k)
  BY DEF L!Sound
<1>2. memory[k][s.array] \in Array(k)
  BY <1>1 DEF Memory
<1>3. \A i \in 1 .. s.len : i \in DOMAIN memory[k][s.array]
  BY <1>1, <1>2 DEF Array, L!Slices
<1> QED BY <1>1, <1>3 DEF L!Sound, Kept

(* One element is written.                                                 *)
LEMMA Written ==
  ASSUME Memory, NEW k \in L!Kinds, NEW a \in DOMAIN memory[k], NEW i \in DOMAIN memory[k][a],
         NEW hook \in L!Hook(k), memory' = L!Put(k, a, i, hook)
  PROVE  /\ Kept(k)
         /\ DOMAIN memory'[k] = DOMAIN memory[k]
         /\ \A b \in DOMAIN memory[k] : \A j \in DOMAIN memory[k][b] :
              memory'[k][b][j] = IF b = a /\ j = i THEN hook ELSE memory[k][b][j]
<1> DEFINE old == memory[k]
<1>1. old \in Seq(Array(k)) /\ old[a] \in Array(k)
  BY DEF Memory
<1>2. memory' = [memory EXCEPT ![k] = [old EXCEPT ![a] = [old[a] EXCEPT ![i] = hook]]]
  BY DEF L!Put
<1>3. memory' = [j \in L!Kinds |-> memory'[j]] /\ memory'[k] = [old EXCEPT ![a] = [old[a] EXCEPT ![i] = hook]]
      /\ \A j \in L!Kinds \ {k} : memory'[j] = memory[j]
  BY <1>2 DEF Memory
<1> DEFINE new == [old[a] EXCEPT ![i] = hook]
<1>4. /\ new \in Array(k) /\ Len(new) = Len(old[a])
      /\ \A j \in DOMAIN old[a] : new[j] = IF j = i THEN hook ELSE old[a][j]
  <2>1. hook \in Cells(k)
    BY DEF Cells
  <2> HIDE DEF old
  <2>2. old[a] \in Seq(Cells(k)) /\ i \in DOMAIN old[a]
    BY <1>1 DEF Array, old
  <2> QED BY <2>1, <2>2, Replaced DEF Array
<1>5. memory'[k] = [old EXCEPT ![a] = new]
  BY <1>3
<1> HIDE DEF new, old
<1>6. memory'[k] \in Seq(Array(k)) /\ DOMAIN memory'[k] = DOMAIN old
  BY <1>1, <1>4, <1>5, Replaced DEF old
<1>7. \A b \in DOMAIN old : memory'[k][b] = IF b = a THEN new ELSE old[b]
  BY <1>1, <1>5
<1>8. \A b \in DOMAIN old : \A j \in DOMAIN old[b] :
        memory'[k][b][j] = IF b = a /\ j = i THEN hook ELSE old[b][j]
  BY <1>4, <1>7
<1>9. \A b \in DOMAIN old : Len(memory'[k][b]) = Len(old[b])
  BY <1>4, <1>7
<1>10. Kept(k)
  BY <1>3, <1>6, <1>8, <1>9 DEF Kept, old, Memory
<1> QED BY <1>6, <1>8, <1>10 DEF old

(* An array is added.                                                      *)
LEMMA Grown ==
  ASSUME Memory, NEW k \in L!Kinds, NEW array \in Array(k),
         memory' = [memory EXCEPT ![k] = Append(memory[k], array)]
  PROVE  /\ Kept(k)
         /\ Len(memory[k]) + 1 \in DOMAIN memory'[k]
         /\ memory'[k][Len(memory[k]) + 1] = array
         /\ \A b \in DOMAIN memory[k] : memory'[k][b] = memory[k][b]
<1>1. memory[k] \in Seq(Array(k))
  BY DEF Memory
<1>2. memory' = [j \in L!Kinds |-> memory'[j]] /\ memory'[k] = Append(memory[k], array)
      /\ \A j \in L!Kinds \ {k} : memory'[j] = memory[j]
  BY DEF Memory
<1>3. /\ memory'[k] \in Seq(Array(k))
      /\ DOMAIN memory'[k] = 1 .. Len(memory[k]) + 1
      /\ memory'[k][Len(memory[k]) + 1] = array
      /\ \A b \in DOMAIN memory[k] : b \in DOMAIN memory'[k] /\ memory'[k][b] = memory[k][b]
  BY <1>1, <1>2
<1>4. Kept(k)
  BY <1>2, <1>3 DEF Kept, Memory
<1> QED BY <1>1, <1>3, <1>4

(***************************************************************************)
(* Types.                                                                  *)
(***************************************************************************)

LEMMA UnwrittenMemory ==
  ASSUME Memory, UNCHANGED memory
  PROVE  \A k \in L!Kinds : Kept(k)
BY Zenon DEF Kept, Memory

LEMMA WholeMemory == L!TypeOK => Memory /\ list \in [L!Kinds -> L!Slices]
BY Zenon DEF L!TypeOK, Memory, Array, Cells

(* A step keeps the types if what it changes has them.                     *)
LEMMA TypeStep ==
  ASSUME L!TypeOK, NEW k \in L!Kinds, Kept(k),
         list' \in [L!Kinds -> L!Slices],
         \A j \in L!Kinds : list'[j] = list[j] \/ L!Sound(j, list[j])',
         file' = [j \in L!Kinds |-> file'[j]], \A j \in L!Kinds : file'[j] \in Seq(L!Hook(j)),
         edit' = [q \in Editors |-> edit'[q]], walk' = [w \in Walkers |-> walk'[w]],
         \A q \in Editors :
           \/ edit'[q] = edit[q] \/ edit'[q] = L!Free
           \/ L!EditOK(edit'[q]) /\ L!Sound(edit[q].kind, edit[q].slice)',
         \A w \in Walkers :
           \/ walk'[w] = walk[w]
           \/ L!WalkOK(walk'[w]) /\ L!Sound(walk[w].kind, walk[w].slice)',
         edits' \in 0 .. MaxEdits
  PROVE  L!TypeOK'
<1>1. Memory /\ list \in [L!Kinds -> L!Slices]
  BY WholeMemory
<1>2. /\ memory' = [j \in L!Kinds |-> memory'[j]]
      /\ \A j \in L!Kinds : memory'[j] \in Seq(Seq(L!Hook(j) \cup {L!Spare}))
  BY Zenon DEF Kept, Array, Cells
<1>3. \A j \in L!Kinds : \A s \in L!Slices : L!Sound(j, s) => L!Sound(j, s)'
  BY <1>1, SoundStays
<1>4. \A j \in L!Kinds : L!Sound(j, list[j])'
  <2> TAKE j \in L!Kinds
  <2>1. list[j] \in L!Slices /\ L!Sound(j, list[j])
    BY <1>1 DEF L!TypeOK
  <2>2. CASE list'[j] = list[j]
    BY <2>1, <2>2, <1>3
  <2> QED BY <2>2
<1>5. \A e : L!EditOK(e) => e.kind \in L!Kinds /\ e.slice \in L!Slices
  BY DEF L!EditOK, L!Works
<1>6. \A e : L!WalkOK(e) => e.kind \in L!Kinds /\ e.slice \in L!Slices
  BY DEF L!WalkOK, L!Walks
<1>7. \A q \in Editors : edit'[q] # L!Free =>
        L!EditOK(edit'[q]) /\ L!Sound(edit[q].kind, edit[q].slice)'
  <2> TAKE q \in Editors
  <2>1. CASE edit'[q] = edit[q] /\ edit[q] # L!Free
    <3>1. L!EditOK(edit[q]) /\ L!Sound(edit[q].kind, edit[q].slice)
      BY <2>1 DEF L!TypeOK
    <3> QED BY <2>1, <3>1, <1>3, <1>5
  <2> QED BY <2>1, Zenon
<1>8. \A w \in Walkers : walk'[w] # L!Free =>
        L!WalkOK(walk'[w]) /\ L!Sound(walk[w].kind, walk[w].slice)'
  <2> TAKE w \in Walkers
  <2>1. CASE walk'[w] = walk[w] /\ walk[w] # L!Free
    <3>1. L!WalkOK(walk[w]) /\ L!Sound(walk[w].kind, walk[w].slice)
      BY <2>1 DEF L!TypeOK
    <3> QED BY <2>1, <3>1, <1>3, <1>6
  <2>2. walk[w] = L!Free \/ walk[w] # L!Free
    OBVIOUS
  <2> QED BY <2>1, <2>2, Zenon
<1> QED BY <1>2, <1>4, <1>7, <1>8, Zenon DEF L!TypeOK

(***************************************************************************)
(* What a step of an editor leaves alone.                                  *)
(***************************************************************************)

LEMMA Working ==
  ASSUME L!TypeOK, NEW q \in Editors, edit[q] # L!Free
  PROVE  /\ edit[q].kind \in L!Kinds /\ edit[q].op \in L!Ops /\ edit[q].at \in Nat \ {0}
         /\ edit[q].slice \in L!Slices /\ edit[q].alone \in BOOLEAN
         /\ edit[q].expected \in Seq(L!Hook(edit[q].kind))
         /\ L!EditOK(edit[q]) /\ L!Sound(edit[q].kind, edit[q].slice)
         /\ edit[q].op = "shift" => edit[q].at <= edit[q].slice.len
         /\ edit[q].op \in {"append", "replace"} => edit[q].hook \in L!Hook(edit[q].kind)
<1>1. L!EditOK(edit[q]) /\ L!Sound(edit[q].kind, edit[q].slice)
  BY DEF L!TypeOK
<1> QED BY <1>1 DEF L!EditOK, L!Works

LEMMA InTheList ==
  ASSUME L!TypeOK, NEW w \in Walkers, walk[w] # L!Free
  PROVE  /\ walk[w].kind \in L!Kinds /\ walk[w].op \in {"check", "send", "end"}
         /\ walk[w].slice \in L!Slices /\ walk[w].next \in Nat \ {0}
         /\ walk[w].next <= walk[w].slice.len + 1
         /\ walk[w].start \in Seq(L!Hook(walk[w].kind)) /\ walk[w].torn \in BOOLEAN
         /\ walk[w].fired \in Seq([at : Nat \ {0}, hook : L!Hook(walk[w].kind)])
         /\ walk[w].event \in Dispatches[walk[w].kind]
         /\ L!WalkOK(walk[w]) /\ L!Sound(walk[w].kind, walk[w].slice)
<1>1. L!WalkOK(walk[w]) /\ L!Sound(walk[w].kind, walk[w].slice)
  BY DEF L!TypeOK
<1> QED BY <1>1 DEF L!WalkOK, L!Walks

(* Edits of other lists have the same left to do as before.                *)
LEMMA LeftElsewhere ==
  ASSUME NEW e, memory'[e.kind] = memory[e.kind], list'[e.kind] = list[e.kind], L!Left(e)
  PROVE  L!Left(e)'
<1>1. \A s : L!At(e.kind, s)' = L!At(e.kind, s)
  BY DEF L!At
<1>2. L!Hooks(e.kind)' = L!Hooks(e.kind)
  BY DEF L!Hooks, L!At
<1> QED BY <1>1, <1>2, Zenon DEF L!Left

(* No other edit is touched, so the edits of other lists stay right.       *)
LEMMA LoneStep ==
  ASSUME L!TypeOK, L!LoneInv, NEW q \in Editors, edit[q] # L!Free, NEW e,
         edit' = [edit EXCEPT ![q] = e],
         e = L!Free \/ (e.kind = edit[q].kind /\ e.alone = edit[q].alone),
         \A j \in L!Kinds \ {edit[q].kind} : memory'[j] = memory[j] /\ list'[j] = list[j],
         e # L!Free /\ e.alone => L!Left(edit[q])'
  PROVE  L!LoneInv'
<1>1. /\ edit'[q] = e /\ \A p \in Editors \ {q} : edit'[p] = edit[p]
  BY DEF L!TypeOK
<1>2. \A j : L!Editing(j)' \subseteq L!Editing(j)
  BY <1>1 DEF L!Editing
<1> SUFFICES ASSUME NEW p \in Editors, edit'[p] # L!Free, edit'[p].alone
             PROVE  L!Editing(edit[p].kind)' = {p} /\ L!Left(edit[p])'
  BY Zenon DEF L!LoneInv
<1>3. p \in L!Editing(edit[p].kind)'
  BY DEF L!Editing
<1>4. CASE p = q
  <2>1. L!Editing(edit[q].kind) = {q}
    BY <1>1, <1>4 DEF L!LoneInv
  <2>2. e # L!Free /\ e.alone /\ edit'[q].kind = edit[q].kind
    BY <1>1, <1>4
  <2>3. L!Editing(edit[p].kind)' \subseteq {q}
    BY <1>2, <1>4, <2>1, <2>2
  <2> QED BY <1>3, <1>4, <2>2, <2>3
<1>5. CASE p # q
  <2>1. edit'[p] = edit[p]
    BY <1>1, <1>5
  <2>2. L!Editing(edit[p].kind) = {p} /\ L!Left(edit[p])
    BY <2>1 DEF L!LoneInv
  <2>3. edit[p].kind \in L!Kinds
    BY <2>1, Working
  <2>4. edit[p].kind # edit[q].kind
    BY <1>5, <2>2 DEF L!Editing
  <2>5. \A f : f = edit[p] => L!Left(f)'
    <3> TAKE f
    <3> HAVE f = edit[p]
    <3> QED BY <2>2, <2>3, <2>4, LeftElsewhere
  <2>6. L!Left(edit[p])'
    BY <2>1, <2>5
  <2>7. L!Editing(edit[p].kind)' \subseteq {p}
    BY <1>2, <2>1, <2>2
  <2> QED BY <1>3, <2>6, <2>7
<1> QED BY <1>4, <1>5

(* A step that does not disturb the walks of a list: what the list holds   *)
(* keeps its keys, the list begins with it still, and nobody begins to     *)
(* shift it.  What is being shifted no walk relies on.                     *)
Steady(j) ==
  \/ L!BeingCut(j)
  \/ /\ ~L!BeingCut(j)'
     /\ \A a \in DOMAIN memory[j] : \A i \in DOMAIN memory[j][a] :
          i <= list[j].len /\ memory[j][a][i] \in L!Hook(j)
            => memory'[j][a][i].key = memory[j][a][i].key
     /\ list[j].len <= list'[j].len
     /\ \A i \in 1 .. list[j].len :
          memory'[j][list'[j].array][i].key = memory[j][list[j].array][i].key

LEMMA StillBegins ==
  ASSUME Memory, list \in [L!Kinds -> L!Slices], list' \in [L!Kinds -> L!Slices],
         NEW k \in L!Kinds, L!Sound(k, list[k]), ~L!BeingCut(k), Steady(k),
         NEW s \in L!Slices, L!Sound(k, s), NEW start \in Seq(L!Hook(k)),
         L!Begins(k, list[k], start), L!Begins(k, s, start)
  PROVE  L!Begins(k, list[k], start)' /\ L!Begins(k, s, start)'
<1>1. Len(start) \in Nat /\ DOMAIN start = 1 .. Len(start)
  OBVIOUS
<1>2. /\ list[k].len \in Nat /\ list'[k].len \in Nat /\ s.len \in Nat
      /\ Len(start) <= list[k].len /\ Len(start) <= s.len
  BY DEF L!Begins, L!Slices
<1>3. /\ \A a \in DOMAIN memory[k] : \A i \in DOMAIN memory[k][a] :
           i <= list[k].len /\ memory[k][a][i] \in L!Hook(k)
             => memory'[k][a][i].key = memory[k][a][i].key
      /\ list[k].len <= list'[k].len
      /\ \A i \in 1 .. list[k].len :
           memory'[k][list'[k].array][i].key = memory[k][list[k].array][i].key
  BY DEF Steady
<1>4. \A i \in DOMAIN start : memory'[k][list'[k].array][i].key = start[i].key
  BY <1>1, <1>2, <1>3, SMTT(30) DEF L!Begins
<1>5. \A i \in DOMAIN start : memory'[k][s.array][i].key = start[i].key
  <2> TAKE i \in DOMAIN start
  <2>1. i \in 1 .. s.len /\ i <= list[k].len
    BY <1>1, <1>2
  <2>2. s.array \in DOMAIN memory[k] /\ s.len <= Len(memory[k][s.array])
        /\ memory[k][s.array][i] \in L!Hook(k)
    BY <2>1 DEF L!Sound
  <2>3. memory[k][s.array] \in Seq(Cells(k))
    BY <2>2 DEF Memory, Array
  <2>4. i \in DOMAIN memory[k][s.array]
    BY <2>1, <2>2, <2>3, <1>2
  <2> QED BY <1>3, <2>1, <2>2, <2>4 DEF L!Begins
<1> QED BY <1>1, <1>2, <1>3, <1>4, <1>5 DEF L!Begins

LEMMA FollowsOn ==
  ASSUME L!TypeOK, L!WalkInv, NEW w \in Walkers, walk'[w] = walk[w], walk[w] # L!Free,
         ~walk[w].torn, walk[w].op # "end", NEW k, k = walk[w].kind, Steady(k),
         list' \in [L!Kinds -> L!Slices]
  PROVE  L!Following(walk[w])'
<1>1. /\ walk[w].kind \in L!Kinds /\ walk[w].slice \in L!Slices
      /\ L!Sound(walk[w].kind, walk[w].slice) /\ walk[w].start \in Seq(L!Hook(walk[w].kind))
  BY InTheList
<1>2. /\ ~L!BeingCut(walk[w].kind)
      /\ L!Begins(walk[w].kind, list[walk[w].kind], walk[w].start)
      /\ L!Begins(walk[w].kind, walk[w].slice, walk[w].start)
  BY DEF L!WalkInv, L!Following
<1>3. Memory /\ list \in [L!Kinds -> L!Slices] /\ L!Sound(walk[w].kind, list[walk[w].kind])
  BY <1>1, WholeMemory DEF L!TypeOK
<1>4. \A s \in L!Slices : \A start \in Seq(L!Hook(k)) :
        /\ L!Sound(k, list[k]) /\ ~L!BeingCut(k) /\ Steady(k) /\ L!Sound(k, s)
        /\ L!Begins(k, list[k], start) /\ L!Begins(k, s, start)
        => L!Begins(k, list[k], start)' /\ L!Begins(k, s, start)'
  BY <1>1, <1>3, StillBegins
<1>5. ~L!BeingCut(k)'
  BY <1>2 DEF Steady
<1> QED BY <1>1, <1>2, <1>3, <1>4, <1>5 DEF L!Following

LEMMA WalkStep ==
  ASSUME L!TypeOK, L!WalkInv, list' \in [L!Kinds -> L!Slices],
         \A k \in L!Kinds : \A w \in Walkers : walk[w] # L!Free /\ walk[w].kind = k =>
           walk'[w].torn \/ (walk'[w] = walk[w] /\ Steady(k)),
         \A w \in Walkers : walk[w] = L!Free => walk'[w] = L!Free
  PROVE  L!WalkInv'
<1> SUFFICES ASSUME NEW w \in Walkers, walk'[w] # L!Free, ~walk'[w].torn
             PROVE  /\ L!Called(walk'[w])
                    /\ walk'[w].op # "end" => L!Following(walk[w])'
  BY DEF L!WalkInv
<1>0. walk[w] # L!Free
  OBVIOUS
<1> PICK k \in L!Kinds : k = walk[w].kind
  BY <1>0, InTheList
<1>1. walk'[w] = walk[w] /\ Steady(k) /\ walk[w] # L!Free
  BY <1>0
<1>2. L!Called(walk[w])
  BY <1>1 DEF L!WalkInv
<1>3. walk[w].op # "end" => L!Following(walk[w])'
  BY <1>1, FollowsOn
<1> QED BY <1>1, <1>2, <1>3

(* Walks that are torn keep their types.                                   *)
LEMMA Torn ==
  ASSUME L!TypeOK, NEW k, L!Tear(k)
  PROVE  /\ walk' = [w \in Walkers |-> walk'[w]]
         /\ \A w \in Walkers : walk[w] = L!Free => walk'[w] = L!Free
         /\ \A w \in Walkers : walk[w] # L!Free /\ walk[w].kind # k => walk'[w] = walk[w]
         /\ \A w \in Walkers : walk[w] # L!Free /\ walk[w].kind = k => walk'[w].torn
         /\ \A w \in Walkers : walk[w] # L!Free =>
              L!WalkOK(walk'[w]) /\ walk'[w].kind = walk[w].kind /\ walk'[w].slice = walk[w].slice
<1>1. \A e : L!WalkOK(e) => /\ L!WalkOK([e EXCEPT !.torn = TRUE]) /\ [e EXCEPT !.torn = TRUE].torn
                            /\ [e EXCEPT !.torn = TRUE].kind = e.kind
                            /\ [e EXCEPT !.torn = TRUE].slice = e.slice
  BY DEF L!WalkOK, L!Walks
<1>2. \A w \in Walkers : walk[w] # L!Free => L!WalkOK(walk[w])
  BY DEF L!TypeOK
<1>3. \A w \in Walkers : walk'[w] = IF walk[w] # L!Free /\ walk[w].kind = k
                                    THEN [walk[w] EXCEPT !.torn = TRUE] ELSE walk[w]
  BY DEF L!Tear
<1> QED BY <1>1, <1>2, <1>3 DEF L!Tear

LEMMA NotCut ==
  ASSUME L!TypeOK, NEW q \in Editors, NEW e, edit' = [edit EXCEPT ![q] = e],
         NEW j, e.op # "shift" \/ e.kind # j \/ L!BeingCut(j)
  PROVE  L!BeingCut(j)' => L!BeingCut(j)
<1>1. /\ edit'[q] = e /\ \A p \in Editors \ {q} : edit'[p] = edit[p]
  BY DEF L!TypeOK
<1> QED BY <1>1 DEF L!BeingCut, L!Editing

(***************************************************************************)
(* Each step of an editor.                                                 *)
(***************************************************************************)

LEMMA KnowingLists ==
  ASSUME ListsInv
  PROVE  /\ L!TypeOK /\ L!LoneInv /\ L!WalkInv /\ Memory
         /\ \A k \in L!Kinds : list[k] \in L!Slices /\ L!Sound(k, list[k])
         /\ list \in [L!Kinds -> L!Slices]
         /\ file = [j \in L!Kinds |-> file[j]] /\ \A j \in L!Kinds : file[j] \in Seq(L!Hook(j))
         /\ edit = [p \in Editors |-> edit[p]] /\ walk = [w \in Walkers |-> walk[w]]
         /\ edits \in 0 .. MaxEdits
BY WholeMemory, Zenon DEF ListsInv, L!TypeOK

(* What the list of a kind holds.                                          *)
LEMMA Listed ==
  ASSUME ListsInv, NEW k \in L!Kinds
  PROVE  /\ L!Hooks(k) \in Seq(L!Hook(k)) /\ Len(L!Hooks(k)) = list[k].len
         /\ DOMAIN L!Hooks(k) = 1 .. list[k].len
         /\ \A i \in 1 .. list[k].len : L!Hooks(k)[i] = memory[k][list[k].array][i]
         /\ list[k].len \in Nat /\ list[k].array \in DOMAIN memory[k]
         /\ memory[k] \in Seq(Array(k)) /\ memory[k][list[k].array] \in Array(k)
         /\ list[k].len <= Len(memory[k][list[k].array])
<1>1. list[k] \in L!Slices /\ L!Sound(k, list[k]) /\ memory[k] \in Seq(Array(k))
  BY KnowingLists DEF Memory
<1>2. list[k].array \in DOMAIN memory[k] /\ list[k].len <= Len(memory[k][list[k].array])
      /\ list[k].len \in Nat
  BY <1>1 DEF L!Sound, L!Slices
<1>3. memory[k][list[k].array] \in Array(k)
  BY <1>1, <1>2
<1> QED BY <1>1, <1>2, <1>3, AtSlice DEF L!Hooks

LEMMA SteadyStays ==
  ASSUME ListsInv, NEW j \in L!Kinds, memory'[j] = memory[j], list'[j] = list[j],
         L!BeingCut(j)' => L!BeingCut(j)
  PROVE  Steady(j)
BY Listed DEF Steady

(* An edit begins.                                                         *)
LEMMA BeginEdit ==
  ASSUME ListsInv, NEW q \in Editors, edit[q] = L!Free, NEW k \in L!Kinds,
         NEW op \in {"append", "replace", "cut"}, NEW hook \in L!Hook(k) \cup {L!Spare},
         op # "cut" => hook \in L!Hook(k),
         NEW at \in Nat \ {0}, NEW expected \in Seq(L!Hook(k)),
         \A alone \in BOOLEAN :
           L!Left([op |-> op, kind |-> k, hook |-> hook, at |-> at, slice |-> L!NoSlice,
                   expected |-> expected, alone |-> alone]),
         L!Begin(q, k, op, hook, at, expected)
  PROVE  ListsInv'
<1> DEFINE alone == L!Editing(k) = {}
           e == [op |-> op, kind |-> k, hook |-> hook, at |-> at, slice |-> L!NoSlice,
                 expected |-> expected, alone |-> alone]
<1>1. /\ edits < MaxEdits /\ edits' = edits + 1
      /\ edit' = [p \in Editors |-> IF p = q THEN e
                    ELSE IF p \in L!Editing(k) THEN [edit[p] EXCEPT !.alone = FALSE] ELSE edit[p]]
      /\ UNCHANGED <<memory, list, file, walk>>
  BY DEF L!Begin
<1>2. /\ e.op = op /\ e.kind = k /\ e.hook = hook /\ e.at = at /\ e.slice = L!NoSlice
      /\ e.expected = expected /\ e.alone = alone /\ alone \in BOOLEAN
  OBVIOUS
<1>3. e \in L!Works(k) /\ L!EditOK(e)
  <2>1. L!NoSlice \in L!Slices
    BY DEF L!NoSlice, L!Slices
  <2>2. e \in L!Works(k)
    BY <2>1 DEF L!Works, L!Ops
  <2> HIDE DEF e
  <2> QED BY <1>2, <2>2 DEF L!EditOK
<1>4. L!Left(e)
  BY <1>2
<1> HIDE DEF e
<1>5. e # L!Free
  BY <1>2 DEF L!Free
<1>6. L!Sound(k, L!NoSlice)
  <2>1. memory[k] \in Seq(Array(k)) /\ list[k].array \in DOMAIN memory[k]
    BY Listed
  <2>2. 1 \in DOMAIN memory[k] /\ memory[k][1] \in Array(k)
    BY <2>1
  <2>3. Len(memory[k][1]) \in Nat
    BY <2>2 DEF Array
  <2> QED BY <2>2, <2>3 DEF L!Sound, L!NoSlice
<1>7. \A p \in Editors : p # q =>
        edit'[p] = IF p \in L!Editing(k) THEN [edit[p] EXCEPT !.alone = FALSE] ELSE edit[p]
  BY <1>1
<1>8. edit'[q] = e
  BY <1>1
<1>9. \A p \in Editors : p # q /\ p \in L!Editing(k) =>
        /\ L!EditOK(edit'[p]) /\ edit'[p].kind = edit[p].kind /\ edit'[p].slice = edit[p].slice
        /\ edit'[p] # L!Free /\ edit'[p].op = edit[p].op /\ ~edit'[p].alone
  <2>1. \A f : L!EditOK(f) => LET g == [f EXCEPT !.alone = FALSE]
                              IN L!EditOK(g) /\ g.kind = f.kind /\ g.slice = f.slice
                                 /\ g # L!Free /\ g.op = f.op /\ ~g.alone
    BY DEF L!EditOK, L!Works, L!Free, L!Ops
  <2>2. \A p \in Editors : p \in L!Editing(k) => L!EditOK(edit[p])
    BY Working, KnowingLists DEF L!Editing
  <2> QED BY <1>7, <2>1, <2>2, ZenonT(40)
<1>10. L!TypeOK'
  <2>1. \A p \in Editors : \/ edit'[p] = edit[p]
                           \/ L!EditOK(edit'[p]) /\ L!Sound(edit[p].kind, edit[p].slice)'
    <3> TAKE p \in Editors
    <3>1. CASE p = q
      <4>1. \A f : f = e => L!Sound(f.kind, f.slice)'
        BY <1>1, <1>2, <1>6 DEF L!Sound
      <4> QED BY <1>3, <1>8, <3>1, <4>1
    <3>2. CASE p # q /\ p \in L!Editing(k)
      <4>1. L!Sound(edit[p].kind, edit[p].slice)
        BY <3>2, Working, KnowingLists, SMTT(30) DEF L!Editing
      <4>2. \A f : f.kind = edit[p].kind /\ f.slice = edit[p].slice => L!Sound(f.kind, f.slice)'
        BY <1>1, <4>1 DEF L!Sound
      <4> QED BY <1>9, <3>2, <4>2
    <3> QED BY <1>7, <3>1, <3>2
  <2>2. edit' = [p \in Editors |-> edit'[p]]
    BY <1>1
  <2>3. edits' \in 0 .. MaxEdits
    BY <1>1, HooksAssumption, KnowingLists DEF HooksAssumption
  <2>4. Kept(k)
    BY <1>1, UnwrittenMemory, KnowingLists
  <2> QED BY <1>1, <2>1, <2>2, <2>3, <2>4, TypeStep, KnowingLists
<1>11. L!LoneInv'
  <2> SUFFICES ASSUME NEW p \in Editors, edit'[p] # L!Free, edit'[p].alone
               PROVE  L!Editing(edit[p].kind)' = {p} /\ L!Left(edit[p])'
    BY Zenon DEF L!LoneInv
  <2>1. \A f : L!Left(f) => L!Left(f)'
    BY <1>1, LeftElsewhere
  <2>2. \A j : L!Editing(j)' = IF j = k THEN L!Editing(j) \cup {q} ELSE L!Editing(j)
    <3> TAKE j
    <3>1. \A g \in Editors : g \in L!Editing(j)' <=> ((g = q /\ j = k) \/ g \in L!Editing(j))
      BY <1>2, <1>5, <1>7, <1>8, <1>9 DEF L!Editing
    <3> QED BY <3>1 DEF L!Editing
  <2>3. CASE p = q
    BY <1>2, <1>4, <1>8, <2>1, <2>2, <2>3
  <2>4. CASE p # q
    <3>1. edit'[p] = edit[p] /\ p \notin L!Editing(k)
      BY <1>7, <1>9, <2>4
    <3>2. edit[p].kind # k
      BY <3>1 DEF L!Editing
    <3>3. L!Editing(edit[p].kind) = {p} /\ L!Left(edit[p])
      BY <3>1, KnowingLists DEF L!LoneInv
    <3> QED BY <2>1, <2>2, <3>1, <3>2, <3>3
  <2> QED BY <2>3, <2>4
<1>12. L!WalkInv'
  <2>1. \A j : L!BeingCut(j)' => L!BeingCut(j)
    <3>1. \A p \in Editors : edit'[p].op = "shift" => p # q
      BY <1>2, <1>8
    <3> QED BY <1>7, <1>9, <3>1 DEF L!BeingCut, L!Editing
  <2>2. \A j \in L!Kinds : Steady(j)
    BY <1>1, <2>1, SteadyStays
  <2> QED BY <1>1, <2>2, WalkStep, KnowingLists
<1> QED BY <1>10, <1>11, <1>12 DEF ListsInv

LEMMA AddHookStep ==
  ASSUME ListsInv, NEW q \in Editors, L!AddHook(q)
  PROVE  ListsInv'
<1>1. edit[q] = L!Free
  BY DEF L!AddHook
<1>2. PICK k \in L!Kinds : \E hook \in Additions[k] :
        LET same == {i \in DOMAIN L!Hooks(k) : L!Hooks(k)[i].key = hook.key}
        IN \/ /\ same = {}
              /\ L!Begin(q, k, "append", hook, 1, Append(L!Hooks(k), hook))
           \/ /\ k = "event"
              /\ \E i \in same :
                   /\ \A j \in same : i <= j
                   /\ L!Begin(q, k, "replace", hook, i, L!ReplaceAt(L!Hooks(k), i, hook))
  BY DEF L!AddHook
<1>3. PICK hook \in Additions[k] :
        \/ L!Begin(q, k, "append", hook, 1, Append(L!Hooks(k), hook))
        \/ \E i \in DOMAIN L!Hooks(k) :
             /\ L!Hooks(k)[i].key = hook.key
             /\ L!Begin(q, k, "replace", hook, i, L!ReplaceAt(L!Hooks(k), i, hook))
  BY <1>2
<1>4. hook \in L!Hook(k)
  BY HooksAssumption DEF HooksAssumption
<1>5. L!Hooks(k) \in Seq(L!Hook(k)) /\ DOMAIN L!Hooks(k) \subseteq Nat \ {0}
  BY Listed
<1>6. CASE L!Begin(q, k, "append", hook, 1, Append(L!Hooks(k), hook))
  <2>1. Append(L!Hooks(k), hook) \in Seq(L!Hook(k))
    BY <1>4, <1>5
  <2>2. \A e : e.op = "append" /\ e.kind = k /\ e.hook = hook
               /\ e.expected = Append(L!Hooks(k), hook) => L!Left(e)
    BY DEF L!Left
  <2>3. \A alone \in BOOLEAN :
          L!Left([op |-> "append", kind |-> k, hook |-> hook, at |-> 1, slice |-> L!NoSlice,
                  expected |-> Append(L!Hooks(k), hook), alone |-> alone])
    BY <2>2
  <2>4. "append" \in {"append", "replace", "cut"} /\ 1 \in Nat \ {0}
        /\ hook \in L!Hook(k) \cup {L!Spare}
    BY <1>4
  <2> QED BY <1>1, <1>4, <1>6, <2>1, <2>3, <2>4, BeginEdit, Zenon
<1>7. ASSUME NEW i \in DOMAIN L!Hooks(k), L!Hooks(k)[i].key = hook.key,
             L!Begin(q, k, "replace", hook, i, L!ReplaceAt(L!Hooks(k), i, hook))
      PROVE  ListsInv'
  <2>1. L!ReplaceAt(L!Hooks(k), i, hook) \in Seq(L!Hook(k))
    BY <1>4, <1>5, Replaced DEF L!ReplaceAt
  <2>2. \A e : e.op = "replace" /\ e.kind = k /\ e.hook = hook /\ e.at = i
               /\ e.expected = L!ReplaceAt(L!Hooks(k), i, hook) => L!Left(e)
    BY <1>7 DEF L!Left
  <2>3. i \in Nat \ {0}
    BY <1>5
  <2> QED BY <1>1, <1>4, <1>7, <2>1, <2>2, <2>3, BeginEdit
<1> QED BY <1>3, <1>6, <1>7

LEMMA RemoveHookStep ==
  ASSUME ListsInv, NEW q \in Editors, L!RemoveHook(q)
  PROVE  ListsInv'
<1>1. edit[q] = L!Free
  BY DEF L!RemoveHook
<1>2. PICK k \in L!Kinds : \E i \in DOMAIN L!Hooks(k) :
        L!Begin(q, k, "cut", L!Spare, i, L!RemoveAt(L!Hooks(k), i))
  BY DEF L!RemoveHook
<1>3. PICK i \in DOMAIN L!Hooks(k) : L!Begin(q, k, "cut", L!Spare, i, L!RemoveAt(L!Hooks(k), i))
  BY <1>2
<1>4. L!Hooks(k) \in Seq(L!Hook(k)) /\ i \in Nat \ {0}
  BY Listed
<1>5. L!RemoveAt(L!Hooks(k), i) \in Seq(L!Hook(k))
  BY <1>4, Removed
<1>6. \A e : e.op = "cut" /\ e.kind = k /\ e.at = i
             /\ e.expected = L!RemoveAt(L!Hooks(k), i) => L!Left(e)
  BY DEF L!Left
<1> QED BY <1>1, <1>3, <1>4, <1>5, <1>6, BeginEdit

(* One editor goes on with its edit, or is done with it.                   *)
LEMMA GoStep ==
  ASSUME ListsInv, NEW q \in Editors, edit[q] # L!Free, NEW k, k = edit[q].kind, NEW e,
         edit' = [edit EXCEPT ![q] = e],
         e = L!Free \/ (L!EditOK(e) /\ e.kind = k /\ e.alone = edit[q].alone),
         e # L!Free => L!Sound(edit[q].kind, edit[q].slice)',
         Kept(k),
         list' = [j \in L!Kinds |-> list'[j]],
         \A j \in L!Kinds \ {k} : list'[j] = list[j],
         list'[k] \in L!Slices,
         list'[k] = list[k] \/ L!Sound(k, list[k])',
         file' = [j \in L!Kinds |-> file'[j]], \A j \in L!Kinds : file'[j] \in Seq(L!Hook(j)),
         UNCHANGED edits,
         L!Tear(k) \/ (UNCHANGED walk /\ Steady(k)),
         e # L!Free /\ e.alone => L!Left(edit[q])'
  PROVE  ListsInv'
<1>1. k \in L!Kinds
  BY Working, KnowingLists
<1>2. \A j \in L!Kinds \ {k} : memory'[j] = memory[j] /\ list'[j] = list[j]
  BY DEF Kept
<1>3. list' \in [L!Kinds -> L!Slices]
  <2>1. \A j \in L!Kinds : list'[j] \in L!Slices
    BY KnowingLists
  <2> QED BY <2>1
<1>4. edit'[q] = e /\ \A p \in Editors \ {q} : edit'[p] = edit[p]
  BY KnowingLists
<1>5. L!TypeOK'
  <2>1. \A w \in Walkers : \/ walk'[w] = walk[w]
                           \/ L!WalkOK(walk'[w]) /\ L!Sound(walk[w].kind, walk[w].slice)'
    <3> SUFFICES ASSUME NEW w \in Walkers, walk[w] # L!Free, L!Tear(k)
                 PROVE  L!WalkOK(walk'[w]) /\ L!Sound(walk[w].kind, walk[w].slice)'
      BY Torn, KnowingLists
    <3>1. L!WalkOK(walk'[w]) /\ walk'[w].kind = walk[w].kind /\ walk'[w].slice = walk[w].slice
      BY Torn, KnowingLists
    <3>2. walk[w].kind \in L!Kinds /\ walk[w].slice \in L!Slices /\ L!Sound(walk[w].kind, walk[w].slice)
      BY InTheList, KnowingLists
    <3>3. \A j \in L!Kinds : \A s \in L!Slices : L!Sound(j, s) => L!Sound(j, s)'
      BY <1>1, SoundStays, KnowingLists
    <3> QED BY <3>1, <3>2, <3>3
  <2>2. walk' = [w \in Walkers |-> walk'[w]]
    BY Torn, KnowingLists
  <2>3. \A p \in Editors :
          \/ edit'[p] = edit[p] \/ edit'[p] = L!Free
          \/ L!EditOK(edit'[p]) /\ L!Sound(edit[p].kind, edit[p].slice)'
    BY <1>4
  <2>4. edit' = [p \in Editors |-> edit'[p]]
    BY KnowingLists
  <2>5. \A j \in L!Kinds : list'[j] = list[j] \/ L!Sound(j, list[j])'
    BY <1>2
  <2>6. edits' \in 0 .. MaxEdits
    BY KnowingLists
  <2> QED BY <1>1, <1>3, <2>1, <2>2, <2>3, <2>4, <2>5, <2>6, TypeStep, KnowingLists
<1>6. L!LoneInv'
  BY <1>2, LoneStep, KnowingLists
<1>7. L!WalkInv'
  <2>1. \A j \in L!Kinds : j # k => Steady(j)
    <3> SUFFICES ASSUME NEW j \in L!Kinds, j # k PROVE Steady(j)
      OBVIOUS
    <3>1. L!Free.op # "shift"
      BY DEF L!Free
    <3>2. L!BeingCut(j)' => L!BeingCut(j)
      BY <3>1, NotCut, KnowingLists
    <3> QED BY <1>2, <3>2, SteadyStays
  <2>2. \A j \in L!Kinds : \A w \in Walkers : walk[w] # L!Free /\ walk[w].kind = j =>
          walk'[w].torn \/ (walk'[w] = walk[w] /\ Steady(j))
    BY <2>1, Torn, KnowingLists
  <2>3. \A w \in Walkers : walk[w] = L!Free => walk'[w] = L!Free
    BY Torn, KnowingLists
  <2> QED BY <1>3, <2>2, <2>3, WalkStep, KnowingLists
<1> QED BY <1>5, <1>6, <1>7 DEF ListsInv

LEMMA HeldEdit ==
  ASSUME NEW e, L!EditOK(e), NEW op \in {"assign", "shift"}, NEW s \in L!Slices,
         op = "shift" => e.at <= s.len
  PROVE  LET f == L!Holding(e, op, s)
         IN /\ L!EditOK(f) /\ f # L!Free /\ f.kind = e.kind /\ f.alone = e.alone /\ f.op = op
            /\ f.slice = s /\ f.at = e.at /\ f.expected = e.expected /\ f.hook = e.hook
<1> DEFINE f == L!Holding(e, op, s)
<1>1. f = [e EXCEPT !.op = op, !.slice = s]
  BY DEF L!Holding
<1>2. e \in L!Works(e.kind) /\ e.kind \in L!Kinds
  BY DEF L!EditOK
<1>3. /\ f.kind = e.kind /\ f.alone = e.alone /\ f.op = op /\ f.slice = s /\ f.at = e.at
      /\ f.expected = e.expected /\ f.hook = e.hook /\ f \in L!Works(e.kind)
  BY <1>1, <1>2 DEF L!Works, L!Ops
<1> HIDE DEF f
<1>4. f # L!Free
  BY <1>3 DEF L!Free
<1>5. L!EditOK(f)
  BY <1>2, <1>3 DEF L!EditOK
<1> QED BY <1>3, <1>4, <1>5 DEF f

LEMMA ProceedEdit ==
  ASSUME NEW e, L!EditOK(e)
  PROVE  LET f == [e EXCEPT !.op = "write"]
         IN /\ L!EditOK(f) /\ f # L!Free /\ f.kind = e.kind /\ f.alone = e.alone /\ f.op = "write"
            /\ f.slice = e.slice /\ f.expected = e.expected
<1> DEFINE f == [e EXCEPT !.op = "write"]
<1>2. e \in L!Works(e.kind) /\ e.kind \in L!Kinds
  BY DEF L!EditOK
<1>3. /\ f.kind = e.kind /\ f.alone = e.alone /\ f.op = "write" /\ f.slice = e.slice
      /\ f.expected = e.expected /\ f \in L!Works(e.kind)
  BY <1>2 DEF L!Works, L!Ops
<1> HIDE DEF f
<1>4. f # L!Free
  BY <1>3 DEF L!Free
<1>5. L!EditOK(f)
  BY <1>2, <1>3 DEF L!EditOK
<1> QED BY <1>3, <1>4, <1>5 DEF f

LEMMA WriteConfigStep ==
  ASSUME ListsInv, NEW q \in Editors, L!WriteConfig(q)
  PROVE  ListsInv'
<1>1. edit[q].op = "write" /\ edit' = [edit EXCEPT ![q] = L!Free]
      /\ UNCHANGED <<memory, list, walk, edits>> /\ file' \in {file, L!Config}
  BY DEF L!WriteConfig
<1>2. edit[q] # L!Free
  BY <1>1 DEF L!Free
<1> PICK k \in L!Kinds : k = edit[q].kind
  BY <1>2, Working, KnowingLists
<1>4. file' = [j \in L!Kinds |-> file'[j]] /\ \A j \in L!Kinds : file'[j] \in Seq(L!Hook(j))
  BY <1>1, Listed, KnowingLists DEF L!Config
<1>5. Kept(k)
  BY <1>1, UnwrittenMemory, KnowingLists
<1>6. \A j : L!BeingCut(j)' => L!BeingCut(j)
  <2>1. L!Free.op # "shift"
    BY DEF L!Free
  <2> QED BY <1>1, <2>1, NotCut, KnowingLists
<1>7. Steady(k)
  BY <1>1, <1>6, SteadyStays
<1>8. list' = [j \in L!Kinds |-> list'[j]] /\ list'[k] \in L!Slices
      /\ \A j \in L!Kinds : list'[j] = list[j]
  BY <1>1, KnowingLists
<1> QED BY <1>1, <1>2, <1>4, <1>5, <1>7, <1>8, GoStep

LEMMA KeysBegin ==
  ASSUME NEW X, NEW s \in Seq(X), NEW t \in Seq(X), L!IsPrefix(L!Keys(s), L!Keys(t))
  PROVE  Len(s) <= Len(t) /\ \A i \in 1 .. Len(s) : s[i].key = t[i].key
<1> DEFINE ks == L!Keys(s)
           kt == L!Keys(t)
           Y  == {s[i].key : i \in DOMAIN s} \cup {t[i].key : i \in DOMAIN t}
<1>1. ks \in Seq(Y) /\ Len(ks) = Len(s) /\ \A i \in 1 .. Len(s) : ks[i] = s[i].key
  BY DEF L!Keys
<1>2. kt \in Seq(Y) /\ Len(kt) = Len(t) /\ \A i \in 1 .. Len(t) : kt[i] = t[i].key
  BY DEF L!Keys
<1>3. Len(ks) <= Len(kt) /\ SubSeq(ks, 1, Len(ks)) = SubSeq(kt, 1, Len(ks))
  BY DEF L!IsPrefix
<1> HIDE DEF ks, kt, Y
<1>4. \A i \in 1 .. Len(ks) : SubSeq(ks, 1, Len(ks))[i] = ks[i] /\ SubSeq(kt, 1, Len(ks))[i] = kt[i]
  BY <1>1, <1>2, <1>3
<1>5. Len(s) \in Nat /\ Len(t) \in Nat
  OBVIOUS
<1> QED BY <1>1, <1>2, <1>3, <1>4, <1>5

LEMMA AssignStep ==
  ASSUME ListsInv, NEW q \in Editors, L!Assign(q)
  PROVE  ListsInv'
<1>1. edit[q].op = "assign" /\ edit[q] # L!Free
  BY DEF L!Assign, L!Free
<1> PICK k \in L!Kinds : k = edit[q].kind
  BY <1>1, Working, KnowingLists
<1> PICK s \in L!Slices : s = edit[q].slice
  BY <1>1, Working, KnowingLists
<1> PICK e : e = [edit[q] EXCEPT !.op = "write"]
  OBVIOUS
<1>2. /\ list' = [list EXCEPT ![k] = s]
      /\ IF L!IsPrefix(L!Keys(L!Hooks(k)), L!Keys(L!At(k, s))) THEN UNCHANGED walk ELSE L!Tear(k)
      /\ UNCHANGED <<memory, file, edits>>
  BY DEF L!Assign
<1>3. edit' = [edit EXCEPT ![q] = e] /\ edit'[q] = e
  BY KnowingLists DEF L!Assign, L!Proceed
<1>4. L!Sound(k, s) /\ L!EditOK(edit[q])
  BY <1>1, Working, KnowingLists
<1>5. /\ L!EditOK(e) /\ e # L!Free /\ e.kind = k /\ e.alone = edit[q].alone /\ e.op = "write"
      /\ e.slice = s /\ e.expected = edit[q].expected
  BY <1>4, ProceedEdit
<1>6. list'[k] = s /\ list' = [j \in L!Kinds |-> list'[j]]
      /\ \A j \in L!Kinds \ {k} : list'[j] = list[j]
  BY <1>2, KnowingLists
<1>7. L!Sound(k, list[k])'
  BY <1>2, <1>4, <1>6 DEF L!Sound
<1>8. \A f : f.kind = k /\ f.slice = s => L!Sound(f.kind, f.slice)'
  BY <1>2, <1>4 DEF L!Sound
<1>9. L!Sound(edit[q].kind, edit[q].slice)'
  BY <1>3, <1>5, <1>8
<1>10. Kept(k)
  BY <1>2, UnwrittenMemory, KnowingLists, SMTT(30)
<1>11. L!Tear(k) \/ (UNCHANGED walk /\ Steady(k))
  <2> SUFFICES ASSUME L!IsPrefix(L!Keys(L!Hooks(k)), L!Keys(L!At(k, s))), ~L!BeingCut(k)
               PROVE  Steady(k)
    BY <1>2 DEF Steady
  <2>1. ~L!BeingCut(k)'
    BY <1>3, <1>5, NotCut, KnowingLists
  <2>2. L!At(k, s) \in Seq(L!Hook(k)) /\ Len(L!At(k, s)) = s.len
        /\ \A i \in 1 .. s.len : L!At(k, s)[i] = memory[k][s.array][i]
    BY <1>4, AtSlice, Listed
  <2>3. s.len \in Nat
    BY DEF L!Slices
  <2>4. Len(L!Hooks(k)) <= Len(L!At(k, s))
        /\ \A i \in 1 .. Len(L!Hooks(k)) : L!Hooks(k)[i].key = L!At(k, s)[i].key
    BY <2>2, Listed, KeysBegin
  <2>5. list[k].len \in Nat /\ Len(L!Hooks(k)) = list[k].len
        /\ \A i \in 1 .. list[k].len : L!Hooks(k)[i] = memory[k][list[k].array][i]
    BY Listed, SMTT(30)
  <2>6. list[k].len <= s.len /\ \A i \in 1 .. list[k].len :
          memory[k][s.array][i].key = memory[k][list[k].array][i].key
    <3>1. list[k].len <= s.len
      BY <2>2, <2>4, <2>5
    <3>2. \A i \in 1 .. list[k].len : i \in 1 .. s.len
      BY <2>3, <2>5, <3>1
    <3>3. ASSUME NEW i \in 1 .. list[k].len
          PROVE  memory[k][s.array][i].key = memory[k][list[k].array][i].key
      <4>1. L!Hooks(k)[i].key = L!At(k, s)[i].key
        BY <2>4, <2>5
      <4>2. L!Hooks(k)[i] = memory[k][list[k].array][i]
        BY <2>5
      <4>3. L!At(k, s)[i] = memory[k][s.array][i]
        BY <2>2, <3>2
      <4> QED BY <4>1, <4>2, <4>3, Zenon
    <3> QED BY <3>1, <3>3
  <2> QED BY <1>2, <1>6, <2>1, <2>6, ZenonT(40) DEF Steady
<1>12. e.alone => L!Left(edit[q])'
  <2> SUFFICES ASSUME e.alone PROVE L!Left(edit[q])'
    OBVIOUS
  <2>1. e.expected = L!At(k, s)
    BY <1>1, <1>5, KnowingLists DEF L!LoneInv, L!Left
  <2>2. \A f : f.kind = k /\ f.op = "write" /\ f.expected = L!At(k, s) => L!Left(f)'
    BY <1>2, <1>6 DEF L!Left, L!Hooks, L!At
  <2> QED BY <1>3, <1>5, <2>1, <2>2
<1> QED BY <1>1, <1>2, <1>3, <1>5, <1>6, <1>7, <1>9, <1>10, <1>11, <1>12, GoStep, KnowingLists

LEMMA ShortenStep ==
  ASSUME ListsInv, NEW q \in Editors, L!Shorten(q)
  PROVE  ListsInv'
<1>1. edit[q].op = "shift" /\ edit[q].at = edit[q].slice.len /\ edit[q] # L!Free
  BY DEF L!Shorten, L!Free
<1> PICK k \in L!Kinds : k = edit[q].kind
  BY <1>1, Working, KnowingLists
<1> PICK s \in L!Slices : s = edit[q].slice
  BY <1>1, Working, KnowingLists
<1> PICK e : e = [edit[q] EXCEPT !.op = "write"]
  OBVIOUS
<1>2. /\ list' = [list EXCEPT ![k] = [array |-> s.array, len |-> s.len - 1]]
      /\ UNCHANGED <<memory, file, walk, edits>>
  BY DEF L!Shorten
<1>3. edit' = [edit EXCEPT ![q] = e] /\ edit'[q] = e
  BY KnowingLists DEF L!Shorten, L!Proceed
<1>4. L!Sound(k, s) /\ L!EditOK(edit[q]) /\ edit[q].at \in Nat \ {0}
  BY <1>1, Working, KnowingLists
<1>5. /\ L!EditOK(e) /\ e # L!Free /\ e.kind = k /\ e.alone = edit[q].alone /\ e.op = "write"
      /\ e.slice = s /\ e.expected = edit[q].expected
  BY <1>4, ProceedEdit
<1>6. list'[k] = [array |-> s.array, len |-> s.len - 1] /\ list' = [j \in L!Kinds |-> list'[j]]
      /\ \A j \in L!Kinds \ {k} : list'[j] = list[j]
  BY <1>2, KnowingLists
<1>7. s.len \in Nat \ {0} /\ list'[k] \in L!Slices
  BY <1>1, <1>4, <1>6 DEF L!Slices
<1>8. L!Sound(k, list[k])'
  <2>1. s.array \in DOMAIN memory[k] /\ s.len <= Len(memory[k][s.array])
        /\ \A i \in 1 .. s.len : memory[k][s.array][i] \in L!Hook(k)
    BY <1>4 DEF L!Sound
  <2>2. memory[k][s.array] \in Array(k)
    BY <2>1, Listed
  <2>3. s.len - 1 <= Len(memory[k][s.array])
    BY <1>7, <2>1, <2>2, SMTT(30) DEF Array
  <2>4. 1 .. s.len - 1 \subseteq 1 .. s.len
    BY <1>7
  <2> QED BY <1>2, <1>6, <2>1, <2>3, <2>4, ZenonT(40) DEF L!Sound
<1>9. L!Sound(edit[q].kind, edit[q].slice)'
  <2>1. \A f : f.kind = k /\ f.slice = s => L!Sound(f.kind, f.slice)'
    BY <1>2, <1>4 DEF L!Sound
  <2> QED BY <1>3, <1>5, <2>1
<1>10. Kept(k)
  BY <1>2, UnwrittenMemory, KnowingLists, SMTT(30)
<1>11. UNCHANGED walk /\ Steady(k)
  BY <1>1, <1>2, ZenonT(40) DEF Steady, L!BeingCut, L!Editing
<1>12. e.alone => L!Left(edit[q])'
  <2> SUFFICES ASSUME e.alone PROVE L!Left(edit[q])'
    OBVIOUS
  <2>1. L!Left(edit[q])
    BY <1>1, <1>5, KnowingLists DEF L!LoneInv
  <2>2. /\ s = list[k]
        /\ e.expected = [i \in 1 .. Len(L!Hooks(k)) - 1 |->
                           IF i < s.len THEN L!Hooks(k)[i] ELSE L!Hooks(k)[i + 1]]
    BY <1>1, <1>5, <2>1, SMTT(30) DEF L!Left
  <2>3. e.expected = [i \in 1 .. s.len - 1 |-> memory[k][s.array][i]]
    <3>1. \A i \in 1 .. s.len - 1 : i < s.len /\ L!Hooks(k)[i] = memory[k][s.array][i]
      <4>1. \A i \in 1 .. list[k].len : L!Hooks(k)[i] = memory[k][list[k].array][i]
        BY Listed
      <4>2. \A i \in 1 .. s.len - 1 : i < s.len /\ i \in 1 .. s.len
        BY <1>7
      <4> QED BY <2>2, <4>1, <4>2
    <3>2. Len(L!Hooks(k)) = s.len
      BY <2>2, Listed
    <3> QED BY <2>2, <3>1, <3>2
  <2>4. L!Hooks(k)' \in Seq(L!Hook(k)) /\ Len(L!Hooks(k)') = s.len - 1
        /\ DOMAIN L!Hooks(k)' = 1 .. s.len - 1
        /\ \A i \in 1 .. s.len - 1 : L!Hooks(k)'[i] = memory[k][s.array][i]
    <3>1. list'[k].len = s.len - 1 /\ list'[k].array = s.array
      BY <1>6
    <3>2. memory' = memory /\ memory'[k] \in Seq(Array(k))
      BY <1>2, Listed
    <3>3. /\ L!Hooks(k)' \in Seq(L!Hook(k)) /\ Len(L!Hooks(k)') = list'[k].len
          /\ DOMAIN L!Hooks(k)' = 1 .. list'[k].len
          /\ \A i \in 1 .. list'[k].len : L!Hooks(k)'[i] = memory'[k][list'[k].array][i]
      BY <1>7, <1>8, <3>2, NextSlice
    <3> QED BY <3>1, <3>2, <3>3
  <2>5. L!Hooks(k)' = [i \in 1 .. s.len - 1 |-> memory[k][s.array][i]]
    BY <2>4
  <2>6. \A f : f.kind = k /\ f.op = "write" /\ f.expected = L!Hooks(k)' => L!Left(f)'
    BY DEF L!Left
  <2> QED BY <1>3, <1>5, <2>3, <2>5, <2>6
<1> QED BY <1>1, <1>2, <1>3, <1>5, <1>6, <1>7, <1>8, <1>9, <1>10, <1>11, <1>12, GoStep, KnowingLists

LEMMA CutStep ==
  ASSUME ListsInv, NEW q \in Editors, L!Cut(q)
  PROVE  ListsInv'
<1>1. edit[q].op = "cut" /\ edit[q] # L!Free /\ UNCHANGED <<memory, list, file, edits>>
  BY DEF L!Cut, L!Free
<1> PICK k \in L!Kinds : k = edit[q].kind
  BY <1>1, Working, KnowingLists
<1>2. /\ Kept(k) /\ list' = [j \in L!Kinds |-> list'[j]] /\ list'[k] \in L!Slices
      /\ \A j \in L!Kinds : list'[j] = list[j]
  BY <1>1, UnwrittenMemory, KnowingLists
<1>3. CASE edit[q].at <= list[k].len
  <2> PICK e : e = L!Holding(edit[q], "shift", list[k])
    OBVIOUS
  <2>1. edit' = [edit EXCEPT ![q] = e] /\ edit'[q] = e /\ L!Tear(k)
    BY <1>3, KnowingLists DEF L!Cut
  <2>2. L!EditOK(edit[q]) /\ list[k] \in L!Slices /\ L!Sound(k, list[k])
    BY <1>1, Working, KnowingLists
  <2>3. /\ L!EditOK(e) /\ e # L!Free /\ e.kind = k /\ e.alone = edit[q].alone /\ e.op = "shift"
        /\ e.slice = list[k] /\ e.at = edit[q].at /\ e.expected = edit[q].expected
    BY <1>3, <2>2, HeldEdit
  <2>4. L!Sound(edit[q].kind, edit[q].slice)'
    <3>1. \A f : f.kind = k /\ f.slice = list[k] => L!Sound(f.kind, f.slice)'
      BY <1>1, <2>2 DEF L!Sound
    <3> QED BY <2>1, <2>3, <3>1
  <2>5. e.alone => L!Left(edit[q])'
    <3> SUFFICES ASSUME e.alone PROVE L!Left(edit[q])'
      OBVIOUS
    <3>1. e.expected = L!RemoveAt(L!Hooks(k), e.at) /\ e.at \in DOMAIN L!Hooks(k)
      BY <1>1, <2>3, KnowingLists, ZenonT(40) DEF L!LoneInv, L!Left
    <3>2. e.expected = [i \in 1 .. Len(L!Hooks(k)) - 1 |->
                          IF i < e.at THEN L!Hooks(k)[i] ELSE L!Hooks(k)[i + 1]]
      <4>1. L!Hooks(k) \in Seq(L!Hook(k))
        BY Listed
      <4> QED BY <3>1, <4>1, Removed, ZenonT(40)
    <3>3. L!Hooks(k)' = L!Hooks(k)
      BY <1>1 DEF L!Hooks, L!At
    <3>4. \A f : /\ f.kind = k /\ f.op = "shift" /\ f.slice = list[k]
                 /\ f.expected = [i \in 1 .. Len(L!Hooks(k)) - 1 |->
                                    IF i < f.at THEN L!Hooks(k)[i] ELSE L!Hooks(k)[i + 1]]
                 => L!Left(f)'
      BY <1>1, <3>3 DEF L!Left
    <3> QED BY <2>1, <2>3, <3>2, <3>4
  <2> QED BY <1>1, <1>2, <2>1, <2>3, <2>4, <2>5, GoStep, KnowingLists
<1>4. CASE ~(edit[q].at <= list[k].len)
  <2>1. edit' = [edit EXCEPT ![q] = L!Free] /\ UNCHANGED walk
    BY <1>4 DEF L!Cut
  <2>2. L!BeingCut(k)' => L!BeingCut(k)
    <3>1. L!Free.op # "shift"
      BY DEF L!Free
    <3> QED BY <2>1, <3>1, NotCut, KnowingLists
  <2>3. Steady(k)
    BY <1>1, <2>2, SteadyStays
  <2> QED BY <1>1, <1>2, <2>1, <2>3, GoStep, KnowingLists
<1> QED BY <1>3, <1>4

LEMMA ShiftStep ==
  ASSUME ListsInv, NEW q \in Editors, L!Shift(q)
  PROVE  ListsInv'
<1>1. edit[q].op = "shift" /\ edit[q].at < edit[q].slice.len /\ edit[q] # L!Free
  BY DEF L!Shift, L!Free
<1> PICK k \in L!Kinds : k = edit[q].kind
  BY <1>1, Working, KnowingLists
<1> PICK s \in L!Slices : s = edit[q].slice
  BY <1>1, Working, KnowingLists
<1> PICK at \in Nat \ {0} : at = edit[q].at
  BY <1>1, Working, KnowingLists
<1>n. PICK next : next = memory[k][s.array][at + 1]
  OBVIOUS
<1>e. PICK e : e = [edit[q] EXCEPT !.at = at + 1]
  OBVIOUS
<1>2. memory' = L!Put(k, s.array, at, next) /\ UNCHANGED <<list, file, walk, edits>>
  BY <1>n DEF L!Shift
<1>3. edit' = [edit EXCEPT ![q] = e] /\ edit'[q] = e
  BY <1>e, KnowingLists DEF L!Shift
<1>4. L!Sound(k, s) /\ L!EditOK(edit[q]) /\ s.len \in Nat
  BY <1>1, Working, KnowingLists DEF L!Slices
<1>5. /\ L!EditOK(e) /\ e # L!Free /\ e.kind = k /\ e.alone = edit[q].alone /\ e.op = "shift"
      /\ e.slice = s /\ e.at = at + 1 /\ e.expected = edit[q].expected
  <2>1. edit[q] \in L!Works(k)
    BY <1>4 DEF L!EditOK
  <2>2. at + 1 \in Nat \ {0} /\ at + 1 <= s.len
    BY <1>1, <1>4
  <2>3. e \in L!Works(k) /\ e.kind = k /\ e.alone = edit[q].alone /\ e.op = "shift"
        /\ e.slice = s /\ e.at = at + 1 /\ e.expected = edit[q].expected
    BY <1>1, <1>e, <2>1, <2>2, SMTT(30) DEF L!Works
  <2> QED BY <2>2, <2>3 DEF L!EditOK, L!Free
<1>6. /\ s.array \in DOMAIN memory[k] /\ at \in 1 .. s.len /\ at + 1 \in 1 .. s.len
      /\ next \in L!Hook(k) /\ \A i \in 1 .. s.len : i \in DOMAIN memory[k][s.array]
  <2>1. s.array \in DOMAIN memory[k] /\ s.len <= Len(memory[k][s.array])
        /\ \A i \in 1 .. s.len : memory[k][s.array][i] \in L!Hook(k)
    BY <1>4 DEF L!Sound
  <2>2. memory[k][s.array] \in Array(k)
    BY <2>1, Listed
  <2>3. at \in 1 .. s.len /\ at + 1 \in 1 .. s.len
    BY <1>1, <1>4
  <2>4. \A i \in 1 .. s.len : i \in DOMAIN memory[k][s.array]
    BY <1>4, <2>1, <2>2, SMTT(30) DEF Array
  <2> QED BY <1>n, <2>1, <2>3, <2>4
<1>7. /\ Kept(k)
      /\ \A b \in DOMAIN memory[k] : \A j \in DOMAIN memory[k][b] :
           memory'[k][b][j] = IF b = s.array /\ j = at THEN next ELSE memory[k][b][j]
  <2>1. Memory /\ at \in DOMAIN memory[k][s.array]
    BY <1>6, KnowingLists
  <2>2. memory' = L!Put(k, s.array, at, next) /\ s.array \in DOMAIN memory[k] /\ next \in L!Hook(k)
    BY <1>2, <1>6
  <2> QED BY <2>1, <2>2, Written, SMTT(30)
<1>8. L!Sound(edit[q].kind, edit[q].slice)'
  <2>1. Memory
    BY KnowingLists
  <2>2. L!Sound(k, s)'
    BY <2>1, <1>4, <1>7, SoundStays
  <2>3. \A f : f.kind = k /\ f.slice = s => L!Sound(f.kind, f.slice)'
    BY <2>2, Zenon
  <2> QED BY <1>3, <1>5, <2>3
<1>9. UNCHANGED walk /\ Steady(k)
  BY <1>1, <1>2 DEF Steady, L!BeingCut, L!Editing
<1>10. e.alone => L!Left(edit[q])'
  <2> SUFFICES ASSUME e.alone PROVE L!Left(edit[q])'
    OBVIOUS
  <2>1. L!Left(edit[q])
    BY <1>1, <1>5, KnowingLists DEF L!LoneInv
  <2>2. /\ s = list[k]
        /\ e.expected = [i \in 1 .. Len(L!Hooks(k)) - 1 |->
                           IF i < at THEN L!Hooks(k)[i] ELSE L!Hooks(k)[i + 1]]
    BY <1>1, <1>5, <2>1 DEF L!Left
  <2>o. PICK old : old = L!Hooks(k)
    OBVIOUS
  <2>n. PICK new : new = L!Hooks(k)'
    OBVIOUS
  <2>3. Len(old) = s.len /\ \A i \in 1 .. s.len : old[i] = memory[k][s.array][i]
    BY <2>o, <2>2, Listed
  <2>4. Len(new) = s.len /\ \A i \in 1 .. s.len : new[i] = memory'[k][s.array][i]
    <3>1. list'[k] = s /\ memory'[k] \in Seq(Array(k))
      BY <1>2, <1>7, <2>2, ZenonT(40) DEF Kept
    <3>2. L!Sound(k, list[k])'
      <4>1. L!Sound(k, s)'
        BY <1>4, <1>7, SoundStays, KnowingLists, SMTT(30)
      <4> QED BY <2>2, <3>1, <4>1 DEF L!Sound
    <3> QED BY <2>n, <3>1, <3>2, NextSlice, SMTT(30)
  <2>5. \A i \in 1 .. s.len : new[i] = IF i = at THEN old[at + 1] ELSE old[i]
    <3> TAKE i \in 1 .. s.len
    <3>1. memory'[k][s.array][i] = IF i = at THEN next ELSE memory[k][s.array][i]
      BY <1>6, <1>7
    <3> QED BY <1>6, <1>n, <2>3, <2>4, <3>1
  <2>6. \A i \in 1 .. s.len - 1 : (IF i < at + 1 THEN new[i] ELSE new[i + 1])
                                    = IF i < at THEN old[i] ELSE old[i + 1]
    BY <1>4, <2>5
  <2>7. e.expected = [i \in 1 .. Len(new) - 1 |-> IF i < at + 1 THEN new[i] ELSE new[i + 1]]
    <3>1. e.expected = [i \in 1 .. s.len - 1 |-> IF i < at THEN old[i] ELSE old[i + 1]]
      BY <2>o, <2>2, <2>3
    <3>2. e.expected = [i \in 1 .. s.len - 1 |-> IF i < at + 1 THEN new[i] ELSE new[i + 1]]
      BY <2>6, <3>1
    <3> QED BY <2>4, <3>2
  <2>8. \A f : /\ f.kind = k /\ f.op = "shift" /\ f.slice = s
               /\ f.expected = [i \in 1 .. Len(new) - 1 |-> IF i < f.at THEN new[i] ELSE new[i + 1]]
               => L!Left(f)'
    BY <1>2, <2>2, <2>n DEF L!Left
  <2> QED BY <1>3, <1>5, <2>7, <2>8
<1>11. list' = [j \in L!Kinds |-> list'[j]] /\ list'[k] = list[k] /\ list'[k] \in L!Slices
       /\ \A j \in L!Kinds \ {k} : list'[j] = list[j]
  BY <1>2, KnowingLists
<1> QED BY <1>1, <1>2, <1>3, <1>5, <1>7, <1>8, <1>9, <1>10, <1>11, GoStep, KnowingLists

LEMMA ReplaceStep ==
  ASSUME ListsInv, NEW q \in Editors, L!Replace(q)
  PROVE  ListsInv'
<1>1. edit[q].op = "replace" /\ edit[q] # L!Free /\ UNCHANGED <<list, file, walk, edits>>
  <2>1. edit[q].op = "replace" /\ UNCHANGED <<list, file, walk, edits>>
    BY Zenon DEF L!Replace
  <2> QED BY <2>1 DEF L!Free
<1> PICK k \in L!Kinds : k = edit[q].kind
  BY <1>1, Working, KnowingLists
<1> PICK at \in Nat \ {0} : at = edit[q].at
  BY <1>1, Working, KnowingLists
<1>2. list' = [j \in L!Kinds |-> list'[j]] /\ list'[k] = list[k] /\ list'[k] \in L!Slices
      /\ \A j \in L!Kinds \ {k} : list'[j] = list[j]
  BY <1>1, KnowingLists
<1>3. CASE at <= list[k].len
  <2>e. PICK e : e = [edit[q] EXCEPT !.op = "write"]
    OBVIOUS
  <2>h. PICK hook : hook = edit[q].hook
    OBVIOUS
  <2>w. PICK was : was = memory[k][list[k].array][at]
    OBVIOUS
  <2>n. PICK now : now = [was EXCEPT !.url = hook.url]
    OBVIOUS
  <2>1. memory' = L!Put(k, list[k].array, at, now)
    <3>1. memory' = L!Put(k, list[k].array, at,
                          [memory[k][list[k].array][at] EXCEPT !.url = edit[q].hook.url])
      BY <1>3, ZenonT(40) DEF L!Replace
    <3> QED BY <2>h, <2>w, <2>n, <3>1
  <2>2. edit' = [edit EXCEPT ![q] = e] /\ edit'[q] = e
    BY <1>3, <2>e, KnowingLists DEF L!Replace, L!Proceed
  <2>3. L!EditOK(edit[q]) /\ L!Sound(k, edit[q].slice) /\ edit[q].slice \in L!Slices
        /\ hook \in L!Hook(k)
    BY <1>1, <2>h, Working, KnowingLists
  <2>4. /\ L!EditOK(e) /\ e # L!Free /\ e.kind = k /\ e.alone = edit[q].alone /\ e.op = "write"
        /\ e.slice = edit[q].slice /\ e.expected = edit[q].expected
    BY <2>3, <2>e, ProceedEdit
  <2>5. list[k].array \in DOMAIN memory[k] /\ at \in 1 .. list[k].len /\ was \in L!Hook(k)
        /\ \A i \in 1 .. list[k].len : i \in DOMAIN memory[k][list[k].array]
    <3>1. at \in 1 .. list[k].len
      BY <1>3, Listed
    <3>2. \A i \in 1 .. list[k].len : memory[k][list[k].array][i] \in L!Hook(k)
      BY KnowingLists DEF L!Sound
    <3>3. \A i \in 1 .. list[k].len : i \in DOMAIN memory[k][list[k].array]
      BY Listed DEF Array
    <3>4. list[k].array \in DOMAIN memory[k]
      BY Listed
    <3> QED BY <2>w, <3>1, <3>2, <3>3, <3>4
  <2>6. now \in L!Hook(k) /\ now.key = was.key
    <3>1. hook.url \in STRING
      BY <2>3 DEF L!Hook
    <3> QED BY <2>n, <2>5, <3>1, SameUrl
  <2>7. /\ Kept(k)
        /\ \A b \in DOMAIN memory[k] : \A j \in DOMAIN memory[k][b] :
             memory'[k][b][j] = IF b = list[k].array /\ j = at THEN now ELSE memory[k][b][j]
    <3>a. PICK a : a = list[k].array
      OBVIOUS
    <3>1. Memory /\ a \in DOMAIN memory[k] /\ at \in DOMAIN memory[k][a]
      BY <2>5, <3>a, KnowingLists
    <3>2. memory' = L!Put(k, a, at, now)
      BY <2>1, <3>a
    <3>3. /\ Kept(k)
          /\ \A b \in DOMAIN memory[k] : \A j \in DOMAIN memory[k][b] :
               memory'[k][b][j] = IF b = a /\ j = at THEN now ELSE memory[k][b][j]
      BY <2>6, <3>1, <3>2, Written
    <3> QED BY <3>3, <3>a
  <2>8. L!Sound(edit[q].kind, edit[q].slice)'
    <3>1. \A f : f.kind = k /\ f.slice = edit[q].slice => L!Sound(f.kind, f.slice)'
      BY <2>3, <2>7, SoundStays, KnowingLists
    <3> QED BY <2>2, <2>4, <3>1
  <2>9. Steady(k)
    <3> SUFFICES ASSUME ~L!BeingCut(k) PROVE Steady(k)
      BY DEF Steady
    <3>1. ~L!BeingCut(k)'
      BY <2>2, <2>4, NotCut, KnowingLists
    <3>2. \A b \in DOMAIN memory[k] : \A j \in DOMAIN memory[k][b] :
            memory'[k][b][j].key = memory[k][b][j].key
      <4> TAKE b \in DOMAIN memory[k]
      <4> TAKE j \in DOMAIN memory[k][b]
      <4>1. memory'[k][b][j] = IF b = list[k].array /\ j = at THEN now ELSE memory[k][b][j]
        BY <2>7
      <4> QED BY <2>6, <2>w, <4>1
    <3>3. list[k].len \in Nat
      BY Listed
    <3>4. list'[k].len = list[k].len /\ list'[k].array = list[k].array
      BY <1>2
    <3>5. \A i \in 1 .. list[k].len :
            memory'[k][list'[k].array][i].key = memory[k][list[k].array][i].key
      BY <2>5, <3>2, <3>4
    <3>6. list[k].len <= list'[k].len
      BY <3>3, <3>4
    <3> QED BY <3>1, <3>2, <3>5, <3>6, ZenonT(40) DEF Steady
  <2>10. e.alone => L!Left(edit[q])'
    <3> SUFFICES ASSUME e.alone PROVE L!Left(edit[q])'
      OBVIOUS
    <3>o. PICK old : old = L!Hooks(k)
      OBVIOUS
    <3>n. PICK new : new = L!Hooks(k)'
      OBVIOUS
    <3>1. L!Left(edit[q])
      BY <1>1, <2>4, KnowingLists DEF L!LoneInv
    <3>2. e.expected = [old EXCEPT ![at] = hook] /\ old[at].key = hook.key
      BY <1>1, <2>4, <2>h, <3>1, <3>o DEF L!Left, L!ReplaceAt
    <3>3. old \in Seq(L!Hook(k)) /\ Len(old) = list[k].len
          /\ \A i \in 1 .. list[k].len : old[i] = memory[k][list[k].array][i]
      BY <3>o, Listed
    <3>4. new \in Seq(L!Hook(k)) /\ Len(new) = list[k].len
          /\ \A i \in 1 .. list[k].len : new[i] = memory'[k][list[k].array][i]
      <4>1. list'[k] = list[k] /\ memory'[k] \in Seq(Array(k))
        BY <1>2, <2>7 DEF Kept
      <4>2. L!Sound(k, list[k])'
        <5>1. \A s \in L!Slices : L!Sound(k, s) => L!Sound(k, s)'
          BY <2>7, SoundStays, KnowingLists
        <5>2. \A s : s = list[k] => L!Sound(k, s)'
          BY <5>1, KnowingLists
        <5> QED BY <4>1, <5>2
      <4> QED BY <1>2, <3>n, <4>1, <4>2, NextSlice
    <3>5. now = hook
      <4>1. was.key = hook.key
        BY <2>w, <2>5, <3>2, <3>3, ZenonT(40)
      <4> QED BY <2>3, <2>5, <2>n, <4>1, SameHook
    <3>6. \A i \in 1 .. Len(old) : new[i] = IF i = at THEN hook ELSE old[i]
      <4> TAKE i \in 1 .. Len(old)
      <4>1. memory'[k][list[k].array][i] = IF i = at THEN now ELSE memory[k][list[k].array][i]
        BY <2>5, <2>7, <3>3
      <4> QED BY <3>3, <3>4, <3>5, <4>1
    <3>7. [old EXCEPT ![at] = hook] \in Seq(L!Hook(k)) /\ Len([old EXCEPT ![at] = hook]) = Len(old)
          /\ \A i \in 1 .. Len(old) : [old EXCEPT ![at] = hook][i] = IF i = at THEN hook ELSE old[i]
      <4>1. at \in 1 .. Len(old)
        BY <2>5, <3>3
      <4>2. old \in Seq(L!Hook(k)) /\ hook \in L!Hook(k)
        BY <2>3, <3>3
      <4> QED BY <4>1, <4>2, ExceptSeq
    <3>8. new = [old EXCEPT ![at] = hook]
      <4>r. PICK r : r = [old EXCEPT ![at] = hook]
        OBVIOUS
      <4>1. r \in Seq(L!Hook(k)) /\ Len(new) = Len(r) /\ \A i \in 1 .. Len(new) : new[i] = r[i]
        BY <3>3, <3>4, <3>6, <3>7, <4>r
      <4> QED BY <3>4, <4>1, <4>r, SeqEqual
    <3>9. \A f : f.kind = k /\ f.op = "write" /\ f.expected = L!Hooks(k)' => L!Left(f)'
      BY DEF L!Left
    <3>10. L!Hooks(k)' = e.expected
      BY <3>n, <3>2, <3>8
    <3> QED BY <2>2, <2>4, <3>9, <3>10
  <2> QED BY <1>1, <1>2, <2>2, <2>4, <2>7, <2>8, <2>9, <2>10, GoStep, KnowingLists
<1>4. CASE ~(at <= list[k].len)
  <2>1. edit' = [edit EXCEPT ![q] = L!Free] /\ UNCHANGED memory
    BY <1>4 DEF L!Replace
  <2>2. Kept(k)
    BY <2>1, UnwrittenMemory, KnowingLists
  <2>3. L!BeingCut(k)' => L!BeingCut(k)
    <3>1. L!Free.op # "shift"
      BY DEF L!Free
    <3> QED BY <2>1, <3>1, NotCut, KnowingLists
  <2>4. Steady(k)
    BY <1>2, <2>1, <2>3, SteadyStays
  <2> QED BY <1>1, <1>2, <2>1, <2>2, <2>4, GoStep, KnowingLists
<1> QED BY <1>3, <1>4

LEMMA AppendHookStep ==
  ASSUME ListsInv, NEW q \in Editors, L!AppendHook(q)
  PROVE  ListsInv'
<1>1. edit[q].op = "append" /\ edit[q] # L!Free /\ UNCHANGED <<list, file, walk, edits>>
  <2>1. edit[q].op = "append" /\ UNCHANGED <<list, file, walk, edits>>
    BY Zenon DEF L!AppendHook
  <2> QED BY <2>1 DEF L!Free
<1> PICK k \in L!Kinds : k = edit[q].kind
  BY <1>1, Working, KnowingLists
<1>2. list' = [j \in L!Kinds |-> list'[j]] /\ list'[k] = list[k] /\ list'[k] \in L!Slices
      /\ \A j \in L!Kinds \ {k} : list'[j] = list[j]
  BY <1>1, KnowingLists
<1>h. PICK hook : hook = edit[q].hook
  OBVIOUS
<1>a. PICK a : a = list[k].array
  OBVIOUS
<1>n. PICK n \in Nat : n = list[k].len
  BY Listed
<1>o. PICK old : old = L!Hooks(k)
  OBVIOUS
<1>s. PICK s : s = [array |-> IF n < Len(memory[k][a]) THEN a ELSE Len(memory[k]) + 1, len |-> n + 1]
  OBVIOUS
<1>e. PICK e : e = L!Holding(edit[q], "assign", s)
  OBVIOUS
<1>3. edit' = [edit EXCEPT ![q] = e] /\ edit'[q] = e
  BY <1>a, <1>n, <1>s, <1>e, KnowingLists DEF L!AppendHook
<1>4. memory' = IF n < Len(memory[k][a]) THEN L!Put(k, a, n + 1, hook)
                ELSE [memory EXCEPT ![k] =
                        Append(memory[k], Append(old, hook) \o [i \in 1 .. n - 1 |-> L!Spare])]
  BY <1>h, <1>a, <1>n, <1>o DEF L!AppendHook
<1>5. /\ old \in Seq(L!Hook(k)) /\ Len(old) = n
      /\ \A i \in 1 .. n : old[i] = memory[k][a][i]
      /\ a \in DOMAIN memory[k] /\ memory[k] \in Seq(Array(k)) /\ memory[k][a] \in Array(k)
      /\ n <= Len(memory[k][a])
  BY <1>a, <1>n, <1>o, Listed
<1>6. L!EditOK(edit[q]) /\ hook \in L!Hook(k)
  BY <1>1, <1>h, Working, KnowingLists
<1>7. s \in L!Slices /\ s.len = n + 1
      /\ s.array = IF n < Len(memory[k][a]) THEN a ELSE Len(memory[k]) + 1
  <2>1. a \in Nat \ {0} /\ Len(memory[k]) + 1 \in Nat \ {0}
    BY <1>5
  <2> QED BY <1>s, <2>1 DEF L!Slices
<1>8. /\ L!EditOK(e) /\ e # L!Free /\ e.kind = k /\ e.alone = edit[q].alone /\ e.op = "assign"
      /\ e.slice = s /\ e.expected = edit[q].expected
  BY <1>6, <1>7, <1>e, HeldEdit
(* The new slice holds the list and the new element; what was written      *)
(* before stays.                                                           *)
<1>9. /\ Kept(k) /\ s.array \in DOMAIN memory'[k] /\ n + 1 <= Len(memory'[k][s.array])
      /\ \A i \in 1 .. n : memory'[k][s.array][i] = old[i]
      /\ memory'[k][s.array][n + 1] = hook
      /\ \A b \in DOMAIN memory[k] : \A j \in DOMAIN memory[k][b] :
           j <= n => memory'[k][b][j] = memory[k][b][j]
  <2>1. CASE n < Len(memory[k][a])
    <3>1. n + 1 \in DOMAIN memory[k][a] /\ n + 1 <= Len(memory[k][a])
          /\ \A i \in 1 .. n : i \in DOMAIN memory[k][a]
      BY <1>5, <2>1 DEF Array
    <3>2. memory' = L!Put(k, a, n + 1, hook)
      BY <1>4, <2>1
    <3>3. /\ Kept(k) /\ DOMAIN memory'[k] = DOMAIN memory[k]
          /\ \A b \in DOMAIN memory[k] : \A j \in DOMAIN memory[k][b] :
               memory'[k][b][j] = IF b = a /\ j = n + 1 THEN hook ELSE memory[k][b][j]
      <4>1. Memory
        BY KnowingLists
      <4> QED BY <1>5, <1>6, <3>1, <3>2, <4>1, Written
    <3>4. Len(memory'[k][a]) = Len(memory[k][a])
      BY <1>5, <3>3 DEF Kept
    <3>5. s.array = a
      BY <1>7, <2>1
    <3>6. \A i \in 1 .. n : memory'[k][a][i] = old[i]
      BY <1>5, <3>1, <3>3, SMTT(30)
    <3>7. \A b \in DOMAIN memory[k] : \A j \in DOMAIN memory[k][b] :
            j <= n => memory'[k][b][j] = memory[k][b][j]
      BY <3>3
    <3> QED BY <1>5, <3>1, <3>3, <3>4, <3>5, <3>6, <3>7
  <2>2. CASE ~(n < Len(memory[k][a]))
    <3>f. PICK front : front = Append(old, hook)
      OBVIOUS
    <3>b. PICK back : back = [i \in 1 .. n - 1 |-> L!Spare]
      OBVIOUS
    <3>r. PICK array : array = front \o back
      OBVIOUS
    <3>1. front \in Seq(Cells(k)) /\ Len(front) = n + 1 /\ front[n + 1] = hook
          /\ \A i \in 1 .. n : front[i] = old[i]
      BY <1>5, <1>6, <3>f DEF Cells
    <3>2. back \in Seq(Cells(k)) /\ Len(back) \in Nat
      <4>1. \A i \in 1 .. n - 1 : L!Spare \in Cells(k)
        BY DEF Cells
      <4>2. CASE n = 0
        BY <3>b, <4>2
      <4>3. CASE n # 0
        BY <3>b, <4>1, <4>3
      <4> QED BY <4>2, <4>3
    <3>3. array \in Array(k) /\ n + 1 <= Len(array) /\ array[n + 1] = hook
          /\ \A i \in 1 .. n : array[i] = old[i]
      <4>1. front \o back \in Seq(Cells(k)) /\ Len(front \o back) = Len(front) + Len(back)
            /\ \A i \in 1 .. Len(front) + Len(back) :
                 (front \o back)[i] = IF i <= Len(front) THEN front[i] ELSE back[i - Len(front)]
        BY <3>1, <3>2, ConcatProperties
      <4> QED BY <3>1, <3>2, <3>r, <4>1 DEF Array
    <3>4. memory' = [memory EXCEPT ![k] = Append(memory[k], array)]
      BY <1>4, <2>2, <3>f, <3>b, <3>r
    <3>5. /\ Kept(k) /\ Len(memory[k]) + 1 \in DOMAIN memory'[k]
          /\ memory'[k][Len(memory[k]) + 1] = array
          /\ \A b \in DOMAIN memory[k] : memory'[k][b] = memory[k][b]
      <4>1. Memory
        BY KnowingLists
      <4> QED BY <3>3, <3>4, <4>1, Grown, ZenonT(40)
    <3>6. s.array = Len(memory[k]) + 1
      BY <1>7, <2>2
    <3> QED BY <3>3, <3>5, <3>6
  <2> QED BY <2>1, <2>2, SMTT(30)
<1>10. \A i \in 1 .. n + 1 : memory'[k][s.array][i] = IF i = n + 1 THEN hook ELSE old[i]
  BY <1>9
<1>11. L!Sound(edit[q].kind, edit[q].slice)'
  <2>1. \A i \in 1 .. n + 1 : memory'[k][s.array][i] \in L!Hook(k)
    BY <1>5, <1>6, <1>10, SMTT(30)
  <2>2. \A f : f.kind = k /\ f.slice = s => L!Sound(f.kind, f.slice)'
    BY <1>7, <1>9, <2>1 DEF L!Sound
  <2> QED BY <1>3, <1>8, <2>2
<1>12. UNCHANGED walk /\ Steady(k)
  <2> SUFFICES ASSUME ~L!BeingCut(k) PROVE Steady(k)
    BY <1>1 DEF Steady
  <2>1. ~L!BeingCut(k)'
    BY <1>3, <1>8, NotCut, KnowingLists
  <2>2. \A i \in 1 .. n : i \in DOMAIN memory[k][a]
    BY <1>5 DEF Array
  <2>3. \A i \in 1 .. n : memory'[k][a][i] = memory[k][a][i]
    BY <1>5, <1>9, <2>2
  <2>4. list'[k].len = n /\ list[k].len = n /\ list'[k].array = a /\ list[k].array = a
    BY <1>2, <1>a, <1>n
  <2> QED BY <1>9, <2>1, <2>3, <2>4, SMTT(30) DEF Steady
<1>13. e.alone => L!Left(edit[q])'
  <2> SUFFICES ASSUME e.alone PROVE L!Left(edit[q])'
    OBVIOUS
  <2>1. e.expected = Append(old, hook)
    BY <1>1, <1>8, <1>o, <1>h, KnowingLists DEF L!LoneInv, L!Left
  <2>2. L!At(k, s)' = Append(old, hook)
    <3>m. PICK m : m = memory'[k][s.array]
      OBVIOUS
    <3>1. m \in Seq(L!Hook(k) \cup {L!Spare})
      <4>1. memory'[k] \in Seq(Array(k)) /\ s.array \in DOMAIN memory'[k]
        BY <1>9, Zenon DEF Kept
      <4>2. m \in Array(k)
        BY <3>m, <4>1
      <4> QED BY <4>2 DEF Array, Cells
    <3>2. SubSeq(m, 1, n + 1) \in Seq(L!Hook(k)) /\ Len(SubSeq(m, 1, n + 1)) = n + 1
          /\ \A i \in 1 .. n + 1 : SubSeq(m, 1, n + 1)[i] = m[i]
      <4>1. \A i \in 1 .. n + 1 : m[i] \in L!Hook(k)
        BY <1>5, <1>6, <1>10, <3>m
      <4> QED BY <1>9, <3>m, <3>1, <4>1, Slice
    <3>3. Append(old, hook) \in Seq(L!Hook(k)) /\ Len(Append(old, hook)) = n + 1
          /\ \A i \in 1 .. n + 1 : Append(old, hook)[i] = IF i = n + 1 THEN hook ELSE old[i]
      BY <1>5, <1>6
    <3>4. SubSeq(m, 1, n + 1) = Append(old, hook)
      BY <1>10, <3>m, <3>2, <3>3, SeqEqual
    <3>5. L!At(k, s)' = SubSeq(m, 1, n + 1)
      BY <1>7, <3>m DEF L!At
    <3> QED BY <3>4, <3>5
  <2>3. \A f : f.kind = k /\ f.op = "assign" /\ f.slice = s /\ f.expected = L!At(k, s)' => L!Left(f)'
    BY DEF L!Left
  <2> QED BY <1>3, <1>8, <2>1, <2>2, <2>3
<1> QED BY <1>1, <1>2, <1>3, <1>8, <1>9, <1>11, <1>12, <1>13, GoStep, KnowingLists

(***************************************************************************)
(* Each step of a walker.                                                  *)
(***************************************************************************)

(* Walkers change nothing but their own place: what is left to do for an   *)
(* edit, and what the other walks follow, stays.                           *)
LEMMA WalkerStep ==
  ASSUME ListsInv, NEW w \in Walkers, NEW e, walk' = [walk EXCEPT ![w] = e],
         UNCHANGED <<memory, list, file, edit, edits>>,
         e # L!Free, L!WalkOK(e), L!Sound(e.kind, e.slice),
         ~e.torn => L!Called(e) /\ (e.op # "end" => L!Following(e))
  PROVE  ListsInv'
<1>1. walk'[w] = e /\ \A v \in Walkers \ {w} : walk'[v] = walk[v]
  BY KnowingLists
<1>2. \A f : L!Sound(f.kind, f.slice) => L!Sound(f.kind, f.slice)'
  BY DEF L!Sound
<1>3. \A f : L!Following(f) => L!Following(f)'
  BY DEF L!Following, L!Begins, L!BeingCut, L!Editing
<1>4. \A f : L!Left(f) => L!Left(f)'
  BY LeftElsewhere
<1>5. \A v \in Walkers : walk'[v] = walk[v]
                         \/ (L!WalkOK(walk'[v]) /\ L!Sound(walk[v].kind, walk[v].slice)')
  BY <1>1, <1>2
<1>6. L!TypeOK'
  <2>1. \A k \in L!Kinds : Kept(k)
    BY UnwrittenMemory, KnowingLists
  <2>2. "cmd" \in L!Kinds
    BY DEF L!Kinds
  <2>3. walk' = [v \in Walkers |-> walk'[v]]
    BY KnowingLists
  <2> QED BY <1>5, <2>1, <2>2, <2>3, TypeStep, KnowingLists
<1>7. L!LoneInv'
  <2>1. \A j : L!Editing(j)' = L!Editing(j)
    BY DEF L!Editing
  <2>2. \A p \in Editors : edit[p] # L!Free /\ edit[p].alone => L!Editing(edit[p].kind) = {p} /\ L!Left(edit[p])
    BY KnowingLists DEF L!LoneInv
  <2> QED BY <1>4, <2>1, <2>2 DEF L!LoneInv
<1>8. L!WalkInv'
  <2> SUFFICES ASSUME NEW v \in Walkers, walk'[v] # L!Free, ~walk'[v].torn
               PROVE  L!Called(walk'[v]) /\ (walk'[v].op # "end" => L!Following(walk[v])')
    BY DEF L!WalkInv
  <2>1. CASE v = w
    BY <1>1, <1>3, <2>1
  <2>2. CASE v # w
    <3>1. walk'[v] = walk[v]
      BY <1>1, <2>2
    <3>2. L!Called(walk[v]) /\ (walk[v].op # "end" => L!Following(walk[v]))
      BY <3>1, KnowingLists DEF L!WalkInv
    <3> QED BY <1>3, <3>1, <3>2
  <2> QED BY <2>1, <2>2
<1> QED BY <1>6, <1>7, <1>8 DEF ListsInv

LEMMA EnterStep ==
  ASSUME ListsInv, NEW w \in Walkers, L!Enter(w)
  PROVE  ListsInv'
<1>1. PICK k \in L!Kinds : \E event \in Dispatches[k] :
        walk' = [walk EXCEPT ![w] =
          [kind |-> k, event |-> event, op |-> IF k = "cmd" THEN "check" ELSE "send",
           slice |-> list[k], next |-> 1, fired |-> <<>>, start |-> L!Hooks(k),
           torn |-> L!BeingCut(k)]]
  BY DEF L!Enter
<1>2. PICK event \in Dispatches[k] :
        walk' = [walk EXCEPT ![w] =
          [kind |-> k, event |-> event, op |-> IF k = "cmd" THEN "check" ELSE "send",
           slice |-> list[k], next |-> 1, fired |-> <<>>, start |-> L!Hooks(k),
           torn |-> L!BeingCut(k)]]
  BY <1>1
<1>e. PICK e : e = [kind |-> k, event |-> event, op |-> IF k = "cmd" THEN "check" ELSE "send",
                    slice |-> list[k], next |-> 1, fired |-> <<>>, start |-> L!Hooks(k),
                    torn |-> L!BeingCut(k)]
  OBVIOUS
<1>3. walk' = [walk EXCEPT ![w] = e] /\ UNCHANGED <<memory, list, file, edit, edits>>
  BY <1>2, <1>e DEF L!Enter
<1>4. /\ e.kind = k /\ e.event = event /\ e.op = (IF k = "cmd" THEN "check" ELSE "send")
      /\ e.slice = list[k] /\ e.next = 1 /\ e.fired = <<>> /\ e.start = L!Hooks(k)
      /\ e.torn = L!BeingCut(k)
  BY <1>e
<1>5. list[k] \in L!Slices /\ L!Sound(k, list[k]) /\ L!Hooks(k) \in Seq(L!Hook(k))
      /\ Len(L!Hooks(k)) = list[k].len /\ list[k].len \in Nat
      /\ DOMAIN L!Hooks(k) = 1 .. list[k].len
      /\ \A i \in 1 .. list[k].len : L!Hooks(k)[i] = memory[k][list[k].array][i]
  BY Listed, KnowingLists
<1>6. L!WalkOK(e) /\ e # L!Free
  <2>1. e \in L!Walks(k)
    <3>1. <<>> \in Seq([at : Nat \ {0}, hook : L!Hook(k)])
      OBVIOUS
    <3>2. L!BeingCut(k) \in BOOLEAN
      BY DEF L!BeingCut
    <3> QED BY <1>e, <1>5, <3>1, <3>2 DEF L!Walks
  <2> QED BY <1>4, <1>5, <2>1 DEF L!WalkOK, L!Free
<1>7. L!Called(e)
  <2>1. L!Passed(e) = {}
    BY <1>4, <1>5 DEF L!Passed, L!Due
  <2> QED BY <1>4, <1>5, <2>1 DEF L!Called
<1>8. ~e.torn => L!Following(e)
  BY <1>4, <1>5 DEF L!Following, L!Begins
<1> QED BY <1>3, <1>4, <1>5, <1>6, <1>7, <1>8, WalkerStep

(* What an undisturbed walk sees of the list it began with.                *)
LEMMA Looking ==
  ASSUME ListsInv, NEW w \in Walkers, L!Walking(w)
  PROVE  /\ walk[w] # L!Free /\ walk[w].op # "end"
         /\ walk[w].kind \in L!Kinds /\ walk[w].slice.len \in Nat
         /\ L!WalkOK(walk[w]) /\ L!Sound(walk[w].kind, walk[w].slice)
         /\ walk[w].next \in Nat \ {0} /\ Len(walk[w].start) \in Nat
         /\ DOMAIN walk[w].start = 1 .. Len(walk[w].start)
         /\ L!Ahead(w) => L!Seen(w) \in L!Hook(walk[w].kind)
         /\ ~walk[w].torn =>
              /\ L!Called(walk[w]) /\ L!Following(walk[w])
              /\ Len(walk[w].start) <= walk[w].slice.len
              /\ walk[w].next \in DOMAIN walk[w].start =>
                   /\ L!Seen(w).key = walk[w].start[walk[w].next].key
                   /\ L!Match(w) <=> walk[w].next \in L!Due(walk[w])
<1>1. walk[w] # L!Free /\ walk[w].op \in {"check", "send"}
  BY DEF L!Walking
<1>2. /\ walk[w].kind \in L!Kinds /\ walk[w].slice.len \in Nat
      /\ L!WalkOK(walk[w]) /\ L!Sound(walk[w].kind, walk[w].slice)
      /\ walk[w].next \in Nat \ {0} /\ walk[w].start \in Seq(L!Hook(walk[w].kind))
  BY <1>1, InTheList, KnowingLists DEF L!Slices
<1>3. L!Ahead(w) => L!Seen(w) \in L!Hook(walk[w].kind)
  BY <1>2, SMTT(30) DEF L!Ahead, L!Seen, L!Sound
<1>4. ~walk[w].torn =>
        /\ L!Called(walk[w]) /\ L!Following(walk[w]) /\ Len(walk[w].start) <= walk[w].slice.len
        /\ walk[w].next \in DOMAIN walk[w].start =>
             L!Seen(w).key = walk[w].start[walk[w].next].key
  BY <1>1, KnowingLists DEF L!WalkInv, L!Following, L!Begins, L!Seen
<1>5. ~walk[w].torn /\ walk[w].next \in DOMAIN walk[w].start =>
        (L!Match(w) <=> walk[w].next \in L!Due(walk[w]))
  BY <1>4 DEF L!Match, L!Due
<1> QED BY <1>1, <1>2, <1>3, <1>4, <1>5

(* A walk that goes on, in a slice that may be another one.                *)
Onward(e, op, s, next, fired) ==
  [e EXCEPT !.op = op, !.slice = s, !.next = next, !.fired = fired]

LEMMA WalkFields ==
  ASSUME NEW e, L!WalkOK(e), NEW op \in {"check", "send", "end"}, NEW s \in L!Slices,
         NEW next \in Nat \ {0}, next <= s.len + 1,
         NEW fired \in Seq([at : Nat \ {0}, hook : L!Hook(e.kind)]),
         op = "check" => e.kind = "cmd", NEW f, f = Onward(e, op, s, next, fired)
  PROVE  /\ L!WalkOK(f) /\ f # L!Free
         /\ f.kind = e.kind /\ f.event = e.event /\ f.op = op /\ f.slice = s /\ f.next = next
         /\ f.fired = fired /\ f.start = e.start /\ f.torn = e.torn
<1>1. e \in L!Walks(e.kind) /\ e.kind \in L!Kinds
  BY DEF L!WalkOK
<1>2. /\ f.kind = e.kind /\ f.event = e.event /\ f.op = op /\ f.slice = s /\ f.next = next
      /\ f.fired = fired /\ f.start = e.start /\ f.torn = e.torn /\ f \in L!Walks(e.kind)
  BY <1>1 DEF L!Walks, Onward
<1> QED BY <1>1, <1>2 DEF L!WalkOK, L!Free

LEMMA PassStep ==
  ASSUME ListsInv, NEW w \in Walkers, L!Pass(w)
  PROVE  ListsInv'
<1>e. PICK e : e = [walk[w] EXCEPT !.next = walk[w].next + 1]
  OBVIOUS
<1>1. L!Ahead(w) /\ ~L!Match(w) /\ walk' = [walk EXCEPT ![w] = e]
      /\ UNCHANGED <<memory, list, file, edit, edits>>
  BY <1>e, KnowingLists DEF L!Pass
<1>2. L!Walking(w) /\ walk[w].next <= walk[w].slice.len
  BY <1>1 DEF L!Ahead
<1>3. /\ L!WalkOK(e) /\ e # L!Free
      /\ e.kind = walk[w].kind /\ e.event = walk[w].event /\ e.op = walk[w].op
      /\ e.slice = walk[w].slice /\ e.next = walk[w].next + 1 /\ e.fired = walk[w].fired
      /\ e.start = walk[w].start /\ e.torn = walk[w].torn
  <2>1. L!WalkOK(walk[w]) /\ walk[w].slice.len \in Nat /\ walk[w].next \in Nat \ {0}
    BY <1>2, Looking
  <2>2. walk[w] \in L!Walks(walk[w].kind)
    BY <2>1 DEF L!WalkOK
  <2>3. e = Onward(walk[w], walk[w].op, walk[w].slice, walk[w].next + 1, walk[w].fired)
    BY <1>e, <2>2 DEF L!Walks, Onward
  <2>4. walk[w].op \in {"check", "send", "end"} /\ walk[w].slice \in L!Slices
        /\ (walk[w].op = "check" => walk[w].kind = "cmd")
        /\ walk[w].fired \in Seq([at : Nat \ {0}, hook : L!Hook(walk[w].kind)])
    BY <2>1, <2>2 DEF L!Walks, L!WalkOK
  <2>n. PICK n \in Nat \ {0} : n = walk[w].next + 1
    BY <2>1
  <2>5. n <= walk[w].slice.len + 1
    BY <1>2, <2>1, <2>n
  <2>6. e = Onward(walk[w], walk[w].op, walk[w].slice, n, walk[w].fired)
    BY <2>3, <2>n
  <2>7. /\ L!WalkOK(e) /\ e # L!Free
        /\ e.kind = walk[w].kind /\ e.event = walk[w].event /\ e.op = walk[w].op
        /\ e.slice = walk[w].slice /\ e.next = n /\ e.fired = walk[w].fired
        /\ e.start = walk[w].start /\ e.torn = walk[w].torn
    BY <2>1, <2>4, <2>5, <2>6, WalkFields
  <2> QED BY <2>7, <2>n
<1>4. L!Sound(e.kind, e.slice)
  BY <1>2, <1>3, Looking
<1>5. ~e.torn => L!Called(e) /\ (e.op # "end" => L!Following(e))
  <2> SUFFICES ASSUME ~e.torn PROVE L!Called(e) /\ L!Following(e)
    OBVIOUS
  <2>1. L!Called(walk[w]) /\ L!Following(walk[w])
    BY <1>2, <1>3, Looking
  <2>2. L!Following(e)
    BY <1>3, <2>1 DEF L!Following
  <2>3. L!Due(e) = L!Due(walk[w])
    BY <1>3 DEF L!Due
  <2>4. L!Passed(e) = L!Passed(walk[w])
    <3>1. walk[w].next \notin L!Due(walk[w])
      BY <1>1, <1>2, <1>3, Looking DEF L!Due
    <3>2. L!Due(walk[w]) \subseteq Nat /\ walk[w].next \in Nat
      BY <1>2, Looking DEF L!Due
    <3>3. \A i \in L!Due(walk[w]) : i < walk[w].next + 1 <=> i < walk[w].next
      BY <3>1, <3>2
    <3> QED BY <1>3, <2>3, <3>3 DEF L!Passed
  <2>5. e.op # "end"
    BY <1>2, <1>3, Looking
  <2> QED BY <1>3, <2>1, <2>2, <2>3, <2>4, <2>5, ZenonT(40) DEF L!Called
<1> QED BY <1>1, <1>3, <1>4, <1>5, WalkerStep

LEMMA LeaveWalkStep ==
  ASSUME ListsInv, NEW w \in Walkers, L!Leave(w)
  PROVE  ListsInv'
<1>e. PICK e : e = [walk[w] EXCEPT !.op = "end"]
  OBVIOUS
<1>1. L!Walking(w) /\ ~L!Ahead(w) /\ walk' = [walk EXCEPT ![w] = e]
      /\ UNCHANGED <<memory, list, file, edit, edits>>
  BY <1>e, KnowingLists DEF L!Leave
<1>2. ~(walk[w].next <= walk[w].slice.len)
  BY <1>1 DEF L!Ahead
<1>3. /\ L!WalkOK(e) /\ e # L!Free
      /\ e.kind = walk[w].kind /\ e.event = walk[w].event /\ e.op = "end"
      /\ e.slice = walk[w].slice /\ e.next = walk[w].next /\ e.fired = walk[w].fired
      /\ e.start = walk[w].start /\ e.torn = walk[w].torn
  <2>1. L!WalkOK(walk[w])
    BY <1>1, Looking
  <2>2. walk[w] \in L!Walks(walk[w].kind) /\ walk[w].next <= walk[w].slice.len + 1
    BY <2>1 DEF L!WalkOK
  <2>3. e = Onward(walk[w], "end", walk[w].slice, walk[w].next, walk[w].fired)
    BY <1>e, <2>2 DEF L!Walks, Onward
  <2>4. walk[w].slice \in L!Slices /\ walk[w].next \in Nat \ {0}
        /\ walk[w].fired \in Seq([at : Nat \ {0}, hook : L!Hook(walk[w].kind)])
    BY <2>2 DEF L!Walks
  <2>5. "end" \in {"check", "send", "end"}
    OBVIOUS
  <2> QED BY <2>1, <2>2, <2>3, <2>4, <2>5, WalkFields
<1>4. L!Sound(e.kind, e.slice)
  BY <1>1, <1>3, Looking
<1>5. ~e.torn => L!Called(e)
  <2> SUFFICES ASSUME ~e.torn PROVE L!Called(e)
    OBVIOUS
  <2>1. L!Called(walk[w]) /\ walk[w].op # "end" /\ Len(walk[w].start) <= walk[w].slice.len
        /\ DOMAIN walk[w].start = 1 .. Len(walk[w].start) /\ Len(walk[w].start) \in Nat
        /\ walk[w].slice.len \in Nat /\ walk[w].next \in Nat
    BY <1>1, <1>3, Looking
  <2>2. L!Due(e) = L!Due(walk[w])
    BY <1>3 DEF L!Due
  <2>3. L!Passed(walk[w]) = L!Due(walk[w])
    BY <1>2, <2>1 DEF L!Passed, L!Due
  <2>4. L!Passed(e) = L!Due(walk[w])
    BY <1>3, <2>2, <2>3 DEF L!Passed
  <2> QED BY <1>3, <2>1, <2>2, <2>3, <2>4, ZenonT(40) DEF L!Called
<1> QED BY <1>1, <1>3, <1>4, <1>5, WalkerStep

LEMMA FoundStep ==
  ASSUME ListsInv, NEW w \in Walkers, L!Found(w)
  PROVE  ListsInv'
<1>e. PICK e : e = [walk[w] EXCEPT !.op = "send", !.next = 1, !.slice = list["cmd"]]
  OBVIOUS
<1>1. L!Ahead(w) /\ L!Match(w) /\ walk[w].op = "check" /\ walk' = [walk EXCEPT ![w] = e]
      /\ UNCHANGED <<memory, list, file, edit, edits>>
  BY <1>e, KnowingLists DEF L!Found
<1>2. L!Walking(w) /\ walk[w].next <= walk[w].slice.len
  BY <1>1 DEF L!Ahead
<1>3. /\ L!WalkOK(e) /\ e # L!Free
      /\ e.kind = walk[w].kind /\ e.event = walk[w].event /\ e.op = "send"
      /\ e.slice = list["cmd"] /\ e.next = 1 /\ e.fired = walk[w].fired
      /\ e.start = walk[w].start /\ e.torn = walk[w].torn
  <2>1. L!WalkOK(walk[w]) /\ list["cmd"] \in L!Slices
    BY <1>2, Looking, KnowingLists DEF L!Kinds
  <2>2. walk[w] \in L!Walks(walk[w].kind)
    BY <2>1 DEF L!WalkOK
  <2>3. e = Onward(walk[w], "send", list["cmd"], 1, walk[w].fired)
    BY <1>e, <2>2 DEF L!Walks, Onward
  <2>4. walk[w].fired \in Seq([at : Nat \ {0}, hook : L!Hook(walk[w].kind)])
    BY <2>2 DEF L!Walks
  <2>5. "send" \in {"check", "send", "end"} /\ 1 \in Nat \ {0} /\ 1 <= list["cmd"].len + 1
    BY <2>1 DEF L!Slices
  <2> QED BY <2>1, <2>3, <2>4, <2>5, WalkFields
<1>4. walk[w].kind = "cmd"
  BY <1>1, <1>2, Looking DEF L!WalkOK
<1>5. L!Sound(e.kind, e.slice)
  BY <1>3, <1>4, KnowingLists DEF L!Kinds
<1>6. ~e.torn => L!Called(e) /\ L!Following(e)
  <2> SUFFICES ASSUME ~e.torn PROVE L!Called(e) /\ L!Following(e)
    OBVIOUS
  <2>1. L!Called(walk[w]) /\ L!Following(walk[w]) /\ walk[w].next \in Nat \ {0}
        /\ DOMAIN walk[w].start = 1 .. Len(walk[w].start) /\ Len(walk[w].start) \in Nat
    BY <1>2, <1>3, Looking
  <2>2. L!Following(e)
    BY <1>3, <1>4, <2>1 DEF L!Following
  <2>3. L!Due(e) = L!Due(walk[w])
    BY <1>3 DEF L!Due
  <2>4. walk[w].fired = <<>> /\ walk[w].slice.len = Len(walk[w].start)
    BY <1>1, <1>4, <2>1 DEF L!Called
  <2>5. L!Due(e) # {}
    <3>1. walk[w].next \in DOMAIN walk[w].start
      BY <1>2, <2>1, <2>4
    <3> QED BY <1>1, <1>2, <1>3, <2>3, <3>1, Looking
  <2>6. L!Passed(e) = {}
    BY <1>3, <2>1, <2>3 DEF L!Passed, L!Due
  <2> QED BY <1>3, <1>4, <2>2, <2>4, <2>5, <2>6 DEF L!Called
<1> QED BY <1>1, <1>3, <1>5, <1>6, WalkerStep

LEMMA FireStep ==
  ASSUME ListsInv, NEW w \in Walkers, L!Fire(w)
  PROVE  ListsInv'
<1>n. PICK n : n = walk[w].next
  OBVIOUS
<1>c. PICK called : called = [at |-> n, hook |-> L!Seen(w)]
  OBVIOUS
<1>o. PICK op \in {"send", "end"} : op = IF walk[w].kind = "cmd" THEN "end" ELSE "send"
  OBVIOUS
<1>e. PICK e : e = L!Calling(walk[w], called, op)
  OBVIOUS
<1>1. L!Ahead(w) /\ L!Match(w) /\ walk[w].op = "send" /\ walk' = [walk EXCEPT ![w] = e]
      /\ UNCHANGED <<memory, list, file, edit, edits>>
  BY <1>n, <1>c, <1>o, <1>e, KnowingLists DEF L!Fire, L!Call
<1>2. L!Walking(w) /\ n <= walk[w].slice.len
  BY <1>1, <1>n DEF L!Ahead
<1>3. L!WalkOK(walk[w]) /\ L!Seen(w) \in L!Hook(walk[w].kind) /\ n \in Nat \ {0}
      /\ walk[w].slice.len \in Nat
  BY <1>1, <1>2, <1>n, Looking
<1>k. PICK fired : fired = walk[w].fired
  OBVIOUS
<1>4. fired \in Seq([at : Nat \ {0}, hook : L!Hook(walk[w].kind)])
      /\ called \in [at : Nat \ {0}, hook : L!Hook(walk[w].kind)]
      /\ called.at = n /\ called.hook = L!Seen(w)
  <2>1. walk[w] \in L!Walks(walk[w].kind)
    BY <1>3 DEF L!WalkOK
  <2>2. fired \in Seq([at : Nat \ {0}, hook : L!Hook(walk[w].kind)])
    BY <1>k, <2>1 DEF L!Walks
  <2> QED BY <1>3, <1>c, <2>2
<1>m. PICK more : more = Append(fired, called)
  OBVIOUS
<1>5. /\ more \in Seq([at : Nat \ {0}, hook : L!Hook(walk[w].kind)])
      /\ Len(more) = Len(fired) + 1 /\ more[Len(more)] = called /\ Len(fired) \in Nat
      /\ DOMAIN fired = 1 .. Len(fired) /\ DOMAIN more = 1 .. Len(fired) + 1
      /\ \A j \in 1 .. Len(fired) : more[j] = fired[j]
  BY <1>4, <1>m
<1>6. /\ L!WalkOK(e) /\ e # L!Free
      /\ e.kind = walk[w].kind /\ e.event = walk[w].event /\ e.op = op
      /\ e.slice = walk[w].slice /\ e.next = n + 1 /\ e.fired = more
      /\ e.start = walk[w].start /\ e.torn = walk[w].torn
  <2>1. walk[w] \in L!Walks(walk[w].kind)
    BY <1>3 DEF L!WalkOK
  <2>n. PICK next \in Nat \ {0} : next = n + 1
    BY <1>3
  <2>2. e = Onward(walk[w], op, walk[w].slice, next, more)
    BY <1>e, <1>n, <1>k, <1>m, <2>1, <2>n DEF L!Walks, L!Calling, Onward
  <2>3. walk[w].slice \in L!Slices /\ op \in {"check", "send", "end"} /\ op # "check"
    BY <1>o, <2>1 DEF L!Walks
  <2>4. next <= walk[w].slice.len + 1
    BY <1>2, <1>3, <2>n
  <2>5. /\ L!WalkOK(e) /\ e # L!Free
        /\ e.kind = walk[w].kind /\ e.event = walk[w].event /\ e.op = op
        /\ e.slice = walk[w].slice /\ e.next = next /\ e.fired = more
        /\ e.start = walk[w].start /\ e.torn = walk[w].torn
    BY <1>3, <1>5, <2>2, <2>3, <2>4, WalkFields
  <2> QED BY <2>5, <2>n
<1>7. L!Sound(e.kind, e.slice)
  BY <1>2, <1>6, Looking
<1>8. ~e.torn => L!Called(e) /\ (e.op # "end" => L!Following(e))
  <2> SUFFICES ASSUME ~e.torn PROVE L!Called(e) /\ L!Following(e)
    OBVIOUS
  <2>s. PICK start : start = walk[w].start
    OBVIOUS
  <2>1. /\ L!Called(walk[w]) /\ L!Following(walk[w])
        /\ DOMAIN start = 1 .. Len(start) /\ Len(start) \in Nat
        /\ n \in DOMAIN start => (L!Seen(w).key = start[n].key /\ n \in L!Due(walk[w]))
    BY <1>1, <1>2, <1>6, <1>n, <2>s, Looking
  <2>2. L!Following(e)
    BY <1>6, <2>1 DEF L!Following
  <2>3. L!Due(e) = L!Due(walk[w]) /\ L!Due(e) \subseteq 1 .. Len(start)
    BY <1>6, <2>1, <2>s DEF L!Due
  <2>d. PICK due : due = L!Due(e)
    OBVIOUS
  <2>4. L!Passed(walk[w]) = {i \in due : i < n} /\ L!Passed(e) = {i \in due : i < n + 1}
    BY <1>6, <1>n, <2>3, <2>d DEF L!Passed
  <2>5. n \in DOMAIN start /\ n \in due
    <3>1. CASE walk[w].kind = "cmd"
      <4>1. L!Passed(walk[w]) = {} /\ L!Due(walk[w]) # {}
        BY <1>1, <2>1, <3>1 DEF L!Called
      <4>2. PICK i \in due : ~(i < n)
        BY <2>3, <2>4, <2>d, <4>1
      <4>3. i \in 1 .. Len(start)
        BY <2>3, <2>d
      <4> QED BY <1>3, <2>1, <2>3, <2>d, <4>2, <4>3
    <3>2. CASE walk[w].kind # "cmd"
      <4>1. walk[w].slice.len = Len(start)
        BY <2>1, <2>s, <3>2 DEF L!Called
      <4> QED BY <1>2, <1>3, <2>1, <2>3, <2>d, <4>1
    <3> QED BY <3>1, <3>2
  <2>6. L!Seen(w).key = start[n].key
    BY <2>1, <2>5
  <2>7. \A j \in DOMAIN fired : fired[j].at \in DOMAIN start /\ fired[j].hook.key = start[fired[j].at].key
    BY <1>k, <2>1, <2>s DEF L!Called
  <2>8. \A j \in DOMAIN more : more[j].at \in DOMAIN start /\ more[j].hook.key = start[more[j].at].key
    <3> TAKE j \in DOMAIN more
    <3>1. CASE j \in DOMAIN fired
      BY <1>5, <2>7, <3>1
    <3>2. CASE j = Len(fired) + 1
      BY <1>4, <1>5, <2>5, <2>6, <3>2
    <3> QED BY <1>5, <3>1, <3>2
  <2>9. CASE walk[w].kind = "cmd"
    <3>1. fired = <<>> /\ L!Passed(walk[w]) = {}
      BY <1>1, <1>k, <2>1, <2>9 DEF L!Called
    <3>2. Len(more) = 1 /\ more[1] = called /\ DOMAIN more = {1} /\ more # <<>>
      BY <1>5, <3>1
    <3>3. more[1].at \in due /\ \A i \in due : more[1].at <= i
      BY <1>3, <1>4, <2>3, <2>4, <2>5, <2>d, <3>1, <3>2
    <3>4. \A i, j \in DOMAIN more : i < j => more[i].at < more[j].at
      BY <3>2
    <3>5. e.op = "end"
      BY <1>6, <1>o, <2>9
    <3> QED BY <1>6, <2>2, <2>8, <2>9, <2>d, <2>s, <3>2, <3>3, <3>4, <3>5, Zenon DEF L!Called
  <2>10. CASE walk[w].kind # "cmd"
    <3>1. /\ walk[w].slice.len = Len(start)
          /\ {fired[j].at : j \in DOMAIN fired} = {i \in due : i < n}
          /\ \A i, j \in DOMAIN fired : i < j => fired[i].at < fired[j].at
      BY <1>k, <2>1, <2>4, <2>s, <2>10 DEF L!Called
    <3>2. \A j \in DOMAIN fired : fired[j].at < n
      BY <3>1
    <3>3. \A i, j \in DOMAIN more : i < j => more[i].at < more[j].at
      <4> TAKE i, j \in DOMAIN more
      <4> HAVE i < j
      <4>1. i \in DOMAIN fired
        BY <1>5
      <4>2. CASE j \in DOMAIN fired
        BY <1>5, <3>1, <4>1, <4>2
      <4>3. CASE j = Len(fired) + 1
        BY <1>4, <1>5, <3>2, <4>1, <4>3
      <4> QED BY <1>5, <4>2, <4>3
    <3>4. {more[j].at : j \in DOMAIN more} = {i \in due : i < n + 1}
      <4>1. {more[j].at : j \in DOMAIN more} = {fired[j].at : j \in DOMAIN fired} \cup {n}
        <5>1. DOMAIN more = DOMAIN fired \cup {Len(fired) + 1}
          BY <1>5
        <5>2. more[Len(fired) + 1].at = n /\ \A j \in DOMAIN fired : more[j].at = fired[j].at
          BY <1>4, <1>5
        <5> QED BY <5>1, <5>2
      <4>2. {i \in due : i < n + 1} = {i \in due : i < n} \cup {n}
        BY <1>3, <2>3, <2>5, <2>d
      <4> QED BY <3>1, <4>1, <4>2
    <3>5. e.op = "send"
      BY <1>6, <1>o, <2>10
    <3>6. {e.fired[j].at : j \in DOMAIN e.fired} = L!Passed(e)
      BY <1>6, <2>4, <3>4, Zenon
    <3>7. \A i, j \in DOMAIN e.fired : i < j => e.fired[i].at < e.fired[j].at
      BY <1>6, <3>3, Zenon
    <3>8. \A j \in DOMAIN e.fired :
            e.fired[j].at \in DOMAIN e.start /\ e.fired[j].hook.key = e.start[e.fired[j].at].key
      BY <1>6, <2>8, <2>s, Zenon
    <3>9. e.slice.len = Len(e.start) /\ e.kind # "cmd"
      BY <1>6, <2>s, <2>10, <3>1
    <3>10. L!Called(e)
      BY <3>5, <3>6, <3>7, <3>8, <3>9, Zenon DEF L!Called
    <3> QED BY <2>2, <3>10
  <2> QED BY <2>9, <2>10
<1> QED BY <1>1, <1>6, <1>7, <1>8, WalkerStep

(***************************************************************************)
(* The invariant holds.                                                    *)
(***************************************************************************)

LEMMA InitLists == L!Init => ListsInv
<1> SUFFICES ASSUME L!Init PROVE ListsInv
  OBVIOUS
<1>1. PICK spare \in [L!Kinds -> {<<>>, <<L!Spare>>}] :
        memory = [k \in L!Kinds |-> <<Stored[k] \o spare[k]>>]
  BY DEF L!Init
<1>2. /\ list = [k \in L!Kinds |-> [array |-> 1, len |-> Len(Stored[k])]]
      /\ file = Stored /\ edits = 0
      /\ edit = [q \in Editors |-> L!Free] /\ walk = [w \in Walkers |-> L!Free]
  BY DEF L!Init
<1>3. Stored = [k \in L!Kinds |-> Stored[k]] /\ \A k \in L!Kinds : Stored[k] \in Seq(L!Hook(k))
  BY HooksAssumption DEF HooksAssumption
<1>4. ASSUME NEW k \in L!Kinds
      PROVE  memory[k] \in Seq(Seq(L!Hook(k) \cup {L!Spare})) /\ L!Sound(k, list[k])
             /\ list[k] \in L!Slices
  <2>s. PICK s : s = Stored[k]
    OBVIOUS
  <2>p. PICK more : more = spare[k]
    OBVIOUS
  <2>1. s \in Seq(L!Hook(k) \cup {L!Spare}) /\ s \in Seq(L!Hook(k))
        /\ more \in Seq(L!Hook(k) \cup {L!Spare}) /\ Len(more) \in Nat
    <3>1. s \in Seq(L!Hook(k))
      BY <1>3, <2>s
    <3>2. more = <<>> \/ more = <<L!Spare>>
      BY <2>p
    <3>3. s \in Seq(L!Hook(k) \cup {L!Spare})
      BY <3>1
    <3>x. PICK X : X = L!Hook(k) \cup {L!Spare}
      OBVIOUS
    <3>4. more \in Seq(X) /\ Len(more) \in Nat
      <4>x. PICK x : x = L!Spare
        OBVIOUS
      <4>1. x \in X
        BY <3>x, <4>x
      <4>2. <<>> \in Seq(X) /\ Len(<<>>) \in Nat
        OBVIOUS
      <4>3. <<x>> \in Seq(X) /\ Len(<<x>>) \in Nat
        BY <4>1
      <4> QED BY <3>2, <4>x, <4>2, <4>3
    <3> QED BY <3>1, <3>3, <3>4, <3>x
  <2>2. s \o more \in Seq(L!Hook(k) \cup {L!Spare}) /\ Len(s) \in Nat /\ Len(s) <= Len(s \o more)
        /\ \A i \in 1 .. Len(s) : (s \o more)[i] = s[i]
    <3>1. s \o more \in Seq(L!Hook(k) \cup {L!Spare}) /\ Len(s \o more) = Len(s) + Len(more)
          /\ \A i \in 1 .. Len(s) + Len(more) :
               (s \o more)[i] = IF i <= Len(s) THEN s[i] ELSE more[i - Len(s)]
      BY <2>1, ConcatProperties
    <3>2. Len(s) \in Nat
      BY <2>1
    <3> QED BY <2>1, <3>1, <3>2
  <2>3. \A i \in 1 .. Len(s) : s[i] \in L!Hook(k)
    BY <2>1
  <2>4. memory[k] = <<s \o more>> /\ list[k] = [array |-> 1, len |-> Len(s)]
    BY <1>1, <1>2, <2>s, <2>p
  <2>5. memory[k] \in Seq(Seq(L!Hook(k) \cup {L!Spare})) /\ 1 \in DOMAIN memory[k]
        /\ memory[k][1] = s \o more
    BY <2>2, <2>4
  <2>6. list[k].array = 1 /\ list[k].len = Len(s) /\ list[k] \in L!Slices
    BY <2>2, <2>4 DEF L!Slices
  <2>7. L!Sound(k, list[k])
    BY <2>2, <2>3, <2>5, <2>6 DEF L!Sound
  <2> QED BY <2>5, <2>6, <2>7
<1>5. L!TypeOK
  <2>1. memory = [k \in L!Kinds |-> memory[k]] /\ list \in [L!Kinds -> L!Slices]
    BY <1>1, <1>2, <1>4
  <2>2. edits \in 0 .. MaxEdits
    BY <1>2, HooksAssumption DEF HooksAssumption
  <2>3. edit = [q \in Editors |-> edit[q]] /\ walk = [w \in Walkers |-> walk[w]]
        /\ (\A q \in Editors : edit[q] = L!Free) /\ \A w \in Walkers : walk[w] = L!Free
    BY <1>2
  <2> QED BY <1>2, <1>3, <1>4, <2>1, <2>2, <2>3, Zenon DEF L!TypeOK
<1>6. L!LoneInv /\ L!WalkInv
  BY <1>2 DEF L!LoneInv, L!WalkInv
<1> QED BY <1>5, <1>6 DEF ListsInv

LEMMA IdleLists == ListsInv /\ UNCHANGED listVars => ListsInv'
<1> SUFFICES ASSUME ListsInv, UNCHANGED listVars PROVE ListsInv'
  OBVIOUS
<1>1. UNCHANGED <<memory, list, file, edit, walk, edits>>
  BY Zenon DEF listVars
<1>2. L!TypeOK'
  BY <1>1, KnowingLists, Zenon DEF L!TypeOK, L!Sound
<1>3. L!LoneInv'
  <2>1. \A f : L!Left(f) => L!Left(f)'
    BY <1>1, LeftElsewhere
  <2>2. \A j : L!Editing(j)' = L!Editing(j)
    BY <1>1 DEF L!Editing
  <2>3. \A p \in Editors : edit[p] # L!Free /\ edit[p].alone =>
          L!Editing(edit[p].kind) = {p} /\ L!Left(edit[p])
    BY KnowingLists DEF L!LoneInv
  <2> QED BY <1>1, <2>1, <2>2, <2>3 DEF L!LoneInv
<1>4. L!WalkInv'
  BY <1>1, KnowingLists, Zenon DEF L!WalkInv, L!Following, L!Begins, L!BeingCut, L!Editing
<1> QED BY <1>2, <1>3, <1>4 DEF ListsInv

LEMMA NextLists == ListsInv /\ (L!Next \/ UNCHANGED listVars) => ListsInv'
BY IdleLists, AddHookStep, AppendHookStep, AssignStep, ReplaceStep, RemoveHookStep, CutStep, ShiftStep,
   ShortenStep, WriteConfigStep, EnterStep, PassStep, FoundStep, FireStep, LeaveWalkStep, Zenon
   DEF L!Next, L!Edit, L!Dispatch

LEMMA ListsInvHolds == MessagingSpec => []ListsInv
<1>1. MessagingInit => ListsInv
  BY InitLists, Zenon DEF MessagingInit
<1>2. ListsInv /\ [MessagingNext]_allVars => ListsInv'
  <2>1. [MessagingNext]_allVars => L!Next \/ UNCHANGED listVars
    BY Zenon DEF MessagingNext, allVars
  <2> QED BY <2>1, NextLists, Zenon
<1> QED BY <1>1, <1>2, PTL DEF MessagingSpec

(* An edit of a list that no other edit of it overlaps leaves the list     *)
(* that was asked for, for any number of editors, walkers and hooks.       *)
THEOREM LoneEditsTakeEffect == MessagingSpec => []LoneEditTakesEffect
<1>1. ListsInv => LoneEditTakesEffect
  <2> SUFFICES ASSUME ListsInv, NEW q \in Editors, edit[q].op = "write", edit[q].alone
               PROVE  L!Hooks(edit[q].kind) = edit[q].expected
    BY Zenon DEF LoneEditTakesEffect, L!LoneEditTakesEffect
  <2>1. edit[q] # L!Free
    BY DEF L!Free
  <2>2. L!Left(edit[q])
    BY <2>1 DEF ListsInv, L!LoneInv
  <2> QED BY <2>2 DEF L!Left
<1> QED BY <1>1, ListsInvHolds, PTL

(* What the code matches is what the documents say a hook receives.        *)
LEMMA MatchesWanted ==
  ASSUME NEW k \in L!Kinds, NEW hook \in L!Hook(k), NEW event \in Dispatches[k]
  PROVE  L!Matches(k, hook.key, event) <=> L!Wanted(k, hook.key, event)
<1>1. CASE k = "cmd"
  BY <1>1 DEF L!Matches, L!Wanted
<1>2. CASE k = "event"
  <2>k. PICK key : key = hook.key
    OBVIOUS
  <2>1. key.name \in Seq(STRING) /\ key.wild \in BOOLEAN /\ event \in Seq(STRING)
    BY <1>2, <2>k, HooksAssumption DEF L!Hook, HooksAssumption
  <2>n. PICK name : name = key.name
    OBVIOUS
  <2>2. L!IsPrefix(name, event) <=>
          Len(name) <= Len(event) /\ \A i \in DOMAIN name : name[i] = event[i]
    <3>1. /\ Len(name) \in Nat /\ Len(event) \in Nat /\ name \in Seq(STRING)
          /\ DOMAIN name = 1 .. Len(name)
      BY <2>1, <2>n
    <3>2. SubSeq(name, 1, Len(name)) = name
      BY <3>1
    <3>3. Len(name) <= Len(event) => SubSeq(event, 1, Len(name)) \in Seq(STRING)
            /\ Len(SubSeq(event, 1, Len(name))) = Len(name)
            /\ \A i \in 1 .. Len(name) : SubSeq(event, 1, Len(name))[i] = event[i]
      BY <2>1, <3>1
    <3>4. Len(name) <= Len(event) =>
            (SubSeq(event, 1, Len(name)) = name <=> \A i \in 1 .. Len(name) : name[i] = event[i])
      BY <3>1, <3>3, SeqEqual
    <3> QED BY <3>1, <3>2, <3>4 DEF L!IsPrefix
  <2>3. Len(name) = Len(event) /\ (\A i \in DOMAIN name : name[i] = event[i]) => name = event
    BY <2>1, <2>n, SeqEqual
  <2>4. L!IsPrefix(name, event) <=>
          event = name \/ (Len(name) < Len(event) /\ \A i \in DOMAIN name : name[i] = event[i])
    BY <2>1, <2>2, <2>3, <2>n
  <2>5. L!Matches(k, key, event) <=>
          (~key.wild /\ name = event) \/ (key.wild /\ L!IsPrefix(name, event))
    BY <1>2, <2>n DEF L!Matches, L!MatchesEventType
  <2>6. L!Wanted(k, key, event) <=>
          event = name \/ (key.wild /\ Len(name) < Len(event) /\ \A i \in DOMAIN name : name[i] = event[i])
    BY <1>2, <2>n DEF L!Wanted
  <2> QED BY <2>1, <2>4, <2>5, <2>6, <2>k
<1>3. CASE k = "text"
  <2>1. hook.key.from \in {"all", "me", "others"} /\ event.me \in BOOLEAN
    BY <1>3, HooksAssumption DEF L!Hook, HooksAssumption
  <2> QED BY <1>3, <2>1 DEF L!Matches, L!MatchesFrom, L!Wanted
<1> QED BY <1>1, <1>2, <1>3 DEF L!Kinds

(* A dispatch that no edit tears calls each webhook that was registered    *)
(* when it began and matches, once and in order; of commands, the first.   *)
THEOREM DispatchesAreWhole == MessagingSpec => []EachMatchOnce
<1>1. ListsInv => EachMatchOnce
  <2> SUFFICES ASSUME ListsInv, NEW w \in Walkers, walk[w].op = "end", ~walk[w].torn
               PROVE  LET start  == walk[w].start
                          fired  == walk[w].fired
                          wanted == {i \in DOMAIN start :
                                       L!Wanted(walk[w].kind, start[i].key, walk[w].event)}
                          due    == IF walk[w].kind = "cmd"
                                    THEN {i \in wanted : \A j \in wanted : i <= j} ELSE wanted
                      IN /\ {fired[j].at : j \in DOMAIN fired} = due
                         /\ \A i, j \in DOMAIN fired : i < j => fired[i].at < fired[j].at
                         /\ \A j \in DOMAIN fired : fired[j].hook.key = start[fired[j].at].key
    BY Zenon DEF EachMatchOnce, L!EachMatchOnce
  <2>s. PICK start : start = walk[w].start
    OBVIOUS
  <2>f. PICK fired : fired = walk[w].fired
    OBVIOUS
  <2>k. PICK k : k = walk[w].kind
    OBVIOUS
  <2>v. PICK event : event = walk[w].event
    OBVIOUS
  <2>d. PICK wanted : wanted = {i \in DOMAIN start : L!Wanted(k, start[i].key, event)}
    OBVIOUS
  <2>1. walk[w] # L!Free
    BY DEF L!Free
  <2>2. /\ k \in L!Kinds /\ start \in Seq(L!Hook(k)) /\ event \in Dispatches[k]
        /\ fired \in Seq([at : Nat \ {0}, hook : L!Hook(k)])
    BY <2>1, <2>s, <2>f, <2>k, <2>v, InTheList, KnowingLists
  <2>3. L!Called(walk[w])
    BY <2>1, KnowingLists DEF L!WalkInv
  <2>4. L!Due(walk[w]) = wanted
    <3>1. \A i \in DOMAIN start : start[i] \in L!Hook(k)
      BY <2>2
    <3>2. \A i \in DOMAIN start : L!Matches(k, start[i].key, event) <=> L!Wanted(k, start[i].key, event)
      BY <2>2, <3>1, MatchesWanted
    <3>3. L!Due(walk[w]) = {i \in DOMAIN start : L!Matches(k, start[i].key, event)}
      BY <2>s, <2>k, <2>v, Zenon DEF L!Due
    <3> QED BY <2>d, <3>2, <3>3
  <2>5. /\ \A i, j \in DOMAIN fired : i < j => fired[i].at < fired[j].at
        /\ \A j \in DOMAIN fired : fired[j].hook.key = start[fired[j].at].key
    BY <2>3, <2>s, <2>f DEF L!Called
  <2>6. {fired[j].at : j \in DOMAIN fired} =
          IF k = "cmd" THEN {i \in wanted : \A j \in wanted : i <= j} ELSE wanted
    <3>1. CASE k = "cmd" /\ fired = <<>>
      <4>1. wanted = {}
        BY <2>3, <2>4, <2>f, <2>k, <3>1 DEF L!Called
      <4> QED BY <3>1, <4>1
    <3>2. CASE k = "cmd" /\ fired # <<>>
      <4>1. Len(fired) = 1 /\ fired[1].at \in wanted /\ \A i \in wanted : fired[1].at <= i
        BY <2>3, <2>4, <2>f, <2>k, <3>2 DEF L!Called
      <4>2. DOMAIN fired = {1}
        BY <2>2, <4>1
      <4>3. {fired[j].at : j \in DOMAIN fired} = {fired[1].at}
        BY <4>2
      <4>4. wanted \subseteq Nat
        BY <2>2, <2>d
      <4>5. {i \in wanted : \A j \in wanted : i <= j} = {fired[1].at}
        <5>m. PICK m : m = fired[1].at
          OBVIOUS
        <5>1. \A i \in wanted : (\A j \in wanted : i <= j) <=> i = m
          <6>1. m \in wanted /\ \A j \in wanted : m <= j
            BY <4>1, <5>m
          <6> TAKE i \in wanted
          <6>2. i \in Nat /\ m \in Nat
            BY <4>4, <6>1
          <6>3. ASSUME \A j \in wanted : i <= j PROVE i = m
            <7>1. i <= m /\ m <= i
              BY <6>1, <6>3
            <7> QED BY <6>2, <7>1
          <6>4. i = m => \A j \in wanted : i <= j
            BY <6>1
          <6> QED BY <6>3, <6>4
        <5> QED BY <4>1, <5>1, <5>m
      <4> QED BY <3>2, <4>3, <4>5
    <3>3. CASE k # "cmd"
      <4>1. {walk[w].fired[j].at : j \in DOMAIN walk[w].fired} = L!Passed(walk[w])
            /\ L!Passed(walk[w]) = L!Due(walk[w])
        BY <2>3, <2>k, <3>3, Zenon DEF L!Called
      <4> QED BY <2>4, <2>f, <3>3, <4>1
    <3> QED BY <3>1, <3>2, <3>3
  <2>7. {i \in DOMAIN walk[w].start :
           L!Wanted(walk[w].kind, walk[w].start[i].key, walk[w].event)} = wanted
    BY <2>d, <2>s, <2>k, <2>v, Zenon
  <2> QED BY <2>5, <2>6, <2>7, <2>s, <2>f, <2>k
<1> QED BY <1>1, ListsInvHolds, PTL
=============================================================================
