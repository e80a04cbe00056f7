------------------------ MODULE ActivityTrackerProofs ------------------------
(***************************************************************************)
(* Theorems about ActivityTracker, for any devices, requests, sessions,    *)
(* windows, probes and restarts.                                           *)
(***************************************************************************)
EXTENDS ActivityTracker, FiniteSetTheorems, TLAPS

(* A window takes a sample, and keeps its size.                            *)
LEMMA RememberType ==
  ASSUME NEW S, NEW w \in Seq(S), NEW n \in Nat \ {0}, Len(w) <= n, NEW x \in S
  PROVE  Remember(w, n, x) \in Seq(S) /\ Len(Remember(w, n, x)) <= n
<1>1. CASE Len(w) >= n
  <2>1. w # <<>> /\ Tail(w) \in Seq(S) /\ Len(Tail(w)) = Len(w) - 1
    BY <1>1
  <2> QED BY <1>1, <2>1 DEF Remember
<1>2. CASE ~(Len(w) >= n)
  BY <1>2 DEF Remember
<1> QED BY <1>1, <1>2

LEMMA InferredType == ASSUME NEW r, NEW a PROVE Inferred(r, a) \in DeviceStates
  BY DEF Inferred, DeviceStates

LEMMA ProbeType ==
  ASSUME TypeOK, NEW s \in Sessions, count[s] # 0
  PROVE  Probe(s) \in Probes
  BY TrackerAssumption DEF TrackerAssumption, TypeOK, Probe, Probes

-----------------------------------------------------------------------------
(* The type invariant.  A goroutine in a probe has begun one.              *)
Begun == \A s \in Sessions : run[s] \in {"send", "await"} => count[s] # 0

Typed == TypeOK /\ Begun

LEMMA InitTyped == Init => Typed
<1> SUFFICES ASSUME Init PROVE Typed
  OBVIOUS
<1> USE TrackerAssumption, WindowAssumption
    DEF TrackerAssumption, WindowAssumption, Init
<1>1. TypeOK
  BY DEF TypeOK, DeviceStates
<1>2. Begun
  BY DEF Begun
<1> QED BY <1>1, <1>2 DEF Typed

(* A request's step.                                                       *)
LEMMA ServeTyped == ASSUME Typed, NEW h \in Requests, Serve(h) PROVE Typed'
<1> USE TrackerAssumption, WindowAssumption
    DEF TrackerAssumption, WindowAssumption, Typed, TypeOK, Begun,
        flag, api, registry, loop, probing, inferred
<1>1. CASE BeginStart(h)
  BY <1>1 DEF BeginStart
<1>2. ASSUME NEW j \in Jids, NEW s \in Sessions, StartTracker(h, j, s) PROVE Typed'
  BY <1>2 DEF StartTracker, Done
<1>3. ASSUME NEW j \in Jids, StartRefused(h, j) PROVE Typed'
  BY <1>3 DEF StartRefused, Done
<1>4. ASSUME NEW j \in Jids, BeginStop(h, j) PROVE Typed'
  BY <1>4 DEF BeginStop
<1>5. ASSUME NEW op \in {"stop", "disable"}, BeginStopAll(h, op) PROVE Typed'
  BY <1>5 DEF BeginStopAll, Tracked
<1>6. ASSUME NEW s \in Sessions, Cancel(h, s) PROVE Typed'
  BY <1>6 DEF Cancel
<1>7. CASE Disable(h)
  BY <1>7 DEF Disable, SetFlag
<1>8. CASE Enable(h)
  BY <1>8 DEF Enable, SetFlag
<1> QED BY <1>1, <1>2, <1>3, <1>4, <1>5, <1>6, <1>7, <1>8 DEF Serve

(* The end of a probe adds at most one row.                                *)
LEMMA ConcludeTyped ==
  ASSUME Typed, NEW s \in Sessions, run[s] = "await", NEW rtt \in Rtts \cup {Timeout},
         NEW st \in DeviceStates, Conclude(s, rtt, st)
  PROVE  /\ run' \in [Sessions -> {"none", "wait", "send", "await", "ended"}]
         /\ \A u \in Sessions : run'[u] \in {"send", "await"} => run[u] = run'[u]
         /\ state' \in [Sessions -> DeviceStates] /\ rows' \subseteq Rows
<1>1. Probe(s) \in Probes
  BY ProbeType DEF Typed, Begun
<1>2. [probe |-> Probe(s), rtt |-> rtt, state |-> st] \in Rows
  BY <1>1 DEF Rows
<1> QED BY <1>2 DEF Conclude, Typed, TypeOK

LEMMA ProbingTyped == ASSUME Typed, NEW s \in Sessions, Probing(s) PROVE Typed'
<1> USE TrackerAssumption, WindowAssumption
    DEF TrackerAssumption, WindowAssumption,
        flag, api, registry, loop, probing, inferred
<1>1. CASE BeginProbe(s)
  <2>1. <<s, count[s] + 1>> \in Probes
    BY <1>1 DEF BeginProbe, Typed, TypeOK, Probes
  <2>2. count' \in [Sessions -> 0 .. MaxProbes] /\ \A u \in Sessions : count[u] # 0 => count'[u] # 0
    BY <1>1 DEF BeginProbe, Typed, TypeOK
  <2>3. waiters' \subseteq Probes
    BY <1>1, <2>1 DEF BeginProbe, Typed, TypeOK
  <2>4. Begun'
    BY <1>1, <2>2 DEF BeginProbe, Typed, TypeOK, Begun
  <2>5. TypeOK'
    BY <1>1, <2>2, <2>3 DEF BeginProbe, Typed, TypeOK
  <2> QED BY <2>4, <2>5 DEF Typed
<1>2. CASE Sent(s)
  BY <1>2 DEF Sent, Typed, TypeOK, Begun
<1>3. CASE SendFails(s)
  BY <1>3 DEF SendFails, Unregister, Typed, TypeOK, Begun
<1>4. CASE Answered(s)
  <2>1. PICK m \in inbox :
          /\ m.probe = Probe(s) /\ inbox' = inbox \ {m}
          /\ recent' = [recent EXCEPT ![s] = Remember(@, AvgWindow, m.rtt)]
          /\ all' = [all EXCEPT ![s] = Remember(@, GlobalSamples, m.rtt)]
          /\ answers' = [answers EXCEPT ![s] = Append(@, m.rtt)]
          /\ Conclude(s, m.rtt, Inferred(recent'[s], all'[s]))
    BY <1>4 DEF Answered
  <2>2. /\ run[s] = "await"
        /\ UNCHANGED <<flag, api, registry, count, waiters, accepted, receipts, notifier, crashes>>
    BY <1>4 DEF Answered
  <2>3. m.rtt \in Rtts
    BY DEF Typed, TypeOK
  <2>4. /\ run' \in [Sessions -> {"none", "wait", "send", "await", "ended"}]
        /\ \A u \in Sessions : run'[u] \in {"send", "await"} => run[u] = run'[u]
        /\ state' \in [Sessions -> DeviceStates] /\ rows' \subseteq Rows
    BY <2>1, <2>2, <2>3, InferredType, ConcludeTyped
  <2>5. /\ Remember(recent[s], AvgWindow, m.rtt) \in Seq(Rtts)
        /\ Len(Remember(recent[s], AvgWindow, m.rtt)) <= AvgWindow
    BY <2>3, RememberType DEF Typed, TypeOK
  <2>6. /\ Remember(all[s], GlobalSamples, m.rtt) \in Seq(Rtts)
        /\ Len(Remember(all[s], GlobalSamples, m.rtt)) <= GlobalSamples
    BY <2>3, RememberType DEF Typed, TypeOK
  <2>7. /\ recent' \in [Sessions -> Seq(Rtts)] /\ all' \in [Sessions -> Seq(Rtts)]
        /\ answers' \in [Sessions -> Seq(Rtts)]
        /\ \A u \in Sessions : Len(recent'[u]) <= AvgWindow /\ Len(all'[u]) <= GlobalSamples
    BY <2>1, <2>3, <2>5, <2>6 DEF Typed, TypeOK
  <2>8. inbox' \subseteq [probe : Probes, rtt : Rtts]
    BY <2>1 DEF Typed, TypeOK
  <2> QED BY <2>2, <2>4, <2>7, <2>8 DEF Typed, TypeOK, Begun
<1>5. CASE TimedOut(s)
  <2>1. /\ run' \in [Sessions -> {"none", "wait", "send", "await", "ended"}]
        /\ \A u \in Sessions : run'[u] \in {"send", "await"} => run[u] = run'[u]
        /\ state' \in [Sessions -> DeviceStates] /\ rows' \subseteq Rows
    BY <1>5, ConcludeTyped DEF TimedOut, DeviceStates
  <2> QED BY <1>5, <2>1 DEF TimedOut, Unregister, Typed, TypeOK, Begun
<1>6. CASE Abandon(s)
  BY <1>6 DEF Abandon, Unregister, Typed, TypeOK, Begun
<1> QED BY <1>1, <1>2, <1>3, <1>4, <1>5, <1>6 DEF Probing

LEMMA NextTyped == Typed /\ [Next]_vars => Typed'
<1> SUFFICES ASSUME Typed, [Next]_vars PROVE Typed'
  OBVIOUS
<1> USE TrackerAssumption, WindowAssumption
    DEF TrackerAssumption, WindowAssumption,
        flag, api, registry, loop, probing, inferred
<1>1. ASSUME NEW s \in Sessions, End(s) PROVE Typed'
  BY <1>1 DEF End, Typed, TypeOK, Begun
<1>2. ASSUME NEW s \in Sessions, Accept(s) PROVE Typed'
  <2>1. Probe(s) \in Probes
    BY <1>2, ProbeType DEF Accept, Typed, Begun
  <2> QED BY <1>2, <2>1 DEF Accept, Typed, TypeOK, Begun
<1>3. ASSUME NEW s \in Sessions, CloseSession(s) PROVE Typed'
  BY <1>3 DEF CloseSession, Typed, TypeOK, Begun
<1>4. ASSUME NEW p \in Probes, Receipt(p) PROVE Typed'
  BY <1>4 DEF Receipt, Unregister, Typed, TypeOK, Begun
<1>5. ASSUME NEW rtt \in Rtts, Signal(rtt) PROVE Typed'
  <2>1. [probe |-> notifier, rtt |-> rtt] \in [probe : Probes, rtt : Rtts]
    BY <1>5 DEF Signal, Typed, TypeOK
  <2>2. inbox' \subseteq [probe : Probes, rtt : Rtts]
    BY <1>5, <2>1 DEF Signal, Typed, TypeOK
  <2> QED BY <1>5, <2>2 DEF Signal, Typed, TypeOK, Begun
<1>6. CASE Restart
  BY <1>6 DEF Restart, Typed, TypeOK, Begun
<1>7. CASE UNCHANGED vars
  BY <1>7 DEF vars, Typed, TypeOK, Begun
<1> QED BY <1>1, <1>2, <1>3, <1>4, <1>5, <1>6, <1>7, ServeTyped, ProbingTyped DEF Next

(* Every variable keeps its type and both windows their size.              *)
THEOREM TypeCorrect == Spec => []TypeOK
<1>1. Typed => TypeOK
  BY DEF Typed
<1> QED BY <1>1, InitTyped, NextTyped, PTL DEF Spec

-----------------------------------------------------------------------------
(* atTrackers.                                                             *)

(* A step of a tracker that is not cancelled leaves it alive.              *)
LEMMA RunStep ==
  ASSUME Typed, TrackInv, UNCHANGED <<request, claimed, registry>>,
         \A s \in Sessions : /\ run[s] = "none" => run'[s] = "none"
                             /\ s \notin cancelled => (Live(s)' <=> Live(s))
  PROVE  TrackInv'
<1> USE DEF TrackInv, registry
<1>1. Tracked' = Tracked /\ Fresh' = Fresh /\ Tracked \subseteq Sessions
  BY DEF Tracked, Fresh, Typed, TypeOK
<1>2. FreshUnused'
  BY <1>1 DEF FreshUnused, Fresh
<1>3. TrackedOpen'
  <2>1. \A s \in Tracked : Live(s)' <=> Live(s)
    BY <1>1 DEF TrackedOpen
  <2> QED BY <1>1, <2>1 DEF TrackedOpen
<1>4. ClaimedByOne'
  BY <1>1 DEF ClaimedByOne
<1>5. LiveInHand'
  BY <1>1 DEF LiveInHand
<1> QED BY <1>2, <1>3, <1>4, <1>5

(* A request that only moves between "none" and "start", or whose stop or  *)
(* disable has nothing in hand any more, changes nothing.                  *)
LEMMA RequestStep ==
  ASSUME Typed, TrackInv, UNCHANGED <<claimed, registry, run>>,
         \A h \in Requests : request'[h] \in {"none", "start"} => claimed[h] = {}
  PROVE  TrackInv'
<1> USE DEF TrackInv, registry
<1>1. Tracked' = Tracked /\ Fresh' = Fresh
  BY DEF Tracked, Fresh
<1> QED BY <1>1 DEF FreshUnused, TrackedOpen, ClaimedByOne, LiveInHand, Live

LEMMA StartTrack ==
  ASSUME Typed, TrackInv, NEW h \in Requests, NEW j \in Jids, NEW s \in Sessions,
         StartTracker(h, j, s)
  PROVE  TrackInv'
<1> USE TrackerAssumption DEF TrackerAssumption, TrackInv
<1>1. /\ request[h] = "start" /\ trackers[j] = None /\ s \in Fresh /\ s # None
      /\ trackers' = [trackers EXCEPT ![j] = s]
      /\ session' = [session EXCEPT ![s] = "open"]
      /\ run' = [run EXCEPT ![s] = "wait"]
      /\ UNCHANGED <<claimed, cancelled, closing>>
  BY DEF StartTracker
<1>2. \A k \in Requests : request'[k] \in {"none", "start"} => request[k] \in {"none", "start"}
  BY <1>1 DEF StartTracker, Done, Typed, TypeOK
<1>3. Tracked' = Tracked \cup {s}
  BY <1>1 DEF Tracked, Typed, TypeOK
<1>4. Fresh' = Fresh \ {s} /\ Tracked \cap Fresh = {}
  BY <1>1 DEF Fresh, Typed, TypeOK, TrackedOpen
<1>5. /\ Live(s)' /\ session'[s] = "open" /\ s \notin cancelled \cup closing
      /\ \A u \in Sessions \ {s} : session'[u] = session[u] /\ run'[u] = run[u] /\ (Live(u)' <=> Live(u))
  BY <1>1 DEF Live, Typed, TypeOK, FreshUnused
<1>6. FreshUnused'
  BY <1>1, <1>4, <1>5 DEF FreshUnused, Fresh
<1>7. TrackedOpen'
  <2>1. \A u \in Tracked' : Live(u)' /\ u \notin cancelled \cup closing /\ session'[u] = "open"
    <3>1. Tracked \subseteq Sessions \ {s}
      BY <1>1, <1>4 DEF Tracked, Typed, TypeOK
    <3> QED BY <1>3, <1>5, <3>1 DEF TrackedOpen
  <2>2. \A i \in Jids : trackers[i] # s
    BY <1>1, <1>4 DEF Tracked
  <2>3. \A i, k \in Jids : trackers'[i] = trackers'[k] /\ trackers'[i] # None => i = k
    BY <1>1, <2>2 DEF TrackedOpen, Typed, TypeOK
  <2> QED BY <1>1, <2>1, <2>3 DEF TrackedOpen
<1>8. ClaimedByOne'
  BY <1>1, <1>2, <1>3, <1>4 DEF ClaimedByOne
<1>9. LiveInHand'
  BY <1>1, <1>3, <1>5 DEF LiveInHand
<1> QED BY <1>6, <1>7, <1>8, <1>9

(* Both kinds of stop: some trackers pass from atTrackers to the request.  *)
LEMMA StopTrack ==
  ASSUME Typed, TrackInv, NEW h \in Requests, request[h] = "none",
         NEW js \in SUBSET Jids,
         trackers' = [j \in Jids |-> IF j \in js THEN None ELSE trackers[j]],
         claimed' = [claimed EXCEPT ![h] = {trackers[j] : j \in js} \ {None}],
         UNCHANGED <<cancelled, closing, session, run>>,
         \A k \in Requests \ {h} : request'[k] = request[k],
         request'[h] \in {"none", "start"} => {trackers[j] : j \in js} \ {None} = {}
  PROVE  TrackInv'
<1> USE TrackerAssumption DEF TrackerAssumption, TrackInv
<1> DEFINE taken == {trackers[j] : j \in js} \ {None}
<1>1. Tracked' = Tracked \ taken /\ taken \subseteq Tracked
  <2>1. \A i, j \in Jids : trackers[i] = trackers[j] /\ trackers[i] # None => i = j
    BY DEF TrackedOpen
  <2> QED BY <2>1 DEF Tracked
<1>2. Fresh' = Fresh /\ Tracked \cap Fresh = {}
  BY DEF Fresh, TrackedOpen
<1>3. \A s \in Sessions : Live(s)' <=> Live(s)
  BY DEF Live
<1>4. claimed[h] = {}
  BY DEF ClaimedByOne
<1>5. claimed'[h] = taken /\ \A k \in Requests \ {h} : claimed'[k] = claimed[k]
  BY DEF Typed, TypeOK
<1>6. FreshUnused'
  BY <1>2 DEF FreshUnused
<1>7. TrackedOpen'
  BY <1>1, <1>3 DEF TrackedOpen, Live
<1> HIDE DEF taken
<1>8. ClaimedByOne'
  <2>1. \A k \in Requests : claimed'[k] \cap (Tracked' \cup Fresh') = {}
    BY <1>1, <1>2, <1>5 DEF ClaimedByOne
  <2>2. \A k \in Requests : request'[k] \in {"none", "start"} => claimed'[k] = {}
    BY <1>5 DEF ClaimedByOne, taken
  <2>3. \A k, l \in Requests : k # l => claimed'[k] \cap claimed'[l] = {}
    BY <1>1, <1>5 DEF ClaimedByOne
  <2> QED BY <2>1, <2>2, <2>3 DEF ClaimedByOne
<1>9. LiveInHand'
  <2>1. ASSUME NEW s \in Sessions \ cancelled, Live(s)
        PROVE  s \in Tracked' \cup UNION {claimed'[k] : k \in Requests}
    <3>1. CASE s \in Tracked
      BY <1>1, <1>5, <3>1
    <3>2. CASE s \notin Tracked
      <4>1. PICK k \in Requests : s \in claimed[k]
        BY <2>1, <3>2 DEF LiveInHand
      <4>2. k # h
        BY <1>4, <4>1
      <4> QED BY <1>5, <4>1, <4>2
    <3> QED BY <3>1, <3>2
  <2> QED BY <1>3, <2>1 DEF LiveInHand
<1> QED BY <1>6, <1>7, <1>8, <1>9

LEMMA CancelTrack ==
  ASSUME Typed, TrackInv, NEW h \in Requests, NEW s \in Sessions, Cancel(h, s)
  PROVE  TrackInv'
<1> USE DEF TrackInv
<1>1. /\ s \in claimed[h] /\ cancelled' = cancelled \cup {s} /\ closing' = closing \cup {s}
      /\ claimed' = [claimed EXCEPT ![h] = @ \ {s}]
      /\ request' = [request EXCEPT ![h] = IF claimed[h] = {s} /\ @ = "stop" THEN "none" ELSE @]
      /\ UNCHANGED <<trackers, session, run>>
  BY DEF Cancel, loop
<1>2. Tracked' = Tracked /\ Fresh' = Fresh /\ s \notin Tracked \cup Fresh
  BY <1>1 DEF Tracked, Fresh, ClaimedByOne
<1>3. claimed'[h] = claimed[h] \ {s} /\ \A k \in Requests \ {h} : claimed'[k] = claimed[k]
  BY <1>1 DEF Typed, TypeOK
<1>4. \A k \in Requests : request'[k] \in {"none", "start"} => claimed'[k] = {}
  BY <1>1, <1>3 DEF ClaimedByOne, Typed, TypeOK
<1>5. FreshUnused'
  BY <1>1, <1>2 DEF FreshUnused
<1>6. TrackedOpen'
  BY <1>1, <1>2 DEF TrackedOpen, Live
<1>7. ClaimedByOne'
  BY <1>2, <1>3, <1>4 DEF ClaimedByOne
<1>8. LiveInHand'
  <2> SUFFICES ASSUME NEW u \in Sessions \ cancelled', Live(u)'
               PROVE  u \in Tracked \cup UNION {claimed'[k] : k \in Requests}
    BY <1>2 DEF LiveInHand
  <2>1. u # s /\ u \in Tracked \cup UNION {claimed[k] : k \in Requests}
    BY <1>1 DEF LiveInHand, Live
  <2> QED BY <1>3, <2>1
<1> QED BY <1>5, <1>6, <1>7, <1>8

LEMMA ServeTrack == ASSUME Typed, TrackInv, NEW h \in Requests, Serve(h) PROVE TrackInv'
<1> USE DEF flag, api, registry, loop
<1>1. CASE BeginStart(h) \/ \E j \in Jids : StartRefused(h, j)
  <2>1. /\ request[h] \in {"none", "start"} /\ \A k \in Requests \ {h} : request'[k] = request[k]
        /\ UNCHANGED <<claimed, registry, run>>
    BY <1>1 DEF BeginStart, StartRefused, Done, Typed, TypeOK
  <2> QED BY <2>1, RequestStep DEF TrackInv, ClaimedByOne
<1>2. CASE Disable(h) \/ Enable(h)
  <2>1. /\ claimed[h] = {} \/ UNCHANGED request
        /\ \A k \in Requests \ {h} : request'[k] = request[k]
        /\ UNCHANGED <<claimed, registry, run>>
    BY <1>2 DEF Disable, Enable, Typed, TypeOK
  <2> QED BY <2>1, RequestStep DEF TrackInv, ClaimedByOne
<1>3. ASSUME NEW j \in Jids, BeginStop(h, j) PROVE TrackInv'
  <2>1. /\ request[h] = "none" /\ trackers[j] # None
        /\ trackers' = [i \in Jids |-> IF i \in {j} THEN None ELSE trackers[i]]
        /\ UNCHANGED <<cancelled, closing, session, run>>
        /\ request' = [request EXCEPT ![h] = "stop"]
    BY <1>3 DEF BeginStop, Typed, TypeOK
  <2>2. claimed' = [claimed EXCEPT ![h] = {trackers[i] : i \in {j}} \ {None}]
    <3>1. {trackers[i] : i \in {j}} \ {None} = {trackers[j]}
      BY <2>1
    <3> QED BY <1>3, <3>1 DEF BeginStop
  <2>3. request'[h] = "stop" /\ \A k \in Requests \ {h} : request'[k] = request[k]
    BY <2>1 DEF Typed, TypeOK
  <2> QED BY <2>1, <2>2, <2>3, StopTrack
<1>4. ASSUME NEW op \in {"stop", "disable"}, BeginStopAll(h, op) PROVE TrackInv'
  <2>1. /\ request[h] = "none"
        /\ trackers' = [j \in Jids |-> IF j \in Jids THEN None ELSE trackers[j]]
        /\ UNCHANGED <<cancelled, closing, session, run>>
        /\ claimed' = [claimed EXCEPT ![h] = {trackers[j] : j \in Jids} \ {None}]
    BY <1>4 DEF BeginStopAll, Tracked
  <2>2. /\ request'[h] \in {"none", "start"} => {trackers[j] : j \in Jids} \ {None} = {}
        /\ \A k \in Requests \ {h} : request'[k] = request[k]
    BY <1>4 DEF BeginStopAll, Tracked, Typed, TypeOK
  <2> QED BY <2>1, <2>2, StopTrack
<1> QED BY <1>1, <1>2, <1>3, <1>4, StartTrack, CancelTrack DEF Serve

LEMMA NextTrack == Typed /\ TrackInv /\ [Next]_vars => TrackInv'
<1> SUFFICES ASSUME Typed, TrackInv, [Next]_vars PROVE TrackInv'
  OBVIOUS
<1> USE DEF flag, api, registry, loop, probing
<1>1. ASSUME NEW s \in Sessions, Probing(s) PROVE TrackInv'
  <2>1. /\ UNCHANGED <<request, claimed, registry>>
        /\ run[s] \in {"wait", "send", "await"}
        /\ \E l \in {"wait", "send", "await"} : run' = [run EXCEPT ![s] = l]
    BY <1>1 DEF Probing, BeginProbe, Sent, SendFails, Answered, TimedOut, Abandon, Conclude
  <2> QED BY <2>1, RunStep DEF Live, Typed, TypeOK
<1>2. ASSUME NEW s \in Sessions, End(s) PROVE TrackInv'
  BY <1>2, RunStep DEF End, Live, Typed, TypeOK
<1>3. CASE (\E s \in Sessions : Accept(s)) \/ (\E p \in Probes : Receipt(p))
           \/ (\E rtt \in Rtts : Signal(rtt)) \/ UNCHANGED vars
  BY <1>3, RunStep DEF Accept, Receipt, Signal, vars, Live
<1>4. ASSUME NEW s \in Sessions, CloseSession(s) PROVE TrackInv'
  <2>1. /\ s \in closing /\ closing' \subseteq closing
        /\ session' \in {session, [session EXCEPT ![s] = "closed"]}
        /\ UNCHANGED <<request, claimed, trackers, cancelled, run>>
    BY <1>4 DEF CloseSession
  <2>2. Tracked' = Tracked /\ s \notin Tracked /\ s \notin Fresh
    BY <2>1 DEF TrackInv, TrackedOpen, FreshUnused, Tracked
  <2>3. Fresh' = Fresh /\ \A u \in Tracked : session'[u] = session[u]
    BY <2>1, <2>2 DEF Fresh, Tracked, Typed, TypeOK
  <2> QED
    BY <2>1, <2>2, <2>3 DEF TrackInv, FreshUnused, TrackedOpen, ClaimedByOne, LiveInHand, Live
<1>5. CASE Restart
  <2>1. /\ request' = [h \in Requests |-> "none"] /\ claimed' = [h \in Requests |-> {}]
        /\ trackers' = [j \in Jids |-> None] /\ closing' = {}
        /\ run' = [s \in Sessions |-> IF run[s] = "none" THEN "none" ELSE "ended"]
        /\ UNCHANGED <<cancelled, session>>
    BY <1>5 DEF Restart
  <2>2. Tracked' = {} /\ Fresh' = Fresh /\ \A s \in Sessions : ~Live(s)'
    BY <2>1 DEF Tracked, Fresh, Live
  <2> QED
    BY <2>1, <2>2 DEF TrackInv, FreshUnused, TrackedOpen, ClaimedByOne, LiveInHand, Live, Fresh
<1> QED BY <1>1, <1>2, <1>3, <1>4, <1>5, ServeTrack DEF Next

LEMMA InitTrack == Init => TrackInv
  BY TrackerAssumption DEF TrackerAssumption, Init, TrackInv, FreshUnused, TrackedOpen,
     ClaimedByOne, LiveInHand, Live, Tracked, Fresh

(* The invariant, counted: one owner or one stopper, never both.           *)
LEMMA TrackedOnce == ASSUME Typed, TrackInv PROVE LiveIsTracked
<1> USE TrackerAssumption DEF TrackerAssumption, TrackInv
<1> SUFFICES ASSUME NEW s \in Sessions
             PROVE  LET owners == {j \in Jids : trackers[j] = s}
                        stoppers == {h \in Requests : s \in claimed[h]}
                    IN /\ Live(s) /\ s \notin cancelled =>
                            Cardinality(owners) + Cardinality(stoppers) = 1
                       /\ owners # {} => Live(s) /\ s \notin cancelled /\ session[s] = "open"
  BY DEF LiveIsTracked
<1> DEFINE owners == {j \in Jids : trackers[j] = s}
           stoppers == {h \in Requests : s \in claimed[h]}
<1>1. owners = {} \/ \E j : owners = {j}
  <2>1. \A i, j \in owners : i = j
    BY DEF TrackedOpen
  <2> QED BY <2>1
<1>2. stoppers = {} \/ \E h : stoppers = {h}
  <2>1. \A h, k \in stoppers : h = k
    BY DEF ClaimedByOne
  <2> QED BY <2>1
<1>3. s \in Tracked <=> owners # {}
  BY DEF Tracked
<1>4. owners # {} => stoppers = {}
  BY <1>3 DEF ClaimedByOne
<1>5. Live(s) /\ s \notin cancelled => owners # {} \/ stoppers # {}
  BY <1>3 DEF LiveInHand
<1>6. owners # {} => Live(s) /\ s \notin cancelled /\ session[s] = "open"
  BY <1>3 DEF TrackedOpen
<1>7. Cardinality({}) = 0 /\ (\A x : Cardinality({x}) = 1)
  BY FS_EmptySet, FS_Singleton
<1> HIDE DEF owners, stoppers
<1>8. /\ Cardinality(owners) = IF owners = {} THEN 0 ELSE 1
      /\ Cardinality(stoppers) = IF stoppers = {} THEN 0 ELSE 1
  BY <1>1, <1>2, <1>7
<1>9. Live(s) /\ s \notin cancelled => Cardinality(owners) + Cardinality(stoppers) = 1
  BY <1>4, <1>5, <1>8
<1> QED BY <1>6, <1>9 DEF owners, stoppers

(* No tracker runs unseen: as long as it is not cancelled it is the one    *)
(* atTrackers has for one JID, or exactly one request has it in hand to    *)
(* cancel it, however starts, stops, stop-alls and restarts interleave.    *)
THEOREM NoStrayTracker == Spec => []LiveIsTracked
<1>1. Spec => [](Typed /\ TrackInv)
  BY InitTyped, NextTyped, InitTrack, NextTrack, PTL DEF Spec
<1> QED BY <1>1, TrackedOnce, PTL

-----------------------------------------------------------------------------
(* Receipts.                                                               *)

LEMMA NextReceipt ==
  Typed /\ ReceiptInv /\ AnsweredByOwnReceipt /\ [Next]_vars
    => ReceiptInv' /\ AnsweredByOwnReceipt'
<1> SUFFICES ASSUME Typed, ReceiptInv, AnsweredByOwnReceipt, [Next]_vars
             PROVE  ReceiptInv' /\ AnsweredByOwnReceipt'
  OBVIOUS
<1> USE DEF ReceiptInv, AnsweredByOwnReceipt, flag, api, registry, loop, probing, inferred
<1>1. ASSUME NEW s \in Sessions, Answered(s) PROVE ReceiptInv' /\ AnsweredByOwnReceipt'
  <2>1. PICK m \in inbox :
          /\ m.probe = Probe(s) /\ inbox' = inbox \ {m}
          /\ Conclude(s, m.rtt, Inferred(recent'[s], all'[s]))
    BY <1>1 DEF Answered
  <2>2. UNCHANGED <<notifier, receipts>>
    BY <1>1 DEF Answered
  <2>3. m.probe \in receipts
    OBVIOUS
  <2>4. \A row \in rows' \ rows : row.probe = Probe(s)
    BY <2>1 DEF Conclude
  <2> QED BY <2>1, <2>2, <2>3, <2>4
<1>2. ASSUME NEW s \in Sessions, TimedOut(s) PROVE ReceiptInv' /\ AnsweredByOwnReceipt'
  <2>1. \A row \in rows' \ rows : row.rtt = Timeout
    BY <1>2 DEF TimedOut, Conclude
  <2>2. UNCHANGED <<inbox, notifier, receipts>>
    BY <1>2 DEF TimedOut
  <2> QED BY <2>1, <2>2
<1>3. ASSUME NEW s \in Sessions, BeginProbe(s) \/ Sent(s) \/ SendFails(s) \/ Abandon(s)
      PROVE  ReceiptInv' /\ AnsweredByOwnReceipt'
  BY <1>3 DEF BeginProbe, Sent, SendFails, Abandon
<1>4. ASSUME NEW p \in Probes, Receipt(p) PROVE ReceiptInv' /\ AnsweredByOwnReceipt'
  BY <1>4 DEF Receipt
<1>5. ASSUME NEW rtt \in Rtts, Signal(rtt) PROVE ReceiptInv' /\ AnsweredByOwnReceipt'
  BY <1>5 DEF Signal
<1>6. CASE Restart
  BY <1>6 DEF Restart
<1>7. CASE \/ \E h \in Requests : Serve(h)
           \/ \E s \in Sessions : End(s) \/ Accept(s) \/ CloseSession(s)
           \/ UNCHANGED vars
  BY <1>7 DEF Serve, BeginStart, StartTracker, StartRefused, BeginStop, BeginStopAll, Cancel,
              Disable, Enable, End, Accept, CloseSession, vars
<1> QED BY <1>1, <1>2, <1>3, <1>4, <1>5, <1>6, <1>7 DEF Next, Probing

(* A saved round-trip time was measured by a receipt for that very probe,  *)
(* however late receipts come and however often.                           *)
THEOREM OwnReceipts == Spec => []AnsweredByOwnReceipt
<1>1. Init => ReceiptInv /\ AnsweredByOwnReceipt
  BY DEF Init, ReceiptInv, AnsweredByOwnReceipt
<1> QED BY <1>1, InitTyped, NextTyped, NextReceipt, PTL DEF Spec

-----------------------------------------------------------------------------
(* The windows.                                                            *)

(* The last n of a sequence: all of it, or what others precede.            *)
Skipped(s, n) == IF Len(s) > n THEN Len(s) - n ELSE 0

LEMMA LastOfAt ==
  ASSUME NEW S, NEW s \in Seq(S), NEW n \in Nat \ {0}
  PROVE  /\ Skipped(s, n) \in Nat
         /\ LastOf(s, n) \in Seq(S) /\ Len(LastOf(s, n)) = Len(s) - Skipped(s, n)
         /\ \A i \in 1 .. Len(s) - Skipped(s, n) : LastOf(s, n)[i] = s[Skipped(s, n) + i]
<1> DEFINE first == IF Len(s) > n THEN Len(s) - n + 1 ELSE 1
           d     == Skipped(s, n)
           l     == LastOf(s, n)
<1>1. l = SubSeq(s, first, Len(s))
  BY DEF LastOf
<1>2. first \in Nat /\ 1 <= first /\ first = d + 1 /\ d \in Nat /\ d <= Len(s)
  BY DEF Skipped
<1> HIDE DEF first, d, l
<1>3. l \in Seq(S) /\ Len(l) = Len(s) - first + 1
      /\ \A i \in 1 .. Len(s) - first + 1 : l[i] = s[first + i - 1]
  BY <1>1, <1>2
<1>4. Len(s) - first + 1 = Len(s) - d /\ \A i \in 1 .. Len(s) - d : first + i - 1 = d + i
  BY <1>2
<1>5. \A i \in 1 .. Len(s) - d : l[i] = s[d + i]
  BY <1>3, <1>4
<1> QED BY <1>2, <1>3, <1>4, <1>5 DEF d, l

(* The last n of a sequence that grew by x are what Remember makes of the  *)
(* last n before.                                                          *)
LEMMA RememberLast ==
  ASSUME NEW S, NEW s \in Seq(S), NEW n \in Nat \ {0}, NEW x \in S
  PROVE  Remember(LastOf(s, n), n, x) = LastOf(Append(s, x), n)
<1> DEFINE t == Append(s, x)
           l == LastOf(s, n)
           r == Remember(l, n, x)
           m == LastOf(t, n)
<1>1. t \in Seq(S) /\ Len(t) = Len(s) + 1 /\ (\A i \in 1 .. Len(s) : t[i] = s[i])
      /\ t[Len(s) + 1] = x
  OBVIOUS
<1> HIDE DEF t
<1> DEFINE d == Skipped(s, n)
           e == Skipped(t, n)
<1>2. /\ d \in Nat /\ l \in Seq(S) /\ Len(l) = Len(s) - d
      /\ \A i \in 1 .. Len(s) - d : l[i] = s[d + i]
  BY LastOfAt
<1>3. /\ e \in Nat /\ m \in Seq(S) /\ Len(m) = Len(t) - e
      /\ \A i \in 1 .. Len(t) - e : m[i] = t[e + i]
  <2>1. t \in Seq(S)
    BY <1>1
  <2> QED BY <2>1, LastOfAt
<1> HIDE DEF l, m
<1>4. CASE Len(s) < n
  <2>1. d = 0 /\ e = 0
    BY <1>1, <1>4 DEF Skipped
  <2> HIDE DEF d, e
  <2>2. l \in Seq(S) /\ Len(l) = Len(s) /\ \A i \in 1 .. Len(s) : l[i] = s[i]
    BY <1>2, <2>1
  <2>3. m \in Seq(S) /\ Len(m) = Len(s) + 1 /\ \A i \in 1 .. Len(s) + 1 : m[i] = t[i]
    <3>1. Len(t) - e = Len(s) + 1 /\ \A i \in 1 .. Len(s) + 1 : e + i = i
      BY <1>1, <2>1
    <3> QED BY <1>3, <3>1
  <2>4. r = Append(l, x)
    BY <1>4, <2>2 DEF Remember
  <2>5. /\ r \in Seq(S) /\ Len(r) = Len(s) + 1
        /\ (\A i \in 1 .. Len(s) : r[i] = l[i]) /\ r[Len(s) + 1] = x
    BY <2>2, <2>4
  <2> HIDE DEF r
  <2>6. \A i \in 1 .. Len(s) + 1 : r[i] = m[i]
    BY <1>1, <2>2, <2>3, <2>5
  <2>7. r = m
    BY <2>3, <2>5, <2>6
  <2> QED BY <2>7 DEF r, m, t, l
<1>5. CASE Len(s) >= n
  <2>1. e = d + 1 /\ Len(s) - d = n /\ Len(t) - e = n
    BY <1>1, <1>5 DEF Skipped
  <2> HIDE DEF d, e
  <2>2. l \in Seq(S) /\ Len(l) = n /\ \A i \in 1 .. n : l[i] = s[d + i]
    BY <1>2, <2>1
  <2>3. m \in Seq(S) /\ Len(m) = n /\ \A i \in 1 .. n : m[i] = t[e + i]
    BY <1>3, <2>1
  <2>4. r = Append(Tail(l), x)
    BY <2>2 DEF Remember
  <2>5. /\ r \in Seq(S) /\ Len(r) = n
        /\ (\A i \in 1 .. n - 1 : r[i] = l[i + 1]) /\ r[n] = x
    BY <2>2, <2>4
  <2> HIDE DEF r
  <2>6. r[n] = m[n]
    <3>1. e + n = Len(s) + 1 /\ n \in 1 .. n
      BY <1>1, <2>1
    <3> QED BY <1>1, <2>3, <2>5, <3>1
  <2>7. ASSUME NEW i \in 1 .. n - 1 PROVE r[i] = m[i]
    <3>1. e + i \in 1 .. Len(s) /\ i + 1 \in 1 .. n /\ i \in 1 .. n /\ d + (i + 1) = e + i
      BY <1>1, <1>2, <2>1
    <3>2. l[i + 1] = s[e + i]
      BY <2>2, <3>1
    <3>3. m[i] = t[e + i]
      BY <2>3, <3>1
    <3> QED BY <1>1, <2>5, <3>1, <3>2, <3>3
  <2>8. \A i \in 1 .. n : r[i] = m[i]
    BY <2>6, <2>7
  <2>9. r = m
    BY <2>3, <2>5, <2>8
  <2> QED BY <2>9 DEF r, m, t, l
<1> QED BY <1>4, <1>5

LEMMA NextSamples == Typed /\ SamplesAreLast /\ [Next]_vars => SamplesAreLast'
<1> SUFFICES ASSUME Typed, SamplesAreLast, [Next]_vars PROVE SamplesAreLast'
  OBVIOUS
<1> USE DEF flag, api, registry, loop, probing, inferred
<1>1. ASSUME NEW s \in Sessions, Answered(s) PROVE SamplesAreLast'
  <2>1. PICK m \in inbox :
          /\ recent' = [recent EXCEPT ![s] = Remember(@, AvgWindow, m.rtt)]
          /\ all' = [all EXCEPT ![s] = Remember(@, GlobalSamples, m.rtt)]
          /\ answers' = [answers EXCEPT ![s] = Append(@, m.rtt)]
    BY <1>1 DEF Answered
  <2>2. m.rtt \in Rtts /\ answers[s] \in Seq(Rtts)
    BY DEF Typed, TypeOK
  <2>3. /\ Remember(recent[s], AvgWindow, m.rtt) = LastOf(Append(answers[s], m.rtt), AvgWindow)
        /\ Remember(all[s], GlobalSamples, m.rtt) = LastOf(Append(answers[s], m.rtt), GlobalSamples)
    BY <2>2, RememberLast, WindowAssumption DEF WindowAssumption, SamplesAreLast
  <2> QED BY <2>1, <2>3 DEF SamplesAreLast, Typed, TypeOK
<1>2. CASE \/ \E h \in Requests : Serve(h)
           \/ \E s \in Sessions : End(s) \/ Accept(s) \/ CloseSession(s) \/ TimedOut(s)
           \/ \E s \in Sessions : BeginProbe(s) \/ Sent(s) \/ SendFails(s) \/ Abandon(s)
           \/ \E p \in Probes : Receipt(p)
           \/ \E rtt \in Rtts : Signal(rtt)
           \/ Restart \/ UNCHANGED vars
  <2>1. UNCHANGED <<recent, all, answers>>
    BY <1>2 DEF Serve, BeginStart, StartTracker, StartRefused, BeginStop, BeginStopAll, Cancel,
                Disable, Enable, End, Accept, CloseSession, TimedOut, BeginProbe, Sent, SendFails,
                Abandon, Receipt, Signal, Restart, vars
  <2> QED BY <2>1 DEF SamplesAreLast
<1> QED BY <1>1, <1>2 DEF Next, Probing

(* classify() always sees exactly the last round-trip times received, for  *)
(* windows of any size: what timed out or failed leaves no trace.          *)
THEOREM WindowsAreLast == Spec => []SamplesAreLast
<1>1. Init => SamplesAreLast
  <2> SUFFICES ASSUME Init, NEW s \in Sessions, NEW n \in Nat \ {0} PROVE LastOf(<<>>, n) = <<>>
    BY WindowAssumption DEF Init, SamplesAreLast, WindowAssumption
  <2> QED BY DEF LastOf
<1> QED BY <1>1, InitTyped, NextTyped, NextSamples, PTL DEF Spec
=============================================================================
