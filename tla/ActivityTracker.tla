--------------------------- MODULE ActivityTracker ---------------------------
(***************************************************************************)
(* The device activity tracker: internal/api/activitytracker.go and        *)
(* internal/whatsapp/activitytracker.go.  API requests start and stop      *)
(* trackers, one per JID; a tracker is a goroutine that probes its device  *)
(* and waits for the delivery receipt, which handler() signals to it.      *)
(*                                                                         *)
(* A tracker is named by its session (the id of its row in                 *)
(* device_activity_sessions), a probe by its session and its number.       *)
(***************************************************************************)
EXTENDS RttClassifier

CONSTANTS
  Jids,        (* Devices that can be tracked.                             *)
  Sessions,    (* Bound of the model: sessions that can be created.        *)
  Requests,    (* Goroutines that serve API requests, one at a time each.  *)
  None,        (* No tracker, no probe.                                    *)
  Rtts,        (* Bound of the model: round-trip times a receipt may show. *)
  MaxProbes,   (* Bound of the model: probes a tracker sends.              *)
  MaxCrashes   (* Bound of the model: times the process dies.              *)

ASSUME TrackerAssumption ==
  /\ None \notin Sessions \cup (Sessions \X Nat)
  /\ Rtts \subseteq Nat
  /\ MaxProbes \in Nat /\ MaxCrashes \in Nat

VARIABLES
  enabled,    (* cfg.ActivityTrackerEnabled in memory.                      *)
  file,       (* The same flag in the config file.  Durable.                *)
  request,    (* What each request has left to do: "none", "start",         *)
              (* "stop" or "disable".                                       *)
  todo,       (* JIDs a start request has left to start.                    *)
  claimed,    (* Sessions a request took out of atTrackers to cancel.       *)
  trackers,   (* atTrackers: JID to session, None where there is none.      *)
  run,        (* Where the goroutine of each tracker is.                    *)
  cancelled,  (* Sessions whose context is cancelled.                       *)
  closing,    (* Sessions with a goroutine in closeActivitySession.         *)
  session,    (* Rows of device_activity_sessions.  Durable.                *)
  count,      (* Probes each tracker has begun.                             *)
  waiters,    (* atProbeWaiters.                                            *)
  accepted,   (* Probes the WhatsApp server accepted.                       *)
  receipts,   (* History: probes for which a receipt reached handler().     *)
  notifier,   (* The waiter NotifyProbeReceipt took out and will signal.    *)
  inbox,      (* The channels of the waiters: [probe, rtt], capacity 1.     *)
  recent,     (* recentRTTs of each tracker.                                *)
  all,        (* globalRTTs of each tracker.                                *)
  answers,    (* History: all round-trip times each tracker received.       *)
  state,      (* CurrentState of each tracker.                              *)
  rows,       (* device_activity_probes: [probe, rtt, state].  Durable.     *)
  crashes     (* How often the process died and was started again.          *)

flag     == <<enabled, file>>
api      == <<request, todo, claimed>>
registry == <<trackers, cancelled, closing, session>>
loop     == <<run, count>>
probing  == <<waiters, accepted, receipts, notifier, inbox>>
inferred == <<recent, all, answers, state>>
vars == <<flag, api, registry, loop, probing, inferred, rows, crashes>>

Probes   == Sessions \X (1 .. MaxProbes)
Timeout  == -1
Probe(s) == <<s, count[s]>>
Tracked  == {trackers[j] : j \in Jids} \ {None}
Fresh    == {s \in Sessions : session[s] = "none"}

Init ==
  /\ enabled \in BOOLEAN /\ file = enabled
  /\ request = [h \in Requests |-> "none"]
  /\ todo = [h \in Requests |-> {}] /\ claimed = [h \in Requests |-> {}]
  /\ trackers = [j \in Jids |-> None]
  /\ cancelled = {} /\ closing = {} /\ session = [s \in Sessions |-> "none"]
  /\ run = [s \in Sessions |-> "none"] /\ count = [s \in Sessions |-> 0]
  /\ waiters = {} /\ accepted = {} /\ receipts = {} /\ notifier = None /\ inbox = {}
  /\ recent = [s \in Sessions |-> <<>>] /\ all = [s \in Sessions |-> <<>>]
  /\ answers = [s \in Sessions |-> <<>>]
  /\ state = [s \in Sessions |-> "Offline"]
  /\ rows = {} /\ crashes = 0

(***************************************************************************)
(* API requests.                                                           *)
(***************************************************************************)

(* start and start-bulk look at the flag once, before they start anything. *)
BeginStart(h) ==
  /\ request[h] = "none" /\ enabled
  /\ request' = [request EXCEPT ![h] = "start"]
  /\ \E js \in SUBSET Jids \ {{}} : todo' = [todo EXCEPT ![h] = js]
  /\ UNCHANGED <<flag, claimed, registry, loop, probing, inferred, rows, crashes>>

(* One JID of a start request is dealt with.                               *)
Done(h, j) ==
  /\ todo' = [todo EXCEPT ![h] = @ \ {j}]
  /\ request' = [request EXCEPT ![h] = IF todo[h] = {j} THEN "none" ELSE "start"]

(* Mutant: nothing looks whether the JID is tracked already.               *)
StartTrackerTwice(h, j, s) ==
  /\ request[h] = "start" /\ j \in todo[h] /\ s \in Fresh
  /\ trackers' = [trackers EXCEPT ![j] = s]
  /\ session' = [session EXCEPT ![s] = "open"]
  /\ run' = [run EXCEPT ![s] = "wait"]
  /\ Done(h, j)
  /\ UNCHANGED <<flag, claimed, cancelled, closing, count, probing, inferred, rows, crashes>>

(* StartTracker creates the session row and the tracker under atMu.        *)
StartTracker(h, j, s) ==
  /\ request[h] = "start" /\ j \in todo[h]
  /\ trackers[j] = None /\ s \in Fresh
  /\ trackers' = [trackers EXCEPT ![j] = s]
  /\ session' = [session EXCEPT ![s] = "open"]
  /\ run' = [run EXCEPT ![s] = "wait"]
  /\ Done(h, j)
  /\ UNCHANGED <<flag, claimed, cancelled, closing, count, probing, inferred, rows, crashes>>

(* The JID is tracked already, or its session could not be saved.          *)
StartRefused(h, j) ==
  /\ request[h] = "start" /\ j \in todo[h]
  /\ Done(h, j)
  /\ UNCHANGED <<flag, claimed, registry, loop, probing, inferred, rows, crashes>>

(* StopTracker takes the tracker out of the map under atMu ...             *)
BeginStop(h, j) ==
  /\ request[h] = "none" /\ trackers[j] # None
  /\ request' = [request EXCEPT ![h] = "stop"]
  /\ claimed' = [claimed EXCEPT ![h] = {trackers[j]}]
  /\ trackers' = [trackers EXCEPT ![j] = None]
  /\ UNCHANGED <<flag, todo, cancelled, closing, session, loop, probing, inferred, rows,
                 crashes>>

(* ... and StopAllTrackers all of them, for stop-all and for disable.      *)
BeginStopAll(h, op) ==
  /\ request[h] = "none"
  /\ request' = [request EXCEPT ![h] = IF Tracked = {} /\ op = "stop" THEN "none" ELSE op]
  /\ claimed' = [claimed EXCEPT ![h] = Tracked]
  /\ trackers' = [j \in Jids |-> None]
  /\ UNCHANGED <<flag, todo, cancelled, closing, session, loop, probing, inferred, rows,
                 crashes>>

(* Mutant: the session is closed but the context is not cancelled.         *)
CloseOnly(h, s) ==
  /\ s \in claimed[h]
  /\ closing' = closing \cup {s}
  /\ claimed' = [claimed EXCEPT ![h] = @ \ {s}]
  /\ request' = [request EXCEPT ![h] =
                   IF claimed[h] = {s} /\ @ = "stop" THEN "none" ELSE @]
  /\ UNCHANGED <<flag, todo, cancelled, trackers, session, loop, probing, inferred, rows, crashes>>

(* Then each is cancelled and its session closed by a goroutine.           *)
Cancel(h, s) ==
  /\ s \in claimed[h]
  /\ cancelled' = cancelled \cup {s} /\ closing' = closing \cup {s}
  /\ claimed' = [claimed EXCEPT ![h] = @ \ {s}]
  /\ request' = [request EXCEPT ![h] =
                   IF claimed[h] = {s} /\ @ = "stop" THEN "none" ELSE @]
  /\ UNCHANGED <<flag, todo, trackers, session, loop, probing, inferred, rows, crashes>>

(* SetActivityTrackerEnabled: in memory, and in the file if it can.        *)
SetFlag(value) == enabled' = value /\ file' \in {value, file}

Disable(h) ==
  /\ request[h] = "disable" /\ claimed[h] = {}
  /\ SetFlag(FALSE)
  /\ request' = [request EXCEPT ![h] = "none"]
  /\ UNCHANGED <<todo, claimed, registry, loop, probing, inferred, rows, crashes>>

Enable(h) ==
  /\ request[h] = "none"
  /\ SetFlag(TRUE)
  /\ UNCHANGED <<api, registry, loop, probing, inferred, rows, crashes>>

(* closeActivitySession sets stopped_at, unless reading or saving fails.   *)
CloseSession(s) ==
  /\ s \in closing
  /\ closing' = closing \ {s}
  /\ session' \in {session, [session EXCEPT ![s] = "closed"]}
  /\ UNCHANGED <<flag, api, trackers, cancelled, loop, probing, inferred, rows, crashes>>

(***************************************************************************)
(* A tracker's goroutine: run() and probe().                               *)
(***************************************************************************)

Unregister(p) == waiters' = waiters \ {p}

(* Both cases of run()'s select may be ready, so a cancelled tracker may   *)
(* still begin a probe.                                                    *)
BeginProbe(s) ==
  /\ run[s] = "wait" /\ count[s] < MaxProbes
  /\ count' = [count EXCEPT ![s] = @ + 1]
  /\ run' = [run EXCEPT ![s] = "send"]
  /\ waiters' = waiters \cup {<<s, count[s] + 1>>}
  /\ UNCHANGED <<flag, api, registry, accepted, receipts, notifier, inbox, inferred, rows,
                 crashes>>

End(s) ==
  /\ run[s] = "wait" /\ s \in cancelled
  /\ run' = [run EXCEPT ![s] = "ended"]
  /\ UNCHANGED <<flag, api, registry, count, probing, inferred, rows, crashes>>

(* sendProbe returned without an error.                                    *)
Sent(s) ==
  /\ run[s] = "send" /\ Probe(s) \in accepted
  /\ run' = [run EXCEPT ![s] = "await"]
  /\ UNCHANGED <<flag, api, registry, count, probing, inferred, rows, crashes>>

(* sendProbe failed; the server may have accepted the probe all the same.  *)
SendFails(s) ==
  /\ run[s] = "send"
  /\ run' = [run EXCEPT ![s] = "wait"]
  /\ Unregister(Probe(s))
  /\ UNCHANGED <<flag, api, registry, count, accepted, receipts, notifier, inbox, inferred,
                 rows, crashes>>

(* The probe is over: its state is set and a goroutine of its own saves    *)
(* its row, or fails to.  Nobody reads the rows back, so they are in the   *)
(* model as soon as they will ever be saved.                               *)
Conclude(s, rtt, st) ==
  /\ run' = [run EXCEPT ![s] = "wait"]
  /\ state' = [state EXCEPT ![s] = st]
  /\ rows' \in {rows, rows \cup {[probe |-> Probe(s), rtt |-> rtt, state |-> st]}}

(* Mutant: the probes of a tracker share one channel.                      *)
AnsweredByAny(s) ==
  /\ run[s] = "await"
  /\ \E m \in inbox :
       /\ m.probe[1] = s
       /\ inbox' = inbox \ {m}
       /\ recent' = [recent EXCEPT ![s] = Remember(@, AvgWindow, m.rtt)]
       /\ all' = [all EXCEPT ![s] = Remember(@, GlobalSamples, m.rtt)]
       /\ answers' = [answers EXCEPT ![s] = Append(@, m.rtt)]
       /\ Conclude(s, m.rtt, Inferred(recent'[s], all'[s]))
  /\ UNCHANGED <<flag, api, registry, count, waiters, accepted, receipts, notifier, crashes>>

(* A round-trip time came through the channel: classify().                 *)
Answered(s) ==
  /\ run[s] = "await"
  /\ \E m \in inbox :
       /\ m.probe = Probe(s)
       /\ inbox' = inbox \ {m}
       /\ recent' = [recent EXCEPT ![s] = Remember(@, AvgWindow, m.rtt)]
       /\ all' = [all EXCEPT ![s] = Remember(@, GlobalSamples, m.rtt)]
       /\ answers' = [answers EXCEPT ![s] = Append(@, m.rtt)]
       /\ Conclude(s, m.rtt, Inferred(recent'[s], all'[s]))
  /\ UNCHANGED <<flag, api, registry, count, waiters, accepted, receipts, notifier, crashes>>

(* Mutant: a timeout counts as a sample.                                   *)
TimedOutCounted(s) ==
  /\ run[s] = "await"
  /\ Unregister(Probe(s))
  /\ all' = [all EXCEPT ![s] = Remember(@, GlobalSamples, Timeout)]
  /\ Conclude(s, Timeout, "Offline")
  /\ UNCHANGED <<flag, api, registry, count, accepted, receipts, notifier, inbox, recent,
                 answers, crashes>>

(* After atProbeTimeout the device counts as offline.                      *)
TimedOut(s) ==
  /\ run[s] = "await"
  /\ Unregister(Probe(s))
  /\ Conclude(s, Timeout, "Offline")
  /\ UNCHANGED <<flag, api, registry, count, accepted, receipts, notifier, inbox, recent, all,
                 answers, crashes>>

Abandon(s) ==
  /\ run[s] = "await" /\ s \in cancelled
  /\ run' = [run EXCEPT ![s] = "wait"]
  /\ Unregister(Probe(s))
  /\ UNCHANGED <<flag, api, registry, count, accepted, receipts, notifier, inbox, inferred,
                 rows, crashes>>

(***************************************************************************)
(* The WhatsApp server and handler().                                      *)
(***************************************************************************)

(* The server accepts a probe while sendProbe waits for its answer.        *)
Accept(s) ==
  /\ run[s] = "send"
  /\ accepted' = accepted \cup {Probe(s)}
  /\ UNCHANGED <<flag, api, registry, loop, waiters, receipts, notifier, inbox, inferred, rows,
                 crashes>>

(* NotifyProbeReceipt takes the waiter out under atProbeMu.  Every device  *)
(* of the contact sends receipts for the same probe, at any time.          *)
Receipt(p) ==
  /\ p \in accepted /\ notifier = None
  /\ receipts' = receipts \cup {p}
  /\ Unregister(p)
  /\ notifier' = IF p \in waiters THEN p ELSE None
  /\ UNCHANGED <<flag, api, registry, loop, accepted, inbox, inferred, rows, crashes>>

(* Then it puts the round-trip time into the channel, if that has room.    *)
Signal(rtt) ==
  /\ notifier # None
  /\ notifier' = None
  /\ inbox' = IF \E m \in inbox : m.probe = notifier
              THEN inbox
              ELSE inbox \cup {[probe |-> notifier, rtt |-> rtt]}
  /\ UNCHANGED <<flag, api, registry, loop, waiters, accepted, receipts, inferred, rows, crashes>>

(* The process dies and is started again: only the rows and the file stay. *)
Restart ==
  /\ crashes < MaxCrashes
  /\ crashes' = crashes + 1
  /\ enabled' = file
  /\ request' = [h \in Requests |-> "none"]
  /\ todo' = [h \in Requests |-> {}] /\ claimed' = [h \in Requests |-> {}]
  /\ trackers' = [j \in Jids |-> None]
  /\ run' = [s \in Sessions |-> IF run[s] = "none" THEN "none" ELSE "ended"]
  /\ closing' = {} /\ waiters' = {} /\ notifier' = None /\ inbox' = {}
  /\ UNCHANGED <<file, cancelled, session, count, accepted, receipts, inferred, rows>>

(***************************************************************************)
(* The specification.                                                      *)
(***************************************************************************)

Serve(h) ==
  \/ BeginStart(h)
  \/ \E j \in Jids, s \in Sessions : StartTracker(h, j, s)
  \/ \E j \in Jids : StartRefused(h, j)
  \/ \E j \in Jids : BeginStop(h, j)
  \/ \E op \in {"stop", "disable"} : BeginStopAll(h, op)
  \/ \E s \in Sessions : Cancel(h, s)
  \/ Disable(h)
  \/ Enable(h)

Probing(s) ==
  \/ BeginProbe(s) \/ Sent(s) \/ SendFails(s)
  \/ Answered(s) \/ TimedOut(s) \/ Abandon(s)

Next ==
  \/ \E h \in Requests : Serve(h)
  \/ \E s \in Sessions : Probing(s) \/ End(s) \/ Accept(s) \/ CloseSession(s)
  \/ \E p \in Probes : Receipt(p)
  \/ \E rtt \in Rtts : Signal(rtt)
  \/ Restart

Spec == Init /\ [][Next]_vars

(* Goroutines that can run do; a select whose context is cancelled picks   *)
(* that case in the end (strong fairness); and a request that began ends.  *)
Fairness ==
  /\ \A h \in Requests, s \in Sessions : WF_vars(Cancel(h, s))
  /\ \A s \in Sessions :
       WF_vars(Probing(s)) /\ SF_vars(End(s)) /\ WF_vars(CloseSession(s))

FairSpec == Spec /\ Fairness

(***************************************************************************)
(* Properties.                                                             *)
(***************************************************************************)

Rows == [probe : Probes, rtt : Rtts \cup {Timeout}, state : DeviceStates]

(* The type invariant, with the sizes of the two windows.                  *)
TypeOK ==
  /\ enabled \in BOOLEAN /\ file \in BOOLEAN
  /\ request \in [Requests -> {"none", "start", "stop", "disable"}]
  /\ todo \in [Requests -> SUBSET Jids] /\ claimed \in [Requests -> SUBSET Sessions]
  /\ trackers \in [Jids -> Sessions \cup {None}]
  /\ cancelled \subseteq Sessions /\ closing \subseteq Sessions
  /\ session \in [Sessions -> {"none", "open", "closed"}]
  /\ run \in [Sessions -> {"none", "wait", "send", "await", "ended"}]
  /\ count \in [Sessions -> 0 .. MaxProbes]
  /\ waiters \subseteq Probes /\ accepted \subseteq Probes /\ receipts \subseteq Probes
  /\ notifier \in Probes \cup {None}
  /\ inbox \subseteq [probe : Probes, rtt : Rtts]
  /\ recent \in [Sessions -> Seq(Rtts)] /\ all \in [Sessions -> Seq(Rtts)]
  /\ answers \in [Sessions -> Seq(Rtts)]
  /\ \A s \in Sessions : Len(recent[s]) <= AvgWindow /\ Len(all[s]) <= GlobalSamples
  /\ state \in [Sessions -> DeviceStates]
  /\ rows \subseteq Rows
  /\ crashes \in 0 .. MaxCrashes

Live(s) == run[s] \in {"wait", "send", "await"}

(* Every tracker that runs can be seen and stopped: it is the one atTrackers *)
(* has for exactly one JID, or a stop request has it in hand, or it is       *)
(* cancelled and will end; a closed session has none.                        *)
LiveIsTracked ==
  \A s \in Sessions :
    LET owners == {j \in Jids : trackers[j] = s}
        stoppers == {h \in Requests : s \in claimed[h]}
    IN /\ Live(s) /\ s \notin cancelled => Cardinality(owners) + Cardinality(stoppers) = 1
       /\ owners # {} => Live(s) /\ s \notin cancelled /\ session[s] = "open"

(* The inductive invariant behind it: sessions pass from atTrackers to one *)
(* request and from there to cancelled, and are fresh before.              *)
FreshUnused ==
  \A s \in Fresh : run[s] = "none" /\ s \notin cancelled \cup closing

TrackedOpen ==
  /\ \A s \in Tracked : Live(s) /\ s \notin cancelled \cup closing /\ session[s] = "open"
  /\ \A i, j \in Jids : trackers[i] = trackers[j] /\ trackers[i] # None => i = j

ClaimedByOne ==
  /\ \A h \in Requests :
       /\ claimed[h] \cap (Tracked \cup Fresh) = {}
       /\ request[h] \in {"none", "start"} => claimed[h] = {}
  /\ \A h, k \in Requests : h # k => claimed[h] \cap claimed[k] = {}

LiveInHand ==
  \A s \in Sessions \ cancelled : Live(s) => s \in Tracked \cup UNION {claimed[h] : h \in Requests}

TrackInv == FreshUnused /\ TrackedOpen /\ ClaimedByOne /\ LiveInHand

(* A round-trip time is under way for receipts that came, and only those.  *)
ReceiptInv ==
  /\ notifier # None => notifier \in receipts
  /\ \A m \in inbox : m.probe \in receipts

(* A recorded round-trip time is that of a receipt for that very probe: a  *)
(* late receipt for a probe that timed out is not credited to the next.    *)
AnsweredByOwnReceipt ==
  \A row \in rows : row.rtt # Timeout => row.probe \in receipts

LastOf(s, n) == SubSeq(s, IF Len(s) > n THEN Len(s) - n + 1 ELSE 1, Len(s))

(* The two windows are exactly the last round-trip times received: probes  *)
(* that timed out or failed leave no trace in them.                        *)
SamplesAreLast ==
  \A s \in Sessions :
    /\ recent[s] = LastOf(answers[s], AvgWindow)
    /\ all[s] = LastOf(answers[s], GlobalSamples)

(* A stopped tracker's goroutine ends, even if it is in a probe, and its   *)
(* session is closed or the save failed; a crash ends both.                *)
StoppedEnds ==
  \A s \in Sessions :
    (s \in UNION {claimed[h] : h \in Requests}) ~>
      (run[s] = "ended" /\ (crashes > 0 \/ s \in cancelled \ closing))

(* Turning the feature off stops all running trackers: once no request is  *)
(* being served and the flag is off, nothing is tracked.                   *)
DisabledTracksNothing ==
  ~enabled /\ (\A h \in Requests : request[h] = "none") /\ crashes = 0 => Tracked = {}
=============================================================================
