----------------------------- MODULE MCServices -----------------------------
(***************************************************************************)
(* Services beside the messages, in one run: the live event feed, the DB   *)
(* explorer, the log capture, simulated journeys.  They share no state:    *)
(* "part" says which of them a behaviour is about, and the variables of    *)
(* the others keep their first values.                                     *)
(***************************************************************************)
EXTENDS SseBroker, TLC

CONSTANTS
  p1, p2,                                    (* For the feed's constants.   *)
  DbRequests, Values, MaxSeconds, MaxSaves,  (* DbExplorer's constants,     *)
  Writers, Levels, RingSize, SinkSize, MaxEntries, MaxRestarts,
                                             (* CaptureLog's and            *)
  Sims, Files, Speeds, MaxTime               (* RouteSimulation's.          *)

VARIABLES
  part,
  open, dbMu, file, backups, client, strays, store, closedStores, device, clock, request, writer, saves,
  captureSeq, slots, head, count, sink, frames, logger, consumer, dropped, restarts,
  sim, activeSims, now, sent

dbVars    == <<open, dbMu, file, backups, client, strays, store, closedStores, device, clock, request,
               writer, saves>>
logVars   == <<captureSeq, slots, head, count, sink, frames, logger, consumer, dropped, restarts>>
routeVars == <<sim, activeSims, now, sent>>
allVars   == <<part, vars, dbVars, logVars, routeVars>>

(* Publishers: one of two events, one of one.                              *)
TwoPublishers == {p1, p2}
ThreeEvents   == p1 :> 2 @@ p2 :> 1

D == INSTANCE DbExplorer WITH Requests <- DbRequests, now <- clock, closed <- closedStores

L == INSTANCE CaptureLog WITH writer <- logger

J == INSTANCE RouteSimulation

(* A request is neither the client nor nobody, and what the row may hold   *)
(* is neither its absence nor a file that is no database.                  *)
ASSUME ExplorerAssumption ==
  /\ D!Client \notin DbRequests /\ D!None \notin DbRequests
  /\ Values # {} /\ Values \cap {D!NoRow, D!Broken, D!None} = {}
  /\ MaxSeconds \in Nat \ {0} /\ MaxSaves \in Nat

(* A ring has room, and bounds are numbers.                                *)
ASSUME LogAssumption ==
  RingSize \in Nat \ {0} /\ SinkSize \in Nat /\ MaxEntries \in Nat /\ MaxRestarts \in Nat

(* Tracks and routes of a file are sequences of points, and a journey      *)
(* moves: Start gives a request without a speed one.                       *)
ASSUME JourneyAssumption ==
  /\ \A f \in Files : f.tracks \in Seq(Seq(Int)) /\ f.routes \in Seq(Seq(Int)) /\ f.waypoints \in Seq(Int)
  /\ Speeds \subseteq Nat \ {0} /\ MaxTime \in Nat

(* GPX files: tracks and routes; routes that turn and waypoints; waypoints *)
(* that repeat; a track of no length; a single point.                      *)
GpxFiles ==
  {[tracks |-> <<<<0, 2>>, <<2, 1, 4>>>>, routes |-> <<<<5, 6>>>>, waypoints |-> <<>>],
   [tracks |-> <<<<>>>>, routes |-> <<<<3, 0>>>>, waypoints |-> <<1, 2>>],
   [tracks |-> <<>>, routes |-> <<>>, waypoints |-> <<1, 1, 2, 0>>],
   [tracks |-> <<<<1, 1>>>>, routes |-> <<<<5, 6>>>>, waypoints |-> <<>>],
   [tracks |-> <<<<1>>>>, routes |-> <<>>, waypoints |-> <<>>]}

(* The first values of the parts a behaviour is not about.  The values of  *)
(* the row are alike, so the file begins with one of them.                 *)
ServicesInit ==
  /\ part \in {"feed", "explorer", "log", "journey"}
  /\ Init /\ D!Init /\ L!Init /\ J!Init
  /\ file = CHOOSE v \in Values : TRUE
  /\ part # "explorer" => backups[0] = file

ServicesNext ==
  /\ part' = part
  /\ \/ part = "feed" /\ Next /\ UNCHANGED <<dbVars, logVars, routeVars>>
     \/ part = "explorer" /\ D!Next /\ UNCHANGED <<vars, logVars, routeVars>>
     \/ part = "log" /\ L!Next /\ UNCHANGED <<vars, dbVars, routeVars>>
     \/ part = "journey" /\ J!Next /\ UNCHANGED <<vars, dbVars, logVars>>

(* The fairness of the feed and of the explorer's handlers, for the        *)
(* behaviours that are about them.                                         *)
ServicesFairness ==
  /\ \A r \in Requests :
       WF_vars(part = "feed" /\ Subscribe(r)) /\ WF_vars(part = "feed" /\ Leaving(r))
  /\ \A p \in Publishers : WF_vars(part = "feed" /\ Publishing(p))
  /\ \A r \in DbRequests : WF_dbVars(part = "explorer" /\ D!Serve(r))

ServicesSpec == ServicesInit /\ [][ServicesNext]_allVars /\ ServicesFairness

(* Every variable of every part keeps its type.                            *)
TypesOK == TypeOK /\ D!TypeOK /\ L!TypeOK /\ J!TypeOK

(* dbeCreateBackup: until its backup is deleted, what an edit of the       *)
(* session file wrote over can be restored.                                *)
EditHasBackup == D!EditHasBackup

(* postDBRestore: after a restore that was answered ok the file is the     *)
(* backup and the client holds what the file holds, unless it is of a full *)
(* reconnect that had read its device before the file was replaced.        *)
RestoreTakesEffect == D!RestoreTakesEffect

(* postDBRestore: the connections it closes are opened again.              *)
ExplorerReturns == D!ExplorerReturns

(* captureLogger: the entries of a goroutine stay in its order, in the     *)
(* ring and in the collection, and each is stored once or dropped.         *)
WritersOrder == L!WritersOrder

(* The ring shows the newest entries: it is a RecentLog.                   *)
ShowsTheNewest == L!ShowsTheNewest

(* runSimulation: the positions sent follow the way at the speed asked     *)
(* for, to its end.                                                        *)
FollowsTheWay == J!FollowsTheWay
=============================================================================
