--------------------------- MODULE RouteSimulation ---------------------------
(***************************************************************************)
(* Simulated journeys of internal/simulation: gpx.go chooses the points of *)
(* a GPX file, route.go finds where on them a distance leads, manager.go   *)
(* sends that position at every tick of a goroutine for each journey.      *)
(*                                                                         *)
(* A point is a number on a line, and one unit of it a unit of distance.   *)
(***************************************************************************)
EXTENDS Integers, SequencesExt, FiniteSetsExt

CONSTANTS
  Sims,        (* Ids of simulations.                                       *)
  Files,       (* GPX files: tracks, routes and waypoints.                  *)
  Speeds,      (* Units a journey makes between two ticks.                  *)
  MaxTime      (* Bound of the model: ticks.                                *)

VARIABLES
  sim,         (* What each goroutine is doing.                             *)
  activeSims,  (* The registry.                                             *)
  now,         (* Intervals passed.                                         *)
  sent         (* History: the positions each simulation sent.              *)

vars == <<sim, activeSims, now, sent>>

Init ==
  /\ sim = [s \in Sims |-> [step |-> "none"]]
  /\ activeSims = {}
  /\ now = 0
  /\ sent = [s \in Sims |-> <<>>]

(***************************************************************************)
(* Routes.                                                                 *)
(***************************************************************************)

(* ParseGPX prefers tracks to routes to waypoints.                         *)
PointsOf(file) ==
  LET tracks == FlattenSeq(file.tracks)
      routes == FlattenSeq(file.routes)
  IN IF tracks # <<>> THEN tracks ELSE IF routes # <<>> THEN routes ELSE file.waypoints

Between(a, b) == IF a < b THEN b - a ELSE a - b

(* NewRoute: the distance at each point.                                   *)
CumDist(points) ==
  LET cum[i \in DOMAIN points] ==
        IF i = 1 THEN 0 ELSE cum[i - 1] + Between(points[i - 1], points[i])
  IN cum

Total(points) == CumDist(points)[Len(points)]

(* The segment that contains a distance, by binary search.                 *)
Segment(points, dist) ==
  LET cum == CumDist(points)
      search[bounds \in (DOMAIN points) \X (DOMAIN points)] ==
        LET lo  == bounds[1]
            hi  == bounds[2]
            mid == (lo + hi) \div 2
        IN IF lo + 1 >= hi THEN lo
           ELSE IF cum[mid] <= dist THEN search[<<mid, hi>>] ELSE search[<<lo, mid>>]
  IN search[<<1, Len(points)>>]

(* Mutant: the way into the segment is not subtracted.                     *)
PointAtFromStart(points, dist) ==
  LET lo == Segment(points, dist)
  IN IF dist <= 0 THEN points[1]
     ELSE IF dist >= Total(points) THEN Last(points)
     ELSE IF points[lo] <= points[lo + 1] THEN points[lo] + dist ELSE points[lo] - dist

PointAt(points, dist) ==
  LET lo   == Segment(points, dist)
      into == dist - CumDist(points)[lo]
  IN IF dist <= 0 THEN points[1]
     ELSE IF dist >= Total(points) THEN Last(points)
     ELSE IF points[lo] <= points[lo + 1] THEN points[lo] + into ELSE points[lo] - into

(***************************************************************************)
(* The manager.                                                            *)
(***************************************************************************)

(* Start refuses a file of fewer than two points, and a route of no length.*)
Start(s) ==
  /\ sim[s].step = "none"
  /\ \E file \in Files, speed \in Speeds :
       /\ Len(PointsOf(file)) >= 2 /\ Total(PointsOf(file)) > 0
       /\ sim' = [sim EXCEPT ![s] =
            [step |-> "look", points |-> PointsOf(file), speed |-> speed, began |-> now,
             dist |-> 0, seq |-> 1, tick |-> FALSE, cancelled |-> FALSE]]
  /\ activeSims' = activeSims \cup {s}
  /\ UNCHANGED <<now, sent>>

Running(s) == sim[s].step \in {"look", "send", "wait", "leave"}

(* Time passes; a ticker holds one tick for a goroutine that is late.      *)
Tick ==
  /\ now < MaxTime /\ now' = now + 1
  /\ sim' = [s \in Sims |-> IF Running(s) THEN [sim[s] EXCEPT !.tick = TRUE] ELSE sim[s]]
  /\ UNCHANGED <<activeSims, sent>>

(* The distance follows from the time passed, not from the ticks.          *)
Look(s) ==
  /\ sim[s].step = "look"
  /\ sim' = [sim EXCEPT ![s] =
       [@ EXCEPT !.step = "send", !.dist = (now - sim[s].began) * sim[s].speed]]
  /\ UNCHANGED <<activeSims, now, sent>>

(* Sending may take its time and may fail: the number goes up, and the     *)
(* journey ends with the last point.                                       *)
Send(s) ==
  /\ sim[s].step = "send"
  /\ sent' = [sent EXCEPT ![s] =
       Append(@, [seq |-> sim[s].seq, at |-> PointAt(sim[s].points, sim[s].dist)])]
  /\ sim' = [sim EXCEPT ![s] =
       [@ EXCEPT !.seq = sim[s].seq + 1,
                 !.step = IF sim[s].dist >= Total(sim[s].points) THEN "leave" ELSE "wait"]]
  /\ UNCHANGED <<activeSims, now>>

(* select takes either, if both are ready.                                 *)
TakeTick(s) ==
  /\ sim[s].step = "wait" /\ sim[s].tick
  /\ sim' = [sim EXCEPT ![s] = [@ EXCEPT !.step = "look", !.tick = FALSE]]
  /\ UNCHANGED <<activeSims, now, sent>>

TakeDone(s) ==
  /\ sim[s].step = "wait" /\ sim[s].cancelled
  /\ sim' = [sim EXCEPT ![s].step = "leave"]
  /\ UNCHANGED <<activeSims, now, sent>>

(* The deferred removal from the registry.                                 *)
Leave(s) ==
  /\ sim[s].step = "leave"
  /\ activeSims' = activeSims \ {s}
  /\ sim' = [sim EXCEPT ![s].step = "ended"]
  /\ UNCHANGED <<now, sent>>

(* Stop cancels what is registered; the goroutine finds out by itself.     *)
Stop(s) ==
  /\ s \in activeSims /\ ~sim[s].cancelled
  /\ sim' = [sim EXCEPT ![s].cancelled = TRUE]
  /\ UNCHANGED <<activeSims, now, sent>>

Next == \/ Tick
        \/ \E s \in Sims : \/ Start(s) \/ Look(s) \/ Send(s) \/ TakeTick(s) \/ TakeDone(s)
                           \/ Leave(s) \/ Stop(s)

Spec == Init /\ [][Next]_vars

(***************************************************************************)
(* Properties.                                                             *)
(***************************************************************************)

(* A goroutine and its journey; a message with a position.                 *)
Journeys  == [step : {"look", "send", "wait", "leave", "ended"}, points : Seq(Int),
              speed : Nat \ {0}, began : Nat, dist : Nat, seq : Nat \ {0},
              tick : BOOLEAN, cancelled : BOOLEAN]
Positions == [seq : Nat \ {0}, at : Int]

TypeOK ==
  /\ sim \in [Sims -> {[step |-> "none"]} \cup Journeys]
  /\ activeSims = {s \in Sims : Running(s)}
  /\ now \in 0 .. MaxTime
  /\ sent \in [Sims -> Seq(Positions)]

(* Every place a journey comes by, one unit after the other.               *)
Way(points) ==
  LET step(a, b) == IF a <= b THEN [k \in 1 .. b - a |-> a + k] ELSE [k \in 1 .. a - b |-> a - k]
  IN <<points[1]>> \o FlattenSeq([i \in 1 .. Len(points) - 1 |-> step(points[i], points[i + 1])])

(* The positions sent are places of the way, in the order they are come    *)
(* by, at the speed asked for or, if sending is slow, further on; and a    *)
(* journey that was not stopped ends at the end of its way.                *)
FollowsTheWay ==
  \A s \in Sims : sim[s].step # "none" =>
    LET way    == Way(sim[s].points)
        place  == [n \in DOMAIN sent[s] |-> {k \in DOMAIN way : way[k] = sent[s][n].at}]
        here   == Min({Len(way), sim[s].dist + 1})
    IN /\ \A n \in DOMAIN sent[s] : sent[s][n].seq = n /\ place[n] # {}
       /\ \A n \in 1 .. Len(sent[s]) - 1 :
            \E j \in place[n], k \in place[n + 1] : j <= k
       /\ sim[s].step \in {"wait", "leave", "ended"} => Last(sent[s]).at = way[here]
       /\ sim[s].step = "ended" /\ ~sim[s].cancelled => Last(sent[s]).at = Last(way)

(* Why it does: the number is that of the next message, the distance is    *)
(* not beyond the time passed; the last position sent is not ahead of the  *)
(* distance and, but for one about to send, is where it leads; and nobody  *)
(* leaves unasked before the end.                                          *)
JourneyInv ==
  \A s \in Sims :
    IF sim[s].step = "none" THEN sent[s] = <<>>
    ELSE LET k    == sim[s]
             way  == Way(k.points)
             here == Min({Len(way), k.dist + 1})
         IN /\ Len(k.points) >= 2 /\ k.seq = Len(sent[s]) + 1
            /\ k.began <= now /\ k.dist <= (now - k.began) * k.speed
            /\ sent[s] = <<>> => k.step \in {"look", "send"}
            /\ sent[s] # <<>> =>
                 /\ \E j \in 1 .. here : way[j] = Last(sent[s]).at
                 /\ k.step # "send" => way[here] = Last(sent[s]).at
            /\ k.step \in {"leave", "ended"} => k.cancelled \/ k.dist >= Total(k.points)
=============================================================================
