-------------------------- MODULE MCActivityTracker --------------------------
(***************************************************************************)
(* Bounds for checking ActivityTracker, two of them in one run.  "part"    *)
(* says whether a behaviour is about the probes of one tracker, which one  *)
(* request starts and stops, or about all requests and sessions, whose     *)
(* probes nobody answers.                                                  *)
(***************************************************************************)
EXTENDS ActivityTracker

CONSTANTS
  Probed,      (* The session whose probes are checked ...                 *)
  Prober       (* ... and the request that starts and stops it.            *)

VARIABLE part

Within ==
  \/ /\ part = "probes"
     /\ \A s \in Sessions \ {Probed} : session'[s] = "none"
     /\ \A h \in Requests \ {Prober} : request'[h] = "none"
  \/ /\ part = "requests"
     /\ crashes' = 0 /\ receipts' = {}
     /\ \A s \in Sessions : count'[s] <= 1

PartInit == Init /\ part \in {"probes", "requests"}

PartNext == Next /\ Within /\ UNCHANGED part

PartSpec ==
  /\ PartInit /\ [][PartNext]_<<part, vars>>
  /\ part = "probes" => Fairness

(* closeActivitySession: a tracker that is stopped ends and its session is *)
(* closed, whatever its probe is waiting for.                              *)
StoppedProbesEnd == part = "probes" => StoppedEnds
=============================================================================
