------------------------------ MODULE EventLog ------------------------------
(***************************************************************************)
(* What the events collection and the live feed promise a reader of        *)
(* zaplab, without the queue, the worker or the goroutines.                *)
(*                                                                         *)
(* Inbound events are numbered in the order in which                       *)
(* whatsmeow delivered them.  Anything else that is recorded (a message    *)
(* this server sent, a connection event) is an element of Outbound.        *)
(***************************************************************************)
EXTENDS Naturals, Sequences, Functions

CONSTANTS
  Inbound,    (* Events that arrive through the event queue, by number.     *)
  Outbound    (* Records of any other origin, none of them a number.        *)

VARIABLES
  stored,      (* Rows of the events collection, oldest first.  Durable.    *)
  published    (* What the SSE broker was given, in the order it was given. *)

vars == <<stored, published>>

Record == Inbound \cup Outbound

(* x goes after every inbound event of s, or is not an inbound event.      *)
InOrder(s, x) == x \in Inbound => \A y \in Range(s) \cap Inbound : y < x

Init == stored = <<>> /\ published = <<>>

(* A record gets one row, and inbound rows are in arrival order.           *)
Store(x) ==
  /\ x \notin Range(stored)
  /\ InOrder(stored, x)
  /\ stored' = Append(stored, x)
  /\ UNCHANGED published

(* Only a stored record is published, once, inbound ones in arrival order. *)
Publish(x) ==
  /\ x \in Range(stored) \ Range(published)
  /\ InOrder(published, x)
  /\ published' = Append(published, x)
  /\ UNCHANGED stored

Next == \E x \in Record : Store(x) \/ Publish(x)

Spec == Init /\ [][Next]_vars
=============================================================================
