------------------------------ MODULE RecentLog ------------------------------
(***************************************************************************)
(* What the log capture of internal/whatsapp/capturelog.go promises its    *)
(* reader: the newest entries, whole, once and in the order they came in.  *)
(***************************************************************************)
EXTENDS Integers, Sequences, FiniteSetsExt

CONSTANTS
  Entry,       (* The entries there may be.                                 *)
  Size         (* How many are kept.                                        *)

VARIABLES recent  (* What a reader is shown.                                *)

Newest(s) == SubSeq(s, Max({1, Len(s) - Size + 1}), Len(s))

Init == recent = <<>>

Log == \E e \in Entry : recent' = Newest(Append(recent, e))

(* The program starts again, with an empty log.                            *)
Clear == recent' = <<>>

Spec == Init /\ [][Log \/ Clear]_recent
=============================================================================
