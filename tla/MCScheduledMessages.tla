------------------------- MODULE MCScheduledMessages -------------------------
(* Bounds for checking ScheduledMessages: see the .cfg files.               *)
EXTENDS ScheduledMessages
=============================================================================
