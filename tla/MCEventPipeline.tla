--------------------------- MODULE MCEventPipeline ---------------------------
(* Bounds for checking EventPipeline: two arrivals of any kind, queues of   *)
(* one, one outbound saver and one crash.                                   *)
EXTENDS EventPipeline
=============================================================================
