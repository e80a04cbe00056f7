---------------------------- MODULE MCConnection ----------------------------
(* Bounds for checking Connection: see the .cfg files.                      *)
EXTENDS Connection
=============================================================================
