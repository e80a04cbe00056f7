----------------------------- MODULE MCScripts ------------------------------
(* Scripts by themselves, with the values of AutomationBounds.              *)
EXTENDS Scripts, AutomationBounds
=============================================================================
