----------------------------- MODULE MCCronTime -----------------------------
(* CronTime by itself, with the values of AutomationBounds.                 *)
EXTENDS CronTime, AutomationBounds
=============================================================================
