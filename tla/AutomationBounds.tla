-------------------------- MODULE AutomationBounds --------------------------
(***************************************************************************)
(* Values for the constants of Scripts and CronTime, which MCAutomation,   *)
(* MCScripts and MCCronTime check them with.                               *)
(***************************************************************************)
EXTENDS Integers, TLC

(***************************************************************************)
(* Scripts: one script that may have a schedule, a second that may be      *)
(* created, one trigger; outcomes that differ in every field.              *)
(***************************************************************************)

CronDue == ("" :> {}) @@ ("each" :> 0 .. 9)

ImportItems == {[enabled |-> TRUE, cron |-> "each"], [enabled |-> FALSE, cron |-> ""]}

TriggerForms ==
  {[type |-> "Message", chat |-> "c1", text |-> "hi", enabled |-> TRUE],
   [type |-> "Message", chat |-> "", text |-> "", enabled |-> FALSE]}

SavedEvents == {[type |-> "Message", chat |-> "c1", texts |-> {"hi"}]}

FewOutcomes ==
  {[status |-> "success", output |-> "done", error |-> ""],
   [status |-> "error", output |-> "", error |-> "thrown"]}

(* And a script that prints and then throws.                               *)
RunOutcomes == FewOutcomes \cup {[status |-> "error", output |-> "done", error |-> "thrown"]}

(***************************************************************************)
(* CronTime: a year of three months of up to three days, days of four      *)
(* hours of three minutes, and zones that change once.                     *)
(***************************************************************************)

Every    == [form |-> "any"]
Step(a, n) == [form |-> "step", start |-> a, step |-> n]
Only(S)  == [form |-> "list", parts |-> {[lo |-> v, hi |-> v] : v \in S}]
From(a, b) == [form |-> "list", parts |-> {[lo |-> a, hi |-> b]}]
Bad      == [form |-> "bad"]

ShortMonths == <<2, 3, 2>>

CronExprs ==
  [min  : {Every, Only({1}), Step(-1, 2)},
   hour : {Every, Only({0, 2}), Only({3}), Step(1, 2)},
   dom  : {Every, Only({3}), From(1, 2)},
   mon  : {Every, Only({2}), Bad},
   dow  : {Every, Only({1})}]

(* Greenwich; east of it, with summer time beginning and ending; west of   *)
(* it, with summer time ending.                                            *)
MostZones ==
  {[before |-> 0, after |-> 0, at |-> 0],
   [before |-> 3, after |-> 6, at |-> 123],
   [before |-> 6, after |-> 3, at |-> 123],
   [before |-> -3, after |-> -6, at |-> 126]}

(* West of Greenwich, with summer time beginning.                          *)
WestInSpring == {[before |-> -6, after |-> -3, at |-> 126]}

SearchStarts == {100, 119, 121}
=============================================================================
