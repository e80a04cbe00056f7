CONSTANTS
  Ids = {1}
  Names = {"a"}
  Tasks = {g1, g2}
  Crons = {""}
  Matching <- CronDue
  Items <- ImportItems
  TriggerIds = {}
  Triggers <- TriggerForms
  Events <- SavedEvents
  Outcomes <- RunOutcomes
  MaxEdits = 0
  MaxRuns = 3
  MaxWork = 3
  MaxTime = 0
  MaxRestarts = 0
SPECIFICATION Spec
INVARIANTS
  ResultOfOneRun
CHECK_DEADLOCK FALSE
