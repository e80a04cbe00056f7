CONSTANTS
  Ids = {m1, m2}
  Requests = {q}
  Limit = 1
  Day = 1
  MaxTime = 1
  MaxTroubles = 1
  ScriptIds = {1, 2}
  Names = {"a"}
  Tasks = {"g1", "g2"}
  Crons = {"", "each"}
  Matching <- CronDue
  Items <- ImportItems
  TriggerIds = {"k1"}
  Triggers <- TriggerForms
  Events <- SavedEvents
  Outcomes <- FewOutcomes
  MaxEdits = 2
  MaxRuns = 2
  MaxWork = 3
  MaxMinutes = 2
  MaxRestarts = 1
  Minutes = 3
  Hours = 4
  Weekdays = 3
  MonthDays <- ShortMonths
  Horizon = 96
  Zones <- MostZones
  Exprs <- CronExprs
  Starts <- SearchStarts
SPECIFICATION AutomationSpec
INVARIANTS
  NoResend
  FirstMatch
  RowsAreAsEdited
PROPERTIES
  DueIsHandled
  ScheduleGoesOn
CHECK_DEADLOCK FALSE
