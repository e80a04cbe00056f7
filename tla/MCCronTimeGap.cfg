CONSTANTS
  Minutes = 3
  Hours = 4
  Weekdays = 3
  MonthDays <- ShortMonths
  Horizon = 96
  Zones <- WestInSpring
  Exprs <- CronExprs
  Starts <- SearchStarts
SPECIFICATION FairSpec
PROPERTIES
  SearchEnds
CHECK_DEADLOCK FALSE
