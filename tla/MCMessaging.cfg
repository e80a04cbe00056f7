CONSTANTS
  Slots = {default, error}
  Urls = {u1, u2}
  NoUrl = NoUrl
  Deliveries = {d1}
  Attempts = 3
  MaxChanges = 3
  Editors = {"q1", "q2"}
  Walkers = {"w1"}
  Stored <- StoredHooks
  Additions <- AddedHooks
  Dispatches <- DispatchedEvents
  MaxEdits = 2
  Rules = {"r1", "r2"}
  Forms <- RuleForms
  Messages <- RuleMessages
  Evaluators = {"e1", "e2"}
  Hours = {22}
  MaxRuleEdits = 1
  Calls = {"a", "b"}
  Routes <- SendRoutes
  MaxRestarts = 1
  Contacts = {"c1"}
  Contents <- MessageContents
  PageSize = 2
  MaxRows = 3
  MaxTime = 2
SPECIFICATION MessagingSpec
INVARIANTS
  TypesOK
  EveryAttemptLogged
  ConfirmedOnce
  LoneEditTakesEffect
  EachMatchOnce
  RulesInOrder
  CountsExecutions
  AnswerTellsFate
  WholeConversation
PROPERTIES
  CurrentUrlOnly
CHECK_DEADLOCK FALSE
