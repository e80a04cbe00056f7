CONSTANTS
  Editors = {q1}
  Walkers = {}
  Stored <- StoredHooks
  Additions <- AddedHooks
  Dispatches <- DispatchedEvents
  MaxEdits = 1
SPECIFICATION Spec
PROPERTIES
  RewrittenOnChange
CHECK_DEADLOCK FALSE
