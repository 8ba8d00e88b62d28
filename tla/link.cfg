SPECIFICATION Spec
CONSTANTS
  MaxTasks = 2
  MaxFaults = 1
  Capacity = 2
  Versions = {TRUE, FALSE}
  None = None
CHECK_DEADLOCK FALSE
INVARIANTS
  RepliesAreOwn
  PendingIsServed
  SummaryIsOwn
PROPERTIES
  IncompatibleIsFinal
  Reconnects
  SummaryEnds
  InboxCatchesUp
