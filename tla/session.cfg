SPECIFICATION Spec
CONSTANTS
  Meetings = {m1, m2}
  MaxStarts = 2
  MaxCalls = 2
  MaxRaces = 1
  None = None
CHECK_DEADLOCK FALSE
INVARIANTS
  CaptureFollowsSession
  CompanionFollowsTracking
PROPERTIES
  ReviewIsKept
  TrackingIsExclusive
  DismissedStaysQuiet
