SPECIFICATION FairStage
CONSTANTS
  Cams = {1,2,3}
  Followed = {1}
  Venues = {{1}, {2,3}}
  Protected = 1
  MaxRev = 1
  Ttl = 1
  MaxFrame <- MCMaxFrame
  MaxTime = 2
  StopTimes = {0}
  None = None
  MaxAge = 1
  Wait = 1
  Gap = 1
  Lost = 1
  KeepAge = 1
INVARIANTS StageTypeOK QuietAfterStop OneHome BoundedBypass ZoneDwell
PROPERTIES HaltedForGood FactsForward StopSettles
CHECK_DEADLOCK FALSE
