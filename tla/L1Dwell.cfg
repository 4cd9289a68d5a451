SPECIFICATION HistSpec
CONSTANTS
  Cams = {1}
  Followed = {1}
  Venues = {{1}}
  Protected = 1
  MaxRev = 0
  Ttl = 1
  MaxFrame <- MCMaxFrame
  MaxTime = 2
  StopTimes = {}
  None = None
  MaxAge = 1
  Wait = 1
  Gap = 1
  Lost = 1
  KeepAge = 2
INVARIANT DwellEarned
CHECK_DEADLOCK FALSE
