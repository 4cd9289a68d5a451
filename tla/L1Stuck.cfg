SPECIFICATION HistSpec
CONSTANTS
  Cams = {1,2}
  Followed = {1}
  Venues = {{1,2}}
  Protected = 1
  MaxRev = 0
  Ttl = 1
  MaxFrame <- MCMaxFrame
  MaxTime = 3
  StopTimes = {}
  None = None
  MaxAge = 1
  Wait = 1
  Gap = 1
  Lost = 1
  KeepAge = 3
PROPERTY LostNoticed
CHECK_DEADLOCK FALSE
