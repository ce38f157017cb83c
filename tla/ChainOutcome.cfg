SPECIFICATION FairSpec
CONSTANTS
  Procs = {p1, p2}
  NoSession = NoSession
  MaxRequests = 1
  Emitted = {"start", "end_idle", "woken"}
  MaxEmitted = 1
  Faults = {"daemon", "stop", "raise", "log", "store", "crash"}
  MaxFaults = 1
INVARIANTS
  RunningIsLogged
  NeverBoth
  RefusalsAreAudited
PROPERTIES
  StopsAreAccounted
  GrantsAreSettled
  LaunchesAreLives
CHECK_DEADLOCK FALSE
