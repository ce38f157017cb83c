SPECIFICATION FairSpec
CONSTANTS
  Durations <- MCDurations
  Idles <- MCIdles
  Poll = 2
  SampleTime = 1
  StopTime = 2
  ReapTime = 3
  KillTime = 1
  MaxLead = 20
  CreateTime = 2
  Faults = {"warner", "wrapup", "wedged", "stop", "log", "detach", "merge", "interrupt"}
  MaxFaults = 2
INVARIANTS
  TypeOK
  HardCap
  EndMeansOver
  WarnedBeforeCap
PROPERTIES
  WriterIsNotIdle
  CappedSessionEnds
  LivesAsPromised
CHECK_DEADLOCK FALSE
