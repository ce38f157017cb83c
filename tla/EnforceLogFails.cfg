SPECIFICATION Spec
CONSTANTS
  Durations <- MCDurations
  Idles <- MCIdles
  Poll = 2
  SampleTime = 1
  StopTime = 2
  ReapTime = 3
  KillTime = 1
  MaxLead = 20
  CreateTime = 2
  Faults = {"log"}
  MaxFaults = 1
INVARIANT
  LogFailureLeavesNoCell
CHECK_DEADLOCK FALSE
