SPECIFICATION FairSpec
CONSTANTS
  Sessions = {s1, s2}
  Faults = {"crash", "late"}
  MaxFaults = 1
  Grace = 0
  StartWindow = 0
  ProbeGap = 0
PROPERTIES
  OrphanSwept
  LaunchEnds
