SPECIFICATION Spec
CONSTANTS
  Sessions = {s1, s2}
  Faults = {"crash", "rm", "timeout", "abandon", "raise", "late"}
  MaxFaults = 2
  Grace = 1
  StartWindow = 0
  ProbeGap = 1
SYMMETRY Symmetry
INVARIANTS
  TypeOK
  
  
  OnlyLostIsLeft

  
