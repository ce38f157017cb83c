SPECIFICATION Spec
CONSTANTS
  Files = {"profiles", "mounts", "harnesses", "presets"}
  Procs = {p1, p2}
  Inodes = {i1, i2, i3}
  Contents <- ConfigContents
  None = None
  Empty = Empty
  Half = Half
  UserProfiles = {"work"}
  UserMounts = {"code", "docs"}
  WizardMounts = {"code", "my.app"}
  OddMounts = {"my.app"}
  MaxCommands = 2
SYMMETRY Symmetry
INVARIANTS
  TypeOK
  WholeUnlessMet
  SetupResolves
PROPERTIES
  KeepsRegistered
CHECK_DEADLOCK FALSE
