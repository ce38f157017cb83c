SPECIFICATION Spec
CONSTANTS
  Mounts <- MCMounts
  Tier <- MCTier
  Within <- MCWithin
  Profile <- MCProfile
  Presets <- MCPresets
  Platforms <- MCPlatforms
  HasHome = FALSE
  HasSecret = TRUE
  Handlings = {"profile"}
  Registries <- MCRegistries
  Emitted <- MCEmitted
  Extensions = {1}
  Floor = 1
  StopTime = 1
  MaxAsked = 1
  MaxTime = 3
  MaxEdits = 1
INVARIANTS
  TypeOK
  BroadIsConsented
  OnlyWhatWasGranted
  WithinBudget
PROPERTIES
  AgentAddsNothingBroad
  ValidRequestRelaunches
CHECK_DEADLOCK FALSE
