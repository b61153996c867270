SPECIFICATION FairSpec
CONSTANTS
  Stem <- MCStem
  Worlds <- MCWorlds
  Defaults = "defaults"
INVARIANTS
  TypeOK
  TablesAgree
  OneModulePerFile
  WarningsInLoadOrder
  WarningsExact
PROPERTIES
  Implements
  Termination
CHECK_DEADLOCK FALSE
