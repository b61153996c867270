SPECIFICATION FairSpec
CONSTANTS
  Scope = {"main", "lib"}
  EntryScope = "main"
  Alias = {"a", "b"}
  NoAlias = NoAlias
  Name = {"t", "u", "z"}
  Text = {"x", "y", "z", "p"}
  EnvKey = {"k"}
  Unset = Unset
  NoError = NoError
  ParamName = "p"
  Programs <- MCPrograms
  MaxDepth = 3
INVARIANTS
  StackIsPath
  NoResidue
  CacheIsExact
  ImportsExact
PROPERTIES
  Implements
CHECK_DEADLOCK FALSE
