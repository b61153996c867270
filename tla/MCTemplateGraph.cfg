SPECIFICATION FairSpec
CONSTANTS
  Scope = {"main"}
  EntryScope = "main"
  Alias = {}
  NoAlias = NoAlias
  Name = {"t1", "t2", "t3"}
  Text = {"n", "n1", "n2", "n3"}
  EnvKey = {"k"}
  Unset = Unset
  NoError = NoError
  Programs <- MCPrograms
  MaxDepth = 2
INVARIANTS
  TypeOK
PROPERTIES
  Implements
  Termination
CHECK_DEADLOCK FALSE
