SPECIFICATION Spec
CONSTANTS
  Scope = {"main", "lib"}
  EntryScope = "main"
  Alias = {"a", "b"}
  NoAlias = NoAlias
  Name = {"t", "u", "z"}
  Text = {"x", "y", "z", "p"}
  EnvKey = {"k"}
  Unset = Unset
  NoError = NoError
  ParamName = "x"
  Programs <- MCPrograms
  MaxDepth = 3
INVARIANT NothingButRepeatsDropped
CHECK_DEADLOCK FALSE
