SPECIFICATION Spec
CONSTANTS
  s1 = s1
  s2 = s2
  Scopes <- MCScopes
  Host = Host
  None = None
  InsertFlags = {0, 1}
  Flags <- MCFlags
  MaxErrors = 2
SYMMETRY Symmetry
INVARIANTS
  
  PromptOwesAnswer
  OptionsLeakOnlyOnError
  SuccessMeansStored
PROPERTIES
  HeardAtOnce
