SPECIFICATION RuntimeSpec
CONSTANTS
  t1 = t1
  t2 = t2
  s1 = s1
  s2 = s2
  m1 = m1
  m2 = m2
  Threads <- MCThreads
  Scopes <- MCScopes
  MongoObjects <- MCMongos
  NoScope = NoScope
  MaxDepth = 2
  MaxClients = 2
SYMMETRY Symmetry
INVARIANT CallsGetThrough
