SPECIFICATION Spec
CONSTANTS
  m1 = m1
  m2 = m2
  host = host
  c1 = c1
  c2 = c2
  Mongos <- MCMongos
  Clients <- MCClients
  HostClients <- MCHostClients
  Databases = {admin, test}
  Stores = {test}
  NoClient = NoClient
  NoDB = NoDB
SYMMETRY Symmetry
INVARIANTS
  NoOrphanClient
  NoSharedClient
  DriverKnowsLogins
PROPERTIES
  ClientPulledOnlyByCleanup
  AuthTakesEffect
  HandleCutOnlyByOwner
