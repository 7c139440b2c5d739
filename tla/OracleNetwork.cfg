CONSTANTS
  a1 = a1
  r1 = r1
  r2 = r2
  o1 = o1
  o2 = o2
  Domains <- OneName
  Zones <- RootZones
  ZonesOf <- ExampleZones
  Hashes = {x1}
  NotFound = NotFound
  None = None
  Identities = {o1, o2}
  ZeroIdentity = ZeroIdentity
  Genesis <- NetworkGenesis
  Proposals = {}
  Windows <- AnyTime
  TicksPerSecond = 1
  MaxTime = 4
  PublicSuffixes <- SuffixList
  Requests = {r1, r2}
  MempoolSize = 2
  MaxLag = 1
SYMMETRY Symmetry
SPECIFICATION NetworkSpec
INVARIANTS
  NetworkTypeOK
  QuorumFetched
  StampsStayValid
  SameObservationAddsUp
CHECK_DEADLOCK FALSE
