CONSTANTS
  a1 = a1
  a2 = a2
  a3 = a3
  o1 = o1
  o2 = o2
  o3 = o3
  Domains <- OracleDomains
  Zones <- OracleZones
  ZonesOf <- InferredZones
  Hashes = {x1}
  NotFound = NotFound
  None = None
  Identities = {o1, o2}
  ZeroIdentity = ZeroIdentity
  Genesis <- OracleGenesis
  Proposals = {}
  Windows <- AnyTime
  TicksPerSecond = 1
  MaxTime = 4
SYMMETRY OracleSymmetry
SPECIFICATION Spec
INVARIANTS
  BlockstampSound
  EnrolledWithinLimit
PROPERTIES
  PendingOnlyReplaced
CHECK_DEADLOCK FALSE
