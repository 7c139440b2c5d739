CONSTANTS
  a1 = a1
  a2 = a2
  a3 = a3
  o1 = o1
  o2 = o2
  o3 = o3
  Domains <- ReconfigDomains
  Zones <- ComZone
  ZonesOf <- ReconfigZones
  Hashes = {x1}
  NotFound = NotFound
  None = None
  Identities = {a1, a2, a3, o1}
  ZeroIdentity = ZeroIdentity
  Genesis <- ReconfigGenesis
  Proposals <- ReconfigProposals
  Windows <- AnyTime
  TicksPerSecond = 2
  MaxTime = 5
SPECIFICATION Spec
INVARIANTS
  QuorumReachable
PROPERTIES
  OnlyValidReconfigurations
  AdminQueueSpec
  OracleQueueSpec
  CanonicalOnlyAfterDelay
CHECK_DEADLOCK FALSE
