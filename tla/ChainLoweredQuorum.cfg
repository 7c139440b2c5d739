CONSTANTS
  a1 = a1
  a2 = a2
  a3 = a3
  o1 = o1
  o2 = o2
  o3 = o3
  Domains = {}
  Zones = {}
  ZonesOf <- NoZones
  Hashes = {}
  NotFound = NotFound
  None = None
  Identities = {a1, a2, a3}
  ZeroIdentity = ZeroIdentity
  Genesis <- LoweredGenesis
  Proposals <- LoweredProposals
  Windows <- AnyTime
  TicksPerSecond = 1
  MaxTime = 4
SPECIFICATION Spec
PROPERTY OnlyValidReconfigurations
CHECK_DEADLOCK FALSE
