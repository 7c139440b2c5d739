CONSTANTS
  a1 = a1
  a2 = a2
  Domains <- OneName
  Zones <- ComZone
  ZonesOf <- ComZones
  Hashes = {"x1"}
  NotFound = NotFound
  None = None
  Identities = {a1, a2}
  ZeroIdentity = ZeroIdentity
  Genesis <- StoredGenesis
  Proposals <- StoredProposals
  Windows = {}
  TicksPerSecond = 2
  MaxTime = 3
  ChainId = "felidae"
  OtherChain = "other"
  Keyrings <- OneKeyEach
  GenesisFiles <- Files
  Intents <- Wishes
  Observations <- FirstBlock
  I64Max = 9
  U32Max = 4
  Grace = 1
  SignatureTimeout = 1
  MaxLag = 1
  MaxSigned = 2
SPECIFICATION TxSpec
INVARIANTS
  ExecutesOnlyAsked
  BallotsInWindow
  AskedAuthenticates
CHECK_DEADLOCK FALSE
