CONSTANTS
  Oracles = {o1, o2}
  Names = {d1, d2}
  Sessions = {s1}
  Window = 1
  MaxTime = 2
  MaxStops = 2
  MaxDirect = 1
SPECIFICATION Spec
INVARIANTS
  TokenRedeemable
  AcceptedOnlyIssued
  ReportTruthful
PROPERTIES
  SubmissionEnds
CHECK_DEADLOCK FALSE
