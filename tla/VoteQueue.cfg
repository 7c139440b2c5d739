CONSTANTS
  Keys = {k1, k2}
  Parties = {p1, p2, p3}
  Values = {v1, v2}
  TicksPerSecond = 2
  MaxTime = 3
  Quorums = {2}
  Timeouts = {3}
  Delays = {1, 2}
  VotingConfigs <- MCVotingConfigs
  LastCast = 0
SPECIFICATION Spec
SYMMETRY MCSymmetry
INVARIANTS
  VotesIndexed
  PendingInStep
  UniqueWinner
PROPERTIES
  TimerKept
  ImplementsTimedVoting
CHECK_DEADLOCK FALSE
