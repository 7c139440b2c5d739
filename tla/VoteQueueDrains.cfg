CONSTANTS
  Keys = {k1}
  Parties = {p1, p2}
  Values = {v1, v2}
  TicksPerSecond = 2
  MaxTime = 6
  Quorums = {2}
  Timeouts = {2, 3}
  Delays = {3}
  VotingConfigs <- MCVotingConfigs
  LastCast = 3
SPECIFICATION DrainingSpec
PROPERTIES
  Drains
CHECK_DEADLOCK FALSE
