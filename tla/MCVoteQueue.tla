---------------------------- MODULE MCVoteQueue ----------------------------
(* Instances of VoteQueue for TLC, and its implementation of TimedVoting.  *)
EXTENDS VoteQueue, TLC

CONSTANTS Quorums, Timeouts, Delays

MCVotingConfigs == [quorum : Quorums, timeout : Timeouts, delay : Delays]

MCSymmetry == Permutations(Keys) \cup Permutations(Parties) \cup Permutations(Values)

----------------------------------------------------------------------------
(* Votes are cast up to LastCast; blocks go on until MaxTime.              *)

CONSTANT LastCast

DrainingNext ==
  \/ \E t \in 1..MaxTime : BeginBlock(t)
  \/ /\ now <= LastCast
     /\ \E k \in Keys, p \in Parties, v \in Values : DeliverVote(k, p, v, Values)
  \/ \E config \in VotingConfigs : EndBlock(config, config)

\* Consensus goes on producing blocks, and finishes every block it begins.
DrainingSpec ==
  /\ Init /\ [][DrainingNext]_vars
  /\ WF_vars(\E t \in 1..MaxTime : BeginBlock(t))
  /\ WF_vars(\E config \in VotingConfigs : EndBlock(config, config))

\* Once nobody votes any more, the queue empties: every vote expires, every
\* pending change is promoted, and no index entry outlives its vote for ever.
Drains ==
  <>[](votes = {} /\ votesByTime = {} /\ pending = {} /\ pendingByTime = {})

=============================================================================
