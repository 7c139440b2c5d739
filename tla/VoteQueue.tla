----------------------------- MODULE VoteQueue -----------------------------
(***************************************************************************)
(* The vote queue of felidae-state (state/voting/vote_queue.rs): one view  *)
(* on the chain state that collects votes for changes to keys, moves a     *)
(* change that a quorum agrees on to a pending queue, and hands it out for *)
(* application once its delay has passed.  The chain has two of them, one  *)
(* for admin reconfigurations and one for oracle observations.             *)
(*                                                                         *)
(* Each of the two collections is stored twice: a primary map by key       *)
(* (votes_by_key, pending_by_key) and an index by time                     *)
(* (votes_by_timestamp, pending_by_timestamp).  Votes are counted and      *)
(* pending changes are looked up in the primary maps, but votes expire and *)
(* changes are promoted by walking the indexes, so the queue is correct    *)
(* only while the two stay in step.                                        *)
(*                                                                         *)
(* Time is counted in ticks.  Block time has ticks, stored times are       *)
(* truncated to the second, as the key functions of keys.rs do.  Entries   *)
(* also carry a history field, at: the block time they were made at.  No   *)
(* action reads it; it lets properties speak of real ages.                 *)
(***************************************************************************)
EXTENDS Integers, FiniteSets

CONSTANTS
  Keys,           \* what is voted on: domains, or the one Empty key of admins
  Parties,        \* identities that ever vote
  Values,         \* values a key can be changed to
  VotingConfigs,  \* the [quorum, timeout, delay] a config may prescribe
  TicksPerSecond, \* resolution of block time
  MaxTime         \* bound: the block time of the last block considered

ASSUME TicksAssumption == TicksPerSecond \in Nat \ {0}
ASSUME MaxTimeAssumption == MaxTime \in Nat
ASSUME VotingConfigsAssumption ==
  VotingConfigs \subseteq [quorum : Nat, timeout : Nat, delay : Nat]

VARIABLES
  votes,          \* votes_by_key/<key>/<party>/<time> -> value
  votesByTime,    \* index votes_by_timestamp/<time>/<key>/<party>
  pending,        \* pending_by_key/<key>/<time> -> value
  pendingByTime,  \* index pending_by_timestamp/<time>/<key> -> value
  voting,         \* the VotingConfig in force
  now,            \* current/block_time
  phase           \* "idle" between blocks, "delivering" inside FinalizeBlock

queue == <<votes, votesByTime, pending, pendingByTime>>
vars == <<queue, voting, now, phase>>

----------------------------------------------------------------------------
(* Stored entries and their times.                                         *)

\* Times are stored without their sub-second part.
TruncateToSecond(t) == t - (t % TicksPerSecond)

VoteEntry ==
  [key : Keys, party : Parties, time : Nat, value : Values, at : Nat]
VoteIndexEntry == [key : Keys, party : Parties, time : Nat]
PendingEntry == [key : Keys, time : Nat, value : Values, at : Nat]

\* The key under which a vote is indexed.
VoteIndexKey(b) == [key |-> b.key, party |-> b.party, time |-> b.time]

\* duration_since(..).unwrap_or_default(): zero when s lies after t.
Elapsed(t, s) == IF t >= s THEN t - s ELSE 0

\* The index is read in time order for as long as entries are old enough.
TakeWhileOld(index, t, duration) ==
  {i \in index : \A j \in index : j.time <= i.time => Elapsed(t, j.time) >= duration}

----------------------------------------------------------------------------
(* Expiry and promotion, driven by the indexes.                            *)

\* Mutant: expired votes leave the index but not the primary map.
MutantTimeoutExpiredVotes(config, t) ==
  /\ votes' = votes
  /\ votesByTime' = votesByTime \ TakeWhileOld(votesByTime, t, config.timeout)

TimeoutExpiredVotes(config, t) ==
  LET old == TakeWhileOld(votesByTime, t, config.timeout)
  IN  /\ votes' = {b \in votes : VoteIndexKey(b) \notin old}
      /\ votesByTime' = votesByTime \ old

\* The changes a promotion under config returns for application.
Ripe(config, t) == TakeWhileOld(pendingByTime, t, config.delay)

\* Mutant: promoted changes leave the index but not the primary map.
MutantPromotePendingChanges(config, t) ==
  /\ pending' = pending
  /\ pendingByTime' = pendingByTime \ Ripe(config, t)

PromotePendingChanges(config, t) ==
  LET ripe == Ripe(config, t)
  IN  /\ pending' = {c \in pending :
                       \A r \in ripe : r.key = c.key => r.time # c.time}
      /\ pendingByTime' = pendingByTime \ ripe

----------------------------------------------------------------------------
(* Casting a vote.                                                         *)

NewVote(k, p, v, t) ==
  [key |-> k, party |-> p, time |-> TruncateToSecond(t), value |-> v, at |-> t]

\* Steps 0 and 1 of cast: the party's earlier vote for the key is replaced,
\* in the primary map only.
RecordVote(k, p, v, t) ==
  {b \in votes : ~(b.key = k /\ b.party = p)} \cup {NewVote(k, p, v, t)}

VotesFor(bs, k) == {b \in bs : b.key = k}

Tally(bs, k, v) == Cardinality({b \in VotesFor(bs, k) : b.value = v})

\* Mutant: a quorum is not enough.
MutantWinners(config, bs, k) ==
  {v \in Values : /\ \E b \in VotesFor(bs, k) : b.value = v
                  /\ Tally(bs, k, v) > config.quorum}

\* The tally is a hash map walked in no particular order, so any value with
\* enough votes may be the winner.
Winners(config, bs, k) ==
  {v \in Values : /\ \E b \in VotesFor(bs, k) : b.value = v
                  /\ Tally(bs, k, v) >= config.quorum}

PendingFor(k) == {c \in pending : c.key = k}

\* Mutant: the change is entered anew even if it is already pending.
MutantEnqueue(k, w, t, admitted) ==
  LET change == [key |-> k, time |-> TruncateToSecond(t), value |-> w, at |-> t]
      added == IF w \in admitted THEN {change} ELSE {}
  IN  /\ pending' = (pending \ PendingFor(k)) \cup added
      /\ pendingByTime' = (pendingByTime \ PendingFor(k)) \cup added

\* Mutant: the change that is replaced stays in the index.
MutantEnqueueStaleIndex(k, w, t, admitted) ==
  LET change == [key |-> k, time |-> TruncateToSecond(t), value |-> w, at |-> t]
      added == IF w \in admitted THEN {change} ELSE {}
  IN  IF \E c \in PendingFor(k) : c.value = w
      THEN UNCHANGED <<pending, pendingByTime>>
      ELSE /\ pending' = (pending \ PendingFor(k)) \cup added
           /\ pendingByTime' = pendingByTime \cup added

\* The winning value w becomes the pending change of k, unless it already is
\* (the timer then keeps running) or is not admitted (the oracle queue's
\* subdomain limit), in which case the replaced change is gone as well.
Enqueue(k, w, t, admitted) ==
  LET change == [key |-> k, time |-> TruncateToSecond(t), value |-> w, at |-> t]
      added == IF w \in admitted THEN {change} ELSE {}
  IN  \/ /\ \E c \in PendingFor(k) : c.value = w
         /\ UNCHANGED <<pending, pendingByTime>>
      \/ /\ \A c \in PendingFor(k) : c.value # w
         /\ pending' = (pending \ PendingFor(k)) \cup added
         /\ pendingByTime' =
              {i \in pendingByTime :
                 \A c \in PendingFor(k) : i.key = k => i.time # c.time} \cup added

\* Mutant: votes for a value that is already pending are not deleted.
MutantCastKeepsVotes(config, k, p, v, t, admitted) ==
  LET bs == RecordVote(k, p, v, t)
      index == votesByTime \cup {VoteIndexKey(NewVote(k, p, v, t))}
      settled == {w \in Winners(config, bs, k) : \A c \in PendingFor(k) : c.value # w}
  IN  \/ /\ settled = {}
         /\ votes' = bs
         /\ votesByTime' = index
         /\ UNCHANGED <<pending, pendingByTime>>
      \/ \E w \in settled :
           /\ votes' = bs \ VotesFor(bs, k)
           /\ votesByTime' = index \ {VoteIndexKey(b) : b \in VotesFor(bs, k)}
           /\ Enqueue(k, w, t, admitted)

\* Mutant: step 2 of cast is left out.
MutantCastUnindexed(config, k, p, v, t, admitted) ==
  LET bs == RecordVote(k, p, v, t)
  IN  IF Winners(config, bs, k) = {}
      THEN /\ votes' = bs
           /\ UNCHANGED <<votesByTime, pending, pendingByTime>>
      ELSE \E w \in Winners(config, bs, k) :
             /\ votes' = bs \ VotesFor(bs, k)
             /\ votesByTime' = votesByTime \ {VoteIndexKey(b) : b \in VotesFor(bs, k)}
             /\ Enqueue(k, w, t, admitted)

Cast(config, k, p, v, t, admitted) ==
  LET bs == RecordVote(k, p, v, t)
      index == votesByTime \cup {VoteIndexKey(NewVote(k, p, v, t))}
  IN  \/ /\ Winners(config, bs, k) = {}
         /\ votes' = bs
         /\ votesByTime' = index
         /\ UNCHANGED <<pending, pendingByTime>>
      \/ \E w \in Winners(config, bs, k) :
           /\ votes' = bs \ VotesFor(bs, k)
           /\ votesByTime' = index \ {VoteIndexKey(b) : b \in VotesFor(bs, k)}
           /\ Enqueue(k, w, t, admitted)

----------------------------------------------------------------------------
(* The queue inside FinalizeBlock: expire, deliver votes, promote.         *)

Init ==
  /\ votes = {} /\ votesByTime = {} /\ pending = {} /\ pendingByTime = {}
  /\ voting \in VotingConfigs
  /\ now = 0
  /\ phase = "idle"

BeginBlock(t) ==
  /\ phase = "idle" /\ now < t
  /\ phase' = "delivering"
  /\ now' = t
  /\ TimeoutExpiredVotes(voting, t)
  /\ UNCHANGED <<pending, pendingByTime, voting>>

DeliverVote(k, p, v, admitted) ==
  /\ phase = "delivering"
  /\ Cast(voting, k, p, v, now, admitted)
  /\ UNCHANGED <<voting, now, phase>>

\* A reconfiguration applies at the end of a block: after the promotion of
\* the admin queue and before that of the oracle queue.
EndBlock(config, next) ==
  /\ phase = "delivering"
  /\ PromotePendingChanges(config, now)
  /\ phase' = "idle"
  /\ voting' = next
  /\ UNCHANGED <<votes, votesByTime, now>>

Next ==
  \/ \E t \in 1..MaxTime : BeginBlock(t)
  \/ \E k \in Keys, p \in Parties, v \in Values :
       \E admitted \in SUBSET Values : DeliverVote(k, p, v, admitted)
  \/ \E next \in VotingConfigs :
       \E config \in {voting, next} : EndBlock(config, next)

Spec == Init /\ [][Next]_vars

----------------------------------------------------------------------------
(* Properties.                                                             *)

\* Every variable holds values of its type.
TypeOK ==
  /\ votes \subseteq VoteEntry
  /\ votesByTime \subseteq VoteIndexEntry
  /\ pending \subseteq PendingEntry
  /\ pendingByTime \subseteq PendingEntry
  /\ voting \in VotingConfigs
  /\ now \in Nat
  /\ phase \in {"idle", "delivering"}

\* Every vote that counts is indexed by its time, so it will be found when it
\* expires.  (The converse fails: cast replaces a vote in the primary map only
\* and leaves its old index entry behind.)
VotesIndexed == \A b \in votes : VoteIndexKey(b) \in votesByTime

\* A party has at most one live vote for a key, however often it votes.
OneVotePerParty ==
  \A b, c \in votes : b.key = c.key /\ b.party = c.party => b = c

\* The two copies of the pending queue agree, and hold at most one change for
\* a key: pending_for_key never meets "multiple pending changes", and what is
\* promoted (read from the index) is what is reported as pending.
PendingInStep ==
  /\ pending = pendingByTime
  /\ \A c, d \in pending : c.key = d.key => c = d

\* While votes are delivered, every vote that could be counted is younger than
\* the timeout or was cast within the current second: an expired vote never
\* contributes to a quorum.
NoExpiredVoteCounts ==
  phase = "delivering" =>
    \A b \in votes : \/ Elapsed(now, b.time) < voting.timeout
                     \/ b.time = TruncateToSecond(now)

\* No value is left standing with a quorum.  It holds while the quorum does not
\* change; a vote then completes at most the quorum of the value it is for, and
\* the order in which the tally is walked does not matter.
NoStandingQuorum == \A k \in Keys : Winners(voting, votes, k) = {}

\* Every vote has at most one possible winner, and it is the value voted for:
\* all validators that process the block agree on the pending change.
UniqueWinner ==
  phase = "delivering" =>
    \A k \in Keys, p \in Parties, v \in Values :
      Winners(voting, RecordVote(k, p, v, now), k) \subseteq {v}

\* A pending change keeps its timer: as long as its value stays, no further
\* quorum for the same value moves the time its delay is counted from.
TimerKept ==
  [][\A c \in pending, d \in pending' :
       c.key = d.key /\ c.value = d.value => c = d]_vars

\* A vote and a pending change without their stored times.
BallotOf(b) == [key |-> b.key, party |-> b.party, value |-> b.value, at |-> b.at]
ChangeOf(c) == [key |-> c.key, value |-> c.value, at |-> c.at]

\* The queue implements TimedVoting: forgetting the indexes and the truncated
\* times, votes are the ballots that count and the pending queue is what is
\* scheduled.  In particular a stale index entry never takes a live vote with
\* it, and neither expiry nor promotion is more than a second early or a block
\* late.
Timed == INSTANCE TimedVoting WITH
  ballots <- {BallotOf(b) : b \in votes},
  scheduled <- {ChangeOf(c) : c \in pending}

ImplementsTimedVoting == Timed!Spec

=============================================================================
