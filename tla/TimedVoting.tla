---------------------------- MODULE TimedVoting ----------------------------
(***************************************************************************)
(* What a vote queue promises, without indexes and in real block time.     *)
(* Every party has at most one ballot per key.  A ballot counts until its  *)
(* timeout, give or take the second that stored times are truncated by; a  *)
(* quorum of ballots for one value schedules the value; a scheduled value  *)
(* becomes due after its delay, up to a second early but at the latest in  *)
(* the first block after it.  VoteQueue implements this specification.     *)
(***************************************************************************)
EXTENDS Integers, FiniteSets

CONSTANTS Keys, Parties, Values, VotingConfigs, TicksPerSecond, MaxTime

VARIABLES
  ballots,   \* [key, party, value, at]: votes that count
  scheduled, \* [key, value, at]: changes waiting for their delay
  voting, now, phase

vars == <<ballots, scheduled, voting, now, phase>>

\* What must be over after duration d at time t, and what may be.
Over(t, at, d) == t - at >= d
AlmostOver(t, at, d) == t - at + TicksPerSecond > d

\* The entries dropped at time t: all that are over, none that is not almost.
Drops(entries, gone, t, d) ==
  /\ \A e \in entries : Over(t, e.at, d) => e \in gone
  /\ \A e \in gone : AlmostOver(t, e.at, d)

Init ==
  /\ ballots = {} /\ scheduled = {}
  /\ voting \in VotingConfigs
  /\ now = 0
  /\ phase = "idle"

BeginBlock(t) ==
  /\ phase = "idle" /\ now < t
  /\ phase' = "delivering"
  /\ now' = t
  /\ \E gone \in SUBSET ballots :
       /\ Drops(ballots, gone, t, voting.timeout)
       /\ ballots' = ballots \ gone
  /\ UNCHANGED <<scheduled, voting>>

BallotsWith(k, p, v) ==
  {b \in ballots : ~(b.key = k /\ b.party = p)}
    \cup {[key |-> k, party |-> p, value |-> v, at |-> now]}

HasQuorum(bs, k, v) ==
  /\ \E b \in bs : b.key = k /\ b.value = v
  /\ Cardinality({b \in bs : b.key = k /\ b.value = v}) >= voting.quorum

\* A value that wins is scheduled, unless it already is or is refused.
Schedule(k, w) ==
  LET others == {c \in scheduled : c.key # k}
  IN  IF \E c \in scheduled : c.key = k /\ c.value = w
      THEN scheduled' = scheduled
      ELSE \/ scheduled' = others
           \/ scheduled' = others \cup {[key |-> k, value |-> w, at |-> now]}

DeliverVote(k, p, v) ==
  LET bs == BallotsWith(k, p, v)
  IN  /\ phase = "delivering"
      /\ \/ /\ \A w \in Values : ~HasQuorum(bs, k, w)
            /\ ballots' = bs
            /\ UNCHANGED scheduled
         \/ \E w \in Values :
              /\ HasQuorum(bs, k, w)
              /\ ballots' = {b \in bs : b.key # k}
              /\ Schedule(k, w)
      /\ UNCHANGED <<voting, now, phase>>

EndBlock(config, next) ==
  /\ phase = "delivering"
  /\ phase' = "idle"
  /\ \E due \in SUBSET scheduled :
       /\ Drops(scheduled, due, now, config.delay)
       /\ scheduled' = scheduled \ due
  /\ voting' = next
  /\ UNCHANGED <<ballots, now>>

Next ==
  \/ \E t \in 1..MaxTime : BeginBlock(t)
  \/ \E k \in Keys, p \in Parties, v \in Values : DeliverVote(k, p, v)
  \/ \E next \in VotingConfigs :
       \E config \in {voting, next} : EndBlock(config, next)

Spec == Init /\ [][Next]_vars

=============================================================================
