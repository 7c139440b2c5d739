-------------------------- MODULE VoteQueueProofs --------------------------
(***************************************************************************)
(* Proofs about VoteQueue, for every set of keys, parties and values, every*)
(* set of voting configs and every resolution of time.                     *)
(***************************************************************************)
EXTENDS VoteQueue, FiniteSetTheorems, TLAPS

----------------------------------------------------------------------------
(* Types.                                                                  *)

\* A stored time is a time, and not after the block time it comes from.
LEMMA TruncateType ==
  ASSUME NEW t \in Nat
  PROVE  TruncateToSecond(t) \in Nat /\ TruncateToSecond(t) <= t
  BY TicksAssumption DEF TruncateToSecond

\* A voting config has a natural quorum, timeout and delay.
LEMMA ConfigType ==
  ASSUME NEW c \in VotingConfigs
  PROVE  c.quorum \in Nat /\ c.timeout \in Nat /\ c.delay \in Nat
  BY VotingConfigsAssumption

\* A recorded vote is an entry, and its index key an index entry.
LEMMA NewVoteType ==
  ASSUME NEW k \in Keys, NEW p \in Parties, NEW v \in Values, NEW t \in Nat
  PROVE  /\ NewVote(k, p, v, t) \in VoteEntry
         /\ VoteIndexKey(NewVote(k, p, v, t)) \in VoteIndexEntry
  BY TruncateType DEF NewVote, VoteEntry, VoteIndexKey, VoteIndexEntry

\* Entering a pending change keeps the types of both copies of the queue.
LEMMA EnqueueType ==
  ASSUME TypeOK, NEW k \in Keys, NEW w \in Values, NEW admitted,
         Enqueue(k, w, now, admitted)
  PROVE  pending' \subseteq PendingEntry /\ pendingByTime' \subseteq PendingEntry
<1>1. [key |-> k, time |-> TruncateToSecond(now), value |-> w, at |-> now]
        \in PendingEntry
  BY TruncateType DEF TypeOK, PendingEntry
<1>2. QED
  BY <1>1 DEF TypeOK, Enqueue, PendingFor

\* Casting a vote keeps the types of the queue.
LEMMA CastType ==
  ASSUME TypeOK, NEW k \in Keys, NEW p \in Parties, NEW v \in Values,
         NEW admitted, Cast(voting, k, p, v, now, admitted)
  PROVE  /\ votes' \subseteq VoteEntry
         /\ votesByTime' \subseteq VoteIndexEntry
         /\ pending' \subseteq PendingEntry
         /\ pendingByTime' \subseteq PendingEntry
<1> DEFINE bs == RecordVote(k, p, v, now)
<1> DEFINE index == votesByTime \cup {VoteIndexKey(NewVote(k, p, v, now))}
<1>1. bs \subseteq VoteEntry /\ index \subseteq VoteIndexEntry
  BY NewVoteType DEF TypeOK, RecordVote
<1>2. votes' \subseteq bs /\ votesByTime' \subseteq index
  BY DEF Cast
<1>3. \/ pending' = pending /\ pendingByTime' = pendingByTime
      \/ \E w \in Values : Enqueue(k, w, now, admitted)
  BY DEF Cast, Winners
<1>4. pending' \subseteq PendingEntry /\ pendingByTime' \subseteq PendingEntry
  BY <1>3, EnqueueType DEF TypeOK
<1>5. QED
  BY <1>1, <1>2, <1>4

\* The empty queue has its type.
LEMMA TypeInit == Init => TypeOK
  BY DEF Init, TypeOK

\* Every step of the queue keeps its type.
LEMMA TypeStep == TypeOK /\ [Next]_vars => TypeOK'
<1> SUFFICES ASSUME TypeOK, [Next]_vars
             PROVE  TypeOK'
  OBVIOUS
<1>1. ASSUME NEW t \in 1..MaxTime, BeginBlock(t)
      PROVE  TypeOK'
  BY <1>1, MaxTimeAssumption DEF TypeOK, BeginBlock, TimeoutExpiredVotes
<1>2. ASSUME NEW k \in Keys, NEW p \in Parties, NEW v \in Values,
             NEW admitted \in SUBSET Values, DeliverVote(k, p, v, admitted)
      PROVE  TypeOK'
  BY <1>2, CastType DEF TypeOK, DeliverVote
<1>3. ASSUME NEW next \in VotingConfigs, NEW config \in {voting, next},
             EndBlock(config, next)
      PROVE  TypeOK'
  BY <1>3 DEF TypeOK, EndBlock, PromotePendingChanges
<1>4. CASE UNCHANGED vars
  BY <1>4 DEF TypeOK, vars, queue
<1>5. QED
  BY <1>1, <1>2, <1>3, <1>4 DEF Next

\* The queue's state always has its type: expiry, casting, promotion and a
\* change of the voting config never store anything else.
THEOREM TypeCorrect == Spec => []TypeOK
  BY TypeInit, TypeStep, PTL DEF Spec

----------------------------------------------------------------------------
(* The two copies stay in step.  Counting and replacing votes needs only   *)
(* the primary map, expiring them only the index, so neither VotesIndexed  *)
(* nor NoExpiredVoteCounts is preserved on its own: a vote outlives its    *)
(* timeout unless the index finds it.                                      *)

InStep == VotesIndexed /\ OneVotePerParty /\ PendingInStep

IndInv == TypeOK /\ InStep /\ NoExpiredVoteCounts

\* What is taken from the index is old, and what is as old as something taken
\* is taken too: an entry that stays is younger than the duration.
LEMMA KeptIsYoung ==
  ASSUME NEW index, \A i \in index : i.time \in Nat,
         NEW t \in Nat, NEW duration \in Nat,
         NEW i \in index, i \notin TakeWhileOld(index, t, duration)
  PROVE  Elapsed(t, i.time) < duration
<1>1. PICK j \in index : j.time <= i.time /\ ~(Elapsed(t, j.time) >= duration)
  BY DEF TakeWhileOld
<1>2. QED
  BY <1>1 DEF Elapsed

\* Casting keeps every vote indexed and one vote per party and key.
LEMMA CastVotes ==
  ASSUME TypeOK, VotesIndexed, OneVotePerParty,
         NEW k \in Keys, NEW p \in Parties, NEW v \in Values,
         NEW admitted, Cast(voting, k, p, v, now, admitted)
  PROVE  /\ VotesIndexed' /\ OneVotePerParty'
         /\ votes' \subseteq votes \cup {NewVote(k, p, v, now)}
<1> DEFINE new == NewVote(k, p, v, now)
<1> DEFINE bs == RecordVote(k, p, v, now)
<1> DEFINE index == votesByTime \cup {VoteIndexKey(new)}
<1>1. bs \subseteq votes \cup {new}
  BY DEF RecordVote
<1>2. \A b \in bs : VoteIndexKey(b) \in index
  BY <1>1 DEF VotesIndexed
<1>3. new.key = k /\ new.party = p
  BY DEF NewVote
<1>4. \A b, c \in bs : b.key = c.key /\ b.party = c.party => b = c
  BY <1>3 DEF OneVotePerParty, RecordVote
<1>5. votes' \subseteq bs
  BY DEF Cast
<1>6. VotesIndexed'
  <2>1. CASE votes' = bs /\ votesByTime' = index
    BY <1>2, <2>1 DEF VotesIndexed, VoteIndexKey
  <2>2. CASE /\ votes' = bs \ VotesFor(bs, k)
             /\ votesByTime' = index \ {VoteIndexKey(b) : b \in VotesFor(bs, k)}
    <3>1. \A b \in votes', c \in VotesFor(bs, k) : VoteIndexKey(b) # VoteIndexKey(c)
      BY <2>2 DEF VotesFor, VoteIndexKey
    <3>2. \A b \in votes' : VoteIndexKey(b) \in votesByTime'
      BY <1>2, <2>2, <3>1
    <3>3. QED
      BY <3>2 DEF VotesIndexed, VoteIndexKey
  <2>3. QED
    BY <2>1, <2>2 DEF Cast
<1>7. OneVotePerParty'
  BY <1>4, <1>5 DEF OneVotePerParty
<1>8. QED
  BY <1>1, <1>5, <1>6, <1>7

\* Entering a pending change keeps the two copies of the pending queue equal,
\* with one change per key.
LEMMA EnqueueInStep ==
  ASSUME TypeOK, PendingInStep, NEW k \in Keys, NEW w \in Values, NEW admitted,
         Enqueue(k, w, now, admitted)
  PROVE  PendingInStep'
<1> DEFINE change == [key |-> k, time |-> TruncateToSecond(now), value |-> w, at |-> now]
<1> DEFINE added == IF w \in admitted THEN {change} ELSE {}
<1>1. CASE UNCHANGED <<pending, pendingByTime>>
  BY <1>1 DEF PendingInStep
<1>2. CASE /\ pending' = (pending \ PendingFor(k)) \cup added
           /\ pendingByTime' =
                {i \in pendingByTime :
                   \A c \in PendingFor(k) : i.key = k => i.time # c.time} \cup added
  <2>1. {i \in pendingByTime : \A c \in PendingFor(k) : i.key = k => i.time # c.time}
          = pending \ PendingFor(k)
    BY DEF PendingInStep, PendingFor
  <2>2. pending' = pendingByTime'
    BY <1>2, <2>1
  <2>3. \A c \in pending \ PendingFor(k) : c.key # k
    BY DEF PendingFor
  <2>4. \A c \in added : c = change /\ c.key = k
    OBVIOUS
  <2>5. \A c, d \in pending' : c.key = d.key => c = d
    BY <1>2, <2>3, <2>4 DEF PendingInStep
  <2>6. QED
    BY <2>2, <2>5 DEF PendingInStep
<1>3. QED
  BY <1>1, <1>2 DEF Enqueue

\* Casting a vote keeps the two copies of the pending queue in step.
LEMMA CastPending ==
  ASSUME TypeOK, PendingInStep, NEW k \in Keys, NEW p \in Parties, NEW v \in Values,
         NEW admitted, Cast(voting, k, p, v, now, admitted)
  PROVE  PendingInStep'
<1>1. \/ pending' = pending /\ pendingByTime' = pendingByTime
      \/ \E w \in Values : Enqueue(k, w, now, admitted)
  BY DEF Cast, Winners
<1>2. QED
  BY <1>1, EnqueueInStep DEF PendingInStep

\* Promotion removes the same changes from both copies.
LEMMA PromoteInStep ==
  ASSUME TypeOK, PendingInStep, NEW config, PromotePendingChanges(config, now)
  PROVE  PendingInStep' /\ pending' \subseteq pending
<1>1. Ripe(config, now) \subseteq pending
  BY DEF Ripe, TakeWhileOld, PendingInStep
<1>2. pending' = pending \ Ripe(config, now)
  BY <1>1 DEF PromotePendingChanges, PendingInStep
<1>3. pendingByTime' = pending \ Ripe(config, now)
  BY DEF PromotePendingChanges, PendingInStep
<1>4. QED
  BY <1>2, <1>3 DEF PendingInStep

\* Expiry removes a vote from both copies, and leaves no expired vote.
LEMMA ExpireVotes ==
  ASSUME TypeOK, VotesIndexed, NEW t \in Nat, TimeoutExpiredVotes(voting, t)
  PROVE  /\ VotesIndexed' /\ votes' \subseteq votes
         /\ \A b \in votes' : Elapsed(t, b.time) < voting.timeout
<1> DEFINE old == TakeWhileOld(votesByTime, t, voting.timeout)
<1>1. votes' = {b \in votes : VoteIndexKey(b) \notin old} /\ votesByTime' = votesByTime \ old
  BY DEF TimeoutExpiredVotes
<1>2. \A b \in votes' : VoteIndexKey(b) \in votesByTime \ old
  BY <1>1 DEF VotesIndexed
<1>3. VotesIndexed'
  BY <1>1, <1>2 DEF VotesIndexed, VoteIndexKey
<1>4. \A i \in votesByTime : i.time \in Nat
  BY DEF TypeOK, VoteIndexEntry
<1>5. voting.timeout \in Nat
  BY ConfigType DEF TypeOK
<1>6. ASSUME NEW b \in votes'
      PROVE  Elapsed(t, b.time) < voting.timeout
  <2>1. VoteIndexKey(b) \in votesByTime /\ VoteIndexKey(b) \notin old
    BY <1>2
  <2>2. Elapsed(t, VoteIndexKey(b).time) < voting.timeout
    BY <1>4, <1>5, <2>1, KeptIsYoung
  <2>3. QED
    BY <2>2 DEF VoteIndexKey
<1>7. QED
  BY <1>1, <1>3, <1>6

\* The empty queue is in step.
LEMMA InStepInit == Init => InStep /\ NoExpiredVoteCounts
  BY DEF Init, InStep, VotesIndexed, OneVotePerParty, PendingInStep, NoExpiredVoteCounts

\* Every step keeps the copies in step and leaves no expired vote to count.
LEMMA InStepStep == IndInv /\ [Next]_vars => (InStep /\ NoExpiredVoteCounts)'
<1> SUFFICES ASSUME IndInv, [Next]_vars
             PROVE  (InStep /\ NoExpiredVoteCounts)'
  OBVIOUS
<1> USE DEF IndInv, InStep
<1>1. ASSUME NEW t \in 1..MaxTime, BeginBlock(t)
      PROVE  (InStep /\ NoExpiredVoteCounts)'
  <2>1. t \in Nat /\ TimeoutExpiredVotes(voting, t)
    BY <1>1, MaxTimeAssumption DEF BeginBlock
  <2>2. VotesIndexed' /\ OneVotePerParty'
    BY <2>1, ExpireVotes DEF OneVotePerParty
  <2>3. PendingInStep'
    BY <1>1 DEF BeginBlock, PendingInStep
  <2>4. now' = t /\ voting' = voting
    BY <1>1 DEF BeginBlock
  <2>5. \A b \in votes' : Elapsed(t, b.time) < voting.timeout
    BY <2>1, ExpireVotes
  <2>6. NoExpiredVoteCounts'
    BY <2>4, <2>5 DEF NoExpiredVoteCounts
  <2>7. QED
    BY <2>2, <2>3, <2>6
<1>2. ASSUME NEW k \in Keys, NEW p \in Parties, NEW v \in Values,
             NEW admitted \in SUBSET Values, DeliverVote(k, p, v, admitted)
      PROVE  (InStep /\ NoExpiredVoteCounts)'
  <2>1. /\ Cast(voting, k, p, v, now, admitted)
        /\ phase = "delivering" /\ UNCHANGED <<voting, now, phase>>
    BY <1>2 DEF DeliverVote
  <2>2. /\ VotesIndexed' /\ OneVotePerParty'
        /\ votes' \subseteq votes \cup {NewVote(k, p, v, now)}
    BY <2>1, CastVotes
  <2>3. PendingInStep'
    BY <2>1, CastPending
  <2>4. NewVote(k, p, v, now).time = TruncateToSecond(now)
    BY DEF NewVote
  <2>5. \A b \in votes' : \/ Elapsed(now, b.time) < voting.timeout
                          \/ b.time = TruncateToSecond(now)
    BY <2>1, <2>2, <2>4 DEF NoExpiredVoteCounts
  <2>6. NoExpiredVoteCounts'
    BY <2>1, <2>5 DEF NoExpiredVoteCounts
  <2>7. QED
    BY <2>2, <2>3, <2>6
<1>3. ASSUME NEW next \in VotingConfigs, NEW config \in {voting, next},
             EndBlock(config, next)
      PROVE  (InStep /\ NoExpiredVoteCounts)'
  <2>1. PromotePendingChanges(config, now) /\ phase' = "idle"
        /\ votes' = votes /\ votesByTime' = votesByTime
    BY <1>3 DEF EndBlock
  <2>2. PendingInStep'
    BY <2>1, PromoteInStep
  <2>3. VotesIndexed' /\ OneVotePerParty' /\ NoExpiredVoteCounts'
    BY <2>1 DEF VotesIndexed, OneVotePerParty, NoExpiredVoteCounts
  <2>4. QED
    BY <2>2, <2>3
<1>4. CASE UNCHANGED vars
  BY <1>4 DEF vars, queue, VotesIndexed, OneVotePerParty, PendingInStep,
              NoExpiredVoteCounts
<1>5. QED
  BY <1>1, <1>2, <1>3, <1>4 DEF Next

\* The strengthened invariant holds in every reachable state: types, both
\* copies of votes and pending changes in step, no expired vote that counts.
THEOREM Inductive == Spec => []IndInv
<1>1. Init => IndInv
  BY TypeInit, InStepInit DEF IndInv
<1>2. IndInv /\ [Next]_vars => IndInv'
  BY TypeStep, InStepStep DEF IndInv
<1>3. QED
  BY <1>1, <1>2, PTL DEF Spec

\* Every vote that can be counted is indexed, so its expiry will find it.
THEOREM VotesAreIndexed == Spec => []VotesIndexed
  BY Inductive, PTL DEF IndInv, InStep

\* However often and in whatever order parties vote, nobody counts twice.
THEOREM PartiesCountOnce == Spec => []OneVotePerParty
  BY Inductive, PTL DEF IndInv, InStep

\* What promotion reads from the index is what is reported as pending, and no
\* key ever has two pending changes.
THEOREM PendingStaysInStep == Spec => []PendingInStep
  BY Inductive, PTL DEF IndInv, InStep

\* No vote contributes to a quorum after its timeout, even though expired votes
\* are found through an index that keeps entries of votes long replaced.
THEOREM ExpiredVotesNeverCount == Spec => []NoExpiredVoteCounts
  BY Inductive, PTL DEF IndInv

----------------------------------------------------------------------------
(* What a vote brings about.                                               *)

\* Casting a vote adds no other vote, and no pending change but for a winner that
\* is admitted; changes for other keys stay.
LEMMA CastOutcome ==
  ASSUME NEW config, NEW k, NEW p, NEW v, NEW t, NEW admitted,
         Cast(config, k, p, v, t, admitted)
  PROVE  /\ votes' \subseteq votes \cup {NewVote(k, p, v, t)}
         /\ \/ pending' = pending
            \/ \E w \in Winners(config, RecordVote(k, p, v, t), k) :
                 pending' = (pending \ PendingFor(k)) \cup
                   (IF w \in admitted
                    THEN {[key |-> k, time |-> TruncateToSecond(t), value |-> w, at |-> t]}
                    ELSE {})
  BY DEF Cast, RecordVote, Enqueue

----------------------------------------------------------------------------
(* The delay of a pending change.                                          *)

\* Entering a winner replaces a pending change only by another value.
LEMMA EnqueueKeepsTimer ==
  ASSUME TypeOK, PendingInStep, NEW k \in Keys, NEW w \in Values, NEW admitted,
         Enqueue(k, w, now, admitted),
         NEW c \in pending, NEW d \in pending', c.key = d.key, c.value = d.value
  PROVE  c = d
<1> DEFINE change == [key |-> k, time |-> TruncateToSecond(now), value |-> w, at |-> now]
<1>1. CASE UNCHANGED <<pending, pendingByTime>>
  BY <1>1 DEF PendingInStep
<1>2. CASE /\ \A e \in PendingFor(k) : e.value # w
           /\ pending' = (pending \ PendingFor(k))
                           \cup (IF w \in admitted THEN {change} ELSE {})
  <2>1. CASE d = change
    <3>1. c.key = k /\ c.value = w
      BY <2>1
    <3>2. QED
      BY <1>2, <3>1 DEF PendingFor
  <2>2. CASE d \in pending
    BY <2>2 DEF PendingInStep
  <2>3. QED
    BY <1>2, <2>1, <2>2
<1>3. QED
  BY <1>1, <1>2 DEF Enqueue

\* No step moves the time of a pending change whose value stays.
LEMMA StepKeepsTimer ==
  IndInv /\ [Next]_vars =>
    \A c \in pending, d \in pending' : c.key = d.key /\ c.value = d.value => c = d
<1> SUFFICES ASSUME IndInv, [Next]_vars,
                    NEW c \in pending, NEW d \in pending',
                    c.key = d.key, c.value = d.value
             PROVE  c = d
  OBVIOUS
<1> USE DEF IndInv, InStep
<1>1. CASE pending' \subseteq pending
  BY <1>1 DEF PendingInStep
<1>2. ASSUME NEW t \in 1..MaxTime, BeginBlock(t)
      PROVE  c = d
  BY <1>1, <1>2 DEF BeginBlock
<1>3. ASSUME NEW k \in Keys, NEW p \in Parties, NEW v \in Values,
             NEW admitted \in SUBSET Values, DeliverVote(k, p, v, admitted)
      PROVE  c = d
  <2>1. \/ pending' = pending
        \/ \E w \in Values : Enqueue(k, w, now, admitted)
    BY <1>3 DEF DeliverVote, Cast, Winners
  <2>2. QED
    BY <1>1, <2>1, EnqueueKeepsTimer
<1>4. ASSUME NEW next \in VotingConfigs, NEW config \in {voting, next},
             EndBlock(config, next)
      PROVE  c = d
  BY <1>1, <1>4, PromoteInStep DEF EndBlock
<1>5. CASE UNCHANGED vars
  BY <1>1, <1>5 DEF vars, queue
<1>6. QED
  BY <1>2, <1>3, <1>4, <1>5 DEF Next

\* Parties that vote for a pending change again and again cannot keep it from
\* being applied: its timer is never reset while its value stays.
THEOREM TimersAreKept == Spec => TimerKept
  BY Inductive, StepKeepsTimer, PTL DEF Spec, TimerKept

----------------------------------------------------------------------------
(* One winner.  The tally is walked in hash order and stops at the first   *)
(* value with a quorum, so validators agree only if there is one at most.  *)
(* As long as no config lowers the quorum, no value is left standing with  *)
(* a quorum, and a vote can complete only the quorum of its own value.     *)

\* Fewer votes for a value are not a larger tally.
LEMMA TallyOfFewer ==
  ASSUME NEW A, IsFiniteSet(A), NEW B, NEW k, NEW w,
         {b \in VotesFor(B, k) : b.value = w} \subseteq {b \in VotesFor(A, k) : b.value = w}
  PROVE  /\ Tally(A, k, w) \in Nat /\ Tally(B, k, w) \in Nat
         /\ Tally(B, k, w) <= Tally(A, k, w)
<1> DEFINE wa == {b \in VotesFor(A, k) : b.value = w}
<1> DEFINE wb == {b \in VotesFor(B, k) : b.value = w}
<1>1. wa \in SUBSET A /\ wb \in SUBSET wa
  BY DEF VotesFor
<1>2. IsFiniteSet(wa)
  BY <1>1, FS_Subset
<1>3. IsFiniteSet(wb) /\ Cardinality(wb) <= Cardinality(wa)
  BY <1>1, <1>2, FS_Subset
<1>4. QED
  BY <1>2, <1>3, FS_CardinalityType DEF Tally

\* A value that does not win does not win with fewer votes.
LEMMA FewerVotesNoWinner ==
  ASSUME NEW A, IsFiniteSet(A), NEW B, NEW k, NEW w,
         NEW c \in VotingConfigs, w \notin Winners(c, A, k),
         {b \in VotesFor(B, k) : b.value = w} \subseteq {b \in VotesFor(A, k) : b.value = w}
  PROVE  w \notin Winners(c, B, k)
  BY TallyOfFewer, ConfigType DEF Winners

StandingInv == TypeOK /\ IsFiniteSet(votes) /\ NoStandingQuorum

\* A vote leaves the votes for other keys, and for other values, as they are or
\* fewer.
LEMMA RecordVoteElsewhere ==
  ASSUME NEW k, NEW p, NEW v, NEW j, NEW w, j # k \/ w # v
  PROVE  {b \in VotesFor(RecordVote(k, p, v, now), j) : b.value = w}
           \subseteq {b \in VotesFor(votes, j) : b.value = w}
  BY DEF RecordVote, VotesFor, NewVote

\* With no quorum standing, a vote can only let its own value win.
LEMMA WinnerIsVotedFor ==
  ASSUME StandingInv, NEW k \in Keys, NEW p, NEW v
  PROVE  Winners(voting, RecordVote(k, p, v, now), k) \subseteq {v}
<1> SUFFICES ASSUME NEW w \in Values, w # v
             PROVE  w \notin Winners(voting, RecordVote(k, p, v, now), k)
  BY DEF Winners
<1>1. w \notin Winners(voting, votes, k)
  BY DEF StandingInv, NoStandingQuorum
<1>2. QED
  BY <1>1, RecordVoteElsewhere, FewerVotesNoWinner DEF StandingInv, TypeOK

\* Recording a vote keeps the votes finite.
LEMMA RecordVoteFinite ==
  ASSUME IsFiniteSet(votes), NEW k, NEW p, NEW v
  PROVE  IsFiniteSet(RecordVote(k, p, v, now))
<1>1. {b \in votes : ~(b.key = k /\ b.party = p)} \in SUBSET votes
  OBVIOUS
<1>2. IsFiniteSet({b \in votes : ~(b.key = k /\ b.party = p)})
  BY <1>1, FS_Subset
<1>3. QED
  BY <1>2, FS_AddElement DEF RecordVote

\* The votes that remain after a vote is cast have no quorum.
LEMMA CastNoStanding ==
  ASSUME StandingInv, NEW k \in Keys, NEW p \in Parties, NEW v \in Values,
         NEW admitted, Cast(voting, k, p, v, now, admitted)
  PROVE  IsFiniteSet(votes') /\ \A j \in Keys : Winners(voting, votes', j) = {}
<1> DEFINE bs == RecordVote(k, p, v, now)
<1>1. IsFiniteSet(bs) /\ voting \in VotingConfigs
  BY RecordVoteFinite DEF StandingInv, TypeOK
<1>2. \A j \in Keys \ {k} : Winners(voting, bs, j) = {}
  <2> SUFFICES ASSUME NEW j \in Keys \ {k}, NEW w \in Values
               PROVE  w \notin Winners(voting, bs, j)
    BY DEF Winners
  <2>1. w \notin Winners(voting, votes, j)
    BY DEF StandingInv, NoStandingQuorum
  <2>2. QED
    BY <2>1, RecordVoteElsewhere, FewerVotesNoWinner DEF StandingInv, TypeOK
<1>3. CASE Winners(voting, bs, k) = {} /\ votes' = bs
  BY <1>1, <1>2, <1>3
<1>4. CASE votes' = bs \ VotesFor(bs, k)
  <2>1. IsFiniteSet(votes')
    BY <1>1, <1>4, FS_Subset
  <2>2. Winners(voting, votes', k) = {}
    BY <1>4 DEF Winners, VotesFor
  <2>3. ASSUME NEW j \in Keys \ {k}, NEW w \in Values
        PROVE  w \notin Winners(voting, votes', j)
    <3>1. {b \in VotesFor(votes', j) : b.value = w} \subseteq {b \in VotesFor(bs, j) : b.value = w}
      BY <1>4 DEF VotesFor
    <3>2. QED
      BY <1>1, <1>2, <3>1, FewerVotesNoWinner
  <2>4. \A j \in Keys \ {k} : Winners(voting, votes', j) = {}
    BY <2>3 DEF Winners
  <2>5. QED
    BY <2>1, <2>2, <2>4
<1>5. QED
  BY <1>3, <1>4 DEF Cast

\* The same votes win no more under a higher quorum.
LEMMA HigherQuorumNoWinner ==
  ASSUME NEW A, IsFiniteSet(A), NEW k, NEW c \in VotingConfigs, NEW d \in VotingConfigs,
         d.quorum >= c.quorum, Winners(c, A, k) = {}
  PROVE  Winners(d, A, k) = {}
<1> SUFFICES ASSUME NEW w \in Winners(d, A, k)
             PROVE  w \in Winners(c, A, k)
  OBVIOUS
<1>1. Tally(A, k, w) \in Nat
  BY TallyOfFewer
<1>2. QED
  BY <1>1, ConfigType DEF Winners

\* No quorum is left standing by a step that does not lower it.
LEMMA StandingStep ==
  ASSUME StandingInv, [Next]_vars, voting'.quorum >= voting.quorum
  PROVE  StandingInv'
<1>1. TypeOK' /\ TypeOK
  BY TypeStep DEF StandingInv
<1>2. ASSUME IsFiniteSet(votes'), \A j \in Keys : Winners(voting, votes', j) = {}
      PROVE  StandingInv'
  <2>1. voting \in VotingConfigs /\ voting' \in VotingConfigs
    BY <1>1 DEF TypeOK
  <2>2. \A j \in Keys : Winners(voting', votes', j) = {}
    BY <1>2, <2>1, HigherQuorumNoWinner
  <2>3. NoStandingQuorum'
    BY <2>2 DEF NoStandingQuorum, Winners, Tally, VotesFor
  <2>4. QED
    BY <1>1, <1>2, <2>3 DEF StandingInv
<1>3. CASE votes' \subseteq votes
  <2>1. IsFiniteSet(votes')
    BY <1>3, FS_Subset DEF StandingInv
  <2>2. ASSUME NEW j \in Keys, NEW w \in Values
        PROVE  w \notin Winners(voting, votes', j)
    <3>1. {b \in VotesFor(votes', j) : b.value = w} \subseteq {b \in VotesFor(votes, j) : b.value = w}
      BY <1>3 DEF VotesFor
    <3>2. QED
      BY <3>1, FewerVotesNoWinner DEF StandingInv, TypeOK, NoStandingQuorum
  <2>3. \A j \in Keys : Winners(voting, votes', j) = {}
    BY <2>2 DEF Winners
  <2>4. QED
    BY <1>2, <2>1, <2>3
<1>4. ASSUME NEW t \in 1..MaxTime, BeginBlock(t)
      PROVE  StandingInv'
  BY <1>3, <1>4 DEF BeginBlock, TimeoutExpiredVotes
<1>5. ASSUME NEW k \in Keys, NEW p \in Parties, NEW v \in Values,
             NEW admitted \in SUBSET Values, DeliverVote(k, p, v, admitted)
      PROVE  StandingInv'
  BY <1>2, <1>5, CastNoStanding DEF DeliverVote
<1>6. ASSUME NEW next \in VotingConfigs, NEW config \in {voting, next},
             EndBlock(config, next)
      PROVE  StandingInv'
  BY <1>3, <1>6 DEF EndBlock
<1>7. CASE UNCHANGED vars
  BY <1>3, <1>7 DEF vars, queue
<1>8. QED
  BY <1>4, <1>5, <1>6, <1>7 DEF Next

\* Initially nobody has voted.
LEMMA StandingInit == Init => StandingInv
  BY TypeInit, FS_EmptySet DEF Init, StandingInv, NoStandingQuorum, Winners, VotesFor

\* No config that takes effect has a lower quorum than the one it replaces.
QuorumNeverLowered == [][voting'.quorum >= voting.quorum]_vars

\* Every vote has at most one possible winner, as long as no config lowers the
\* quorum.  (A config that does can leave two values standing with one.)
THEOREM AtMostOneWinner == Spec /\ QuorumNeverLowered => []UniqueWinner
<1>1. StandingInv /\ [Next]_vars /\ [voting'.quorum >= voting.quorum]_vars => StandingInv'
  <2> SUFFICES ASSUME StandingInv, [Next]_vars, [voting'.quorum >= voting.quorum]_vars
               PROVE  StandingInv'
    OBVIOUS
  <2>1. voting.quorum \in Nat
    BY ConfigType DEF StandingInv, TypeOK
  <2>2. voting'.quorum >= voting.quorum
    BY <2>1 DEF vars
  <2>3. QED
    BY <2>2, StandingStep
<1>2. StandingInv => UniqueWinner
  BY WinnerIsVotedFor DEF UniqueWinner
<1>3. QED
  BY <1>1, <1>2, StandingInit, PTL DEF Spec, QuorumNeverLowered

----------------------------------------------------------------------------
(* The queue implements TimedVoting: in terms of real block times, its     *)
(* indexes and truncated times are correct to the second.                  *)


\* Stored times are the truncations of the block times entries were made at, and
\* none of those lies in the future.
StoredTimes ==
  \A e \in votes \cup pending : e.time = TruncateToSecond(e.at) /\ e.at <= now

\* What the refinement mapping rests on: the inductive invariant, finitely many
\* votes (so that tallies are numbers), and stored times that can be recovered.
RefInv == IndInv /\ IsFiniteSet(votes) /\ StoredTimes

----------------------------------------------------------------------------
(* Stored times.                                                           *)

\* Truncation loses less than a second.
LEMMA TruncateBounds ==
  ASSUME NEW t \in Nat
  PROVE  /\ TruncateToSecond(t) \in Nat /\ TruncateToSecond(t) <= t
         /\ t < TruncateToSecond(t) + TicksPerSecond
  BY TicksAssumption DEF TruncateToSecond

\* Entries made by casting a vote carry the truncated block time.
LEMMA CastTimes ==
  ASSUME TypeOK, StoredTimes, NEW k \in Keys, NEW p \in Parties, NEW v \in Values,
         NEW admitted, Cast(voting, k, p, v, now, admitted)
  PROVE  \A e \in votes' \cup pending' : e.time = TruncateToSecond(e.at) /\ e.at <= now
<1>1. now \in Nat
  BY DEF TypeOK
<1>2. votes' \subseteq votes \cup {NewVote(k, p, v, now)}
  BY DEF Cast, RecordVote
<1>3. \A e \in votes' : e.time = TruncateToSecond(e.at) /\ e.at <= now
  BY <1>1, <1>2 DEF StoredTimes, NewVote
<1>4. ASSUME NEW w, Enqueue(k, w, now, admitted), NEW e \in pending'
      PROVE  e.time = TruncateToSecond(e.at) /\ e.at <= now
  <2>1. \/ e \in pending
        \/ e = [key |-> k, time |-> TruncateToSecond(now), value |-> w, at |-> now]
    BY <1>4 DEF Enqueue
  <2>2. QED
    BY <1>1, <2>1 DEF StoredTimes
<1>5. \A e \in pending' : e.time = TruncateToSecond(e.at) /\ e.at <= now
  BY <1>4 DEF Cast, StoredTimes
<1>6. QED
  BY <1>3, <1>5

\* Casting a vote keeps the votes finite.
LEMMA CastFinite ==
  ASSUME IsFiniteSet(votes), NEW k, NEW p, NEW v, NEW admitted,
         Cast(voting, k, p, v, now, admitted)
  PROVE  IsFiniteSet(votes')
<1>1. votes' \in SUBSET RecordVote(k, p, v, now)
  BY DEF Cast
<1>2. QED
  BY <1>1, RecordVoteFinite, FS_Subset

\* The invariant that the mapping rests on holds initially.
LEMMA RefInvInit == Init => RefInv
<1>1. Init => IndInv
  BY TypeInit, InStepInit DEF IndInv
<1>2. Init => IsFiniteSet(votes) /\ StoredTimes
  BY FS_EmptySet DEF Init, StoredTimes
<1>3. QED
  BY <1>1, <1>2 DEF RefInv

\* Every step keeps the invariant that the mapping rests on.
LEMMA RefInvStep == RefInv /\ [Next]_vars => RefInv'
<1> SUFFICES ASSUME RefInv, [Next]_vars
             PROVE  RefInv'
  OBVIOUS
<1>1. IndInv' /\ TypeOK
  BY TypeStep, InStepStep DEF RefInv, IndInv
<1>2. CASE votes' \subseteq votes /\ pending' \subseteq pending /\ now <= now'
  <2>1. IsFiniteSet(votes')
    BY <1>2, FS_Subset DEF RefInv
  <2>2. \A e \in votes \cup pending : e.at \in Nat
    BY <1>1 DEF TypeOK, VoteEntry, PendingEntry
  <2>3. now \in Nat /\ now' \in Nat
    BY <1>1 DEF IndInv, TypeOK
  <2>4. StoredTimes'
    BY <1>2, <2>2, <2>3 DEF RefInv, StoredTimes, TruncateToSecond
  <2>5. QED
    BY <1>1, <2>1, <2>4 DEF RefInv
<1>3. ASSUME NEW t \in 1..MaxTime, BeginBlock(t)
      PROVE  RefInv'
  BY <1>1, <1>2, <1>3, MaxTimeAssumption DEF BeginBlock, TimeoutExpiredVotes, TypeOK
<1>4. ASSUME NEW k \in Keys, NEW p \in Parties, NEW v \in Values,
             NEW admitted \in SUBSET Values, DeliverVote(k, p, v, admitted)
      PROVE  RefInv'
  <2>1. Cast(voting, k, p, v, now, admitted) /\ now' = now
    BY <1>4 DEF DeliverVote
  <2>2. IsFiniteSet(votes')
    BY <2>1, CastFinite DEF RefInv
  <2>3. StoredTimes'
    BY <1>1, <2>1, CastTimes DEF RefInv, StoredTimes, TruncateToSecond
  <2>4. QED
    BY <1>1, <2>2, <2>3 DEF RefInv
<1>5. ASSUME NEW next \in VotingConfigs, NEW config \in {voting, next},
             EndBlock(config, next)
      PROVE  RefInv'
  BY <1>1, <1>2, <1>5 DEF EndBlock, PromotePendingChanges, TypeOK
<1>6. CASE UNCHANGED vars
  BY <1>1, <1>2, <1>6 DEF vars, queue, TypeOK
<1>7. QED
  BY <1>3, <1>4, <1>5, <1>6 DEF Next

----------------------------------------------------------------------------
(* The mapping forgets nothing but stored times, which are determined by   *)
(* the real ones: it is injective.                                         *)

\* Votes with the same ballot are the same vote.
LEMMA BallotOfInjective ==
  ASSUME NEW b \in VoteEntry, NEW c \in VoteEntry, BallotOf(b) = BallotOf(c),
         b.time = TruncateToSecond(b.at), c.time = TruncateToSecond(c.at)
  PROVE  b = c
<1>1. b.key = c.key /\ b.party = c.party /\ b.value = c.value /\ b.at = c.at
  BY DEF BallotOf
<1>2. b.time = c.time
  BY <1>1
<1>3. QED
  BY <1>1, <1>2 DEF VoteEntry

\* Pending changes with the same key, value and block time are the same.
LEMMA ChangeOfInjective ==
  ASSUME NEW b \in PendingEntry, NEW c \in PendingEntry, ChangeOf(b) = ChangeOf(c),
         b.time = TruncateToSecond(b.at), c.time = TruncateToSecond(c.at)
  PROVE  b = c
<1>1. b.key = c.key /\ b.value = c.value /\ b.at = c.at
  BY DEF ChangeOf
<1>2. b.time = c.time
  BY <1>1
<1>3. QED
  BY <1>1, <1>2 DEF PendingEntry

\* An injective image has as many elements.
LEMMA CardinalityOfBallots ==
  ASSUME NEW S, IsFiniteSet(S),
         \A b, c \in S : BallotOf(b) = BallotOf(c) => b = c
  PROVE  Cardinality({BallotOf(b) : b \in S}) = Cardinality(S)
<1> DEFINE T == {BallotOf(b) : b \in S}
<1> DEFINE f == [b \in S |-> BallotOf(b)]
<1>1. f \in [S -> T]
  OBVIOUS
<1>2. f \in Injection(S, T)
  BY <1>1 DEF Injection, IsInjective
<1>3. f \in Surjection(S, T)
  BY <1>1 DEF Surjection
<1>4. ExistsBijection(S, T)
  BY <1>2, <1>3 DEF ExistsBijection, Bijection
<1>5. QED
  BY <1>4, FS_Bijection

----------------------------------------------------------------------------
(* Every step maps to a step.                                              *)

\* Expiry and promotion are correct to the second: dropping what the indexes
\* find old is dropping all that is over and nothing that is not almost over.
LEMMA DropsOld ==
  ASSUME NEW e, e.at \in Nat, e.time = TruncateToSecond(e.at), NEW t \in Nat, e.at <= t,
         NEW d \in Nat
  PROVE  /\ Elapsed(t, e.time) < d => ~Timed!Over(t, e.at, d)
         /\ Elapsed(t, e.time) >= d => Timed!AlmostOver(t, e.at, d)
<1>1. e.time \in Nat /\ e.time <= e.at /\ e.at < e.time + TicksPerSecond
  BY TruncateBounds
<1>2. Elapsed(t, e.time) = t - e.time
  BY <1>1 DEF Elapsed
<1>3. QED
  BY <1>1, <1>2, TicksAssumption DEF Timed!Over, Timed!AlmostOver

\* The expiry at the start of a block drops the ballots that are over.
LEMMA BeginBlockRefines ==
  ASSUME RefInv, NEW t \in 1..MaxTime, BeginBlock(t)
  PROVE  Timed!BeginBlock(t)
<1> DEFINE old == TakeWhileOld(votesByTime, t, voting.timeout)
<1> DEFINE B == {BallotOf(b) : b \in votes}
<1> DEFINE gone == {BallotOf(b) : b \in votes \ votes'}
<1>1. t \in Nat /\ now \in Nat /\ now < t /\ voting.timeout \in Nat
  BY MaxTimeAssumption, ConfigType DEF BeginBlock, RefInv, IndInv, TypeOK
<1>2. TimeoutExpiredVotes(voting, t)
  BY DEF BeginBlock
<1>3. /\ votes' \subseteq votes
      /\ \A b \in votes' : Elapsed(t, b.time) < voting.timeout
  BY <1>1, <1>2, ExpireVotes DEF RefInv, IndInv, InStep
<1>4. \A b \in votes \ votes' : Elapsed(t, b.time) >= voting.timeout
  <2> SUFFICES ASSUME NEW b \in votes \ votes'
               PROVE  Elapsed(t, b.time) >= voting.timeout
    OBVIOUS
  <2>1. VoteIndexKey(b) \in old
    BY <1>2 DEF TimeoutExpiredVotes
  <2>2. VoteIndexKey(b).time \in Nat /\ VoteIndexKey(b).time = b.time
    BY DEF VoteIndexKey, RefInv, IndInv, TypeOK, VoteEntry
  <2>3. Elapsed(t, VoteIndexKey(b).time) >= voting.timeout
    BY <2>1, <2>2 DEF TakeWhileOld
  <2>4. QED
    BY <2>2, <2>3
<1>5. \A b \in votes : /\ b \in VoteEntry /\ b.at \in Nat /\ b.at <= t
                       /\ b.time = TruncateToSecond(b.at)
  BY <1>1 DEF RefInv, IndInv, TypeOK, VoteEntry, StoredTimes
<1>6. \A b \in votes : BallotOf(b).at = b.at
  BY DEF BallotOf
<1>7. \A b, c \in votes : BallotOf(b) = BallotOf(c) => b = c
  BY <1>5, BallotOfInjective
<1>8. {BallotOf(b) : b \in votes'} = B \ gone /\ gone \in SUBSET B
  BY <1>3, <1>7
<1>9. \A e \in B : Timed!Over(t, e.at, voting.timeout) => e \in gone
  <2> SUFFICES ASSUME NEW b \in votes, Timed!Over(t, BallotOf(b).at, voting.timeout)
               PROVE  b \notin votes'
    OBVIOUS
  <2>1. Timed!Over(t, b.at, voting.timeout)
    BY <1>6
  <2>2. QED
    BY <1>1, <1>3, <1>5, <2>1, DropsOld
<1>10. \A e \in gone : Timed!AlmostOver(t, e.at, voting.timeout)
  <2> SUFFICES ASSUME NEW b \in votes \ votes'
               PROVE  Timed!AlmostOver(t, BallotOf(b).at, voting.timeout)
    OBVIOUS
  <2>1. Timed!AlmostOver(t, b.at, voting.timeout)
    BY <1>1, <1>4, <1>5, DropsOld
  <2>2. QED
    BY <1>6, <2>1
<1>11. Timed!Drops(B, gone, t, voting.timeout)
  BY <1>9, <1>10 DEF Timed!Drops
<1>12. {BallotOf(b) : b \in votes}' = {BallotOf(b) : b \in votes'}
  BY DEF BallotOf
<1>13. QED
  BY <1>8, <1>11, <1>12 DEF BeginBlock, Timed!BeginBlock, ChangeOf

\* Promotion makes due the changes whose delay is over.
LEMMA EndBlockRefines ==
  ASSUME RefInv, NEW next \in VotingConfigs, NEW config \in {voting, next},
         EndBlock(config, next)
  PROVE  Timed!EndBlock(config, next)
<1> DEFINE S == {ChangeOf(c) : c \in pending}
<1> DEFINE due == {ChangeOf(c) : c \in pending \ pending'}
<1>1. now \in Nat /\ config \in VotingConfigs /\ config.delay \in Nat
  BY ConfigType DEF RefInv, IndInv, TypeOK
<1>2. pendingByTime = pending /\ PromotePendingChanges(config, now)
  BY DEF EndBlock, RefInv, IndInv, InStep, PendingInStep
<1>3. pending' = pending \ Ripe(config, now)
  BY <1>2 DEF PromotePendingChanges, Ripe, TakeWhileOld, RefInv, IndInv, InStep, PendingInStep
<1>4. \A c \in pending : /\ c \in PendingEntry /\ c.at \in Nat /\ c.at <= now
                         /\ c.time = TruncateToSecond(c.at) /\ c.time \in Nat
  BY DEF RefInv, IndInv, TypeOK, PendingEntry, StoredTimes
<1>5. \A c \in pending' : Elapsed(now, c.time) < config.delay
  <2> SUFFICES ASSUME NEW c \in pending'
               PROVE  Elapsed(now, c.time) < config.delay
    OBVIOUS
  <2>1. c \in pending /\ c \notin TakeWhileOld(pending, now, config.delay)
    BY <1>2, <1>3 DEF Ripe
  <2>2. QED
    BY <1>1, <1>4, <2>1, KeptIsYoung
<1>6. \A c \in pending \ pending' : Elapsed(now, c.time) >= config.delay
  BY <1>2, <1>3, <1>4 DEF Ripe, TakeWhileOld
<1>7. \A c \in pending : ChangeOf(c).at = c.at
  BY DEF ChangeOf
<1>8. \A b, c \in pending : ChangeOf(b) = ChangeOf(c) => b = c
  BY <1>4, ChangeOfInjective
<1>9. {ChangeOf(c) : c \in pending'} = S \ due /\ due \in SUBSET S
  BY <1>3, <1>8
<1>10. \A e \in S : Timed!Over(now, e.at, config.delay) => e \in due
  <2> SUFFICES ASSUME NEW c \in pending, Timed!Over(now, ChangeOf(c).at, config.delay)
               PROVE  c \notin pending'
    OBVIOUS
  <2>1. Timed!Over(now, c.at, config.delay)
    BY <1>7
  <2>2. QED
    BY <1>1, <1>4, <1>5, <2>1, DropsOld
<1>11. \A e \in due : Timed!AlmostOver(now, e.at, config.delay)
  <2> SUFFICES ASSUME NEW c \in pending \ pending'
               PROVE  Timed!AlmostOver(now, ChangeOf(c).at, config.delay)
    OBVIOUS
  <2>1. Timed!AlmostOver(now, c.at, config.delay)
    BY <1>1, <1>4, <1>6, DropsOld
  <2>2. QED
    BY <1>7, <2>1
<1>12. Timed!Drops(S, due, now, config.delay)
  BY <1>10, <1>11 DEF Timed!Drops
<1>13. {ChangeOf(c) : c \in pending}' = {ChangeOf(c) : c \in pending'}
  BY DEF ChangeOf
<1>14. QED
  BY <1>9, <1>12, <1>13 DEF EndBlock, Timed!EndBlock, BallotOf

\* Recording a vote is recording a ballot.
LEMMA RecordVoteRefines ==
  ASSUME RefInv, NEW k \in Keys, NEW p \in Parties, NEW v \in Values
  PROVE  {BallotOf(b) : b \in RecordVote(k, p, v, now)} = Timed!BallotsWith(k, p, v)
<1> DEFINE new == NewVote(k, p, v, now)
<1> DEFINE kept == {b \in votes : ~(b.key = k /\ b.party = p)}
<1>1. BallotOf(new) = [key |-> k, party |-> p, value |-> v, at |-> now]
  BY DEF BallotOf, NewVote
<1>2. \A b : BallotOf(b).key = b.key /\ BallotOf(b).party = b.party
  BY DEF BallotOf
<1>3. {BallotOf(b) : b \in kept}
        = {e \in {BallotOf(b) : b \in votes} : ~(e.key = k /\ e.party = p)}
  BY <1>2
<1>4. {BallotOf(b) : b \in RecordVote(k, p, v, now)}
        = {BallotOf(b) : b \in kept} \cup {BallotOf(new)}
  BY DEF RecordVote
<1>5. QED
  BY <1>1, <1>3, <1>4 DEF Timed!BallotsWith

\* The tally of the votes is the number of ballots, so the winners are the
\* values with a quorum of ballots.
LEMMA WinnersRefine ==
  ASSUME RefInv, NEW k \in Keys, NEW p \in Parties, NEW v \in Values, NEW w \in Values
  PROVE  w \in Winners(voting, RecordVote(k, p, v, now), k)
           <=> Timed!HasQuorum(Timed!BallotsWith(k, p, v), k, w)
<1> DEFINE bs == RecordVote(k, p, v, now)
<1> DEFINE cast == {b \in VotesFor(bs, k) : b.value = w}
<1> DEFINE es == {BallotOf(b) : b \in bs}
<1>1. \A b \in bs : b \in VoteEntry /\ b.time = TruncateToSecond(b.at)
  <2>1. \A b \in votes : b \in VoteEntry /\ b.time = TruncateToSecond(b.at)
    BY DEF RefInv, IndInv, TypeOK, StoredTimes
  <2>2. NewVote(k, p, v, now) \in VoteEntry
    BY NewVoteType DEF RefInv, IndInv, TypeOK
  <2>3. NewVote(k, p, v, now).time = TruncateToSecond(NewVote(k, p, v, now).at)
    BY DEF NewVote
  <2>4. QED
    BY <2>1, <2>2, <2>3 DEF RecordVote
<1>2. \A b, c \in bs : BallotOf(b) = BallotOf(c) => b = c
  BY <1>1, BallotOfInjective
<1>3. cast \in SUBSET bs /\ IsFiniteSet(cast)
  <2>1. IsFiniteSet(bs)
    BY RecordVoteFinite DEF RefInv
  <2>2. cast \in SUBSET bs
    BY DEF VotesFor
  <2>3. QED
    BY <2>1, <2>2, FS_Subset
<1>4. Cardinality({BallotOf(b) : b \in cast}) = Cardinality(cast)
  BY <1>2, <1>3, CardinalityOfBallots
<1>5. \A b : BallotOf(b).key = b.key /\ BallotOf(b).value = b.value
  BY DEF BallotOf
<1>6. {BallotOf(b) : b \in cast} = {e \in es : e.key = k /\ e.value = w}
  BY <1>5 DEF VotesFor
<1>7. (\E b \in VotesFor(bs, k) : b.value = w) <=> (\E e \in es : e.key = k /\ e.value = w)
  BY <1>5 DEF VotesFor
<1>8. \A X : Timed!Cardinality(X) = Cardinality(X)
  BY Zenon DEF Timed!Cardinality, Cardinality
<1>9. Timed!HasQuorum(es, k, w) <=> w \in Winners(voting, bs, k)
  BY <1>4, <1>6, <1>7, <1>8 DEF Timed!HasQuorum, Winners, Tally
<1>10. QED
  BY <1>9, RecordVoteRefines

\* Entering a winner in the pending queue is scheduling it.
LEMMA EnqueueRefines ==
  ASSUME RefInv, NEW k \in Keys, NEW w \in Values, NEW admitted,
         Enqueue(k, w, now, admitted)
  PROVE  Timed!Schedule(k, w)
<1> DEFINE S == {ChangeOf(c) : c \in pending}
<1> DEFINE change == [key |-> k, time |-> TruncateToSecond(now), value |-> w, at |-> now]
<1>1. \A c : ChangeOf(c).key = c.key /\ ChangeOf(c).value = c.value
  BY DEF ChangeOf
<1>2. {ChangeOf(c) : c \in pending}' = {ChangeOf(c) : c \in pending'}
  BY DEF ChangeOf
<1>3. (\E c \in PendingFor(k) : c.value = w) <=> (\E e \in S : e.key = k /\ e.value = w)
  BY <1>1 DEF PendingFor
<1>4. CASE (\E c \in PendingFor(k) : c.value = w) /\ pending' = pending
  BY <1>2, <1>3, <1>4 DEF Timed!Schedule
<1>5. CASE /\ \A c \in PendingFor(k) : c.value # w
           /\ pending' = (pending \ PendingFor(k))
                           \cup (IF w \in admitted THEN {change} ELSE {})
  <2>1. {ChangeOf(c) : c \in pending \ PendingFor(k)} = {e \in S : e.key # k}
    BY <1>1 DEF PendingFor
  <2>2. ChangeOf(change) = [key |-> k, value |-> w, at |-> now]
    BY DEF ChangeOf
  <2>3. \/ {ChangeOf(c) : c \in pending'} = {e \in S : e.key # k}
        \/ {ChangeOf(c) : c \in pending'}
             = {e \in S : e.key # k} \cup {[key |-> k, value |-> w, at |-> now]}
    <3>1. CASE w \in admitted
      <4>1. {ChangeOf(c) : c \in pending'}
              = {ChangeOf(c) : c \in pending \ PendingFor(k)} \cup {ChangeOf(change)}
        BY <1>5, <3>1
      <4>2. QED
        BY <2>1, <2>2, <4>1
    <3>2. CASE w \notin admitted
      BY <1>5, <2>1, <3>2
    <3>3. QED
      BY <3>1, <3>2
  <2>4. QED
    BY <1>2, <1>3, <1>5, <2>3 DEF Timed!Schedule
<1>6. QED
  BY <1>4, <1>5 DEF Enqueue

\* Casting a vote is delivering a ballot.
LEMMA DeliverVoteRefines ==
  ASSUME RefInv, NEW k \in Keys, NEW p \in Parties, NEW v \in Values,
         NEW admitted, DeliverVote(k, p, v, admitted)
  PROVE  Timed!DeliverVote(k, p, v)
<1> DEFINE bs == RecordVote(k, p, v, now)
<1> DEFINE es == Timed!BallotsWith(k, p, v)
<1>1. Cast(voting, k, p, v, now, admitted)
      /\ phase = "delivering" /\ UNCHANGED <<voting, now, phase>>
  BY DEF DeliverVote
<1>2. {BallotOf(b) : b \in votes}' = {BallotOf(b) : b \in votes'}
  BY DEF BallotOf
<1>3. {BallotOf(b) : b \in bs} = es
  BY RecordVoteRefines
<1>4. \A w \in Values : w \in Winners(voting, bs, k) <=> Timed!HasQuorum(es, k, w)
  BY WinnersRefine
<1>5. CASE /\ Winners(voting, bs, k) = {} /\ votes' = bs
           /\ UNCHANGED <<pending, pendingByTime>>
  <2>1. {BallotOf(b) : b \in votes}' = es
    BY <1>2, <1>3, <1>5
  <2>2. {ChangeOf(c) : c \in pending}' = {ChangeOf(c) : c \in pending}
    BY <1>5 DEF ChangeOf
  <2>3. \A w \in Values : ~Timed!HasQuorum(es, k, w)
    BY <1>4, <1>5
  <2>4. QED
    BY <1>1, <2>1, <2>2, <2>3 DEF Timed!DeliverVote
<1>6. CASE \E w \in Winners(voting, bs, k) :
             /\ votes' = bs \ VotesFor(bs, k)
             /\ Enqueue(k, w, now, admitted)
  <2>1. PICK w \in Winners(voting, bs, k) :
               votes' = bs \ VotesFor(bs, k) /\ Enqueue(k, w, now, admitted)
    BY <1>6
  <2>2. w \in Values /\ Timed!HasQuorum(es, k, w)
    BY <1>4 DEF Winners
  <2>3. Timed!Schedule(k, w)
    BY <2>1, <2>2, EnqueueRefines
  <2>4. \A b : BallotOf(b).key = b.key
    BY DEF BallotOf
  <2>5. {BallotOf(b) : b \in bs \ VotesFor(bs, k)} = {e \in {BallotOf(b) : b \in bs} : e.key # k}
    BY <2>4 DEF VotesFor
  <2>6. {BallotOf(b) : b \in votes}' = {e \in es : e.key # k}
    BY <1>2, <1>3, <2>1, <2>5
  <2>7. QED
    BY <1>1, <2>2, <2>3, <2>6 DEF Timed!DeliverVote
<1>7. QED
  BY <1>1, <1>5, <1>6 DEF Cast

\* Initial states map to initial states.
LEMMA InitRefines == Init => Timed!Init
  BY DEF Init, Timed!Init

\* Every step maps to a step or a stutter.
LEMMA NextRefines == RefInv /\ [Next]_vars => [Timed!Next]_(Timed!vars)
<1> SUFFICES ASSUME RefInv, [Next]_vars
             PROVE  [Timed!Next]_(Timed!vars)
  OBVIOUS
<1>1. ASSUME NEW t \in 1..MaxTime, BeginBlock(t)
      PROVE  Timed!Next
  BY <1>1, BeginBlockRefines DEF Timed!Next
<1>2. ASSUME NEW k \in Keys, NEW p \in Parties, NEW v \in Values,
             NEW admitted \in SUBSET Values, DeliverVote(k, p, v, admitted)
      PROVE  Timed!Next
  BY <1>2, DeliverVoteRefines DEF Timed!Next
<1>3. ASSUME NEW next \in VotingConfigs, NEW config \in {voting, next},
             EndBlock(config, next)
      PROVE  Timed!Next
  BY <1>3, EndBlockRefines DEF Timed!Next
<1>4. CASE UNCHANGED vars
  BY <1>4 DEF vars, queue, Timed!vars, BallotOf, ChangeOf
<1>5. QED
  BY <1>1, <1>2, <1>3, <1>4 DEF Next

\* The queue implements TimedVoting, whatever keys, parties, values, configs
\* and resolution of time: stale index entries take no live vote with them, and
\* votes expire and changes become due at most a second early and never late.
THEOREM QueueImplementsTimedVoting == Spec => ImplementsTimedVoting
  BY RefInvInit, RefInvStep, InitRefines, NextRefines, PTL
  DEF Spec, Timed!Spec, ImplementsTimedVoting

=============================================================================
