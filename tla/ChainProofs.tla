---------------------------- MODULE ChainProofs ----------------------------
(***************************************************************************)
(* Proofs about Chain, for every set of names, zones, hashes, identities   *)
(* and configs.  The two vote queues are instances of VoteQueue; what      *)
(* VoteQueueProofs proves about every vote queue is instantiated for them. *)
(***************************************************************************)
EXTENDS Chain, FiniteSetTheorems, TLAPS

AdminQ == INSTANCE VoteQueueProofs WITH
  Keys <- {Empty}, Parties <- Identities, Values <- Proposals,
  VotingConfigs <- {c.admins.voting : c \in Configs},
  votes <- adminVotes, votesByTime <- adminVotesByTime,
  pending <- adminPending, pendingByTime <- adminPendingByTime,
  voting <- config.admins.voting

OracleQ == INSTANCE VoteQueueProofs WITH
  Keys <- Domains, Parties <- Identities, Values <- OracleVoteValues,
  VotingConfigs <- {c.oracles.voting : c \in Configs},
  votes <- oracleVotes, votesByTime <- oracleVotesByTime,
  pending <- oraclePending, pendingByTime <- oraclePendingByTime,
  voting <- config.oracles.voting

----------------------------------------------------------------------------
(* The instances of the specification and of its proofs are the same.      *)

\* A step of the admin queue.
LEMMA AdminSame ==
  /\ Admin!Init <=> AdminQ!Init
  /\ [Admin!Next]_(Admin!vars) <=> [AdminQ!Next]_(AdminQ!vars)
  /\ Admin!TypeOK <=> AdminQ!TypeOK
<1>1. Admin!Init <=> AdminQ!Init
  BY DEF Admin!Init, AdminQ!Init
<1>2. Admin!Next <=> AdminQ!Next
  BY DEF Admin!Next, Admin!BeginBlock, Admin!DeliverVote, Admin!EndBlock,
         Admin!TimeoutExpiredVotes, Admin!PromotePendingChanges, Admin!Ripe,
         Admin!Cast, Admin!Winners, Admin!RecordVote, Admin!NewVote,
         Admin!VoteIndexKey, Admin!Enqueue, Admin!PendingFor, Admin!Tally,
         Admin!VotesFor, Admin!TakeWhileOld, Admin!Elapsed, Admin!TruncateToSecond,
         Admin!Cardinality, Admin!IsFiniteSet, AdminQ!Next, AdminQ!BeginBlock,
         AdminQ!DeliverVote, AdminQ!EndBlock, AdminQ!TimeoutExpiredVotes,
         AdminQ!PromotePendingChanges, AdminQ!Ripe, AdminQ!Cast, AdminQ!Winners,
         AdminQ!RecordVote, AdminQ!NewVote, AdminQ!VoteIndexKey, AdminQ!Enqueue,
         AdminQ!PendingFor, AdminQ!Tally, AdminQ!VotesFor, AdminQ!TakeWhileOld,
         AdminQ!Elapsed, AdminQ!TruncateToSecond, AdminQ!Cardinality,
         AdminQ!IsFiniteSet
<1>3. [Admin!Next]_(Admin!vars) <=> [AdminQ!Next]_(AdminQ!vars)
  BY <1>2 DEF Admin!vars, AdminQ!vars, Admin!queue, AdminQ!queue
<1>4. Admin!TypeOK <=> AdminQ!TypeOK
  BY DEF Admin!TypeOK, AdminQ!TypeOK, Admin!VoteEntry, AdminQ!VoteEntry,
         Admin!VoteIndexEntry, AdminQ!VoteIndexEntry, Admin!PendingEntry,
         AdminQ!PendingEntry
<1>5. QED
  BY <1>1, <1>3, <1>4

\* A step of the oracle queue.
LEMMA OracleSame ==
  /\ Oracle!Init <=> OracleQ!Init
  /\ [Oracle!Next]_(Oracle!vars) <=> [OracleQ!Next]_(OracleQ!vars)
  /\ Oracle!TypeOK <=> OracleQ!TypeOK
<1>1. Oracle!Init <=> OracleQ!Init
  BY DEF Oracle!Init, OracleQ!Init
<1>2. Oracle!Next <=> OracleQ!Next
  BY DEF Oracle!Next, Oracle!BeginBlock, Oracle!DeliverVote, Oracle!EndBlock,
         Oracle!TimeoutExpiredVotes, Oracle!PromotePendingChanges, Oracle!Ripe,
         Oracle!Cast, Oracle!Winners, Oracle!RecordVote, Oracle!NewVote,
         Oracle!VoteIndexKey, Oracle!Enqueue, Oracle!PendingFor, Oracle!Tally,
         Oracle!VotesFor, Oracle!TakeWhileOld, Oracle!Elapsed,
         Oracle!TruncateToSecond, Oracle!Cardinality, Oracle!IsFiniteSet,
         OracleQ!Next, OracleQ!BeginBlock, OracleQ!DeliverVote, OracleQ!EndBlock,
         OracleQ!TimeoutExpiredVotes, OracleQ!PromotePendingChanges, OracleQ!Ripe,
         OracleQ!Cast, OracleQ!Winners, OracleQ!RecordVote, OracleQ!NewVote,
         OracleQ!VoteIndexKey, OracleQ!Enqueue, OracleQ!PendingFor, OracleQ!Tally,
         OracleQ!VotesFor, OracleQ!TakeWhileOld, OracleQ!Elapsed,
         OracleQ!TruncateToSecond, OracleQ!Cardinality, OracleQ!IsFiniteSet
<1>3. [Oracle!Next]_(Oracle!vars) <=> [OracleQ!Next]_(OracleQ!vars)
  BY <1>2 DEF Oracle!vars, OracleQ!vars, Oracle!queue, OracleQ!queue
<1>4. Oracle!TypeOK <=> OracleQ!TypeOK
  BY DEF Oracle!TypeOK, OracleQ!TypeOK, Oracle!VoteEntry, OracleQ!VoteEntry,
         Oracle!VoteIndexEntry, OracleQ!VoteIndexEntry, Oracle!PendingEntry,
         OracleQ!PendingEntry
<1>5. QED
  BY <1>1, <1>3, <1>4

\* What the vote queue assumes of its constants holds in both instances.
LEMMA QueueAssumptions ==
  /\ TicksPerSecond \in Nat \ {0} /\ MaxTime \in Nat
  /\ {c.admins.voting : c \in Configs} \subseteq [quorum : Nat, timeout : Nat, delay : Nat]
  /\ {c.oracles.voting : c \in Configs} \subseteq [quorum : Nat, timeout : Nat, delay : Nat]
  BY TimeAssumption, ConfigsAssumption DEF VotingType

\* The queues' invariant, established by their own proofs.
LEMMA QueueInvariants ==
  /\ AdminQ!Init => AdminQ!RefInv
  /\ AdminQ!RefInv /\ [AdminQ!Next]_(AdminQ!vars) => AdminQ!RefInv'
  /\ OracleQ!Init => OracleQ!RefInv
  /\ OracleQ!RefInv /\ [OracleQ!Next]_(OracleQ!vars) => OracleQ!RefInv'
<1>1. /\ AdminQ!Init => AdminQ!RefInv
      /\ AdminQ!RefInv /\ [AdminQ!Next]_(AdminQ!vars) => AdminQ!RefInv'
  BY QueueAssumptions, AdminQ!RefInvInit, AdminQ!RefInvStep
<1>2. /\ OracleQ!Init => OracleQ!RefInv
      /\ OracleQ!RefInv /\ [OracleQ!Next]_(OracleQ!vars) => OracleQ!RefInv'
  BY QueueAssumptions, OracleQ!RefInvInit, OracleQ!RefInvStep
<1>3. QED
  BY <1>1, <1>2

\* What the invariant says of the changes and votes of the admin queue.
LEMMA AdminFacts ==
  ASSUME AdminQ!RefInv
  PROVE  /\ adminPendingByTime = adminPending
         /\ adminPending \subseteq [key : {Empty}, time : Nat, value : Proposals, at : Nat]
         /\ \A c, d \in adminPending : c = d
         /\ adminVotes \subseteq [key : {Empty}, party : Identities, time : Nat,
                                  value : Proposals, at : Nat]
         /\ now \in Nat /\ phase \in {"idle", "delivering"}
<1>1. /\ adminPending \subseteq [key : {Empty}, time : Nat, value : Proposals, at : Nat]
      /\ adminVotes \subseteq [key : {Empty}, party : Identities, time : Nat,
                               value : Proposals, at : Nat]
      /\ now \in Nat /\ phase \in {"idle", "delivering"}
  BY DEF AdminQ!RefInv, AdminQ!IndInv, AdminQ!TypeOK, AdminQ!PendingEntry, AdminQ!VoteEntry
<1>2. /\ adminPendingByTime = adminPending
      /\ \A c, d \in adminPending : c.key = d.key => c = d
  BY DEF AdminQ!RefInv, AdminQ!IndInv, AdminQ!InStep, AdminQ!PendingInStep
<1>3. QED
  BY <1>1, <1>2

\* What it says of the oracle queue.
LEMMA OracleFacts ==
  ASSUME OracleQ!RefInv
  PROVE  /\ oraclePendingByTime = oraclePending
         /\ oraclePending \subseteq [key : Domains, time : Nat, value : OracleVoteValues, at : Nat]
         /\ \A c, d \in oraclePending : c.key = d.key => c = d
         /\ oracleVotes \subseteq [key : Domains, party : Identities, time : Nat,
                                   value : OracleVoteValues, at : Nat]
         /\ \A c \in oraclePending : /\ c.time <= c.at /\ c.at < c.time + TicksPerSecond
                                     /\ c.at <= now
<1>1. /\ oraclePending \subseteq [key : Domains, time : Nat, value : OracleVoteValues, at : Nat]
      /\ oracleVotes \subseteq [key : Domains, party : Identities, time : Nat,
                                value : OracleVoteValues, at : Nat]
  BY DEF OracleQ!RefInv, OracleQ!IndInv, OracleQ!TypeOK, OracleQ!PendingEntry,
         OracleQ!VoteEntry
<1>2. /\ oraclePendingByTime = oraclePending
      /\ \A c, d \in oraclePending : c.key = d.key => c = d
  BY DEF OracleQ!RefInv, OracleQ!IndInv, OracleQ!InStep, OracleQ!PendingInStep
<1>3. ASSUME NEW c \in oraclePending
      PROVE  c.time <= c.at /\ c.at < c.time + TicksPerSecond /\ c.at <= now
  <2>1. c.at \in Nat /\ c.time = OracleQ!TruncateToSecond(c.at) /\ c.at <= now
    BY <1>1 DEF OracleQ!RefInv, OracleQ!StoredTimes
  <2>2. QED
    BY <2>1, QueueAssumptions, OracleQ!TruncateBounds
<1>4. QED
  BY <1>1, <1>2, <1>3

----------------------------------------------------------------------------
(* Blocks, and the queues inside them.                                     *)

\* Blocks are numbered from 1 and have times that grow; the app hash of every
\* block but the newest is recorded, one below its height.
BlocksInv ==
  /\ height \in Nat /\ blockTimes \in Seq(Nat) /\ Len(blockTimes) = height
  /\ \A h \in 1..height : blockTimes[h] <= now
  /\ height <= now /\ now <= MaxTime
  /\ DOMAIN appHashes = 0..(height - 2)
  /\ \A h \in 0..(height - 2) : appHashes[h] = h + 1

ChainInv ==
  /\ config \in Configs
  /\ canonical \in [Domains -> Hashes \cup {None}]
  /\ BlocksInv
  /\ AdminQ!RefInv /\ OracleQ!RefInv

\* A config that takes effect is one of those that were pending.
LEMMA AppliedWasPending ==
  ASSUME ChainInv, EndBlock
  PROVE  config' \in Configs
         /\ (config' = config \/ \E r \in adminPending : config' = r.value
                                   /\ r \in Admin!Ripe(config.admins.voting, now))
<1>1. ApplyConfigs(Admin!Ripe(config.admins.voting, now))
  BY DEF EndBlock
<1>2. Admin!Ripe(config.admins.voting, now) \subseteq adminPending
  BY AdminFacts DEF Admin!Ripe, Admin!TakeWhileOld, ChainInv
<1>3. \A r \in adminPending : r.value \in Configs
  BY AdminFacts DEF ChainInv, Configs
<1>4. QED
  BY <1>1, <1>2, <1>3 DEF ApplyConfigs, ChainInv

\* Every step of the chain is a step of the admin queue, or leaves it alone.
LEMMA StepOfAdminQueue == ChainInv /\ [Next]_vars => [Admin!Next]_(Admin!vars)
<1> SUFFICES ASSUME ChainInv, [Next]_vars
             PROVE  [Admin!Next]_(Admin!vars)
  OBVIOUS
<1>1. ASSUME NEW t \in 1..MaxTime, BeginBlock(t)
      PROVE  Admin!BeginBlock(t)
  BY <1>1 DEF BeginBlock, Admin!BeginBlock
<1>2. ASSUME NEW p \in Identities, NEW c \in Proposals, NEW w \in Windows,
             Reconfigure(p, c, w)
      PROVE  Admin!DeliverVote(Empty, p, c, Proposals)
  BY <1>2 DEF Reconfigure, Admin!DeliverVote
<1>3. ASSUME NEW p, NEW d, NEW z, NEW x, NEW h, NEW a, Observe(p, d, z, x, h, a)
      PROVE  UNCHANGED Admin!vars
  BY <1>3 DEF Observe, adminQueue, Admin!vars, Admin!queue
<1>4. ASSUME EndBlock
      PROVE  Admin!EndBlock(config.admins.voting, config'.admins.voting)
  BY <1>4 DEF EndBlock, Admin!EndBlock
<1>5. ASSUME EndBlock
      PROVE  config'.admins.voting \in {c.admins.voting : c \in Configs}
  BY <1>5, AppliedWasPending
<1>6. CASE UNCHANGED vars
  BY <1>6 DEF vars, adminQueue, Admin!vars, Admin!queue
<1>7. QED
  BY <1>1, <1>2, <1>3, <1>4, <1>5, <1>6 DEF Next, Admin!Next

\* Every step of the chain is a step of the oracle queue, or leaves it alone.
LEMMA StepOfOracleQueue == ChainInv /\ [Next]_vars => [Oracle!Next]_(Oracle!vars)
<1> SUFFICES ASSUME ChainInv, [Next]_vars
             PROVE  [Oracle!Next]_(Oracle!vars)
  OBVIOUS
<1>1. ASSUME NEW t \in 1..MaxTime, BeginBlock(t)
      PROVE  Oracle!BeginBlock(t)
  BY <1>1 DEF BeginBlock, Oracle!BeginBlock
<1>2. ASSUME NEW p, NEW c, NEW w, Reconfigure(p, c, w)
      PROVE  UNCHANGED Oracle!vars
  BY <1>2 DEF Reconfigure, oracleQueue, Oracle!vars, Oracle!queue
<1>3. ASSUME NEW p \in Identities, NEW d \in Domains, NEW z \in Zones,
             NEW x \in Hashes \cup {NotFound}, NEW h, NEW a, Observe(p, d, z, x, h, a)
      PROVE  /\ [hash |-> x, zone |-> z] \in OracleVoteValues
             /\ AdmittedToPending(d) \in SUBSET OracleVoteValues
             /\ Oracle!DeliverVote(d, p, [hash |-> x, zone |-> z], AdmittedToPending(d))
  <2>1. Oracle!DeliverVote(d, p, [hash |-> x, zone |-> z], AdmittedToPending(d))
    BY <1>3 DEF Observe, Oracle!DeliverVote
  <2>2. QED
    BY <2>1 DEF OracleVoteValues, AdmittedToPending
<1>4. ASSUME EndBlock
      PROVE  Oracle!EndBlock(config'.oracles.voting, config'.oracles.voting)
  BY <1>4 DEF EndBlock, Oracle!EndBlock
<1>5. ASSUME EndBlock
      PROVE  config'.oracles.voting \in {c.oracles.voting : c \in Configs}
  BY <1>5, AppliedWasPending
<1>6. CASE UNCHANGED vars
  BY <1>6 DEF vars, oracleQueue, Oracle!vars, Oracle!queue
<1>7. ASSUME NEW t \in 1..MaxTime, BeginBlock(t)
      PROVE  Oracle!Next
  BY <1>1, <1>7 DEF Oracle!Next
<1>8. ASSUME NEW p \in Identities, NEW d \in Domains, NEW z \in Zones,
             NEW x \in Hashes \cup {NotFound}, NEW h, NEW a, Observe(p, d, z, x, h, a)
      PROVE  Oracle!Next
  BY <1>3, <1>8 DEF Oracle!Next
<1>9. ASSUME EndBlock
      PROVE  Oracle!Next
  BY <1>4, <1>5, <1>9 DEF Oracle!Next
<1>10. ZonesOf \in [Domains -> SUBSET Zones]
  BY NamesAssumption
<1>11. QED
  BY <1>2, <1>6, <1>7, <1>8, <1>9, <1>10 DEF Next

\* A new block is appended to the record, and the hash of the one before it.
LEMMA BeginBlockRecords ==
  ASSUME BlocksInv, now \in Nat, NEW t \in 1..MaxTime, BeginBlock(t)
  PROVE  BlocksInv'
<1>1. /\ height' = height + 1 /\ now' = t /\ now < t /\ RecordAppHash
      /\ blockTimes' = Append(blockTimes, t)
  BY DEF BeginBlock
<1>2. height \in Nat /\ t \in Nat /\ t <= MaxTime /\ MaxTime \in Nat
  BY TimeAssumption DEF BlocksInv
<1>3. blockTimes' \in Seq(Nat) /\ Len(blockTimes') = height + 1
      /\ \A h \in 1..(height + 1) : blockTimes'[h] = IF h = height + 1 THEN t ELSE blockTimes[h]
  BY <1>1, <1>2 DEF BlocksInv
<1>4. \A h \in 1..height' : blockTimes'[h] <= now'
  <2> SUFFICES ASSUME NEW h \in 1..(height + 1)
               PROVE  blockTimes'[h] <= t
    BY <1>1
  <2>1. CASE h = height + 1
    BY <1>2, <1>3, <2>1
  <2>2. CASE h \in 1..height
    <3>1. blockTimes[h] \in Nat /\ blockTimes[h] <= now /\ blockTimes'[h] = blockTimes[h]
      BY <1>2, <1>3, <2>2 DEF BlocksInv
    <3>2. QED
      BY <1>1, <1>2, <3>1
  <2>3. QED
    BY <1>2, <2>1, <2>2
<1>5. DOMAIN appHashes' = 0..(height' - 2)
  <2>1. DOMAIN appHashes' = DOMAIN appHashes \cup ({height - 1} \cap Nat)
    BY <1>1 DEF RecordAppHash
  <2>2. 0..(height - 2) \cup ({height - 1} \cap Nat) = 0..(height + 1 - 2)
    BY <1>2
  <2>3. QED
    BY <1>1, <2>1, <2>2 DEF BlocksInv
<1>6. \A h \in 0..(height' - 2) : appHashes'[h] = h + 1
  <2> SUFFICES ASSUME NEW h \in 0..(height' - 2)
               PROVE  appHashes'[h] = h + 1
    OBVIOUS
  <2>1. appHashes'[h] = IF h = height - 1 THEN height ELSE appHashes[h]
    BY <1>1, <1>5 DEF RecordAppHash
  <2>2. QED
    BY <1>1, <1>2, <2>1 DEF BlocksInv
<1>7. QED
  BY <1>1, <1>2, <1>3, <1>4, <1>5, <1>6 DEF BlocksInv

\* A canonical entry is a hash or none.
LEMMA CanonicalType ==
  ASSUME ChainInv, EndBlock
  PROVE  canonical' \in [Domains -> Hashes \cup {None}]
<1> DEFINE ripe == Oracle!Ripe(config'.oracles.voting, now)
<1>1. UpdateCanonical(ripe) /\ ripe \subseteq oraclePending
  BY OracleFacts DEF EndBlock, ChainInv, Oracle!Ripe, Oracle!TakeWhileOld
<1>2. \A r \in ripe : r.value.hash \in Hashes \cup {NotFound}
  BY <1>1, OracleFacts DEF ChainInv, OracleVoteValues
<1> HIDE DEF ripe
<1>3. ASSUME NEW d \in Domains, ~(\A r \in ripe : r.key # d)
      PROVE  (CHOOSE r \in ripe : r.key = d) \in ripe
  BY <1>3
<1>4. QED
  BY <1>1, <1>2, <1>3 DEF UpdateCanonical, ChainInv

\* The chain starts with empty queues and no blocks.
LEMMA ChainInit == Init => ChainInv
<1> SUFFICES ASSUME Init
             PROVE  ChainInv
  OBVIOUS
<1>1. config \in Configs /\ canonical \in [Domains -> Hashes \cup {None}]
  BY DEF Init, Configs
<1>2. BlocksInv
  BY TimeAssumption DEF Init, BlocksInv
<1>3. Admin!Init /\ Oracle!Init
  BY <1>1 DEF Init, Admin!Init, Oracle!Init
<1>4. AdminQ!RefInv /\ OracleQ!RefInv
  BY <1>3, AdminSame, OracleSame, QueueInvariants
<1>5. QED
  BY <1>1, <1>2, <1>4 DEF ChainInv

\* Every step of the chain keeps its invariant.
LEMMA ChainStep == ChainInv /\ [Next]_vars => ChainInv'
<1> SUFFICES ASSUME ChainInv, [Next]_vars
             PROVE  ChainInv'
  OBVIOUS
<1>1. AdminQ!RefInv' /\ OracleQ!RefInv'
  BY StepOfAdminQueue, StepOfOracleQueue, AdminSame, OracleSame, QueueInvariants
  DEF ChainInv
<1>2. ASSUME UNCHANGED <<config, canonical, height, blockTimes, appHashes, now>>
      PROVE  ChainInv'
  BY <1>1, <1>2 DEF ChainInv, BlocksInv
<1>3. ASSUME NEW t \in 1..MaxTime, BeginBlock(t)
      PROVE  ChainInv'
  <2>1. BlocksInv'
    BY <1>3, BeginBlockRecords, AdminFacts DEF ChainInv
  <2>2. QED
    BY <1>1, <1>3, <2>1 DEF ChainInv, BeginBlock
<1>4. ASSUME NEW p, NEW c, NEW w, Reconfigure(p, c, w)
      PROVE  ChainInv'
  BY <1>2, <1>4 DEF Reconfigure
<1>5. ASSUME NEW p, NEW d, NEW z, NEW x, NEW h, NEW a, Observe(p, d, z, x, h, a)
      PROVE  ChainInv'
  BY <1>2, <1>5 DEF Observe
<1>6. ASSUME EndBlock
      PROVE  ChainInv'
  <2>1. BlocksInv'
    BY <1>6 DEF EndBlock, ChainInv, BlocksInv
  <2>2. QED
    BY <1>1, <1>6, <2>1, AppliedWasPending, CanonicalType DEF ChainInv
<1>7. CASE UNCHANGED vars
  BY <1>2, <1>7 DEF vars
<1>8. QED
  BY <1>3, <1>4, <1>5, <1>6, <1>7 DEF Next

\* The invariant of the chain holds in every reachable state.
THEOREM ChainInvariant == Spec => []ChainInv
  BY ChainInit, ChainStep, PTL DEF Spec

\* Every variable of the chain, and of its queues, always holds values of its type.
THEOREM ChainTypeCorrect == Spec => []TypeOK
<1>1. ChainInv => TypeOK
  <2> SUFFICES ASSUME ChainInv
               PROVE  TypeOK
    OBVIOUS
  <2>1. Admin!TypeOK /\ Oracle!TypeOK
    BY AdminSame, OracleSame DEF ChainInv, AdminQ!RefInv, AdminQ!IndInv,
                                 OracleQ!RefInv, OracleQ!IndInv
  <2>2. \A h \in DOMAIN appHashes : appHashes[h] \in 1..height
    BY DEF ChainInv, BlocksInv
  <2>3. QED
    BY <2>1, <2>2 DEF ChainInv, BlocksInv, TypeOK
<1>2. QED
  BY <1>1, ChainInvariant, PTL

\* The two queues, interleaved by blocks and reconfigured by the chain, keep to the
\* specification of a vote queue: everything proved of vote queues holds of both.
THEOREM AdminQueueKeepsSpec == Spec => AdminQueueSpec
<1>1. Init => Admin!Init
  BY DEF Init, Admin!Init, Configs
<1>2. QED
  BY <1>1, ChainInvariant, StepOfAdminQueue, PTL DEF Spec, Admin!Spec, AdminQueueSpec

\* The oracle queue too, although it is promoted under the config that the same
\* block's reconfiguration has just put in force.
THEOREM OracleQueueKeepsSpec == Spec => OracleQueueSpec
<1>1. Init => Oracle!Init
  BY DEF Init, Oracle!Init, Configs
<1>2. QED
  BY <1>1, ChainInvariant, StepOfOracleQueue, PTL DEF Spec, Oracle!Spec, OracleQueueSpec

\* So both implement TimedVoting: in the middle of a chain that reconfigures them, no
\* vote counts after its timeout and no change is applied before its delay or more
\* than a block after it, but for the second that stored times are truncated by.
THEOREM QueuesImplementTimedVoting ==
  Spec => AdminQ!ImplementsTimedVoting /\ OracleQ!ImplementsTimedVoting
<1>1. Init => AdminQ!Init /\ OracleQ!Init
  BY AdminSame, OracleSame DEF Init, Admin!Init, Oracle!Init, Configs
<1>2. AdminQ!Init => AdminQ!Timed!Init
  BY AdminQ!InitRefines, QueueAssumptions
<1>3. ChainInv /\ [Next]_vars => [AdminQ!Timed!Next]_(AdminQ!Timed!vars)
  BY AdminQ!NextRefines, QueueAssumptions, StepOfAdminQueue, AdminSame DEF ChainInv
<1>4. OracleQ!Init => OracleQ!Timed!Init
  BY OracleQ!InitRefines, QueueAssumptions
<1>5. ChainInv /\ [Next]_vars => [OracleQ!Timed!Next]_(OracleQ!Timed!vars)
  BY OracleQ!NextRefines, QueueAssumptions, StepOfOracleQueue, OracleSame DEF ChainInv
<1>6. QED
  BY <1>1, <1>2, <1>3, <1>4, <1>5, ChainInvariant, PTL
  DEF Spec, AdminQ!ImplementsTimedVoting, OracleQ!ImplementsTimedVoting,
      AdminQ!Timed!Spec, OracleQ!Timed!Spec

----------------------------------------------------------------------------
(* Blockstamps and the delay of observations.                              *)

\* An accepted blockstamp names an earlier block with the app hash it produced.
LEMMA BlockstampOfEarlierBlock ==
  ASSUME ChainInv, NEW h \in Nat, NEW a, BlockstampAccepted(h, a)
  PROVE  1 <= h /\ h < height /\ a = h
<1>1. h \in 1..height
  BY DEF ChainInv, BlocksInv, BlockstampAccepted
<1>2. h - 1 \in 0..(height - 2) /\ appHashes[h - 1] = a
  BY <1>1 DEF ChainInv, BlocksInv, BlockstampAccepted
<1>3. QED
  BY <1>1, <1>2 DEF ChainInv, BlocksInv

\* The converse, for as long as the block is not too old: hashes and times of
\* blocks, once recorded, stay.
LEMMA BlockstampStaysValid ==
  ASSUME ChainInv, NEW h \in 1..(height - 1),
         ~(now - blockTimes[h] >= config.oracles.observation_timeout)
  PROVE  BlockstampAccepted(h, h)
<1>1. h \in Nat /\ h # 0 /\ h <= height /\ h \in DOMAIN blockTimes
  BY DEF ChainInv, BlocksInv
<1>2. blockTimes[h] \in Nat /\ blockTimes[h] <= now
  BY <1>1 DEF ChainInv, BlocksInv
<1>3. h - 1 \in DOMAIN appHashes /\ appHashes[h - 1] = h
  BY DEF ChainInv, BlocksInv
<1>4. now \in Nat /\ config.oracles.observation_timeout \in Nat
  BY AdminFacts, ConfigsAssumption DEF ChainInv
<1>5. QED
  BY <1>1, <1>2, <1>3, <1>4 DEF BlockstampAccepted

\* An observation can only carry a blockstamp of an earlier block, with the app
\* hash that block really produced.
THEOREM BlockstampsAreSound == Spec => []BlockstampSound
<1>1. ChainInv => BlockstampSound
  <2> SUFFICES ASSUME ChainInv, NEW h \in 0..MaxTime, NEW a \in 0..MaxTime,
                      BlockstampAccepted(h, a)
               PROVE  /\ 1 <= h /\ h < height /\ a = h
                      /\ now - blockTimes[h] < config.oracles.observation_timeout
    BY DEF BlockstampSound
  <2>1. h \in Nat
    BY TimeAssumption
  <2>2. QED
    BY <2>1, BlockstampOfEarlierBlock DEF BlockstampAccepted
<1>2. QED
  BY <1>1, ChainInvariant, PTL

\* An observation that is promoted has waited for its delay, but for the second
\* that its stored time is truncated by.
LEMMA RipeIsOld ==
  ASSUME ChainInv, NEW voting \in VotingType, NEW r \in Oracle!Ripe(voting, now)
  PROVE  r \in oraclePending /\ now - r.at + TicksPerSecond > voting.delay
<1>1. r \in oraclePending
  BY OracleFacts DEF ChainInv, Oracle!Ripe, Oracle!TakeWhileOld
<1>2. /\ r.time \in Nat /\ r.at \in Nat /\ now \in Nat
      /\ r.time <= r.at /\ r.at < r.time + TicksPerSecond /\ r.at <= now
  BY <1>1, OracleFacts, AdminFacts DEF ChainInv
<1>3. Oracle!Elapsed(now, r.time) >= voting.delay
  BY <1>1, <1>2, OracleFacts DEF ChainInv, Oracle!Ripe, Oracle!TakeWhileOld
<1>4. now - r.time >= voting.delay
  BY <1>2, <1>3 DEF Oracle!Elapsed
<1>5. voting.delay \in Nat /\ TicksPerSecond \in Nat
  BY TimeAssumption DEF VotingType
<1>6. QED
  BY <1>1, <1>2, <1>4, <1>5

\* Canonical entries change only at the end of a block, only to what was publicly
\* pending for the name, and only after the delay that is in force by then.
THEOREM CanonicalChangesAfterDelay == Spec => CanonicalOnlyAfterDelay
<1> DEFINE Delayed ==
      \A d \in Domains : canonical'[d] # canonical[d] =>
        \E c \in oraclePending :
          /\ c.key = d
          /\ canonical'[d] = IF c.value.hash = NotFound THEN None ELSE c.value.hash
          /\ now - c.at + TicksPerSecond > config'.oracles.voting.delay
<1>1. ChainInv /\ [Next]_vars => [Delayed]_vars
  <2> SUFFICES ASSUME ChainInv, [Next]_vars, NEW d \in Domains,
                      canonical'[d] # canonical[d]
               PROVE  \E c \in oraclePending :
                        /\ c.key = d
                        /\ canonical'[d] = IF c.value.hash = NotFound THEN None
                                           ELSE c.value.hash
                        /\ now - c.at + TicksPerSecond > config'.oracles.voting.delay
    OBVIOUS
  <2>1. EndBlock
    BY DEF Next, BeginBlock, Reconfigure, Observe, vars
  <2> DEFINE ripe == Oracle!Ripe(config'.oracles.voting, now)
  <2>2. UpdateCanonical(ripe)
    BY <2>1 DEF EndBlock
  <2>3. config'.oracles.voting \in VotingType
    BY <2>1, AppliedWasPending, ConfigsAssumption
  <2>4. \A r \in ripe : r \in oraclePending
                        /\ now - r.at + TicksPerSecond > config'.oracles.voting.delay
    BY <2>3, RipeIsOld
  <2> HIDE DEF ripe
  <2>5. \E r \in ripe : r.key = d
    BY <2>2 DEF UpdateCanonical
  <2> DEFINE c == CHOOSE r \in ripe : r.key = d
  <2>6. c \in ripe /\ c.key = d
    BY <2>5
  <2>7. canonical'[d] = IF c.value.hash = NotFound THEN None ELSE c.value.hash
    BY <2>2, <2>5 DEF UpdateCanonical
  <2>8. QED
    BY <2>4, <2>6, <2>7
<1>2. QED
  BY <1>1, ChainInvariant, PTL DEF Spec, CanonicalOnlyAfterDelay

----------------------------------------------------------------------------
(* Reconfigurations.                                                       *)

\* Casting a vote is the same in the instance of the specification and in that
\* of the proofs.
LEMMA AdminCastSame ==
  ASSUME NEW voting, NEW k, NEW p, NEW v, NEW t, NEW admitted
  PROVE  Admin!Cast(voting, k, p, v, t, admitted)
           <=> AdminQ!Cast(voting, k, p, v, t, admitted)
  BY DEF Admin!Cast, Admin!Winners, Admin!RecordVote, Admin!NewVote,
         Admin!VoteIndexKey, Admin!Enqueue, Admin!PendingFor, Admin!Tally,
         Admin!VotesFor, Admin!TruncateToSecond, Admin!Cardinality, Admin!IsFiniteSet,
         AdminQ!Cast, AdminQ!Winners, AdminQ!RecordVote, AdminQ!NewVote,
         AdminQ!VoteIndexKey, AdminQ!Enqueue, AdminQ!PendingFor, AdminQ!Tally,
         AdminQ!VotesFor, AdminQ!TruncateToSecond, AdminQ!Cardinality,
         AdminQ!IsFiniteSet

\* What a vote of an admin brings about.
LEMMA ReconfigureOutcome ==
  ASSUME ChainInv, NEW p \in Identities, NEW c \in Proposals, NEW window,
         Reconfigure(p, c, window)
  PROVE  /\ \A b \in adminVotes' : b \in adminVotes \/ b.value = c
         /\ \A e \in adminPending' :
              \/ e \in adminPending
              \/ e.value \in AdminQ!Winners(config.admins.voting,
                                AdminQ!RecordVote(Empty, p, c, now), Empty)
<1>1. AdminQ!Cast(config.admins.voting, Empty, p, c, now, Proposals)
  BY AdminCastSame DEF Reconfigure
<1>2. /\ adminVotes' \subseteq adminVotes \cup {AdminQ!NewVote(Empty, p, c, now)}
      /\ \/ adminPending' = adminPending
         \/ \E w \in AdminQ!Winners(config.admins.voting,
                       AdminQ!RecordVote(Empty, p, c, now), Empty) :
              adminPending' = (adminPending \ AdminQ!PendingFor(Empty)) \cup
                (IF w \in Proposals
                 THEN {[key |-> Empty, time |-> AdminQ!TruncateToSecond(now),
                        value |-> w, at |-> now]}
                 ELSE {})
  BY <1>1, QueueAssumptions, AdminQ!CastOutcome
<1>3. AdminQ!NewVote(Empty, p, c, now).value = c
  BY DEF AdminQ!NewVote
<1>4. QED
  BY <1>2, <1>3

\* The winner is one of the values that were voted for.
LEMMA WinnerHasVote ==
  ASSUME NEW p, NEW c, NEW w \in AdminQ!Winners(config.admins.voting,
                                   AdminQ!RecordVote(Empty, p, c, now), Empty)
  PROVE  w = c \/ \E b \in adminVotes : b.value = w
  BY DEF AdminQ!Winners, AdminQ!VotesFor, AdminQ!RecordVote, AdminQ!NewVote

WellFormed(c) == CheckVotingConfig(c.admins) /\ CheckVotingConfig(c.oracles)

\* What is voted for, what is pending, and what is in force has passed check_config,
\* except for the config of the genesis file.
WellFormedInv ==
  /\ \A b \in adminVotes : WellFormed(b.value)
  /\ \A c \in adminPending : WellFormed(c.value)
  /\ config \in Genesis \/ WellFormed(config)

\* Every step of the chain keeps configs well formed.
LEMMA WellFormedStep == ChainInv /\ WellFormedInv /\ [Next]_vars => WellFormedInv'
<1> SUFFICES ASSUME ChainInv, WellFormedInv, [Next]_vars
             PROVE  WellFormedInv'
  OBVIOUS
<1>1. ASSUME adminVotes' \subseteq adminVotes, adminPending' \subseteq adminPending,
             config' = config \/ \E r \in adminPending : config' = r.value
      PROVE  WellFormedInv'
  <2>1. \A c : WellFormed(c)' <=> WellFormed(c)
    BY DEF WellFormed, CheckVotingConfig
  <2>2. QED
    BY <1>1, <2>1 DEF WellFormedInv, WellFormed, CheckVotingConfig
<1>2. ASSUME NEW t \in 1..MaxTime, BeginBlock(t)
      PROVE  WellFormedInv'
  BY <1>1, <1>2 DEF BeginBlock, Admin!TimeoutExpiredVotes
<1>3. ASSUME NEW p \in Identities, NEW c \in Proposals, NEW w, Reconfigure(p, c, w)
      PROVE  WellFormedInv'
  <2>1. WellFormed(c) /\ config' = config
    BY <1>3 DEF Reconfigure, ReconfigureAccepted, CheckConfig, WellFormed
  <2>2. \A b \in adminVotes' : WellFormed(b.value)
    BY <1>3, <2>1, ReconfigureOutcome DEF WellFormedInv
  <2>3. \A e \in adminPending' : WellFormed(e.value)
    BY <1>3, <2>1, ReconfigureOutcome, WinnerHasVote DEF WellFormedInv
  <2>4. QED
    BY <2>1, <2>2, <2>3 DEF WellFormedInv, WellFormed, CheckVotingConfig
<1>4. ASSUME NEW p, NEW d, NEW z, NEW x, NEW h, NEW a, Observe(p, d, z, x, h, a)
      PROVE  WellFormedInv'
  BY <1>1, <1>4 DEF Observe, adminQueue
<1>5. ASSUME EndBlock
      PROVE  WellFormedInv'
  BY <1>1, <1>5, AppliedWasPending DEF EndBlock, Admin!PromotePendingChanges
<1>6. CASE UNCHANGED vars
  BY <1>1, <1>6 DEF vars, adminQueue
<1>7. QED
  BY <1>2, <1>3, <1>4, <1>5, <1>6 DEF Next

\* The chain never votes itself into a corner: the parties of every config that
\* took effect can reach its quorums, unless a list names somebody twice.
THEOREM QuorumStaysReachable == Spec => []QuorumReachable
<1>1. Init => WellFormedInv
  BY DEF Init, WellFormedInv
<1>2. ChainInv /\ WellFormedInv => QuorumReachable
  <2> SUFFICES ASSUME ChainInv, config \notin Genesis, WellFormed(config),
                      config.admins.entries = Cardinality(config.admins.authorized),
                      config.oracles.entries = Cardinality(config.oracles.authorized)
               PROVE  /\ config.admins.voting.quorum \in 1..Cardinality(config.admins.authorized)
                      /\ config.oracles.voting.quorum \in 1..Cardinality(config.oracles.authorized)
    BY DEF WellFormedInv, QuorumReachable
  <2>1. /\ config.admins.voting.quorum \in Nat /\ config.admins.entries \in Nat
        /\ config.oracles.voting.quorum \in Nat /\ config.oracles.entries \in Nat
    BY ConfigsAssumption DEF ChainInv, VotingType
  <2>2. QED
    BY <2>1 DEF WellFormed, CheckVotingConfig
<1>3. QED
  BY <1>1, <1>2, WellFormedStep, ChainInvariant, PTL DEF Spec

\* No config that takes effect has a lower quorum of admins than the one it replaces.
QuorumNeverLowered ==
  [][config'.admins.voting.quorum >= config.admins.voting.quorum]_vars

\* With one possible winner per vote, what is pending was checked against the config
\* in force when its quorum was completed, and that config stays until it is applied.
ValidInv ==
  /\ AdminQ!StandingInv
  /\ \A c \in adminPending : CheckConfig(config, c.value)

\* A step that does not lower the quorum applies only a valid config, and leaves only
\* a valid one pending.
LEMMA ValidStep ==
  ASSUME ChainInv, ValidInv, [Next]_vars,
         config'.admins.voting.quorum >= config.admins.voting.quorum
  PROVE  ValidInv' /\ (config' # config => CheckConfig(config, config'))
<1>1. AdminQ!StandingInv'
  <2>1. [AdminQ!Next]_(AdminQ!vars)
    BY StepOfAdminQueue, AdminSame
  <2>2. QED
    BY <2>1, QueueAssumptions, AdminQ!StandingStep DEF ValidInv
<1>2. ASSUME adminPending' \subseteq adminPending, config' = config
      PROVE  ValidInv' /\ (config' # config => CheckConfig(config, config'))
  BY <1>1, <1>2 DEF ValidInv, CheckConfig, CheckVotingConfig
<1>3. ASSUME NEW t \in 1..MaxTime, BeginBlock(t)
      PROVE  ValidInv' /\ (config' # config => CheckConfig(config, config'))
  BY <1>2, <1>3 DEF BeginBlock
<1>4. ASSUME NEW p \in Identities, NEW c \in Proposals, NEW w, Reconfigure(p, c, w)
      PROVE  ValidInv' /\ (config' # config => CheckConfig(config, config'))
  <2>1. CheckConfig(config, c) /\ config' = config
    BY <1>4 DEF Reconfigure, ReconfigureAccepted
  <2>2. AdminQ!Winners(config.admins.voting, AdminQ!RecordVote(Empty, p, c, now), Empty)
          \subseteq {c}
    BY QueueAssumptions, AdminQ!WinnerIsVotedFor DEF ValidInv
  <2>3. \A e \in adminPending' : CheckConfig(config, e.value)
    BY <1>4, <2>1, <2>2, ReconfigureOutcome DEF ValidInv
  <2>4. QED
    BY <1>1, <2>1, <2>3 DEF ValidInv, CheckConfig, CheckVotingConfig
<1>5. ASSUME NEW p, NEW d, NEW z, NEW x, NEW h, NEW a, Observe(p, d, z, x, h, a)
      PROVE  ValidInv' /\ (config' # config => CheckConfig(config, config'))
  BY <1>2, <1>5 DEF Observe, adminQueue
<1>6. ASSUME EndBlock
      PROVE  ValidInv' /\ (config' # config => CheckConfig(config, config'))
  <2>1. CASE config' = config
    BY <1>2, <1>6, <2>1 DEF EndBlock, Admin!PromotePendingChanges
  <2>2. CASE config' # config
    <3>1. PICK r \in adminPending : config' = r.value
                                    /\ r \in Admin!Ripe(config.admins.voting, now)
      BY <1>6, <2>2, AppliedWasPending
    <3>2. \A c \in adminPending : c = r
      BY AdminFacts DEF ChainInv
    <3>3. adminPending' = {}
      BY <1>6, <3>1, <3>2 DEF EndBlock, Admin!PromotePendingChanges
    <3>4. QED
      BY <1>1, <3>1, <3>3 DEF ValidInv
  <2>3. QED
    BY <2>1, <2>2
<1>7. CASE UNCHANGED vars
  BY <1>2, <1>7 DEF vars, adminQueue
<1>8. QED
  BY <1>3, <1>4, <1>5, <1>6, <1>7 DEF Next

\* As long as no config lowers the quorum of admins, every config that takes effect
\* is a valid successor of the one it replaces, although check_config ran against
\* the config of an earlier time.  (The run chain_lowered_quorum shows how a lower
\* quorum breaks this.)
THEOREM ReconfigurationsAreValid ==
  Spec /\ QuorumNeverLowered => OnlyValidReconfigurations
<1>1. Init => ValidInv
  <2> SUFFICES ASSUME Init
               PROVE  ValidInv
    OBVIOUS
  <2>1. Admin!Init
    BY DEF Init, Admin!Init, Configs
  <2>2. AdminQ!StandingInv
    BY <2>1, AdminSame, QueueAssumptions, AdminQ!StandingInit
  <2>3. QED
    BY <2>2 DEF Init, ValidInv
<1>2. ChainInv /\ ValidInv /\ [Next]_vars
        /\ [config'.admins.voting.quorum >= config.admins.voting.quorum]_vars
      => ValidInv' /\ [config' # config => CheckConfig(config, config')]_vars
  <2> SUFFICES ASSUME ChainInv, ValidInv, [Next]_vars,
                      [config'.admins.voting.quorum >= config.admins.voting.quorum]_vars
               PROVE  ValidInv' /\ (config' # config => CheckConfig(config, config'))
    OBVIOUS
  <2>1. config.admins.voting.quorum \in Nat
    BY ConfigsAssumption DEF ChainInv, VotingType
  <2>2. config'.admins.voting.quorum >= config.admins.voting.quorum
    BY <2>1 DEF vars
  <2>3. QED
    BY <2>2, ValidStep
<1>3. QED
  BY <1>1, <1>2, ChainInvariant, PTL
  DEF Spec, QuorumNeverLowered, OnlyValidReconfigurations

\* No config that takes effect has a lower quorum of oracles than the one it replaces.
OracleQuorumNeverLowered ==
  [][config'.oracles.voting.quorum >= config.oracles.voting.quorum]_vars

\* As long as no config lowers the quorum of oracles, every observation has at most
\* one possible winner, so that all validators, which walk the tally in the order of
\* a hash map, agree on the pending change.
THEOREM ObservationsHaveOneWinner ==
  Spec /\ OracleQuorumNeverLowered => []OracleQ!UniqueWinner
<1>1. Init => OracleQ!StandingInv
  <2> SUFFICES ASSUME Init
               PROVE  OracleQ!StandingInv
    OBVIOUS
  <2>1. Oracle!Init
    BY DEF Init, Oracle!Init, Configs
  <2>2. QED
    BY <2>1, OracleSame, QueueAssumptions, OracleQ!StandingInit
<1>2. ChainInv /\ OracleQ!StandingInv /\ [Next]_vars
        /\ [config'.oracles.voting.quorum >= config.oracles.voting.quorum]_vars
      => OracleQ!StandingInv'
  <2> SUFFICES ASSUME ChainInv, OracleQ!StandingInv, [Next]_vars,
                      [config'.oracles.voting.quorum >= config.oracles.voting.quorum]_vars
               PROVE  OracleQ!StandingInv'
    OBVIOUS
  <2>1. config.oracles.voting.quorum \in Nat
    BY ConfigsAssumption DEF ChainInv, VotingType
  <2>2. config'.oracles.voting.quorum >= config.oracles.voting.quorum
    BY <2>1 DEF vars
  <2>3. [OracleQ!Next]_(OracleQ!vars)
    BY StepOfOracleQueue, OracleSame
  <2>4. QED
    BY <2>2, <2>3, QueueAssumptions, OracleQ!StandingStep
<1>3. OracleQ!StandingInv => OracleQ!UniqueWinner
  BY QueueAssumptions, OracleQ!WinnerIsVotedFor DEF OracleQ!UniqueWinner
<1>4. QED
  BY <1>1, <1>2, <1>3, ChainInvariant, PTL DEF Spec, OracleQuorumNeverLowered

----------------------------------------------------------------------------
(* Names: prefixes of sequences of labels.                                 *)

\* What it means for a zone to be above a name.
LEMMA StrictPrefixMeans ==
  ASSUME NEW z \in Zones, NEW d \in Domains, IsStrictPrefix(z, d)
  PROVE  /\ Len(z) \in Nat /\ Len(d) \in Nat /\ Len(z) < Len(d)
         /\ \A i \in 1..Len(z) : z[i] = d[i]
<1>1. z \in Seq(Range(z)) /\ d \in Seq(Range(d))
  BY NamesAssumption
<1>2. Len(z) \in Nat /\ Len(d) \in Nat /\ Len(z) <= Len(d)
  BY <1>1 DEF IsStrictPrefix, IsPrefix
<1>3. SubSeq(z, 1, Len(z)) = SubSeq(d, 1, Len(z))
  BY DEF IsStrictPrefix, IsPrefix
<1>4. \A i \in 1..Len(z) : z[i] = d[i]
  <2> SUFFICES ASSUME NEW i \in 1..Len(z)
               PROVE  z[i] = d[i]
    OBVIOUS
  <2>1. SubSeq(z, 1, Len(z))[i] = z[i] /\ SubSeq(d, 1, Len(z))[i] = d[i]
    BY <1>1, <1>2
  <2>2. QED
    BY <1>3, <2>1
<1>5. Len(z) # Len(d)
  <2> SUFFICES ASSUME Len(z) = Len(d)
               PROVE  FALSE
    OBVIOUS
  <2>1. z = d
    BY <1>1, <1>4
  <2>2. QED
    BY <2>1 DEF IsStrictPrefix
<1>6. QED
  BY <1>2, <1>4, <1>5

\* The registered domain of a name is one label longer than the zone, and the name
\* is at or under it.
LEMMA RegisteredDomainMeans ==
  ASSUME NEW z \in Zones, NEW d \in Domains, IsStrictPrefix(z, d)
  PROVE  /\ Len(RegisteredDomain(d, z)) = Len(z) + 1
         /\ \A i \in 1..(Len(z) + 1) : RegisteredDomain(d, z)[i] = d[i]
         /\ IsPrefix(RegisteredDomain(d, z), d)
<1>1. d \in Seq(Range(d))
  BY NamesAssumption
<1>2. Len(z) \in Nat /\ Len(d) \in Nat /\ Len(z) < Len(d)
  BY StrictPrefixMeans
<1> DEFINE r == RegisteredDomain(d, z)
<1>3. r = SubSeq(d, 1, Len(z) + 1)
  BY DEF RegisteredDomain
<1>4. r \in Seq(Range(d)) /\ Len(r) = Len(z) + 1 /\ \A i \in 1..(Len(z) + 1) : r[i] = d[i]
  BY <1>1, <1>2, <1>3
<1>5. SubSeq(r, 1, Len(r)) = SubSeq(d, 1, Len(r))
  BY <1>1, <1>2, <1>3, <1>4
<1>6. QED
  BY <1>2, <1>4, <1>5 DEF IsPrefix

----------------------------------------------------------------------------
(* The limit on enrolled names.                                            *)

\* All observations of a name use the same zone, as they do when it is inferred.
\* Zones may nest: one zone for example.com, another for the names below it.
OneZonePerName ==
  \A d \in Domains : \A y, z \in ZonesOf[d] :
    IsStrictPrefix(y, d) /\ IsStrictPrefix(z, d) => y = z

\* A name that is canonical, or waits to be.
IsEnrolled(d) == canonical[d] # None \/ \E c \in oraclePending : c.key = d

\* A zone that observations of a name may use.
ZoneFor(z, d) == z \in ZonesOf[d] /\ IsStrictPrefix(z, d)

\* Votes name zones of their names, and only finitely many names are enrolled.
PlaceInv ==
  /\ \A b \in oracleVotes : ZoneFor(b.value.zone, b.key)
  /\ IsFiniteSet({d \in Domains : IsEnrolled(d)})

\* Casting an observation is the same in the instance of the specification and in
\* that of the proofs.
LEMMA OracleCastSame ==
  ASSUME NEW voting, NEW k, NEW p, NEW v, NEW t, NEW admitted
  PROVE  Oracle!Cast(voting, k, p, v, t, admitted)
           <=> OracleQ!Cast(voting, k, p, v, t, admitted)
  BY DEF Oracle!Cast, Oracle!Winners, Oracle!RecordVote, Oracle!NewVote,
         Oracle!VoteIndexKey, Oracle!Enqueue, Oracle!PendingFor, Oracle!Tally,
         Oracle!VotesFor, Oracle!TruncateToSecond, Oracle!Cardinality,
         Oracle!IsFiniteSet, OracleQ!Cast, OracleQ!Winners, OracleQ!RecordVote,
         OracleQ!NewVote, OracleQ!VoteIndexKey, OracleQ!Enqueue, OracleQ!PendingFor,
         OracleQ!Tally, OracleQ!VotesFor, OracleQ!TruncateToSecond,
         OracleQ!Cardinality, OracleQ!IsFiniteSet

\* What an observation brings about: nothing pending, or a pending change for the
\* value of a quorum if that is admitted, in place of the one that was.
LEMMA ObserveOutcome ==
  ASSUME ChainInv, NEW p, NEW d \in Domains, NEW z, NEW x, NEW h, NEW a,
         Observe(p, d, z, x, h, a)
  PROVE  /\ \A b \in oracleVotes' :
              \/ b \in oracleVotes
              \/ b.key = d /\ b.party = p /\ b.value = [hash |-> x, zone |-> z]
         /\ \/ oraclePending' = oraclePending
            \/ \E w \in OracleQ!Winners(config.oracles.voting,
                  OracleQ!RecordVote(d, p, [hash |-> x, zone |-> z], now), d) :
                 \E change :
                   /\ change.key = d /\ change.value = w
                   /\ oraclePending' = (oraclePending \ Oracle!PendingFor(d))
                        \cup (IF w \in AdmittedToPending(d) THEN {change} ELSE {})
<1> DEFINE v == [hash |-> x, zone |-> z]
<1>1. OracleQ!Cast(config.oracles.voting, d, p, v, now, AdmittedToPending(d))
  BY OracleCastSame DEF Observe
<1> HIDE DEF v
<1>2. /\ oracleVotes' \subseteq oracleVotes \cup {OracleQ!NewVote(d, p, v, now)}
      /\ \/ oraclePending' = oraclePending
         \/ \E w \in OracleQ!Winners(config.oracles.voting,
                       OracleQ!RecordVote(d, p, v, now), d) :
              oraclePending' = (oraclePending \ OracleQ!PendingFor(d)) \cup
                (IF w \in AdmittedToPending(d)
                 THEN {[key |-> d, time |-> OracleQ!TruncateToSecond(now),
                        value |-> w, at |-> now]}
                 ELSE {})
  BY <1>1, QueueAssumptions, OracleQ!CastOutcome
<1>3. /\ OracleQ!NewVote(d, p, v, now).value = v /\ OracleQ!NewVote(d, p, v, now).key = d
      /\ OracleQ!NewVote(d, p, v, now).party = p
  BY DEF OracleQ!NewVote
<1>4. OracleQ!PendingFor(d) = Oracle!PendingFor(d)
  BY DEF OracleQ!PendingFor, Oracle!PendingFor
<1>5. ASSUME NEW w, NEW added, added =
               IF w \in AdmittedToPending(d)
               THEN {[key |-> d, time |-> OracleQ!TruncateToSecond(now),
                      value |-> w, at |-> now]}
               ELSE {}
      PROVE  \E change : /\ change.key = d /\ change.value = w
                         /\ added = IF w \in AdmittedToPending(d) THEN {change} ELSE {}
  <2> DEFINE change == [key |-> d, time |-> OracleQ!TruncateToSecond(now),
                        value |-> w, at |-> now]
  <2>1. change.key = d /\ change.value = w
    OBVIOUS
  <2>2. added = IF w \in AdmittedToPending(d) THEN {change} ELSE {}
    BY <1>5
  <2>3. QED
    BY <2>1, <2>2
<1>6. QED
  BY <1>2, <1>3, <1>4, <1>5 DEF v

\* A winning observation names a zone of its name.
LEMMA WinnersZone ==
  ASSUME PlaceInv, NEW d, NEW p, NEW x, NEW z, ZoneFor(z, d),
         NEW w \in OracleQ!Winners(config.oracles.voting,
                     OracleQ!RecordVote(d, p, [hash |-> x, zone |-> z], now), d)
  PROVE  w \in OracleVoteValues /\ ZoneFor(w.zone, d)
<1> DEFINE v == [hash |-> x, zone |-> z]
<1>1. w \in OracleVoteValues /\ \E b \in OracleQ!RecordVote(d, p, v, now) : b.key = d /\ b.value = w
  BY DEF OracleQ!Winners, OracleQ!VotesFor
<1>2. PICK b \in OracleQ!RecordVote(d, p, v, now) : b.key = d /\ b.value = w
  BY <1>1
<1>3. b \in oracleVotes \/ b = OracleQ!NewVote(d, p, v, now)
  BY DEF OracleQ!RecordVote
<1>4. CASE b \in oracleVotes
  BY <1>1, <1>2, <1>4 DEF PlaceInv
<1>5. CASE b = OracleQ!NewVote(d, p, v, now)
  <2>1. w = v
    BY <1>2, <1>5 DEF OracleQ!NewVote
  <2>2. w.zone = z
    BY <2>1
  <2>3. QED
    BY <1>1, <2>2
<1>6. QED
  BY <1>3, <1>4, <1>5

\* A step enrolls no name, or puts an observation that was admitted in the place of
\* the one that was pending for its name.
Admits(d, w, change) ==
  /\ canonical' = canonical /\ config' = config
  /\ w \in AdmittedToPending(d) /\ ZoneFor(w.zone, d)
  /\ change.key = d
  /\ oraclePending' = (oraclePending \ Oracle!PendingFor(d)) \cup {change}

EnrollsNothing == \A d \in Domains : IsEnrolled(d)' => IsEnrolled(d)

\* What is canonical or pending at the end of a block was so before.
LEMMA EndBlockEnrolls ==
  ASSUME ChainInv, EndBlock
  PROVE  EnrollsNothing
<1> DEFINE ripe == Oracle!Ripe(config'.oracles.voting, now)
<1>1. UpdateCanonical(ripe) /\ ripe \subseteq oraclePending
  BY OracleFacts DEF EndBlock, ChainInv, Oracle!Ripe, Oracle!TakeWhileOld
<1>2. oraclePending' \subseteq oraclePending
  BY DEF EndBlock, Oracle!PromotePendingChanges
<1> HIDE DEF ripe
<1>3. ASSUME NEW d \in Domains, canonical'[d] # None
      PROVE  canonical[d] # None \/ \E c \in oraclePending : c.key = d
  <2>1. CASE \A c \in ripe : c.key # d
    BY <1>1, <1>3, <2>1 DEF UpdateCanonical
  <2>2. CASE ~(\A c \in ripe : c.key # d)
    BY <1>1, <2>2
  <2>3. QED
    BY <2>1, <2>2
<1>4. QED
  BY <1>2, <1>3 DEF EnrollsNothing, IsEnrolled

\* An observation is one or the other.
LEMMA ObserveEnrolls ==
  ASSUME ChainInv, PlaceInv, NEW p, NEW d \in Domains, NEW x, NEW z \in ZonesOf[d],
         NEW h, NEW a, Observe(p, d, z, x, h, a)
  PROVE  /\ \A b \in oracleVotes' : b \in oracleVotes \/ ZoneFor(b.value.zone, b.key)
         /\ EnrollsNothing \/ \E w, change : Admits(d, w, change)
<1> DEFINE v == [hash |-> x, zone |-> z]
           won == OracleQ!Winners(config.oracles.voting, OracleQ!RecordVote(d, p, v, now), d)
<1>1. ZoneFor(z, d) /\ canonical' = canonical /\ config' = config
  BY DEF Observe, ObserveAccepted, ZoneFor
<1>2. /\ \A b \in oracleVotes' : b \in oracleVotes \/ (b.key = d /\ b.value = v)
      /\ \/ oraclePending' = oraclePending
         \/ \E w \in won : \E change :
              /\ change.key = d
              /\ oraclePending' = (oraclePending \ Oracle!PendingFor(d))
                   \cup (IF w \in AdmittedToPending(d) THEN {change} ELSE {})
  BY ObserveOutcome
<1>3. \A w \in won : ZoneFor(w.zone, d)
  BY <1>1, WinnersZone
<1>4. v.zone = z
  OBVIOUS
<1> HIDE DEF v, won
<1>5. \A b \in oracleVotes' : b \in oracleVotes \/ ZoneFor(b.value.zone, b.key)
  BY <1>1, <1>2, <1>4
<1>6. ASSUME oraclePending' \subseteq oraclePending
      PROVE  EnrollsNothing
  BY <1>1, <1>6 DEF EnrollsNothing, IsEnrolled
<1>7. ASSUME NEW w \in won, NEW change, change.key = d,
             oraclePending' = (oraclePending \ Oracle!PendingFor(d))
                   \cup (IF w \in AdmittedToPending(d) THEN {change} ELSE {})
      PROVE  EnrollsNothing \/ Admits(d, w, change)
  <2>1. CASE w \in AdmittedToPending(d)
    BY <1>1, <1>3, <1>7, <2>1 DEF Admits
  <2>2. CASE w \notin AdmittedToPending(d)
    BY <1>6, <1>7, <2>2
  <2>3. QED
    BY <2>1, <2>2
<1>8. QED
  BY <1>2, <1>5, <1>6, <1>7

\* Every step of the chain is one or the other.
LEMMA StepEnrolls ==
  ASSUME ChainInv, PlaceInv, [Next]_vars
  PROVE  /\ \A b \in oracleVotes' : b \in oracleVotes \/ ZoneFor(b.value.zone, b.key)
         /\ EnrollsNothing \/ \E d \in Domains : \E w, change : Admits(d, w, change)
<1>1. ASSUME UNCHANGED <<canonical, oraclePending>>
      PROVE  EnrollsNothing
  BY <1>1 DEF EnrollsNothing, IsEnrolled
<1>2. ASSUME NEW t \in 1..MaxTime, BeginBlock(t)
      PROVE  UNCHANGED <<canonical, oraclePending>> /\ oracleVotes' \subseteq oracleVotes
  BY <1>2 DEF BeginBlock, Oracle!TimeoutExpiredVotes
<1>3. ASSUME NEW p, NEW c, NEW w, Reconfigure(p, c, w)
      PROVE  UNCHANGED <<canonical, oraclePending, oracleVotes>>
  BY <1>3 DEF Reconfigure, oracleQueue
<1>4. CASE EndBlock
  BY <1>4, EndBlockEnrolls DEF EndBlock
<1>5. CASE UNCHANGED vars
  BY <1>1, <1>5 DEF vars, oracleQueue
<1>6. QED
  BY <1>1, <1>2, <1>3, <1>4, <1>5, ObserveEnrolls DEF Next

\* The names that are enrolled stay finite, and votes name zones of their names.
LEMMA PlaceStep == ChainInv /\ PlaceInv /\ [Next]_vars => PlaceInv'
<1> SUFFICES ASSUME ChainInv, PlaceInv, [Next]_vars
             PROVE  PlaceInv'
  OBVIOUS
<1> DEFINE names == {d \in Domains : IsEnrolled(d)}
<1>1. \A b \in oracleVotes' : ZoneFor(b.value.zone, b.key)
  BY StepEnrolls DEF PlaceInv
<1>2. IsFiniteSet(names)
  BY DEF PlaceInv
<1>3. CASE EnrollsNothing
  <2>1. names' \subseteq names
    BY <1>3 DEF EnrollsNothing
  <2>2. QED
    BY <1>1, <1>2, <2>1, FS_Subset DEF PlaceInv, ZoneFor
<1>4. ASSUME NEW d \in Domains, NEW w, NEW change, Admits(d, w, change)
      PROVE  IsFiniteSet(names')
  <2>1. names' \subseteq names \cup {d}
    BY <1>4 DEF Admits, IsEnrolled
  <2>2. IsFiniteSet(names \cup {d})
    BY <1>2, FS_AddElement
  <2>3. QED
    BY <2>1, <2>2, FS_Subset
<1>5. QED
  BY <1>1, <1>3, <1>4, StepEnrolls DEF PlaceInv, ZoneFor

\* Initially nothing is enrolled.
LEMMA PlaceInit == Init => PlaceInv /\ EnrolledWithinLimit
<1> SUFFICES ASSUME Init
             PROVE  PlaceInv /\ EnrolledWithinLimit
  OBVIOUS
<1>1. \A d \in Domains : ~IsEnrolled(d)
  BY DEF Init, IsEnrolled
<1>2. {d \in Domains : IsEnrolled(d)} = {} /\ \A r : EnrolledThrough(oraclePending, r) = {}
  BY <1>1 DEF EnrolledThrough, Enrolled, IsEnrolled
<1>3. config.oracles.max_enrolled_subdomains \in Nat /\ oracleVotes = {}
  BY ConfigsAssumption DEF Init, Configs
<1>4. IsFiniteSet({}) /\ Cardinality({}) = 0
  BY FS_EmptySet
<1>5. QED
  BY <1>2, <1>3, <1>4 DEF PlaceInv, EnrolledWithinLimit

\* Fewer enrolled names are within the limit too.
LEMMA FewerEnrolled ==
  ASSUME NEW A, NEW B, IsFiniteSet(B), A \subseteq B, NEW n \in Nat, NEW m \in Nat,
         Cardinality(B) <= n, n <= m
  PROVE  IsFiniteSet(A) /\ Cardinality(A) <= m
<1>1. IsFiniteSet(A) /\ Cardinality(A) <= Cardinality(B)
  BY FS_Subset
<1>2. Cardinality(A) \in Nat /\ Cardinality(B) \in Nat
  BY <1>1, FS_CardinalityType
<1>3. QED
  BY <1>1, <1>2

\* What is counted is finite.
LEMMA EnrolledFinite ==
  ASSUME PlaceInv, NEW changes \in SUBSET oraclePending, NEW r
  PROVE  IsFiniteSet(Enrolled(changes, r)) /\ IsFiniteSet(EnrolledThrough(changes, r))
<1>1. /\ Enrolled(changes, r) \subseteq {d \in Domains : IsEnrolled(d)}
      /\ EnrolledThrough(changes, r) \subseteq Enrolled(changes, r)
  BY DEF EnrolledThrough, Enrolled, IsEnrolled
<1>2. QED
  BY <1>1, FS_Subset DEF PlaceInv

\* An observation that is admitted keeps every registered domain within the limit,
\* if the name has one zone only.
LEMMA AdmittedWithinLimit ==
  ASSUME ChainInv, PlaceInv, EnrolledWithinLimit, OneZonePerName,
         NEW d \in Domains, NEW w, NEW change, Admits(d, w, change),
         NEW e \in Domains, NEW z \in ZonesOf[e], IsStrictPrefix(z, e)
  PROVE  Cardinality(EnrolledThrough(oraclePending, RegisteredDomain(e, z))')
           <= config.oracles.max_enrolled_subdomains
<1> DEFINE others == oraclePending \ Oracle!PendingFor(d)
           r == RegisteredDomain(e, z)
           before == EnrolledThrough(oraclePending, r)
           below == Enrolled(others, r)
           rest == EnrolledThrough(others, r)
           after == EnrolledThrough(oraclePending, r)'
           max == config.oracles.max_enrolled_subdomains
<1>1. max \in Nat /\ Cardinality(before) <= max
  BY ConfigsAssumption DEF ChainInv, EnrolledWithinLimit
<1>2. IsFiniteSet(before) /\ IsFiniteSet(below) /\ IsFiniteSet(rest)
  BY EnrolledFinite
<1>3. rest \subseteq before /\ rest \subseteq below
  BY DEF EnrolledThrough, Enrolled
<1>4. after \subseteq rest \cup {d}
  BY DEF Admits, EnrolledThrough, Enrolled
<1>5. d \in after => IsPrefix(r, d) /\ \E y : ZoneFor(y, d) /\ RegisteredDomain(d, y) = r
  BY DEF Admits, EnrolledThrough, Enrolled, ZoneFor
<1>6. d \in below /\ (\E y : ZoneFor(y, d) /\ RegisteredDomain(d, y) = r) => d \in rest
  BY DEF EnrolledThrough, ZoneFor
<1>7. ZoneFor(w.zone, d) /\ WithinSubdomainLimit(others, d, RegisteredDomain(d, w.zone))
  BY DEF Admits, AdmittedToPending
<1>8. \A y : ZoneFor(y, d) => y = w.zone
  BY <1>7 DEF OneZonePerName, ZoneFor
<1> HIDE DEF others, r, before, rest, after, max
<1>9. CASE d \notin after \/ d \in rest
  <2>1. after \subseteq before
    BY <1>3, <1>4, <1>9
  <2>2. QED
    BY <1>1, <1>2, <2>1, FewerEnrolled DEF after, r, max
<1>10. CASE d \in after /\ d \notin rest
  <2>1. RegisteredDomain(d, w.zone) = r
    BY <1>5, <1>8, <1>10
  <2>2. Cardinality(below) + 1 <= max
    BY <1>5, <1>6, <1>7, <1>10, <2>1 DEF WithinSubdomainLimit, max
  <2> HIDE DEF below
  <2>3. Cardinality(rest) <= Cardinality(below) /\ Cardinality(rest) \in Nat
        /\ Cardinality(below) \in Nat
    BY <1>2, <1>3, FS_Subset, FS_CardinalityType
  <2>4. IsFiniteSet(rest \cup {d}) /\ Cardinality(rest \cup {d}) = Cardinality(rest) + 1
    BY <1>2, <1>10, FS_AddElement
  <2>5. Cardinality(rest \cup {d}) <= max
    BY <1>1, <2>2, <2>3, <2>4
  <2>6. QED
    BY <1>1, <1>4, <2>4, <2>5, FewerEnrolled DEF after, r, max
<1>11. QED
  BY <1>9, <1>10

\* A step that does not lower the limit keeps every registered domain within it.
LEMMA EnrollStep ==
  ASSUME ChainInv, PlaceInv, EnrolledWithinLimit, OneZonePerName, [Next]_vars,
         config'.oracles.max_enrolled_subdomains >= config.oracles.max_enrolled_subdomains
  PROVE  EnrolledWithinLimit'
<1> DEFINE max == config.oracles.max_enrolled_subdomains
<1>1. max \in Nat /\ max' \in Nat /\ max <= max'
  BY ChainStep, ConfigsAssumption DEF ChainInv
<1>2. ASSUME NEW d \in Domains, NEW z \in ZonesOf[d], IsStrictPrefix(z, d)
      PROVE  Cardinality(EnrolledThrough(oraclePending, RegisteredDomain(d, z))') <= max'
  <2> DEFINE r == RegisteredDomain(d, z)
             before == EnrolledThrough(oraclePending, r)
             after == EnrolledThrough(oraclePending, r)'
  <2>1. IsFiniteSet(before) /\ Cardinality(before) <= max
    BY <1>2, EnrolledFinite DEF EnrolledWithinLimit
  <2>2. PlaceInv' /\ IsFiniteSet(after)
    <3>1. PlaceInv'
      BY PlaceStep
    <3>2. after \subseteq {e \in Domains : IsEnrolled(e)'}
      BY DEF EnrolledThrough, Enrolled, IsEnrolled
    <3>3. QED
      BY <3>1, <3>2, FS_Subset DEF PlaceInv
  <2>3. CASE EnrollsNothing
    <3>1. after \subseteq before
      BY <2>3 DEF EnrollsNothing, IsEnrolled, EnrolledThrough, Enrolled, RegisteredDomain
    <3> HIDE DEF before, after, max
    <3>2. Cardinality(after) <= max'
      BY <1>1, <2>1, <3>1, FewerEnrolled
    <3>3. QED
      BY <3>2 DEF after, max
  <2>4. ASSUME NEW e \in Domains, NEW w, NEW change, Admits(e, w, change)
        PROVE  Cardinality(after) <= max'
    <3>1. Cardinality(after) <= max
      BY <1>2, <2>4, AdmittedWithinLimit
    <3> HIDE DEF after, max
    <3>2. QED
      BY <1>1, <2>2, <3>1, FewerEnrolled
  <2>5. QED
    BY <2>3, <2>4, StepEnrolls
<1>3. QED
  BY <1>2 DEF EnrolledWithinLimit, RegisteredDomain, EnrolledThrough, Enrolled, IsStrictPrefix, IsPrefix

\* A valid reconfiguration does not lower the limit, nor does a step without one.
LEMMA LimitNeverLowered ==
  ASSUME ChainInv, [config' # config => CheckConfig(config, config')]_vars
  PROVE  config'.oracles.max_enrolled_subdomains >= config.oracles.max_enrolled_subdomains
<1>1. config.oracles.max_enrolled_subdomains \in Nat
  BY ConfigsAssumption DEF ChainInv
<1>2. CASE config' = config
  BY <1>1, <1>2
<1>3. CASE CheckConfig(config, config')
  BY <1>3 DEF CheckConfig
<1>4. QED
  BY <1>2, <1>3 DEF vars

\* Votes name zones of their names, and what is enrolled is finite, at all times.
LEMMA PlaceInvariant == Spec => []PlaceInv
<1>1. QED
  BY PlaceInit, PlaceStep, ChainInvariant, PTL DEF Spec

\* No registered domain ever has more names enrolled under it, canonical or pending,
\* than the limit, for as long as reconfigurations are valid and a name is observed
\* under one zone.  Zones may nest, as inferred zones do.
THEOREM LimitIsKept ==
  ASSUME OneZonePerName
  PROVE  Spec /\ OnlyValidReconfigurations => []EnrolledWithinLimit
<1>1. ChainInv /\ PlaceInv /\ EnrolledWithinLimit /\ [Next]_vars
        /\ [config' # config => CheckConfig(config, config')]_vars => EnrolledWithinLimit'
  BY EnrollStep, LimitNeverLowered
<1>2. QED
  BY <1>1, PlaceInit, ChainInvariant, PlaceInvariant, PTL
  DEF Spec, OnlyValidReconfigurations

\* A pending change makes room for the one that takes its place, unless there are
\* more names at or below the registered domain than the limit.
LEMMA ReplacementAdmitted ==
  ASSUME ChainInv, PlaceInv, NEW d \in Domains, NEW c \in oraclePending, c.key = d,
         NEW w \in OracleVoteValues, ZoneFor(w.zone, d)
  PROVE  w \in AdmittedToPending(d) \/ Overcrowded(d)
<1> DEFINE others == oraclePending \ Oracle!PendingFor(d)
           r == RegisteredDomain(d, w.zone)
           before == Enrolled(oraclePending, r)
           rest == Enrolled(others, r)
           max == config.oracles.max_enrolled_subdomains
<1>1. w.zone \in Zones /\ IsStrictPrefix(w.zone, d)
  BY DEF OracleVoteValues, ZoneFor
<1>2. IsPrefix(r, d)
  BY <1>1, RegisteredDomainMeans
<1>3. d \in before
  BY <1>2 DEF Enrolled
<1>4. IsFiniteSet(before) /\ max \in Nat
  BY EnrolledFinite, ConfigsAssumption DEF ChainInv
<1> SUFFICES ASSUME ~Overcrowded(d)
             PROVE  w \in AdmittedToPending(d)
  OBVIOUS
<1>5. ~(Cardinality(before) > max)
  BY DEF Overcrowded, ZoneFor
<1> HIDE DEF others, r, before, rest, max
<1>6. CASE d \notin rest
  <2>1. rest = before \ {d}
    BY <1>6 DEF Enrolled, Oracle!PendingFor, others, before, rest
  <2>2. Cardinality(before \ {d}) = Cardinality(before) - 1
    BY <1>3, <1>4, FS_RemoveElement
  <2>3. Cardinality(before) \in Nat
    BY <1>4, FS_CardinalityType
  <2>4. Cardinality(rest) + 1 <= max
    BY <1>4, <1>5, <2>1, <2>2, <2>3
  <2>5. QED
    BY <1>1, <2>4 DEF AdmittedToPending, WithinSubdomainLimit, others, r, rest, max
<1>7. CASE d \in rest
  BY <1>1, <1>7 DEF AdmittedToPending, WithinSubdomainLimit, others, r, rest
<1>8. QED
  BY <1>6, <1>7

\* An observation that is pending never just disappears while a block is delivered,
\* although cast deletes it before it knows whether the one that wins is admitted:
\* either that one takes its place, or nested registered domains had already let in
\* more names than the limit.  Zones and reconfigurations are any.
THEOREM PendingIsOnlyReplaced == Spec => PendingOnlyReplaced
<1> DEFINE Replaced == phase' = "delivering" =>
             \A c \in oraclePending :
               (\E d \in oraclePending' : d.key = c.key) \/ Overcrowded(c.key)
<1>1. ChainInv /\ PlaceInv /\ [Next]_vars => [Replaced]_vars
  <2> SUFFICES ASSUME ChainInv, PlaceInv, [Next]_vars, phase' = "delivering",
                      NEW c \in oraclePending
               PROVE  (\E d \in oraclePending' : d.key = c.key) \/ Overcrowded(c.key)
    OBVIOUS
  <2>1. CASE oraclePending' = oraclePending
    BY <2>1
  <2>2. ASSUME NEW p, NEW d \in Domains, NEW x, NEW z \in ZonesOf[d], NEW h, NEW a,
               Observe(p, d, z, x, h, a)
        PROVE  (\E e \in oraclePending' : e.key = c.key) \/ Overcrowded(c.key)
    <3>1. ZoneFor(z, d)
      BY <2>2 DEF Observe, ObserveAccepted, ZoneFor
    <3>2. ASSUME NEW w \in OracleQ!Winners(config.oracles.voting,
                             OracleQ!RecordVote(d, p, [hash |-> x, zone |-> z], now), d),
                 NEW change, change.key = d,
                 oraclePending' = (oraclePending \ Oracle!PendingFor(d))
                        \cup (IF w \in AdmittedToPending(d) THEN {change} ELSE {})
          PROVE  (\E e \in oraclePending' : e.key = c.key) \/ Overcrowded(c.key)
      <4>1. CASE c.key # d
        BY <3>2, <4>1 DEF Oracle!PendingFor
      <4>2. CASE c.key = d
        <5>1. w \in AdmittedToPending(d) \/ Overcrowded(d)
          BY <3>1, <3>2, <4>2, WinnersZone, ReplacementAdmitted
        <5>2. QED
          BY <3>2, <4>2, <5>1
      <4>3. QED
        BY <4>1, <4>2
    <3>3. QED
      BY <2>1, <2>2, <3>2, ObserveOutcome
  <2>3. ASSUME NEW p, NEW q, NEW w, Reconfigure(p, q, w)
        PROVE  oraclePending' = oraclePending
    BY <2>3 DEF Reconfigure, oracleQueue
  <2>4. ASSUME NEW t, BeginBlock(t)
        PROVE  oraclePending' = oraclePending
    BY <2>4 DEF BeginBlock
  <2>5. ~EndBlock
    BY DEF EndBlock
  <2>6. CASE UNCHANGED vars
    BY <2>1, <2>6 DEF vars, oracleQueue
  <2>7. QED
    BY <2>1, <2>2, <2>3, <2>4, <2>5, <2>6 DEF Next
<1>2. QED
  BY <1>1, ChainInvariant, PlaceInvariant, PTL DEF Spec, PendingOnlyReplaced

=============================================================================
