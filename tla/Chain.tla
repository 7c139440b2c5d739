------------------------------- MODULE Chain -------------------------------
(***************************************************************************)
(* The replicated state machine of felidae-state: the chain configuration, *)
(* the canonical enrollment map, the record of block times and app hashes, *)
(* and the two vote queues that change them.  One FinalizeBlock request is *)
(* the steps BeginBlock, any number of delivered actions, EndBlock, in     *)
(* this order and with nothing between them (the handler holds the state's *)
(* write lock).  A transaction is a list of actions applied one by one; an *)
(* action that fails ends its transaction without undoing the ones before  *)
(* it, so the effect of any block is that of the actions that succeeded.   *)
(*                                                                         *)
(* Domains are sequences of labels in prefix order, <<"com", "example">>.  *)
(* The app hash after block h is represented by h.  An authorized list is  *)
(* the set of identities in it and its number of entries, which is larger  *)
(* when an identity is listed twice.                                       *)
(***************************************************************************)
EXTENDS Integers, FiniteSets, SequencesExt

CONSTANTS
  Domains,        \* names that oracles observe
  Zones,          \* zones that oracles name in observations
  ZonesOf,        \* the zones that oracles name for each name
  Hashes,         \* enrollment hashes
  NotFound,       \* HashObserved::NotFound
  None,           \* no canonical entry
  Identities,     \* public keys of admins and oracles
  ZeroIdentity,   \* the all-zero placeholder key of a config template
  Genesis,        \* configs the genesis file may hold
  Proposals,      \* configs that admins may propose
  Windows,        \* [notBefore, notAfter] bounds of signed reconfigurations
  TicksPerSecond, \* resolution of block time
  MaxTime         \* bound: the block time of the last block considered

VARIABLES
  config,        \* parameters/config
  canonical,     \* canonical/<domain> -> hash, or None
  height,        \* current/block_height, 0 when there is none
  blockTimes,    \* blocktime/<height>, as a sequence
  appHashes,     \* apphash/<height> -> app hash
  now,           \* current/block_time
  phase,         \* "idle" between blocks, "delivering" inside FinalizeBlock
  adminVotes, adminVotesByTime, adminPending, adminPendingByTime,
  oracleVotes, oracleVotesByTime, oraclePending, oraclePendingByTime

adminQueue == <<adminVotes, adminVotesByTime, adminPending, adminPendingByTime>>
oracleQueue == <<oracleVotes, oracleVotesByTime, oraclePending, oraclePendingByTime>>
vars == <<config, canonical, height, blockTimes, appHashes, now, phase,
          adminQueue, oracleQueue>>

----------------------------------------------------------------------------
(* The two vote queues.                                                    *)

\* The only key of the admin queue.
Empty == "empty"

\* OracleVoteValue: what an oracle saw, and the zone it counts against.
OracleVoteValues == [hash : Hashes \cup {NotFound}, zone : Zones]

Configs == Genesis \cup Proposals

VotingType == [quorum : Nat, timeout : Nat, delay : Nat]

\* The numbers of a config are unsigned integers and its durations not negative.
ASSUME ConfigsAssumption ==
  \A c \in Configs :
    /\ c.version \in Nat
    /\ c.admins.voting \in VotingType /\ c.oracles.voting \in VotingType
    /\ \A parties \in {c.admins, c.oracles} : parties.entries \in Nat /\ parties.total \in Nat
    /\ c.oracles.max_enrolled_subdomains \in Nat
    /\ c.oracles.observation_timeout \in Nat

\* Names and zones are sequences of labels.
ASSUME NamesAssumption ==
  /\ \A s \in Domains \cup Zones : s \in Seq(Range(s))
  /\ ZonesOf \in [Domains -> SUBSET Zones]

ASSUME TimeAssumption == TicksPerSecond \in Nat \ {0} /\ MaxTime \in Nat

Admin == INSTANCE VoteQueue WITH
  Keys <- {Empty}, Parties <- Identities, Values <- Proposals,
  VotingConfigs <- {c.admins.voting : c \in Configs},
  votes <- adminVotes, votesByTime <- adminVotesByTime,
  pending <- adminPending, pendingByTime <- adminPendingByTime,
  voting <- config.admins.voting

Oracle == INSTANCE VoteQueue WITH
  Keys <- Domains, Parties <- Identities, Values <- OracleVoteValues,
  VotingConfigs <- {c.oracles.voting : c \in Configs},
  votes <- oracleVotes, votesByTime <- oracleVotesByTime,
  pending <- oraclePending, pendingByTime <- oraclePendingByTime,
  voting <- config.oracles.voting

----------------------------------------------------------------------------
(* Configuration.                                                          *)

\* Mutant: the quorum is compared with nothing.
MutantCheckVotingConfig(parties) ==
  parties.total = parties.entries /\ parties.voting.quorum # 0

CheckVotingConfig(parties) ==
  /\ parties.total = parties.entries
  /\ parties.voting.quorum # 0
  /\ parties.voting.quorum <= parties.total

CheckConfig(current, c) ==
  /\ c.version > current.version
  /\ CheckVotingConfig(c.admins)
  /\ CheckVotingConfig(c.oracles)
  /\ c.oracles.max_enrolled_subdomains # 0
  /\ c.oracles.max_enrolled_subdomains >= current.oracles.max_enrolled_subdomains
  /\ ZeroIdentity \notin c.admins.authorized
  /\ ZeroIdentity \notin c.oracles.authorized

\* Anyone may set the first configuration of a chain without admins.
IsCurrentAdmin(p) ==
  config.admins.authorized = {} \/ p \in config.admins.authorized

\* Mutant: the proposal is not compared with the current config.
MutantReconfigureAccepted(admin, proposal, window) ==
  /\ IsCurrentAdmin(admin)
  /\ window.notBefore <= now /\ now <= window.notAfter
  /\ CheckVotingConfig(proposal.admins) /\ CheckVotingConfig(proposal.oracles)
  /\ \A c \in Admin!PendingFor(Empty) : c.value.version < proposal.version

\* Mutant: a signature is good for ever.
MutantLateReconfigureAccepted(admin, proposal, window) ==
  /\ IsCurrentAdmin(admin)
  /\ window.notBefore <= now
  /\ CheckConfig(config, proposal)
  /\ \A c \in Admin!PendingFor(Empty) : c.value.version < proposal.version

\* The checks of reconfigure before it casts the vote.
ReconfigureAccepted(admin, proposal, window) ==
  /\ IsCurrentAdmin(admin)
  /\ window.notBefore <= now /\ now <= window.notAfter
  /\ CheckConfig(config, proposal)
  /\ \A c \in Admin!PendingFor(Empty) : c.value.version < proposal.version

Reconfigure(admin, proposal, window) ==
  /\ phase = "delivering"
  /\ ReconfigureAccepted(admin, proposal, window)
  /\ Admin!Cast(config.admins.voting, Empty, admin, proposal, now, Proposals)
  /\ UNCHANGED <<config, canonical, height, blockTimes, appHashes, now, phase,
                 oracleQueue>>

----------------------------------------------------------------------------
(* Observations.                                                           *)

\* The blockstamp names a block that is known, recent, and whose app hash was
\* recorded as the one claimed.
BlockstampAccepted(h, appHash) ==
  LET recordedAt == IF h = 0 THEN 0 ELSE h - 1
  IN  /\ h <= height
      /\ h \in DOMAIN blockTimes
      /\ now >= blockTimes[h]
      /\ now - blockTimes[h] < config.oracles.observation_timeout
      /\ recordedAt \in DOMAIN appHashes
      /\ appHashes[recordedAt] = appHash

\* The zone plus one label.
RegisteredDomain(d, zone) == SubSeq(d, 1, Len(zone) + 1)

\* The names at or under r that are canonical, or wait to be by changes.
Enrolled(changes, r) ==
  {d \in Domains : /\ IsPrefix(r, d)
                   /\ canonical[d] # None \/ \E c \in changes : c.key = d}

\* Mutant: only canonical names are counted.
MutantWithinSubdomainLimit(changes, d, r) ==
  \/ d \in Enrolled(changes, r)
  \/ Cardinality(Enrolled({}, r)) + 1 <= config.oracles.max_enrolled_subdomains

\* check_subdomain_limit_before_pending_exact
WithinSubdomainLimit(changes, d, r) ==
  \/ d \in Enrolled(changes, r)
  \/ Cardinality(Enrolled(changes, r)) + 1 <= config.oracles.max_enrolled_subdomains

\* Mutant: the pending change that the value replaces takes up room of its own.
MutantAdmittedToPending(d) ==
  {v \in OracleVoteValues :
     /\ IsStrictPrefix(v.zone, d)
     /\ Cardinality(Enrolled(oraclePending, RegisteredDomain(d, v.zone))) + 1
          <= config.oracles.max_enrolled_subdomains}

\* The winning values that cast lets into the pending queue.  It has deleted
\* the key's earlier pending change by then.
AdmittedToPending(d) ==
  {v \in OracleVoteValues :
     /\ IsStrictPrefix(v.zone, d)
     /\ WithinSubdomainLimit(oraclePending \ Oracle!PendingFor(d), d,
                             RegisteredDomain(d, v.zone))}

\* A name that is neither canonical nor about to be cannot be deleted, and
\* can be enrolled only within the limit.
ObservationAllowed(d, zone, hash) ==
  (canonical[d] = None /\ \A c \in Oracle!PendingFor(d) : c.value.hash = NotFound)
    => /\ hash # NotFound
       /\ WithinSubdomainLimit(oraclePending, d, RegisteredDomain(d, zone))

\* The checks of observe before it casts the vote.
ObserveAccepted(oracle, d, zone, hash, stampHeight, stampHash) ==
  /\ oracle \in config.oracles.authorized
  /\ BlockstampAccepted(stampHeight, stampHash)
  /\ IsStrictPrefix(zone, d)
  /\ ObservationAllowed(d, zone, hash)

\* Mutant: observations are tallied with the voting config of the admins.
MutantObserve(oracle, d, zone, hash, stampHeight, stampHash) ==
  /\ phase = "delivering"
  /\ ObserveAccepted(oracle, d, zone, hash, stampHeight, stampHash)
  /\ Oracle!Cast(config.admins.voting, d, oracle, [hash |-> hash, zone |-> zone],
                 now, AdmittedToPending(d))
  /\ UNCHANGED <<config, canonical, height, blockTimes, appHashes, now, phase,
                 adminQueue>>

Observe(oracle, d, zone, hash, stampHeight, stampHash) ==
  /\ phase = "delivering"
  /\ ObserveAccepted(oracle, d, zone, hash, stampHeight, stampHash)
  /\ Oracle!Cast(config.oracles.voting, d, oracle, [hash |-> hash, zone |-> zone],
                 now, AdmittedToPending(d))
  /\ UNCHANGED <<config, canonical, height, blockTimes, appHashes, now, phase,
                 adminQueue>>

----------------------------------------------------------------------------
(* Blocks.                                                                 *)

\* The state after InitChain.  A config from the genesis file is not checked.
Init ==
  /\ config \in Genesis
  /\ canonical = [d \in Domains |-> None]
  /\ height = 0
  /\ blockTimes = <<>>
  /\ appHashes = <<>>
  /\ now = 0
  /\ phase = "idle"
  /\ adminVotes = {} /\ adminVotesByTime = {}
  /\ adminPending = {} /\ adminPendingByTime = {}
  /\ oracleVotes = {} /\ oracleVotesByTime = {}
  /\ oraclePending = {} /\ oraclePendingByTime = {}

\* Mutant: the hash is recorded under the height of the block it belongs to.
MutantRecordAppHash ==
  appHashes' = [h \in DOMAIN appHashes \cup ({height} \ {0}) |->
                  IF h = height THEN height ELSE appHashes[h]]

\* The committed app hash, that of block `height', is recorded one below.
RecordAppHash ==
  appHashes' = [h \in DOMAIN appHashes \cup ({height - 1} \cap Nat) |->
                  IF h = height - 1 THEN height ELSE appHashes[h]]

\* Mutant: the votes of admins never expire.
MutantBeginBlock(t) ==
  /\ phase = "idle" /\ now < t
  /\ RecordAppHash
  /\ height' = height + 1
  /\ blockTimes' = Append(blockTimes, t)
  /\ now' = t
  /\ phase' = "delivering"
  /\ Oracle!TimeoutExpiredVotes(config.oracles.voting, t)
  /\ UNCHANGED <<config, canonical, adminQueue, oraclePending, oraclePendingByTime>>

BeginBlock(t) ==
  /\ phase = "idle" /\ now < t
  /\ RecordAppHash
  /\ height' = height + 1
  /\ blockTimes' = Append(blockTimes, t)
  /\ now' = t
  /\ phase' = "delivering"
  /\ Admin!TimeoutExpiredVotes(config.admins.voting, t)
  /\ Oracle!TimeoutExpiredVotes(config.oracles.voting, t)
  /\ UNCHANGED <<config, canonical, adminPending, adminPendingByTime,
                 oraclePending, oraclePendingByTime>>

\* Promoted configs that are not newer than the current one are skipped.
ApplyConfigs(ripe) ==
  LET newer == {r \in ripe : r.value.version > config.version}
  IN  \/ newer = {} /\ UNCHANGED config
      \/ \E r \in newer : /\ \A s \in newer : s.value.version <= r.value.version
                          /\ config' = r.value

\* update_canonical for every promoted observation.
UpdateCanonical(ripe) ==
  canonical' =
    [d \in Domains |->
       IF \A r \in ripe : r.key # d THEN canonical[d]
       ELSE LET observed == (CHOOSE r \in ripe : r.key = d).value.hash
            IN  IF observed = NotFound THEN None ELSE observed]

\* Mutant: the oracle queue is promoted under the config before.
MutantEndBlock ==
  /\ phase = "delivering"
  /\ Admin!PromotePendingChanges(config.admins.voting, now)
  /\ ApplyConfigs(Admin!Ripe(config.admins.voting, now))
  /\ Oracle!PromotePendingChanges(config.oracles.voting, now)
  /\ UpdateCanonical(Oracle!Ripe(config.oracles.voting, now))
  /\ phase' = "idle"
  /\ UNCHANGED <<height, blockTimes, appHashes, now, adminVotes, adminVotesByTime,
                 oracleVotes, oracleVotesByTime>>

\* The oracle queue is promoted under the config that was just applied.
EndBlock ==
  /\ phase = "delivering"
  /\ Admin!PromotePendingChanges(config.admins.voting, now)
  /\ ApplyConfigs(Admin!Ripe(config.admins.voting, now))
  /\ Oracle!PromotePendingChanges(config'.oracles.voting, now)
  /\ UpdateCanonical(Oracle!Ripe(config'.oracles.voting, now))
  /\ phase' = "idle"
  /\ UNCHANGED <<height, blockTimes, appHashes, now, adminVotes, adminVotesByTime,
                 oracleVotes, oracleVotesByTime>>

Next ==
  \/ \E t \in 1..MaxTime : BeginBlock(t)
  \/ \E p \in Identities, c \in Proposals, w \in Windows : Reconfigure(p, c, w)
  \/ \E p \in Identities, d \in Domains, x \in Hashes \cup {NotFound} :
       \E z \in ZonesOf[d], h, a \in 0..MaxTime : Observe(p, d, z, x, h, a)
  \/ EndBlock

Spec == Init /\ [][Next]_vars

----------------------------------------------------------------------------
(* Properties.                                                             *)

\* Every variable of the chain holds values of its type, and so do the queues.
TypeOK ==
  /\ config \in Configs
  /\ canonical \in [Domains -> Hashes \cup {None}]
  /\ height \in Nat /\ height = Len(blockTimes)
  /\ \A h \in DOMAIN blockTimes : blockTimes[h] \in Nat
  /\ \A h \in DOMAIN appHashes : appHashes[h] \in 1..height
  /\ Admin!TypeOK
  /\ Oracle!TypeOK

\* Both queues, interleaved by the blocks of the chain and reconfigured by it,
\* keep to the specification of a vote queue.
AdminQueueSpec == Admin!Spec
OracleQueueSpec == Oracle!Spec

\* A config that takes effect is a valid successor of the config it replaces:
\* newer, well formed, and not lowering max_enrolled_subdomains.  check_config
\* ran when votes for it were cast, against the config of that time.
OnlyValidReconfigurations ==
  [][config' # config => CheckConfig(config, config')]_vars

\* An observation can only carry a blockstamp of an earlier block, with the app
\* hash that block really produced, younger than the observation timeout.
BlockstampSound ==
  \A h, a \in 0..MaxTime :
    BlockstampAccepted(h, a) =>
      /\ 1 <= h /\ h < height
      /\ a = h
      /\ now - blockTimes[h] < config.oracles.observation_timeout

\* The names among them that oracles enroll under the registered domain r.  A name
\* below r may have its own registered domain: with inferred zones, those of
\* example.com are example.com and, for the names below it, a.example.com and so on.
EnrolledThrough(changes, r) ==
  {d \in Enrolled(changes, r) :
     \E z \in ZonesOf[d] : IsStrictPrefix(z, d) /\ RegisteredDomain(d, z) = r}

\* No registered domain has more names enrolled under it, canonical or pending, than
\* the limit, if all observations of a name use one zone.  Names that are below it
\* but enrolled under another registered domain come on top.
EnrolledWithinLimit ==
  \A d \in Domains : \A z \in ZonesOf[d] :
    IsStrictPrefix(z, d) =>
      Cardinality(EnrolledThrough(oraclePending, RegisteredDomain(d, z)))
        <= config.oracles.max_enrolled_subdomains

\* More names are at or below a registered domain of d than the limit, because some
\* of them were enrolled under another registered domain.
Overcrowded(d) ==
  \E z \in ZonesOf[d] :
    /\ IsStrictPrefix(z, d)
    /\ Cardinality(Enrolled(oraclePending, RegisteredDomain(d, z)))
         > config.oracles.max_enrolled_subdomains

\* During the delivery of a block a pending observation may be replaced by another
\* one for the same name, but disappears only where nested registered domains have
\* already let in more names than the limit: what cast deletes has left room for
\* what takes its place.
PendingOnlyReplaced ==
  [][phase' = "delivering" =>
       \A c \in oraclePending :
         (\E d \in oraclePending' : d.key = c.key) \/ Overcrowded(c.key)]_vars

\* A canonical entry changes only at the end of a block, to the value that was
\* publicly pending for the name, and only after the configured delay (less the
\* second that stored times are truncated by).
CanonicalOnlyAfterDelay ==
  [][\A d \in Domains : canonical'[d] # canonical[d] =>
       \E c \in oraclePending :
         /\ c.key = d
         /\ canonical'[d] = IF c.value.hash = NotFound THEN None ELSE c.value.hash
         /\ now - c.at + TicksPerSecond > config'.oracles.voting.delay]_vars

\* Votes for the same observation add up: no name and hash have a quorum of
\* live votes that is not yet pending.
SameObservationAddsUp ==
  \A d \in Domains, x \in Hashes \cup {NotFound} :
    LET voters == {b.party : b \in {c \in oracleVotes : c.key = d /\ c.value.hash = x}}
    IN  voters # {} => Cardinality(voters) < config.oracles.voting.quorum

\* The chain never votes itself into a corner: the parties of a config that took
\* effect can reach the quorum it prescribes.  It presumes that no list names an
\* identity twice: check_config counts entries, the vote queue counts parties.
QuorumReachable ==
  (/\ config \notin Genesis
   /\ config.admins.entries = Cardinality(config.admins.authorized)
   /\ config.oracles.entries = Cardinality(config.oracles.authorized))
    => /\ config.admins.voting.quorum \in 1..Cardinality(config.admins.authorized)
       /\ config.oracles.voting.quorum \in 1..Cardinality(config.oracles.authorized)

=============================================================================
