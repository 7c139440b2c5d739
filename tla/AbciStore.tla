----------------------------- MODULE AbciStore -----------------------------
(***************************************************************************)
(* The storage protocol of one node: felidae-state's Store (store.rs) and  *)
(* the ABCI requests that drive it (abci.rs), with CometBFT on the other   *)
(* side of the connection.  The store keeps a committed snapshot on disk,  *)
(* an in-memory delta on top of a snapshot that requests work on, and the  *)
(* staged batch that FinalizeBlock leaves for Commit.                      *)
(*                                                                         *)
(* FinalizeBlock takes the state lock three times, and Commit touches the  *)
(* delta after the disk; each of these stretches is an action of its own,  *)
(* so that requests of the mempool connection and crashes fall between     *)
(* them.  The chain state is reduced to what the protocol can get wrong:   *)
(* which blocks were applied, which app hashes were recorded, and the      *)
(* power of each validator, which CometBFT learns from the responses.      *)
(*                                                                         *)
(* CometBFT (not part of the repository) is modelled as it uses the        *)
(* application: it stores a block before finalizing it and, after a        *)
(* restart, asks Info for the application's height, calls InitChain if it  *)
(* is zero, and replays the stored blocks above it.  It merges validator   *)
(* updates into its own set: a validator that is left out keeps its power, *)
(* one with power zero is removed.                                         *)
(***************************************************************************)
EXTENDS Integers, FiniteSets, Sequences

CONSTANTS
  Validators,    \* the validators that the genesis file declares
  GenesisPower,  \* their power
  MaxHeight,     \* bound: number of blocks decided
  MaxCrashes,    \* bound: number of restarts
  MaxEvidence    \* bound: number of validators reported for misbehaviour

ASSUME BoundsAssumption ==
  MaxHeight \in Nat /\ MaxCrashes \in Nat /\ MaxEvidence \in Nat

ASSUME PowerAssumption == GenesisPower \in Nat \ {0}

VARIABLES
  committed, \* the latest snapshot of the storage
  delta,     \* the in-memory state
  staged,    \* staged_batch: <<>> or <<state>>
  checked,   \* the fork the last CheckTx ran on
  request,   \* where the consensus connection is
  next,      \* height of the next block CometBFT sends
  blocks,    \* CometBFT's block store: the misbehaviour reported in each block
  valset,    \* CometBFT's validator set: power by validator, zero if not in it
  reported,  \* reported[h]: app hashes that FinalizeBlock returned for h
  crashes    \* restarts so far

store == <<committed, delta, staged>>
vars == <<store, checked, request, next, blocks, valset, reported, crashes>>

Heights == 1..MaxHeight

\* A chain state: whether InitChain ran, the block height, the blocks applied,
\* and the recorded app hashes by height.  The effect of a block is its height
\* in the list; that of a transaction run by CheckTx is a zero.
\* A validator that is not declared has power zero.
EmptyState ==
  [init |-> FALSE, height |-> 0, applied |-> <<>>, recorded |-> {},
   power |-> [v \in Validators |-> 0]]

\* The root hash tells different states apart.
RootHash(s) == <<s.init, s.applied, s.recorded, s.power>>

Requests == {"handshake", "ready", "recorded", "delivered", "prepared", "written"}

Init ==
  /\ committed = EmptyState /\ delta = EmptyState /\ staged = <<>>
  /\ checked = EmptyState
  /\ request = "handshake"
  /\ next = 0
  /\ blocks = <<>>
  /\ valset = [v \in Validators |-> 0]
  /\ reported = [h \in Heights |-> {}]
  /\ crashes = 0

----------------------------------------------------------------------------
(* Info and InitChain.                                                     *)

\* The height comes from the in-memory state, the app hash from the storage.
InfoHeight == delta.height

\* The validators that active_validators lists.
ActiveValidators(s) == {v \in Validators : s.power[v] > 0}

\* declare_validator, for every validator of the genesis file.
DeclareValidators(s) ==
  [s EXCEPT !.power = [v \in Validators |-> GenesisPower]]

\* set_chain_id refuses a second InitChain on the same in-memory state.
InitChain(s) == DeclareValidators([s EXCEPT !.init = TRUE])

Handshake ==
  /\ request = "handshake"
  /\ InfoHeight <= Len(blocks)
  /\ IF InfoHeight = 0
     THEN /\ ~delta.init
          /\ \A v \in Validators : delta.power[v] = 0
          /\ delta' = InitChain(delta)
          /\ valset' = delta'.power
     ELSE UNCHANGED <<delta, valset>>
  /\ next' = InfoHeight + 1
  /\ request' = "ready"
  /\ UNCHANGED <<committed, staged, checked, blocks, reported, crashes>>

----------------------------------------------------------------------------
(* FinalizeBlock and Commit.                                               *)

\* The validators that the decided blocks reported for misbehaviour.
Reported == UNION {blocks[h] : h \in DOMAIN blocks}

DecideBlock(misbehavior) ==
  /\ request = "ready" /\ next = Len(blocks) + 1 /\ next \in Heights
  /\ Cardinality(Reported \cup misbehavior) <= MaxEvidence
  /\ blocks' = Append(blocks, misbehavior)
  /\ UNCHANGED <<store, checked, request, next, valset, reported, crashes>>

\* Mutant: the hash is put under the state's height.
MutantWithAppHashLate(s, hash) ==
  IF s.height = 0 THEN s
  ELSE [s EXCEPT !.recorded = @ \cup {[height |-> s.height, hash |-> hash]}]

\* record_app_hash: the hash is put under the height before the state's.
WithAppHash(s, hash) ==
  LET entry == [height |-> s.height - 1, hash |-> hash]
  IN  IF s.height = 0 THEN s
      ELSE [s EXCEPT !.recorded = {r \in @ : r.height # entry.height} \cup {entry}]

RecordAppHash ==
  /\ request = "ready" /\ next <= Len(blocks)
  /\ delta' = WithAppHash(delta, committed.applied)
  /\ request' = "recorded"
  /\ UNCHANGED <<committed, staged, checked, next, blocks, valset, reported, crashes>>

\* Mutant: the validator loses its power in the state.
MutantTombstoneValidators(s, misbehavior) ==
  [s EXCEPT !.power = [v \in Validators |-> IF v \in misbehavior THEN 0 ELSE @[v]]]

\* tombstone_validator looks the validator up among the active ones and reports
\* what it finds; it leaves the state as it is.
TombstoneValidators(s, misbehavior) == s

FinalizeBlock ==
  /\ request = "recorded"
  /\ delta' = TombstoneValidators(
                [delta EXCEPT !.height = next, !.applied = Append(@, next)],
                blocks[next])
  /\ request' = "delivered"
  /\ UNCHANGED <<committed, staged, checked, next, blocks, valset, reported, crashes>>

\* FinalizeBlock's response lists the active validators of the state.
MergeUpdates(s) ==
  valset' = [v \in Validators |->
               IF v \in ActiveValidators(s) THEN s.power[v] ELSE valset[v]]

\* Mutant: the app hash is that of the storage, without the block.
MutantPrepareCommitOldHash ==
  /\ request = "delivered"
  /\ staged' = <<delta>>
  /\ delta' = committed
  /\ reported' = [reported EXCEPT ![next] = @ \cup {RootHash(committed)}]
  /\ MergeUpdates(delta)
  /\ request' = "prepared"
  /\ UNCHANGED <<committed, checked, next, blocks, crashes>>

\* Mutant: the delta stays in place.
MutantPrepareCommitKeepsDelta ==
  /\ request = "delivered"
  /\ staged' = <<delta>>
  /\ reported' = [reported EXCEPT ![next] = @ \cup {RootHash(delta)}]
  /\ MergeUpdates(delta)
  /\ request' = "prepared"
  /\ UNCHANGED <<committed, delta, checked, next, blocks, crashes>>

\* Mutant: the batch is staged only in the first attempt.
MutantPrepareCommitUnstaged ==
  /\ request = "delivered"
  /\ staged' = IF crashes > 0 THEN staged ELSE <<delta>>
  /\ delta' = committed
  /\ reported' = [reported EXCEPT ![next] = @ \cup {RootHash(delta)}]
  /\ MergeUpdates(delta)
  /\ request' = "prepared"
  /\ UNCHANGED <<committed, checked, next, blocks, crashes>>

\* The delta is consumed and replaced by one on the snapshot before the block.
PrepareCommit ==
  /\ request = "delivered"
  /\ staged' = <<delta>>
  /\ delta' = committed
  /\ reported' = [reported EXCEPT ![next] = @ \cup {RootHash(delta)}]
  /\ MergeUpdates(delta)
  /\ request' = "prepared"
  /\ UNCHANGED <<committed, checked, next, blocks, crashes>>

CommitBatch ==
  /\ request = "prepared"
  /\ staged # <<>>
  /\ committed' = staged[1]
  /\ staged' = <<>>
  /\ request' = "written"
  /\ UNCHANGED <<delta, checked, next, blocks, valset, reported, crashes>>

\* Mutant: the delta still refers to the snapshot before the commit.
MutantRenewDelta ==
  /\ request = "written"
  /\ next' = next + 1
  /\ request' = "ready"
  /\ UNCHANGED <<committed, delta, staged, checked, blocks, valset, reported, crashes>>

RenewDelta ==
  /\ request = "written"
  /\ delta' = committed
  /\ next' = next + 1
  /\ request' = "ready"
  /\ UNCHANGED <<committed, staged, checked, blocks, valset, reported, crashes>>

----------------------------------------------------------------------------
(* The mempool connection, and restarts.                                   *)

\* Mutant: the transaction runs on the in-memory state itself.
MutantCheckTx ==
  /\ request # "handshake"
  /\ delta' = [delta EXCEPT !.applied = Append(@, 0)]
  /\ checked' = delta'
  /\ UNCHANGED <<committed, staged, request, next, blocks, valset, reported, crashes>>

\* The transaction runs on a fork of the in-memory state, then discarded.
CheckTx ==
  /\ request # "handshake"
  /\ checked' = [delta EXCEPT !.applied = Append(@, 0)]
  /\ UNCHANGED <<store, request, next, blocks, valset, reported, crashes>>

\* The node goes down; what is not on disk is lost.
Crash ==
  /\ crashes < MaxCrashes
  /\ crashes' = crashes + 1
  /\ delta' = committed
  /\ staged' = <<>>
  /\ checked' = committed
  /\ request' = "handshake"
  /\ UNCHANGED <<committed, next, blocks, valset, reported>>

\* CometBFT restarts between two requests; the application keeps its memory.
CometRestart ==
  /\ request \in {"ready", "prepared"}
  /\ crashes < MaxCrashes
  /\ crashes' = crashes + 1
  /\ request' = "handshake"
  /\ UNCHANGED <<store, checked, next, blocks, valset, reported>>

Next ==
  \/ Handshake
  \/ \E misbehavior \in SUBSET Validators : DecideBlock(misbehavior)
  \/ RecordAppHash \/ FinalizeBlock \/ PrepareCommit
  \/ CommitBatch \/ RenewDelta
  \/ CheckTx
  \/ Crash \/ CometRestart

\* CometBFT keeps the consensus connection going; nothing is promised about
\* the mempool connection, and crashes are not required.
Fairness ==
  /\ WF_vars(Handshake)
  /\ WF_vars(\E misbehavior \in SUBSET Validators : DecideBlock(misbehavior))
  /\ WF_vars(RecordAppHash) /\ WF_vars(FinalizeBlock) /\ WF_vars(PrepareCommit)
  /\ WF_vars(CommitBatch) /\ WF_vars(RenewDelta)

Spec == Init /\ [][Next]_vars /\ Fairness

----------------------------------------------------------------------------
(* Properties.                                                             *)

\* The state after blocks 1 to h, each applied once and in order.
Blocks(h) == [i \in 1..h |-> i]

StateType(s) ==
  /\ s.init \in BOOLEAN
  /\ s.height \in 0..MaxHeight
  /\ s.applied \in Seq(0..MaxHeight)
  /\ s.power \in [Validators -> {0, GenesisPower}]
  /\ \A r \in s.recorded : r.height \in 0..MaxHeight /\ r.hash \in Seq(0..MaxHeight)

\* Every variable holds values of its type.
TypeOK ==
  /\ StateType(committed) /\ StateType(delta) /\ StateType(checked)
  /\ staged = <<>> \/ (Len(staged) = 1 /\ StateType(staged[1]))
  /\ request \in Requests
  /\ next \in 0..(MaxHeight + 1)
  /\ blocks \in Seq(SUBSET Validators) /\ Len(blocks) <= MaxHeight
  /\ valset \in [Validators -> {0, GenesisPower}]
  /\ DOMAIN reported = Heights
  /\ crashes \in 0..MaxCrashes

\* Whatever crashes, replays and concurrent CheckTx requests do, a state that
\* is committed or staged for commit has every block up to its height applied
\* exactly once, on top of InitChain.
ExactlyOnce ==
  \A s \in {committed} \cup {staged[i] : i \in DOMAIN staged} :
    /\ s.applied = Blocks(s.height)
    /\ s.height > 0 => s.init

\* All attempts at a block report the same app hash to CometBFT, and it is the
\* root hash of the storage once the block is committed.
OneAppHashPerBlock ==
  /\ \A h \in Heights : \A x, y \in reported[h] : x = y
  /\ committed.height > 0 => RootHash(committed) \in reported[committed.height]

\* The height Info reports at a handshake and the app hash it reports with it
\* belong to the same state, although one is read from memory and the other
\* from disk.
InfoConsistent ==
  request = "handshake" => InfoHeight = committed.height

\* The app hash recorded under height b - 1 is that of the state after block b,
\* for every block b below the current one: what blockstamps are checked
\* against survives crashes and replays.
RecordedAppHashes ==
  committed.recorded =
    {[height |-> b - 1, hash |-> Blocks(b)] : b \in 1..(committed.height - 1)}

\* Between blocks CometBFT counts every validator with the power it has in the
\* state, whatever crashes, replays and misbehaviour came before.
ValidatorsInStep ==
  request = "ready" => valset = delta.power

\* A commit adds exactly the next block; nothing else touches the disk.
CommitsInOrder ==
  [][committed'.applied = Append(committed.applied, committed.height + 1)]_committed

\* set_chain_id is asked to set the chain ID of a state only once.
ChainIdSetOnce ==
  request = "handshake" /\ InfoHeight = 0 => ~delta.init

\* Every block that CometBFT decides is eventually committed, if crashes cease,
\* unless the chain never gets past InitChain.
EventuallyCommitted ==
  <>[](committed.height = MaxHeight) \/ <>[](~ChainIdSetOnce)

=============================================================================
