--------------------------- MODULE AbciStoreProofs ---------------------------
(***************************************************************************)
(* Proofs about AbciStore, for any number of blocks, crashes, validators   *)
(* and reports of misbehaviour.  The disk only ever holds the state after  *)
(* some block, and what the in-memory state holds is determined by that    *)
(* block and by where the consensus connection is; the safety properties   *)
(* of the protocol follow.                                                 *)
(***************************************************************************)
EXTENDS AbciStore, TLAPS

----------------------------------------------------------------------------
(* The states that a node without failures goes through.                   *)

ChainState(init, height, applied, recorded, power) ==
  [init |-> init, height |-> height, applied |-> applied, recorded |-> recorded,
   power |-> power]

\* Names for the two values of the field init, which the provers leave folded.
Yes == TRUE
No == FALSE

FullPower == [v \in Validators |-> GenesisPower]
NoPower == [v \in Validators |-> 0]

\* The app hashes recorded by the time of block h.
HashesBefore(h) == {[height |-> b - 1, hash |-> Blocks(b)] : b \in 1..(h - 1)}

\* The state after InitChain and blocks 1 to h.
StateAfter(h) == ChainState(Yes, h, Blocks(h), HashesBefore(h), FullPower)

\* The same, with the app hash of block h recorded.
StateRecorded(h) == ChainState(Yes, h, Blocks(h), HashesBefore(h + 1), FullPower)

\* InitChain is written to disk with block 1 only.
OnDisk(h) == IF h = 0 THEN EmptyState ELSE StateAfter(h)

\* What assigning to fields of a chain state does.
LEMMA SetInit ==
  ASSUME NEW i, NEW h, NEW a, NEW r, NEW p, NEW x
  PROVE  [ChainState(i, h, a, r, p) EXCEPT !.init = x] = ChainState(x, h, a, r, p)
  BY DEF ChainState

LEMMA SetRecorded ==
  ASSUME NEW i, NEW h, NEW a, NEW r, NEW p, NEW x
  PROVE  [ChainState(i, h, a, r, p) EXCEPT !.recorded = x] = ChainState(i, h, a, x, p)
  BY DEF ChainState

LEMMA SetPower ==
  ASSUME NEW i, NEW h, NEW a, NEW r, NEW p, NEW x
  PROVE  [ChainState(i, h, a, r, p) EXCEPT !.power = x] = ChainState(i, h, a, r, x)
  BY DEF ChainState

LEMMA SetHeight ==
  ASSUME NEW i, NEW h, NEW a, NEW r, NEW p, NEW x
  PROVE  [ChainState(i, h, a, r, p) EXCEPT !.height = x] = ChainState(i, x, a, r, p)
  BY DEF ChainState

LEMMA SetApplied ==
  ASSUME NEW i, NEW h, NEW a, NEW r, NEW p, NEW x
  PROVE  [ChainState(i, h, a, r, p) EXCEPT !.applied = x] = ChainState(i, h, x, r, p)
  BY DEF ChainState

\* What reading a field of a chain state gives.
LEMMA ChainStateReads ==
  ASSUME NEW i, NEW h, NEW a, NEW r, NEW p
  PROVE  /\ ChainState(i, h, a, r, p).init = i
         /\ ChainState(i, h, a, r, p).height = h
         /\ ChainState(i, h, a, r, p).applied = a
         /\ ChainState(i, h, a, r, p).recorded = r
         /\ ChainState(i, h, a, r, p).power = p
  BY DEF ChainState

\* The empty state is one.
LEMMA EmptyIsChainState == EmptyState = ChainState(No, 0, <<>>, {}, NoPower)
  BY DEF EmptyState, ChainState, NoPower, No

\* The empty state, and the state after some block, field by field.
LEMMA StateReads ==
  /\ EmptyState.init = No /\ EmptyState.height = 0 /\ EmptyState.applied = <<>>
  /\ EmptyState.recorded = {} /\ EmptyState.power = NoPower
  /\ \A h : /\ StateAfter(h).init = Yes /\ StateAfter(h).height = h
            /\ StateAfter(h).applied = Blocks(h)
            /\ StateAfter(h).recorded = HashesBefore(h)
            /\ StateAfter(h).power = FullPower
  BY ChainStateReads, EmptyIsChainState DEF StateAfter

\* Nothing was applied after no block, and no app hash recorded after one.
LEMMA NoBlocks == Blocks(0) = <<>> /\ HashesBefore(0) = {} /\ HashesBefore(1) = {}
  BY DEF Blocks, HashesBefore

\* Block h + 1 comes after blocks 1 to h.
LEMMA OneMoreBlock ==
  ASSUME NEW h \in Nat
  PROVE  /\ Blocks(h) \in Seq(Nat) /\ Len(Blocks(h)) = h
         /\ Append(Blocks(h), h + 1) = Blocks(h + 1)
  BY DEF Blocks

\* InitChain on the empty state leads to the state before block 1.
LEMMA InitChainState == InitChain(EmptyState) = StateAfter(0)
<1>1. EmptyState = ChainState(No, 0, <<>>, {}, NoPower)
  BY EmptyIsChainState
<1> HIDE DEF EmptyState
<1>2. [EmptyState EXCEPT !.init = Yes] = ChainState(Yes, 0, <<>>, {}, NoPower)
  BY <1>1, SetInit
<1>3. DeclareValidators(ChainState(Yes, 0, <<>>, {}, NoPower))
        = ChainState(Yes, 0, <<>>, {}, FullPower)
  BY SetPower DEF DeclareValidators, FullPower
<1>4. InitChain(EmptyState) = DeclareValidators([EmptyState EXCEPT !.init = Yes])
  BY DEF InitChain, Yes
<1> QED
  BY <1>2, <1>3, <1>4, NoBlocks DEF StateAfter

\* record_app_hash on the state after block h.
LEMMA RecordState ==
  ASSUME NEW h \in Nat
  PROVE  WithAppHash(StateAfter(h), Blocks(h)) = StateRecorded(h)
<1> DEFINE s == StateAfter(h)
<1>0. s.height = h /\ s.recorded = HashesBefore(h)
  BY StateReads
<1> HIDE DEF s
<1>1. CASE h = 0
  <2>1. WithAppHash(s, Blocks(h)) = s
    BY <1>0, <1>1 DEF WithAppHash
  <2>2. HashesBefore(h) = HashesBefore(h + 1)
    BY <1>1 DEF HashesBefore
  <2> QED
    BY <2>1, <2>2 DEF s, StateAfter, StateRecorded
<1>2. CASE h > 0
  <2> DEFINE entry == [height |-> h - 1, hash |-> Blocks(h)]
  <2>1. {r \in HashesBefore(h) : r.height # entry.height} = HashesBefore(h)
    BY <1>2 DEF HashesBefore
  <2>2. HashesBefore(h) \cup {entry} = HashesBefore(h + 1)
    BY <1>2 DEF HashesBefore
  <2>3. WithAppHash(s, Blocks(h)) =
          [s EXCEPT !.recorded =
             {r \in HashesBefore(h) : r.height # entry.height} \cup {entry}]
    BY <1>0, <1>2 DEF WithAppHash
  <2> QED
    BY <2>1, <2>2, <2>3, SetRecorded DEF s, StateAfter, StateRecorded
<1> QED
  BY <1>1, <1>2

\* FinalizeBlock on that state.
LEMMA FinalizeState ==
  ASSUME NEW h \in Nat, NEW misbehavior
  PROVE  TombstoneValidators(
           [StateRecorded(h) EXCEPT !.height = h + 1, !.applied = Append(@, h + 1)],
           misbehavior) = StateAfter(h + 1)
<1>1. StateRecorded(h).applied = Blocks(h)
  BY ChainStateReads DEF StateRecorded
<1>2. [StateRecorded(h) EXCEPT !.height = h + 1, !.applied = Append(@, h + 1)]
        = [StateRecorded(h) EXCEPT !.height = h + 1, !.applied = Blocks(h + 1)]
  BY <1>1, OneMoreBlock
<1>3. [StateRecorded(h) EXCEPT !.height = h + 1, !.applied = Blocks(h + 1)]
        = StateAfter(h + 1)
  <2>1. [ChainState(Yes, h, Blocks(h), HashesBefore(h + 1), FullPower)
           EXCEPT !.height = h + 1, !.applied = Blocks(h + 1)]
          = ChainState(Yes, h + 1, Blocks(h + 1), HashesBefore(h + 1), FullPower)
    <3> DEFINE x == h + 1
               y == Blocks(x)
               r == HashesBefore(x)
               before == ChainState(Yes, h, Blocks(h), r, FullPower)
    <3> HIDE DEF x, y, r
    <3>1. [before EXCEPT !.height = x, !.applied = y]
            = [[before EXCEPT !.height = x] EXCEPT !.applied = y]
      BY DEF ChainState
    <3>2. [before EXCEPT !.height = x] = ChainState(Yes, x, Blocks(h), r, FullPower)
      BY SetHeight
    <3>3. [ChainState(Yes, x, Blocks(h), r, FullPower) EXCEPT !.applied = y]
            = ChainState(Yes, x, y, r, FullPower)
      BY SetApplied
    <3> QED
      BY <3>1, <3>2, <3>3 DEF x, y, r
  <2> QED
    BY <2>1 DEF StateRecorded, StateAfter
<1> QED
  BY <1>2, <1>3 DEF TombstoneValidators

----------------------------------------------------------------------------
(* The invariant: h is the height of the storage.                          *)

Decided == blocks \in Seq(SUBSET Validators) /\ Len(blocks) <= MaxHeight

\* The disk holds the state after block h, which CometBFT knows.
Disk(h) == h \in Nat /\ h <= Len(blocks) /\ committed = OnDisk(h)

\* A staged batch is that of the next block, and its app hash was reported.
Staging(h) ==
  \/ staged = <<>>
  \/ /\ staged = <<StateAfter(h + 1)>>
     /\ h + 1 <= Len(blocks)
     /\ RootHash(StateAfter(h + 1)) \in reported[h + 1]

\* What the in-memory state is, wherever the consensus connection is.
Memory(h) ==
  /\ request \in Requests
  /\ request = "handshake" => delta = OnDisk(h) \/ (h = 0 /\ delta = StateAfter(0))
  /\ request = "ready" => delta = StateAfter(h) /\ next = h + 1
  /\ request = "recorded" =>
       delta = StateRecorded(h) /\ next = h + 1 /\ next <= Len(blocks)
  /\ request = "delivered" =>
       delta = StateAfter(h + 1) /\ next = h + 1 /\ next <= Len(blocks)
  /\ request = "prepared" =>
       delta = OnDisk(h) /\ staged # <<>> /\ next = h + 1 /\ next <= Len(blocks)
  /\ request = "written" =>
       h > 0 /\ delta = OnDisk(h - 1) /\ staged = <<>> /\ next = h

\* Only the right app hash was ever reported, and that of block h was.
Reports(h) ==
  /\ DOMAIN reported = Heights
  /\ \A b \in Heights : reported[b] \subseteq {RootHash(StateAfter(b))}
  /\ h > 0 => RootHash(StateAfter(h)) \in reported[h]

\* CometBFT's validator set is that of the genesis file once it was told.
Powers(h) ==
  /\ valset \in {NoPower, FullPower}
  /\ h > 0 \/ request # "handshake" => valset = FullPower

Counters == next \in 0..(MaxHeight + 1) /\ crashes \in 0..MaxCrashes

Where(h) == Disk(h) /\ Staging(h) /\ Memory(h) /\ Reports(h) /\ Powers(h)

IndInv == Decided /\ Counters /\ StateType(checked) /\ \E h : Where(h)

----------------------------------------------------------------------------
(* Each step keeps the invariant, except for the fork of CheckTx.          *)

USE DEF Requests

LEMMA InitWhere == Init => Decided /\ Counters /\ Where(0)
<1> SUFFICES ASSUME Init PROVE Decided /\ Counters /\ Where(0)
  OBVIOUS
<1> USE DEF Init
<1>1. Decided /\ Counters
  BY BoundsAssumption DEF Decided, Counters
<1>2. Disk(0) /\ Staging(0)
  BY DEF Disk, Staging, OnDisk
<1>3. Memory(0)
  BY DEF Memory, OnDisk
<1>4. Reports(0)
  BY DEF Reports
<1>5. Powers(0)
  BY DEF Powers, NoPower
<1> QED
  BY <1>1, <1>2, <1>3, <1>4, <1>5 DEF Where

LEMMA HandshakeWhere ==
  ASSUME NEW h, Decided, Where(h), Handshake
  PROVE  Where(h)'
<1> USE DEF Where, Handshake, InfoHeight
<1>1. h \in Nat
  BY DEF Disk
<1>2. Disk(h)' /\ Staging(h)'
  BY DEF Disk, Staging
<1>3. Reports(h)'
  BY DEF Reports
<1>4. delta = OnDisk(h) \/ (h = 0 /\ delta = StateAfter(0))
  BY DEF Memory
<1>5. CASE h = 0
  <2>1. delta = EmptyState
    BY <1>4, <1>5, StateReads DEF OnDisk, Yes
  <2>2. delta' = StateAfter(0) /\ valset' = delta'.power /\ next' = 1
    BY <2>1, StateReads, InitChainState
  <2>3. Memory(h)'
    BY <1>5, <2>2 DEF Memory
  <2>4. Powers(h)'
    BY <2>2, StateReads DEF Powers
  <2> QED
    BY <1>2, <1>3, <2>3, <2>4
<1>6. CASE h > 0
  <2>1. delta = StateAfter(h) /\ delta.height = h
    BY <1>1, <1>4, <1>6, StateReads DEF OnDisk
  <2>2. delta' = StateAfter(h) /\ valset' = valset /\ next' = h + 1
    BY <1>1, <1>6, <2>1
  <2>3. Memory(h)'
    BY <2>2 DEF Memory
  <2>4. Powers(h)'
    BY <1>6, <2>2 DEF Powers
  <2> QED
    BY <1>2, <1>3, <2>3, <2>4
<1> QED
  BY <1>1, <1>5, <1>6

LEMMA DecideBlockWhere ==
  ASSUME NEW h, Decided, Where(h), NEW misbehavior \in SUBSET Validators,
         DecideBlock(misbehavior)
  PROVE  Where(h)' /\ Decided'
<1> USE DEF Where, DecideBlock, store
<1>1. Len(blocks') = Len(blocks) + 1 /\ blocks' \in Seq(SUBSET Validators)
  BY DEF Decided
<1>2. Decided'
  BY <1>1, BoundsAssumption DEF Decided, Heights
<1>3. Disk(h)' /\ Staging(h)'
  BY <1>1 DEF Disk, Staging, Decided
<1>4. Memory(h)'
  BY DEF Memory
<1>5. Reports(h)' /\ Powers(h)'
  BY DEF Reports, Powers
<1> QED
  BY <1>2, <1>3, <1>4, <1>5

LEMMA RecordAppHashWhere ==
  ASSUME NEW h, Where(h), RecordAppHash
  PROVE  Where(h)'
<1> USE DEF Where, RecordAppHash
<1>1. h \in Nat /\ delta = StateAfter(h) /\ next = h + 1
  BY DEF Disk, Memory
<1>2. committed.applied = Blocks(h)
  BY StateReads, NoBlocks DEF Disk, OnDisk
<1>3. delta' = StateRecorded(h)
  BY <1>1, <1>2, RecordState
<1>4. Memory(h)'
  BY <1>1, <1>3 DEF Memory
<1> QED
  BY <1>4 DEF Disk, Staging, Reports, Powers

LEMMA FinalizeBlockWhere ==
  ASSUME NEW h, Where(h), FinalizeBlock
  PROVE  Where(h)'
<1> USE DEF Where, FinalizeBlock
<1>1. h \in Nat /\ delta = StateRecorded(h) /\ next = h + 1 /\ next <= Len(blocks)
  BY DEF Disk, Memory
<1>2. delta' = StateAfter(h + 1)
  BY <1>1, FinalizeState
<1>3. Memory(h)'
  BY <1>1, <1>2 DEF Memory
<1> QED
  BY <1>3 DEF Disk, Staging, Reports, Powers

\* The validators' updates in FinalizeBlock's response give every one its power.
LEMMA UpdatesInStep ==
  ASSUME NEW h, MergeUpdates(StateAfter(h))
  PROVE  valset' = FullPower
<1>1. StateAfter(h).power = FullPower
  BY StateReads
<1>2. ActiveValidators(StateAfter(h)) = Validators
  BY <1>1, PowerAssumption DEF ActiveValidators, FullPower
<1>3. valset' = [v \in Validators |-> StateAfter(h).power[v]]
  BY <1>2 DEF MergeUpdates
<1> QED
  BY <1>1, <1>3 DEF FullPower

LEMMA PrepareCommitWhere ==
  ASSUME NEW h, Decided, Where(h), PrepareCommit
  PROVE  Where(h)'
<1> USE DEF Where, PrepareCommit
<1>1. /\ h \in Nat /\ committed = OnDisk(h)
      /\ delta = StateAfter(h + 1) /\ next = h + 1 /\ next <= Len(blocks)
  BY DEF Disk, Memory
<1>2. next \in Heights /\ Len(blocks) \in Nat
  BY <1>1, BoundsAssumption DEF Heights, Decided
<1> DEFINE root == RootHash(StateAfter(h + 1))
<1>3. reported' = [reported EXCEPT ![h + 1] = @ \cup {root}]
  BY <1>1
<1> HIDE DEF root
<1>4. /\ DOMAIN reported' = Heights
      /\ reported'[h + 1] = reported[h + 1] \cup {root}
      /\ \A b \in Heights \ {h + 1} : reported'[b] = reported[b]
  BY <1>1, <1>2, <1>3 DEF Reports
<1>5. Staging(h)'
  BY <1>1, <1>4 DEF Staging, root
<1>6. Reports(h)'
  <2>1. ASSUME NEW b \in Heights PROVE reported'[b] \subseteq {RootHash(StateAfter(b))}
    <3>1. CASE b = h + 1
      BY <3>1, <1>4 DEF Reports, root
    <3>2. CASE b # h + 1
      BY <3>2, <1>4 DEF Reports
    <3> QED
      BY <3>1, <3>2
  <2>2. h > 0 => h \in Heights \ {h + 1}
    BY <1>1, <1>2, BoundsAssumption DEF Heights
  <2> QED
    BY <1>4, <2>1, <2>2 DEF Reports
<1>7. Memory(h)'
  BY <1>1 DEF Memory
<1>8. Powers(h)'
  BY <1>1, UpdatesInStep DEF Powers
<1> QED
  BY <1>1, <1>5, <1>6, <1>7, <1>8 DEF Disk

LEMMA CommitBatchWhere ==
  ASSUME NEW h, Where(h), CommitBatch
  PROVE  Where(h + 1)' /\ committed = OnDisk(h) /\ committed' = StateAfter(h + 1)
<1> USE DEF Where, CommitBatch
<1>1. /\ h \in Nat /\ committed = OnDisk(h)
      /\ delta = OnDisk(h) /\ next = h + 1 /\ next <= Len(blocks)
  BY DEF Disk, Memory
<1>2. /\ staged = <<StateAfter(h + 1)>>
      /\ RootHash(StateAfter(h + 1)) \in reported[h + 1]
  BY DEF Staging
<1>3. committed' = StateAfter(h + 1)
  BY <1>2
<1>4. Disk(h + 1)'
  BY <1>1, <1>3 DEF Disk, OnDisk
<1>5. Memory(h + 1)'
  BY <1>1 DEF Memory
<1>6. Staging(h + 1)' /\ Reports(h + 1)'
  BY <1>2 DEF Staging, Reports
<1>7. Powers(h + 1)'
  BY DEF Powers
<1> QED
  BY <1>1, <1>3, <1>4, <1>5, <1>6, <1>7

LEMMA RenewDeltaWhere ==
  ASSUME NEW h, Where(h), RenewDelta
  PROVE  Where(h)'
<1> USE DEF Where, RenewDelta
<1>1. h \in Nat /\ h > 0 /\ committed = OnDisk(h) /\ next = h
  BY DEF Disk, Memory
<1>2. Memory(h)'
  BY <1>1 DEF Memory, OnDisk
<1> QED
  BY <1>2 DEF Disk, Staging, Reports, Powers

LEMMA CrashWhere ==
  ASSUME NEW h, Where(h), Crash
  PROVE  Where(h)'
<1> USE DEF Where, Crash
<1>1. Memory(h)' /\ Staging(h)'
  BY DEF Disk, Memory, Staging
<1> QED
  BY <1>1 DEF Disk, Reports, Powers

LEMMA CometRestartWhere ==
  ASSUME NEW h, Where(h), CometRestart
  PROVE  Where(h)'
<1> USE DEF Where, CometRestart, store
<1>1. Memory(h)'
  BY DEF Memory, OnDisk
<1> QED
  BY <1>1 DEF Disk, Staging, Reports, Powers

LEMMA IdleWhere ==
  ASSUME NEW h, Where(h), UNCHANGED <<store, request, next, blocks, valset, reported>>
  PROVE  Where(h)'
  BY DEF Where, store, Disk, Staging, Memory, Reports, Powers

----------------------------------------------------------------------------
(* Types.                                                                  *)

\* Blocks and app hashes up to the bound have their types.
LEMMA HistoryTyped ==
  ASSUME NEW h \in Int, 0 <= h, h <= MaxHeight
  PROVE  /\ Blocks(h) \in Seq(0..MaxHeight)
         /\ \A k \in Int : k <= h + 1 =>
              \A r \in HashesBefore(k) :
                r.height \in 0..MaxHeight /\ r.hash \in Seq(0..MaxHeight)
<1>1. ASSUME NEW b \in Int, 0 <= b, b <= MaxHeight PROVE Blocks(b) \in Seq(0..MaxHeight)
  BY <1>1, BoundsAssumption DEF Blocks
<1>2. ASSUME NEW k \in Int, k <= h + 1, NEW r \in HashesBefore(k)
      PROVE  r.height \in 0..MaxHeight /\ r.hash \in Seq(0..MaxHeight)
  <2>1. PICK b \in 1..(k - 1) : r = [height |-> b - 1, hash |-> Blocks(b)]
    BY DEF HashesBefore
  <2>2. b \in Int /\ 0 <= b /\ b <= MaxHeight /\ b - 1 \in 0..MaxHeight
    BY <1>2, BoundsAssumption
  <2> QED
    BY <1>1, <2>1, <2>2
<1> QED
  BY <1>1, <1>2

LEMMA StatesTyped ==
  ASSUME NEW h \in Int, 0 <= h, h <= MaxHeight
  PROVE  StateType(StateAfter(h)) /\ StateType(StateRecorded(h)) /\ StateType(EmptyState)
<1>1. {FullPower, NoPower} \subseteq [Validators -> {0, GenesisPower}]
  BY DEF FullPower, NoPower
<1>2. h \in 0..MaxHeight /\ 0 \in 0..MaxHeight /\ <<>> \in Seq(0..MaxHeight)
  BY BoundsAssumption
<1>3. /\ Blocks(h) \in Seq(0..MaxHeight)
      /\ \A k \in {h, h + 1} : \A r \in HashesBefore(k) :
           r.height \in 0..MaxHeight /\ r.hash \in Seq(0..MaxHeight)
  BY HistoryTyped
<1>4. Yes \in BOOLEAN /\ No \in BOOLEAN
  BY DEF Yes, No
<1>5. StateType(StateAfter(h))
  BY <1>1, <1>2, <1>3, <1>4, StateReads DEF StateType
<1>6. StateType(EmptyState)
  BY <1>1, <1>2, <1>4, StateReads DEF StateType
<1>7. StateType(StateRecorded(h))
  BY <1>1, <1>2, <1>3, <1>4, ChainStateReads DEF StateType, StateRecorded
<1> QED
  BY <1>5, <1>6, <1>7

\* The storage, the in-memory state and the staged batch have their types.
LEMMA StoreTyped ==
  ASSUME NEW h, Decided, Where(h)
  PROVE  /\ StateType(committed) /\ StateType(delta)
         /\ staged = <<>> \/ (Len(staged) = 1 /\ StateType(staged[1]))
<1>1. /\ h \in Int /\ 0 <= h /\ h <= Len(blocks)
      /\ Len(blocks) \in Int /\ Len(blocks) <= MaxHeight
  BY DEF Where, Disk, Decided
<1>2. MaxHeight \in Int
  BY BoundsAssumption
<1>3. StateType(StateAfter(h)) /\ StateType(StateRecorded(h)) /\ StateType(EmptyState)
  BY <1>1, <1>2, StatesTyped
<1>4. h + 1 <= Len(blocks) => StateType(StateAfter(h + 1))
  BY <1>1, <1>2, StatesTyped
<1>5. StateType(committed)
  BY <1>3 DEF Where, Disk, OnDisk
<1>6. StateType(delta)
  <2>1. h > 0 => StateType(OnDisk(h - 1))
    BY <1>1, <1>2, <1>3, StatesTyped DEF OnDisk
  <2> QED
    BY <1>3, <1>4, <2>1 DEF Where, Memory, OnDisk
<1>7. staged = <<>> \/ (Len(staged) = 1 /\ StateType(staged[1]))
  BY <1>4 DEF Where, Staging
<1> QED
  BY <1>5, <1>6, <1>7

\* A fork on which a transaction ran has the type of a state.
LEMMA ForkTyped ==
  ASSUME NEW h, Decided, Where(h), request # "handshake"
  PROVE  StateType([delta EXCEPT !.applied = Append(@, 0)])
<1>1. \E i, k, a, r, p : delta = ChainState(i, k, a, r, p)
  BY EmptyIsChainState DEF Where, Memory, OnDisk, StateAfter, StateRecorded
<1>2. PICK i, k, a, r, p : delta = ChainState(i, k, a, r, p)
  BY <1>1
<1> DEFINE longer == Append(a, 0)
           fork == ChainState(i, k, longer, r, p)
<1>3. [delta EXCEPT !.applied = Append(@, 0)] = fork
  <2>1. delta.applied = a
    BY <1>2, ChainStateReads
  <2> HIDE DEF longer
  <2>2. [delta EXCEPT !.applied = longer] = fork
    BY <1>2, SetApplied
  <2> QED
    BY <2>1, <2>2 DEF longer
<1>4. StateType(ChainState(i, k, a, r, p))
  BY <1>2, StoreTyped
<1>5. longer \in Seq(0..MaxHeight)
  BY <1>4, ChainStateReads, BoundsAssumption DEF StateType
<1> HIDE DEF longer
<1>6. StateType(fork)
  BY <1>4, <1>5, ChainStateReads DEF StateType
<1> QED
  BY <1>3, <1>6

----------------------------------------------------------------------------
(* The invariant is inductive.                                             *)

\* Outside a handshake the next block is determined by the storage's height.
LEMMA CountersFollow ==
  ASSUME NEW h, Decided', Where(h)', Counters,
         request' = "handshake" => next' = next, crashes' \in 0..MaxCrashes
  PROVE  Counters'
<1>1. /\ h \in Nat /\ h <= Len(blocks') /\ Len(blocks') \in Nat /\ Len(blocks') <= MaxHeight
      /\ MaxHeight \in Nat
  BY BoundsAssumption DEF Where, Disk, Decided
<1>2. request' # "handshake" => next' \in {h, h + 1}
  BY DEF Where, Memory
<1>3. next' \in 0..(MaxHeight + 1)
  BY <1>1, <1>2 DEF Counters
<1> QED
  BY <1>3 DEF Counters

LEMMA Inductive == IndInv /\ [Next]_vars => IndInv'
<1> SUFFICES ASSUME IndInv, [Next]_vars PROVE IndInv'
  OBVIOUS
<1>0. PICK h : Where(h)
  BY DEF IndInv
<1> USE DEF IndInv
<1>a. 0 \in 0..MaxCrashes /\ crashes \in 0..MaxCrashes /\ MaxCrashes \in Nat
  BY BoundsAssumption DEF Counters
<1>1. CASE Handshake
  <2>1. Where(h)' /\ Decided'
    BY <1>0, <1>1, HandshakeWhere DEF Handshake, Decided
  <2> QED
    BY <1>1, <1>a, <2>1, CountersFollow DEF Handshake, StateType
<1>2. CASE \E misbehavior \in SUBSET Validators : DecideBlock(misbehavior)
  <2>1. Where(h)' /\ Decided'
    BY <1>0, <1>2, DecideBlockWhere
  <2> QED
    BY <1>2, <2>1 DEF DecideBlock, StateType, Counters
<1>3. CASE RecordAppHash
  <2>1. Where(h)'
    BY <1>0, <1>3, RecordAppHashWhere
  <2> QED
    BY <1>3, <2>1 DEF RecordAppHash, StateType, Counters, Decided
<1>4. CASE FinalizeBlock
  <2>1. Where(h)'
    BY <1>0, <1>4, FinalizeBlockWhere
  <2> QED
    BY <1>4, <2>1 DEF FinalizeBlock, StateType, Counters, Decided
<1>5. CASE PrepareCommit
  <2>1. Where(h)'
    BY <1>0, <1>5, PrepareCommitWhere
  <2> QED
    BY <1>5, <2>1 DEF PrepareCommit, StateType, Counters, Decided
<1>6. CASE CommitBatch
  <2>1. Where(h + 1)'
    BY <1>0, <1>6, CommitBatchWhere
  <2> QED
    BY <1>6, <2>1 DEF CommitBatch, StateType, Counters, Decided
<1>7. CASE RenewDelta
  <2>1. Where(h)' /\ Decided'
    BY <1>0, <1>7, RenewDeltaWhere DEF RenewDelta, Decided
  <2> QED
    BY <1>7, <1>a, <2>1, CountersFollow DEF RenewDelta, StateType
<1>8. CASE CheckTx
  <2>1. Where(h)'
    BY <1>0, <1>8, IdleWhere DEF CheckTx
  <2>2. StateType(checked)'
    BY <1>0, <1>8, ForkTyped DEF CheckTx, StateType
  <2> QED
    BY <1>8, <2>1, <2>2 DEF CheckTx, Counters, Decided
<1>9. CASE Crash
  <2>1. Where(h)' /\ Decided'
    BY <1>0, <1>9, CrashWhere DEF Crash, Decided
  <2>2. StateType(checked)'
    BY <1>0, <1>9, StoreTyped DEF Crash, StateType
  <2> QED
    BY <1>9, <1>a, <2>1, <2>2 DEF Crash, Counters
<1>10. CASE CometRestart
  <2>1. Where(h)' /\ Decided'
    BY <1>0, <1>10, CometRestartWhere DEF CometRestart, Decided
  <2> QED
    BY <1>10, <1>a, <2>1 DEF CometRestart, StateType, Counters
<1>11. CASE UNCHANGED vars
  <2>1. Where(h)'
    BY <1>0, <1>11, IdleWhere DEF vars
  <2> QED
    BY <1>11, <2>1 DEF vars, StateType, Counters, Decided
<1> QED
  BY <1>1, <1>2, <1>3, <1>4, <1>5, <1>6, <1>7, <1>8, <1>9, <1>10, <1>11 DEF Next

LEMMA Invariance == Spec => []IndInv
<1>1. Init => IndInv
  <2>1. Init => StateType(checked)
    BY StatesTyped, BoundsAssumption DEF Init
  <2> QED
    BY <2>1, InitWhere DEF IndInv
<1> QED
  BY <1>1, Inductive, PTL DEF Spec

----------------------------------------------------------------------------
(* What follows.                                                           *)

\* Every variable of the store, of the ABCI service and of CometBFT's side has
\* its type in every reachable state.
THEOREM TypeCorrect == Spec => []TypeOK
<1>1. IndInv => TypeOK
  <2> SUFFICES ASSUME IndInv PROVE TypeOK
    OBVIOUS
  <2>1. PICK h : Where(h)
    BY DEF IndInv
  <2>2. /\ StateType(committed) /\ StateType(delta)
        /\ staged = <<>> \/ (Len(staged) = 1 /\ StateType(staged[1]))
    BY <2>1, StoreTyped DEF IndInv
  <2>3. valset \in [Validators -> {0, GenesisPower}]
    BY <2>1 DEF Where, Powers, NoPower, FullPower
  <2>4. request \in Requests /\ DOMAIN reported = Heights
    BY <2>1 DEF Where, Memory, Reports
  <2> QED
    BY <2>2, <2>3, <2>4 DEF IndInv, Decided, Counters, TypeOK
<1> QED
  BY <1>1, Invariance, PTL

\* Whatever crashes, restarts and replays happen, every block up to the height
\* of a committed or staged state was applied to it exactly once.
THEOREM AppliedExactlyOnce == Spec => []ExactlyOnce
<1>1. IndInv => ExactlyOnce
  <2> SUFFICES ASSUME IndInv,
                      NEW s \in {committed} \cup {staged[i] : i \in DOMAIN staged}
               PROVE  s.applied = Blocks(s.height) /\ (s.height > 0 => s.init)
    BY DEF ExactlyOnce
  <2>1. PICK h : Where(h)
    BY DEF IndInv
  <2>2. \A i \in DOMAIN staged : staged[i] = StateAfter(h + 1)
    BY <2>1 DEF Where, Staging
  <2>3. s \in {EmptyState, StateAfter(h), StateAfter(h + 1)}
    BY <2>1, <2>2 DEF Where, Disk, OnDisk
  <2>4. s.applied = Blocks(s.height)
    BY <2>3, StateReads, NoBlocks
  <2>5. s.height > 0 => s.init
    BY <2>3, StateReads DEF Yes
  <2> QED
    BY <2>4, <2>5
<1> QED
  BY <1>1, Invariance, PTL

\* All attempts at a block report one app hash, that of the committed state.
THEOREM OneAppHash == Spec => []OneAppHashPerBlock
<1>1. IndInv => OneAppHashPerBlock
  <2> SUFFICES ASSUME IndInv PROVE OneAppHashPerBlock
    OBVIOUS
  <2>1. PICK h : Where(h)
    BY DEF IndInv
  <2>2. \A b \in Heights : \A x, y \in reported[b] : x = y
    BY <2>1 DEF Where, Reports
  <2>3. committed.height > 0 => RootHash(committed) \in reported[committed.height]
    <3>1. CASE h = 0
      BY <2>1, <3>1, StateReads DEF Where, Disk, OnDisk
    <3>2. CASE h # 0
      <4>1. committed = StateAfter(h) /\ committed.height = h /\ h > 0
        BY <2>1, <3>2, StateReads DEF Where, Disk, OnDisk
      <4> QED
        BY <2>1, <4>1 DEF Where, Reports
    <3> QED
      BY <3>1, <3>2
  <2> QED
    BY <2>2, <2>3 DEF OneAppHashPerBlock
<1> QED
  BY <1>1, Invariance, PTL

\* At a handshake Info's height, from memory, is that of the storage, whose app
\* hash it returns.
THEOREM InfoIsConsistent == Spec => []InfoConsistent
<1>1. IndInv => InfoConsistent
  <2> SUFFICES ASSUME IndInv, request = "handshake" PROVE InfoHeight = committed.height
    BY DEF InfoConsistent
  <2>1. PICK h : Where(h)
    BY DEF IndInv
  <2> QED
    BY <2>1, StateReads DEF Where, Disk, Memory, OnDisk, InfoHeight
<1> QED
  BY <1>1, Invariance, PTL

\* The committed state has recorded the app hash of every earlier block, under
\* the height before it.
THEOREM HashesAreRecorded == Spec => []RecordedAppHashes
<1>1. IndInv => RecordedAppHashes
  <2> SUFFICES ASSUME IndInv PROVE committed.recorded = HashesBefore(committed.height)
    BY DEF RecordedAppHashes, HashesBefore
  <2>1. PICK h : Where(h)
    BY DEF IndInv
  <2> QED
    BY <2>1, StateReads, NoBlocks DEF Where, Disk, OnDisk
<1> QED
  BY <1>1, Invariance, PTL

\* Between blocks CometBFT's validator set is that of the application's state.
THEOREM PowersAgree == Spec => []ValidatorsInStep
<1>1. IndInv => ValidatorsInStep
  <2> SUFFICES ASSUME IndInv, request = "ready" PROVE valset = delta.power
    BY DEF ValidatorsInStep
  <2>1. PICK h : Where(h)
    BY DEF IndInv
  <2> QED
    BY <2>1, StateReads DEF Where, Memory, Powers
<1> QED
  BY <1>1, Invariance, PTL

\* A commit adds the next block to the storage, and nothing else changes it.
THEOREM CommitsAreInOrder == Spec => CommitsInOrder
<1>1. IndInv /\ [Next]_vars
        => [committed'.applied = Append(committed.applied, committed.height + 1)]_committed
  <2> SUFFICES ASSUME IndInv, [Next]_vars, committed' # committed
               PROVE  committed'.applied = Append(committed.applied, committed.height + 1)
    OBVIOUS
  <2>1. PICK h : Where(h)
    BY DEF IndInv
  <2>2. CommitBatch
    BY DEF Next, vars, store, Handshake, DecideBlock, RecordAppHash, FinalizeBlock,
           PrepareCommit, RenewDelta, CheckTx, Crash, CometRestart
  <2>3. h \in Nat /\ committed = OnDisk(h) /\ committed' = StateAfter(h + 1)
    BY <2>1, <2>2, CommitBatchWhere DEF Where, Disk
  <2>4. committed.applied = Blocks(h) /\ committed.height = h
    BY <2>3, StateReads, NoBlocks DEF OnDisk
  <2> QED
    BY <2>3, <2>4, StateReads, OneMoreBlock
<1> QED
  BY <1>1, Invariance, PTL DEF Spec, CommitsInOrder

=============================================================================
