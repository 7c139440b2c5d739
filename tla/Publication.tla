---------------------------- MODULE Publication ----------------------------
(***************************************************************************)
(* felidae-publish: the command-line client that prints or verifies a      *)
(* light block, or reconstructs the canonical tree from its leaves and     *)
(* compares it with the app hash of the chain.                             *)
(*                                                                         *)
(* The client talks to two servers, which may be different nodes and lag   *)
(* behind the chain: the query server, whose leaves come from the newest   *)
(* committed snapshot of its node, and CometBFT's RPC, which serves the    *)
(* blocks its node knows.  Blocks go on being decided between the client's *)
(* requests, and each request may fail.                                    *)
(*                                                                         *)
(* A canonical tree is its set of leaves.  Root hashes tell states apart:  *)
(* the app hash after block h is the pair of h and the leaves.             *)
(***************************************************************************)
EXTENDS Integers, Sequences, Functions

CONSTANTS
  Leaf,         \* entries of the canonical tree
  Validators,   \* the validator set
  Power,        \* the voting power of each
  MaxAttempts,  \* polls for the next block (60 in the code)
  Timeout,      \* tries for a commit before a fetch gives up
  MaxHeight     \* bound: number of blocks decided

\* The voting power of a set of validators.
PowerOf(S) == SumFunctionOnSet(Power, S)

\* The last conjunct follows from the one before it by induction on the set.
ASSUME PublicationAssumption ==
  /\ MaxAttempts \in Nat \ {0}
  /\ Timeout \in Nat
  /\ MaxHeight \in Nat
  /\ Power \in [Validators -> Nat]
  /\ \A S \in SUBSET Validators : PowerOf(S) \in Nat

VARIABLES
  canonical,   \* the chain: canonical[h] is the set of leaves after block h
  rpc,         \* latest_block_height of the RPC node
  app,         \* height of the query server's latest snapshot
  command,     \* the subcommand that runs
  step,        \* the request it makes next
  goal,        \* which light block it is after
  height,      \* the height of that block
  page,        \* the answer of /canonical/leaves
  seen,        \* latest_block_height in the status that came with the block
  signatures,  \* the commit of the light block that was to be verified
  waited,      \* tries for the commit so far
  attempts,    \* polls for the next block so far
  outcome      \* how the command ended

chain == <<canonical, rpc, app>>
fetch == <<height, seen, waited>>
client == <<command, step, goal, fetch, page, signatures, attempts, outcome>>
vars == <<chain, client>>

Heights == 0..(MaxHeight + 1)
Commands == {"none", "print", "verify", "reconstruct"}
Steps == {"idle", "latest", "leaves", "status", "commit", "done"}
Goals == {"target", "poll", "direct"}
Outcomes == {"none", "ok", "failed", "no_height", "unverified", "mismatch",
             "store_error", "root_mismatch", "no_proof"}

\* A slot of a commit: no vote, a vote for nil, a vote for the block, or one
\* whose signature is missing or does not verify.
Flags == {"absent", "nil", "commit", "invalid"}

\* A commit fits if it has one slot for each validator of the set that came with it
\* and names the height and the hash of the header that came with it.
Commits == [fits : BOOLEAN, slots : [Validators -> Flags]]

NoCommit == [fits |-> FALSE, slots |-> [v \in Validators |-> "absent"]]

NoPage == [height |-> 0, leaves |-> {}, root |-> {}, appHash |-> <<0, {}>>]

Init ==
  /\ canonical = <<>> /\ rpc = 0 /\ app = 0
  /\ command = "none" /\ step = "idle" /\ goal = "target"
  /\ height = 0 /\ seen = 0 /\ waited = 0
  /\ page = NoPage
  /\ signatures = NoCommit
  /\ attempts = 0
  /\ outcome = "none"

----------------------------------------------------------------------------
(* The nodes.                                                              *)

DecideBlock ==
  /\ Len(canonical) < MaxHeight
  /\ \E leaves \in SUBSET Leaf : canonical' = Append(canonical, leaves)
  /\ UNCHANGED <<rpc, app, client>>

RpcNodeAdvances ==
  /\ rpc < Len(canonical)
  /\ rpc' = rpc + 1
  /\ UNCHANGED <<canonical, app, client>>

QueryNodeAdvances ==
  /\ app < Len(canonical)
  /\ app' = app + 1
  /\ UNCHANGED <<canonical, rpc, client>>

\* The root hash of the state after block h.
AppHash(h) == <<h, IF h = 0 THEN {} ELSE canonical[h]>>

\* A block header holds the app hash of the state before the block.
HeaderAppHash(h) == AppHash(h - 1)

\* The answer of /canonical/leaves: height, roots and leaves of one snapshot.
\* It comes with a Merkle proof when there is a leaf to prove.
CanonicalLeaves(h) ==
  [height |-> h, leaves |-> canonical[h], root |-> canonical[h], appHash |-> AppHash(h)]

----------------------------------------------------------------------------
(* Verification of a light block.                                          *)

Total == PowerOf(Validators)

\* Mutant: two thirds are enough.
MutantEnoughPower(tallied) == tallied >= (Total * 2) \div 3

EnoughPower(tallied) == tallied > (Total * 2) \div 3

\* A commit that does not fit is refused.  Slots without a vote for the block are
\* skipped, a bad signature is an error.
VerifyLightBlock(s) ==
  /\ s.fits
  /\ \A v \in Validators : s.slots[v] # "invalid"
  /\ EnoughPower(PowerOf({v \in Validators : s.slots[v] = "commit"}))

----------------------------------------------------------------------------
(* Fetching a light block.                                                 *)

Finish(result) ==
  /\ step' = "done"
  /\ outcome' = result

\* print or verify, of the block at a given height or of the latest one.
StartLightBlock ==
  /\ step = "idle"
  /\ command' \in {"print", "verify"}
  /\ \/ /\ height' \in 0..MaxHeight
        /\ step' = "status"
     \/ /\ step' = "latest"
        /\ UNCHANGED height
  /\ UNCHANGED <<chain, goal, seen, waited, page, signatures, attempts, outcome>>

GetLatestHeight ==
  /\ step = "latest"
  /\ height' = rpc
  /\ step' = "status"
  /\ UNCHANGED <<chain, command, goal, seen, waited, page, signatures, attempts, outcome>>

\* The status is used with the first light block only.
GetStatus ==
  /\ step = "status"
  /\ seen' = IF goal = "target" THEN rpc ELSE seen
  /\ waited' = 0
  /\ step' = "commit"
  /\ UNCHANGED <<chain, command, goal, height, page, signatures, attempts, outcome>>

\* The block is not there yet, or the request failed: sleep and try again.
RetryCommit ==
  /\ step = "commit" /\ waited <= Timeout
  /\ waited' = waited + 1
  /\ UNCHANGED <<chain, command, step, goal, height, seen, page, signatures, attempts, outcome>>

\* The RPC node answers with the commit and the validators of the height.
Fetched == step = "commit" /\ waited <= Timeout /\ height \in 1..rpc

\* Mutant: failed polls are not counted.
MutantFetchFails ==
  /\ \/ step \in {"latest", "leaves", "status"}
     \/ step = "commit" /\ waited > Timeout
     \/ Fetched
  /\ IF goal = "poll"
     THEN step' = "status" /\ UNCHANGED <<attempts, outcome>>
     ELSE Finish("failed") /\ UNCHANGED attempts
  /\ UNCHANGED <<chain, command, goal, fetch, page, signatures>>

\* The commit did not come in time, or another request failed.  Polling for the
\* next block starts over until the attempts are used up.  The request for the
\* leaves can fail, but it need not: it has no timeout and may stay unanswered.
FetchFails ==
  /\ \/ step \in {"latest", "leaves", "status"}
     \/ step = "commit" /\ waited > Timeout
     \/ Fetched
  /\ attempts' = IF goal = "poll" THEN attempts + 1 ELSE attempts
  /\ IF goal = "poll" /\ attempts' < MaxAttempts
     THEN step' = "status" /\ UNCHANGED outcome
     ELSE Finish("failed")
  /\ UNCHANGED <<chain, command, goal, fetch, page, signatures>>

----------------------------------------------------------------------------
(* The commands.                                                           *)

PrintBlock ==
  /\ command = "print" /\ Fetched
  /\ Finish("ok")
  /\ UNCHANGED <<chain, command, goal, fetch, page, signatures, attempts>>

Verify ==
  /\ command = "verify" /\ Fetched
  /\ signatures' \in Commits
  /\ Finish(IF VerifyLightBlock(signatures') THEN "ok" ELSE "unverified")
  /\ UNCHANGED <<chain, command, goal, fetch, page, attempts>>

StartReconstruct ==
  /\ step = "idle"
  /\ command' = "reconstruct"
  /\ step' = "leaves"
  /\ UNCHANGED <<chain, goal, fetch, page, signatures, attempts, outcome>>

\* The snapshot has no block height before the first block is committed.
FetchLeaves ==
  /\ step = "leaves"
  /\ IF app = 0
     THEN Finish("no_height") /\ UNCHANGED <<height, page>>
     ELSE /\ page' = CanonicalLeaves(app)
          /\ height' = app
          /\ step' = "status"
          /\ UNCHANGED outcome
  /\ UNCHANGED <<chain, command, goal, seen, waited, signatures, attempts>>

\* Mutant: the header of the block itself is taken.
MutantNextBlockHeight == height

NextBlockHeight == height + 1

\* Mutant: the latest block is taken for one that has a successor.
MutantIsLatest == height > seen

IsLatest == height >= seen

VerifyTarget ==
  /\ command = "reconstruct" /\ goal = "target" /\ Fetched
  /\ signatures' \in Commits
  /\ IF VerifyLightBlock(signatures')
     THEN /\ goal' = IF IsLatest THEN "poll" ELSE "direct"
          /\ height' = NextBlockHeight
          /\ step' = "status"
          /\ UNCHANGED outcome
     ELSE Finish("unverified") /\ UNCHANGED <<goal, height>>
  /\ UNCHANGED <<chain, command, seen, waited, page, attempts>>

\* The temporary store of the reconstruction: a delta and the staged batch.
StoreInit == [delta |-> {}, staged |-> <<>>, committed |-> {}]
PutRaw(s, leaves) == [s EXCEPT !.delta = @ \cup leaves]
CanCommit(s) == s.staged # <<>>
Commit(s) == [s EXCEPT !.committed = s.staged[1], !.staged = <<>>]

\* The representative key is in the leaves and its proof leads to the app hash.
MerkleProofVerifies(p) == p.leaves # {} /\ p.appHash[2] = p.root

Rebuild(p) ==
  LET filled == PutRaw(StoreInit, p.leaves)
  IN  IF ~CanCommit(filled) THEN "store_error"
      ELSE IF Commit(filled).committed # p.root THEN "root_mismatch"
      ELSE IF ~MerkleProofVerifies(p) THEN "no_proof"
      ELSE "ok"

CompareAppHash ==
  /\ goal # "target" /\ Fetched
  /\ Finish(IF HeaderAppHash(height) = page.appHash THEN Rebuild(page) ELSE "mismatch")
  /\ UNCHANGED <<chain, command, goal, fetch, page, signatures, attempts>>

----------------------------------------------------------------------------
Client ==
  \/ GetLatestHeight \/ FetchLeaves \/ GetStatus
  \/ RetryCommit \/ FetchFails
  \/ PrintBlock \/ Verify \/ VerifyTarget \/ CompareAppHash

Next ==
  \/ DecideBlock \/ RpcNodeAdvances \/ QueryNodeAdvances
  \/ StartLightBlock \/ StartReconstruct
  \/ Client

\* A request to the RPC node is answered or fails, for its client has a timeout.
\* Nothing obliges the query server to answer the request for the leaves, which is
\* made without one; and the chain and the nodes may stop.
Spec == Init /\ [][Next]_vars /\ WF_vars(step # "leaves" /\ Client)

----------------------------------------------------------------------------
(* Properties.                                                             *)

\* Every variable holds values of its type.
TypeOK ==
  /\ canonical \in Seq(SUBSET Leaf)
  /\ rpc \in Heights /\ app \in Heights
  /\ command \in Commands /\ step \in Steps /\ goal \in Goals
  /\ height \in Heights /\ seen \in Heights
  /\ page \in [height : Heights, leaves : SUBSET Leaf, root : SUBSET Leaf,
               appHash : Heights \X SUBSET Leaf]
  /\ signatures \in Commits
  /\ waited \in 0..(Timeout + 1)
  /\ attempts \in 0..MaxAttempts
  /\ outcome \in Outcomes

\* The rule of consensus: a commit of this very block, votes for it with more than
\* two thirds of the power, and every signature good.
CommittedByTwoThirds(s) ==
  /\ s.fits
  /\ \A v \in Validators : s.slots[v] # "invalid"
  /\ 3 * PowerOf({v \in Validators : s.slots[v] = "commit"}) > 2 * Total

\* What verify_light_block computes with a truncating division agrees with the
\* rule of consensus: verify succeeds, and reconstruct goes on to the next
\* block, only on a block signed by more than two thirds of the voting power,
\* and no such block is refused.
VerdictFollowsConsensus ==
  /\ (command = "verify" /\ outcome = "ok") \/ goal # "target"
       => CommittedByTwoThirds(signatures)
  /\ outcome = "unverified" => ~CommittedByTwoThirds(signatures)

\* Leaves from one server and headers from another, fetched while blocks go on
\* being decided, never disagree: reconstruct compares the hash of the snapshot
\* with the header that records it, which is that of the block after it.
NoSpuriousMismatch == outcome # "mismatch"

\* reconstruct fetches the next block without polling only if it is there,
\* although the status it decides by may be stale by then.
NextBlockThere == goal = "direct" => height <= rpc

\* Whatever fails and whether or not the chain goes on, a command ends: the
\* waits for a commit and the polls for the next block, three loops deep, are all
\* bounded.  Only a reconstruction whose request for the leaves is never answered
\* waits for ever, as that request has no timeout.
Terminates == step \notin {"idle", "leaves"} ~> step = "done"

\* A snapshot with leaves whose app hash is that of the chain is rebuilt, and
\* its Merkle proof verified, without an error.
ReconstructSucceeds ==
  /\ command = "reconstruct" /\ step = "done" /\ page.leaves # {}
  /\ outcome \notin {"failed", "no_height", "unverified", "mismatch"}
  => outcome = "ok"

=============================================================================
