-------------------------- MODULE PublicationProofs --------------------------
(***************************************************************************)
(* Proofs about Publication, for any validator set, powers, leaves and     *)
(* bounds: the verdict on a light block is the rule of consensus, and a    *)
(* reconstruction never reports a mismatch that is not there.              *)
(***************************************************************************)
EXTENDS Publication, TLAPS

\* The truncating division of verify_light_block loses nothing: the tally
\* exceeds the truncated two thirds exactly if it exceeds two thirds.
LEMMA TruncationIsHarmless ==
  ASSUME NEW t \in Nat, NEW total \in Nat
  PROVE  t > (total * 2) \div 3 <=> 3 * t > 2 * total
  OBVIOUS

\* verify_light_block accepts a commit exactly if consensus does.
LEMMA VerdictIsConsensus ==
  ASSUME NEW s \in Commits
  PROVE  VerifyLightBlock(s) <=> CommittedByTwoThirds(s)
<1> DEFINE signed == {v \in Validators : s.slots[v] = "commit"}
<1>1. PowerOf(signed) \in Nat /\ Total \in Nat
  BY PublicationAssumption DEF Total
<1>2. EnoughPower(PowerOf(signed)) <=> 3 * PowerOf(signed) > 2 * Total
  <2> DEFINE p == PowerOf(signed)
             n == Total
  <2>1. p \in Nat /\ n \in Nat
    BY <1>1
  <2>2. EnoughPower(p) <=> p > (n * 2) \div 3
    BY DEF EnoughPower
  <2> HIDE DEF p, n
  <2>3. p > (n * 2) \div 3 <=> 3 * p > 2 * n
    BY <2>1, TruncationIsHarmless
  <2> QED
    BY <2>2, <2>3 DEF p, n
<1> QED
  BY <1>2 DEF VerifyLightBlock, CommittedByTwoThirds

----------------------------------------------------------------------------
(* The inductive invariant.                                                *)

\* Nodes know decided blocks only, and what a status said stays true.
NodesBehindChain ==
  /\ Len(canonical) <= MaxHeight
  /\ rpc <= Len(canonical)
  /\ app <= Len(canonical)
  /\ seen <= rpc

\* The page is a snapshot the chain went through.
PageIsSnapshot ==
  page # NoPage => page.height \in 1..Len(canonical) /\ page = CanonicalLeaves(page.height)

\* A running reconstruction is after the block of its page, then after the
\* block that follows it.
OnTarget ==
  /\ command = "reconstruct" /\ step \in {"status", "commit"} /\ goal = "target"
       => page # NoPage /\ height = page.height
  /\ goal # "target"
       => page # NoPage /\ height = page.height + 1 /\ command = "reconstruct"

\* Only the last phase of a reconstruction has another goal than its target, and
\* polls remain while a command runs.
PhasesInOrder ==
  /\ step \in {"idle", "latest", "leaves"} => goal = "target"
  /\ step = "latest" => command # "reconstruct"
  /\ step # "done" => attempts < MaxAttempts

\* A command has an outcome only once it has ended.
OutcomeAtEnd == outcome # "none" => step = "done"

IndInv ==
  /\ TypeOK
  /\ NodesBehindChain
  /\ PageIsSnapshot
  /\ OnTarget
  /\ PhasesInOrder
  /\ OutcomeAtEnd
  /\ VerdictFollowsConsensus
  /\ NoSpuriousMismatch
  /\ NextBlockThere

\* A command that has not started satisfies the invariant.
LEMMA InitIndInv == Init => IndInv
<1> SUFFICES ASSUME Init PROVE IndInv
  OBVIOUS
<1> USE PublicationAssumption
<1>1. TypeOK
  BY DEF Init, TypeOK, Heights, Commands, Steps, Goals, Outcomes, NoPage, Commits, NoCommit, Flags
<1> QED
  BY <1>1 DEF Init, IndInv, NodesBehindChain, PageIsSnapshot, OnTarget, PhasesInOrder, OutcomeAtEnd,
     VerdictFollowsConsensus, NoSpuriousMismatch, NextBlockThere

\* A step of the nodes: the client is unaffected and pages stay snapshots.
LEMMA NodeStepKeepsIndInv ==
  ASSUME IndInv, DecideBlock \/ RpcNodeAdvances \/ QueryNodeAdvances
  PROVE  IndInv'
<1> USE PublicationAssumption
<1>1. /\ UNCHANGED client
      /\ Len(canonical') >= Len(canonical) /\ Len(canonical') <= MaxHeight
      /\ canonical' \in Seq(SUBSET Leaf)
      /\ \A h \in 1..Len(canonical) : canonical'[h] = canonical[h]
  <2>1. CASE DecideBlock
    BY <2>1 DEF IndInv, TypeOK, NodesBehindChain, DecideBlock
  <2>2. CASE RpcNodeAdvances \/ QueryNodeAdvances
    BY <2>2 DEF IndInv, TypeOK, NodesBehindChain, RpcNodeAdvances, QueryNodeAdvances
  <2> QED
    BY <2>1, <2>2
<1>2. /\ rpc' \in Nat /\ app' \in Nat
      /\ rpc <= rpc' /\ rpc' <= Len(canonical') /\ app' <= Len(canonical')
  BY <1>1 DEF IndInv, TypeOK, Heights, NodesBehindChain,
     DecideBlock, RpcNodeAdvances, QueryNodeAdvances
<1>3. TypeOK'
  BY <1>1, <1>2 DEF IndInv, TypeOK, Heights, client, fetch
<1>4. NodesBehindChain' /\ NextBlockThere'
  BY <1>1, <1>2 DEF IndInv, TypeOK, Heights, NodesBehindChain, NextBlockThere, client, fetch
<1>5. PageIsSnapshot'
  BY <1>1 DEF IndInv, TypeOK, Heights, PageIsSnapshot, CanonicalLeaves, AppHash, client
<1>6. OnTarget' /\ PhasesInOrder' /\ OutcomeAtEnd' /\ VerdictFollowsConsensus' /\ NoSpuriousMismatch'
  BY <1>1 DEF IndInv, OnTarget, PhasesInOrder, OutcomeAtEnd, VerdictFollowsConsensus,
     CommittedByTwoThirds, NoSpuriousMismatch, client, fetch
<1> QED
  BY <1>3, <1>4, <1>5, <1>6 DEF IndInv

\* A step of the client.
LEMMA ClientStepKeepsIndInv ==
  ASSUME IndInv, StartLightBlock \/ StartReconstruct \/ Client
  PROVE  IndInv'
<1> USE PublicationAssumption
<1>0. UNCHANGED chain
  BY DEF StartLightBlock, StartReconstruct, Client, GetLatestHeight, FetchLeaves, GetStatus,
     RetryCommit, FetchFails, PrintBlock, Verify, VerifyTarget, CompareAppHash
<1>1. CASE StartLightBlock
  <2>1. TypeOK' /\ NodesBehindChain' /\ NextBlockThere'
    BY <1>0, <1>1 DEF IndInv, TypeOK, Heights, Commands, Steps, Goals, Outcomes,
       NodesBehindChain, NextBlockThere, OnTarget, PhasesInOrder, chain, fetch, StartLightBlock
  <2>2. PageIsSnapshot' /\ OnTarget' /\ PhasesInOrder' /\ OutcomeAtEnd'
    BY <1>0, <1>1 DEF IndInv, TypeOK, Heights, NodesBehindChain, PageIsSnapshot, OnTarget,
       PhasesInOrder, OutcomeAtEnd, CanonicalLeaves, AppHash, chain, fetch, StartLightBlock
  <2>3. VerdictFollowsConsensus' /\ NoSpuriousMismatch'
    BY <1>0, <1>1 DEF IndInv, TypeOK, VerdictFollowsConsensus, CommittedByTwoThirds,
       NoSpuriousMismatch, OnTarget, OutcomeAtEnd, chain, fetch, StartLightBlock
  <2> QED
    BY <2>1, <2>2, <2>3 DEF IndInv
<1>2. CASE StartReconstruct
  <2>1. TypeOK' /\ NodesBehindChain' /\ NextBlockThere'
    BY <1>0, <1>2 DEF IndInv, TypeOK, Heights, Commands, Steps, Goals, Outcomes,
       NodesBehindChain, NextBlockThere, OnTarget, PhasesInOrder, chain, fetch, StartReconstruct
  <2>2. PageIsSnapshot' /\ OnTarget' /\ PhasesInOrder' /\ OutcomeAtEnd'
    BY <1>0, <1>2 DEF IndInv, TypeOK, Heights, NodesBehindChain, PageIsSnapshot, OnTarget,
       PhasesInOrder, OutcomeAtEnd, CanonicalLeaves, AppHash, chain, fetch, StartReconstruct
  <2>3. VerdictFollowsConsensus' /\ NoSpuriousMismatch'
    BY <1>0, <1>2 DEF IndInv, TypeOK, VerdictFollowsConsensus, CommittedByTwoThirds,
       NoSpuriousMismatch, OnTarget, OutcomeAtEnd, chain, fetch, StartReconstruct
  <2> QED
    BY <2>1, <2>2, <2>3 DEF IndInv
<1>3. CASE GetLatestHeight
  <2>1. TypeOK' /\ NodesBehindChain' /\ NextBlockThere'
    BY <1>0, <1>3 DEF IndInv, TypeOK, Heights, Commands, Steps, Goals, Outcomes,
       NodesBehindChain, NextBlockThere, OnTarget, PhasesInOrder, chain, fetch, GetLatestHeight
  <2>2. PageIsSnapshot' /\ OnTarget' /\ PhasesInOrder' /\ OutcomeAtEnd'
    BY <1>0, <1>3 DEF IndInv, TypeOK, Heights, NodesBehindChain, PageIsSnapshot, OnTarget,
       PhasesInOrder, OutcomeAtEnd, CanonicalLeaves, AppHash, chain, fetch, GetLatestHeight
  <2>3. VerdictFollowsConsensus' /\ NoSpuriousMismatch'
    BY <1>0, <1>3 DEF IndInv, TypeOK, VerdictFollowsConsensus, CommittedByTwoThirds,
       NoSpuriousMismatch, OnTarget, OutcomeAtEnd, chain, fetch, GetLatestHeight
  <2> QED
    BY <2>1, <2>2, <2>3 DEF IndInv
<1>4. CASE FetchLeaves
  <2>1. TypeOK' /\ NodesBehindChain' /\ NextBlockThere'
    BY <1>0, <1>4 DEF IndInv, TypeOK, Heights, Commands, Steps, Goals, Outcomes,
       NodesBehindChain, NextBlockThere, OnTarget, PhasesInOrder, chain, fetch, FetchLeaves, Finish, CanonicalLeaves, AppHash, NoPage
  <2>2. PageIsSnapshot' /\ OnTarget' /\ PhasesInOrder' /\ OutcomeAtEnd'
    <3>1. CASE app = 0
      BY <1>0, <1>4, <3>1 DEF IndInv, PageIsSnapshot, OnTarget, PhasesInOrder, OutcomeAtEnd,
         CanonicalLeaves, AppHash, chain, FetchLeaves, Finish
    <3>2. CASE app # 0
      <4>1. /\ page' = CanonicalLeaves(app) /\ page'.height = app /\ height' = app
            /\ step' = "status" /\ step = "leaves" /\ app \in 1..Len(canonical)
            /\ UNCHANGED <<canonical, goal, command, outcome, attempts>>
        BY <1>0, <1>4, <3>2 DEF IndInv, TypeOK, Heights, NodesBehindChain, CanonicalLeaves,
           chain, FetchLeaves
      <4>2. page' # NoPage
        BY <4>1 DEF NoPage
      <4> QED
        BY <4>1, <4>2 DEF IndInv, PageIsSnapshot, OnTarget, PhasesInOrder, OutcomeAtEnd,
           CanonicalLeaves, AppHash
    <3> QED
      BY <3>1, <3>2
  <2>3. VerdictFollowsConsensus' /\ NoSpuriousMismatch'
    BY <1>0, <1>4 DEF IndInv, TypeOK, VerdictFollowsConsensus, CommittedByTwoThirds,
       NoSpuriousMismatch, OnTarget, OutcomeAtEnd, chain, fetch, FetchLeaves, Finish, CanonicalLeaves, AppHash, NoPage
  <2> QED
    BY <2>1, <2>2, <2>3 DEF IndInv
<1>5. CASE GetStatus
  <2>1. TypeOK' /\ NodesBehindChain' /\ NextBlockThere'
    BY <1>0, <1>5 DEF IndInv, TypeOK, Heights, Commands, Steps, Goals, Outcomes,
       NodesBehindChain, NextBlockThere, OnTarget, PhasesInOrder, chain, fetch, GetStatus
  <2>2. PageIsSnapshot' /\ OnTarget' /\ PhasesInOrder' /\ OutcomeAtEnd'
    BY <1>0, <1>5 DEF IndInv, TypeOK, Heights, NodesBehindChain, PageIsSnapshot, OnTarget,
       PhasesInOrder, OutcomeAtEnd, CanonicalLeaves, AppHash, chain, fetch, GetStatus
  <2>3. VerdictFollowsConsensus' /\ NoSpuriousMismatch'
    BY <1>0, <1>5 DEF IndInv, TypeOK, VerdictFollowsConsensus, CommittedByTwoThirds,
       NoSpuriousMismatch, OnTarget, OutcomeAtEnd, chain, fetch, GetStatus
  <2> QED
    BY <2>1, <2>2, <2>3 DEF IndInv
<1>6. CASE RetryCommit
  <2>1. TypeOK' /\ NodesBehindChain' /\ NextBlockThere'
    BY <1>0, <1>6 DEF IndInv, TypeOK, Heights, Commands, Steps, Goals, Outcomes,
       NodesBehindChain, NextBlockThere, OnTarget, PhasesInOrder, chain, fetch, RetryCommit
  <2>2. PageIsSnapshot' /\ OnTarget' /\ PhasesInOrder' /\ OutcomeAtEnd'
    BY <1>0, <1>6 DEF IndInv, TypeOK, Heights, NodesBehindChain, PageIsSnapshot, OnTarget,
       PhasesInOrder, OutcomeAtEnd, CanonicalLeaves, AppHash, chain, fetch, RetryCommit
  <2>3. VerdictFollowsConsensus' /\ NoSpuriousMismatch'
    BY <1>0, <1>6 DEF IndInv, TypeOK, VerdictFollowsConsensus, CommittedByTwoThirds,
       NoSpuriousMismatch, OnTarget, OutcomeAtEnd, chain, fetch, RetryCommit
  <2> QED
    BY <2>1, <2>2, <2>3 DEF IndInv
<1>7. CASE FetchFails
  <2>1. TypeOK' /\ NodesBehindChain' /\ NextBlockThere'
    BY <1>0, <1>7 DEF IndInv, TypeOK, Heights, Commands, Steps, Goals, Outcomes,
       NodesBehindChain, NextBlockThere, OnTarget, PhasesInOrder, chain, fetch, FetchFails, Finish, Fetched
  <2>2. PageIsSnapshot' /\ OnTarget' /\ PhasesInOrder' /\ OutcomeAtEnd'
    BY <1>0, <1>7 DEF IndInv, TypeOK, Heights, NodesBehindChain, PageIsSnapshot, OnTarget,
       PhasesInOrder, OutcomeAtEnd, CanonicalLeaves, AppHash, chain, fetch, FetchFails, Finish, Fetched
  <2>3. VerdictFollowsConsensus' /\ NoSpuriousMismatch'
    BY <1>0, <1>7 DEF IndInv, TypeOK, VerdictFollowsConsensus, CommittedByTwoThirds,
       NoSpuriousMismatch, OnTarget, OutcomeAtEnd, chain, fetch, FetchFails, Finish, Fetched
  <2> QED
    BY <2>1, <2>2, <2>3 DEF IndInv
<1>8. CASE PrintBlock
  <2>1. TypeOK' /\ NodesBehindChain' /\ NextBlockThere'
    BY <1>0, <1>8 DEF IndInv, TypeOK, Heights, Commands, Steps, Goals, Outcomes,
       NodesBehindChain, NextBlockThere, OnTarget, PhasesInOrder, chain, fetch, PrintBlock, Finish, Fetched
  <2>2. PageIsSnapshot' /\ OnTarget' /\ PhasesInOrder' /\ OutcomeAtEnd'
    BY <1>0, <1>8 DEF IndInv, TypeOK, Heights, NodesBehindChain, PageIsSnapshot, OnTarget,
       PhasesInOrder, OutcomeAtEnd, CanonicalLeaves, AppHash, chain, fetch, PrintBlock, Finish, Fetched
  <2>3. VerdictFollowsConsensus' /\ NoSpuriousMismatch'
    BY <1>0, <1>8 DEF IndInv, TypeOK, VerdictFollowsConsensus, CommittedByTwoThirds,
       NoSpuriousMismatch, OnTarget, OutcomeAtEnd, chain, fetch, PrintBlock, Finish, Fetched
  <2> QED
    BY <2>1, <2>2, <2>3 DEF IndInv
<1>9. CASE Verify
  <2>1. TypeOK' /\ NodesBehindChain' /\ NextBlockThere'
    BY <1>0, <1>9 DEF IndInv, TypeOK, Heights, Commands, Steps, Goals, Outcomes,
       NodesBehindChain, NextBlockThere, OnTarget, PhasesInOrder, chain, fetch, Verify, Finish, Fetched
  <2>2. PageIsSnapshot' /\ OnTarget' /\ PhasesInOrder' /\ OutcomeAtEnd'
    BY <1>0, <1>9 DEF IndInv, TypeOK, Heights, NodesBehindChain, PageIsSnapshot, OnTarget,
       PhasesInOrder, OutcomeAtEnd, CanonicalLeaves, AppHash, chain, fetch, Verify, Finish, Fetched
  <2>3. VerdictFollowsConsensus' /\ NoSpuriousMismatch'
    BY <1>0, <1>9, VerdictIsConsensus DEF IndInv, TypeOK, VerdictFollowsConsensus, CommittedByTwoThirds,
       NoSpuriousMismatch, OnTarget, OutcomeAtEnd, chain, fetch, Verify, Finish, Fetched
  <2> QED
    BY <2>1, <2>2, <2>3 DEF IndInv
<1>10. CASE VerifyTarget
  <2>1. TypeOK' /\ NodesBehindChain' /\ NextBlockThere'
    BY <1>0, <1>10 DEF IndInv, TypeOK, Heights, Commands, Steps, Goals, Outcomes,
       NodesBehindChain, NextBlockThere, OnTarget, PhasesInOrder, chain, fetch, VerifyTarget, Finish, Fetched, NextBlockHeight, IsLatest
  <2>2. PageIsSnapshot' /\ OnTarget' /\ PhasesInOrder' /\ OutcomeAtEnd'
    BY <1>0, <1>10 DEF IndInv, TypeOK, Heights, NodesBehindChain, PageIsSnapshot, OnTarget,
       PhasesInOrder, OutcomeAtEnd, CanonicalLeaves, AppHash, chain, fetch, VerifyTarget, Finish, Fetched, NextBlockHeight, IsLatest
  <2>3. VerdictFollowsConsensus' /\ NoSpuriousMismatch'
    BY <1>0, <1>10, VerdictIsConsensus DEF IndInv, TypeOK, VerdictFollowsConsensus, CommittedByTwoThirds,
       NoSpuriousMismatch, OnTarget, OutcomeAtEnd, chain, fetch, VerifyTarget, Finish, Fetched, NextBlockHeight, IsLatest
  <2> QED
    BY <2>1, <2>2, <2>3 DEF IndInv
<1>11. CASE CompareAppHash
  <2>1. TypeOK' /\ NodesBehindChain' /\ NextBlockThere'
    BY <1>0, <1>11 DEF IndInv, TypeOK, Heights, Commands, Steps, Goals, Outcomes,
       NodesBehindChain, NextBlockThere, OnTarget, PhasesInOrder, chain, fetch, CompareAppHash, Finish, Fetched, Rebuild, HeaderAppHash
  <2>2. PageIsSnapshot' /\ OnTarget' /\ PhasesInOrder' /\ OutcomeAtEnd'
    BY <1>0, <1>11 DEF IndInv, TypeOK, Heights, NodesBehindChain, PageIsSnapshot, OnTarget,
       PhasesInOrder, OutcomeAtEnd, CanonicalLeaves, AppHash, chain, fetch, CompareAppHash, Finish, Fetched, Rebuild, HeaderAppHash
  <2>3. VerdictFollowsConsensus' /\ NoSpuriousMismatch'
    <3>1. HeaderAppHash(height) = page.appHash
      <4>1. /\ page # NoPage /\ height = page.height + 1
            /\ page.height \in 1..Len(canonical) /\ page = CanonicalLeaves(page.height)
        BY <1>11 DEF IndInv, OnTarget, PageIsSnapshot, CompareAppHash
      <4>2. page.appHash = AppHash(page.height)
        BY <4>1 DEF CanonicalLeaves
      <4>3. height - 1 = page.height
        BY <4>1
      <4> QED
        BY <4>2, <4>3 DEF HeaderAppHash
    <3>2. /\ outcome' = Rebuild(page)
          /\ goal # "target" /\ command = "reconstruct"
          /\ UNCHANGED <<goal, command, signatures>>
      BY <1>11, <3>1 DEF IndInv, OnTarget, CompareAppHash, Finish
    <3>3. Rebuild(page) \in {"ok", "store_error", "root_mismatch", "no_proof"}
      BY DEF Rebuild
    <3> QED
      BY <3>2, <3>3 DEF IndInv, VerdictFollowsConsensus, CommittedByTwoThirds, NoSpuriousMismatch
  <2> QED
    BY <2>1, <2>2, <2>3 DEF IndInv
<1> QED
  BY <1>1, <1>2, <1>3, <1>4, <1>5, <1>6, <1>7, <1>8, <1>9, <1>10, <1>11 DEF Client

\* The inductive invariant holds in every reachable state.
LEMMA IndInvInvariant == Spec => []IndInv
<1>1. IndInv /\ [Next]_vars => IndInv'
  <2> SUFFICES ASSUME IndInv, [Next]_vars PROVE IndInv'
    OBVIOUS
  <2>1. CASE UNCHANGED vars
    BY <2>1 DEF IndInv, TypeOK, NodesBehindChain, PageIsSnapshot, OnTarget, PhasesInOrder,
       OutcomeAtEnd, VerdictFollowsConsensus, CommittedByTwoThirds, NoSpuriousMismatch,
       NextBlockThere, CanonicalLeaves, AppHash, vars, chain, client, fetch
  <2> QED
    BY <2>1, NodeStepKeepsIndInv, ClientStepKeepsIndInv DEF Next
<1> QED
  BY <1>1, InitIndInv, PTL DEF Spec

\* The state of client and nodes keeps its type, whatever fails: in particular
\* polls and tries stay within their bounds.
THEOREM TypeCorrect == Spec => []TypeOK
BY IndInvInvariant, PTL DEF IndInv

\* verify_light_block judges every commit as consensus does, for any validator
\* set and any powers.
THEOREM VerdictIsRight == Spec => []VerdictFollowsConsensus
BY IndInvInvariant, PTL DEF IndInv

\* However the two servers lag and the chain moves on, reconstruct never finds
\* an app hash that differs from the one it was given.
THEOREM NeverMismatches == Spec => []NoSpuriousMismatch
BY IndInvInvariant, PTL DEF IndInv

\* reconstruct skips polling only if the next block is there.
THEOREM NextBlockIsThere == Spec => []NextBlockThere
BY IndInvInvariant, PTL DEF IndInv

=============================================================================
