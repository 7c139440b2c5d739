------------------------ MODULE OracleNetworkProofs ------------------------
(***************************************************************************)
(* Proofs about OracleNetwork: for every set of names, oracles and configs *)
(* and any number of concurrent requests, the network is an implementation *)
(* of the chain, and what the chain makes pending was fetched by a quorum. *)
(***************************************************************************)
EXTENDS OracleNetwork, ChainProofs

----------------------------------------------------------------------------
(* The invariant.                                                          *)

\* An oracle was served something at a name.
Fetch(o, d, x) == [oracle |-> o, domain |-> d, hash |-> x]

Fetches == [oracle : Identities, domain : Domains, hash : Hashes \cup {NotFound}]

\* A transaction reports what its oracle was served, in the zone of the name, with a
\* header's blockstamp.
Witnessed(tx, seen) ==
  /\ tx \in Txs
  /\ tx.zone = InferZone(tx.domain)
  /\ tx.stamp.appHash = tx.stamp.height
  /\ Fetch(tx.oracle, tx.domain, tx.hash) \in seen

FetchRequests == [step : {"fetch"}, oracle : Identities, domain : Domains, zone : Zones]
StampRequests ==
  [step : {"stamp"}, oracle : Identities, domain : Domains, zone : Zones, page : Pages]
SubmitRequests == [step : {"submit"}, tx : Txs]

RequestOK(q, seen) ==
  \/ q = Idle
  \/ q \in FetchRequests /\ q.zone = InferZone(q.domain)
  \/ /\ q \in StampRequests /\ q.zone = InferZone(q.domain)
     /\ \A x \in Shows(q.page) : Fetch(q.oracle, q.domain, x) \in seen
  \/ q \in SubmitRequests /\ Witnessed(q.tx, seen)

RequestStates == {Idle} \cup FetchRequests \cup StampRequests \cup SubmitRequests

\* Requests and the mempool.
ClientInv ==
  /\ request \in [Requests -> RequestStates]
  /\ \A r \in Requests : RequestOK(request[r], served)
  /\ IsFiniteSet(mempool) /\ Cardinality(mempool) <= MempoolSize
  /\ \A tx \in mempool : Witnessed(tx, served) /\ tx.stamp.height \in 1..(height - 1)
  /\ served \subseteq Fetches /\ IsFiniteSet(served)

\* The chain holds only votes for what was fetched, and no config is pending.
VotesInv ==
  /\ adminPending = {}
  /\ OracleQ!StandingInv
  /\ \A b \in oracleVotes : /\ b.value.zone = InferZone(b.key)
                            /\ Fetch(b.party, b.key, b.value.hash) \in served
  /\ QuorumFetched

NetworkInv == ChainInv /\ ClientInv /\ VotesInv

----------------------------------------------------------------------------
(* Requests.                                                               *)

\* What a page shows is what the transaction will say of it.
LEMMA PageShows ==
  ASSUME NEW page \in Pages
  PROVE  /\ Shows(page) \subseteq Hashes \cup {NotFound}
         /\ Shows(page) = {} \/ \E x : Shows(page) = {x}
         /\ HashObserved(page) # "invalid" =>
              HashObserved(page) \in Hashes \cup {NotFound} /\ HashObserved(page) \in Shows(page)
<1>1. CASE page \in Hashes
  <2>1. Shows(page) = {page} /\ HashObserved(page) = page
    BY <1>1, PagesAssumption DEF Shows, HashObserved
  <2>2. QED
    BY <1>1, <2>1
<1>2. CASE page \in {NotFound, "empty"}
  <2>1. Shows(page) = {NotFound} /\ HashObserved(page) = NotFound
    BY <1>2, PagesAssumption DEF Shows, HashObserved
  <2>2. QED
    BY <2>1
<1>3. CASE page = "invalid"
  <2>1. Shows(page) = {} /\ HashObserved(page) = "invalid"
    BY <1>3, PagesAssumption DEF Shows, HashObserved
  <2>2. QED
    BY <2>1
<1>4. QED
  BY <1>1, <1>2, <1>3 DEF Pages

\* What was served stays served, so what holds of requests and transactions stays.
LEMMA ServedStays ==
  ASSUME NEW before, NEW after, before \subseteq after
  PROVE  /\ \A tx : Witnessed(tx, before) => Witnessed(tx, after)
         /\ \A q : RequestOK(q, before) => RequestOK(q, after)
<1>1. ASSUME NEW tx, Witnessed(tx, before)
      PROVE  Witnessed(tx, after)
  BY <1>1 DEF Witnessed
<1>2. ASSUME NEW q, RequestOK(q, before)
      PROVE  RequestOK(q, after)
  BY <1>1, <1>2 DEF RequestOK
<1>3. QED
  BY <1>1, <1>2

\* A well-formed request has the fields of its step.
LEMMA RequestFields ==
  ASSUME NEW q, NEW seen, RequestOK(q, seen)
  PROVE  /\ q \in RequestStates
         /\ q.step = "fetch" => q \in FetchRequests /\ q.zone = InferZone(q.domain)
         /\ q.step = "stamp" =>
              /\ q \in StampRequests /\ q.zone = InferZone(q.domain)
              /\ \A x \in Shows(q.page) : Fetch(q.oracle, q.domain, x) \in seen
         /\ q.step = "submit" => q \in SubmitRequests /\ Witnessed(q.tx, seen)
         /\ q.step \in {"idle", "fetch", "stamp", "submit"}
         /\ q.step = "idle" => q = Idle
  BY DEF RequestOK, RequestStates, FetchRequests, StampRequests, SubmitRequests, Idle

\* A step of one request leaves the others as they are.
LEMMA RequestStep ==
  ASSUME ClientInv, NEW r \in Requests, NEW q,
         request' = [request EXCEPT ![r] = q], served \subseteq served',
         RequestOK(q, served')
  PROVE  /\ request' \in [Requests -> RequestStates]
         /\ \A s \in Requests : RequestOK(request'[s], served')
<1>1. q \in RequestStates /\ request \in [Requests -> RequestStates]
  BY RequestFields DEF ClientInv
<1>2. request' \in [Requests -> RequestStates]
  BY <1>1
<1>3. ASSUME NEW s \in Requests
      PROVE  RequestOK(request'[s], served')
  <2>1. CASE s = r
    BY <1>1, <2>1
  <2>2. CASE s # r
    <3>1. request'[s] = request[s] /\ RequestOK(request[s], served)
      BY <1>1, <2>2 DEF ClientInv
    <3>2. QED
      BY <3>1, ServedStays
  <2>3. QED
    BY <2>1, <2>2
<1>4. QED
  BY <1>2, <1>3

\* The rest of ClientInv when blocks are not taken back and the mempool gets no new
\* transaction.
LEMMA ClientInvKept ==
  ASSUME ClientInv, BlocksInv, BlocksInv', height <= height',
         mempool' \subseteq mempool, served \subseteq served', IsFiniteSet(served'),
         served' \subseteq Fetches, request' \in [Requests -> RequestStates],
         \A s \in Requests : RequestOK(request'[s], served')
  PROVE  ClientInv'
<1>1. IsFiniteSet(mempool') /\ Cardinality(mempool') <= MempoolSize
  <2>1. IsFiniteSet(mempool) /\ Cardinality(mempool) <= MempoolSize
    BY DEF ClientInv
  <2>2. IsFiniteSet(mempool') /\ Cardinality(mempool') <= Cardinality(mempool)
    BY <2>1, FS_Subset
  <2>3. Cardinality(mempool') \in Nat /\ Cardinality(mempool) \in Nat
    BY <2>1, <2>2, FS_CardinalityType
  <2>4. QED
    BY <2>1, <2>2, <2>3, NetworkAssumption
<1>2. ASSUME NEW tx \in mempool'
      PROVE  Witnessed(tx, served') /\ tx.stamp.height \in 1..(height' - 1)
  <2>1. Witnessed(tx, served) /\ tx.stamp.height \in 1..(height - 1)
    BY DEF ClientInv
  <2>2. Witnessed(tx, served')
    BY <2>1, ServedStays
  <2>3. height \in Nat /\ height' \in Nat
    BY DEF BlocksInv
  <2>4. QED
    BY <2>1, <2>2, <2>3
<1>3. QED
  BY <1>1, <1>2 DEF ClientInv

\* Steps of requests keep the invariant of requests and of the mempool.
LEMMA ClientStep ==
  ASSUME ChainInv, ClientInv, UNCHANGED chainVars,
         \/ \E r \in Requests, o \in Identities, d \in Domains : HandleObserve(r, o, d)
         \/ \E r \in Requests : FetchEnrollment(r) \/ Witness(r) \/ Broadcast(r) \/ RequestFails(r)
         \/ \E tx \in mempool : DropTx(tx)
         \/ UNCHANGED networkVars
  PROVE  ClientInv' /\ served \subseteq served'
<1>1. BlocksInv /\ BlocksInv' /\ height \in Nat /\ height' = height
  BY DEF ChainInv, chainVars, vars, BlocksInv
<1>2. ASSUME served' = served, mempool' = mempool, NEW r \in Requests, NEW q,
             request' = [request EXCEPT ![r] = q], RequestOK(q, served)
      PROVE  ClientInv' /\ served \subseteq served'
  <2>1. /\ request' \in [Requests -> RequestStates]
        /\ \A s \in Requests : RequestOK(request'[s], served')
    BY <1>2, RequestStep
  <2>2. QED
    BY <1>1, <1>2, <2>1, ClientInvKept DEF ClientInv
<1>3. \A seen : RequestOK(Idle, seen)
  BY DEF RequestOK
<1>4. ASSUME NEW r \in Requests, NEW o \in Identities, NEW d \in Domains,
             HandleObserve(r, o, d)
      PROVE  ClientInv' /\ served \subseteq served'
  <2> DEFINE q == [step |-> "fetch", oracle |-> o, domain |-> d, zone |-> InferZone(d)]
  <2>1. q \in FetchRequests /\ q.zone = InferZone(q.domain)
    BY ZoneAssumption, NamesAssumption DEF FetchRequests
  <2>2. RequestOK(q, served)
    BY <2>1 DEF RequestOK
  <2>3. request' = [request EXCEPT ![r] = q] /\ served' = served /\ mempool' = mempool
    BY <1>4 DEF HandleObserve
  <2> HIDE DEF q
  <2>4. QED
    BY <1>2, <2>2, <2>3
<1>5. ASSUME NEW r \in Requests, FetchEnrollment(r)
      PROVE  ClientInv' /\ served \subseteq served'
  <2> DEFINE q == request[r]
  <2>1. RequestOK(q, served) /\ q.step = "fetch"
    BY <1>5 DEF ClientInv, FetchEnrollment
  <2>2. q \in FetchRequests /\ q.zone = InferZone(q.domain)
    BY <2>1, RequestFields
  <2>3. PICK page \in Pages :
          /\ request' = [request EXCEPT ![r] =
                           [step |-> "stamp", oracle |-> q.oracle, domain |-> q.domain,
                            zone |-> q.zone, page |-> page]]
          /\ served' = served \cup {Fetch(q.oracle, q.domain, x) : x \in Shows(page)}
    BY <1>5 DEF FetchEnrollment, Fetch
  <2> DEFINE next == [step |-> "stamp", oracle |-> q.oracle, domain |-> q.domain,
                      zone |-> q.zone, page |-> page]
             new == {Fetch(q.oracle, q.domain, x) : x \in Shows(page)}
  <2>4. q.oracle \in Identities /\ q.domain \in Domains /\ q.zone \in Zones
    BY <2>2 DEF FetchRequests
  <2>5. next \in StampRequests /\ next.zone = InferZone(next.domain)
        /\ \A x \in Shows(next.page) : Fetch(next.oracle, next.domain, x) \in served'
    BY <2>2, <2>3, <2>4 DEF StampRequests
  <2>6. RequestOK(next, served')
    BY <2>5 DEF RequestOK
  <2>7. served \subseteq served' /\ served' \subseteq Fetches
    BY <2>3, <2>4, PageShows DEF ClientInv, Fetches, Fetch
  <2>8. IsFiniteSet(served')
    <3>1. new = {} \/ \E x : new = {Fetch(q.oracle, q.domain, x)}
      BY PageShows
    <3>2. IsFiniteSet(new)
      BY <3>1, FS_EmptySet, FS_Singleton
    <3>3. QED
      BY <2>3, <3>2, FS_Union DEF ClientInv
  <2> HIDE DEF next, new
  <2>9. request' = [request EXCEPT ![r] = next] /\ mempool' = mempool
    BY <1>5, <2>3 DEF next, FetchEnrollment
  <2>10. /\ request' \in [Requests -> RequestStates]
         /\ \A s \in Requests : RequestOK(request'[s], served')
    BY <2>6, <2>7, <2>9, RequestStep
  <2>11. QED
    BY <1>1, <2>7, <2>8, <2>9, <2>10, ClientInvKept
<1>6. ASSUME NEW r \in Requests, Witness(r)
      PROVE  ClientInv' /\ served \subseteq served'
  <2> DEFINE q == request[r]
  <2>1. RequestOK(q, served) /\ q.step = "stamp"
    BY <1>6 DEF ClientInv, Witness
  <2>2. /\ q \in StampRequests /\ q.zone = InferZone(q.domain)
        /\ \A x \in Shows(q.page) : Fetch(q.oracle, q.domain, x) \in served
    BY <2>1, RequestFields
  <2>3. PICK latest \in LatestBlocks :
          request' = [request EXCEPT ![r] =
                        IF HashObserved(q.page) = "invalid" THEN Idle
                        ELSE [step |-> "submit", tx |-> WitnessTx(q, Blockstamp(latest))]]
    BY <1>6 DEF Witness
  <2>4. served' = served /\ mempool' = mempool
    BY <1>6 DEF Witness
  <2>5. CASE HashObserved(q.page) = "invalid"
    BY <1>2, <1>3, <2>3, <2>4, <2>5
  <2>6. CASE HashObserved(q.page) # "invalid"
    <3> DEFINE tx == WitnessTx(q, Blockstamp(latest))
               next == [step |-> "submit", tx |-> tx]
    <3>1. q.page \in Pages /\ q.oracle \in Identities /\ q.domain \in Domains /\ q.zone \in Zones
      BY <2>2 DEF StampRequests
    <3>2. /\ HashObserved(q.page) \in Hashes \cup {NotFound}
          /\ Fetch(q.oracle, q.domain, HashObserved(q.page)) \in served
      BY <2>2, <2>6, <3>1, PageShows
    <3>3. latest - 1 \in Nat
      BY <1>1 DEF LatestBlocks
    <3>4. Blockstamp(latest) \in [height : Nat, appHash : Nat]
          /\ Blockstamp(latest).appHash = Blockstamp(latest).height
      BY <3>3 DEF Blockstamp
    <3>5. /\ tx \in Txs /\ tx.zone = q.zone /\ tx.domain = q.domain /\ tx.oracle = q.oracle
          /\ tx.hash = HashObserved(q.page) /\ tx.stamp = Blockstamp(latest)
      BY <3>1, <3>2, <3>4 DEF Txs, WitnessTx
    <3> HIDE DEF tx
    <3>6. Witnessed(tx, served)
      BY <2>2, <3>2, <3>4, <3>5 DEF Witnessed
    <3>7. next \in SubmitRequests /\ next.tx = tx
      BY <3>5 DEF SubmitRequests
    <3>8. RequestOK(next, served)
      BY <3>6, <3>7 DEF RequestOK
    <3>9. request' = [request EXCEPT ![r] = next]
      BY <2>3, <2>6 DEF tx
    <3> HIDE DEF next
    <3>10. QED
      BY <1>2, <2>4, <3>8, <3>9
  <2>7. QED
    BY <2>5, <2>6
<1>7. ASSUME NEW r \in Requests, Broadcast(r)
      PROVE  ClientInv' /\ served \subseteq served'
  <2> DEFINE tx == request[r].tx
  <2>1. RequestOK(request[r], served) /\ request[r].step = "submit"
    BY <1>7 DEF ClientInv, Broadcast
  <2>2. Witnessed(tx, served)
    BY <2>1, RequestFields
  <2>3. request' = [request EXCEPT ![r] = Idle] /\ served' = served
        /\ mempool' = IF CheckTx(tx) /\ Cardinality(mempool) < MempoolSize
                      THEN mempool \cup {tx} ELSE mempool
    BY <1>7 DEF Broadcast
  <2> HIDE DEF tx
  <2>4. CASE mempool' = mempool
    BY <1>2, <1>3, <2>3, <2>4
  <2>5. CASE /\ CheckTx(tx) /\ Cardinality(mempool) < MempoolSize
             /\ mempool' = mempool \cup {tx}
    <3>1. tx.stamp.height \in Nat
      BY <2>2 DEF Witnessed, Txs
    <3>2. BlockstampAccepted(tx.stamp.height, tx.stamp.appHash)
      BY <2>5 DEF CheckTx, TxAccepted, ObserveAccepted
    <3>3. tx.stamp.height \in 1..(height' - 1)
      BY <1>1, <3>1, <3>2, BlockstampOfEarlierBlock
    <3>4. IsFiniteSet(mempool') /\ Cardinality(mempool') <= MempoolSize
      <4>1. IsFiniteSet(mempool) /\ Cardinality(mempool) \in Nat
        BY FS_CardinalityType DEF ClientInv
      <4>2. IsFiniteSet(mempool \cup {tx})
            /\ Cardinality(mempool \cup {tx}) \in {Cardinality(mempool), Cardinality(mempool) + 1}
        BY <4>1, FS_AddElement
      <4>3. QED
        BY <2>5, <4>1, <4>2, NetworkAssumption
    <3>5. /\ request' \in [Requests -> RequestStates]
          /\ \A s \in Requests : RequestOK(request'[s], served')
      BY <1>3, <2>3, RequestStep
    <3>6. \A m \in mempool' : Witnessed(m, served') /\ m.stamp.height \in 1..(height' - 1)
      BY <1>1, <2>2, <2>3, <2>5, <3>3 DEF ClientInv
    <3>7. QED
      BY <2>3, <3>4, <3>5, <3>6 DEF ClientInv
  <2>6. QED
    BY <2>3, <2>4, <2>5
<1>8. ASSUME NEW r \in Requests, RequestFails(r)
      PROVE  ClientInv' /\ served \subseteq served'
  BY <1>2, <1>3, <1>8 DEF RequestFails
<1>9. ASSUME NEW tx \in mempool, DropTx(tx)
      PROVE  ClientInv' /\ served \subseteq served'
  <2>1. request' = request /\ served' = served /\ mempool' \subseteq mempool
    BY <1>9 DEF DropTx
  <2>2. QED
    BY <1>1, <2>1, ClientInvKept DEF ClientInv
<1>10. CASE UNCHANGED networkVars
  <2>1. request' = request /\ served' = served /\ mempool' = mempool
    BY <1>10 DEF networkVars
  <2>2. QED
    BY <1>1, <2>1, ClientInvKept DEF ClientInv
<1>11. QED
  BY <1>4, <1>5, <1>6, <1>7, <1>8, <1>9, <1>10

----------------------------------------------------------------------------
(* Steps of the network are steps of the chain.                            *)

\* A transaction that a block includes is an observation the chain may meet, or
\* changes nothing.
LEMMA DeliverIsObserve ==
  ASSUME ChainInv, ClientInv, NEW tx \in mempool, DeliverTx(tx)
  PROVE  [Next]_vars
<1>1. CASE TxAccepted(tx)
  <2>1. Observe(tx.oracle, tx.domain, tx.zone, tx.hash, tx.stamp.height, tx.stamp.appHash)
    BY <1>1 DEF DeliverTx
  <2>2. /\ tx.oracle \in Identities /\ tx.domain \in Domains /\ tx.zone \in ZonesOf[tx.domain]
        /\ tx.hash \in Hashes \cup {NotFound} /\ tx.stamp.appHash = tx.stamp.height
        /\ tx.stamp.height \in 1..(height - 1)
    BY ZoneAssumption DEF ClientInv, Witnessed, Txs
  <2>3. height \in Nat /\ height <= MaxTime
    <3>1. height \in Nat /\ height <= now /\ now <= MaxTime /\ now \in Nat
      BY AdminFacts DEF ChainInv, BlocksInv
    <3>2. QED
      BY <3>1, TimeAssumption
  <2>4. tx.stamp.height \in 0..MaxTime /\ tx.stamp.appHash \in 0..MaxTime
    BY <2>2, <2>3, TimeAssumption
  <2>5. QED
    BY <2>1, <2>2, <2>4 DEF Next
<1>2. CASE ~TxAccepted(tx)
  BY <1>2 DEF DeliverTx, chainVars
<1>3. QED
  BY <1>1, <1>2

\* Whatever happens between oracles, RPC nodes and mempool, the chain takes one of its
\* own steps or none.
LEMMA StepOfChain == ChainInv /\ ClientInv /\ [NetworkNext]_networkVars => [Next]_vars
<1> SUFFICES ASSUME ChainInv, ClientInv, [NetworkNext]_networkVars
             PROVE  [Next]_vars
  OBVIOUS
<1>1. ASSUME NEW tx \in mempool, DeliverTx(tx)
      PROVE  [Next]_vars
  BY <1>1, DeliverIsObserve
<1>2. CASE FinalizeBlock
  BY <1>2 DEF FinalizeBlock, Next
<1>3. CASE UNCHANGED chainVars
  BY <1>3 DEF chainVars
<1>4. CASE UNCHANGED networkVars
  BY <1>4 DEF networkVars, chainVars
<1>5. QED
  BY <1>1, <1>2, <1>3, <1>4
  DEF NetworkNext, HandleObserve, FetchEnrollment, Witness, Broadcast, RequestFails, DropTx

----------------------------------------------------------------------------
(* Votes and what they rest on.                                            *)

\* The oracles that were served x at a name.
Fetchers(d, x, seen) == {o \in Identities : Fetch(o, d, x) \in seen}

\* They are finitely many, and do not become fewer.
LEMMA FetchersGrow ==
  ASSUME NEW d, NEW x, NEW before, NEW after, before \subseteq after, IsFiniteSet(after)
  PROVE  /\ IsFiniteSet(Fetchers(d, x, after))
         /\ Cardinality(Fetchers(d, x, before)) \in Nat
         /\ Cardinality(Fetchers(d, x, after)) \in Nat
         /\ Cardinality(Fetchers(d, x, before)) <= Cardinality(Fetchers(d, x, after))
<1> DEFINE f == [o \in Fetchers(d, x, after) |-> Fetch(o, d, x)]
<1>1. f \in [Fetchers(d, x, after) -> after]
  BY DEF Fetchers
<1>2. \A o, p : Fetch(o, d, x) = Fetch(p, d, x) => o = p
  BY DEF Fetch
<1>3. f \in Injection(Fetchers(d, x, after), after)
  BY <1>1, <1>2 DEF Injection, IsInjective
<1>4. IsFiniteSet(Fetchers(d, x, after))
  BY <1>3, FS_Injection
<1>5. Fetchers(d, x, before) \subseteq Fetchers(d, x, after)
  BY DEF Fetchers
<1>6. QED
  BY <1>4, <1>5, FS_Subset, FS_CardinalityType

\* Cardinality means the same in the instance of the vote queue.
LEMMA SameCardinality == \A S : OracleQ!Cardinality(S) = Cardinality(S)
  BY Zenon DEF OracleQ!Cardinality, Cardinality

\* The votes that make a value win come from different oracles, each of which was
\* served that value.
LEMMA WinnerFetched ==
  ASSUME ChainInv, ClientInv, VotesInv, NEW tx, Witnessed(tx, served),
         NEW v, v = [hash |-> tx.hash, zone |-> tx.zone],
         NEW w \in OracleQ!Winners(config.oracles.voting,
                     OracleQ!RecordVote(tx.domain, tx.oracle, v, now), tx.domain)
  PROVE  Cardinality(Fetchers(tx.domain, w.hash, served)) >= config.oracles.voting.quorum
<1> DEFINE d == tx.domain
           o == tx.oracle
           bs == OracleQ!RecordVote(d, o, v, now)
           cast == {b \in OracleQ!VotesFor(bs, d) : b.value = w}
           fetchers == Fetchers(d, w.hash, served)
           f == [b \in cast |-> b.party]
<1>1. Cardinality(cast) >= config.oracles.voting.quorum
  BY SameCardinality DEF OracleQ!Winners, OracleQ!Tally
<1>2. \A b \in cast : b.key = d /\ b.value = w
                      /\ (b = OracleQ!NewVote(d, o, v, now)
                          \/ (b \in oracleVotes /\ b.party # o))
  BY DEF OracleQ!VotesFor, OracleQ!RecordVote
<1>3. /\ OracleQ!NewVote(d, o, v, now).party = o /\ OracleQ!NewVote(d, o, v, now).value = v
      /\ v.hash = tx.hash
  BY DEF OracleQ!NewVote
<1>4. /\ \A b \in oracleVotes : Fetch(b.party, b.key, b.value.hash) \in served
      /\ \A b \in oracleVotes : b.party \in Identities
      /\ Fetch(o, d, tx.hash) \in served /\ o \in Identities
  BY OracleFacts DEF VotesInv, Witnessed, Txs, ChainInv
<1>5. \A b, c \in oracleVotes : b.key = c.key /\ b.party = c.party => b = c
  BY DEF ChainInv, OracleQ!RefInv, OracleQ!IndInv, OracleQ!InStep, OracleQ!OneVotePerParty
<1> HIDE DEF d, o, bs, cast
<1>6. \A b \in cast : b.party \in fetchers
  BY <1>2, <1>3, <1>4 DEF Fetchers
<1> HIDE DEF fetchers
<1>7. f \in Injection(cast, fetchers)
  <2>1. f \in [cast -> fetchers]
    BY <1>6
  <2>2. \A b, c \in cast : b.party = c.party => b = c
    BY <1>2, <1>3, <1>5
  <2>3. QED
    BY <2>1, <2>2 DEF Injection, IsInjective
<1>8. IsFiniteSet(fetchers) /\ Cardinality(fetchers) \in Nat
  BY FetchersGrow DEF fetchers, ClientInv
<1>9. IsFiniteSet(cast) /\ Cardinality(cast) <= Cardinality(fetchers)
  BY <1>7, <1>8, FS_Injection
<1>10. Cardinality(cast) \in Nat /\ config.oracles.voting.quorum \in Nat
  BY <1>9, FS_CardinalityType, ConfigsAssumption DEF ChainInv, VotingType
<1>11. QED
  BY <1>1, <1>8, <1>9, <1>10 DEF fetchers, d

\* What holds of votes stays in a step of the chain that keeps the config, if every
\* new vote was fetched, and every new pending change by a quorum.
LEMMA VotesInvKept ==
  ASSUME ChainInv, VotesInv, [Next]_vars, config' = config, adminPending' = {},
         served \subseteq served', IsFiniteSet(served'),
         \A b \in oracleVotes' : \/ b \in oracleVotes
                                 \/ /\ b.value.zone = InferZone(b.key)
                                    /\ Fetch(b.party, b.key, b.value.hash) \in served',
         \A c \in oraclePending' :
           \/ c \in oraclePending
           \/ Cardinality(Fetchers(c.key, c.value.hash, served'))
                >= config.oracles.voting.quorum
  PROVE  VotesInv'
<1>1. OracleQ!StandingInv'
  <2>1. OracleQ!StandingInv /\ [OracleQ!Next]_(OracleQ!vars)
    BY StepOfOracleQueue, OracleSame DEF VotesInv
  <2>2. config.oracles.voting.quorum \in Nat
    BY ConfigsAssumption DEF ChainInv, VotingType
  <2>3. config'.oracles.voting.quorum >= config.oracles.voting.quorum
    BY <2>2
  <2>4. QED
    BY <2>1, <2>3, QueueAssumptions, OracleQ!StandingStep
<1>2. \A b \in oracleVotes' : /\ b.value.zone = InferZone(b.key)
                              /\ Fetch(b.party, b.key, b.value.hash) \in served'
  BY DEF VotesInv
<1>3. ASSUME NEW c \in oraclePending'
      PROVE  Cardinality(Fetchers(c.key, c.value.hash, served')) >= config'.oracles.voting.quorum
  <2>1. CASE c \in oraclePending
    <3>1. Cardinality(Fetchers(c.key, c.value.hash, served)) >= config.oracles.voting.quorum
      BY <2>1 DEF VotesInv, QuorumFetched, Fetchers, Fetch
    <3>2. config.oracles.voting.quorum \in Nat
      BY ConfigsAssumption DEF ChainInv, VotingType
    <3>3. QED
      BY <3>1, <3>2, FetchersGrow
  <2>2. QED
    BY <2>1
<1>4. QuorumFetched'
  BY <1>3 DEF QuorumFetched, Fetchers, Fetch
<1>5. QED
  BY <1>1, <1>2, <1>4 DEF VotesInv

\* A transaction that a block includes votes for what its oracle was served.
LEMMA DeliverVotes ==
  ASSUME ChainInv, ClientInv, VotesInv, NEW tx \in mempool, DeliverTx(tx)
  PROVE  VotesInv'
<1>1. [Next]_vars /\ served' = served /\ IsFiniteSet(served) /\ Witnessed(tx, served)
  BY DeliverIsObserve DEF DeliverTx, ClientInv
<1>2. CASE TxAccepted(tx)
  <2> DEFINE v == [hash |-> tx.hash, zone |-> tx.zone]
  <2>1. Observe(tx.oracle, tx.domain, tx.zone, tx.hash, tx.stamp.height, tx.stamp.appHash)
    BY <1>2 DEF DeliverTx
  <2>2. config' = config /\ adminPending' = {}
    BY <2>1 DEF Observe, adminQueue, VotesInv
  <2>3. /\ \A b \in oracleVotes' :
             \/ b \in oracleVotes
             \/ b.key = tx.domain /\ b.party = tx.oracle /\ b.value = v
        /\ \/ oraclePending' = oraclePending
           \/ \E w \in OracleQ!Winners(config.oracles.voting,
                 OracleQ!RecordVote(tx.domain, tx.oracle, v, now), tx.domain) :
                \E change :
                  /\ change.key = tx.domain /\ change.value = w
                  /\ oraclePending' = (oraclePending \ Oracle!PendingFor(tx.domain))
                       \cup (IF w \in AdmittedToPending(tx.domain) THEN {change} ELSE {})
    <3>1. tx.domain \in Domains
      BY <1>1 DEF Witnessed, Txs
    <3>2. QED
      BY <2>1, <3>1, ObserveOutcome
  <2>4. v.zone = InferZone(tx.domain) /\ Fetch(tx.oracle, tx.domain, v.hash) \in served
    BY <1>1 DEF Witnessed
  <2>5. v = [hash |-> tx.hash, zone |-> tx.zone]
    OBVIOUS
  <2> HIDE DEF v
  <2>6. \A w \in OracleQ!Winners(config.oracles.voting,
                    OracleQ!RecordVote(tx.domain, tx.oracle, v, now), tx.domain) :
          Cardinality(Fetchers(tx.domain, w.hash, served)) >= config.oracles.voting.quorum
    BY <1>1, <2>5, WinnerFetched
  <2>7. \A b \in oracleVotes' : \/ b \in oracleVotes
                                \/ /\ b.value.zone = InferZone(b.key)
                                   /\ Fetch(b.party, b.key, b.value.hash) \in served'
    BY <1>1, <2>3, <2>4
  <2>8. \A c \in oraclePending' :
          \/ c \in oraclePending
          \/ Cardinality(Fetchers(c.key, c.value.hash, served'))
               >= config.oracles.voting.quorum
    BY <1>1, <2>3, <2>6
  <2>9. QED
    BY <1>1, <2>2, <2>7, <2>8, VotesInvKept
<1>3. CASE ~TxAccepted(tx)
  <2>1. UNCHANGED chainVars
    BY <1>3 DEF DeliverTx
  <2>2. /\ config' = config /\ adminPending' = {} /\ oracleVotes' = oracleVotes
        /\ oraclePending' = oraclePending
    BY <2>1 DEF chainVars, vars, adminQueue, oracleQueue, VotesInv
  <2>3. QED
    BY <1>1, <2>2, VotesInvKept
<1>4. QED
  BY <1>2, <1>3

\* Blocks only drop votes and pending changes, and the config stays.
LEMMA FinalizeVotes ==
  ASSUME ChainInv, ClientInv, VotesInv, FinalizeBlock
  PROVE  VotesInv'
<1>1. [Next]_vars /\ served' = served /\ IsFiniteSet(served)
  BY DEF FinalizeBlock, Next, ClientInv
<1>2. ASSUME NEW t \in 1..MaxTime, BeginBlock(t)
      PROVE  /\ config' = config /\ adminPending' = {}
             /\ oracleVotes' \subseteq oracleVotes /\ oraclePending' \subseteq oraclePending
  BY <1>2 DEF BeginBlock, Oracle!TimeoutExpiredVotes, VotesInv
<1>3. CASE EndBlock
  <2>1. config' = config
    BY <1>3, AppliedWasPending DEF VotesInv
  <2>2. /\ adminPending' \subseteq adminPending /\ oraclePending' \subseteq oraclePending
        /\ oracleVotes' = oracleVotes
    BY <1>3 DEF EndBlock, Oracle!PromotePendingChanges, Admin!PromotePendingChanges
  <2>3. QED
    BY <1>1, <2>1, <2>2, VotesInvKept DEF VotesInv
<1>4. QED
  BY <1>1, <1>2, <1>3, VotesInvKept DEF FinalizeBlock

----------------------------------------------------------------------------
(* The theorems.                                                           *)

\* The network starts with a new chain and no requests.
LEMMA NetworkInitInv == NetworkInit => NetworkInv
<1> SUFFICES ASSUME NetworkInit
             PROVE  NetworkInv
  OBVIOUS
<1>1. Init /\ request = [r \in Requests |-> Idle] /\ mempool = {} /\ served = {}
  BY DEF NetworkInit
<1>2. ChainInv
  BY <1>1, ChainInit
<1>3. ClientInv
  <2>1. request \in [Requests -> RequestStates] /\ \A r \in Requests : RequestOK(request[r], served)
    BY <1>1 DEF RequestStates, RequestOK
  <2>2. IsFiniteSet({}) /\ Cardinality({}) = 0
    BY FS_EmptySet
  <2>3. QED
    BY <1>1, <2>1, <2>2, NetworkAssumption DEF ClientInv
<1>4. adminPending = {} /\ oracleVotes = {} /\ oraclePending = {}
  BY <1>1 DEF Init
<1>5. OracleQ!StandingInv
  <2>1. OracleQ!Init
    BY <1>1, ConfigsAssumption
    DEF Init, OracleQ!Init, Configs
  <2>2. QED
    BY <2>1, QueueAssumptions, OracleQ!StandingInit
<1>6. VotesInv
  BY <1>4, <1>5 DEF VotesInv, QuorumFetched
<1>7. QED
  BY <1>2, <1>3, <1>6 DEF NetworkInv

\* Every step of the network keeps its invariant.
LEMMA NetworkStep == NetworkInv /\ [NetworkNext]_networkVars => NetworkInv'
<1> SUFFICES ASSUME ChainInv, ClientInv, VotesInv, [NetworkNext]_networkVars
             PROVE  ChainInv' /\ ClientInv' /\ VotesInv'
  BY DEF NetworkInv
<1>1. [Next]_vars /\ ChainInv'
  BY StepOfChain, ChainStep
<1>2. BlocksInv /\ BlocksInv'
  BY <1>1 DEF ChainInv
<1>3. ASSUME UNCHANGED chainVars,
             \/ \E r \in Requests, o \in Identities, d \in Domains : HandleObserve(r, o, d)
             \/ \E r \in Requests :
                  FetchEnrollment(r) \/ Witness(r) \/ Broadcast(r) \/ RequestFails(r)
             \/ \E tx \in mempool : DropTx(tx)
             \/ UNCHANGED networkVars
      PROVE  ClientInv' /\ VotesInv'
  <2>1. ClientInv' /\ served \subseteq served' /\ IsFiniteSet(served')
    BY <1>3, ClientStep DEF ClientInv
  <2>2. /\ config' = config /\ adminPending' = {} /\ oracleVotes' = oracleVotes
        /\ oraclePending' = oraclePending
    BY <1>3 DEF chainVars, vars, adminQueue, oracleQueue, VotesInv
  <2>3. QED
    BY <1>1, <2>1, <2>2, VotesInvKept
<1>4. ASSUME NEW tx \in mempool, DeliverTx(tx)
      PROVE  ClientInv' /\ VotesInv'
  <2>1. request' = request /\ served' = served /\ mempool' \subseteq mempool
    BY <1>4 DEF DeliverTx
  <2>2. height' = height /\ height \in Nat
    BY <1>2, <1>4 DEF DeliverTx, Observe, chainVars, vars, BlocksInv
  <2>3. ClientInv'
    BY <1>2, <2>1, <2>2, ClientInvKept DEF ClientInv
  <2>4. QED
    BY <1>4, <2>3, DeliverVotes
<1>5. ASSUME FinalizeBlock
      PROVE  ClientInv' /\ VotesInv'
  <2>1. request' = request /\ served' = served /\ mempool' = mempool
    BY <1>5 DEF FinalizeBlock
  <2>2. height \in Nat /\ (height' = height \/ height' = height + 1)
    BY <1>2, <1>5 DEF FinalizeBlock, BeginBlock, EndBlock, BlocksInv
  <2>3. height <= height'
    BY <2>2
  <2>4. ClientInv'
    BY <1>2, <2>1, <2>3, ClientInvKept DEF ClientInv
  <2>5. QED
    BY <1>5, <2>4, FinalizeVotes
<1>6. ASSUME UNCHANGED networkVars
      PROVE  ClientInv' /\ VotesInv'
  BY <1>3, <1>6 DEF networkVars
<1>7. ASSUME NetworkNext
      PROVE  ClientInv' /\ VotesInv'
  BY <1>3, <1>4, <1>5, <1>7
  DEF NetworkNext, HandleObserve, FetchEnrollment, Witness, Broadcast, RequestFails, DropTx
<1>8. QED
  BY <1>1, <1>6, <1>7

\* The invariant of the network holds in every reachable state.
THEOREM NetworkInvariant == NetworkSpec => []NetworkInv
<1>1. QED
  BY NetworkInitInv, NetworkStep, PTL DEF NetworkSpec

\* The network implements the chain: whatever the oracles, their RPC nodes and the
\* mempool do, in whatever order, the chain's own specification holds, and all that
\* is proved of it.
THEOREM NetworkImplementsChain == NetworkSpec => Spec
<1>1. NetworkInit => Init
  BY DEF NetworkInit
<1>2. NetworkInv /\ [NetworkNext]_networkVars => [Next]_vars
  BY StepOfChain DEF NetworkInv
<1>3. QED
  BY <1>1, <1>2, NetworkInvariant, PTL DEF NetworkSpec, Spec

\* Requests, transactions, the mempool and the chain are always well formed, and the
\* mempool never holds more than its size.
THEOREM NetworkTypeCorrect == NetworkSpec => []NetworkTypeOK
<1>1. NetworkInv => (TypeOK => NetworkTypeOK)
  <2> SUFFICES ASSUME ClientInv, TypeOK
               PROVE  NetworkTypeOK
    BY DEF NetworkInv
  <2>1. ASSUME NEW r \in Requests
        PROVE  \/ request[r] = Idle
               \/ /\ request[r].step = "fetch" /\ request[r].oracle \in Identities
                  /\ request[r].zone \in Zones
               \/ request[r].step = "stamp" /\ request[r].page \in Pages
               \/ request[r].step = "submit" /\ request[r].tx \in Txs
    BY DEF ClientInv, RequestOK, FetchRequests, StampRequests, SubmitRequests
  <2>2. mempool \subseteq Txs
    BY DEF ClientInv, Witnessed
  <2>3. QED
    BY <2>1, <2>2 DEF ClientInv, NetworkTypeOK, Fetches
<1>2. QED
  BY <1>1, NetworkInvariant, NetworkImplementsChain, ChainTypeCorrect, PTL

\* What becomes pending was really served at that name to a quorum of distinct
\* oracles, whatever sites serve, however requests interleave and however long
\* transactions wait.
THEOREM PendingWasFetched == NetworkSpec => []QuorumFetched
<1>1. NetworkInv => QuorumFetched
  BY DEF NetworkInv, VotesInv
<1>2. QED
  BY <1>1, NetworkInvariant, PTL

\* A blockstamp that an oracle took, even from a node that lags, is accepted by every
\* later block until it is too old, and the mempool holds no other.
THEOREM StampsAreGood == NetworkSpec => []StampsStayValid
<1>1. NetworkInv => StampsStayValid
  <2> SUFFICES ASSUME ChainInv, ClientInv
               PROVE  StampsStayValid
    BY DEF NetworkInv
  <2>1. \A tx \in mempool : Witnessed(tx, served) /\ tx.stamp.height \in 1..(height - 1)
    BY DEF ClientInv
  <2>2. ASSUME NEW tx \in Submitted
        PROVE  Witnessed(tx, served)
    <3>1. PICK r \in Requests : request[r].step = "submit" /\ tx = request[r].tx
      BY DEF Submitted
    <3>2. RequestOK(request[r], served)
      BY DEF ClientInv
    <3>3. QED
      BY <3>1, <3>2, RequestFields
  <2>3. ASSUME NEW tx \in Submitted \cup mempool, tx.stamp.height \in 1..(height - 1)
        PROVE  BlockstampAccepted(tx.stamp.height, tx.stamp.appHash) \/ TooOld(tx.stamp)
    <3>1. tx.stamp.appHash = tx.stamp.height
      BY <2>1, <2>2 DEF Witnessed
    <3>2. QED
      BY <2>3, <3>1, BlockstampStaysValid DEF TooOld
  <2>4. QED
    BY <2>1, <2>3 DEF StampsStayValid
<1>2. QED
  BY <1>1, NetworkInvariant, PTL

\* If the zones of names are those that infer_zone finds, no registered domain has more
\* names enrolled under it than the limit: every name then has one zone, although the
\* zones nest, and the config does not change while oracles work.
THEOREM InferredZonesKeepLimit ==
  ASSUME \A d \in Domains : ZonesOf[d] = {InferZone(d)}
  PROVE  NetworkSpec => []EnrolledWithinLimit
<1>1. OneZonePerName
  BY DEF OneZonePerName
<1>2. NetworkInv /\ [NetworkNext]_networkVars
        => [config' # config => CheckConfig(config, config')]_vars
  <2> SUFFICES ASSUME ChainInv, ClientInv, VotesInv, [NetworkNext]_networkVars
               PROVE  config' = config
    BY DEF NetworkInv
  <2>1. CASE EndBlock
    BY <2>1, AppliedWasPending DEF VotesInv
  <2>2. ASSUME NEW tx \in mempool, DeliverTx(tx)
        PROVE  config' = config
    BY <2>2 DEF DeliverTx, Observe, chainVars, vars
  <2>3. ASSUME UNCHANGED chainVars
        PROVE  config' = config
    BY <2>3 DEF chainVars, vars
  <2>4. ASSUME NEW t, BeginBlock(t)
        PROVE  config' = config
    BY <2>4 DEF BeginBlock
  <2>5. QED
    BY <2>1, <2>2, <2>3, <2>4
    DEF NetworkNext, FinalizeBlock, HandleObserve, FetchEnrollment, Witness, Broadcast,
        RequestFails, DropTx, networkVars
<1>3. Spec /\ OnlyValidReconfigurations => []EnrolledWithinLimit
  BY <1>1, LimitIsKept
<1>4. QED
  BY <1>2, <1>3, NetworkInvariant, NetworkImplementsChain, PTL
  DEF NetworkSpec, OnlyValidReconfigurations

\* Votes for the same observation add up: oracles infer the zone from the name, so
\* what they vote for differs only if they saw different things, and no name and
\* hash are left with a quorum of live votes.
THEOREM ObservationsAddUp == NetworkSpec => []SameObservationAddsUp
<1>1. NetworkInv => SameObservationAddsUp
  <2> SUFFICES ASSUME ChainInv, VotesInv, NEW d \in Domains, NEW x \in Hashes \cup {NotFound},
                      {b.party : b \in {c \in oracleVotes : c.key = d /\ c.value.hash = x}} # {}
               PROVE  Cardinality({b.party : b \in {c \in oracleVotes :
                                                      c.key = d /\ c.value.hash = x}})
                        < config.oracles.voting.quorum
    BY DEF NetworkInv, SameObservationAddsUp
  <2> DEFINE v == [hash |-> x, zone |-> InferZone(d)]
             live == {c \in oracleVotes : c.key = d /\ c.value.hash = x}
             voters == {b.party : b \in live}
             f == [b \in live |-> b.party]
  <2>1. v \in OracleVoteValues /\ v.hash = x /\ v.zone = InferZone(d)
    BY ZoneAssumption, NamesAssumption DEF OracleVoteValues
  <2>2. \A b \in live : b.key = d /\ b.value = v
    <3>1. \A b \in live : b.value \in OracleVoteValues /\ b.value.zone = InferZone(d)
      BY OracleFacts DEF ChainInv, VotesInv
    <3>2. QED
      BY <2>1, <3>1 DEF OracleVoteValues
  <2>3. live = {b \in OracleQ!VotesFor(oracleVotes, d) : b.value = v}
    BY <2>1, <2>2 DEF OracleQ!VotesFor
  <2>4. IsFiniteSet(live)
    <3>1. OracleQ!IsFiniteSet(oracleVotes)
      BY DEF VotesInv, OracleQ!StandingInv
    <3>2. IsFiniteSet(oracleVotes)
      BY <3>1, Zenon DEF OracleQ!IsFiniteSet, IsFiniteSet
    <3>3. QED
      BY <3>2, FS_Subset
  <2>5. f \in Surjection(live, voters)
    BY DEF Surjection
  <2>6. IsFiniteSet(voters) /\ Cardinality(voters) <= Cardinality(live)
    BY <2>4, <2>5, FS_Surjection
  <2>7. /\ Cardinality(voters) \in Nat /\ Cardinality(live) \in Nat
        /\ config.oracles.voting.quorum \in Nat
    BY <2>4, <2>6, FS_CardinalityType, ConfigsAssumption DEF ChainInv, VotingType
  <2>8. ~(Cardinality(live) >= config.oracles.voting.quorum)
    <3>1. v \notin OracleQ!Winners(config.oracles.voting, oracleVotes, d)
      BY DEF VotesInv, OracleQ!StandingInv, OracleQ!NoStandingQuorum
    <3>2. \E b \in OracleQ!VotesFor(oracleVotes, d) : b.value = v
      BY <2>3
    <3> HIDE DEF v, live
    <3>3. ~(OracleQ!Tally(oracleVotes, d, v) >= config.oracles.voting.quorum)
      BY <2>1, <3>1, <3>2 DEF OracleQ!Winners
    <3>4. QED
      BY <2>3, <3>3, SameCardinality DEF OracleQ!Tally
  <2> HIDE DEF voters, live
  <2>9. Cardinality(voters) < config.oracles.voting.quorum
    BY <2>6, <2>7, <2>8
  <2>10. QED
    BY <2>9 DEF voters, live
<1>2. QED
  BY <1>1, NetworkInvariant, PTL

=============================================================================
