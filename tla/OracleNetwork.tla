--------------------------- MODULE OracleNetwork ---------------------------
(***************************************************************************)
(* Oracles at work: requests to the oracles' API servers, the pages they   *)
(* fetch, the blockstamps they take, the transactions they submit, and     *)
(* CometBFT's mempool, composed with the chain that counts their votes.    *)
(*                                                                         *)
(* A request is one run of observe_domain.  It awaits three answers (the   *)
(* page, the latest block, the broadcast), so other requests and blocks of *)
(* the chain fall between them.  A site may serve something else every     *)
(* time, so pages are not kept.  The mempool holds transactions for any    *)
(* time, delivers them in any order, and may drop them.  The chain runs    *)
(* under one config.                                                       *)
(***************************************************************************)
EXTENDS Chain

CONSTANTS
  PublicSuffixes,  \* the Public Suffix List
  Requests,        \* requests that the oracles serve at a time
  MempoolSize,     \* transactions that the mempool holds
  MaxLag           \* bound: how far the RPC node is behind

ASSUME NetworkAssumption == MempoolSize \in Nat /\ MaxLag \in Nat

VARIABLES
  request,   \* the state of each request
  mempool,   \* transactions that passed CheckTx
  served     \* history: which oracle was served what, and where

chainVars == vars
networkVars == <<chainVars, request, mempool, served>>

----------------------------------------------------------------------------
(* Zones and pages.                                                        *)

Suffix(d) ==
  CHOOSE s \in PublicSuffixes :
    IsPrefix(s, d) /\ \A t \in PublicSuffixes : IsPrefix(t, d) => Len(t) <= Len(s)

\* The registrable domain: the public suffix and one label.
Root(d) == SubSeq(d, 1, Len(Suffix(d)) + 1)

InferZone(d) == IF d = Root(d) THEN Suffix(d) ELSE Root(d)

ASSUME ZoneAssumption == \A d \in Domains : InferZone(d) \in ZonesOf[d]

\* What a web server answers: a valid enrollment, here its canonical hash, 404 or
\* 410 (NotFound), success with an empty body, or an enrollment that witness
\* refuses.  Other answers and network errors end the request.
Pages == Hashes \cup {NotFound, "empty", "invalid"}

\* None of these is a hash, or the same as another.
ASSUME PagesAssumption ==
  NotFound \notin Hashes /\ {"empty", "invalid"} \cap (Hashes \cup {NotFound}) = {}

\* Mutant: what cannot be parsed counts as not enrolled.
MutantHashObserved(page) == IF page \in {"empty", "invalid"} THEN NotFound ELSE page

\* Mutant: an empty body is taken for an enrollment.
MutantHashObservedRaw(page) == page

\* unwrap_or_default makes 404 an empty string, and witness takes any empty
\* string for NotFound.
HashObserved(page) == IF page = "empty" THEN NotFound ELSE page

\* What a page shows: the enrollment with its hash, or that there is none.
Shows(page) ==
  CASE page \in Hashes -> {page}
    [] page \in {NotFound, "empty"} -> {NotFound}
    [] page = "invalid" -> {}

Idle == [step |-> "idle"]

NetworkInit ==
  /\ Init
  /\ request = [r \in Requests |-> Idle]
  /\ mempool = {}
  /\ served = {}

----------------------------------------------------------------------------
(* A request to an oracle.                                                 *)

\* A request with a valid proof of work, for a name whose zone can be inferred.
\* (The command line also accepts a zone instead.)
HandleObserve(r, o, d) ==
  /\ request[r] = Idle
  /\ request' = [request EXCEPT ![r] =
                   [step |-> "fetch", oracle |-> o, domain |-> d, zone |-> InferZone(d)]]
  /\ UNCHANGED <<chainVars, mempool, served>>

FetchEnrollment(r) ==
  LET q == request[r]
  IN  /\ q.step = "fetch"
      /\ \E page \in Pages :
           /\ request' = [request EXCEPT ![r] =
                            [step |-> "stamp", oracle |-> q.oracle, domain |-> q.domain,
                             zone |-> q.zone, page |-> page]]
           /\ served' = served \cup
                          {[oracle |-> q.oracle, domain |-> q.domain, hash |-> x] : x \in Shows(page)}
      /\ UNCHANGED <<chainVars, mempool>>

\* The newest block of the RPC node.  A block is there before it is finalized.
LatestBlocks ==
  {h \in 1..(height + 1) : /\ h >= height - MaxLag
                           /\ h = height + 1 => phase = "idle"}

\* Mutant: the stamp has the height of the block whose header it was taken from.
MutantBlockstamp(latest) == [height |-> latest, appHash |-> latest - 1]

\* The header's app hash is that of the block before it.
Blockstamp(latest) == [height |-> latest - 1, appHash |-> latest - 1]

\* The transaction that witness builds and signs.
WitnessTx(q, stamp) ==
  [oracle |-> q.oracle, domain |-> q.domain, zone |-> q.zone,
   hash |-> HashObserved(q.page), stamp |-> stamp]

\* The stamp is taken after the fetch.  An enrollment that is refused ends the
\* request.
Witness(r) ==
  LET q == request[r]
  IN  /\ q.step = "stamp"
      /\ \E latest \in LatestBlocks :
           request' = [request EXCEPT ![r] =
                         IF HashObserved(q.page) = "invalid" THEN Idle
                         ELSE [step |-> "submit", tx |-> WitnessTx(q, Blockstamp(latest))]]
      /\ UNCHANGED <<chainVars, mempool, served>>

TxAccepted(tx) ==
  ObserveAccepted(tx.oracle, tx.domain, tx.zone, tx.hash, tx.stamp.height, tx.stamp.appHash)

\* CheckTx executes the transaction on a fork of the state.
CheckTx(tx) == TxAccepted(tx)

Broadcast(r) ==
  LET q == request[r]
  IN  /\ q.step = "submit"
      /\ phase = "idle"
      /\ mempool' = IF CheckTx(q.tx) /\ Cardinality(mempool) < MempoolSize
                     THEN mempool \cup {q.tx} ELSE mempool
      /\ request' = [request EXCEPT ![r] = Idle]
      /\ UNCHANGED <<chainVars, served>>

\* A fetch or an RPC call fails or times out, and with it the request.
RequestFails(r) ==
  /\ request[r] # Idle
  /\ request' = [request EXCEPT ![r] = Idle]
  /\ UNCHANGED <<chainVars, mempool, served>>

----------------------------------------------------------------------------
(* The chain.                                                              *)

\* A block includes the transaction; if it fails there it changes nothing.
DeliverTx(tx) ==
  /\ phase = "delivering"
  /\ IF TxAccepted(tx)
     THEN Observe(tx.oracle, tx.domain, tx.zone, tx.hash, tx.stamp.height, tx.stamp.appHash)
     ELSE UNCHANGED chainVars
  /\ mempool' = mempool \ {tx}
  /\ UNCHANGED <<request, served>>

DropTx(tx) ==
  /\ mempool' = mempool \ {tx}
  /\ UNCHANGED <<chainVars, request, served>>

FinalizeBlock ==
  /\ (\E t \in 1..MaxTime : BeginBlock(t)) \/ EndBlock
  /\ UNCHANGED <<request, mempool, served>>

NetworkNext ==
  \/ \E r \in Requests, o \in Identities, d \in Domains : HandleObserve(r, o, d)
  \/ \E r \in Requests : FetchEnrollment(r)
  \/ \E r \in Requests : Witness(r)
  \/ \E r \in Requests : Broadcast(r)
  \/ \E r \in Requests : RequestFails(r)
  \/ \E tx \in mempool : DeliverTx(tx)
  \/ \E tx \in mempool : DropTx(tx)
  \/ FinalizeBlock

NetworkSpec == NetworkInit /\ [][NetworkNext]_networkVars

----------------------------------------------------------------------------
(* Properties.                                                             *)

Txs == [oracle : Identities, domain : Domains, zone : Zones,
        hash : Hashes \cup {NotFound}, stamp : [height : Nat, appHash : Nat]]

\* Requests and transactions are well formed at every stage, and so is the chain.
NetworkTypeOK ==
  /\ TypeOK
  /\ \A r \in Requests :
       LET q == request[r]
       IN  \/ q = Idle
           \/ q.step = "fetch" /\ q.oracle \in Identities /\ q.zone \in Zones
           \/ q.step = "stamp" /\ q.page \in Pages
           \/ q.step = "submit" /\ q.tx \in Txs
  /\ mempool \subseteq Txs
  /\ Cardinality(mempool) <= MempoolSize
  /\ served \subseteq [oracle : Identities, domain : Domains, hash : Hashes \cup {NotFound}]

\* What becomes pending was really served at that name to a quorum of distinct
\* oracles: no order of fetches, changing pages, delayed transactions and votes
\* that replace each other makes up an observation, and enrollments that are
\* refused never turn into the deletion of a name.
QuorumFetched ==
  \A c \in oraclePending :
    Cardinality({o \in Identities :
                   [oracle |-> o, domain |-> c.key, hash |-> c.value.hash] \in served})
      >= config.oracles.voting.quorum

\* The transactions on their way: witnessed, or in the mempool.
Submitted == {q.tx : q \in {request[r] : r \in {s \in Requests : request[s].step = "submit"}}}

TooOld(stamp) == now - blockTimes[stamp.height] >= config.oracles.observation_timeout

\* A blockstamp from the newest header, or from a node that lags, is accepted in
\* every later block until it is too old, and so is any that CheckTx let through.
StampsStayValid ==
  /\ \A tx \in mempool : tx.stamp.height \in 1..(height - 1)
  /\ \A tx \in Submitted \cup mempool :
       tx.stamp.height \in 1..(height - 1) =>
         BlockstampAccepted(tx.stamp.height, tx.stamp.appHash) \/ TooOld(tx.stamp)

=============================================================================
