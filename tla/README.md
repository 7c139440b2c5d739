# A TLA+ model of felidae

felidae is the WEBCAT infrastructure chain: a CometBFT application that records,
for every enrolled web domain, the hash of its enrollment policy. Oracles fetch
policies from the web and vote on what they saw; admins vote on the chain's
configuration; a change that wins waits in public for a delay and is then
applied. This directory models that machinery in TLA+, checks it with TLC on
small instances and proves theorems about it with TLAPS. Paths are relative to
the repository.

## The system

| part | state it keeps | operations | interacts with |
|---|---|---|---|
| vote queue (`state/voting/`) | votes by key and by time, pending changes by key and by time | `cast`, `timeout_expired_votes`, `promote_pending_changes` | one instance for admins, one for oracles, driven by FinalizeBlock |
| chain state machine (`state/abci/`, `state/action/`, `state/config.rs`, `canonical.rs`, `app_hash.rs`, `time.rs`) | config, canonical map, height, block times, app hashes | FinalizeBlock with the actions Reconfigure and Observe | both queues; read by the query server |
| store and ABCI service (`store.rs`, `abci.rs`) | committed snapshot, in-memory delta, staged batch | Info, InitChain, FinalizeBlock, CheckTx, Commit | CometBFT over four connections |
| validator set (`state/validator.rs`) | power by public key | declare, tombstone, list | InitChain, FinalizeBlock |
| transactions (`felidae-types`, `felidae-proto`) | none | build, sign, verify, convert | every client and the chain |
| oracle (`felidae/src/cli/oracle*`, `felidae-oracle`) | proof-of-work secret | challenge, fetch, witness, submit | web servers, CometBFT RPC |
| web frontend (`frontend/`) | cached list of oracles, visits | collect challenges, submit, report | oracles, query server |
| light-client publication (`felidae-publish`) | a scratch store | print, verify, reconstruct | CometBFT RPC, query server |
| admin client (`felidae-admin`, `cli/admin.rs`) | key file | build, sign and submit a config | CometBFT RPC |
| network deployer (`felidae-deployer`) | the directory of a test network, child processes | create-network, run-network | CometBFT, felidae and oracle processes |
| query server, derive macros, debug commands | none | see `PROJECT.json` | committed snapshots |

(`state/...`, `store.rs` and `abci.rs` are in `src/crates/felidae-state/src/`.)

What is hard here: every collection of the queue is stored twice and updated on
five paths; times are truncated when stored and compared untruncated; the tally
is walked in hash order on every validator; the config, and with it quorum,
timeout and delay, changes under votes already cast; the app hash of a block is
recorded by the next one under a shifted height; FinalizeBlock and Commit lock
the state in stretches between which CheckTx and crashes fall; CometBFT replays
blocks after a restart; an oracle awaits three answers between a request and its
transaction; the publication client puts one picture together from requests
to two servers that lag behind a moving chain; signatures and actions of several
transactions can be put together into one, and a transaction that fails midway is
not rolled back; configs change when they are converted; a proof-of-work token
outlives the server that asked for it; and the deployer can be killed between any
two of its writes and starts. `PROJECT.json` lists these hazards line by line
with the properties that would catch each.

What makes each part correct: for the queue, that a quorum of distinct live
votes and nothing else makes a change pending, and that it becomes due after its
delay and not before; for the chain, that only valid configs take effect, that
limits on enrollment hold, and that canonical entries change only through the
queue; for the store, that each block is applied exactly once and all attempts
at it report one app hash; for the oracles, that what reaches a quorum was served
to a quorum, and that they work only for proofs of work they asked for; for
transactions, that what is executed is what its signers asked for; for the
deployer, that nodes start only on complete files and stop together; for publication, that a light block is accepted exactly when
consensus would accept it and that honest servers never look dishonest.

## The modules

**TimedVoting** is the abstract specification of a vote queue: ballots and
scheduled changes with real block times, no indexes. A ballot must be gone once
its timeout is over and may go up to a second early; likewise a scheduled change.

**VoteQueue** is `vote_queue.rs`. `votes` and `votesByTime` stand for the
prefixes `votes_by_key/` and `votes_by_timestamp/`, `pending` and
`pendingByTime` for the two pending prefixes. `Cast` is the whole of `cast`:
`RecordVote` is steps 0 and 1 (the old vote leaves the primary map only, its
index entry stays, as in the code), `Winners` the tally, of which any member may
win because the code walks a `HashMap`, and `Enqueue` the handling of pending
changes. `admitted` is the set of values that the oracle queue's subdomain limit
lets through; `Chain` computes it and VoteQueue by itself leaves it open.
`TakeWhileOld` is the scan of an index in time order that stops at the first
young entry. `BeginBlock`, `DeliverVote` and `EndBlock` are the queue's share of
FinalizeBlock; `EndBlock(config, next)` promotes under the old config (admin
queue) or under the new one (oracle queue). Entries carry a field `at`, the block
time they were made at, which no action reads.

**Chain** is `finalize_block.rs`, `reconfigure.rs`, `observe.rs` and `config.rs`
over two instances of VoteQueue. A FinalizeBlock is `BeginBlock` (record the app
hash, set height and time, expire votes of both queues), any number of
`Reconfigure` and `Observe` actions, and `EndBlock` (promote and apply configs,
then promote observations under the new config and update the canonical map).
Actions that fail change nothing and are not steps here; transactions of several
actions are the subject of Transactions. Domains are label sequences in prefix
order, as the state's keys are. The app hash after block h is represented by h.
Heights of blockstamps and app hashes are inputs of `Observe`, right or wrong.
`ZonesOf` gives the zones that a name may be observed under.

**AbciStore** is `store.rs` with the handlers of `abci.rs` and CometBFT around
it. A chain state is reduced to the blocks applied to it, the app hashes
recorded in it and the power of each validator. A block carries the misbehaviour
that CometBFT reports; `TombstoneValidators` is what the code makes of it, which is
to log it. `MergeUpdates` is how CometBFT takes the list of active validators that
FinalizeBlock returns. FinalizeBlock is three actions (record the app hash, run the
block, prepare the commit) because the handler releases the lock between them,
Commit is two (write the batch, renew the delta). `Crash` loses the delta and the
staged batch, `CometRestart` keeps them. `Handshake`, `DecideBlock` and
`CometRestart` model CometBFT from how the code uses it: it asks Info, sends
InitChain at height 0, and replays the blocks above the reported height.

**Publication** is the crate `felidae-publish`: `main.rs`, `light_block.rs`,
`verification.rs` and the three commands. `command` is the one that runs and `step`
the request it makes next; `waited` and `attempts` count its retries and polls as
the code does. `rpc` and `app` are how far the RPC node and the query server's node
have got on the chain `canonical`. A commit is a function from validators to
flags, and whether it fits its header and validator set (as many slots as
validators, the same height and block hash); `VerifyLightBlock` is the code's
verdict on it, and `EnoughPower` the comparison with the truncated two thirds.
`reconstruct` fetches all leaves in one page, waits for block N and verifies it,
takes the app hash of N from the header of N + 1, whose own commit it does not
verify, and rebuilds the tree in a store of its own (`StoreInit`, `PutRaw`,
`Commit`); that last part fails at `Commit`, see `publication_reconstruct`.

**OracleNetwork** extends Chain with the oracles. A request is one run of
`observe_domain`, in four steps: accepted by the API server with the zone that
`infer_zone` finds (`HandleObserve`), page fetched (`FetchEnrollment`), blockstamp
taken and transaction witnessed (`Witness`), transaction broadcast (`Broadcast`,
which runs CheckTx). Any step may fail instead. A page is given anew at every
fetch, so that sites may change and show different oracles different things.
The newest block of the RPC node may lag, and may be one that the application has
not finalized: CometBFT stores a block first. The mempool is a set, delivered in
any order or dropped. `served` is a history of what was really served to whom.

**Transactions** extends Chain with the way of a transaction. Clients build it from
what their admin or oracle asks for, `Encode` it (integers saturate at `I64Max`,
durations become whole seconds), and `SignAll` it; a block then holds any message of
up to two actions that can be put together from what was ever signed, damaged or
stripped of its signature field, with any signatures that exist. `Authenticates` is
`AuthenticatedTx::from_proto`, `DeliverTx` the checks before the loop of
`deliver_tx`, and `ApplyAction` one turn of the loop, which is left at the first
action that fails. An optional protobuf field is a set with at most one element. The
wall clock of the clients runs ahead of block time by at most `MaxLag`.

**OracleApi** is the proof-of-work API of `oracle/server.rs` with the frontend
(`server.js` and the page's `app.js`) in front. A challenge is represented by what is
hashed: name, time and secret. `Start` is `load_or_generate_pow_secret`,
`StartCutShort` a stop in the middle of its write. A visit is in one of four steps;
the requests to the oracles are answered one by one, in any order, or fail.
`DirectObserve` is a client that goes past the frontend, with any challenge that was
issued or with one that it makes up itself: a secret that was never written
(`EmptyFile`) is the empty string, with which everybody can compute challenges for any
name and time (`Presentable`). `issued` and `accepted` are histories.

**Deployment** is `create-network` and `run-network`. `step` is the stage a command
is in and `index` the node it works on; `CommandFails` and `Killed` may end it
anywhere and leave a file torn. `process` follows every process of every run, so that
processes that outlive their supervisor meet those of the next run on their ports.

**MCVoteQueue**, **MCChain**, **MCPublication**, **MCOracleNetwork**,
**MCTransactions** and **MCDeployment** hold the instances for TLC; AbciStore and
OracleApi are run as they are. **VoteQueueProofs**, **AbciStoreProofs**,
**PublicationProofs**, **DeploymentProofs**, **ChainProofs**, **OracleNetworkProofs**,
**OracleApiProofs** and **TransactionsProofs** hold the theorems about the modules they
are named after. ChainProofs instantiates VoteQueueProofs once for each of the chain's
two queues; OracleNetworkProofs and TransactionsProofs extend ChainProofs.

## The runs

| run | configuration | shows |
|---|---|---|
| `vote_queue` | `VoteQueue.cfg` | indexes in step, one possible winner, `TimerKept`, and that the queue implements TimedVoting |
| `vote_queue_drains` | `VoteQueueDrains.cfg` | `Drains`: when voting stops the queue empties, stale index entries included |
| `chain_enroll` | `ChainEnroll.cfg` | enrollment under a limit with nested zones, what becomes of pending observations, blockstamps |
| `chain_reconfig` | `ChainReconfig.cfg` | bootstrap and competing configs, reachable quorums, both queues as VoteQueue, the delay of canonical changes while configs change it |
| `abci_store` | `AbciStore.cfg` | exactly-once application, one app hash per block, consistent Info, progress |
| `publication` | `Publication.cfg` | verdicts on light blocks, consistency of leaves and headers, when to poll, that commands end once they have their leaves |
| `oracle_network` | `OracleNetwork.cfg` | provenance of what a quorum observed, validity of blockstamps, equal observations add up |
| `transactions` | `Transactions.cfg` | only what was asked for is executed, votes fall in their window, what is signed survives conversion |
| `deployment` | `Deployment.cfg` | starts only on complete files, one genesis, clean ends, and that processes stop together |
| `oracle_api` | `OracleApi.cfg` | tokens stay redeemable and, at oracles that drew their secret, are good only for what they were asked for; reports are true, visits end |
| `chain_lowered_quorum` | `ChainLoweredQuorum.cfg` | violation: a config that lowers the limit takes effect |
| `publication_reconstruct` | `PublicationReconstruct.cfg` | violation: no reconstruction succeeds, as its commit was never prepared |

The violations are disagreements between the code and what a comment says of it;
`PROJECT.json` quotes both sides under "findings".

More observations are built into the models rather than reported by a run.

- A config list may name an identity twice, which counts for the total and not for the
  vote, so `QuorumReachable` presumes distinct identities.
- If CometBFT restarts alone before block 1, InitChain is sent to an application that
  remembers the first one and refuses; `EventuallyCommitted` makes an exception for it.
- `tombstone_validator` changes nothing, so a validator that misbehaved keeps its power
  on both sides, which is what `ValidatorsInStep` then says.
- The zones that `infer_zone` yields nest: example.com is observed under com, and
  test.example.com under example.com. The registered domain of the first is example.com
  and that of the second test.example.com, which lies below it, so the limit lets in
  names under each. `EnrolledWithinLimit` counts, for a registered domain, the names
  enrolled through it (`EnrolledThrough`); the code's count for example.com includes
  those below, which may then exceed the limit on their own.
- In that situation a pending observation can be lost. A quorum for a new hash of a
  pending example.com passes the early check of `observe.rs` (the name is pending, hence
  no new one), `cast` deletes the pending change, and the check for admission then no
  longer finds the name and refuses it as one too many, although "updates dont count
  towards the limit" (`observe.rs:203`). `PendingOnlyReplaced` says that a pending
  observation is lost in this situation (`Overcrowded`) and in no other; without the
  exception TLC finds the loss in the run `chain_enroll`.
- A stop between the creation of `pow_secret.hex` and its contents leaves an oracle with
  the empty secret for good (`server.rs:123-134`), which accepts work on challenges that
  anybody can compute. `AcceptedOnlyIssued` excepts such oracles and covers all others.
- The publication client's request for the leaves has no timeout
  (`reconstruct.rs:49-54`); `Terminates` makes an exception for the wait for them.

*Bounds.* `MaxTime` bounds block time, not the number of votes. With two ticks to
a second, three to six ticks let an entry be made inside a second, be truncated,
reach its timeout or delay exactly, and be one tick short of it or past it.
Three parties with a quorum of two are the fewest for which one value can stand
with a quorum while a third party votes for another. Two keys share the time
index. In `chain_enroll` two names share a registered domain with room for one, the
fewest that can exceed a limit, and a third name is the parent of both and a registered
domain itself, so that zones nest as inferred ones do; four seconds suffice to
enroll a name, have it canonical and delete it again. Times there are whole seconds,
as nothing in that run is about truncation; `chain_reconfig`, with two ticks to a second,
has oracle delays of one tick to four, so that a config can shorten or lengthen the
delay of what is pending. Four
blocks and three restarts let every attempt at a block fail in a different place
and the next block be built on the result; one report of misbehaviour among two
validators tells a validator that is dropped from one that is kept. In `publication` the voting powers
make the total no multiple of three, so that the truncating division matters, and
the chain is long enough to move on between any two requests. In `oracle_network`
two requests at a time can overtake each other at every await, two oracles are a
quorum, and four ticks let a blockstamp become too old while its transaction
waits. In `transactions` two signed messages are the fewest from which a third can be
put together, and the configs have durations with a fraction of a second and one
beyond `I64Max`. In `deployment` the default network is run twice, so that one run
meets what the other left, a validator with its sentry once, and networks of up to
four validators are created. In `oracle_api` two oracles can be confused with one
another, also with the empty secret in both, time can pass the window by one, and one
request of another client is accepted (`MaxDirect`): the property speaks of each by
itself. Parties, keys and values are
interchangeable in the actions and properties, so symmetry is sound where it is
used; the liveness runs use none.

*Deadlock* is not checked where time is bounded: the last block simply ends the
run. In `AbciStore` the refused InitChain stops the chain, and in `deployment` and
`oracle_api` users may stop giving commands.

*Fairness.* `Terminates` assumes that every request of the publication client to the
RPC node is answered or fails, for the HTTP client of `tendermint-rpc` gives up after a
timeout of its own; servers need not make progress. Nothing is assumed of the request
for the leaves, which `reconstruct` makes with a `reqwest` client without a timeout: it
may stay unanswered, and the command then waits for ever.
`Drains` assumes that consensus goes on producing blocks and finishes
each. `EventuallyCommitted` assumes weak fairness of each step of the consensus
connection, which CometBFT drives request by request, and of the handshake after
a restart; nothing is assumed of CheckTx, and crashes are bounded, not fair.
`StopsTogether` assumes that the supervisor's own loop goes on (starting, polling,
killing); nothing is assumed of users, processes or failures. `SubmissionEnds` assumes
that each request of the frontend is settled, which its timeouts of 5 and 30 seconds
see to, and that the frontend and the page go on then; oracles need not answer.

## What is proved

Every theorem holds for all values of the constants that satisfy the `ASSUME`s of its
module, which say what the code's types say (unsigned numbers, finite lists, names that
are sequences of labels) and are evaluated by the runs.

*The vote queue*, for all keys, parties, values, voting configs, resolutions of time and
bounds. *Types*: `TypeCorrect`. *The indexes*: `VotesAreIndexed`, `PartiesCountOnce`,
`PendingStaysInStep` and `ExpiredVotesNeverCount` follow from one inductive
invariant, `IndInv`, the conjunction of all four with the type invariant. They
need each other: that no expired vote remains after `BeginBlock` rests on every
vote being indexed (what the scan keeps is young, `KeptIsYoung`), and that a
promotion removes the same changes from both copies rests on their being equal
before it. *Timers*: `TimersAreKept` is an action property proved from the same
invariant. *One winner*: `AtMostOneWinner` holds as long as no config lowers the
quorum and uses a second invariant, that the votes are finite and no value
stands with a quorum; a new vote can then complete only the quorum of its own
value. Without the condition it is false, and `chain_lowered_quorum` shows what
follows. *Refinement*: `QueueImplementsTimedVoting` shows that initial states map
to initial states and every step to a step of TimedVoting, under the invariant
that stored times are the truncations of real ones.

*The chain*, for any names, zones, identities and configs. `AdminQueueKeepsSpec` and
`OracleQueueKeepsSpec` show that every step of the chain is a step or a stutter of each
queue, whatever the other queue, the blocks and the configs do; with them everything
proved of a queue, `QueueImplementsTimedVoting` included, holds of both
(`QueuesImplementTimedVoting`). The inductive invariant `ChainInv` adds `BlocksInv`:
blocks are numbered and timed in order, and the app hash of every block but the newest
is recorded one below its height. From it follow `ChainTypeCorrect`,
`BlockstampsAreSound` and `CanonicalChangesAfterDelay`. `QuorumStaysReachable` needs in
addition that every vote, pending change and current config passed the checks of
`check_config` (`WellFormedInv`).

Three results about the chain have conditions, which the theorems state and which the
code does not enforce. `ReconfigurationsAreValid` and `ObservationsHaveOneWinner` hold
as long as no config that takes effect lowers the quorum of admins (of oracles).
`chain_lowered_quorum` is the counterexample without that condition: votes cast under
the higher quorum then win without being checked again. `LimitIsKept` holds as
long as reconfigurations are valid, which the first of these theorems gives, and if
each name is observed under one zone (`OneZonePerName`). `observe` does not check that,
but zones that `infer_zone` finds are such, nested as they are:
`InferredZonesKeepLimit`, in OracleNetworkProofs, has no other condition. The proof
follows a name through the replacement of a pending change: its key keeps its place
among the names enrolled through its registered domain (`PlaceInv`, `EnrollStep`), and
a name that is admitted finds at most the limit there (`AdmittedWithinLimit`).
`PendingIsOnlyReplaced` needs none of these conditions: if the value that wins is
refused after its predecessor was deleted, the registered domain held more names than
the limit without it (`ReplacementAdmitted`).

*The oracles*, for any number of concurrent requests, oracles, pages and a lagging RPC
node: `NetworkImplementsChain` shows that whatever they do, the chain takes its own steps
only. `NetworkInv` is `ChainInv` with what a request knows at each of its awaits
(`ClientInv`) and what votes may then say (`VotesInv`). `PendingWasFetched` follows from
the provenance of every vote that makes up a quorum. `StampsAreGood` follows because
the block of a header that a node has shown never changes its time or app hash.
`ObservationsAddUp` and `NetworkTypeCorrect` are parts of the invariant, and
`InferredZonesKeepLimit` carries `LimitIsKept` over. The configs of
this module do not change while oracles work, as in its run.

*The proof-of-work API*, for any number of oracles, visits and restarts:
`TokensAreRedeemable`, `OnlyIssuedIsAccepted` and `ReportsAreTruthful`. `ServerInv` says
that a server runs with the secret in its file and that no two files with a secret that
was drawn hold the same one. `ApiInv` adds what a visit has seen so far: every token it
holds was issued, and what it counts was accepted. `OnlyIssuedIsAccepted` excepts
oracles whose secret was never written, as the property does: of them it says only that
a solution was presented. For all others a challenge made up for the empty secret does
not match, and one that was issued matches only at the oracle that made it.

*Transactions*, for any configs, keys, number of signatures and widths of integers with
U32Max below I64Max. The lemmas show the conversions: a duration loses less than a
second or saturates (`DurationComesBack`), a config comes back with nothing else changed
(`ConfigComesBack`), and an action that was asked for decodes to what was meant
(`ActionComesBack`). `SignedByAll` is the step that matters: if a message verifies, every
key of its signature fields signed this very message, whatever signatures it was put
together with. `TxInv` says that whatever was signed and decodes was asked for, that
what is left to execute is the end of such a transaction, and that votes fall in their
windows; `OnlyAskedIsExecuted`, `VotesWereAskedInTime` and `AskedPassesAuthentication`
follow. TLC confirms `TxInv` on the instance of the run `transactions`.

*Publication*, for any chain length, numbers of tries and polls, and validators of
any total power: `VerdictIsRight` (accepting above the truncated two thirds is
accepting above two thirds), `NeverMismatches` and `NextBlockIsThere`. They
follow from an inductive invariant that relates each step of a command to what
it has already seen: no node is ahead of the chain (`NodesBehindChain`), the leaves
are a snapshot of a committed block (`PageIsSnapshot`), the height asked for is that
of the leaves or the next (`OnTarget`, `PhasesInOrder`), and an outcome is set only
at the end (`OutcomeAtEnd`). `PublicationAssumption` names what is assumed of the constants;
the sum of the validators' powers is only required to be a natural number.

*Store*, for any number of blocks, crashes, validators and any power: `TypeCorrect`,
`AppliedExactlyOnce`, `OneAppHash`, `InfoIsConsistent`, `HashesAreRecorded`,
`PowersAgree` and `CommitsAreInOrder`. The inductive invariant says that there is a
height h such that the disk holds the state after block h of a node that never
failed (`Disk`), a staged batch is that of block h + 1 and its hash was reported
(`Staging`), the in-memory state is determined by h and by where the consensus
connection is (`Memory`), only the right hashes were ever reported (`Reports`), and
CometBFT's validator set is that of the genesis file once it was told (`Powers`). The
properties are not inductive by themselves: that a replay reports the same hash rests
on the delta having been renewed from the disk, and that in turn on which request
comes next. The assumptions are that the bounds are natural numbers and that the
genesis power is positive.

*Deployment*, for networks of any size and any number of runs: `TypeCorrect`,
`OnlyWholeStarted`, `GenesisAgrees`, `EndsClean`, `QuorumSound`, and `PortsNeverMeet`
for networks of up to 389 nodes, the most whose ports do not overflow. Three
invariants carry them: `Progress`, that the files of the steps before the current one
are there (and network.json only with all of them), `Sealed`, that a completed network
is left alone by every later step, and `Supervised`, that a run which ended well has no
process.

Some facts are proved and not run again, because a small instance adds nothing to the
proof: the type invariants of VoteQueue, AbciStore, Publication, Deployment and Chain,
`OneVotePerParty`, `NoExpiredVoteCounts` (which TimedVoting also demands),
`QuorumIsBFT` and `NoSelfConflict`.

Every safety invariant and action property of the passing runs is stated by a theorem.
Liveness (`Drains`, `EventuallyCommitted`, `Terminates`, `StopsTogether`,
`SubmissionEnds`) is only model-checked: the prover does not handle fairness. What
recursive definitions compute for every input is out of its reach too and stays with
TLC.

## What is left

*Proofs*: that Transactions and its clients take only steps of Chain, which needs the
configs that come out of the conversions to be among the chain's `Proposals` (those of the
run are); with it the theorems about Chain carry over to transactions
of several actions. `LimitIsKept` cannot do without `OneZonePerName`: a name that is observed
under several zones has a registered domain for each.

## Known limits

What the models do not reach, although the code is exposed to it: zones given on the
command line of `oracle observe`, under which equal observations of two oracles need not
add up (`SameObservationAddsUp` is about inferred ones); the cast of a
blockstamp's height to u32 (`observe.rs:58`), beyond any height counted here; forks of
running CheckTx requests while `prepare_commit` flattens the delta under them
(`store.rs:147`), which cnidarium decides; an error or a dropped future in the middle of
`finalize_block` (`abci.rs:103`), after which the ABCI server library and CometBFT
decide what becomes of the connection; and the frontend's list of oracles, which is
fetched once and never renewed (`server.js:196`; in the model, but nothing says that it
should be). A creation that is cut short while it puts the config into
the genesis files leaves nodes with different ones, which `run-network` accepts;
`SameGenesisOnceCreated` begins when creation has completed. When a process cannot be
started `run-network` leaves the ones before it
running; `CleanEnd` is about runs that end without an error, and the next run meets
them on its ports.

## Not modelled

- The query server's endpoints, apart from the leaves that Publication reads: each
  reads one committed snapshot and formats it.
- The admin client's `init`, `identity` and `template`, which read or write one file.
- process-compose, to which `run-network` can hand a network over, and the text of
  the configuration files that the deployer writes.
- Restarts of the frontend, which only forget the cached list of oracles.
- The derive macros (code generation) and the debug and reset commands (offline tools).
- Wording and formatting, HTTP, hashing and Merkle proofs (taken as injective), and the
  storage library cnidarium, whose snapshots are taken as atomic.
