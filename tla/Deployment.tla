----------------------------- MODULE Deployment -----------------------------
(***************************************************************************)
(* The network deployer: create-network writes the files of a test network *)
(* one after the other, run-network starts its processes and supervises    *)
(* them.  Either command may fail or be killed between any two steps, and  *)
(* the next command finds what it left behind: files that are missing or   *)
(* torn, and processes that go on without their supervisor.                *)
(*                                                                         *)
(* One directory is modelled.  Nodes are numbered as Network::new creates  *)
(* them, validators first.  A process is a node and one of the programs    *)
(* that run for it.  Handing the network over to the tool process-compose  *)
(* is left out.                                                            *)
(***************************************************************************)
EXTENDS Integers, FiniteSets, Sequences

CONSTANTS
  Networks,      \* networks that may be asked for: [validators, sentries]
  MaxRuns        \* bound: number of times run-network is called on each of them

ASSUME NetworksAssumption ==
  /\ Networks # {}
  /\ Networks \subseteq [validators : Nat \ {0}, sentries : BOOLEAN]
ASSUME RunsAssumption == MaxRuns \in [Networks -> Nat]

----------------------------------------------------------------------------
(* Networks, their processes and ports.                                    *)

\* Network::new: as many sentries as validators, if any.
Size(network) ==
  IF network.sentries THEN 2 * network.validators ELSE network.validators

Nodes(network) == 1..Size(network)

IsValidator(network, node) == node <= network.validators

Programs == {"cometbft", "felidae", "oracle"}

Process(node, program) == [node |-> node, program |-> program]

\* NetworkConfig::default, the network of a run without a directory.
DefaultNetwork == [validators |-> 1, sentries |-> FALSE]

\* The oracle server runs on validators only.
Processes(network) ==
  {Process(i, p) : i \in Nodes(network), p \in {"cometbft", "felidae"}}
    \cup {Process(i, "oracle") : i \in {j \in Nodes(network) : IsValidator(network, j)}}

\* The ports of ports.rs.
DEFAULT_COMETBFT_P2P_PORT == 26656
DEFAULT_COMETBFT_RPC_PORT == 26657
DEFAULT_FELIDAE_ABCI_PORT == 26658
DEFAULT_FELIDAE_QUERY_PORT == 8080
DEFAULT_FELIDAE_ORACLE_PORT == 8081
DEFAULT_PORT_OFFSET == 100

\* allocate, in u16 arithmetic; node indexes start at zero in the code.
Allocate(base, node) == (base + (node - 1) * DEFAULT_PORT_OFFSET) % 65536

\* The ports that a process listens on.
Ports(process) ==
  CASE process.program = "cometbft" ->
         {Allocate(DEFAULT_COMETBFT_P2P_PORT, process.node),
          Allocate(DEFAULT_COMETBFT_RPC_PORT, process.node)}
    [] process.program = "felidae" ->
         {Allocate(DEFAULT_FELIDAE_ABCI_PORT, process.node),
          Allocate(DEFAULT_FELIDAE_QUERY_PORT, process.node)}
    [] process.program = "oracle" ->
         {Allocate(DEFAULT_FELIDAE_ORACLE_PORT, process.node)}

\* The quorum of admins and of oracles in generate_felidae_config.
GenesisQuorum(n) == (n * 2) \div 3 + 1

----------------------------------------------------------------------------
(* The state.                                                              *)

VARIABLES
  occupied,     \* the directory has an entry
  initialized,  \* nodes whose keys are written
  genesis,      \* contents of each node's genesis.json
  configs,      \* nodes whose config.toml is written
  metadata,     \* network.json
  network,      \* the network of the directory, once one was asked for
  command,      \* the deployer command that runs
  temporary,    \* it works in a temporary directory
  step,         \* where it is
  index,        \* the node it works on next
  shutdown,     \* the flag that ends supervision
  runs,         \* number of calls of run-network so far
  ended,        \* how each run ended, "no" before
  process,      \* process[r][p]: p as started by run r
  created       \* history: the files of the directory were completed

files == <<occupied, initialized, genesis, configs, metadata>>
vars == <<files, network, command, temporary, step, index, shutdown, runs, ended,
          process, created>>

AllNodes == UNION {Nodes(w) : w \in Networks}
AllProcesses == {Process(i, p) : i \in AllNodes, p \in Programs}
Runs == UNION {1..MaxRuns[w] : w \in Networks}

Commands == {"none", "create", "run"}
CreateSteps == {"nodes", "genesis", "copy", "configs", "metadata", "inject", "compose"}
RunSteps == {"load", "preflight", "spawn", "monitor", "kill"}

\* Contents of a file: "torn" when a write was cut short.
Genesis == {"none", "torn", "bare", "configured"}

\* The processes of a run that are up.
Up(r) == {p \in Processes(network) : process[r][p] \in {"started", "listening"}}

Listening(r) == {p \in Processes(network) : process[r][p] = "listening"}

TakenPorts == UNION {Ports(p) : p \in UNION {Listening(r) : r \in Runs}}

Init ==
  /\ occupied = FALSE /\ initialized = {} /\ configs = {} /\ metadata = "none"
  /\ genesis = [i \in AllNodes |-> "none"]
  /\ network \in Networks
  /\ command = "none" /\ temporary = FALSE /\ step = "none" /\ index = 1
  /\ shutdown = FALSE
  /\ runs = 0
  /\ ended = [r \in Runs |-> "no"]
  /\ process = [r \in Runs |-> [p \in AllProcesses |-> "none"]]
  /\ created = FALSE

----------------------------------------------------------------------------
(* create-network, and run-network without a directory.                    *)

\* Mutant: a directory that is not empty is used again.
MutantCreateNetwork ==
  /\ command = "none" /\ metadata # "torn"
  /\ command' = "create" /\ temporary' = FALSE /\ step' = "nodes" /\ index' = 1
  /\ UNCHANGED <<files, network, shutdown, runs, ended, process, created>>

\* The directory has to be empty or not to exist.
CreateNetwork ==
  /\ command = "none"
  /\ ~occupied
  /\ command' = "create" /\ temporary' = FALSE /\ step' = "nodes" /\ index' = 1
  /\ UNCHANGED <<files, network, shutdown, runs, ended, process, created>>

\* A run without a directory creates the network in a fresh temporary one.
RunTemporary ==
  /\ command = "none" /\ runs < MaxRuns[network]
  /\ network = DefaultNetwork
  /\ ~occupied
  /\ command' = "run" /\ temporary' = TRUE /\ step' = "nodes" /\ index' = 1
  /\ runs' = runs + 1
  /\ UNCHANGED <<files, network, shutdown, ended, process, created>>

\* Mutant: the metadata is saved before the configs are written.
MutantAfter(s) ==
  CASE s = "nodes" -> "genesis"
    [] s = "genesis" -> "copy"
    [] s = "copy" -> "metadata"
    [] s = "metadata" -> "configs"
    [] s = "configs" -> "inject"
    [] s = "inject" -> IF command = "create" THEN "compose" ELSE "load"

\* The order of initialize, generate_felidae_config, inject_genesis_app_state.
After(s) ==
  CASE s = "nodes" -> "genesis"
    [] s = "genesis" -> "copy"
    [] s = "copy" -> "configs"
    [] s = "configs" -> "metadata"
    [] s = "metadata" -> "inject"
    [] s = "inject" -> IF command = "create" THEN "compose" ELSE "load"

\* A step that is a loop over the nodes.
NextNode ==
  /\ IF index < Size(network)
     THEN index' = index + 1 /\ UNCHANGED step
     ELSE index' = 1 /\ step' = After(step)
  /\ UNCHANGED <<network, command, temporary, shutdown, runs, ended, process>>

NextStep ==
  /\ step' = After(step)
  /\ UNCHANGED <<index, network, command, temporary, shutdown, runs, ended, process>>

InitializeNode ==
  /\ step = "nodes"
  /\ occupied' = TRUE /\ initialized' = initialized \cup {index}
  /\ NextNode
  /\ UNCHANGED <<genesis, configs, metadata, created>>

\* The genesis in the network's own directory, which no process reads.
GenerateGenesis ==
  /\ step = "genesis"
  /\ \A i \in Nodes(network) : IsValidator(network, i) => i \in initialized
  /\ NextStep
  /\ UNCHANGED <<files, created>>

CopyGenesis ==
  /\ step = "copy"
  /\ genesis' = [genesis EXCEPT ![index] = "bare"]
  /\ NextNode
  /\ UNCHANGED <<occupied, initialized, configs, metadata, created>>

GenerateConfig ==
  /\ step = "configs"
  /\ configs' = configs \cup {index}
  /\ NextNode
  /\ UNCHANGED <<occupied, initialized, genesis, metadata, created>>

SaveMetadata ==
  /\ step = "metadata"
  /\ metadata' = "written"
  /\ NextStep
  /\ UNCHANGED <<occupied, initialized, genesis, configs, created>>

\* The node's genesis is read, given an app_state, and written again.
InjectAppState ==
  /\ step = "inject"
  /\ genesis[index] \in {"bare", "configured"}
  /\ genesis' = [genesis EXCEPT ![index] = "configured"]
  /\ NextNode
  /\ created' = (index = Size(network) \/ created)
  /\ UNCHANGED <<occupied, initialized, configs, metadata>>

WriteProcessCompose ==
  /\ step = "compose"
  /\ command' = "none" /\ step' = "none"
  /\ UNCHANGED <<files, network, temporary, index, shutdown, runs, ended, process,
                 created>>

----------------------------------------------------------------------------
(* run-network.                                                            *)

RunNetwork ==
  /\ command = "none" /\ runs < MaxRuns[network]
  /\ command' = "run" /\ temporary' = FALSE /\ step' = "load" /\ index' = 1
  /\ runs' = runs + 1
  /\ UNCHANGED <<files, network, shutdown, ended, process, created>>

LoadNetwork ==
  /\ step = "load"
  /\ metadata = "written"
  /\ step' = "preflight"
  /\ UNCHANGED <<files, network, command, temporary, index, shutdown, runs, ended,
                 process, created>>

\* Every port of the network can be bound right now; then the signal handler is
\* set.
PortsAvailable ==
  \A p \in Processes(network) : Ports(p) \cap TakenPorts = {}

Preflight ==
  /\ step = "preflight"
  /\ PortsAvailable
  /\ step' = "spawn" /\ shutdown' = FALSE
  /\ UNCHANGED <<files, network, command, temporary, index, runs, ended, process,
                 created>>

\* The programs are started node by node in this order.
SpawnOrder(p, q) ==
  LET rank == [cometbft |-> 1, felidae |-> 2, oracle |-> 3]
  IN  p.node < q.node \/ (p.node = q.node /\ rank[p.program] < rank[q.program])

Unspawned == {p \in Processes(network) : process[runs][p] = "none"}

Spawn ==
  /\ step = "spawn"
  /\ \E p \in Unspawned :
       /\ \A q \in Unspawned \ {p} : SpawnOrder(p, q)
       /\ process' = [process EXCEPT ![runs][p] = "started"]
       /\ step' = IF Unspawned = {p} THEN "monitor" ELSE "spawn"
  /\ UNCHANGED <<files, network, command, temporary, index, shutdown, runs, ended,
                 created>>

\* Ctrl+C once its handler is set.
Interrupt ==
  /\ step \in {"spawn", "monitor", "kill"}
  /\ ~shutdown
  /\ shutdown' = TRUE
  /\ UNCHANGED <<files, network, command, temporary, step, index, runs, ended,
                 process, created>>

\* Mutant: only a failure of CometBFT ends the network.
MutantPollChildren ==
  /\ step = "monitor" /\ ~shutdown
  /\ \E p \in Processes(network) : p.program = "cometbft" /\ process[runs][p] = "exited"
  /\ shutdown' = TRUE
  /\ UNCHANGED <<files, network, command, temporary, step, index, runs, ended,
                 process, created>>

\* One pass of the loop that finds a process that has exited.
PollChildren ==
  /\ step = "monitor" /\ ~shutdown
  /\ \E p \in Processes(network) : process[runs][p] = "exited"
  /\ shutdown' = TRUE
  /\ UNCHANGED <<files, network, command, temporary, step, index, runs, ended,
                 process, created>>

LeaveMonitor ==
  /\ step = "monitor" /\ shutdown
  /\ step' = "kill"
  /\ UNCHANGED <<files, network, command, temporary, index, shutdown, runs, ended,
                 process, created>>

\* Kill a child and wait for it; the children are in no particular order.
KillChild ==
  /\ step = "kill"
  /\ \E p \in Processes(network) :
       /\ process[runs][p] # "none"
       /\ process' = [process EXCEPT ![runs][p] = "none"]
  /\ UNCHANGED <<files, network, command, temporary, step, index, shutdown, runs,
                 ended, created>>

\* The command ends; a temporary directory is removed unless the deployer was
\* killed.
Leave(how) ==
  /\ command' = "none" /\ step' = "none" /\ temporary' = FALSE
  /\ ended' = IF command = "run" THEN [ended EXCEPT ![runs] = how] ELSE ended
  /\ UNCHANGED <<network, index, shutdown, runs, process>>

RemoveDirectory ==
  /\ occupied' = FALSE /\ initialized' = {} /\ configs' = {} /\ metadata' = "none"
  /\ genesis' = [i \in AllNodes |-> "none"]
  /\ created' = FALSE

\* Mutant: the kill loop is left with the first child that is gone.
MutantAllTerminated ==
  /\ step = "kill"
  /\ \E p \in Processes(network) : process[runs][p] = "none"
  /\ Leave("ok")
  /\ IF temporary THEN RemoveDirectory ELSE UNCHANGED <<files, created>>

AllTerminated ==
  /\ step = "kill"
  /\ \A p \in Processes(network) : process[runs][p] = "none"
  /\ Leave("ok")
  /\ IF temporary THEN RemoveDirectory ELSE UNCHANGED <<files, created>>

----------------------------------------------------------------------------
(* Failures.                                                               *)

\* What the write that is under way may leave behind.
TornWrite ==
  /\ occupied' \in {occupied, occupied \/ step = "nodes"}
  /\ genesis' \in {genesis} \cup
       (IF step \in {"copy", "inject"} THEN {[genesis EXCEPT ![index] = "torn"]} ELSE {})
  /\ metadata' \in {metadata} \cup (IF step = "metadata" THEN {"torn"} ELSE {})
  /\ UNCHANGED <<initialized, configs, created>>

\* A write, a start of a process, or a check fails, and the command returns the
\* error.  Children that were started are not stopped.
CommandFails ==
  /\ step \in CreateSteps \cup {"load", "preflight", "spawn"}
  /\ Leave("error")
  /\ IF temporary THEN RemoveDirectory ELSE TornWrite

\* The deployer is killed, by Ctrl+C too as long as no handler is set.
Killed ==
  /\ command # "none"
  /\ Leave("killed")
  /\ TornWrite

----------------------------------------------------------------------------
(* The processes.                                                          *)

\* A process binds its ports, or exits if one of them is taken.
Listen(r, p) ==
  /\ process[r][p] = "started"
  /\ process' = [process EXCEPT ![r][p] =
                   IF Ports(p) \cap TakenPorts = {} THEN "listening" ELSE "exited"]
  /\ UNCHANGED <<files, network, command, temporary, step, index, shutdown, runs,
                 ended, created>>

Exit(r, p) ==
  /\ p \in Up(r)
  /\ process' = [process EXCEPT ![r][p] = "exited"]
  /\ UNCHANGED <<files, network, command, temporary, step, index, shutdown, runs,
                 ended, created>>

----------------------------------------------------------------------------
Next ==
  \/ CreateNetwork \/ RunTemporary
  \/ InitializeNode \/ GenerateGenesis \/ CopyGenesis \/ GenerateConfig
  \/ SaveMetadata \/ InjectAppState \/ WriteProcessCompose
  \/ RunNetwork \/ LoadNetwork \/ Preflight \/ Spawn
  \/ Interrupt \/ PollChildren \/ LeaveMonitor \/ KillChild \/ AllTerminated
  \/ CommandFails \/ Killed
  \/ \E r \in Runs, p \in Processes(network) : Listen(r, p) \/ Exit(r, p)

\* A command that runs goes on; nothing is assumed of users, failures or the
\* processes of the network.
Fairness ==
  /\ WF_vars(Spawn) /\ WF_vars(PollChildren) /\ WF_vars(LeaveMonitor)
  /\ WF_vars(KillChild) /\ WF_vars(AllTerminated)

Spec == Init /\ [][Next]_vars /\ Fairness

----------------------------------------------------------------------------
(* Properties.                                                             *)

\* Every variable holds values of its type.
TypeOK ==
  /\ occupied \in BOOLEAN /\ initialized \subseteq AllNodes /\ configs \subseteq AllNodes
  /\ genesis \in [AllNodes -> Genesis]
  /\ metadata \in {"none", "torn", "written"}
  /\ network \in Networks
  /\ command \in Commands /\ temporary \in BOOLEAN /\ shutdown \in BOOLEAN
  /\ step \in CreateSteps \cup RunSteps \cup {"none"}
  /\ index \in 1..Size(network)
  /\ runs \in 0..MaxRuns[network]
  /\ ended \in [Runs -> {"no", "ok", "error", "killed"}]
  /\ process \in [Runs -> [AllProcesses -> {"none", "started", "listening", "exited"}]]
  /\ created \in BOOLEAN

\* However creation was cut short, processes are only started on a directory in
\* which every node has its keys, a genesis file and a config: network.json, which
\* run-network reads first, is written after them.
StartsOnlyWhole ==
  step \in {"spawn", "monitor"} =>
    \A i \in Nodes(network) :
      i \in initialized /\ i \in configs /\ genesis[i] # "none"

\* Once the files of a network are complete, all its nodes have the same genesis
\* with the chain's config in it, and no later command, failed or not, changes that.
SameGenesisOnceCreated ==
  created => \A i \in Nodes(network) : genesis[i] = "configured"

\* A run that ends without an error leaves none of its processes behind, whatever
\* exits, port conflicts and interrupts happened on the way.
CleanEnd ==
  \A r \in Runs : ended[r] = "ok" => Up(r) = {}

\* No two processes of a network ask for the same port, so that a network alone on
\* its host never loses a process to a conflict of its own.
NoSelfConflict ==
  \A p, q \in Processes(network) : p # q => Ports(p) \cap Ports(q) = {}

\* The quorum put into the genesis config can be reached, and any two quorums
\* have more than a third of the parties in common.
QuorumIsBFT ==
  LET n == network.validators
      q == GenesisQuorum(n)
  IN  q <= n /\ 3 * (2 * q - n) > n

\* Once a process of a supervised network has exited, or the user interrupts, all
\* processes of the run are stopped, unless the supervisor is killed or a start fails.
StopsTogether ==
  \A r \in Runs :
    (/\ r = runs /\ step = "monitor"
     /\ shutdown \/ \E p \in Processes(network) : process[r][p] = "exited")
      ~> (ended[r] # "no")

=============================================================================
