-------------------------- MODULE DeploymentProofs --------------------------
(***************************************************************************)
(* Proofs about Deployment, for networks of any size and any number of     *)
(* runs: however commands fail or are killed, processes are started on     *)
(* whole directories only, genesis files agree once created, and a run     *)
(* that ends well leaves no process behind.                                *)
(***************************************************************************)
EXTENDS Deployment, TLAPS

----------------------------------------------------------------------------
(* Networks.                                                               *)

\* Network::new numbers the nodes from one, and every process belongs to one of them.
LEMMA NetworkFacts ==
  ASSUME NEW w \in Networks
  PROVE  /\ w.validators \in Nat \ {0}
         /\ Size(w) \in Nat \ {0}
         /\ Nodes(w) = 1..Size(w)
         /\ Nodes(w) \subseteq AllNodes
         /\ Processes(w) \subseteq AllProcesses
         /\ 1..MaxRuns[w] \subseteq Runs
         /\ MaxRuns[w] \in Nat
<1>1. w.validators \in Nat \ {0} /\ w.sentries \in BOOLEAN
  BY NetworksAssumption
<1>2. Size(w) \in Nat \ {0}
  BY <1>1 DEF Size
<1>3. Nodes(w) = 1..Size(w) /\ Nodes(w) \subseteq AllNodes
  BY DEF Nodes, AllNodes
<1>4. Processes(w) \subseteq AllProcesses
  BY <1>3 DEF Processes, AllProcesses, Programs
<1>5. 1..MaxRuns[w] \subseteq Runs /\ MaxRuns[w] \in Nat
  BY RunsAssumption DEF Runs
<1> QED
  BY <1>1, <1>2, <1>3, <1>4, <1>5

\* Two thirds rounded down and one more is at most all of them, and any two such
\* quorums share more than a third: the rounding of generate_felidae_config.
LEMMA QuorumArithmetic ==
  ASSUME NEW n \in Nat \ {0}
  PROVE  LET q == (n * 2) \div 3 + 1
         IN  q <= n /\ 3 * (2 * q - n) > n
  OBVIOUS

\* Below the end of u16, the ports of two nodes or two services never meet, since the
\* default ports differ in their last two digits and nodes are a hundred apart.
LEMMA PortArithmetic ==
  ASSUME NEW i \in Int, 1 <= i, i <= 389, NEW base \in Int, 0 <= base, base <= 26658
  PROVE  Allocate(base, i) = base + (i - 1) * 100
<1> DEFINE n == base + (i - 1) * 100
<1>1. n \in Int /\ 0 <= n /\ n <= 65535
  OBVIOUS
<1> HIDE DEF n
<1>2. n % 65536 = n
  BY <1>1
<1> QED
  BY <1>2 DEF n, Allocate, DEFAULT_PORT_OFFSET

\* What the processes of a node listen on.
LEMMA PortsOf ==
  ASSUME NEW i \in Int, 1 <= i, i <= 389
  PROVE  /\ Ports(Process(i, "cometbft")) = {26656 + (i - 1) * 100, 26657 + (i - 1) * 100}
         /\ Ports(Process(i, "felidae")) = {26658 + (i - 1) * 100, 8080 + (i - 1) * 100}
         /\ Ports(Process(i, "oracle")) = {8081 + (i - 1) * 100}
<1>1. Allocate(26656, i) = 26656 + (i - 1) * 100
  BY PortArithmetic
<1>2. Allocate(26657, i) = 26657 + (i - 1) * 100
  BY PortArithmetic
<1>3. Allocate(26658, i) = 26658 + (i - 1) * 100
  BY PortArithmetic
<1>4. Allocate(8080, i) = 8080 + (i - 1) * 100
  BY PortArithmetic
<1>5. Allocate(8081, i) = 8081 + (i - 1) * 100
  BY PortArithmetic
<1>6. Ports(Process(i, "cometbft")) = {Allocate(26656, i), Allocate(26657, i)}
  BY DEF Ports, Process, DEFAULT_COMETBFT_P2P_PORT, DEFAULT_COMETBFT_RPC_PORT
<1>7. Ports(Process(i, "felidae")) = {Allocate(26658, i), Allocate(8080, i)}
  BY DEF Ports, Process, DEFAULT_FELIDAE_ABCI_PORT, DEFAULT_FELIDAE_QUERY_PORT
<1>8. Ports(Process(i, "oracle")) = {Allocate(8081, i)}
  BY DEF Ports, Process, DEFAULT_FELIDAE_ORACLE_PORT
<1> QED
  BY <1>1, <1>2, <1>3, <1>4, <1>5, <1>6, <1>7, <1>8

\* No port is that of two processes.
LEMMA PortsDistinct ==
  ASSUME NEW i \in Int, 1 <= i, i <= 389, NEW j \in Int, 1 <= j, j <= 389,
         NEW f \in Programs, NEW g \in Programs, i # j \/ f # g
  PROVE  Ports(Process(i, f)) \cap Ports(Process(j, g)) = {}
<1> DEFINE A(k) == {26656 + (k - 1) * 100, 26657 + (k - 1) * 100}
           B(k) == {26658 + (k - 1) * 100, 8080 + (k - 1) * 100}
           C(k) == {8081 + (k - 1) * 100}
<1>1. A(i) \cap B(j) = {} /\ A(i) \cap C(j) = {} /\ B(i) \cap C(j) = {}
  OBVIOUS
<1>2. A(j) \cap B(i) = {} /\ A(j) \cap C(i) = {} /\ B(j) \cap C(i) = {}
  OBVIOUS
<1>3. i # j => A(i) \cap A(j) = {} /\ B(i) \cap B(j) = {} /\ C(i) \cap C(j) = {}
  OBVIOUS
<1>4. /\ Ports(Process(i, "cometbft")) = A(i) /\ Ports(Process(i, "felidae")) = B(i)
      /\ Ports(Process(i, "oracle")) = C(i)
  BY PortsOf
<1>5. /\ Ports(Process(j, "cometbft")) = A(j) /\ Ports(Process(j, "felidae")) = B(j)
      /\ Ports(Process(j, "oracle")) = C(j)
  BY PortsOf
<1> HIDE DEF A, B, C
<1> QED
  BY <1>1, <1>2, <1>3, <1>4, <1>5, Zenon DEF Programs

----------------------------------------------------------------------------
(* Types.                                                                  *)

\* Where a creation step leads.
LEMMA AfterFacts ==
  /\ After("nodes") = "genesis" /\ After("genesis") = "copy" /\ After("copy") = "configs"
  /\ After("configs") = "metadata" /\ After("metadata") = "inject"
  /\ After("inject") = IF command = "create" THEN "compose" ELSE "load"
  BY DEF After

\* Init has the right types.
LEMMA InitTypeOK == Init => TypeOK
<1> SUFFICES ASSUME Init PROVE TypeOK
  OBVIOUS
<1>1. network \in Networks
  BY DEF Init
<1>2. 1 \in 1..Size(network) /\ 0 \in 0..MaxRuns[network]
  BY <1>1, NetworkFacts
<1> QED
  BY <1>1, <1>2 DEF Init, TypeOK, Genesis, Commands, CreateSteps, RunSteps

\* Every step of the deployer and of its processes keeps the types.
LEMMA StepTypeOK == TypeOK /\ [Next]_vars => TypeOK'
<1> SUFFICES ASSUME TypeOK, [Next]_vars PROVE TypeOK'
  OBVIOUS
<1> DEFINE N == Size(network)
<1>1. network \in Networks
  BY DEF TypeOK
<1>2. N \in Nat \ {0} /\ Nodes(network) = 1..N /\ Nodes(network) \subseteq AllNodes
      /\ Processes(network) \subseteq AllProcesses /\ MaxRuns[network] \in Nat
      /\ 1..MaxRuns[network] \subseteq Runs
  BY <1>1, NetworkFacts
<1> USE <1>1, <1>2 DEF TypeOK
<1> HIDE DEF N
<1>3. ASSUME NextNode, step \in {"nodes", "copy", "configs", "inject"}
      PROVE  index' \in 1..Size(network') /\ step' \in CreateSteps \cup RunSteps
             /\ UNCHANGED <<network, command, temporary, shutdown, runs, ended, process>>
  BY <1>3, AfterFacts DEF NextNode, CreateSteps, RunSteps, N
<1>4. ASSUME NextStep, step \in {"genesis", "metadata"}
      PROVE  step' \in CreateSteps
             /\ UNCHANGED <<index, network, command, temporary, shutdown, runs, ended, process>>
  BY <1>4, AfterFacts DEF NextStep, CreateSteps
<1>5. CASE CreateNetwork
  <2>1. temporary' \in BOOLEAN /\ UNCHANGED <<files, network, shutdown, runs, ended, process, created>>
    BY <1>5, Zenon DEF CreateNetwork
  <2>2. command' \in Commands /\ step' \in CreateSteps /\ index' \in 1..N
    BY <1>5 DEF CreateNetwork, Commands, CreateSteps
  <2> QED
    BY <2>1, <2>2 DEF files, N
<1>6. CASE RunTemporary
  BY <1>6 DEF RunTemporary, files, Commands, CreateSteps, N
<1>7. CASE InitializeNode
  BY <1>7, <1>3 DEF InitializeNode, N
<1>8. CASE GenerateGenesis
  BY <1>8, <1>4 DEF GenerateGenesis, files
<1>9. CASE CopyGenesis
  BY <1>9, <1>3 DEF CopyGenesis, Genesis
<1>10. CASE GenerateConfig
  BY <1>10, <1>3 DEF GenerateConfig, N
<1>11. CASE SaveMetadata
  BY <1>11, <1>4 DEF SaveMetadata
<1>12. CASE InjectAppState
  BY <1>12, <1>3 DEF InjectAppState, Genesis
<1>13. CASE WriteProcessCompose
  BY <1>13 DEF WriteProcessCompose, files, Commands
<1>14. CASE RunNetwork
  <2>1. temporary' \in BOOLEAN /\ UNCHANGED <<files, network, shutdown, ended, process, created>>
    BY <1>14, Zenon DEF RunNetwork
  <2>2. command' \in Commands /\ step' \in RunSteps /\ index' \in 1..N
        /\ runs' \in 0..MaxRuns[network]
    BY <1>14 DEF RunNetwork, Commands, RunSteps
  <2> QED
    BY <2>1, <2>2 DEF files, N
<1>15. CASE LoadNetwork
  BY <1>15 DEF LoadNetwork, files, RunSteps
<1>16. CASE Preflight
  BY <1>16 DEF Preflight, files, RunSteps
<1>17. CASE Spawn
  <2>1. PICK p \in Processes(network) : process' = [process EXCEPT ![runs][p] = "started"]
    BY <1>17 DEF Spawn, Unspawned
  <2>2. process' \in [Runs -> [AllProcesses -> {"none", "started", "listening", "exited"}]]
    BY <2>1
  <2>3. step' \in RunSteps
        /\ UNCHANGED <<files, network, command, temporary, index, shutdown, runs, ended, created>>
    BY <1>17 DEF Spawn, RunSteps
  <2> QED
    BY <2>2, <2>3 DEF files
<1>18. CASE Interrupt
  BY <1>18 DEF Interrupt, files
<1>19. CASE PollChildren
  BY <1>19 DEF PollChildren, files
<1>20. CASE LeaveMonitor
  BY <1>20 DEF LeaveMonitor, files, RunSteps
<1>21. CASE KillChild
  <2>1. PICK p \in Processes(network) : process' = [process EXCEPT ![runs][p] = "none"]
    BY <1>21 DEF KillChild
  <2>2. process' \in [Runs -> [AllProcesses -> {"none", "started", "listening", "exited"}]]
    BY <2>1
  <2>3. step' = step
        /\ UNCHANGED <<files, network, command, temporary, index, shutdown, runs, ended, created>>
    BY <1>21 DEF KillChild, RunSteps
  <2> QED
    BY <2>2, <2>3 DEF files
<1>22. ASSUME NEW how \in {"ok", "error", "killed"}, Leave(how)
       PROVE  /\ step' = "none" /\ command' \in Commands /\ temporary' \in BOOLEAN
              /\ ended' \in [Runs -> {"no", "ok", "error", "killed"}]
              /\ UNCHANGED <<network, index, shutdown, runs, process>>
  BY <1>22 DEF Leave, Commands
<1>23. RemoveDirectory => /\ occupied' \in BOOLEAN /\ initialized' \subseteq AllNodes
                          /\ configs' \subseteq AllNodes /\ genesis' \in [AllNodes -> Genesis]
                          /\ metadata' \in {"none", "torn", "written"} /\ created' \in BOOLEAN
  BY DEF RemoveDirectory, Genesis
<1>24. TornWrite => /\ occupied' \in BOOLEAN /\ initialized' \subseteq AllNodes
                    /\ configs' \subseteq AllNodes /\ genesis' \in [AllNodes -> Genesis]
                    /\ metadata' \in {"none", "torn", "written"} /\ created' \in BOOLEAN
  <2> SUFFICES ASSUME TornWrite
               PROVE  /\ occupied' \in BOOLEAN /\ initialized' \subseteq AllNodes
                      /\ configs' \subseteq AllNodes /\ genesis' \in [AllNodes -> Genesis]
                      /\ metadata' \in {"none", "torn", "written"} /\ created' \in BOOLEAN
    OBVIOUS
  <2>1. occupied' \in BOOLEAN
    BY Zenon DEF TornWrite
  <2>2. genesis' \in [AllNodes -> Genesis]
    BY DEF TornWrite, Genesis
  <2>3. metadata' \in {"none", "torn", "written"}
    BY DEF TornWrite
  <2> QED
    BY <2>1, <2>2, <2>3 DEF TornWrite
<1>25. CASE AllTerminated
  BY <1>25, <1>22, <1>23 DEF AllTerminated, files
<1>26. CASE CommandFails
  BY <1>26, <1>22, <1>23, <1>24 DEF CommandFails
<1>27. CASE Killed
  BY <1>27, <1>22, <1>24 DEF Killed
<1>28. ASSUME NEW r \in Runs, NEW p \in Processes(network), Listen(r, p)
       PROVE  TypeOK'
  BY <1>28 DEF Listen, files
<1>29. ASSUME NEW r \in Runs, NEW p \in Processes(network), Exit(r, p)
       PROVE  TypeOK'
  BY <1>29 DEF Exit, files
<1>30. CASE UNCHANGED vars
  BY <1>30 DEF vars, files
<1> QED
  BY <1>5, <1>6, <1>7, <1>8, <1>9, <1>10, <1>11, <1>12, <1>13, <1>14, <1>15, <1>16, <1>17,
     <1>18, <1>19, <1>20, <1>21, <1>25, <1>26, <1>27, <1>28, <1>29, <1>30 DEF Next

\* Every variable holds values of its type, for networks of any size.
THEOREM TypeCorrect == Spec => []TypeOK
<1>1. Init => TypeOK
  BY InitTypeOK
<1>2. TypeOK /\ [Next]_vars => TypeOK'
  BY StepTypeOK
<1> QED
  BY <1>1, <1>2, PTL DEF Spec

----------------------------------------------------------------------------
(* What is started is whole.                                               *)

\* What each creation step has done so far, and what network.json vouches for.
Progress ==
  /\ step \in {"genesis", "metadata"} => index = 1
  /\ step = "nodes" => \A i \in Nodes(network) : i < index => i \in initialized
  /\ step \in {"genesis", "copy", "configs", "metadata"} =>
       \A i \in Nodes(network) : i \in initialized
  /\ step = "copy" => \A i \in Nodes(network) : i < index => genesis[i] # "none"
  /\ step \in {"configs", "metadata"} => \A i \in Nodes(network) : genesis[i] # "none"
  /\ step = "configs" => \A i \in Nodes(network) : i < index => i \in configs
  /\ step = "metadata" => \A i \in Nodes(network) : i \in configs
  /\ metadata = "written" =>
       \A i \in Nodes(network) : i \in initialized /\ i \in configs /\ genesis[i] # "none"
  /\ step \in {"preflight", "spawn", "monitor", "kill"} => metadata = "written"

\* No step, failures in the middle of a write included, breaks it.
LEMMA StepProgress == TypeOK /\ Progress /\ [Next]_vars => Progress'
<1> SUFFICES ASSUME TypeOK, Progress, [Next]_vars PROVE Progress'
  OBVIOUS
<1>1. network \in Networks
  BY DEF TypeOK
<1>2. Size(network) \in Nat \ {0} /\ Nodes(network) = 1..Size(network)
      /\ Nodes(network) \subseteq AllNodes /\ Processes(network) \subseteq AllProcesses
      /\ 1..MaxRuns[network] \subseteq Runs /\ MaxRuns[network] \in Nat
  BY <1>1, NetworkFacts
<1> USE <1>1, <1>2 DEF TypeOK, Progress, Nodes
<1>3. CASE CreateNetwork
  BY <1>3 DEF CreateNetwork, files
<1>4. CASE RunTemporary
  BY <1>4 DEF RunTemporary, files
<1>5. CASE InitializeNode
  BY <1>5, AfterFacts DEF InitializeNode, NextNode, files
<1>6. CASE GenerateGenesis
  BY <1>6, AfterFacts DEF GenerateGenesis, NextStep, files
<1>7. CASE CopyGenesis
  BY <1>7, AfterFacts DEF CopyGenesis, NextNode, files
<1>8. CASE GenerateConfig
  BY <1>8, AfterFacts DEF GenerateConfig, NextNode, files
<1>9. CASE SaveMetadata
  BY <1>9, AfterFacts DEF SaveMetadata, NextStep, files
<1>10. CASE InjectAppState
  BY <1>10, AfterFacts DEF InjectAppState, NextNode, files
<1>11. CASE WriteProcessCompose
  BY <1>11 DEF WriteProcessCompose, files
<1>12. CASE RunNetwork
  BY <1>12 DEF RunNetwork, files
<1>13. CASE LoadNetwork
  BY <1>13 DEF LoadNetwork, files
<1>14. CASE Preflight
  BY <1>14 DEF Preflight, files
<1>15. CASE Spawn
  BY <1>15 DEF Spawn, Unspawned, files
<1>16. CASE Interrupt
  BY <1>16 DEF Interrupt, files
<1>17. CASE PollChildren
  BY <1>17 DEF PollChildren, files
<1>18. CASE LeaveMonitor
  BY <1>18 DEF LeaveMonitor, files
<1>19. CASE KillChild
  BY <1>19 DEF KillChild, files
<1>20. CASE AllTerminated
  BY <1>20 DEF AllTerminated, Leave, RemoveDirectory, files
<1>21. CASE CommandFails
  BY <1>21 DEF CommandFails, Leave, RemoveDirectory, TornWrite, files
<1>22. CASE Killed
  BY <1>22 DEF Killed, Leave, TornWrite, files
<1>23. ASSUME NEW r \in Runs, NEW p \in Processes(network), Listen(r, p)
      PROVE  Progress'
  BY <1>23 DEF Listen, files
<1>24. ASSUME NEW r \in Runs, NEW p \in Processes(network), Exit(r, p)
      PROVE  Progress'
  BY <1>24 DEF Exit, files
<1>25. CASE UNCHANGED vars
  BY <1>25 DEF vars, files
<1> QED
  BY <1>3, <1>4, <1>5, <1>6, <1>7, <1>8, <1>9, <1>10, <1>11, <1>12, <1>13, <1>14, <1>15, <1>16, <1>17,
     <1>18, <1>19, <1>20, <1>21, <1>22, <1>23, <1>24, <1>25 DEF Next

\* However the creation was cut short, processes are only started on a directory in
\* which every node has its keys, a genesis file and a config.
THEOREM OnlyWholeStarted == Spec => []StartsOnlyWhole
<1>1. Init => Progress
  <2> SUFFICES ASSUME Init PROVE Progress
    OBVIOUS
  <2> QED
    BY DEF Init, Progress
<1>2. TypeOK /\ Progress /\ [Next]_vars => Progress'
  BY StepProgress
<1>3. Progress => StartsOnlyWhole
  BY DEF Progress, StartsOnlyWhole
<1> QED
  BY <1>1, <1>2, <1>3, TypeCorrect, PTL DEF Spec

----------------------------------------------------------------------------
(* All nodes have the same genesis.                                        *)

\* A complete directory is in use, so that create-network refuses it, and no write is
\* under way in it.
Sealed ==
  /\ created => occupied
  /\ created => step \notin {"nodes", "genesis", "copy", "configs", "metadata", "inject"}
  /\ step \in {"genesis", "copy", "configs", "metadata", "inject"} => occupied
  /\ step = "inject" => \A i \in Nodes(network) : i < index => genesis[i] = "configured"
  /\ SameGenesisOnceCreated

\* No step, failures in the middle of a write included, breaks it.
LEMMA StepSealed == TypeOK /\ Progress /\ Sealed /\ [Next]_vars => Sealed'
<1> SUFFICES ASSUME TypeOK, Progress, Sealed, [Next]_vars PROVE Sealed'
  OBVIOUS
<1>1. network \in Networks
  BY DEF TypeOK
<1>2. Size(network) \in Nat \ {0} /\ Nodes(network) = 1..Size(network)
      /\ Nodes(network) \subseteq AllNodes /\ Processes(network) \subseteq AllProcesses
      /\ 1..MaxRuns[network] \subseteq Runs /\ MaxRuns[network] \in Nat
  BY <1>1, NetworkFacts
<1> USE <1>1, <1>2 DEF TypeOK, Sealed, SameGenesisOnceCreated, Nodes
<1>3. CASE CreateNetwork
  BY <1>3 DEF CreateNetwork, files
<1>4. CASE RunTemporary
  BY <1>4 DEF RunTemporary, files
<1>5. CASE InitializeNode
  BY <1>5, AfterFacts DEF InitializeNode, NextNode, files
<1>6. CASE GenerateGenesis
  BY <1>6, AfterFacts DEF GenerateGenesis, NextStep, files
<1>7. CASE CopyGenesis
  BY <1>7, AfterFacts DEF CopyGenesis, NextNode, files
<1>8. CASE GenerateConfig
  BY <1>8, AfterFacts DEF GenerateConfig, NextNode, files
<1>9. CASE SaveMetadata
  BY <1>9, AfterFacts DEF SaveMetadata, NextStep, Progress
<1>10. CASE InjectAppState
  BY <1>10, AfterFacts DEF InjectAppState, NextNode, files
<1>11. CASE WriteProcessCompose
  BY <1>11 DEF WriteProcessCompose, files
<1>12. CASE RunNetwork
  BY <1>12 DEF RunNetwork, files
<1>13. CASE LoadNetwork
  BY <1>13 DEF LoadNetwork, files
<1>14. CASE Preflight
  BY <1>14 DEF Preflight, files
<1>15. CASE Spawn
  BY <1>15 DEF Spawn, Unspawned, files
<1>16. CASE Interrupt
  BY <1>16 DEF Interrupt, files
<1>17. CASE PollChildren
  BY <1>17 DEF PollChildren, files
<1>18. CASE LeaveMonitor
  BY <1>18 DEF LeaveMonitor, files
<1>19. CASE KillChild
  BY <1>19 DEF KillChild, files
<1>20. CASE AllTerminated
  BY <1>20 DEF AllTerminated, Leave, RemoveDirectory, files
<1>21. CASE CommandFails
  BY <1>21 DEF CommandFails, Leave, RemoveDirectory, TornWrite, files
<1>22. CASE Killed
  BY <1>22 DEF Killed, Leave, TornWrite, files
<1>23. ASSUME NEW r \in Runs, NEW p \in Processes(network), Listen(r, p)
      PROVE  Sealed'
  BY <1>23 DEF Listen, files
<1>24. ASSUME NEW r \in Runs, NEW p \in Processes(network), Exit(r, p)
      PROVE  Sealed'
  BY <1>24 DEF Exit, files
<1>25. CASE UNCHANGED vars
  BY <1>25 DEF vars, files
<1> QED
  BY <1>3, <1>4, <1>5, <1>6, <1>7, <1>8, <1>9, <1>10, <1>11, <1>12, <1>13, <1>14, <1>15, <1>16, <1>17,
     <1>18, <1>19, <1>20, <1>21, <1>22, <1>23, <1>24, <1>25 DEF Next

\* Once the files of a network are complete its nodes have the same genesis, with the
\* chain's config in it, and no later command changes that.
THEOREM GenesisAgrees == Spec => []SameGenesisOnceCreated
<1>1. Init => Progress /\ Sealed
  <2> SUFFICES ASSUME Init PROVE Progress /\ Sealed
    OBVIOUS
  <2> QED
    BY DEF Init, Progress, Sealed, SameGenesisOnceCreated
<1>2. TypeOK /\ Progress /\ [Next]_vars => Progress'
  BY StepProgress
<1>3. TypeOK /\ Progress /\ Sealed /\ [Next]_vars => Sealed'
  BY StepSealed
<1>4. Sealed => SameGenesisOnceCreated
  BY DEF Sealed
<1> QED
  BY <1>1, <1>2, <1>3, <1>4, TypeCorrect, PTL DEF Spec

----------------------------------------------------------------------------
(* A run that ends well leaves nothing behind.                             *)

\* Only the run under way touches its processes, and it has not ended yet.
Supervised ==
  /\ step \in CreateSteps => command \in {"create", "run"}
  /\ step \in RunSteps => command = "run"
  /\ command = "run" => runs \in Runs /\ ended[runs] = "no"
  /\ \A r \in Runs : r > runs => ended[r] = "no"
  /\ CleanEnd

\* Every step keeps the supervision.
LEMMA StepSupervised == TypeOK /\ Supervised /\ [Next]_vars => Supervised'
<1> SUFFICES ASSUME TypeOK, Supervised, [Next]_vars PROVE Supervised'
  OBVIOUS
<1>1. network \in Networks
  BY DEF TypeOK
<1>2. Size(network) \in Nat \ {0} /\ Nodes(network) = 1..Size(network)
      /\ Nodes(network) \subseteq AllNodes /\ Processes(network) \subseteq AllProcesses
      /\ 1..MaxRuns[network] \subseteq Runs /\ MaxRuns[network] \in Nat
  BY <1>1, NetworkFacts
<1> USE <1>1, <1>2 DEF TypeOK, Supervised, CleanEnd, Up
<1>3. CASE CreateNetwork
  BY <1>3 DEF CreateNetwork, CreateSteps, RunSteps
<1>4. CASE RunTemporary
  <2>1. runs' = runs + 1 /\ runs' \in 1..MaxRuns[network]
    BY <1>4 DEF RunTemporary
  <2>2. command' = "run" /\ step' = "nodes" /\ UNCHANGED <<network, ended, process>>
    BY <1>4 DEF RunTemporary
  <2>3. runs' \in Runs /\ \A r \in Runs : r > runs' => r > runs
    BY <2>1 DEF Runs
  <2>4. ended[runs'] = "no"
    BY <2>1, <2>3
  <2> QED
    BY <2>2, <2>3, <2>4 DEF CreateSteps, RunSteps
<1>5. CASE InitializeNode
  BY <1>5, AfterFacts DEF InitializeNode, NextNode, CreateSteps, RunSteps
<1>6. CASE GenerateGenesis
  BY <1>6, AfterFacts DEF GenerateGenesis, NextStep, CreateSteps, RunSteps
<1>7. CASE CopyGenesis
  BY <1>7, AfterFacts DEF CopyGenesis, NextNode, CreateSteps, RunSteps
<1>8. CASE GenerateConfig
  BY <1>8, AfterFacts DEF GenerateConfig, NextNode, CreateSteps, RunSteps
<1>9. CASE SaveMetadata
  BY <1>9, AfterFacts DEF SaveMetadata, NextStep, CreateSteps, RunSteps
<1>10. CASE InjectAppState
  BY <1>10, AfterFacts DEF InjectAppState, NextNode, CreateSteps, RunSteps
<1>11. CASE WriteProcessCompose
  BY <1>11 DEF WriteProcessCompose, CreateSteps, RunSteps
<1>12. CASE RunNetwork
  <2>1. runs' = runs + 1 /\ runs' \in 1..MaxRuns[network]
    BY <1>12 DEF RunNetwork
  <2>2. command' = "run" /\ step' = "load" /\ UNCHANGED <<network, ended, process>>
    BY <1>12 DEF RunNetwork
  <2>3. runs' \in Runs /\ \A r \in Runs : r > runs' => r > runs
    BY <2>1 DEF Runs
  <2>4. ended[runs'] = "no"
    BY <2>1, <2>3
  <2> QED
    BY <2>2, <2>3, <2>4 DEF CreateSteps, RunSteps
<1>13. CASE LoadNetwork
  BY <1>13 DEF LoadNetwork, CreateSteps, RunSteps
<1>14. CASE Preflight
  BY <1>14 DEF Preflight, CreateSteps, RunSteps
<1>15. CASE Spawn
  BY <1>15 DEF Spawn, Unspawned, CreateSteps, RunSteps
<1>16. CASE Interrupt
  BY <1>16 DEF Interrupt, CreateSteps, RunSteps
<1>17. CASE PollChildren
  BY <1>17 DEF PollChildren, CreateSteps, RunSteps
<1>18. CASE LeaveMonitor
  BY <1>18 DEF LeaveMonitor, CreateSteps, RunSteps
<1>19. CASE KillChild
  BY <1>19 DEF KillChild, CreateSteps, RunSteps
<1>20. CASE AllTerminated
  BY <1>20 DEF AllTerminated, Leave, RemoveDirectory, CreateSteps, RunSteps
<1>21. CASE CommandFails
  BY <1>21 DEF CommandFails, Leave, RemoveDirectory, TornWrite, CreateSteps, RunSteps
<1>22. CASE Killed
  BY <1>22 DEF Killed, Leave, TornWrite, CreateSteps, RunSteps
<1>23. ASSUME NEW r \in Runs, NEW p \in Processes(network), Listen(r, p)
      PROVE  Supervised'
  BY <1>23 DEF Listen, CreateSteps, RunSteps
<1>24. ASSUME NEW r \in Runs, NEW p \in Processes(network), Exit(r, p)
      PROVE  Supervised'
  BY <1>24 DEF Exit, CreateSteps, RunSteps
<1>25. CASE UNCHANGED vars
  BY <1>25 DEF vars, CreateSteps, RunSteps
<1> QED
  BY <1>3, <1>4, <1>5, <1>6, <1>7, <1>8, <1>9, <1>10, <1>11, <1>12, <1>13, <1>14, <1>15, <1>16, <1>17,
     <1>18, <1>19, <1>20, <1>21, <1>22, <1>23, <1>24, <1>25 DEF Next

\* A run that ends without an error leaves none of its processes behind.
THEOREM EndsClean == Spec => []CleanEnd
<1>1. Init => Supervised
  <2> SUFFICES ASSUME Init PROVE Supervised
    OBVIOUS
  <2> QED
    BY DEF Init, Supervised, CleanEnd, CreateSteps, RunSteps
<1>2. TypeOK /\ Supervised /\ [Next]_vars => Supervised'
  BY StepSupervised
<1>3. Supervised => CleanEnd
  BY DEF Supervised
<1> QED
  BY <1>1, <1>2, <1>3, TypeCorrect, PTL DEF Spec

----------------------------------------------------------------------------
(* Quorums and ports.                                                      *)

\* The quorum in the genesis config can be reached, and any two quorums share more
\* than a third of the parties, for any number of validators.
THEOREM QuorumSound == Spec => []QuorumIsBFT
<1>1. TypeOK => QuorumIsBFT
  <2> SUFFICES ASSUME TypeOK PROVE QuorumIsBFT
    OBVIOUS
  <2>1. network.validators \in Nat \ {0}
    BY NetworkFacts DEF TypeOK
  <2> QED
    BY <2>1, QuorumArithmetic DEF QuorumIsBFT, GenesisQuorum
<1> QED
  BY <1>1, TypeCorrect, PTL

\* No two processes of a network ask for the same port, in networks of up to 389 nodes,
\* the most for which no port number overflows.
THEOREM PortsNeverMeet ==
  ASSUME \A w \in Networks : Size(w) <= 389
  PROVE  Spec => []NoSelfConflict
<1>1. TypeOK => NoSelfConflict
  <2> SUFFICES ASSUME TypeOK, NEW p \in Processes(network), NEW q \in Processes(network), p # q
               PROVE  Ports(p) \cap Ports(q) = {}
    BY DEF NoSelfConflict
  <2>1. network \in Networks
    BY DEF TypeOK
  <2>2. Size(network) \in Nat /\ Size(network) <= 389 /\ Nodes(network) = 1..Size(network)
    BY <2>1, NetworkFacts
  <2>3. PICK i \in Nodes(network), f \in Programs : p = Process(i, f)
    BY DEF Processes, Programs
  <2>4. PICK k \in Nodes(network), g \in Programs : q = Process(k, g)
    BY DEF Processes, Programs
  <2>5. i \in Int /\ 1 <= i /\ i <= 389 /\ k \in Int /\ 1 <= k /\ k <= 389
    BY <2>2, <2>3, <2>4
  <2>6. i # k \/ f # g
    BY <2>3, <2>4
  <2>7. Ports(Process(i, f)) \cap Ports(Process(k, g)) = {}
    BY <2>5, <2>6, PortsDistinct
  <2> QED
    BY <2>3, <2>4, <2>7
<1> QED
  BY <1>1, TypeCorrect, PTL

=============================================================================
