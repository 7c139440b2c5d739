------------------------------ MODULE MCChain ------------------------------
(* Instances of Chain for TLC.                                             *)
EXTENDS Chain, TLC

CONSTANTS a1, a2, a3, o1, o2, o3

Voting(q, t, d) == [quorum |-> q, timeout |-> t, delay |-> d]

\* A list of distinct identities.
Authorized(identities, voting) ==
  [voting |-> voting, authorized |-> identities,
   entries |-> Cardinality(identities), total |-> Cardinality(identities)]

Config(version, admins, adminVoting, oracles, oracleVoting, max, obsTimeout) ==
  [version |-> version,
   admins |-> Authorized(admins, adminVoting),
   oracles |-> [voting |-> oracleVoting, authorized |-> oracles,
                entries |-> Cardinality(oracles), total |-> Cardinality(oracles),
                max_enrolled_subdomains |-> max, observation_timeout |-> obsTimeout]]

\* Names and zones.
Com == <<"com">>
Example == <<"com", "example">>
ExampleA == <<"com", "example", "a">>
ExampleAB == <<"com", "example", "a", "b">>

AnyTime == {[notBefore |-> 0, notAfter |-> MaxTime]}

\* "No voting initially": a duration beyond any time considered.
Never == 1000

\* The config of a chain whose genesis file holds none.
DefaultGenesis ==
  Config(0, {}, Voting(0, 0, 0), {}, Voting(0, 0, Never), 0, Never)

----------------------------------------------------------------------------
(* Enrollment: one fixed config, and the zones that infer_zone gives.      *)
(* Example is its own registered domain; ExampleA and ExampleAB share one, *)
(* which is below Example.                                                 *)

OracleDomains == {Example, ExampleA, ExampleAB}
OracleZones == {Com, Example}
InferredZones ==
  [d \in OracleDomains |-> IF d = Example THEN {Com} ELSE {Example}]
OracleGenesis ==
  {Config(1, {a1}, Voting(1, 2, 0), {o1, o2}, Voting(2, 2, 1), 1, 2)}
OracleSymmetry == Permutations({o1, o2})

\* Reconfiguration: a chain without a config gets its first one from anybody; its
\* admins then vote on the limit, on the oracles' delay (shorter or longer, while
\* an observation is pending) and on who is admin.  One proposal asks for more votes
\* than it names admins.
ReconfigDomains == {Example}
ComZone == {Com}
ReconfigZones == [d \in ReconfigDomains |-> ComZone]
ReconfigGenesis == {DefaultGenesis}
ReconfigProposals ==
  {Config(1, {a1, a2}, Voting(2, 3, 1), {o1}, Voting(1, 4, 2), 1, Never),
   Config(2, {a1, a2}, Voting(2, 2, 0), {o1}, Voting(1, 2, 1), 3, 3),
   Config(3, {a1, a3}, Voting(2, 3, 2), {o1}, Voting(1, 4, 4), 2, 3),
   Config(4, {a1}, Voting(2, 3, 2), {o1}, Voting(1, 4, 3), 3, 3)}

\* A pending config lowers the quorum under which votes for the next one count.
\* Nothing is observed.
NoZones == [d \in {} |-> {}]
LoweredGenesis ==
  {Config(1, {a1, a2, a3}, Voting(3, Never, 1), {o1}, Voting(1, 2, 2), 1, 3)}
LoweredProposals ==
  {Config(2, {a1, a2, a3}, Voting(2, Never, 1), {o1}, Voting(1, 2, 2), 3, 3),
   Config(3, {a1, a2, a3}, Voting(2, Never, 1), {o1}, Voting(1, 2, 2), 2, 3),
   Config(4, {a1, a2, a3}, Voting(2, Never, 1), {o1}, Voting(1, 2, 2), 3, 3)}

=============================================================================
