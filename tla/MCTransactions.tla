--------------------------- MODULE MCTransactions ---------------------------
(* Transactions for TLC: two identities that are admins and oracles.       *)
EXTENDS Transactions

CONSTANTS a1, a2

ExampleA == <<"com", "example", "a">>
OneName == {ExampleA}
ComZone == {<<"com">>}
ComZones == [d \in OneName |-> ComZone]

\* Both are needed for every vote.
ConfigFile(version, adminTimeout, delay) ==
  [version |-> version,
   admins |-> [voting |-> [quorum |-> 2, timeout |-> adminTimeout, delay |-> delay],
               authorized |-> {a1, a2}, entries |-> 2, total |-> 2],
   oracles |-> [voting |-> [quorum |-> 2, timeout |-> 4, delay |-> delay],
                authorized |-> {a1, a2}, entries |-> 2, total |-> 2,
                max_enrolled_subdomains |-> 1, observation_timeout |-> 11]]

\* Durations with a fraction of a second; the one asked for has one beyond the largest
\* number.
Files == {ConfigFile(1, 8, 1)}
Wishes == {ConfigFile(2, 100, 3)}

\* The same configs as they come out of the conversion.
StoredConfig(version, adminTimeout, delay) ==
  [ConfigFile(version, adminTimeout, delay) EXCEPT !.oracles.observation_timeout = 10]
StoredGenesis == {StoredConfig(1, 8, 0)}
StoredProposals == {StoredConfig(2, I64Max * TicksPerSecond, 2)}

FirstBlock ==
  {[domain |-> ExampleA, zone |-> <<"com">>, hash |-> "x1", height |-> 1, appHash |-> 1]}

OneKeyEach == {{a1}, {a2}}

=============================================================================
