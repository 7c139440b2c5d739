-------------------------- MODULE MCOracleNetwork --------------------------
(* OracleNetwork for TLC: two oracles with a quorum of two.                  *)
EXTENDS OracleNetwork, TLC

CONSTANTS a1, o1, o2, r1, r2

Com == <<"com">>
ExampleA == <<"com", "example", "a">>

SuffixList == {Com}
RootZones == {Com, <<"com", "example">>}
OneName == {ExampleA}
ExampleZones == [d \in OneName |-> {<<"com", "example">>}]

NetworkGenesis ==
  {[version |-> 1,
    admins |-> [voting |-> [quorum |-> 1, timeout |-> 2, delay |-> 0],
                authorized |-> {a1}, entries |-> 1, total |-> 1],
    oracles |-> [voting |-> [quorum |-> 2, timeout |-> 3, delay |-> 1],
                 authorized |-> {o1, o2}, entries |-> 2, total |-> 2,
                 max_enrolled_subdomains |-> 1, observation_timeout |-> 3]]}

AnyTime == {[notBefore |-> 0, notAfter |-> MaxTime]}

Symmetry == Permutations({o1, o2}) \cup Permutations({r1, r2})

=============================================================================
