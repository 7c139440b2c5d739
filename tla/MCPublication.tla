--------------------------- MODULE MCPublication ---------------------------
(* Publication for TLC: three validators with four units of power, of which  *)
(* three are more than two thirds.                                           *)
EXTENDS Publication

CONSTANTS v1, v2, v3, leaf

MCLeaf == {leaf}
MCValidators == {v1, v2, v3}
MCPower == [v \in MCValidators |-> IF v = v1 THEN 2 ELSE 1]

=============================================================================
