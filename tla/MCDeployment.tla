---------------------------- MODULE MCDeployment ----------------------------
(* Instances of Deployment for TLC.                                        *)
EXTENDS Deployment

\* The default network, a validator with its sentry, and larger networks of which
\* only the creation is followed.
SmallAndLarge ==
  {[validators |-> 1, sentries |-> FALSE], [validators |-> 1, sentries |-> TRUE]}
    \cup [validators : 2..4, sentries : BOOLEAN]

\* Two runs of the default network, so that a run meets what the one before left.
RunsOfSmall ==
  [w \in SmallAndLarge |->
     IF w.validators > 1 THEN 0 ELSE IF w.sentries THEN 1 ELSE 2]

=============================================================================
