-------------------------- MODULE MCResourcePacker ---------------------------
EXTENDS ResourcePacker, TLC

\* Units of different sizes: the largest requirement fits only one of them,
\* and greedy choices lead into dead ends that need backtracking.
MixedTotal == (1 :> 2 @@ 2 :> 4 @@ 3 :> 3 @@ 4 :> 2)

\* Tests with one to five requirements; some ask for more than there is, one for
\* no slots of a second unit, which the lexer of RESOURCE_GROUPS takes.
MixedNeeds ==
  <<<<1>>, <<2>>, <<4>>, <<2, 0>>, <<1, 1>>, <<1, 3>>, <<2, 2, 1>>, <<3, 2, 2>>,
    <<1, 1, 1, 1>>, <<2, 2, 2, 2>>, <<3, 3, 2, 2, 1>>, <<4, 4>>>>

MixedTests == DOMAIN MixedNeeds
=============================================================================
