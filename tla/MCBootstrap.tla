---------------------------- MODULE MCBootstrap ----------------------------
(* Three nodes that start on one database; two indexes. *)
EXTENDS Bootstrap, TLC

CONSTANTS n1, n2, n3

ThreeNodes == {n1, n2, n3}
TwoIndexes == <<"transactions", "blocks">>
AllNodesAlike == Permutations(ThreeNodes)
=============================================================================
