--------------------------- MODULE MCIndexerNode ---------------------------
(* Nodes with three items: a block indexed, reverted and indexed again;      *)
(* validators, and rounds saved twice; accounts saved before a block that    *)
(* alters them, on a node without some indexes; a block without a header,    *)
(* and one without miniblocks.                                               *)
EXTENDS IndexerNode, TLC

CONSTANTS p1, p2, i1, i2, i3

TwoProducers == {p1, p2}
ThreeItems == {i1, i2, i3}

BlockCall(header, time, body, bulks, accounts) ==
  [method |-> "SaveBlock", header |-> header, time |-> time, body |-> body,
   bulks |-> bulks, accounts |-> accounts]

Fork ==
  [enabled |-> Indexes,
   calls |-> i1 :> BlockCall("h1", 1, "miniblocks", 1, {"a"})
          @@ i2 :> [method |-> "RevertIndexedBlock", header |-> "h1", body |-> "miniblocks"]
          @@ i3 :> BlockCall("h1", 1, "empty", 0, {})]

Protocol ==
  [enabled |-> Indexes \ {"miniblocks"},
   calls |-> i1 :> [method |-> "SaveValidatorsPubKeys", epoch |-> 1, shards |-> {0, 1}]
          @@ i2 :> [method |-> "SaveRoundsInfo", rounds |-> {"0_1", "0_2"}]
          @@ i3 :> [method |-> "SaveRoundsInfo", rounds |-> {"0_2"}]]

Accounts ==
  [enabled |-> {"transactions", "accounts", "accountshistory", "rating"},
   calls |-> i1 :> [method |-> "SaveAccounts", time |-> 1, accounts |-> {"a", "b"}]
          @@ i2 :> BlockCall("h1", 2, "miniblocks", 2, {"a"})
          @@ i3 :> [method |-> "SaveValidatorsRating", indexID |-> "0_1"]]

\* A block without a header, and one without miniblocks saved and removed.
NoHeader ==
  [enabled |-> {"blocks"},
   calls |-> i1 :> BlockCall(NilHeader, 1, "miniblocks", 1, {"a"})
          @@ i2 :> BlockCall("h1", 1, "empty", 0, {})
          @@ i3 :> [method |-> "RevertIndexedBlock", header |-> "h1", body |-> "empty"]]

TheSettings == {Fork, Protocol, Accounts, NoHeader}

(* A node with one item that no database can save: a block whose body is not *)
(* a body, or no rounds.                                                     *)
OneItem == {i1}
Unsavable ==
  {[enabled |-> Indexes, calls |-> i1 :> call] :
     call \in {BlockCall("h1", 1, "notABody", 0, {}),
               [method |-> "SaveRoundsInfo", rounds |-> {}]}}
=============================================================================
