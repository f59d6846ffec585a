------------------------- MODULE MCAccountsIndexing -------------------------
(* A small instance of AccountsIndexing: two blocks alter the same account. *)
EXTENDS AccountsIndexing

CONSTANTS alice, bob, b1, b2

TwoAddresses == {alice, bob}
TwoBlocks == {b1, b2}
AltersOf == [b \in TwoBlocks |-> IF b = b1 THEN {alice} ELSE {alice, bob}]
OnlyAlice == {{alice}}
ThreeIndexes == {"transactions", "accounts", "accountshistory"}
=============================================================================
