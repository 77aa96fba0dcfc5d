------------------------------ MODULE MCWallets ------------------------------
(* Small instances of Wallets for TLC.                                       *)
EXTENDS Wallets, TLC

CONSTANTS alice, bob, r1, r2

OneCustomer == {alice}
TwoCustomers == {alice, bob}
OneRequest == {r1}
TwoRequests == {r1, r2}

\* Customers and request slots are interchangeable.
Symmetry == Permutations(Customers) \union Permutations(Requests)
=============================================================================
