----------------------------- MODULE MCPayments -----------------------------
(* Small instances of Payments for TLC.                                     *)
EXTENDS Payments, TLC

CONSTANTS c1, c2, r1, r2

OneCode == {c1}
TwoCodes == {c1, c2}
OneRequest == {r1}
TwoRequests == {r1, r2}

\* Charges and request slots are interchangeable.
Symmetry == Permutations(Codes) \union Permutations(Requests)
=============================================================================
