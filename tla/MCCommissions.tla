--------------------------- MODULE MCCommissions ---------------------------
(* Small instances of Commissions for TLC.  Customers 1 to 3 refer each other in  *)
(* a line, and 3 buys; a table without tier 1 has a gap.                          *)
EXTENDS Commissions, TLC

CONSTANTS k1, r1, r2

ThreeCustomers == 1..3
InLine == [c \in ThreeCustomers |-> c - 1]
OneCharge == {k1}
TheBuyer == [k \in OneCharge |-> 3]
TheAmount == [k \in OneCharge |-> 10]
TwoTiers == {1, 2}
TwoRates == {0, 1000}
OneRequest == {r1}
TwoRequests == {r1, r2}

Symmetry == Permutations(Requests)
=============================================================================
