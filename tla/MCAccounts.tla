------------------------------ MODULE MCAccounts ------------------------------
(***************************************************************************)
(* An admin, a customer and two requests.                                  *)
(***************************************************************************)
EXTENDS Accounts

CONSTANTS r1, r2, admin, alice

TwoRequests == {r1, r2}
TwoEmails == {admin, alice}
=============================================================================
