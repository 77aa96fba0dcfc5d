--------------------------- MODULE PurchaseLedger ---------------------------
(***************************************************************************)
(* What the purchase path promises, without requests, retries or failures. *)
(* A purchase is recorded once, and only a recorded one is receipted to    *)
(* its buyer.  A purchase is confirmed together with a batch of            *)
(* commissions, and never without a calculation the admin asked for; the   *)
(* admin is told of no more batches than were granted.  asked, told and    *)
(* receipts are what can be seen from outside.  Module Payments is shown   *)
(* to implement it.                                                        *)
(***************************************************************************)
EXTENDS Naturals

CONSTANT Codes

VARIABLES
  purchases,   \* the recorded purchases
  receipts,    \* the purchases whose buyer was told so
  confirmed,   \* the confirmed purchases
  asked,       \* calculations the admin has asked for, for each charge
  commissions, \* batches of commissions granted for each charge
  told         \* calculations the admin was told to have succeeded

vars == <<purchases, receipts, confirmed, asked, commissions, told>>

Init ==
  /\ purchases = {} /\ receipts = {} /\ confirmed = {}
  /\ asked = [c \in Codes |-> 0]
  /\ commissions = [c \in Codes |-> 0]
  /\ told = [c \in Codes |-> 0]

Purchase(c) ==
  /\ c \notin purchases
  /\ purchases' = purchases \union {c}
  /\ UNCHANGED <<receipts, confirmed, asked, commissions, told>>

Receipt(c) ==
  /\ c \in purchases
  /\ receipts' = receipts \union {c}
  /\ UNCHANGED <<purchases, confirmed, asked, commissions, told>>

\* The admin can ask for any charge, also for one without a purchase.
Ask(c) ==
  /\ asked' = [asked EXCEPT ![c] = @ + 1]
  /\ UNCHANGED <<purchases, receipts, confirmed, commissions, told>>

Confirm(c) ==
  /\ c \in purchases
  /\ commissions[c] < asked[c]
  /\ confirmed' = confirmed \union {c}
  /\ commissions' = [commissions EXCEPT ![c] = @ + 1]
  /\ UNCHANGED <<purchases, receipts, asked, told>>

Tell(c) ==
  /\ told[c] < commissions[c]
  /\ told' = [told EXCEPT ![c] = @ + 1]
  /\ UNCHANGED <<purchases, receipts, confirmed, asked, commissions>>

Next == \E c \in Codes : Purchase(c) \/ Receipt(c) \/ Ask(c) \/ Confirm(c) \/ Tell(c)

Spec == Init /\ [][Next]_vars
=============================================================================
