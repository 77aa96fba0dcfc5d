----------------------------- MODULE Commissions -----------------------------
(***************************************************************************)
(* CommissionService: calculateCommission, the commission tiers it reads    *)
(* and the commissions it grants.  A calculation reads the tiers in one     *)
(* call and the referrers with their statuses in another, and writes the    *)
(* batch in a third, while admins edit tiers and customers are suspended,   *)
(* reinstated or activated.  Every awaited call is a step; a request that   *)
(* its first read refuses changes nothing and takes no step.                *)
(*                                                                          *)
(* Amounts are in cents and rates in ten-thousandths, as Decimal(4,4) has   *)
(* them.  Purchases and referrals never change once they are recorded.      *)
(***************************************************************************)
EXTENDS Integers

CONSTANTS
  Customers,     \* customerIds
  Referrer,      \* Customer.referralCustomerId, 0 for none
  Charges,       \* charges with a purchase activity
  Buyer, Amount, \* their customer and PurchaseActivity.amount
  Tiers,         \* tier numbers an admin uses
  Rates,         \* commission rates an admin uses
  NoRate,
  Requests,
  MaxBatches,    \* bound: batches of commissions
  MaxChanges     \* bound: changes of tiers and of statuses

\* A customer registers with the code of one who exists, so customerIds grow.
ASSUME ConstantsAssumption ==
  /\ Customers \subseteq Nat \ {0}
  /\ Referrer \in [Customers -> Customers \union {0}]
  /\ \A c \in Customers : Referrer[c] < c
  /\ Buyer \in [Charges -> Customers]
  /\ Amount \in [Charges -> Nat \ {0}]
  /\ Tiers \subseteq Int
  /\ Rates \subseteq 0..9999 /\ NoRate \notin Rates
  /\ MaxBatches \in Nat /\ MaxChanges \in Nat

VARIABLES
  tiers,        \* table CommissionTier: the rate of each tier that has a row
  active,       \* the customers whose customerStatus is ACTIVE
  commissions,  \* table Commission, each row with the batch it came in
  batches,      \* batches committed so far
  confirmed,    \* PurchaseActivity.purchaseConfirmed
  pc,
  charge, rates, data,  \* per request: the locals of calculateCommission
  edit,         \* per request: the arguments of an update or deletion of a tier
  seen,         \* history: rates and statuses in force since a calculation began
  changes       \* bound counter

tables == <<tiers, active, commissions, batches, confirmed>>
locals == <<charge, rates, data, edit>>
vars == <<tiers, active, commissions, batches, confirmed, pc, charge, rates, data,
          edit, seen, changes>>

TierTable == [Tiers -> Rates \union {NoRate}]
Grant == [customer : Customers, tier : Nat \ {0}, rate : Rates \ {0}, amount : Nat]
Commission == [batch : Nat \ {0}, charge : Charges, granted : Grant, isTransferred : BOOLEAN]

Calculating == {"rates", "referrers", "commit"}
Unseen == [rates |-> [t \in Tiers |-> {}], ever |-> {}, always |-> {}]
NoEdit == [tier |-> 0, rate |-> NoRate]

Init ==
  /\ tiers \in TierTable
  /\ active \in SUBSET Customers
  /\ commissions = {} /\ batches = 0 /\ confirmed = {}
  /\ pc = [p \in Requests |-> "idle"]
  /\ charge \in [Requests -> Charges]
  /\ rates = [p \in Requests |-> [t \in Tiers |-> NoRate]]
  /\ data = [p \in Requests |-> {}]
  /\ edit = [p \in Requests |-> NoEdit]
  /\ seen = [p \in Requests |-> Unseen]
  /\ changes = 0

Goto(p, step) == pc' = [pc EXCEPT ![p] = step]

Release(p) ==
  /\ Goto(p, "idle")
  /\ rates' = [rates EXCEPT ![p] = [t \in Tiers |-> NoRate]]
  /\ data' = [data EXCEPT ![p] = {}]
  /\ edit' = [edit EXCEPT ![p] = NoEdit]
  /\ seen' = [seen EXCEPT ![p] = Unseen]
  /\ UNCHANGED charge

-----------------------------------------------------------------------------
(* calculateCommission.                                                     *)

\* getCharge: the purchase, its customer and the referrer of that customer.
GetCharge(p, k) ==
  /\ pc[p] = "idle"
  /\ Goto(p, "rates")
  /\ charge' = [charge EXCEPT ![p] = k]
  /\ seen' = [seen EXCEPT ![p] = [rates |-> [t \in Tiers |-> {tiers[t]}],
                                  ever |-> active, always |-> active]]
  /\ UNCHANGED <<tables, rates, data, edit, changes>>

GetAllCommissionRates(p) ==
  /\ pc[p] = "rates"
  /\ rates' = [rates EXCEPT ![p] = tiers]
  /\ Goto(p, "referrers")
  /\ UNCHANGED <<tables, charge, data, edit, seen, changes>>

\* c stands n levels above b.
IsReferrer(c, b, n) ==
  \E line \in [0..n -> Customers] :
    /\ line[0] = b /\ line[n] = c
    /\ \A i \in 0..(n - 1) : Referrer[line[i]] = line[i + 1]

Levels == {1} \union UNION {1..t : t \in Tiers}

\* The rows of the recursive query for every start.  A level has one row at most, so
\* the place of a row in the result, which the loop counts as its tier, is its level.
Referrals == {r \in Customers \X Customers \X Levels : IsReferrer(r[1], r[2], r[3])}

Present(table) == {t \in Tiers : table[t] # NoRate}

\* Mutant of Depth: the recursion stops one level early.
ShortDepth(table) == {1} \union UNION {1..(t - 1) : t \in Present(table)}

\* The query returns the first referrer whatever maxTier is and recurses up to maxTier.
\* Without tiers maxTier is -Infinity, with which the query returns that one row or rejects.
Depth(table) == {1} \union UNION {1..t : t \in Present(table)}

RateOf(table, n) == IF n \in Present(table) THEN table[n] ELSE 0

\* Mutants of Earners: a rate of zero is not skipped, the status is not looked at, the
\* loop over the referrers starts again for every tier.
EarnersAtAnyRate(k, table) ==
  {r \in Referrals : r[1] \in active /\ r[2] = Buyer[k] /\ r[3] \in Depth(table)}
EarnersOfAnyStatus(k, table) ==
  {r \in Referrals : r[2] = Buyer[k] /\ r[3] \in Depth(table) /\ RateOf(table, r[3]) > 0}
EarnersAtEveryTier(k, table) ==
  {r \in Customers \X Customers \X Levels :
     /\ r[1] \in active /\ r[2] = Buyer[k] /\ r[3] \in Depth(table)
     /\ RateOf(table, r[3]) > 0
     /\ \E n \in Depth(table) : IsReferrer(r[1], r[2], n)}

\* The referrers the loop collects a commission for.
Earners(k, table) ==
  {r \in Referrals : /\ r[1] \in active /\ r[2] = Buyer[k] /\ r[3] \in Depth(table)
                     /\ RateOf(table, r[3]) > 0}

\* Math.floor of a floating-point product: where the exact product is an integer, the
\* computed one can fall short of it and lose a cent.
Share(amount, rate, lost) ==
  LET product == amount * rate IN
  product \div 10000 - (IF product % 10000 = 0 THEN lost ELSE 0)

Collect(k, table, lost) ==
  {[customer |-> r[1], tier |-> r[3], rate |-> RateOf(table, r[3]),
    amount |-> Share(Amount[k], RateOf(table, r[3]), lost[r])] : r \in Earners(k, table)}

GetAllReferrers(p) ==
  /\ pc[p] = "referrers"
  /\ \E lost \in [Earners(charge[p], rates[p]) -> {0, 1}] :
       data' = [data EXCEPT ![p] = Collect(charge[p], rates[p], lost)]
  /\ Goto(p, "commit")
  /\ UNCHANGED <<tables, charge, rates, edit, seen, changes>>

\* One transaction: the rows of the batch and purchaseConfirmed.
PerformTransaction(p) ==
  /\ pc[p] = "commit"
  /\ batches < MaxBatches
  /\ batches' = batches + 1
  /\ commissions' = commissions \union
       {[batch |-> batches + 1, charge |-> charge[p], granted |-> g, isTransferred |-> FALSE] :
          g \in data[p]}
  /\ confirmed' = confirmed \union {charge[p]}
  /\ Release(p)
  /\ UNCHANGED <<tiers, active, changes>>

-----------------------------------------------------------------------------
(* The admin's tiers and transfers, and the customers' statuses.            *)

\* What the calculations under way now have in force.
Watch(table, status) ==
  seen' = [p \in Requests |->
             IF pc[p] \in Calculating
             THEN [rates |-> [t \in Tiers |-> seen[p].rates[t] \union {table[t]}],
                   ever |-> seen[p].ever \union status,
                   always |-> seen[p].always \intersect status]
             ELSE seen[p]]

\* One call, which the unique column refuses for a tier that has a row.
CreateCommissionTier(t, r) ==
  /\ changes < MaxChanges
  /\ tiers[t] = NoRate
  /\ tiers' = [tiers EXCEPT ![t] = r]
  /\ Watch(tiers', active)
  /\ changes' = changes + 1
  /\ UNCHANGED <<active, commissions, batches, confirmed, pc, locals>>

\* updateCommissionTier, and with NoRate deleteCommissionTier.
FindTier(p, t, r) ==
  /\ pc[p] = "idle"
  /\ tiers[t] # NoRate
  /\ Goto(p, "write")
  /\ edit' = [edit EXCEPT ![p] = [tier |-> t, rate |-> r]]
  /\ UNCHANGED <<tables, charge, rates, data, seen, changes>>

\* Mutant of WriteTier: an upsert.
UpsertTier(p) ==
  LET e == edit[p] IN
  /\ pc[p] = "write"
  /\ changes < MaxChanges
  /\ tiers' = [tiers EXCEPT ![e.tier] = e.rate]
  /\ Watch(tiers', active)
  /\ Goto(p, "idle")
  /\ edit' = [edit EXCEPT ![p] = NoEdit]
  /\ changes' = changes + 1
  /\ UNCHANGED <<active, commissions, batches, confirmed, charge, rates, data>>

\* The write rejects when the tier has been deleted since it was found.
WriteTier(p) ==
  LET e == edit[p] IN
  /\ pc[p] = "write"
  /\ IF tiers[e.tier] = NoRate
       THEN /\ Release(p)
            /\ UNCHANGED <<tables, changes>>
       ELSE /\ changes < MaxChanges
            /\ tiers' = [tiers EXCEPT ![e.tier] = e.rate]
            /\ Watch(tiers', active)
            /\ Goto(p, "idle")
            /\ edit' = [edit EXCEPT ![p] = NoEdit]
            /\ changes' = changes + 1
            /\ UNCHANGED <<active, commissions, batches, confirmed, charge, rates, data>>

UpdateCommissionTransferStatus(r) ==
  /\ commissions' = (commissions \ {r}) \union {[r EXCEPT !.isTransferred = TRUE]}
  /\ UNCHANGED <<tiers, active, batches, confirmed, pc, locals, seen, changes>>

\* Verification, suspension or reinstatement of a customer, whatever led to it.
ChangeStatus(c) ==
  /\ changes < MaxChanges
  /\ active' = IF c \in active THEN active \ {c} ELSE active \union {c}
  /\ Watch(tiers, active')
  /\ changes' = changes + 1
  /\ UNCHANGED <<tiers, commissions, batches, confirmed, pc, locals>>

\* An awaited call rejects, or the process stops.
Abandon(p) ==
  /\ pc[p] # "idle"
  /\ Release(p)
  /\ UNCHANGED <<tables, changes>>

Next ==
  \/ \E p \in Requests :
       \/ \E k \in Charges : GetCharge(p, k)
       \/ GetAllCommissionRates(p) \/ GetAllReferrers(p) \/ PerformTransaction(p)
       \/ \E t \in Tiers, r \in Rates \union {NoRate} : FindTier(p, t, r)
       \/ WriteTier(p) \/ Abandon(p)
  \/ \E t \in Tiers, r \in Rates : CreateCommissionTier(t, r)
  \/ \E r \in commissions : UpdateCommissionTransferStatus(r)
  \/ \E c \in Customers : ChangeStatus(c)

Spec == Init /\ [][Next]_vars

-----------------------------------------------------------------------------

TypeOK ==
  /\ tiers \in TierTable
  /\ active \subseteq Customers
  /\ commissions \subseteq Commission
  /\ batches \in Nat
  /\ confirmed \subseteq Charges
  /\ pc \in [Requests -> Calculating \union {"idle", "write"}]
  /\ charge \in [Requests -> Charges]
  /\ rates \in [Requests -> TierTable]
  /\ data \in [Requests -> SUBSET Grant]
  /\ \A p \in Requests : pc[p] = "write" => edit[p].tier \in Tiers
                                            /\ edit[p].rate \in Rates \union {NoRate}
  /\ changes \in Nat

\* A batch pays a customer once, at one tier, and a tier once, to one customer, however
\* the referrals lie and whatever tiers have a rate; transferring it splits no row
\* (103-128, 422-435).
OneGrantEach ==
  \A r, s \in commissions :
    r.batch = s.batch /\ (\/ r.granted.customer = s.granted.customer
                          \/ r.granted.tier = s.granted.tier) => r = s

New == {r \in commissions' : r.batch > batches}

\* A commission goes to a referrer who was ACTIVE at some time during the calculation,
\* at the distance its tier says, with a rate that tier had during the calculation, and
\* its amount is that share of the purchase, to within a cent (81-131).
CommissionsEarned ==
  [][\A r \in New : \E p \in Requests :
       LET g == r.granted IN
       /\ pc[p] = "commit" /\ charge[p] = r.charge
       /\ g.customer \in seen[p].ever
       /\ IsReferrer(g.customer, Buyer[r.charge], g.tier)
       /\ g.tier \in Tiers /\ g.rate \in seen[p].rates[g.tier] \ {0}
       /\ g.amount * 10000 <= Amount[r.charge] * g.rate
       /\ Amount[r.charge] * g.rate <= (g.amount + 1) * 10000]_vars

\* Nobody is left out: a referrer who was ACTIVE all the time gets a commission from
\* every batch, when the tier of that distance kept one positive rate all the time,
\* whatever happened to the other tiers and to the referrers in between (95-128).
NobodyLeftOut ==
  [][\A p \in Requests : batches' > batches /\ pc'[p] # pc[p] =>
       \A t \in Tiers, c \in seen[p].always, x \in Rates \ {0} :
         seen[p].rates[t] = {x} /\ t > 0 /\ IsReferrer(c, Buyer[charge[p]], t)
         => \E r \in New : r.granted.customer = c /\ r.granted.tier = t /\ r.granted.rate = x]_vars

\* A deleted tier comes back only by createCommissionTier: an update that found it
\* before it was deleted does not restore it (236-257).
DeletedTierStaysDeleted ==
  [][\A t \in Tiers : tiers[t] = NoRate /\ tiers'[t] # NoRate => UNCHANGED pc]_vars
=============================================================================
