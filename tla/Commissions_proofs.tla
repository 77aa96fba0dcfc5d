-------------------------- MODULE Commissions_proofs --------------------------
(***************************************************************************)
(* Theorems about Commissions for any customers, referrals, purchases,     *)
(* tiers, rates and requests.  The invariant ties what a calculation has   *)
(* read, and later the batch it is about to write, to what was in force at *)
(* some time, or all the time, since it began.  A batch grants nobody      *)
(* twice because the referrals above a buyer are a line that never turns   *)
(* back (LinesAgree, LineFalls).                                           *)
(***************************************************************************)
EXTENDS Commissions, WellFoundedInduction, TLAPS

Seen == [rates : [Tiers -> SUBSET (Rates \union {NoRate})],
         ever : SUBSET Customers, always : SUBSET Customers]

\* What a request knows of is in force, or was since its calculation began.
SeenOK(p) ==
  /\ active \subseteq seen[p].ever
  /\ seen[p].always \subseteq active
  /\ \A t \in Tiers : tiers[t] \in seen[p].rates[t]

SnapshotOK(p) == \A t \in Tiers : rates[p][t] \in seen[p].rates[t]

\* y is the share of a at rate x, to within a cent.
FairShare(a, x, y) == y \in Nat /\ y * 10000 <= a * x /\ a * x <= (y + 1) * 10000

\* A grant of the batch is one the properties allow.
Justified(p, g) ==
  /\ g.customer \in seen[p].ever
  /\ IsReferrer(g.customer, Buyer[charge[p]], g.tier)
  /\ g.tier \in Tiers /\ g.rate = rates[p][g.tier] /\ g.rate # 0
  /\ FairShare(Amount[charge[p]], g.rate, g.amount)

\* The batch has whoever must not be left out.
Complete(p) ==
  \A t \in Tiers, c \in seen[p].always :
    t > 0 /\ IsReferrer(c, Buyer[charge[p]], t) /\ rates[p][t] \in Rates \ {0}
    => \E g \in data[p] : g.customer = c /\ g.tier = t /\ g.rate = rates[p][t]

DataOK(p) == (\A g \in data[p] : Justified(p, g)) /\ Complete(p)

Consistent(p) ==
  /\ pc[p] \in Calculating => SeenOK(p)
  /\ pc[p] \in {"referrers", "commit"} => SnapshotOK(p)
  /\ pc[p] = "commit" => DataOK(p)

Types ==
  /\ TypeOK
  /\ seen \in [Requests -> Seen]
  /\ edit \in [Requests -> [tier : Int, rate : Rates \union {NoRate}]]

BatchesOK == \A r \in commissions : r.batch <= batches

Inv == Types /\ BatchesOK /\ \A p \in Requests : Consistent(p)

-----------------------------------------------------------------------------
(* The operators of a calculation.                                          *)

LEMMA RatesType == ASSUME NEW x \in Rates PROVE x \in Nat /\ (x # 0 => x \in 1..9999 /\ x > 0)
<1>1. x \in 0..9999
  BY ConstantsAssumption
<1>2. QED
  BY <1>1

LEMMA AmountType == ASSUME NEW k \in Charges PROVE Amount[k] \in Nat \ {0}
BY ConstantsAssumption

\* A share is the exact one rounded down, or a cent less when there was nothing to round.
LEMMA ShareBounds ==
  ASSUME NEW a \in Nat \ {0}, NEW r \in Rates \ {0}, NEW lost \in {0, 1}
  PROVE  FairShare(a, r, Share(a, r, lost))
<1> DEFINE P == a * r
<1>0. r \in 1..9999
  BY RatesType
<1>1. P \in Nat /\ P >= 1
  <2>1. PICK b \in Nat : a = b + 1
    <3>1. a - 1 \in Nat /\ a = (a - 1) + 1
      OBVIOUS
    <3>2. QED
      BY <3>1
  <2>2. b * r \in Nat
    BY <1>0
  <2>3. PICK q \in Nat : q = b * r
    BY <2>2
  <2>4. P = q + r
    BY <1>0, <2>1, <2>3
  <2>5. QED
    BY <1>0, <2>4
<1>2. Share(a, r, lost) = P \div 10000 - (IF P % 10000 = 0 THEN lost ELSE 0)
  BY DEF Share
<1> HIDE DEF P
<1>3. P \div 10000 \in Nat /\ (P \div 10000) * 10000 <= P /\ P <= (P \div 10000 + 1) * 10000
  BY <1>1
<1>4. P % 10000 = 0 => (P \div 10000) * 10000 = P /\ P \div 10000 >= 1
  BY <1>1
<1>5. /\ Share(a, r, lost) \in Nat
      /\ Share(a, r, lost) * 10000 <= P
      /\ P <= (Share(a, r, lost) + 1) * 10000
  BY <1>1, <1>2, <1>3, <1>4
<1>6. QED
  BY <1>5 DEF P, FairShare

\* Every level of a tier that has a rate is within the depth of the query.
LEMMA RatedWithinDepth ==
  ASSUME NEW table \in TierTable, NEW t \in Tiers, t > 0, table[t] # NoRate
  PROVE  /\ t \in Depth(table) /\ t \in Levels /\ RateOf(table, t) = table[t]
<1>1. t \in Int /\ t \in 1..t
  BY ConstantsAssumption
<1>2. t \in Present(table)
  BY DEF Present
<1>3. QED
  BY <1>1, <1>2 DEF Depth, Levels, RateOf

LEMMA LevelsType == Levels \subseteq Nat \ {0}
BY ConstantsAssumption DEF Levels

LEMMA GrantOf ==
  ASSUME NEW c \in Customers, NEW n \in Nat \ {0}, NEW x \in Rates \ {0},
         NEW a \in Nat \ {0}, NEW l \in {0, 1}, NEW g,
         g = [customer |-> c, tier |-> n, rate |-> x, amount |-> Share(a, x, l)]
  PROVE  /\ g \in Grant /\ g.customer = c /\ g.tier = n /\ g.rate = x
         /\ FairShare(a, g.rate, g.amount)
<1>1. FairShare(a, x, Share(a, x, l))
  BY ShareBounds, Zenon
<1>2. PICK y \in Nat : y = Share(a, x, l)
  BY <1>1 DEF FairShare
<1>3. g = [customer |-> c, tier |-> n, rate |-> x, amount |-> y]
  BY <1>2, Zenon
<1>4. g.customer = c /\ g.tier = n /\ g.rate = x /\ g.amount = y
  BY <1>3
<1>5. g \in Grant
  BY <1>3 DEF Grant
<1>6. QED
  BY <1>1, <1>2, <1>4, <1>5, Zenon

\* What the loop collects, from the snapshot it works with.
LEMMA Collected ==
  ASSUME TypeOK, NEW k \in Charges, NEW table \in TierTable,
         NEW lost \in [Earners(k, table) -> {0, 1}], NEW g \in Collect(k, table, lost)
  PROVE  /\ g \in Grant /\ g.customer \in active
         /\ IsReferrer(g.customer, Buyer[k], g.tier)
         /\ g.tier \in Tiers /\ g.rate = table[g.tier] /\ g.rate # 0
         /\ FairShare(Amount[k], g.rate, g.amount)
<1>1. PICK r \in Earners(k, table) :
        g = [customer |-> r[1], tier |-> r[3], rate |-> RateOf(table, r[3]),
             amount |-> Share(Amount[k], RateOf(table, r[3]), lost[r])]
  BY DEF Collect
<1>2. /\ r[1] \in active /\ r[1] \in Customers /\ r[3] \in Levels
      /\ IsReferrer(r[1], Buyer[k], r[3]) /\ RateOf(table, r[3]) > 0
  BY <1>1 DEF Earners, Referrals
<1>3. r[3] \in Tiers /\ RateOf(table, r[3]) = table[r[3]] /\ table[r[3]] # NoRate
  BY <1>2 DEF RateOf, Present
<1>4. RateOf(table, r[3]) \in Rates \ {0}
  <2>1. table[r[3]] \in Rates \union {NoRate}
    BY <1>3 DEF TierTable
  <2>2. table[r[3]] # 0
    BY <1>2, <1>3
  <2>3. table[r[3]] \in Rates \ {0}
    BY <1>3, <2>1, <2>2
  <2>4. QED
    BY <1>3, <2>3, Zenon
<1>5. r[3] \in Nat \ {0}
  BY <1>2, LevelsType
<1>6. lost[r] \in {0, 1} /\ Amount[k] \in Nat \ {0}
  BY <1>1, AmountType
<1>7. /\ g \in Grant /\ g.customer = r[1] /\ g.tier = r[3] /\ g.rate = RateOf(table, r[3])
      /\ FairShare(Amount[k], g.rate, g.amount)
  <2>1. PICK c \in Customers, n \in Nat \ {0}, x \in Rates \ {0}, a \in Nat \ {0}, l \in {0, 1} :
          c = r[1] /\ n = r[3] /\ x = RateOf(table, r[3]) /\ a = Amount[k] /\ l = lost[r]
    BY <1>2, <1>4, <1>5, <1>6, Zenon
  <2>2. g = [customer |-> c, tier |-> n, rate |-> x, amount |-> Share(a, x, l)]
    BY <1>1, <2>1, Zenon
  <2>3. /\ g \in Grant /\ g.customer = c /\ g.tier = n /\ g.rate = x
        /\ FairShare(a, g.rate, g.amount)
    BY <2>2, GrantOf
  <2>4. QED
    BY <2>1, <2>3, Zenon
<1>8. g.rate # 0
  BY <1>4, <1>7
<1>9. QED
  BY <1>2, <1>3, <1>7, <1>8, Zenon

LEMMA CollectedAll ==
  ASSUME TypeOK, NEW k \in Charges, NEW table \in TierTable,
         NEW lost, NEW t \in Tiers, NEW c \in active,
         t > 0, IsReferrer(c, Buyer[k], t), table[t] \in Rates \ {0}
  PROVE  \E g \in Collect(k, table, lost) :
           g.customer = c /\ g.tier = t /\ g.rate = table[t]
<1>1. t \in Depth(table) /\ t \in Levels /\ RateOf(table, t) = table[t]
  <2>1. NoRate \notin Rates
    BY ConstantsAssumption
  <2>2. table[t] # NoRate
    BY <2>1
  <2>3. QED
    BY <2>2, RatedWithinDepth, Zenon
<1>2. RateOf(table, t) > 0
  BY <1>1, RatesType
<1>3. c \in Customers /\ Buyer[k] \in Customers
  BY ConstantsAssumption DEF TypeOK
<1> DEFINE r == <<c, Buyer[k], t>>
           g == [customer |-> r[1], tier |-> r[3], rate |-> RateOf(table, r[3]),
                 amount |-> Share(Amount[k], RateOf(table, r[3]), lost[r])]
<1>4. r \in Earners(k, table)
  BY <1>1, <1>2, <1>3 DEF Earners, Referrals
<1>5. g \in Collect(k, table, lost)
  BY <1>4 DEF Collect
<1>6. g.customer = c /\ g.tier = t /\ g.rate = table[t]
  BY <1>1
<1>7. QED
  BY <1>5, <1>6
-----------------------------------------------------------------------------
(* The invariant.                                                           *)

LEMMA InitInv == Init => Inv
<1> SUFFICES ASSUME Init PROVE Inv
  OBVIOUS
<1>1. NoEdit \in [tier : Int, rate : Rates \union {NoRate}]
  BY DEF NoEdit
<1>2. Unseen \in Seen
  BY DEF Unseen, Seen
<1>3. Types
  BY <1>1, <1>2 DEF Init, Types, TypeOK, TierTable
<1>4. BatchesOK /\ \A p \in Requests : Consistent(p)
  BY DEF Init, BatchesOK, Consistent, Calculating
<1>5. QED
  BY <1>3, <1>4 DEF Inv

\* A request whose locals a step leaves alone, with the tables it relies on.
LEMMA Undisturbed ==
  ASSUME Inv, NEW q \in Requests, tiers' = tiers, active' = active,
         pc'[q] = pc[q], charge'[q] = charge[q], rates'[q] = rates[q],
         data'[q] = data[q], seen'[q] = seen[q]
  PROVE  Consistent(q)'
<1>1. Consistent(q)
  BY DEF Inv
<1>2. (SeenOK(q) => SeenOK(q)') /\ (SnapshotOK(q) => SnapshotOK(q)')
  BY DEF SeenOK, SnapshotOK
<1>3. DataOK(q) => DataOK(q)'
  BY DEF DataOK, Justified, Complete
<1>4. QED
  BY <1>1, <1>2, <1>3 DEF Consistent

\* An admin's or a customer's change, as a calculation sees it.
LEMMA Watched ==
  ASSUME Inv, NEW q \in Requests, tiers' \in TierTable, active' \subseteq Customers,
         Watch(tiers', active'), pc'[q] = pc[q], charge' = charge, rates' = rates, data' = data
  PROVE  Consistent(q)'
<1> SUFFICES ASSUME pc[q] \in Calculating PROVE Consistent(q)'
  BY DEF Consistent, Calculating
<1>1. seen'[q] = [rates |-> [t \in Tiers |-> seen[q].rates[t] \union {tiers'[t]}],
                  ever |-> seen[q].ever \union active',
                  always |-> seen[q].always \intersect active']
  BY DEF Watch
<1>2. /\ \A t \in Tiers : seen'[q].rates[t] = seen[q].rates[t] \union {tiers'[t]}
      /\ seen'[q].ever = seen[q].ever \union active'
      /\ seen'[q].always = seen[q].always \intersect active'
  BY <1>1
<1>3. SeenOK(q)'
  BY <1>2 DEF SeenOK
<1>4. SnapshotOK(q) => SnapshotOK(q)'
  BY <1>2 DEF SnapshotOK
<1>5. DataOK(q) => DataOK(q)'
  BY <1>2 DEF DataOK, Justified, Complete
<1>6. QED
  BY <1>3, <1>4, <1>5 DEF Inv, Consistent

LEMMA WatchType ==
  ASSUME Inv, tiers' \in TierTable, active' \subseteq Customers, Watch(tiers', active')
  PROVE  seen' \in [Requests -> Seen]
<1>1. \A q \in Requests : seen[q] \in Seen
  BY DEF Inv, Types
<1>2. \A q \in Requests :
        [rates |-> [t \in Tiers |-> seen[q].rates[t] \union {tiers'[t]}],
         ever |-> seen[q].ever \union active',
         always |-> seen[q].always \intersect active'] \in Seen
  <2> TAKE q \in Requests
  <2>1. seen[q].rates \in [Tiers -> SUBSET (Rates \union {NoRate})]
    BY <1>1 DEF Seen
  <2>2. seen[q].ever \subseteq Customers /\ seen[q].always \subseteq Customers
    BY <1>1 DEF Seen
  <2>3. [t \in Tiers |-> seen[q].rates[t] \union {tiers'[t]}]
          \in [Tiers -> SUBSET (Rates \union {NoRate})]
    BY <2>1 DEF TierTable
  <2>4. QED
    BY <2>2, <2>3 DEF Seen
<1>3. QED
  BY <1>1, <1>2 DEF Watch

\* A request that ends, whatever it wrote.
LEMMA ReleaseInv ==
  ASSUME Inv, NEW p \in Requests, Release(p), tiers' = tiers, active' = active,
         commissions' \subseteq Commission, batches' \in Nat, confirmed' \subseteq Charges,
         changes' \in Nat, BatchesOK'
  PROVE  Inv'
<1>1. /\ pc' = [pc EXCEPT ![p] = "idle"] /\ charge' = charge
      /\ rates' = [rates EXCEPT ![p] = [t \in Tiers |-> NoRate]]
      /\ data' = [data EXCEPT ![p] = {}] /\ edit' = [edit EXCEPT ![p] = NoEdit]
      /\ seen' = [seen EXCEPT ![p] = Unseen]
  BY DEF Release, Goto
<1>2. NoEdit \in [tier : Int, rate : Rates \union {NoRate}] /\ Unseen \in Seen
  BY DEF NoEdit, Unseen, Seen
<1>3. Types'
  BY <1>1, <1>2 DEF Inv, Types, TypeOK, TierTable
<1>4. ASSUME NEW q \in Requests PROVE Consistent(q)'
  <2>1. CASE q = p
    BY <1>1, <2>1 DEF Consistent, Calculating, Inv, Types, TypeOK
  <2>2. CASE q # p
    BY <1>1, <2>2, Undisturbed DEF Inv, Types, TypeOK
  <2>3. QED
    BY <2>1, <2>2
<1>5. QED
  BY <1>3, <1>4 DEF Inv

LEMMA GetChargeInv ==
  ASSUME Inv, NEW p \in Requests, NEW k \in Charges, GetCharge(p, k)
  PROVE  Inv'
<1> DEFINE new == [rates |-> [t \in Tiers |-> {tiers[t]}], ever |-> active, always |-> active]
<1>1. /\ pc' = [pc EXCEPT ![p] = "rates"] /\ charge' = [charge EXCEPT ![p] = k]
      /\ seen' = [seen EXCEPT ![p] = new]
      /\ tiers' = tiers /\ active' = active /\ commissions' = commissions
      /\ batches' = batches /\ confirmed' = confirmed
      /\ rates' = rates /\ data' = data /\ edit' = edit /\ changes' = changes
  BY DEF GetCharge, Goto, tables
<1>2. new \in Seen
  BY DEF Inv, Types, TypeOK, TierTable, Seen
<1>3. new.ever = active /\ new.always = active /\ \A t \in Tiers : tiers[t] \in new.rates[t]
  OBVIOUS
<1> HIDE DEF new
<1>4. Types'
  BY <1>1, <1>2 DEF Inv, Types, TypeOK, Calculating
<1>5. ASSUME NEW q \in Requests PROVE Consistent(q)'
  <2>1. CASE q = p
    <3>1. pc'[p] = "rates" /\ seen'[p] = new
      BY <1>1 DEF Inv, Types, TypeOK
    <3>2. QED
      BY <1>1, <1>3, <2>1, <3>1 DEF Consistent, SeenOK
  <2>2. CASE q # p
    BY <1>1, <2>2, Undisturbed DEF Inv, Types, TypeOK
  <2>3. QED
    BY <2>1, <2>2
<1>6. QED
  BY <1>1, <1>4, <1>5 DEF Inv, BatchesOK

LEMMA GetAllCommissionRatesInv ==
  ASSUME Inv, NEW p \in Requests, GetAllCommissionRates(p)
  PROVE  Inv'
<1>1. /\ pc[p] = "rates" /\ pc' = [pc EXCEPT ![p] = "referrers"]
      /\ rates' = [rates EXCEPT ![p] = tiers]
      /\ tiers' = tiers /\ active' = active /\ commissions' = commissions
      /\ batches' = batches /\ confirmed' = confirmed
      /\ charge' = charge /\ data' = data /\ edit' = edit /\ seen' = seen /\ changes' = changes
  BY DEF GetAllCommissionRates, Goto, tables
<1>2. Types'
  BY <1>1 DEF Inv, Types, TypeOK, Calculating
<1>3. ASSUME NEW q \in Requests PROVE Consistent(q)'
  <2>1. CASE q = p
    <3>1. pc'[p] = "referrers" /\ rates'[p] = tiers
      BY <1>1 DEF Inv, Types, TypeOK
    <3>2. SeenOK(p)
      BY <1>1 DEF Inv, Consistent, Calculating
    <3>3. SeenOK(p)' /\ SnapshotOK(p)'
      BY <1>1, <3>1, <3>2 DEF SeenOK, SnapshotOK
    <3>4. QED
      BY <2>1, <3>1, <3>3 DEF Consistent
  <2>2. CASE q # p
    BY <1>1, <2>2, Undisturbed DEF Inv, Types, TypeOK
  <2>3. QED
    BY <2>1, <2>2
<1>4. QED
  BY <1>1, <1>2, <1>3 DEF Inv, BatchesOK

\* What the loop collects is justified and complete, by the snapshots of both reads.
LEMMA GetAllReferrersInv ==
  ASSUME Inv, NEW p \in Requests, GetAllReferrers(p)
  PROVE  Inv'
<1>1. PICK lost \in [Earners(charge[p], rates[p]) -> {0, 1}] :
        data' = [data EXCEPT ![p] = Collect(charge[p], rates[p], lost)]
  BY DEF GetAllReferrers
<1> DEFINE new == Collect(charge[p], rates[p], lost)
<1>2. /\ pc[p] = "referrers" /\ pc' = [pc EXCEPT ![p] = "commit"]
      /\ tiers' = tiers /\ active' = active /\ commissions' = commissions
      /\ batches' = batches /\ confirmed' = confirmed
      /\ charge' = charge /\ rates' = rates /\ edit' = edit /\ seen' = seen /\ changes' = changes
  BY DEF GetAllReferrers, Goto, tables
<1>3. TypeOK /\ charge[p] \in Charges /\ rates[p] \in TierTable
  BY DEF Inv, Types, TypeOK
<1>4. SeenOK(p) /\ SnapshotOK(p)
  BY <1>2 DEF Inv, Consistent, Calculating
<1>5. new \subseteq Grant
  BY <1>3, Collected
<1>6. \A g \in new : Justified(p, g)
  BY <1>3, <1>4, Collected DEF Justified, SeenOK
<1>7. ASSUME NEW t \in Tiers, NEW c \in seen[p].always, t > 0,
             IsReferrer(c, Buyer[charge[p]], t), rates[p][t] \in Rates \ {0}
      PROVE  \E g \in new : g.customer = c /\ g.tier = t /\ g.rate = rates[p][t]
  <2>1. c \in active
    BY <1>4 DEF SeenOK
  <2>2. QED
    BY <1>3, <1>7, <2>1, CollectedAll
<1> HIDE DEF new
<1>8. data' = [data EXCEPT ![p] = new] /\ data'[p] = new
  BY <1>1, <1>3 DEF new, TypeOK
<1>9. Types'
  BY <1>2, <1>5, <1>8 DEF Inv, Types, TypeOK, Calculating
<1>10. ASSUME NEW q \in Requests PROVE Consistent(q)'
  <2>1. CASE q = p
    <3>1. SeenOK(p)' /\ SnapshotOK(p)'
      BY <1>2, <1>4 DEF SeenOK, SnapshotOK
    <3>2. \A g \in data'[p] : Justified(p, g)'
      BY <1>2, <1>6, <1>8 DEF Justified
    <3>3. Complete(p)'
      BY <1>2, <1>7, <1>8 DEF Complete
    <3>4. QED
      BY <2>1, <3>1, <3>2, <3>3 DEF Consistent, DataOK
  <2>2. CASE q # p
    BY <1>2, <1>8, <2>2, Undisturbed DEF Inv, Types, TypeOK
  <2>3. QED
    BY <2>1, <2>2
<1>11. QED
  BY <1>2, <1>9, <1>10 DEF Inv, BatchesOK

\* The rows of a batch are new, and are what the request collected.
LEMMA BatchRows ==
  ASSUME Inv, NEW p \in Requests, PerformTransaction(p)
  PROVE  /\ commissions' \subseteq Commission /\ BatchesOK'
         /\ New = {[batch |-> batches + 1, charge |-> charge[p], granted |-> g,
                    isTransferred |-> FALSE] : g \in data[p]}
<1> DEFINE rows == {[batch |-> batches + 1, charge |-> charge[p], granted |-> g,
                     isTransferred |-> FALSE] : g \in data[p]}
<1>1. commissions' = commissions \union rows /\ batches' = batches + 1
  BY DEF PerformTransaction
<1>2. /\ batches \in Nat /\ data[p] \subseteq Grant /\ charge[p] \in Charges
      /\ commissions \subseteq Commission
  BY DEF Inv, Types, TypeOK
<1>3. batches + 1 \in Nat \ {0}
  BY <1>2
<1>4. rows \subseteq Commission /\ \A r \in rows : r.batch = batches + 1
  <2>1. ASSUME NEW g \in data[p]
        PROVE  [batch |-> batches + 1, charge |-> charge[p], granted |-> g,
                isTransferred |-> FALSE] \in Commission
    <3>1. PICK n \in Nat \ {0} : n = batches + 1
      BY <1>3
    <3>2. g \in Grant /\ FALSE \in BOOLEAN
      BY <1>2
    <3>3. QED
      BY <1>2, <3>1, <3>2, Zenon DEF Commission
  <2>2. QED
    BY <2>1
<1> HIDE DEF rows
<1>5. \A r \in commissions : r.batch \in Nat /\ r.batch <= batches
  BY <1>2 DEF Inv, BatchesOK, Commission
<1>6. BatchesOK'
  BY <1>1, <1>2, <1>4, <1>5 DEF BatchesOK
<1>7. New = rows
  <2>1. \A r \in rows : r.batch > batches
    BY <1>2, <1>4
  <2>2. \A r \in commissions : ~(r.batch > batches)
    BY <1>2, <1>5
  <2>3. QED
    BY <1>1, <2>1, <2>2 DEF New
<1>8. QED
  BY <1>1, <1>2, <1>4, <1>6, <1>7 DEF rows

LEMMA PerformTransactionInv ==
  ASSUME Inv, NEW p \in Requests, PerformTransaction(p)
  PROVE  Inv'
<1>1. /\ tiers' = tiers /\ active' = active /\ changes' = changes /\ Release(p)
      /\ batches' = batches + 1 /\ confirmed' = confirmed \union {charge[p]}
  BY DEF PerformTransaction
<1>2. batches' \in Nat /\ confirmed' \subseteq Charges /\ changes' \in Nat
  BY <1>1 DEF Inv, Types, TypeOK
<1>3. QED
  BY <1>1, <1>2, BatchRows, ReleaseInv

LEMMA FindTierInv ==
  ASSUME Inv, NEW p \in Requests, NEW t \in Tiers, NEW r \in Rates \union {NoRate},
         FindTier(p, t, r)
  PROVE  Inv'
<1>1. /\ pc' = [pc EXCEPT ![p] = "write"]
      /\ edit' = [edit EXCEPT ![p] = [tier |-> t, rate |-> r]]
      /\ tiers' = tiers /\ active' = active /\ commissions' = commissions
      /\ batches' = batches /\ confirmed' = confirmed
      /\ charge' = charge /\ rates' = rates /\ data' = data /\ seen' = seen /\ changes' = changes
  BY DEF FindTier, Goto, tables
<1>2. [tier |-> t, rate |-> r] \in [tier : Int, rate : Rates \union {NoRate}]
  BY ConstantsAssumption
<1>3. Types'
  BY <1>1, <1>2 DEF Inv, Types, TypeOK
<1>4. ASSUME NEW q \in Requests PROVE Consistent(q)'
  <2>1. CASE q = p
    <3>1. pc'[p] = "write"
      BY <1>1 DEF Inv, Types, TypeOK
    <3>2. QED
      BY <2>1, <3>1 DEF Consistent, Calculating
  <2>2. CASE q # p
    BY <1>1, <2>2, Undisturbed DEF Inv, Types, TypeOK
  <2>3. QED
    BY <2>1, <2>2
<1>5. QED
  BY <1>1, <1>3, <1>4 DEF Inv, BatchesOK

LEMMA WriteTierInv ==
  ASSUME Inv, NEW p \in Requests, WriteTier(p)
  PROVE  Inv'
<1>1. CASE tiers[edit[p].tier] = NoRate
  <2>1. Release(p) /\ UNCHANGED <<tables, changes>>
    BY <1>1 DEF WriteTier
  <2>2. QED
    BY <2>1, ReleaseInv DEF tables, Inv, Types, TypeOK, BatchesOK
<1>2. CASE tiers[edit[p].tier] # NoRate
  <2>1. /\ tiers' = [tiers EXCEPT ![edit[p].tier] = edit[p].rate]
        /\ Watch(tiers', active) /\ pc[p] = "write" /\ pc' = [pc EXCEPT ![p] = "idle"]
        /\ edit' = [edit EXCEPT ![p] = NoEdit] /\ changes' = changes + 1
        /\ active' = active /\ commissions' = commissions /\ batches' = batches
        /\ confirmed' = confirmed /\ charge' = charge /\ rates' = rates /\ data' = data
    BY <1>2 DEF WriteTier, Goto
  <2>2. edit[p].tier \in Tiers /\ edit[p].rate \in Rates \union {NoRate}
    BY <2>1 DEF Inv, Types, TypeOK
  <2>3. tiers' \in TierTable /\ active' \subseteq Customers /\ Watch(tiers', active')
    BY <2>1, <2>2 DEF Inv, Types, TypeOK, TierTable
  <2>4. seen' \in [Requests -> Seen]
    BY <2>3, WatchType
  <2>5. NoEdit \in [tier : Int, rate : Rates \union {NoRate}]
    BY DEF NoEdit
  <2>6. Types'
    <3>1. pc' \in [Requests -> Calculating \union {"idle", "write"}] /\ changes' \in Nat
      BY <2>1 DEF Inv, Types, TypeOK
    <3>2. edit' \in [Requests -> [tier : Int, rate : Rates \union {NoRate}]]
      BY <2>1, <2>5 DEF Inv, Types
    <3>3. ASSUME NEW q \in Requests, pc'[q] = "write"
          PROVE  edit'[q].tier \in Tiers /\ edit'[q].rate \in Rates \union {NoRate}
      <4>1. q # p /\ pc[q] = "write"
        BY <2>1, <3>3 DEF Inv, Types, TypeOK
      <4>2. edit'[q] = edit[q]
        BY <2>1, <4>1 DEF Inv, Types
      <4>3. QED
        BY <4>1, <4>2 DEF Inv, Types, TypeOK
    <3>4. TypeOK'
      BY <2>1, <2>3, <3>1, <3>3 DEF Inv, Types, TypeOK
    <3>5. QED
      BY <2>4, <3>2, <3>4 DEF Types
  <2>7. ASSUME NEW q \in Requests PROVE Consistent(q)'
    <3>1. CASE q = p
      <4>1. pc'[p] = "idle"
        BY <2>1 DEF Inv, Types, TypeOK
      <4>2. QED
        BY <3>1, <4>1 DEF Consistent, Calculating
    <3>2. CASE q # p
      <4>1. pc'[q] = pc[q]
        BY <2>1, <3>2 DEF Inv, Types, TypeOK
      <4>2. QED
        BY <2>1, <2>3, <4>1, Watched
    <3>3. QED
      BY <3>1, <3>2
  <2>8. QED
    BY <2>1, <2>6, <2>7 DEF Inv, BatchesOK
<1>3. QED
  BY <1>1, <1>2

\* A change of a tier or a status that no request works on.
LEMMA ChangeInv ==
  ASSUME Inv, tiers' \in TierTable, active' \subseteq Customers, Watch(tiers', active'),
         changes' = changes + 1, UNCHANGED <<commissions, batches, confirmed, pc, locals>>
  PROVE  Inv'
<1>1. /\ commissions' = commissions /\ batches' = batches /\ confirmed' = confirmed
      /\ pc' = pc /\ charge' = charge /\ rates' = rates /\ data' = data /\ edit' = edit
  BY DEF locals
<1>2. seen' \in [Requests -> Seen]
  BY WatchType
<1>3. Types'
  BY <1>1, <1>2 DEF Inv, Types, TypeOK
<1>4. \A q \in Requests : Consistent(q)'
  BY <1>1, Watched
<1>5. QED
  BY <1>1, <1>3, <1>4 DEF Inv, BatchesOK

LEMMA CreateCommissionTierInv ==
  ASSUME Inv, NEW t \in Tiers, NEW r \in Rates, CreateCommissionTier(t, r)
  PROVE  Inv'
<1>1. /\ tiers' \in TierTable /\ active' = active /\ Watch(tiers', active)
      /\ changes' = changes + 1 /\ UNCHANGED <<commissions, batches, confirmed, pc, locals>>
  BY DEF CreateCommissionTier, Inv, Types, TypeOK, TierTable
<1>2. active' \subseteq Customers /\ Watch(tiers', active')
  BY <1>1 DEF Inv, Types, TypeOK
<1>3. QED
  BY <1>1, <1>2, ChangeInv

LEMMA ChangeStatusInv ==
  ASSUME Inv, NEW c \in Customers, ChangeStatus(c)
  PROVE  Inv'
<1>1. /\ active' \subseteq Customers /\ tiers' = tiers /\ Watch(tiers, active')
      /\ changes' = changes + 1 /\ UNCHANGED <<commissions, batches, confirmed, pc, locals>>
  BY DEF ChangeStatus, Inv, Types, TypeOK
<1>2. tiers' \in TierTable /\ Watch(tiers', active')
  BY <1>1 DEF Inv, Types, TypeOK
<1>3. QED
  BY <1>1, <1>2, ChangeInv

LEMMA TransferInv ==
  ASSUME Inv, NEW r \in commissions, UpdateCommissionTransferStatus(r)
  PROVE  Inv' /\ New = {}
<1> DEFINE row == [r EXCEPT !.isTransferred = TRUE]
<1>1. /\ commissions' = (commissions \ {r}) \union {row}
      /\ tiers' = tiers /\ active' = active /\ batches' = batches /\ confirmed' = confirmed
      /\ pc' = pc /\ charge' = charge /\ rates' = rates /\ data' = data /\ edit' = edit
      /\ seen' = seen /\ changes' = changes
  BY DEF UpdateCommissionTransferStatus, locals
<1>2. r \in Commission
  BY DEF Inv, Types, TypeOK
<1>3. row \in Commission /\ row.batch = r.batch
  BY <1>2 DEF Commission
<1> HIDE DEF row
<1>4. Types'
  BY <1>1, <1>3 DEF Inv, Types, TypeOK
<1>5. \A q \in Requests : Consistent(q)'
  BY <1>1, Undisturbed
<1>6. BatchesOK'
  BY <1>1, <1>3 DEF Inv, BatchesOK
<1>7. \A s \in commissions' : s.batch \in Nat /\ s.batch <= batches /\ batches \in Nat
  BY <1>1, <1>4, <1>6 DEF Types, TypeOK, Commission, BatchesOK
<1>8. New = {}
  BY <1>7 DEF New
<1>9. QED
  BY <1>4, <1>5, <1>6, <1>8 DEF Inv

LEMMA StutterInv == ASSUME Inv, UNCHANGED vars PROVE Inv'
<1>1. \A q \in Requests : Consistent(q)'
  BY Undisturbed DEF vars
<1>2. Types' /\ BatchesOK'
  BY DEF vars, Inv, Types, TypeOK, BatchesOK
<1>3. QED
  BY <1>1, <1>2 DEF Inv

LEMMA NextInv == Inv /\ [Next]_vars => Inv'
<1> SUFFICES ASSUME Inv, [Next]_vars PROVE Inv'
  OBVIOUS
<1>1. ASSUME NEW p \in Requests, NEW k \in Charges, GetCharge(p, k) PROVE Inv'
  BY <1>1, GetChargeInv
<1>2. ASSUME NEW p \in Requests, GetAllCommissionRates(p) PROVE Inv'
  BY <1>2, GetAllCommissionRatesInv
<1>3. ASSUME NEW p \in Requests, GetAllReferrers(p) PROVE Inv'
  BY <1>3, GetAllReferrersInv
<1>4. ASSUME NEW p \in Requests, PerformTransaction(p) PROVE Inv'
  BY <1>4, PerformTransactionInv
<1>5. ASSUME NEW p \in Requests, NEW t \in Tiers, NEW r \in Rates \union {NoRate},
             FindTier(p, t, r)
      PROVE  Inv'
  BY <1>5, FindTierInv
<1>6. ASSUME NEW p \in Requests, WriteTier(p) PROVE Inv'
  BY <1>6, WriteTierInv
<1>7. ASSUME NEW p \in Requests, Abandon(p) PROVE Inv'
  BY <1>7, ReleaseInv DEF Abandon, tables, Inv, Types, TypeOK, BatchesOK
<1>8. ASSUME NEW t \in Tiers, NEW r \in Rates, CreateCommissionTier(t, r) PROVE Inv'
  BY <1>8, CreateCommissionTierInv
<1>9. ASSUME NEW r \in commissions, UpdateCommissionTransferStatus(r) PROVE Inv'
  BY <1>9, TransferInv
<1>10. ASSUME NEW c \in Customers, ChangeStatus(c) PROVE Inv'
  BY <1>10, ChangeStatusInv
<1>11. CASE UNCHANGED vars
  BY <1>11, StutterInv
<1>12. QED
  BY <1>1, <1>2, <1>3, <1>4, <1>5, <1>6, <1>7, <1>8, <1>9, <1>10, <1>11 DEF Next

LEMMA Invariance == Spec => []Inv
BY InitInv, NextInv, PTL DEF Spec

-----------------------------------------------------------------------------
(* The properties.                                                          *)

\* Tables and locals keep their types whatever the tiers and customers: no grant has a
\* rate of zero, a tier that is not positive or a negative amount (81-131).
THEOREM TypeCorrect == Spec => []TypeOK
<1>1. Inv => TypeOK
  BY DEF Inv, Types
<1>2. QED
  BY <1>1, Invariance, PTL

\* Only performTransaction adds rows.
LEMMA OnlyBatchesAreNew ==
  ASSUME Inv, [Next]_vars, \A p \in Requests : ~PerformTransaction(p)
  PROVE  New = {} /\ batches' = batches
<1>1. CASE commissions' = commissions /\ batches' = batches
  <2>1. \A r \in commissions : r.batch \in Nat /\ r.batch <= batches /\ batches \in Nat
    BY DEF Inv, Types, TypeOK, Commission, BatchesOK
  <2>2. QED
    BY <1>1, <2>1 DEF New
<1>2. CASE \E r \in commissions : UpdateCommissionTransferStatus(r)
  BY <1>2, TransferInv DEF UpdateCommissionTransferStatus
<1>3. \/ commissions' = commissions /\ batches' = batches
      \/ \E r \in commissions : UpdateCommissionTransferStatus(r)
  BY DEF Next, vars, tables, GetCharge, GetAllCommissionRates, GetAllReferrers, FindTier,
         WriteTier, Abandon, CreateCommissionTier, ChangeStatus
<1>4. QED
  BY <1>1, <1>2, <1>3

\* Every commission goes to a referrer who was ACTIVE during the calculation, at the
\* distance of its tier, with a rate of that tier and the share it makes (81-131).
THEOREM GrantsEarned == Spec => CommissionsEarned
<1> DEFINE Earned(r, p) ==
      LET g == r.granted IN
      /\ pc[p] = "commit" /\ charge[p] = r.charge
      /\ g.customer \in seen[p].ever
      /\ IsReferrer(g.customer, Buyer[r.charge], g.tier)
      /\ g.tier \in Tiers /\ g.rate \in seen[p].rates[g.tier] \ {0}
      /\ g.amount * 10000 <= Amount[r.charge] * g.rate
      /\ Amount[r.charge] * g.rate <= (g.amount + 1) * 10000
<1>1. ASSUME Inv, [Next]_vars, NEW r \in New PROVE \E p \in Requests : Earned(r, p)
  <2>1. PICK p \in Requests : PerformTransaction(p)
    BY <1>1, OnlyBatchesAreNew
  <2>2. PICK g \in data[p] : r = [batch |-> batches + 1, charge |-> charge[p], granted |-> g,
                                  isTransferred |-> FALSE]
    BY <1>1, <2>1, BatchRows
  <2>3. r.charge = charge[p] /\ r.granted = g
    BY <2>2
  <2>4. pc[p] = "commit"
    BY <2>1 DEF PerformTransaction
  <2>5. Justified(p, g) /\ SnapshotOK(p)
    BY <1>1, <2>4 DEF Inv, Consistent, DataOK
  <2>6. g.tier \in Tiers /\ g.rate \in seen[p].rates[g.tier] \ {0}
    BY <2>5 DEF Justified, SnapshotOK
  <2>7. QED
    BY <2>3, <2>4, <2>5, <2>6 DEF Justified, FairShare
<1>2. Inv /\ [Next]_vars => \A r \in New : \E p \in Requests : Earned(r, p)
  BY <1>1
<1>3. QED
  BY <1>2, Invariance, PTL DEF Spec, CommissionsEarned

\* Every batch pays the referrers who were ACTIVE all the time at a distance whose tier
\* kept one positive rate (95-128).
THEOREM EveryReferrerPaid == Spec => NobodyLeftOut
<1> DEFINE Paid(p) ==
      batches' > batches /\ pc'[p] # pc[p] =>
        \A t \in Tiers, c \in seen[p].always, x \in Rates \ {0} :
          seen[p].rates[t] = {x} /\ t > 0 /\ IsReferrer(c, Buyer[charge[p]], t)
          => \E r \in New : r.granted.customer = c /\ r.granted.tier = t /\ r.granted.rate = x
<1>1. ASSUME Inv, [Next]_vars, NEW p \in Requests PROVE Paid(p)
  <2> SUFFICES ASSUME batches' > batches, pc'[p] # pc[p],
                      NEW t \in Tiers, NEW c \in seen[p].always, NEW x \in Rates \ {0},
                      seen[p].rates[t] = {x}, t > 0, IsReferrer(c, Buyer[charge[p]], t)
               PROVE  \E r \in New : r.granted.customer = c /\ r.granted.tier = t
                                     /\ r.granted.rate = x
    OBVIOUS
  <2>1. PICK q \in Requests : PerformTransaction(q)
    <3>1. batches \in Nat /\ batches' # batches
      BY <1>1 DEF Inv, Types, TypeOK
    <3>2. QED
      BY <1>1, <3>1, OnlyBatchesAreNew
  <2>2. q = p
    BY <1>1, <2>1 DEF PerformTransaction, Release, Goto, Inv, Types, TypeOK
  <2>3. pc[p] = "commit"
    BY <2>1, <2>2 DEF PerformTransaction
  <2>4. Complete(p) /\ SnapshotOK(p)
    BY <1>1, <2>3 DEF Inv, Consistent, DataOK
  <2>5. rates[p][t] = x
    BY <2>4 DEF SnapshotOK
  <2>6. PICK g \in data[p] : g.customer = c /\ g.tier = t /\ g.rate = x
    BY <2>4, <2>5 DEF Complete
  <2> DEFINE r == [batch |-> batches + 1, charge |-> charge[p], granted |-> g,
                   isTransferred |-> FALSE]
  <2>7. r \in New /\ r.granted = g
    BY <1>1, <2>1, <2>2, BatchRows
  <2>8. QED
    BY <2>6, <2>7
<1>2. Inv /\ [Next]_vars => \A p \in Requests : Paid(p)
  BY <1>1
<1>3. QED
  BY <1>2, Invariance, PTL DEF Spec, NobodyLeftOut

\* An update that found a tier before it was deleted does not bring it back (236-257).
THEOREM DeletedTiersStay == Spec => DeletedTierStaysDeleted
<1>1. ASSUME Inv, [Next]_vars, NEW t \in Tiers, tiers[t] = NoRate, tiers'[t] # NoRate
      PROVE  UNCHANGED pc
  <2>1. CASE \E u \in Tiers, r \in Rates : CreateCommissionTier(u, r)
    BY <2>1 DEF CreateCommissionTier
  <2>2. ASSUME NEW p \in Requests, WriteTier(p) PROVE FALSE
    BY <1>1, <2>2 DEF WriteTier, tables, Inv, Types, TypeOK, TierTable
  <2>3. tiers' # tiers
    BY <1>1
  <2>4. QED
    BY <1>1, <2>1, <2>2, <2>3
    DEF Next, vars, tables, GetCharge, GetAllCommissionRates, GetAllReferrers,
        PerformTransaction, FindTier, Abandon, UpdateCommissionTransferStatus, ChangeStatus
<1>2. Inv /\ [Next]_vars =>
        \A t \in Tiers : tiers[t] = NoRate /\ tiers'[t] # NoRate => UNCHANGED pc
  BY <1>1
<1>3. QED
  BY <1>2, Invariance, PTL DEF Spec, DeletedTierStaysDeleted

-----------------------------------------------------------------------------
(* Nobody is granted twice from one batch: the line above a buyer has one   *)
(* customer at a level, and a customer at one level.                        *)

LEMMA LeastOf ==
  ASSUME NEW S \in SUBSET Nat, S # {}
  PROVE  \E n \in S : \A k \in S : n <= k
<1>1. PICK n \in S : \A k \in S : ~(<<k, n>> \in OpToRel(<, Nat))
  <2>1. \E n \in S : \A k \in S : ~(<<k, n>> \in OpToRel(<, Nat))
    BY NatLessThanWellFounded, WFMin
  <2>2. QED
    BY <2>1
<1>2. OpToRel(<, Nat) = {ss \in Nat \X Nat : ss[1] < ss[2]}
  BY DEF OpToRel
<1>3. ASSUME NEW k \in S PROVE n <= k
  <2>1. n \in Nat /\ k \in Nat /\ ~(<<k, n>> \in {ss \in Nat \X Nat : ss[1] < ss[2]})
    BY <1>1, <1>2
  <2>2. ~(k < n)
    BY <2>1
  <2>3. QED
    BY <2>1, <2>2
<1>4. QED
  BY <1>3

\* The customers from a buyer upwards, each the referrer of the one before.
Line(line, b, n) ==
  /\ line \in [0..n -> Customers] /\ line[0] = b
  /\ \A i \in 0..(n - 1) : Referrer[line[i]] = line[i + 1]

LEMMA CustomerType ==
  ASSUME NEW c \in Customers PROVE c \in Nat /\ Referrer[c] < c
<1>1. c \in Nat
  BY ConstantsAssumption
<1>2. Referrer[c] < c
  BY ConstantsAssumption
<1>3. QED
  BY <1>1, <1>2

LEMMA LineType ==
  ASSUME NEW b, NEW n \in Nat, NEW line, Line(line, b, n), NEW i \in 0..n
  PROVE  line[i] \in Customers /\ line[i] \in Nat
<1>1. line[i] \in Customers
  BY DEF Line
<1>2. QED
  BY <1>1, CustomerType

\* Two lines of one buyer agree as far as both go.
LEMMA LinesAgree ==
  ASSUME NEW b, NEW n \in Nat, NEW m \in Nat, n <= m,
         NEW line, Line(line, b, n), NEW other, Line(other, b, m)
  PROVE  \A i \in 0..n : line[i] = other[i]
<1> DEFINE S == {i \in 0..n : line[i] # other[i]}
<1> SUFFICES ASSUME S # {} PROVE FALSE
  OBVIOUS
<1>1. S \in SUBSET Nat
  OBVIOUS
<1>2. PICK i \in S : \A k \in S : i <= k
  <2> HIDE DEF S
  <2>1. QED
    BY <1>1, LeastOf
<1>3. i # 0 /\ i \in 0..n /\ line[i] # other[i]
  BY DEF Line
<1>4. i - 1 \in 0..(n - 1) /\ i - 1 \in 0..(m - 1) /\ i - 1 \in 0..n /\ (i - 1) + 1 = i
      /\ ~(i <= i - 1)
  BY <1>3
<1>5. line[i - 1] = other[i - 1]
  BY <1>2, <1>4
<1>6. Referrer[line[i - 1]] = line[i] /\ Referrer[other[i - 1]] = other[i]
  BY <1>4 DEF Line
<1>7. QED
  BY <1>3, <1>5, <1>6

\* customerIds fall along a line, since a customer registers after the referrer.
LEMMA LineFalls ==
  ASSUME NEW b, NEW n \in Nat, NEW line, Line(line, b, n), NEW i \in 0..n
  PROVE  \A j \in 0..n : i < j => line[j] < line[i]
<1> DEFINE S == {j \in 0..n : i < j /\ ~(line[j] < line[i])}
<1> SUFFICES ASSUME S # {} PROVE FALSE
  OBVIOUS
<1>1. S \in SUBSET Nat
  OBVIOUS
<1>2. PICK j \in S : \A k \in S : j <= k
  <2> HIDE DEF S
  <2>1. QED
    BY <1>1, LeastOf
<1>3. j \in 0..n /\ i < j /\ ~(line[j] < line[i])
  OBVIOUS
<1>4. j - 1 \in 0..(n - 1) /\ j - 1 \in 0..n /\ (j - 1) + 1 = j /\ ~(j <= j - 1)
      /\ (j - 1 = i \/ i < j - 1)
  BY <1>3
<1>5. \A k \in 0..n : line[k] \in Customers /\ line[k] \in Nat
  BY LineType
<1>6. line[j] = Referrer[line[j - 1]]
  BY <1>4 DEF Line
<1>7. line[j] < line[j - 1]
  BY <1>4, <1>5, <1>6, CustomerType
<1>8. j - 1 = i \/ line[j - 1] < line[i]
  BY <1>2, <1>4
<1>9. line[j] < line[i]
  <2>1. line[j] \in Nat /\ line[j - 1] \in Nat /\ line[i] \in Nat
    BY <1>3, <1>4, <1>5
  <2>2. QED
    BY <1>7, <1>8, <2>1
<1>10. QED
  BY <1>3, <1>9

LEMMA OneAtALevel ==
  ASSUME NEW b, NEW c, NEW d, NEW n \in Nat, IsReferrer(c, b, n), IsReferrer(d, b, n)
  PROVE  c = d
<1>1. PICK line \in [0..n -> Customers] : Line(line, b, n) /\ line[n] = c
  BY DEF IsReferrer, Line
<1>2. PICK other \in [0..n -> Customers] : Line(other, b, n) /\ other[n] = d
  BY DEF IsReferrer, Line
<1>3. n \in 0..n /\ n <= n
  OBVIOUS
<1>4. line[n] = other[n]
  BY <1>1, <1>2, <1>3, LinesAgree
<1>5. QED
  BY <1>1, <1>2, <1>4

LEMMA NotAboveItself ==
  ASSUME NEW b, NEW c, NEW n \in Nat, NEW m \in Nat, n < m, IsReferrer(c, b, n)
  PROVE  ~IsReferrer(c, b, m)
<1> SUFFICES ASSUME IsReferrer(c, b, m) PROVE FALSE
  OBVIOUS
<1>1. PICK line \in [0..n -> Customers] : Line(line, b, n) /\ line[n] = c
  BY DEF IsReferrer, Line
<1>2. PICK other \in [0..m -> Customers] : Line(other, b, m) /\ other[m] = c
  BY DEF IsReferrer, Line
<1>3. n \in 0..n /\ n \in 0..m /\ m \in 0..m /\ n <= m
  OBVIOUS
<1>4. other[n] = c
  BY <1>1, <1>2, <1>3, LinesAgree
<1>5. other[m] < other[n]
  BY <1>2, <1>3, LineFalls
<1>6. c \in Nat
  BY <1>1, <1>3, LineType
<1>7. QED
  BY <1>2, <1>4, <1>5, <1>6

\* A batch grants a customer once and a tier once.
OneEach(grants) ==
  \A g, h \in grants : g.customer = h.customer \/ g.tier = h.tier => g = h

LEMMA CollectsOneEach ==
  ASSUME NEW k \in Charges, NEW table \in TierTable, NEW lost
  PROVE  OneEach(Collect(k, table, lost))
<1> SUFFICES ASSUME NEW g \in Collect(k, table, lost), NEW h \in Collect(k, table, lost),
                    g.customer = h.customer \/ g.tier = h.tier
             PROVE  g = h
  BY DEF OneEach
<1> DEFINE Granted(r) == [customer |-> r[1], tier |-> r[3], rate |-> RateOf(table, r[3]),
                          amount |-> Share(Amount[k], RateOf(table, r[3]), lost[r])]
<1>1. PICK r \in Earners(k, table) : g = Granted(r)
  BY DEF Collect
<1>2. PICK s \in Earners(k, table) : h = Granted(s)
  BY DEF Collect
<1>3. g.customer = r[1] /\ g.tier = r[3] /\ h.customer = s[1] /\ h.tier = s[3]
  BY <1>1, <1>2
<1>4. /\ r \in Customers \X Customers \X Levels /\ r[2] = Buyer[k]
      /\ IsReferrer(r[1], Buyer[k], r[3]) /\ r[3] \in Levels
      /\ s \in Customers \X Customers \X Levels /\ s[2] = Buyer[k]
      /\ IsReferrer(s[1], Buyer[k], s[3]) /\ s[3] \in Levels
  BY <1>1, <1>2 DEF Earners, Referrals
<1>5. r[3] \in Nat /\ s[3] \in Nat
  BY <1>4, LevelsType
<1>6. r[3] = s[3] => r[1] = s[1]
  BY <1>4, <1>5, OneAtALevel
<1>7. r[1] = s[1] => ~(r[3] < s[3]) /\ ~(s[3] < r[3])
  BY <1>4, <1>5, NotAboveItself
<1>8. r[1] = s[1] /\ r[3] = s[3]
  BY <1>3, <1>5, <1>6, <1>7
<1>9. r = s
  BY <1>4, <1>8
<1>10. QED
  BY <1>1, <1>2, <1>9

\* What is about to be written, and what is written, grants nobody twice.
Distinct == OneGrantEach /\ \A p \in Requests : OneEach(data[p])

LEMMA InitDistinct == Init => Distinct
BY DEF Init, Distinct, OneGrantEach, OneEach

LEMMA PerformTransactionDistinct ==
  ASSUME Inv, Distinct, NEW p \in Requests, PerformTransaction(p)
  PROVE  OneGrantEach'
<1> DEFINE row(g) == [batch |-> batches + 1, charge |-> charge[p], granted |-> g,
                      isTransferred |-> FALSE]
<1>1. commissions' = commissions \union {row(g) : g \in data[p]}
  BY DEF PerformTransaction
<1>2. \A g \in data[p] : row(g).batch = batches + 1 /\ row(g).granted = g
  OBVIOUS
<1>3. \A r \in commissions : r.batch \in Nat /\ r.batch <= batches /\ batches \in Nat
  BY DEF Inv, Types, TypeOK, Commission, BatchesOK
<1> HIDE DEF row
<1> SUFFICES ASSUME NEW r \in commissions', NEW s \in commissions', r.batch = s.batch,
                    \/ r.granted.customer = s.granted.customer
                    \/ r.granted.tier = s.granted.tier
             PROVE  r = s
  BY DEF OneGrantEach
<1>4. CASE r \in commissions /\ s \in commissions
  BY <1>4 DEF Distinct, OneGrantEach
<1>5. CASE (\E g \in data[p] : r = row(g)) /\ \E h \in data[p] : s = row(h)
  <2>1. PICK g \in data[p] : r = row(g)
    BY <1>5
  <2>2. PICK h \in data[p] : s = row(h)
    BY <1>5
  <2>3. g.customer = h.customer \/ g.tier = h.tier
    BY <1>2, <2>1, <2>2
  <2>4. g = h
    BY <2>3 DEF Distinct, OneEach
  <2>5. QED
    BY <2>1, <2>2, <2>4
<1>6. CASE r \in commissions /\ \E h \in data[p] : s = row(h)
  BY <1>2, <1>3, <1>6
<1>7. CASE s \in commissions /\ \E g \in data[p] : r = row(g)
  BY <1>2, <1>3, <1>7
<1>8. QED
  BY <1>1, <1>4, <1>5, <1>6, <1>7

LEMMA TransferDistinct ==
  ASSUME Inv, Distinct, NEW r \in commissions, UpdateCommissionTransferStatus(r)
  PROVE  OneGrantEach'
<1> DEFINE row == [r EXCEPT !.isTransferred = TRUE]
<1>1. commissions' = (commissions \ {r}) \union {row}
  BY DEF UpdateCommissionTransferStatus
<1>2. r \in Commission
  BY DEF Inv, Types, TypeOK
<1>3. row.batch = r.batch /\ row.granted = r.granted
  BY <1>2 DEF Commission
<1> HIDE DEF row
<1>4. QED
  BY <1>1, <1>3 DEF Distinct, OneGrantEach

LEMMA NextDistinct == Inv /\ Distinct /\ [Next]_vars => Distinct'
<1> SUFFICES ASSUME Inv, Distinct, [Next]_vars PROVE Distinct'
  OBVIOUS
<1>1. OneGrantEach'
  <2>1. CASE commissions' = commissions
    BY <2>1 DEF Distinct, OneGrantEach
  <2>2. \/ commissions' = commissions
        \/ \E p \in Requests : PerformTransaction(p)
        \/ \E r \in commissions : UpdateCommissionTransferStatus(r)
    BY DEF Next, vars, tables, GetCharge, GetAllCommissionRates, GetAllReferrers, FindTier,
           WriteTier, Abandon, CreateCommissionTier, ChangeStatus
  <2>3. QED
    BY <2>1, <2>2, PerformTransactionDistinct, TransferDistinct
<1>2. data \in [Requests -> SUBSET Grant]
  BY DEF Inv, Types, TypeOK
<1>3. ASSUME NEW q \in Requests PROVE OneEach(data'[q])
  <2>1. OneEach(data[q])
    BY DEF Distinct
  <2>2. OneEach({})
    BY DEF OneEach
  <2>3. CASE \E p \in Requests : GetAllReferrers(p)
    <3>1. PICK p \in Requests : GetAllReferrers(p)
      BY <2>3
    <3>2. PICK lost : data' = [data EXCEPT ![p] = Collect(charge[p], rates[p], lost)]
      BY <3>1 DEF GetAllReferrers
    <3>3. OneEach(Collect(charge[p], rates[p], lost))
      BY CollectsOneEach DEF Inv, Types, TypeOK
    <3>4. QED
      BY <1>2, <2>1, <3>2, <3>3
  <2>4. CASE \E p \in Requests : Release(p)
    BY <1>2, <2>1, <2>2, <2>4 DEF Release
  <2>5. CASE data' = data
    BY <2>1, <2>5
  <2>6. \/ data' = data
        \/ \E p \in Requests : GetAllReferrers(p) \/ Release(p)
    BY DEF Next, vars, locals, GetCharge, GetAllCommissionRates, PerformTransaction, FindTier,
           WriteTier, Abandon, CreateCommissionTier, UpdateCommissionTransferStatus, ChangeStatus
  <2>7. QED
    BY <2>3, <2>4, <2>5, <2>6
<1>4. QED
  BY <1>1, <1>3 DEF Distinct

\* A batch pays a customer once and a tier once, wherever the customers stand in the
\* lines above their buyers and whatever tiers have a rate (103-128, 422-435).
THEOREM NobodyGrantedTwice == Spec => []OneGrantEach
<1>1. Distinct => OneGrantEach
  BY DEF Distinct
<1>2. QED
  BY <1>1, InitDistinct, NextDistinct, Invariance, PTL DEF Spec
=============================================================================
