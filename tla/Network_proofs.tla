--------------------------- MODULE Network_proofs ---------------------------
(***************************************************************************)
(* The referral map holds who it should, for every number of customers and *)
(* every depth.  The referrals form a forest, since a code is used by a    *)
(* customer that registers later (Forest).  The query finds each customer  *)
(* at one level only, together with the row of its own referrer            *)
(* (NetworkRowsOK), and all of a level with the iteration of that number   *)
(* (Levels), so the loop meets the row of a referrer before the rows of    *)
(* those it brought and has put exactly the rows behind it into the map    *)
(* (MapOK).  The recursion stops because ids grow along the referrals      *)
(* (Climbing).                                                             *)
(***************************************************************************)
EXTENDS Network, TLAPS

Under(ref, n, r, c, l) ==
  \E path \in [0..l -> Ids] :
    /\ path[0] = r /\ path[l] = c
    /\ \A i \in 1..l : path[i] \in 1..n /\ ref[path[i]] = path[i - 1]

Asked == stage # "none"
Queried == stage \in {"build", "returned"}

Forest ==
  /\ \A c \in Members : referrer[c] < c
  /\ Asked => root \in Members

RootRow == <<root, root, -1>>

RowOK(p, c, l) ==
  /\ p \in Members /\ c \in Members /\ l \in Nat
  /\ referrer[c] = p
  /\ Below(p, l)
  /\ root + l <= p
  /\ l = 0 => p = root
  /\ l # 0 => <<referrer[p], p, l - 1>> \in result

NetworkRowsOK ==
  Asked =>
    /\ RootRow \in result /\ working \subseteq result
    /\ \A row \in result : row = RootRow \/ RowOK(row[1], row[2], row[3])
    /\ \A a, b \in result : a[2] = b[2] => a[3] = b[3]

Complete(found, l) ==
  l <= depth => \A p \in Ids, c \in Members :
                  Below(p, l) /\ referrer[c] = p => <<p, c, l>> \in found

Levels ==
  /\ stage = "query" => /\ \A l \in 0..iteration : Complete(result, l)
                        /\ Complete(working, iteration)
  /\ Queried => \A l \in Nat : Complete(result, l)

Filtered == {row \in result : row[2] \notin pending}
Passed == Filtered \ remaining
Shown == {row \in Passed : row[3] # -1 /\ row[1] \notin pending /\ row[3] <= depth}

MapOK ==
  /\ Queried => /\ remaining \subseteq Filtered
                /\ known = {row[2] : row \in Passed}
                /\ entries = {<<row[1], row[3] + start>> : row \in Shown}
                /\ referees = {<<row[1], row[2]>> : row \in Shown}
  /\ stage = "returned" => remaining = {}

NetworkInv == NetworkTypeOK /\ Forest /\ NetworkRowsOK /\ Levels /\ MapOK

-----------------------------------------------------------------------------

LEMMA BelowIsUnder ==
  ASSUME NEW c, NEW l PROVE Below(c, l) <=> Under(referrer, members, root, c, l)
BY DEF Below, Under, Members

LEMMA BelowIsUnderNext ==
  ASSUME NEW c, NEW l PROVE Below(c, l)' <=> Under(referrer', members', root', c, l)
BY DEF Below, Under, Members

\* Nobody but the customer itself is at distance 0.
LEMMA UnderZero ==
  ASSUME NEW ref, NEW n, NEW r \in Ids, NEW c PROVE Under(ref, n, r, c, 0) <=> c = r
<1>1. ASSUME c = r PROVE Under(ref, n, r, c, 0)
  <2> DEFINE path == [i \in 0..0 |-> r]
  <2>1. path \in [0..0 -> Ids] /\ path[0] = r
    OBVIOUS
  <2>2. 1..0 = {}
    OBVIOUS
  <2> HIDE DEF path
  <2>3. QED
    BY <1>1, <2>1, <2>2 DEF Under
<1>2. QED
  BY <1>1 DEF Under

\* Someone brought by a customer at distance l is at distance l + 1, and only then.
LEMMA UnderStep ==
  ASSUME NEW n \in Ids, NEW ref \in [Ids -> 0..MaxMembers], NEW r \in Ids, NEW l \in Nat,
         NEW p \in Ids, NEW c \in 1..n, ref[c] = p, Under(ref, n, r, p, l)
  PROVE  Under(ref, n, r, c, l + 1)
<1>1. PICK path \in [0..l -> Ids] :
        /\ path[0] = r /\ path[l] = p
        /\ \A i \in 1..l : path[i] \in 1..n /\ ref[path[i]] = path[i - 1]
  BY DEF Under
<1> DEFINE longer == [i \in 0..(l + 1) |-> IF i = l + 1 THEN c ELSE path[i]]
<1>2. c \in Ids
  BY NetworkAssumption DEF Ids
<1>3. longer \in [0..(l + 1) -> Ids]
  BY <1>2
<1>4. longer[0] = r /\ longer[l + 1] = c
  BY <1>1
<1>5. ASSUME NEW i \in 1..(l + 1) PROVE longer[i] \in 1..n /\ ref[longer[i]] = longer[i - 1]
  <2>1. CASE i = l + 1
    <3>1. longer[i] = c /\ longer[i - 1] = path[l]
      BY <2>1
    <3>2. QED
      BY <3>1, <1>1
  <2>2. CASE i # l + 1
    <3>1. i \in 1..l /\ longer[i] = path[i] /\ longer[i - 1] = path[i - 1]
      BY <2>2
    <3>2. QED
      BY <3>1, <1>1
  <2>3. QED
    BY <2>1, <2>2
<1> HIDE DEF longer
<1>6. QED
  BY <1>3, <1>4, <1>5 DEF Under

\* On the way to somebody at distance l there is somebody at every smaller distance.
LEMMA UnderPrefix ==
  ASSUME NEW n, NEW ref, NEW r \in Ids, NEW l \in Nat, NEW c, Under(ref, n, r, c, l),
         NEW k \in Nat, k < l
  PROVE  \E p \in Ids, d \in Ids :
           /\ Under(ref, n, r, p, k) /\ d \in 1..n /\ ref[d] = p
           /\ k + 1 = l => d = c
<1>1. PICK path \in [0..l -> Ids] :
        /\ path[0] = r /\ path[l] = c
        /\ \A i \in 1..l : path[i] \in 1..n /\ ref[path[i]] = path[i - 1]
  BY DEF Under
<1> DEFINE short == [i \in 0..k |-> path[i]]
<1>2. short \in [0..k -> Ids] /\ short[0] = r /\ short[k] = path[k]
  BY <1>1
<1>3. \A i \in 1..k : short[i] \in 1..n /\ ref[short[i]] = short[i - 1]
  BY <1>1
<1> HIDE DEF short
<1>4. Under(ref, n, r, path[k], k)
  BY <1>2, <1>3 DEF Under
<1>5. k + 1 \in 1..l /\ k \in 0..l /\ (k + 1) - 1 = k
  OBVIOUS
<1>6. path[k + 1] \in 1..n /\ ref[path[k + 1]] = path[k]
  BY <1>1, <1>5
<1>7. path[k] \in Ids /\ path[k + 1] \in Ids
  BY <1>5
<1>8. QED
  BY <1>1, <1>4, <1>6, <1>7

LEMMA ExpandedRows ==
  ASSUME NetworkTypeOK, NEW row
  PROVE  row \in Expanded <=>
           \E a \in working, c \in Members :
             a[3] < depth /\ referrer[c] = a[2] /\ row = <<a[2], c, a[3] + 1>>
<1>1. ASSUME row \in Expanded
      PROVE  \E a \in working, c \in Members :
               a[3] < depth /\ referrer[c] = a[2] /\ row = <<a[2], c, a[3] + 1>>
  BY <1>1 DEF Expanded, Joined
<1>2. ASSUME NEW a \in working, NEW c \in Members,
             a[3] < depth, referrer[c] = a[2], row = <<a[2], c, a[3] + 1>>
      PROVE  row \in Expanded
  <2>1. <<a, c>> \in Joined
    BY <1>2 DEF Joined
  <2>2. QED
    BY <1>2, <2>1 DEF Expanded
<1>3. QED
  BY <1>1, <1>2

-----------------------------------------------------------------------------

LEMMA NetworkInitInv == NetworkInit => NetworkInv
<1> SUFFICES ASSUME NetworkInit PROVE NetworkInv
  OBVIOUS
<1>1. NetworkTypeOK /\ Members = {1}
  BY NetworkAssumption DEF NetworkInit, NetworkTypeOK, Ids, Members
<1>2. Forest
  BY <1>1, NetworkAssumption DEF Forest, Asked, NetworkInit, Ids
<1>3. NetworkRowsOK /\ Levels /\ MapOK
  BY DEF NetworkRowsOK, Levels, MapOK, Asked, Queried, NetworkInit
<1>4. QED
  BY <1>1, <1>2, <1>3 DEF NetworkInv

LEMMA ReferInv == ASSUME NetworkInv, NEW p \in Ids, Refer(p) PROVE NetworkInv'
<1>1. members' \in Ids /\ referrer' \in [Ids -> 0..MaxMembers] /\ pending' \subseteq Ids
  BY NetworkAssumption DEF NetworkInv, NetworkTypeOK, Refer, Ids, Members
<1>2. NetworkTypeOK'
  BY <1>1 DEF NetworkInv, NetworkTypeOK, Refer, inputVars, queryVars, loopVars, Row, Ids
<1>3. \A c \in Members' : referrer'[c] < c
  BY <1>1 DEF NetworkInv, NetworkTypeOK, Forest, Refer, Members, Ids
<1>4. stage' = "none"
  BY DEF Refer
<1>5. Forest' /\ NetworkRowsOK' /\ Levels' /\ MapOK'
  BY <1>3, <1>4 DEF Forest, NetworkRowsOK, Levels, MapOK, Asked, Queried
<1>6. QED
  BY <1>2, <1>5 DEF NetworkInv

LEMMA ActivateInv == ASSUME NetworkInv, NEW c \in Ids, Activate(c) PROVE NetworkInv'
<1>1. NetworkTypeOK'
  BY DEF NetworkInv, NetworkTypeOK, Activate, inputVars, queryVars, loopVars, Row
<1>2. stage' = "none" /\ \A q \in Members' : referrer'[q] < q
  BY DEF Activate, NetworkInv, Forest, Members
<1>3. Forest' /\ NetworkRowsOK' /\ Levels' /\ MapOK'
  BY <1>2 DEF Forest, NetworkRowsOK, Levels, MapOK, Asked, Queried
<1>4. QED
  BY <1>1, <1>3 DEF NetworkInv

LEMMA GetReferralMapInv ==
  ASSUME NetworkInv, NEW r \in Ids, NEW s \in StartLevels, NEW level \in ViewLevels,
         GetReferralMap(r, s, level)
  PROVE  NetworkInv'
<1> DEFINE brought == {x \in Members : referrer[x] = r}
           first == {<<r, c, 0>> : c \in brought}
<1>1. /\ stage = "none" /\ stage' = "query" /\ r \in Members /\ root' = r /\ iteration' = 0
      /\ result' = {<<r, r, -1>>} \union first /\ working' = result'
      /\ members' = members /\ referrer' = referrer /\ pending' = pending
      /\ depth' = (IF level = 0 THEN 3 ELSE level)
      /\ start' = s /\ s >= 0
      /\ remaining' = remaining /\ known' = known /\ entries' = entries /\ referees' = referees
  BY DEF GetReferralMap, tableVars, loopVars
<1>2. Members \subseteq Ids /\ Ids \subseteq Nat \ {0} /\ \A c \in Members : referrer[c] < c
  BY NetworkAssumption DEF NetworkInv, NetworkTypeOK, Forest, Members, Ids
<1>3. \A row \in result' : \/ row = <<r, r, -1>>
                           \/ \E c \in brought : row = <<r, c, 0>>
  BY <1>1
<1>4. result' \subseteq Row
  BY <1>2, <1>3 DEF Row
<1>5. depth' \in Int /\ start' \in Nat /\ root' \in 0..MaxMembers
  BY <1>1, NetworkAssumption DEF Ids
<1>6. NetworkTypeOK'
  BY <1>1, <1>4, <1>5 DEF NetworkInv, NetworkTypeOK, Row
<1>7. Forest'
  BY <1>1, <1>2 DEF Forest, Members
<1>8. \A c : Below(c, 0)' <=> c = r
  BY <1>1, BelowIsUnderNext, UnderZero
<1>9. NetworkRowsOK'
  <2>1. ASSUME NEW c \in brought PROVE RowOK(r, c, 0)'
    BY <1>1, <1>2, <1>8 DEF RowOK, Members
  <2>2. \A row \in result' : row = <<r, r, -1>> \/ RowOK(row[1], row[2], row[3])'
    <3>1. ASSUME NEW row \in result', NEW c \in brought, row = <<r, c, 0>>
          PROVE  RowOK(row[1], row[2], row[3])'
      <4>1. row[1] = r /\ row[2] = c /\ row[3] = 0
        BY <3>1
      <4>2. QED
        BY <2>1, <4>1
    <3>2. QED
      BY <1>3, <3>1
  <2>3. \A a, b \in result' : a[2] = b[2] => a[3] = b[3]
    <3>1. \A c \in brought : c # r
      BY <1>2
    <3>2. QED
      BY <1>3, <3>1
  <2>4. RootRow' \in result' /\ RootRow' = <<r, r, -1>>
    BY <1>1 DEF RootRow
  <2>5. QED
    BY <1>1, <2>2, <2>3, <2>4 DEF NetworkRowsOK
<1>10. Levels'
  <2>1. \A c \in Members : referrer[c] = r => <<r, c, 0>> \in result'
    BY <1>1
  <2>2. \A p \in Ids, c \in Members' : Below(p, 0)' /\ referrer'[c] = p => <<p, c, 0>> \in result'
    BY <1>1, <1>8, <2>1 DEF Members
  <2>3. Complete(result, 0)' /\ Complete(working, 0)'
    BY <1>1, <2>2 DEF Complete
  <2>4. \A l \in 0..iteration' : l = 0
    BY <1>1
  <2>5. \A l \in 0..iteration' : Complete(result, l)'
    BY <2>3, <2>4 DEF Complete
  <2>6. Complete(working, iteration)'
    BY <1>1, <2>2 DEF Complete
  <2>7. QED
    BY <1>1, <2>5, <2>6 DEF Levels, Queried
<1>11. MapOK'
  BY <1>1 DEF MapOK, Queried
<1>12. QED
  BY <1>6, <1>7, <1>9, <1>10, <1>11 DEF NetworkInv

LEMMA RecurseInv == ASSUME NetworkInv, Recurse PROVE NetworkInv'
<1>1. /\ stage = "query" /\ stage' = "query" /\ iteration' = iteration + 1
      /\ result' = result \union Expanded /\ working' = Expanded
      /\ members' = members /\ referrer' = referrer /\ pending' = pending
      /\ root' = root /\ start' = start /\ depth' = depth
      /\ remaining' = remaining /\ known' = known /\ entries' = entries /\ referees' = referees
  BY DEF Recurse, tableVars, inputVars, loopVars
<1>2. /\ Members \subseteq Ids /\ Ids \subseteq Nat \ {0} /\ \A c \in Members : referrer[c] < c
      /\ root \in Members /\ members \in Ids /\ referrer \in [Ids -> 0..MaxMembers]
      /\ depth \in Int /\ iteration \in Nat
  BY <1>1, NetworkAssumption DEF NetworkInv, NetworkTypeOK, Forest, Members, Ids, Asked
<1>3. /\ RootRow \in result /\ working \subseteq result
      /\ \A row \in result : row = RootRow \/ RowOK(row[1], row[2], row[3])
      /\ \A a, b \in result : a[2] = b[2] => a[3] = b[3]
  BY <1>1 DEF NetworkInv, NetworkRowsOK, Asked
<1>4. \A c, l : Below(c, l)' <=> Below(c, l)
  BY <1>1, BelowIsUnder, BelowIsUnderNext
<1>5. \A row \in Expanded : \E a \in working, c \in Members :
        a[3] < depth /\ referrer[c] = a[2] /\ row = <<a[2], c, a[3] + 1>>
  BY ExpandedRows DEF NetworkInv
<1>6. \A row \in result : row \in Row
  BY DEF NetworkInv, NetworkTypeOK
<1>7. ASSUME NEW a \in working, NEW c \in Members, a[3] < depth, referrer[c] = a[2]
      PROVE  /\ a[3] + 1 \in Nat /\ a[2] \in Members
             /\ root + (a[3] + 1) <= a[2]
             /\ Below(a[2], a[3] + 1)
             /\ a[3] + 1 = 0 => a[2] = root
             /\ a[3] + 1 # 0 => <<referrer[a[2]], a[2], (a[3] + 1) - 1>> \in result
  <2>1. CASE a = RootRow
    <3>1. a[2] = root /\ a[3] + 1 = 0
      BY <2>1 DEF RootRow
    <3>2. Below(root, 0)
      BY <1>2, BelowIsUnder, UnderZero
    <3>3. QED
      BY <3>1, <3>2, <1>2
  <2>2. CASE a # RootRow
    <3>1. RowOK(a[1], a[2], a[3])
      BY <1>3, <2>2
    <3>2. /\ a[1] \in Members /\ a[2] \in Members /\ a[3] \in Nat /\ referrer[a[2]] = a[1]
          /\ Below(a[1], a[3]) /\ root + a[3] <= a[1]
      BY <3>1 DEF RowOK
    <3>3. Below(a[2], a[3] + 1)
      <4>1. Under(referrer, members, root, a[1], a[3])
        BY <3>2, BelowIsUnder
      <4>2. Under(referrer, members, root, a[2], a[3] + 1)
        BY <4>1, <3>2, <1>2, UnderStep DEF Members
      <4>3. QED
        BY <4>2, BelowIsUnder
    <3>4. a = <<a[1], a[2], a[3]>>
      BY <1>3, <1>6 DEF Row
    <3>5. root + (a[3] + 1) <= a[2]
      <4>1. a[1] < a[2] /\ a[1] \in Nat /\ a[2] \in Nat /\ root \in Nat
        BY <3>2, <1>2
      <4>2. QED
        BY <4>1, <3>2
    <3>6. <<referrer[a[2]], a[2], (a[3] + 1) - 1>> \in result
      <4>1. (a[3] + 1) - 1 = a[3]
        BY <3>2
      <4>2. <<referrer[a[2]], a[2], (a[3] + 1) - 1>> = a
        BY <4>1, <3>2, <3>4
      <4>3. QED
        BY <4>2, <1>3
    <3>7. QED
      BY <3>2, <3>3, <3>5, <3>6
  <2>3. QED
    BY <2>1, <2>2
<1>8. NetworkTypeOK'
  <2>1. Expanded \subseteq Row
    <3>1. ASSUME NEW row \in Expanded PROVE row \in Row
      <4>1. PICK a \in working, c \in Members :
              a[3] < depth /\ referrer[c] = a[2] /\ row = <<a[2], c, a[3] + 1>>
        BY <1>5
      <4>2. a[2] \in Members /\ a[3] + 1 \in Nat
        BY <4>1, <1>7
      <4>3. a[2] \in Ids /\ c \in Ids
        BY <4>2, <1>2
      <4>4. a[3] + 1 \in Int
        BY <4>2
      <4>5. QED
        BY <4>1, <4>3, <4>4 DEF Row
    <3>2. QED
      BY <3>1
  <2>2. result' \subseteq Row' /\ working' \subseteq Row'
    BY <2>1, <1>1 DEF NetworkInv, NetworkTypeOK, Row
  <2>3. QED
    BY <2>2, <1>1, <1>2 DEF NetworkInv, NetworkTypeOK, Row
<1>9. Forest'
  BY <1>1 DEF NetworkInv, Forest, Members, Asked
<1>10. NetworkRowsOK'
  <2>1. \A p, c, l : RowOK(p, c, l) => RowOK(p, c, l)'
    BY <1>1, <1>4 DEF RowOK, Members
  <2>2. ASSUME NEW row \in Expanded PROVE RowOK(row[1], row[2], row[3])'
    <3>1. PICK a \in working, c \in Members :
            a[3] < depth /\ referrer[c] = a[2] /\ row = <<a[2], c, a[3] + 1>>
      BY <1>5
    <3>2. row[1] = a[2] /\ row[2] = c /\ row[3] = a[3] + 1
      BY <3>1
    <3>3. RowOK(a[2], c, a[3] + 1)
      BY <3>1, <1>7 DEF RowOK
    <3>4. QED
      BY <2>1, <3>2, <3>3
  <2>3. ASSUME NEW row \in Expanded, NEW b \in result, row[2] = b[2] PROVE row[3] = b[3]
    <3>1. PICK a \in working, c \in Members :
            a[3] < depth /\ referrer[c] = a[2] /\ row = <<a[2], c, a[3] + 1>>
      BY <1>5
    <3>0. a[3] + 1 \in Nat /\ a[2] \in Members /\ root + (a[3] + 1) <= a[2]
      BY <3>1, <1>7
    <3>a. a[2] \in Nat /\ c \in Nat /\ root \in Nat /\ a[2] < c /\ a[3] \in Int
      <4>1. a[2] \in Nat /\ c \in Nat /\ root \in Nat /\ a[2] < c
        BY <3>0, <3>1, <1>2
      <4>2. a \in Row
        BY <1>3, <1>6
      <4>3. QED
        BY <4>1, <4>2 DEF Row
    <3>2. row[2] = c /\ row[3] = a[3] + 1 /\ a[2] < c /\ root <= a[2]
      BY <3>1, <3>0, <3>a
    <3>b. root < c
      BY <3>2, <3>a
    <3>3. b # RootRow
      BY <3>2, <3>b, <3>a, <2>3 DEF RootRow
    <3>4. RowOK(b[1], b[2], b[3])
      BY <3>3, <1>3
    <3>5. /\ b[1] = a[2] /\ b[3] \in Nat
          /\ b[3] = 0 => a[2] = root
          /\ root + b[3] <= a[2]
          /\ b[3] # 0 => <<referrer[a[2]], a[2], b[3] - 1>> \in result
      BY <3>4, <3>2, <3>1, <2>3 DEF RowOK
    <3>6. CASE b[3] # 0
      <4>1. <<referrer[a[2]], a[2], b[3] - 1>> \in result /\ a \in result
        BY <3>5, <3>6, <1>3
      <4>2. b[3] - 1 = a[3]
        <5>1. PICK e \in result : e = <<referrer[a[2]], a[2], b[3] - 1>>
          BY <4>1
        <5>2. e[2] = a[2] /\ e[3] = b[3] - 1
          BY <5>1
        <5>3. e[3] = a[3]
          BY <5>2, <4>1, <1>3
        <5>4. QED
          BY <5>2, <5>3
      <4>3. QED
        BY <4>2, <3>2, <3>5, <3>a
    <3>7. CASE b[3] = 0
      <4>1. a[2] = root /\ root + (a[3] + 1) <= root
        BY <3>0, <3>5, <3>7
      <4>2. QED
        BY <4>1, <3>0, <3>a, <3>2, <3>7
    <3>8. QED
      BY <3>6, <3>7
  <2>4. ASSUME NEW row \in Expanded, NEW b \in Expanded, row[2] = b[2] PROVE row[3] = b[3]
    <3>1. PICK a \in working, c \in Members :
            a[3] < depth /\ referrer[c] = a[2] /\ row = <<a[2], c, a[3] + 1>>
      BY <1>5
    <3>2. PICK e \in working, d \in Members :
            e[3] < depth /\ referrer[d] = e[2] /\ b = <<e[2], d, e[3] + 1>>
      BY <1>5
    <3>3. a[2] = e[2] /\ a \in result /\ e \in result
      BY <3>1, <3>2, <2>4, <1>3
    <3>4. a[3] = e[3]
      BY <3>3, <1>3
    <3>5. QED
      BY <3>1, <3>2, <3>4
  <2>5. \A row \in result' : row = RootRow' \/ RowOK(row[1], row[2], row[3])'
    BY <1>1, <1>3, <2>1, <2>2 DEF RootRow
  <2>6. \A a, b \in result' : a[2] = b[2] => a[3] = b[3]
    BY <1>1, <1>3, <2>3, <2>4
  <2>7. RootRow' \in result' /\ working' \subseteq result'
    BY <1>1, <1>3 DEF RootRow
  <2>8. QED
    BY <2>5, <2>6, <2>7 DEF NetworkRowsOK
<1>11. Levels'
  <2>1. \A l \in 0..iteration : Complete(result, l)
    BY <1>1 DEF NetworkInv, Levels
  <2>2. Complete(working, iteration)
    BY <1>1 DEF NetworkInv, Levels
  <2>3. ASSUME iteration + 1 <= depth, NEW p \in Ids, NEW c \in Members,
               Below(p, iteration + 1), referrer[c] = p
        PROVE  <<p, c, iteration + 1>> \in Expanded
    <3>1. Under(referrer, members, root, p, iteration + 1)
      BY <2>3, BelowIsUnder
    <3>2. PICK q \in Ids, d \in Ids : /\ Under(referrer, members, root, q, iteration)
                                      /\ d \in 1..members /\ referrer[d] = q /\ d = p
      BY <3>1, <1>2, UnderPrefix
    <3>3. Below(q, iteration) /\ p \in Members /\ referrer[p] = q
      BY <3>2, BelowIsUnder DEF Members
    <3>4. iteration <= depth
      BY <2>3, <1>2
    <3>5. <<q, p, iteration>> \in working
      BY <2>2, <3>3, <3>4 DEF Complete
    <3>6. PICK a \in working : a = <<q, p, iteration>>
      BY <3>5
    <3>7. a[2] = p /\ a[3] = iteration /\ a[3] < depth
      BY <3>6, <2>3, <1>2
    <3>8. QED
      BY <3>7, <2>3, ExpandedRows DEF NetworkInv
  <2>4. Complete(working, iteration)'
    BY <2>3, <1>1, <1>4 DEF Complete, Members
  <2>5. ASSUME NEW l \in 0..(iteration + 1) PROVE Complete(result, l)'
    <3>1. CASE l = iteration + 1
      BY <3>1, <2>3, <1>1, <1>4 DEF Complete, Members
    <3>2. CASE l # iteration + 1
      <4>1. l \in 0..iteration
        BY <3>2, <1>2
      <4>2. Complete(result, l)
        BY <4>1, <2>1
      <4>3. QED
        BY <4>2, <1>1, <1>4 DEF Complete, Members
    <3>3. QED
      BY <3>1, <3>2
  <2>6. \A l \in 0..iteration' : Complete(result, l)'
    BY <2>5, <1>1
  <2>7. QED
    BY <2>4, <2>6, <1>1 DEF Levels, Queried
<1>12. MapOK'
  BY <1>1 DEF MapOK, Queried
<1>13. QED
  BY <1>8, <1>9, <1>10, <1>11, <1>12 DEF NetworkInv

LEMMA EndQueryInv == ASSUME NetworkInv, EndQuery PROVE NetworkInv'
<1>1. /\ stage = "query" /\ stage' = "build" /\ working = {}
      /\ remaining' = Filtered /\ known' = {} /\ entries' = {} /\ referees' = {}
      /\ members' = members /\ referrer' = referrer /\ pending' = pending
      /\ root' = root /\ start' = start /\ depth' = depth
      /\ result' = result /\ working' = working /\ iteration' = iteration
  BY DEF EndQuery, tableVars, inputVars, queryVars, Filtered
<1>2. iteration \in Nat /\ root \in Ids /\ depth \in Int
  BY <1>1, NetworkAssumption DEF NetworkInv, NetworkTypeOK, Forest, Members, Ids, Asked
<1>3. NetworkTypeOK'
  BY <1>1 DEF NetworkInv, NetworkTypeOK, Row, Filtered
<1>4. Forest'
  BY <1>1 DEF NetworkInv, Forest, Members, Asked
<1>5. \A c, l : Below(c, l)' <=> Below(c, l)
  BY <1>1, BelowIsUnder, BelowIsUnderNext
<1>6. NetworkRowsOK'
  <2>1. \A p, c, l : RowOK(p, c, l) => RowOK(p, c, l)'
    BY <1>1, <1>5 DEF RowOK, Members
  <2>2. QED
    BY <2>1, <1>1 DEF NetworkInv, NetworkRowsOK, Asked, RootRow
<1>7. Levels'
  <2>1. ASSUME NEW l \in Nat PROVE Complete(result, l)
    <3>1. CASE l <= iteration
      BY <3>1, <1>1, <1>2 DEF NetworkInv, Levels
    <3>2. CASE ~(l <= iteration)
      <4>1. SUFFICES ASSUME l <= depth, NEW p \in Ids, Below(p, l) PROVE FALSE
        BY DEF Complete
      <4>2. Under(referrer, members, root, p, l)
        BY <4>1, BelowIsUnder
      <4>3. iteration < l /\ iteration <= depth
        BY <3>2, <4>1, <1>2
      <4>4. PICK q \in Ids, d \in Ids : /\ Under(referrer, members, root, q, iteration)
                                        /\ d \in 1..members /\ referrer[d] = q
        BY <4>2, <4>3, <1>2, UnderPrefix
      <4>5. Below(q, iteration) /\ d \in Members
        BY <4>4, BelowIsUnder DEF Members
      <4>6. <<q, d, iteration>> \in working
        BY <4>3, <4>4, <4>5, <1>1 DEF NetworkInv, Levels, Complete
      <4>7. QED
        BY <4>6, <1>1
    <3>3. QED
      BY <3>1, <3>2
  <2>2. \A l \in Nat : Complete(result, l)'
    BY <2>1, <1>1, <1>5 DEF Complete, Members
  <2>3. QED
    BY <2>2, <1>1 DEF Levels
<1>8. MapOK'
  <2>1. Filtered' = Filtered /\ Passed' = {}
    BY <1>1 DEF Filtered, Passed
  <2>2. Shown' = {}
    BY <2>1 DEF Shown
  <2>3. QED
    BY <1>1, <2>1, <2>2 DEF MapOK
<1>9. QED
  BY <1>3, <1>4, <1>6, <1>7, <1>8 DEF NetworkInv

\* Nothing the query has found, and nothing it was asked, is disturbed by the loop.
LEMMA LoopKeeps ==
  ASSUME NetworkInv, Queried, Queried', UNCHANGED <<tableVars, inputVars, queryVars>>
  PROVE  Forest' /\ NetworkRowsOK' /\ Levels' /\ Filtered' = Filtered
<1>1. /\ members' = members /\ referrer' = referrer /\ pending' = pending
      /\ root' = root /\ start' = start /\ depth' = depth
      /\ result' = result /\ working' = working /\ iteration' = iteration
  BY DEF tableVars, inputVars, queryVars
<1>2. \A c, l : Below(c, l)' <=> Below(c, l)
  BY <1>1, BelowIsUnder, BelowIsUnderNext
<1>3. Forest'
  BY <1>1 DEF NetworkInv, Forest, Members, Asked, Queried
<1>4. NetworkRowsOK'
  <2>1. \A p, c, l : RowOK(p, c, l) => RowOK(p, c, l)'
    BY <1>1, <1>2 DEF RowOK, Members
  <2>2. QED
    BY <2>1, <1>1 DEF NetworkInv, NetworkRowsOK, Asked, Queried, RootRow
<1>5. Levels'
  <2>1. \A l \in Nat : Complete(result, l)'
    BY <1>1, <1>2 DEF NetworkInv, Levels, Complete, Members
  <2>2. QED
    BY <2>1 DEF Levels, Queried
<1>6. QED
  BY <1>1, <1>3, <1>4, <1>5 DEF Filtered

\* A referrer is known by the time a row of someone it brought is reached, unless it is
\* PENDING: its own row comes before theirs.
LEMMA KnownInTime ==
  ASSUME NetworkInv, stage = "build", NEW row \in remaining,
         \A other \in remaining \ {row} : Before(row, other), row[3] # -1
  PROVE  row[1] \in known \union {row[2]} <=> row[1] \notin pending
<1>1. /\ row \in Filtered /\ known = {a[2] : a \in Passed} /\ row \in result
      /\ result \subseteq Row
  BY DEF NetworkInv, MapOK, Queried, Filtered, NetworkTypeOK
<1>2. row[1] \in known \union {row[2]} => row[1] \notin pending
  BY <1>1 DEF Passed, Filtered
<1>3. row # RootRow
  BY DEF RootRow
<1>4. RowOK(row[1], row[2], row[3]) /\ RootRow \in result
  BY <1>1, <1>3 DEF NetworkInv, NetworkRowsOK, Asked
<1>5. /\ row[1] \in Nat /\ row[2] \in Nat /\ row[3] \in Nat /\ root \in Nat
      /\ row[1] < row[2] /\ root <= row[1] /\ referrer[row[2]] = row[1]
      /\ row[1] \in Members
      /\ row[3] = 0 => row[1] = root
      /\ row[3] # 0 => <<referrer[row[1]], row[1], row[3] - 1>> \in result
      /\ referrer[row[1]] < row[1] /\ referrer[row[1]] \in Nat
  <2>1. /\ row[1] \in Members /\ row[2] \in Members /\ row[3] \in Nat /\ root \in Members
        /\ referrer[row[2]] = row[1] /\ root + row[3] <= row[1]
        /\ row[3] = 0 => row[1] = root
        /\ row[3] # 0 => <<referrer[row[1]], row[1], row[3] - 1>> \in result
    BY <1>4 DEF RowOK, NetworkInv, Forest, Asked
  <2>2. /\ \A c \in Members : referrer[c] < c /\ referrer[c] \in Nat
        /\ Members \subseteq Nat
    BY NetworkAssumption DEF NetworkInv, Forest, NetworkTypeOK, Members, Ids
  <2>3. row[1] \in Nat /\ row[2] \in Nat /\ root \in Nat
    BY <2>1, <2>2
  <2>4. row[1] < row[2] /\ referrer[row[1]] < row[1] /\ referrer[row[1]] \in Nat
    BY <2>1, <2>2
  <2>5. root <= row[1]
    BY <2>1, <2>3
  <2>6. QED
    BY <2>1, <2>3, <2>4, <2>5
<1>6. \E own \in result : own[2] = row[1] /\ (own[1] < row[1] \/ own[1] = row[1])
  <2>1. CASE row[3] = 0
    BY <2>1, <1>4, <1>5 DEF RootRow
  <2>2. CASE row[3] # 0
    BY <2>2, <1>5
  <2>3. QED
    BY <2>1, <2>2
<1>7. PICK own \in result : own[2] = row[1] /\ (own[1] < row[1] \/ own[1] = row[1])
  BY <1>6
<1>8. own[1] \in Nat /\ own # row
  BY <1>1, <1>5, <1>7, NetworkAssumption DEF Row, Ids
<1>9. ~ Before(row, own)
  BY <1>5, <1>7, <1>8 DEF Before
<1>10. own \notin remaining
  BY <1>8, <1>9
<1>11. row[1] \notin pending => own \in Passed
  BY <1>7, <1>10 DEF Passed, Filtered
<1>12. QED
  BY <1>1, <1>2, <1>7, <1>11

LEMMA BuildRowInv == ASSUME NetworkInv, NEW row \in remaining, BuildRow(row) PROVE NetworkInv'
<1> DEFINE taken == row[3] # -1 /\ row[1] \notin pending /\ row[3] <= depth
<1>1. /\ stage = "build" /\ stage' = "build"
      /\ \A other \in remaining \ {row} : Before(row, other)
      /\ remaining' = remaining \ {row} /\ known' = known \union {row[2]}
      /\ UNCHANGED <<tableVars, inputVars, queryVars>>
      /\ pending' = pending /\ depth' = depth /\ start' = start
  BY DEF BuildRow, tableVars, inputVars
<1>2. /\ remaining \subseteq Filtered /\ known = {a[2] : a \in Passed}
      /\ entries = {<<a[1], a[3] + start>> : a \in Shown}
      /\ referees = {<<a[1], a[2]>> : a \in Shown}
  BY <1>1 DEF NetworkInv, MapOK, Queried
<1>3. row \in result /\ row \in Row /\ start \in Int
  BY <1>2 DEF Filtered, NetworkInv, NetworkTypeOK
<1>4. Forest' /\ NetworkRowsOK' /\ Levels' /\ Filtered' = Filtered
  BY <1>1, LoopKeeps DEF Queried
<1>5. Passed' = Passed \union {row}
  BY <1>1, <1>2, <1>4 DEF Passed
<1>6. Shown' = IF taken THEN Shown \union {row} ELSE Shown
  BY <1>1, <1>5 DEF Shown
<1>7. known' = {a[2] : a \in Passed'}
  BY <1>1, <1>2, <1>5
<1>8. row[3] # -1 /\ row[1] \in known' /\ row[3] <= depth <=> taken
  BY <1>1, KnownInTime
<1>9. \A e \in entries : e[1] = row[1] /\ taken => e = <<row[1], row[3] + start>>
  <2>1. SUFFICES ASSUME NEW e \in entries, e[1] = row[1], taken
                 PROVE  e = <<row[1], row[3] + start>>
    OBVIOUS
  <2>2. PICK a \in Shown : e = <<a[1], a[3] + start>>
    BY <1>2
  <2>3. a \in result /\ a[3] # -1 /\ a[1] = row[1]
    BY <2>1, <2>2 DEF Shown, Passed, Filtered
  <2>4. RowOK(a[1], a[2], a[3]) /\ RowOK(row[1], row[2], row[3])
    BY <2>1, <2>3, <1>1, <1>3 DEF NetworkInv, NetworkRowsOK, Asked, RootRow
  <2>5. a[3] = row[3]
    <3>1. /\ a[3] \in Nat /\ row[3] \in Nat
          /\ a[3] = 0 => row[1] = root
          /\ row[3] = 0 => row[1] = root
          /\ root + a[3] <= row[1] /\ root + row[3] <= row[1]
          /\ a[3] # 0 => <<referrer[row[1]], row[1], a[3] - 1>> \in result
          /\ row[3] # 0 => <<referrer[row[1]], row[1], row[3] - 1>> \in result
          /\ root \in Nat
      BY <2>3, <2>4, <1>1 DEF RowOK, NetworkInv, NetworkTypeOK
    <3>2. CASE row[1] = root
      BY <3>1, <3>2
    <3>3. CASE row[1] # root
      <4>1. PICK x \in result, y \in result : /\ x = <<referrer[row[1]], row[1], a[3] - 1>>
                                              /\ y = <<referrer[row[1]], row[1], row[3] - 1>>
        BY <3>1, <3>3
      <4>2. x[2] = y[2] /\ x[3] = a[3] - 1 /\ y[3] = row[3] - 1
        BY <4>1
      <4>3. x[3] = y[3]
        BY <4>2, <1>1 DEF NetworkInv, NetworkRowsOK, Asked
      <4>4. QED
        BY <4>2, <4>3, <3>1
    <3>4. QED
      BY <3>2, <3>3
  <2>6. QED
    BY <2>2, <2>3, <2>5
<1>10. /\ entries' = IF taken THEN entries \union {<<row[1], row[3] + start>>} ELSE entries
       /\ referees' = IF taken THEN referees \union {<<row[1], row[2]>>} ELSE referees
  <2>1. CASE taken
    <3>1. /\ entries' = IF \E e \in entries : e[1] = row[1] THEN entries
                        ELSE entries \union {<<row[1], row[3] + start>>}
          /\ referees' = referees \union {<<row[1], row[2]>>}
      BY <2>1, <1>8 DEF BuildRow
    <3>2. QED
      BY <2>1, <3>1, <1>9
  <2>2. CASE ~taken
    <3>1. UNCHANGED <<entries, referees>>
      BY <2>2, <1>8 DEF BuildRow
    <3>2. QED
      BY <2>2, <3>1
  <2>3. QED
    BY <2>1, <2>2
<1>11. /\ entries' = {<<a[1], a[3] + start>> : a \in Shown'}
       /\ referees' = {<<a[1], a[2]>> : a \in Shown'}
  <2> HIDE DEF taken
  <2>1. CASE taken
    <3>1. Shown' = Shown \union {row}
      BY <2>1, <1>6
    <3>2. QED
      BY <2>1, <3>1, <1>2, <1>10
  <2>2. CASE ~taken
    BY <2>2, <1>2, <1>6, <1>10
  <2>3. QED
    BY <2>1, <2>2
<1>12. MapOK'
  BY <1>1, <1>2, <1>4, <1>7, <1>11 DEF MapOK
<1>13. NetworkTypeOK'
  <2>1. known' \subseteq Ids /\ entries' \subseteq Ids \X Int /\ referees' \subseteq Ids \X Ids
    BY <1>1, <1>3, <1>10 DEF NetworkInv, NetworkTypeOK, Row
  <2>2. QED
    BY <2>1, <1>1 DEF NetworkInv, NetworkTypeOK, Row, tableVars, inputVars, queryVars
<1>14. QED
  BY <1>4, <1>12, <1>13 DEF NetworkInv

LEMMA ReturnMapInv == ASSUME NetworkInv, ReturnMap PROVE NetworkInv'
<1>1. /\ stage = "build" /\ stage' = "returned" /\ remaining = {}
      /\ UNCHANGED <<tableVars, inputVars, queryVars, loopVars>>
  BY DEF ReturnMap
<1>2. Forest' /\ NetworkRowsOK' /\ Levels' /\ Filtered' = Filtered
  BY <1>1, LoopKeeps DEF Queried
<1>3. Passed' = Passed /\ Shown' = Shown
  BY <1>1, <1>2 DEF Passed, Shown, loopVars, tableVars, inputVars
<1>4. MapOK'
  BY <1>1, <1>2, <1>3 DEF NetworkInv, MapOK, Queried, loopVars, inputVars
<1>5. NetworkTypeOK'
  BY <1>1 DEF NetworkInv, NetworkTypeOK, Row, tableVars, inputVars, queryVars, loopVars
<1>6. QED
  BY <1>2, <1>4, <1>5 DEF NetworkInv

LEMMA NetworkNextInv == NetworkInv /\ [NetworkNext]_networkVars => NetworkInv'
<1> SUFFICES ASSUME NetworkInv, [NetworkNext]_networkVars PROVE NetworkInv'
  OBVIOUS
<1>1. ASSUME NEW p \in Ids, Refer(p) PROVE NetworkInv'
  BY <1>1, ReferInv
<1>2. ASSUME NEW c \in Ids, Activate(c) PROVE NetworkInv'
  BY <1>2, ActivateInv
<1>3. ASSUME NEW r \in Ids, NEW s \in StartLevels, NEW level \in ViewLevels,
             GetReferralMap(r, s, level)
      PROVE  NetworkInv'
  BY <1>3, GetReferralMapInv
<1>4. CASE Recurse
  BY <1>4, RecurseInv
<1>5. CASE EndQuery
  BY <1>5, EndQueryInv
<1>6. ASSUME NEW row \in remaining, BuildRow(row) PROVE NetworkInv'
  BY <1>6, BuildRowInv
<1>7. CASE ReturnMap
  BY <1>7, ReturnMapInv
<1>8. CASE UNCHANGED networkVars
  <2>1. /\ UNCHANGED tableVars /\ stage' = stage /\ UNCHANGED inputVars
        /\ UNCHANGED queryVars /\ UNCHANGED loopVars
    BY <1>8 DEF networkVars
  <2>2. /\ members' = members /\ referrer' = referrer /\ pending' = pending
        /\ root' = root /\ start' = start /\ depth' = depth
        /\ result' = result /\ working' = working /\ iteration' = iteration
        /\ remaining' = remaining /\ known' = known /\ entries' = entries /\ referees' = referees
    BY <2>1 DEF tableVars, inputVars, queryVars, loopVars
  <2>3. NetworkTypeOK' /\ Forest'
    BY <2>1, <2>2 DEF NetworkInv, NetworkTypeOK, Row, Forest, Members, Asked
  <2>4. \A c, l : Below(c, l)' <=> Below(c, l)
    BY <2>2, BelowIsUnder, BelowIsUnderNext
  <2>5. NetworkRowsOK'
    <3>1. \A p, c, l : RowOK(p, c, l) => RowOK(p, c, l)'
      BY <2>2, <2>4 DEF RowOK, Members
    <3>2. QED
      BY <3>1, <2>1, <2>2 DEF NetworkInv, NetworkRowsOK, Asked, RootRow
  <2>6. Levels'
    <3>1. \A l : /\ Complete(result, l) => Complete(result, l)'
                 /\ Complete(working, l) => Complete(working, l)'
      BY <2>2, <2>4 DEF Complete, Members
    <3>2. Complete(working, iteration) => Complete(working, iteration)'
      BY <2>2, <2>4 DEF Complete, Members
    <3>3. QED
      BY <3>1, <3>2, <2>1, <2>2 DEF NetworkInv, Levels, Queried
  <2>7. Passed' = Passed /\ Shown' = Shown /\ Filtered' = Filtered
    BY <2>2 DEF Passed, Shown, Filtered
  <2>8. MapOK'
    BY <2>1, <2>2, <2>7 DEF NetworkInv, MapOK, Queried
  <2>9. QED
    BY <2>3, <2>5, <2>6, <2>8 DEF NetworkInv
<1>9. QED
  BY <1>1, <1>2, <1>3, <1>4, <1>5, <1>6, <1>7, <1>8 DEF NetworkNext

\* The rows the loop has put into the map are those of the referrers that belong there.
LEMMA ShownIsCorrect == ASSUME NetworkInv PROVE ReferralMapCorrect
<1> SUFFICES ASSUME stage = "returned" PROVE
      /\ entries = {<<x[1], x[2] + start>> : x \in
                      {y \in Members \X Depths : HasEntry(y[1], y[2])}}
      /\ referees = {x \in Members \X Members :
                       x[2] \in Brought(x[1]) /\ \E l \in Depths : HasEntry(x[1], l)}
  BY DEF ReferralMapCorrect
<1>1. /\ Passed = Filtered
      /\ entries = {<<row[1], row[3] + start>> : row \in Shown}
      /\ referees = {<<row[1], row[2]>> : row \in Shown}
  BY DEF NetworkInv, MapOK, Queried, Passed
<1>2. /\ MaxMembers \in Nat /\ members \in Ids /\ root \in Ids
      /\ Members \subseteq Ids /\ Ids \subseteq Nat \ {0} /\ \A p \in Ids : p <= MaxMembers
  BY NetworkAssumption DEF NetworkInv, NetworkTypeOK, Forest, Members, Asked, Ids
<1>3. ASSUME NEW row \in Shown
      PROVE  /\ row[1] \in Members /\ row[3] \in Depths /\ HasEntry(row[1], row[3])
             /\ row[2] \in Members /\ row[2] \in Brought(row[1])
  <2>1. /\ row \in result /\ row[2] \notin pending /\ row[3] # -1
        /\ row[1] \notin pending /\ row[3] <= depth
    BY <1>1 DEF Shown, Filtered
  <2>2. RowOK(row[1], row[2], row[3])
    BY <2>1 DEF NetworkInv, NetworkRowsOK, Asked, RootRow
  <2>3. /\ row[1] \in Members /\ row[2] \in Members /\ row[3] \in Nat
        /\ referrer[row[2]] = row[1] /\ Below(row[1], row[3]) /\ root + row[3] <= row[1]
    BY <2>2 DEF RowOK
  <2>4. row[2] \in Brought(row[1])
    BY <2>1, <2>3 DEF Brought
  <2>5. row[1] \in Nat /\ row[1] <= MaxMembers /\ root \in Nat
    BY <2>3, <1>2
  <2>6. row[3] <= MaxMembers
    BY <2>3, <2>5, <1>2
  <2>7. row[3] \in Depths
    BY <2>3, <2>6, <1>2 DEF Depths
  <2>8. QED
    BY <2>1, <2>3, <2>4, <2>7 DEF HasEntry
<1>4. ASSUME NEW p \in Members, NEW l \in Depths, HasEntry(p, l), NEW c \in Brought(p)
      PROVE  <<p, c, l>> \in Shown
  <2>1. /\ l \in Nat /\ l <= depth /\ Below(p, l) /\ p \notin pending
        /\ c \in Members /\ c \notin pending /\ referrer[c] = p /\ p \in Ids
    BY <1>2, <1>4 DEF HasEntry, Brought, Depths
  <2>2. <<p, c, l>> \in result
    BY <2>1 DEF NetworkInv, Levels, Queried, Complete
  <2>3. <<p, c, l>> \in Passed
    BY <2>1, <2>2, <1>1 DEF Filtered
  <2>4. l # -1
    BY <2>1
  <2>5. QED
    BY <2>1, <2>3, <2>4 DEF Shown
<1>5. entries = {<<x[1], x[2] + start>> : x \in
                  {y \in Members \X Depths : HasEntry(y[1], y[2])}}
  <2> DEFINE due == {y \in Members \X Depths : HasEntry(y[1], y[2])}
  <2>1. ASSUME NEW row \in Shown PROVE \E x \in due : x[1] = row[1] /\ x[2] = row[3]
    <3>1. <<row[1], row[3]>> \in due
      BY <1>3
    <3>2. QED
      BY <3>1
  <2>2. ASSUME NEW x \in due PROVE \E row \in Shown : row[1] = x[1] /\ row[3] = x[2]
    <3>1. PICK c : c \in Brought(x[1])
      BY DEF HasEntry
    <3>2. <<x[1], c, x[2]>> \in Shown
      BY <3>1, <1>4
    <3>3. QED
      BY <3>2
  <2> HIDE DEF due
  <2>3. ASSUME NEW e \in entries PROVE e \in {<<x[1], x[2] + start>> : x \in due}
    <3>1. PICK row \in Shown : e = <<row[1], row[3] + start>>
      BY <1>1
    <3>2. PICK x \in due : x[1] = row[1] /\ x[2] = row[3]
      BY <2>1
    <3>3. e = <<x[1], x[2] + start>>
      BY <3>1, <3>2
    <3>4. QED
      BY <3>3
  <2>4. ASSUME NEW x \in due PROVE <<x[1], x[2] + start>> \in entries
    <3>1. PICK row \in Shown : row[1] = x[1] /\ row[3] = x[2]
      BY <2>2
    <3>2. <<x[1], x[2] + start>> = <<row[1], row[3] + start>>
      BY <3>1
    <3>3. QED
      BY <3>2, <1>1
  <2>5. entries = {<<x[1], x[2] + start>> : x \in due}
    BY <2>3, <2>4
  <2>6. QED
    BY <2>5 DEF due
<1>6. referees = {x \in Members \X Members :
                   x[2] \in Brought(x[1]) /\ \E l \in Depths : HasEntry(x[1], l)}
  <2>1. ASSUME NEW x \in referees
        PROVE  /\ x \in Members \X Members /\ x[2] \in Brought(x[1])
               /\ \E l \in Depths : HasEntry(x[1], l)
    <3>1. PICK row \in Shown : x = <<row[1], row[2]>>
      BY <1>1
    <3>2. QED
      BY <3>1, <1>3
  <2>2. ASSUME NEW x \in Members \X Members, x[2] \in Brought(x[1]),
               NEW l \in Depths, HasEntry(x[1], l)
        PROVE  x \in referees
    <3>1. PICK row \in Shown : row = <<x[1], x[2], l>>
      BY <2>2, <1>4
    <3>2. x = <<row[1], row[2]>>
      BY <3>1
    <3>3. QED
      BY <3>2, <1>1
  <2>3. QED
    BY <2>1, <2>2
<1>7. QED
  BY <1>5, <1>6

LEMMA NetworkInvHolds == NetworkSpec => []NetworkInv
BY NetworkInitInv, NetworkNextInv, PTL DEF NetworkSpec

\* Every variable of the customers' table, the query and the loop keeps its shape,
\* in every reachable state.
THEOREM NetworkTypeCorrect == NetworkSpec => []NetworkTypeOK
<1>1. NetworkInv => NetworkTypeOK
  BY DEF NetworkInv
<1>2. QED
  BY <1>1, NetworkInvHolds, PTL

\* getReferralMap returns the referrers within the depth, each at its distance and with
\* exactly the referees it has brought, for every tree of referrals and every depth.
THEOREM MapReturned == NetworkSpec => []ReferralMapCorrect
<1>1. NetworkInv => ReferralMapCorrect
  BY ShownIsCorrect
<1>2. QED
  BY <1>1, NetworkInvHolds, PTL

-----------------------------------------------------------------------------
(* The recursion of the query: UNION ALL keeps a row it has already found,  *)
(* so a circle of referrals would feed it for ever.                         *)

QueryEnds == iteration <= members

\* The referees of an iteration have ids that grow with its number.
Climbing ==
  /\ stage = "none" => iteration = 0
  /\ stage = "query" => \A row \in working : iteration < row[2]

Bounded == QueryEnds /\ Climbing

LEMMA GetReferralMapBounded ==
  ASSUME NetworkInv, Bounded, NEW r \in Ids, NEW s \in StartLevels, NEW level \in ViewLevels,
         GetReferralMap(r, s, level)
  PROVE  Bounded'
<1>1. /\ members' = members /\ iteration' = 0 /\ stage' = "query"
      /\ working' = {<<r, r, -1>>} \union {<<r, c, 0>> : c \in {x \in Members : referrer[x] = r}}
  BY DEF GetReferralMap, tableVars
<1>2. members \in Nat /\ r \in Nat \ {0} /\ Members \subseteq Nat \ {0}
  BY NetworkAssumption DEF NetworkInv, NetworkTypeOK, Ids, Members
<1>3. \A row \in working' : row[2] \in Nat \ {0}
  BY <1>1, <1>2
<1>4. QED
  BY <1>1, <1>2, <1>3 DEF Bounded, QueryEnds, Climbing

LEMMA RecurseBounded == ASSUME NetworkInv, Bounded, Recurse PROVE Bounded'
<1>1. /\ stage = "query" /\ stage' = stage /\ members' = members
      /\ working # {} /\ working' = Expanded /\ iteration' = iteration + 1
  BY DEF Recurse, tableVars
<1>2. iteration \in Nat /\ members \in Nat /\ working \subseteq Row
  BY NetworkAssumption DEF NetworkInv, NetworkTypeOK, Ids
<1>3. \A row \in working : row[2] \in Nat /\ row[2] <= members /\ iteration < row[2]
  <2>1. \A row \in working : row[2] \in Members
    <3> TAKE row \in working
    <3>1. Asked
      BY <1>1 DEF Asked
    <3>2. row \in result /\ root \in Members
      BY <3>1 DEF NetworkInv, NetworkRowsOK, Forest
    <3>3. row = RootRow \/ RowOK(row[1], row[2], row[3])
      BY <3>1, <3>2 DEF NetworkInv, NetworkRowsOK
    <3>4. row = RootRow => row[2] = root
      BY DEF RootRow
    <3>5. QED
      BY <3>2, <3>3, <3>4 DEF RowOK
  <2>2. QED
    BY <1>1, <1>2, <2>1 DEF Bounded, Climbing, Members
<1>4. QueryEnds'
  <2>1. PICK row \in working : TRUE
    BY <1>1
  <2>2. QED
    BY <1>1, <1>2, <1>3, <2>1 DEF QueryEnds
<1>5. ASSUME NEW new \in Expanded PROVE iteration + 1 < new[2]
  <2>1. PICK x \in Joined : new = <<x[1][2], x[2], x[1][3] + 1>>
    BY DEF Expanded
  <2>2. x[1] \in working /\ x[2] \in Members /\ referrer[x[2]] = x[1][2]
    BY <2>1 DEF Joined
  <2>3. x[1][2] < x[2] /\ x[2] \in Nat
    BY <1>2, <2>2 DEF NetworkInv, Forest, Members
  <2>4. iteration < x[1][2] /\ x[1][2] \in Nat
    BY <1>3, <2>2
  <2>5. new[2] = x[2]
    BY <2>1
  <2>6. QED
    BY <1>2, <2>3, <2>4, <2>5
<1>6. QED
  BY <1>1, <1>4, <1>5 DEF Bounded, Climbing

LEMMA BoundedNext == NetworkInv /\ Bounded /\ [NetworkNext]_networkVars => Bounded'
<1> SUFFICES ASSUME NetworkInv, Bounded, [NetworkNext]_networkVars PROVE Bounded'
  OBVIOUS
<1>1. ASSUME NEW p \in Ids, Refer(p) PROVE Bounded'
  <2>1. /\ stage = "none" /\ stage' = stage /\ members' = members + 1
        /\ iteration' = iteration
    BY <1>1 DEF Refer, queryVars
  <2>2. members \in Nat
    BY NetworkAssumption DEF NetworkInv, NetworkTypeOK, Ids
  <2>3. QED
    BY <2>1, <2>2 DEF Bounded, QueryEnds, Climbing
<1>2. ASSUME NEW r \in Ids, NEW s \in StartLevels, NEW level \in ViewLevels,
             GetReferralMap(r, s, level)
      PROVE  Bounded'
  BY <1>2, GetReferralMapBounded
<1>3. CASE Recurse
  BY <1>3, RecurseBounded
<1>4. CASE UNCHANGED <<stage, members, iteration, working>>
  BY <1>4 DEF Bounded, QueryEnds, Climbing
<1>5. ASSUME UNCHANGED <<members, iteration>>, stage' \in {"build", "returned"} PROVE Bounded'
  BY <1>5 DEF Bounded, QueryEnds, Climbing
<1>6. (\E c \in Ids : Activate(c)) \/ UNCHANGED networkVars
      => UNCHANGED <<stage, members, iteration, working>>
  BY DEF Activate, networkVars, tableVars, queryVars
<1>7. EndQuery \/ ReturnMap => UNCHANGED <<members, iteration>> /\ stage' \in {"build", "returned"}
  BY DEF EndQuery, ReturnMap, tableVars, queryVars
<1>8. (\E row \in remaining : BuildRow(row)) => UNCHANGED <<stage, members, iteration, working>>
  BY DEF BuildRow, tableVars, queryVars
<1>9. QED
  BY <1>1, <1>2, <1>3, <1>4, <1>5, <1>6, <1>7, <1>8 DEF NetworkNext

\* getReferralMap: whatever depth an admin or a caller asks for, the recursion of the
\* query stops after as many iterations as there are customers at most.
THEOREM RecursionStops == NetworkSpec => []QueryEnds
<1>1. NetworkInit => Bounded
  BY DEF NetworkInit, Bounded, QueryEnds, Climbing
<1>2. Bounded => QueryEnds
  BY DEF Bounded
<1>3. QED
  BY <1>1, <1>2, BoundedNext, NetworkInvHolds, PTL DEF NetworkSpec
=============================================================================
