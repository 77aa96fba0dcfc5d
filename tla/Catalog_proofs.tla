---------------------------- MODULE Catalog_proofs ----------------------------
(***************************************************************************)
(* Theorems about Catalog for any tables, requests, packages and values.   *)
(* What a request has read stays good enough for what it writes: a row it  *)
(* has found is still there, and a status it has read still stands unless  *)
(* another request has crossed it.                                         *)
(***************************************************************************)
EXTENDS Catalog, SequenceTheorems, TLAPS

\* A row that was found is still there, and a table without rows has its defaults.
CatalogRowsOK ==
  /\ \A e \in Editors : editor[e].step = "save" =>
       /\ editor[e].column \in Columns(editor[e].table)
       /\ editor[e].found <= Len(table[editor[e].table])
  /\ \A x \in Cells : table[x[1]] = <<>> => told[x] = 0

\* A status that was read still stands, and what is wanted is what the package has.
StatusOK ==
  \A p \in Packages :
    /\ p \notin crossed /\ package[p] # NoPackage => package[p].isActive = wanted[p]
    /\ \A e \in TogglesOf(p) : /\ package[p] # NoPackage
                               /\ p \notin crossed => editor[e].isActive = package[p].isActive

TermsOK ==
  \A b \in Buyers :
    /\ buyer[b].step \in {"record", "sold"} => buyer[b].charged = buyer[b].terms.amount
    /\ buyer[b].step = "sold" => buyer[b].recorded = buyer[b].terms

TableOK == CatalogRowsOK /\ OneRowTold
CatalogInv == CatalogTypeOK /\ TableOK /\ StatusOK /\ TermsOK

RowOf(t) == [Columns(t) -> Values \union {0}]

\* What a first call finds: a row of the table, or 0 where there is none.
LEMMA Found ==
  ASSUME NEW t \in Tables, table[t] \in Seq(RowOf(t)), NEW n \in Findable(t)
  PROVE  n \in Nat /\ n <= Len(table[t]) /\ (n = 0 <=> table[t] = <<>>)
<1>1. DOMAIN table[t] = 1..Len(table[t]) /\ Len(table[t]) \in Nat
  OBVIOUS
<1>2. table[t] = <<>> <=> Len(table[t]) = 0
  BY EmptySeq
<1>3. CASE table[t] = <<>>
  BY <1>2, <1>3 DEF Findable
<1>4. CASE table[t] # <<>>
  <2>1. n \in {Len(table[t])} \/ n \in DOMAIN table[t]
    BY <1>4, Zenon DEF Findable
  <2>2. QED
    BY <1>1, <1>2, <1>4, <2>1
<1>5. QED
  BY <1>3, <1>4

LEMMA CatalogInitInv == CatalogInit => CatalogInv
<1> SUFFICES ASSUME CatalogInit PROVE CatalogInv
  OBVIOUS
<1>1. CatalogTypeOK
  BY CatalogAssumption DEF CatalogInit, CatalogTypeOK, Cells, Free
<1>2. TableOK
  <2>1. \A t \in Tables : table[t] = <<>>
    BY DEF CatalogInit
  <2>2. \A x \in Cells : x[1] \in Tables /\ Len(table[x[1]]) = 0 /\ told[x] = 0
    BY <2>1 DEF CatalogInit, Cells
  <2>3. \A x \in Cells : \A n \in Findable(x[1]) : n = 0
    BY <2>1, <2>2, Zenon DEF Findable
  <2>4. CatalogRowsOK
    BY <2>1, <2>2 DEF CatalogInit, CatalogRowsOK, Free
  <2>5. QED
    BY <2>2, <2>3, <2>4 DEF TableOK, OneRowTold
<1>3. StatusOK
  BY DEF CatalogInit, StatusOK, TogglesOf, Free
<1>4. TermsOK
  BY DEF CatalogInit, TermsOK, Free
<1>5. QED
  BY <1>1, <1>2, <1>3, <1>4 DEF CatalogInv

-----------------------------------------------------------------------------
(* Steps of editors. *)

\* A table and its history depend on nothing else.
LEMMA TableKept ==
  ASSUME CatalogInv, UNCHANGED <<table, toldVars>>,
         \A e \in Editors : editor'[e].step = "save" => editor'[e] = editor[e]
  PROVE  TableOK'
BY DEF CatalogInv, TableOK, CatalogRowsOK, OneRowTold, Findable, toldVars

LEMMA BuyersKept == ASSUME CatalogInv, UNCHANGED buyer PROVE TermsOK'
BY DEF CatalogInv, TermsOK

LEMMA FindRowInv ==
  ASSUME CatalogInv, NEW e \in Editors, NEW t \in Tables, NEW f \in Columns(t), NEW v \in Values,
         FindRow(e, t, f, v)
  PROVE  CatalogInv'
<1>1. <<t, f>> \in Cells
  BY DEF Cells, Columns
<1>2. PICK n \in Findable(t) : editor' = [editor EXCEPT ![e] =
         [step |-> "save", table |-> t, column |-> f, value |-> v, found |-> n]]
  BY DEF FindRow
<1>3. /\ UNCHANGED <<shopVars, buyer, toldVars, activeVars>> /\ editor[e] = Free
      /\ changes' \in 0..MaxChanges
  BY CatalogAssumption DEF FindRow, Change, CatalogInv, CatalogTypeOK
<1>4. n \in Nat /\ n <= Len(table[t])
  BY Found DEF CatalogInv, CatalogTypeOK, RowOf
<1> DEFINE j == [step |-> "save", table |-> t, column |-> f, value |-> v, found |-> n]
<1>5. /\ j \in Saving /\ editor' = [editor EXCEPT ![e] = j]
      /\ j.step = "save" /\ j.table = t /\ j.column = f /\ j.found = n
  BY <1>2, <1>1, <1>4 DEF Saving, Cells
<1> HIDE DEF j
<1>6. /\ editor'[e] = j /\ \A q \in Editors : q # e => editor'[q] = editor[q]
      /\ editor' \in [Editors -> Saving \union Toggling \union {Free}]
  BY <1>5 DEF CatalogInv, CatalogTypeOK
<1>7. CatalogTypeOK'
  BY <1>3, <1>6 DEF CatalogInv, CatalogTypeOK, shopVars, toldVars, activeVars
<1>8. TableOK'
  BY <1>1, <1>3, <1>4, <1>5, <1>6 DEF CatalogInv, TableOK, CatalogRowsOK, OneRowTold,
          Findable, shopVars, toldVars
<1>9. StatusOK'
  BY <1>3, <1>5, <1>6 DEF CatalogInv, StatusOK, TogglesOf, shopVars, activeVars
<1>10. QED
  BY <1>3, <1>7, <1>8, <1>9, BuyersKept DEF CatalogInv

\* An editor that is done leaves every other one as it was.
LEMMA EditorDone ==
  ASSUME CatalogInv, NEW e \in Editors, editor' = [editor EXCEPT ![e] = Free]
  PROVE  /\ editor' \in [Editors -> Saving \union Toggling \union {Free}]
         /\ editor'[e] = Free /\ \A q \in Editors : q # e => editor'[q] = editor[q]
BY DEF CatalogInv, CatalogTypeOK

\* A row is written: what the rest of the table and of the history keep.
LEMMA SaveRowTable ==
  ASSUME CatalogInv, NEW e \in Editors, SaveRow(e)
  PROVE  /\ table' = [t \in Tables |-> table'[t]]
         /\ \A t \in Tables : table'[t] \in Seq(RowOf(t))
         /\ told' \in [Cells -> Values \union {0}] /\ forked' \subseteq Tables
         /\ TableOK'
<1>1. PICK j \in Saving : j = editor[e] /\ j.step = "save"
  BY DEF SaveRow, CatalogInv, CatalogTypeOK, Toggling, Free
<1> DEFINE t == j.table
           f == j.column
<1>2. t \in Tables /\ f \in Columns(t) /\ j.value \in Values /\ j.found \in Nat
      /\ j.found <= Len(table[t]) /\ <<t, f>> \in Cells
  <2>1. t \in Tables /\ f \in {x[2] : x \in Cells} /\ j.value \in Values /\ j.found \in Nat
    BY DEF Saving
  <2>2. f \in Columns(t) /\ j.found <= Len(table[t])
    BY <1>1 DEF CatalogInv, TableOK, CatalogRowsOK
  <2>3. QED
    BY <2>1, <2>2 DEF Cells, Columns
<1>3. editor'[e] = Free /\ \A q \in Editors : q # e => editor'[q] = editor[q]
  BY EditorDone DEF SaveRow
<1>4. table[t] \in Seq(RowOf(t)) /\ Len(table[t]) \in Nat
  BY <1>2 DEF CatalogInv, CatalogTypeOK, RowOf
<1>5. CASE Refused(j)
  <2>1. UNCHANGED <<table, toldVars>>
    BY <1>1, <1>5 DEF SaveRow
  <2>2. \A q \in Editors : editor'[q].step = "save" => editor'[q] = editor[q]
    BY <1>3 DEF Free
  <2>3. QED
    BY <2>1, <2>2, TableKept DEF CatalogInv, CatalogTypeOK, toldVars, RowOf
<1>6. CASE ~Refused(j)
  <2> DEFINE rows == IF j.found # 0 THEN [table[t] EXCEPT ![j.found][f] = j.value]
                     ELSE Append(table[t], NewRow(j))
  <2>1. /\ table' = [table EXCEPT ![t] = rows]
        /\ told' = [told EXCEPT ![<<t, f>>] = j.value]
        /\ forked' = IF j.found = 0 /\ table[t] # <<>> THEN forked \union {t} ELSE forked
    BY <1>1, <1>6 DEF SaveRow
  <2>2. table'[t] = rows /\ \A u \in Tables : u # t => table'[u] = table[u]
    BY <1>2, <2>1 DEF CatalogInv, CatalogTypeOK
  <2>3. /\ rows \in Seq(RowOf(t)) /\ rows # <<>> /\ Len(rows) >= Len(table[t])
        /\ t \notin forked' \ {"image"} =>
             Len(rows) = 1 /\ \A g \in Columns(t) : rows[1][g] = told'[<<t, g>>]
    <3>1. \A g \in Columns(t) : <<t, g>> \in Cells /\
            told'[<<t, g>>] = IF g = f THEN j.value ELSE told[<<t, g>>]
      BY <1>2, <2>1 DEF Cells, Columns, CatalogInv, CatalogTypeOK
    <3>2. CASE j.found # 0
      <4> DEFINE row == [table[t][j.found] EXCEPT ![f] = j.value]
      <4>1. j.found \in 1..Len(table[t]) /\ table[t] # <<>>
        BY <1>2, <1>4, <3>2, EmptySeq
      <4>2. table[t][j.found] \in RowOf(t)
        BY <1>4, <4>1, ElementOfSeq
      <4>3. /\ row \in RowOf(t)
            /\ \A g \in Columns(t) : row[g] = IF g = f THEN j.value ELSE table[t][j.found][g]
        BY <1>2, <4>2 DEF RowOf
      <4>4. rows = [table[t] EXCEPT ![j.found] = row]
        BY <3>2
      <4> HIDE DEF row, rows, t, f
      <4>5. rows \in Seq(RowOf(t)) /\ Len(rows) = Len(table[t]) /\ rows[j.found] = row
        BY <1>4, <4>1, <4>3, <4>4
      <4>6. rows # <<>>
        BY <1>4, <4>1, <4>5, EmptySeq
      <4>7. ASSUME t \notin forked' \ {"image"}
            PROVE  Len(rows) = 1 /\ \A g \in Columns(t) : rows[1][g] = told'[<<t, g>>]
        <5>1. Len(table[t]) = 1 /\ j.found = 1
          <6>1. PICK x \in Cells : x[1] = t
          BY <1>2
        <6>2. t \notin forked \ {"image"}
          BY <2>1, <3>2, <4>7
        <6>3. Len(table[t]) <= 1
          BY <6>1, <6>2 DEF CatalogInv, TableOK, OneRowTold
        <6>4. \A k, n \in Nat : k \in 1..n /\ n <= 1 => n = 1 /\ k = 1
          OBVIOUS
        <6>5. QED
          BY <1>2, <1>4, <4>1, <6>3, <6>4
        <5>2. 1 \in Findable(t)
          BY <4>1, <5>1, LenProperties, <1>4 DEF Findable
        <5>3. \A g \in Columns(t) : table[t][1][g] = told[<<t, g>>]
          BY <2>1, <3>1, <3>2, <4>7, <5>1, <5>2 DEF CatalogInv, TableOK, OneRowTold
        <5>4. QED
          BY <3>1, <4>3, <4>5, <5>1, <5>3
      <4>8. QED
        BY <1>4, <4>5, <4>6, <4>7
    <3>3. CASE j.found = 0
      <4>1. rows = Append(table[t], NewRow(j)) /\ NewRow(j) \in RowOf(t)
            /\ \A g \in Columns(t) : NewRow(j)[g] = IF g = f THEN j.value ELSE 0
        BY <1>2, <3>3 DEF NewRow, RowOf
      <4> HIDE DEF rows
      <4>2. rows \in Seq(RowOf(t)) /\ rows # <<>> /\ Len(rows) = Len(table[t]) + 1
        BY <1>4, <4>1, AppendProperties
      <4>3. rows[Len(table[t]) + 1] = NewRow(j)
        BY <1>4, <4>1, AppendProperties
      <4>4. ASSUME t \notin forked' \ {"image"}
            PROVE  Len(rows) = 1 /\ \A g \in Columns(t) : rows[1][g] = told'[<<t, g>>]
        <5>1. table[t] = <<>>
          BY <1>6, <2>1, <3>3, <4>4 DEF Refused
        <5>2. Len(table[t]) = 0
          BY <5>1
        <5>3. \A g \in Columns(t) : told[<<t, g>>] = 0
          BY <3>1, <5>1 DEF CatalogInv, TableOK, CatalogRowsOK
        <5> HIDE DEF t, f
        <5>4. QED
          BY <3>1, <4>1, <4>2, <4>3, <5>2, <5>3
      <4>5. QED
        BY <1>4, <4>2, <4>4
    <3>4. QED
      BY <3>2, <3>3
  <2> HIDE DEF rows
  <2>4. \A x \in Cells : x[1] # t => told'[x] = told[x] /\ (x[1] \in forked' <=> x[1] \in forked)
    BY <1>2, <2>1 DEF CatalogInv, CatalogTypeOK, Cells
  <2>5. \A x \in Cells : x[1] \in Tables /\ x[2] \in Columns(x[1]) /\ x = <<x[1], x[2]>>
    BY DEF Cells
  <2> HIDE DEF t, f
  <2>6. OneRowTold'
    <3> SUFFICES ASSUME NEW x \in Cells, x[1] \notin forked' \ {"image"}
                 PROVE  /\ Len(table'[x[1]]) <= 1
                        /\ \A n \in Findable(x[1])' : n # 0 => table'[x[1]][n][x[2]] = told'[x]
      BY DEF OneRowTold
    <3>1. CASE x[1] = t
      <4>1. table'[t] = rows /\ Len(rows) = 1
            /\ \A g \in Columns(t) : rows[1][g] = told'[<<t, g>>]
        BY <2>2, <2>3, <3>1
      <4>2. \A n \in Findable(t)' : n = 1
        <5>1. DOMAIN rows = 1..1
          BY <2>3, <4>1, LenProperties
        <5>2. \A n \in Findable(t)' : n \in DOMAIN rows \/ n = Len(rows)
          BY <2>3, <4>1, Zenon DEF Findable
        <5>3. QED
          BY <4>1, <5>1, <5>2
      <4>3. Findable(x[1])' = Findable(t)'
        BY <3>1, Zenon DEF Findable
      <4>4. QED
        BY <2>5, <3>1, <4>1, <4>2, <4>3
    <3>2. CASE x[1] # t
      <4>1. table'[x[1]] = table[x[1]] /\ told'[x] = told[x] /\ x[1] \notin forked \ {"image"}
        BY <2>2, <2>4, <2>5, <3>2
      <4>2. Findable(x[1])' = Findable(x[1])
        BY <4>1, Zenon DEF Findable
      <4>3. QED
        BY <4>1, <4>2 DEF CatalogInv, TableOK, OneRowTold
    <3>3. QED
      BY <3>1, <3>2
  <2>7. CatalogRowsOK'
    <3>1. ASSUME NEW q \in Editors, editor'[q].step = "save"
          PROVE  /\ editor'[q].column \in Columns(editor'[q].table)
                 /\ editor'[q].found <= Len(table'[editor'[q].table])
      <4>1. q # e /\ editor'[q] = editor[q]
        BY <1>3, <3>1 DEF Free
      <4>2. editor[q] \in Saving
        BY <3>1, <4>1 DEF CatalogInv, CatalogTypeOK, Toggling, Free
      <4>3. /\ editor[q].table \in Tables /\ editor[q].found \in Nat
            /\ editor[q].column \in Columns(editor[q].table)
            /\ editor[q].found <= Len(table[editor[q].table])
        BY <3>1, <4>1, <4>2 DEF CatalogInv, TableOK, CatalogRowsOK, Saving
      <4>4. Len(rows) \in Nat
        BY <2>3
      <4>5. QED
        BY <1>4, <2>2, <2>3, <4>1, <4>3, <4>4
    <3>2. \A x \in Cells : table'[x[1]] = <<>> => told'[x] = 0
      BY <2>2, <2>3, <2>4, <2>5 DEF CatalogInv, TableOK, CatalogRowsOK
    <3>3. QED
      BY <3>1, <3>2 DEF CatalogRowsOK
  <2>8. /\ table' = [u \in Tables |-> table'[u]]
        /\ \A u \in Tables : table'[u] \in Seq(RowOf(u))
    BY <1>2, <2>1, <2>2, <2>3 DEF CatalogInv, CatalogTypeOK, RowOf
  <2>9. told' \in [Cells -> Values \union {0}] /\ forked' \subseteq Tables
    BY <1>2, <2>1 DEF CatalogInv, CatalogTypeOK
  <2>10. QED
    BY <2>6, <2>7, <2>8, <2>9 DEF TableOK
<1>7. QED
  BY <1>5, <1>6

LEMMA SaveRowInv == ASSUME CatalogInv, NEW e \in Editors, SaveRow(e) PROVE CatalogInv'
<1>1. /\ editor' = [editor EXCEPT ![e] = Free]
      /\ UNCHANGED <<package, buyer, changes, activeVars>>
  BY DEF SaveRow
<1>2. CatalogTypeOK'
  BY <1>1, EditorDone, SaveRowTable DEF CatalogInv, CatalogTypeOK, RowOf, activeVars
<1>3. StatusOK'
  BY <1>1, EditorDone DEF CatalogInv, StatusOK, TogglesOf, Free, activeVars
<1>4. QED
  BY <1>1, <1>2, <1>3, SaveRowTable, BuyersKept DEF CatalogInv

-----------------------------------------------------------------------------
(* Steps that write packages. *)

\* What a package and its history may become, with an editor that is done or goes on.
LEMMA PackageInv ==
  ASSUME CatalogInv, NEW p \in Packages, NEW x \in Package,
         package' = [package EXCEPT ![p] = x],
         wanted' \in [Packages -> BOOLEAN] /\ crossed \subseteq crossed'
         /\ crossed' \subseteq Packages,
         \A q \in Packages : q # p => wanted'[q] = wanted[q],
         p \notin crossed' => x.isActive = wanted'[p],
         p \notin crossed' => \A q \in TogglesOf(p)' : editor'[q].isActive = x.isActive,
         editor' \in [Editors -> Saving \union Toggling \union {Free}],
         \A q \in Editors : editor'[q] = editor[q] \/ editor'[q] = Free,
         changes' \in 0..MaxChanges,
         UNCHANGED <<table, buyer, toldVars>>
  PROVE  CatalogInv'
<1>1. /\ package'[p] = x /\ x # NoPackage
      /\ \A q \in Packages : q # p => package'[q] = package[q]
  BY DEF CatalogInv, CatalogTypeOK, Package, NoPackage
<1>2. CatalogTypeOK'
  BY DEF CatalogInv, CatalogTypeOK, toldVars
<1>3. TableOK'
  <2>1. \A q \in Editors : editor'[q].step = "save" => editor'[q] = editor[q]
    BY DEF Free
  <2>2. QED
    BY <2>1, TableKept
<1>4. StatusOK'
  <2> SUFFICES ASSUME NEW r \in Packages
               PROVE  /\ r \notin crossed' /\ package'[r] # NoPackage
                          => package'[r].isActive = wanted'[r]
                      /\ \A q \in TogglesOf(r)' :
                           /\ package'[r] # NoPackage
                           /\ r \notin crossed' => editor'[q].isActive = package'[r].isActive
    BY DEF StatusOK
  <2>1. CASE r = p
    BY <1>1, <2>1
  <2>2. CASE r # p
    <3>1. package'[r] = package[r] /\ wanted'[r] = wanted[r] /\ (r \in crossed => r \in crossed')
      BY <1>1, <2>2
    <3>2. \A q \in TogglesOf(r)' : q \in TogglesOf(r) /\ editor'[q] = editor[q]
      BY DEF TogglesOf, Free
    <3>3. QED
      BY <3>1, <3>2 DEF CatalogInv, StatusOK
  <2>3. QED
    BY <2>1, <2>2
<1>5. QED
  BY <1>2, <1>3, <1>4, BuyersKept DEF CatalogInv

\* A request that leaves the editors alone.
LEMMA EditorsKept ==
  ASSUME CatalogInv, UNCHANGED editor
  PROVE  /\ editor' \in [Editors -> Saving \union Toggling \union {Free}]
         /\ \A q \in Editors : editor'[q] = editor[q] \/ editor'[q] = Free
         /\ \A p : TogglesOf(p)' = TogglesOf(p)
BY DEF CatalogInv, CatalogTypeOK, TogglesOf

LEMMA ChangeOK == ASSUME CatalogInv, Change PROVE changes' \in 0..MaxChanges
BY CatalogAssumption DEF Change, CatalogInv, CatalogTypeOK

LEMMA CreateTokenPackageInv ==
  ASSUME CatalogInv, NEW p \in Packages, NEW v \in Values, NEW a \in BOOLEAN,
         CreateTokenPackage(p, v, a)
  PROVE  CatalogInv'
<1> DEFINE x == [exists |-> TRUE, isActive |-> a, deleted |-> FALSE, price |-> v]
<1>1. x \in Package /\ x.isActive = a
  BY DEF Package
<1>2. TogglesOf(p) = {}
  BY DEF CreateTokenPackage, CatalogInv, StatusOK
<1>3. /\ package' = [package EXCEPT ![p] = x] /\ wanted' = [wanted EXCEPT ![p] = a]
      /\ UNCHANGED <<table, editor, buyer, toldVars, crossed>> /\ Change
  BY DEF CreateTokenPackage
<1> HIDE DEF x
<1>4. QED
  BY <1>1, <1>2, <1>3, EditorsKept, ChangeOK, PackageInv DEF CatalogInv, CatalogTypeOK

\* A package changes but for its status.
LEMMA SameStatus ==
  ASSUME CatalogInv, NEW p \in Packages, NEW x \in Package,
         package' = [package EXCEPT ![p] = x], x.isActive = package[p].isActive,
         package[p] # NoPackage, Change, UNCHANGED <<table, editor, buyer, toldVars, activeVars>>
  PROVE  CatalogInv'
<1>1. wanted' = wanted /\ crossed' = crossed
  BY DEF activeVars
<1>2. wanted' \in [Packages -> BOOLEAN] /\ crossed' \subseteq Packages
  BY <1>1 DEF CatalogInv, CatalogTypeOK
<1>3. p \notin crossed' => x.isActive = wanted'[p]
  BY <1>1 DEF CatalogInv, StatusOK
<1>4. TogglesOf(p)' = TogglesOf(p) /\ editor' = editor
  BY EditorsKept
<1>5. p \notin crossed' => \A q \in TogglesOf(p)' : editor'[q].isActive = x.isActive
  BY <1>1, <1>4 DEF CatalogInv, StatusOK
<1>6. QED
  BY <1>1, <1>2, <1>3, <1>5, EditorsKept, ChangeOK, PackageInv

LEMMA EditPriceInv ==
  ASSUME CatalogInv, NEW p \in Packages, NEW v \in Values, EditPrice(p, v)
  PROVE  CatalogInv'
<1> DEFINE x == [package[p] EXCEPT !.price = v]
<1>1. package[p] \in Package
  BY DEF EditPrice, CatalogInv, CatalogTypeOK
<1>2. x \in Package /\ x.isActive = package[p].isActive
  BY <1>1 DEF Package
<1>3. /\ package' = [package EXCEPT ![p] = x] /\ UNCHANGED activeVars
      /\ UNCHANGED <<table, editor, buyer, toldVars>> /\ Change /\ package[p] # NoPackage
  BY <1>1 DEF EditPrice, Package
<1> HIDE DEF x
<1>4. QED
  BY <1>2, <1>3, SameStatus

LEMMA DeleteTokenPackageInv ==
  ASSUME CatalogInv, NEW p \in Packages, DeleteTokenPackage(p)
  PROVE  CatalogInv'
<1> DEFINE x == [package[p] EXCEPT !.deleted = TRUE]
<1>1. package[p] \in Package
  BY DEF DeleteTokenPackage, CatalogInv, CatalogTypeOK
<1>2. x \in Package /\ x.isActive = package[p].isActive
  BY <1>1 DEF Package
<1>3. /\ package' = [package EXCEPT ![p] = x] /\ UNCHANGED activeVars
      /\ UNCHANGED <<table, editor, buyer, toldVars>> /\ Change /\ package[p] # NoPackage
  BY <1>1 DEF DeleteTokenPackage, Package
<1> HIDE DEF x
<1>4. QED
  BY <1>2, <1>3, SameStatus

\* Whoever writes isActive has crossed the other toggles of the package.
LEMMA Marked ==
  ASSUME CatalogInv, NEW p \in Packages, NEW a \in BOOLEAN, NEW e \in Editors, Mark(p, a, e)
  PROVE  /\ wanted' \in [Packages -> BOOLEAN] /\ crossed \subseteq crossed'
         /\ crossed' \subseteq Packages
         /\ wanted'[p] = a /\ \A q \in Packages : q # p => wanted'[q] = wanted[q]
         /\ p \notin crossed' => TogglesOf(p) \subseteq {e}
         /\ p \in crossed => p \in crossed'
BY DEF Mark, CatalogInv, CatalogTypeOK

LEMMA EditActiveInv ==
  ASSUME CatalogInv, NEW e \in Editors, NEW p \in Packages, NEW a \in BOOLEAN, EditActive(e, p, a)
  PROVE  CatalogInv'
<1> DEFINE x == [package[p] EXCEPT !.isActive = a]
<1>1. package[p] \in Package
  BY DEF EditActive, CatalogInv, CatalogTypeOK
<1>2. x \in Package /\ x.isActive = a
  BY <1>1 DEF Package
<1>3. /\ package' = [package EXCEPT ![p] = x] /\ Mark(p, a, e) /\ editor[e] = Free
      /\ UNCHANGED <<table, editor, buyer, toldVars>> /\ Change
  BY <1>1 DEF EditActive, Package
<1>4. e \notin TogglesOf(p)
  BY <1>3 DEF TogglesOf, Free
<1> HIDE DEF x
<1>5. p \notin crossed' => TogglesOf(p)' = {}
  BY <1>3, <1>4, Marked, EditorsKept
<1>6. p \notin crossed' => x.isActive = wanted'[p]
  BY <1>2, <1>3, Marked
<1>7. QED
  BY <1>2, <1>3, <1>5, <1>6, Marked, EditorsKept, ChangeOK, PackageInv

LEMMA ToggleStatusInv == ASSUME CatalogInv, NEW e \in Editors, ToggleStatus(e) PROVE CatalogInv'
<1>1. PICK p \in Packages : p = editor[e].package
  BY DEF ToggleStatus, CatalogInv, CatalogTypeOK, Toggling, Saving, Free
<1>2. editor[e] \in Toggling /\ e \in TogglesOf(p)
  BY <1>1 DEF ToggleStatus, CatalogInv, CatalogTypeOK, Toggling, Saving, Free, TogglesOf
<1> DEFINE x == [package[p] EXCEPT !.isActive = ~editor[e].isActive]
<1>3. package[p] \in Package
  BY <1>2 DEF CatalogInv, StatusOK, CatalogTypeOK
<1>4. x \in Package /\ x.isActive = ~editor[e].isActive
  BY <1>2, <1>3 DEF Package, Toggling
<1>5. /\ package' = [package EXCEPT ![p] = x] /\ Mark(p, ~wanted[p], e)
      /\ editor' = [editor EXCEPT ![e] = Free]
      /\ UNCHANGED <<table, buyer, changes, toldVars>>
  BY <1>1, <1>3 DEF ToggleStatus, Package
<1> HIDE DEF x
<1>6. PICK a \in BOOLEAN : a = ~wanted[p]
  BY Zenon
<1>7. p \notin crossed' => TogglesOf(p)' = {}
  <2>1. p \notin crossed' => TogglesOf(p) \subseteq {e}
    BY <1>5, <1>6, Marked
  <2>2. TogglesOf(p)' \subseteq TogglesOf(p) \ {e}
    BY <1>5, EditorDone DEF TogglesOf, Free
  <2>3. QED
    BY <2>1, <2>2
<1>8. p \notin crossed => wanted[p] = editor[e].isActive
  BY <1>2, <1>3 DEF CatalogInv, StatusOK, CatalogTypeOK, Package, NoPackage
<1>9. changes' \in 0..MaxChanges
  BY <1>5 DEF CatalogInv, CatalogTypeOK
<1>10. p \notin crossed' => x.isActive = wanted'[p]
  BY <1>4, <1>5, <1>8, <1>6, Marked
<1>11. QED
  BY <1>4, <1>5, <1>7, <1>9, <1>6, <1>10, EditorDone, Marked, PackageInv

LEMMA ReadStatusInv ==
  ASSUME CatalogInv, NEW e \in Editors, NEW p \in Packages, ReadStatus(e, p)
  PROVE  CatalogInv'
<1> DEFINE j == [step |-> "toggle", package |-> p, isActive |-> package[p].isActive]
<1>1. package[p] \in Package /\ package[p] # NoPackage
  BY DEF ReadStatus, CatalogInv, CatalogTypeOK
<1>2. /\ j \in Toggling /\ j.step = "toggle" /\ j.package = p
      /\ j.isActive = package[p].isActive
  BY <1>1 DEF Toggling, Package
<1>3. /\ editor' = [editor EXCEPT ![e] = j] /\ Change
      /\ UNCHANGED <<shopVars, buyer, toldVars, activeVars>>
  BY DEF ReadStatus
<1> HIDE DEF j
<1>4. /\ editor'[e] = j /\ \A q \in Editors : q # e => editor'[q] = editor[q]
      /\ editor' \in [Editors -> Saving \union Toggling \union {Free}]
  BY <1>2, <1>3 DEF CatalogInv, CatalogTypeOK
<1>5. CatalogTypeOK'
  BY <1>3, <1>4, ChangeOK DEF CatalogInv, CatalogTypeOK, shopVars, toldVars, activeVars
<1>6. TableOK'
  BY <1>2, <1>3, <1>4, TableKept DEF shopVars
<1>7. StatusOK'
  BY <1>1, <1>2, <1>3, <1>4 DEF CatalogInv, StatusOK, TogglesOf, shopVars, activeVars
<1>8. QED
  BY <1>3, <1>5, <1>6, <1>7, BuyersKept DEF CatalogInv

-----------------------------------------------------------------------------
(* Steps of buyers, which leave the catalog alone. *)

LEMMA BuyerInv ==
  ASSUME CatalogInv, NEW b \in Buyers, NEW x \in Charging \union Selling \union Sold \union {Free},
         buyer' = [buyer EXCEPT ![b] = x],
         UNCHANGED <<shopVars, editor, changes, toldVars, activeVars>>,
         x.step \in {"record", "sold"} => x.charged = x.terms.amount,
         x.step = "sold" => x.recorded = x.terms
  PROVE  CatalogInv'
<1>1. /\ buyer'[b] = x /\ \A q \in Buyers : q # b => buyer'[q] = buyer[q]
      /\ buyer' \in [Buyers -> Charging \union Selling \union Sold \union {Free}]
  BY DEF CatalogInv, CatalogTypeOK
<1>2. CatalogTypeOK'
  BY <1>1 DEF CatalogInv, CatalogTypeOK, shopVars, toldVars, activeVars
<1>3. TableOK' /\ StatusOK'
  BY TableKept DEF CatalogInv, StatusOK, TogglesOf, shopVars, activeVars
<1>4. TermsOK'
  BY <1>1 DEF CatalogInv, TermsOK
<1>5. QED
  BY <1>2, <1>3, <1>4 DEF CatalogInv

LEMMA PrepareInv ==
  ASSUME CatalogInv, NEW b \in Buyers, NEW terms \in Terms, Prepare(b, terms) PROVE CatalogInv'
<1> DEFINE x == [step |-> "charge", terms |-> terms]
<1>1. x \in Charging /\ x.step = "charge"
  BY DEF Charging
<1>2. buyer' = [buyer EXCEPT ![b] = x]
      /\ UNCHANGED <<shopVars, editor, changes, toldVars, activeVars>>
  BY DEF Prepare
<1> HIDE DEF x
<1>3. QED
  BY <1>1, <1>2, BuyerInv

LEMMA PreparePackageInv ==
  ASSUME CatalogInv, NEW b \in Buyers, NEW p \in Packages, PreparePackage(b, p) PROVE CatalogInv'
<1>1. package[p].price \in Values /\ package[p].price \in Nat
  BY CatalogAssumption DEF PreparePackage, CatalogInv, CatalogTypeOK, Package
<1>2. [price |-> package[p].price, amount |-> package[p].price] \in Terms
  BY <1>1 DEF Terms
<1>3. QED
  BY <1>2, PrepareInv DEF PreparePackage

LEMMA PrepareTokensInv ==
  ASSUME CatalogInv, NEW b \in Buyers, NEW quantity \in Quantities, "tokenPrice" \in Tables,
         PrepareTokens(b, quantity)
  PROVE  CatalogInv'
<1>1. PICK n \in Findable("tokenPrice") \ {0} :
        LET price == table["tokenPrice"][n].value
        IN Prepare(b, [price |-> price, amount |-> price * quantity])
  BY DEF PrepareTokens
<1> DEFINE price == table["tokenPrice"][n].value
<1>2. Columns("tokenPrice") = {"value"} /\ table["tokenPrice"] \in Seq(RowOf("tokenPrice"))
  BY DEF Columns, CatalogInv, CatalogTypeOK, RowOf
<1>3. n \in 1..Len(table["tokenPrice"])
  BY <1>2, Found
<1>4. price \in Values \union {0}
  BY <1>2, <1>3, ElementOfSeq DEF RowOf
<1>5. price \in Nat /\ quantity \in Nat
  BY <1>4, CatalogAssumption
<1>6. price * quantity \in Nat
  BY <1>5, SMT
<1>7. [price |-> price, amount |-> price * quantity] \in Terms
  BY <1>4, <1>6 DEF Terms
<1>8. Prepare(b, [price |-> price, amount |-> price * quantity])
  BY <1>1
<1> HIDE DEF price
<1>9. QED
  BY <1>7, <1>8, PrepareInv

LEMMA CatalogCreateChargeInv ==
  ASSUME CatalogInv, NEW b \in Buyers, CreateCharge(b)
  PROVE  CatalogInv'
<1>1. buyer[b] \in Charging /\ buyer[b].terms \in Terms
  BY DEF CreateCharge, CatalogInv, CatalogTypeOK, Selling, Sold, Charging, Free
<1> DEFINE x == [step |-> "record", terms |-> buyer[b].terms, charged |-> buyer[b].terms.amount]
<1>2. x \in Selling /\ x.step = "record" /\ x.charged = x.terms.amount
  BY <1>1 DEF Selling, Terms
<1>3. /\ buyer' = [buyer EXCEPT ![b] = x] \/ buyer' = [buyer EXCEPT ![b] = Free]
      /\ UNCHANGED <<shopVars, editor, changes, toldVars, activeVars>>
  BY DEF CreateCharge
<1> HIDE DEF x
<1>4. QED
  BY <1>2, <1>3, BuyerInv DEF Free

LEMMA RecordPurchaseActivityInv ==
  ASSUME CatalogInv, NEW b \in Buyers, RecordPurchaseActivity(b) PROVE CatalogInv'
<1>1. buyer[b] \in Selling /\ buyer[b].terms \in Terms /\ buyer[b].charged = buyer[b].terms.amount
  BY DEF RecordPurchaseActivity, CatalogInv, CatalogTypeOK, TermsOK, Selling, Sold, Charging, Free
<1> DEFINE x == [step |-> "sold", terms |-> buyer[b].terms, charged |-> buyer[b].charged,
                 recorded |-> buyer[b].terms]
<1>2. /\ x \in Sold /\ x.step = "sold" /\ x.charged = x.terms.amount
      /\ x.recorded = x.terms
  BY <1>1 DEF Selling, Sold
<1>3. /\ buyer' = [buyer EXCEPT ![b] = x]
      /\ UNCHANGED <<shopVars, editor, changes, toldVars, activeVars>>
  BY DEF RecordPurchaseActivity
<1> HIDE DEF x
<1>4. QED
  BY <1>2, <1>3, BuyerInv

-----------------------------------------------------------------------------

LEMMA CatalogNextInv == CatalogInv /\ [CatalogNext]_catalogVars => CatalogInv'
<1> SUFFICES ASSUME CatalogInv, [CatalogNext]_catalogVars PROVE CatalogInv'
  OBVIOUS
<1>1. CASE EditorsNext
  <2>1. ASSUME NEW e \in Editors, NEW x \in Cells, NEW v \in Values, FindRow(e, x[1], x[2], v)
        PROVE  CatalogInv'
    <3>1. x[1] \in Tables /\ x[2] \in Columns(x[1])
      BY DEF Cells
    <3>2. QED
      BY <2>1, <3>1, FindRowInv
  <2>2. QED
    BY <1>1, <2>1, SaveRowInv, ReadStatusInv, EditActiveInv, ToggleStatusInv DEF EditorsNext
<1>2. CASE PackagesNext
  BY <1>2, EditPriceInv, CreateTokenPackageInv, DeleteTokenPackageInv DEF PackagesNext
<1>3. CASE BuyersNext
  BY <1>3, PreparePackageInv, PrepareTokensInv, CatalogCreateChargeInv, RecordPurchaseActivityInv
     DEF BuyersNext
<1>4. CASE UNCHANGED catalogVars
  <2>1. /\ UNCHANGED <<table, toldVars>> /\ UNCHANGED <<editor, buyer, changes>>
        /\ UNCHANGED <<shopVars, activeVars>>
    BY <1>4 DEF catalogVars, shopVars
  <2>2. CatalogTypeOK'
    BY <2>1 DEF CatalogInv, CatalogTypeOK, toldVars, shopVars, activeVars
  <2>3. StatusOK'
    BY <2>1 DEF CatalogInv, StatusOK, TogglesOf, shopVars, activeVars
  <2>4. QED
    BY <2>1, <2>2, <2>3, TableKept, BuyersKept DEF CatalogInv
<1>5. QED
  BY <1>1, <1>2, <1>3, <1>4 DEF CatalogNext

LEMMA CatalogSpecInv == CatalogSpec => []CatalogInv
BY CatalogInitInv, CatalogNextInv, PTL DEF CatalogSpec

\* The variables of Catalog keep their types for any tables, requests, packages and values.
THEOREM CatalogTypeCorrect == CatalogSpec => []CatalogTypeOK
<1>1. CatalogInv => CatalogTypeOK
  BY DEF CatalogInv
<1>2. QED
  BY <1>1, CatalogSpecInv, PTL

\* ConfigService and saveUploadedImage: unless two first calls have created two rows, which
\* cannot happen to images, every reader finds the last value written of each column.
THEOREM OneRowPerTable == CatalogSpec => []OneRowTold
<1>1. CatalogInv => OneRowTold
  BY DEF CatalogInv, TableOK
<1>2. QED
  BY <1>1, CatalogSpecInv, PTL

\* toggleTokenPackageStatus: packages are listed with the status that the completed
\* requests give them, unless a write came between the two calls of a toggle.
THEOREM EveryToggleCounts == CatalogSpec => []TogglesCount
<1>1. CatalogInv => TogglesCount
  <2> SUFFICES ASSUME CatalogInv, NEW p \in Packages \ crossed, package[p] # NoPackage,
                      ~package[p].deleted
               PROVE  p \in Listed(wanted[p]) /\ p \notin Listed(~wanted[p])
    BY DEF TogglesCount
  <2>1. package[p].isActive = wanted[p]
    BY DEF CatalogInv, StatusOK
  <2>2. wanted[p] # ~wanted[p]
    OBVIOUS
  <2>3. QED
    BY <2>1, <2>2 DEF Listed
<1>2. QED
  BY <1>1, CatalogSpecInv, PTL

\* purchaseTokens: what is charged is what is recorded, of one reading of the catalog.
THEOREM SoldAsRead == CatalogSpec => []SoldOnTerms
<1>1. CatalogInv => SoldOnTerms
  BY DEF CatalogInv, TermsOK, SoldOnTerms
<1>2. QED
  BY <1>1, CatalogSpecInv, PTL
=============================================================================
