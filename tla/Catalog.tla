------------------------------- MODULE Catalog -------------------------------
(***************************************************************************)
(* What is for sale and how the service is set up: ConfigService, the      *)
(* image rows of UploadService, and the part of a purchase that reads the  *)
(* catalog before it calls Coinbase and writes what it has read afterwards.*)
(* Config, TokenPrice and the image of an owner are meant to be one row    *)
(* each: a request finds it and then updates it or creates it, in two      *)
(* calls.  Values and prices are small numbers; currencies, names and the  *)
(* cents of a price are left out.                                          *)
(***************************************************************************)
EXTENDS Integers, Sequences

CONSTANTS
  Tables,       \* of "config", "tokenPrice", "image"
  Editors,      \* requests that change the catalog, in progress
  Buyers,       \* purchases in progress
  Packages,     \* packageIds
  Values,       \* inputs: prices and settings
  Quantities,   \* inputs: tokens asked for
  MaxChanges    \* bound: requests of editors

ASSUME CatalogAssumption ==
  /\ Tables \subseteq {"config", "tokenPrice", "image"}
  /\ Values \subseteq Nat \ {0} /\ Quantities \subseteq Nat \ {0} /\ MaxChanges \in Nat

VARIABLES
  table,       \* per table: its rows in the order they were created
  package,     \* table TokenPackage, by packageId
  editor,      \* per request: what it is about to write and the row or flag it has read
  buyer,       \* per purchase: what it has read and charged
  changes,
  told,        \* history: the last value written of each column, 0 for its default
  forked,      \* history: tables in which a row was created next to another
  wanted,      \* history: isActive of each package as the completed requests have it
  crossed      \* history: packages whose isActive was written while a toggle was at it

shopVars == <<table, package>>
toldVars == <<told, forked>>
activeVars == <<wanted, crossed>>
catalogVars == <<shopVars, editor, buyer, changes, toldVars, activeVars>>

Columns(t) == IF t = "config" THEN {"referralViewLevel", "isReferralCodeEnabled"} ELSE {"value"}
Cells == {x \in Tables \X {"referralViewLevel", "isReferralCodeEnabled", "value"} :
            x[2] \in Columns(x[1])}

NoPackage == [exists |-> FALSE]
Package == [exists : {TRUE}, isActive : BOOLEAN, deleted : BOOLEAN, price : Values]
Free == [step |-> "free"]
Saving == [step : {"save"}, table : Tables, column : {f[2] : f \in Cells}, value : Values,
           found : Nat]
Toggling == [step : {"toggle"}, package : Packages, isActive : BOOLEAN]
Terms == [price : Values \union {0}, amount : Nat]
Charging == [step : {"charge"}, terms : Terms]
Selling == [step : {"record"}, terms : Terms, charged : Nat]
Sold == [step : {"sold"}, terms : Terms, charged : Nat, recorded : Terms]

CatalogInit ==
  /\ table = [t \in Tables |-> <<>>]
  /\ package = [p \in Packages |-> NoPackage]
  /\ editor = [e \in Editors |-> Free]
  /\ buyer = [b \in Buyers |-> Free]
  /\ changes = 0
  /\ told = [x \in Cells |-> 0]
  /\ forked = {}
  /\ wanted = [p \in Packages |-> FALSE]
  /\ crossed = {}

Change == changes < MaxChanges /\ changes' = changes + 1

-----------------------------------------------------------------------------

\* findFirst by createdAt takes the last row, findFirst without an order any row, and
\* findUnique by the owner the only one; 0 where there is none.
Findable(t) ==
  CASE table[t] = <<>> -> {0}
    [] t = "tokenPrice" -> {Len(table[t])}
    [] OTHER -> DOMAIN table[t]

\* setReferralViewLevel, setReferralCodeEnabledStatus, setOrEditTokenPrice,
\* saveUploadedImage: the first call.
FindRow(e, t, f, v) ==
  /\ editor[e] = Free /\ f \in Columns(t) /\ Change
  /\ \E n \in Findable(t) :
       editor' = [editor EXCEPT ![e] =
         [step |-> "save", table |-> t, column |-> f, value |-> v, found |-> n]]
  /\ UNCHANGED <<shopVars, buyer, toldVars, activeVars>>

NewRow(j) == [f \in Columns(j.table) |-> IF f = j.column THEN j.value ELSE 0]

\* Mutant of Refused: the owner of an image is not a unique column.
RefusedNever(j) == FALSE

\* The second call; a second image of one owner is refused by the unique column.
Refused(j) == j.table = "image" /\ j.found = 0 /\ table["image"] # <<>>

SaveRow(e) ==
  /\ editor[e].step = "save"
  /\ LET j == editor[e]
     IN IF Refused(j) THEN UNCHANGED <<table, toldVars>>
        ELSE /\ table' = [table EXCEPT ![j.table] =
                            IF j.found # 0 THEN [@ EXCEPT ![j.found][j.column] = j.value]
                            ELSE Append(@, NewRow(j))]
             /\ told' = [told EXCEPT ![<<j.table, j.column>>] = j.value]
             /\ forked' = IF j.found = 0 /\ table[j.table] # <<>>
                          THEN forked \union {j.table} ELSE forked
  /\ editor' = [editor EXCEPT ![e] = Free]
  /\ UNCHANGED <<package, buyer, changes, activeVars>>

-----------------------------------------------------------------------------

\* The toggles that have read isActive of p and not written it yet.
TogglesOf(p) == {e \in Editors : editor[e].step = "toggle" /\ editor[e].package = p}

\* isActive of p is written by the request e.
Mark(p, active, e) ==
  /\ wanted' = [wanted EXCEPT ![p] = active]
  /\ crossed' = IF TogglesOf(p) \ {e} # {} THEN crossed \union {p} ELSE crossed

CreateTokenPackage(p, v, active) ==
  /\ package[p] = NoPackage /\ Change
  /\ package' = [package EXCEPT ![p] =
       [exists |-> TRUE, isActive |-> active, deleted |-> FALSE, price |-> v]]
  /\ wanted' = [wanted EXCEPT ![p] = active]
  /\ UNCHANGED <<table, editor, buyer, toldVars, crossed>>

\* The input of an edit may leave either field out.
EditPrice(p, v) ==
  /\ package[p] # NoPackage /\ Change
  /\ package' = [package EXCEPT ![p].price = v]
  /\ UNCHANGED <<table, editor, buyer, toldVars, activeVars>>

EditActive(e, p, active) ==
  /\ editor[e] = Free /\ package[p] # NoPackage /\ Change
  /\ package' = [package EXCEPT ![p].isActive = active]
  /\ Mark(p, active, e)
  /\ UNCHANGED <<table, editor, buyer, toldVars>>

DeleteTokenPackage(p) ==
  /\ package[p] # NoPackage /\ Change
  /\ package' = [package EXCEPT ![p].deleted = TRUE]
  /\ UNCHANGED <<table, editor, buyer, toldVars, activeVars>>

\* toggleTokenPackageStatus reads isActive and writes its negation, in two calls.
ReadStatus(e, p) ==
  /\ editor[e] = Free /\ package[p] # NoPackage /\ Change
  /\ editor' = [editor EXCEPT ![e] =
       [step |-> "toggle", package |-> p, isActive |-> package[p].isActive]]
  /\ UNCHANGED <<shopVars, buyer, toldVars, activeVars>>

\* Mutant of ToggleStatus: it writes the status it has read.
ToggleToSame(e) ==
  /\ editor[e].step = "toggle"
  /\ LET p == editor[e].package
     IN package' = [package EXCEPT ![p].isActive = editor[e].isActive] /\ Mark(p, ~wanted[p], e)
  /\ editor' = [editor EXCEPT ![e] = Free]
  /\ UNCHANGED <<table, buyer, changes, toldVars>>

ToggleStatus(e) ==
  /\ editor[e].step = "toggle"
  /\ LET p == editor[e].package
     IN /\ package' = [package EXCEPT ![p].isActive = ~editor[e].isActive]
        /\ Mark(p, ~wanted[p], e)
  /\ editor' = [editor EXCEPT ![e] = Free]
  /\ UNCHANGED <<table, buyer, changes, toldVars>>

\* getAllTokenPackagesByStatus
Listed(active) == {p \in Packages : /\ package[p] # NoPackage /\ ~package[p].deleted
                                    /\ package[p].isActive = active}

-----------------------------------------------------------------------------

\* preparePurchaseDetails: deletedAt is not looked at; the request stops where there is
\* no active package, no price or no quantity.
Prepare(b, terms) ==
  /\ buyer[b] = Free
  /\ buyer' = [buyer EXCEPT ![b] = [step |-> "charge", terms |-> terms]]
  /\ UNCHANGED <<shopVars, editor, changes, toldVars, activeVars>>

PreparePackage(b, p) ==
  /\ package[p] # NoPackage /\ package[p].isActive
  /\ Prepare(b, [price |-> package[p].price, amount |-> package[p].price])

PrepareTokens(b, quantity) ==
  \E n \in Findable("tokenPrice") \ {0} :
    LET price == table["tokenPrice"][n].value
    IN Prepare(b, [price |-> price, amount |-> price * quantity])

\* Coinbase accepts the charge or refuses it.
CreateCharge(b) ==
  /\ buyer[b].step = "charge"
  /\ \/ buyer' = [buyer EXCEPT ![b] = [step |-> "record", terms |-> @.terms,
                                       charged |-> @.terms.amount]]
     \/ buyer' = [buyer EXCEPT ![b] = Free]
  /\ UNCHANGED <<shopVars, editor, changes, toldVars, activeVars>>

\* Mutant of RecordPurchaseActivity: the price is read again.
RecordPriceNow(b) ==
  /\ buyer[b].step = "record"
  /\ \E p \in Packages : package[p] # NoPackage /\
       buyer' = [buyer EXCEPT ![b] = [step |-> "sold", terms |-> @.terms, charged |-> @.charged,
         recorded |-> [price |-> package[p].price, amount |-> @.charged]]]
  /\ UNCHANGED <<shopVars, editor, changes, toldVars, activeVars>>

RecordPurchaseActivity(b) ==
  /\ buyer[b].step = "record"
  /\ buyer' = [buyer EXCEPT ![b] = [step |-> "sold", terms |-> @.terms,
                                    charged |-> @.charged, recorded |-> @.terms]]
  /\ UNCHANGED <<shopVars, editor, changes, toldVars, activeVars>>

-----------------------------------------------------------------------------

EditorsNext ==
  \E e \in Editors :
    \/ \E x \in Cells, v \in Values : FindRow(e, x[1], x[2], v)
    \/ SaveRow(e)
    \/ \E p \in Packages : ReadStatus(e, p) \/ \E a \in BOOLEAN : EditActive(e, p, a)
    \/ ToggleStatus(e)

PackagesNext ==
  \E p \in Packages :
    \/ \E v \in Values : EditPrice(p, v) \/ \E a \in BOOLEAN : CreateTokenPackage(p, v, a)
    \/ DeleteTokenPackage(p)

BuyersNext ==
  \E b \in Buyers :
    \/ \E p \in Packages : PreparePackage(b, p)
    \/ \E q \in Quantities : "tokenPrice" \in Tables /\ PrepareTokens(b, q)
    \/ CreateCharge(b)
    \/ RecordPurchaseActivity(b)

CatalogNext == EditorsNext \/ PackagesNext \/ BuyersNext

CatalogSpec == CatalogInit /\ [][CatalogNext]_catalogVars

-----------------------------------------------------------------------------

\* Every variable of Catalog has the shape the code gives it.
CatalogTypeOK ==
  /\ table = [t \in Tables |-> table[t]]
  /\ \A t \in Tables : table[t] \in Seq([Columns(t) -> Values \union {0}])
  /\ package \in [Packages -> Package \union {NoPackage}]
  /\ editor \in [Editors -> Saving \union Toggling \union {Free}]
  /\ buyer \in [Buyers -> Charging \union Selling \union Sold \union {Free}]
  /\ changes \in 0..MaxChanges
  /\ told \in [Cells -> Values \union {0}] /\ forked \subseteq Tables
  /\ wanted \in [Packages -> BOOLEAN] /\ crossed \subseteq Packages

\* As long as no two requests created the row of a table at once (for images the unique
\* column does not let them), the table has one row, and every reader finds in every
\* column the last value a request has written, whichever requests overlapped and in
\* whatever order their two calls came.
OneRowTold ==
  \A x \in Cells :
    x[1] \in forked \ {"image"} \/
      /\ Len(table[x[1]]) <= 1
      /\ \A n \in Findable(x[1]) : n # 0 => table[x[1]][n][x[2]] = told[x]

\* A package is listed with the status that the completed requests give it, each toggle
\* counted once, unless isActive was written between the two calls of a toggle.
TogglesCount ==
  \A p \in Packages \ crossed :
    package[p] # NoPackage /\ ~package[p].deleted =>
      p \in Listed(wanted[p]) /\ p \notin Listed(~wanted[p])

\* What was charged is what the purchase records, and the recorded price and amount are
\* of one reading of the catalog: edits between the calls of a purchase change nothing.
SoldOnTerms ==
  \A b \in Buyers : buyer[b].step = "sold" =>
    buyer[b].recorded.amount = buyer[b].charged /\ buyer[b].recorded = buyer[b].terms
=============================================================================
