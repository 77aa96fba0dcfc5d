-------------------------------- MODULE Pages --------------------------------
(***************************************************************************)
(* The listings that are read page by page: getCustomers, getCharges,      *)
(* getPurchaseActivities and getCommissions.  Each fetches one row more    *)
(* than the limit from the row of the cursor on, and gives the last row it *)
(* returns as the cursor of the next page, while rows are added and        *)
(* changed.  A row is its id, what its place in the order depends on, and  *)
(* whether the filter of the reader matches it.  Times of creation grow    *)
(* with the ids and no two times are equal.                                *)
(***************************************************************************)
EXTENDS Integers, FiniteSets

CONSTANTS
  Listings,   \* the listings read
  Limits,     \* inputs
  MaxRows,    \* bound: rows of the table
  MaxEdits    \* bound: rows added or changed while a reader is at it

ASSUME PagesAssumption ==
  /\ Listings \subseteq {"customers", "charges", "activities", "commissions"}
  /\ Limits \subseteq Nat \ {0} /\ MaxRows \in Nat /\ MaxEdits \in Nat

VARIABLES
  listing, rows,   \* the table and the ids given out
  updated,         \* per row: the place of its updatedAt among them, where it counts
  settled,         \* rows isTransferred, purchaseConfirmed or of another status
  reader, filter, limit, cursor,   \* the reader's stage and inputs
  edits,
  shown, again,    \* history: rows it has been shown, and those shown on two pages
  cursors,         \* history: the cursors it has been given
  steady,          \* history: rows that matched when it began and have not changed since
  moved            \* history: a row changed its place while it was the cursor

readerVars == <<reader, filter, limit, cursor>>
historyVars == <<shown, again, cursors>>
pagesVars == <<listing, rows, updated, settled, readerVars, edits, historyVars, steady, moved>>

Rows == 1..rows
Moving == {"activities", "commissions"}

\* orderBy
Precedes(a, b) ==
  \/ listing = "customers" /\ a < b
  \/ listing = "charges" /\ a > b
  \/ listing = "activities" /\ updated[a] > updated[b]
  \/ /\ listing = "commissions"
     /\ \/ a \notin settled /\ b \in settled
        \/ (a \in settled <=> b \in settled) /\ a > b

\* where
Matching ==
  {r \in Rows : \/ filter = "all"
                \/ filter = "open" /\ r \notin settled
                \/ filter = "settled" /\ r \in settled}

PagesInit ==
  /\ listing \in Listings
  /\ rows = 0
  /\ updated = [r \in 1..MaxRows |-> 0]
  /\ settled = {}
  /\ reader = "none" /\ filter = "all" /\ limit \in Limits /\ cursor = 0
  /\ edits = 0
  /\ shown = {} /\ again = {} /\ cursors = {}
  /\ steady = {} /\ moved = FALSE

-----------------------------------------------------------------------------

\* The latest time is r's, and the others keep their order.
Stamped(r) ==
  [q \in DOMAIN updated |-> IF q = r THEN rows
                           ELSE IF updated[q] > updated[r] THEN updated[q] - 1 ELSE updated[q]]

\* Whoever changes the table; before a reader begins, any number of times.
Edit == IF reader = "reading" THEN edits < MaxEdits /\ edits' = edits + 1
                              ELSE reader = "none" /\ UNCHANGED edits

AddRow ==
  /\ Edit /\ rows < MaxRows
  /\ rows' = rows + 1
  /\ updated' = [updated EXCEPT ![rows + 1] = rows + 1]
  /\ UNCHANGED <<listing, settled, readerVars, historyVars, steady, moved>>

\* updateCommissionTransferStatus, performTransaction, a customer's new status.  What is
\* written of a charge is neither filtered nor ordered by.
ChangeRow(r) ==
  /\ Edit /\ r \in Rows /\ listing # "charges"
  /\ settled' \in {settled, settled \union {r}, settled \ {r}}
  /\ settled' # settled \/ listing = "activities"
  /\ listing \in Moving => settled \subseteq settled'
  /\ updated' = IF listing = "activities" THEN Stamped(r) ELSE updated
  /\ steady' = steady \ {r}
  /\ moved' = (moved \/ (listing \in Moving /\ r = cursor))
  /\ UNCHANGED <<listing, rows, readerVars, historyVars>>

\* The first request for a page: no cursor, and a filter that stays the same.
BeginReading(f) ==
  /\ reader = "none"
  /\ listing = "charges" => f = "all"
  /\ reader' = "reading" /\ filter' = f
  /\ UNCHANGED <<listing, rows, updated, settled, limit, cursor, edits, historyVars, moved>>
  /\ steady' = Matching'

\* Mutants of From: the rows up to the cursor (a negative take), and the first rows again.
FromBackwards(c) == {r \in Matching : c = 0 \/ r = c \/ Precedes(r, c)}
FromStart(c) == Matching

\* Prisma starts at the row of the cursor itself, wherever it now is and whether or
\* not the filter still matches it.
From(c) == {r \in Matching : c = 0 \/ r = c \/ Precedes(c, r)}

FirstOf(n, S) == {r \in S : Cardinality({q \in S : Precedes(q, r)}) < n}

\* Mutant of LastOf: the first row of a page becomes the cursor.
FirstAsCursor(S) == CHOOSE r \in S : \A q \in S \ {r} : Precedes(r, q)

LastOf(S) == CHOOSE r \in S : \A q \in S \ {r} : Precedes(q, r)

\* take limit + 1: the row beyond the limit only tells that there is a next page.
GetPage ==
  /\ reader = "reading"
  /\ LET records == FirstOf(limit + 1, From(cursor))
         page == FirstOf(limit, records)
     IN /\ shown' = shown \union page
        /\ again' = again \union (page \intersect shown)
        /\ IF records # page
           THEN /\ cursor' = LastOf(page)
                /\ cursors' = cursors \union {cursor'}
                /\ UNCHANGED reader
           ELSE /\ reader' = "ended"
                /\ UNCHANGED <<cursor, cursors>>
  /\ UNCHANGED <<listing, rows, updated, settled, filter, limit, edits, steady, moved>>

PagesNext ==
  \/ AddRow
  \/ \E r \in 1..MaxRows : ChangeRow(r)
  \/ \E f \in {"all", "open", "settled"} : BeginReading(f)
  \/ GetPage

PagesSafety == PagesInit /\ [][PagesNext]_pagesVars

\* The reader asks for page after page.
PagesFairness == WF_pagesVars(GetPage)
PagesSpec == PagesSafety /\ PagesFairness

-----------------------------------------------------------------------------

\* Every variable of Pages has the shape the code gives it.
PagesTypeOK ==
  /\ listing \in Listings /\ rows \in 0..MaxRows
  /\ updated \in [1..MaxRows -> 0..MaxRows]
  /\ settled \subseteq Rows
  /\ reader \in {"none", "reading", "ended"}
  /\ filter \in {"all", "open", "settled"} /\ limit \in Limits
  /\ cursor \in 0..rows /\ edits \in 0..MaxEdits
  /\ shown \subseteq Rows /\ again \subseteq shown /\ cursors \subseteq Rows
  /\ steady \subseteq Rows /\ moved \in BOOLEAN

\* getCustomers, getCharges, getPurchaseActivities, getCommissions: when the last page
\* has been read, every row that matched all along and was not changed has been shown,
\* unless a commission was transferred while it was the cursor.
NothingMissed ==
  reader = "ended" /\ ~(listing = "commissions" /\ moved) => steady \subseteq shown

\* Of the rows that were not changed only the cursors are shown on two pages, unless
\* a row moved while it was the cursor.
OnlyCursorsAgain == ~moved => again \intersect steady \subseteq cursors

\* With a limit of two or more, whoever follows the cursors reaches the last page.
PagesEnd == (reader = "reading" /\ limit > 1) ~> reader = "ended"

\* The descriptions of the arguments: a page picks up where the last query left off.
PicksUpWhereLeft == again \intersect steady = {}
=============================================================================
