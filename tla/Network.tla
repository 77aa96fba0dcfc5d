------------------------------- MODULE Network -------------------------------
(***************************************************************************)
(* ReferralService: the map of who brought whom, level by level below a    *)
(* customer.  A recursive query collects the referrals in one statement,   *)
(* and a loop over its rows, ordered by referrer and referee, builds the   *)
(* entries of the map.  PostgreSQL's evaluation of the query is a step per *)
(* iteration and the loop a step per row; the statement reads one snapshot *)
(* and nothing is read after it, so the customers stand still meanwhile.   *)
(* Lists are sets, the fields of a customer are left out, and of its       *)
(* status only PENDING counts.                                             *)
(***************************************************************************)
EXTENDS Integers

CONSTANTS
  MaxMembers,    \* bound: rows of the table Customer
  ViewLevels,    \* what Config.referralViewLevel may hold, 0 for no row
  StartLevels    \* inputs

ASSUME NetworkAssumption ==
  /\ MaxMembers \in Nat \ {0}
  /\ ViewLevels \subseteq Int /\ StartLevels \subseteq Int

VARIABLES
  members, referrer, pending,   \* table Customer: ids given out, referralCustomerId, PENDING
  stage, root, start, depth,    \* the request for a map and its inputs
  result, working, iteration,   \* the query: rows so far, of the last iteration, its number
  remaining,                    \* rows the loop has not reached
  known, entries, referees      \* customersMap; <<referrer, level>> and <<referrer, referee>> of the map

tableVars == <<members, referrer, pending>>
inputVars == <<root, start, depth>>
queryVars == <<result, working, iteration>>
loopVars == <<remaining, known, entries, referees>>
networkVars == <<tableVars, stage, inputVars, queryVars, loopVars>>

Members == 1..members
Ids == 1..MaxMembers

NetworkInit ==
  /\ members = 1
  /\ referrer = [c \in Ids |-> 0]
  /\ pending = {1}
  /\ stage = "none"
  /\ root = 0 /\ start = 0 /\ depth = 0
  /\ result = {} /\ working = {} /\ iteration = 0
  /\ remaining = {} /\ known = {} /\ entries = {} /\ referees = {}

-----------------------------------------------------------------------------

\* register with the code of a customer that exists.
Refer(p) ==
  /\ stage = "none" /\ members < MaxMembers /\ p \in Members
  /\ members' = members + 1
  /\ referrer' = [referrer EXCEPT ![members + 1] = p]
  /\ pending' = pending \union {members + 1}
  /\ UNCHANGED <<stage, inputVars, queryVars, loopVars>>

Activate(c) ==
  /\ stage = "none" /\ c \in pending
  /\ pending' = pending \ {c}
  /\ UNCHANGED <<members, referrer, stage, inputVars, queryVars, loopVars>>

\* validateInputs, the depth in force, and the terms of the query that do not recurse.
GetReferralMap(r, s, level) ==
  /\ stage = "none" /\ r \in Members /\ s >= 0
  /\ root' = r /\ start' = s
  /\ depth' = IF level = 0 THEN 3 ELSE level
  /\ result' = {<<r, r, -1>>} \union {<<r, c, 0>> : c \in {x \in Members : referrer[x] = r}}
  /\ working' = result'
  /\ iteration' = 0
  /\ stage' = "query"
  /\ UNCHANGED <<tableVars, loopVars>>

\* The recursive term: the rows of the last iteration joined with their referees' referrals.
Joined == {x \in working \X Members : x[1][3] < depth /\ referrer[x[2]] = x[1][2]}
Expanded == {<<x[1][2], x[2], x[1][3] + 1>> : x \in Joined}

Recurse ==
  /\ stage = "query" /\ working # {}
  /\ result' = result \union Expanded
  /\ working' = Expanded
  /\ iteration' = iteration + 1
  /\ UNCHANGED <<tableVars, stage, inputVars, loopVars>>

\* WHERE c."customerStatus" <> PENDING, and the empty maps the loop starts from.
EndQuery ==
  /\ stage = "query" /\ working = {}
  /\ remaining' = {row \in result : row[2] \notin pending}
  /\ known' = {} /\ entries' = {} /\ referees' = {}
  /\ stage' = "build"
  /\ UNCHANGED <<tableVars, inputVars, queryVars>>

\* Mutant of Before: in descending order.
BeforeDescending(a, b) == a[1] > b[1] \/ (a[1] = b[1] /\ a[2] < b[2])

\* ORDER BY "referrer_id", "referee_id"
Before(a, b) == a[1] < b[1] \/ (a[1] = b[1] /\ a[2] < b[2])

\* One turn of the loop: a referrer that no row before has named gets no entry.
BuildRow(row) ==
  /\ stage = "build"
  /\ row \in remaining /\ \A other \in remaining \ {row} : Before(row, other)
  /\ remaining' = remaining \ {row}
  /\ known' = known \union {row[2]}
  /\ IF row[3] # -1 /\ row[1] \in known' /\ row[3] <= depth
     THEN /\ entries' = IF \E e \in entries : e[1] = row[1] THEN entries
                        ELSE entries \union {<<row[1], row[3] + start>>}
          /\ referees' = referees \union {<<row[1], row[2]>>}
     ELSE UNCHANGED <<entries, referees>>
  /\ UNCHANGED <<tableVars, stage, inputVars, queryVars>>

ReturnMap ==
  /\ stage = "build" /\ remaining = {}
  /\ stage' = "returned"
  /\ UNCHANGED <<tableVars, inputVars, queryVars, loopVars>>

NetworkNext ==
  \/ \E p \in Ids : Refer(p)
  \/ \E c \in Ids : Activate(c)
  \/ \E r \in Ids, s \in StartLevels, level \in ViewLevels : GetReferralMap(r, s, level)
  \/ Recurse
  \/ EndQuery
  \/ \E row \in remaining : BuildRow(row)
  \/ ReturnMap

NetworkSpec == NetworkInit /\ [][NetworkNext]_networkVars

-----------------------------------------------------------------------------

Row == Ids \X Ids \X Int

\* Every variable of Network has the shape the code gives it.
NetworkTypeOK ==
  /\ members \in Ids
  /\ referrer \in [Ids -> 0..MaxMembers]
  /\ pending \subseteq Ids
  /\ stage \in {"none", "query", "build", "returned"}
  /\ root \in 0..MaxMembers /\ start \in Nat /\ depth \in Int
  /\ result \subseteq Row /\ working \subseteq Row /\ iteration \in Nat
  /\ remaining \subseteq Row
  /\ known \subseteq Ids
  /\ entries \subseteq Ids \X Int
  /\ referees \subseteq Ids \X Ids

\* l referrals lead from the customer the map is about down to c.
Below(c, l) ==
  \E path \in [0..l -> Ids] :
    /\ path[0] = root /\ path[l] = c
    /\ \A i \in 1..l : path[i] \in Members /\ referrer[path[i]] = path[i - 1]

Brought(p) == {c \in Members \ pending : referrer[c] = p}

\* A referrer has an entry when it is no deeper than the depth in force, has passed
\* PENDING and has brought someone who has.
HasEntry(p, l) == l <= depth /\ Below(p, l) /\ p \notin pending /\ Brought(p) # {}

Depths == 0..MaxMembers

\* getReferralMap: whoever of the levels in between is PENDING, the map has one entry
\* for each referrer within the depth, at its distance from the customer asked about,
\* with exactly the referees it has brought.
ReferralMapCorrect ==
  stage = "returned" =>
    /\ entries = {<<x[1], x[2] + start>> : x \in
                    {y \in Members \X Depths : HasEntry(y[1], y[2])}}
    /\ referees = {x \in Members \X Members :
                     x[2] \in Brought(x[1]) /\ \E l \in Depths : HasEntry(x[1], l)}
=============================================================================
