------------------------------ MODULE Payments ------------------------------
(***************************************************************************)
(* The purchase path: purchaseTokens, the Coinbase webhook and the admin's *)
(* calculateCommission, as requests that interleave over one database.     *)
(*                                                                         *)
(* Every awaited call that writes is a step of its request.  Coinbase is   *)
(* the environment: it keeps the charge, sends one webhook event per entry *)
(* of its timeline, and sends an event again until a request that carries  *)
(* it is answered with a 2xx status.                                       *)
(*                                                                         *)
(* The webhook does nothing but answer.  The decorator LogError makes      *)
(* CoinbaseService.verify async, handleWebhook does not await it, and the  *)
(* first look at the event it takes the promise for throws.                *)
(***************************************************************************)
EXTENDS Naturals, FiniteSets

CONSTANTS
  Codes,       \* charge codes Coinbase can hand out
  Requests,    \* HTTP requests the API can be working on at one time
  NoCode, NoEvent,
  MaxCrashes,  \* bound: ends of the API process and answers lost on the way
  MaxErrors,   \* bound: awaited calls that reject (database or network errors)
  MaxAsked,    \* bound: calculations the admin asks for, for one charge
  MaxEvents    \* bound: events sent, after which no timeline goes on

ASSUME ConstantsAssumption ==
  /\ NoCode \notin Codes
  /\ MaxCrashes \in Nat /\ MaxErrors \in Nat
  /\ MaxAsked \in Nat /\ MaxEvents \in Nat

ASSUME RequestsAssumption == IsFiniteSet(Requests)

VARIABLES
  remote,      \* Coinbase: the last timeline entry of each charge
  sent,        \* Coinbase: every webhook event it has to deliver
  acked,       \* Coinbase: the events answered with a 2xx status, not sent again
  charges,     \* table Charge: the codes that have a row
  activities,  \* table PurchaseActivity: the charges that have a row
  confirmed,   \* PurchaseActivity.purchaseConfirmed
  batches,     \* table Commission: batches of rows committed for each charge
  pc, work, event,  \* per request: next step, its charge code, its webhook event
  sold,        \* history: the codes returned to their buyers
  asked,       \* history: calculations the admin has asked for
  told,        \* history: calculations the admin was told to have succeeded
  crashes, errors               \* bound counters

coinbaseVars == <<remote, sent>>
tables == <<charges, activities, confirmed, batches>>
locals == <<pc, work, event>>
seen == <<acked, sold, asked, told>>
bounds == <<crashes, errors>>
vars == <<remote, sent, acked, charges, activities, confirmed, batches, pc, work, event,
          sold, asked, told, crashes, errors>>

Status == {"NEW", "PENDING", "COMPLETED", "EXPIRED", "CANCELED", "UNRESOLVED", "RESOLVED"}
Event == [code : Codes, status : Status]

ASSUME NoEventAssumption == NoEvent \notin Event

\* The awaited calls of purchaseTokens and of calculateCommission.
PurchaseSteps == {"createCharge", "recordCharge", "recordActivity"}
CommissionSteps == {"getCharge", "commit"}
Running == PurchaseSteps \union CommissionSteps
\* Where a request is about to be answered: with a code, with a success, with an error.
Answers == {"sold", "granted", "error"}

Init ==
  /\ remote = [c \in Codes |-> "none"]
  /\ sent = {} /\ acked = {} /\ sold = {}
  /\ charges = {} /\ activities = {} /\ confirmed = {}
  /\ batches = [c \in Codes |-> 0]
  /\ asked = [c \in Codes |-> 0]
  /\ told = [c \in Codes |-> 0]
  /\ pc = [p \in Requests |-> "idle"]
  /\ work = [p \in Requests |-> NoCode]
  /\ event = [p \in Requests |-> NoEvent]
  /\ crashes = 0 /\ errors = 0

Goto(p, step) == pc' = [pc EXCEPT ![p] = step]

\* A call of p took effect; its result comes back, or the call rejects all the same.
Returned(p, step) ==
  \/ Goto(p, step) /\ UNCHANGED errors
  \/ Goto(p, "error") /\ errors < MaxErrors /\ errors' = errors + 1

-----------------------------------------------------------------------------
(* Coinbase.                                                                *)

\* The timeline of c gets an entry, and Coinbase an event to deliver.
Publish(c, s) ==
  /\ remote' = [remote EXCEPT ![c] = s]
  /\ sent' = sent \union {[code |-> c, status |-> s]}

Follows ==
  { <<"NEW", "PENDING">>, <<"NEW", "EXPIRED">>, <<"NEW", "CANCELED">>,
    <<"PENDING", "COMPLETED">>, <<"PENDING", "UNRESOLVED">>, <<"COMPLETED", "UNRESOLVED">>,
    <<"EXPIRED", "UNRESOLVED">>, <<"UNRESOLVED", "RESOLVED">> }

\* A customer can pay a charge as soon as it has a row, whose hostedUrl can be queried.
CoinbaseAdvances(c) ==
  /\ Cardinality(sent) < MaxEvents
  /\ \E s \in Status :
       /\ <<remote[c], s>> \in Follows
       /\ s \in {"PENDING", "UNRESOLVED"} => c \in charges
       /\ Publish(c, s)
  /\ UNCHANGED <<tables, locals, seen, bounds>>

-----------------------------------------------------------------------------
(* purchaseTokens: writes to Coinbase and to two tables.  What it reads of  *)
(* the catalog before them is the subject of module Catalog.                *)

\* Codes that belong to no charge, and are not going to be another request's.
Free(c) ==
  /\ remote[c] = "none"
  /\ \A q \in Requests : pc[q] = "createCharge" => work[q] # c

\* The code Coinbase is going to choose is fixed here, so that no request waits for one.
StartPurchase(p) ==
  /\ pc[p] = "idle"
  /\ \E c \in Codes : Free(c) /\ work' = [work EXCEPT ![p] = c]
  /\ Goto(p, "createCharge")
  /\ UNCHANGED <<coinbaseVars, tables, event, seen, bounds>>

CreateCharge(p) ==
  /\ pc[p] = "createCharge"
  /\ Publish(work[p], "NEW")
  /\ Returned(p, "recordCharge")
  /\ UNCHANGED <<tables, work, event, seen, crashes>>

RecordCharge(p) ==
  /\ pc[p] = "recordCharge"
  /\ charges' = charges \union {work[p]}
  /\ Returned(p, "recordActivity")
  /\ UNCHANGED <<coinbaseVars, activities, confirmed, batches, work, event, seen, crashes>>

RecordActivity(p) ==
  /\ pc[p] = "recordActivity"
  /\ activities' = activities \union {work[p]}
  /\ Returned(p, "sold")
  /\ UNCHANGED <<coinbaseVars, charges, confirmed, batches, work, event, seen, crashes>>

-----------------------------------------------------------------------------
(* handleWebhook.  It awaits nothing, so a delivery is one step: verify is  *)
(* called, and event.type.startsWith throws whatever the event is.          *)

Receive(p, e) ==
  /\ pc[p] = "idle"
  /\ e \in sent \ acked
  /\ event' = [event EXCEPT ![p] = e]
  /\ Goto(p, "error")
  /\ UNCHANGED <<coinbaseVars, tables, work, seen, bounds>>

-----------------------------------------------------------------------------
(* calculateCommission, which only the admin's mutation gets to.  Which     *)
(* customers earn what is the subject of module Commissions; here a run is  *)
(* one batch of rows, committed with purchaseConfirmed.                     *)

StartCalculation(p) ==
  /\ pc[p] = "idle"
  /\ \E c \in Codes :
       /\ asked[c] < MaxAsked
       /\ asked' = [asked EXCEPT ![c] = @ + 1]
       /\ work' = [work EXCEPT ![p] = c]
  /\ Goto(p, "getCharge")
  /\ UNCHANGED <<coinbaseVars, tables, event, acked, sold, told, bounds>>

\* Mutant of GetCharge: a charge without a purchase activity is let through.
GetChargeAlone(p) ==
  /\ pc[p] = "getCharge"
  /\ Goto(p, IF work[p] \in charges THEN "commit" ELSE "error")
  /\ UNCHANGED <<coinbaseVars, tables, work, event, seen, bounds>>

\* Without a charge it is refused, and without an activity it throws.
GetCharge(p) ==
  /\ pc[p] = "getCharge"
  /\ Goto(p, IF work[p] \in activities THEN "commit" ELSE "error")
  /\ UNCHANGED <<coinbaseVars, tables, work, event, seen, bounds>>

\* Mutants of PerformTransaction: the purchase is confirmed by a write of its own, and
\* a transaction without an answer is tried again.
PerformInTwoWrites(p) ==
  /\ pc[p] = "commit"
  /\ \/ /\ work[p] \notin confirmed
        /\ confirmed' = confirmed \union {work[p]}
        /\ UNCHANGED <<batches, pc, errors>>
     \/ /\ work[p] \in confirmed
        /\ batches' = [batches EXCEPT ![work[p]] = @ + 1]
        /\ Returned(p, "granted")
        /\ UNCHANGED confirmed
  /\ UNCHANGED <<coinbaseVars, charges, activities, work, event, seen, crashes>>

PerformUntilAnswered(p) ==
  /\ pc[p] = "commit"
  /\ batches' = [batches EXCEPT ![work[p]] = @ + 1]
  /\ confirmed' = confirmed \union {work[p]}
  /\ \/ Goto(p, "granted") /\ UNCHANGED errors
     \/ UNCHANGED pc /\ errors < MaxErrors /\ errors' = errors + 1
  /\ UNCHANGED <<coinbaseVars, charges, activities, work, event, seen, crashes>>

PerformTransaction(p) ==
  /\ pc[p] = "commit"
  /\ batches' = [batches EXCEPT ![work[p]] = @ + 1]
  /\ confirmed' = confirmed \union {work[p]}
  /\ Returned(p, "granted")
  /\ UNCHANGED <<coinbaseVars, charges, activities, work, event, seen, crashes>>

-----------------------------------------------------------------------------
(* Answers, failures and the end of the process.                            *)

Release(p) ==
  /\ Goto(p, "idle")
  /\ work' = [work EXCEPT ![p] = NoCode]
  /\ event' = [event EXCEPT ![p] = NoEvent]

\* Mutant of StatusCode: the code in the body is that of the answer.
CodeInBody == 400

\* The webhook's catch returns an object with a statusCode, which is the body of a
\* POST that succeeded.
StatusCode == 201

Answer(p) ==
  /\ pc[p] \in Answers
  /\ acked' = IF event[p] # NoEvent /\ StatusCode \in 200..299
              THEN acked \union {event[p]} ELSE acked
  /\ sold' = IF pc[p] = "sold" THEN sold \union {work[p]} ELSE sold
  /\ told' = IF pc[p] = "granted" THEN [told EXCEPT ![work[p]] = @ + 1] ELSE told
  /\ Release(p)
  /\ UNCHANGED <<coinbaseVars, tables, asked, bounds>>

\* The answer does not get to Coinbase, the buyer or the admin, or comes too late.
LoseAnswer(p) ==
  /\ pc[p] \in Answers
  /\ crashes < MaxCrashes
  /\ crashes' = crashes + 1
  /\ Release(p)
  /\ UNCHANGED <<coinbaseVars, tables, seen, errors>>

\* An awaited call rejects without an effect; the request ends with an error.
Fail(p) ==
  /\ pc[p] \in Running
  /\ errors < MaxErrors
  /\ errors' = errors + 1
  /\ Goto(p, "error")
  /\ UNCHANGED <<coinbaseVars, tables, work, event, seen, crashes>>

\* The process ends, and every request it was working on with it.
EndProcess ==
  /\ crashes < MaxCrashes
  /\ crashes' = crashes + 1
  /\ pc' = [p \in Requests |-> "idle"]
  /\ work' = [p \in Requests |-> NoCode]
  /\ event' = [p \in Requests |-> NoEvent]

Restart ==
  /\ EndProcess
  /\ UNCHANGED <<coinbaseVars, tables, seen, errors>>

\* A delivery whose signature does not verify: the rejection of verify is handled by
\* nobody and ends the process, after the error was answered or before.
UnhandledRejection(e) ==
  /\ e \in sent \ acked
  /\ EndProcess
  /\ acked' \in {acked, acked \union {e}}
  /\ UNCHANGED <<coinbaseVars, tables, sold, asked, told, errors>>

-----------------------------------------------------------------------------

Progress(p) ==
  \/ CreateCharge(p) \/ RecordCharge(p) \/ RecordActivity(p)
  \/ GetCharge(p) \/ PerformTransaction(p)
  \/ Answer(p)

Next ==
  \/ \E c \in Codes : CoinbaseAdvances(c)
  \/ \E p \in Requests :
       \/ StartPurchase(p) \/ StartCalculation(p)
       \/ \E e \in sent : Receive(p, e)
       \/ Progress(p)
       \/ LoseAnswer(p) \/ Fail(p)
  \/ \E e \in sent : UnhandledRejection(e)
  \/ Restart

Spec == Init /\ [][Next]_vars

(***************************************************************************)
(* Node runs every request that can run, so each request makes progress.   *)
(* Coinbase repeats an event it has no answer for; the request slots are a *)
(* bound of the model, hence the strong form.  Customers, the admin, the   *)
(* failures and the timeline owe nothing.                                  *)
(***************************************************************************)
Deliver(e) == e \in sent /\ \E p \in Requests : Receive(p, e)

Fairness ==
  /\ \A p \in Requests : WF_vars(Progress(p))
  /\ \A e \in Event : SF_vars(Deliver(e))

FairSpec == Spec /\ Fairness

-----------------------------------------------------------------------------

TypeOK ==
  /\ remote \in [Codes -> Status \union {"none"}]
  /\ sent \subseteq Event /\ acked \subseteq sent
  /\ charges \subseteq Codes /\ activities \subseteq charges
  /\ confirmed \subseteq activities /\ sold \subseteq activities
  /\ batches \in [Codes -> Nat] /\ asked \in [Codes -> Nat] /\ told \in [Codes -> Nat]
  /\ pc \in [Requests -> Running \union Answers \union {"idle"}]
  /\ work \in [Requests -> Codes \union {NoCode}]
  /\ event \in [Requests -> sent \union {NoEvent}]
  /\ crashes \in Nat /\ errors \in Nat

\* A purchase is confirmed exactly when commissions were granted for it (156-172).  They
\* are granted at most as often as the admin asked, and at least as often as the admin
\* was told: a calculation whose answer is lost may have been committed, two that overlap
\* may both be, since nothing looks at purchaseConfirmed, but nothing else calculates.
CalculationsAccounted ==
  \A c \in Codes : /\ c \in confirmed <=> batches[c] > 0
                   /\ told[c] <= batches[c] /\ batches[c] <= asked[c]

\* The purchase path implements the ledger: across overlapping requests, rejected calls,
\* lost answers and ends of the process, the rows and what is answered to buyers and the
\* admin change only as PurchaseLedger allows.
Ledger == INSTANCE PurchaseLedger WITH
  purchases <- activities,
  receipts <- sold,
  commissions <- batches

ImplementsLedger == Ledger!Spec

\* Coinbase gets rid of every event, across ends of the process and lost answers: the
\* failed delivery is answered with a success and never repeated (controller 425-437).
EventsEndAcknowledged == \A e \in Event : e \in sent ~> e \in acked

-----------------------------------------------------------------------------
(* What the comments in the code promise and the code does not keep.        *)

\* coinbase.controller.ts:101-102 "Calculate commission and Purchase ECR-20 token /
\* Set purchaseConfirmed = True": once the event of its completed payment is
\* acknowledged, a recorded purchase is confirmed.
CompletedPaymentConfirms ==
  \A e \in acked : e.status = "COMPLETED" /\ e.code \in activities => e.code \in confirmed

\* coinbase.controller.ts:435 "Respond with a 400 status if there was an error": a
\* delivery that failed is not what acknowledges its event.
FailedIsNotAcknowledged ==
  [][\A p \in Requests : pc[p] = "error" /\ pc'[p] = "idle" => event[p] \notin acked' \ acked]_vars
=============================================================================
