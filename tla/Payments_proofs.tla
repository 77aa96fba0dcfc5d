-------------------------- MODULE Payments_proofs --------------------------
(***************************************************************************)
(* Proofs about Payments for any codes, requests and bounds: its types,    *)
(* what becomes of the calculations the admin asks for, and that it        *)
(* implements PurchaseLedger.                                              *)
(***************************************************************************)
EXTENDS Payments, FiniteSetTheorems, TLAPS

\* What the program counter of a request says about its event and its charge.
RequestOK ==
  \A p \in Requests :
    /\ event[p] # NoEvent => pc[p] = "error"
    /\ pc[p] \in Running \union {"sold", "granted"} => work[p] \in Codes
    /\ pc[p] = "createCharge" => remote[work[p]] = "none"
    /\ pc[p] = "recordActivity" => work[p] \in charges
    /\ pc[p] \in {"commit", "sold", "granted"} => work[p] \in activities

\* Two purchases never have one charge, and a charge is recorded once.
Apart ==
  /\ \A c \in charges : remote[c] # "none"
  /\ \A p \in Requests : pc[p] \in {"recordCharge", "recordActivity"} =>
       remote[work[p]] # "none" /\ work[p] \notin activities
  /\ \A p, q \in Requests : p # q /\ pc[p] \in PurchaseSteps /\ pc[q] \in PurchaseSteps =>
       work[p] # work[q]

Inv == TypeOK /\ RequestOK /\ Apart

LEMMA InitInv == Init => Inv
BY ConstantsAssumption DEF Init, Inv, TypeOK, RequestOK, Apart, Running, PurchaseSteps,
   CommissionSteps, Answers

LEMMA PublishType ==
  ASSUME TypeOK, NEW c \in Codes, NEW s \in Status, Publish(c, s)
  PROVE  /\ remote' \in [Codes -> Status \union {"none"}]
         /\ remote'[c] # "none" /\ \A d \in Codes : d # c => remote'[d] = remote[d]
         /\ sent' \subseteq Event /\ sent \subseteq sent'
BY DEF Publish, TypeOK, Event, Status

LEMMA CoinbaseInv ==
  ASSUME Inv, NEW c \in Codes, CoinbaseAdvances(c)
  PROVE  Inv'
<1>1. PICK s \in Status : Publish(c, s) /\ <<remote[c], s>> \in Follows
  BY DEF CoinbaseAdvances
<1>2. remote[c] # "none"
  BY <1>1 DEF Follows
<1>3. /\ remote' \in [Codes -> Status \union {"none"}]
      /\ remote'[c] # "none" /\ \A d \in Codes : d # c => remote'[d] = remote[d]
      /\ sent' \subseteq Event /\ sent \subseteq sent'
  BY <1>1, PublishType DEF Inv
<1>4. UNCHANGED <<tables, locals, seen, bounds>>
  BY DEF CoinbaseAdvances
<1>5. TypeOK'
  BY <1>3, <1>4 DEF Inv, TypeOK, tables, locals, seen, bounds
<1>6. RequestOK'
  BY <1>2, <1>3, <1>4 DEF Inv, RequestOK, tables, locals, Running, PurchaseSteps
<1>7. Apart'
  BY <1>2, <1>3, <1>4 DEF Inv, TypeOK, RequestOK, Apart, tables, locals, Running, PurchaseSteps
<1>8. QED
  BY <1>5, <1>6, <1>7 DEF Inv

LEMMA StartPurchaseInv ==
  ASSUME Inv, NEW p \in Requests, StartPurchase(p)
  PROVE  Inv'
<1>1. PICK c \in Codes : Free(c) /\ work' = [work EXCEPT ![p] = c]
  BY DEF StartPurchase
<1>2. /\ pc[p] = "idle" /\ pc' = [pc EXCEPT ![p] = "createCharge"]
      /\ UNCHANGED <<remote, sent, charges, activities, confirmed, batches, event, acked,
                     sold, asked, told, crashes, errors>>
  BY DEF StartPurchase, Goto, coinbaseVars, tables, seen, bounds
<1>3. TypeOK'
  BY <1>1, <1>2 DEF Inv, TypeOK, Running, PurchaseSteps
<1>4. RequestOK'
  BY <1>1, <1>2 DEF Inv, TypeOK, RequestOK, Free, Running, PurchaseSteps, CommissionSteps
<1>5. Apart'
  BY <1>1, <1>2 DEF Inv, TypeOK, RequestOK, Apart, Free, Running, PurchaseSteps
<1>6. QED
  BY <1>3, <1>4, <1>5 DEF Inv

LEMMA CreateChargeInv ==
  ASSUME Inv, NEW p \in Requests, CreateCharge(p)
  PROVE  Inv'
<1>1. /\ pc[p] = "createCharge" /\ work[p] \in Codes /\ remote[work[p]] = "none"
      /\ work[p] \notin charges /\ work[p] \notin activities /\ event[p] = NoEvent
  BY DEF CreateCharge, Inv, TypeOK, RequestOK, Apart, Running, PurchaseSteps
<1>2. /\ remote' \in [Codes -> Status \union {"none"}]
      /\ remote'[work[p]] # "none" /\ \A d \in Codes : d # work[p] => remote'[d] = remote[d]
      /\ sent' \subseteq Event /\ sent \subseteq sent'
  <2>1. "NEW" \in Status /\ Publish(work[p], "NEW")
    BY DEF Status, CreateCharge
  <2>2. QED
    BY <1>1, <2>1, PublishType DEF Inv
<1>3. /\ \/ pc' = [pc EXCEPT ![p] = "recordCharge"] /\ errors' = errors
         \/ pc' = [pc EXCEPT ![p] = "error"] /\ errors' = errors + 1
      /\ UNCHANGED <<charges, activities, confirmed, batches, work, event, acked,
                     sold, asked, told, crashes>>
  BY DEF CreateCharge, Returned, Goto, tables, seen
<1>4. TypeOK'
  BY <1>2, <1>3 DEF Inv, TypeOK, Running, PurchaseSteps, Answers
<1>5. RequestOK'
  BY <1>1, <1>2, <1>3 DEF Inv, TypeOK, RequestOK, Apart, Running, PurchaseSteps, CommissionSteps
<1>6. Apart'
  BY <1>1, <1>2, <1>3 DEF Inv, TypeOK, RequestOK, Apart, Running, PurchaseSteps
<1>7. QED
  BY <1>4, <1>5, <1>6 DEF Inv

LEMMA RecordInv ==
  ASSUME Inv, NEW p \in Requests, RecordCharge(p) \/ RecordActivity(p)
  PROVE  Inv'
<1>1. CASE RecordCharge(p)
  <2>1. TypeOK'
    BY <1>1 DEF RecordCharge, Returned, Goto, Inv, TypeOK, RequestOK, Running, PurchaseSteps,
       Answers, coinbaseVars, seen
  <2>2. RequestOK'
    BY <1>1 DEF RecordCharge, Returned, Goto, Inv, TypeOK, RequestOK, Running, PurchaseSteps,
       CommissionSteps, coinbaseVars
  <2>3. Apart'
    BY <1>1 DEF RecordCharge, Returned, Goto, Inv, TypeOK, RequestOK, Apart, Running,
       PurchaseSteps, coinbaseVars
  <2>4. QED
    BY <2>1, <2>2, <2>3 DEF Inv
<1>2. CASE RecordActivity(p)
  <2>1. TypeOK'
    BY <1>2 DEF RecordActivity, Returned, Goto, Inv, TypeOK, RequestOK, Running, PurchaseSteps,
       Answers, coinbaseVars, seen
  <2>2. RequestOK'
    BY <1>2 DEF RecordActivity, Returned, Goto, Inv, TypeOK, RequestOK, Running, PurchaseSteps,
       CommissionSteps, coinbaseVars
  <2>3. Apart'
    BY <1>2 DEF RecordActivity, Returned, Goto, Inv, TypeOK, RequestOK, Apart, Running,
       PurchaseSteps, coinbaseVars
  <2>4. QED
    BY <2>1, <2>2, <2>3 DEF Inv
<1>3. QED
  BY <1>1, <1>2

LEMMA ReceiveInv ==
  ASSUME Inv, NEW p \in Requests, NEW e \in sent, Receive(p, e)
  PROVE  Inv'
<1>1. TypeOK'
  BY DEF Receive, Goto, Inv, TypeOK, Answers, coinbaseVars, tables, seen, bounds
<1>2. RequestOK' /\ Apart'
  BY DEF Receive, Goto, Inv, TypeOK, RequestOK, Apart, Running, PurchaseSteps,
     CommissionSteps, coinbaseVars, tables
<1>3. QED
  BY <1>1, <1>2 DEF Inv

LEMMA CalculationInv ==
  ASSUME Inv, NEW p \in Requests, StartCalculation(p) \/ GetCharge(p)
  PROVE  Inv'
<1>1. CASE StartCalculation(p)
  <2>1. TypeOK'
    BY <1>1 DEF StartCalculation, Goto, Inv, TypeOK, Running, CommissionSteps, coinbaseVars,
       tables, bounds
  <2>2. RequestOK' /\ Apart'
    BY <1>1 DEF StartCalculation, Goto, Inv, TypeOK, RequestOK, Apart, Running, PurchaseSteps,
       CommissionSteps, coinbaseVars, tables
  <2>3. QED
    BY <2>1, <2>2 DEF Inv
<1>2. CASE GetCharge(p)
  <2>1. TypeOK'
    BY <1>2 DEF GetCharge, Goto, Inv, TypeOK, Running, CommissionSteps, Answers, coinbaseVars,
       tables, seen, bounds
  <2>2. RequestOK' /\ Apart'
    BY <1>2 DEF GetCharge, Goto, Inv, TypeOK, RequestOK, Apart, Running, PurchaseSteps,
       CommissionSteps, coinbaseVars, tables
  <2>3. QED
    BY <2>1, <2>2 DEF Inv
<1>3. QED
  BY <1>1, <1>2

LEMMA PerformInv ==
  ASSUME Inv, NEW p \in Requests, PerformTransaction(p)
  PROVE  Inv'
<1>1. TypeOK'
  BY DEF PerformTransaction, Returned, Goto, Inv, TypeOK, RequestOK, Running,
     CommissionSteps, Answers, coinbaseVars, seen
<1>2. RequestOK' /\ Apart'
  BY DEF PerformTransaction, Returned, Goto, Inv, TypeOK, RequestOK, Apart, Running,
     PurchaseSteps, CommissionSteps, coinbaseVars
<1>3. QED
  BY <1>1, <1>2 DEF Inv

LEMMA EndInv ==
  ASSUME Inv, NEW p \in Requests, Answer(p) \/ LoseAnswer(p) \/ Fail(p)
  PROVE  Inv'
<1>1. CASE Answer(p)
  <2>1. TypeOK'
    BY <1>1 DEF Answer, Release, Goto, Inv, TypeOK, RequestOK, Answers, Running, coinbaseVars,
       tables, bounds
  <2>2. RequestOK' /\ Apart'
    BY <1>1 DEF Answer, Release, Goto, Inv, TypeOK, RequestOK, Apart, Running, PurchaseSteps,
       CommissionSteps, coinbaseVars, tables
  <2>3. QED
    BY <2>1, <2>2 DEF Inv
<1>2. CASE LoseAnswer(p)
  <2>1. TypeOK'
    BY <1>2 DEF LoseAnswer, Release, Goto, Inv, TypeOK, coinbaseVars, tables, seen
  <2>2. RequestOK' /\ Apart'
    BY <1>2 DEF LoseAnswer, Release, Goto, Inv, TypeOK, RequestOK, Apart, Running, PurchaseSteps,
       CommissionSteps, coinbaseVars, tables
  <2>3. QED
    BY <2>1, <2>2 DEF Inv
<1>3. CASE Fail(p)
  <2>1. TypeOK'
    BY <1>3 DEF Fail, Goto, Inv, TypeOK, Answers, coinbaseVars, tables, seen
  <2>2. RequestOK' /\ Apart'
    BY <1>3 DEF Fail, Goto, Inv, TypeOK, RequestOK, Apart, Running, PurchaseSteps,
       CommissionSteps, coinbaseVars, tables
  <2>3. QED
    BY <2>1, <2>2 DEF Inv
<1>4. QED
  BY <1>1, <1>2, <1>3

LEMMA EndProcessInv ==
  ASSUME Inv, Restart \/ \E e \in sent : UnhandledRejection(e)
  PROVE  Inv'
<1>1. /\ EndProcess /\ acked' \subseteq sent
      /\ UNCHANGED <<remote, sent, charges, activities, confirmed, batches, sold, asked, told, errors>>
  BY DEF Restart, UnhandledRejection, Inv, TypeOK, coinbaseVars, tables, seen
<1>2. TypeOK'
  BY <1>1 DEF EndProcess, Inv, TypeOK
<1>3. RequestOK' /\ Apart'
  BY <1>1 DEF EndProcess, Inv, TypeOK, RequestOK, Apart, Running, PurchaseSteps, CommissionSteps
<1>4. QED
  BY <1>2, <1>3 DEF Inv

LEMMA NextInv == Inv /\ [Next]_vars => Inv'
<1>1. ASSUME Inv, UNCHANGED vars PROVE Inv'
  BY <1>1 DEF vars, Inv, TypeOK, RequestOK, Apart
<1>2. ASSUME Inv, Next PROVE Inv'
  BY <1>2, CoinbaseInv, StartPurchaseInv, CreateChargeInv, RecordInv, ReceiveInv,
     CalculationInv, PerformInv, EndInv, EndProcessInv DEF Next, Progress
<1>3. QED
  BY <1>1, <1>2

LEMMA SpecInv == Spec => []Inv
BY InitInv, NextInv, PTL DEF Spec

\* The tables, the timeline and the local variables of the requests keep their types,
\* with confirmed and receipted purchases among the recorded ones, and those among the charges.
THEOREM TypeCorrect == Spec => []TypeOK
<1>1. Inv => TypeOK
  BY DEF Inv
<1>2. QED
  BY <1>1, SpecInv, PTL

-----------------------------------------------------------------------------
(* What becomes of the calculations the admin asks for.                     *)

LEMMA NoMore ==
  \A S, T : IsFiniteSet(S) /\ T \subseteq S => Cardinality(T) <= Cardinality(S)
BY FS_Subset

LEMMA OneMore ==
  \A S, T, x : IsFiniteSet(S) /\ T \subseteq S \union {x} => Cardinality(T) <= Cardinality(S) + 1
<1> SUFFICES ASSUME NEW S, NEW T, NEW x, IsFiniteSet(S), T \subseteq S \union {x}
             PROVE  Cardinality(T) <= Cardinality(S) + 1
  OBVIOUS
<1>1. IsFiniteSet(S \union {x}) /\ Cardinality(S \union {x}) <= Cardinality(S) + 1
  <2>1. Cardinality(S) \in Nat
    BY FS_CardinalityType
  <2>2. /\ IsFiniteSet(S \union {x})
        /\ Cardinality(S \union {x}) = IF x \in S THEN Cardinality(S) ELSE Cardinality(S) + 1
    BY FS_AddElement
  <2>3. QED
    BY <2>1, <2>2
<1>2. IsFiniteSet(T) /\ Cardinality(T) <= Cardinality(S \union {x})
  BY <1>1, FS_Subset
<1>3. Cardinality(T) \in Nat /\ Cardinality(S) \in Nat /\ Cardinality(S \union {x}) \in Nat
  BY <1>1, <1>2, FS_CardinalityType
<1>4. QED
  BY <1>1, <1>2, <1>3

LEMMA OneLess ==
  \A S, T, x : IsFiniteSet(S) /\ x \in S /\ T \subseteq S \ {x}
              => Cardinality(T) + 1 <= Cardinality(S)
<1> SUFFICES ASSUME NEW S, NEW T, NEW x, IsFiniteSet(S), x \in S, T \subseteq S \ {x}
             PROVE  Cardinality(T) + 1 <= Cardinality(S)
  OBVIOUS
<1>1. IsFiniteSet(S \ {x}) /\ Cardinality(S \ {x}) = Cardinality(S) - 1
  BY FS_RemoveElement
<1>2. IsFiniteSet(T) /\ Cardinality(T) <= Cardinality(S \ {x})
  BY <1>1, FS_Subset
<1>3. Cardinality(T) \in Nat /\ Cardinality(S) \in Nat /\ Cardinality(S \ {x}) \in Nat
  BY <1>1, <1>2, FS_CardinalityType
<1>4. QED
  BY <1>1, <1>2, <1>3

\* The calculations for c that have not committed, and those about to be answered.
Calculating(c) == {p \in Requests : pc[p] \in CommissionSteps /\ work[p] = c}
Granted(c) == {p \in Requests : pc[p] = "granted" /\ work[p] = c}

\* Every batch was asked for, by a request other than those that can still commit, and
\* every answer has a batch, other than those of the answers still to be given.
Accounts ==
  \A c \in Codes : /\ c \in confirmed <=> batches[c] > 0
                   /\ batches[c] + Cardinality(Calculating(c)) <= asked[c]
                   /\ told[c] + Cardinality(Granted(c)) <= batches[c]

LEMMA CountTypes ==
  /\ \A c : IsFiniteSet(Calculating(c)) /\ Cardinality(Calculating(c)) \in Nat
  /\ \A c : IsFiniteSet(Granted(c)) /\ Cardinality(Granted(c)) \in Nat
  /\ \A c : Cardinality(Calculating(c)') \in Nat /\ Cardinality(Granted(c)') \in Nat
<1>1. \A c : Calculating(c) \subseteq Requests /\ Granted(c) \subseteq Requests
  BY DEF Calculating, Granted
<1>2. \A c : Calculating(c)' \subseteq Requests /\ Granted(c)' \subseteq Requests
  BY DEF Calculating, Granted
<1>3. \A T : T \subseteq Requests => IsFiniteSet(T) /\ Cardinality(T) \in Nat
  BY FS_Subset, FS_CardinalityType, RequestsAssumption
<1>4. QED
  BY <1>1, <1>2, <1>3

\* Nobody else begins, commits or answers a calculation.
LEMMA OthersAccounts ==
  ASSUME Inv, [Next]_vars
  PROVE  \/ \E p \in Requests : StartCalculation(p) \/ PerformTransaction(p) \/ Answer(p)
         \/ /\ UNCHANGED <<confirmed, batches, asked, told>>
            /\ \A c : Calculating(c)' \subseteq Calculating(c) /\ Granted(c)' \subseteq Granted(c)
<1>1. CASE UNCHANGED vars
  BY <1>1 DEF vars, Calculating, Granted
<1>2. ASSUME NEW c \in Codes, CoinbaseAdvances(c)
      PROVE  UNCHANGED <<pc, work, confirmed, batches, asked, told>>
  BY <1>2 DEF CoinbaseAdvances, locals, tables, seen
<1>3. ASSUME NEW p \in Requests,
             \/ StartPurchase(p) \/ CreateCharge(p) \/ RecordCharge(p) \/ RecordActivity(p)
             \/ \E e \in sent : Receive(p, e)
             \/ LoseAnswer(p) \/ Fail(p)
      PROVE  /\ UNCHANGED <<confirmed, batches, asked, told>>
             /\ pc'[p] \notin CommissionSteps \union {"granted"}
             /\ \A q \in Requests \ {p} : pc'[q] = pc[q] /\ work'[q] = work[q]
  BY <1>3 DEF StartPurchase, CreateCharge, RecordCharge, RecordActivity, Receive, LoseAnswer, Fail,
     Returned, Release, Goto, Inv, TypeOK, CommissionSteps, tables, seen
<1>4. ASSUME NEW p \in Requests, GetCharge(p)
      PROVE  /\ UNCHANGED <<confirmed, batches, asked, told, work>>
             /\ pc[p] \in CommissionSteps /\ pc'[p] # "granted"
             /\ \A q \in Requests \ {p} : pc'[q] = pc[q]
  BY <1>4 DEF GetCharge, Goto, Inv, TypeOK, CommissionSteps, tables, seen
<1>5. ASSUME Restart \/ \E e \in sent : UnhandledRejection(e)
      PROVE  /\ UNCHANGED <<confirmed, batches, asked, told>>
             /\ \A q \in Requests : pc'[q] = "idle"
  BY <1>5 DEF Restart, UnhandledRejection, EndProcess, tables, seen
<1>6. QED
  <2>1. CASE \E c \in Codes : CoinbaseAdvances(c)
    BY <2>1, <1>2 DEF Calculating, Granted
  <2>2. ASSUME NEW p \in Requests,
               \/ StartPurchase(p) \/ CreateCharge(p) \/ RecordCharge(p) \/ RecordActivity(p)
               \/ \E e \in sent : Receive(p, e)
               \/ LoseAnswer(p) \/ Fail(p)
        PROVE  \A c : Calculating(c)' \subseteq Calculating(c) /\ Granted(c)' \subseteq Granted(c)
    BY <2>2, <1>3 DEF Calculating, Granted
  <2>3. ASSUME NEW p \in Requests, GetCharge(p)
        PROVE  \A c : Calculating(c)' \subseteq Calculating(c) /\ Granted(c)' \subseteq Granted(c)
    BY <2>3, <1>4 DEF Calculating, Granted
  <2>4. CASE Restart \/ \E e \in sent : UnhandledRejection(e)
    BY <2>4, <1>5 DEF Calculating, Granted, CommissionSteps
  <2>5. QED
    BY <1>1, <1>3, <1>4, <2>1, <2>2, <2>3, <2>4 DEF Next, Progress

LEMMA StartAccounts ==
  ASSUME Inv, Accounts, NEW p \in Requests, StartCalculation(p)
  PROVE  Accounts'
<1>1. PICK d \in Codes : asked' = [asked EXCEPT ![d] = @ + 1] /\ work' = [work EXCEPT ![p] = d]
  BY DEF StartCalculation
<1>2. /\ pc[p] = "idle" /\ pc' = [pc EXCEPT ![p] = "getCharge"]
      /\ UNCHANGED <<confirmed, batches, told>>
  BY DEF StartCalculation, Goto, tables
<1>3. Calculating(d)' \subseteq Calculating(d) \union {p}
  BY <1>1, <1>2 DEF Calculating, Inv, TypeOK
<1>4. \A c \in Codes : c # d => Calculating(c)' \subseteq Calculating(c)
  BY <1>1, <1>2 DEF Calculating, Inv, TypeOK
<1>5. \A c \in Codes : Granted(c)' \subseteq Granted(c)
  BY <1>1, <1>2 DEF Granted, Inv, TypeOK
<1>6. /\ Cardinality(Calculating(d)') <= Cardinality(Calculating(d)) + 1
      /\ \A c \in Codes : c # d => Cardinality(Calculating(c)') <= Cardinality(Calculating(c))
      /\ \A c \in Codes : Cardinality(Granted(c)') <= Cardinality(Granted(c))
  BY <1>3, <1>4, <1>5, CountTypes, NoMore, OneMore
<1>7. ASSUME NEW c \in Codes
      PROVE  /\ c \in confirmed' <=> batches'[c] > 0
             /\ batches'[c] + Cardinality(Calculating(c)') <= asked'[c]
             /\ told'[c] + Cardinality(Granted(c)') <= batches'[c]
  <2>1. batches[c] \in Nat /\ asked[c] \in Nat /\ told[c] \in Nat
    BY DEF Inv, TypeOK
  <2>2. asked'[c] = IF c = d THEN asked[c] + 1 ELSE asked[c]
    BY <1>1 DEF Inv, TypeOK
  <2>3. /\ c \in confirmed <=> batches[c] > 0
        /\ batches[c] + Cardinality(Calculating(c)) <= asked[c]
        /\ told[c] + Cardinality(Granted(c)) <= batches[c]
    BY DEF Accounts
  <2>4. QED
    BY <1>2, <1>6, <2>1, <2>2, <2>3, CountTypes
<1>8. QED
  BY <1>7 DEF Accounts

LEMMA PerformAccounts ==
  ASSUME Inv, Accounts, NEW p \in Requests, PerformTransaction(p)
  PROVE  Accounts'
<1> PICK d : d = work[p]
  OBVIOUS
<1>1. /\ d \in Codes /\ pc[p] = "commit"
      /\ batches' = [batches EXCEPT ![d] = @ + 1]
      /\ confirmed' = confirmed \union {d}
      /\ \/ pc' = [pc EXCEPT ![p] = "granted"]
         \/ pc' = [pc EXCEPT ![p] = "error"]
      /\ UNCHANGED <<asked, told, work>>
  BY DEF PerformTransaction, Returned, Goto, Inv, RequestOK, Running, CommissionSteps, seen
<1>2. p \in Calculating(d) /\ Calculating(d)' \subseteq Calculating(d) \ {p}
  BY <1>1 DEF Calculating, Inv, TypeOK, CommissionSteps
<1>3. Granted(d)' \subseteq Granted(d) \union {p}
  BY <1>1 DEF Granted, Inv, TypeOK
<1>4. \A c \in Codes : c # d => /\ Calculating(c)' \subseteq Calculating(c)
                               /\ Granted(c)' \subseteq Granted(c)
  BY <1>1 DEF Calculating, Granted, Inv, TypeOK, CommissionSteps
<1>5. /\ Cardinality(Calculating(d)') + 1 <= Cardinality(Calculating(d))
      /\ Cardinality(Granted(d)') <= Cardinality(Granted(d)) + 1
      /\ \A c \in Codes : c # d => /\ Cardinality(Calculating(c)') <= Cardinality(Calculating(c))
                                  /\ Cardinality(Granted(c)') <= Cardinality(Granted(c))
  BY <1>2, <1>3, <1>4, CountTypes, NoMore, OneMore, OneLess
<1>6. ASSUME NEW c \in Codes
      PROVE  /\ c \in confirmed' <=> batches'[c] > 0
             /\ batches'[c] + Cardinality(Calculating(c)') <= asked'[c]
             /\ told'[c] + Cardinality(Granted(c)') <= batches'[c]
  <2>1. batches[c] \in Nat /\ asked[c] \in Nat /\ told[c] \in Nat
    BY DEF Inv, TypeOK
  <2>2. batches'[c] = IF c = d THEN batches[c] + 1 ELSE batches[c]
    BY <1>1 DEF Inv, TypeOK
  <2>3. /\ c \in confirmed <=> batches[c] > 0
        /\ batches[c] + Cardinality(Calculating(c)) <= asked[c]
        /\ told[c] + Cardinality(Granted(c)) <= batches[c]
    BY DEF Accounts
  <2>4. c \in confirmed' <=> c \in confirmed \/ c = d
    BY <1>1
  <2>5. asked'[c] = asked[c] /\ told'[c] = told[c]
    BY <1>1
  <2>6. CASE c = d
    BY <1>5, <2>1, <2>2, <2>3, <2>4, <2>5, <2>6, CountTypes
  <2>7. CASE c # d
    BY <1>5, <2>1, <2>2, <2>3, <2>4, <2>5, <2>7, CountTypes
  <2>8. QED
    BY <2>6, <2>7
<1>7. QED
  BY <1>6 DEF Accounts

LEMMA AnswerAccounts ==
  ASSUME Inv, Accounts, NEW p \in Requests, Answer(p)
  PROVE  Accounts'
<1> PICK d : d = work[p]
  OBVIOUS
<1>1. /\ pc[p] \in Answers /\ pc' = [pc EXCEPT ![p] = "idle"]
      /\ work' = [work EXCEPT ![p] = NoCode]
      /\ told' = IF pc[p] = "granted" THEN [told EXCEPT ![d] = @ + 1] ELSE told
      /\ UNCHANGED <<confirmed, batches, asked>>
  BY DEF Answer, Release, Goto, tables
<1>2. \A c \in Codes : Calculating(c)' \subseteq Calculating(c) /\ Granted(c)' \subseteq Granted(c)
  BY <1>1 DEF Calculating, Granted, Inv, TypeOK, CommissionSteps
<1>3. pc[p] = "granted" => p \in Granted(d) /\ Granted(d)' \subseteq Granted(d) \ {p}
  BY <1>1 DEF Granted, Inv, TypeOK
<1>4. /\ \A c \in Codes : /\ Cardinality(Calculating(c)') <= Cardinality(Calculating(c))
                         /\ Cardinality(Granted(c)') <= Cardinality(Granted(c))
      /\ pc[p] = "granted" => Cardinality(Granted(d)') + 1 <= Cardinality(Granted(d))
  BY <1>2, <1>3, CountTypes, NoMore, OneLess
<1>5. ASSUME NEW c \in Codes
      PROVE  /\ c \in confirmed' <=> batches'[c] > 0
             /\ batches'[c] + Cardinality(Calculating(c)') <= asked'[c]
             /\ told'[c] + Cardinality(Granted(c)') <= batches'[c]
  <2>1. batches[c] \in Nat /\ asked[c] \in Nat /\ told[c] \in Nat
    BY DEF Inv, TypeOK
  <2>2. told'[c] = IF pc[p] = "granted" /\ c = d THEN told[c] + 1 ELSE told[c]
    BY <1>1 DEF Inv, TypeOK
  <2>3. /\ c \in confirmed <=> batches[c] > 0
        /\ batches[c] + Cardinality(Calculating(c)) <= asked[c]
        /\ told[c] + Cardinality(Granted(c)) <= batches[c]
    BY DEF Accounts
  <2>4. UNCHANGED <<confirmed, batches, asked>>
    BY <1>1
  <2>5. CASE pc[p] = "granted" /\ c = d
    BY <1>4, <2>1, <2>2, <2>3, <2>4, <2>5, CountTypes
  <2>6. CASE ~(pc[p] = "granted" /\ c = d)
    BY <1>4, <2>1, <2>2, <2>3, <2>4, <2>6, CountTypes
  <2>7. QED
    BY <2>5, <2>6
<1>6. QED
  BY <1>5 DEF Accounts

LEMMA AccountsStep == Inv /\ Accounts /\ [Next]_vars => Accounts'
<1> SUFFICES ASSUME Inv, Accounts, [Next]_vars PROVE Accounts'
  OBVIOUS
<1>1. CASE \E p \in Requests : StartCalculation(p) \/ PerformTransaction(p) \/ Answer(p)
  BY <1>1, StartAccounts, PerformAccounts, AnswerAccounts
<1>2. ASSUME UNCHANGED <<confirmed, batches, asked, told>>,
             \A c : Calculating(c)' \subseteq Calculating(c) /\ Granted(c)' \subseteq Granted(c)
      PROVE  Accounts'
  <2>1. \A c : /\ Cardinality(Calculating(c)') <= Cardinality(Calculating(c))
              /\ Cardinality(Granted(c)') <= Cardinality(Granted(c))
    BY <1>2, CountTypes, NoMore
  <2>2. ASSUME NEW c \in Codes
        PROVE  /\ c \in confirmed <=> batches[c] > 0
               /\ batches[c] + Cardinality(Calculating(c)') <= asked[c]
               /\ told[c] + Cardinality(Granted(c)') <= batches[c]
    <3>1. batches[c] \in Nat /\ asked[c] \in Nat /\ told[c] \in Nat
      BY DEF Inv, TypeOK
    <3>2. /\ c \in confirmed <=> batches[c] > 0
          /\ batches[c] + Cardinality(Calculating(c)) <= asked[c]
          /\ told[c] + Cardinality(Granted(c)) <= batches[c]
      BY DEF Accounts
    <3>3. QED
      BY <2>1, <3>1, <3>2, CountTypes
  <2>3. QED
    BY <1>2, <2>2 DEF Accounts
<1>3. QED
  BY <1>1, <1>2, OthersAccounts

LEMMA InitAccounts == Init => Accounts
<1>1. Init => \A c \in Codes : Calculating(c) = {} /\ Granted(c) = {}
  BY DEF Init, Calculating, Granted, CommissionSteps
<1>2. QED
  BY <1>1, FS_EmptySet DEF Init, Accounts

LEMMA SpecAccounts == Spec => []Accounts
BY InitAccounts, AccountsStep, SpecInv, PTL DEF Spec

\* For any number of requests, rejections, lost answers and ends of the process: a
\* purchase is confirmed exactly when commissions were granted for it, as often as the
\* admin asked at most, and as often as the admin was told at least.
THEOREM CalculationsAnswered == Spec => []CalculationsAccounted
<1>1. Inv /\ Accounts => CalculationsAccounted
  <2> SUFFICES ASSUME Inv, Accounts, NEW c \in Codes
               PROVE  /\ c \in confirmed <=> batches[c] > 0
                      /\ told[c] <= batches[c] /\ batches[c] <= asked[c]
    BY DEF CalculationsAccounted
  <2>1. batches[c] \in Nat /\ asked[c] \in Nat /\ told[c] \in Nat
    BY DEF Inv, TypeOK
  <2>2. QED
    BY <2>1, CountTypes DEF Accounts
<1>2. QED
  BY <1>1, SpecInv, SpecAccounts, PTL

-----------------------------------------------------------------------------
(* Payments implements the ledger.                                          *)

\* The steps the ledger sees.
LEMMA LedgerMoves ==
  ASSUME [Next]_vars
  PROVE  \/ UNCHANGED <<activities, sold, confirmed, asked, batches, told>>
         \/ \E p \in Requests : StartCalculation(p) \/ RecordActivity(p) \/ PerformTransaction(p)
                                \/ Answer(p)
BY DEF Next, Progress, vars, CoinbaseAdvances, StartPurchase, CreateCharge, RecordCharge, Receive,
   GetCharge, LoseAnswer, Fail, Restart, UnhandledRejection, tables, seen

LEMMA Implemented ==
  ASSUME Inv, Accounts, [Next]_vars
  PROVE  [Ledger!Next]_(Ledger!vars)
<1>1. CASE UNCHANGED <<activities, sold, confirmed, asked, batches, told>>
  BY <1>1 DEF Ledger!vars
<1>2. ASSUME NEW p \in Requests, StartCalculation(p) PROVE Ledger!Next
  <2>1. PICK c \in Codes : asked' = [asked EXCEPT ![c] = @ + 1]
    BY <1>2 DEF StartCalculation
  <2>2. Ledger!Ask(c)
    BY <1>2, <2>1 DEF Ledger!Ask, StartCalculation, tables
  <2>3. QED
    BY <2>2 DEF Ledger!Next
<1>3. ASSUME NEW p \in Requests, RecordActivity(p) PROVE Ledger!Next
  <2>1. work[p] \in Codes /\ work[p] \notin activities
    BY <1>3 DEF RecordActivity, Inv, RequestOK, Apart, Running, PurchaseSteps
  <2>2. Ledger!Purchase(work[p])
    BY <1>3, <2>1 DEF Ledger!Purchase, RecordActivity, seen
  <2>3. QED
    BY <2>1, <2>2 DEF Ledger!Next
<1>4. ASSUME NEW p \in Requests, PerformTransaction(p) PROVE Ledger!Next
  <2>1. work[p] \in Codes /\ work[p] \in activities /\ p \in Calculating(work[p])
    BY <1>4 DEF PerformTransaction, Inv, RequestOK, Running, CommissionSteps, Calculating
  <2>2. Cardinality(Calculating(work[p])) > 0
    BY <2>1, CountTypes, FS_EmptySet
  <2>3. batches[work[p]] < asked[work[p]]
    <3>1. batches[work[p]] \in Nat /\ asked[work[p]] \in Nat
      BY <2>1 DEF Inv, TypeOK
    <3>2. batches[work[p]] + Cardinality(Calculating(work[p])) <= asked[work[p]]
      BY <2>1 DEF Accounts
    <3>3. QED
      BY <2>2, <3>1, <3>2, CountTypes
  <2>4. Ledger!Confirm(work[p])
    BY <1>4, <2>1, <2>3 DEF Ledger!Confirm, PerformTransaction, seen
  <2>5. QED
    BY <2>1, <2>4 DEF Ledger!Next
<1>5. ASSUME NEW p \in Requests, Answer(p) PROVE [Ledger!Next]_(Ledger!vars)
  <2>1. UNCHANGED <<activities, confirmed, asked, batches>>
    BY <1>5 DEF Answer, tables
  <2>2. CASE pc[p] = "sold"
    <3>1. work[p] \in Codes /\ work[p] \in activities
      BY <2>2 DEF Inv, RequestOK
    <3>2. Ledger!Receipt(work[p])
      BY <1>5, <2>1, <2>2, <3>1 DEF Ledger!Receipt, Answer
    <3>3. QED
      BY <3>1, <3>2 DEF Ledger!Next
  <2>3. CASE pc[p] = "granted"
    <3>1. work[p] \in Codes /\ p \in Granted(work[p])
      BY <2>3 DEF Inv, RequestOK, Granted
    <3>2. Cardinality(Granted(work[p])) > 0
      BY <3>1, CountTypes, FS_EmptySet
    <3>3. told[work[p]] < batches[work[p]]
      <4>1. batches[work[p]] \in Nat /\ told[work[p]] \in Nat
        BY <3>1 DEF Inv, TypeOK
      <4>2. told[work[p]] + Cardinality(Granted(work[p])) <= batches[work[p]]
        BY <3>1 DEF Accounts
      <4>3. QED
        BY <3>2, <4>1, <4>2, CountTypes
    <3>4. Ledger!Tell(work[p])
      BY <1>5, <2>1, <2>3, <3>3 DEF Ledger!Tell, Answer
    <3>5. QED
      BY <3>1, <3>4 DEF Ledger!Next
  <2>4. CASE pc[p] \notin {"sold", "granted"}
    BY <1>5, <2>1, <2>4 DEF Answer, Ledger!vars
  <2>5. QED
    BY <2>2, <2>3, <2>4
<1>6. QED
  BY <1>1, <1>2, <1>3, <1>4, <1>5, LedgerMoves

\* The rows and the answers implement the ledger: for any number of charges, requests and
\* failures every step of the purchase path is one step of PurchaseLedger or none.
THEOREM PaymentsRefineLedger == Spec => ImplementsLedger
<1>1. Init => Ledger!Init
  BY DEF Init, Ledger!Init
<1>2. Inv /\ Accounts /\ [Next]_vars => [Ledger!Next]_(Ledger!vars)
  BY Implemented
<1>3. QED
  BY <1>1, <1>2, SpecInv, SpecAccounts, PTL DEF Spec, ImplementsLedger, Ledger!Spec
=============================================================================
