-------------------------- MODULE BackOffice_proofs --------------------------
(***************************************************************************)
(* Theorems about Mails, Passwords and Pages for any customers, requests,  *)
(* limits and rows.  A limit holds because a request that has read a count *)
(* and is alone still knows how many mails its budget has paid for; a mail *)
(* is logged as what became of it because its calls are counted.  A        *)
(* replaced password is of no use because whoever has read the row since   *)
(* has read the new one.  A reader misses nothing because the rows up to   *)
(* its cursor have been shown, and the cursor only goes on.  Last, that    *)
(* the five components of MCBackOffice do not disturb each other.          *)
(***************************************************************************)
EXTENDS MCBackOffice, Catalog_proofs, Network_proofs, FiniteSetTheorems, WellFoundedInduction

(* The mails. *)

Counts(r, k) == caller[r] # Idle /\ caller[r].counted /\ KeyOf(r) = k

\* A count that was read leaves room for one mail, and a retry for one call.
RoomLeft ==
  /\ \A r \in Callers : caller[r] # Idle /\ caller[r].counted => caller[r].count < MaxAttempts
  /\ \A r \in Callers : caller[r] # Idle /\ caller[r].step = "count" => caller[r].counted
  /\ \A s \in Slots : mail[s] # NoMail /\ mail[s].phase = "backoff" => mail[s].calls <= MaxRetries

\* What is known of a budget whose requests never overlapped.
Quota(k) ==
  ~overlapped[k] =>
    /\ \A q, r \in Callers : Counts(q, k) /\ Counts(r, k) => q = r
    /\ (\A r \in Callers : ~(Counts(r, k) /\ caller[r].step = "count"))
         => granted[k] <= attempts[k]
    /\ \A r \in Callers : Counts(r, k) =>
         granted[k] <= caller[r].count + (IF caller[r].step = "count" THEN 1 ELSE 0)

QuotaOK == \A k \in CacheKeys : Quota(k)

MailsInv == MailsTypeOK /\ RoomLeft /\ QuotaOK /\ LogTold

LEMMA Keys ==
  ASSUME NEW type, NEW c \in Recipients
  PROVE  CacheKey(type, c) \in CacheKeys
BY DEF CacheKey, CacheKeys

LEMMA MailsInitInv == MailsInit => MailsInv
BY MailsAssumption
   DEF MailsInit, MailsInv, MailsTypeOK, RoomLeft, QuotaOK, Quota, Counts, LogTold, Underway

-----------------------------------------------------------------------------
(* The steps of a request. *)

\* Types and mails when one request moves and no mail does.
LEMMA CallerMoves ==
  ASSUME MailsInv, NEW r \in Callers, NEW x \in Asking \union {Idle},
         x # Idle /\ x.counted => x.count < MaxAttempts,
         x # Idle /\ x.step = "count" => x.counted,
         caller' = [caller EXCEPT ![r] = x], UNCHANGED mail
  PROVE  caller' \in [Callers -> Asking \union {Idle}] /\ RoomLeft' /\ LogTold'
BY DEF MailsInv, MailsTypeOK, RoomLeft, LogTold, Underway

\* A budget that neither the request has counted under nor will count under next.
LEMMA OtherBudget ==
  ASSUME MailsInv, NEW k \in CacheKeys, NEW r \in Callers, NEW x \in Asking \union {Idle},
         caller' = [caller EXCEPT ![r] = x],
         ~Counts(r, k), ~(x # Idle /\ x.counted /\ CacheKey(x.type, x.to) = k),
         attempts'[k] = attempts[k] /\ granted'[k] = granted[k] /\ overlapped'[k] = overlapped[k]
  PROVE  Quota(k)'
<1>1. ~Counts(r, k)' /\ \A q \in Callers : q # r => caller'[q] = caller[q]
  BY DEF MailsInv, MailsTypeOK, Counts, KeyOf
<1>2. \A q \in Callers : Counts(q, k)' => Counts(q, k) /\ q # r
  BY <1>1 DEF Counts, KeyOf
<1>3. \A q \in Callers : Counts(q, k) => Counts(q, k)' /\ q # r
  BY <1>1 DEF Counts, KeyOf
<1>4. Quota(k)
  BY DEF MailsInv, QuotaOK
<1>5. QED
  BY <1>1, <1>2, <1>3, <1>4 DEF Quota

LEMMA JoinInv == ASSUME MailsInv, NEW r \in Callers, NEW c \in Recipients, Join(r, c) PROVE MailsInv'
<1> DEFINE x == [step |-> "send", type |-> Invitation(c), to |-> c, counted |-> FALSE,
                 count |-> attempts[CacheKey(Invitation(c), c)]]
<1>1. /\ caller[r] = Idle /\ caller' = [caller EXCEPT ![r] = x]
      /\ UNCHANGED <<attempts, mail, crashes, letIn, granted, overlapped>>
      /\ joined' = joined \union {c}
  BY DEF Join, Ask
<1>2. x \in Asking
  BY Keys, MailsAssumption DEF Asking, EmailTypes, Invitation, MailsInv, MailsTypeOK
<1>3. caller' \in [Callers -> Asking \union {Idle}] /\ RoomLeft' /\ LogTold'
  BY <1>1, <1>2, CallerMoves
<1>4. QuotaOK'
  <2> SUFFICES ASSUME NEW k \in CacheKeys PROVE Quota(k)'
    BY DEF QuotaOK
  <2>1. ~Counts(r, k) /\ ~x.counted
    BY <1>1 DEF Counts
  <2> HIDE DEF x
  <2>2. QED
    BY <1>1, <1>2, <2>1, OtherBudget
<1>5. MailsTypeOK'
  BY <1>1, <1>3 DEF MailsInv, MailsTypeOK
<1>6. QED
  BY <1>3, <1>4, <1>5 DEF MailsInv

LEMMA RequestInv ==
  ASSUME MailsInv, NEW r \in Callers, NEW type \in RequestTypes, NEW c \in Recipients,
         Request(r, type, c)
  PROVE  MailsInv'
<1> DEFINE key == CacheKey(type, c)
           x == [step |-> "send", type |-> type, to |-> c, counted |-> TRUE,
                 count |-> attempts[key]]
<1>1. /\ caller[r] = Idle /\ caller' = [caller EXCEPT ![r] = x]
      /\ UNCHANGED <<joined, attempts, mail, crashes, letIn, granted>>
      /\ overlapped' = [overlapped EXCEPT ![key] = @ \/ Counting(key) # {}]
      /\ attempts[key] < MaxAttempts
  BY DEF Request, Ask, WithinLimit
<1>2. x \in Asking /\ key \in CacheKeys
  BY Keys DEF Asking, EmailTypes, MailsInv, MailsTypeOK
<1>3. caller' \in [Callers -> Asking \union {Idle}] /\ RoomLeft' /\ LogTold'
  BY <1>1, <1>2, CallerMoves
<1>4. QuotaOK'
  <2> SUFFICES ASSUME NEW k \in CacheKeys PROVE Quota(k)'
    BY DEF QuotaOK
  <2>1. ~Counts(r, k)
    BY <1>1 DEF Counts
  <2>2. CASE k # key
    <3>1. overlapped'[k] = overlapped[k]
      BY <1>1, <2>2 DEF MailsInv, MailsTypeOK
    <3>2. CacheKey(x.type, x.to) # k
      BY <2>2
    <3> HIDE DEF x, key
    <3>3. QED
      BY <1>1, <1>2, <2>1, <3>1, <3>2, OtherBudget
  <2>3. CASE k = key
    <3>1. CASE Counting(key) # {}
      <4>1. overlapped'[k]
        BY <1>1, <1>2, <2>3, <3>1 DEF MailsInv, MailsTypeOK
      <4>2. QED
        BY <4>1 DEF Quota
    <3>2. CASE Counting(key) = {}
      <4>1. \A q \in Callers : ~Counts(q, k)
        BY <2>3, <3>2 DEF Counting, Counts
      <4>2. \A q \in Callers : Counts(q, k)' => q = r
        <5> SUFFICES ASSUME NEW q \in Callers, q # r PROVE ~Counts(q, k)'
          OBVIOUS
        <5>1. caller'[q] = caller[q]
          BY <1>1 DEF MailsInv, MailsTypeOK
        <5>2. QED
          BY <4>1, <5>1 DEF Counts, KeyOf
      <4>3. overlapped'[k] = overlapped[k]
        BY <1>1, <1>2, <2>3, <3>2 DEF MailsInv, MailsTypeOK
      <4>4. Quota(k)
        BY DEF MailsInv, QuotaOK
      <4>5. ~overlapped[k] => granted[k] <= attempts[k]
        BY <4>1, <4>4 DEF Quota
      <4>6. caller'[r].count = attempts[k] /\ caller'[r].step = "send"
        BY <1>1, <2>3 DEF MailsInv, MailsTypeOK
      <4>7. granted[k] \in Nat /\ attempts[k] \in Nat
        BY DEF MailsInv, MailsTypeOK
      <4>8. granted'[k] = granted[k] /\ attempts'[k] = attempts[k]
        BY <1>1
      <4> HIDE DEF key, x
      <4>9. \A q \in Callers : Counts(q, k)' /\ ~overlapped[k] =>
              granted[k] <= caller'[q].count + (IF caller'[q].step = "count" THEN 1 ELSE 0)
        BY <4>2, <4>5, <4>6, <4>7
      <4>10. QED
        BY <4>2, <4>3, <4>5, <4>8, <4>9 DEF Quota
    <3>3. QED
      BY <3>1, <3>2
  <2>4. QED
    BY <2>2, <2>3
<1>5. MailsTypeOK'
  BY <1>1, <1>2, <1>3 DEF MailsInv, MailsTypeOK
<1>6. QED
  BY <1>3, <1>4, <1>5 DEF MailsInv

\* A slot that takes up a mail.
LEMMA StartedMail ==
  ASSUME MailsInv, NEW s \in Slots, NEW type \in EmailTypes, NEW c \in Recipients,
         StartMail(s, type, c)
  PROVE  /\ mail' \in [Slots -> Mail \union {NoMail}]
         /\ \A q \in Slots : mail'[q] # NoMail /\ mail'[q].phase = "backoff" => mail'[q].calls <= MaxRetries
         /\ LogTold'
<1> DEFINE x == [phase |-> "calling", type |-> type, to |-> c, calls |-> 1, taken |-> FALSE,
                 as |-> type]
<1>1. mail' = [mail EXCEPT ![s] = x]
  BY DEF StartMail
<1>2. x \in Mail /\ x.phase = "calling"
  BY MailsAssumption DEF Mail
<1>3. mail' \in [Slots -> Mail \union {NoMail}] /\ mail'[s].phase = "calling"
      /\ \A q \in Slots : q # s => mail'[q] = mail[q]
  BY <1>1, <1>2 DEF MailsInv, MailsTypeOK
<1> HIDE DEF x
<1>4. \A q \in Slots : mail'[q] # NoMail /\ mail'[q].phase = "backoff" => mail'[q].calls <= MaxRetries
  BY <1>3 DEF MailsInv, RoomLeft
<1>5. LogTold'
  BY <1>3 DEF MailsInv, LogTold, Underway
<1>6. QED
  BY <1>3, <1>4, <1>5

LEMMA SendEmailInv == ASSUME MailsInv, NEW r \in Callers, SendEmail(r) PROVE MailsInv'
<1> DEFINE key == KeyOf(r)
<1>1. /\ caller[r] \in Asking /\ caller[r] # Idle /\ caller[r].step = "send"
      /\ UNCHANGED <<joined, attempts, crashes, letIn, overlapped>>
  BY DEF SendEmail, MailsInv, MailsTypeOK
<1>2. PICK s \in Slots : StartMail(s, caller[r].type, caller[r].to)
  BY DEF SendEmail
<1>3. /\ mail' \in [Slots -> Mail \union {NoMail}]
      /\ \A q \in Slots : mail'[q] # NoMail /\ mail'[q].phase = "backoff" => mail'[q].calls <= MaxRetries
      /\ LogTold'
  <2>1. caller[r].type \in EmailTypes /\ caller[r].to \in Recipients
    BY <1>1 DEF Asking
  <2>2. QED
    BY <1>2, <2>1, StartedMail
<1>4. CASE caller[r].counted
  <2>1. /\ caller' = [caller EXCEPT ![r].step = "count"]
        /\ granted' = [granted EXCEPT ![key] = IF @ > MaxAttempts THEN @ ELSE @ + 1]
    BY <1>1, <1>4 DEF SendEmail
  <2>2. /\ caller' \in [Callers -> Asking \union {Idle}]
        /\ caller'[r].step = "count" /\ caller'[r].count = caller[r].count /\ Counts(r, key)'
        /\ \A q \in Callers : q # r => caller'[q] = caller[q]
        /\ caller'[r] # Idle /\ caller'[r].counted
    BY <1>1, <1>4, <2>1 DEF MailsInv, MailsTypeOK, Asking, Counts, KeyOf, Idle
  <2>3. key \in CacheKeys /\ Counts(r, key)
    BY <1>1, <1>4, Keys DEF KeyOf, Counts, Asking
  <2>4. RoomLeft'
    BY <1>1, <1>3, <1>4, <2>2 DEF MailsInv, RoomLeft
  <2>5. \A q \in Callers, k \in CacheKeys : Counts(q, k)' <=> Counts(q, k)
    BY <1>1, <1>4, <2>1, <2>2 DEF MailsInv, MailsTypeOK, Asking, Counts, KeyOf
  <2>6. granted' \in [CacheKeys -> 0..(MaxAttempts + 1)]
    <3> DEFINE g == IF granted[key] > MaxAttempts THEN granted[key] ELSE granted[key] + 1
    <3>1. granted \in [CacheKeys -> 0..(MaxAttempts + 1)] /\ granted[key] \in 0..(MaxAttempts + 1)
      BY <2>3 DEF MailsInv, MailsTypeOK
    <3>2. g \in 0..(MaxAttempts + 1)
      BY <3>1, MailsAssumption
    <3>3. granted' = [granted EXCEPT ![key] = g]
      BY <2>1
    <3> HIDE DEF g, key
    <3>4. QED
      BY <3>1, <3>2, <3>3
  <2>7. QuotaOK'
    <3> SUFFICES ASSUME NEW k \in CacheKeys, ~overlapped[k] PROVE Quota(k)'
      BY <1>1 DEF QuotaOK, Quota
    <3>1. Quota(k)
      BY DEF MailsInv, QuotaOK
    <3>2. granted[k] \in Nat /\ attempts[k] \in Nat /\ caller[r].count \in Nat
      BY <1>1 DEF MailsInv, MailsTypeOK, Asking
    <3>3. CASE k = key
      <4>1. \A q \in Callers : Counts(q, k) => q = r
        BY <2>3, <3>1, <3>3 DEF Quota
      <4>2. granted[k] <= caller[r].count
        BY <1>1, <2>3, <3>1, <3>2, <3>3 DEF Quota
      <4>3. granted'[k] <= granted[k] + 1
        BY <2>1, <2>3, <3>2, <3>3 DEF MailsInv, MailsTypeOK
      <4>4. granted'[k] \in Nat
        BY <2>6
      <4>5. granted'[k] <= caller'[r].count + 1
        BY <2>2, <3>2, <4>2, <4>3, <4>4
      <4> HIDE DEF key
      <4>6. QED
        BY <2>2, <2>3, <2>5, <3>3, <4>1, <4>5 DEF Quota
    <3>4. CASE k # key
      <4>1. granted'[k] = granted[k] /\ attempts' = attempts /\ ~Counts(r, k)
        BY <1>1, <2>1, <3>4 DEF MailsInv, MailsTypeOK, Counts
      <4>2. QED
        BY <2>2, <2>5, <3>1, <4>1 DEF Quota
    <3>5. QED
      BY <3>3, <3>4
  <2>8. QED
    BY <1>1, <1>3, <2>2, <2>4, <2>6, <2>7 DEF MailsInv, MailsTypeOK
<1>5. CASE ~caller[r].counted
  <2>1. caller' = [caller EXCEPT ![r] = Idle] /\ UNCHANGED granted
    BY <1>1, <1>5 DEF SendEmail
  <2>2. QuotaOK'
    <3> SUFFICES ASSUME NEW k \in CacheKeys PROVE Quota(k)'
      BY DEF QuotaOK
    <3>1. ~Counts(r, k)
      BY <1>5 DEF Counts
    <3>2. QED
      BY <1>1, <2>1, <3>1, OtherBudget
  <2>3. RoomLeft' /\ caller' \in [Callers -> Asking \union {Idle}]
    BY <1>3, <2>1 DEF MailsInv, RoomLeft, MailsTypeOK
  <2>4. QED
    BY <1>1, <1>3, <2>1, <2>2, <2>3 DEF MailsInv, MailsTypeOK
<1>6. QED
  BY <1>4, <1>5

\* A request that ends without a mail, and a counted one that writes its count.
LEMMA FailToComposeInv == ASSUME MailsInv, NEW r \in Callers, FailToCompose(r) PROVE MailsInv'
<1>1. /\ caller[r] \in Asking /\ caller[r] # Idle /\ caller[r].step = "send"
      /\ caller' = [caller EXCEPT ![r] = Idle]
      /\ UNCHANGED <<joined, attempts, mail, crashes, letIn, granted, overlapped>>
  BY DEF FailToCompose, MailsInv, MailsTypeOK
<1>2. caller' \in [Callers -> Asking \union {Idle}] /\ RoomLeft' /\ LogTold'
  BY <1>1, CallerMoves
<1>3. QuotaOK'
  <2> SUFFICES ASSUME NEW k \in CacheKeys PROVE Quota(k)'
    BY DEF QuotaOK
  <2>1. CASE ~Counts(r, k)
    BY <1>1, <2>1, OtherBudget
  <2>2. CASE Counts(r, k)
    <3>1. Quota(k)
      BY DEF MailsInv, QuotaOK
    <3>2. \A q \in Callers : Counts(q, k)' => q # r /\ Counts(q, k)
      BY <1>1 DEF Counts, KeyOf, MailsInv, MailsTypeOK
    <3>3. ~overlapped[k] => \A q \in Callers : Counts(q, k) => q = r
      BY <2>2, <3>1 DEF Quota
    <3>4. ~overlapped[k] => granted[k] <= attempts[k]
      BY <1>1, <3>1, <3>3 DEF Quota
    <3>5. QED
      BY <1>1, <3>2, <3>3, <3>4 DEF Quota
  <2>3. QED
    BY <2>1, <2>2
<1>4. MailsTypeOK'
  BY <1>1, <1>2 DEF MailsInv, MailsTypeOK
<1>5. QED
  BY <1>2, <1>3, <1>4 DEF MailsInv

LEMMA CountAttemptInv == ASSUME MailsInv, NEW r \in Callers, CountAttempt(r) PROVE MailsInv'
<1> DEFINE key == KeyOf(r)
<1>1. /\ caller[r] \in Asking /\ caller[r] # Idle /\ caller[r].step = "count" /\ caller[r].counted
      /\ caller' = [caller EXCEPT ![r] = Idle]
      /\ attempts' = [attempts EXCEPT ![key] = caller[r].count + 1]
      /\ UNCHANGED <<joined, mail, crashes, letIn, granted, overlapped>>
  BY DEF CountAttempt, MailsInv, MailsTypeOK, RoomLeft
<1>2. caller' \in [Callers -> Asking \union {Idle}] /\ RoomLeft' /\ LogTold'
  BY <1>1, CallerMoves
<1>3. key \in CacheKeys /\ caller[r].count \in Nat /\ caller[r].count < MaxAttempts
  BY <1>1, Keys DEF KeyOf, Asking, MailsInv, RoomLeft
<1>4. attempts' \in [CacheKeys -> 0..MaxAttempts]
  BY <1>1, <1>3, MailsAssumption DEF MailsInv, MailsTypeOK
<1>5. QuotaOK'
  <2> SUFFICES ASSUME NEW k \in CacheKeys PROVE Quota(k)'
    BY DEF QuotaOK
  <2>1. CASE k # key
    <3>1. ~Counts(r, k) /\ attempts'[k] = attempts[k]
      BY <1>1, <2>1 DEF Counts, MailsInv, MailsTypeOK
    <3>2. QED
      BY <1>1, <3>1, OtherBudget
  <2>2. CASE k = key
    <3>1. Quota(k) /\ Counts(r, k)
      BY <1>1, <2>2 DEF MailsInv, QuotaOK, Counts
    <3>2. \A q \in Callers : Counts(q, k)' => q # r /\ Counts(q, k)
      BY <1>1 DEF Counts, KeyOf, MailsInv, MailsTypeOK
    <3>3. ~overlapped[k] => \A q \in Callers : Counts(q, k) => q = r
      BY <3>1 DEF Quota
    <3>4. ~overlapped[k] => granted[k] <= attempts'[k]
      BY <1>1, <2>2, <1>3, <3>1 DEF Quota, MailsInv, MailsTypeOK
    <3>5. QED
      BY <1>1, <3>2, <3>3, <3>4 DEF Quota
  <2>3. QED
    BY <2>1, <2>2
<1>6. MailsTypeOK'
  BY <1>1, <1>2, <1>4 DEF MailsInv, MailsTypeOK
<1>7. QED
  BY <1>2, <1>5, <1>6 DEF MailsInv

-----------------------------------------------------------------------------
(* The steps that no request takes. *)

\* The mails that are sent are logged under their own name.
LEMMA Named ==
  ASSUME NEW type \in EmailTypes
  PROVE  LoggedAs(type) = type
BY MailsAssumption DEF LoggedAs, EmailTypes

\* A step of the mails alone.
MailMoves == UNCHANGED <<joined, attempts, caller, crashes, granted, overlapped>>

LEMMA MailMovesInv ==
  ASSUME MailsInv, MailMoves, letIn' \subseteq Recipients,
         NEW s \in Slots, NEW x \in Mail,
         mail' = [mail EXCEPT ![s] = x],
         x.phase = "backoff" => x.calls <= MaxRetries,
         x.phase = "sent" => x.taken,
         x.phase = "failed" => x.calls = MaxRetries + 1,
         x.phase \in {"sent", "failed"} => x.as = LoggedAs(x.type)
  PROVE  MailsInv'
<1>1. mail'[s] = x /\ \A q \in Slots : q # s => mail'[q] = mail[q]
  BY DEF MailsInv, MailsTypeOK
<1>2. MailsTypeOK'
  BY DEF MailsInv, MailsTypeOK, MailMoves
<1>3. RoomLeft'
  BY <1>1 DEF MailsInv, RoomLeft, MailMoves
<1>4. QuotaOK'
  BY DEF MailsInv, QuotaOK, Quota, Counts, KeyOf, MailMoves
<1>5. LogTold'
  <2>1. x.type \in EmailTypes /\ x.phase \in {"calling", "backoff", "sent", "failed"}
    BY DEF Mail
  <2>2. QED
    BY <1>1, <2>1, Named DEF MailsInv, LogTold, Underway
<1>6. QED
  BY <1>2, <1>3, <1>4, <1>5 DEF MailsInv

LEMMA CallSucceedsInv == ASSUME MailsInv, NEW s \in Slots, CallSucceeds(s) PROVE MailsInv'
<1> DEFINE x == [mail[s] EXCEPT !.phase = "sent", !.taken = TRUE, !.as = LoggedAs(mail[s].type)]
<1>1. mail[s] \in Mail
  BY DEF CallSucceeds, Calling, Underway, MailsInv, MailsTypeOK
<1>2. mail' = [mail EXCEPT ![s] = x] /\ MailMoves
  BY <1>1 DEF CallSucceeds, Finish, MailMoves, Mail
<1>3. x \in Mail /\ x.phase = "sent" /\ x.taken /\ x.as = LoggedAs(x.type)
  BY <1>1, Named DEF Mail
<1>4. letIn' \subseteq Recipients
  BY <1>1 DEF CallSucceeds, Take, Mail, MailsInv, MailsTypeOK
<1> HIDE DEF x
<1>5. QED
  BY <1>2, <1>3, <1>4, MailMovesInv

LEMMA CallFailsInv ==
  ASSUME MailsInv, NEW s \in Slots, NEW took \in BOOLEAN, CallFails(s, took) PROVE MailsInv'
<1>1. mail[s] \in Mail
  BY DEF CallFails, Calling, Underway, MailsInv, MailsTypeOK
<1>2. MailMoves /\ letIn' \subseteq Recipients
  BY <1>1 DEF CallFails, MailMoves, Take, Mail, MailsInv, MailsTypeOK
<1>3. CASE mail[s].calls <= MaxRetries
  <2> DEFINE x == [mail[s] EXCEPT !.phase = "backoff", !.taken = @ \/ took]
  <2>1. mail' = [mail EXCEPT ![s] = x]
    BY <1>1, <1>3 DEF CallFails, Mail
  <2>2. x \in Mail /\ x.phase = "backoff" /\ x.calls <= MaxRetries
    BY <1>1, <1>3 DEF Mail
  <2> HIDE DEF x
  <2>3. QED
    BY <1>2, <2>1, <2>2, MailMovesInv
<1>4. CASE ~(mail[s].calls <= MaxRetries)
  <2> DEFINE x == [mail[s] EXCEPT !.phase = "failed", !.taken = @ \/ took,
                                  !.as = LoggedAs(mail[s].type)]
  <2>1. mail' = [mail EXCEPT ![s] = x]
    BY <1>1, <1>4 DEF CallFails, Finish, Mail
  <2>2. x \in Mail /\ x.phase = "failed" /\ x.calls = mail[s].calls /\ x.as = LoggedAs(x.type)
    BY <1>1, Named DEF Mail
  <2>3. x.calls = MaxRetries + 1
    BY <1>1, <1>4, <2>2, MailsAssumption DEF Mail
  <2> HIDE DEF x
  <2>4. QED
    BY <1>2, <2>1, <2>2, <2>3, MailMovesInv
<1>5. QED
  BY <1>3, <1>4

LEMMA RetryInv == ASSUME MailsInv, NEW s \in Slots, Retry(s) PROVE MailsInv'
<1> DEFINE x == [mail[s] EXCEPT !.phase = "calling", !.calls = @ + 1]
<1>1. mail[s] \in Mail /\ mail[s].calls <= MaxRetries
  BY DEF Retry, Underway, MailsInv, MailsTypeOK, RoomLeft
<1>2. mail' = [mail EXCEPT ![s] = x] /\ MailMoves /\ letIn' = letIn
  BY <1>1 DEF Retry, MailMoves, Mail
<1>3. PICK n \in 1..(MaxRetries + 1) : n = mail[s].calls + 1
  <2>1. mail[s].calls \in 1..(MaxRetries + 1)
    BY <1>1 DEF Mail
  <2>2. QED
    BY <1>1, <2>1, MailsAssumption
<1>4. x = [mail[s] EXCEPT !.phase = "calling", !.calls = n]
  BY <1>3
<1>5. x \in Mail /\ x.phase = "calling"
  BY <1>1, <1>4 DEF Mail
<1> HIDE DEF x
<1>6. QED
  BY <1>2, <1>5, MailMovesInv DEF MailsInv, MailsTypeOK

LEMMA NotifyInv ==
  ASSUME MailsInv, NEW s \in Slots, NEW type \in NoticeTypes, NEW c \in Recipients, Notify(s, type, c)
  PROVE  MailsInv'
<1> DEFINE x == [phase |-> "calling", type |-> type, to |-> c, calls |-> 1, taken |-> FALSE,
                 as |-> type]
<1>1. mail' = [mail EXCEPT ![s] = x] /\ MailMoves /\ letIn' = letIn
  BY DEF Notify, StartMail, MailMoves
<1>2. x \in Mail /\ x.phase = "calling"
  BY MailsAssumption DEF Mail, EmailTypes
<1> HIDE DEF x
<1>3. QED
  BY <1>1, <1>2, MailMovesInv DEF MailsInv, MailsTypeOK

LEMMA ExpireInv == ASSUME MailsInv, NEW key \in CacheKeys, Expire(key) PROVE MailsInv'
<1>1. /\ attempts' = [attempts EXCEPT ![key] = 0] /\ granted' = [granted EXCEPT ![key] = 0]
      /\ overlapped' = [overlapped EXCEPT ![key] = \E q, r \in Counting(key) : q # r]
      /\ UNCHANGED <<joined, caller, mail, crashes, letIn>>
  BY DEF Expire
<1>2. MailsTypeOK'
  BY <1>1, MailsAssumption DEF MailsInv, MailsTypeOK
<1>3. RoomLeft' /\ LogTold'
  BY <1>1 DEF MailsInv, RoomLeft, LogTold, Underway
<1>4. QuotaOK'
  <2> SUFFICES ASSUME NEW k \in CacheKeys, ~overlapped'[k] PROVE Quota(k)'
    BY DEF QuotaOK, Quota
  <2>1. \A q \in Callers : Counts(q, k)' <=> Counts(q, k)
    BY <1>1 DEF Counts, KeyOf
  <2>2. CASE k = key
    <3>1. \A q, r \in Callers : Counts(q, k) /\ Counts(r, k) => q = r
      BY <1>1, <2>2 DEF MailsInv, MailsTypeOK, Counting, Counts
    <3>2. granted'[k] = 0 /\ attempts'[k] = 0
      BY <1>1, <2>2 DEF MailsInv, MailsTypeOK
    <3>3. \A q \in Callers : Counts(q, k) => caller'[q] = caller[q] /\ caller[q].count \in Nat
      BY <1>1 DEF MailsInv, MailsTypeOK, Counts, Asking
    <3>4. QED
      BY <2>1, <3>1, <3>2, <3>3 DEF Quota
  <2>3. CASE k # key
    <3>1. granted'[k] = granted[k] /\ attempts'[k] = attempts[k] /\ overlapped'[k] = overlapped[k]
      BY <1>1, <2>3 DEF MailsInv, MailsTypeOK
    <3>2. Quota(k)
      BY DEF MailsInv, QuotaOK
    <3>3. QED
      BY <1>1, <2>1, <3>1, <3>2 DEF Quota
  <2>4. QED
    BY <2>2, <2>3
<1>5. QED
  BY <1>2, <1>3, <1>4 DEF MailsInv

LEMMA CrashInv == ASSUME MailsInv, CrashMails PROVE MailsInv'
BY MailsAssumption
   DEF CrashMails, MailsInv, MailsTypeOK, RoomLeft, QuotaOK, Quota, Counts, LogTold, Underway

LEMMA MailsStepInv == MailsInv /\ [MailsNext]_mailsVars => MailsInv'
<1> SUFFICES ASSUME MailsInv, [MailsNext]_mailsVars PROVE MailsInv'
  OBVIOUS
<1>1. ASSUME NEW r \in Callers, NEW c \in Recipients, Join(r, c) PROVE MailsInv'
  BY <1>1, JoinInv
<1>2. ASSUME NEW r \in Callers, NEW type \in RequestTypes, NEW c \in Recipients,
             Request(r, type, c)
      PROVE  MailsInv'
  BY <1>2, RequestInv
<1>3. ASSUME NEW r \in Callers, SendEmail(r) \/ FailToCompose(r) \/ CountAttempt(r) PROVE MailsInv'
  BY <1>3, SendEmailInv, FailToComposeInv, CountAttemptInv
<1>4. ASSUME NEW k \in CacheKeys, Expire(k) PROVE MailsInv'
  BY <1>4, ExpireInv
<1>5. ASSUME NEW s \in Slots, CallSucceeds(s) \/ Retry(s) PROVE MailsInv'
  BY <1>5, CallSucceedsInv, RetryInv
<1>6. ASSUME NEW s \in Slots, NEW took \in BOOLEAN, CallFails(s, took) PROVE MailsInv'
  BY <1>6, CallFailsInv
<1>7. ASSUME NEW s \in Slots, NEW type \in NoticeTypes, NEW c \in Recipients, Notify(s, type, c)
      PROVE  MailsInv'
  BY <1>7, NotifyInv
<1>8. CASE UNCHANGED mailsVars
  BY <1>8 DEF mailsVars, MailsInv, MailsTypeOK, RoomLeft, QuotaOK, Quota, Counts, KeyOf, LogTold, Underway
<1>9. QED
  BY <1>1, <1>2, <1>3, <1>4, <1>5, <1>6, <1>7, <1>8, CrashInv DEF MailsNext

LEMMA MailsInvariant == MailsSafety => []MailsInv
BY MailsInitInv, MailsStepInv, PTL DEF MailsSafety

-----------------------------------------------------------------------------

\* The variables of Mails keep their types for any customers, requests, slots and limits.
THEOREM MailsTypeCorrect == MailsSafety => []MailsTypeOK
<1>1. MailsInv => MailsTypeOK
  BY DEF MailsInv
<1>2. QED
  BY <1>1, MailsInvariant, PTL

\* forgetPassword and the two ways to resend: whoever asks for what, and whatever fails or
\* restarts, the mails of a budget exceed the limit only if its requests overlapped.
THEOREM LimitEnforced == MailsSafety => []LimitHolds
<1>1. MailsInv => LimitHolds
  <2> SUFFICES ASSUME MailsInv, NEW k \in CacheKeys, ~overlapped[k] PROVE granted[k] <= MaxAttempts
    BY DEF LimitHolds
  <2>1. Quota(k) /\ granted[k] \in Nat /\ attempts[k] \in 0..MaxAttempts /\ MaxAttempts \in Nat
    BY MailsAssumption DEF MailsInv, QuotaOK, MailsTypeOK
  <2>2. CASE \E r \in Callers : Counts(r, k) /\ caller[r].step = "count"
    <3>1. PICK r \in Callers : Counts(r, k) /\ caller[r].step = "count"
      BY <2>2
    <3>2. caller[r].count < MaxAttempts /\ caller[r].count \in Nat
      BY <3>1 DEF Counts, MailsInv, RoomLeft, MailsTypeOK, Asking
    <3>3. granted[k] <= caller[r].count + 1
      BY <2>1, <3>1 DEF Quota
    <3>4. QED
      BY <2>1, <3>2, <3>3
  <2>3. CASE \A r \in Callers : ~(Counts(r, k) /\ caller[r].step = "count")
    BY <2>1, <2>3 DEF Quota
  <2>4. QED
    BY <2>2, <2>3
<1>2. QED
  BY <1>1, MailsInvariant, PTL

\* sendEmailWithRetry: a mail is logged as sent only if SES took it, as failed only after
\* every retry, and under its own name but for the type without a case.
THEOREM LogTruthful == MailsSafety => []LogTold
<1>1. MailsInv => LogTold
  BY DEF MailsInv
<1>2. QED
  BY <1>1, MailsInvariant, PTL

-----------------------------------------------------------------------------
(* The passwords. *)

\* Whoever has read the row since its password was written has read that password.
ReadsCurrent ==
  \A v \in Visits \ outdated : visit[v].op \in {"login", "change"} => visit[v].read = password

PasswordsInv == PasswordsTypeOK /\ ReadsCurrent

LEMMA PasswordsInitInv == PasswordsInit => PasswordsInv
<1> SUFFICES ASSUME PasswordsInit PROVE PasswordsInv
  OBVIOUS
<1>1. visit \in [Visits -> Visit \union {Nobody}]
  BY DEF PasswordsInit
<1>2. PasswordsTypeOK
  BY <1>1 DEF PasswordsInit, PasswordsTypeOK, TokenKinds
<1>3. ReadsCurrent
  BY DEF PasswordsInit, ReadsCurrent, Nobody
<1>4. QED
  BY <1>2, <1>3 DEF PasswordsInv

LEMMA BeginPasswordsInv ==
  ASSUME PasswordsInv, NEW v \in Visits, NEW request \in Visit, Begin(v, request),
         request.op \in {"login", "change"} => request.read = password
  PROVE  PasswordsInv'
<1>1. PasswordsTypeOK'
  BY DEF PasswordsInv, PasswordsTypeOK, Begin
<1>2. ReadsCurrent'
  BY DEF PasswordsInv, PasswordsTypeOK, ReadsCurrent, Begin
<1>3. QED
  BY <1>1, <1>2 DEF PasswordsInv

LEMMA WritePasswordInv ==
  ASSUME PasswordsInv, NEW v \in Visits, NEW new \in PasswordInputs, WritePassword(v, new)
  PROVE  PasswordsInv'
<1>1. PasswordsTypeOK'
  BY DEF PasswordsInv, PasswordsTypeOK, WritePassword, End
<1>2. ReadsCurrent'
  BY DEF PasswordsInv, PasswordsTypeOK, ReadsCurrent, WritePassword, End, Nobody
<1>3. QED
  BY <1>1, <1>2 DEF PasswordsInv

\* A request that ends without a write takes nothing from the others.
LEMMA EndPasswordsInv ==
  ASSUME PasswordsInv, NEW v \in Visits, End(v), password' = password,
         tokens' \subseteq TokenKinds, outdated' \in {outdated, outdated \ {v}}
  PROVE  PasswordsInv'
<1>1. PasswordsTypeOK'
  BY DEF PasswordsInv, PasswordsTypeOK, End
<1>2. ReadsCurrent'
  BY DEF PasswordsInv, PasswordsTypeOK, ReadsCurrent, End, Nobody
<1>3. QED
  BY <1>1, <1>2 DEF PasswordsInv

LEMMA PasswordsStepInv == PasswordsInv /\ [PasswordsNext]_passwordVars => PasswordsInv'
<1> SUFFICES ASSUME PasswordsInv, [PasswordsNext]_passwordVars PROVE PasswordsInv'
  OBVIOUS
<1>0. password \in PasswordInputs
  BY DEF PasswordsInv, PasswordsTypeOK
<1>1. ASSUME NEW v \in Visits, NEW given \in PasswordInputs, FindForLogin(v, given)
      PROVE  PasswordsInv'
  BY <1>0, <1>1, BeginPasswordsInv DEF FindForLogin, Visit
<1>2. ASSUME NEW v \in Visits, NEW given \in PasswordInputs, NEW new \in PasswordInputs,
             FindForChange(v, given, new)
      PROVE  PasswordsInv'
  BY <1>0, <1>2, BeginPasswordsInv DEF FindForChange, Visit
<1>3. ASSUME NEW v \in Visits, NEW new \in PasswordInputs, FindForReset(v, new)
      PROVE  PasswordsInv'
  BY <1>3, BeginPasswordsInv DEF FindForReset, Visit
<1>4. ASSUME NEW v \in Visits, FindForRefresh(v)
      PROVE  PasswordsInv'
  BY <1>4, BeginPasswordsInv DEF FindForRefresh, Visit
<1>5. ASSUME NEW v \in Visits, ChangePassword(v) \/ ResetPassword(v)
      PROVE  PasswordsInv'
  <2>1. visit[v].new \in PasswordInputs
    BY <1>5 DEF PasswordsInv, PasswordsTypeOK, ChangePassword, ResetPassword, Visit, Nobody
  <2>2. QED
    BY <1>5, <2>1, WritePasswordInv DEF ChangePassword, ResetPassword
<1>6. ASSUME NEW v \in Visits, IssueTokens(v) \/ CreateAccessToken(v) \/ EndInError(v)
      PROVE  PasswordsInv'
  BY <1>6, EndPasswordsInv
     DEF IssueTokens, CreateAccessToken, EndInError, TokenKinds, PasswordsInv, PasswordsTypeOK
<1>7. CASE MailToken \/ ExpireOld \/ \E kind \in {"signed", "renewed"} : GrowOld(kind)
  BY <1>7 DEF MailToken, GrowOld, ExpireOld, TokenKinds, PasswordsInv, PasswordsTypeOK,
              ReadsCurrent
<1>8. CASE UNCHANGED passwordVars
  BY <1>8 DEF passwordVars, PasswordsInv, PasswordsTypeOK, ReadsCurrent
<1>9. QED
  BY <1>1, <1>2, <1>3, <1>4, <1>5, <1>6, <1>7, <1>8 DEF PasswordsNext, Finishes

LEMMA PasswordsInvariant == PasswordsSafety => []PasswordsInv
BY PasswordsInitInv, PasswordsStepInv, PTL DEF PasswordsSafety

\* The password, the requests and the tokens keep their types.
THEOREM PasswordsTypeCorrect == PasswordsSafety => []PasswordsTypeOK
BY PasswordsInvariant, PTL DEF PasswordsInv

\* A replaced password opens no session and replaces no password, but for a request
\* that had read the row before.
THEOREM ReplacedPasswordRefused == PasswordsSafety => ReplacedPasswordUseless
<1> DEFINE Step == \A v \in Visits \ outdated :
       /\ visit[v].op = "login" /\ visit'[v] = Nobody /\ tokens' # tokens
            => visit[v].given = password
       /\ visit[v].op = "change" /\ visit'[v] = Nobody /\ password' # password
            => visit[v].given = password
<1>1. PasswordsInv /\ [PasswordsNext]_passwordVars => [Step]_passwordVars
  <2> SUFFICES ASSUME PasswordsInv, PasswordsNext, NEW v \in Visits \ outdated
               PROVE  /\ visit[v].op = "login" /\ visit'[v] = Nobody /\ tokens' # tokens
                           => visit[v].given = password
                      /\ visit[v].op = "change" /\ visit'[v] = Nobody /\ password' # password
                           => visit[v].given = password
    OBVIOUS
  <2>1. visit[v].op \in {"login", "change"} => visit[v].read = password
    BY DEF PasswordsInv, ReadsCurrent
  <2>2. visit[v].op = "login" /\ tokens' # tokens /\ visit'[v] = Nobody
          => PasswordVerified(v)
    <3> SUFFICES ASSUME visit[v].op = "login", tokens' # tokens, visit'[v] = Nobody
                 PROVE  PasswordVerified(v)
      OBVIOUS
    <3>0. visit' # visit
      BY DEF Nobody
    <3>1. PICK w \in Visits : IssueTokens(w) \/ CreateAccessToken(w)
      BY <3>0 DEF PasswordsNext, Finishes, FindForLogin, FindForChange, FindForReset, FindForRefresh,
             Begin, ChangePassword, ResetPassword, WritePassword, EndInError,
             MailToken, GrowOld, ExpireOld
    <3>2. w = v
      BY <3>1 DEF IssueTokens, CreateAccessToken, End, PasswordsInv, PasswordsTypeOK, Nobody
    <3>3. QED
      BY <3>1, <3>2 DEF IssueTokens, CreateAccessToken
  <2>3. visit[v].op = "change" /\ visit'[v] = Nobody /\ password' # password
          => PasswordVerified(v)
    <3> SUFFICES ASSUME visit[v].op = "change", visit'[v] = Nobody, password' # password
                 PROVE  PasswordVerified(v)
      OBVIOUS
    <3>1. PICK w \in Visits : ChangePassword(w) \/ ResetPassword(w)
      BY DEF PasswordsNext, Finishes, FindForLogin, FindForChange, FindForReset, FindForRefresh,
             Begin, IssueTokens, CreateAccessToken, EndInError,
             MailToken, GrowOld, ExpireOld
    <3>2. w = v
      BY <3>1 DEF ChangePassword, ResetPassword, WritePassword, End, PasswordsInv,
                  PasswordsTypeOK, Nobody
    <3>3. QED
      BY <3>1, <3>2 DEF ChangePassword, ResetPassword
  <2>4. QED
    BY <2>1, <2>2, <2>3 DEF PasswordVerified
<1>2. QED
  BY <1>1, PasswordsInvariant, PTL DEF PasswordsSafety, ReplacedPasswordUseless

-----------------------------------------------------------------------------
(* The listings: the order of the rows is that of a natural number. *)

\* The place of a row in the order of its listing.
Rank ==
  [a \in 1..MaxRows |->
     CASE listing = "customers" -> a
       [] listing = "charges" -> MaxRows - a
       [] listing = "activities" -> MaxRows - updated[a]
       [] OTHER -> (IF a \in settled THEN 2 * MaxRows ELSE MaxRows) - a]

\* Times of update are given to the rows and to no two of them the same.
Times ==
  /\ \A a \in Rows : updated[a] \in 1..rows
  /\ \A a \in (1..MaxRows) \ Rows : updated[a] = 0
  /\ \A a, b \in Rows : a # b => updated[a] # updated[b]

Ahead(a, b) == a # b => Precedes(a, b)

LEMMA MaxRowsNat == MaxRows \in Nat
BY PagesAssumption

LEMMA Ranked ==
  ASSUME PagesTypeOK, Times
  PROVE  /\ Rank \in [1..MaxRows -> Nat] /\ \A a \in 1..MaxRows : Rank[a] <= 2 * MaxRows
         /\ \A a, b \in Rows : Precedes(a, b) <=> Rank[a] < Rank[b]
         /\ \A a, b \in Rows : a # b => Rank[a] # Rank[b]
<1> USE MaxRowsNat
<1>1. /\ rows \in Nat /\ rows <= MaxRows /\ Rows = 1..rows
      /\ updated \in [1..MaxRows -> 0..MaxRows]
      /\ listing \in {"customers", "charges", "activities", "commissions"}
  BY PagesAssumption DEF PagesTypeOK, Rows
<1>2. Rank \in [1..MaxRows -> Nat] /\ \A a \in 1..MaxRows : Rank[a] <= 2 * MaxRows
  BY <1>1 DEF Rank
<1>3. \A a, b \in Rows : Precedes(a, b) <=> Rank[a] < Rank[b]
  BY <1>1 DEF Rank, Precedes
<1>4. ASSUME NEW a \in Rows, NEW b \in Rows, a # b PROVE Rank[a] # Rank[b]
  <2>1. /\ a \in 1..MaxRows /\ b \in 1..MaxRows
        /\ updated[a] # updated[b] /\ updated[a] \in Nat /\ updated[b] \in Nat
    BY <1>1, <1>4 DEF Times
  <2>2. CASE listing = "customers"
    BY <1>4, <2>1, <2>2 DEF Rank
  <2>3. CASE listing = "charges"
    BY <1>4, <2>1, <2>3 DEF Rank
  <2>4. CASE listing = "activities"
    BY <2>1, <2>4 DEF Rank
  <2>5. CASE listing = "commissions"
    <3>1. \A x \in {a, b} :
            Rank[x] = (IF x \in settled THEN 2 * MaxRows ELSE MaxRows) - x
      BY <2>1, <2>5 DEF Rank
    <3>2. QED
      BY <1>4, <2>1, <3>1
  <2>6. QED
    BY <1>1, <2>2, <2>3, <2>4, <2>5
<1>5. QED
  BY <1>2, <1>3, <1>4

LEMMA LeastNumber ==
  ASSUME NEW S, S # {}, NEW f, \A x \in S : f[x] \in Nat
  PROVE  \E x \in S : \A y \in S : f[x] <= f[y]
<1> DEFINE T == {f[x] : x \in S}
<1>1. T \subseteq Nat /\ T # {}
  OBVIOUS
<1>2. PICK n \in T : \A k \in T : ~(<<k, n>> \in OpToRel(<, Nat))
  <2>1. \E n \in T : \A k \in T : ~(<<k, n>> \in OpToRel(<, Nat))
    BY <1>1, NatLessThanWellFounded, WFMin
  <2>2. QED
    BY <2>1
<1>3. OpToRel(<, Nat) = {ss \in Nat \X Nat : ss[1] < ss[2]}
  BY DEF OpToRel
<1>4. \A k \in T : n <= k
  <2> HIDE DEF T
  <2> SUFFICES ASSUME NEW k \in T PROVE n <= k
    OBVIOUS
  <2>1. n \in Nat /\ k \in Nat /\ ~(<<k, n>> \in {ss \in Nat \X Nat : ss[1] < ss[2]})
    BY <1>1, <1>2, <1>3
  <2>2. ~(k < n)
    BY <2>1
  <2>3. QED
    BY <2>1, <2>2
<1>5. QED
  BY <1>4

LEMMA FirstAndLast ==
  ASSUME PagesTypeOK, Times, NEW S, S \subseteq Rows, S # {}
  PROVE  /\ \E x \in S : \A y \in S : Ahead(x, y)
         /\ \E x \in S : \A y \in S : Ahead(y, x)
<1> USE MaxRowsNat
<1>0. Rows \subseteq 1..MaxRows
  BY DEF PagesTypeOK, Rows
<1>1. \E x \in S : \A y \in S : Rank[x] <= Rank[y]
  <2>1. \A x \in S : Rank[x] \in Nat
    BY <1>0, Ranked
  <2>2. QED
    BY <2>1, LeastNumber
<1>2. \E x \in S : \A y \in S : Rank[y] <= Rank[x]
  <2> DEFINE f == [x \in 1..MaxRows |-> 2 * MaxRows - Rank[x]]
  <2>1. \A x \in S : f[x] \in Nat /\ f[x] = 2 * MaxRows - Rank[x] /\ Rank[x] \in Nat
    BY <1>0, Ranked
  <2>2. PICK x \in S : \A y \in S : f[x] <= f[y]
    <3> HIDE DEF f
    <3>1. QED
      BY <2>1, LeastNumber
  <2>3. \A y \in S : Rank[y] <= Rank[x]
    <3> HIDE DEF f
    <3>1. QED
      BY <2>1, <2>2
  <2>4. QED
    BY <2>3
<1>3. \A x, y \in S : Rank[x] \in Nat /\ Rank[y] \in Nat /\ (Rank[x] <= Rank[y] => Ahead(x, y))
  BY <1>0, Ranked DEF Ahead
<1>4. QED
  BY <1>1, <1>2, <1>3

\* The order is a strict one, and total.
LEMMA Ordered ==
  ASSUME PagesTypeOK, Times
  PROVE  /\ \A a \in Rows : ~Precedes(a, a)
         /\ \A a, b, c \in Rows : Precedes(a, b) /\ Precedes(b, c) => Precedes(a, c)
         /\ \A a, b \in Rows : Precedes(a, b) \/ Precedes(b, a) \/ a = b
<1>1. Rows \subseteq 1..MaxRows
  BY MaxRowsNat DEF PagesTypeOK, Rows
<1>2. \A a \in Rows : Rank[a] \in Nat
  BY <1>1, Ranked
<1>3. QED
  BY <1>2, Ranked

LEMMA FiniteRows ==
  ASSUME PagesTypeOK, NEW S, S \subseteq Rows
  PROVE  IsFiniteSet(S) /\ Cardinality(S) \in Nat
<1>1. IsFiniteSet(Rows)
  BY MaxRowsNat, FS_Interval DEF PagesTypeOK, Rows
<1>2. QED
  BY <1>1, FS_Subset, FS_CardinalityType

Preceding(r, S) == {q \in S : Precedes(q, r)}

LEMMA FewerPreceding ==
  ASSUME PagesTypeOK, Times, NEW S, S \subseteq Rows, NEW a \in Rows, NEW b \in Rows,
         Ahead(a, b)
  PROVE  /\ Cardinality(Preceding(a, S)) <= Cardinality(Preceding(b, S))
         /\ Cardinality(Preceding(a, S)) \in Nat /\ Cardinality(Preceding(b, S)) \in Nat
<1>1. Preceding(a, S) \subseteq Preceding(b, S)
  BY Ordered DEF Preceding, Ahead
<1>2. Preceding(b, S) \subseteq Rows /\ Preceding(a, S) \subseteq Rows
  BY DEF Preceding
<1>3. IsFiniteSet(Preceding(b, S)) /\ Cardinality(Preceding(b, S)) \in Nat
      /\ Cardinality(Preceding(a, S)) \in Nat
  BY <1>2, FiniteRows
<1>4. QED
  BY <1>1, <1>3, FS_Subset

\* FirstOf takes the rows of S in the order, none left out in between.
LEMMA FirstOfClosed ==
  ASSUME PagesTypeOK, Times, NEW S, S \subseteq Rows, NEW n \in Nat,
         NEW b \in FirstOf(n, S), NEW a \in S, Ahead(a, b)
  PROVE  a \in FirstOf(n, S)
<1>1. b \in Rows /\ a \in Rows
  BY DEF FirstOf
<1>2. Cardinality(Preceding(b, S)) < n
  BY DEF FirstOf, Preceding
<1>3. Cardinality(Preceding(a, S)) < n
  BY <1>1, <1>2, FewerPreceding
<1>4. QED
  BY <1>3 DEF FirstOf, Preceding

LEMMA FirstOfSome ==
  ASSUME PagesTypeOK, Times, NEW S, S \subseteq Rows, S # {}, NEW n \in Nat, n > 0
  PROVE  FirstOf(n, S) # {}
<1>1. PICK x \in S : \A y \in S : Ahead(x, y)
  BY FirstAndLast
<1>2. Preceding(x, S) = {}
  BY <1>1, Ordered DEF Preceding, Ahead
<1>3. Cardinality(Preceding(x, S)) = 0
  BY <1>2, FS_EmptySet
<1>4. QED
  BY <1>3 DEF FirstOf, Preceding

\* One row more than the limit is enough to know that there is another page.
LEMMA NothingBeyond ==
  ASSUME PagesTypeOK, Times, NEW S, S \subseteq Rows, NEW n \in Nat,
         FirstOf(n, FirstOf(n + 1, S)) = FirstOf(n + 1, S)
  PROVE  FirstOf(n + 1, S) = S
<1> DEFINE T == FirstOf(n + 1, S)
           Rest == S \ T
<1>1. T \subseteq S /\ T \subseteq Rows /\ Rest \subseteq Rows
  BY DEF FirstOf
<1>2. SUFFICES ASSUME Rest # {} PROVE FALSE
  BY <1>1
<1>3. PICK x \in Rest : \A y \in Rest : Ahead(x, y)
  <2> HIDE DEF Rest
  <2>1. QED
    BY <1>1, <1>2, FirstAndLast
<1>4. Preceding(x, S) \subseteq T
  <2>1. x \in Rows /\ \A q \in Preceding(x, S) : q \in S /\ q \in Rows /\ Precedes(q, x)
    BY <1>1 DEF Preceding
  <2>2. \A q \in Preceding(x, S) : q \notin Rest
    BY <1>1, <1>3, <2>1, Ordered DEF Ahead
  <2>3. QED
    BY <2>1, <2>2
<1>5. Cardinality(T) >= n + 1 /\ Cardinality(T) \in Nat /\ IsFiniteSet(T)
  <2>1. IsFiniteSet(T) /\ Cardinality(T) \in Nat
    BY <1>1, FiniteRows
  <2>2. Cardinality(Preceding(x, S)) <= Cardinality(T)
    BY <1>4, <2>1, FS_Subset
  <2>3. ~(Cardinality(Preceding(x, S)) < n + 1)
    BY DEF FirstOf, Preceding
  <2>4. Cardinality(Preceding(x, S)) \in Nat
    BY <1>1, <1>4, FiniteRows
  <2>5. QED
    BY <2>1, <2>2, <2>3, <2>4
<1>6. T # {}
  BY <1>5, FS_EmptySet
<1>7. PICK m \in T : \A y \in T : Ahead(y, m)
  <2> HIDE DEF T
  <2>1. QED
    BY <1>1, <1>6, FirstAndLast
<1>8. Preceding(m, T) = T \ {m}
  BY <1>1, <1>7, Ordered DEF Preceding, Ahead
<1>9. Cardinality(T \ {m}) = Cardinality(T) - 1
  BY <1>5, <1>7, FS_RemoveElement
<1>10. ~(Cardinality(Preceding(m, T)) < n)
  <2> HIDE DEF T
  <2>1. QED
    BY <1>5, <1>8, <1>9
<1>11. m \notin FirstOf(n, T)
  BY <1>10 DEF FirstOf, Preceding
<1>12. QED
  BY <1>7, <1>11

-----------------------------------------------------------------------------

\* Rows up to the cursor have been shown, and only such rows.
Progressed ==
  /\ steady \subseteq Matching
  /\ reader = "none" => cursor = 0 /\ shown = {} /\ again = {}
  /\ reader # "none" /\ ~(listing = "commissions" /\ moved) =>
       \A r \in steady : cursor # 0 /\ ~Precedes(cursor, r) => r \in shown
  /\ NothingMissed

NotAhead ==
  reader = "reading" /\ ~moved =>
    /\ cursor = 0 => shown = {}
    /\ cursor # 0 => cursor \in cursors
    /\ \A r \in shown \intersect steady : r = cursor \/ Precedes(r, cursor)

PagesInv == PagesTypeOK /\ Times /\ Progressed /\ NotAhead /\ OnlyCursorsAgain

LEMMA PagesInitInv == PagesInit => PagesInv
<1> SUFFICES ASSUME PagesInit PROVE PagesInv
  OBVIOUS
<1> USE MaxRowsNat, PagesAssumption
<1>1. Rows = {} /\ updated \in [1..MaxRows -> 0..MaxRows]
  BY DEF PagesInit, Rows
<1>2. moved \in BOOLEAN
  BY DEF PagesInit
<1>3. PagesTypeOK
  BY <1>1, <1>2 DEF PagesInit, PagesTypeOK
<1>4. Times
  BY <1>1 DEF PagesInit, Times
<1>5. Progressed /\ NotAhead /\ OnlyCursorsAgain
  BY DEF PagesInit, Progressed, NotAhead, NothingMissed, OnlyCursorsAgain
<1>6. QED
  BY <1>3, <1>4, <1>5 DEF PagesInv

LEMMA AddRowInv == PagesInv /\ AddRow => PagesInv'
<1> SUFFICES ASSUME PagesInv, AddRow PROVE PagesInv'
  OBVIOUS
<1> USE MaxRowsNat, PagesAssumption
<1>1. /\ rows \in Nat /\ rows < MaxRows /\ rows' = rows + 1 /\ Rows' = Rows \union {rows + 1}
      /\ Rows = 1..rows /\ \A a \in Rows : updated'[a] = updated[a] /\ updated[a] \in 1..rows
      /\ updated'[rows + 1] = rows + 1
  BY DEF PagesInv, PagesTypeOK, AddRow, Rows, Times
<1>2. PagesTypeOK'
  BY <1>1 DEF PagesInv, PagesTypeOK, AddRow, Edit, Rows, readerVars, historyVars
<1>3. Times'
  <2>1. \A a \in (1..MaxRows) \ Rows' : updated'[a] = 0
    BY <1>1 DEF PagesInv, PagesTypeOK, AddRow, Times
  <2>2. \A a \in Rows' : updated'[a] \in 1..rows'
    BY <1>1
  <2>3. \A a, b \in Rows : a # b => updated'[a] # updated'[b]
    BY <1>1 DEF PagesInv, Times
  <2>4. \A a \in Rows : updated'[a] # updated'[rows + 1]
    BY <1>1
  <2>5. \A a, b \in Rows' : a # b => updated'[a] # updated'[b]
    BY <1>1, <2>3, <2>4
  <2>6. QED
    BY <2>1, <2>2, <2>5 DEF Times
<1>4. \A a, b \in Rows : Precedes(a, b)' <=> Precedes(a, b)
  <2>1. UNCHANGED <<listing, settled>> /\ \A a \in Rows : updated'[a] = updated[a]
    BY <1>1 DEF AddRow
  <2> SUFFICES ASSUME NEW a \in Rows, NEW b \in Rows PROVE Precedes(a, b)' <=> Precedes(a, b)
    OBVIOUS
  <2>2. updated'[a] = updated[a] /\ updated'[b] = updated[b]
    BY <2>1
  <2>3. QED
    BY ONLY <2>1, <2>2 DEF Precedes
<1>5. steady \subseteq Rows /\ shown \subseteq Rows /\ (cursor # 0 => cursor \in Rows)
  <2>1. steady \subseteq Rows /\ shown \subseteq Rows /\ cursor \in 0..rows
    BY DEF PagesInv, PagesTypeOK
  <2>2. rows \in Nat /\ Rows = 1..rows
    BY <1>1
  <2>3. QED
    BY ONLY <2>1, <2>2
<1>6. Matching \subseteq Matching'
  BY <1>1 DEF AddRow, Matching, readerVars
<1>7. UNCHANGED <<listing, reader, filter, limit, cursor, shown, again, cursors, steady, moved>>
  BY DEF AddRow, readerVars, historyVars
<1>8. Progressed'
  BY <1>4, <1>5, <1>6, <1>7 DEF PagesInv, Progressed, NothingMissed
<1>9. NotAhead'
  <2> SUFFICES ASSUME reader' = "reading", ~moved'
               PROVE  /\ cursor' = 0 => shown' = {}
                      /\ cursor' # 0 => cursor' \in cursors'
                      /\ \A r \in shown' \intersect steady' : r = cursor' \/ Precedes(r, cursor)'
    BY DEF NotAhead
  <2>1. /\ cursor = 0 => shown = {}
        /\ cursor # 0 => cursor \in cursors
        /\ \A r \in shown \intersect steady : r = cursor \/ Precedes(r, cursor)
    BY <1>7 DEF PagesInv, NotAhead
  <2>2. QED
    BY <1>4, <1>5, <1>7, <2>1
<1>10. OnlyCursorsAgain'
  BY <1>7 DEF PagesInv, OnlyCursorsAgain
<1>11. QED
  BY <1>2, <1>3, <1>8, <1>9, <1>10 DEF PagesInv

\* Stamped takes one time out of those up to n and closes the gap.
Closed(x, y) == IF x > y THEN x - 1 ELSE x

LEMMA GapClosed ==
  ASSUME NEW n \in Nat, NEW x \in 1..n, NEW y \in 1..n, NEW z \in 1..n, x # y, z # y
  PROVE  /\ Closed(x, y) \in 1..(n - 1)
         /\ Closed(x, y) > Closed(z, y) <=> x > z
         /\ x # z => Closed(x, y) # Closed(z, y)
BY DEF Closed

LEMMA ChangeRowInv ==
  ASSUME PagesInv, NEW r \in 1..MaxRows, ChangeRow(r)
  PROVE  PagesInv'
<1> USE MaxRowsNat, PagesAssumption
<1>1. /\ rows \in Nat /\ rows <= MaxRows /\ Rows = 1..rows /\ Rows' = Rows /\ r \in Rows
      /\ \A a \in Rows : updated[a] \in 1..rows
      /\ updated \in [1..MaxRows -> 0..MaxRows]
  BY DEF PagesInv, PagesTypeOK, ChangeRow, Rows, Times
<1>3. /\ UNCHANGED <<listing, rows, reader, filter, limit, cursor, shown, again, cursors>>
      /\ steady' = steady \ {r} /\ settled' \in {settled, settled \union {r}, settled \ {r}}
      /\ moved' = (moved \/ (listing \in Moving /\ r = cursor))
  BY DEF ChangeRow, readerVars, historyVars
<1>2. /\ updated' \in [1..MaxRows -> 0..MaxRows] /\ Times'
      /\ \A a, b \in Rows \ {r} : updated'[a] > updated'[b] <=> updated[a] > updated[b]
      /\ listing = "activities" => \A a \in Rows \ {r} : updated'[r] > updated'[a]
  <2>1. CASE listing # "activities"
    BY <1>1, <2>1 DEF PagesInv, ChangeRow, Times
  <2>2. CASE listing = "activities"
    <3>1. updated' = [q \in 1..MaxRows |-> IF q = r THEN rows
                        ELSE IF updated[q] > updated[r] THEN updated[q] - 1 ELSE updated[q]]
      BY <1>1, <2>2 DEF ChangeRow, Stamped
    <3>2. updated'[r] = rows
      BY <1>1, <3>1
    <3>3. \A a \in Rows \ {r} : updated[a] \in 1..rows /\ updated[a] # updated[r]
      BY <1>1 DEF PagesInv, Times
    <3>4. \A a \in Rows \ {r} : updated'[a] = Closed(updated[a], updated[r])
      <4>1. \A a \in Rows \ {r} : a \in 1..MaxRows /\ a # r
        BY <1>1
      <4>2. QED
        BY ONLY <3>1, <4>1 DEF Closed
    <3>5. rows \in Nat /\ updated[r] \in 1..rows
      BY <1>1
    <3>6. ASSUME NEW a \in Rows \ {r}, NEW b \in Rows \ {r}
          PROVE  /\ updated'[a] \in 1..(rows - 1)
                 /\ updated'[a] > updated'[b] <=> updated[a] > updated[b]
                 /\ updated[a] # updated[b] => updated'[a] # updated'[b]
      <4>1. /\ updated[a] \in 1..rows /\ updated[b] \in 1..rows
            /\ updated[a] # updated[r] /\ updated[b] # updated[r]
        BY <3>3
      <4>2. /\ Closed(updated[a], updated[r]) \in 1..(rows - 1)
            /\ Closed(updated[a], updated[r]) > Closed(updated[b], updated[r])
                 <=> updated[a] > updated[b]
            /\ updated[a] # updated[b]
                 => Closed(updated[a], updated[r]) # Closed(updated[b], updated[r])
        BY <3>5, <4>1, GapClosed
      <4>3. QED
        BY <3>4, <4>2
    <3>7. \A a \in (1..MaxRows) \ Rows : updated'[a] = 0
      BY <1>1, <3>1 DEF PagesInv, Times
    <3>8. updated' \in [1..MaxRows -> 0..MaxRows]
      <4>1. \A a \in Rows : updated'[a] \in 0..MaxRows
        <5> SUFFICES ASSUME NEW a \in Rows PROVE updated'[a] \in 0..MaxRows
          OBVIOUS
        <5>1. updated'[a] = rows \/ updated'[a] \in 1..(rows - 1)
          BY <3>2, <3>6
        <5>2. rows \in Nat /\ rows <= MaxRows
          BY <1>1
        <5>3. QED
          BY <5>1, <5>2
      <4>2. updated' = [q \in 1..MaxRows |-> updated'[q]]
        BY <3>1
      <4>3. QED
        BY <3>7, <4>1, <4>2
    <3>9. \A a, b \in Rows \ {r} : a # b => updated'[a] # updated'[b]
      <4> SUFFICES ASSUME NEW a \in Rows \ {r}, NEW b \in Rows \ {r}, a # b
                   PROVE  updated'[a] # updated'[b]
        OBVIOUS
      <4>1. updated[a] # updated[b]
        BY DEF PagesInv, Times
      <4>2. QED
        BY <3>6, <4>1
    <3>10. ASSUME NEW a \in Rows \ {r}
           PROVE  updated'[r] > updated'[a] /\ updated'[r] # updated'[a]
      <4>1. updated'[a] \in 1..(rows - 1)
        BY <3>6
      <4>2. QED
        BY <3>2, <3>5, <4>1
    <3>11. \A a, b \in Rows : a # b => updated'[a] # updated'[b]
      BY <3>9, <3>10
    <3>12. ASSUME NEW a \in Rows PROVE updated'[a] \in 1..rows
      <4>1. updated'[a] = rows \/ updated'[a] \in 1..(rows - 1)
        BY <3>2, <3>6
      <4>2. updated[a] \in 1..rows
        BY <1>1
      <4>3. QED
        BY <3>5, <4>1, <4>2
    <3>13. Times'
      BY <1>1, <1>3, <3>7, <3>11, <3>12 DEF Times
    <3>14. QED
      BY <3>6, <3>8, <3>10, <3>13
  <2>3. QED
    BY <2>1, <2>2
<1>4. PagesTypeOK'
  <2>1. moved' \in BOOLEAN
    BY <1>3 DEF PagesInv, PagesTypeOK
  <2>2. edits' \in 0..MaxEdits
    BY DEF PagesInv, PagesTypeOK, ChangeRow, Edit
  <2>3. QED
    BY <1>1, <1>2, <1>3, <2>1, <2>2 DEF PagesInv, PagesTypeOK
<1>5. \A a, b \in Rows \ {r} : Precedes(a, b)' <=> Precedes(a, b)
  BY <1>2, <1>3 DEF Precedes
<1>6. listing \notin Moving => \A a, b \in Rows : Precedes(a, b)' <=> Precedes(a, b)
  BY <1>3 DEF Precedes, Moving
<1>7. listing = "activities" => \A a \in Rows \ {r} : Precedes(r, a)'
  BY <1>2, <1>3 DEF Precedes
<1>8. steady' \subseteq Rows \ {r} /\ (cursor # 0 => cursor \in Rows)
  BY <1>1, <1>3 DEF PagesInv, PagesTypeOK
<1>9. Progressed'
  <2>1. steady' \subseteq Matching'
    BY <1>1, <1>3 DEF PagesInv, Progressed, Matching
  <2>2. ASSUME reader' # "none", ~(listing' = "commissions" /\ moved'),
               NEW x \in steady', cursor' # 0, ~Precedes(cursor, x)'
        PROVE  x \in shown'
    <3>1. x \in steady /\ x \in Rows \ {r} /\ cursor \in Rows /\ x # r
      BY <1>3, <1>8, <2>2
    <3>2. ~Precedes(cursor, x)
      <4>1. CASE cursor # r
        BY <1>3, <1>5, <2>2, <3>1, <4>1
      <4>2. CASE cursor = r /\ listing \notin Moving
        BY <1>3, <1>6, <2>2, <3>1, <4>2
      <4>3. CASE cursor = r /\ listing \in Moving
        <5>1. listing = "activities"
          BY <1>3, <2>2, <4>3 DEF Moving
        <5>2. Precedes(cursor, x)'
          BY <1>3, <1>7, <3>1, <4>3, <5>1
        <5>3. QED
          BY <2>2, <5>2
      <4>4. QED
        BY <4>1, <4>2, <4>3
    <3>3. QED
      BY <1>3, <2>2, <3>1, <3>2 DEF PagesInv, Progressed
  <2>3. reader' = "none" => cursor' = 0 /\ shown' = {} /\ again' = {}
    BY <1>3 DEF PagesInv, Progressed
  <2>4. NothingMissed'
    BY <1>3 DEF PagesInv, Progressed, NothingMissed
  <2>5. QED
    BY <2>1, <2>2, <2>3, <2>4 DEF Progressed
<1>10. NotAhead'
  <2> SUFFICES ASSUME reader' = "reading", ~moved'
               PROVE  /\ cursor' = 0 => shown' = {}
                      /\ cursor' # 0 => cursor' \in cursors'
                      /\ \A x \in shown' \intersect steady' : x = cursor' \/ Precedes(x, cursor)'
    BY DEF NotAhead
  <2>1. ~moved /\ (listing \in Moving => r # cursor)
    BY <1>3
  <2>2. /\ cursor = 0 => shown = {}
        /\ cursor # 0 => cursor \in cursors
        /\ \A x \in shown \intersect steady : x = cursor \/ Precedes(x, cursor)
    BY <1>3, <2>1 DEF PagesInv, NotAhead
  <2>3. ASSUME NEW x \in shown' \intersect steady' PROVE x = cursor' \/ Precedes(x, cursor)'
    <3>1. /\ x \in Rows \ {r} /\ cursor' = cursor /\ cursor \in Rows
          /\ x = cursor \/ Precedes(x, cursor)
      BY <1>3, <1>8, <2>2, <2>3
    <3>2. Precedes(x, cursor)' <=> Precedes(x, cursor)
      BY <1>5, <1>6, <2>1, <3>1
    <3>3. QED
      BY <3>1, <3>2
  <2>4. QED
    BY <1>3, <2>2, <2>3
<1>11. OnlyCursorsAgain'
  BY <1>3 DEF PagesInv, OnlyCursorsAgain
<1>12. QED
  BY <1>2, <1>4, <1>9, <1>10, <1>11 DEF PagesInv

LEMMA BeginReadingInv ==
  ASSUME PagesInv, NEW f \in {"all", "open", "settled"}, BeginReading(f)
  PROVE  PagesInv'
<1>1. /\ UNCHANGED <<listing, rows, updated, settled, limit, cursor, edits, shown, again, cursors,
                     moved>>
      /\ reader = "none" /\ reader' = "reading" /\ filter' = f /\ steady' = Matching'
  BY DEF BeginReading, historyVars
<1>2. cursor = 0 /\ shown = {} /\ again = {}
  BY <1>1 DEF PagesInv, Progressed
<1>3. PagesTypeOK'
  BY <1>1 DEF PagesInv, PagesTypeOK, Matching, Rows
<1>4. Times'
  BY <1>1 DEF PagesInv, Times, Rows
<1>5. Progressed' /\ NotAhead' /\ OnlyCursorsAgain'
  BY <1>1, <1>2 DEF Progressed, NotAhead, OnlyCursorsAgain, NothingMissed
<1>6. QED
  BY <1>3, <1>4, <1>5 DEF PagesInv

LEMMA GetPageInv == PagesInv /\ GetPage => PagesInv'
<1> SUFFICES ASSUME PagesInv, GetPage PROVE PagesInv'
  OBVIOUS
<1> USE MaxRowsNat, PagesAssumption
<1> DEFINE fetched == From(cursor)
           records == FirstOf(limit + 1, fetched)
           page == FirstOf(limit, records)
<1>1. /\ reader = "reading"
      /\ UNCHANGED <<listing, rows, updated, settled, filter, limit, edits, steady, moved>>
      /\ shown' = shown \union page /\ again' = again \union (page \intersect shown)
      /\ \/ records # page /\ cursor' = LastOf(page) /\ cursors' = cursors \union {cursor'}
            /\ reader' = reader
         \/ records = page /\ reader' = "ended" /\ cursor' = cursor /\ cursors' = cursors
  BY DEF GetPage
<1>2. /\ PagesTypeOK /\ Times /\ limit \in Nat /\ limit > 0 /\ limit + 1 \in Nat
      /\ rows \in Nat /\ Rows = 1..rows
  BY DEF PagesInv, PagesTypeOK, Rows
<1>3. fetched \subseteq Rows /\ records \subseteq fetched /\ page \subseteq records
  BY DEF From, FirstOf, Matching
<1>4. Rows' = Rows /\ Matching' = Matching /\ \A a, b : Precedes(a, b)' <=> Precedes(a, b)
  BY <1>1 DEF Rows, Matching, Precedes
<1>5. Times'
  BY <1>1, <1>4 DEF PagesInv, Times
<1>6. steady \subseteq Matching /\ Matching \subseteq Rows
  BY DEF PagesInv, Progressed, Matching
<1>7. cursor # 0 => cursor \in Rows
  BY DEF PagesInv, PagesTypeOK, Rows
\* Steady rows that are not fetched lie before the cursor.
<1>8. ~(listing = "commissions" /\ moved) => \A r \in steady \ fetched : r \in shown
  <2> SUFFICES ASSUME ~(listing = "commissions" /\ moved), NEW r \in steady \ fetched
               PROVE  r \in shown
    OBVIOUS
  <2>1. r \in Matching
    BY <1>6
  <2>2. cursor # 0 /\ ~Precedes(cursor, r)
    BY <2>1 DEF From
  <2>3. QED
    BY <1>1, <2>2 DEF PagesInv, Progressed
<1> HIDE DEF fetched, records, page
\* What is shown again is the cursor.
<1>9. OnlyCursorsAgain'
  <2> SUFFICES ASSUME ~moved, NEW r \in page \intersect shown, r \in steady
               PROVE  r \in cursors
    BY <1>1 DEF PagesInv, OnlyCursorsAgain
  <2>1. /\ cursor # 0 /\ cursor \in cursors /\ cursor \in Rows /\ r \in Rows
        /\ r = cursor \/ Precedes(r, cursor)
    BY <1>1, <1>3, <1>7 DEF PagesInv, NotAhead
  <2>2. r = cursor \/ Precedes(cursor, r)
    BY <1>3, <2>1 DEF From, fetched
  <2>3. r = cursor
    BY <1>2, <2>1, <2>2, Ordered
  <2>4. QED
    BY <2>1, <2>3
<1>10. CASE records = page
  <2>1. fetched = page
    BY <1>2, <1>3, <1>10, NothingBeyond DEF records, page
  <2>2. reader' = "ended" /\ cursor' = cursor /\ cursors' = cursors
    BY <1>1, <1>10
  <2>3. PagesTypeOK'
    BY <1>1, <1>2, <1>3, <1>4, <2>2 DEF PagesInv, PagesTypeOK
  <2>4. ~(listing = "commissions" /\ moved) => steady \subseteq shown'
    BY <1>1, <1>8, <2>1
  <2>5. Progressed' /\ NotAhead'
    BY <1>1, <1>4, <1>6, <2>2, <2>4 DEF Progressed, NotAhead, NothingMissed
  <2>6. QED
    BY <1>5, <1>9, <2>3, <2>5 DEF PagesInv
<1>11. CASE records # page
  <2>1. cursor' = LastOf(page) /\ cursors' = cursors \union {cursor'} /\ reader' = "reading"
    BY <1>1, <1>11
  <2>2. page # {}
    <3>1. records # {}
      BY <1>3, <1>11
    <3>2. QED
      BY <1>2, <1>3, <3>1, FirstOfSome DEF page
  <2>3. cursor' \in page /\ \A q \in page \ {cursor'} : Precedes(q, cursor')
    <3>1. \E x \in page : \A q \in page \ {x} : Precedes(q, x)
      <4>1. \E x \in page : \A y \in page : Ahead(y, x)
        BY <1>2, <1>3, <2>2, FirstAndLast
      <4>2. QED
        BY <4>1 DEF Ahead
    <3>2. QED
      BY <2>1, <3>1 DEF LastOf
  <2>4. cursor' \in Rows /\ cursor' # 0
    BY <1>2, <1>3, <2>3
  <2>5. PagesTypeOK'
    <3>1. cursor' \in 0..rows' /\ cursors' \subseteq Rows'
      <4>1. cursors \subseteq Rows
        BY DEF PagesInv, PagesTypeOK
      <4>2. cursors' \subseteq Rows
        BY <2>1, <2>4, <4>1
      <4>3. cursor' \in 0..rows
        BY <1>2, <2>4
      <4>4. QED
        BY <1>1, <1>4, <4>2, <4>3
    <3>2. shown' \subseteq Rows' /\ again' \subseteq shown'
      BY <1>1, <1>3, <1>4 DEF PagesInv, PagesTypeOK
    <3>3. QED
      BY <1>1, <1>4, <2>1, <3>1, <3>2 DEF PagesInv, PagesTypeOK
  <2>6. Progressed'
    <3>1. ASSUME ~(listing = "commissions" /\ moved), NEW r \in steady, ~Precedes(cursor', r)
          PROVE  r \in shown'
      <4>1. CASE r \notin fetched
        BY <1>1, <1>8, <3>1, <4>1
      <4>2. CASE r \in fetched
        <5>1. Ahead(r, cursor') /\ r \in Rows
          BY <1>2, <1>6, <2>4, <3>1, Ordered DEF Ahead
        <5>2. r \in records
          BY <1>2, <1>3, <2>3, <4>2, <5>1, FirstOfClosed DEF records
        <5>3. r \in page
          BY <1>2, <1>3, <2>3, <5>1, <5>2, FirstOfClosed DEF page
        <5>4. QED
          BY <1>1, <5>3
      <4>3. QED
        BY <4>1, <4>2
    <3>2. \A r : Precedes(cursor, r)' <=> Precedes(cursor', r)
      BY <1>1 DEF Precedes
    <3>3. QED
      BY <1>1, <1>4, <1>6, <2>1, <3>1, <3>2 DEF Progressed, NothingMissed
  <2>7. NotAhead'
    <3>1. ASSUME ~moved, NEW r \in shown' \intersect steady
          PROVE  r = cursor' \/ Precedes(r, cursor')
      <4>1. CASE r \in page
        BY <2>3, <4>1
      <4>2. CASE r \in shown \ page
        <5>1. /\ cursor # 0 /\ cursor \in Rows /\ r \in Rows
              /\ r = cursor \/ Precedes(r, cursor)
          BY <1>1, <1>6, <1>7, <3>1, <4>2 DEF PagesInv, NotAhead
        <5>2. cursor' = cursor \/ Precedes(cursor, cursor')
          BY <1>3, <2>3, <5>1 DEF From, fetched
        <5>3. QED
          BY <1>2, <2>4, <5>1, <5>2, Ordered
      <4>3. QED
        BY <1>1, <3>1, <4>1, <4>2
    <3>2. \A r : Precedes(r, cursor)' <=> Precedes(r, cursor')
      BY <1>1 DEF Precedes
    <3>3. QED
      BY <1>1, <2>1, <2>4, <3>1, <3>2 DEF NotAhead
  <2>8. QED
    BY <1>5, <1>9, <2>5, <2>6, <2>7 DEF PagesInv
<1>12. QED
  BY <1>10, <1>11

LEMMA PagesStepInv == PagesInv /\ [PagesNext]_pagesVars => PagesInv'
<1> SUFFICES ASSUME PagesInv, [PagesNext]_pagesVars PROVE PagesInv'
  OBVIOUS
<1>1. CASE UNCHANGED pagesVars
  BY <1>1 DEF pagesVars, readerVars, historyVars, PagesInv, PagesTypeOK, Times, Progressed,
     NotAhead, NothingMissed, OnlyCursorsAgain, Rows, Matching, Precedes
<1>2. QED
  BY <1>1, AddRowInv, ChangeRowInv, BeginReadingInv, GetPageInv DEF PagesNext

LEMMA PagesInvariant == PagesSafety => []PagesInv
BY PagesInitInv, PagesStepInv, PTL DEF PagesSafety

\* The table, the reader and what it has been shown keep their types.
THEOREM PagesTypeCorrect == PagesSafety => []PagesTypeOK
BY PagesInvariant, PTL DEF PagesInv

\* Whoever reads to the last page has been shown every row that stayed as it was, unless
\* a commission was transferred while it was the cursor.
THEOREM EveryRowShown == PagesSafety => []NothingMissed
BY PagesInvariant, PTL DEF PagesInv, Progressed

\* Only cursors are shown twice, unless a row moved while it was the cursor.
THEOREM OnlyCursorsShownAgain == PagesSafety => []OnlyCursorsAgain
BY PagesInvariant, PTL DEF PagesInv

-----------------------------------------------------------------------------
(* The five together. *)

\* A step of the five is a step of one of them and leaves the others as they are.
LEMMA PartsStep ==
  ASSUME [Next]_vars
  PROVE  /\ [MailsNext]_mailsVars /\ [NetworkNext]_networkVars /\ [PagesNext]_pagesVars
         /\ [CatalogNext]_catalogVars /\ [PasswordsNext]_passwordVars
BY DEF Next, vars

\* Each component behaves in the back office as it does alone, so what is proved of one
\* holds of the run that takes all five.
THEOREM PartsBehave ==
  Spec => MailsSafety /\ NetworkSpec /\ PagesSafety /\ CatalogSpec /\ PasswordsSafety
<1>1. Init => MailsInit /\ NetworkInit /\ PagesInit /\ CatalogInit /\ PasswordsInit
  BY DEF Init
<1>2. [Next]_vars => /\ [MailsNext]_mailsVars /\ [NetworkNext]_networkVars
                     /\ [PagesNext]_pagesVars /\ [CatalogNext]_catalogVars
                     /\ [PasswordsNext]_passwordVars
  BY PartsStep
<1>3. QED
  BY <1>1, <1>2, PTL
     DEF Spec, MailsSafety, NetworkSpec, PagesSafety, CatalogSpec, PasswordsSafety

\* Every variable of the back office keeps the shape the code gives it.
THEOREM BackOfficeTypeCorrect == Spec => []BackOfficeTypeOK
<1>1. MailsTypeOK /\ NetworkTypeOK /\ PagesTypeOK /\ CatalogTypeOK /\ PasswordsTypeOK
      => BackOfficeTypeOK
  BY DEF BackOfficeTypeOK
<1>2. QED
  BY <1>1, PartsBehave, MailsTypeCorrect, NetworkTypeCorrect, PagesTypeCorrect,
     CatalogTypeCorrect, PasswordsTypeCorrect, PTL

\* All five at once: the limits on mails, the log of the mails, the referral map, the
\* listings, the catalog and the passwords hold whichever component moves.
THEOREM BackOfficeCorrect ==
  Spec => /\ []LimitHolds /\ []LogTold /\ []ReferralMapCorrect
          /\ []NothingMissed /\ []OnlyCursorsAgain
          /\ []OneRowTold /\ []TogglesCount /\ []SoldOnTerms
          /\ ReplacedPasswordUseless
BY PartsBehave, LimitEnforced, LogTruthful, MapReturned, EveryRowShown, OnlyCursorsShownAgain,
   OneRowPerTable, EveryToggleCounts, SoldAsRead, ReplacedPasswordRefused, PTL
=============================================================================
