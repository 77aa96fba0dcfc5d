---------------------------- MODULE Accounts_proofs ----------------------------
(***************************************************************************)
(* Theorems about Accounts for any emails, requests, rows and restarts.    *)
(* The invariant says what a request may still rely on when it writes or   *)
(* signs: that its customer exists, was mailed a token and is an admin if  *)
(* an admin's token is signed, and that it is not suspended unless the     *)
(* request has been overtaken.                                             *)
(***************************************************************************)
EXTENDS Accounts, TLAPS

\* Rows are numbered without gaps, the first one is the admin's and nobody else has
\* the admin's address.
TableOK ==
  /\ \A c \in Ids : c \in Existing <=> c <= registered
  /\ registered > 0 => 1 \in WithEmail(AdminEmail)
  /\ WithEmail(AdminEmail) \subseteq Admins

\* Nothing is served before bootstrap() has made sure of the admin.
BootOK ==
  /\ boot # "up" => \A p \in Requests : pc[p] = "idle"
  /\ boot = "create" => registered = 0
  /\ boot = "mail" => Suspended = {}

\* The steps of a request that has read a customer.
Reading == Steps \ {"idle", "codeRequired"}

\* What a request has read that no other step can take back.
Knows(p) ==
  pc[p] \in Reading =>
    /\ job[p] \in Job /\ job[p].customer \in Existing
    /\ pc[p] \in {"verify", "registerAdmin", "login", "refresh"} => job[p].customer \in mailed
    /\ pc[p] = "registerAdmin" => job[p].customer \in Admins
    /\ job[p].role = "ADMIN" => pc[p] # "create" /\ job[p].customer \in Admins

\* What it has read that a suspension takes back.
Fresh(p) ==
  pc[p] \in {"verify", "login", "refresh"} /\ job[p].customer \in Suspended => p \in overtaken

JobOK == \A p \in Requests : Knows(p) /\ Fresh(p)

Inv == TypeOK /\ TableOK /\ BootOK /\ JobOK /\ AdmittedWereMailed /\ ReferralsEndAtAdmin

LEMMA InitInv == Init => Inv
BY ConstantsAssumption
   DEF Init, Inv, TypeOK, TableOK, BootOK, JobOK, Knows, Fresh, Reading, AdmittedWereMailed,
       ReferralsEndAtAdmin, Holders, Existing, Verified, Suspended, Admins, WithEmail, Ids, Steps

-----------------------------------------------------------------------------
(* Steps that leave the table alone. *)

TableKept == UNCHANGED <<customers, registered, reinstated>>

\* The sets of customers and what the properties say of them depend on the table.
LEMMA SetsKept ==
  ASSUME TableKept
  PROVE  /\ Existing' = Existing /\ Admins' = Admins /\ Verified' = Verified
         /\ Suspended' = Suspended /\ \A e : WithEmail(e)' = WithEmail(e)
         /\ ReferralsEndAtAdmin => ReferralsEndAtAdmin'
         /\ TableOK => TableOK'
<1>1. /\ Existing' = Existing /\ Admins' = Admins /\ Verified' = Verified
      /\ Suspended' = Suspended /\ \A e : WithEmail(e)' = WithEmail(e)
  BY DEF TableKept, Existing, Admins, Verified, Suspended, WithEmail
<1>2. QED
  BY <1>1 DEF TableKept, ReferralsEndAtAdmin, TableOK

\* What the first read of a request for c has to find before its step.
Admitted(step, c, role) ==
  /\ step \in {"verify", "registerAdmin", "login", "refresh"} => c \in mailed
  /\ step = "registerAdmin" => c \in Admins
  /\ role = "ADMIN" => step # "create" /\ c \in Admins
  /\ step \in {"verify", "login", "refresh"} => c \notin Suspended

LEMMA StartInv ==
  ASSUME Inv, NEW p \in Requests, NEW step \in Reading, NEW c \in Existing,
         NEW e \in Emails, NEW role \in Roles,
         Start(p, step, c, e, role), Admitted(step, c, role)
  PROVE  Inv'
<1> DEFINE j == [customer |-> c, email |-> e, role |-> role]
<1>1. TableKept /\ UNCHANGED <<tokens, server, overtaken>>
  BY DEF Start, TableKept, tokens, server
<1>2. /\ c \in Ids /\ step \in Steps /\ j \in Job
      /\ j.customer = c /\ j.role = role
  BY DEF Existing, Job, Reading
<1>3. pc' = [pc EXCEPT ![p] = step] /\ job' = [job EXCEPT ![p] = j]
  BY DEF Start
<1> HIDE DEF j
<1>4. TypeOK'
  BY <1>1, <1>2, <1>3 DEF Inv, TypeOK, TableKept, tokens, server
<1>5. BootOK'
  BY <1>1, <1>3, SetsKept DEF Inv, BootOK, Start, server, TableKept
<1>6. JobOK'
  <2> SUFFICES ASSUME NEW q \in Requests PROVE Knows(q)' /\ Fresh(q)'
    BY DEF JobOK
  <2>1. CASE q = p
    <3>1. pc'[q] = step /\ job'[q] = j /\ mailed' = mailed
      BY <1>1, <1>3, <2>1 DEF Inv, TypeOK, tokens
    <3>2. QED
      BY <1>1, <1>2, <3>1, SetsKept DEF Knows, Fresh, Admitted
  <2>2. CASE q # p
    <3>1. pc'[q] = pc[q] /\ job'[q] = job[q]
      BY <1>3, <2>2 DEF Inv, TypeOK
    <3>2. QED
      BY <1>1, <3>1, SetsKept DEF Inv, JobOK, Knows, Fresh, tokens
  <2>3. QED
    BY <2>1, <2>2
<1>7. AdmittedWereMailed'
  BY <1>1, SetsKept DEF Inv, AdmittedWereMailed, Holders, TableKept, tokens
<1>8. QED
  BY <1>1, <1>4, <1>5, <1>6, <1>7, SetsKept DEF Inv

LEMMA StartToSignInv ==
  ASSUME Inv, NEW p \in Requests, NEW step \in Reading, NEW c \in Existing,
         NEW role \in Roles, StartToSign(p, step, c, role), Admitted(step, c, role)
  PROVE  Inv'
<1>1. customers[c].email \in Emails
  BY DEF Inv, TypeOK, Existing, Customer
<1>2. QED
  BY <1>1, StartInv DEF StartToSign

LEMMA StartForInv ==
  ASSUME Inv, NEW p \in Requests, NEW step \in Reading, NEW c \in Existing,
         StartFor(p, step, c), Admitted(step, c, "USER")
  PROVE  Inv'
<1>1. customers[c].email \in Emails /\ "USER" \in Roles
  BY DEF Inv, TypeOK, Existing, Customer, Roles
<1>2. QED
  BY <1>1, StartInv DEF StartFor

\* A request is over, or has read no customer, or goes on as it was.
Undisturbed(q) ==
  \/ pc'[q] \notin Reading
  \/ /\ pc'[q] = pc[q] /\ job'[q] = job[q]
     /\ q \in overtaken => q \in overtaken'

\* The other requests when p finishes or all stop, and tokens and mails are handed out
\* to customers who may have them.
LEMMA QuietInv ==
  ASSUME Inv, TableKept,
         boot' \in {"find", "create", "mail", "up"} /\ restarts' \in 0..MaxRestarts,
         boot' = "create" => registered = 0,
         boot' # "up" => \A q \in Requests : pc'[q] = "idle",
         pc' \in [Requests -> Steps], job' \in [Requests -> Job \union {NoJob}],
         \A q \in Requests : Undisturbed(q),
         overtaken' \subseteq Requests,
         boot' = "mail" => Suspended = {},
         mailed \subseteq mailed', mailed' \subseteq Existing \union mailed,
         valid' \subseteq Token,
         \A t \in valid' \ valid : /\ t.customer \in mailed'
                                   /\ t.role = "ADMIN" => t.customer \in Admins
  PROVE  Inv'
<1>1. TypeOK'
  BY DEF Inv, TypeOK, TableKept, Existing
<1>2. BootOK'
  BY SetsKept DEF BootOK, TableKept
<1>3. JobOK'
  <2> SUFFICES ASSUME NEW q \in Requests PROVE Knows(q)' /\ Fresh(q)'
    BY DEF JobOK
  <2>1. CASE pc'[q] \notin Reading
    BY <2>1 DEF Knows, Fresh, Reading, Steps
  <2>2. CASE pc'[q] = pc[q] /\ job'[q] = job[q] /\ (q \in overtaken => q \in overtaken')
    BY <2>2, SetsKept DEF Inv, JobOK, Knows, Fresh
  <2>3. QED
    BY <2>1, <2>2 DEF Undisturbed
<1>4. AdmittedWereMailed'
  <2>1. /\ Holders' \subseteq mailed' /\ Verified' \subseteq mailed'
        /\ \A t \in valid' : t.role = "ADMIN" => t.customer \in Admins'
    BY SetsKept DEF Inv, AdmittedWereMailed, Holders
  <2>2. \A c \in Existing' :
          customers'[c].customerStatus = "ACTIVE" => c \in Verified' \union reinstated'
    BY SetsKept DEF Inv, AdmittedWereMailed, TableKept
  <2>3. QED
    BY <2>1, <2>2 DEF AdmittedWereMailed
<1>5. QED
  BY <1>1, <1>2, <1>3, <1>4, SetsKept DEF Inv

LEMMA FinishRequest ==
  ASSUME Inv, NEW p \in Requests, Finish(p), UNCHANGED server, pc[p] # "idle"
  PROVE  /\ boot' \in {"find", "create", "mail", "up"} /\ restarts' \in 0..MaxRestarts
         /\ boot' = "up" /\ boot = "up"
         /\ pc' \in [Requests -> Steps] /\ job' \in [Requests -> Job \union {NoJob}]
         /\ \A q \in Requests : Undisturbed(q)
         /\ pc'[p] = "idle"
         /\ overtaken' \subseteq Requests
BY DEF Inv, TypeOK, BootOK, Finish, server, Reading, Steps, Undisturbed

LEMMA RejectInv == ASSUME Inv, NEW p \in Requests, Reject(p), pc[p] # "idle" PROVE Inv'
<1>1. Finish(p) /\ TableKept /\ UNCHANGED <<tokens, server>>
  BY DEF Reject, TableKept
<1>2. QED
  BY <1>1, FinishRequest, QuietInv DEF tokens, server, Inv, TypeOK

\* What a signature adds.
LEMMA SignedTokens ==
  ASSUME Inv, NEW c \in Ids, NEW role \in Roles, Sign(c, role)
  PROVE  /\ valid' \subseteq Token
         /\ \A t \in valid' \ valid : t.customer = c /\ t.role = role
BY DEF Sign, Inv, TypeOK, Token

LEMMA SigningJob ==
  ASSUME Inv, NEW p \in Requests, pc[p] \in {"mail", "login", "refresh"}
  PROVE  /\ job[p].customer \in Existing /\ job[p].customer \in Ids /\ job[p].role \in Roles
         /\ job[p].role = "ADMIN" => job[p].customer \in Admins
         /\ pc[p] # "mail" => job[p].customer \in mailed
BY DEF Inv, JobOK, Knows, Job, Reading, Steps

LEMMA SendMailInv == ASSUME Inv, NEW p \in Requests, SendMail(p) PROVE Inv'
<1>1. Finish(p) /\ UNCHANGED server /\ pc[p] # "idle" /\ TableKept
  BY DEF SendMail, TableKept
<1>2. pc[p] = "mail" /\ Sign(job[p].customer, job[p].role)
      /\ mailed' = mailed \union {job[p].customer}
  BY DEF SendMail
<1>3. QED
  BY <1>1, <1>2, FinishRequest, SigningJob, SignedTokens, QuietInv

LEMMA SignedInv ==
  ASSUME Inv, NEW p \in Requests, IssueTokens(p) \/ CreateAccessToken(p)
  PROVE  Inv'
<1>1. Finish(p) /\ UNCHANGED server /\ pc[p] # "idle" /\ TableKept
  BY DEF IssueTokens, CreateAccessToken, TableKept
<1>2. pc[p] \in {"login", "refresh"} /\ Sign(job[p].customer, job[p].role) /\ mailed' = mailed
  BY DEF IssueTokens, CreateAccessToken
<1>3. QED
  BY <1>1, <1>2, FinishRequest, SigningJob, SignedTokens, QuietInv

LEMMA ExpireInv == ASSUME Inv, NEW t \in valid, Expire(t) PROVE Inv'
<1>1. /\ TableKept /\ UNCHANGED <<mailed, server, pc, job, overtaken>>
      /\ valid' \subseteq valid
  BY DEF Expire, TableKept
<1>2. QED
  BY <1>1, QuietInv DEF Undisturbed, Inv, TypeOK, BootOK, server

LEMMA RegisterWithoutCodeInv == ASSUME Inv, NEW p \in Requests, RegisterWithoutCode(p) PROVE Inv'
<1>1. /\ TableKept /\ UNCHANGED <<tokens, server, job, overtaken>> /\ boot = "up"
      /\ pc' = [pc EXCEPT ![p] = "codeRequired"]
  BY DEF RegisterWithoutCode, TableKept
<1>2. pc' \in [Requests -> Steps] /\ \A q \in Requests : Undisturbed(q)
  BY <1>1 DEF Undisturbed, Inv, TypeOK, Steps, Reading
<1>3. QED
  BY <1>1, <1>2, QuietInv DEF Inv, TypeOK, tokens, server

LEMMA RestartInv == ASSUME Inv, Restart PROVE Inv'
<1>1. /\ TableKept /\ boot' = "find" /\ restarts' \in 0..MaxRestarts
      /\ pc' \in [Requests -> Steps] /\ job' \in [Requests -> Job \union {NoJob}]
      /\ \A q \in Requests : pc'[q] = "idle"
      /\ overtaken' = {} /\ mailed' = mailed /\ valid' = valid
  BY ConstantsAssumption DEF Restart, TableKept, tokens, Inv, TypeOK, Steps
<1>2. QED
  BY <1>1, QuietInv DEF Undisturbed, Inv, TypeOK, Reading

LEMMA FindAdminInv == ASSUME Inv, FindAdmin PROVE Inv'
<1>1. /\ TableKept /\ boot' \in {"create", "up"}
      /\ boot' = "create" => WithEmail(AdminEmail) = {}
      /\ UNCHANGED <<tokens, restarts, pc, job, overtaken>>
  BY DEF FindAdmin, TableKept
<1>2. boot' = "create" => registered = 0
  BY <1>1 DEF Inv, TypeOK, TableOK
<1>3. \A q \in Requests : pc'[q] = "idle"
  BY <1>1 DEF Inv, BootOK, FindAdmin
<1>4. QED
  BY <1>1, <1>2, <1>3, QuietInv DEF Undisturbed, Inv, TypeOK, Reading, tokens

LEMMA SendAdminRegistrationEmailInv == ASSUME Inv, SendAdminRegistrationEmail PROVE Inv'
<1>1. /\ TableKept /\ boot' = "up" /\ UNCHANGED <<restarts, pc, job, overtaken>>
      /\ \A q \in Requests : pc[q] = "idle"
  BY DEF SendAdminRegistrationEmail, TableKept, Inv, BootOK
<1>2. PICK c \in WithEmail(AdminEmail) : Sign(c, "ADMIN") /\ mailed' = mailed \union {c}
  BY DEF SendAdminRegistrationEmail
<1>3. c \in Existing /\ c \in Ids /\ c \in Admins /\ "ADMIN" \in Roles
  BY <1>2 DEF WithEmail, Existing, Inv, TableOK, Roles
<1>4. QED
  BY <1>1, <1>2, <1>3, SignedTokens, QuietInv DEF Undisturbed, Reading, Inv, TypeOK

-----------------------------------------------------------------------------
(* Steps that insert a row. *)

LEMMA InsertSets ==
  ASSUME Inv, NEW e \in Emails, NEW role \in {"USER", "ADMIN"},
         NEW b \in Ids \union {NoReferrer}, Insert(e, role, b)
  PROVE  /\ customers' \in [Ids -> Customer \union {NoCustomer}]
         /\ registered' \in 0..MaxCustomers
         /\ registered + 1 \in Ids /\ registered + 1 \notin Existing
         /\ Existing' = Existing \union {registered + 1}
         /\ \A c \in Existing : customers'[c] = customers[c]
         /\ Verified' = Verified /\ Suspended' = Suspended /\ Admins \subseteq Admins'
         /\ role = "ADMIN" => registered + 1 \in Admins'
         /\ \A x : WithEmail(x)' \subseteq WithEmail(x) \union {registered + 1}
         /\ \A x : WithEmail(x) \subseteq WithEmail(x)'
         /\ customers'[registered + 1].email = e
         /\ customers'[registered + 1].role = role
         /\ customers'[registered + 1].referrer = b
         /\ customers'[registered + 1].customerStatus = "PENDING"
<1> DEFINE row == [email |-> e, role |-> role, referrer |-> b,
                   emailStatus |-> "UNVERIFIED", customerStatus |-> "PENDING"]
<1>1. row \in Customer /\ row # NoCustomer
  BY AbsentAssumption DEF Customer, Roles
<1>2. /\ row.email = e /\ row.role = role /\ row.referrer = b
      /\ row.emailStatus = "UNVERIFIED" /\ row.customerStatus = "PENDING"
  OBVIOUS
<1>3. /\ registered + 1 \in Ids /\ registered' = registered + 1
      /\ customers' = [customers EXCEPT ![registered + 1] = row]
      /\ customers \in [Ids -> Customer \union {NoCustomer}]
  BY ConstantsAssumption DEF Insert, Inv, TypeOK, Ids
<1> HIDE DEF row
<1>4. registered + 1 \notin Existing
  BY <1>3 DEF Inv, TypeOK, TableOK
<1>5. /\ customers' \in [Ids -> Customer \union {NoCustomer}]
      /\ customers'[registered + 1] = row
      /\ \A c \in Ids : c # registered + 1 => customers'[c] = customers[c]
  BY <1>1, <1>3
<1>6. Existing' = Existing \union {registered + 1} /\ \A c \in Existing : customers'[c] = customers[c]
  BY <1>1, <1>3, <1>4, <1>5 DEF Existing
<1>7. Verified' = Verified /\ Suspended' = Suspended /\ Admins \subseteq Admins'
  BY <1>2, <1>4, <1>5, <1>6 DEF Verified, Suspended, Admins
<1>8. /\ role = "ADMIN" => registered + 1 \in Admins'
      /\ \A x : WithEmail(x)' \subseteq WithEmail(x) \union {registered + 1}
      /\ \A x : WithEmail(x) \subseteq WithEmail(x)'
  BY <1>2, <1>5, <1>6 DEF Admins, WithEmail
<1>9. registered' \in 0..MaxCustomers
  BY <1>3, ConstantsAssumption DEF Ids
<1>10. QED
  BY <1>2, <1>3, <1>4, <1>5, <1>6, <1>7, <1>8, <1>9

LEMMA InsertInv ==
  ASSUME Inv, NEW e \in Emails, NEW role \in {"USER", "ADMIN"},
         NEW b \in Ids \union {NoReferrer}, Insert(e, role, b),
         UNCHANGED <<tokens, reinstated>>,
         role = "ADMIN" => registered = 0 /\ e = AdminEmail,
         role = "USER" => b \in Existing /\ WithEmail(e) = {}
  PROVE  TableOK' /\ AdmittedWereMailed' /\ ReferralsEndAtAdmin'
<1> DEFINE new == registered + 1
<1>1. registered' = new /\ registered \in Nat
  BY ConstantsAssumption DEF Insert, Inv, TypeOK
<1>2. TableOK'
  <2>1. \A c \in Ids : c \in Existing' <=> c <= registered'
    BY <1>1, InsertSets DEF Inv, TableOK, Ids
  <2>2. 1 \in WithEmail(AdminEmail)'
    <3>1. CASE registered = 0
      <4>1. role = "ADMIN"
        BY <3>1, ConstantsAssumption DEF Inv, TableOK, Ids, Existing
      <4>2. QED
        BY <3>1, <4>1, InsertSets DEF WithEmail
    <3>2. CASE registered > 0
      BY <3>2, InsertSets DEF Inv, TableOK, WithEmail
    <3>3. QED
      BY <1>1, <3>1, <3>2
  <2>3. ASSUME NEW c \in WithEmail(AdminEmail)' PROVE c \in Admins'
    <3>1. CASE c \in WithEmail(AdminEmail)
      BY <3>1, InsertSets DEF Inv, TableOK
    <3>2. CASE c = new /\ role = "ADMIN"
      BY <3>2, InsertSets
    <3>3. CASE c = new /\ role = "USER"
      <4>1. e = AdminEmail
        BY <2>3, <3>3, InsertSets DEF WithEmail
      <4>2. registered > 0
        BY <1>1, <3>3 DEF Inv, TableOK, Existing, Ids
      <4>3. QED
        BY <3>3, <4>1, <4>2 DEF Inv, TableOK
    <3>4. QED
      BY <2>3, <3>1, <3>2, <3>3, InsertSets
  <2>4. QED
    BY <2>1, <2>2, <2>3 DEF TableOK
<1>3. AdmittedWereMailed'
  BY InsertSets DEF Inv, AdmittedWereMailed, Holders, tokens
<1>4. ReferralsEndAtAdmin'
  <2> SUFFICES ASSUME NEW c \in Existing'
               PROVE  IF customers'[c].role = "ADMIN"
                        THEN c = 1 /\ customers'[c].email = AdminEmail
                        ELSE /\ customers'[c].referrer \in Existing'
                             /\ customers'[c].referrer < c
    BY DEF ReferralsEndAtAdmin
  <2>1. CASE c = new /\ role = "ADMIN"
    BY <2>1, InsertSets
  <2>2. CASE c = new /\ role = "USER"
    <3>1. b \in Existing /\ b \in Ids /\ b <= registered
      BY <2>2 DEF Inv, TableOK, Existing
    <3>2. b \in Nat /\ b < new
      BY <1>1, <3>1 DEF Ids
    <3>3. QED
      BY <2>2, <3>1, <3>2, InsertSets
  <2>3. CASE c \in Existing
    BY <2>3, InsertSets DEF Inv, ReferralsEndAtAdmin
  <2>4. QED
    BY <2>1, <2>2, <2>3, InsertSets
<1>5. QED
  BY <1>2, <1>3, <1>4

LEMMA CreateAdminInv == ASSUME Inv, CreateAdmin PROVE Inv'
<1>1. /\ Insert(AdminEmail, "ADMIN", NoReferrer) /\ boot' = "mail" /\ registered = 0
      /\ UNCHANGED <<tokens, restarts, pc, job, overtaken, reinstated>>
  BY DEF CreateAdmin, Inv, BootOK
<1>2. AdminEmail \in Emails
  BY ConstantsAssumption
<1>3. TableOK' /\ AdmittedWereMailed' /\ ReferralsEndAtAdmin'
  BY <1>1, <1>2, InsertInv
<1>4. TypeOK'
  BY <1>1, <1>2, InsertSets DEF Inv, TypeOK, tokens
<1>5. \A p \in Requests : pc'[p] = "idle"
  BY <1>1 DEF CreateAdmin, Inv, BootOK
<1>6. Suspended' = {}
  <2>1. Existing = {}
    BY <1>1, ConstantsAssumption DEF Inv, TableOK, Existing, Ids
  <2>2. Suspended' = Suspended
    BY <1>1, <1>2, InsertSets
  <2>3. QED
    BY <2>1, <2>2 DEF Suspended
<1>7. BootOK' /\ JobOK'
  BY <1>1, <1>5, <1>6 DEF BootOK, JobOK, Knows, Fresh, Reading
<1>8. QED
  BY <1>3, <1>4, <1>7 DEF Inv

LEMMA CreateCustomerInv == ASSUME Inv, NEW p \in Requests, CreateCustomer(p) PROVE Inv'
<1> DEFINE e == job[p].email
           b == job[p].customer
<1>1. CASE Reject(p)
  BY <1>1, RejectInv DEF CreateCustomer
<1>2. CASE /\ Insert(e, "USER", b)
           /\ pc' = [pc EXCEPT ![p] = "mail"]
           /\ job' = [job EXCEPT ![p].customer = registered + 1]
           /\ UNCHANGED <<tokens, server, overtaken, reinstated>>
           /\ WithEmail(e) = {}
  <2>1. /\ job[p] \in Job /\ e \in Emails /\ b \in Ids /\ b \in Existing
        /\ job[p].role # "ADMIN"
    BY DEF CreateCustomer, Inv, JobOK, Knows, Job, Reading, Steps
  <2>2. TableOK' /\ AdmittedWereMailed' /\ ReferralsEndAtAdmin'
    BY <1>2, <2>1, InsertInv
  <2>3. /\ registered + 1 \in Ids /\ Existing' = Existing \union {registered + 1}
        /\ Verified' = Verified /\ Suspended' = Suspended /\ Admins \subseteq Admins'
    BY <1>2, <2>1, InsertSets
  <2>4. /\ job'[p] \in Job /\ job'[p].customer = registered + 1
        /\ job'[p].role = job[p].role
        /\ job' \in [Requests -> Job \union {NoJob}]
        /\ \A q \in Requests : q # p => job'[q] = job[q] /\ pc'[q] = pc[q]
        /\ pc'[p] = "mail" /\ pc' \in [Requests -> Steps]
    BY <1>2, <2>1, <2>3 DEF Job, Inv, TypeOK, Steps
  <2>5. TypeOK'
    BY <1>2, <2>1, <2>4, InsertSets DEF Inv, TypeOK, tokens, server
  <2>6. BootOK'
    <3>1. boot = "up"
      BY DEF CreateCustomer, Inv, BootOK
    <3>2. QED
      BY <1>2, <3>1 DEF BootOK, server
  <2>7. JobOK'
    <3> SUFFICES ASSUME NEW q \in Requests PROVE Knows(q)' /\ Fresh(q)'
      BY DEF JobOK
    <3>1. CASE q = p
      BY <2>1, <2>3, <2>4, <3>1 DEF Knows, Fresh
    <3>2. CASE q # p
      BY <1>2, <2>3, <2>4, <3>2 DEF Inv, JobOK, Knows, Fresh, tokens
    <3>3. QED
      BY <3>1, <3>2
  <2>8. QED
    BY <2>2, <2>5, <2>6, <2>7 DEF Inv
<1>3. QED
  BY <1>1, <1>2 DEF CreateCustomer

-----------------------------------------------------------------------------
(* Steps that write the statuses of a row. *)

\* The row of c changes in its statuses only, and a verified email stays verified.
Restated(c, row) ==
  /\ customers' = [customers EXCEPT ![c] = row]
  /\ row \in Customer
  /\ row.email = customers[c].email /\ row.role = customers[c].role
  /\ row.referrer = customers[c].referrer
  /\ customers[c].emailStatus = "VERIFIED" => row.emailStatus = "VERIFIED"

LEMMA RestatedSets ==
  ASSUME Inv, NEW c \in Existing, NEW row, Restated(c, row), UNCHANGED registered
  PROVE  /\ customers' \in [Ids -> Customer \union {NoCustomer}]
         /\ customers'[c] = row /\ \A x \in Ids : x # c => customers'[x] = customers[x]
         /\ Existing' = Existing /\ Admins' = Admins
         /\ Verified \subseteq Verified' /\ Verified' \subseteq Verified \union {c}
         /\ \A x \in Suspended' : x \in Suspended \/ x = c
         /\ \A x \in Suspended : x \in Suspended' \/ x = c
         /\ c \in Suspended' <=> row.customerStatus = "SUSPENDED"
         /\ c \in Verified' <=> row.emailStatus = "VERIFIED"
         /\ TableOK' /\ ReferralsEndAtAdmin'
<1>1. c \in Ids /\ row # NoCustomer /\ customers \in [Ids -> Customer \union {NoCustomer}]
  BY AbsentAssumption DEF Existing, Restated, Inv, TypeOK
<1>2. /\ customers' \in [Ids -> Customer \union {NoCustomer}]
      /\ customers'[c] = row /\ \A x \in Ids : x # c => customers'[x] = customers[x]
  BY <1>1 DEF Restated
<1>3. Existing' = Existing
  BY <1>1, <1>2 DEF Existing
<1>4. Admins' = Admins /\ \A e : WithEmail(e)' = WithEmail(e)
  BY <1>2, <1>3 DEF Admins, WithEmail, Restated, Existing
<1>5. /\ Verified \subseteq Verified' /\ Verified' \subseteq Verified \union {c}
      /\ c \in Verified' <=> row.emailStatus = "VERIFIED"
  BY <1>2, <1>3 DEF Verified, Restated, Existing
<1>6. /\ \A x \in Suspended' : x \in Suspended \/ x = c
      /\ \A x \in Suspended : x \in Suspended' \/ x = c
      /\ c \in Suspended' <=> row.customerStatus = "SUSPENDED"
  BY <1>2, <1>3 DEF Suspended, Existing
<1>7. TableOK'
  BY <1>3, <1>4 DEF Inv, TableOK
<1>8. \A x \in Existing : /\ customers'[x].email = customers[x].email
                          /\ customers'[x].role = customers[x].role
                          /\ customers'[x].referrer = customers[x].referrer
  BY <1>2 DEF Restated, Existing
<1>9. ReferralsEndAtAdmin'
  BY <1>3, <1>8 DEF Inv, ReferralsEndAtAdmin
<1>10. QED
  BY <1>2, <1>3, <1>4, <1>5, <1>6, <1>7, <1>9

\* Requests that go on are still right about the rows, those that lost to a suspension
\* being marked.
LEMMA RestateInv ==
  ASSUME Inv, NEW p \in Requests, pc[p] # "idle", NEW c \in Existing,
         NEW row, Restated(c, row), UNCHANGED <<registered, tokens, server>>,
         row.emailStatus = "VERIFIED" => c \in mailed,
         row.customerStatus = "ACTIVE" => row.emailStatus = "VERIFIED" \/ c \in reinstated',
         reinstated \subseteq reinstated', reinstated' \subseteq Ids,
         pc' = [pc EXCEPT ![p] = "idle"], job' = [job EXCEPT ![p] = NoJob],
         overtaken \ {p} \subseteq overtaken', overtaken' \subseteq Requests,
         row.customerStatus = "SUSPENDED" =>
           \A q \in Requests \ {p} :
             job[q] \in Job /\ job[q].customer = c => q \in overtaken'
  PROVE  Inv'
<1>1. TypeOK'
  BY RestatedSets DEF Inv, TypeOK, tokens, server, Steps
<1>2. BootOK'
  BY DEF Inv, BootOK, server
<1>3. JobOK'
  <2> SUFFICES ASSUME NEW q \in Requests PROVE Knows(q)' /\ Fresh(q)'
    BY DEF JobOK
  <2>1. CASE q = p
    BY <2>1 DEF Knows, Fresh, Reading, Inv, TypeOK
  <2>2. CASE q # p
    <3>1. pc'[q] = pc[q] /\ job'[q] = job[q] /\ (q \in overtaken => q \in overtaken')
      BY <2>2 DEF Inv, TypeOK
    <3>2. Knows(q)'
      BY <3>1, RestatedSets DEF Inv, JobOK, Knows, tokens
    <3>3. Fresh(q)'
      BY <2>2, <3>1, RestatedSets DEF Inv, JobOK, Knows, Fresh, Reading, Steps
    <3>4. QED
      BY <3>2, <3>3
  <2>3. QED
    BY <2>1, <2>2
<1>4. AdmittedWereMailed'
  <2>1. /\ Holders' \subseteq mailed' /\ Verified' \subseteq mailed'
        /\ \A t \in valid' : t.role = "ADMIN" => t.customer \in Admins'
    BY RestatedSets DEF Inv, AdmittedWereMailed, Holders, tokens
  <2>2. ASSUME NEW x \in Existing', customers'[x].customerStatus = "ACTIVE"
        PROVE  x \in Verified' \union reinstated'
    <3>1. CASE x = c
      BY <2>2, <3>1, RestatedSets
    <3>2. CASE x # c
      <4>1. x \in Existing /\ customers'[x] = customers[x]
        BY <2>2, <3>2, RestatedSets DEF Existing
      <4>2. QED
        BY <2>2, <4>1, RestatedSets DEF Inv, AdmittedWereMailed
    <3>3. QED
      BY <3>1, <3>2
  <2>3. QED
    BY <2>1, <2>2 DEF AdmittedWereMailed
<1>5. QED
  BY <1>1, <1>2, <1>3, <1>4, RestatedSets DEF Inv

LEMMA RowOfJob ==
  ASSUME Inv, NEW p \in Requests, pc[p] \in Reading
  PROVE  job[p].customer \in Existing /\ customers[job[p].customer] \in Customer
BY DEF Inv, JobOK, Knows, TypeOK, Existing

LEMMA WriteVerifiedInv == ASSUME Inv, NEW p \in Requests, WriteVerified(p) PROVE Inv'
<1> DEFINE c == job[p].customer
           row == [[customers[c] EXCEPT !.emailStatus = "VERIFIED"]
                     EXCEPT !.customerStatus = "ACTIVE"]
<1>1. c \in Existing /\ c \in Ids /\ customers[c] \in Customer /\ c \in mailed
  BY RowOfJob DEF WriteVerified, Inv, JobOK, Knows, Reading, Steps, Existing
<1>2. row.emailStatus = "VERIFIED" /\ row.customerStatus = "ACTIVE"
  BY <1>1 DEF Customer
<1>3. Restated(c, row)
  BY <1>1 DEF WriteVerified, Restated, Customer, Inv, TypeOK
<1>4. /\ pc[p] # "idle" /\ Finish(p) /\ UNCHANGED <<registered, tokens, server, reinstated>>
  BY DEF WriteVerified
<1> HIDE DEF row
<1>5. QED
  BY <1>1, <1>2, <1>3, <1>4, RestateInv DEF Finish, Inv, TypeOK

LEMMA SuspendInv == ASSUME Inv, NEW p \in Requests, SuspendCustomer(p) PROVE Inv'
<1> DEFINE c == job[p].customer
           row == [customers[c] EXCEPT !.customerStatus = "SUSPENDED"]
<1>1. c \in Existing /\ c \in Ids /\ customers[c] \in Customer
  BY RowOfJob DEF SuspendCustomer, Reading, Steps, Existing
<1>2. row.emailStatus = customers[c].emailStatus /\ row.customerStatus = "SUSPENDED"
  BY <1>1 DEF Customer
<1>3. Restated(c, row)
  BY <1>1 DEF SuspendCustomer, Restated, Customer, Inv, TypeOK
<1>4. row.emailStatus = "VERIFIED" => c \in mailed
  BY <1>1, <1>2 DEF Inv, AdmittedWereMailed, Verified
<1>5. /\ pc[p] # "idle" /\ UNCHANGED <<registered, tokens, server, reinstated>>
      /\ pc' = [pc EXCEPT ![p] = "idle"] /\ job' = [job EXCEPT ![p] = NoJob]
      /\ overtaken' = (overtaken \union {q \in Requests : job[q] # NoJob /\ job[q].customer = c})
                        \ {p}
  BY DEF SuspendCustomer
<1> HIDE DEF row
<1>6. \A q \in Requests \ {p} : job[q] \in Job /\ job[q].customer = c => q \in overtaken'
  BY <1>5, AbsentAssumption
<1>7. QED
  BY <1>1, <1>2, <1>3, <1>4, <1>5, <1>6, RestateInv DEF Inv, TypeOK

LEMMA ReinstateInv == ASSUME Inv, NEW p \in Requests, ReinstateCustomer(p) PROVE Inv'
<1> DEFINE c == job[p].customer
           row == [customers[c] EXCEPT !.customerStatus = "ACTIVE"]
<1>1. c \in Existing /\ c \in Ids /\ customers[c] \in Customer
  BY RowOfJob DEF ReinstateCustomer, Reading, Steps, Existing
<1>2. row.emailStatus = customers[c].emailStatus /\ row.customerStatus = "ACTIVE"
  BY <1>1 DEF Customer
<1>3. Restated(c, row)
  BY <1>1 DEF ReinstateCustomer, Restated, Customer, Inv, TypeOK
<1>4. row.emailStatus = "VERIFIED" => c \in mailed
  BY <1>1, <1>2 DEF Inv, AdmittedWereMailed, Verified
<1>5. /\ pc[p] # "idle" /\ Finish(p) /\ UNCHANGED <<registered, tokens, server>>
      /\ reinstated' = reinstated \union {c}
  BY DEF ReinstateCustomer
<1> HIDE DEF row
<1>6. QED
  BY <1>1, <1>2, <1>3, <1>4, <1>5, RestateInv DEF Finish, Inv, TypeOK

-----------------------------------------------------------------------------

LEMMA StartsInv ==
  ASSUME Inv, NEW p \in Requests,
         \/ DecodeReferralCode(p) \/ FindForMail(p) \/ FindUnsuspended(p)
         \/ FindMailedAdmin(p) \/ FindCustomer(p) \/ FindForLogin(p) \/ FindForRefresh(p)
  PROVE  Inv'
<1> "USER" \in Roles /\ "ADMIN" \in Roles
  BY DEF Roles
<1>1. CASE DecodeReferralCode(p)
  <2>1. PICK b \in Existing, e \in Emails : Start(p, "create", b, e, "USER")
    BY <1>1 DEF DecodeReferralCode
  <2>2. QED
    BY <2>1, StartInv DEF Admitted, Reading, Steps
<1>2. CASE FindForMail(p)
  <2>1. CASE \E c \in Existing : StartToSign(p, "mail", c, "USER")
    BY <2>1, StartToSignInv DEF Admitted, Reading, Steps
  <2>2. CASE \E c \in WithEmail(AdminEmail) : StartToSign(p, "mail", c, "ADMIN")
    BY <2>2, StartToSignInv DEF Admitted, Reading, Steps, WithEmail, Inv, TableOK
  <2>3. QED
    BY <1>2, <2>1, <2>2 DEF FindForMail
<1>3. CASE FindUnsuspended(p)
  BY <1>3, StartForInv DEF FindUnsuspended, Admitted, Reading, Steps, Inv, AdmittedWereMailed
<1>4. CASE FindMailedAdmin(p)
  BY <1>4, StartForInv
     DEF FindMailedAdmin, Admitted, Reading, Steps, Admins, Inv, AdmittedWereMailed
<1>5. CASE FindCustomer(p)
  BY <1>5, StartForInv DEF FindCustomer, Admitted, Reading, Steps
<1>6. CASE FindForLogin(p)
  <2>1. PICK c \in Verified \ Suspended : StartToSign(p, "login", c, customers[c].role)
    BY <1>6 DEF FindForLogin
  <2>2. c \in Existing /\ c \in mailed /\ customers[c].role \in Roles
    BY DEF Verified, Existing, Inv, TypeOK, Customer, AdmittedWereMailed
  <2>3. Admitted("login", c, customers[c].role)
    BY <2>2 DEF Admitted, Admins
  <2>4. QED
    BY <2>1, <2>2, <2>3, StartToSignInv DEF Reading, Steps
<1>7. CASE FindForRefresh(p)
  <2>1. PICK t \in valid : /\ t.customer \in Existing \ Suspended
                           /\ StartToSign(p, "refresh", t.customer, t.role)
    BY <1>7 DEF FindForRefresh
  <2>2. t.role \in Roles
    BY DEF Inv, TypeOK, Token
  <2>3. Admitted("refresh", t.customer, t.role)
    BY <2>1 DEF Admitted, Inv, AdmittedWereMailed, Holders
  <2>4. QED
    BY <2>1, <2>2, <2>3, StartToSignInv DEF Reading, Steps
<1>8. QED
  BY <1>1, <1>2, <1>3, <1>4, <1>5, <1>6, <1>7

LEMMA NextInv == Inv /\ [Next]_vars => Inv'
<1> SUFFICES ASSUME Inv, [Next]_vars PROVE Inv'
  OBVIOUS
<1>1. CASE FindAdmin \/ CreateAdmin \/ SendAdminRegistrationEmail \/ Restart
  BY <1>1, FindAdminInv, CreateAdminInv, SendAdminRegistrationEmailInv, RestartInv
<1>2. ASSUME NEW p \in Requests,
             \/ DecodeReferralCode(p) \/ FindForMail(p) \/ FindUnsuspended(p)
             \/ FindMailedAdmin(p) \/ FindCustomer(p) \/ FindForLogin(p) \/ FindForRefresh(p)
      PROVE  Inv'
  BY <1>2, StartsInv
<1>3. ASSUME NEW p \in Requests, Progress(p) PROVE Inv'
  BY <1>3, CreateCustomerInv, SendMailInv, WriteVerifiedInv, SuspendInv, ReinstateInv,
     SignedInv DEF Progress
<1>4. ASSUME NEW p \in Requests, Abandon(p) \/ RegisterWithoutCode(p) PROVE Inv'
  BY <1>4, RejectInv, RegisterWithoutCodeInv DEF Abandon
<1>5. ASSUME NEW t \in valid, Expire(t) PROVE Inv'
  BY <1>5, ExpireInv
<1>6. CASE UNCHANGED vars
  BY <1>6 DEF vars, tokens, server, Inv, TypeOK, TableOK, BootOK, JobOK, Knows, Fresh,
     AdmittedWereMailed, ReferralsEndAtAdmin, Holders, Existing, Admins, Verified, Suspended,
     WithEmail
<1>7. QED
  BY <1>1, <1>2, <1>3, <1>4, <1>5, <1>6 DEF Next

LEMMA SpecInv == Spec => []Inv
BY InitInv, NextInv, PTL DEF Spec

\* Whoever lifts a suspension is about to write the row of that customer.
LEMMA SuspensionsLifted ==
  ASSUME Inv, Next, NEW c \in Suspended \ Suspended'
  PROVE  \E p \in Requests : /\ pc[p] \in {"verify", "registerAdmin", "reinstate"}
                             /\ job[p].customer = c /\ pc'[p] # pc[p]
<1> USE DEF Suspended, Existing
<1>1. ASSUME NEW p \in Requests, WriteVerified(p) \/ ReinstateCustomer(p)
      PROVE  /\ pc[p] \in {"verify", "registerAdmin", "reinstate"}
             /\ job[p].customer = c /\ pc'[p] # pc[p]
  BY <1>1 DEF WriteVerified, ReinstateCustomer, Finish, Inv, TypeOK
<1>2. ASSUME NEW p \in Requests, SuspendCustomer(p) PROVE FALSE
  <2>1. customers[job[p].customer] \in Customer /\ job[p].customer \in Ids
    BY <1>2, RowOfJob DEF SuspendCustomer, Reading, Steps
  <2>2. customers'[c] = customers[c]
          \/ customers'[c] = [customers[c] EXCEPT !.customerStatus = "SUSPENDED"]
    BY <1>2, <2>1 DEF SuspendCustomer, Inv, TypeOK
  <2>3. customers[c] \in Customer
    BY DEF Inv, TypeOK
  <2>4. customers'[c] \in Customer /\ customers'[c].customerStatus = "SUSPENDED"
    BY <2>2, <2>3 DEF Customer
  <2>5. QED
    BY <2>4, AbsentAssumption
<1>3. ASSUME NEW p \in Requests, CreateCustomer(p) PROVE FALSE
  <2>1. CASE Reject(p)
    BY <2>1 DEF Reject
  <2>2. CASE Insert(job[p].email, "USER", job[p].customer)
    <3>1. job[p].email \in Emails /\ job[p].customer \in Ids
      BY <1>3 DEF CreateCustomer, Inv, JobOK, Knows, Job, Reading, Steps
    <3>2. Suspended' = Suspended
      BY <2>2, <3>1, InsertSets
    <3>3. QED
      BY <3>2
  <2>3. QED
    BY <1>3, <2>1, <2>2 DEF CreateCustomer
<1>4. CASE CreateAdmin
  BY <1>4, InsertSets, ConstantsAssumption DEF CreateAdmin
<1>5. customers' # customers
  OBVIOUS
<1>6. QED
  BY <1>1, <1>2, <1>3, <1>4, <1>5
     DEF Next, Progress, FindAdmin, SendAdminRegistrationEmail, RegisterWithoutCode,
         DecodeReferralCode, FindForMail, FindUnsuspended, FindMailedAdmin, FindCustomer,
         FindForLogin, FindForRefresh, StartFor, StartToSign, Start, SendMail, IssueTokens,
         CreateAccessToken, Abandon, Reject, Expire, Restart

\* The table, the server, the tokens and the requests always have their types.
THEOREM TypeCorrect == Spec => []TypeOK
BY SpecInv, PTL DEF Inv

\* Whoever holds a token was mailed one, an ADMIN's token is an admin's, and a customer
\* is ACTIVE by an answered mail or by an admin.
THEOREM AdmittedAnsweredMails == Spec => []AdmittedWereMailed
BY SpecInv, PTL DEF Inv

\* Referrals go to customers registered earlier and end at the admin of start-up.
THEOREM ReferralsWellFounded == Spec => []ReferralsEndAtAdmin
BY SpecInv, PTL DEF Inv

\* A suspension is lifted by an admin, or by a request that read the row before it.
THEOREM SuspensionHolds == Spec => SuspensionStands
<1> DEFINE Step == \A c \in Suspended \ Suspended' :
       \E p \in Requests :
         /\ pc'[p] # pc[p] /\ job[p].customer = c
         /\ \/ pc[p] = "reinstate"
            \/ pc[p] = "registerAdmin" /\ c \in Admins
            \/ pc[p] = "verify" /\ p \in overtaken
<1>1. Inv /\ [Next]_vars => [Step]_vars
  <2> SUFFICES ASSUME Inv, Next, NEW c \in Suspended \ Suspended'
               PROVE  \E p \in Requests :
                        /\ pc'[p] # pc[p] /\ job[p].customer = c
                        /\ \/ pc[p] = "reinstate"
                           \/ pc[p] = "registerAdmin" /\ c \in Admins
                           \/ pc[p] = "verify" /\ p \in overtaken
    OBVIOUS
  <2>1. PICK p \in Requests : /\ pc[p] \in {"verify", "registerAdmin", "reinstate"}
                              /\ job[p].customer = c /\ pc'[p] # pc[p]
    BY SuspensionsLifted
  <2>2. pc[p] = "verify" => p \in overtaken
    BY <2>1 DEF Inv, JobOK, Fresh
  <2>3. pc[p] = "registerAdmin" => c \in Admins
    BY <2>1 DEF Inv, JobOK, Knows, Reading, Steps
  <2>4. QED
    BY <2>1, <2>2, <2>3
<1>2. QED
  BY <1>1, SpecInv, PTL DEF Spec, SuspensionStands

\* A suspended customer gets a token only by a mail, or from a request that read the row
\* before the suspension.
THEOREM SuspendedRefused == Spec => SuspendedGetOnlyMails
<1> DEFINE Given(t) ==
       \E p \in Requests :
         /\ pc'[p] # pc[p] /\ job[p].customer = t.customer
         /\ \/ pc[p] = "mail"
            \/ pc[p] \in {"login", "refresh"} /\ p \in overtaken
           Step == \A t \in valid' \ valid : t.customer \in Suspended => Given(t)
<1>1. Inv /\ [Next]_vars => [Step]_vars
  <2> SUFFICES ASSUME Inv, Next, NEW t \in valid' \ valid, t.customer \in Suspended
               PROVE  Given(t)
    OBVIOUS
  <2>1. ASSUME NEW p \in Requests, SendMail(p) \/ IssueTokens(p) \/ CreateAccessToken(p)
        PROVE  Given(t)
    <3>1. /\ Sign(job[p].customer, job[p].role) /\ Finish(p)
          /\ pc[p] \in {"mail", "login", "refresh"}
      BY <2>1 DEF SendMail, IssueTokens, CreateAccessToken
    <3>2. t.customer = job[p].customer
      BY <3>1, SigningJob, SignedTokens
    <3>3. pc'[p] # pc[p]
      BY <3>1 DEF Finish, Inv, TypeOK
    <3>4. pc[p] \in {"login", "refresh"} => p \in overtaken
      BY <3>2 DEF Inv, JobOK, Fresh
    <3>5. QED
      BY <3>1, <3>2, <3>3, <3>4
  <2>2. CASE SendAdminRegistrationEmail
    BY <2>2 DEF SendAdminRegistrationEmail, Inv, BootOK
  <2>3. valid' # valid
    OBVIOUS
  <2>4. QED
    BY <2>1, <2>2, <2>3
       DEF Next, Progress, FindAdmin, CreateAdmin, RegisterWithoutCode, DecodeReferralCode,
           FindForMail, FindUnsuspended, FindMailedAdmin, FindCustomer, FindForLogin,
           FindForRefresh, StartFor, StartToSign, Start, CreateCustomer, WriteVerified,
           SuspendCustomer, ReinstateCustomer, Abandon, Reject, Expire, Restart, tokens
<1>2. QED
  BY <1>1, SpecInv, PTL DEF Spec, SuspendedGetOnlyMails
=============================================================================
