------------------------------- MODULE Accounts -------------------------------
(***************************************************************************)
(* The life of a customer: the first admin at start-up, registration by a  *)
(* referral code, verification by mail, login, and an admin's suspensions. *)
(* AuthService, CustomerService and EmailService decide by a row they read *)
(* and write, or sign a token, one or more awaited calls later.            *)
(*                                                                         *)
(* Access, refresh and email tokens carry the same payload and are signed  *)
(* with one secret, and whatever reads a token takes any of them: so there *)
(* is one kind of token here, that of a customer in a role.                *)
(*                                                                         *)
(* Abstracted: names and passwords (a reset and a verification write the   *)
(* same statuses; changePassword writes nothing else), the way a mail goes *)
(* (its token is somebody's from the moment it is asked for), the limit on *)
(* mails, and all but the last token of a customer in a role.  A request   *)
(* that its first read refuses takes no step, but for a registration       *)
(* without a code.  Logout clears cookies; it revokes no token and has no  *)
(* step.                                                                   *)
(***************************************************************************)
EXTENDS Naturals

CONSTANTS
  Emails, AdminEmail,
  Requests,
  NoCustomer, NoJob,
  ReferralCodeEnabled,  \* the admin's setting
  MaxCustomers,   \* bound: rows ever created
  MaxRestarts     \* bound: ends of the process

ASSUME ConstantsAssumption ==
  /\ AdminEmail \in Emails
  /\ ReferralCodeEnabled \in BOOLEAN
  /\ MaxCustomers \in Nat
  /\ MaxRestarts \in Nat

VARIABLES
  customers,   \* table Customer, by customerId
  registered,  \* the last customerId given out
  valid,       \* the tokens that have been signed and have not expired
  boot,        \* the next call of bootstrap(), or "up"
  restarts,
  pc, job,     \* per request: what it does next, and for whom
  mailed,      \* history: customers for whom a mail with a token was asked for
  overtaken,   \* history: requests whose customer was suspended since they read it
  reinstated   \* history: customers an admin has reinstated

vars == <<customers, registered, valid, boot, restarts,
          pc, job, mailed, overtaken, reinstated>>
tokens == <<valid, mailed>>
server == <<boot, restarts>>

Ids == 1..MaxCustomers
NoReferrer == 0

Roles == {"USER", "ADMIN"}

Customer ==
  [email : Emails, role : Roles, referrer : Ids \union {NoReferrer},
   emailStatus : {"UNVERIFIED", "VERIFIED"},
   customerStatus : {"PENDING", "ACTIVE", "SUSPENDED"}]
Token == [customer : Ids, role : Roles]
\* Whom a request is for, and the role it signs; for a registration: its referrer, its email.
Job == [customer : Ids, email : Emails, role : Roles]

ASSUME AbsentAssumption == NoCustomer \notin Customer /\ NoJob \notin Job

Existing == {c \in Ids : customers[c] # NoCustomer}
Admins == {c \in Existing : customers[c].role = "ADMIN"}
Verified == {c \in Existing : customers[c].emailStatus = "VERIFIED"}
Suspended == {c \in Existing : customers[c].customerStatus = "SUSPENDED"}
WithEmail(e) == {c \in Existing : customers[c].email = e}
Holders == {t.customer : t \in valid}

Init ==
  /\ customers = [c \in Ids |-> NoCustomer]
  /\ registered = 0
  /\ valid = {} /\ mailed = {}
  /\ boot = "find" /\ restarts = 0
  /\ pc = [p \in Requests |-> "idle"]
  /\ job = [p \in Requests |-> NoJob]
  /\ overtaken = {} /\ reinstated = {}

\* prisma.customer.create with the schema's default statuses.
Insert(email, role, referrer) ==
  /\ registered < MaxCustomers
  /\ registered' = registered + 1
  /\ customers' = [customers EXCEPT ![registered + 1] =
       [email |-> email, role |-> role, referrer |-> referrer,
        emailStatus |-> "UNVERIFIED", customerStatus |-> "PENDING"]]

\* The first awaited read of a request for c has admitted it.
Start(p, step, c, e, role) ==
  /\ boot = "up"
  /\ pc[p] = "idle"
  /\ pc' = [pc EXCEPT ![p] = step]
  /\ job' = [job EXCEPT ![p] = [customer |-> c, email |-> e, role |-> role]]
  /\ UNCHANGED <<customers, registered, tokens, server, overtaken, reinstated>>

StartFor(p, step, c) == Start(p, step, c, customers[c].email, "USER")

\* A request that is going to sign a token for c in a role.
StartToSign(p, step, c, role) == Start(p, step, c, customers[c].email, role)

Sign(c, role) == valid' = valid \union {[customer |-> c, role |-> role]}

Finish(p) ==
  /\ pc' = [pc EXCEPT ![p] = "idle"]
  /\ job' = [job EXCEPT ![p] = NoJob]
  /\ overtaken' = overtaken \ {p}

Reject(p) ==
  /\ Finish(p)
  /\ UNCHANGED <<customers, registered, tokens, server, reinstated>>

-----------------------------------------------------------------------------
(* bootstrap(): createAdmin, then listen. *)

FindAdmin ==
  /\ boot = "find"
  /\ boot' = IF WithEmail(AdminEmail) # {} THEN "up" ELSE "create"
  /\ UNCHANGED <<customers, registered, tokens, restarts, pc, job, overtaken, reinstated>>

CreateAdmin ==
  /\ boot = "create"
  /\ Insert(AdminEmail, "ADMIN", NoReferrer)
  /\ boot' = "mail"
  /\ UNCHANGED <<tokens, restarts, pc, job, overtaken, reinstated>>

SendAdminRegistrationEmail ==
  /\ boot = "mail"
  /\ \E c \in WithEmail(AdminEmail) : Sign(c, "ADMIN") /\ mailed' = mailed \union {c}
  /\ boot' = "up"
  /\ UNCHANGED <<customers, registered, restarts, pc, job, overtaken, reinstated>>

-----------------------------------------------------------------------------
(* register *)

\* The setting is or-ed with true.
CodeRequired == ReferralCodeEnabled \/ TRUE

\* A registration without a code is refused, after the setting was read.
RegisterWithoutCode(p) ==
  /\ CodeRequired
  /\ boot = "up"
  /\ pc[p] = "idle"
  /\ pc' = [pc EXCEPT ![p] = "codeRequired"]
  /\ UNCHANGED <<customers, registered, tokens, server, job, overtaken, reinstated>>

\* Mutant of DecodeReferralCode: a registration without a code is let through.
DecodeOptionalCode(p) ==
  \E b \in Existing \union {NoReferrer}, e \in Emails : Start(p, "create", b, e, "USER")

\* Mutant of DecodeReferralCode: the code need not be a customer's.
DecodeAnyCode(p) ==
  \E b \in Ids, e \in Emails : Start(p, "create", b, e, "USER")

\* A code must be that of a customer.
DecodeReferralCode(p) ==
  \E b \in Existing, e \in Emails : Start(p, "create", b, e, "USER")

CreateCustomer(p) ==
  /\ pc[p] = "create"
  /\ IF WithEmail(job[p].email) # {}
       THEN Reject(p)
       ELSE /\ Insert(job[p].email, "USER", job[p].customer)
            /\ pc' = [pc EXCEPT ![p] = "mail"]
            /\ job' = [job EXCEPT ![p].customer = registered + 1]
            /\ UNCHANGED <<tokens, server, overtaken, reinstated>>

\* forgetPassword and resendEmailVerification mail a USER's token, also to an admin;
\* resendAdminRegistrationEmail mails an ADMIN's to the admin's address.
FindForMail(p) ==
  \/ \E c \in Existing : StartToSign(p, "mail", c, "USER")
  \/ \E c \in WithEmail(AdminEmail) : StartToSign(p, "mail", c, "ADMIN")

SendMail(p) ==
  /\ pc[p] = "mail"
  /\ Sign(job[p].customer, job[p].role)
  /\ mailed' = mailed \union {job[p].customer}
  /\ Finish(p)
  /\ UNCHANGED <<customers, registered, server, reinstated>>

-----------------------------------------------------------------------------
(* verifyEmail, resetPassword and registerAdmin, by any token: a mail's, used or *)
(* not, or one of a session.                                                     *)

\* Mutant of FindUnsuspended: the status is not looked at.
FindMailed(p) == \E c \in Holders \intersect Existing : StartFor(p, "verify", c)

FindUnsuspended(p) ==
  \E c \in (Holders \intersect Existing) \ Suspended : StartFor(p, "verify", c)

FindMailedAdmin(p) ==
  \E c \in Holders \intersect Admins : StartFor(p, "registerAdmin", c)

WriteVerified(p) ==
  /\ pc[p] \in {"verify", "registerAdmin"}
  /\ customers' = [customers EXCEPT ![job[p].customer].emailStatus = "VERIFIED",
                                    ![job[p].customer].customerStatus = "ACTIVE"]
  /\ Finish(p)
  /\ UNCHANGED <<registered, tokens, server, reinstated>>

-----------------------------------------------------------------------------
(* suspendCustomer and reinstateCustomer, behind AdminGuard, which reads the token *)

FindCustomer(p) ==
  /\ \E t \in valid : t.role = "ADMIN"
  /\ \E c \in Existing, step \in {"suspend", "reinstate"} : StartFor(p, step, c)

SuspendCustomer(p) ==
  LET c == job[p].customer IN
  /\ pc[p] = "suspend"
  /\ customers' = [customers EXCEPT ![c].customerStatus = "SUSPENDED"]
  /\ pc' = [pc EXCEPT ![p] = "idle"]
  /\ job' = [job EXCEPT ![p] = NoJob]
  /\ overtaken' = (overtaken \union {q \in Requests : job[q] # NoJob /\ job[q].customer = c})
                    \ {p}
  /\ UNCHANGED <<registered, tokens, server, reinstated>>

ReinstateCustomer(p) ==
  LET c == job[p].customer IN
  /\ pc[p] = "reinstate"
  /\ customers' = [customers EXCEPT ![c].customerStatus = "ACTIVE"]
  /\ reinstated' = reinstated \union {c}
  /\ Finish(p)
  /\ UNCHANGED <<registered, tokens, server>>

-----------------------------------------------------------------------------
(* login and refreshTokens *)

\* Mutant of FindForLogin: an email that was never verified is let in.
FindAnyForLogin(p) ==
  \E c \in Existing \ Suspended : StartToSign(p, "login", c, customers[c].role)

\* Mutant of FindForLogin: a suspended customer is let in.
FindSuspendedForLogin(p) ==
  \E c \in Verified : StartToSign(p, "login", c, customers[c].role)

\* findByEmail; what is checked after argon2.verify are columns of the row it returned.
FindForLogin(p) ==
  \E c \in Verified \ Suspended : StartToSign(p, "login", c, customers[c].role)

IssueTokens(p) ==
  /\ pc[p] = "login"
  /\ Sign(job[p].customer, job[p].role)
  /\ Finish(p)
  /\ UNCHANGED <<customers, registered, mailed, server, reinstated>>

\* Mutant of FindForRefresh: the status is not looked at.
FindAnyForRefresh(p) ==
  \E t \in valid : t.customer \in Existing /\ StartToSign(p, "refresh", t.customer, t.role)

\* Any token is renewed, in its own role, for a customer that is not suspended.
FindForRefresh(p) ==
  \E t \in valid : /\ t.customer \in Existing \ Suspended
                   /\ StartToSign(p, "refresh", t.customer, t.role)

CreateAccessToken(p) ==
  /\ pc[p] = "refresh"
  /\ Sign(job[p].customer, job[p].role)
  /\ Finish(p)
  /\ UNCHANGED <<customers, registered, mailed, server, reinstated>>

Expire(t) ==
  /\ t \in valid
  /\ valid' = valid \ {t}
  /\ UNCHANGED <<customers, registered, mailed, server, pc, job, overtaken, reinstated>>

-----------------------------------------------------------------------------

\* An awaited call rejects.
Abandon(p) ==
  /\ pc[p] # "idle"
  /\ Reject(p)

\* The process ends, by a rejection in bootstrap() or otherwise, and starts again.
Restart ==
  /\ restarts < MaxRestarts
  /\ restarts' = restarts + 1
  /\ boot' = "find"
  /\ pc' = [p \in Requests |-> "idle"]
  /\ job' = [p \in Requests |-> NoJob]
  /\ overtaken' = {}
  /\ UNCHANGED <<customers, registered, tokens, reinstated>>

Progress(p) ==
  \/ CreateCustomer(p) \/ SendMail(p) \/ WriteVerified(p)
  \/ SuspendCustomer(p) \/ ReinstateCustomer(p)
  \/ IssueTokens(p) \/ CreateAccessToken(p)

Next ==
  \/ FindAdmin \/ CreateAdmin \/ SendAdminRegistrationEmail
  \/ \E p \in Requests :
       \/ RegisterWithoutCode(p) \/ DecodeReferralCode(p) \/ FindForMail(p)
       \/ FindUnsuspended(p) \/ FindMailedAdmin(p)
       \/ FindCustomer(p) \/ FindForLogin(p) \/ FindForRefresh(p)
       \/ Progress(p) \/ Abandon(p)
  \/ \E t \in valid : Expire(t)
  \/ Restart

Spec == Init /\ [][Next]_vars

\* A request whose call is answered goes on, and every token carries an expiry.
FairSpec ==
  /\ Spec
  /\ \A p \in Requests : WF_vars(Progress(p))
  /\ \A t \in Token : WF_vars(Expire(t))

-----------------------------------------------------------------------------

Steps == {"idle", "codeRequired", "create", "mail", "verify", "registerAdmin",
          "suspend", "reinstate", "login", "refresh"}

TypeOK ==
  /\ customers \in [Ids -> Customer \union {NoCustomer}]
  /\ registered \in 0..MaxCustomers
  /\ valid \subseteq Token /\ mailed \subseteq Ids
  /\ boot \in {"find", "create", "mail", "up"} /\ restarts \in 0..MaxRestarts
  /\ pc \in [Requests -> Steps]
  /\ job \in [Requests -> Job \union {NoJob}]
  /\ overtaken \subseteq Requests /\ reinstated \subseteq Ids

\* Only an admin lifts a suspension: by reinstateCustomer, by registerAdmin for the
\* admin's own account, or else a verification or reset undoes it that had read the
\* customer before it was suspended (customer.service.ts:148, email.service.ts:428).
SuspensionStands ==
  [][\A c \in Suspended \ Suspended' :
       \E p \in Requests :
         /\ pc'[p] # pc[p] /\ job[p].customer = c
         /\ \/ pc[p] = "reinstate"
            \/ pc[p] = "registerAdmin" /\ c \in Admins
            \/ pc[p] = "verify" /\ p \in overtaken]_vars

\* A suspended customer is given a token only by a mail, for which nobody looks at the
\* status, or by a login or a refresh that had read the customer before the suspension
\* (customer.service.ts:165, auth.service.ts:55, 90).
SuspendedGetOnlyMails ==
  [][\A t \in valid' \ valid : t.customer \in Suspended =>
       \E p \in Requests :
         /\ pc'[p] # pc[p] /\ job[p].customer = t.customer
         /\ \/ pc[p] = "mail"
            \/ pc[p] \in {"login", "refresh"} /\ p \in overtaken]_vars

\* Nobody holds a token whose address was never mailed one: a login wants a verified
\* email, whose verification took a token, and a refresh takes one.  An ADMIN's token is
\* an admin's, although a refresh copies the role from any token.  And a customer is
\* ACTIVE, so earns commissions, by an answered mail or an admin's decision
\* (auth.service.ts:50-53, 75-95, 138).
AdmittedWereMailed ==
  /\ Holders \subseteq mailed /\ Verified \subseteq mailed
  /\ \A t \in valid : t.role = "ADMIN" => t.customer \in Admins
  /\ \A c \in Existing :
       customers[c].customerStatus = "ACTIVE" => c \in Verified \union reinstated

\* Every customer but the admin of start-up was referred by one who registered before,
\* so referrals end at the admin and have no cycle, whatever the overlaps and restarts,
\* and whatever the setting says of codes (run CodeOptional).
ReferralsEndAtAdmin ==
  \A c \in Existing :
    IF customers[c].role = "ADMIN"
      THEN c = 1 /\ customers[c].email = AdminEmail
      ELSE customers[c].referrer \in Existing /\ customers[c].referrer < c

\* A customer who stays suspended and asks for no more mails ends up without a token:
\* requests that had read the row before are answered, no refresh renews a token, and
\* every token expires.
SuspensionTakesEffect ==
  \A c \in Ids :
    <>[](c \in Suspended /\ \A p \in Requests : pc[p] = "mail" => job[p].customer # c)
    => <>[](c \notin Holders)

-----------------------------------------------------------------------------
(* What a description in the schema promises and the code does not keep.    *)

\* description.constant.ts:3 "`referralCode` is optional if Admin unsets the
\* `isReferralCodeEnabled` flag": then no registration is refused for want of a code.
CodeOptional == ~ReferralCodeEnabled => \A p \in Requests : pc[p] # "codeRequired"
=============================================================================
