-------------------------------- MODULE Mails --------------------------------
(***************************************************************************)
(* The mails of the service: EmailService hands a mail to SES in the       *)
(* background of the request that asked for it and calls SES again when a  *)
(* call fails, and CustomerService limits how often a customer may ask for *)
(* another one with a count in the memory of the process, read before the  *)
(* mail is awaited and written after it.  Links, templates and addresses   *)
(* are left out: a mail is its EmailType and the customer it is about.     *)
(***************************************************************************)
EXTENDS Naturals

CONSTANTS
  Recipients, Admin,   \* customers; the one with the address ADMIN_EMAIL
  Callers,             \* requests in progress
  Slots,               \* bound: mails in the background at a time
  RequestTypes,        \* types of the mails a customer may ask for again
  NoticeTypes,         \* types of the mails the program sends of its own accord
  MaxAttempts,         \* CONFIG.EMAIL_RESEND_MAX_ATTEMPTS
  MaxRetries,          \* failAfter
  MaxCrashes           \* bound: restarts of the process

ASSUME MailsAssumption ==
  /\ Admin \in Recipients
  /\ RequestTypes \subseteq {"PASSWORD_RESET", "VERIFICATION", "ADMIN_REGISTRATION"}
  /\ NoticeTypes \subseteq {"WELCOME"}
  /\ MaxAttempts \in Nat \ {0} /\ MaxRetries \in Nat /\ MaxCrashes \in Nat

VARIABLES
  joined,      \* customers with a row
  attempts,    \* the cache: counted mails per budget, 0 where it has no entry
  caller,      \* per request: what it asks for and the count it has read
  mail,        \* per slot: a mail in the background, or how the last one there was logged
  crashes,
  letIn,       \* history: customers whose invitation SES has taken
  granted,     \* history: counted mails asked for since the cache had no entry
  overlapped   \* history: two counted requests were in progress at once since then

mailsVars == <<joined, attempts, caller, mail, crashes, letIn, granted, overlapped>>

-----------------------------------------------------------------------------

EmailTypes == RequestTypes \union NoticeTypes \union {"VERIFICATION", "ADMIN_REGISTRATION"}

\* The key a request counts under: both ways to resend share one.
CacheKey(type, c) == <<IF type = "PASSWORD_RESET" THEN "forgetPassword" ELSE "resend", c>>
CacheKeys == {"forgetPassword", "resend"} \X Recipients

\* Mutant of LoggedAs: the cases fall through.
LoggedAsLast(type) == "VERIFICATION"

\* The name an outcome is logged under: one type has no case of its own.
LoggedAs(type) == IF type = "ADMIN_UNRESOLVED_OTHER" THEN "VERIFICATION" ELSE type

Idle == [step |-> "idle"]
Asking == [step : {"send", "count"}, type : EmailTypes, to : Recipients,
           counted : BOOLEAN, count : Nat]
NoMail == [phase |-> "none"]
Mail == [phase : {"calling", "backoff", "sent", "failed"}, type : EmailTypes, to : Recipients,
         calls : 1..(MaxRetries + 1), taken : BOOLEAN, as : EmailTypes]

MailsInit ==
  /\ joined = {}
  /\ attempts = [k \in CacheKeys |-> 0]
  /\ caller = [r \in Callers |-> Idle]
  /\ mail = [s \in Slots |-> NoMail]
  /\ crashes = 0
  /\ letIn = {}
  /\ granted = [k \in CacheKeys |-> 0]
  /\ overlapped = [k \in CacheKeys |-> FALSE]

Underway(s) == mail[s] # NoMail /\ mail[s].phase \in {"calling", "backoff"}
KeyOf(r) == CacheKey(caller[r].type, caller[r].to)

\* The requests that have read the count of k and not written it yet.
Counting(k) == {r \in Callers : caller[r] # Idle /\ caller[r].counted /\ KeyOf(r) = k}

Ask(r, type, c, counted) ==
  /\ caller[r] = Idle
  /\ caller' = [caller EXCEPT ![r] =
       [step |-> "send", type |-> type, to |-> c, counted |-> counted,
        count |-> attempts[CacheKey(type, c)]]]

-----------------------------------------------------------------------------

\* The mail that lets a customer in: createAdmin's or register's.
Invitation(c) == IF c = Admin THEN "ADMIN_REGISTRATION" ELSE "VERIFICATION"

\* The row is committed before its mail is asked for, and that mail is not counted.
Join(r, c) ==
  /\ c \notin joined
  /\ joined' = joined \union {c}
  /\ Ask(r, Invitation(c), c, FALSE)
  /\ UNCHANGED <<attempts, mail, crashes, letIn, granted, overlapped>>

\* Mutant of WithinLimit: one mail more.
WithinLimitInclusive(type, c) == attempts[CacheKey(type, c)] <= MaxAttempts

\* forgetPassword, resendEmailVerification and resendAdminRegistrationEmail, which
\* only writes to the admin.  A request over the limit is refused and changes nothing.
WithinLimit(type, c) == attempts[CacheKey(type, c)] < MaxAttempts

Request(r, type, c) ==
  /\ c \in joined /\ (type = "ADMIN_REGISTRATION" => c = Admin)
  /\ WithinLimit(type, c)
  /\ Ask(r, type, c, TRUE)
  /\ overlapped' = [overlapped EXCEPT ![CacheKey(type, c)] = @ \/ Counting(CacheKey(type, c)) # {}]
  /\ UNCHANGED <<joined, attempts, mail, crashes, letIn, granted>>

\* sendEmailWithRetry starts the first call and resolves without awaiting it.
StartMail(s, type, c) ==
  /\ ~Underway(s)
  /\ mail' = [mail EXCEPT ![s] =
       [phase |-> "calling", type |-> type, to |-> c, calls |-> 1, taken |-> FALSE, as |-> type]]

SendEmail(r) ==
  /\ caller[r] # Idle /\ caller[r].step = "send"
  /\ \E s \in Slots : StartMail(s, caller[r].type, caller[r].to)
  /\ IF caller[r].counted
     THEN /\ caller' = [caller EXCEPT ![r].step = "count"]
          /\ granted' = [granted EXCEPT ![KeyOf(r)] = IF @ > MaxAttempts THEN @ ELSE @ + 1]
     ELSE /\ caller' = [caller EXCEPT ![r] = Idle]
          /\ UNCHANGED granted
  /\ UNCHANGED <<joined, attempts, crashes, letIn, overlapped>>

\* verifyEmail and registerAdmin welcome a customer, with no limit to read first.  (The
\* webhook's notices are never sent: its handler is not reached.)
Notify(s, type, c) ==
  /\ c \in joined
  /\ StartMail(s, type, c)
  /\ UNCHANGED <<joined, attempts, caller, crashes, letIn, granted, overlapped>>

\* Signing the link or reading the template fails: no mail, and nothing is counted.
FailToCompose(r) ==
  /\ caller[r] # Idle /\ caller[r].step = "send"
  /\ \E s \in Slots : ~Underway(s)
  /\ caller' = [caller EXCEPT ![r] = Idle]
  /\ UNCHANGED <<joined, attempts, mail, crashes, letIn, granted, overlapped>>

CountAttempt(r) ==
  /\ caller[r] # Idle /\ caller[r].step = "count"
  /\ attempts' = [attempts EXCEPT ![KeyOf(r)] = caller[r].count + 1]
  /\ caller' = [caller EXCEPT ![r] = Idle]
  /\ UNCHANGED <<joined, mail, crashes, letIn, granted, overlapped>>

\* Mutant of Expire: the cache is given no time to live.
ExpireNever(k) == FALSE /\ UNCHANGED mailsVars

\* The entry of a key runs out an hour after it was last set.
Expire(k) ==
  /\ attempts[k] > 0
  /\ attempts' = [attempts EXCEPT ![k] = 0]
  /\ granted' = [granted EXCEPT ![k] = 0]
  /\ overlapped' = [overlapped EXCEPT ![k] = \E q, r \in Counting(k) : q # r]
  /\ UNCHANGED <<joined, caller, mail, crashes, letIn>>

-----------------------------------------------------------------------------

Calling(s) == Underway(s) /\ mail[s].phase = "calling"

\* SES takes the mail, whatever becomes of its answer.
Take(s) == letIn' = IF mail[s].type = Invitation(mail[s].to)
                    THEN letIn \union {mail[s].to} ELSE letIn

\* The callback of the call as a whole logs how the mail ended.
Finish(s, phase, took) ==
  mail' = [mail EXCEPT ![s].phase = phase, ![s].taken = @ \/ took,
                       ![s].as = LoggedAs(mail[s].type)]

CallSucceeds(s) ==
  /\ Calling(s)
  /\ Take(s)
  /\ Finish(s, "sent", TRUE)
  /\ UNCHANGED <<joined, attempts, caller, crashes, granted, overlapped>>

\* A call that fails after SES took the mail looks like one that failed before.
CallFails(s, took) ==
  /\ Calling(s)
  /\ IF took THEN Take(s) ELSE UNCHANGED letIn
  /\ IF mail[s].calls <= MaxRetries
     THEN mail' = [mail EXCEPT ![s].phase = "backoff", ![s].taken = @ \/ took]
     ELSE Finish(s, "failed", took)
  /\ UNCHANGED <<joined, attempts, caller, crashes, granted, overlapped>>

\* Mutant of Retry: the calls are not counted.
RetryUncounted(s) ==
  /\ Underway(s) /\ mail[s].phase = "backoff"
  /\ mail' = [mail EXCEPT ![s].phase = "calling"]
  /\ UNCHANGED <<joined, attempts, caller, crashes, letIn, granted, overlapped>>

Retry(s) ==
  /\ Underway(s) /\ mail[s].phase = "backoff"
  /\ mail' = [mail EXCEPT ![s].phase = "calling", ![s].calls = @ + 1]
  /\ UNCHANGED <<joined, attempts, caller, crashes, letIn, granted, overlapped>>

\* The cache, the requests and the mails not yet sent are in memory only.
CrashMails ==
  /\ crashes < MaxCrashes
  /\ crashes' = crashes + 1
  /\ attempts' = [k \in CacheKeys |-> 0]
  /\ caller' = [r \in Callers |-> Idle]
  /\ mail' = [s \in Slots |-> NoMail]
  /\ granted' = [k \in CacheKeys |-> 0]
  /\ overlapped' = [k \in CacheKeys |-> FALSE]
  /\ UNCHANGED <<joined, letIn>>

-----------------------------------------------------------------------------

MailsNext ==
  \/ \E r \in Callers :
       \/ \E c \in Recipients :
            \/ Join(r, c)
            \/ \E type \in RequestTypes : Request(r, type, c)
       \/ SendEmail(r)
       \/ FailToCompose(r)
       \/ CountAttempt(r)
  \/ \E k \in CacheKeys : Expire(k)
  \/ \E s \in Slots :
       \/ CallSucceeds(s)
       \/ \E took \in BOOLEAN : CallFails(s, took)
       \/ Retry(s)
       \/ \E type \in NoticeTypes, c \in Recipients : Notify(s, type, c)
  \/ CrashMails

MailsSafety == MailsInit /\ [][MailsNext]_mailsVars

\* A request goes on and a call to SES is answered, one way or the other; a backoff
\* and the hour of a cache entry run out.  (Strong where a request waits for a slot:
\* the slots are the model's, the code has as many as it needs.)
MailsProgress ==
  /\ \A r \in Callers : /\ SF_mailsVars(SendEmail(r) \/ FailToCompose(r))
                         /\ WF_mailsVars(CountAttempt(r))
  /\ \A s \in Slots : /\ WF_mailsVars(CallSucceeds(s) \/ \E took \in BOOLEAN : CallFails(s, took))
                       /\ WF_mailsVars(Retry(s))
  /\ \A k \in CacheKeys : WF_mailsVars(Expire(k))

\* A customer without the mail that lets it in keeps asking for it, its requests
\* are not always the ones that fail, and SES does not refuse every call for it.
Persistence(c) ==
  LET Missing == c \notin letIn
      Own(x) == x.type = Invitation(c) /\ x.to = c
  IN /\ SF_mailsVars(Missing /\ \E r \in Callers : Request(r, Invitation(c), c))
     /\ SF_mailsVars(\E r \in Callers : caller[r] # Idle /\ Own(caller[r]) /\ SendEmail(r))
     /\ SF_mailsVars(\E s \in Slots : mail[s] # NoMail /\ Own(mail[s]) /\ CallSucceeds(s))

MailsFairness == MailsProgress /\ \A c \in Recipients : Persistence(c)
MailsSpec == MailsSafety /\ MailsFairness

-----------------------------------------------------------------------------

\* Every variable of Mails has the shape the code gives it.
MailsTypeOK ==
  /\ joined \subseteq Recipients
  /\ attempts \in [CacheKeys -> 0..MaxAttempts]
  /\ caller \in [Callers -> Asking \union {Idle}]
  /\ mail \in [Slots -> Mail \union {NoMail}]
  /\ crashes \in 0..MaxCrashes
  /\ letIn \subseteq Recipients
  /\ granted \in [CacheKeys -> 0..(MaxAttempts + 1)]
  /\ overlapped \in [CacheKeys -> BOOLEAN]

\* forgetPassword and the two ways to resend: until the count of a budget runs out
\* or the process restarts, a customer gets no more mails from it than the limit,
\* whichever of them are asked for, unless two of its requests overlapped.
LimitHolds ==
  \A k \in CacheKeys : ~overlapped[k] => granted[k] <= MaxAttempts

\* sendEmailWithRetry: a mail is logged as sent only when SES has taken it, as failed
\* only after every retry, and under its own name.  (The one type without a case in the
\* callback is a notice of the webhook.)
LogTold ==
  \A s \in Slots : (mail[s] # NoMail /\ ~Underway(s)) =>
    /\ mail[s].phase = "sent" => mail[s].taken
    /\ mail[s].phase = "failed" => mail[s].calls = MaxRetries + 1
    /\ mail[s].as = mail[s].type

\* A mail does not stay in the background for ever, even when SES fails every call.
MailsEnd == \A s \in Slots : Underway(s) ~> ~Underway(s)

\* Whatever is lost, refused or given up on the way (the row committed without its
\* mail, a crash, four failed calls, the limit), a customer who keeps asking gets
\* the mail that verifies the address or lets the admin in.
LetIn == \A c \in Recipients : c \in joined ~> c \in letIn
=============================================================================
