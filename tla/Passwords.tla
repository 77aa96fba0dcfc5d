------------------------------ MODULE Passwords ------------------------------
(***************************************************************************)
(* The password of a customer and the sessions it opens: login,            *)
(* changePassword behind FreshTokenGuard, resetPassword and registerAdmin, *)
(* which write the same column, and refreshTokens.  Each reads the row,    *)
(* awaits argon2 on what it has read, and then writes or signs, while the  *)
(* others may run.  Every operation is on the row of one customer: the     *)
(* module is about one, verified and not suspended (what becomes of        *)
(* another is in Accounts).  A hash is the password it verifies.  Access,  *)
(* refresh and email tokens serve for one another; of a token counts       *)
(* whether it is less than ten minutes old, so that FreshTokenGuard admits *)
(* it, and if so, whether a login or a mail or refreshTokens signed it.    *)
(***************************************************************************)
CONSTANTS
  PasswordInputs,   \* inputs: passwords
  Visits            \* requests in progress

VARIABLES
  password,         \* column password
  visit,            \* per request: its operation, inputs, and the password it has read
  tokens,           \* the kinds of valid tokens there are
  outdated          \* history: requests whose row's password was written since they read it

passwordVars == <<password, visit, tokens, outdated>>

\* Signed in the last ten minutes by a login or for a mail; by refreshTokens; earlier.
TokenKinds == {"signed", "renewed", "old"}

Nobody == [op |-> "none"]
Visit == [op : {"login"}, given : PasswordInputs, read : PasswordInputs]
  \union [op : {"change"}, given : PasswordInputs, read : PasswordInputs, new : PasswordInputs]
  \union [op : {"reset"}, new : PasswordInputs] \union [op : {"refresh"}]

\* A verified customer has answered a mail, whose token may still be valid.
PasswordsInit ==
  /\ password \in PasswordInputs
  /\ visit = [v \in Visits |-> Nobody]
  /\ tokens \in SUBSET {"signed", "old"}
  /\ outdated = {}

Begin(v, request) ==
  /\ visit[v] = Nobody
  /\ visit' = [visit EXCEPT ![v] = request]
  /\ UNCHANGED <<password, tokens, outdated>>

End(v) == visit' = [visit EXCEPT ![v] = Nobody]

\* The row is written; whoever has read its password has read an old one.
WritePassword(v, new) ==
  /\ password' = new
  /\ End(v)
  /\ outdated' = {w \in Visits \ {v} : visit[w].op \in {"login", "change"}}
  /\ UNCHANGED tokens

-----------------------------------------------------------------------------

FindForLogin(v, given) == Begin(v, [op |-> "login", given |-> given, read |-> password])

\* FreshTokenGuard, then findUnique.
FindForChange(v, given, new) ==
  /\ tokens \intersect {"signed", "renewed"} # {}
  /\ Begin(v, [op |-> "change", given |-> given, read |-> password, new |-> new])

\* verifyEmailToken, which any token passes, then findUnique.
FindForReset(v, new) == tokens # {} /\ Begin(v, [op |-> "reset", new |-> new])

\* verifyRefreshToken, which any token passes.
FindForRefresh(v) == tokens # {} /\ Begin(v, [op |-> "refresh"])

\* Mutant of PasswordVerified: the result of argon2.verify is not looked at.
PasswordVerifiedAlways(v) == TRUE

\* argon2.verify, on the row as it was read.
PasswordVerified(v) == visit[v].given = visit[v].read

IssueTokens(v) ==
  /\ visit[v].op = "login" /\ PasswordVerified(v)
  /\ tokens' = tokens \union {"signed"}
  /\ End(v)
  /\ outdated' = outdated \ {v}
  /\ UNCHANGED password

ChangePassword(v) == visit[v].op = "change" /\ PasswordVerified(v) /\ WritePassword(v, visit[v].new)

\* resetPassword and registerAdmin (a used token stays valid).
ResetPassword(v) == visit[v].op = "reset" /\ WritePassword(v, visit[v].new)

\* The resolver deletes iat, so the new token is as fresh as one of a login.
CreateAccessToken(v) ==
  /\ visit[v].op = "refresh"
  /\ tokens' = tokens \union {"renewed"}
  /\ End(v)
  /\ UNCHANGED <<password, outdated>>

\* A wrong password, or a call that fails.
EndInError(v) ==
  /\ visit[v] # Nobody
  /\ End(v)
  /\ outdated' = outdated \ {v}
  /\ UNCHANGED <<password, tokens>>

-----------------------------------------------------------------------------

\* forgetPassword (how often is in Mails).
MailToken ==
  /\ tokens' = tokens \union {"signed"}
  /\ UNCHANGED <<password, visit, outdated>>

\* Ten minutes after they were signed, all or some of a kind.
GrowOld(kind) ==
  /\ kind \in tokens
  /\ tokens' \in {tokens \union {"old"}, (tokens \ {kind}) \union {"old"}}
  /\ UNCHANGED <<password, visit, outdated>>

\* After fifteen minutes, an hour or a day.
ExpireOld ==
  /\ tokens' = tokens \ {"old"}
  /\ UNCHANGED <<password, visit, outdated>>

-----------------------------------------------------------------------------

Finishes(v) == IssueTokens(v) \/ ChangePassword(v) \/ ResetPassword(v)
               \/ CreateAccessToken(v) \/ EndInError(v)

PasswordsNext ==
  \/ \E v \in Visits :
       \/ \E given \in PasswordInputs :
            \/ FindForLogin(v, given)
            \/ \E new \in PasswordInputs : FindForChange(v, given, new)
       \/ \E new \in PasswordInputs : FindForReset(v, new)
       \/ FindForRefresh(v)
       \/ Finishes(v)
  \/ MailToken
  \/ \E kind \in {"signed", "renewed"} : GrowOld(kind)
  \/ ExpireOld

PasswordsSafety == PasswordsInit /\ [][PasswordsNext]_passwordVars

-----------------------------------------------------------------------------

\* Every variable of Passwords has the shape the code gives it.
PasswordsTypeOK ==
  /\ password \in PasswordInputs
  /\ visit \in [Visits -> Visit \union {Nobody}]
  /\ tokens \subseteq TokenKinds
  /\ outdated \subseteq Visits

\* login and changePassword: a password that has been replaced opens no session and
\* replaces no other password (one just set by a reset, say), but for a request that had
\* read the row before it was replaced (customer.service.ts:311, auth.service.ts:46).
ReplacedPasswordUseless ==
  [][\A v \in Visits \ outdated :
       /\ visit[v].op = "login" /\ visit'[v] = Nobody /\ tokens' # tokens
            => visit[v].given = password
       /\ visit[v].op = "change" /\ visit'[v] = Nobody /\ password' # password
            => visit[v].given = password]_passwordVars

-----------------------------------------------------------------------------
(* What a description in the schema promises and the code does not keep.    *)

\* description.constant.ts:91 "If you've been logged in for more than 10 minutes, you'll
\* need to re-login to proceed": a change begins with a token that refreshTokens did not
\* sign.
ReloginForChange ==
  [][\A v \in Visits : visit[v] = Nobody /\ visit'[v] # Nobody /\ visit'[v].op = "change"
        => "signed" \in tokens]_passwordVars
=============================================================================
