---------------------------- MODULE MCBackOffice ----------------------------
(***************************************************************************)
(* Five components in one run: the mails, the referral map, the listings,  *)
(* the catalog and the passwords.  They share no state, so every behaviour *)
(* of the five together, restricted to the variables of one of them, is a  *)
(* behaviour of that one up to stuttering: the run takes the behaviours of *)
(* each while the others stand still.                                      *)
(***************************************************************************)
EXTENDS Mails, Network, Pages, Catalog, Passwords

CONSTANTS root_admin, r1, r2, s1, e1, e2, b1, p1, v1, v2

MCRecipients == {root_admin}
MCCallers == {r1, r2}
MCSlots == {s1}
MCRequestTypes == {"VERIFICATION", "ADMIN_REGISTRATION"}
MCNoticeTypes == {"WELCOME"}
MCViewLevels == {-1, 0, 1}
MCStartLevels == {1}
MCListings == {"customers", "charges", "activities", "commissions"}
MCLimits == {2}
MCTables == {"config", "tokenPrice", "image"}
MCEditors == {e1, e2}
MCBuyers == {b1}
MCPackages == {p1}
MCValues == {1, 2}
MCQuantities == {2}
MCPasswordInputs == {1, 2}
MCVisits == {v1, v2}

VARIABLE part   \* the component that moves

vars == <<mailsVars, networkVars, pagesVars, catalogVars, passwordVars, part>>

Init ==
  /\ MailsInit /\ NetworkInit /\ PagesInit /\ CatalogInit /\ PasswordsInit
  /\ part \in {"mails", "network", "pages", "catalog", "passwords"}
  /\ part # "pages" => listing = "charges"
  /\ part # "passwords" => password = 1 /\ tokens = {}

Next ==
  /\ UNCHANGED part
  /\ \/ /\ part = "mails" /\ MailsNext
        /\ UNCHANGED <<networkVars, pagesVars, catalogVars, passwordVars>>
     \/ /\ part = "network" /\ NetworkNext
        /\ UNCHANGED <<mailsVars, pagesVars, catalogVars, passwordVars>>
     \/ /\ part = "pages" /\ PagesNext
        /\ listing = "activities" => edits' < MaxEdits   \* bound: their orders are many
        /\ UNCHANGED <<mailsVars, networkVars, catalogVars, passwordVars>>
     \/ /\ part = "catalog" /\ CatalogNext
        /\ UNCHANGED <<mailsVars, networkVars, pagesVars, passwordVars>>
     \/ /\ part = "passwords" /\ PasswordsNext
        /\ UNCHANGED <<mailsVars, networkVars, pagesVars, catalogVars>>

Spec == Init /\ [][Next]_vars /\ MailsFairness /\ PagesFairness

\* Every variable of the five modules has the shape the code gives it.
BackOfficeTypeOK ==
  MailsTypeOK /\ NetworkTypeOK /\ PagesTypeOK /\ CatalogTypeOK /\ PasswordsTypeOK
=============================================================================
