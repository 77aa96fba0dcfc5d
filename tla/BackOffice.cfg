SPECIFICATION Spec
CONSTANTS
  root_admin = root_admin
  r1 = r1  r2 = r2
  s1 = s1
  e1 = e1  e2 = e2
  b1 = b1
  p1 = p1
  v1 = v1  v2 = v2
  Recipients <- MCRecipients
  Admin = root_admin
  Callers <- MCCallers
  Slots <- MCSlots
  RequestTypes <- MCRequestTypes
  NoticeTypes <- MCNoticeTypes
  MaxAttempts = 2
  MaxRetries = 1
  MaxCrashes = 1
  MaxMembers = 4
  ViewLevels <- MCViewLevels
  StartLevels <- MCStartLevels
  Listings <- MCListings
  Limits <- MCLimits
  MaxRows = 4
  MaxEdits = 2
  Tables <- MCTables
  Editors <- MCEditors
  Buyers <- MCBuyers
  Packages <- MCPackages
  Values <- MCValues
  Quantities <- MCQuantities
  MaxChanges = 3
  PasswordInputs <- MCPasswordInputs
  Visits <- MCVisits
INVARIANTS
  BackOfficeTypeOK
  LimitHolds
  LogTold
  ReferralMapCorrect
  NothingMissed
  OnlyCursorsAgain
  OneRowTold
  TogglesCount
  SoldOnTerms
PROPERTIES
  MailsEnd
  LetIn
  PagesEnd
  ReplacedPasswordUseless
CHECK_DEADLOCK FALSE
