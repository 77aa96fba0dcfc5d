SPECIFICATION Spec
CONSTANTS
  r1 = r1  r2 = r2  admin = admin  alice = alice
  Requests <- TwoRequests
  Emails <- TwoEmails
  AdminEmail <- admin
  NoCustomer = NoCustomer  NoJob = NoJob
  ReferralCodeEnabled = FALSE
  MaxCustomers = 2
  MaxRestarts = 1
INVARIANTS CodeOptional
CHECK_DEADLOCK FALSE
