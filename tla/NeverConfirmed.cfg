SPECIFICATION Spec
CONSTANTS
  c1 = c1  c2 = c2  r1 = r1  r2 = r2
  Codes <- OneCode
  Requests <- OneRequest
  NoCode = NoCode  NoEvent = NoEvent
  MaxCrashes = 0  MaxErrors = 0  MaxAsked = 0  MaxEvents = 3
INVARIANTS CompletedPaymentConfirms
CHECK_DEADLOCK FALSE
