SPECIFICATION Spec
CONSTANTS
  c1 = c1  c2 = c2  r1 = r1  r2 = r2
  Codes <- TwoCodes
  Requests <- TwoRequests
  NoCode = NoCode  NoEvent = NoEvent
  MaxCrashes = 1  MaxErrors = 1  MaxAsked = 2  MaxEvents = 3
SYMMETRY Symmetry
INVARIANTS TypeOK CalculationsAccounted
PROPERTIES ImplementsLedger
CHECK_DEADLOCK FALSE
