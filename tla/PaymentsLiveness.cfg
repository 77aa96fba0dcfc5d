SPECIFICATION FairSpec
CONSTANTS
  c1 = c1  c2 = c2  r1 = r1  r2 = r2
  Codes <- OneCode
  Requests <- TwoRequests
  NoCode = NoCode  NoEvent = NoEvent
  MaxCrashes = 1  MaxErrors = 1  MaxAsked = 1  MaxEvents = 3
PROPERTIES EventsEndAcknowledged
CHECK_DEADLOCK FALSE
