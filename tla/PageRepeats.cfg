SPECIFICATION PagesSafety
CONSTANTS
  Listings = {"commissions"}
  Limits = {2}
  MaxRows = 3
  MaxEdits = 0
INVARIANT PicksUpWhereLeft
CHECK_DEADLOCK FALSE
