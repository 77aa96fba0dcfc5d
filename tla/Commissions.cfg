SPECIFICATION Spec
CONSTANTS
  k1 = k1  r1 = r1  r2 = r2
  Customers <- ThreeCustomers
  Referrer <- InLine
  Charges <- OneCharge
  Buyer <- TheBuyer
  Amount <- TheAmount
  Tiers <- TwoTiers
  Rates <- TwoRates
  NoRate = NoRate
  Requests <- TwoRequests
  MaxBatches = 1  MaxChanges = 2
SYMMETRY Symmetry
INVARIANTS TypeOK OneGrantEach
PROPERTIES CommissionsEarned NobodyLeftOut DeletedTierStaysDeleted
CHECK_DEADLOCK FALSE
