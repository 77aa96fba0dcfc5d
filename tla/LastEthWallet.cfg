SPECIFICATION Spec
CONSTANTS
  alice = alice  bob = bob  r1 = r1  r2 = r2
  Customers <- OneCustomer
  Requests <- TwoRequests
  NoWallet = NoWallet  NoJob = NoJob
  MaxWallets = 2
SYMMETRY Symmetry
INVARIANTS EthWalletRequired
