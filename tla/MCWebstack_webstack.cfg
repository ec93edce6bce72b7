SPECIFICATION WebstackSpec
CONSTANTS
  a1 = a1
  gov = gov
  o1 = o1
  o2 = o2
  k1 = k1
  n1 = n1
  n2 = n2
  lA = lA
  lB = lB
  tA = tA
  tB = tB
  own = own
  alias = alias
  other = other
  Accounts = {a1, gov, o1, o2, k1, n1, n2}
  Holders = {own, alias, other}
  AccountOf <- Spelled
  Canonical <- OwnString
  LicenseTypeIds = {lA, lB}
  SupplyChoices = {2}
  GenesisTypes <- TwoTypes
  GenesisOwners <- GovOwns
  GenesisGrants <- LicenseAdmin
  GenesisAccounts = {a1, k1, n1, n2}
  MaxBatch = 2
  MaxIssued = 2
  MaxPairs = 1
  Operators = {o1, o2}
  KeyAddresses = {k1}
  NodeAddresses = {n1, n2}
  Admins = {a1}
  Funded = {a1}
  NodeTypeIds = {tA, tB}
  ParamChoices <- Doubled
  GenesisParams <- SpamDoubled
  GenesisNodeTypes <- BoundTypes
  GenesisBalance = 0
  MaxTime = 3
  TxForms = {"paid"}
  Edited = {"network"}
SYMMETRY FleetSymmetry
CONSTRAINT EditsApart
INVARIANTS
  HoldersCanSign
PROPERTIES
  NetworkOverLicenses
  ActivationBackedByRecords
