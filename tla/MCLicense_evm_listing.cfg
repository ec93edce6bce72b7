SPECIFICATION PrecompileSpec
CONSTANTS
  u = u
  v = v
  h1 = h1
  h2 = h2
  h3 = h3
  Accounts = {u, v}
  Holders = {h1, h2, h3}
  AccountOf <- HolderAccounts
  EvmAddresses = {u, v}
  CanonicalOf <- CanonicalStrings
  HexOf <- HolderAccounts
  LicenseTypeIds = {"lA", "lB"}
  SupplyChoices = {1}
  GenesisTypes <- OneType
  GenesisOwners <- UOwns
  GenesisGrants <- FirstGrants
  GenesisAccounts = {u}
  MaxBatch = 1
  MaxIssued = 4
  MaxPairs = 0
INVARIANTS
  HoldersListed
