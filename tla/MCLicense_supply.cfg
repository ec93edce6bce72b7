SPECIFICATION PrecompileSpec
CONSTANTS
  u = u
  v = v
  h1 = h1
  h2 = h2
  h3 = h3
  Accounts = {u, v}
  Holders = {h1, h2}
  AccountOf <- HolderAccounts
  EvmAddresses = {u, v}
  CanonicalOf <- CanonicalStrings
  HexOf <- HolderAccounts
  LicenseTypeIds = {"lA", "lB"}
  SupplyChoices = {2}
  GenesisTypes <- OneType
  GenesisOwners <- UOwns
  GenesisGrants <- FirstGrants
  GenesisAccounts = {u}
  MaxBatch = 2
  MaxIssued = 4
  MaxPairs = 1
CONSTRAINT GrantsFollow
VIEW Essence
INVARIANTS
  TypeOK
  SupplyRespected
  LicensesReimportable
  HoldersListed
PROPERTIES
  LicensesArePermanent
  RevokesNewest
  LedgerPromise
  ReceiptsTellChange
