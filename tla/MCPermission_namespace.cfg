SPECIFICATION Spec
CONSTANTS
  u = u
  v = v
  Accounts = {u, v}
  Modules = {"license"}
  Vocabulary <- LicenseOnly
  Unscoped <- LicenseUnscoped
  ScopedModules = {"license"}
  Scopes = {"lA", "lB"}
  GenesisOwners <- NoOwners
  GenesisGrants = {}
  GenesisScopes <- NoLicenseTypes
  MaxPairs = 2
SYMMETRY AccountSymmetry
INVARIANTS
  TypeOK
  GrantsReimportable
PROPERTIES
  ScopesStartWithoutRights
