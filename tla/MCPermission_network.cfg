SPECIFICATION Spec
CONSTANTS
  u = u
  v = v
  Accounts = {u}
  Modules = {"license", "network"}
  Vocabulary <- BothVocabularies
  Unscoped <- BothUnscoped
  ScopedModules = {"license"}
  Scopes = {"lA"}
  GenesisOwners <- NoOwners
  GenesisGrants = {}
  GenesisScopes <- NoLicenseTypes
  MaxPairs = 1
INVARIANTS
  NetworkGrantsModuleWide
