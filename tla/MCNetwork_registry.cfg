SPECIFICATION Spec
CONSTANTS
  o1 = o1
  o2 = o2
  k1 = k1
  k2 = k2
  k3 = k3
  n1 = n1
  n2 = n2
  n3 = n3
  n4 = n4
  a1 = a1
  WordSize = 1000
  Operators = {o1, o2}
  KeyAddresses = {k1, k2}
  NodeAddresses = {n1, n2}
  Admins = {a1}
  Funded = {o1, o2, k1, k2, a1}
  NodeTypeIds = {"tA", "tB"}
  LicenseTypeIds = {"lA", "lB"}
  ParamChoices = {}
  GenesisParams <- FleetParams
  GenesisNodeTypes <- NoTypes
  GenesisLicenses <- NoLicenses
  GenesisLicenseTypes = {}
  GenesisGrants = {}
  GenesisAccounts <- PayersOnly
  GenesisBalance = 0
  DayLength = 1
  MaxTime = 2
  MaxLicenses = 1
  MaxTouched = 1
  TxForms = {"paid"}
SYMMETRY RegistrySymmetry
INVARIANTS
  VerdictFaithful
  GenesisRoundTrip
PROPERTIES
  ActivationEntitled
  RecordsArePermanent
