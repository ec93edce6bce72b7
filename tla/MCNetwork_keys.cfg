SPECIFICATION Spec
CONSTANTS
  o1 = o1
  o2 = o2
  k1 = k1
  k2 = k2
  k3 = k3
  n1 = n1
  n2 = n2
  n3 = n3
  n4 = n4
  a1 = a1
  WordSize = 1000
  Operators = {o1, o2}
  KeyAddresses = {k1, k2, k3, o2}
  NodeAddresses = {}
  Admins = {}
  Funded = {o1, o2}
  NodeTypeIds = {"tA"}
  LicenseTypeIds = {"lA"}
  ParamChoices = {}
  GenesisParams <- KeyParams
  GenesisNodeTypes <- OneType
  GenesisLicenses <- OneEach
  GenesisLicenseTypes = {"lA"}
  GenesisGrants = {}
  GenesisAccounts <- LicensedOperators
  GenesisBalance = 1
  DayLength = 2
  MaxTime = 7
  MaxLicenses = 1
  MaxTouched = 1
  TxForms = {"paid"}
INVARIANTS
  TypeOK
  KeyRateBounded
PROPERTIES
  DeauthorizePaysFee
  RecordsArePermanent
