SPECIFICATION HistorySpec
CONSTANTS
  o1 = o1
  o2 = o2
  k1 = k1
  k2 = k2
  k3 = k3
  n1 = n1
  n2 = n2
  n3 = n3
  n4 = n4
  a1 = a1
  WordSize = 1000
  Operators = {o1}
  KeyAddresses = {k1}
  NodeAddresses = {n1, n2, n3, n4}
  Admins = {}
  Funded = {o1, k1, n1, n2, n3, n4}
  NodeTypeIds = {"tA"}
  LicenseTypeIds = {"lA"}
  ParamChoices <- GovernanceParams
  GenesisParams <- FleetParams
  GenesisNodeTypes <- OneType
  GenesisLicenses <- OneEach
  GenesisLicenseTypes = {"lA"}
  GenesisGrants = {}
  GenesisAccounts <- LicensedOperators
  GenesisBalance = 0
  DayLength = 1
  MaxTime = 3
  MaxLicenses = 2
  MaxTouched = 1
  TxForms = {"paid"}
SYMMETRY FleetSymmetry
VIEW FleetView
INVARIANTS
  TalliesMatchNodes
  RecentIndexExact
  VerdictFaithful
  PreCheckForetells
  ActivateQuotaFaithful
  ChurnBounded
PROPERTIES
  RecordsArePermanent
  ActivationEntitled
