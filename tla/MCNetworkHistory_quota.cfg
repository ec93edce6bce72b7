SPECIFICATION HistorySpec
CONSTANTS
  o1 = o1
  o2 = o2
  k1 = k1
  k2 = k2
  k3 = k3
  n1 = n1
  n2 = n2
  n3 = n3
  n4 = n4
  a1 = a1
  WordSize = 1000
  Operators = {o1}
  KeyAddresses = {k1}
  NodeAddresses = {n1}
  Admins = {}
  Funded = {}
  NodeTypeIds = {"tA"}
  LicenseTypeIds = {"lA"}
  ParamChoices = {}
  GenesisParams <- HeartbeatParams
  GenesisNodeTypes <- OneType
  GenesisLicenses <- OneEach
  GenesisLicenseTypes = {"lA"}
  GenesisGrants = {}
  GenesisAccounts <- LicensedOperators
  GenesisBalance = 0
  DayLength = 1
  MaxTime = 2
  MaxLicenses = 1
  MaxTouched = 1
  TxForms = {"gasless"}
INVARIANTS
  FreeChannelLicensed
  HeartbeatsWithinDailyLimit
PROPERTIES
  QuotaPromise
