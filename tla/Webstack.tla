------------------------------- MODULE Webstack -------------------------------
(***************************************************************************)
(* The three modules of webstack together, as app.go wires them.           *)
(* x/network sizes fleets by the licenses x/license keeps, both ask        *)
(* x/permission who may administer what, and all three create and use the  *)
(* same accounts.  Network leaves the other two to an environment; here    *)
(* that environment is License and Permission.                             *)
(*                                                                         *)
(* A holder is kept by x/license as the string it was sent, while          *)
(* x/network accepts only the canonical spelling of an address and looks   *)
(* licenses up under it.                                                   *)
(***************************************************************************)
EXTENDS License

CONSTANTS
  Canonical,         \* [Operators -> Holders], the canonical spelling
  \* of Network (the addresses, the license types and the genesis accounts
  \* are those of License)
  Operators, KeyAddresses, NodeAddresses, Admins, Funded, NodeTypeIds,
  ParamChoices, GenesisParams, GenesisNodeTypes, GenesisBalance, MaxTime, TxForms,
  \* bound of the model: the namespaces whose owners are at work
  Edited

ASSUME EditedAssumption == Edited \subseteq {"license", "network"}
ASSUME CanonicalAssumption ==
  /\ Canonical \in [Operators -> Holders]
  /\ \A op \in Operators : AccountOf[Canonical[op]] = op
ASSUME HoldersOperateAssumption == AccountOf \in [Holders -> Operators]

VARIABLES
  params, nodeTypes, nodeTypeByLicenseType, activationKeys, operatorActivationKeys,
  nodes, operatorNodes, operatorNodeCounts, recentNodeActivity, operators,
  nodeStatusCounters, gaslessCounters, balances, feeCollector, now

networkVars ==
  <<params, nodeTypes, nodeTypeByLicenseType, activationKeys, operatorActivationKeys,
    nodes, operatorNodes, operatorNodeCounts, recentNodeActivity, operators,
    nodeStatusCounters, gaslessCounters, balances, feeCollector, now>>

\* Faulty: the walk is over the licenses of the type, revoked ones included.
CountIssuedLicenses(holder, type) ==
  Cardinality({id \in DOMAIN licenses :
                 <<type, id>> \in licensesByType /\ licenses[id].holder = holder})

(* CountActiveLicenses, as x/network asks for one type.                    *)
CountActiveLicenses(holder, type) == Cardinality(ActiveIds(holder, type))

(* The module-wide grants of x/network's namespace.                        *)
NetworkGrants(all) ==
  {<<g[2], g[3]>> : g \in {key \in all : key[1] = "network" /\ key[4] = "none"}}

N == INSTANCE Network WITH
  licenses     <- [op \in Operators |->
                     [type \in LicenseTypeIds |-> CountActiveLicenses(Canonical[op], type)]],
  licenseTypes <- DOMAIN licenseTypes,
  grants       <- NetworkGrants(grants),
  GenesisLicenses     <- [op \in Operators |-> [type \in LicenseTypeIds |-> 0]],
  GenesisLicenseTypes <- DOMAIN GenesisTypes,
  GenesisGrants       <- NetworkGrants(GenesisGrants),
  DayLength           <- 1,
  WordSize            <- 1000,
  MaxLicenses         <- MaxIssued,
  MaxTouched          <- MaxBatch

(* The genesis state of x/network is one InitGenesis accepts.              *)
ASSUME NetworkGenesisAssumption ==
  /\ N!ValidParams(GenesisParams)
  /\ N!IsPartial(GenesisNodeTypes, NodeTypeIds, LicenseTypeIds)
  /\ N!IsInjectiveOn(GenesisNodeTypes)
  /\ NetworkGrants(GenesisGrants) \subseteq Admins \X N!Permissions
  /\ N!NoScope \notin NodeTypeIds
  /\ Funded \subseteq GenesisAccounts /\ GenesisAccounts \subseteq N!Address
  /\ GenesisBalance \in Nat /\ MaxTime \in Nat

(* The namespaces; the one of x/network validates no scopes.               *)
Namespaces == INSTANCE Permission WITH
  Accounts      <- Admins,
  Modules       <- Edited,
  Vocabulary    <- [m \in Edited |-> IF m = "license" THEN {"issue", "revoke", "type.create"}
                                     ELSE {"wallet.create", "nodetype.create"}],
  Unscoped      <- [m \in Edited |-> IF m = "license" THEN {"type.create"} ELSE {}],
  ScopedModules <- Edited \cap {"license"},
  Scopes        <- LicenseTypeIds,
  GenesisScopes <- [m \in Edited \cap {"license"} |-> DOMAIN GenesisTypes],
  scopes        <- [m \in Edited \cap {"license"} |-> DOMAIN licenseTypes]

-----------------------------------------------------------------------------

WebstackInit == Init /\ N!Init

LicenseStep    == UNCHANGED networkVars /\ LicenseNext
PermissionStep == UNCHANGED <<licenseVars, networkVars>> /\ Namespaces!PermissionNext

NetworkStep ==
  /\ UNCHANGED <<licenseTypes, licenses, licensesByType, activeLicensesByHolder,
                 nextLicenseID, owners, grants>>
  /\ \/ N!PaidNext
     \/ N!GaslessNext
     \/ \E node \in NodeAddresses : N!Heartbeat(node)
     \/ \E p \in ParamChoices : N!GovUpdateParams(p)
     \/ N!AdvanceTime

WebstackNext == LicenseStep \/ PermissionStep \/ NetworkStep

WebstackSpec == WebstackInit /\ [][WebstackNext]_<<vars, networkVars>>

-----------------------------------------------------------------------------

(* x/license and x/permission are an environment x/network was checked     *)
(* against: whatever they do, in batches, under any spelling of a holder   *)
(* and with any grants, is something Network expects, and what was shown   *)
(* of Network holds of the three modules together.                         *)
NetworkOverLicenses == N!Spec

(* End to end: a node comes to exist only while license records back it.   *)
(* The active records of the type its node type is bound to, issued to its *)
(* operator under the canonical spelling, bound the operator's active or   *)
(* its recently active nodes, and within spam_limit_multiplier the latter  *)
(* in any case.  No license that was revoked, is of another type or is     *)
(* held by someone else counts.                                            *)
Backing(op, type) == Cardinality(HeldBy(Canonical[op], nodeTypes[type]))

NodesOf(op, type) == {n \in DOMAIN nodes : nodes[n].operator = op /\ nodes[n].type = type}
ActiveOf(op, type) == {n \in NodesOf(op, type) : nodes[n].status = "active"}
RecentOf(op, type) == {n \in NodesOf(op, type) : nodes[n].lastActiveDay >= now - 1}

BackedByRecords(op, type) ==
  LET active == Cardinality(ActiveOf(op, type)')
      recent == Cardinality(RecentOf(op, type)')
      limit  == params.ActivationLimitMultiplier * Backing(op, type)
  IN  /\ active <= limit \/ recent <= limit
      /\ recent <= params.SpamLimitMultiplier * Backing(op, type)

ActivationBackedByRecords ==
  [][\A op \in Operators, type \in NodeTypeIds :
       NodesOf(op, type)' # NodesOf(op, type) => BackedByRecords(op, type)]_<<vars, networkVars>>
=============================================================================
