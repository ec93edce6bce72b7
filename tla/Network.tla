------------------------------- MODULE Network -------------------------------
(***************************************************************************)
(* x/network of webstack: operators authorize activation keys, keys        *)
(* activate nodes within a license-derived limit, nodes send heartbeats,   *)
(* and four of the messages travel in fee-less ("gasless") transactions    *)
(* that a daily quota admits in the ante handler.                          *)
(*                                                                         *)
(* One action is one single-message transaction of a block, one change     *)
(* made by another module (the environment), or the passing of block time. *)
(*                                                                         *)
(*   - A PAID transaction runs the message handler only.                   *)
(*   - A GASLESS transaction first runs CheckAndConsumeGaslessQuota in the *)
(*     ante handler, whose counter writes stay even if the handler then    *)
(*     fails; a handler fails on its own guards or by running out of gas,  *)
(*     so its effects are optional.                                        *)
(*                                                                         *)
(* A store map is a partial function, a store set a set.  Of a time only   *)
(* what the code compares is kept: the UTC day, except for a key's         *)
(* created_at, which is compared within recent_key_window.                 *)
(***************************************************************************)
EXTENDS ActivationLimit, FiniteSets

CONSTANTS
  \* addresses that messages name in each role; the sets may overlap
  Operators, KeyAddresses, NodeAddresses, Admins,
  Funded,              \* addresses able to pay for gas, their own or another signer's
  NodeTypeIds, LicenseTypeIds,
  ParamChoices,        \* parameter sets governance may submit
  \* the genesis state
  GenesisParams, GenesisNodeTypes, GenesisLicenses, GenesisLicenseTypes,
  GenesisGrants, GenesisAccounts, GenesisBalance,
  DayLength,           \* block-time units in one UTC day
  \* bounds of the model
  MaxTime,             \* block time stops here
  MaxLicenses,         \* licenses of one type one operator holds
  MaxTouched,          \* holdings one message of x/license issues to
  TxForms              \* forms of transaction submitted: {"paid", "gasless"} or fewer

Address == Operators \cup KeyAddresses \cup NodeAddresses \cup Admins \cup Funded

(* x/network/types/keys.go *)
Permissions  == {"wallet.create", "nodetype.create"}
KeyStatuses  == {"active", "disabled"}
NodeStatuses == {"active", "deactivated"}
NoScope      == "none"

(* Params.Validate, for the parameters the model keeps.                    *)
ValidParams(p) ==
  /\ ValidMultipliers(p)
  /\ p.MaxActivationKeys \in Nat \ {0}
  /\ p.RecentKeyLimit \in Nat \ {0}
  /\ p.RecentKeyWindow \in Nat \ {0}
  /\ p.StatusDailyLimit \in Nat \ {0}
  /\ p.DeauthorizeFee \in Nat
  /\ p.MaxGaslessMsgs \in Nat \ {0}

IsInjectiveOn(f) == \A x, y \in DOMAIN f : f[x] = f[y] => x = y

IsPartial(f, S, T) == DOMAIN f \subseteq S /\ f \in [DOMAIN f -> T]

ASSUME DayLengthAssumption == DayLength \in Nat \ {0}
ASSUME BoundAssumption     == MaxTime \in Nat /\ MaxLicenses \in Nat /\ MaxTouched \in Nat
ASSUME ScopeAssumption     == NoScope \notin NodeTypeIds
ASSUME GenesisAssumption ==
  /\ ValidParams(GenesisParams)
  /\ IsPartial(GenesisNodeTypes, NodeTypeIds, LicenseTypeIds)
  /\ IsInjectiveOn(GenesisNodeTypes)
  /\ GenesisLicenses \in [Operators -> [LicenseTypeIds -> 0 .. MaxLicenses]]
  /\ GenesisLicenseTypes \subseteq LicenseTypeIds
  /\ \A op \in Operators, lt \in LicenseTypeIds :
       GenesisLicenses[op][lt] > 0 => lt \in GenesisLicenseTypes
  /\ GenesisGrants \subseteq Admins \X Permissions
  /\ Funded \subseteq GenesisAccounts /\ GenesisAccounts \subseteq Address
  /\ GenesisBalance \in Nat

VARIABLES
  \* the keeper's collections (x/network/keeper/keeper.go)
  params,
  nodeTypes,              \* NodeTypes: node type |-> license type
  nodeTypeByLicenseType,  \* its inverse index
  activationKeys,         \* address |-> [operator, createdAt, status]
  operatorActivationKeys, \* index {<<operator, key>>}
  nodes,                  \* address |-> [operator, activatedBy, type, status, lastActiveDay]
  operatorNodes,          \* index {<<operator, node>>}
  operatorNodeCounts,     \* <<operator, type>> |-> [total, active]
  recentNodeActivity,     \* index {<<operator, type, day, node>>}
  operators,              \* the operator set
  nodeStatusCounters,     \* node |-> [day, count]
  gaslessCounters,        \* <<kind, signer, scope>> |-> [day, count]
  \* x/auth and x/bank, as far as the handlers touch them
  accounts,               \* addresses with an account
  balances,               \* spendable balance of the funded addresses
  feeCollector,           \* deauthorize fees collected
  \* x/license, x/permission and consensus: changed by the environment
  licenses,               \* operator |-> license type |-> active licenses
  licenseTypes,           \* existing license types
  grants,                 \* {<<address, permission>>}, module-wide
  now                     \* block time

registryVars == <<nodeTypes, nodeTypeByLicenseType>>
keyVars      == <<activationKeys, operatorActivationKeys>>
nodeVars     == <<nodes, operatorNodes, operatorNodeCounts, recentNodeActivity>>
quotaVars    == <<nodeStatusCounters, gaslessCounters>>
bankVars     == <<balances, feeCollector>>
envVars      == <<licenses, licenseTypes, grants, now>>

(* Everything a message handler may write, the quota counters excluded.    *)
fleetVars == <<params, registryVars, keyVars, nodeVars, operators, accounts, bankVars>>
vars      == <<fleetVars, quotaVars, envVars>>

-----------------------------------------------------------------------------
(* Stores, days and counters                                               *)

EmptyMap     == [x \in {} |-> x]
Put(f, k, v) == [x \in DOMAIN f \cup {k} |-> IF x = k THEN v ELSE f[x]]

Day(t) == t \div DayLength
Today  == Day(now)

(* The day count a counter stands for once rolled to the current day; a    *)
(* missing counter reads as the zero one.                                  *)
DailyCount(counters, k) ==
  IF k \in DOMAIN counters /\ counters[k].day = Today THEN counters[k].count ELSE 0

\* Faulty: a counter of an earlier day is incremented without the roll.
CountedWithoutRoll(counters, k) ==
  Put(counters, k,
      [day |-> Today, count |-> IF k \in DOMAIN counters THEN counters[k].count + 1 ELSE 1])
\* Faulty: the increment is lost once the counter exists for the day.
CountedOnce(counters, k) == Put(counters, k, [day |-> Today, count |-> 1])

Counted(counters, k) ==
  Put(counters, k, [day |-> Today, count |-> DailyCount(counters, k) + 1])

ActiveNode(n) == n \in DOMAIN nodes /\ nodes[n].status = "active"
ActiveKey(k)  == k \in DOMAIN activationKeys /\ activationKeys[k].status = "active"

(* countOperatorKeys: a walk over the operator's key index.                *)
KeysOf(op) == {k \in KeyAddresses : <<op, k>> \in operatorActivationKeys}
ActiveKeysOf(op) == {k \in KeysOf(op) : activationKeys[k].status = "active"}
\* Faulty: disabled keys do not count.
RecentActiveKeysOf(op) ==
  {k \in ActiveKeysOf(op) : activationKeys[k].createdAt > now - params.RecentKeyWindow}

RecentKeysOf(op) ==
  {k \in KeysOf(op) : activationKeys[k].createdAt > now - params.RecentKeyWindow}

\* Faulty: one tally shared by all node types of the operator.
NodeCountsPooled(op, type) ==
  LET pairs == {pair \in DOMAIN operatorNodeCounts : pair[1] = op}
  IN  IF pairs = {} THEN [total |-> 0, active |-> 0]
      ELSE operatorNodeCounts[CHOOSE pair \in pairs :
             \A q \in pairs : operatorNodeCounts[pair].total >= operatorNodeCounts[q].total]

(* GetOperatorNodeCounts *)
NodeCounts(op, type) ==
  IF <<op, type>> \in DOMAIN operatorNodeCounts
  THEN operatorNodeCounts[<<op, type>>]
  ELSE [total |-> 0, active |-> 0]

\* Faulty: deactivated nodes are skipped.
RecentEntriesActive(op, type) ==
  {n \in NodeAddresses : /\ ActiveNode(n)
                         /\ \E d \in {Today, Today - 1} : <<op, type, d, n>> \in recentNodeActivity}

\* Faulty: the entries of all days are walked.
RecentEntriesEver(op, type) ==
  {n \in NodeAddresses : \E d \in 0 .. Today : <<op, type, d, n>> \in recentNodeActivity}

(* CountRecentActiveNodes: the walk over today's and yesterday's prefixes. *)
RecentEntries(op, type) ==
  {n \in NodeAddresses : \E d \in {Today, Today - 1} : <<op, type, d, n>> \in recentNodeActivity}

\* Faulty: the licenses of all types count towards every node type.
PooledLicenses(op, type) ==
  Cardinality({l \in LicenseTypeIds \X (1 .. MaxLicenses) : l[2] <= licenses[op][l[1]]})

(* The operator's active licenses of the type that backs a node type.      *)
BackingLicenses(op, type) == licenses[op][nodeTypes[type]]

(* The licensing gates.  Each asks x/license for a count that stops at 1.  *)
LicensedForNodeType(op, type) ==
  /\ type \in DOMAIN nodeTypes
  /\ CountUpTo(BackingLicenses(op, type), 1) > 0

OperatorLicensed(op) ==
  \E lt \in DOMAIN nodeTypeByLicenseType : CountUpTo(licenses[op][lt], 1) > 0

\* Faulty: only an active record does.
KeyInactive(key)   == ~ActiveKey(key)
NodeInactive(node) == ~ActiveNode(node)

(* Addresses are single-use: a record of any status takes its address.     *)
KeyUnused(key)   == key \notin DOMAIN activationKeys
NodeUnused(node) == node \notin DOMAIN nodes

\* Faulty: the inverse index is not consulted.
IdFree(id, licenseType) == id \notin DOMAIN nodeTypes /\ licenseType \in licenseTypes
\* Faulty: an existing node type may be created again.
LicenseTypeFree(id, licenseType) ==
  licenseType \notin DOMAIN nodeTypeByLicenseType /\ licenseType \in licenseTypes

(* A node type binds to one existing license type, both ways once.         *)
BindingFree(id, licenseType) ==
  /\ id \notin DOMAIN nodeTypes
  /\ licenseType \notin DOMAIN nodeTypeByLicenseType
  /\ licenseType \in licenseTypes

\* Faulty: an address without an account stays without one.
LeaveAccounts(addr) == UNCHANGED accounts
CreateAccountIfNotExists(addr) == accounts' = accounts \cup {addr}

RegisterOperator(op) == operators' = operators \cup {op}

\* Faulty: the fee is not collected.
WaiveFee(op) == UNCHANGED bankVars
\* Faulty: the balance is not checked.
ChargeBlindly(op) ==
  /\ balances' = [balances EXCEPT ![op] = @ - params.DeauthorizeFee]
  /\ feeCollector' = feeCollector + params.DeauthorizeFee

(* A bank transfer to the fee collector: fails without the balance.        *)
PayDeauthorizeFee(op) ==
  /\ balances[op] >= params.DeauthorizeFee
  /\ balances' = [balances EXCEPT ![op] = @ - params.DeauthorizeFee]
  /\ feeCollector' = feeCollector + params.DeauthorizeFee

\* Faulty: the tally is forgotten.
SameCounts(op, type) == operatorNodeCounts

(* The saturating decrement of a deactivation.                             *)
OneActiveLess(op, type) ==
  Put(operatorNodeCounts, <<op, type>>,
      [NodeCounts(op, type) EXCEPT !.active = IF @ > 0 THEN @ - 1 ELSE @])

-----------------------------------------------------------------------------
(* Message handlers.  Each is the whole handler: what it changes of        *)
(* fleetVars and what it leaves alone; a refusal is a disabled handler.    *)

CreateOperatorAccount(admin, wallet) ==
  /\ <<admin, "wallet.create">> \in grants
  /\ wallet \notin accounts
  /\ CreateAccountIfNotExists(wallet)
  /\ UNCHANGED <<params, registryVars, keyVars, nodeVars, operators, bankVars>>

CreateNodeType(creator, id, licenseType) ==
  /\ <<creator, "nodetype.create">> \in grants
  /\ BindingFree(id, licenseType)
  /\ nodeTypes' = Put(nodeTypes, id, licenseType)
  /\ nodeTypeByLicenseType' = Put(nodeTypeByLicenseType, licenseType, id)
  /\ UNCHANGED <<params, keyVars, nodeVars, operators, accounts, bankVars>>

AuthorizeActivationKey(op, key) ==
  /\ key # op
  /\ KeyUnused(key)
  /\ Cardinality(ActiveKeysOf(op)) < params.MaxActivationKeys
  /\ Cardinality(RecentKeysOf(op)) < params.RecentKeyLimit
  /\ activationKeys' =
       Put(activationKeys, key, [operator |-> op, createdAt |-> now, status |-> "active"])
  /\ operatorActivationKeys' = operatorActivationKeys \cup {<<op, key>>}
  /\ RegisterOperator(op)
  /\ CreateAccountIfNotExists(key)
  /\ UNCHANGED <<params, registryVars, nodeVars, bankVars>>

DeauthorizeActivationKey(op, key) ==
  /\ ActiveKey(key)
  /\ activationKeys[key].operator = op
  /\ PayDeauthorizeFee(op)
  /\ activationKeys' = [activationKeys EXCEPT ![key].status = "disabled"]
  /\ UNCHANGED <<params, registryVars, operatorActivationKeys, nodeVars, operators, accounts>>

ActivateNode(key, op, node, type) ==
  LET counts  == NodeCounts(op, type)
      recent  == Cardinality(RecentEntries(op, type))
  IN  /\ ActiveKey(key)
      /\ activationKeys[key].operator = op
      /\ type \in DOMAIN nodeTypes
      /\ NodeUnused(node)
      /\ BoundedVerdict(params, counts.total, counts.active, recent,
                        BackingLicenses(op, type)) = "Allow"
      /\ nodes' = Put(nodes, node,
           [operator |-> op, activatedBy |-> key, type |-> type,
            status |-> "active", lastActiveDay |-> Today])
      /\ operatorNodes' = operatorNodes \cup {<<op, node>>}
      /\ recentNodeActivity' = recentNodeActivity \cup {<<op, type, Today, node>>}
      /\ operatorNodeCounts' = Put(operatorNodeCounts, <<op, type>>,
           [total |-> counts.total + 1, active |-> counts.active + 1])
      /\ RegisterOperator(op)
      /\ CreateAccountIfNotExists(node)
      /\ UNCHANGED <<params, registryVars, keyVars, bankVars>>

(* The operator and the node itself always may; the key that activated the *)
(* node only while it is active.                                           *)
DeactivateSigner(node, signer) ==
  \/ signer \in {nodes[node].operator, node}
  \/ signer = nodes[node].activatedBy /\ ActiveKey(signer)

DeactivateNode(signer, node) ==
  /\ ActiveNode(node)
  /\ DeactivateSigner(node, signer)
  /\ nodes' = [nodes EXCEPT ![node].status = "deactivated"]
  /\ operatorNodeCounts' = OneActiveLess(nodes[node].operator, nodes[node].type)
  /\ UNCHANGED <<params, registryVars, keyVars, operatorNodes, recentNodeActivity,
                 operators, accounts, bankVars>>

\* Faulty: the entry of the earlier day stays.
TouchKeepingEntry(node) ==
  /\ recentNodeActivity' = recentNodeActivity
       \cup {<<nodes[node].operator, nodes[node].type, Today, node>>}
  /\ nodes' = [nodes EXCEPT ![node].lastActiveDay = Today]

(* The single index entry moves to today's bucket with last_active_time.   *)
TouchNodeActivity(node) ==
  LET r == nodes[node]
  IN  /\ recentNodeActivity' =
           IF r.lastActiveDay = Today THEN recentNodeActivity
           ELSE (recentNodeActivity \ {<<r.operator, r.type, r.lastActiveDay, node>>})
                  \cup {<<r.operator, r.type, Today, node>>}
      /\ nodes' = [nodes EXCEPT ![node].lastActiveDay = Today]

\* Faulty: a strict comparison.
StatusUnderLimit(node, counters) == DailyCount(counters, node) < params.StatusDailyLimit

(* `counters` are the status counters the handler reads: in a gasless      *)
(* transaction the ones admission has just written.                        *)
StatusNotOverLimit(node, counters) == DailyCount(counters, node) <= params.StatusDailyLimit

UpdateNodeStatus(node, counters) ==
  /\ ActiveNode(node)
  /\ StatusNotOverLimit(node, counters)
  /\ TouchNodeActivity(node)
  /\ UNCHANGED <<params, registryVars, keyVars, operatorNodes, operatorNodeCounts,
                 operators, accounts, bankVars>>

UpdateParams(p) ==
  /\ ValidParams(p)
  /\ params' = p
  /\ UNCHANGED <<registryVars, keyVars, nodeVars, operators, accounts, bankVars>>

-----------------------------------------------------------------------------
(* Ante admission (admission.go): standing checks, then the roll and       *)
(* increment of one daily counter, written only while within its limit.    *)

ConsumeGaslessCounter(kind, signer, limit) ==
  /\ DailyCount(gaslessCounters, <<kind, signer, NoScope>>) + 1 <= limit
  /\ gaslessCounters' = Counted(gaslessCounters, <<kind, signer, NoScope>>)
  /\ UNCHANGED nodeStatusCounters

AdmitAuthorize(op) ==
  /\ OperatorLicensed(op)
  /\ ConsumeGaslessCounter("authorize", op, params.RecentKeyLimit)

AdmitActivate(key, op, type) ==
  LET counter == <<"activate", key, type>>
  IN  /\ ActiveKey(key)
      /\ activationKeys[key].operator = op
      /\ LicensedForNodeType(op, type)
      /\ WithinActivateQuota(params, DailyCount(gaslessCounters, counter) + 1,
                             BackingLicenses(op, type))
      /\ gaslessCounters' = Counted(gaslessCounters, counter)
      /\ UNCHANGED nodeStatusCounters

\* Faulty: the operator must still be licensed.
LicensedDeactivateSigner(node, signer) ==
  /\ signer \in {nodes[node].operator, node}
  /\ LicensedForNodeType(nodes[node].operator, nodes[node].type)

\* Faulty: the activating key may, disabled or not.
DeactivateSignerEver(node, signer) ==
  signer \in {nodes[node].operator, node, nodes[node].activatedBy}

(* checkDeactivateSigner, which mirrors the handler's signer rule.         *)
AdmittedDeactivateSigner(node, signer) ==
  \/ signer \in {nodes[node].operator, node}
  \/ signer = nodes[node].activatedBy /\ ActiveKey(signer)

AdmitDeactivate(signer, node) ==
  /\ ActiveNode(node)
  /\ AdmittedDeactivateSigner(node, signer)
  /\ ConsumeGaslessCounter("deactivate", signer, params.StatusDailyLimit)

\* Faulty: the license is never looked at.
AdmittedStatusUnlicensed(node) ==
  /\ ActiveNode(node)
  /\ DailyCount(nodeStatusCounters, node) + 1 <= params.StatusDailyLimit

(* The license is looked at on the first counted heartbeat of a day only.  *)
AdmittedStatus(node) ==
  LET spent == DailyCount(nodeStatusCounters, node)
  IN  /\ ActiveNode(node)
      /\ spent = 0 => LicensedForNodeType(nodes[node].operator, nodes[node].type)
      /\ spent + 1 <= params.StatusDailyLimit

AdmitStatus(node) ==
  /\ AdmittedStatus(node)
  /\ nodeStatusCounters' = Counted(nodeStatusCounters, node)
  /\ UNCHANGED gaslessCounters

-----------------------------------------------------------------------------
(* Transactions.  The signer of either kind needs an account to pass       *)
(* signature verification.  The fee of a paid one is the fee payer's:      *)
(* DeductFeeDecorator charges the first signer or, if the transaction      *)
(* names one, a signer of no message that signs along.                     *)

CanPay(signer)    == "paid" \in TxForms /\ Funded # {} /\ signer \in accounts
CanSubmit(signer) == "gasless" \in TxForms /\ signer \in accounts

PaidCreateOperatorAccount(admin, wallet) ==
  CanPay(admin) /\ CreateOperatorAccount(admin, wallet) /\ UNCHANGED <<quotaVars, envVars>>

PaidCreateNodeType(creator, id, lt) ==
  CanPay(creator) /\ CreateNodeType(creator, id, lt) /\ UNCHANGED <<quotaVars, envVars>>

PaidAuthorize(op, key) ==
  CanPay(op) /\ AuthorizeActivationKey(op, key) /\ UNCHANGED <<quotaVars, envVars>>

PaidDeauthorize(op, key) ==
  CanPay(op) /\ DeauthorizeActivationKey(op, key) /\ UNCHANGED <<quotaVars, envVars>>

PaidActivate(key, op, node, type) ==
  CanPay(key) /\ ActivateNode(key, op, node, type) /\ UNCHANGED <<quotaVars, envVars>>

PaidDeactivate(signer, node) ==
  CanPay(signer) /\ DeactivateNode(signer, node) /\ UNCHANGED <<quotaVars, envVars>>

PaidStatus(node) ==
  /\ CanPay(node)
  /\ UpdateNodeStatus(node, nodeStatusCounters)
  /\ UNCHANGED <<quotaVars, envVars>>

(* A gasless transaction: what ValidateBasic refuses never reaches         *)
(* admission; `ok` says whether the handler then got through.              *)
GaslessAuthorize(op, key, ok) ==
  /\ CanSubmit(op) /\ key # op
  /\ AdmitAuthorize(op)
  /\ IF ok THEN AuthorizeActivationKey(op, key) ELSE UNCHANGED fleetVars
  /\ UNCHANGED envVars

GaslessActivate(key, op, node, type, ok) ==
  /\ CanSubmit(key)
  /\ AdmitActivate(key, op, type)
  /\ IF ok THEN ActivateNode(key, op, node, type) ELSE UNCHANGED fleetVars
  /\ UNCHANGED envVars

GaslessDeactivate(signer, node, ok) ==
  /\ CanSubmit(signer)
  /\ AdmitDeactivate(signer, node)
  /\ IF ok THEN DeactivateNode(signer, node) ELSE UNCHANGED fleetVars
  /\ UNCHANGED envVars

GaslessStatus(node, ok) ==
  /\ CanSubmit(node)
  /\ AdmitStatus(node)
  /\ IF ok THEN UpdateNodeStatus(node, nodeStatusCounters') ELSE UNCHANGED fleetVars
  /\ UNCHANGED envVars

(* A governance proposal's MsgUpdateParams: the signer is the authority.   *)
GovUpdateParams(p) == UpdateParams(p) /\ UNCHANGED <<quotaVars, envVars>>

-----------------------------------------------------------------------------
(* The environment: the other modules and consensus.                       *)

(* x/license issues a batch: licenses counted per holding, none where the  *)
(* holder was spelled in a way x/network does not look up.  The account of *)
(* every holder named comes to exist.                                      *)
Batches ==
  UNION {[touched -> 0 .. MaxLicenses] :
           touched \in {holdings \in SUBSET (Operators \X LicenseTypeIds) :
                          Cardinality(holdings) <= MaxTouched}}

Issued(batch, op, lt) == IF <<op, lt>> \in DOMAIN batch THEN batch[<<op, lt>>] ELSE 0

IssueLicenses(batch) ==
  /\ \A holding \in DOMAIN batch :
       /\ holding[2] \in licenseTypes
       /\ licenses[holding[1]][holding[2]] + batch[holding] <= MaxLicenses
  /\ licenses' = [op \in Operators |->
       [lt \in LicenseTypeIds |-> licenses[op][lt] + Issued(batch, op, lt)]]
  /\ accounts' = accounts \cup {holding[1] : holding \in DOMAIN batch}
  /\ UNCHANGED <<params, registryVars, keyVars, nodeVars, operators, bankVars,
                 quotaVars, licenseTypes, grants, now>>

RevokeLicenses(op, lt, count) ==
  /\ lt \in licenseTypes
  /\ licenses[op][lt] >= count
  /\ licenses' = [licenses EXCEPT ![op][lt] = @ - count]
  /\ UNCHANGED <<fleetVars, quotaVars, licenseTypes, grants, now>>

CreateLicenseType(lt) ==
  /\ lt \notin licenseTypes
  /\ licenseTypes' = licenseTypes \cup {lt}
  /\ UNCHANGED <<fleetVars, quotaVars, licenses, grants, now>>

(* x/permission edits the module-wide grants of the namespace.             *)
ChangeGrants(new) ==
  /\ grants' = new
  /\ UNCHANGED <<fleetVars, quotaVars, licenses, licenseTypes, now>>

(* Block time moves on.                                                    *)
AdvanceTime ==
  /\ now < MaxTime
  /\ now' = now + 1
  /\ UNCHANGED <<fleetVars, quotaVars, licenses, licenseTypes, grants>>

-----------------------------------------------------------------------------

(* The state InitGenesis leaves for a chain that starts without nodes: the *)
(* clock is past the first day, as it is on any chain started after 1970.  *)
Init ==
  /\ params = GenesisParams
  /\ nodeTypes = GenesisNodeTypes
  /\ nodeTypeByLicenseType =
       [lt \in {GenesisNodeTypes[t] : t \in DOMAIN GenesisNodeTypes} |->
          CHOOSE t \in DOMAIN GenesisNodeTypes : GenesisNodeTypes[t] = lt]
  /\ activationKeys = EmptyMap
  /\ operatorActivationKeys = {}
  /\ nodes = EmptyMap
  /\ operatorNodes = {}
  /\ operatorNodeCounts = EmptyMap
  /\ recentNodeActivity = {}
  /\ operators = {}
  /\ nodeStatusCounters = EmptyMap
  /\ gaslessCounters = EmptyMap
  /\ accounts = GenesisAccounts
  /\ balances = [a \in Address |-> IF a \in Funded THEN GenesisBalance ELSE 0]
  /\ feeCollector = 0
  /\ licenses = GenesisLicenses
  /\ licenseTypes = GenesisLicenseTypes
  /\ grants = GenesisGrants
  /\ now = DayLength

PaidNext ==
  \/ \E admin \in Admins, wallet \in Address : PaidCreateOperatorAccount(admin, wallet)
  \/ \E creator \in Admins, id \in NodeTypeIds, lt \in LicenseTypeIds :
       PaidCreateNodeType(creator, id, lt)
  \/ \E op \in Operators, key \in KeyAddresses :
       PaidAuthorize(op, key) \/ PaidDeauthorize(op, key)
  \/ \E key \in KeyAddresses, op \in Operators, node \in NodeAddresses, type \in NodeTypeIds :
       PaidActivate(key, op, node, type)
  \/ \E signer \in Address, node \in NodeAddresses : PaidDeactivate(signer, node)

GaslessNext ==
  \E ok \in BOOLEAN :
    \/ \E op \in Operators, key \in KeyAddresses : GaslessAuthorize(op, key, ok)
    \/ \E key \in KeyAddresses, op \in Operators, node \in NodeAddresses, type \in NodeTypeIds :
         GaslessActivate(key, op, node, type, ok)
    \/ \E signer \in Address, node \in NodeAddresses : GaslessDeactivate(signer, node, ok)
    \/ \E node \in NodeAddresses : ~ok /\ GaslessStatus(node, ok)

(* A heartbeat is accepted, in either form of transaction.                 *)
Heartbeat(node) == PaidStatus(node) \/ GaslessStatus(node, TRUE)

EnvNext ==
  \/ \E new \in SUBSET (Admins \X Permissions) : ChangeGrants(new)
  \/ \E p \in ParamChoices : GovUpdateParams(p)
  \/ AdvanceTime
  \/ \E lt \in LicenseTypeIds : CreateLicenseType(lt)
  \/ \E op \in Operators, lt \in LicenseTypeIds, count \in 1 .. MaxLicenses :
       RevokeLicenses(op, lt, count)
  \/ \E batch \in Batches : IssueLicenses(batch)

QuietNext == EnvNext \/ PaidNext \/ GaslessNext
Next      == QuietNext \/ \E node \in NodeAddresses : Heartbeat(node)

Spec == Init /\ [][Next]_vars

-----------------------------------------------------------------------------
(* The shapes of the collections, as proto/network/v1 declares them.       *)

KeyType     == [operator: Operators, createdAt: Nat, status: KeyStatuses]
NodeType    == [operator: Operators, activatedBy: KeyAddresses, type: NodeTypeIds,
                status: NodeStatuses, lastActiveDay: Nat]
CountsType  == [total: Nat, active: Nat]
CounterType == [day: Nat, count: Nat \ {0}]
QuotaKeys   == ({"authorize"} \X Operators \X {NoScope})
                 \cup ({"activate"} \X KeyAddresses \X NodeTypeIds)
                 \cup ({"deactivate"} \X Address \X {NoScope})

TypeOK ==
  /\ ValidParams(params)
  /\ IsPartial(nodeTypes, NodeTypeIds, LicenseTypeIds)
  /\ IsPartial(nodeTypeByLicenseType, LicenseTypeIds, NodeTypeIds)
  /\ IsPartial(activationKeys, KeyAddresses, KeyType)
  /\ operatorActivationKeys \subseteq Operators \X KeyAddresses
  /\ IsPartial(nodes, NodeAddresses, NodeType)
  /\ operatorNodes \subseteq Operators \X NodeAddresses
  /\ IsPartial(operatorNodeCounts, Operators \X NodeTypeIds, CountsType)
  /\ recentNodeActivity \subseteq Operators \X NodeTypeIds \X Nat \X NodeAddresses
  /\ operators \subseteq Operators
  /\ IsPartial(nodeStatusCounters, NodeAddresses, CounterType)
  /\ IsPartial(gaslessCounters, QuotaKeys, CounterType)
  /\ accounts \subseteq Address
  /\ balances \in [Address -> Nat]
  /\ feeCollector \in Nat
  /\ licenses \in [Operators -> [LicenseTypeIds -> Nat]]
  /\ licenseTypes \subseteq LicenseTypeIds
  /\ grants \subseteq Admins \X Permissions
  /\ now \in Nat
=============================================================================
