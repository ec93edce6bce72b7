------------------------ MODULE NetworkRecordsProofs ------------------------
(***************************************************************************)
(* Proofs about the records of x/network and what is derived from them:    *)
(* the export re-imports to the same state, keys are created at a bounded  *)
(* rate, and disabling one costs the fee.                                  *)
(***************************************************************************)
EXTENDS NetworkProofs

-----------------------------------------------------------------------------
(* Export and import                                                       *)

(* The indexes over keys, and the node type map with its inverse.          *)
KeyIndexExact == operatorActivationKeys = RebuiltOperatorKeys

KeysForeign == \A k \in DOMAIN activationKeys : activationKeys[k].operator # k

BindingsInverse ==
  \A lt \in LicenseTypeIds, t \in NodeTypeIds :
    (lt \in DOMAIN nodeTypeByLicenseType /\ nodeTypeByLicenseType[lt] = t)
      <=> (t \in DOMAIN nodeTypes /\ nodeTypes[t] = lt)

(* The node records point to records that exist.                           *)
NodesReferTo ==
  \A n \in DOMAIN nodes :
    /\ nodes[n].type \in DOMAIN nodeTypes
    /\ nodes[n].activatedBy \in DOMAIN activationKeys
    /\ activationKeys[nodes[n].activatedBy].operator = nodes[n].operator

NodeIndexExact ==
  /\ operatorNodes = RebuiltOperatorNodes
  /\ DOMAIN operatorNodeCounts = {<<nodes[n].operator, nodes[n].type>> : n \in DOMAIN nodes}

OperatorsExact == operators = RebuiltOperators

CountersOfNodes == DOMAIN nodeStatusCounters \subseteq DOMAIN nodes

-----------------------------------------------------------------------------

(* The key records change by an authorization or a deauthorization.        *)
KeyStep ==
  \/ \E op \in Operators, key \in KeyAddresses : AuthorizeActivationKey(op, key)
  \/ \E op \in Operators, key \in KeyAddresses : DeauthorizeActivationKey(op, key)

LEMMA KeySplits ==
  ASSUME FleetStep
  PROVE  KeyStep \/ UNCHANGED keyVars
<1>1. CASE \E admin \in Admins, wallet \in Address : CreateOperatorAccount(admin, wallet)
  BY <1>1 DEF CreateOperatorAccount
<1>2. CASE \E creator \in Admins, id \in NodeTypeIds, lt \in LicenseTypeIds :
              CreateNodeType(creator, id, lt)
  BY <1>2 DEF CreateNodeType
<1>3. CASE \E key \in KeyAddresses, op \in Operators, node \in NodeAddresses,
              type \in NodeTypeIds : ActivateNode(key, op, node, type)
  BY <1>3 DEF ActivateNode
<1>4. CASE \E signer \in Address, node \in NodeAddresses : DeactivateNode(signer, node)
  BY <1>4 DEF DeactivateNode
<1>5. CASE \E node \in NodeAddresses : HeartbeatStep(node)
  BY <1>5 DEF HeartbeatStep
<1>6. CASE \E p \in ParamChoices : UpdateParams(p)
  BY <1>6 DEF UpdateParams
<1>7. CASE \E holders \in SUBSET Operators : NewHolders(holders)
  BY <1>7 DEF NewHolders
<1>8. CASE UNCHANGED fleetVars
  BY <1>8 DEF fleetVars
<1> QED
  BY <1>1, <1>2, <1>3, <1>4, <1>5, <1>6, <1>7, <1>8 DEF FleetStep, KeyStep

LEMMA AuthorizationWrites ==
  ASSUME TypeOK, NEW op \in Operators, NEW key \in KeyAddresses, AuthorizeActivationKey(op, key)
  PROVE  /\ key \notin DOMAIN activationKeys /\ key # op
         /\ DOMAIN activationKeys' = DOMAIN activationKeys \cup {key}
         /\ \A k \in DOMAIN activationKeys : activationKeys'[k] = activationKeys[k]
         /\ activationKeys'[key].operator = op
         /\ activationKeys'[key].createdAt = now
         /\ activationKeys'[key].status = "active"
         /\ operatorActivationKeys' = operatorActivationKeys \cup {<<op, key>>}
<1> DEFINE r == [operator |-> op, createdAt |-> now, status |-> "active"]
<1>1. activationKeys' = Put(activationKeys, key, r) /\ key \notin DOMAIN activationKeys
  BY DEF AuthorizeActivationKey, KeyUnused
<1>2. r.operator = op /\ r.createdAt = now /\ r.status = "active"
  OBVIOUS
<1> HIDE DEF r
<1> QED
  BY <1>1, <1>2 DEF AuthorizeActivationKey, Put

LEMMA DeauthorizationWrites ==
  ASSUME TypeOK, NEW op \in Operators, NEW key \in KeyAddresses, DeauthorizeActivationKey(op, key)
  PROVE  /\ key \in DOMAIN activationKeys /\ activationKeys[key].operator = op
         /\ activationKeys[key].status = "active"
         /\ DOMAIN activationKeys' = DOMAIN activationKeys
         /\ \A k \in DOMAIN activationKeys :
              /\ k # key => activationKeys'[k] = activationKeys[k]
              /\ activationKeys'[k].operator = activationKeys[k].operator
              /\ activationKeys'[k].createdAt = activationKeys[k].createdAt
         /\ activationKeys'[key].status = "disabled"
         /\ operatorActivationKeys' = operatorActivationKeys
<1>1. IsPartial(activationKeys, KeyAddresses, KeyType)
  BY DEF TypeOK
<1> QED
  BY <1>1 DEF DeauthorizeActivationKey, ActiveKey, IsPartial, KeyType

LEMMA KeyIndexStep ==
  TypeOK /\ KeyIndexExact /\ KeysForeign /\ StoreStep => KeyIndexExact' /\ KeysForeign'
<1> SUFFICES ASSUME TypeOK, KeyIndexExact, KeysForeign, StoreStep
             PROVE  KeyIndexExact' /\ KeysForeign'
  OBVIOUS
<1> USE DEF KeyIndexExact, KeysForeign, RebuiltOperatorKeys
<1>1. CASE UNCHANGED keyVars
  BY <1>1 DEF keyVars
<1>2. CASE \E op \in Operators, key \in KeyAddresses : AuthorizeActivationKey(op, key)
  <2>1. PICK op \in Operators, key \in KeyAddresses : AuthorizeActivationKey(op, key)
    BY <1>2
  <2>2. /\ key \notin DOMAIN activationKeys /\ key # op
        /\ DOMAIN activationKeys' = DOMAIN activationKeys \cup {key}
        /\ \A k \in DOMAIN activationKeys : activationKeys'[k] = activationKeys[k]
        /\ activationKeys'[key].operator = op
        /\ operatorActivationKeys' = operatorActivationKeys \cup {<<op, key>>}
    BY <2>1, AuthorizationWrites
  <2> QED
    BY <2>2
<1>3. CASE \E op \in Operators, key \in KeyAddresses : DeauthorizeActivationKey(op, key)
  BY <1>3, DeauthorizationWrites
<1> QED
  BY <1>1, <1>2, <1>3, StepSplits, KeySplits DEF KeyStep

(* Operators are entered by the first key and by every activation.         *)
LEMMA OperatorsStep ==
  TypeOK /\ OperatorsExact /\ StoreStep => OperatorsExact'
<1> SUFFICES ASSUME TypeOK, OperatorsExact, StoreStep PROVE OperatorsExact'
  OBVIOUS
<1> USE DEF OperatorsExact, RebuiltOperators
<1>1. CASE \E op \in Operators, key \in KeyAddresses : AuthorizeActivationKey(op, key)
  <2>1. PICK op \in Operators, key \in KeyAddresses : AuthorizeActivationKey(op, key)
    BY <1>1
  <2>2. operators' = operators \cup {op} /\ nodes' = nodes
    BY <2>1 DEF AuthorizeActivationKey, RegisterOperator, nodeVars
  <2>3. /\ DOMAIN activationKeys' = DOMAIN activationKeys \cup {key}
        /\ \A k \in DOMAIN activationKeys : activationKeys'[k] = activationKeys[k]
        /\ activationKeys'[key].operator = op
    BY ONLY TypeOK, <2>1, AuthorizationWrites
  <2> QED
    BY ONLY OperatorsExact, <2>2, <2>3 DEF OperatorsExact, RebuiltOperators
<1>2. CASE \E op \in Operators, key \in KeyAddresses : DeauthorizeActivationKey(op, key)
  <2>1. operators' = operators /\ nodes' = nodes
    BY <1>2 DEF DeauthorizeActivationKey, nodeVars
  <2> QED
    BY <1>2, <2>1, DeauthorizationWrites
<1>3. CASE \E key \in KeyAddresses, op \in Operators, node \in NodeAddresses,
              type \in NodeTypeIds : ActivateNode(key, op, node, type)
  <2>1. PICK key \in KeyAddresses, op \in Operators, node \in NodeAddresses,
             type \in NodeTypeIds : ActivateNode(key, op, node, type)
    BY <1>3
  <2>2. operators' = operators \cup {op} /\ activationKeys' = activationKeys
    BY <2>1 DEF ActivateNode, RegisterOperator, keyVars
  <2>3. /\ DOMAIN nodes' = DOMAIN nodes \cup {node}
        /\ \A n \in DOMAIN nodes : nodes'[n] = nodes[n]
        /\ nodes'[node].operator = op
    BY ONLY TypeOK, <2>1, ActivationWrites
  <2> QED
    BY ONLY OperatorsExact, <2>2, <2>3 DEF OperatorsExact, RebuiltOperators
<1>4. CASE \E signer \in Address, node \in NodeAddresses : DeactivateNode(signer, node)
  <2>1. PICK signer \in Address, node \in NodeAddresses : DeactivateNode(signer, node)
    BY <1>4
  <2>2. operators' = operators /\ activationKeys' = activationKeys
    BY <2>1 DEF DeactivateNode, keyVars
  <2>3. /\ node \in DOMAIN nodes /\ DOMAIN nodes' = DOMAIN nodes
        /\ \A n \in DOMAIN nodes : n # node => nodes'[n] = nodes[n]
        /\ nodes'[node].operator = nodes[node].operator
    BY <2>1, DeactivationWrites
  <2> QED
    BY <2>2, <2>3
<1>5. CASE \E node \in NodeAddresses : HeartbeatStep(node)
  <2>1. PICK node \in NodeAddresses : HeartbeatStep(node)
    BY <1>5
  <2>2. operators' = operators /\ activationKeys' = activationKeys
    BY <2>1 DEF HeartbeatStep, keyVars
  <2>3. /\ node \in DOMAIN nodes /\ DOMAIN nodes' = DOMAIN nodes
        /\ \A n \in DOMAIN nodes : n # node => nodes'[n] = nodes[n]
        /\ nodes'[node].operator = nodes[node].operator
    BY <2>1, HeartbeatWrites
  <2> QED
    BY <2>2, <2>3
<1>6. CASE \/ \E admin \in Admins, wallet \in Address : CreateOperatorAccount(admin, wallet)
           \/ \E creator \in Admins, id \in NodeTypeIds, lt \in LicenseTypeIds :
                CreateNodeType(creator, id, lt)
           \/ \E p \in ParamChoices : UpdateParams(p)
           \/ \E holders \in SUBSET Operators : NewHolders(holders)
           \/ UNCHANGED fleetVars
  <2>1. operators' = operators /\ nodes' = nodes /\ activationKeys' = activationKeys
    BY <1>6 DEF CreateOperatorAccount, CreateNodeType, UpdateParams, NewHolders, fleetVars,
                keyVars, nodeVars
  <2> QED
    BY <2>1
<1> QED
  BY <1>1, <1>2, <1>3, <1>4, <1>5, <1>6, StepSplits DEF FleetStep

LEMMA BindingsStep ==
  TypeOK /\ BindingsInverse /\ StoreStep => BindingsInverse'
<1> SUFFICES ASSUME TypeOK, BindingsInverse, StoreStep PROVE BindingsInverse'
  OBVIOUS
<1> USE DEF BindingsInverse
<1>1. CASE \E creator \in Admins, id \in NodeTypeIds, lt \in LicenseTypeIds :
             CreateNodeType(creator, id, lt)
  <2>1. PICK creator \in Admins, id \in NodeTypeIds, lt \in LicenseTypeIds :
          CreateNodeType(creator, id, lt)
    BY <1>1
  <2>2. /\ id \notin DOMAIN nodeTypes /\ lt \notin DOMAIN nodeTypeByLicenseType
        /\ nodeTypes' = Put(nodeTypes, id, lt)
        /\ nodeTypeByLicenseType' = Put(nodeTypeByLicenseType, lt, id)
    BY <2>1 DEF CreateNodeType, BindingFree
  <2> QED
    BY <2>2 DEF Put
<1>2. CASE ~ \E creator \in Admins, id \in NodeTypeIds, lt \in LicenseTypeIds :
               CreateNodeType(creator, id, lt)
  <2>1. UNCHANGED registryVars
    BY <1>2, StepSplits DEF FleetStep, CreateOperatorAccount, AuthorizeActivationKey,
       DeauthorizeActivationKey, ActivateNode, DeactivateNode, HeartbeatStep, UpdateParams,
       NewHolders, fleetVars
  <2> QED
    BY <2>1 DEF registryVars
<1> QED
  BY <1>1, <1>2

LEMMA NodeIndexStep ==
  TypeOK /\ NodeIndexExact /\ StoreStep => NodeIndexExact'
<1> SUFFICES ASSUME TypeOK, NodeIndexExact, StoreStep PROVE NodeIndexExact'
  OBVIOUS
<1> USE DEF NodeIndexExact, RebuiltOperatorNodes
<1>1. CASE UNCHANGED nodeVars
  BY <1>1 DEF nodeVars
<1>2. CASE \E key \in KeyAddresses, op \in Operators, node \in NodeAddresses,
              type \in NodeTypeIds : ActivateNode(key, op, node, type)
  <2>1. PICK key \in KeyAddresses, op \in Operators, node \in NodeAddresses,
             type \in NodeTypeIds : ActivateNode(key, op, node, type)
    BY <1>2
  <2>2. /\ operatorNodes' = operatorNodes \cup {<<op, node>>}
        /\ DOMAIN operatorNodeCounts' = DOMAIN operatorNodeCounts \cup {<<op, type>>}
    BY <2>1 DEF ActivateNode, Put
  <2>3. /\ DOMAIN nodes' = DOMAIN nodes \cup {node}
        /\ node \notin DOMAIN nodes
        /\ \A n \in DOMAIN nodes : nodes'[n] = nodes[n]
        /\ nodes'[node].operator = op /\ nodes'[node].type = type
    BY ONLY TypeOK, <2>1, ActivationWrites
  <2> QED
    BY <2>2, <2>3
<1>3. CASE \E signer \in Address, node \in NodeAddresses : DeactivateNode(signer, node)
  <2>1. PICK signer \in Address, node \in NodeAddresses : DeactivateNode(signer, node)
    BY <1>3
  <2>2. /\ operatorNodes' = operatorNodes
        /\ DOMAIN operatorNodeCounts' =
             DOMAIN operatorNodeCounts \cup {<<nodes[node].operator, nodes[node].type>>}
    BY <2>1 DEF DeactivateNode, OneActiveLess, Put
  <2>3. /\ node \in DOMAIN nodes /\ DOMAIN nodes' = DOMAIN nodes
        /\ \A n \in DOMAIN nodes : n # node => nodes'[n] = nodes[n]
        /\ nodes'[node].operator = nodes[node].operator
        /\ nodes'[node].type = nodes[node].type
    BY <2>1, DeactivationWrites
  <2> QED
    BY <2>2, <2>3
<1>4. CASE \E node \in NodeAddresses : HeartbeatStep(node)
  <2>1. PICK node \in NodeAddresses : HeartbeatStep(node)
    BY <1>4
  <2>2. operatorNodes' = operatorNodes /\ operatorNodeCounts' = operatorNodeCounts
    BY <2>1 DEF HeartbeatStep
  <2>3. /\ node \in DOMAIN nodes /\ DOMAIN nodes' = DOMAIN nodes
        /\ \A n \in DOMAIN nodes : n # node => nodes'[n] = nodes[n]
        /\ nodes'[node].operator = nodes[node].operator
        /\ nodes'[node].type = nodes[node].type
    BY <2>1, HeartbeatWrites
  <2> QED
    BY <2>2, <2>3
<1> QED
  BY <1>1, <1>2, <1>3, <1>4, NodeSplits DEF NodeStep

(* What nodes and counters refer to is never removed or rebound.           *)
LEMMA ReferencesStep ==
  TypeOK /\ NodesReferTo /\ CountersOfNodes /\ DaysPast /\ StoreStep
    => NodesReferTo' /\ CountersOfNodes'
<1> SUFFICES ASSUME TypeOK, NodesReferTo, CountersOfNodes, DaysPast, StoreStep
             PROVE  NodesReferTo' /\ CountersOfNodes'
  OBVIOUS
<1>1. /\ \A k \in DOMAIN activationKeys :
           k \in DOMAIN activationKeys' /\ activationKeys'[k].operator = activationKeys[k].operator
      /\ \A t \in DOMAIN nodeTypes : t \in DOMAIN nodeTypes'
  BY KeysAndTypesKept DEF KeyRecordKept, BindingKept
<1>2. \A n \in DOMAIN nodes :
        /\ n \in DOMAIN nodes'
        /\ nodes'[n].operator = nodes[n].operator
        /\ nodes'[n].activatedBy = nodes[n].activatedBy
        /\ nodes'[n].type = nodes[n].type
  BY NodesKept DEF NodeRecordKept
<1>3. \A n \in DOMAIN nodes' : n \in DOMAIN nodes \/
        /\ nodes'[n].type \in DOMAIN nodeTypes
        /\ nodes'[n].activatedBy \in DOMAIN activationKeys
        /\ activationKeys[nodes'[n].activatedBy].operator = nodes'[n].operator
  <2>1. CASE UNCHANGED nodeVars
    BY <2>1 DEF nodeVars
  <2>2. CASE \E key \in KeyAddresses, op \in Operators, node \in NodeAddresses,
                type \in NodeTypeIds : ActivateNode(key, op, node, type)
    <3>1. PICK key \in KeyAddresses, op \in Operators, node \in NodeAddresses,
               type \in NodeTypeIds : ActivateNode(key, op, node, type)
      BY <2>2
    <3>2. /\ key \in DOMAIN activationKeys /\ activationKeys[key].operator = op
          /\ type \in DOMAIN nodeTypes
      BY <3>1 DEF ActivateNode, ActiveKey
    <3>3. /\ DOMAIN nodes' = DOMAIN nodes \cup {node}
          /\ nodes'[node].operator = op /\ nodes'[node].activatedBy = key
          /\ nodes'[node].type = type
      BY ONLY TypeOK, <3>1, ActivationWrites
    <3> QED
      BY ONLY <3>2, <3>3
  <2>3. CASE \E signer \in Address, node \in NodeAddresses : DeactivateNode(signer, node)
    BY <2>3, DeactivationWrites
  <2>4. CASE \E node \in NodeAddresses : HeartbeatStep(node)
    BY <2>4, HeartbeatWrites
  <2> QED
    BY <2>1, <2>2, <2>3, <2>4, NodeSplits DEF NodeStep
<1>4. NodesReferTo'
  BY <1>1, <1>2, <1>3 DEF NodesReferTo
<1>5. CountersOfNodes'
  <2>1. DOMAIN nodeStatusCounters' \subseteq DOMAIN nodes
    BY StepSplits DEF QuotaStep, CountersOfNodes, Counted, Put, ActiveNode, quotaVars
  <2> QED
    BY <1>2, <2>1 DEF CountersOfNodes
<1> QED
  BY <1>4, <1>5

RecordsInv ==
  /\ NodeIndexes /\ DaysPast
  /\ KeyIndexExact /\ KeysForeign /\ OperatorsExact /\ BindingsInverse
  /\ NodeIndexExact /\ NodesReferTo /\ CountersOfNodes

LEMMA RecordsInit ==
  Init => /\ DaysPast /\ KeyIndexExact /\ KeysForeign /\ OperatorsExact /\ BindingsInverse
          /\ NodeIndexExact /\ NodesReferTo /\ CountersOfNodes
<1> SUFFICES ASSUME Init
             PROVE  /\ DaysPast /\ KeyIndexExact /\ KeysForeign /\ OperatorsExact
                    /\ BindingsInverse /\ NodeIndexExact /\ NodesReferTo /\ CountersOfNodes
  OBVIOUS
<1>1. BindingsInverse
  <2>1. /\ IsPartial(nodeTypes, NodeTypeIds, LicenseTypeIds) /\ IsInjectiveOn(nodeTypes)
        /\ nodeTypeByLicenseType = [lt \in {nodeTypes[t] : t \in DOMAIN nodeTypes} |->
                                      CHOOSE t \in DOMAIN nodeTypes : nodeTypes[t] = lt]
    BY GenesisAssumption DEF Init
  <2> QED
    BY <2>1 DEF BindingsInverse, IsPartial, IsInjectiveOn
<1>2. /\ activationKeys = EmptyMap /\ nodes = EmptyMap /\ operatorNodeCounts = EmptyMap
      /\ nodeStatusCounters = EmptyMap /\ operatorActivationKeys = {} /\ operatorNodes = {}
      /\ operators = {}
  BY DEF Init
<1> QED
  BY <1>1, <1>2 DEF EmptyMap, DaysPast, KeyIndexExact, KeysForeign, RebuiltOperatorKeys,
     OperatorsExact, RebuiltOperators, NodeIndexExact, RebuiltOperatorNodes, NodesReferTo,
     CountersOfNodes

LEMMA RecordsStep == RecordsInv /\ StoreStep => RecordsInv'
BY NodeIndexesStep, DaysPastStep, KeyIndexStep, OperatorsStep, BindingsStep, NodeIndexStep,
   ReferencesStep
DEF RecordsInv, NodeIndexes

LEMMA RecordsInvInit == Init => RecordsInv
BY RecordsInit, NodeIndexesInit DEF RecordsInv

LEMMA RecordsInvHolds == Spec => []RecordsInv
BY RecordsInvInit, RecordsStep, NextSplits, PTL DEF Spec

LEMMA RecordsReimport == RecordsInv => GenesisRoundTrip
<1> SUFFICES ASSUME RecordsInv PROVE GenesisRoundTrip
  OBVIOUS
<1>1. TypeOK /\ TalliesMatchNodes /\ RecentIndexExact
  BY DEF RecordsInv, NodeIndexes
<1>2. ExportValidates
  <2>1. IsInjectiveOn(nodeTypes)
    <3>1. \A t \in DOMAIN nodeTypes : t \in NodeTypeIds /\ nodeTypes[t] \in LicenseTypeIds
      BY <1>1 DEF TypeOK, IsPartial
    <3> QED
      BY <3>1 DEF RecordsInv, BindingsInverse, IsInjectiveOn
  <2> QED
    BY <1>1, <2>1 DEF RecordsInv, ExportValidates, TypeOK, KeysForeign, NodesReferTo,
                      CountersOfNodes
<1>3. operatorNodeCounts = RebuiltCounts
  <2>1. operatorNodeCounts = [pair \in DOMAIN operatorNodeCounts |-> operatorNodeCounts[pair]]
    BY <1>1 DEF TypeOK, IsPartial
  <2>2. ASSUME NEW pair \in DOMAIN operatorNodeCounts
        PROVE  operatorNodeCounts[pair]
                 = [total  |-> Cardinality(NodesOf(pair[1], pair[2])),
                    active |-> Cardinality(ActiveOf(pair[1], pair[2]))]
    <3>1. pair[1] \in Operators /\ pair[2] \in NodeTypeIds /\ pair = <<pair[1], pair[2]>>
      BY <1>1 DEF TypeOK, IsPartial
    <3>2. NodeCounts(pair[1], pair[2]) = operatorNodeCounts[pair]
      BY <3>1 DEF NodeCounts
    <3> QED
      BY <1>1, <3>1, <3>2 DEF TalliesMatchNodes
  <2> QED
    BY <2>1, <2>2 DEF RecordsInv, NodeIndexExact, RebuiltCounts
<1> QED
  BY <1>1, <1>2, <1>3 DEF RecordsInv, GenesisRoundTrip, RecentIndexExact, KeyIndexExact,
     OperatorsExact, BindingsInverse, NodeIndexExact

(* genesis.go and genesis_helpers.go: whatever state the handlers reach,   *)
(* its export validates, and InitGenesis rebuilds from it the tallies and  *)
(* indexes the chain was running on.                                       *)
THEOREM AlwaysReimportable == Spec => []GenesisRoundTrip
<1> QED
  BY RecordsReimport, RecordsInvHolds, PTL

-----------------------------------------------------------------------------
(* The deauthorize fee                                                     *)

(* What is not a deauthorization disables no key and moves no coin.        *)
LEMMA OthersAreFree ==
  ASSUME TypeOK, StoreStep,
         ~ \E op \in Operators, key \in KeyAddresses : DeauthorizeActivationKey(op, key)
  PROVE  UNCHANGED bankVars /\ \A o \in Operators : DisabledBy(o) = {}
<1>1. UNCHANGED bankVars
  BY StepSplits DEF FleetStep, CreateOperatorAccount, CreateNodeType, AuthorizeActivationKey,
     ActivateNode, DeactivateNode, HeartbeatStep, UpdateParams, NewHolders, fleetVars
<1>2. \A k \in DOMAIN activationKeys : activationKeys'[k] = activationKeys[k]
  <2>1. CASE UNCHANGED keyVars
    BY <2>1 DEF keyVars
  <2>2. CASE \E op \in Operators, key \in KeyAddresses : AuthorizeActivationKey(op, key)
    BY <2>2, AuthorizationWrites
  <2> QED
    BY <2>1, <2>2, StepSplits, KeySplits DEF KeyStep
<1> QED
  BY <1>1, <1>2 DEF DisabledBy

LEMMA FeeStep ==
  ASSUME TypeOK, StoreStep
  PROVE  /\ \A op \in Operators :
              balances[op] - balances'[op] = Cardinality(DisabledBy(op)) * params.DeauthorizeFee
         /\ feeCollector' - feeCollector =
              Cardinality(UNION {DisabledBy(op) : op \in Operators}) * params.DeauthorizeFee
<1> DEFINE fee == params.DeauthorizeFee
<1>0. /\ balances \in [Address -> Nat] /\ feeCollector \in Nat /\ fee \in Nat
      /\ Operators \subseteq Address
      /\ Cardinality({}) = 0 /\ \A k : Cardinality({k}) = 1
  BY AddressRoles, FS_EmptySet, FS_Singleton DEF TypeOK, ValidParams
<1>1. CASE \E op \in Operators, key \in KeyAddresses : DeauthorizeActivationKey(op, key)
  <2>1. PICK op \in Operators, key \in KeyAddresses : DeauthorizeActivationKey(op, key)
    BY <1>1
  <2>2. /\ balances' = [balances EXCEPT ![op] = @ - fee] /\ balances[op] >= fee
        /\ feeCollector' = feeCollector + fee
    BY <2>1 DEF DeauthorizeActivationKey, PayDeauthorizeFee
  <2>3. DisabledBy(op) = {key} /\ \A o \in Operators : o # op => DisabledBy(o) = {}
    BY <2>1, DeauthorizationWrites DEF DisabledBy
  <2>4. UNION {DisabledBy(o) : o \in Operators} = {key}
    BY <2>3
  <2> HIDE DEF fee
  <2>5. ASSUME NEW o \in Operators
        PROVE  balances[o] - balances'[o] = Cardinality(DisabledBy(o)) * fee
    <3>1. CASE o = op
      <4>1. Cardinality(DisabledBy(o)) = 1 /\ balances'[o] = balances[o] - fee
        BY <1>0, <2>2, <2>3, <3>1
      <4>2. balances[o] \in Nat
        BY <1>0
      <4> QED
        BY <1>0, <4>1, <4>2
    <3>2. CASE o # op
      <4>1. Cardinality(DisabledBy(o)) = 0 /\ balances'[o] = balances[o]
        BY <1>0, <2>2, <2>3, <3>2
      <4>2. balances[o] \in Nat
        BY <1>0
      <4> QED
        BY <1>0, <4>1, <4>2
    <3> QED
      BY <3>1, <3>2
  <2>6. Cardinality(UNION {DisabledBy(o) : o \in Operators}) = 1
    BY <1>0, <2>4
  <2>7. feeCollector' - feeCollector = 1 * fee
    BY <1>0, <2>2
  <2> QED
    BY <2>5, <2>6, <2>7 DEF fee
<1>2. CASE ~ \E op \in Operators, key \in KeyAddresses : DeauthorizeActivationKey(op, key)
  <2>1. balances' = balances /\ feeCollector' = feeCollector
    BY <1>2, OthersAreFree DEF bankVars
  <2>2. \A o \in Operators : DisabledBy(o) = {}
    BY <1>2, OthersAreFree
  <2>3. UNION {DisabledBy(o) : o \in Operators} = {}
    BY <2>2
  <2> HIDE DEF fee
  <2>4. \A o \in Operators : Cardinality(DisabledBy(o)) = 0 /\ balances[o] \in Nat
    BY <1>0, <2>2
  <2>5. Cardinality(UNION {DisabledBy(o) : o \in Operators}) = 0
    BY <1>0, <2>3
  <2> QED
    BY <1>0, <2>1, <2>4, <2>5 DEF fee
<1> QED
  BY <1>1, <1>2

(* msg_server.go, DeauthorizeActivationKey: no step disables a key without *)
(* moving the fee, and none moves coins otherwise.                         *)
THEOREM DisablingCosts == Spec => DeauthorizePaysFee
<1>1. TypeOK /\ StoreStep => FeeMoves
  BY FeeStep DEF FeeMoves
<1> QED
  BY <1>1, TypeCorrect, NextSplits, PTL DEF Spec, DeauthorizePaysFee

-----------------------------------------------------------------------------
(* The rate of new keys                                                    *)

OperatorKeys(op) == {k \in DOMAIN activationKeys : activationKeys[k].operator = op}
OperatorActive(op) ==
  {k \in DOMAIN activationKeys :
     activationKeys[k].operator = op /\ activationKeys[k].status = "active"}
CreatedWithin(op, start) ==
  {k \in DOMAIN activationKeys :
     /\ activationKeys[k].operator = op
     /\ activationKeys[k].createdAt >= start
     /\ activationKeys[k].createdAt < start + params.RecentKeyWindow}

KeysPast   == \A k \in DOMAIN activationKeys : activationKeys[k].createdAt <= now
KeysFinite == IsFiniteSet(DOMAIN activationKeys)

LEMMA KeySetsFinite ==
  ASSUME KeysFinite, NEW op, NEW start
  PROVE  /\ IsFiniteSet(OperatorActive(op)) /\ IsFiniteSet(CreatedWithin(op, start))
         /\ IsFiniteSet(OperatorKeys(op))
<1>1. /\ OperatorActive(op) \subseteq DOMAIN activationKeys
      /\ CreatedWithin(op, start) \subseteq DOMAIN activationKeys
      /\ OperatorKeys(op) \subseteq DOMAIN activationKeys
  BY DEF OperatorActive, CreatedWithin, OperatorKeys
<1> QED
  BY <1>1, FS_Subset DEF KeysFinite

(* What the handler counts, on the records.                                *)
LEMMA CountedKeys ==
  ASSUME TypeOK, KeyIndexExact, NEW op
  PROVE  /\ ActiveKeysOf(op) = OperatorActive(op)
         /\ RecentKeysOf(op) = {k \in OperatorKeys(op) :
                                  activationKeys[k].createdAt > now - params.RecentKeyWindow}
<1>1. DOMAIN activationKeys \subseteq KeyAddresses
  BY DEF TypeOK, IsPartial
<1>2. KeysOf(op) = OperatorKeys(op)
  BY <1>1 DEF KeyIndexExact, RebuiltOperatorKeys, KeysOf, OperatorKeys
<1> QED
  BY <1>2 DEF ActiveKeysOf, RecentKeysOf, OperatorActive, OperatorKeys

(* The key records change at a standing clock.                             *)
LEMMA KeyStepSplits ==
  ASSUME StoreStep
  PROVE  (KeyStep /\ UNCHANGED envVars) \/ UNCHANGED keyVars
BY StepSplits, KeySplits DEF StoreStep

RateInv == KeyRateBounded /\ KeysPast /\ KeysFinite

(* An authorization: the new key lies in the windows that start within the *)
(* last recent_key_window, and the keys of these are among those counted.  *)
LEMMA AuthorizationRate ==
  ASSUME TypeOK, KeyIndexExact, RateInv, UNCHANGED params, now' = now,
         NEW op \in Operators, NEW key \in KeyAddresses, AuthorizeActivationKey(op, key)
  PROVE  RateInv'
<1> DEFINE W == params.RecentKeyWindow
<1>0. /\ IsPartial(activationKeys, KeyAddresses, KeyType) /\ now \in Nat
      /\ W \in Nat \ {0} /\ params.RecentKeyLimit \in Nat /\ params.MaxActivationKeys \in Nat
  BY DEF TypeOK, ValidParams
<1>1. /\ key \notin DOMAIN activationKeys
      /\ DOMAIN activationKeys' = DOMAIN activationKeys \cup {key}
      /\ \A k \in DOMAIN activationKeys : activationKeys'[k] = activationKeys[k]
      /\ activationKeys'[key].operator = op /\ activationKeys'[key].createdAt = now
      /\ activationKeys'[key].status = "active"
  BY AuthorizationWrites
<1>2. \A k \in DOMAIN activationKeys :
        activationKeys[k].createdAt \in Nat /\ activationKeys[k].createdAt <= now
  BY <1>0 DEF IsPartial, KeyType, RateInv, KeysPast
<1>3. KeysPast' /\ KeysFinite'
  BY <1>0, <1>1, <1>2, FS_AddElement DEF RateInv, KeysPast, KeysFinite
<1>4. /\ Cardinality(OperatorActive(op)) < params.MaxActivationKeys
      /\ Cardinality(RecentKeysOf(op)) < params.RecentKeyLimit
  BY CountedKeys DEF AuthorizeActivationKey
<1>5. ASSUME NEW o \in Operators
      PROVE  Cardinality(OperatorActive(o)') <= params.MaxActivationKeys
  <2>1. CASE o = op
    <3>1. OperatorActive(o)' = OperatorActive(op) \cup {key} /\ key \notin OperatorActive(op)
      BY <1>1, <2>1 DEF OperatorActive
    <3>2. IsFiniteSet(OperatorActive(op)) /\ Cardinality(OperatorActive(op)) \in Nat
      BY KeySetsFinite, FS_CardinalityType DEF RateInv
    <3>3. Cardinality(OperatorActive(o)') = Cardinality(OperatorActive(op)) + 1
      BY ONLY <3>1, <3>2, FS_AddElement
    <3> QED
      BY ONLY <1>0, <1>4, <3>2, <3>3
  <2>2. CASE o # op
    <3>1. OperatorActive(o)' = OperatorActive(o)
      BY <1>1, <2>2 DEF OperatorActive
    <3> QED
      BY <3>1 DEF RateInv, KeyRateBounded, OperatorActive
  <2> QED
    BY <2>1, <2>2
<1>6. ASSUME NEW o \in Operators, NEW start \in 0 .. now
      PROVE  Cardinality(CreatedWithin(o, start)') <= params.RecentKeyLimit
  <2>0. Cardinality(CreatedWithin(o, start)) <= params.RecentKeyLimit
    BY DEF RateInv, KeyRateBounded, CreatedWithin
  <2>1. CASE o = op /\ start > now - W
    <3> DEFINE R == RecentKeysOf(op)
    <3>1. R = {k \in OperatorKeys(op) : activationKeys[k].createdAt > now - W}
      BY CountedKeys
    <3>2. IsFiniteSet(OperatorKeys(op)) /\ R \subseteq OperatorKeys(op)
      BY <3>1, KeySetsFinite DEF RateInv
    <3>3. IsFiniteSet(R) /\ Cardinality(R) \in Nat /\ key \notin R
      BY <1>1, <3>1, <3>2, FS_Subset, FS_CardinalityType DEF OperatorKeys
    <3>4. CreatedWithin(o, start)' \subseteq R \cup {key}
      <4> SUFFICES ASSUME NEW k \in CreatedWithin(o, start)', k # key PROVE k \in R
        OBVIOUS
      <4>1. /\ k \in DOMAIN activationKeys /\ activationKeys[k].operator = op
            /\ activationKeys[k].createdAt >= start
        BY <1>1, <2>1 DEF CreatedWithin
      <4>2. activationKeys[k].createdAt > now - W
        BY <1>0, <1>2, <2>1, <4>1
      <4> QED
        BY <3>1, <4>1, <4>2 DEF OperatorKeys
    <3> HIDE DEF R
    <3>5. /\ IsFiniteSet(R \cup {key}) /\ Cardinality(R \cup {key}) = Cardinality(R) + 1
      BY <3>3, FS_AddElement
    <3>6. /\ Cardinality(CreatedWithin(o, start)') <= Cardinality(R) + 1
          /\ Cardinality(CreatedWithin(o, start)') \in Nat
      BY <3>4, <3>5, FS_Subset, FS_CardinalityType
    <3> QED
      BY <1>0, <1>4, <3>3, <3>6 DEF R
  <2>2. CASE o # op \/ start + W <= now
    <3>1. CreatedWithin(o, start)' = CreatedWithin(o, start)
      BY <1>0, <1>1, <2>2 DEF CreatedWithin
    <3> QED
      BY <2>0, <3>1
  <2> QED
    BY <1>0, <2>1, <2>2
<1>7. KeyRateBounded'
  BY <1>5, <1>6 DEF KeyRateBounded, OperatorActive, CreatedWithin
<1> QED
  BY <1>3, <1>7 DEF RateInv

LEMMA RateStep ==
  TypeOK /\ KeyIndexExact /\ RateInv /\ UNCHANGED params /\ StoreStep => RateInv'
<1> SUFFICES ASSUME TypeOK, KeyIndexExact, RateInv, UNCHANGED params, StoreStep
             PROVE  RateInv'
  OBVIOUS
<1>0. /\ IsPartial(activationKeys, KeyAddresses, KeyType) /\ now \in Nat /\ now' \in {now, now + 1}
      /\ params.RecentKeyLimit \in Nat /\ params.MaxActivationKeys \in Nat
      /\ params.RecentKeyWindow \in Nat
  BY StepSplits, EnvTypeStep DEF TypeOK, ValidParams
<1>1. CASE \E op \in Operators, key \in KeyAddresses : AuthorizeActivationKey(op, key)
  <2>1. ~ UNCHANGED keyVars
    BY <1>1, AuthorizationWrites DEF keyVars
  <2>2. now' = now
    BY <2>1, KeyStepSplits DEF envVars
  <2> QED
    BY <1>1, <2>2, AuthorizationRate
<1>2. CASE ~ \E op \in Operators, key \in KeyAddresses : AuthorizeActivationKey(op, key)
  <2>1. /\ DOMAIN activationKeys' = DOMAIN activationKeys
        /\ \A k \in DOMAIN activationKeys :
             /\ activationKeys'[k].operator = activationKeys[k].operator
             /\ activationKeys'[k].createdAt = activationKeys[k].createdAt
             /\ activationKeys'[k].status = "active" => activationKeys[k].status = "active"
    <3>1. CASE UNCHANGED keyVars
      BY <3>1 DEF keyVars
    <3>2. CASE \E op \in Operators, key \in KeyAddresses : DeauthorizeActivationKey(op, key)
      BY <3>2, DeauthorizationWrites
    <3> QED
      BY <1>2, <3>1, <3>2, KeyStepSplits DEF KeyStep
  <2>2. \A k \in DOMAIN activationKeys :
          activationKeys[k].createdAt \in Nat /\ activationKeys[k].createdAt <= now
    BY <1>0 DEF IsPartial, KeyType, RateInv, KeysPast
  <2>3. KeysPast' /\ KeysFinite'
    BY <1>0, <2>1, <2>2 DEF RateInv, KeysPast, KeysFinite
  <2>4. ASSUME NEW o \in Operators
        PROVE  Cardinality(OperatorActive(o)') <= params.MaxActivationKeys
    <3>1. OperatorActive(o)' \subseteq OperatorActive(o)
      BY <2>1 DEF OperatorActive
    <3>2. /\ IsFiniteSet(OperatorActive(o))
          /\ Cardinality(OperatorActive(o)) <= params.MaxActivationKeys
      BY KeySetsFinite DEF RateInv, KeyRateBounded, OperatorActive
    <3>3. /\ Cardinality(OperatorActive(o)') <= Cardinality(OperatorActive(o))
          /\ Cardinality(OperatorActive(o)') \in Nat /\ Cardinality(OperatorActive(o)) \in Nat
      BY <3>1, <3>2, FS_Subset, FS_CardinalityType
    <3> QED
      BY <1>0, <3>2, <3>3
  <2>5. ASSUME NEW o \in Operators, NEW start \in 0 .. now'
        PROVE  Cardinality(CreatedWithin(o, start)') <= params.RecentKeyLimit
    <3>1. CreatedWithin(o, start)' = CreatedWithin(o, start)
      BY <2>1 DEF CreatedWithin
    <3>2. CASE start \in 0 .. now
      BY <3>1, <3>2 DEF RateInv, KeyRateBounded, CreatedWithin
    <3>3. CASE start = now + 1
      <4>1. CreatedWithin(o, start) = {}
        BY <1>0, <2>2, <3>3 DEF CreatedWithin
      <4> QED
        BY <1>0, <3>1, <4>1, FS_EmptySet
    <3> QED
      BY <1>0, <3>2, <3>3
  <2>6. KeyRateBounded'
    BY <2>4, <2>5 DEF KeyRateBounded, OperatorActive, CreatedWithin
  <2> QED
    BY <2>3, <2>6 DEF RateInv
<1> QED
  BY <1>1, <1>2

LEMMA RateInit == Init => RateInv
<1> SUFFICES ASSUME Init PROVE RateInv
  OBVIOUS
<1>1. activationKeys = EmptyMap /\ DOMAIN activationKeys = {} /\ ValidParams(params)
  BY GenesisAssumption DEF Init, EmptyMap
<1>2. KeysPast /\ KeysFinite
  BY <1>1, FS_EmptySet DEF KeysPast, KeysFinite
<1>3. \A o, start : OperatorActive(o) = {} /\ CreatedWithin(o, start) = {}
  BY <1>1 DEF OperatorActive, CreatedWithin
<1>4. params.MaxActivationKeys \in Nat /\ params.RecentKeyLimit \in Nat /\ Cardinality({}) = 0
  BY <1>1, FS_EmptySet DEF ValidParams
<1>5. \A o, start : /\ Cardinality(OperatorActive(o)) <= params.MaxActivationKeys
                    /\ Cardinality(CreatedWithin(o, start)) <= params.RecentKeyLimit
  BY ONLY <1>3, <1>4
<1>6. KeyRateBounded
  BY ONLY <1>5 DEF KeyRateBounded, OperatorActive, CreatedWithin
<1> QED
  BY <1>2, <1>6 DEF RateInv

LEMMA GovernanceAlone ==
  ASSUME ParamChoices = {}
  PROVE  StoreStep => UNCHANGED params
BY StepSplits DEF FleetStep, CreateOperatorAccount, CreateNodeType, AuthorizeActivationKey,
   DeauthorizeActivationKey, ActivateNode, DeactivateNode, HeartbeatStep, NewHolders, fleetVars

(* While governance leaves the parameters alone, no window of              *)
(* recent_key_window saw an operator create more than recent_key_limit     *)
(* keys, however keys are disabled, replaced and authorized in between.    *)
THEOREM KeyRateLimited ==
  ASSUME ParamChoices = {}
  PROVE  Spec => []KeyRateBounded
<1>1. RecordsInv => KeyIndexExact /\ TypeOK
  BY DEF RecordsInv, NodeIndexes
<1>2. RateInv => KeyRateBounded
  BY DEF RateInv
<1> QED
  BY <1>1, <1>2, RateInit, GovernanceAlone, RateStep, RecordsInvHolds, NextSplits, PTL DEF Spec
=============================================================================
