---------------------------- MODULE NetworkProofs ----------------------------
(***************************************************************************)
(* Proofs about x/network, for every value of the constants of Network.    *)
(*                                                                         *)
(* A step changes the collections that handlers write, the quota counters  *)
(* and the environment independently of each other: NextSplits takes every *)
(* action apart once, and the proofs of the invariants start from there.   *)
(***************************************************************************)
EXTENDS NetworkProperties, ActivationLimitProofs, FiniteSetTheorems

-----------------------------------------------------------------------------
(* Operators of the model                                                  *)

LEMMA PutType ==
  ASSUME NEW f, NEW S, NEW T, IsPartial(f, S, T), NEW k \in S, NEW v \in T
  PROVE  IsPartial(Put(f, k, v), S, T)
BY DEF IsPartial, Put

(* Days are naturals and never run backwards.                              *)
LEMMA DayType == \A t \in Nat : Day(t) \in Nat /\ Day(t) <= Day(t + 1)
BY DayLengthAssumption DEF Day

LEMMA CountedType ==
  ASSUME NEW counters, NEW S, IsPartial(counters, S, CounterType), NEW k \in S, now \in Nat
  PROVE  IsPartial(Counted(counters, k), S, CounterType)
<1>1. Today \in Nat
  BY DayType DEF Today
<1>2. DailyCount(counters, k) \in Nat
  BY DEF DailyCount, IsPartial, CounterType
<1>3. [day |-> Today, count |-> DailyCount(counters, k) + 1] \in CounterType
  BY <1>1, <1>2 DEF CounterType
<1> QED
  BY <1>3, PutType DEF Counted

(* What a batch issues to a holding never takes it past MaxLicenses.       *)
LEMMA IssuedBounds ==
  ASSUME NEW batch \in Batches, NEW op \in Operators, NEW lt \in LicenseTypeIds,
         licenses[op][lt] \in Nat, IssueLicenses(batch)
  PROVE  /\ Issued(batch, op, lt) \in Nat
         /\ licenses[op][lt] + Issued(batch, op, lt) <= MaxLicenses \/ Issued(batch, op, lt) = 0
<1>1. batch \in [DOMAIN batch -> 0 .. MaxLicenses]
  BY DEF Batches
<1> QED
  BY <1>1, BoundAssumption DEF Issued, IssueLicenses

-----------------------------------------------------------------------------
(* Taking a step apart                                                     *)

HeartbeatStep(node) ==
  /\ ActiveNode(node)
  /\ TouchNodeActivity(node)
  /\ UNCHANGED <<params, registryVars, keyVars, operatorNodes, operatorNodeCounts,
                 operators, accounts, bankVars>>

NewHolders(holders) ==
  /\ accounts' = accounts \cup holders
  /\ UNCHANGED <<params, registryVars, keyVars, nodeVars, operators, bankVars>>

FleetStep ==
  \/ \E admin \in Admins, wallet \in Address : CreateOperatorAccount(admin, wallet)
  \/ \E creator \in Admins, id \in NodeTypeIds, lt \in LicenseTypeIds :
       CreateNodeType(creator, id, lt)
  \/ \E op \in Operators, key \in KeyAddresses : AuthorizeActivationKey(op, key)
  \/ \E op \in Operators, key \in KeyAddresses : DeauthorizeActivationKey(op, key)
  \/ \E key \in KeyAddresses, op \in Operators, node \in NodeAddresses, type \in NodeTypeIds :
       ActivateNode(key, op, node, type)
  \/ \E signer \in Address, node \in NodeAddresses : DeactivateNode(signer, node)
  \/ \E node \in NodeAddresses : HeartbeatStep(node)
  \/ \E p \in ParamChoices : UpdateParams(p)
  \/ \E holders \in SUBSET Operators : NewHolders(holders)
  \/ UNCHANGED fleetVars

QuotaStep ==
  \/ \E c \in QuotaKeys :
       gaslessCounters' = Counted(gaslessCounters, c) /\ UNCHANGED nodeStatusCounters
  \/ \E node \in NodeAddresses :
       /\ ActiveNode(node)
       /\ nodeStatusCounters' = Counted(nodeStatusCounters, node)
       /\ UNCHANGED gaslessCounters
  \/ UNCHANGED quotaVars

EnvStep ==
  \/ \E batch \in Batches : IssueLicenses(batch)
  \/ \E op \in Operators, lt \in LicenseTypeIds, count \in 1 .. MaxLicenses :
       RevokeLicenses(op, lt, count)
  \/ \E lt \in LicenseTypeIds : CreateLicenseType(lt)
  \/ \E new \in SUBSET (Admins \X Permissions) : ChangeGrants(new)
  \/ AdvanceTime
  \/ UNCHANGED envVars

LEMMA PaidSplits ==
  ASSUME PaidNext
  PROVE  FleetStep /\ UNCHANGED quotaVars /\ UNCHANGED envVars
BY DEF PaidNext, FleetStep, PaidCreateOperatorAccount, PaidCreateNodeType, PaidAuthorize,
       PaidDeauthorize, PaidActivate, PaidDeactivate

LEMMA GaslessSplits ==
  ASSUME GaslessNext
  PROVE  FleetStep /\ QuotaStep /\ UNCHANGED envVars
<1>1. PICK ok \in BOOLEAN :
        \/ \E op \in Operators, key \in KeyAddresses : GaslessAuthorize(op, key, ok)
        \/ \E key \in KeyAddresses, op \in Operators, node \in NodeAddresses,
              type \in NodeTypeIds : GaslessActivate(key, op, node, type, ok)
        \/ \E signer \in Address, node \in NodeAddresses : GaslessDeactivate(signer, node, ok)
        \/ \E node \in NodeAddresses : ~ok /\ GaslessStatus(node, ok)
  BY DEF GaslessNext
<1>2. CASE \E op \in Operators, key \in KeyAddresses : GaslessAuthorize(op, key, ok)
  <2>1. PICK op \in Operators, key \in KeyAddresses : GaslessAuthorize(op, key, ok)
    BY <1>2
  <2>2. <<"authorize", op, NoScope>> \in QuotaKeys
    BY DEF QuotaKeys
  <2>3. QuotaStep
    BY <2>1, <2>2 DEF GaslessAuthorize, AdmitAuthorize, ConsumeGaslessCounter, QuotaStep
  <2>4. FleetStep
    BY <2>1 DEF GaslessAuthorize, FleetStep
  <2> QED
    BY <2>1, <2>3, <2>4 DEF GaslessAuthorize
<1>3. CASE \E key \in KeyAddresses, op \in Operators, node \in NodeAddresses,
              type \in NodeTypeIds : GaslessActivate(key, op, node, type, ok)
  <2>1. PICK key \in KeyAddresses, op \in Operators, node \in NodeAddresses,
             type \in NodeTypeIds : GaslessActivate(key, op, node, type, ok)
    BY <1>3
  <2>2. <<"activate", key, type>> \in QuotaKeys
    BY DEF QuotaKeys
  <2>3. QuotaStep
    BY <2>1, <2>2 DEF GaslessActivate, AdmitActivate, QuotaStep
  <2>4. FleetStep
    BY <2>1 DEF GaslessActivate, FleetStep
  <2> QED
    BY <2>1, <2>3, <2>4 DEF GaslessActivate
<1>4. CASE \E signer \in Address, node \in NodeAddresses : GaslessDeactivate(signer, node, ok)
  <2>1. PICK signer \in Address, node \in NodeAddresses : GaslessDeactivate(signer, node, ok)
    BY <1>4
  <2>2. <<"deactivate", signer, NoScope>> \in QuotaKeys
    BY DEF QuotaKeys
  <2>3. QuotaStep
    BY <2>1, <2>2 DEF GaslessDeactivate, AdmitDeactivate, ConsumeGaslessCounter, QuotaStep
  <2>4. FleetStep
    BY <2>1 DEF GaslessDeactivate, FleetStep
  <2> QED
    BY <2>1, <2>3, <2>4 DEF GaslessDeactivate
<1>5. CASE \E node \in NodeAddresses : ~ok /\ GaslessStatus(node, ok)
  BY <1>5 DEF GaslessStatus, AdmitStatus, AdmittedStatus, QuotaStep, FleetStep
<1> QED
  BY <1>1, <1>2, <1>3, <1>4, <1>5

LEMMA HeartbeatSplits ==
  ASSUME NEW node \in NodeAddresses, Heartbeat(node)
  PROVE  FleetStep /\ QuotaStep /\ UNCHANGED envVars
<1>1. HeartbeatStep(node)
  BY DEF Heartbeat, PaidStatus, GaslessStatus, UpdateNodeStatus, HeartbeatStep
<1>2. QuotaStep
  BY DEF Heartbeat, PaidStatus, GaslessStatus, AdmitStatus, AdmittedStatus, QuotaStep
<1> QED
  BY <1>1, <1>2 DEF FleetStep, Heartbeat, PaidStatus, GaslessStatus

LEMMA EnvSplits ==
  ASSUME EnvNext
  PROVE  FleetStep /\ UNCHANGED quotaVars /\ EnvStep
<1>1. CASE \E p \in ParamChoices : GovUpdateParams(p)
  BY <1>1 DEF GovUpdateParams, FleetStep, EnvStep
<1>2. CASE ~ \E p \in ParamChoices : GovUpdateParams(p)
  <2>1. EnvStep
    BY <1>2 DEF EnvNext, EnvStep
  <2>2. (\E holders \in SUBSET Operators : NewHolders(holders)) \/ UNCHANGED fleetVars
    <3>1. CASE \E batch \in Batches : IssueLicenses(batch)
      <4>1. PICK batch \in Batches : IssueLicenses(batch)
        BY <3>1
      <4>2. {holding[1] : holding \in DOMAIN batch} \in SUBSET Operators
        BY DEF Batches
      <4> QED
        BY <4>1, <4>2 DEF IssueLicenses, NewHolders
    <3>2. CASE ~ \E batch \in Batches : IssueLicenses(batch)
      BY <1>2, <3>2 DEF EnvNext, RevokeLicenses, CreateLicenseType, ChangeGrants, AdvanceTime
    <3> QED
      BY <3>1, <3>2
  <2>3. UNCHANGED quotaVars
    BY <1>2 DEF EnvNext, IssueLicenses, RevokeLicenses, CreateLicenseType, ChangeGrants,
                AdvanceTime, quotaVars
  <2> QED
    BY <2>1, <2>2, <2>3 DEF FleetStep
<1> QED
  BY <1>1, <1>2

(* All that the invariants ask of a step: what a handler, an admission and *)
(* the environment write, each as if alone, and keys and nodes only under  *)
(* a standing environment.  Steps of a longer delivery are such steps too. *)
StoreStep ==
  /\ FleetStep /\ QuotaStep /\ EnvStep
  /\ UNCHANGED envVars \/ UNCHANGED <<keyVars, nodeVars>>

LEMMA StepSplits ==
  ASSUME StoreStep
  PROVE  FleetStep /\ QuotaStep /\ EnvStep
BY DEF StoreStep

LEMMA NextSplits == [Next]_vars => StoreStep
<1>1. CASE PaidNext
  BY <1>1, PaidSplits DEF StoreStep, QuotaStep, EnvStep
<1>2. CASE GaslessNext
  BY <1>2, GaslessSplits DEF StoreStep, EnvStep
<1>3. CASE EnvNext
  <2>1. UNCHANGED <<keyVars, nodeVars>>
    BY <1>3 DEF EnvNext, GovUpdateParams, IssueLicenses, RevokeLicenses, CreateLicenseType,
                ChangeGrants, AdvanceTime, UpdateParams, fleetVars
  <2> QED
    BY <1>3, <2>1, EnvSplits DEF StoreStep, QuotaStep
<1>4. CASE \E node \in NodeAddresses : Heartbeat(node)
  BY <1>4, HeartbeatSplits DEF StoreStep, EnvStep
<1>5. CASE UNCHANGED vars
  BY <1>5 DEF vars, StoreStep, FleetStep, QuotaStep, EnvStep
<1> QED
  BY <1>1, <1>2, <1>3, <1>4, <1>5 DEF Next, QuietNext

-----------------------------------------------------------------------------
(* Type correctness                                                        *)

FleetTypeOK ==
  /\ ValidParams(params)
  /\ IsPartial(nodeTypes, NodeTypeIds, LicenseTypeIds)
  /\ IsPartial(nodeTypeByLicenseType, LicenseTypeIds, NodeTypeIds)
  /\ IsPartial(activationKeys, KeyAddresses, KeyType)
  /\ operatorActivationKeys \subseteq Operators \X KeyAddresses
  /\ IsPartial(nodes, NodeAddresses, NodeType)
  /\ operatorNodes \subseteq Operators \X NodeAddresses
  /\ IsPartial(operatorNodeCounts, Operators \X NodeTypeIds, CountsType)
  /\ recentNodeActivity \subseteq Operators \X NodeTypeIds \X Nat \X NodeAddresses
  /\ operators \subseteq Operators
  /\ accounts \subseteq Address
  /\ balances \in [Address -> Nat]
  /\ feeCollector \in Nat

QuotaTypeOK ==
  /\ IsPartial(nodeStatusCounters, NodeAddresses, CounterType)
  /\ IsPartial(gaslessCounters, QuotaKeys, CounterType)

EnvTypeOK ==
  /\ licenses \in [Operators -> [LicenseTypeIds -> Nat]]
  /\ licenseTypes \subseteq LicenseTypeIds
  /\ grants \subseteq Admins \X Permissions
  /\ now \in Nat

LEMMA TypeOKParts == TypeOK <=> FleetTypeOK /\ QuotaTypeOK /\ EnvTypeOK
BY DEF TypeOK, FleetTypeOK, QuotaTypeOK, EnvTypeOK

LEMMA AddressRoles ==
  /\ Operators \subseteq Address /\ KeyAddresses \subseteq Address
  /\ NodeAddresses \subseteq Address
BY DEF Address

LEMMA NodeCountsType ==
  ASSUME FleetTypeOK, NEW op \in Operators, NEW type \in NodeTypeIds
  PROVE  NodeCounts(op, type) \in CountsType
BY DEF FleetTypeOK, NodeCounts, IsPartial, CountsType

LEMMA EmptyMapType == ASSUME NEW S, NEW T PROVE IsPartial(EmptyMap, S, T)
BY DEF IsPartial, EmptyMap

LEMMA InitType == Init => TypeOK
<1> SUFFICES ASSUME Init PROVE TypeOK
  OBVIOUS
<1>1. FleetTypeOK
  <2>1. IsPartial(nodeTypeByLicenseType, LicenseTypeIds, NodeTypeIds)
    <3> DEFINE TypeOf(lt) == CHOOSE t \in DOMAIN GenesisNodeTypes : GenesisNodeTypes[t] = lt
               Bound == {GenesisNodeTypes[t] : t \in DOMAIN GenesisNodeTypes}
    <3>1. Bound \subseteq LicenseTypeIds
      BY GenesisAssumption DEF IsPartial
    <3>2. \A lt \in Bound : TypeOf(lt) \in NodeTypeIds
      BY GenesisAssumption DEF IsPartial
    <3>3. nodeTypeByLicenseType = [lt \in Bound |-> TypeOf(lt)]
      BY DEF Init
    <3> HIDE DEF TypeOf, Bound
    <3> QED
      BY <3>1, <3>2, <3>3 DEF IsPartial
  <2>2. balances \in [Address -> Nat]
    BY GenesisAssumption DEF Init
  <2>3. IsPartial(nodeTypes, NodeTypeIds, LicenseTypeIds) /\ ValidParams(params)
    BY GenesisAssumption DEF Init
  <2>4. accounts \subseteq Address
    BY GenesisAssumption DEF Init
  <2> QED
    BY <2>1, <2>2, <2>3, <2>4, EmptyMapType DEF Init, FleetTypeOK
<1>2. QuotaTypeOK
  BY EmptyMapType DEF Init, QuotaTypeOK
<1>3. EnvTypeOK
  <2>1. licenses \in [Operators -> [LicenseTypeIds -> Nat]]
    BY GenesisAssumption, BoundAssumption DEF Init
  <2> QED
    BY <2>1, GenesisAssumption, DayLengthAssumption DEF Init, EnvTypeOK
<1> QED
  BY <1>1, <1>2, <1>3, TypeOKParts

LEMMA FleetTypeStep ==
  ASSUME TypeOK, FleetStep
  PROVE  FleetTypeOK'
<1> USE DEF registryVars, keyVars, nodeVars, bankVars
<1>0. FleetTypeOK /\ EnvTypeOK /\ Today \in Nat
  BY TypeOKParts, DayType DEF Today, EnvTypeOK
<1>1. CASE \E admin \in Admins, wallet \in Address : CreateOperatorAccount(admin, wallet)
  BY <1>0, <1>1 DEF CreateOperatorAccount, CreateAccountIfNotExists, FleetTypeOK
<1>2. CASE \E creator \in Admins, id \in NodeTypeIds, lt \in LicenseTypeIds :
             CreateNodeType(creator, id, lt)
  BY <1>0, <1>2, PutType DEF CreateNodeType, FleetTypeOK
<1>3. CASE \E op \in Operators, key \in KeyAddresses : AuthorizeActivationKey(op, key)
  <2>1. PICK op \in Operators, key \in KeyAddresses : AuthorizeActivationKey(op, key)
    BY <1>3
  <2>2. [operator |-> op, createdAt |-> now, status |-> "active"] \in KeyType
    BY <1>0 DEF KeyType, KeyStatuses, EnvTypeOK
  <2>3. IsPartial(activationKeys', KeyAddresses, KeyType)
    BY <1>0, <2>1, <2>2, PutType DEF AuthorizeActivationKey, FleetTypeOK
  <2>4. accounts' \subseteq Address
    BY <1>0, <2>1, AddressRoles DEF AuthorizeActivationKey, CreateAccountIfNotExists, FleetTypeOK
  <2> QED
    BY <1>0, <2>1, <2>3, <2>4 DEF AuthorizeActivationKey, RegisterOperator, FleetTypeOK
<1>4. CASE \E op \in Operators, key \in KeyAddresses : DeauthorizeActivationKey(op, key)
  <2>1. PICK op \in Operators, key \in KeyAddresses : DeauthorizeActivationKey(op, key)
    BY <1>4
  <2>2. IsPartial(activationKeys', KeyAddresses, KeyType)
    BY <1>0, <2>1 DEF DeauthorizeActivationKey, FleetTypeOK, IsPartial, KeyType, KeyStatuses
  <2>3. params.DeauthorizeFee \in Nat
    BY <1>0 DEF FleetTypeOK, ValidParams
  <2>4. balances' \in [Address -> Nat] /\ feeCollector' \in Nat
    BY <1>0, <2>1, <2>3, AddressRoles DEF DeauthorizeActivationKey, PayDeauthorizeFee, FleetTypeOK
  <2> QED
    BY <1>0, <2>1, <2>2, <2>4 DEF DeauthorizeActivationKey, FleetTypeOK
<1>5. CASE \E key \in KeyAddresses, op \in Operators, node \in NodeAddresses,
              type \in NodeTypeIds : ActivateNode(key, op, node, type)
  <2>1. PICK key \in KeyAddresses, op \in Operators, node \in NodeAddresses,
             type \in NodeTypeIds : ActivateNode(key, op, node, type)
    BY <1>5
  <2>2. [operator |-> op, activatedBy |-> key, type |-> type,
         status |-> "active", lastActiveDay |-> Today] \in NodeType
    BY <1>0 DEF NodeType, NodeStatuses
  <2>3. IsPartial(nodes', NodeAddresses, NodeType)
    BY <1>0, <2>1, <2>2, PutType DEF ActivateNode, FleetTypeOK
  <2>4. IsPartial(operatorNodeCounts', Operators \X NodeTypeIds, CountsType)
    <3>1. NodeCounts(op, type) \in CountsType
      BY <1>0, NodeCountsType
    <3>2. [total |-> NodeCounts(op, type).total + 1,
           active |-> NodeCounts(op, type).active + 1] \in CountsType
      BY <3>1 DEF CountsType
    <3> QED
      BY <1>0, <2>1, <3>2, PutType DEF ActivateNode, FleetTypeOK
  <2>5. accounts' \subseteq Address
    BY <1>0, <2>1, AddressRoles DEF ActivateNode, CreateAccountIfNotExists, FleetTypeOK
  <2>6. recentNodeActivity' \subseteq Operators \X NodeTypeIds \X Nat \X NodeAddresses
    BY <1>0, <2>1 DEF ActivateNode, FleetTypeOK
  <2> QED
    BY <1>0, <2>1, <2>3, <2>4, <2>5, <2>6 DEF ActivateNode, RegisterOperator, FleetTypeOK
<1>6. CASE \E signer \in Address, node \in NodeAddresses : DeactivateNode(signer, node)
  <2>1. PICK signer \in Address, node \in NodeAddresses : DeactivateNode(signer, node)
    BY <1>6
  <2>2. nodes[node] \in NodeType /\ nodes[node].operator \in Operators
          /\ nodes[node].type \in NodeTypeIds
    BY <1>0, <2>1 DEF DeactivateNode, ActiveNode, FleetTypeOK, IsPartial, NodeType
  <2>3. IsPartial(nodes', NodeAddresses, NodeType)
    BY <1>0, <2>1 DEF DeactivateNode, FleetTypeOK, IsPartial, NodeType, NodeStatuses
  <2>4. IsPartial(operatorNodeCounts', Operators \X NodeTypeIds, CountsType)
    <3> DEFINE c == NodeCounts(nodes[node].operator, nodes[node].type)
    <3>1. c \in CountsType
      BY <1>0, <2>2, NodeCountsType
    <3> HIDE DEF c
    <3>2. [c EXCEPT !.active = IF @ > 0 THEN @ - 1 ELSE @] \in CountsType
      BY <3>1 DEF CountsType
    <3> QED
      BY <1>0, <2>1, <2>2, <3>2, PutType DEF DeactivateNode, OneActiveLess, FleetTypeOK, c
  <2> QED
    BY <1>0, <2>1, <2>3, <2>4 DEF DeactivateNode, FleetTypeOK
<1>7. CASE \E node \in NodeAddresses : HeartbeatStep(node)
  <2>1. PICK node \in NodeAddresses : HeartbeatStep(node)
    BY <1>7
  <2>2. nodes[node] \in NodeType /\ nodes[node].operator \in Operators
          /\ nodes[node].type \in NodeTypeIds
    BY <1>0, <2>1 DEF HeartbeatStep, ActiveNode, FleetTypeOK, IsPartial, NodeType
  <2>3. IsPartial(nodes', NodeAddresses, NodeType)
    BY <1>0, <2>1 DEF HeartbeatStep, TouchNodeActivity, FleetTypeOK, IsPartial, NodeType
  <2>4. recentNodeActivity' \subseteq Operators \X NodeTypeIds \X Nat \X NodeAddresses
    BY <1>0, <2>1, <2>2 DEF HeartbeatStep, TouchNodeActivity, FleetTypeOK
  <2> QED
    BY <1>0, <2>1, <2>3, <2>4 DEF HeartbeatStep, FleetTypeOK
<1>8. CASE \E p \in ParamChoices : UpdateParams(p)
  BY <1>0, <1>8 DEF UpdateParams, FleetTypeOK
<1>9. CASE \E holders \in SUBSET Operators : NewHolders(holders)
  BY <1>0, <1>9, AddressRoles DEF NewHolders, FleetTypeOK
<1>10. CASE UNCHANGED fleetVars
  BY <1>0, <1>10 DEF fleetVars, FleetTypeOK
<1> QED
  BY <1>1, <1>2, <1>3, <1>4, <1>5, <1>6, <1>7, <1>8, <1>9, <1>10 DEF FleetStep

LEMMA QuotaTypeStep ==
  ASSUME TypeOK, QuotaStep
  PROVE  QuotaTypeOK'
<1>1. QuotaTypeOK /\ now \in Nat
  BY TypeOKParts DEF EnvTypeOK
<1> QED
  BY <1>1, CountedType DEF QuotaStep, QuotaTypeOK, quotaVars, QuotaKeys

LEMMA EnvTypeStep ==
  ASSUME TypeOK, EnvStep
  PROVE  EnvTypeOK' /\ now' \in {now, now + 1}
<1>1. EnvTypeOK
  BY TypeOKParts
<1>2. CASE \E batch \in Batches : IssueLicenses(batch)
  BY <1>1, <1>2, IssuedBounds DEF IssueLicenses, EnvTypeOK
<1>7. CASE \E op \in Operators, lt \in LicenseTypeIds, count \in 1 .. MaxLicenses :
             RevokeLicenses(op, lt, count)
  BY <1>1, <1>7, BoundAssumption DEF RevokeLicenses, EnvTypeOK
<1>3. CASE \E lt \in LicenseTypeIds : CreateLicenseType(lt)
  BY <1>1, <1>3 DEF CreateLicenseType, EnvTypeOK
<1>4. CASE \E new \in SUBSET (Admins \X Permissions) : ChangeGrants(new)
  BY <1>1, <1>4 DEF ChangeGrants, EnvTypeOK
<1>5. CASE AdvanceTime
  BY <1>1, <1>5 DEF AdvanceTime, EnvTypeOK
<1>6. CASE UNCHANGED envVars
  BY <1>1, <1>6 DEF envVars, EnvTypeOK
<1> QED
  BY <1>2, <1>3, <1>4, <1>5, <1>6, <1>7 DEF EnvStep

LEMMA TypeStep == TypeOK /\ StoreStep => TypeOK'
<1> SUFFICES ASSUME TypeOK, StoreStep PROVE TypeOK'
  OBVIOUS
<1>1. FleetTypeOK' /\ QuotaTypeOK' /\ EnvTypeOK'
  BY StepSplits, FleetTypeStep, QuotaTypeStep, EnvTypeStep
<1> QED
  BY <1>1 DEF TypeOK, FleetTypeOK, QuotaTypeOK, EnvTypeOK

(* The collections keep the shapes proto/network/v1 declares: in           *)
(* particular no balance is overdrawn by the deauthorize fee, and the      *)
(* parameters in force are always ones Params.Validate accepts.            *)
THEOREM TypeCorrect == Spec => []TypeOK
<1> QED
  BY InitType, TypeStep, NextSplits, PTL DEF Spec

-----------------------------------------------------------------------------
(* Steps of the node collections                                           *)

NodeStep ==
  \/ \E key \in KeyAddresses, op \in Operators, node \in NodeAddresses, type \in NodeTypeIds :
       ActivateNode(key, op, node, type)
  \/ \E signer \in Address, node \in NodeAddresses : DeactivateNode(signer, node)
  \/ \E node \in NodeAddresses : HeartbeatStep(node)

(* The node collections change by a handler, at a standing clock and with  *)
(* standing licenses, or not at all.                                       *)
LEMMA NodeSplits ==
  ASSUME StoreStep
  PROVE  (NodeStep /\ UNCHANGED envVars) \/ UNCHANGED nodeVars
<1> USE DEF nodeVars
<1>1. FleetStep
  BY StepSplits
<1>2. NodeStep \/ UNCHANGED nodeVars
  BY <1>1 DEF FleetStep, NodeStep, CreateOperatorAccount, CreateNodeType,
              AuthorizeActivationKey, DeauthorizeActivationKey, UpdateParams, NewHolders, fleetVars
<1> QED
  BY <1>2 DEF StoreStep

(* What a step does to the node records, fields spelled out.               *)
LEMMA ActivationWrites ==
  ASSUME TypeOK, NEW key \in KeyAddresses, NEW op \in Operators, NEW node \in NodeAddresses,
         NEW type \in NodeTypeIds, ActivateNode(key, op, node, type)
  PROVE  /\ node \notin DOMAIN nodes
         /\ DOMAIN nodes' = DOMAIN nodes \cup {node}
         /\ \A n \in DOMAIN nodes : nodes'[n] = nodes[n]
         /\ nodes'[node].operator = op
         /\ nodes'[node].activatedBy = key
         /\ nodes'[node].type = type
         /\ nodes'[node].status = "active"
         /\ nodes'[node].lastActiveDay = Today
<1> DEFINE r == [operator |-> op, activatedBy |-> key, type |-> type,
                 status |-> "active", lastActiveDay |-> Today]
<1>1. node \notin DOMAIN nodes /\ nodes' = Put(nodes, node, r)
  BY DEF ActivateNode, NodeUnused
<1> HIDE DEF r
<1>2. /\ DOMAIN nodes' = DOMAIN nodes \cup {node}
      /\ nodes'[node] = r
      /\ \A n \in DOMAIN nodes \ {node} : nodes'[n] = nodes[n]
  BY <1>1 DEF Put
<1>3. /\ r.operator = op /\ r.activatedBy = key /\ r.type = type
      /\ r.status = "active" /\ r.lastActiveDay = Today
  BY DEF r
<1> QED
  BY <1>1, <1>2, <1>3

LEMMA DeactivationWrites ==
  ASSUME TypeOK, NEW signer \in Address, NEW node \in NodeAddresses, DeactivateNode(signer, node)
  PROVE  /\ node \in DOMAIN nodes /\ nodes[node].status = "active"
         /\ DOMAIN nodes' = DOMAIN nodes
         /\ \A n \in DOMAIN nodes : n # node => nodes'[n] = nodes[n]
         /\ nodes'[node].operator = nodes[node].operator
         /\ nodes'[node].activatedBy = nodes[node].activatedBy
         /\ nodes'[node].type = nodes[node].type
         /\ nodes'[node].status = "deactivated"
         /\ nodes'[node].lastActiveDay = nodes[node].lastActiveDay
<1>1. nodes \in [DOMAIN nodes -> NodeType] /\ node \in DOMAIN nodes
  BY DEF TypeOK, IsPartial, DeactivateNode, ActiveNode
<1>2. nodes[node] \in NodeType
  BY <1>1
<1>3. nodes' = [nodes EXCEPT ![node].status = "deactivated"]
  BY DEF DeactivateNode
<1>4. /\ DOMAIN nodes' = DOMAIN nodes
      /\ \A n \in DOMAIN nodes : n # node => nodes'[n] = nodes[n]
      /\ nodes'[node] = [nodes[node] EXCEPT !.status = "deactivated"]
  BY <1>1, <1>3
<1> QED
  BY <1>1, <1>2, <1>4 DEF NodeType, DeactivateNode, ActiveNode

LEMMA HeartbeatWrites ==
  ASSUME TypeOK, NEW node \in NodeAddresses, HeartbeatStep(node)
  PROVE  /\ node \in DOMAIN nodes /\ nodes[node].status = "active"
         /\ DOMAIN nodes' = DOMAIN nodes
         /\ \A n \in DOMAIN nodes : n # node => nodes'[n] = nodes[n]
         /\ nodes'[node].operator = nodes[node].operator
         /\ nodes'[node].activatedBy = nodes[node].activatedBy
         /\ nodes'[node].type = nodes[node].type
         /\ nodes'[node].status = "active"
         /\ nodes'[node].lastActiveDay = Today
<1>1. nodes \in [DOMAIN nodes -> NodeType] /\ node \in DOMAIN nodes
  BY DEF TypeOK, IsPartial, HeartbeatStep, ActiveNode
<1>2. nodes[node] \in NodeType
  BY <1>1
<1>3. nodes' = [nodes EXCEPT ![node].lastActiveDay = Today]
  BY DEF HeartbeatStep, TouchNodeActivity
<1>4. /\ DOMAIN nodes' = DOMAIN nodes
      /\ \A n \in DOMAIN nodes : n # node => nodes'[n] = nodes[n]
      /\ nodes'[node] = [nodes[node] EXCEPT !.lastActiveDay = Today]
  BY <1>1, <1>3
<1> QED
  BY <1>1, <1>2, <1>4 DEF NodeType, HeartbeatStep, ActiveNode

-----------------------------------------------------------------------------
(* The records are permanent                                               *)

(* No node was active on a day still to come; without it a heartbeat could *)
(* move a record back in time.                                             *)
DaysPast == \A n \in DOMAIN nodes : nodes[n].lastActiveDay <= Today

LEMMA TodayMonotone ==
  ASSUME TypeOK, StoreStep
  PROVE  Today \in Nat /\ Today' \in Nat /\ Today <= Today'
<1>1. now \in Nat /\ now' \in {now, now + 1}
  BY StepSplits, EnvTypeStep DEF TypeOK
<1>2. Day(now) \in Nat /\ Day(now') \in Nat /\ Day(now) <= Day(now')
  BY <1>1, DayType
<1>3. Today = Day(now) /\ Today' = Day(now')
  BY DEF Today, Day
<1> QED
  BY <1>2, <1>3

LEMMA NodesTyped ==
  ASSUME TypeOK
  PROVE  /\ DOMAIN nodes \subseteq NodeAddresses
         /\ \A n \in DOMAIN nodes :
              /\ nodes[n] \in NodeType
              /\ nodes[n].operator \in Operators
              /\ nodes[n].type \in NodeTypeIds
              /\ nodes[n].lastActiveDay \in Nat
              /\ nodes[n].status \in NodeStatuses
BY DEF TypeOK, IsPartial, NodeType

LEMMA DaysPastStep == TypeOK /\ DaysPast /\ StoreStep => DaysPast'
<1> SUFFICES ASSUME TypeOK, DaysPast, StoreStep,
                    NEW n \in DOMAIN nodes'
             PROVE  nodes'[n].lastActiveDay <= Today'
  BY DEF DaysPast
<1>1. Today \in Nat /\ Today' \in Nat /\ Today <= Today'
  BY TodayMonotone
<1>2. n \in DOMAIN nodes => nodes[n].lastActiveDay \in Nat /\ nodes[n].lastActiveDay <= Today
  BY NodesTyped DEF DaysPast
<1>3. CASE UNCHANGED nodeVars
  BY <1>1, <1>2, <1>3 DEF nodeVars
<1>4. CASE \E key \in KeyAddresses, op \in Operators, node \in NodeAddresses,
              type \in NodeTypeIds : ActivateNode(key, op, node, type)
  <2>1. PICK key \in KeyAddresses, op \in Operators, node \in NodeAddresses,
             type \in NodeTypeIds : ActivateNode(key, op, node, type)
    BY <1>4
  <2>2. /\ DOMAIN nodes' = DOMAIN nodes \cup {node}
        /\ \A m \in DOMAIN nodes : nodes'[m] = nodes[m]
        /\ nodes'[node].lastActiveDay = Today
    BY <2>1, ActivationWrites
  <2>3. CASE n = node
    BY <1>1, <2>2, <2>3
  <2>4. CASE n # node
    <3>1. n \in DOMAIN nodes /\ nodes'[n] = nodes[n]
      BY <2>2, <2>4
    <3> QED
      BY <1>1, <1>2, <3>1
  <2> QED
    BY <2>3, <2>4
<1>5. CASE \E signer \in Address, node \in NodeAddresses : DeactivateNode(signer, node)
  <2>1. PICK signer \in Address, node \in NodeAddresses : DeactivateNode(signer, node)
    BY <1>5
  <2>2. n \in DOMAIN nodes /\ nodes'[n].lastActiveDay = nodes[n].lastActiveDay
    BY <2>1, DeactivationWrites
  <2> QED
    BY <1>1, <1>2, <2>2
<1>6. CASE \E node \in NodeAddresses : HeartbeatStep(node)
  <2>1. PICK node \in NodeAddresses : HeartbeatStep(node)
    BY <1>6
  <2>2. n \in DOMAIN nodes /\ nodes'[n].lastActiveDay \in {nodes[n].lastActiveDay, Today}
    BY <2>1, HeartbeatWrites
  <2> QED
    BY <1>1, <1>2, <2>2
<1> QED
  BY <1>3, <1>4, <1>5, <1>6, NodeSplits DEF NodeStep

LEMMA NodesKept ==
  ASSUME TypeOK, DaysPast, StoreStep, NEW n \in DOMAIN nodes
  PROVE  NodeRecordKept(n)
<1>1. Today \in Nat /\ nodes[n].lastActiveDay \in Nat /\ nodes[n].lastActiveDay <= Today
  BY TodayMonotone, NodesTyped DEF DaysPast
<1>2. CASE UNCHANGED nodeVars
  BY <1>1, <1>2 DEF nodeVars, NodeRecordKept
<1>3. CASE \E key \in KeyAddresses, op \in Operators, node \in NodeAddresses,
              type \in NodeTypeIds : ActivateNode(key, op, node, type)
  <2>1. PICK key \in KeyAddresses, op \in Operators, node \in NodeAddresses,
             type \in NodeTypeIds : ActivateNode(key, op, node, type)
    BY <1>3
  <2>2. n \in DOMAIN nodes' /\ nodes'[n] = nodes[n]
    BY <2>1, ActivationWrites
  <2> QED
    BY <1>1, <2>2 DEF NodeRecordKept
<1>4. CASE \E signer \in Address, node \in NodeAddresses : DeactivateNode(signer, node)
  <2>1. PICK signer \in Address, node \in NodeAddresses : DeactivateNode(signer, node)
    BY <1>4
  <2>2. CASE n = node
    BY <1>1, <2>1, <2>2, DeactivationWrites DEF NodeRecordKept
  <2>3. CASE n # node
    BY <1>1, <2>1, <2>3, DeactivationWrites DEF NodeRecordKept
  <2> QED
    BY <2>2, <2>3
<1>5. CASE \E node \in NodeAddresses : HeartbeatStep(node)
  <2>1. PICK node \in NodeAddresses : HeartbeatStep(node)
    BY <1>5
  <2>2. CASE n = node
    BY <1>1, <2>1, <2>2, HeartbeatWrites DEF NodeRecordKept
  <2>3. CASE n # node
    BY <1>1, <2>1, <2>3, HeartbeatWrites DEF NodeRecordKept
  <2> QED
    BY <2>2, <2>3
<1> QED
  BY <1>2, <1>3, <1>4, <1>5, NodeSplits DEF NodeStep

LEMMA KeysAndTypesKept ==
  ASSUME TypeOK, StoreStep
  PROVE  /\ \A k \in DOMAIN activationKeys : KeyRecordKept(k)
         /\ \A t \in DOMAIN nodeTypes : BindingKept(t)
<1>0. FleetStep /\ activationKeys \in [DOMAIN activationKeys -> KeyType]
  BY StepSplits DEF TypeOK, IsPartial
<1>1. CASE \E op \in Operators, key \in KeyAddresses : AuthorizeActivationKey(op, key)
  <2>1. PICK op \in Operators, key \in KeyAddresses : AuthorizeActivationKey(op, key)
    BY <1>1
  <2> DEFINE r == [operator |-> op, createdAt |-> now, status |-> "active"]
  <2>2. key \notin DOMAIN activationKeys /\ activationKeys' = Put(activationKeys, key, r)
    BY <2>1 DEF AuthorizeActivationKey, KeyUnused
  <2> HIDE DEF r
  <2>3. \A k \in DOMAIN activationKeys :
          k \in DOMAIN activationKeys' /\ activationKeys'[k] = activationKeys[k]
    BY <2>2 DEF Put
  <2> QED
    BY <2>1, <2>3 DEF AuthorizeActivationKey, KeyRecordKept, BindingKept, registryVars
<1>2. CASE \E op \in Operators, key \in KeyAddresses : DeauthorizeActivationKey(op, key)
  <2>1. PICK op \in Operators, key \in KeyAddresses : DeauthorizeActivationKey(op, key)
    BY <1>2
  <2>2. key \in DOMAIN activationKeys /\ activationKeys[key] \in KeyType
    BY <1>0, <2>1 DEF DeauthorizeActivationKey, ActiveKey
  <2>3. /\ DOMAIN activationKeys' = DOMAIN activationKeys
        /\ \A k \in DOMAIN activationKeys : k # key => activationKeys'[k] = activationKeys[k]
        /\ activationKeys'[key] = [activationKeys[key] EXCEPT !.status = "disabled"]
    BY <1>0, <2>1, <2>2 DEF DeauthorizeActivationKey
  <2>4. \A k \in DOMAIN activationKeys : KeyRecordKept(k)
    BY <2>2, <2>3 DEF KeyRecordKept, KeyType
  <2> QED
    BY <2>1, <2>4 DEF DeauthorizeActivationKey, BindingKept, registryVars
<1>3. CASE \E creator \in Admins, id \in NodeTypeIds, lt \in LicenseTypeIds :
             CreateNodeType(creator, id, lt)
  <2>1. PICK creator \in Admins, id \in NodeTypeIds, lt \in LicenseTypeIds :
               CreateNodeType(creator, id, lt)
    BY <1>3
  <2>2. id \notin DOMAIN nodeTypes /\ nodeTypes' = Put(nodeTypes, id, lt)
    BY <2>1 DEF CreateNodeType, BindingFree
  <2>3. \A t \in DOMAIN nodeTypes : t \in DOMAIN nodeTypes' /\ nodeTypes'[t] = nodeTypes[t]
    BY <2>2 DEF Put
  <2> QED
    BY <2>1, <2>3 DEF CreateNodeType, KeyRecordKept, BindingKept, keyVars
<1>4. CASE UNCHANGED <<registryVars, keyVars>>
  BY <1>4 DEF registryVars, keyVars, KeyRecordKept, BindingKept
<1>5. UNCHANGED <<registryVars, keyVars>>
        \/ (\E op \in Operators, key \in KeyAddresses : AuthorizeActivationKey(op, key))
        \/ (\E op \in Operators, key \in KeyAddresses : DeauthorizeActivationKey(op, key))
        \/ (\E creator \in Admins, id \in NodeTypeIds, lt \in LicenseTypeIds :
              CreateNodeType(creator, id, lt))
  <2> USE DEF registryVars, keyVars
  <2>1. CASE \E key \in KeyAddresses, op \in Operators, node \in NodeAddresses,
                type \in NodeTypeIds : ActivateNode(key, op, node, type)
    BY <2>1 DEF ActivateNode
  <2>2. CASE \E signer \in Address, node \in NodeAddresses : DeactivateNode(signer, node)
    BY <2>2 DEF DeactivateNode
  <2>3. CASE \E node \in NodeAddresses : HeartbeatStep(node)
    BY <2>3 DEF HeartbeatStep
  <2>4. CASE UNCHANGED fleetVars
    BY <2>4 DEF fleetVars
  <2>5. CASE \E admin \in Admins, wallet \in Address : CreateOperatorAccount(admin, wallet)
    BY <2>5 DEF CreateOperatorAccount
  <2>6. CASE \/ \E p \in ParamChoices : UpdateParams(p)
             \/ \E holders \in SUBSET Operators : NewHolders(holders)
    BY <2>6 DEF UpdateParams, NewHolders
  <2> QED
    BY <1>0, <2>1, <2>2, <2>3, <2>4, <2>5, <2>6 DEF FleetStep
<1> QED
  BY <1>1, <1>2, <1>3, <1>4, <1>5

(* Whatever operators, keys, nodes and governance do, a node, key or node  *)
(* type record is never removed, rebound or revived: its address stays     *)
(* burned (keeper.go, "single-use").                                       *)
THEOREM RecordsPermanent == Spec => RecordsArePermanent
<1> DEFINE Kept == /\ \A n \in DOMAIN nodes : NodeRecordKept(n)
                   /\ \A k \in DOMAIN activationKeys : KeyRecordKept(k)
                   /\ \A t \in DOMAIN nodeTypes : BindingKept(t)
<1>1. Init => DaysPast
  BY DEF Init, EmptyMap, DaysPast
<1>2. TypeOK /\ DaysPast /\ StoreStep => Kept
  BY NodesKept, KeysAndTypesKept
<1> HIDE DEF Kept
<1>3. Spec => [][Kept]_vars
  BY <1>1, <1>2, TypeCorrect, DaysPastStep, NextSplits, PTL DEF Spec
<1> QED
  BY <1>3 DEF RecordsArePermanent, Kept

-----------------------------------------------------------------------------
(* The recent-activity index                                               *)

LEMMA IndexStep == TypeOK /\ RecentIndexExact /\ StoreStep => RecentIndexExact'
<1> SUFFICES ASSUME TypeOK, RecentIndexExact, StoreStep
             PROVE  recentNodeActivity' =
                      {<<nodes'[n].operator, nodes'[n].type, nodes'[n].lastActiveDay, n>> :
                         n \in DOMAIN nodes'}
  BY DEF RecentIndexExact, RebuiltRecentActivity
<1>0. recentNodeActivity =
        {<<nodes[n].operator, nodes[n].type, nodes[n].lastActiveDay, n>> : n \in DOMAIN nodes}
  BY DEF RecentIndexExact, RebuiltRecentActivity
<1>1. CASE UNCHANGED nodeVars
  BY <1>0, <1>1 DEF nodeVars
<1>2. CASE \E key \in KeyAddresses, op \in Operators, node \in NodeAddresses,
              type \in NodeTypeIds : ActivateNode(key, op, node, type)
  <2>1. PICK key \in KeyAddresses, op \in Operators, node \in NodeAddresses,
             type \in NodeTypeIds : ActivateNode(key, op, node, type)
    BY <1>2
  <2>2. recentNodeActivity' = recentNodeActivity \cup {<<op, type, Today, node>>}
    BY <2>1 DEF ActivateNode
  <2>3. /\ DOMAIN nodes' = DOMAIN nodes \cup {node}
        /\ \A n \in DOMAIN nodes : nodes'[n] = nodes[n]
        /\ nodes'[node].operator = op
        /\ nodes'[node].type = type
        /\ nodes'[node].lastActiveDay = Today
    BY <2>1, ActivationWrites
  <2> QED
    BY <1>0, <2>2, <2>3
<1>3. CASE \E signer \in Address, node \in NodeAddresses : DeactivateNode(signer, node)
  <2>1. PICK signer \in Address, node \in NodeAddresses : DeactivateNode(signer, node)
    BY <1>3
  <2>2. recentNodeActivity' = recentNodeActivity
    BY <2>1 DEF DeactivateNode
  <2>3. /\ DOMAIN nodes' = DOMAIN nodes
        /\ \A n \in DOMAIN nodes : /\ nodes'[n].operator = nodes[n].operator
                                   /\ nodes'[n].type = nodes[n].type
                                   /\ nodes'[n].lastActiveDay = nodes[n].lastActiveDay
    BY <2>1, DeactivationWrites
  <2> QED
    BY <1>0, <2>2, <2>3
<1>4. CASE \E node \in NodeAddresses : HeartbeatStep(node)
  <2>1. PICK node \in NodeAddresses : HeartbeatStep(node)
    BY <1>4
  <2> DEFINE r == nodes[node]
             old == <<r.operator, r.type, r.lastActiveDay, node>>
             new == <<r.operator, r.type, Today, node>>
  <2>2. recentNodeActivity' = IF r.lastActiveDay = Today THEN recentNodeActivity
                              ELSE (recentNodeActivity \ {old}) \cup {new}
    BY <2>1 DEF HeartbeatStep, TouchNodeActivity
  <2>3. /\ node \in DOMAIN nodes
        /\ DOMAIN nodes' = DOMAIN nodes
        /\ \A n \in DOMAIN nodes : n # node => nodes'[n] = nodes[n]
        /\ nodes'[node].operator = r.operator
        /\ nodes'[node].type = r.type
        /\ nodes'[node].lastActiveDay = Today
    BY <2>1, HeartbeatWrites
  <2>4. recentNodeActivity' = (recentNodeActivity \ {old}) \cup {new}
    BY <1>0, <2>2, <2>3
  <2> QED
    BY <1>0, <2>3, <2>4
<1> QED
  BY <1>1, <1>2, <1>3, <1>4, NodeSplits DEF NodeStep

(* invariants.go, CheckRecentNodeActivity: every node has exactly one      *)
(* entry in the recent-activity index, in the bucket of its last day.      *)
THEOREM IndexExact == Spec => []RecentIndexExact
<1>1. Init => RecentIndexExact
  BY DEF Init, EmptyMap, RecentIndexExact, RebuiltRecentActivity
<1> QED
  BY <1>1, TypeCorrect, IndexStep, NextSplits, PTL DEF Spec

-----------------------------------------------------------------------------
(* The tallies                                                             *)

(* Only finitely many nodes were ever activated: cardinalities count them. *)
NodesFinite == IsFiniteSet(DOMAIN nodes)

LEMMA NodesFiniteStep == TypeOK /\ NodesFinite /\ StoreStep => NodesFinite'
<1> SUFFICES ASSUME TypeOK, NodesFinite, StoreStep PROVE IsFiniteSet(DOMAIN nodes')
  BY DEF NodesFinite
<1>1. DOMAIN nodes' = DOMAIN nodes \/ \E node : DOMAIN nodes' = DOMAIN nodes \cup {node}
  <2>1. CASE UNCHANGED nodeVars
    BY <2>1 DEF nodeVars
  <2>2. CASE \E key \in KeyAddresses, op \in Operators, node \in NodeAddresses,
                type \in NodeTypeIds : ActivateNode(key, op, node, type)
    BY <2>2, ActivationWrites
  <2>3. CASE \E signer \in Address, node \in NodeAddresses : DeactivateNode(signer, node)
    BY <2>3, DeactivationWrites
  <2>4. CASE \E node \in NodeAddresses : HeartbeatStep(node)
    BY <2>4, HeartbeatWrites
  <2> QED
    BY <2>1, <2>2, <2>3, <2>4, NodeSplits DEF NodeStep
<1> QED
  BY <1>1, FS_AddElement DEF NodesFinite

LEMMA SetsFinite ==
  ASSUME NodesFinite, NEW op, NEW type
  PROVE  /\ IsFiniteSet(NodesOf(op, type)) /\ Cardinality(NodesOf(op, type)) \in Nat
         /\ IsFiniteSet(ActiveOf(op, type)) /\ Cardinality(ActiveOf(op, type)) \in Nat
         /\ IsFiniteSet(RecentOf(op, type)) /\ Cardinality(RecentOf(op, type)) \in Nat
         /\ Cardinality(RecentOf(op, type)) <= Cardinality(NodesOf(op, type))
<1>1. /\ NodesOf(op, type) \in SUBSET DOMAIN nodes
      /\ ActiveOf(op, type) \in SUBSET NodesOf(op, type)
      /\ RecentOf(op, type) \in SUBSET NodesOf(op, type)
  BY DEF NodesOf, ActiveOf, RecentOf
<1>2. IsFiniteSet(NodesOf(op, type))
  BY <1>1, FS_Subset DEF NodesFinite
<1>3. /\ IsFiniteSet(ActiveOf(op, type)) /\ IsFiniteSet(RecentOf(op, type))
      /\ Cardinality(RecentOf(op, type)) <= Cardinality(NodesOf(op, type))
  BY <1>1, <1>2, FS_Subset
<1> QED
  BY <1>2, <1>3, FS_CardinalityType

(* What a step does to the sets the tallies count.                         *)
LEMMA ActivationSets ==
  ASSUME TypeOK, NEW key \in KeyAddresses, NEW op \in Operators, NEW node \in NodeAddresses,
         NEW type \in NodeTypeIds, ActivateNode(key, op, node, type), NEW o, NEW t
  PROVE  /\ node \notin NodesOf(o, t)
         /\ <<o, t>> = <<op, type>> =>
              /\ NodesOf(o, t)' = NodesOf(o, t) \cup {node}
              /\ ActiveOf(o, t)' = ActiveOf(o, t) \cup {node}
         /\ <<o, t>> # <<op, type>> =>
              NodesOf(o, t)' = NodesOf(o, t) /\ ActiveOf(o, t)' = ActiveOf(o, t)
<1>1. /\ node \notin DOMAIN nodes
      /\ DOMAIN nodes' = DOMAIN nodes \cup {node}
      /\ \A n \in DOMAIN nodes : nodes'[n] = nodes[n]
      /\ nodes'[node].operator = op /\ nodes'[node].type = type
      /\ nodes'[node].status = "active"
  BY ActivationWrites
<1> QED
  BY <1>1 DEF NodesOf, ActiveOf

LEMMA DeactivationSets ==
  ASSUME TypeOK, NEW signer \in Address, NEW node \in NodeAddresses,
         DeactivateNode(signer, node), NEW o, NEW t
  PROVE  /\ NodesOf(o, t)' = NodesOf(o, t)
         /\ <<o, t>> = <<nodes[node].operator, nodes[node].type>> =>
              node \in ActiveOf(o, t) /\ ActiveOf(o, t)' = ActiveOf(o, t) \ {node}
         /\ <<o, t>> # <<nodes[node].operator, nodes[node].type>> =>
              ActiveOf(o, t)' = ActiveOf(o, t)
<1>1. /\ node \in DOMAIN nodes /\ nodes[node].status = "active"
      /\ DOMAIN nodes' = DOMAIN nodes
      /\ \A n \in DOMAIN nodes : n # node => nodes'[n] = nodes[n]
      /\ nodes'[node].operator = nodes[node].operator
      /\ nodes'[node].type = nodes[node].type
      /\ nodes'[node].status = "deactivated"
  BY DeactivationWrites
<1> QED
  BY <1>1 DEF NodesOf, ActiveOf

LEMMA HeartbeatSets ==
  ASSUME TypeOK, NEW node \in NodeAddresses, HeartbeatStep(node), NEW o, NEW t
  PROVE  NodesOf(o, t)' = NodesOf(o, t) /\ ActiveOf(o, t)' = ActiveOf(o, t)
<1>1. /\ node \in DOMAIN nodes /\ nodes[node].status = "active"
      /\ DOMAIN nodes' = DOMAIN nodes
      /\ \A n \in DOMAIN nodes : n # node => nodes'[n] = nodes[n]
      /\ nodes'[node].operator = nodes[node].operator
      /\ nodes'[node].type = nodes[node].type
      /\ nodes'[node].status = "active"
  BY HeartbeatWrites
<1> QED
  BY <1>1 DEF NodesOf, ActiveOf

LEMMA TallyStep ==
  TypeOK /\ NodesFinite /\ TalliesMatchNodes /\ StoreStep => TalliesMatchNodes'
<1> SUFFICES ASSUME TypeOK, NodesFinite, TalliesMatchNodes, StoreStep,
                    NEW o \in Operators, NEW t \in NodeTypeIds
             PROVE  NodeCounts(o, t)' = [total  |-> Cardinality(NodesOf(o, t)'),
                                         active |-> Cardinality(ActiveOf(o, t)')]
  BY DEF TalliesMatchNodes
<1> DEFINE total == Cardinality(NodesOf(o, t))
           active == Cardinality(ActiveOf(o, t))
<1>0. /\ NodeCounts(o, t) = [total |-> total, active |-> active]
      /\ IsFiniteSet(NodesOf(o, t)) /\ total \in Nat
      /\ IsFiniteSet(ActiveOf(o, t)) /\ active \in Nat
  BY SetsFinite DEF TalliesMatchNodes
<1>1. CASE UNCHANGED nodeVars
  <2>1. NodeCounts(o, t)' = NodeCounts(o, t)
    BY <1>1 DEF nodeVars, NodeCounts
  <2>2. NodesOf(o, t)' = NodesOf(o, t) /\ ActiveOf(o, t)' = ActiveOf(o, t)
    BY <1>1 DEF nodeVars, NodesOf, ActiveOf
  <2> QED
    BY <1>0, <2>1, <2>2
<1>2. CASE \E key \in KeyAddresses, op \in Operators, node \in NodeAddresses,
              type \in NodeTypeIds : ActivateNode(key, op, node, type)
  <2>1. PICK key \in KeyAddresses, op \in Operators, node \in NodeAddresses,
             type \in NodeTypeIds : ActivateNode(key, op, node, type)
    BY <1>2
  <2>2. operatorNodeCounts' = Put(operatorNodeCounts, <<op, type>>,
          [total |-> NodeCounts(op, type).total + 1, active |-> NodeCounts(op, type).active + 1])
    BY <2>1 DEF ActivateNode
  <2>3. CASE <<o, t>> = <<op, type>>
    <3>1. NodeCounts(o, t)' = [total |-> total + 1, active |-> active + 1]
      BY <1>0, <2>2, <2>3 DEF NodeCounts, Put
    <3>2. /\ NodesOf(o, t)' = NodesOf(o, t) \cup {node} /\ node \notin NodesOf(o, t)
          /\ ActiveOf(o, t)' = ActiveOf(o, t) \cup {node} /\ node \notin ActiveOf(o, t)
      BY <2>1, <2>3, ActivationSets DEF ActiveOf
    <3>3. Cardinality(NodesOf(o, t)') = total + 1 /\ Cardinality(ActiveOf(o, t)') = active + 1
      BY <1>0, <3>2, FS_AddElement
    <3> QED
      BY <3>1, <3>3
  <2>4. CASE <<o, t>> # <<op, type>>
    <3>1. NodeCounts(o, t)' = NodeCounts(o, t)
      BY <2>2, <2>4 DEF NodeCounts, Put
    <3>2. NodesOf(o, t)' = NodesOf(o, t) /\ ActiveOf(o, t)' = ActiveOf(o, t)
      BY <2>1, <2>4, ActivationSets
    <3> QED
      BY <1>0, <3>1, <3>2
  <2> QED
    BY <2>3, <2>4
<1>3. CASE \E signer \in Address, node \in NodeAddresses : DeactivateNode(signer, node)
  <2>1. PICK signer \in Address, node \in NodeAddresses : DeactivateNode(signer, node)
    BY <1>3
  <2> DEFINE op == nodes[node].operator  type == nodes[node].type
  <2>2. operatorNodeCounts' = Put(operatorNodeCounts, <<op, type>>,
          [NodeCounts(op, type) EXCEPT !.active = IF @ > 0 THEN @ - 1 ELSE @])
    BY <2>1 DEF DeactivateNode, OneActiveLess
  <2>3. CASE <<o, t>> = <<op, type>>
    <3>1. NodesOf(o, t)' = NodesOf(o, t)
      BY <2>1, DeactivationSets
    <3>2. node \in ActiveOf(o, t) /\ ActiveOf(o, t)' = ActiveOf(o, t) \ {node}
      BY <2>1, <2>3, DeactivationSets
    <3>3. Cardinality(ActiveOf(o, t)') = active - 1 /\ active > 0
      BY <1>0, <3>2, FS_RemoveElement, FS_EmptySet
    <3>4. op = o /\ type = t
      BY <2>3
    <3> HIDE DEF op, type, total, active
    <3>5. NodeCounts(o, t)' = [NodeCounts(o, t) EXCEPT !.active = IF @ > 0 THEN @ - 1 ELSE @]
      BY <2>2, <3>4 DEF NodeCounts, Put
    <3>6. NodeCounts(o, t)' = [total |-> total, active |-> active - 1]
      BY <1>0, <3>3, <3>5
    <3> QED
      BY <3>1, <3>3, <3>6 DEF total
  <2>4. CASE <<o, t>> # <<op, type>>
    <3>1. NodesOf(o, t)' = NodesOf(o, t) /\ ActiveOf(o, t)' = ActiveOf(o, t)
      BY <2>1, <2>4, DeactivationSets
    <3> HIDE DEF op, type
    <3>2. NodeCounts(o, t)' = NodeCounts(o, t)
      BY <2>2, <2>4 DEF NodeCounts, Put
    <3> QED
      BY <1>0, <3>1, <3>2
  <2> QED
    BY <2>3, <2>4
<1>4. CASE \E node \in NodeAddresses : HeartbeatStep(node)
  <2>1. NodesOf(o, t)' = NodesOf(o, t) /\ ActiveOf(o, t)' = ActiveOf(o, t)
    BY <1>4, HeartbeatSets
  <2>2. NodeCounts(o, t)' = NodeCounts(o, t)
    BY <1>4 DEF HeartbeatStep, NodeCounts
  <2> QED
    BY <1>0, <2>1, <2>2
<1> QED
  BY <1>1, <1>2, <1>3, <1>4, NodeSplits DEF NodeStep

(* What every activation and the counts query rely on: the records are     *)
(* finitely many, and both denormalized views of them are exact.           *)
NodeIndexes == TypeOK /\ NodesFinite /\ RecentIndexExact /\ TalliesMatchNodes

LEMMA NodeIndexesInit == Init => NodeIndexes
<1> SUFFICES ASSUME Init PROVE NodeIndexes
  OBVIOUS
<1>1. DOMAIN nodes = {} /\ DOMAIN operatorNodeCounts = {} /\ recentNodeActivity = {}
  BY DEF Init, EmptyMap
<1>2. \A o, t : NodesOf(o, t) = {} /\ ActiveOf(o, t) = {}
  BY <1>1 DEF NodesOf, ActiveOf
<1> QED
  BY <1>1, <1>2, InitType, FS_EmptySet
  DEF NodeIndexes, NodesFinite, TalliesMatchNodes, NodeCounts, RecentIndexExact,
      RebuiltRecentActivity

LEMMA NodeIndexesStep == NodeIndexes /\ StoreStep => NodeIndexes'
BY TypeStep, NodesFiniteStep, IndexStep, TallyStep DEF NodeIndexes

LEMMA NodeIndexesHold == Spec => []NodeIndexes
BY NodeIndexesInit, NodeIndexesStep, NextSplits, PTL DEF Spec

(* invariants.go, CheckOperatorNodeCounts: the stored tallies are the node *)
(* counts of the records, so the saturating decrement never saturates.     *)
THEOREM TalliesExact == Spec => []TalliesMatchNodes
<1> QED
  BY NodeIndexesHold, PTL DEF NodeIndexes

-----------------------------------------------------------------------------
(* The verdict on an activation                                            *)

(* Under every parameter set governance can choose, the license limits of  *)
(* the largest holder fit a uint64.  Params.Validate does not ensure this; *)
(* without it the verdict can be wrong.                                    *)
NoOverflow ==
  \A p \in ParamChoices \cup {GenesisParams} :
    ValidParams(p) => p.SpamLimitMultiplier * MaxLicenses < WordSize

LicensesBounded ==
  /\ params \in ParamChoices \cup {GenesisParams}
  /\ \A op \in Operators, lt \in LicenseTypeIds : licenses[op][lt] \in 0 .. MaxLicenses

LEMMA LicensesBoundedStep == TypeOK /\ LicensesBounded /\ StoreStep => LicensesBounded'
<1> SUFFICES ASSUME TypeOK, LicensesBounded, StoreStep PROVE LicensesBounded'
  OBVIOUS
<1>1. FleetStep /\ EnvStep
  BY StepSplits
<1>2. params' \in ParamChoices \cup {GenesisParams}
  BY <1>1 DEF FleetStep, CreateOperatorAccount, CreateNodeType, AuthorizeActivationKey,
              DeauthorizeActivationKey, ActivateNode, DeactivateNode, HeartbeatStep, UpdateParams,
              NewHolders, fleetVars, LicensesBounded
<1>3. \A op \in Operators, lt \in LicenseTypeIds : licenses'[op][lt] \in 0 .. MaxLicenses
  <2>0. licenses \in [Operators -> [LicenseTypeIds -> Nat]]
    BY DEF TypeOK
  <2>1. CASE \E batch \in Batches : IssueLicenses(batch)
    BY <2>0, <2>1, IssuedBounds, BoundAssumption DEF IssueLicenses, LicensesBounded
  <2>3. CASE \E op \in Operators, lt \in LicenseTypeIds, count \in 1 .. MaxLicenses :
               RevokeLicenses(op, lt, count)
    BY <2>0, <2>3, BoundAssumption DEF RevokeLicenses, LicensesBounded
  <2>2. CASE UNCHANGED licenses
    BY <2>2 DEF LicensesBounded
  <2> QED
    BY <1>1, <2>1, <2>2, <2>3 DEF EnvStep, CreateLicenseType, ChangeGrants, AdvanceTime, envVars
<1> QED
  BY <1>2, <1>3 DEF LicensesBounded

LEMMA RecentEntriesExact ==
  ASSUME NodeIndexes, NEW op, NEW type
  PROVE  RecentEntries(op, type) = RecentOf(op, type)
<1>1. DOMAIN nodes \subseteq NodeAddresses
  BY NodesTyped DEF NodeIndexes
<1>2. recentNodeActivity =
        {<<nodes[n].operator, nodes[n].type, nodes[n].lastActiveDay, n>> : n \in DOMAIN nodes}
  BY DEF NodeIndexes, RecentIndexExact, RebuiltRecentActivity
<1> QED
  BY <1>1, <1>2 DEF RecentEntries, RecentOf, NodesOf

(* What an operator holds of the type that backs a node type.              *)
LEMMA HoldingType ==
  ASSUME TypeOK, LicensesBounded, NEW op \in Operators, NEW type \in DOMAIN nodeTypes
  PROVE  LET held == licenses[op][nodeTypes[type]]
         IN  ValidMultipliers(params) /\ held \in Nat /\ held <= MaxLicenses
<1>1. nodeTypes[type] \in LicenseTypeIds
  BY DEF TypeOK, IsPartial
<1> QED
  BY <1>1, BoundAssumption DEF LicensesBounded, TypeOK, ValidParams

(* The ceiling it gives fits a uint64.                                     *)
LEMMA HoldingFits ==
  ASSUME NoOverflow, TypeOK, LicensesBounded,
         NEW op \in Operators, NEW type \in DOMAIN nodeTypes
  PROVE  params.SpamLimitMultiplier * licenses[op][nodeTypes[type]] < WordSize
<1> DEFINE held == licenses[op][nodeTypes[type]]
           spam == params.SpamLimitMultiplier
           a    == spam * held
           b    == spam * MaxLicenses
<1>1. held \in Nat /\ held <= MaxLicenses
  BY HoldingType
<1>2. spam \in Nat /\ b < WordSize
  BY WordAssumption DEF TypeOK, ValidParams, ValidMultipliers, LicensesBounded, NoOverflow
<1> HIDE DEF held, spam
<1>3. a \in Nat /\ b \in Nat /\ a <= b
  BY <1>1, <1>2, BoundAssumption, ProductMonotone
<1> HIDE DEF a, b
<1>4. a < WordSize
  BY <1>2, <1>3, WordAssumption
<1> QED
  BY <1>4 DEF a, held, spam

(* What the handler reads for one operator and one node type.              *)
LEMMA VerdictArguments ==
  ASSUME NodeIndexes, LicensesBounded, NEW op \in Operators, NEW type \in DOMAIN nodeTypes
  PROVE  LET held   == licenses[op][nodeTypes[type]]
             counts == NodeCounts(op, type)
             total  == Cardinality(NodesOf(op, type))
             active == Cardinality(ActiveOf(op, type))
             recent == Cardinality(RecentOf(op, type))
         IN  /\ ValidMultipliers(params) /\ held \in Nat
             /\ total \in Nat /\ active \in Nat /\ recent \in Nat /\ recent <= total
             /\ counts.total = total /\ counts.active = active
             /\ Cardinality(RecentEntries(op, type)) = recent
<1>1. type \in NodeTypeIds
  BY DEF NodeIndexes, TypeOK, IsPartial
<1>2. ValidMultipliers(params) /\ licenses[op][nodeTypes[type]] \in Nat
  BY HoldingType DEF NodeIndexes
<1>3. /\ Cardinality(NodesOf(op, type)) \in Nat
      /\ Cardinality(ActiveOf(op, type)) \in Nat
      /\ Cardinality(RecentOf(op, type)) \in Nat
      /\ Cardinality(RecentOf(op, type)) <= Cardinality(NodesOf(op, type))
  BY SetsFinite DEF NodeIndexes
<1>4. NodeCounts(op, type) = [total  |-> Cardinality(NodesOf(op, type)),
                              active |-> Cardinality(ActiveOf(op, type))]
  BY <1>1 DEF NodeIndexes, TalliesMatchNodes
<1>5. Cardinality(RecentEntries(op, type)) = Cardinality(RecentOf(op, type))
  BY RecentEntriesExact
<1> QED
  BY <1>2, <1>3, <1>4, <1>5

VerdictInv == NodeIndexes /\ LicensesBounded

LEMMA VerdictInvHolds == Spec => []VerdictInv
<1>1. Init => LicensesBounded
  BY GenesisAssumption DEF Init, LicensesBounded
<1> QED
  BY <1>1, TypeCorrect, NodeIndexesHold, LicensesBoundedStep, NextSplits, PTL
  DEF Spec, VerdictInv

LEMMA VerdictFollows ==
  ASSUME NoOverflow, VerdictInv
  PROVE  VerdictFaithful
<1> SUFFICES ASSUME NEW op \in Operators, NEW type \in DOMAIN nodeTypes
             PROVE  BoundedVerdict(params, NodeCounts(op, type).total,
                                   NodeCounts(op, type).active,
                                   Cardinality(RecentEntries(op, type)),
                                   licenses[op][nodeTypes[type]])
                      = DocumentedVerdict(params, Cardinality(NodesOf(op, type)),
                                          Cardinality(ActiveOf(op, type)),
                                          Cardinality(RecentOf(op, type)),
                                          licenses[op][nodeTypes[type]])
  BY DEF VerdictFaithful
<1> DEFINE held   == licenses[op][nodeTypes[type]]
           total  == Cardinality(NodesOf(op, type))
           active == Cardinality(ActiveOf(op, type))
           recent == Cardinality(RecentOf(op, type))
<1>1. /\ ValidMultipliers(params) /\ held \in Nat
      /\ total \in Nat /\ active \in Nat /\ recent \in Nat
      /\ NodeCounts(op, type).total = total /\ NodeCounts(op, type).active = active
      /\ Cardinality(RecentEntries(op, type)) = recent
  BY VerdictArguments DEF VerdictInv
<1>2. params.SpamLimitMultiplier * held < WordSize
  BY HoldingFits DEF VerdictInv, NodeIndexes
<1> HIDE DEF held, total, active, recent
<1>3. BoundedVerdict(params, total, active, recent, held)
        = DocumentedVerdict(params, total, active, recent, held)
  BY <1>1, <1>2, BoundedVerdictFaithful
<1> QED
  BY <1>1, <1>3 DEF held, total, active, recent

(* msg_server_activate_node.go: as long as the limits fit a uint64, the    *)
(* verdict the handler reads off its tallies, its index and a bounded      *)
(* license walk is the documented one for the records and the full count.  *)
THEOREM ActivationVerdictExact ==
  ASSUME NoOverflow
  PROVE  Spec => []VerdictFaithful
<1>1. VerdictInv => VerdictFaithful
  BY VerdictFollows
<1> QED
  BY <1>1, VerdictInvHolds, PTL

(* admission.go, consumeActivateQuota: as long as the limits fit a uint64, *)
(* the ante check admits the attempts within the documented ceiling and    *)
(* no other, for every operator and every node type.                       *)
THEOREM ActivateQuotaExact ==
  ASSUME NoOverflow
  PROVE  Spec => []ActivateQuotaFaithful
<1>1. VerdictInv => ActivateQuotaFaithful
  <2> SUFFICES ASSUME VerdictInv, NEW op \in Operators, NEW type \in DOMAIN nodeTypes,
                      NEW attempts \in 1 .. params.SpamLimitMultiplier * MaxLicenses + 1
               PROVE  WithinActivateQuota(params, attempts, licenses[op][nodeTypes[type]])
                        <=> attempts <= params.SpamLimitMultiplier * licenses[op][nodeTypes[type]]
    BY DEF ActivateQuotaFaithful
  <2> DEFINE held == licenses[op][nodeTypes[type]]
  <2>1. ValidMultipliers(params) /\ held \in Nat /\ params.SpamLimitMultiplier * held < WordSize
    BY HoldingType, HoldingFits DEF VerdictInv, NodeIndexes
  <2>2. attempts \in Nat
    OBVIOUS
  <2> HIDE DEF held
  <2>3. WithinActivateQuota(params, attempts, held)
          <=> attempts <= params.SpamLimitMultiplier * held
    BY <2>1, <2>2, BoundedQuotaFaithful
  <2> QED
    BY <2>3 DEF held
<1> QED
  BY <1>1, VerdictInvHolds, PTL

(* query_server.go, NodeCounts: as long as the limits fit a uint64, what a *)
(* client computes from the answer is the verdict of the handler, although *)
(* the query counts every license and the handler stops at the decisive    *)
(* one.                                                                    *)
THEOREM PreCheckExact ==
  ASSUME NoOverflow
  PROVE  Spec => []PreCheckForetells
<1>1. VerdictInv => PreCheckForetells
  <2> SUFFICES ASSUME VerdictInv, NEW op \in Operators, NEW type \in DOMAIN nodeTypes
               PROVE  PreCheck(NodeTypeCounts(op, type))
                        = BoundedVerdict(params, NodeCounts(op, type).total,
                                         NodeCounts(op, type).active,
                                         Cardinality(RecentEntries(op, type)),
                                         BackingLicenses(op, type))
    BY DEF PreCheckForetells
  <2> DEFINE held   == licenses[op][nodeTypes[type]]
             total  == Cardinality(NodesOf(op, type))
             active == Cardinality(ActiveOf(op, type))
             recent == Cardinality(RecentOf(op, type))
             free   == params.ActivationLimitMultiplier
             spam   == params.SpamLimitMultiplier
             answer == [Total |-> total, Active |-> active, RecentActive |-> recent,
                        LicenseCount |-> held, ActivationLimit |-> free * held,
                        SpamLimit |-> spam * held]
  <2>1. /\ ValidMultipliers(params) /\ held \in Nat
        /\ total \in Nat /\ active \in Nat /\ recent \in Nat
        /\ NodeCounts(op, type).total = total /\ NodeCounts(op, type).active = active
        /\ Cardinality(RecentEntries(op, type)) = recent
    BY VerdictArguments DEF VerdictInv
  <2>2. spam * held < WordSize
    BY HoldingFits DEF VerdictInv, NodeIndexes
  <2>3. BackingLicenses(op, type) = held
    BY DEF BackingLicenses
  <2> HIDE DEF held, total, active, recent
  <2>4. /\ Times(free, held) = free * held /\ Times(spam, held) = spam * held
        /\ CountUpTo(held, 0) = held
    <3>1. free \in Nat /\ spam \in Nat /\ free <= spam
      BY <2>1, WordAssumption DEF ValidMultipliers
    <3> HIDE DEF free, spam
    <3>2. free * held \in Nat /\ spam * held \in Nat /\ free * held <= spam * held
      BY <2>1, <3>1, FactorMonotone
    <3>3. free * held < WordSize
      BY <2>2, <3>2, WordAssumption
    <3> QED
      BY <2>1, <2>2, <3>1, <3>3, TimesExact DEF CountUpTo
  <2>5. NodeTypeCounts(op, type) = answer
    BY <2>1, <2>3, <2>4 DEF NodeTypeCounts, CountsEntry
  <2>6. PreCheck(answer) = DocumentedVerdict(params, total, active, recent, held)
    <3>1. free * held \in Int /\ spam * held \in Int
      BY <2>1 DEF ValidMultipliers
    <3> QED
      BY <2>1, <3>1 DEF PreCheck, DocumentedVerdict
  <2>7. BoundedVerdict(params, total, active, recent, held)
          = DocumentedVerdict(params, total, active, recent, held)
    BY <2>1, <2>2, BoundedVerdictFaithful
  <2> QED
    BY <2>1, <2>3, <2>5, <2>6, <2>7
<1> QED
  BY <1>1, VerdictInvHolds, PTL

-----------------------------------------------------------------------------
(* A node appears only under an entitled operator                          *)

LEMMA EntitledStep ==
  ASSUME VerdictInv, StoreStep, NEW o \in Operators, NEW t \in NodeTypeIds,
         NodesOf(o, t)' # NodesOf(o, t)
  PROVE  Entitled(o, t)
<1>0. TypeOK /\ NodesFinite /\ NodeIndexes /\ LicensesBounded
  BY DEF VerdictInv, NodeIndexes
<1>1. (\E key \in KeyAddresses, op \in Operators, node \in NodeAddresses, type \in NodeTypeIds :
         ActivateNode(key, op, node, type)) /\ UNCHANGED envVars
  <2>1. ~ UNCHANGED nodeVars
    BY DEF nodeVars, NodesOf
  <2>2. ~ \E signer \in Address, node \in NodeAddresses : DeactivateNode(signer, node)
    BY <1>0, DeactivationSets
  <2>3. ~ \E node \in NodeAddresses : HeartbeatStep(node)
    BY <1>0, HeartbeatSets
  <2> QED
    BY <2>1, <2>2, <2>3, NodeSplits DEF NodeStep
<1>2. PICK key \in KeyAddresses, op \in Operators, node \in NodeAddresses, type \in NodeTypeIds :
        ActivateNode(key, op, node, type)
  BY <1>1
<1>3. o = op /\ t = type
  BY <1>0, <1>2, ActivationSets
<1> DEFINE held   == licenses[o][nodeTypes[t]]
           total  == Cardinality(NodesOf(o, t))
           active == Cardinality(ActiveOf(o, t))
           recent == Cardinality(RecentOf(o, t))
<1>4. /\ t \in DOMAIN nodeTypes
      /\ BoundedVerdict(params, NodeCounts(o, t).total, NodeCounts(o, t).active,
                        Cardinality(RecentEntries(o, t)), held) = "Allow"
  BY <1>2, <1>3 DEF ActivateNode, BackingLicenses
<1>5. /\ ValidMultipliers(params) /\ held \in Nat
      /\ total \in Nat /\ active \in Nat /\ recent \in Nat /\ recent <= total
      /\ BoundedVerdict(params, total, active, recent, held) = "Allow"
  BY <1>0, <1>4, VerdictArguments
<1>6. /\ NodesOf(o, t)' = NodesOf(o, t) \cup {node}
      /\ ActiveOf(o, t)' = ActiveOf(o, t) \cup {node}
      /\ node \notin NodesOf(o, t)
  BY <1>0, <1>2, <1>3, ActivationSets
<1>7. RecentOf(o, t)' \subseteq RecentOf(o, t) \cup {node}
  <2>1. Today' = Today
    BY <1>1 DEF envVars, Today
  <2>2. \A n \in DOMAIN nodes : nodes'[n] = nodes[n]
    BY <1>0, <1>2, ActivationWrites
  <2> QED
    BY <1>6, <2>1, <2>2 DEF RecentOf, NodesOf
<1>8. /\ Cardinality(NodesOf(o, t)') = total + 1
      /\ Cardinality(ActiveOf(o, t)') = active + 1
      /\ Cardinality(RecentOf(o, t)') \in Nat /\ Cardinality(RecentOf(o, t)') <= recent + 1
  <2>1. IsFiniteSet(NodesOf(o, t)) /\ IsFiniteSet(ActiveOf(o, t)) /\ IsFiniteSet(RecentOf(o, t))
    BY <1>0, SetsFinite
  <2>2. node \notin ActiveOf(o, t) /\ node \notin RecentOf(o, t)
    BY <1>6 DEF ActiveOf, RecentOf
  <2>3. /\ Cardinality(NodesOf(o, t) \cup {node}) = total + 1
        /\ Cardinality(ActiveOf(o, t) \cup {node}) = active + 1
        /\ IsFiniteSet(RecentOf(o, t) \cup {node})
        /\ Cardinality(RecentOf(o, t) \cup {node}) = recent + 1
    BY <1>6, <2>1, <2>2, FS_AddElement
  <2>4. /\ IsFiniteSet(RecentOf(o, t)')
        /\ Cardinality(RecentOf(o, t)') <= Cardinality(RecentOf(o, t) \cup {node})
    BY <1>7, <2>3, FS_Subset
  <2>5. Cardinality(RecentOf(o, t)') \in Nat
    BY <2>4, FS_CardinalityType
  <2> QED
    BY <1>6, <2>3, <2>4, <2>5
<1> HIDE DEF held, total, active, recent
<1> DEFINE limit == params.ActivationLimitMultiplier * held
           spam  == params.SpamLimitMultiplier * held
<1>9. /\ held > 0
      /\ recent + 1 <= spam
      /\ total + 1 <= limit \/ recent + 1 <= limit \/ active + 1 <= limit
  BY <1>5, OverflowOnlyRefuses
<1>10. limit \in Nat /\ spam \in Nat
  BY <1>5, WordAssumption DEF ValidMultipliers
<1> HIDE DEF limit, spam
<1>11. /\ Cardinality(RecentOf(o, t)') <= spam
       /\ \/ Cardinality(NodesOf(o, t)') <= limit
          \/ Cardinality(RecentOf(o, t)') <= limit
          \/ Cardinality(ActiveOf(o, t)') <= limit
  BY <1>5, <1>8, <1>9, <1>10
<1> QED
  BY <1>4, <1>9, <1>11 DEF Entitled, held, limit, spam

(* However activations, deactivations, heartbeats, issuance, revocation    *)
(* and governance interleave, a node record appears only under an operator *)
(* entitled to it by the licenses of the type backing that node type -     *)
(* whatever multipliers governance sets, for a product that wraps refuses. *)
THEOREM OnlyEntitledActivations == Spec => ActivationEntitled
<1> DEFINE A == \A op \in Operators, type \in NodeTypeIds :
                  NodesOf(op, type)' # NodesOf(op, type) => Entitled(op, type)
<1>1. VerdictInv /\ StoreStep => A
  BY EntitledStep
<1> HIDE DEF A
<1>2. Spec => [][A]_vars
  BY <1>1, VerdictInvHolds, NextSplits, PTL DEF Spec
<1> QED
  BY <1>2 DEF ActivationEntitled, A

-----------------------------------------------------------------------------
(* Admission and acceptance                                                *)

LEMMA AdmissionAgrees == TypeOK => AdmissionImpliesAcceptance
<1> SUFFICES ASSUME TypeOK, NEW node \in DOMAIN nodes, AdmittedStatus(node)
             PROVE  StatusNotOverLimit(node, Counted(nodeStatusCounters, node))
  BY DEF AdmissionImpliesAcceptance, AdmittedDeactivateSigner, DeactivateSigner, AdmittedStatus
<1>1. DailyCount(nodeStatusCounters, node) + 1 <= params.StatusDailyLimit
  BY DEF AdmittedStatus
<1>2. DailyCount(Counted(nodeStatusCounters, node), node)
        = DailyCount(nodeStatusCounters, node) + 1
  <2> DEFINE r == [day |-> Today, count |-> DailyCount(nodeStatusCounters, node) + 1]
             c == Put(nodeStatusCounters, node, r)
  <2>1. node \in DOMAIN c /\ c[node] = r
    BY DEF Put
  <2>2. Counted(nodeStatusCounters, node) = c
    BY DEF Counted
  <2>3. r.day = Today /\ r.count = DailyCount(nodeStatusCounters, node) + 1
    OBVIOUS
  <2> HIDE DEF r, c
  <2> QED
    BY <2>1, <2>2, <2>3 DEF DailyCount
<1> QED
  BY <1>1, <1>2 DEF StatusNotOverLimit

(* admission.go against the handlers: the two copies of the standing       *)
(* checks agree, so quota is never spent on a deactivation or a heartbeat  *)
(* the handler then refuses.                                               *)
THEOREM AdmittedIsAccepted == Spec => []AdmissionImpliesAcceptance
<1> QED
  BY AdmissionAgrees, TypeCorrect, PTL

LEMMA FleetCanSignInit == Init => FleetCanSign
BY DEF Init, EmptyMap, FleetCanSign

LEMMA FleetCanSignStep == TypeOK /\ FleetCanSign /\ StoreStep => FleetCanSign'
<1> SUFFICES ASSUME TypeOK, FleetCanSign, StoreStep PROVE FleetCanSign'
  OBVIOUS
<1> USE DEF FleetCanSign, registryVars, keyVars, nodeVars
<1>1. CASE \E op \in Operators, key \in KeyAddresses : AuthorizeActivationKey(op, key)
  BY <1>1 DEF AuthorizeActivationKey, CreateAccountIfNotExists, Put
<1>2. CASE \E key \in KeyAddresses, op \in Operators, node \in NodeAddresses,
              type \in NodeTypeIds : ActivateNode(key, op, node, type)
  BY <1>2 DEF ActivateNode, CreateAccountIfNotExists, Put
<1>3. CASE \E op \in Operators, key \in KeyAddresses : DeauthorizeActivationKey(op, key)
  BY <1>3 DEF DeauthorizeActivationKey
<1>4. CASE \E signer \in Address, node \in NodeAddresses : DeactivateNode(signer, node)
  BY <1>4, DeactivationWrites DEF DeactivateNode
<1>5. CASE \E node \in NodeAddresses : HeartbeatStep(node)
  BY <1>5, HeartbeatWrites DEF HeartbeatStep
<1>6. CASE \/ \E admin \in Admins, wallet \in Address : CreateOperatorAccount(admin, wallet)
           \/ \E creator \in Admins, id \in NodeTypeIds, lt \in LicenseTypeIds :
                CreateNodeType(creator, id, lt)
           \/ \E p \in ParamChoices : UpdateParams(p)
           \/ \E holders \in SUBSET Operators : NewHolders(holders)
           \/ UNCHANGED fleetVars
  BY <1>6 DEF CreateOperatorAccount, CreateAccountIfNotExists, CreateNodeType, UpdateParams,
              NewHolders, fleetVars
<1> QED
  BY <1>1, <1>2, <1>3, <1>4, <1>5, <1>6, StepSplits DEF FleetStep

(* Authorizing a key and activating a node create the account their own    *)
(* transactions need, and accounts are never removed.                      *)
THEOREM FleetHasAccounts == Spec => []FleetCanSign
<1> QED
  BY FleetCanSignInit, FleetCanSignStep, TypeCorrect, NextSplits, PTL DEF Spec
=============================================================================
