--------------------------- MODULE GaslessTxProofs ---------------------------
(***************************************************************************)
(* Proofs about the delivery of transactions, for lists of any length and  *)
(* every value of the constants of Network.  The invariants of Network     *)
(* hold on every branch of the store, what admission found for a message   *)
(* stands until its turn, and a transaction of several messages does what  *)
(* single-message ones would.                                              *)
(***************************************************************************)
EXTENDS GaslessTxFate, NetworkRecordsProofs, SequenceTheorems

-----------------------------------------------------------------------------
(* Messages                                                                *)

LEMMA ListType ==
  ASSUME NEW list \in MsgLists
  PROVE  /\ Len(list) \in Nat \ {0} /\ DOMAIN list = 1 .. Len(list)
         /\ \A i \in 1 .. Len(list) : list[i] \in Msg
<1>1. PICK n \in 1 .. MaxMsgs : list \in [1 .. n -> Msg]
  BY DEF MsgLists
<1>2. n \in Nat \ {0}
  BY MaxMsgsAssumption
<1>3. list \in Seq(Msg)
  BY <1>1, <1>2, SeqDef
<1>4. Len(list) = n
  BY <1>1, <1>2, <1>3, LenProperties
<1> QED  BY <1>1, <1>2, <1>4

LEMMA MsgFields ==
  ASSUME NEW m \in Msg
  PROVE  /\ m.kind \in {"authorize", "deauthorize"} =>
              m.signer \in Operators /\ m.key \in KeyAddresses
         /\ m.kind = "activate" =>
              /\ m.signer \in KeyAddresses /\ m.operator \in Operators
              /\ m.node \in NodeAddresses /\ m.type \in NodeTypeIds
         /\ m.kind = "deactivate" => m.signer \in Address /\ m.node \in NodeAddresses
         /\ m.kind = "status" => m.signer \in NodeAddresses
BY DEF Msg

(* A handler is a fleet step of Network, an admission a quota step.        *)
LEMMA HandleSplits ==
  ASSUME NEW m \in Msg, Handle(m)
  PROVE  FleetStep
<1>1. CASE m.kind = "authorize" /\ AuthorizeActivationKey(m.signer, m.key)
  BY <1>1, MsgFields DEF FleetStep
<1>2. CASE m.kind = "deauthorize" /\ DeauthorizeActivationKey(m.signer, m.key)
  BY <1>2, MsgFields DEF FleetStep
<1>3. CASE m.kind = "activate" /\ ActivateNode(m.signer, m.operator, m.node, m.type)
  BY <1>3, MsgFields DEF FleetStep
<1>4. CASE m.kind = "deactivate" /\ DeactivateNode(m.signer, m.node)
  BY <1>4, MsgFields DEF FleetStep
<1>5. CASE m.kind = "status" /\ UpdateNodeStatus(m.signer, nodeStatusCounters)
  BY <1>5, MsgFields DEF FleetStep, HeartbeatStep, UpdateNodeStatus
<1> QED  BY <1>1, <1>2, <1>3, <1>4, <1>5 DEF Handle

LEMMA AdmitSplits ==
  ASSUME NEW m \in Msg, Admit(m)
  PROVE  QuotaStep
<1>1. CASE m.kind = "authorize" /\ AdmitAuthorize(m.signer)
  <2>1. <<"authorize", m.signer, NoScope>> \in QuotaKeys
    BY <1>1, MsgFields DEF QuotaKeys
  <2> QED  BY <1>1, <2>1 DEF AdmitAuthorize, ConsumeGaslessCounter, QuotaStep
<1>2. CASE m.kind = "activate" /\ AdmitActivate(m.signer, m.operator, m.type)
  <2>1. <<"activate", m.signer, m.type>> \in QuotaKeys
    BY <1>2, MsgFields DEF QuotaKeys
  <2> QED  BY <1>2, <2>1 DEF AdmitActivate, QuotaStep
<1>3. CASE m.kind = "deactivate" /\ AdmitDeactivate(m.signer, m.node)
  <2>1. <<"deactivate", m.signer, NoScope>> \in QuotaKeys
    BY <1>3, MsgFields DEF QuotaKeys
  <2> QED  BY <1>3, <2>1 DEF AdmitDeactivate, ConsumeGaslessCounter, QuotaStep
<1>4. CASE m.kind = "status" /\ AdmitStatus(m.signer)
  BY <1>4, MsgFields DEF AdmitStatus, AdmittedStatus, QuotaStep
<1> QED  BY <1>1, <1>2, <1>3, <1>4 DEF Admit

-----------------------------------------------------------------------------
(* Types, on the current branch and on the store below it                  *)

FleetOK(f) ==
  /\ IsPartial(f.activationKeys, KeyAddresses, KeyType)
  /\ f.operatorActivationKeys \subseteq Operators \X KeyAddresses
  /\ IsPartial(f.nodes, NodeAddresses, NodeType)
  /\ f.operatorNodes \subseteq Operators \X NodeAddresses
  /\ IsPartial(f.operatorNodeCounts, Operators \X NodeTypeIds, CountsType)
  /\ f.recentNodeActivity \subseteq Operators \X NodeTypeIds \X Nat \X NodeAddresses
  /\ f.operators \subseteq Operators
  /\ f.accounts \subseteq Address
  /\ f.balances \in [Address -> Nat]
  /\ f.feeCollector \in Nat

QuotasOK(q) ==
  /\ IsPartial(q.nodeStatusCounters, NodeAddresses, CounterType)
  /\ IsPartial(q.gaslessCounters, QuotaKeys, CounterType)

DeliveryOK ==
  /\ phase \in {"idle", "ante", "msgs"}
  /\ phase # "idle" =>
       /\ msgs \in MsgLists /\ pos \in 1 .. Len(msgs)
       /\ saved = [fleet |-> saved.fleet, quotas |-> saved.quotas]
       /\ FleetOK(saved.fleet) /\ QuotasOK(saved.quotas)
  /\ phase = "ante" => free
  /\ free => \A i \in DOMAIN msgs : Allowlisted(msgs[i])

TxTypeOK == TypeOK /\ DeliveryOK

LEMMA StoreTyped == TypeOK => FleetOK(Fleet) /\ QuotasOK(Quotas)
BY DEF TypeOK, FleetOK, QuotasOK, Fleet, Quotas

LEMMA TypeParts ==
  ASSUME FleetTypeOK', QuotaTypeOK', EnvTypeOK'
  PROVE  TypeOK'
BY DEF TypeOK, FleetTypeOK, QuotaTypeOK, EnvTypeOK

LEMMA UnchangedTypes ==
  ASSUME TypeOK
  PROVE  /\ UNCHANGED fleetVars => FleetTypeOK'
         /\ UNCHANGED quotaVars => QuotaTypeOK'
         /\ UNCHANGED envVars => EnvTypeOK'
<1>1. FleetTypeOK /\ QuotaTypeOK /\ EnvTypeOK
  BY TypeOKParts
<1>2. UNCHANGED fleetVars => FleetTypeOK'
  BY <1>1 DEF FleetTypeOK, fleetVars, registryVars, keyVars, nodeVars, bankVars
<1> QED  BY <1>1, <1>2 DEF QuotaTypeOK, EnvTypeOK, quotaVars, envVars

LEMMA IdleOK == EndDelivery => DeliveryOK'
BY DEF EndDelivery, DeliveryOK

LEMMA TxTypeStep == TxTypeOK /\ [TxNext]_<<vars, txVars>> => TxTypeOK'
<1> SUFFICES ASSUME TxTypeOK, [TxNext]_<<vars, txVars>> PROVE TxTypeOK'
  OBVIOUS
<1>0. TypeOK /\ DeliveryOK
  BY DEF TxTypeOK
<1>1. ASSUME NEW list \in MsgLists, NEW zeroFee \in BOOLEAN, Begin(list, zeroFee)
      PROVE  TxTypeOK'
  <2>1. TypeOK'
    <3>1. UNCHANGED vars
      BY <1>1 DEF Begin
    <3> QED  BY <1>0, <3>1, NextSplits, TypeStep
  <2>2. DeliveryOK'
    <3>1. /\ phase' \in {"ante", "msgs"} /\ msgs' = list /\ pos' = 1 /\ saved' = Store
          /\ free' = zeroFee /\ (phase' = "ante" => zeroFee)
          /\ zeroFee => \A i \in DOMAIN list : Allowlisted(list[i])
      BY <1>1 DEF Begin
    <3>2. 1 \in 1 .. Len(list)
      BY ListType
    <3>3. /\ Store.fleet = Fleet /\ Store.quotas = Quotas
          /\ Store = [fleet |-> Store.fleet, quotas |-> Store.quotas]
      BY DEF Store
    <3> QED  BY <1>0, <3>1, <3>2, <3>3, StoreTyped DEF DeliveryOK
  <2> QED  BY <2>1, <2>2 DEF TxTypeOK
<1>2. CASE AdmitNext
  <2>1. msgs \in MsgLists /\ pos \in 1 .. Len(msgs) /\ Len(msgs) \in Nat
    BY <1>0, <1>2, ListType DEF AdmitNext, DeliveryOK
  <2>2. QuotaTypeOK'
    BY <1>0, <1>2, <2>1, ListType, AdmitSplits, QuotaTypeStep DEF AdmitNext
  <2>3. TypeOK'
    BY <1>0, <1>2, <2>2, UnchangedTypes, TypeParts DEF AdmitNext
  <2>4. DeliveryOK'
    <3>1. /\ msgs' = msgs /\ free' = free /\ phase = "ante"
          /\ pos' \in 1 .. Len(msgs) /\ phase' \in {"ante", "msgs"}
          /\ phase' = "ante" => phase = "ante"
      BY <1>2, <2>1 DEF AdmitNext
    <3>2. saved' = saved \/ saved' = [saved EXCEPT !.quotas = Quotas']
      BY <1>2 DEF AdmitNext
    <3>3. /\ saved = [fleet |-> saved.fleet, quotas |-> saved.quotas]
          /\ FleetOK(saved.fleet) /\ QuotasOK(saved.quotas)
      BY <1>0, <3>1 DEF DeliveryOK
    <3>4. QuotasOK(Quotas')
      BY <2>2 DEF QuotaTypeOK, QuotasOK, Quotas
    <3>5. /\ saved' = [fleet |-> saved'.fleet, quotas |-> saved'.quotas]
          /\ FleetOK(saved'.fleet) /\ QuotasOK(saved'.quotas)
      <4>1. CASE saved' = saved
        BY <3>3, <4>1
      <4>2. CASE saved' = [saved EXCEPT !.quotas = Quotas']
        <5>1. saved' = [fleet |-> saved.fleet, quotas |-> Quotas']
          BY <3>3, <4>2
        <5> QED  BY <3>3, <3>4, <5>1
      <4> QED  BY <3>2, <4>1, <4>2
    <3> QED  BY <1>0, <2>1, <3>1, <3>5 DEF DeliveryOK
  <2> QED  BY <2>3, <2>4 DEF TxTypeOK
<1>3. CASE Refuse
  <2>1. QuotasOK(saved.quotas)
    BY <1>0, <1>3 DEF Refuse, DeliveryOK
  <2>2. QuotaTypeOK'
    BY <1>3, <2>1 DEF Refuse, DropQuotaBranch, QuotasOK, QuotaTypeOK
  <2> QED
    BY <1>0, <1>3, <2>2, UnchangedTypes, TypeParts, IdleOK DEF Refuse, TxTypeOK
<1>4. CASE HandleNext
  <2>1. msgs \in MsgLists /\ pos \in 1 .. Len(msgs) /\ Len(msgs) \in Nat
    BY <1>0, <1>4, ListType DEF HandleNext, DeliveryOK
  <2>2. FleetTypeOK'
    BY <1>0, <1>4, <2>1, ListType, HandleSplits, FleetTypeStep DEF HandleNext
  <2>3. TypeOK'
    BY <1>0, <1>4, <2>2, UnchangedTypes, TypeParts DEF HandleNext
  <2>4. DeliveryOK'
    <3>1. CASE pos < Len(msgs)
      <4>1. pos' \in 1 .. Len(msgs) /\ UNCHANGED <<phase, msgs, free, saved>>
        BY <1>4, <2>1, <3>1 DEF HandleNext
      <4> QED  BY <1>0, <4>1 DEF DeliveryOK
    <3>2. CASE ~ pos < Len(msgs)
      BY <1>4, <3>2, IdleOK DEF HandleNext
    <3> QED  BY <3>1, <3>2
  <2> QED  BY <2>3, <2>4 DEF TxTypeOK
<1>5. CASE Fail
  <2>1. FleetOK(saved.fleet)
    BY <1>0, <1>5 DEF Fail, DeliveryOK
  <2>2. FleetTypeOK'
    BY <1>0, <1>5, <2>1, TypeOKParts
    DEF Fail, DropFleetBranch, FleetOK, FleetTypeOK, registryVars
  <2> QED
    BY <1>0, <1>5, <2>2, UnchangedTypes, TypeParts, IdleOK DEF Fail, TxTypeOK
<1>6. CASE Otherwise
  <2>1. TypeOK'
    BY <1>0, <1>6, NextSplits, TypeStep DEF Otherwise, Next, QuietNext
  <2> QED  BY <1>0, <1>6, <2>1 DEF Otherwise, txVars, DeliveryOK, TxTypeOK
<1>7. CASE UNCHANGED <<vars, txVars>>
  <2>1. TypeOK'
    BY <1>0, <1>7, NextSplits, TypeStep
  <2> QED  BY <1>0, <1>7, <2>1 DEF txVars, DeliveryOK, TxTypeOK
<1> QED  BY <1>1, <1>2, <1>3, <1>4, <1>5, <1>6, <1>7 DEF TxNext

(* On every branch of the store the collections keep their types.          *)
THEOREM TxTypeCorrect == TxSpec => []TxTypeOK
<1>1. TxInit => TxTypeOK
  BY InitType DEF TxInit, TxTypeOK, DeliveryOK
<1> QED  BY <1>1, TxTypeStep, PTL DEF TxSpec

-----------------------------------------------------------------------------
(* The promises of Network on every branch of the store                    *)

(* The store below the current branch, and what was proved of Network, of  *)
(* that store: under a delivery it stands still until the branch becomes   *)
(* it, or it becomes the branch.                                           *)
Below == IF phase = "idle" THEN Store ELSE saved

B == INSTANCE NetworkRecordsProofs WITH
       activationKeys         <- Below.fleet.activationKeys,
       operatorActivationKeys <- Below.fleet.operatorActivationKeys,
       nodes                  <- Below.fleet.nodes,
       operatorNodes          <- Below.fleet.operatorNodes,
       operatorNodeCounts     <- Below.fleet.operatorNodeCounts,
       recentNodeActivity     <- Below.fleet.recentNodeActivity,
       operators              <- Below.fleet.operators,
       accounts               <- Below.fleet.accounts,
       balances               <- Below.fleet.balances,
       feeCollector           <- Below.fleet.feeCollector,
       nodeStatusCounters     <- Below.quotas.nodeStatusCounters,
       gaslessCounters        <- Below.quotas.gaslessCounters

LEMMA BelowSettings ==
  /\ WordSize \in Nat \ {0} /\ DayLength \in Nat \ {0}
  /\ MaxTime \in Nat /\ MaxLicenses \in Nat /\ MaxTouched \in Nat
  /\ B!NoScope \notin NodeTypeIds
  /\ B!ValidParams(GenesisParams)
  /\ B!IsPartial(GenesisNodeTypes, NodeTypeIds, LicenseTypeIds)
  /\ B!IsInjectiveOn(GenesisNodeTypes)
  /\ GenesisLicenses \in [Operators -> [LicenseTypeIds -> 0 .. MaxLicenses]]
  /\ GenesisLicenseTypes \subseteq LicenseTypeIds
  /\ \A op \in Operators, lt \in LicenseTypeIds :
       GenesisLicenses[op][lt] > 0 => lt \in GenesisLicenseTypes
  /\ GenesisGrants \subseteq Admins \X B!Permissions
  /\ Funded \subseteq GenesisAccounts /\ GenesisAccounts \subseteq B!Address
  /\ GenesisBalance \in Nat
BY WordAssumption, DayLengthAssumption, BoundAssumption, ScopeAssumption, GenesisAssumption
DEF NoScope, B!NoScope, ValidParams, B!ValidParams, ValidMultipliers, B!ValidMultipliers,
    IsPartial, B!IsPartial, IsInjectiveOn, B!IsInjectiveOn, Permissions, B!Permissions,
    Address, B!Address

(* Nothing is pending: the store is what the current branch shows.         *)
AtBase == B!fleetVars = fleetVars /\ B!quotaVars = quotaVars

BranchesOK ==
  /\ phase = "ante" => saved.fleet = Fleet
  /\ phase = "msgs" => saved.quotas = Quotas

LEMMA BelowShown == phase = "idle" => AtBase
<1> SUFFICES ASSUME phase = "idle" PROVE AtBase
  OBVIOUS
<1>1. Below.fleet = Fleet /\ Below.quotas = Quotas
  BY DEF Below, Store
<1> QED
  BY <1>1 DEF AtBase, Fleet, Quotas, B!fleetVars, fleetVars, B!quotaVars, quotaVars,
              B!registryVars, registryVars, B!keyVars, keyVars, B!nodeVars, nodeVars,
              B!bankVars, bankVars

(* A step of a delivery: the current branch takes a step of Network unless *)
(* it is dropped, and the store below stands still unless the branch has   *)
(* become it.                                                              *)
LEMMA BranchSteps ==
  TxTypeOK /\ BranchesOK /\ [TxNext]_<<vars, txVars>>
    => /\ StoreStep \/ (AtBase' /\ UNCHANGED B!vars /\ UNCHANGED <<params, envVars>>)
       /\ AtBase' \/ UNCHANGED B!vars
       /\ BranchesOK'
<1> SUFFICES ASSUME TxTypeOK, BranchesOK, [TxNext]_<<vars, txVars>>
             PROVE  /\ StoreStep \/ (AtBase' /\ UNCHANGED B!vars /\ UNCHANGED <<params, envVars>>)
                    /\ AtBase' \/ UNCHANGED B!vars
                    /\ BranchesOK'
  OBVIOUS
<1>0. TypeOK /\ DeliveryOK
  BY DEF TxTypeOK
<1>1. /\ phase' = "idle" => AtBase'
      /\ saved'.fleet = Fleet' /\ saved'.quotas = Quotas' => AtBase'
  <2>1. Below'.fleet = Fleet' /\ Below'.quotas = Quotas' => AtBase'
    BY DEF AtBase, Fleet, Quotas, B!fleetVars, fleetVars, B!quotaVars, quotaVars,
           B!registryVars, registryVars, B!keyVars, keyVars, B!nodeVars, nodeVars, B!bankVars,
           bankVars
  <2>2. phase' = "idle" => Below'.fleet = Fleet' /\ Below'.quotas = Quotas'
    BY DEF Below, Store
  <2>3. phase' # "idle" => Below' = saved'
    BY DEF Below
  <2> QED  BY <2>1, <2>2, <2>3
<1>2. UNCHANGED <<Below, params, registryVars, envVars>> => UNCHANGED B!vars
  BY DEF B!vars, B!fleetVars, B!quotaVars, B!envVars, B!registryVars, B!keyVars, B!nodeVars,
         B!bankVars, registryVars, envVars
<1>3. UNCHANGED fleetVars => UNCHANGED <<Fleet, params, registryVars>>
  BY DEF fleetVars, registryVars, keyVars, nodeVars, bankVars, Fleet
<1>4. UNCHANGED quotaVars => UNCHANGED Quotas
  BY DEF quotaVars, Quotas
<1>5. UNCHANGED vars => StoreStep
  BY NextSplits
<1>6. ASSUME NEW list \in MsgLists, NEW zeroFee \in BOOLEAN, Begin(list, zeroFee)
      PROVE  StoreStep /\ AtBase' /\ BranchesOK'
  <2>1. UNCHANGED vars /\ saved' = Store
    BY <1>6 DEF Begin
  <2>2. UNCHANGED fleetVars /\ UNCHANGED quotaVars
    BY <2>1 DEF vars
  <2>3. saved'.fleet = Fleet' /\ saved'.quotas = Quotas'
    BY <1>3, <1>4, <2>1, <2>2 DEF Store
  <2> QED  BY <1>1, <1>5, <2>1, <2>3 DEF BranchesOK
<1>7. CASE AdmitNext
  <2>1. /\ phase = "ante" /\ msgs \in MsgLists /\ pos \in 1 .. Len(msgs)
        /\ saved = [fleet |-> saved.fleet, quotas |-> saved.quotas]
    BY <1>0, <1>7 DEF AdmitNext, DeliveryOK
  <2>2. QuotaStep /\ UNCHANGED fleetVars /\ UNCHANGED envVars
    BY <1>7, <2>1, ListType, AdmitSplits DEF AdmitNext
  <2>3. StoreStep
    BY <2>2 DEF StoreStep, FleetStep, EnvStep
  <2>4. saved.fleet = Fleet'
    BY <1>3, <2>1, <2>2 DEF BranchesOK
  <2>5. CASE pos < Len(msgs)
    <3>1. UNCHANGED <<phase, saved>>
      BY <1>7, <2>5 DEF AdmitNext
    <3>2. UNCHANGED Below
      BY <2>1, <3>1 DEF Below
    <3> QED  BY <1>2, <1>3, <2>1, <2>2, <2>3, <2>4, <3>1, <3>2 DEF BranchesOK
  <2>6. CASE ~ pos < Len(msgs)
    <3>1. phase' = "msgs" /\ saved' = [saved EXCEPT !.quotas = Quotas']
      BY <1>7, <2>6 DEF AdmitNext
    <3>2. saved'.fleet = Fleet' /\ saved'.quotas = Quotas'
      BY <2>1, <2>4, <3>1
    <3> QED  BY <1>1, <2>3, <3>1, <3>2 DEF BranchesOK
  <2> QED  BY <2>5, <2>6
<1>8. CASE Refuse
  <2>1. /\ phase = "ante" /\ phase' = "idle" /\ UNCHANGED fleetVars /\ UNCHANGED envVars
        /\ nodeStatusCounters' = saved.quotas.nodeStatusCounters
        /\ gaslessCounters' = saved.quotas.gaslessCounters
    BY <1>8 DEF Refuse, DropQuotaBranch, EndDelivery
  <2>2. saved.fleet = Fleet'
    BY <1>3, <2>1 DEF BranchesOK
  <2>3. Below = saved /\ Below' = Store'
    BY <2>1 DEF Below
  <2>4. UNCHANGED B!vars
    BY <1>3, <2>1, <2>2, <2>3
    DEF Store, Fleet, Quotas, B!vars, B!fleetVars, B!quotaVars, B!envVars, B!registryVars,
        B!keyVars, B!nodeVars, B!bankVars, registryVars, envVars
  <2> QED  BY <1>1, <1>3, <2>1, <2>4 DEF BranchesOK
<1>9. CASE HandleNext
  <2>1. /\ phase = "msgs" /\ msgs \in MsgLists /\ pos \in 1 .. Len(msgs)
    BY <1>0, <1>9 DEF HandleNext, DeliveryOK
  <2>2. FleetStep /\ UNCHANGED quotaVars /\ UNCHANGED envVars
    BY <1>9, <2>1, ListType, HandleSplits DEF HandleNext
  <2>3. StoreStep
    BY <2>2 DEF StoreStep, QuotaStep, EnvStep
  <2>4. CASE pos < Len(msgs)
    <3>1. UNCHANGED <<phase, saved>>
      BY <1>9, <2>4 DEF HandleNext
    <3>2. UNCHANGED Below
      BY <2>1, <3>1 DEF Below
    <3>3. UNCHANGED <<params, registryVars>>
      BY <1>9 DEF HandleNext, Handle, AuthorizeActivationKey, DeauthorizeActivationKey,
                  ActivateNode, DeactivateNode, UpdateNodeStatus
    <3> QED  BY <1>2, <1>4, <2>1, <2>2, <2>3, <3>1, <3>2, <3>3 DEF BranchesOK
  <2>5. CASE ~ pos < Len(msgs)
    <3>1. phase' = "idle"
      BY <1>9, <2>5 DEF HandleNext, EndDelivery
    <3> QED  BY <1>1, <2>3, <3>1 DEF BranchesOK
  <2> QED  BY <2>4, <2>5
<1>10. CASE Fail
  <2>1. /\ phase = "msgs" /\ phase' = "idle" /\ UNCHANGED quotaVars /\ UNCHANGED envVars
        /\ DropFleetBranch
    BY <1>10 DEF Fail, EndDelivery
  <2>2. saved.quotas = Quotas'
    BY <1>4, <2>1 DEF BranchesOK
  <2>3. Below = saved /\ Below' = Store'
    BY <2>1 DEF Below
  <2>4. UNCHANGED B!vars
    BY <2>1, <2>2, <2>3
    DEF Store, Fleet, Quotas, DropFleetBranch, B!vars, B!fleetVars, B!quotaVars, B!envVars,
        B!registryVars, B!keyVars, B!nodeVars, B!bankVars, registryVars, envVars
  <2>5. UNCHANGED params
    BY <2>1 DEF DropFleetBranch
  <2> QED  BY <1>1, <2>1, <2>4, <2>5 DEF BranchesOK
<1>11. CASE Otherwise
  <2>1. /\ phase = "idle" /\ phase' = "idle" /\ [Next]_vars
    BY <1>11 DEF Otherwise, txVars, Next, QuietNext
  <2> QED  BY <1>1, <2>1, NextSplits DEF BranchesOK
<1>12. CASE UNCHANGED <<vars, txVars>>
  <2>1. UNCHANGED vars /\ UNCHANGED <<phase, saved>>
    BY <1>12 DEF txVars
  <2>2. UNCHANGED fleetVars /\ UNCHANGED quotaVars /\ UNCHANGED envVars
    BY <2>1 DEF vars
  <2>3. UNCHANGED <<Fleet, Quotas, params, registryVars>>
    BY <1>3, <1>4, <2>2
  <2>4. UNCHANGED Below
    BY <2>1, <2>3 DEF Below, Store
  <2> QED  BY <1>2, <1>5, <2>1, <2>2, <2>3, <2>4 DEF BranchesOK
<1> QED
  BY <1>6, <1>7, <1>8, <1>9, <1>10, <1>11, <1>12 DEF TxNext

(* With nothing pending, what holds of the one holds of the other.         *)
LEMMA SameAtBase ==
  AtBase => /\ RecordsInv <=> B!RecordsInv
            /\ RateInv <=> B!RateInv
            /\ FleetCanSign <=> B!FleetCanSign
<1> SUFFICES ASSUME AtBase
             PROVE  /\ RecordsInv <=> B!RecordsInv
                    /\ RateInv <=> B!RateInv
                    /\ FleetCanSign <=> B!FleetCanSign
  OBVIOUS
<1> DEFINE f == Below.fleet
           q == Below.quotas
<1>1. /\ f.activationKeys = activationKeys /\ f.operatorActivationKeys = operatorActivationKeys
      /\ f.nodes = nodes /\ f.operatorNodes = operatorNodes
      /\ f.operatorNodeCounts = operatorNodeCounts
      /\ f.recentNodeActivity = recentNodeActivity /\ f.operators = operators
      /\ f.accounts = accounts /\ f.balances = balances /\ f.feeCollector = feeCollector
      /\ q.nodeStatusCounters = nodeStatusCounters /\ q.gaslessCounters = gaslessCounters
  BY DEF AtBase, B!fleetVars, fleetVars, B!quotaVars, quotaVars, B!registryVars, registryVars,
         B!keyVars, keyVars, B!nodeVars, nodeVars, B!bankVars, bankVars
<1>2. \A S : B!Cardinality(S) = Cardinality(S) /\ B!IsFiniteSet(S) = IsFiniteSet(S)
  BY DEF B!Cardinality, Cardinality, B!IsFiniteSet, IsFiniteSet
<1>3. TypeOK <=> B!TypeOK
  <2>1. /\ B!KeyType = KeyType /\ B!NodeType = NodeType /\ B!CountsType = CountsType
        /\ B!CounterType = CounterType
    BY DEF KeyType, B!KeyType, NodeType, B!NodeType, CountsType, B!CountsType,
           CounterType, B!CounterType, NodeStatuses, B!NodeStatuses,
           KeyStatuses, B!KeyStatuses
  <2>2. B!Address = Address /\ B!QuotaKeys = QuotaKeys /\ B!Permissions = Permissions
    BY DEF Address, B!Address, QuotaKeys, B!QuotaKeys, Permissions, B!Permissions,
           NoScope, B!NoScope
  <2>3. B!ValidParams(params) <=> ValidParams(params)
    BY DEF ValidParams, B!ValidParams, ValidMultipliers, B!ValidMultipliers
  <2>4. \A m, S, T : B!IsPartial(m, S, T) <=> IsPartial(m, S, T)
    BY DEF IsPartial, B!IsPartial
  <2> QED
    BY <1>1, <2>1, <2>2, <2>3, <2>4 DEF TypeOK, B!TypeOK
<1>4. \A op, type : /\ B!NodesOf(op, type) = NodesOf(op, type)
                   /\ B!ActiveOf(op, type) = ActiveOf(op, type)
                   /\ B!NodeCounts(op, type) = NodeCounts(op, type)
  BY <1>1 DEF f, NodesOf, B!NodesOf, ActiveOf, B!ActiveOf, NodeCounts, B!NodeCounts
<1>5. /\ B!RebuiltRecentActivity = RebuiltRecentActivity
      /\ B!RebuiltOperators = RebuiltOperators
      /\ B!RebuiltOperatorNodes = RebuiltOperatorNodes
      /\ B!RebuiltOperatorKeys = RebuiltOperatorKeys
  BY <1>1 DEF f, RebuiltRecentActivity, B!RebuiltRecentActivity, RebuiltOperators,
     B!RebuiltOperators, RebuiltOperatorNodes, B!RebuiltOperatorNodes, RebuiltOperatorKeys,
     B!RebuiltOperatorKeys
<1>6. NodeIndexes <=> B!NodeIndexes
  <2>1. NodesFinite <=> B!NodesFinite
    BY <1>1, <1>2 DEF f, NodesFinite, B!NodesFinite
  <2>2. RecentIndexExact <=> B!RecentIndexExact
    BY <1>1, <1>5 DEF f, RecentIndexExact, B!RecentIndexExact
  <2>3. TalliesMatchNodes <=> B!TalliesMatchNodes
    BY <1>2, <1>4 DEF TalliesMatchNodes, B!TalliesMatchNodes
  <2> QED  BY <1>3, <2>1, <2>2, <2>3 DEF NodeIndexes, B!NodeIndexes
<1>7. /\ KeyIndexExact <=> B!KeyIndexExact
      /\ KeysForeign <=> B!KeysForeign
      /\ OperatorsExact <=> B!OperatorsExact
      /\ BindingsInverse <=> B!BindingsInverse
      /\ DaysPast <=> B!DaysPast
      /\ CountersOfNodes <=> B!CountersOfNodes
  BY <1>1, <1>5 DEF f, q, KeyIndexExact, B!KeyIndexExact, KeysForeign, B!KeysForeign,
     OperatorsExact, B!OperatorsExact, BindingsInverse, B!BindingsInverse, DaysPast, B!DaysPast,
     Today, B!Today, Day, B!Day, CountersOfNodes, B!CountersOfNodes
<1>8. /\ NodeIndexExact <=> B!NodeIndexExact
      /\ NodesReferTo <=> B!NodesReferTo
  BY <1>1, <1>5 DEF f, NodeIndexExact, B!NodeIndexExact, NodesReferTo, B!NodesReferTo
<1>9. RecordsInv <=> B!RecordsInv
  BY <1>6, <1>7, <1>8 DEF RecordsInv, B!RecordsInv
<1>10. FleetCanSign <=> B!FleetCanSign
  BY <1>1 DEF f, FleetCanSign, B!FleetCanSign
<1>11. RateInv <=> B!RateInv
  <2>1. \A op, start : /\ B!OperatorActive(op) = OperatorActive(op)
                       /\ B!CreatedWithin(op, start) = CreatedWithin(op, start)
    BY <1>1 DEF f, OperatorActive, B!OperatorActive, CreatedWithin, B!CreatedWithin
  <2>2. KeyRateBounded <=> B!KeyRateBounded
    <3>1. KeyRateBounded <=>
            \A op \in Operators :
              /\ Cardinality(OperatorActive(op)) <= params.MaxActivationKeys
              /\ \A start \in 0 .. now :
                   Cardinality(CreatedWithin(op, start)) <= params.RecentKeyLimit
      BY DEF KeyRateBounded, OperatorActive, CreatedWithin
    <3>2. B!KeyRateBounded <=>
            \A op \in Operators :
              /\ B!Cardinality(B!OperatorActive(op)) <= params.MaxActivationKeys
              /\ \A start \in 0 .. now :
                   B!Cardinality(B!CreatedWithin(op, start)) <= params.RecentKeyLimit
      BY DEF B!KeyRateBounded, B!OperatorActive, B!CreatedWithin
    <3> QED  BY <1>2, <2>1, <3>1, <3>2
  <2>3. (KeysPast <=> B!KeysPast) /\ (KeysFinite <=> B!KeysFinite)
    BY <1>1, <1>2 DEF f, KeysPast, B!KeysPast, KeysFinite, B!KeysFinite
  <2> QED  BY <2>2, <2>3 DEF RateInv, B!RateInv
<1> QED  BY <1>9, <1>10, <1>11

LEMMA BelowStands ==
  UNCHANGED B!vars /\ B!RecordsInv
    => /\ B!RecordsInv'
       /\ B!FleetCanSign => B!FleetCanSign'
       /\ B!RateInv => B!RateInv'
<1> SUFFICES ASSUME UNCHANGED B!vars, B!RecordsInv
             PROVE  /\ B!RecordsInv'
                    /\ B!FleetCanSign => B!FleetCanSign'
                    /\ B!RateInv => B!RateInv'
  OBVIOUS
<1>1. B!StoreStep
  BY BelowSettings, B!NextSplits
<1>2. B!RecordsInv'
  BY <1>1, BelowSettings, B!RecordsStep
<1>3. B!TypeOK /\ B!KeyIndexExact
  BY DEF B!RecordsInv, B!NodeIndexes
<1>4. B!FleetCanSign => B!FleetCanSign'
  BY <1>1, <1>3, BelowSettings, B!FleetCanSignStep
<1>5. UNCHANGED params
  BY DEF B!vars, B!fleetVars
<1>6. B!RateInv => B!RateInv'
  BY <1>1, <1>3, <1>5, BelowSettings, B!RateStep
<1> QED  BY <1>2, <1>4, <1>6

(* The records and the accounts, on the branch and below it.               *)
BranchInv ==
  /\ TxTypeOK /\ BranchesOK
  /\ RecordsInv /\ B!RecordsInv
  /\ FleetCanSign /\ B!FleetCanSign

LEMMA BranchInvHolds == TxSpec => []BranchInv
<1>1. TxInit => TxTypeOK /\ BranchesOK /\ AtBase
  BY InitType, BelowShown DEF TxInit, TxTypeOK, DeliveryOK, BranchesOK
<1>2. TxInit => RecordsInv /\ FleetCanSign
  BY RecordsInvInit, FleetCanSignInit DEF TxInit
<1>3. RecordsInv => TypeOK
  BY DEF RecordsInv, NodeIndexes
<1>4. StoreStep /\ RecordsInv => RecordsInv' /\ (FleetCanSign => FleetCanSign')
  BY <1>3, RecordsStep, FleetCanSignStep
<1> QED
  BY <1>1, <1>2, <1>4, TxTypeStep, BranchSteps, BelowStands, SameAtBase, PTL
  DEF TxSpec, BranchInv

(* Wherever the delivery of a transaction of several messages stands - in  *)
(* its admissions, between two handlers, after a refusal or a failure took *)
(* a branch back - the store as the branch shows it and the store below it *)
(* both export to a genesis that imports to the same state, every key and  *)
(* node can sign, and what admission lets through the handler accepts.     *)
THEOREM BranchesKeepPromises ==
  TxSpec => [](/\ GenesisRoundTrip /\ B!GenesisRoundTrip
               /\ FleetCanSign /\ AdmissionImpliesAcceptance)
<1>1. RecordsInv => GenesisRoundTrip
  BY RecordsReimport
<1>2. B!RecordsInv => B!GenesisRoundTrip
  BY BelowSettings, B!RecordsReimport
<1>3. TxTypeOK => AdmissionImpliesAcceptance
  BY AdmissionAgrees DEF TxTypeOK
<1> QED  BY <1>1, <1>2, <1>3, BranchInvHolds, PTL DEF BranchInv

(* As long as the limits fit a uint64, an activation is judged by the      *)
(* documented rule on the records its branch shows: those the activations  *)
(* and deactivations before it in the same transaction have left.          *)
THEOREM BranchVerdictExact ==
  ASSUME NoOverflow
  PROVE  TxSpec => []VerdictFaithful
<1>1. TxInit => LicensesBounded
  BY GenesisAssumption DEF TxInit, Init, LicensesBounded
<1>2. TypeOK /\ LicensesBounded /\ StoreStep => LicensesBounded'
  BY LicensesBoundedStep
<1>3. LicensesBounded /\ UNCHANGED <<params, envVars>> => LicensesBounded'
  BY DEF LicensesBounded, envVars
<1>4. RecordsInv => TypeOK
  BY DEF RecordsInv, NodeIndexes
<1>5. RecordsInv /\ LicensesBounded => VerdictFaithful
  BY VerdictFollows DEF RecordsInv, VerdictInv
<1> QED
  BY <1>1, <1>2, <1>3, <1>4, <1>5, BranchInvHolds, BranchSteps, PTL DEF TxSpec, BranchInv

(* While governance leaves the parameters alone, keys are created at the   *)
(* documented rate on every branch: the authorizations of one transaction  *)
(* count against each other, and a branch taken back takes its keys back.  *)
THEOREM BranchKeyRateLimited ==
  ASSUME ParamChoices = {}
  PROVE  TxSpec => []KeyRateBounded
<1>1. TxInit => RateInv /\ AtBase
  BY RateInit, BelowShown DEF TxInit
<1>2. RecordsInv => TypeOK /\ KeyIndexExact
  BY DEF RecordsInv, NodeIndexes
<1>3. RecordsInv /\ RateInv /\ StoreStep => RateInv'
  BY <1>2, GovernanceAlone, RateStep
<1>4. RateInv => KeyRateBounded
  BY DEF RateInv
<1> QED
  BY <1>1, <1>3, <1>4, BranchInvHolds, BranchSteps, BelowStands, SameAtBase, PTL
  DEF TxSpec, BranchInv

-----------------------------------------------------------------------------
(* What admission found stands                                             *)

(* The messages a gasless transaction may hold never disable a key, never  *)
(* rebind a node, and take it away only by a deactivation that names it.   *)
LEMMA HandlerKeeps ==
  ASSUME TypeOK, NEW m \in Msg, Allowlisted(m), Handle(m)
  PROVE  /\ \A n \in DOMAIN nodes :
              /\ n \in DOMAIN nodes'
              /\ nodes'[n].operator = nodes[n].operator
              /\ nodes'[n].activatedBy = nodes[n].activatedBy
              /\ nodes'[n].status = nodes[n].status \/ (m.kind = "deactivate" /\ m.node = n)
         /\ \A k \in DOMAIN activationKeys :
              k \in DOMAIN activationKeys' /\ activationKeys'[k] = activationKeys[k]
         /\ UNCHANGED <<nodeTypes, params>>
<1> USE DEF registryVars, keyVars, nodeVars
<1>1. CASE m.kind = "authorize" /\ AuthorizeActivationKey(m.signer, m.key)
  <2> DEFINE r == [operator |-> m.signer, createdAt |-> now, status |-> "active"]
  <2>1. /\ m.key \notin DOMAIN activationKeys
        /\ activationKeys' = Put(activationKeys, m.key, r)
        /\ UNCHANGED <<nodes, nodeTypes, params>>
    BY <1>1 DEF AuthorizeActivationKey, KeyUnused
  <2> HIDE DEF r
  <2> QED  BY <2>1 DEF Put
<1>2. CASE m.kind = "activate" /\ ActivateNode(m.signer, m.operator, m.node, m.type)
  <2>0. /\ m.signer \in KeyAddresses /\ m.operator \in Operators
        /\ m.node \in NodeAddresses /\ m.type \in NodeTypeIds
    BY <1>2, MsgFields
  <2>1. \A n \in DOMAIN nodes : n \in DOMAIN nodes' /\ nodes'[n] = nodes[n]
    <3>1. PICK key \in KeyAddresses, op \in Operators, node \in NodeAddresses,
               type \in NodeTypeIds : ActivateNode(key, op, node, type)
      BY <1>2, <2>0
    <3>2. /\ DOMAIN nodes' = DOMAIN nodes \cup {node}
          /\ \A n \in DOMAIN nodes : nodes'[n] = nodes[n]
      BY <3>1, ActivationWrites
    <3> QED  BY <3>2
  <2>2. UNCHANGED <<activationKeys, nodeTypes, params>>
    BY <1>2 DEF ActivateNode
  <2> QED  BY <2>1, <2>2
<1>3. CASE m.kind = "deactivate" /\ DeactivateNode(m.signer, m.node)
  <2>1. /\ DOMAIN nodes' = DOMAIN nodes
        /\ \A n \in DOMAIN nodes : n # m.node => nodes'[n] = nodes[n]
        /\ nodes'[m.node].operator = nodes[m.node].operator
        /\ nodes'[m.node].activatedBy = nodes[m.node].activatedBy
    BY <1>3, MsgFields, DeactivationWrites
  <2>2. UNCHANGED <<activationKeys, nodeTypes, params>>
    BY <1>3 DEF DeactivateNode
  <2>3. ASSUME NEW n \in DOMAIN nodes
        PROVE  /\ nodes'[n].operator = nodes[n].operator
               /\ nodes'[n].activatedBy = nodes[n].activatedBy
               /\ nodes'[n].status = nodes[n].status \/ m.node = n
    BY <2>1
  <2> QED  BY <1>3, <2>1, <2>2, <2>3
<1>4. CASE m.kind = "status" /\ UpdateNodeStatus(m.signer, nodeStatusCounters)
  <2>1. HeartbeatStep(m.signer) /\ m.signer \in NodeAddresses
    BY <1>4, MsgFields DEF HeartbeatStep, UpdateNodeStatus
  <2>2. /\ DOMAIN nodes' = DOMAIN nodes
        /\ \A n \in DOMAIN nodes : n # m.signer => nodes'[n] = nodes[n]
        /\ nodes'[m.signer].operator = nodes[m.signer].operator
        /\ nodes'[m.signer].activatedBy = nodes[m.signer].activatedBy
        /\ nodes'[m.signer].status = nodes[m.signer].status
    BY <2>1, HeartbeatWrites
  <2>3. UNCHANGED <<activationKeys, nodeTypes, params>>
    BY <2>1 DEF HeartbeatStep
  <2>4. ASSUME NEW n \in DOMAIN nodes
        PROVE  /\ nodes'[n].operator = nodes[n].operator
               /\ nodes'[n].activatedBy = nodes[n].activatedBy
               /\ nodes'[n].status = nodes[n].status
    BY <2>2
  <2> QED  BY <2>2, <2>3, <2>4
<1>5. m.kind # "deauthorize"
  BY DEF Allowlisted
<1> QED  BY <1>1, <1>2, <1>3, <1>4, <1>5 DEF Handle

(* The standing of the j-th message: what AdmissionStands says of the one  *)
(* whose turn it is, with the messages handled so far.                     *)
Turn == IF phase = "msgs" THEN pos ELSE 1

Stands(j) ==
  LET m == msgs[j]
  IN  /\ m.kind = "deactivate" =>
           /\ m.node \in DOMAIN nodes
           /\ ActiveNode(m.node) \/ DeactivatedBefore(Turn, m.node)
           /\ DeactivateSigner(m.node, m.signer)
      /\ m.kind = "status" =>
           /\ m.signer \in DOMAIN nodes
           /\ ActiveNode(m.signer) \/ DeactivatedBefore(Turn, m.signer)
           /\ StatusNotOverLimit(m.signer, nodeStatusCounters)
      /\ m.kind = "activate" =>
           /\ ActiveKey(m.signer) /\ activationKeys[m.signer].operator = m.operator
           /\ LicensedForNodeType(m.operator, m.type)

StandsInv ==
  /\ phase = "ante" => \A j \in 1 .. pos - 1 : Stands(j)
  /\ phase = "msgs" /\ free => \A j \in pos .. Len(msgs) : Stands(j)

(* One admission: only counters change, and no message was handled yet.    *)
LEMMA AdmissionFacts ==
  ASSUME AdmitNext
  PROVE  /\ Admit(msgs[pos])
         /\ UNCHANGED <<msgs, params, nodeTypes, activationKeys, nodes, licenses, now>>
         /\ Turn = 1 /\ Turn' = 1 /\ Today' = Today
<1>1. /\ phase = "ante" /\ Admit(msgs[pos]) /\ UNCHANGED <<msgs, fleetVars, envVars>>
      /\ UNCHANGED phase \/ pos' = 1
  BY DEF AdmitNext
<1>2. UNCHANGED <<params, nodeTypes, activationKeys, nodes, licenses, now>>
  BY <1>1 DEF fleetVars, registryVars, keyVars, nodeVars, envVars
<1>3. Turn = 1 /\ Turn' = 1
  BY <1>1 DEF Turn
<1> QED  BY <1>1, <1>2, <1>3 DEF Today, Day

(* A counter advances only within its limit.                               *)
LEMMA LimitKept ==
  ASSUME AdmitNext, NEW n, StatusNotOverLimit(n, nodeStatusCounters)
  PROVE  StatusNotOverLimit(n, nodeStatusCounters)'
<1>1. CASE UNCHANGED nodeStatusCounters
  BY <1>1, AdmissionFacts DEF StatusNotOverLimit, DailyCount
<1>2. CASE AdmitStatus(msgs[pos].signer)
  <2> DEFINE s == msgs[pos].signer
             r == [day |-> Today, count |-> DailyCount(nodeStatusCounters, s) + 1]
  <2>1. /\ nodeStatusCounters' = Put(nodeStatusCounters, s, r)
        /\ DailyCount(nodeStatusCounters, s) + 1 <= params.StatusDailyLimit
    BY <1>2 DEF AdmitStatus, AdmittedStatus, Counted
  <2>2. r.day = Today /\ r.count = DailyCount(nodeStatusCounters, s) + 1
    OBVIOUS
  <2> HIDE DEF r, s
  <2>3. CASE n = s
    <3>1. n \in DOMAIN nodeStatusCounters' /\ nodeStatusCounters'[n] = r
      BY <2>1, <2>3 DEF Put
    <3> QED  BY <2>1, <2>2, <2>3, <3>1, AdmissionFacts DEF StatusNotOverLimit, DailyCount
  <2>4. CASE n # s
    <3>1. /\ n \in DOMAIN nodeStatusCounters' <=> n \in DOMAIN nodeStatusCounters
          /\ n \in DOMAIN nodeStatusCounters =>
               nodeStatusCounters'[n] = nodeStatusCounters[n]
      BY <2>1, <2>4 DEF Put
    <3> QED  BY <3>1, AdmissionFacts DEF StatusNotOverLimit, DailyCount
  <2> QED  BY <2>3, <2>4
<1> QED
  BY <1>1, <1>2, AdmissionFacts
  DEF Admit, AdmitAuthorize, AdmitActivate, AdmitDeactivate, ConsumeGaslessCounter

(* What stood before an admission stands after it.                         *)
LEMMA AdmissionKeeps ==
  ASSUME AdmitNext, NEW j, Stands(j)
  PROVE  Stands(j)'
<1>1. \A op, type : LicensedForNodeType(op, type) => LicensedForNodeType(op, type)'
  BY AdmissionFacts DEF LicensedForNodeType, BackingLicenses
<1>2. \A n : DeactivatedBefore(Turn, n) => DeactivatedBefore(Turn, n)'
  BY AdmissionFacts DEF DeactivatedBefore
<1> QED
  BY <1>1, <1>2, AdmissionFacts, LimitKept
  DEF Stands, ActiveNode, ActiveKey, DeactivateSigner

(* A message stands once it is admitted.                                   *)
LEMMA AdmittedStands ==
  ASSUME AdmitNext, NEW j, j = pos
  PROVE  Stands(j)'
<1> DEFINE m == msgs[j]
<1>1. Admit(m) /\ msgs'[j] = m
  BY AdmissionFacts
<1>2. \A op, type : LicensedForNodeType(op, type) => LicensedForNodeType(op, type)'
  BY AdmissionFacts DEF LicensedForNodeType, BackingLicenses
<1>3. CASE m.kind = "authorize"
  BY <1>1, <1>3 DEF Stands
<1>4. CASE m.kind = "activate" /\ AdmitActivate(m.signer, m.operator, m.type)
  BY <1>1, <1>2, <1>4, AdmissionFacts DEF Stands, AdmitActivate, ActiveKey
<1>5. CASE m.kind = "deactivate" /\ AdmitDeactivate(m.signer, m.node)
  BY <1>1, <1>5, AdmissionFacts
  DEF Stands, AdmitDeactivate, AdmittedDeactivateSigner, DeactivateSigner, ActiveNode, ActiveKey
<1>6. CASE m.kind = "status" /\ AdmitStatus(m.signer)
  <2> DEFINE s == m.signer
             r == [day |-> Today, count |-> DailyCount(nodeStatusCounters, s) + 1]
  <2>1. /\ nodeStatusCounters' = Put(nodeStatusCounters, s, r)
        /\ DailyCount(nodeStatusCounters, s) + 1 <= params.StatusDailyLimit
    BY <1>6 DEF AdmitStatus, AdmittedStatus, Counted
  <2>2. r.day = Today /\ r.count = DailyCount(nodeStatusCounters, s) + 1
    OBVIOUS
  <2>3. s \in DOMAIN nodeStatusCounters' /\ nodeStatusCounters'[s] = r
    <3> HIDE DEF r, s
    <3> QED  BY <2>1 DEF Put
  <2>4. \A n : n = s => StatusNotOverLimit(n, nodeStatusCounters)'
    <3> HIDE DEF r, s
    <3> QED  BY <2>1, <2>2, <2>3, AdmissionFacts DEF StatusNotOverLimit, DailyCount
  <2>5. ActiveNode(s)
    BY <1>6 DEF AdmitStatus, AdmittedStatus
  <2> QED  BY <1>1, <1>6, <2>4, <2>5, AdmissionFacts DEF Stands, ActiveNode
<1> QED  BY <1>1, <1>3, <1>4, <1>5, <1>6 DEF Admit

(* What stood before a handler ran stands after it, but for the node it    *)
(* deactivated.                                                            *)
LEMMA HandlerLeavesStanding ==
  ASSUME TxTypeOK, HandleNext, free, pos < Len(msgs), NEW j \in Nat, Stands(j)
  PROVE  Stands(j)'
<1>1. /\ phase = "msgs" /\ Handle(msgs[pos]) /\ UNCHANGED <<quotaVars, envVars>>
      /\ pos' = pos + 1 /\ UNCHANGED <<phase, msgs>>
  BY DEF HandleNext
<1>2. /\ msgs \in MsgLists /\ pos \in 1 .. Len(msgs) /\ pos \in DOMAIN msgs
      /\ Allowlisted(msgs[pos])
  BY <1>1, ListType DEF TxTypeOK, DeliveryOK
<1>3. PICK m \in Msg : m = msgs[pos]
  BY <1>2, ListType
<1>4. /\ \A n \in DOMAIN nodes :
            /\ n \in DOMAIN nodes'
            /\ nodes'[n].operator = nodes[n].operator
            /\ nodes'[n].activatedBy = nodes[n].activatedBy
            /\ nodes'[n].status = nodes[n].status \/ (m.kind = "deactivate" /\ m.node = n)
      /\ \A k \in DOMAIN activationKeys :
            k \in DOMAIN activationKeys' /\ activationKeys'[k] = activationKeys[k]
      /\ UNCHANGED <<nodeTypes, params>>
  BY <1>1, <1>2, <1>3, HandlerKeeps DEF TxTypeOK
<1>5. UNCHANGED <<nodeStatusCounters, licenses, now>>
  BY <1>1 DEF quotaVars, envVars
<1>6. Turn = pos /\ Turn' = pos + 1 /\ pos \in Nat
  BY <1>1, <1>2 DEF Turn
<1>7. ASSUME NEW n, DeactivatedBefore(Turn, n) PROVE DeactivatedBefore(Turn, n)'
  <2>1. PICK i \in 1 .. pos - 1 : msgs[i].kind = "deactivate" /\ msgs[i].node = n
    BY <1>6, <1>7 DEF DeactivatedBefore
  <2>2. i \in 1 .. (pos + 1) - 1
    BY <1>6, <2>1
  <2> QED  BY <1>1, <1>6, <2>1, <2>2 DEF DeactivatedBefore
<1>8. ASSUME NEW n, m.kind = "deactivate", m.node = n PROVE DeactivatedBefore(Turn, n)'
  <2>1. pos \in 1 .. (pos + 1) - 1
    BY <1>2, <1>6
  <2> QED  BY <1>1, <1>3, <1>6, <1>8, <2>1 DEF DeactivatedBefore
<1>9. ASSUME NEW n, ActiveNode(n) \/ DeactivatedBefore(Turn, n)
      PROVE  (ActiveNode(n) \/ DeactivatedBefore(Turn, n))'
  BY <1>4, <1>7, <1>8, <1>9 DEF ActiveNode
<1>10. ASSUME NEW k, ActiveKey(k)
       PROVE  ActiveKey(k)' /\ activationKeys'[k] = activationKeys[k]
  BY <1>4, <1>10 DEF ActiveKey
<1>11. ASSUME NEW n \in DOMAIN nodes, NEW signer, DeactivateSigner(n, signer)
       PROVE  n \in DOMAIN nodes' /\ DeactivateSigner(n, signer)'
  BY <1>4, <1>10, <1>11 DEF DeactivateSigner
<1>12. ASSUME NEW n, StatusNotOverLimit(n, nodeStatusCounters)
       PROVE  StatusNotOverLimit(n, nodeStatusCounters)'
  BY <1>4, <1>5, <1>12 DEF StatusNotOverLimit, DailyCount, Today, Day
<1>13. ASSUME NEW op, NEW type, LicensedForNodeType(op, type)
       PROVE  LicensedForNodeType(op, type)'
  BY <1>4, <1>5, <1>13 DEF LicensedForNodeType, BackingLicenses
<1> QED
  BY <1>1, <1>4, <1>9, <1>10, <1>11, <1>12, <1>13 DEF Stands

LEMMA StandsStep == TxTypeOK /\ StandsInv /\ [TxNext]_<<vars, txVars>> => StandsInv'
<1> SUFFICES ASSUME TxTypeOK, StandsInv, [TxNext]_<<vars, txVars>> PROVE StandsInv'
  OBVIOUS
<1>1. ASSUME NEW list \in MsgLists, NEW zeroFee \in BOOLEAN, Begin(list, zeroFee)
      PROVE  StandsInv'
  BY <1>1 DEF Begin, StandsInv
<1>2. CASE AdmitNext
  <2>1. phase = "ante" /\ pos \in 1 .. Len(msgs) /\ msgs \in MsgLists /\ Len(msgs) \in Nat
    BY <1>2, ListType DEF AdmitNext, TxTypeOK, DeliveryOK
  <2>2. ASSUME NEW j \in 1 .. pos PROVE Stands(j)'
    <3>1. CASE j = pos
      BY <1>2, <3>1, AdmittedStands
    <3>2. CASE j # pos
      <4>1. j \in 1 .. pos - 1
        BY <2>1, <3>2
      <4>2. Stands(j)
        BY <2>1, <4>1 DEF StandsInv
      <4> QED  BY <1>2, <4>2, AdmissionKeeps
    <3> QED  BY <3>1, <3>2
  <2>3. CASE pos < Len(msgs)
    <3>1. phase' = "ante" /\ pos' = pos + 1
      BY <1>2, <2>1, <2>3 DEF AdmitNext
    <3> QED  BY <2>1, <2>2, <3>1 DEF StandsInv
  <2>4. CASE ~ pos < Len(msgs)
    <3>1. phase' = "msgs" /\ pos' = 1 /\ msgs' = msgs /\ pos = Len(msgs)
      BY <1>2, <2>1, <2>4 DEF AdmitNext
    <3> QED  BY <2>1, <2>2, <3>1 DEF StandsInv
  <2> QED  BY <2>3, <2>4
<1>3. CASE HandleNext
  <2>1. phase = "msgs" /\ pos \in 1 .. Len(msgs) /\ msgs \in MsgLists /\ Len(msgs) \in Nat
    BY <1>3, ListType DEF HandleNext, TxTypeOK, DeliveryOK
  <2>2. CASE pos < Len(msgs) /\ free
    <3>1. phase' = "msgs" /\ pos' = pos + 1 /\ msgs' = msgs
      BY <1>3, <2>1, <2>2 DEF HandleNext
    <3>2. ASSUME NEW j \in pos + 1 .. Len(msgs) PROVE Stands(j)'
      <4>1. j \in Nat /\ Stands(j)
        BY <2>1, <2>2 DEF StandsInv
      <4> QED  BY <1>3, <2>2, <4>1, HandlerLeavesStanding
    <3> QED  BY <2>1, <3>1, <3>2 DEF StandsInv
  <2>3. CASE pos < Len(msgs) /\ ~free
    BY <1>3, <2>1, <2>3 DEF HandleNext, StandsInv
  <2>4. CASE ~ pos < Len(msgs)
    BY <1>3, <2>4 DEF HandleNext, EndDelivery, StandsInv
  <2> QED  BY <2>2, <2>3, <2>4
<1>4. CASE Refuse \/ Fail
  BY <1>4 DEF Refuse, Fail, EndDelivery, StandsInv
<1>5. CASE Otherwise
  BY <1>5 DEF Otherwise, txVars, StandsInv
<1>6. CASE UNCHANGED <<vars, txVars>>
  <2>1. \A j : Stands(j) => Stands(j)'
    BY <1>6
    DEF vars, txVars, fleetVars, registryVars, keyVars, nodeVars, quotaVars, envVars, Stands,
        Turn, ActiveNode, ActiveKey, DeactivateSigner, DeactivatedBefore, StatusNotOverLimit,
        DailyCount, Today, Day, LicensedForNodeType, BackingLicenses
  <2> QED  BY <1>6, <2>1 DEF txVars, StandsInv
<1> QED  BY <1>1, <1>2, <1>3, <1>4, <1>5, <1>6 DEF TxNext

(* Whatever a gasless transaction batches, a handler refuses a             *)
(* deactivation or a heartbeat in it only when an earlier message of the   *)
(* same transaction took the node away: admission, which ran on the state  *)
(* before all of them, was not overtaken otherwise.                        *)
THEOREM AdmissionNotOvertaken == TxSpec => []AdmissionStands
<1>1. TxInit => StandsInv
  BY DEF TxInit, StandsInv
<1>2. TxTypeOK /\ StandsInv => AdmissionStands
  <2> SUFFICES ASSUME TxTypeOK, StandsInv, phase = "msgs", free PROVE AdmissionStands
    BY DEF AdmissionStands
  <2>1. Turn = pos /\ Stands(pos)
    BY ListType DEF TxTypeOK, DeliveryOK, StandsInv, Turn
  <2> QED  BY <2>1 DEF Stands, AdmissionStands
<1> QED  BY <1>1, <1>2, TxTypeCorrect, StandsStep, PTL DEF TxSpec

-----------------------------------------------------------------------------
(* Batching implements single-message transactions                         *)

(* The instance of Network counts and compares as this module does.        *)
LEMMA SameCardinality == \A S : N!Cardinality(S) = Cardinality(S)
BY DEF Cardinality, N!Cardinality

LEMMA SameLimits ==
  /\ \A p, total, active, recent, held :
       N!BoundedVerdict(p, total, active, recent, held)
         = BoundedVerdict(p, total, active, recent, held)
  /\ \A p, daily, held : N!WithinActivateQuota(p, daily, held) = WithinActivateQuota(p, daily, held)
  /\ \A held, stopAt : N!CountUpTo(held, stopAt) = CountUpTo(held, stopAt)
BY DEF BoundedVerdict, ActivationVerdict, CountUpTo, ActivationStopAt, Larger, Times,
       WithinActivateQuota,
       N!BoundedVerdict, N!ActivationVerdict, N!CountUpTo, N!ActivationStopAt, N!Larger, N!Times,
       N!WithinActivateQuota

(* What Network sees is the current branch.                                *)
FleetInSight ==
  /\ SeenFleet.activationKeys = activationKeys
  /\ SeenFleet.operatorActivationKeys = operatorActivationKeys
  /\ SeenFleet.nodes = nodes
  /\ SeenFleet.operatorNodes = operatorNodes
  /\ SeenFleet.operatorNodeCounts = operatorNodeCounts
  /\ SeenFleet.recentNodeActivity = recentNodeActivity
  /\ SeenFleet.operators = operators
  /\ SeenFleet.accounts = accounts
  /\ SeenFleet.balances = balances
  /\ SeenFleet.feeCollector = feeCollector

QuotasInSight ==
  /\ SeenQuotas.nodeStatusCounters = nodeStatusCounters
  /\ SeenQuotas.gaslessCounters = gaslessCounters

(* A handler of GaslessTx is the handler of Network on what it sees.       *)
LEMMA AuthorizeMaps ==
  ASSUME FleetInSight, FleetInSight', NEW op, NEW key, AuthorizeActivationKey(op, key)
  PROVE  N!AuthorizeActivationKey(op, key)
<1>1. /\ N!KeyUnused(key) <=> KeyUnused(key)
      /\ N!KeysOf(op) = KeysOf(op)
  BY DEF FleetInSight, N!KeyUnused, KeyUnused, KeysOf, N!KeysOf
<1>2. N!ActiveKeysOf(op) = ActiveKeysOf(op) /\ N!RecentKeysOf(op) = RecentKeysOf(op)
  BY <1>1 DEF FleetInSight, ActiveKeysOf, N!ActiveKeysOf, RecentKeysOf, N!RecentKeysOf
<1> QED
  BY <1>1, <1>2, SameCardinality
  DEF FleetInSight, AuthorizeActivationKey, N!AuthorizeActivationKey, Put, N!Put,
      RegisterOperator, N!RegisterOperator, CreateAccountIfNotExists,
      N!CreateAccountIfNotExists, registryVars, N!registryVars, nodeVars, N!nodeVars,
      bankVars, N!bankVars

LEMMA DeauthorizeMaps ==
  ASSUME FleetInSight, FleetInSight', NEW op, NEW key, DeauthorizeActivationKey(op, key)
  PROVE  N!DeauthorizeActivationKey(op, key)
BY DEF FleetInSight, DeauthorizeActivationKey, N!DeauthorizeActivationKey, ActiveKey, N!ActiveKey,
       PayDeauthorizeFee, N!PayDeauthorizeFee, registryVars, N!registryVars, nodeVars, N!nodeVars

LEMMA ActivateMaps ==
  ASSUME FleetInSight, FleetInSight', NEW key, NEW op, NEW node, NEW type,
         ActivateNode(key, op, node, type)
  PROVE  N!ActivateNode(key, op, node, type)
<1>1. /\ N!NodeCounts(op, type) = NodeCounts(op, type)
      /\ N!RecentEntries(op, type) = RecentEntries(op, type)
      /\ N!BackingLicenses(op, type) = BackingLicenses(op, type)
      /\ N!Today = Today
      /\ N!ActiveKey(key) <=> ActiveKey(key)
      /\ N!NodeUnused(node) <=> NodeUnused(node)
  BY DEF FleetInSight, NodeCounts, N!NodeCounts, RecentEntries, N!RecentEntries,
         BackingLicenses, N!BackingLicenses, Today, N!Today, Day, N!Day, ActiveKey, N!ActiveKey,
         NodeUnused, N!NodeUnused
<1> QED
  BY <1>1, SameCardinality, SameLimits
  DEF FleetInSight, ActivateNode, N!ActivateNode, Put, N!Put, RegisterOperator,
      N!RegisterOperator, CreateAccountIfNotExists, N!CreateAccountIfNotExists, registryVars,
      N!registryVars, keyVars, N!keyVars, bankVars, N!bankVars

LEMMA DeactivateMaps ==
  ASSUME FleetInSight, FleetInSight', NEW signer, NEW node, DeactivateNode(signer, node)
  PROVE  N!DeactivateNode(signer, node)
BY DEF FleetInSight, DeactivateNode, N!DeactivateNode, ActiveNode, N!ActiveNode, ActiveKey,
       N!ActiveKey, DeactivateSigner, N!DeactivateSigner, OneActiveLess, N!OneActiveLess,
       NodeCounts, N!NodeCounts, Put, N!Put, registryVars, N!registryVars, keyVars, N!keyVars,
       bankVars, N!bankVars

LEMMA StatusMaps ==
  ASSUME FleetInSight, FleetInSight', NEW node, HeartbeatStep(node)
  PROVE  /\ N!ActiveNode(node) /\ N!TouchNodeActivity(node)
         /\ UNCHANGED <<params, N!registryVars, N!keyVars, SeenFleet.operatorNodes,
                        SeenFleet.operatorNodeCounts, SeenFleet.operators,
                        SeenFleet.accounts, N!bankVars>>
BY DEF FleetInSight, HeartbeatStep, ActiveNode, N!ActiveNode, TouchNodeActivity,
       N!TouchNodeActivity, Today, N!Today, Day, N!Day, registryVars, N!registryVars, keyVars,
       N!keyVars, bankVars, N!bankVars

-----------------------------------------------------------------------------
(* Charges, which Network makes together with the handler                  *)

(* The counter that the admission of a message advances, and what it found *)
(* that no handler can change.                                             *)
ChargedFor(m, before, after) ==
  /\ m.kind = "authorize" =>
       LET c == <<"authorize", m.signer, NoScope>>
       IN  /\ OperatorLicensed(m.signer)
           /\ DailyCount(before.gaslessCounters, c) + 1 <= params.RecentKeyLimit
           /\ after.gaslessCounters = Counted(before.gaslessCounters, c)
           /\ after.nodeStatusCounters = before.nodeStatusCounters
  /\ m.kind = "activate" =>
       LET c == <<"activate", m.signer, m.type>>
       IN  /\ LicensedForNodeType(m.operator, m.type)
           /\ WithinActivateQuota(params, DailyCount(before.gaslessCounters, c) + 1,
                                  BackingLicenses(m.operator, m.type))
           /\ after.gaslessCounters = Counted(before.gaslessCounters, c)
           /\ after.nodeStatusCounters = before.nodeStatusCounters
  /\ m.kind = "deactivate" =>
       LET c == <<"deactivate", m.signer, NoScope>>
       IN  /\ DailyCount(before.gaslessCounters, c) + 1 <= params.StatusDailyLimit
           /\ after.gaslessCounters = Counted(before.gaslessCounters, c)
           /\ after.nodeStatusCounters = before.nodeStatusCounters
  /\ m.kind = "status" =>
       LET spent == DailyCount(before.nodeStatusCounters, m.signer)
       IN  /\ m.signer \in DOMAIN nodes
           /\ spent = 0 => LicensedForNodeType(nodes[m.signer].operator, nodes[m.signer].type)
           /\ spent + 1 <= params.StatusDailyLimit
           /\ after.nodeStatusCounters = Counted(before.nodeStatusCounters, m.signer)
           /\ after.gaslessCounters = before.gaslessCounters

(* What the handler checks again.                                          *)
StillStands(m) ==
  /\ m.kind = "activate" => ActiveKey(m.signer) /\ activationKeys[m.signer].operator = m.operator
  /\ m.kind = "deactivate" => ActiveNode(m.node) /\ DeactivateSigner(m.node, m.signer)
  /\ m.kind = "status" => ActiveNode(m.signer)

(* An admission is a charge, and finds what the handler will check.        *)
LEMMA AdmissionCharges ==
  ASSUME NEW m \in Msg, Admit(m), NEW before, NEW after, before = Quotas, after = Quotas'
  PROVE  ChargedFor(m, before, after) /\ StillStands(m)
<1>0. /\ before.gaslessCounters = gaslessCounters /\ after.gaslessCounters = gaslessCounters'
      /\ before.nodeStatusCounters = nodeStatusCounters
      /\ after.nodeStatusCounters = nodeStatusCounters'
  BY DEF Quotas
<1>1. CASE m.kind = "authorize" /\ AdmitAuthorize(m.signer)
  BY <1>0, <1>1 DEF AdmitAuthorize, ConsumeGaslessCounter, ChargedFor, StillStands
<1>2. CASE m.kind = "activate" /\ AdmitActivate(m.signer, m.operator, m.type)
  BY <1>0, <1>2 DEF AdmitActivate, ChargedFor, StillStands
<1>3. CASE m.kind = "deactivate" /\ AdmitDeactivate(m.signer, m.node)
  BY <1>0, <1>3
  DEF AdmitDeactivate, AdmittedDeactivateSigner, DeactivateSigner, ConsumeGaslessCounter,
      ChargedFor, StillStands
<1>4. CASE m.kind = "status" /\ AdmitStatus(m.signer)
  BY <1>0, <1>4 DEF AdmitStatus, AdmittedStatus, ActiveNode, ChargedFor, StillStands
<1> QED  BY <1>1, <1>2, <1>3, <1>4 DEF Admit

(* A charge that Network sees is an admission of Network's.                *)
LEMMA ChargeMaps ==
  ASSUME FleetInSight, NEW m \in Msg, NEW before, NEW after,
         SeenQuotas.nodeStatusCounters = before.nodeStatusCounters,
         SeenQuotas.gaslessCounters = before.gaslessCounters,
         (SeenQuotas.nodeStatusCounters)' = after.nodeStatusCounters,
         (SeenQuotas.gaslessCounters)' = after.gaslessCounters,
         ChargedFor(m, before, after), StillStands(m)
  PROVE  /\ m.kind = "authorize" => N!AdmitAuthorize(m.signer)
         /\ m.kind = "activate" => N!AdmitActivate(m.signer, m.operator, m.type)
         /\ m.kind = "deactivate" => N!AdmitDeactivate(m.signer, m.node)
         /\ m.kind = "status" => N!AdmitStatus(m.signer)
<1>1. /\ \A counters, k : N!DailyCount(counters, k) = DailyCount(counters, k)
      /\ \A counters, k : N!Counted(counters, k) = Counted(counters, k)
      /\ N!NoScope = NoScope
  BY DEF DailyCount, N!DailyCount, Counted, N!Counted, Put, N!Put, Today, N!Today, Day, N!Day,
         NoScope, N!NoScope
<1>2. /\ \A op : N!OperatorLicensed(op) <=> OperatorLicensed(op)
      /\ \A op, type : N!LicensedForNodeType(op, type) <=> LicensedForNodeType(op, type)
      /\ \A op, type : N!BackingLicenses(op, type) = BackingLicenses(op, type)
  BY SameLimits DEF OperatorLicensed, N!OperatorLicensed, LicensedForNodeType,
                    N!LicensedForNodeType, BackingLicenses, N!BackingLicenses
<1>3. /\ \A k : N!ActiveKey(k) <=> ActiveKey(k)
      /\ \A n : N!ActiveNode(n) <=> ActiveNode(n)
      /\ \A n, signer : N!AdmittedDeactivateSigner(n, signer) <=> DeactivateSigner(n, signer)
  BY DEF FleetInSight, ActiveKey, N!ActiveKey, ActiveNode, N!ActiveNode,
         N!AdmittedDeactivateSigner, DeactivateSigner
<1>4. ASSUME m.kind = "authorize" PROVE N!AdmitAuthorize(m.signer)
  BY <1>1, <1>2, <1>4 DEF ChargedFor, N!AdmitAuthorize, N!ConsumeGaslessCounter
<1>5. ASSUME m.kind = "activate" PROVE N!AdmitActivate(m.signer, m.operator, m.type)
  BY <1>1, <1>2, <1>3, <1>5, SameLimits DEF FleetInSight, ChargedFor, StillStands, N!AdmitActivate
<1>6. ASSUME m.kind = "deactivate" PROVE N!AdmitDeactivate(m.signer, m.node)
  BY <1>1, <1>3, <1>6 DEF ChargedFor, StillStands, N!AdmitDeactivate, N!ConsumeGaslessCounter
<1>7. ASSUME m.kind = "status" PROVE N!AdmitStatus(m.signer)
  BY <1>1, <1>2, <1>3, <1>7
  DEF FleetInSight, ChargedFor, StillStands, N!AdmitStatus, N!AdmittedStatus
<1> QED  BY <1>4, <1>5, <1>6, <1>7

(* A handler checks again what could have changed.                         *)
LEMMA HandlerChecks ==
  ASSUME NEW m \in Msg, Handle(m)
  PROVE  StillStands(m)
BY DEF Handle, StillStands, ActivateNode, DeactivateNode, UpdateNodeStatus

(* A charge stays one while only handlers run.                             *)
LEMMA ChargeStays ==
  ASSUME NEW m, NEW before, NEW after, ChargedFor(m, before, after),
         UNCHANGED <<params, nodeTypes, nodeTypeByLicenseType, licenses, now>>,
         \A n \in DOMAIN nodes : /\ n \in DOMAIN nodes'
                                 /\ nodes'[n].operator = nodes[n].operator
                                 /\ nodes'[n].type = nodes[n].type
  PROVE  ChargedFor(m, before, after)'
<1>1. /\ \A counters, k : DailyCount(counters, k)' = DailyCount(counters, k)
      /\ \A counters, k : Counted(counters, k)' = Counted(counters, k)
  BY DEF DailyCount, Counted, Put, Today, Day
<1>2. /\ \A op : OperatorLicensed(op)' <=> OperatorLicensed(op)
      /\ \A op, type : LicensedForNodeType(op, type)' <=> LicensedForNodeType(op, type)
      /\ \A op, type : BackingLicenses(op, type)' = BackingLicenses(op, type)
  BY DEF OperatorLicensed, LicensedForNodeType, BackingLicenses
<1> QED  BY <1>1, <1>2 DEF ChargedFor

-----------------------------------------------------------------------------
(* What the auxiliary variables say                                        *)

(* No handler of a message here touches the parameters or the registry, or *)
(* removes an account.                                                     *)
LEMMA HandlerSpares ==
  ASSUME NEW m \in Msg, Handle(m)
  PROVE  UNCHANGED <<params, nodeTypes, nodeTypeByLicenseType>> /\ accounts \subseteq accounts'
BY DEF Handle, AuthorizeActivationKey, DeauthorizeActivationKey, ActivateNode, DeactivateNode,
       UpdateNodeStatus, CreateAccountIfNotExists, registryVars

(* Nor does it remove or rebind a node.                                    *)
LEMMA HandlerKeepsNodes ==
  ASSUME TypeOK, NEW m \in Msg, Handle(m)
  PROVE  \A n \in DOMAIN nodes : /\ n \in DOMAIN nodes'
                                 /\ nodes'[n].operator = nodes[n].operator
                                 /\ nodes'[n].type = nodes[n].type
<1>1. CASE m.kind = "authorize" /\ AuthorizeActivationKey(m.signer, m.key)
  BY <1>1 DEF AuthorizeActivationKey, nodeVars
<1>2. CASE m.kind = "deauthorize" /\ DeauthorizeActivationKey(m.signer, m.key)
  BY <1>2 DEF DeauthorizeActivationKey, nodeVars
<1>3. CASE m.kind = "activate" /\ ActivateNode(m.signer, m.operator, m.node, m.type)
  <2>1. PICK key \in KeyAddresses, op \in Operators, node \in NodeAddresses,
             type \in NodeTypeIds : ActivateNode(key, op, node, type)
    BY <1>3, MsgFields
  <2> QED  BY <2>1, ActivationWrites
<1>4. CASE m.kind = "deactivate" /\ DeactivateNode(m.signer, m.node)
  <2>1. /\ DOMAIN nodes' = DOMAIN nodes
        /\ \A n \in DOMAIN nodes : n # m.node => nodes'[n] = nodes[n]
        /\ nodes'[m.node].operator = nodes[m.node].operator
        /\ nodes'[m.node].type = nodes[m.node].type
    BY <1>4, MsgFields, DeactivationWrites
  <2> QED  BY <2>1
<1>5. CASE m.kind = "status" /\ UpdateNodeStatus(m.signer, nodeStatusCounters)
  <2>1. HeartbeatStep(m.signer) /\ m.signer \in NodeAddresses
    BY <1>5, MsgFields DEF HeartbeatStep, UpdateNodeStatus
  <2>2. /\ DOMAIN nodes' = DOMAIN nodes
        /\ \A n \in DOMAIN nodes : n # m.signer => nodes'[n] = nodes[n]
        /\ nodes'[m.signer].operator = nodes[m.signer].operator
        /\ nodes'[m.signer].type = nodes[m.signer].type
    BY <2>1, HeartbeatWrites
  <2> QED  BY <2>2
<1> QED  BY <1>1, <1>2, <1>3, <1>4, <1>5 DEF Handle

(* The counters, as members of a set.                                      *)
PartialMaps(S, T) == UNION {[D -> T] : D \in SUBSET S}

QuotaSet == [nodeStatusCounters : PartialMaps(NodeAddresses, CounterType),
             gaslessCounters : PartialMaps(QuotaKeys, CounterType)]

LEMMA QuotaSetTyped ==
  ASSUME NEW s, NEW g, IsPartial(s, NodeAddresses, CounterType),
         IsPartial(g, QuotaKeys, CounterType)
  PROVE  [nodeStatusCounters |-> s, gaslessCounters |-> g] \in QuotaSet
<1>1. s \in PartialMaps(NodeAddresses, CounterType)
  BY DEF IsPartial, PartialMaps
<1>2. g \in PartialMaps(QuotaKeys, CounterType)
  BY DEF IsPartial, PartialMaps
<1> QED  BY <1>1, <1>2 DEF QuotaSet

LEMMA QuotasTyped ==
  /\ QuotaTypeOK => Quotas \in QuotaSet
  /\ QuotaTypeOK' => Quotas' \in QuotaSet
BY QuotaSetTyped DEF QuotaTypeOK, Quotas

(* Begin let the i-th message in.                                          *)
Standing(i) ==
  /\ ValidateBasic(msgs[i])
  /\ IF free THEN CanSubmit(msgs[i].signer) ELSE CanPay(msgs[i].signer)

(* The remembered counters are those of one charge after the other.        *)
AllCharged ==
  \A i \in 1 .. Len(charged) - 1, m \in Msg, before \in QuotaSet, after \in QuotaSet :
    m = msgs[i] /\ before = charged[i] /\ after = charged[i + 1] => ChargedFor(m, before, after)

(* The inductive invariant: what fate and charged say of the delivery.     *)
FateInv ==
  /\ charged \in Seq(QuotaSet)
  /\ phase # "idle" =>
       /\ fate \in {"refused", "failed", "done"}
       /\ \A i \in DOMAIN msgs : Standing(i)
  /\ phase = "msgs" => fate # "refused"
  /\ phase = "ante" =>
       /\ saved.fleet = Fleet /\ saved.quotas = charged[1]
       /\ Len(charged) = pos /\ charged[pos] = Quotas
  /\ phase = "msgs" /\ free =>
       Len(charged) = Len(msgs) + 1 /\ charged[Len(msgs) + 1] = Quotas
  /\ phase # "idle" /\ free => AllCharged

LEMMA FateNextSplits == FateNext => TxNext
BY DEF FateNext, TxNext, FateBegin, FateAdmitNext, FateHandleNext

LEMMA FateInvInit == FateInit => FateInv
BY DEF FateInit, TxInit, FateInv

LEMMA SameNodes ==
  ASSUME UNCHANGED fleetVars, UNCHANGED envVars
  PROVE  /\ UNCHANGED <<params, nodeTypes, nodeTypeByLicenseType, licenses, now>>
         /\ \A n \in DOMAIN nodes : /\ n \in DOMAIN nodes'
                                    /\ nodes'[n].operator = nodes[n].operator
                                    /\ nodes'[n].type = nodes[n].type
         /\ UNCHANGED accounts /\ Fleet' = Fleet
BY DEF fleetVars, envVars, registryVars, keyVars, nodeVars, bankVars, Fleet

(* A charge once made is remembered as such.                               *)
LEMMA ChargesStay ==
  ASSUME AllCharged, UNCHANGED <<params, nodeTypes, nodeTypeByLicenseType, licenses, now>>,
         \A n \in DOMAIN nodes : /\ n \in DOMAIN nodes'
                                 /\ nodes'[n].operator = nodes[n].operator
                                 /\ nodes'[n].type = nodes[n].type,
         UNCHANGED <<msgs, charged>>
  PROVE  AllCharged'
<1> SUFFICES ASSUME NEW i \in 1 .. Len(charged) - 1, NEW m \in Msg, NEW before \in QuotaSet,
                    NEW after \in QuotaSet,
                    m = msgs[i], before = charged[i], after = charged[i + 1]
             PROVE  ChargedFor(m, before, after)'
  BY DEF AllCharged
<1>1. ChargedFor(m, before, after)
  BY DEF AllCharged
<1> QED  BY <1>1, ChargeStays

LEMMA StandingStays ==
  ASSUME NEW i, Standing(i), accounts \subseteq accounts', UNCHANGED <<msgs, free>>
  PROVE  Standing(i)'
BY DEF Standing, ValidateBasic, CanSubmit, CanPay

LEMMA BeginFate ==
  ASSUME TxTypeOK, NEW list \in MsgLists, NEW zeroFee \in BOOLEAN,
         NEW end \in {"refused", "failed", "done"}, FateBegin(list, zeroFee, end)
  PROVE  FateInv'
<1>1. /\ UNCHANGED vars /\ msgs' = list /\ pos' = 1 /\ free' = zeroFee /\ saved' = Store
      /\ phase' = (IF zeroFee THEN "ante" ELSE "msgs")
      /\ fate' = end /\ charged' = <<Quotas>> /\ (end = "refused" => zeroFee)
      /\ IF zeroFee
         THEN \A i \in DOMAIN list : CanSubmit(list[i].signer)
         ELSE \A i \in DOMAIN list : CanPay(list[i].signer)
      /\ \A i \in DOMAIN list : ValidateBasic(list[i])
  BY DEF FateBegin, Begin
<1>2. Quotas \in QuotaSet /\ Quotas' = Quotas /\ Fleet' = Fleet /\ UNCHANGED accounts
  <2>1. UNCHANGED <<fleetVars, quotaVars, envVars>>
    BY <1>1 DEF vars
  <2>2. Quotas \in QuotaSet
    BY TypeOKParts, QuotasTyped DEF TxTypeOK
  <2> QED  BY <2>1, <2>2, SameNodes DEF Quotas, quotaVars
<1>3. /\ charged' \in Seq(QuotaSet) /\ Len(charged') = 1 /\ charged'[1] = Quotas
  BY <1>1, <1>2
<1>4. saved'.fleet = Fleet /\ saved'.quotas = Quotas
  BY <1>1 DEF Store
<1>5. \A i \in DOMAIN msgs' : Standing(i)'
  BY <1>1, <1>2 DEF Standing, ValidateBasic, CanSubmit, CanPay
<1>6. AllCharged'
  BY <1>3 DEF AllCharged
<1> QED  BY <1>1, <1>2, <1>3, <1>4, <1>5, <1>6 DEF FateInv

LEMMA AdmitFate ==
  ASSUME TxTypeOK, TxTypeOK', FateInv, FateAdmitNext
  PROVE  FateInv'
<1>1. /\ phase = "ante" /\ free /\ Admit(msgs[pos])
      /\ UNCHANGED fleetVars /\ UNCHANGED envVars /\ UNCHANGED <<msgs, free, fate>>
      /\ charged' = Append(charged, Quotas')
      /\ fate = "refused" => pos < Len(msgs)
  BY DEF FateAdmitNext, AdmitNext, TxTypeOK, DeliveryOK
<1>2. /\ msgs \in MsgLists /\ pos \in 1 .. Len(msgs) /\ Len(msgs) \in Nat
      /\ msgs[pos] \in Msg
  BY <1>1, ListType DEF TxTypeOK, DeliveryOK
<1>3. /\ charged \in Seq(QuotaSet) /\ Len(charged) = pos /\ charged[pos] = Quotas
      /\ saved.fleet = Fleet /\ saved.quotas = charged[1] /\ AllCharged
      /\ fate \in {"refused", "failed", "done"} /\ \A i \in DOMAIN msgs : Standing(i)
  BY <1>1 DEF FateInv
<1>4. Quotas \in QuotaSet /\ Quotas' \in QuotaSet
  BY TypeOKParts, QuotasTyped DEF TxTypeOK, TypeOK, QuotaTypeOK
<1>5. /\ charged' \in Seq(QuotaSet) /\ Len(charged') = pos + 1
      /\ \A i \in 1 .. pos : charged'[i] = charged[i]
      /\ charged'[pos + 1] = Quotas'
  BY <1>1, <1>3, <1>4, AppendProperties
<1>6. /\ UNCHANGED <<params, nodeTypes, nodeTypeByLicenseType, licenses, now>>
      /\ \A n \in DOMAIN nodes : /\ n \in DOMAIN nodes'
                                 /\ nodes'[n].operator = nodes[n].operator
                                 /\ nodes'[n].type = nodes[n].type
      /\ UNCHANGED accounts /\ Fleet' = Fleet
  BY <1>1, SameNodes
<1>7. AllCharged'
  <2> SUFFICES ASSUME NEW i \in 1 .. pos, NEW m \in Msg, NEW before \in QuotaSet,
                      NEW after \in QuotaSet,
                      m = msgs[i], before = charged'[i], after = charged'[i + 1]
               PROVE  ChargedFor(m, before, after)'
    BY <1>1, <1>2, <1>5 DEF AllCharged
  <2>1. CASE i = pos
    <3>1. before = Quotas /\ after = Quotas' /\ Admit(m)
      BY <1>1, <1>3, <1>5, <2>1
    <3>2. ChargedFor(m, before, after)
      BY <3>1, AdmissionCharges
    <3> QED  BY <1>6, <3>2, ChargeStays
  <2>2. CASE i # pos
    <3>1. i \in 1 .. Len(charged) - 1 /\ before = charged[i] /\ after = charged[i + 1]
      BY <1>2, <1>3, <1>5, <2>2
    <3>2. ChargedFor(m, before, after)
      BY <1>3, <3>1 DEF AllCharged
    <3> QED  BY <1>6, <3>2, ChargeStays
  <2> QED  BY <2>1, <2>2
<1>8. \A i \in DOMAIN msgs' : Standing(i)'
  BY <1>1, <1>3, <1>6, StandingStays
<1>9. CASE pos < Len(msgs)
  <2>1. phase' = "ante" /\ pos' = pos + 1 /\ saved' = saved
    BY <1>1, <1>9 DEF FateAdmitNext, AdmitNext
  <2>2. charged'[1] = charged[1] /\ 1 \in 1 .. pos
    BY <1>2, <1>5
  <2> QED  BY <1>1, <1>3, <1>5, <1>6, <1>7, <1>8, <2>1, <2>2 DEF FateInv
<1>10. CASE ~ pos < Len(msgs)
  <2>1. phase' = "msgs" /\ pos = Len(msgs) /\ fate # "refused"
    BY <1>1, <1>2, <1>10 DEF FateAdmitNext, AdmitNext
  <2> QED  BY <1>1, <1>3, <1>5, <1>7, <1>8, <2>1 DEF FateInv
<1> QED  BY <1>9, <1>10

LEMMA HandleFate ==
  ASSUME TxTypeOK, FateInv, FateHandleNext
  PROVE  FateInv'
<1>1. /\ phase = "msgs" /\ Handle(msgs[pos])
      /\ UNCHANGED quotaVars /\ UNCHANGED envVars
  BY DEF FateHandleNext, HandleNext
<1>2. /\ msgs \in MsgLists /\ pos \in 1 .. Len(msgs) /\ Len(msgs) \in Nat
      /\ msgs[pos] \in Msg
  BY <1>1, ListType DEF TxTypeOK, DeliveryOK
<1>3. CASE pos < Len(msgs)
  <2>1. UNCHANGED <<phase, msgs, free, saved, fate, charged>>
    BY <1>3 DEF FateHandleNext, HandleNext, fateVars
  <2>2. UNCHANGED <<params, nodeTypes, nodeTypeByLicenseType, licenses, now>>
        /\ accounts \subseteq accounts'
    BY <1>1, <1>2, HandlerSpares DEF envVars
  <2>3. \A n \in DOMAIN nodes : /\ n \in DOMAIN nodes'
                                /\ nodes'[n].operator = nodes[n].operator
                                /\ nodes'[n].type = nodes[n].type
    <3>1. PICK m \in Msg : Handle(m)
      BY <1>1, <1>2
    <3> QED  BY <3>1, HandlerKeepsNodes DEF TxTypeOK
  <2>4. AllCharged => AllCharged'
    BY <2>1, <2>2, <2>3, ChargesStay
  <2>5. \A i : Standing(i) => Standing(i)'
    BY <2>1, <2>2, StandingStays
  <2>6. Quotas' = Quotas
    BY <1>1 DEF Quotas, quotaVars
  <2> QED  BY <1>1, <2>1, <2>4, <2>5, <2>6 DEF FateInv
<1>4. CASE ~ pos < Len(msgs)
  <2>1. phase' = "idle" /\ charged' = <<>>
    BY <1>4 DEF FateHandleNext, HandleNext, EndDelivery, Forget
  <2> QED  BY <2>1 DEF FateInv
<1> QED  BY <1>3, <1>4

LEMMA FateStep ==
  TxTypeOK /\ TxTypeOK' /\ FateInv /\ [FateNext]_<<vars, txVars, fateVars>> => FateInv'
<1> SUFFICES ASSUME TxTypeOK, TxTypeOK', FateInv, [FateNext]_<<vars, txVars, fateVars>>
             PROVE  FateInv'
  OBVIOUS
<1>1. CASE (Refuse \/ Fail) /\ Forget
  <2>1. phase' = "idle" /\ charged' = <<>>
    BY <1>1 DEF Refuse, Fail, EndDelivery, Forget
  <2> QED  BY <2>1 DEF FateInv
<1>2. CASE Otherwise /\ UNCHANGED fateVars
  <2>1. phase = "idle" /\ phase' = "idle" /\ charged' = charged
    BY <1>2 DEF Otherwise, txVars, fateVars
  <2> QED  BY <2>1 DEF FateInv
<1>3. CASE UNCHANGED <<vars, txVars, fateVars>>
  <2>1. UNCHANGED <<fleetVars, quotaVars, envVars, phase, msgs, free, pos, saved, fate, charged>>
    BY <1>3 DEF vars, txVars, fateVars
  <2>2. /\ UNCHANGED <<params, nodeTypes, nodeTypeByLicenseType, licenses, now>>
        /\ \A n \in DOMAIN nodes : /\ n \in DOMAIN nodes'
                                   /\ nodes'[n].operator = nodes[n].operator
                                   /\ nodes'[n].type = nodes[n].type
        /\ UNCHANGED accounts /\ Fleet' = Fleet
    BY <2>1, SameNodes
  <2>3. AllCharged => AllCharged'
    BY <2>1, <2>2, ChargesStay
  <2>4. \A i : Standing(i) => Standing(i)'
    BY <2>1, <2>2, StandingStays
  <2>5. Quotas' = Quotas
    BY <2>1 DEF Quotas, quotaVars
  <2> QED  BY <2>1, <2>2, <2>3, <2>4, <2>5 DEF FateInv
<1> QED
  BY <1>1, <1>2, <1>3, BeginFate, AdmitFate, HandleFate DEF FateNext

-----------------------------------------------------------------------------
(* Steps                                                                   *)

LEMMA FleetSeen ==
  /\ SeenFleet = Fleet => FleetInSight
  /\ SeenFleet' = Fleet' => FleetInSight'
BY DEF FleetInSight, Fleet

LEMMA QuotasSeen ==
  /\ SeenQuotas = Quotas => QuotasInSight
  /\ SeenQuotas' = Quotas' => QuotasInSight'
BY DEF QuotasInSight, Quotas

LEMMA SignersMap ==
  ASSUME FleetInSight, NEW signer
  PROVE  (CanSubmit(signer) => N!CanSubmit(signer)) /\ (CanPay(signer) => N!CanPay(signer))
BY DEF FleetInSight, CanSubmit, N!CanSubmit, CanPay, N!CanPay

LEMMA StutterMaps ==
  ASSUME SeenFleet' = SeenFleet, SeenQuotas' = SeenQuotas,
         UNCHANGED <<params, nodeTypes, nodeTypeByLicenseType>>, UNCHANGED envVars
  PROVE  UNCHANGED N!vars
BY DEF N!vars, N!fleetVars, N!registryVars, N!keyVars, N!nodeVars, N!bankVars, N!quotaVars,
       N!envVars, envVars

LEMMA SameFleetMaps ==
  ASSUME FleetInSight, FleetInSight', UNCHANGED fleetVars
  PROVE  UNCHANGED N!fleetVars
BY DEF FleetInSight, fleetVars, registryVars, keyVars, nodeVars, bankVars,
       N!fleetVars, N!registryVars, N!keyVars, N!nodeVars, N!bankVars

LEMMA SameEnvMaps == UNCHANGED envVars => UNCHANGED N!envVars
BY DEF envVars, N!envVars

LEMMA SameQuotasMaps ==
  ASSUME QuotasInSight, QuotasInSight', UNCHANGED quotaVars
  PROVE  UNCHANGED N!quotaVars
BY DEF QuotasInSight, quotaVars, N!quotaVars

(* A message that is charged, and either handled or dropped, is a gasless  *)
(* transaction of Network.                                                 *)
LEMMA FreeMaps ==
  ASSUME FleetInSight, FleetInSight', NEW m \in Msg, NEW before, NEW after,
         SeenQuotas.nodeStatusCounters = before.nodeStatusCounters,
         SeenQuotas.gaslessCounters = before.gaslessCounters,
         (SeenQuotas.nodeStatusCounters)' = after.nodeStatusCounters,
         (SeenQuotas.gaslessCounters)' = after.gaslessCounters,
         ChargedFor(m, before, after), StillStands(m),
         Allowlisted(m), ValidateBasic(m), CanSubmit(m.signer), UNCHANGED envVars,
         NEW ok \in BOOLEAN, IF ok THEN Handle(m) ELSE UNCHANGED fleetVars
  PROVE  N!Next
<1>1. /\ m.kind = "authorize" => N!AdmitAuthorize(m.signer)
      /\ m.kind = "activate" => N!AdmitActivate(m.signer, m.operator, m.type)
      /\ m.kind = "deactivate" => N!AdmitDeactivate(m.signer, m.node)
      /\ m.kind = "status" => N!AdmitStatus(m.signer)
  BY ChargeMaps
<1>2. N!CanSubmit(m.signer) /\ UNCHANGED N!envVars
  BY SignersMap, SameEnvMaps
<1>3. ~ok => UNCHANGED N!fleetVars
  BY SameFleetMaps
<1>4. CASE m.kind = "authorize"
  <2>1. ok => AuthorizeActivationKey(m.signer, m.key)
    BY <1>4 DEF Handle
  <2>2. ok => N!AuthorizeActivationKey(m.signer, m.key)
    <3>1. SUFFICES ASSUME ok PROVE N!AuthorizeActivationKey(m.signer, m.key)
      OBVIOUS
    <3> QED  BY <2>1, <3>1, AuthorizeMaps
  <2>3. N!GaslessAuthorize(m.signer, m.key, ok)
    BY <1>1, <1>2, <1>3, <1>4, <2>2 DEF N!GaslessAuthorize, ValidateBasic
  <2>4. m.signer \in Operators /\ m.key \in KeyAddresses
    BY <1>4, MsgFields
  <2>5. N!GaslessNext
    BY <2>3, <2>4 DEF N!GaslessNext
  <2> QED  BY <2>5 DEF N!Next, N!QuietNext
<1>5. CASE m.kind = "activate"
  <2>1. ok => ActivateNode(m.signer, m.operator, m.node, m.type)
    BY <1>5 DEF Handle
  <2>2. ok => N!ActivateNode(m.signer, m.operator, m.node, m.type)
    <3>1. SUFFICES ASSUME ok PROVE N!ActivateNode(m.signer, m.operator, m.node, m.type)
      OBVIOUS
    <3> QED  BY <2>1, <3>1, ActivateMaps
  <2>3. N!GaslessActivate(m.signer, m.operator, m.node, m.type, ok)
    BY <1>1, <1>2, <1>3, <1>5, <2>2 DEF N!GaslessActivate
  <2>4. /\ m.signer \in KeyAddresses /\ m.operator \in Operators
        /\ m.node \in NodeAddresses /\ m.type \in NodeTypeIds
    BY <1>5, MsgFields
  <2>5. N!GaslessNext
    BY <2>3, <2>4 DEF N!GaslessNext
  <2> QED  BY <2>5 DEF N!Next, N!QuietNext
<1>6. CASE m.kind = "deactivate"
  <2>1. ok => DeactivateNode(m.signer, m.node)
    BY <1>6 DEF Handle
  <2>2. ok => N!DeactivateNode(m.signer, m.node)
    <3>1. SUFFICES ASSUME ok PROVE N!DeactivateNode(m.signer, m.node)
      OBVIOUS
    <3> QED  BY <2>1, <3>1, DeactivateMaps
  <2>3. N!GaslessDeactivate(m.signer, m.node, ok)
    BY <1>1, <1>2, <1>3, <1>6, <2>2 DEF N!GaslessDeactivate
  <2>4. m.signer \in N!Address /\ m.node \in NodeAddresses
    BY <1>6, MsgFields DEF Address, N!Address
  <2>5. N!GaslessNext
    BY <2>3, <2>4 DEF N!GaslessNext
  <2> QED  BY <2>5 DEF N!Next, N!QuietNext
<1>7. CASE m.kind = "status"
  <2>1. m.signer \in NodeAddresses
    BY <1>7, MsgFields
  <2>2. CASE ok
    <3>1. HeartbeatStep(m.signer)
      BY <1>7, <2>2 DEF Handle, UpdateNodeStatus, HeartbeatStep
    <3>2. N!StatusNotOverLimit(m.signer, after.nodeStatusCounters)
      <4> DEFINE r == [day |-> Today, count |-> DailyCount(before.nodeStatusCounters, m.signer) + 1]
      <4>1. /\ after.nodeStatusCounters = Put(before.nodeStatusCounters, m.signer, r)
            /\ DailyCount(before.nodeStatusCounters, m.signer) + 1 <= params.StatusDailyLimit
        BY <1>7 DEF ChargedFor, Counted
      <4>2. r.day = Today /\ r.count = DailyCount(before.nodeStatusCounters, m.signer) + 1
        OBVIOUS
      <4>3. /\ m.signer \in DOMAIN after.nodeStatusCounters
            /\ after.nodeStatusCounters[m.signer] = r
        <5> HIDE DEF r
        <5> QED  BY <4>1 DEF Put
      <4>4. N!Today = Today
        BY DEF Today, N!Today, Day, N!Day
      <4> HIDE DEF r
      <4> QED  BY <4>1, <4>2, <4>3, <4>4 DEF N!StatusNotOverLimit, N!DailyCount
    <3>3. /\ N!ActiveNode(m.signer) /\ N!TouchNodeActivity(m.signer)
          /\ UNCHANGED <<params, N!registryVars, N!keyVars, SeenFleet.operatorNodes,
                         SeenFleet.operatorNodeCounts, SeenFleet.operators,
                         SeenFleet.accounts, N!bankVars>>
      BY <3>1, StatusMaps
    <3>4. N!GaslessStatus(m.signer, TRUE)
      BY <1>1, <1>2, <1>7, <3>2, <3>3 DEF N!GaslessStatus, N!UpdateNodeStatus
    <3> QED  BY <2>1, <3>4 DEF N!Next, N!Heartbeat
  <2>3. CASE ~ok
    <3>1. N!GaslessStatus(m.signer, FALSE)
      BY <1>1, <1>2, <1>3, <1>7, <2>3 DEF N!GaslessStatus
    <3>2. N!GaslessNext
      BY <2>1, <3>1 DEF N!GaslessNext
    <3> QED  BY <3>2 DEF N!Next, N!QuietNext
  <2> QED  BY <2>2, <2>3
<1>8. m.kind \in {"authorize", "activate", "deactivate", "status"}
  BY DEF Msg, Allowlisted
<1> QED  BY <1>4, <1>5, <1>6, <1>7, <1>8

(* A message that is paid for and handled is a paid transaction of Network.*)
LEMMA PaidMaps ==
  ASSUME FleetInSight, FleetInSight', QuotasInSight, QuotasInSight', NEW m \in Msg,
         CanPay(m.signer), Handle(m), UNCHANGED quotaVars, UNCHANGED envVars
  PROVE  N!Next
<1>1. N!CanPay(m.signer) /\ UNCHANGED <<N!quotaVars, N!envVars>>
  BY SignersMap, SameEnvMaps, SameQuotasMaps
<1>2. CASE m.kind = "authorize" /\ AuthorizeActivationKey(m.signer, m.key)
  <2>1. N!PaidAuthorize(m.signer, m.key)
    BY <1>1, <1>2, AuthorizeMaps DEF N!PaidAuthorize
  <2>2. N!PaidNext
    BY <1>2, <2>1, MsgFields DEF N!PaidNext
  <2> QED  BY <2>2 DEF N!Next, N!QuietNext
<1>3. CASE m.kind = "deauthorize" /\ DeauthorizeActivationKey(m.signer, m.key)
  <2>1. N!PaidDeauthorize(m.signer, m.key)
    BY <1>1, <1>3, DeauthorizeMaps DEF N!PaidDeauthorize
  <2>2. N!PaidNext
    BY <1>3, <2>1, MsgFields DEF N!PaidNext
  <2> QED  BY <2>2 DEF N!Next, N!QuietNext
<1>4. CASE m.kind = "activate" /\ ActivateNode(m.signer, m.operator, m.node, m.type)
  <2>1. N!PaidActivate(m.signer, m.operator, m.node, m.type)
    BY <1>1, <1>4, ActivateMaps DEF N!PaidActivate
  <2>2. N!PaidNext
    BY <1>4, <2>1, MsgFields DEF N!PaidNext
  <2> QED  BY <2>2 DEF N!Next, N!QuietNext
<1>5. CASE m.kind = "deactivate" /\ DeactivateNode(m.signer, m.node)
  <2>1. N!PaidDeactivate(m.signer, m.node)
    BY <1>1, <1>5, DeactivateMaps DEF N!PaidDeactivate
  <2>2. m.signer \in N!Address /\ m.node \in NodeAddresses
    BY <1>5, MsgFields DEF Address, N!Address
  <2>3. N!PaidNext
    BY <2>1, <2>2 DEF N!PaidNext
  <2> QED  BY <2>3 DEF N!Next, N!QuietNext
<1>6. CASE m.kind = "status" /\ UpdateNodeStatus(m.signer, nodeStatusCounters)
  <2>1. HeartbeatStep(m.signer) /\ StatusNotOverLimit(m.signer, nodeStatusCounters)
    BY <1>6 DEF UpdateNodeStatus, HeartbeatStep
  <2>2. N!StatusNotOverLimit(m.signer, SeenQuotas.nodeStatusCounters)
    BY <2>1 DEF QuotasInSight, StatusNotOverLimit, N!StatusNotOverLimit, DailyCount,
                N!DailyCount, Today, N!Today, Day, N!Day
  <2>3. /\ N!ActiveNode(m.signer) /\ N!TouchNodeActivity(m.signer)
        /\ UNCHANGED <<params, N!registryVars, N!keyVars, SeenFleet.operatorNodes,
                       SeenFleet.operatorNodeCounts, SeenFleet.operators,
                       SeenFleet.accounts, N!bankVars>>
    BY <2>1, StatusMaps
  <2>4. N!PaidStatus(m.signer)
    BY <1>1, <2>2, <2>3 DEF N!PaidStatus, N!UpdateNodeStatus
  <2> QED  BY <1>6, <2>4, MsgFields DEF N!Next, N!Heartbeat
<1> QED  BY <1>2, <1>3, <1>4, <1>5, <1>6 DEF Handle

(* The other transactions, and what happens between them, do not know of   *)
(* the branches.                                                           *)
LEMMA OthersMap ==
  ASSUME FleetInSight, FleetInSight', QuotasInSight, QuotasInSight', PaidNext \/ EnvNext
  PROVE  N!Next
<1>0. N!Address = Address
  BY DEF Address, N!Address
<1>1. ASSUME NEW admin \in Admins, NEW wallet \in Address, PaidCreateOperatorAccount(admin, wallet)
      PROVE  N!Next
  <2>1. N!CanPay(admin) /\ UNCHANGED <<N!quotaVars, N!envVars>>
    BY <1>1, SignersMap, SameEnvMaps, SameQuotasMaps DEF PaidCreateOperatorAccount
  <2>2. N!CreateOperatorAccount(admin, wallet)
    BY <1>1
    DEF PaidCreateOperatorAccount, FleetInSight, CreateOperatorAccount, N!CreateOperatorAccount,
        CreateAccountIfNotExists, N!CreateAccountIfNotExists,
        RegisterOperator, N!RegisterOperator, registryVars, N!registryVars, keyVars, N!keyVars,
        nodeVars, N!nodeVars, bankVars, N!bankVars
  <2>3. N!PaidNext
    BY <1>0, <2>1, <2>2 DEF N!PaidNext, N!PaidCreateOperatorAccount
  <2> QED  BY <2>3 DEF N!Next, N!QuietNext
<1>2. ASSUME NEW creator \in Admins, NEW id \in NodeTypeIds, NEW lt \in LicenseTypeIds,
             PaidCreateNodeType(creator, id, lt)
      PROVE  N!Next
  <2>1. N!CanPay(creator) /\ UNCHANGED <<N!quotaVars, N!envVars>>
    BY <1>2, SignersMap, SameEnvMaps, SameQuotasMaps DEF PaidCreateNodeType
  <2>2. N!CreateNodeType(creator, id, lt)
    BY <1>2
    DEF PaidCreateNodeType, FleetInSight, CreateNodeType, N!CreateNodeType, BindingFree,
        N!BindingFree, Put, N!Put, keyVars, N!keyVars,
        nodeVars, N!nodeVars, bankVars, N!bankVars
  <2>3. N!PaidNext
    BY <2>1, <2>2 DEF N!PaidNext, N!PaidCreateNodeType
  <2> QED  BY <2>3 DEF N!Next, N!QuietNext
<1>4. ASSUME NEW op \in Operators, NEW key \in KeyAddresses,
             PaidAuthorize(op, key) \/ PaidDeauthorize(op, key)
      PROVE  N!Next
  <2>1. CASE PaidAuthorize(op, key)
    <3>1. N!PaidAuthorize(op, key)
      BY <2>1, AuthorizeMaps, SignersMap, SameEnvMaps, SameQuotasMaps
      DEF PaidAuthorize, N!PaidAuthorize
    <3>2. N!PaidNext
      BY <3>1 DEF N!PaidNext
    <3> QED  BY <3>2 DEF N!Next, N!QuietNext
  <2>2. CASE PaidDeauthorize(op, key)
    <3>1. N!PaidDeauthorize(op, key)
      BY <2>2, DeauthorizeMaps, SignersMap, SameEnvMaps, SameQuotasMaps
      DEF PaidDeauthorize, N!PaidDeauthorize
    <3>2. N!PaidNext
      BY <3>1 DEF N!PaidNext
    <3> QED  BY <3>2 DEF N!Next, N!QuietNext
  <2> QED  BY <1>4, <2>1, <2>2
<1>5. ASSUME NEW key \in KeyAddresses, NEW op \in Operators, NEW node \in NodeAddresses,
             NEW type \in NodeTypeIds, PaidActivate(key, op, node, type)
      PROVE  N!Next
  <2>1. N!PaidActivate(key, op, node, type)
    BY <1>5, ActivateMaps, SignersMap, SameEnvMaps, SameQuotasMaps
    DEF PaidActivate, N!PaidActivate
  <2>2. N!PaidNext
    BY <2>1 DEF N!PaidNext
  <2> QED  BY <2>2 DEF N!Next, N!QuietNext
<1>6. ASSUME NEW signer \in Address, NEW node \in NodeAddresses, PaidDeactivate(signer, node)
      PROVE  N!Next
  <2>1. N!PaidDeactivate(signer, node)
    BY <1>6, DeactivateMaps, SignersMap, SameEnvMaps, SameQuotasMaps
    DEF PaidDeactivate, N!PaidDeactivate
  <2>2. N!PaidNext
    BY <1>0, <2>1 DEF N!PaidNext
  <2> QED  BY <2>2 DEF N!Next, N!QuietNext
<1>7. CASE PaidNext
  BY <1>1, <1>2, <1>4, <1>5, <1>6, <1>7 DEF PaidNext
<1>8. ASSUME NEW batch \in Batches, IssueLicenses(batch)
      PROVE  N!EnvNext
  <2>1. UNCHANGED N!quotaVars
    BY <1>8, SameQuotasMaps DEF IssueLicenses
  <2>2. batch \in N!Batches
    BY SameCardinality DEF Batches, N!Batches
  <2>3. N!IssueLicenses(batch)
    BY <1>8, <2>1
    DEF FleetInSight, IssueLicenses, N!IssueLicenses, Issued, N!Issued, registryVars,
        N!registryVars, keyVars, N!keyVars, nodeVars, N!nodeVars, bankVars, N!bankVars
  <2> QED  BY <2>2, <2>3 DEF N!EnvNext
<1>9. ASSUME NEW op \in Operators, NEW lt \in LicenseTypeIds, NEW count \in 1 .. MaxLicenses,
             RevokeLicenses(op, lt, count)
      PROVE  N!EnvNext
  BY <1>9, SameFleetMaps, SameQuotasMaps DEF RevokeLicenses, N!RevokeLicenses, N!EnvNext
<1>10. ASSUME NEW lt \in LicenseTypeIds, CreateLicenseType(lt)
       PROVE  N!EnvNext
  BY <1>10, SameFleetMaps, SameQuotasMaps DEF CreateLicenseType, N!CreateLicenseType, N!EnvNext
<1>11. ASSUME NEW new \in SUBSET (Admins \X Permissions), ChangeGrants(new)
       PROVE  N!EnvNext
  BY <1>11, SameFleetMaps, SameQuotasMaps
  DEF ChangeGrants, N!ChangeGrants, N!EnvNext, Permissions, N!Permissions
<1>12. ASSUME NEW p \in ParamChoices, GovUpdateParams(p)
       PROVE  N!EnvNext
  <2>1. UNCHANGED <<N!quotaVars, N!envVars>>
    BY <1>12, SameQuotasMaps, SameEnvMaps DEF GovUpdateParams
  <2>2. N!UpdateParams(p)
    BY <1>12
    DEF FleetInSight, GovUpdateParams, UpdateParams, N!UpdateParams, ValidParams, N!ValidParams,
        ValidMultipliers, N!ValidMultipliers, registryVars, N!registryVars, keyVars, N!keyVars,
        nodeVars, N!nodeVars, bankVars, N!bankVars
  <2> QED  BY <2>1, <2>2 DEF N!GovUpdateParams, N!EnvNext
<1>13. CASE AdvanceTime
  BY <1>13, SameFleetMaps, SameQuotasMaps 
  DEF AdvanceTime, N!AdvanceTime, N!EnvNext, N!Next, N!QuietNext
<1>14. CASE EnvNext
  BY <1>8, <1>9, <1>10, <1>11, <1>12, <1>13, <1>14 DEF EnvNext, N!Next, N!QuietNext
<1> QED  BY <1>7, <1>14

(* One step of the delivery, as a chain of single-message transactions     *)
(* shows it.                                                               *)
LEMMA BeginMaps ==
  ASSUME TxTypeOK, NEW list \in MsgLists, NEW zeroFee \in BOOLEAN,
         NEW end \in {"refused", "failed", "done"}, FateBegin(list, zeroFee, end)
  PROVE  UNCHANGED N!vars
<1>1. /\ UNCHANGED vars /\ free' = zeroFee /\ saved' = Store /\ phase = "idle"
      /\ phase' = (IF zeroFee THEN "ante" ELSE "msgs")
      /\ charged' = <<Quotas>>
  BY DEF FateBegin, Begin
<1>2. UNCHANGED <<fleetVars, quotaVars, envVars>>
  BY <1>1 DEF vars
<1>3. Quotas' = Quotas /\ Fleet' = Fleet
      /\ UNCHANGED <<params, nodeTypes, nodeTypeByLicenseType>>
  BY <1>2, SameNodes DEF Quotas, quotaVars
<1>4. SeenFleet = Fleet /\ SeenQuotas = Quotas
  BY <1>1 DEF SeenFleet, SeenQuotas
<1>5. SeenFleet' = Fleet
  BY <1>1, <1>3 DEF SeenFleet, Store
<1>6. charged'[1] = Quotas
  BY <1>1
<1>7. SeenQuotas' = Quotas
  BY <1>1, <1>3, <1>6 DEF SeenQuotas
<1> QED  BY <1>2, <1>3, <1>4, <1>5, <1>7, StutterMaps

LEMMA AdmitMaps ==
  ASSUME TxTypeOK, TxTypeOK', FateInv, FateInv', FateAdmitNext
  PROVE  [N!Next]_N!vars
<1>1. /\ phase = "ante" /\ free /\ Admit(msgs[pos])
      /\ UNCHANGED fleetVars /\ UNCHANGED envVars /\ UNCHANGED <<msgs, free, fate>>
      /\ charged' = Append(charged, Quotas')
      /\ fate = "refused" => pos < Len(msgs)
  BY DEF FateAdmitNext, AdmitNext, TxTypeOK, DeliveryOK
<1>2. /\ msgs \in MsgLists /\ pos \in 1 .. Len(msgs) /\ Len(msgs) \in Nat
      /\ pos \in DOMAIN msgs /\ msgs[pos] \in Msg /\ Allowlisted(msgs[pos])
  BY <1>1, ListType DEF TxTypeOK, DeliveryOK
<1>3. /\ charged \in Seq(QuotaSet) /\ Len(charged) = pos /\ saved.fleet = Fleet
      /\ \A i \in DOMAIN msgs : Standing(i)
  BY <1>1 DEF FateInv
<1>4. Quotas \in QuotaSet /\ Quotas' \in QuotaSet
  BY TypeOKParts, QuotasTyped DEF TxTypeOK, TypeOK, QuotaTypeOK
<1>5. charged'[1] = charged[1]
  BY <1>1, <1>2, <1>3, <1>4, AppendProperties
<1>6. UNCHANGED <<params, nodeTypes, nodeTypeByLicenseType>> /\ Fleet' = Fleet
  BY <1>1, SameNodes
<1>7. saved'.fleet = saved.fleet
  BY DEF FateAdmitNext, AdmitNext, TxTypeOK, DeliveryOK
<1>8. SeenFleet = Fleet /\ SeenFleet' = Fleet'
  BY <1>1, <1>3, <1>6, <1>7 DEF SeenFleet
<1>9. phase' \in {"ante", "msgs"} /\ (phase' = "msgs" => pos' = 1 /\ ~ pos < Len(msgs))
  BY <1>1 DEF FateAdmitNext, AdmitNext
<1>10. CASE fate = "failed"
  <2>1. SeenQuotas = Quotas /\ SeenQuotas' = Quotas'
    BY <1>1, <1>10 DEF SeenQuotas
  <2>2. PICK m \in Msg, before \in QuotaSet, after \in QuotaSet :
          m = msgs[pos] /\ before = Quotas /\ after = Quotas'
    BY <1>2, <1>4
  <2>3. ChargedFor(m, before, after) /\ StillStands(m)
    BY <1>1, <2>2, AdmissionCharges
  <2>4. Allowlisted(m) /\ ValidateBasic(m) /\ CanSubmit(m.signer)
    BY <1>1, <1>2, <1>3, <2>2 DEF Standing
  <2>5. /\ SeenQuotas.nodeStatusCounters = before.nodeStatusCounters
        /\ SeenQuotas.gaslessCounters = before.gaslessCounters
        /\ (SeenQuotas.nodeStatusCounters)' = after.nodeStatusCounters
        /\ (SeenQuotas.gaslessCounters)' = after.gaslessCounters
    BY <2>1, <2>2
  <2> QED  BY <1>1, <1>8, <2>3, <2>4, <2>5, FleetSeen, FreeMaps
<1>11. CASE fate # "failed"
  <2>1. SeenQuotas = charged[1]
    BY <1>1, <1>11 DEF SeenQuotas
  <2>2. fate \in {"refused", "done"}
    BY <1>1, <1>11 DEF FateInv
  <2>3. SeenQuotas' = charged[1]
    BY <1>1, <1>5, <1>9, <1>11, <2>2 DEF SeenQuotas
  <2> QED  BY <1>1, <1>6, <1>8, <2>1, <2>3, StutterMaps
<1> QED  BY <1>10, <1>11

LEMMA RefuseMaps ==
  ASSUME FateInv, Refuse, fate = "refused", Forget
  PROVE  UNCHANGED N!vars
<1>1. /\ phase = "ante" /\ phase' = "idle" /\ UNCHANGED fleetVars /\ UNCHANGED envVars
      /\ nodeStatusCounters' = saved.quotas.nodeStatusCounters
      /\ gaslessCounters' = saved.quotas.gaslessCounters
  BY DEF Refuse, DropQuotaBranch, EndDelivery
<1>2. UNCHANGED <<params, nodeTypes, nodeTypeByLicenseType>> /\ Fleet' = Fleet
  BY <1>1, SameNodes
<1>3. SeenFleet = Fleet /\ SeenFleet' = Fleet'
  BY <1>1 DEF SeenFleet
<1>4. SeenQuotas = saved.quotas /\ SeenQuotas' = Quotas'
  BY <1>1 DEF SeenQuotas, FateInv
<1>5. UNCHANGED N!quotaVars
  BY <1>1, <1>4 DEF N!quotaVars, Quotas
<1>6. UNCHANGED <<N!fleetVars, N!envVars>>
  BY <1>1, <1>3, FleetSeen, SameFleetMaps, SameEnvMaps
<1> QED  BY <1>5, <1>6 DEF N!vars

LEMMA FailMaps ==
  ASSUME Fail, fate = "failed", Forget
  PROVE  UNCHANGED N!vars
<1>1. /\ phase = "msgs" /\ phase' = "idle" /\ UNCHANGED quotaVars /\ UNCHANGED envVars
      /\ DropFleetBranch
  BY DEF Fail, EndDelivery
<1>2. SeenFleet = saved.fleet /\ SeenFleet' = Fleet'
  BY <1>1 DEF SeenFleet
<1>3. SeenQuotas = Quotas /\ SeenQuotas' = Quotas'
  BY <1>1 DEF SeenQuotas
<1>4. UNCHANGED N!fleetVars
  BY <1>1, <1>2
  DEF DropFleetBranch, Fleet, N!fleetVars, N!registryVars, N!keyVars, N!nodeVars, N!bankVars,
      registryVars
<1> QED  BY <1>1, <1>3, <1>4, QuotasSeen, SameQuotasMaps, SameEnvMaps DEF N!vars

LEMMA HandleMaps ==
  ASSUME TxTypeOK, FateInv, FateHandleNext
  PROVE  [N!Next]_N!vars
<1>1. /\ phase = "msgs" /\ Handle(msgs[pos]) /\ UNCHANGED quotaVars /\ UNCHANGED envVars
  BY DEF FateHandleNext, HandleNext
<1>2. /\ msgs \in MsgLists /\ pos \in 1 .. Len(msgs) /\ Len(msgs) \in Nat
      /\ pos \in DOMAIN msgs /\ msgs[pos] \in Msg
  BY <1>1, ListType DEF TxTypeOK, DeliveryOK
<1>3. /\ charged \in Seq(QuotaSet) /\ \A i \in DOMAIN msgs : Standing(i)
      /\ fate \in {"failed", "done"}
  BY <1>1 DEF FateInv
<1>4. Quotas' = Quotas
  BY <1>1 DEF Quotas, quotaVars
<1>5. pos < Len(msgs) => UNCHANGED <<phase, free, saved, fate, charged>> /\ pos' = pos + 1
  BY DEF FateHandleNext, HandleNext, fateVars
<1>6. ~ pos < Len(msgs) => phase' = "idle" /\ fate = "done" /\ pos = Len(msgs)
  BY <1>2 DEF FateHandleNext, HandleNext, EndDelivery
<1>7. CASE fate = "failed"
  <2>1. SeenFleet' = SeenFleet /\ SeenQuotas' = SeenQuotas
    BY <1>1, <1>4, <1>5, <1>6, <1>7 DEF SeenFleet, SeenQuotas
  <2>2. UNCHANGED <<params, nodeTypes, nodeTypeByLicenseType>>
    BY <1>1, <1>2, HandlerSpares
  <2> QED  BY <1>1, <2>1, <2>2, StutterMaps
<1>8. CASE fate = "done"
  <2>1. SeenFleet = Fleet /\ SeenFleet' = Fleet'
    BY <1>1, <1>5, <1>6, <1>8 DEF SeenFleet
  <2>2. FleetInSight /\ FleetInSight'
    BY <2>1, FleetSeen
  <2>3. PICK m \in Msg : m = msgs[pos]
    BY <1>2
  <2>4. Handle(m) /\ ValidateBasic(m)
    BY <1>1, <1>2, <1>3, <2>3 DEF Standing
  <2>5. CASE ~free
    <3>1. SeenQuotas = Quotas /\ SeenQuotas' = Quotas'
      BY <1>1, <1>5, <1>6, <2>5 DEF SeenQuotas
    <3>2. CanPay(m.signer)
      BY <1>2, <1>3, <2>3, <2>5 DEF Standing
    <3> QED  BY <1>1, <2>2, <2>4, <3>1, <3>2, QuotasSeen, PaidMaps
  <2>6. CASE free
    <3>1. /\ Len(charged) = Len(msgs) + 1 /\ charged[Len(msgs) + 1] = Quotas /\ AllCharged
      BY <1>1, <2>6 DEF FateInv
    <3>2. PICK before \in QuotaSet, after \in QuotaSet :
            before = charged[pos] /\ after = charged[pos + 1]
      <4>1. pos \in 1 .. Len(charged) /\ pos + 1 \in 1 .. Len(charged)
        BY <1>2, <3>1
      <4> QED  BY <1>3, <4>1
    <3>3. SeenQuotas = before
      BY <1>1, <1>8, <2>6, <3>2 DEF SeenQuotas
    <3>4. SeenQuotas' = after
      BY <1>1, <1>4, <1>5, <1>6, <1>8, <2>6, <3>1, <3>2 DEF SeenQuotas
    <3>5. ChargedFor(m, before, after)
      <4>1. pos \in 1 .. Len(charged) - 1
        BY <1>2, <3>1
      <4> QED  BY <2>3, <3>1, <3>2, <4>1 DEF AllCharged
    <3>6. Allowlisted(m) /\ CanSubmit(m.signer) /\ StillStands(m)
      BY <1>1, <1>2, <1>3, <2>3, <2>4, <2>6, HandlerChecks DEF Standing, TxTypeOK, DeliveryOK
    <3>7. /\ SeenQuotas.nodeStatusCounters = before.nodeStatusCounters
          /\ SeenQuotas.gaslessCounters = before.gaslessCounters
          /\ (SeenQuotas.nodeStatusCounters)' = after.nodeStatusCounters
          /\ (SeenQuotas.gaslessCounters)' = after.gaslessCounters
      BY <3>3, <3>4
    <3> QED  BY <1>1, <2>2, <2>4, <3>5, <3>6, <3>7, FreeMaps
  <2> QED  BY <2>5, <2>6
<1> QED  BY <1>3, <1>7, <1>8

LEMMA FateMaps ==
  TxTypeOK /\ TxTypeOK' /\ FateInv /\ FateInv' /\ [FateNext]_<<vars, txVars, fateVars>>
    => [N!Next]_N!vars
<1> SUFFICES ASSUME TxTypeOK, TxTypeOK', FateInv, FateInv',
                    [FateNext]_<<vars, txVars, fateVars>>
             PROVE  [N!Next]_N!vars
  OBVIOUS
<1>1. CASE Otherwise /\ UNCHANGED fateVars
  <2>1. phase = "idle" /\ phase' = "idle" /\ (PaidNext \/ EnvNext)
    BY <1>1 DEF Otherwise, txVars
  <2>2. SeenFleet = Fleet /\ SeenFleet' = Fleet' /\ SeenQuotas = Quotas /\ SeenQuotas' = Quotas'
    BY <2>1 DEF SeenFleet, SeenQuotas
  <2> QED  BY <2>1, <2>2, FleetSeen, QuotasSeen, OthersMap
<1>2. CASE UNCHANGED <<vars, txVars, fateVars>>
  <2>1. UNCHANGED <<fleetVars, quotaVars, envVars, phase, free, pos, saved, fate, charged>>
    BY <1>2 DEF vars, txVars, fateVars
  <2>2. UNCHANGED <<params, nodeTypes, nodeTypeByLicenseType>> /\ Fleet' = Fleet
        /\ Quotas' = Quotas
    BY <2>1, SameNodes DEF Quotas, quotaVars
  <2>3. SeenFleet' = SeenFleet /\ SeenQuotas' = SeenQuotas
    BY <2>1, <2>2 DEF SeenFleet, SeenQuotas
  <2> QED  BY <2>1, <2>2, <2>3, StutterMaps
<1> QED
  BY <1>1, <1>2, BeginMaps, AdmitMaps, RefuseMaps, FailMaps, HandleMaps DEF FateNext

(* Batching gives nothing away and takes nothing, for lists of any length: *)
(* what the delivery of transactions of several messages does, those of    *)
(* single messages do, in the order of their handlers.                     *)
THEOREM BatchingImplementsNetwork == FateSpec => ImplementsNetwork
<1>1. FateInit => N!Init /\ TxTypeOK /\ FateInv
  <2> SUFFICES ASSUME FateInit PROVE N!Init /\ TxTypeOK /\ FateInv
    OBVIOUS
  <2>1. TxTypeOK
    BY InitType DEF FateInit, TxInit, TxTypeOK, DeliveryOK
  <2>2. SeenFleet = Fleet /\ SeenQuotas = Quotas
    BY DEF FateInit, TxInit, SeenFleet, SeenQuotas
  <2>3. N!Init
    BY <2>2, FleetSeen, QuotasSeen
    DEF FateInit, TxInit, Init, N!Init, FleetInSight, QuotasInSight, EmptyMap, N!EmptyMap,
        Address, N!Address
  <2> QED  BY <2>1, <2>3, FateInvInit
<1>2. [FateNext]_<<vars, txVars, fateVars>> => [TxNext]_<<vars, txVars>>
  BY FateNextSplits
<1> QED
  BY <1>1, <1>2, TxTypeStep, FateStep, FateMaps, PTL DEF FateSpec, ImplementsNetwork, N!Spec
=============================================================================
