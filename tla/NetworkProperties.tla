-------------------------- MODULE NetworkProperties --------------------------
(***************************************************************************)
(* What x/network promises, stated over the records it keeps rather than   *)
(* over the tallies and indexes its handlers consult.                      *)
(***************************************************************************)
EXTENDS Network

-----------------------------------------------------------------------------
(* The ground truth: what the node records alone say.                      *)

NodesOf(op, type)  == {n \in DOMAIN nodes : nodes[n].operator = op /\ nodes[n].type = type}
ActiveOf(op, type) == {n \in NodesOf(op, type) : nodes[n].status = "active"}
RecentOf(op, type) == {n \in NodesOf(op, type) : nodes[n].lastActiveDay \in {Today, Today - 1}}

(* What InitGenesis derives from the exported records (genesis.go).        *)
RebuiltCounts ==
  [pair \in {<<nodes[n].operator, nodes[n].type>> : n \in DOMAIN nodes} |->
     [total  |-> Cardinality(NodesOf(pair[1], pair[2])),
      active |-> Cardinality(ActiveOf(pair[1], pair[2]))]]

RebuiltRecentActivity ==
  {<<nodes[n].operator, nodes[n].type, nodes[n].lastActiveDay, n>> : n \in DOMAIN nodes}

RebuiltOperators ==
  {nodes[n].operator : n \in DOMAIN nodes}
    \cup {activationKeys[k].operator : k \in DOMAIN activationKeys}

RebuiltOperatorNodes == {<<nodes[n].operator, n>> : n \in DOMAIN nodes}

RebuiltOperatorKeys == {<<activationKeys[k].operator, k>> : k \in DOMAIN activationKeys}

(* GenesisState.Validate, applied to what ExportGenesis would export now.  *)
ExportValidates ==
  /\ ValidParams(params)
  /\ IsInjectiveOn(nodeTypes)
  /\ \A k \in DOMAIN activationKeys : activationKeys[k].operator # k
  /\ \A n \in DOMAIN nodes :
       /\ nodes[n].type \in DOMAIN nodeTypes
       /\ nodes[n].activatedBy \in DOMAIN activationKeys
       /\ activationKeys[nodes[n].activatedBy].operator = nodes[n].operator
  /\ DOMAIN nodeStatusCounters \subseteq DOMAIN nodes

(* One entry of the answer of the NodeCounts query (query_server.go).  The *)
(* license walk is asked for the full count, unlike the handler's, and the *)
(* limits are the same uint64 products.                                    *)
CountsEntry(op, type, held) ==
  [Total           |-> NodeCounts(op, type).total,
   Active          |-> NodeCounts(op, type).active,
   RecentActive    |-> Cardinality(RecentEntries(op, type)),
   LicenseCount    |-> CountUpTo(held, 0),
   ActivationLimit |-> Times(params.ActivationLimitMultiplier, CountUpTo(held, 0)),
   SpamLimit       |-> Times(params.SpamLimitMultiplier, CountUpTo(held, 0))]

NodeTypeCounts(op, type) == CountsEntry(op, type, BackingLicenses(op, type))

-----------------------------------------------------------------------------
(* Invariants                                                              *)

(* CheckOperatorNodeCounts: the tallies that the activation limit and the  *)
(* saturating decrement of DeactivateNode rely on are the node counts of   *)
(* the records; an absent tally stands for zero.                           *)
TalliesMatchNodes ==
  \A op \in Operators, type \in NodeTypeIds :
    NodeCounts(op, type) = [total  |-> Cardinality(NodesOf(op, type)),
                            active |-> Cardinality(ActiveOf(op, type))]

(* CheckRecentNodeActivity: every node, deactivated ones included, has one *)
(* index entry, in the bucket of its last active day, and the index has no *)
(* other.                                                                  *)
RecentIndexExact == recentNodeActivity = RebuiltRecentActivity

(* Exporting the state and importing it again changes nothing: what was    *)
(* exported validates, and every index InitGenesis rebuilds is the one the *)
(* handlers had maintained step by step.                                   *)
GenesisRoundTrip ==
  /\ ExportValidates
  /\ operatorNodeCounts = RebuiltCounts
  /\ recentNodeActivity = RebuiltRecentActivity
  /\ operatorNodes = RebuiltOperatorNodes
  /\ operatorActivationKeys = RebuiltOperatorKeys
  /\ operators = RebuiltOperators
  /\ \A lt \in LicenseTypeIds, t \in NodeTypeIds :
       (lt \in DOMAIN nodeTypeByLicenseType /\ nodeTypeByLicenseType[lt] = t)
         <=> (t \in DOMAIN nodeTypes /\ nodeTypes[t] = lt)

(* The verdict on an activation, which the handler reaches from tallies,   *)
(* an index and a license walk that stops early, is the documented one for *)
(* the node records and the full license count, for every operator and     *)
(* node type, whatever other types and operators did.                      *)
VerdictFaithful ==
  \A op \in Operators, type \in DOMAIN nodeTypes :
    LET counts == NodeCounts(op, type)
        held   == licenses[op][nodeTypes[type]]
    IN  BoundedVerdict(params, counts.total, counts.active,
                       Cardinality(RecentEntries(op, type)), held)
          = DocumentedVerdict(params, Cardinality(NodesOf(op, type)),
                              Cardinality(ActiveOf(op, type)),
                              Cardinality(RecentOf(op, type)), held)

(* "Query NodeCounts to pre-check an activation without submitting one"    *)
(* (x/network/README.md): the documented algorithm, applied by a client to *)
(* the limits and tallies of the answer, foretells the handler's verdict,  *)
(* for every operator and registered node type.                            *)
PreCheck(entry) ==
  IF entry.LicenseCount = 0 THEN "NoActiveLicenses"
  ELSE IF entry.Total < entry.ActivationLimit \/ entry.RecentActive < entry.ActivationLimit
       THEN "Allow"
  ELSE IF entry.RecentActive >= entry.SpamLimit THEN "RecentActivationLimit"
  ELSE IF entry.Active >= entry.ActivationLimit THEN "ActivationLimit"
  ELSE "Allow"

PreCheckForetells ==
  \A op \in Operators, type \in DOMAIN nodeTypes :
    PreCheck(NodeTypeCounts(op, type))
      = BoundedVerdict(params, NodeCounts(op, type).total, NodeCounts(op, type).active,
                       Cardinality(RecentEntries(op, type)), BackingLicenses(op, type))

(* The ante ceiling on activation attempts, also read off a walk that      *)
(* stops early, admits exactly the attempts of a day within                *)
(* spam_limit_multiplier times the operator's full license count.          *)
ActivateQuotaFaithful ==
  \A op \in Operators, type \in DOMAIN nodeTypes :
    LET ceiling == params.SpamLimitMultiplier * licenses[op][nodeTypes[type]]
    IN  \A attempts \in 1 .. params.SpamLimitMultiplier * MaxLicenses + 1 :
          WithinActivateQuota(params, attempts, licenses[op][nodeTypes[type]])
            <=> attempts <= ceiling

(* A message the ante handler admits for free is one the message handler   *)
(* accepts: the two copies of the standing checks agree, so a deactivation *)
(* or a heartbeat burns its daily quota for nothing only by lack of gas.   *)
AdmissionImpliesAcceptance ==
  \A node \in DOMAIN nodes :
    /\ \A signer \in Address :
         ActiveNode(node) /\ AdmittedDeactivateSigner(node, signer)
           => DeactivateSigner(node, signer)
    /\ AdmittedStatus(node) =>
         ActiveNode(node) /\ StatusNotOverLimit(node, Counted(nodeStatusCounters, node))

(* Every registered key and node can sign: authorizing a key and           *)
(* activating a node create the account its own transactions need, so the  *)
(* fee-less life of a node never waits for a funding transfer.             *)
FleetCanSign == DOMAIN activationKeys \cup DOMAIN nodes \subseteq accounts

(* While governance leaves the parameters alone: however keys are disabled *)
(* and replaced, no window of recent_key_window block time ever saw one    *)
(* operator create more than recent_key_limit keys, and never more than    *)
(* max_activation_keys of them are active.                                 *)
KeyRateBounded ==
  \A op \in Operators :
    /\ Cardinality({k \in DOMAIN activationKeys :
                      activationKeys[k].operator = op /\ activationKeys[k].status = "active"})
         <= params.MaxActivationKeys
    /\ \A start \in 0 .. now :
         Cardinality({k \in DOMAIN activationKeys :
                        /\ activationKeys[k].operator = op
                        /\ activationKeys[k].createdAt >= start
                        /\ activationKeys[k].createdAt < start + params.RecentKeyWindow})
           <= params.RecentKeyLimit

-----------------------------------------------------------------------------
(* Action properties                                                       *)

(* An address is burned by its first use: a node or key record never       *)
(* disappears, keeps the operator, the activating key and the type it was  *)
(* created with, never returns from its final status, and never moves back *)
(* in activity time; a node type keeps its license type.                   *)
NodeRecordKept(n) ==
  /\ n \in DOMAIN nodes'
  /\ nodes'[n].operator = nodes[n].operator
  /\ nodes'[n].activatedBy = nodes[n].activatedBy
  /\ nodes'[n].type = nodes[n].type
  /\ nodes[n].status = "deactivated" =>
       nodes'[n].status = "deactivated" /\ nodes'[n].lastActiveDay = nodes[n].lastActiveDay
  /\ nodes'[n].lastActiveDay >= nodes[n].lastActiveDay

KeyRecordKept(k) ==
  /\ k \in DOMAIN activationKeys'
  /\ activationKeys'[k].operator = activationKeys[k].operator
  /\ activationKeys'[k].createdAt = activationKeys[k].createdAt
  /\ activationKeys[k].status = "disabled" => activationKeys'[k].status = "disabled"

BindingKept(t) == t \in DOMAIN nodeTypes' /\ nodeTypes'[t] = nodeTypes[t]

RecordsArePermanent ==
  [][/\ \A n \in DOMAIN nodes : NodeRecordKept(n)
     /\ \A k \in DOMAIN activationKeys : KeyRecordKept(k)
     /\ \A t \in DOMAIN nodeTypes : BindingKept(t)]_vars

(* A node appears only under an operator entitled to it at that moment:    *)
(* the operator holds licenses of the type that backs this node type, the  *)
(* nodes of this type active in the last two days stay within the spam     *)
(* ceiling, and one of the three documented reasons to allow it holds.     *)
(* Counted on the records the step leaves, against the full license count. *)
Entitled(op, type) ==
  LET held  == licenses[op][nodeTypes[type]]
      limit == params.ActivationLimitMultiplier * held
  IN  /\ type \in DOMAIN nodeTypes /\ held > 0
      /\ Cardinality(RecentOf(op, type)') <= params.SpamLimitMultiplier * held
      /\ \/ Cardinality(NodesOf(op, type)') <= limit
         \/ Cardinality(RecentOf(op, type)') <= limit
         \/ Cardinality(ActiveOf(op, type)') <= limit

ActivationEntitled ==
  [][\A op \in Operators, type \in NodeTypeIds :
       NodesOf(op, type)' # NodesOf(op, type) => Entitled(op, type)]_vars

(* A key stops being active only against the deauthorize fee: no step      *)
(* disables keys without moving that many coins from their operator to the *)
(* fee collector, and the fee collector gains on no other occasion.        *)
DisabledBy(op) ==
  {k \in DOMAIN activationKeys : activationKeys[k].operator = op
      /\ activationKeys[k].status = "active" /\ activationKeys'[k].status = "disabled"}

FeeMoves ==
  /\ \A op \in Operators :
       balances[op] - balances'[op] = Cardinality(DisabledBy(op)) * params.DeauthorizeFee
  /\ feeCollector' - feeCollector =
       Cardinality(UNION {DisabledBy(op) : op \in Operators}) * params.DeauthorizeFee

DeauthorizePaysFee == [][FeeMoves]_vars

-----------------------------------------------------------------------------
(* The counters as an abstract daily quota.                                *)

QuotaSubjects == QuotaKeys \cup {<<"status", n, NoScope>> : n \in NodeAddresses}

(* The most any subject may spend a day under the genesis parameters.      *)
QuotaLimit ==
  [s \in QuotaSubjects |->
     CASE s[1] = "authorize" -> GenesisParams.RecentKeyLimit
       [] s[1] = "activate"  -> GenesisParams.SpamLimitMultiplier * MaxLicenses
       [] OTHER              -> GenesisParams.StatusDailyLimit]

SpentToday ==
  [s \in QuotaSubjects |->
     IF s[1] = "status" THEN DailyCount(nodeStatusCounters, s[2])
     ELSE DailyCount(gaslessCounters, s)]

Quota == INSTANCE DailyQuota
           WITH Subjects <- QuotaSubjects, Limit <- QuotaLimit, day <- Today, used <- SpentToday

(* While governance leaves the parameters alone, the lazily rolled         *)
(* counters are indistinguishable from a table of daily allowances that is *)
(* cleared for everyone at midnight: no transaction spends two units, none *)
(* spends another subject's, and no roll loses or keeps one.               *)
QuotaPromise == Quota!Spec
=============================================================================
