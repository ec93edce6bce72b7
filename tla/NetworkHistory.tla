---------------------------- MODULE NetworkHistory ----------------------------
(***************************************************************************)
(* Network with history variables.  They record what the chain forgets, so *)
(* that promises about a stretch of time can be stated; no action of       *)
(* Network reads them.                                                     *)
(***************************************************************************)
EXTENDS NetworkProperties

VARIABLES
  bornOn,      \* node |-> the day it was activated
  allowances,  \* {<<operator, license type, day, allowance at some moment of it>>}
  heartbeats   \* node |-> [day, count]: MsgUpdateNodeStatus accepted that day

historyVars == <<bornOn, allowances, heartbeats>>

(* The documented ceiling on activity: spam_limit_multiplier x licenses.   *)
AllowancesNow ==
  {<<op, lt, Today, params.SpamLimitMultiplier * licenses[op][lt]>> :
     op \in Operators, lt \in LicenseTypeIds}

HistoryInit ==
  /\ Init
  /\ bornOn = EmptyMap
  /\ allowances = AllowancesNow
  /\ heartbeats = EmptyMap

HistoryNext ==
  /\ \/ QuietNext /\ UNCHANGED heartbeats
     \/ \E node \in NodeAddresses :
          /\ Heartbeat(node)
          /\ heartbeats' = Put(heartbeats, node,
               [day |-> Today, count |-> DailyCount(heartbeats, node) + 1])
  /\ bornOn' = [n \in DOMAIN nodes' |-> IF n \in DOMAIN bornOn THEN bornOn[n] ELSE Today]
  /\ allowances' = allowances \cup AllowancesNow'

HistorySpec == HistoryInit /\ [][HistoryNext]_<<vars, historyVars>>

-----------------------------------------------------------------------------

(* Churning a fleet buys no fresh allowance: however nodes are deactivated *)
(* and replaced, licenses issued and revoked and parameters changed, the   *)
(* nodes of one type that an operator activated today and yesterday number *)
(* at most what spam_limit_multiplier times its licenses of the backing    *)
(* type came to at one moment of these two days.                           *)
ChurnBounded ==
  \A op \in Operators, type \in DOMAIN nodeTypes :
    LET born == {n \in NodesOf(op, type) : bornOn[n] \in {Today, Today - 1}}
    IN  born # {} =>
          \E a \in allowances :
            /\ a[1] = op /\ a[2] = nodeTypes[type] /\ a[3] \in {Today, Today - 1}
            /\ Cardinality(born) <= a[4]

(* Nobody gets the fee-less channel without a license: each day a counter  *)
(* was used (deactivation apart, which winds a fleet down), the operator   *)
(* behind it held, at some moment of that day, a license of the type that  *)
(* backs the node type concerned - of any registered node type, to         *)
(* authorize a key.                                                        *)
HadLicense(op, lt, d) ==
  \E a \in allowances : a[1] = op /\ a[2] = lt /\ a[3] = d /\ a[4] > 0

FreeChannelLicensed ==
  /\ \A c \in DOMAIN gaslessCounters :
       LET d == gaslessCounters[c].day
       IN  /\ c[1] = "authorize" => \E lt \in DOMAIN nodeTypeByLicenseType : HadLicense(c[2], lt, d)
           /\ c[1] = "activate"  => HadLicense(activationKeys[c[2]].operator, nodeTypes[c[3]], d)
  /\ \A n \in DOMAIN nodeStatusCounters :
       HadLicense(nodes[n].operator, nodeTypes[nodes[n].type], nodeStatusCounters[n].day)

(* status_daily_limit is the maximum number of MsgUpdateNodeStatus per     *)
(* node per UTC day (proto/network/v1/network.proto, Params): the chain    *)
(* accepts no more heartbeats of a node than that in a day.                *)
HeartbeatsWithinDailyLimit ==
  \A n \in DOMAIN heartbeats : heartbeats[n].count <= params.StatusDailyLimit
=============================================================================
