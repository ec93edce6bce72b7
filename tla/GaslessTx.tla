------------------------------ MODULE GaslessTx ------------------------------
(***************************************************************************)
(* The delivery of a transaction of several messages, step by step.        *)
(*                                                                         *)
(* The ante chain (app/ante/cosmos.go) runs on a branch of the store: in a *)
(* gasless transaction every message is admitted, in order, before any of  *)
(* them is handled, and one refusal drops the branch with the admissions   *)
(* before it.  Then the handlers run, in order, on a second branch: a      *)
(* failing one drops the effects of all of them, not the admissions.       *)
(* Whatever a step may do it may also fail to do, for lack of gas.         *)
(*                                                                         *)
(* The variables of Network are the store as the current branch sees it.   *)
(* Nothing else happens on the chain while a transaction is delivered.     *)
(***************************************************************************)
EXTENDS Network, Sequences

CONSTANT MaxMsgs       \* bound: messages in one transaction

ASSUME MaxMsgsAssumption == MaxMsgs \in Nat

VARIABLES
  phase,     \* "idle", "ante" (admissions) or "msgs" (handlers)
  msgs,      \* the messages of the transaction being delivered
  free,      \* whether it is a gasless one
  pos,       \* the message whose turn it is
  saved      \* the store below the current branch

txVars == <<phase, msgs, free, pos, saved>>

Fleet ==
  [activationKeys |-> activationKeys, operatorActivationKeys |-> operatorActivationKeys,
   nodes |-> nodes, operatorNodes |-> operatorNodes, operatorNodeCounts |-> operatorNodeCounts,
   recentNodeActivity |-> recentNodeActivity, operators |-> operators,
   accounts |-> accounts, balances |-> balances, feeCollector |-> feeCollector]

Quotas == [nodeStatusCounters |-> nodeStatusCounters, gaslessCounters |-> gaslessCounters]

Store == [fleet |-> Fleet, quotas |-> Quotas]

\* Faulty: the accounts that handlers created stay.
KeepAccounts ==
  LET f == saved.fleet
  IN  /\ activationKeys' = f.activationKeys
      /\ operatorActivationKeys' = f.operatorActivationKeys
      /\ nodes' = f.nodes /\ operatorNodes' = f.operatorNodes
      /\ operatorNodeCounts' = f.operatorNodeCounts
      /\ recentNodeActivity' = f.recentNodeActivity /\ operators' = f.operators
      /\ balances' = f.balances /\ feeCollector' = f.feeCollector
      /\ UNCHANGED <<params, registryVars, accounts>>

\* Faulty: the tallies live outside the branched store.
KeepTallies ==
  LET f == saved.fleet
  IN  /\ activationKeys' = f.activationKeys
      /\ operatorActivationKeys' = f.operatorActivationKeys
      /\ nodes' = f.nodes /\ operatorNodes' = f.operatorNodes
      /\ recentNodeActivity' = f.recentNodeActivity /\ operators' = f.operators
      /\ accounts' = f.accounts /\ balances' = f.balances /\ feeCollector' = f.feeCollector
      /\ UNCHANGED <<params, registryVars, operatorNodeCounts>>

DropFleetBranch ==
  /\ activationKeys' = saved.fleet.activationKeys
  /\ operatorActivationKeys' = saved.fleet.operatorActivationKeys
  /\ nodes' = saved.fleet.nodes
  /\ operatorNodes' = saved.fleet.operatorNodes
  /\ operatorNodeCounts' = saved.fleet.operatorNodeCounts
  /\ recentNodeActivity' = saved.fleet.recentNodeActivity
  /\ operators' = saved.fleet.operators
  /\ accounts' = saved.fleet.accounts
  /\ balances' = saved.fleet.balances
  /\ feeCollector' = saved.fleet.feeCollector
  /\ UNCHANGED <<params, registryVars>>

DropQuotaBranch ==
  /\ nodeStatusCounters' = saved.quotas.nodeStatusCounters
  /\ gaslessCounters' = saved.quotas.gaslessCounters

-----------------------------------------------------------------------------
(* Messages: those with a gasless route, and one without (the others never *)
(* share a transaction with these here).                                   *)

Msg ==
  [kind : {"authorize", "deauthorize"}, signer : Operators, key : KeyAddresses]
    \cup [kind : {"activate"}, signer : KeyAddresses, operator : Operators,
          node : NodeAddresses, type : NodeTypeIds]
    \cup [kind : {"deactivate"}, signer : Address, node : NodeAddresses]
    \cup [kind : {"status"}, signer : NodeAddresses]

MsgLists == UNION {[1 .. n -> Msg] : n \in 1 .. MaxMsgs}

(* GaslessMessages *)
Allowlisted(m) == m.kind # "deauthorize"

ValidateBasic(m) == m.kind = "authorize" => m.key # m.signer

(* CheckAndConsumeGaslessQuota *)
Admit(m) ==
  \/ m.kind = "authorize"  /\ AdmitAuthorize(m.signer)
  \/ m.kind = "activate"   /\ AdmitActivate(m.signer, m.operator, m.type)
  \/ m.kind = "deactivate" /\ AdmitDeactivate(m.signer, m.node)
  \/ m.kind = "status"     /\ AdmitStatus(m.signer)

Handle(m) ==
  \/ m.kind = "authorize"   /\ AuthorizeActivationKey(m.signer, m.key)
  \/ m.kind = "deauthorize" /\ DeauthorizeActivationKey(m.signer, m.key)
  \/ m.kind = "activate"    /\ ActivateNode(m.signer, m.operator, m.node, m.type)
  \/ m.kind = "deactivate"  /\ DeactivateNode(m.signer, m.node)
  \/ m.kind = "status"      /\ UpdateNodeStatus(m.signer, nodeStatusCounters)

-----------------------------------------------------------------------------

EndDelivery ==
  /\ phase' = "idle" /\ msgs' = <<>> /\ free' = FALSE /\ pos' = 1
  /\ saved' = <<>>

(* The decorators before admission.  A zero fee clears only if every       *)
(* message is allowlisted, and the gasless caps come before anything that  *)
(* costs gas; every signer needs an account, and somebody pays the fee.    *)
Begin(list, zeroFee) ==
  /\ phase = "idle"
  /\ \A i \in DOMAIN list : ValidateBasic(list[i])
  /\ IF zeroFee
     THEN /\ \A i \in DOMAIN list : Allowlisted(list[i]) /\ CanSubmit(list[i].signer)
          /\ Len(list) <= params.MaxGaslessMsgs
     ELSE \A i \in DOMAIN list : CanPay(list[i].signer)
  /\ phase' = IF zeroFee THEN "ante" ELSE "msgs"
  /\ msgs' = list /\ free' = zeroFee /\ pos' = 1 /\ saved' = Store
  /\ UNCHANGED vars

(* GaslessAdmissionDecorator, one message; the last admission hands the    *)
(* ante branch to the store and opens the branch of the handlers.          *)
AdmitNext ==
  /\ phase = "ante"
  /\ Admit(msgs[pos])
  /\ IF pos < Len(msgs)
     THEN pos' = pos + 1 /\ UNCHANGED <<phase, saved>>
     ELSE /\ pos' = 1 /\ phase' = "msgs"
          /\ saved' = [saved EXCEPT !.quotas = Quotas']
  /\ UNCHANGED <<msgs, free, fleetVars, envVars>>

Refuse ==
  /\ phase = "ante"
  /\ DropQuotaBranch /\ EndDelivery
  /\ UNCHANGED <<fleetVars, envVars>>

HandleNext ==
  /\ phase = "msgs"
  /\ Handle(msgs[pos])
  /\ IF pos < Len(msgs)
     THEN pos' = pos + 1 /\ UNCHANGED <<phase, msgs, free, saved>>
     ELSE EndDelivery
  /\ UNCHANGED <<quotaVars, envVars>>

Fail ==
  /\ phase = "msgs"
  /\ DropFleetBranch /\ EndDelivery
  /\ UNCHANGED <<quotaVars, envVars>>

(* Between transactions: those of the other messages, and what is not a    *)
(* transaction of this module.                                             *)
Otherwise == phase = "idle" /\ (PaidNext \/ EnvNext) /\ UNCHANGED txVars

TxInit ==
  /\ Init
  /\ phase = "idle" /\ msgs = <<>> /\ free = FALSE /\ pos = 1 /\ saved = <<>>

TxNext ==
  \/ \E list \in MsgLists, zeroFee \in BOOLEAN : Begin(list, zeroFee)
  \/ AdmitNext \/ Refuse \/ HandleNext \/ Fail
  \/ Otherwise

TxSpec == TxInit /\ [][TxNext]_<<vars, txVars>>

-----------------------------------------------------------------------------

(* Admission looks at the state before any message of the transaction is   *)
(* handled.  What it found still stands when the turn of a message comes:  *)
(* only a deactivation earlier in the same transaction can have taken the  *)
(* node away, and the quota, charged for all messages by then, is not over *)
(* its limit.  So a handler refuses a deactivation or a heartbeat of a     *)
(* gasless transaction only when the transaction contradicts itself.       *)
DeactivatedBefore(i, node) ==
  \E j \in 1 .. i - 1 : msgs[j].kind = "deactivate" /\ msgs[j].node = node

AdmissionStands ==
  phase = "msgs" /\ free =>
    LET m == msgs[pos]
    IN  /\ m.kind = "deactivate" =>
             /\ ActiveNode(m.node) \/ DeactivatedBefore(pos, m.node)
             /\ DeactivateSigner(m.node, m.signer)
        /\ m.kind = "status" =>
             /\ ActiveNode(m.signer) \/ DeactivatedBefore(pos, m.signer)
             /\ StatusNotOverLimit(m.signer, nodeStatusCounters)
        /\ m.kind = "activate" =>
             /\ ActiveKey(m.signer) /\ activationKeys[m.signer].operator = m.operator
             /\ LicensedForNodeType(m.operator, m.type)
=============================================================================
