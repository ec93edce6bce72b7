---------------------------- MODULE GaslessTxFate ----------------------------
(***************************************************************************)
(* A transaction of several messages does what the single-message          *)
(* transactions of Network would have done: one that succeeds, what its    *)
(* messages would, sent one after the other; one whose handlers fail, what *)
(* gasless transactions that are charged and fail would; one that          *)
(* admission refuses, nothing.                                             *)
(*                                                                         *)
(* Which of these it is shows only at its end, while the steps of Network  *)
(* have to be found on the way.  So GaslessTx is given two auxiliary       *)
(* variables: fate guesses the end (a prophecy; a delivery that was        *)
(* guessed wrong comes to a stop, and one with the right guess takes every *)
(* step GaslessTx allows), and charged remembers the counters before each  *)
(* admission, for each charge has to be moved to its message's handler.    *)
(***************************************************************************)
EXTENDS GaslessTx

VARIABLES
  fate,      \* "none" between transactions, else "refused", "failed" or "done"
  charged    \* the quota counters before the first, second, ... admission

fateVars == <<fate, charged>>

FateInit == TxInit /\ fate = "none" /\ charged = <<>>

Forget == fate' = "none" /\ charged' = <<>>

FateBegin(list, zeroFee, end) ==
  /\ Begin(list, zeroFee)
  /\ end = "refused" => zeroFee
  /\ fate' = end /\ charged' = <<Quotas>>

FateAdmitNext ==
  /\ AdmitNext
  /\ fate = "refused" => pos < Len(msgs)
  /\ charged' = Append(charged, Quotas')
  /\ UNCHANGED fate

FateHandleNext ==
  /\ HandleNext
  /\ IF pos < Len(msgs) THEN UNCHANGED fateVars ELSE fate = "done" /\ Forget

FateNext ==
  \/ \E list \in MsgLists, zeroFee \in BOOLEAN, end \in {"refused", "failed", "done"} :
       FateBegin(list, zeroFee, end)
  \/ FateAdmitNext
  \/ Refuse /\ fate = "refused" /\ Forget
  \/ FateHandleNext
  \/ Fail /\ fate = "failed" /\ Forget
  \/ Otherwise /\ UNCHANGED fateVars

FateSpec == FateInit /\ [][FateNext]_<<vars, txVars, fateVars>>

-----------------------------------------------------------------------------
(* The store as a chain of single-message transactions would show it.      *)

(* Until a failing transaction ends, its handlers have not run.            *)
SeenFleet == IF phase = "msgs" /\ fate = "failed" THEN saved.fleet ELSE Fleet

(* A successful transaction is charged message by message as it is         *)
(* handled, a failing one as it is admitted, a refused one never.          *)
SeenQuotas ==
  IF phase = "ante" /\ fate # "failed" THEN charged[1]
  ELSE IF phase = "msgs" /\ free /\ fate = "done" THEN charged[pos]
  ELSE Quotas

N == INSTANCE Network WITH
       activationKeys         <- SeenFleet.activationKeys,
       operatorActivationKeys <- SeenFleet.operatorActivationKeys,
       nodes                  <- SeenFleet.nodes,
       operatorNodes          <- SeenFleet.operatorNodes,
       operatorNodeCounts     <- SeenFleet.operatorNodeCounts,
       recentNodeActivity     <- SeenFleet.recentNodeActivity,
       operators              <- SeenFleet.operators,
       accounts               <- SeenFleet.accounts,
       balances               <- SeenFleet.balances,
       feeCollector           <- SeenFleet.feeCollector,
       nodeStatusCounters     <- SeenQuotas.nodeStatusCounters,
       gaslessCounters        <- SeenQuotas.gaslessCounters

(* Batching gives nothing away and takes nothing: whatever a chain with    *)
(* transactions of several messages does, a chain of single-message ones   *)
(* does too, though admission decides before any handler of the            *)
(* transaction ran and each handler after all admissions.                  *)
ImplementsNetwork == N!Spec
=============================================================================
