--------------------------- MODULE ActivationLimit ---------------------------
(***************************************************************************)
(* The arithmetic that decides whether an operator may activate one more   *)
(* node of a node type (x/network/keeper/msg_server_activate_node.go), and *)
(* the bounded license walk that feeds it (x/license CountActiveLicenses). *)
(*                                                                         *)
(* Every quantity is a Go uint64, so products wrap at WordSize.  The       *)
(* handler never reads an operator's full license count: it asks x/license *)
(* to stop counting as soon as the count is "decisive".  What has to be    *)
(* true of that optimisation is stated at the end of the module.           *)
(***************************************************************************)
EXTENDS Integers

CONSTANT
  WordSize     \* one more than the largest uint64 (2^64 in the program)

ASSUME WordAssumption == WordSize \in Nat \ {0}

-----------------------------------------------------------------------------

(* uint64 multiplication.                                                  *)
Times(a, b) == (a * b) % WordSize

Larger(a, b) == IF a >= b THEN a ELSE b

(* What CountActiveLicenses returns to a caller whose subject holds `held` *)
(* active licenses: the walk ends once the count reaches a non-zero stopAt.*)
CountUpTo(held, stopAt) == IF stopAt # 0 /\ held > stopAt THEN stopAt ELSE held

\* Faulty: stops one license short of the decisive count.
ActivationStopAtShort(p, total, active, recent) ==
  Larger(Larger(total, active), recent) \div p.ActivationLimitMultiplier

(* The number of licenses the activation handler asks to be counted.       *)
ActivationStopAt(p, total, active, recent) ==
  Larger(Larger(total, active), recent) \div p.ActivationLimitMultiplier + 1

\* Faulty: the spam ceiling is not consulted.
ActivationVerdictUnspammed(p, total, active, recent, count) ==
  LET limit == Times(p.ActivationLimitMultiplier, count)
  IN  IF count = 0           THEN "NoActiveLicenses"
      ELSE IF total < limit \/ recent < limit \/ active < limit THEN "Allow"
      ELSE "ActivationLimit"

(* Steps 2 to 6 of ActivateNode, on a license count: the answer and, when  *)
(* it is a refusal, which error.                                           *)
ActivationVerdict(p, total, active, recent, count) ==
  LET limit     == Times(p.ActivationLimitMultiplier, count)
      spamLimit == Times(p.SpamLimitMultiplier, count)
  IN  IF count = 0                            THEN "NoActiveLicenses"
      ELSE IF total < limit \/ recent < limit THEN "Allow"
      ELSE IF recent >= spamLimit             THEN "RecentActivationLimit"
      ELSE IF active >= limit                 THEN "ActivationLimit"
      ELSE "Allow"

(* The verdict the handler reaches for an operator that holds `held`.      *)
BoundedVerdict(p, total, active, recent, held) ==
  ActivationVerdict(p, total, active, recent,
                    CountUpTo(held, ActivationStopAt(p, total, active, recent)))

\* Faulty: stops one license short.
WithinActivateQuotaShort(p, daily, held) ==
  daily <= Times(p.SpamLimitMultiplier, CountUpTo(held, daily \div p.SpamLimitMultiplier))

(* The ante-side ceiling on a key's activation attempts of one day: the    *)
(* attempt that brings the day's count to `daily` is within quota.         *)
WithinActivateQuota(p, daily, held) ==
  daily <= Times(p.SpamLimitMultiplier,
                 CountUpTo(held, daily \div p.SpamLimitMultiplier + 1))

(* The two multipliers as Params.Validate leaves them: positive, ordered,  *)
(* and nothing else.                                                       *)
ValidMultipliers(p) ==
  /\ p.ActivationLimitMultiplier \in 1 .. (WordSize - 1)
  /\ p.SpamLimitMultiplier \in p.ActivationLimitMultiplier .. (WordSize - 1)

-----------------------------------------------------------------------------

(* The algorithm as x/network/README.md ("Activation limits") words it:    *)
(* over the operator's full license count and unbounded integers.          *)
DocumentedVerdict(p, total, active, recent, held) ==
  LET limit == p.ActivationLimitMultiplier * held
  IN  CASE held = 0                     -> "NoActiveLicenses"
        [] held # 0 /\ (total < limit \/ recent < limit) -> "Allow"
        [] held # 0 /\ total >= limit /\ recent >= limit ->
             IF recent >= p.SpamLimitMultiplier * held THEN "RecentActivationLimit"
             ELSE IF active >= limit                   THEN "ActivationLimit"
             ELSE "Allow"

=============================================================================
