------------------------ MODULE ActivationLimitProofs ------------------------
(***************************************************************************)
(* The early end of the license walk is sound: for every input whose       *)
(* products fit a machine word, the bounded computations answer what the   *)
(* full license count would.                                               *)
(***************************************************************************)
EXTENDS ActivationLimit, TLAPS

-----------------------------------------------------------------------------
(* Facts about division and wrapping products.                             *)

LEMMA DivisionDecides ==
  ASSUME NEW x \in Nat, NEW m \in Nat \ {0}
  PROVE  x \div m + 1 \in Nat /\ x < m * (x \div m + 1)
OBVIOUS

LEMMA ProductMonotone ==
  ASSUME NEW m \in Nat, NEW a \in Nat, NEW b \in Nat, a <= b
  PROVE  m * a \in Nat /\ m * b \in Nat /\ m * a <= m * b
OBVIOUS

LEMMA FactorMonotone ==
  ASSUME NEW m \in Nat, NEW a \in Nat, NEW b \in Nat, a <= b
  PROVE  a * m \in Nat /\ b * m \in Nat /\ a * m <= b * m
OBVIOUS

LEMMA TimesExact ==
  ASSUME NEW a \in Nat, NEW b \in Nat, a * b < WordSize
  PROVE  Times(a, b) = a * b
<1>1. a * b \in Nat
  OBVIOUS
<1> QED
  BY <1>1, WordAssumption DEF Times

(* The number of licenses counted, and what it is worth knowing of it.     *)
LEMMA CountUpToBounded ==
  ASSUME NEW held \in Nat, NEW stopAt \in Nat \ {0}
  PROVE  /\ CountUpTo(held, stopAt) \in Nat
         /\ CountUpTo(held, stopAt) <= held
         /\ CountUpTo(held, stopAt) # held =>
              held > stopAt /\ CountUpTo(held, stopAt) = stopAt
BY DEF CountUpTo

-----------------------------------------------------------------------------

(* Where the handler stops counting, one license more cannot matter: the   *)
(* limit of that many licenses already exceeds all three comparands.       *)
LEMMA StopIsDecisive ==
  ASSUME NEW p, ValidMultipliers(p),
         NEW total \in Nat, NEW active \in Nat, NEW recent \in Nat
  PROVE  LET stopAt == ActivationStopAt(p, total, active, recent)
         IN  /\ stopAt \in Nat \ {0}
             /\ total < p.ActivationLimitMultiplier * stopAt
<1> DEFINE max == Larger(Larger(total, active), recent)
<1>1. max \in Nat /\ total <= max
  BY DEF Larger
<1>2. p.ActivationLimitMultiplier \in Nat \ {0}
  BY WordAssumption DEF ValidMultipliers
<1>3. max \div p.ActivationLimitMultiplier \in Nat
  BY <1>1, <1>2
<1> HIDE DEF max
<1>4. /\ max \div p.ActivationLimitMultiplier + 1 \in Nat \ {0}
      /\ max < p.ActivationLimitMultiplier * (max \div p.ActivationLimitMultiplier + 1)
  BY <1>1, <1>2, <1>3, DivisionDecides
<1>5. ActivationStopAt(p, total, active, recent) = max \div p.ActivationLimitMultiplier + 1
  BY DEF ActivationStopAt, max
<1>6. total < p.ActivationLimitMultiplier * (max \div p.ActivationLimitMultiplier + 1)
  BY <1>1, <1>2, <1>3, <1>4
<1> QED
  BY <1>4, <1>5, <1>6

(* msg_server_activate_node.go: the verdict reached from a license walk    *)
(* that stops early is the documented one for the full license count, as   *)
(* long as spam_limit_multiplier times that count fits a uint64.           *)
THEOREM BoundedVerdictFaithful ==
  ASSUME NEW p, ValidMultipliers(p),
         NEW total \in Nat, NEW active \in Nat, NEW recent \in Nat, NEW held \in Nat,
         p.SpamLimitMultiplier * held < WordSize
  PROVE  BoundedVerdict(p, total, active, recent, held)
           = DocumentedVerdict(p, total, active, recent, held)
<1> DEFINE m      == p.ActivationLimitMultiplier
           spam   == p.SpamLimitMultiplier
           stopAt == ActivationStopAt(p, total, active, recent)
           count  == CountUpTo(held, stopAt)
<1>1. m \in Nat \ {0} /\ spam \in Nat /\ m <= spam
  BY WordAssumption DEF ValidMultipliers
<1>2. stopAt \in Nat \ {0} /\ total < m * stopAt
  BY StopIsDecisive
<1>3. BoundedVerdict(p, total, active, recent, held)
        = ActivationVerdict(p, total, active, recent, count)
  BY DEF BoundedVerdict
<1> HIDE DEF stopAt
<1>4. count \in Nat /\ count <= held /\ (count # held => held > stopAt /\ count = stopAt)
  BY <1>2, CountUpToBounded
<1> HIDE DEF count
<1>5. /\ m * count \in Nat /\ m * held \in Nat /\ spam * count \in Nat
      /\ m * count <= m * held
      /\ m * count <= spam * count /\ spam * count <= spam * held
  <2>1. m * count \in Nat /\ m * held \in Nat /\ m * count <= m * held
    BY <1>1, <1>4, ProductMonotone
  <2>2. spam * count \in Nat /\ spam * count <= spam * held
    BY <1>1, <1>4, ProductMonotone
  <2>3. m * count <= spam * count
    BY <1>1, <1>4, FactorMonotone
  <2> QED
    BY <2>1, <2>2, <2>3
<1>6. spam * held \in Nat
  BY <1>1
<1>7. m * count < WordSize /\ spam * count < WordSize
  <2> DEFINE a == m * count  b == spam * count  c == spam * held
  <2>1. a \in Nat /\ b \in Nat /\ c \in Nat /\ a <= b /\ b <= c /\ c < WordSize
    BY <1>5, <1>6
  <2> HIDE DEF a, b, c
  <2>2. a < WordSize /\ b < WordSize
    BY <2>1, WordAssumption
  <2> QED
    BY <2>2 DEF a, b
<1>8. Times(m, count) = m * count /\ Times(spam, count) = spam * count
  BY <1>1, <1>4, <1>7, TimesExact
<1>9. CASE count = held
  BY <1>1, <1>3, <1>4, <1>5, <1>8, <1>9 DEF ActivationVerdict, DocumentedVerdict
<1>10. CASE count # held
  <2>1. held # 0 /\ count # 0 /\ count = stopAt
    BY <1>2, <1>4, <1>10
  <2> DEFINE a == m * count  b == m * held
  <2>2. total < a /\ a \in Nat /\ b \in Nat /\ a <= b
    BY <1>2, <1>5, <2>1
  <2>3. ActivationVerdict(p, total, active, recent, count) = "Allow"
    BY <1>8, <2>1, <2>2 DEF ActivationVerdict
  <2> HIDE DEF a
  <2>4. total < b
    BY <2>2
  <2>5. DocumentedVerdict(p, total, active, recent, held) = "Allow"
    BY <2>1, <2>2, <2>4 DEF DocumentedVerdict
  <2> QED
    BY <1>3, <2>3, <2>5
<1> QED
  BY <1>9, <1>10

(* admission.go, consumeActivateQuota: the ante check admits exactly the   *)
(* attempts within spam_limit_multiplier times the full license count.     *)
THEOREM BoundedQuotaFaithful ==
  ASSUME NEW p, ValidMultipliers(p), NEW daily \in Nat, NEW held \in Nat,
         p.SpamLimitMultiplier * held < WordSize
  PROVE  WithinActivateQuota(p, daily, held) <=> daily <= p.SpamLimitMultiplier * held
<1> DEFINE spam   == p.SpamLimitMultiplier
           stopAt == daily \div spam + 1
           count  == CountUpTo(held, stopAt)
<1>1. spam \in Nat \ {0}
  BY WordAssumption DEF ValidMultipliers
<1>2. daily \div spam \in Nat
  BY <1>1
<1>3. stopAt \in Nat \ {0} /\ daily < spam * stopAt
  BY <1>1, <1>2, DivisionDecides
<1>4. WithinActivateQuota(p, daily, held) <=> daily <= Times(spam, count)
  BY DEF WithinActivateQuota
<1> HIDE DEF stopAt
<1>5. count \in Nat /\ count <= held /\ (count # held => held > stopAt /\ count = stopAt)
  BY <1>3, CountUpToBounded
<1> HIDE DEF count
<1>6. spam * count \in Nat /\ spam * held \in Nat /\ spam * count <= spam * held
  BY <1>1, <1>5, ProductMonotone
<1>7. Times(spam, count) = spam * count
  <2> DEFINE a == spam * count  b == spam * held
  <2>1. a \in Nat /\ b \in Nat /\ a <= b /\ b < WordSize
    BY <1>6
  <2> HIDE DEF a, b
  <2>2. a < WordSize
    BY <2>1, WordAssumption
  <2> QED
    BY <1>1, <1>5, <2>2, TimesExact DEF a
<1>8. CASE count = held
  BY <1>4, <1>7, <1>8
<1>9. CASE count # held
  <2> DEFINE a == spam * count  b == spam * held
  <2>1. a \in Nat /\ b \in Nat /\ a <= b /\ daily < a
    BY <1>3, <1>5, <1>6, <1>9
  <2>2. daily <= Times(spam, count) <=> daily <= a
    BY <1>7
  <2> HIDE DEF a
  <2>3. daily <= a /\ daily <= b
    BY <2>1
  <2> QED
    BY <1>4, <2>2, <2>3
<1> QED
  BY <1>8, <1>9

-----------------------------------------------------------------------------
(* When the products do wrap                                               *)

LEMMA TimesAtMost ==
  ASSUME NEW a \in Nat, NEW b \in Nat
  PROVE  Times(a, b) \in Nat /\ Times(a, b) <= a * b
<1> DEFINE x == a * b
<1>1. x \in Nat
  OBVIOUS
<1> HIDE DEF x
<1>2. x % WordSize \in Nat /\ x % WordSize <= x
  BY <1>1, WordAssumption
<1> QED
  BY <1>2 DEF Times, x

(* msg_server_activate_node.go, for multipliers of any size: a product     *)
(* that wraps only ever refuses.  An activation that is allowed leaves the *)
(* operator within the true, unwrapped limits of its full license count.   *)
THEOREM OverflowOnlyRefuses ==
  ASSUME NEW p, ValidMultipliers(p), NEW total \in Nat, NEW active \in Nat, NEW recent \in Nat,
         NEW held \in Nat, recent <= total,
         BoundedVerdict(p, total, active, recent, held) = "Allow"
  PROVE  LET limit == p.ActivationLimitMultiplier * held
         IN  /\ held > 0
             /\ recent + 1 <= p.SpamLimitMultiplier * held
             /\ total + 1 <= limit \/ recent + 1 <= limit \/ active + 1 <= limit
<1> DEFINE m      == p.ActivationLimitMultiplier
           spam   == p.SpamLimitMultiplier
           stopAt == ActivationStopAt(p, total, active, recent)
           count  == CountUpTo(held, stopAt)
           wrappedLimit == Times(m, count)
           wrappedSpam  == Times(spam, count)
           limit  == m * held
           ceiling == spam * held
<1>1. m \in Nat \ {0} /\ spam \in Nat /\ m <= spam
  BY WordAssumption DEF ValidMultipliers
<1>2. stopAt \in Nat \ {0}
  BY StopIsDecisive
<1>3. ActivationVerdict(p, total, active, recent, count) = "Allow"
  BY DEF BoundedVerdict
<1>4. /\ count # 0
      /\ \/ total < wrappedLimit \/ recent < wrappedLimit
         \/ ~(recent >= wrappedSpam) /\ ~(active >= wrappedLimit)
  BY <1>3 DEF ActivationVerdict
<1> HIDE DEF stopAt
<1>5. count \in Nat /\ count <= held
  BY <1>2, CountUpToBounded
<1> HIDE DEF count
<1>6. /\ limit \in Nat /\ ceiling \in Nat /\ limit <= ceiling
      /\ m * count \in Nat /\ m * count <= limit
      /\ spam * count \in Nat /\ spam * count <= ceiling
  <2>1. limit \in Nat /\ ceiling \in Nat /\ limit <= ceiling
    BY <1>1, FactorMonotone
  <2>2. m * count \in Nat /\ m * count <= limit
    BY <1>1, <1>5, ProductMonotone
  <2>3. spam * count \in Nat /\ spam * count <= ceiling
    BY <1>1, <1>5, ProductMonotone
  <2> QED
    BY <2>1, <2>2, <2>3
<1>7. /\ wrappedLimit \in Nat /\ wrappedLimit <= m * count
      /\ wrappedSpam \in Nat /\ wrappedSpam <= spam * count
  BY <1>1, <1>5, TimesAtMost
<1> DEFINE exactLimit == m * count
           exactSpam  == spam * count
<1>8. /\ exactLimit \in Nat /\ wrappedLimit <= exactLimit /\ exactLimit <= limit
      /\ exactSpam \in Nat /\ wrappedSpam <= exactSpam /\ exactSpam <= ceiling
  BY <1>6, <1>7
<1> HIDE DEF limit, ceiling, wrappedLimit, wrappedSpam, exactLimit, exactSpam
<1>9. wrappedLimit <= limit /\ wrappedSpam <= ceiling
  BY <1>6, <1>7, <1>8
<1>10. /\ recent + 1 <= ceiling
       /\ total + 1 <= limit \/ recent + 1 <= limit \/ active + 1 <= limit
  BY <1>4, <1>6, <1>7, <1>9
<1>11. held > 0
  BY <1>4, <1>5
<1> QED
  BY <1>10, <1>11 DEF limit, ceiling
=============================================================================
