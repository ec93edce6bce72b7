-------------------------- MODULE NetworkQuotaProofs --------------------------
(***************************************************************************)
(* Proofs about stretches of time in x/network: the lazily rolled counters *)
(* implement a table of daily allowances, the fee-less channel is used     *)
(* under a license, heartbeats keep to the daily limit, and a churned      *)
(* fleet stays within an allowance.                                        *)
(***************************************************************************)
EXTENDS NetworkHistory, NetworkRecordsProofs

-----------------------------------------------------------------------------
(* Charges                                                                 *)

(* The quota counters change by an admission.                              *)
ChargeStep ==
  \/ \E op \in Operators : AdmitAuthorize(op)
  \/ \E key \in KeyAddresses, op \in Operators, type \in NodeTypeIds : AdmitActivate(key, op, type)
  \/ \E signer \in Address, node \in NodeAddresses : AdmitDeactivate(signer, node)
  \/ \E node \in NodeAddresses : AdmitStatus(node)

LEMMA ChargeSplits ==
  ASSUME [Next]_vars
  PROVE  (ChargeStep /\ UNCHANGED envVars) \/ UNCHANGED quotaVars
<1>1. CASE PaidNext
  BY <1>1, PaidSplits
<1>2. CASE GaslessNext
  BY <1>2 DEF GaslessNext, GaslessAuthorize, GaslessActivate, GaslessDeactivate, GaslessStatus,
              ChargeStep
<1>3. CASE EnvNext
  BY <1>3, EnvSplits
<1>4. CASE \E node \in NodeAddresses : Heartbeat(node)
  BY <1>4 DEF Heartbeat, PaidStatus, GaslessStatus, ChargeStep
<1>5. CASE UNCHANGED vars
  BY <1>5 DEF vars
<1> QED
  BY <1>1, <1>2, <1>3, <1>4, <1>5 DEF Next, QuietNext

(* What a charge leaves in the counters.                                   *)
LEMMA CountedRecord ==
  ASSUME NEW counters, NEW k
  PROVE  /\ DOMAIN Counted(counters, k) = DOMAIN counters \cup {k}
         /\ Counted(counters, k)[k].day = Today
         /\ Counted(counters, k)[k].count = DailyCount(counters, k) + 1
         /\ \A j \in DOMAIN counters : j # k => Counted(counters, k)[j] = counters[j]
<1> DEFINE r == [day |-> Today, count |-> DailyCount(counters, k) + 1]
<1>1. Counted(counters, k) = Put(counters, k, r)
  BY DEF Counted
<1>2. r.day = Today /\ r.count = DailyCount(counters, k) + 1
  OBVIOUS
<1> HIDE DEF r
<1> QED
  BY <1>1, <1>2 DEF Put

LEMMA CountedEntries ==
  ASSUME NEW counters, NEW k, NEW after, after = Counted(counters, k), NEW c \in DOMAIN after
  PROVE  after[c].day = Today \/ (c \in DOMAIN counters /\ after[c] = counters[c])
<1>1. /\ DOMAIN after = DOMAIN counters \cup {k} /\ after[k].day = Today
      /\ \A j \in DOMAIN counters : j # k => after[j] = counters[j]
  BY ONLY after = Counted(counters, k), CountedRecord
<1> QED
  BY <1>1

LEMMA ChangedEntry ==
  ASSUME NEW counters, NEW k, NEW after, after = Counted(counters, k), NEW c \in DOMAIN after,
         ~ (c \in DOMAIN counters /\ after[c] = counters[c])
  PROVE  c = k /\ after[c].day = Today
<1>1. /\ DOMAIN after = DOMAIN counters \cup {k} /\ after[k].day = Today
      /\ \A j \in DOMAIN counters : j # k => after[j] = counters[j]
  BY ONLY after = Counted(counters, k), CountedRecord
<1> QED
  BY <1>1

LEMMA CountedRead ==
  ASSUME NEW counters, NEW k, NEW j
  PROVE  DailyCount(Counted(counters, k), j) =
           IF j = k THEN DailyCount(counters, k) + 1 ELSE DailyCount(counters, j)
<1> DEFINE after == Counted(counters, k)
<1>1. /\ DOMAIN after = DOMAIN counters \cup {k}
      /\ after[k].day = Today /\ after[k].count = DailyCount(counters, k) + 1
      /\ \A i \in DOMAIN counters : i # k => after[i] = counters[i]
  BY CountedRecord
<1> HIDE DEF after
<1>2. DailyCount(after, j) =
        IF j = k THEN DailyCount(counters, k) + 1 ELSE DailyCount(counters, j)
  <2>1. CASE j = k
    BY <1>1, <2>1 DEF DailyCount
  <2>2. CASE j # k
    BY <1>1, <2>2 DEF DailyCount
  <2> QED
    BY <2>1, <2>2
<1> QED
  BY <1>2 DEF after

(* No counter was used on a day still to come; without it a roll could     *)
(* revive what an earlier day had spent.                                   *)
CountersPast ==
  /\ \A c \in DOMAIN gaslessCounters : gaslessCounters[c].day <= Today
  /\ \A n \in DOMAIN nodeStatusCounters : nodeStatusCounters[n].day <= Today

LEMMA CountersTyped ==
  ASSUME TypeOK
  PROVE  /\ \A c \in DOMAIN gaslessCounters :
              gaslessCounters[c].day \in Nat /\ gaslessCounters[c].count \in Nat \ {0}
         /\ \A n \in DOMAIN nodeStatusCounters :
              nodeStatusCounters[n].day \in Nat /\ nodeStatusCounters[n].count \in Nat \ {0}
BY DEF TypeOK, IsPartial, CounterType

LEMMA CountersPastStep == TypeOK /\ CountersPast /\ [Next]_vars => CountersPast'
<1> SUFFICES ASSUME TypeOK, CountersPast, [Next]_vars PROVE CountersPast'
  OBVIOUS
<1>1. Today \in Nat /\ Today' \in Nat /\ Today <= Today'
  BY NextSplits, TodayMonotone
<1>2. QuotaStep
  BY NextSplits, StepSplits
<1>3. ASSUME NEW c \in DOMAIN gaslessCounters' PROVE gaslessCounters'[c].day <= Today'
  <2>1. CASE \E k \in QuotaKeys : gaslessCounters' = Counted(gaslessCounters, k)
    <3>1. PICK k \in QuotaKeys : gaslessCounters' = Counted(gaslessCounters, k)
      BY <2>1
    <3>2. gaslessCounters'[c].day = Today
            \/ (c \in DOMAIN gaslessCounters /\ gaslessCounters'[c] = gaslessCounters[c])
      BY ONLY <3>1, <1>3, CountedEntries
    <3> QED
      BY <1>1, <3>2, CountersTyped DEF CountersPast
  <2>2. CASE gaslessCounters' = gaslessCounters
    BY <1>1, <1>3, <2>2, CountersTyped DEF CountersPast
  <2> QED
    BY <1>2, <2>1, <2>2 DEF QuotaStep, quotaVars
<1>4. ASSUME NEW n \in DOMAIN nodeStatusCounters' PROVE nodeStatusCounters'[n].day <= Today'
  <2>1. CASE \E k \in NodeAddresses : nodeStatusCounters' = Counted(nodeStatusCounters, k)
    <3>1. PICK k \in NodeAddresses : nodeStatusCounters' = Counted(nodeStatusCounters, k)
      BY <2>1
    <3>2. nodeStatusCounters'[n].day = Today
            \/ (n \in DOMAIN nodeStatusCounters /\ nodeStatusCounters'[n] = nodeStatusCounters[n])
      BY ONLY <3>1, <1>4, CountedEntries
    <3> QED
      BY <1>1, <3>2, CountersTyped DEF CountersPast
  <2>2. CASE nodeStatusCounters' = nodeStatusCounters
    BY <1>1, <1>4, <2>2, CountersTyped DEF CountersPast
  <2> QED
    BY <1>2, <2>1, <2>2 DEF QuotaStep, quotaVars
<1> QED
  BY <1>3, <1>4 DEF CountersPast

-----------------------------------------------------------------------------
(* The counters as a table of daily allowances                             *)

QuotaInv == TypeOK /\ CountersPast /\ LicensesBounded /\ params = GenesisParams

LEMMA QuotaInvHolds ==
  ASSUME ParamChoices = {}
  PROVE  Spec => []QuotaInv
<1>1. Init => CountersPast /\ params = GenesisParams
  BY DEF Init, EmptyMap, CountersPast
<1>2. [Next]_vars => UNCHANGED params
  BY GovernanceAlone, NextSplits
<1>3. GenesisParams' = GenesisParams
  OBVIOUS
<1>4. params = GenesisParams /\ [Next]_vars => (params = GenesisParams)'
  BY <1>2, <1>3
<1>5. VerdictInv => TypeOK /\ LicensesBounded
  BY DEF VerdictInv, NodeIndexes
<1> QED
  BY <1>1, <1>4, <1>5, VerdictInvHolds, CountersPastStep, PTL
  DEF Spec, QuotaInv

(* The subjects, by the kind of counter that meters them.                  *)
LEMMA SubjectKinds ==
  /\ \A c \in QuotaKeys : c[1] # "status" /\ c \in QuotaSubjects
  /\ \A n \in NodeAddresses : <<"status", n, NoScope>> \in QuotaSubjects
  /\ \A s \in QuotaSubjects :
       \/ s \in QuotaKeys
       \/ s[1] = "status" /\ s[2] \in NodeAddresses /\ s = <<"status", s[2], NoScope>>
BY DEF QuotaKeys, QuotaSubjects

(* A charge spends one unit of its subject and of no other.                *)
LEMMA GaslessSpent ==
  ASSUME now' = now, NEW c \in QuotaKeys,
         gaslessCounters' = Counted(gaslessCounters, c), UNCHANGED nodeStatusCounters
  PROVE  SpentToday' = [SpentToday EXCEPT ![c] = @ + 1]
<1>1. Today' = Today
  BY DEF Today
<1>2. \A s : DailyCount(gaslessCounters, s)' =
               IF s = c THEN DailyCount(gaslessCounters, c) + 1 ELSE DailyCount(gaslessCounters, s)
  <2> TAKE s
  <2>1. DailyCount(gaslessCounters, s)' = DailyCount(Counted(gaslessCounters, c), s)
    BY <1>1 DEF DailyCount
  <2> QED
    BY <2>1, CountedRead
<1>3. \A n : DailyCount(nodeStatusCounters, n)' = DailyCount(nodeStatusCounters, n)
  BY <1>1 DEF DailyCount
<1>4. c \in QuotaSubjects /\ c[1] # "status"
  BY SubjectKinds
<1> QED
  BY <1>2, <1>3, <1>4 DEF SpentToday

LEMMA StatusSpent ==
  ASSUME now' = now, NEW n \in NodeAddresses,
         nodeStatusCounters' = Counted(nodeStatusCounters, n), UNCHANGED gaslessCounters
  PROVE  SpentToday' = [SpentToday EXCEPT ![<<"status", n, NoScope>>] = @ + 1]
<1> DEFINE u == <<"status", n, NoScope>>
<1>1. Today' = Today
  BY DEF Today
<1>2. \A m : DailyCount(nodeStatusCounters, m)' =
               IF m = n THEN DailyCount(nodeStatusCounters, n) + 1
               ELSE DailyCount(nodeStatusCounters, m)
  <2> TAKE m
  <2>1. DailyCount(nodeStatusCounters, m)' = DailyCount(Counted(nodeStatusCounters, n), m)
    BY <1>1 DEF DailyCount
  <2> QED
    BY <2>1, CountedRead
<1>3. \A s : DailyCount(gaslessCounters, s)' = DailyCount(gaslessCounters, s)
  BY <1>1 DEF DailyCount
<1>4. u \in QuotaSubjects /\ u[1] = "status" /\ u[2] = n
  BY SubjectKinds
<1>5. \A s \in QuotaSubjects : s[1] = "status" /\ s[2] = n => s = u
  BY SubjectKinds
<1> HIDE DEF u
<1>6. SpentToday' = [SpentToday EXCEPT ![u] = @ + 1]
  BY <1>2, <1>3, <1>4, <1>5 DEF SpentToday
<1> QED
  BY <1>6 DEF u

(* What each admission checks keeps the subject below its limit.           *)
LEMMA ActivateWithinLimit ==
  ASSUME QuotaInv, NEW key \in KeyAddresses, NEW op \in Operators, NEW type \in NodeTypeIds,
         AdmitActivate(key, op, type)
  PROVE  DailyCount(gaslessCounters, <<"activate", key, type>>) + 1
           <= GenesisParams.SpamLimitMultiplier * MaxLicenses
<1> DEFINE daily == DailyCount(gaslessCounters, <<"activate", key, type>>) + 1
           spam  == params.SpamLimitMultiplier
           held  == licenses[op][nodeTypes[type]]
           count == CountUpTo(held, daily \div spam + 1)
<1>1. type \in DOMAIN nodeTypes
  BY DEF AdmitActivate, LicensedForNodeType
<1>2. spam \in Nat \ {0} /\ held \in Nat /\ held <= MaxLicenses /\ MaxLicenses \in Nat
  BY <1>1, HoldingType, WordAssumption, BoundAssumption DEF QuotaInv, ValidMultipliers
<1>3. daily \in Nat
  BY DEF DailyCount, QuotaInv, TypeOK, IsPartial, CounterType
<1>4. daily <= Times(spam, count)
  BY DEF AdmitActivate, WithinActivateQuota, BackingLicenses
<1> HIDE DEF daily, spam, held
<1>5. count \in Nat /\ count <= MaxLicenses
  <2>1. daily \div spam + 1 \in Nat
    BY <1>2, <1>3
  <2> QED
    BY <1>2, <2>1 DEF CountUpTo
<1> HIDE DEF count
<1>6. Times(spam, count) \in Nat /\ Times(spam, count) <= spam * count
  BY <1>2, <1>5, TimesAtMost
<1>7. spam * count \in Nat /\ spam * MaxLicenses \in Nat /\ spam * count <= spam * MaxLicenses
  BY <1>2, <1>5, ProductMonotone
<1>8. daily <= spam * MaxLicenses
  BY <1>3, <1>4, <1>6, <1>7
<1> QED
  BY <1>8 DEF daily, spam, QuotaInv

LEMMA ChargeSpends ==
  ASSUME QuotaInv, ChargeStep, UNCHANGED envVars
  PROVE  \E s \in QuotaSubjects :
           /\ SpentToday[s] < QuotaLimit[s]
           /\ SpentToday' = [SpentToday EXCEPT ![s] = @ + 1]
<1>0. now' = now /\ params = GenesisParams /\ ValidParams(params)
  BY DEF envVars, QuotaInv, TypeOK
<1>1. \A c : DailyCount(gaslessCounters, c) \in Nat
  BY DEF DailyCount, QuotaInv, TypeOK, IsPartial, CounterType
<1>2. \A n : DailyCount(nodeStatusCounters, n) \in Nat
  BY DEF DailyCount, QuotaInv, TypeOK, IsPartial, CounterType
<1>3. CASE \E op \in Operators : AdmitAuthorize(op)
  <2>1. PICK op \in Operators : AdmitAuthorize(op)
    BY <1>3
  <2> DEFINE s == <<"authorize", op, NoScope>>
  <2>2. s \in QuotaKeys /\ s \in QuotaSubjects /\ s[1] = "authorize"
    BY DEF QuotaKeys, QuotaSubjects
  <2>3. /\ QuotaLimit[s] = GenesisParams.RecentKeyLimit
        /\ SpentToday[s] = DailyCount(gaslessCounters, s)
    BY <2>2 DEF QuotaLimit, SpentToday
  <2>4. SpentToday' = [SpentToday EXCEPT ![s] = @ + 1]
    BY <1>0, <2>1, <2>2, GaslessSpent DEF AdmitAuthorize, ConsumeGaslessCounter
  <2>5. SpentToday[s] < QuotaLimit[s]
    BY <1>0, <1>1, <2>1, <2>3 DEF AdmitAuthorize, ConsumeGaslessCounter, ValidParams
  <2> QED
    BY <2>2, <2>4, <2>5
<1>4. CASE \E key \in KeyAddresses, op \in Operators, type \in NodeTypeIds :
             AdmitActivate(key, op, type)
  <2>1. PICK key \in KeyAddresses, op \in Operators, type \in NodeTypeIds :
               AdmitActivate(key, op, type)
    BY <1>4
  <2> DEFINE s == <<"activate", key, type>>
             ceiling == GenesisParams.SpamLimitMultiplier * MaxLicenses
  <2>2. s \in QuotaKeys /\ s \in QuotaSubjects /\ s[1] = "activate"
    BY DEF QuotaKeys, QuotaSubjects
  <2>3. QuotaLimit[s] = ceiling /\ SpentToday[s] = DailyCount(gaslessCounters, s)
    BY <2>2 DEF QuotaLimit, SpentToday
  <2>4. SpentToday' = [SpentToday EXCEPT ![s] = @ + 1]
    BY <1>0, <2>1, <2>2, GaslessSpent DEF AdmitActivate
  <2>5. DailyCount(gaslessCounters, s) + 1 <= ceiling
    BY <2>1, ActivateWithinLimit
  <2>6. ceiling \in Int
    BY <1>0, BoundAssumption DEF ValidParams, ValidMultipliers
  <2> HIDE DEF s, ceiling
  <2>7. SpentToday[s] < QuotaLimit[s]
    BY <1>1, <2>3, <2>5, <2>6
  <2> QED
    BY <2>2, <2>4, <2>7
<1>5. CASE \E signer \in Address, node \in NodeAddresses : AdmitDeactivate(signer, node)
  <2>1. PICK signer \in Address, node \in NodeAddresses : AdmitDeactivate(signer, node)
    BY <1>5
  <2> DEFINE s == <<"deactivate", signer, NoScope>>
  <2>2. s \in QuotaKeys /\ s \in QuotaSubjects /\ s[1] = "deactivate"
    BY DEF QuotaKeys, QuotaSubjects
  <2>3. QuotaLimit[s] = GenesisParams.StatusDailyLimit
          /\ SpentToday[s] = DailyCount(gaslessCounters, s)
    BY <2>2 DEF QuotaLimit, SpentToday
  <2>4. SpentToday' = [SpentToday EXCEPT ![s] = @ + 1]
    BY <1>0, <2>1, <2>2, GaslessSpent DEF AdmitDeactivate, ConsumeGaslessCounter
  <2>5. SpentToday[s] < QuotaLimit[s]
    BY <1>0, <1>1, <2>1, <2>3 DEF AdmitDeactivate, ConsumeGaslessCounter, ValidParams
  <2> QED
    BY <2>2, <2>4, <2>5
<1>6. CASE \E node \in NodeAddresses : AdmitStatus(node)
  <2>1. PICK node \in NodeAddresses : AdmitStatus(node)
    BY <1>6
  <2> DEFINE s == <<"status", node, NoScope>>
  <2>2. s \in QuotaSubjects /\ s[1] = "status" /\ s[2] = node
    BY DEF QuotaSubjects
  <2>3. QuotaLimit[s] = GenesisParams.StatusDailyLimit
          /\ SpentToday[s] = DailyCount(nodeStatusCounters, node)
    BY <2>2 DEF QuotaLimit, SpentToday
  <2>4. SpentToday' = [SpentToday EXCEPT ![s] = @ + 1]
    BY <1>0, <2>1, StatusSpent DEF AdmitStatus
  <2>5. SpentToday[s] < QuotaLimit[s]
    BY <1>0, <1>2, <2>1, <2>3 DEF AdmitStatus, AdmittedStatus, ValidParams
  <2> QED
    BY <2>2, <2>4, <2>5
<1> QED
  BY <1>3, <1>4, <1>5, <1>6 DEF ChargeStep

LEMMA QuotaStepMaps ==
  ASSUME QuotaInv, [Next]_vars
  PROVE  [Quota!Next]_<<Today, SpentToday>>
<1>0. Today \in Nat /\ Today' \in Nat /\ Today <= Today'
  BY NextSplits, TodayMonotone DEF QuotaInv
<1>1. CASE ChargeStep /\ UNCHANGED envVars
  <2>1. PICK s \in QuotaSubjects : /\ SpentToday[s] < QuotaLimit[s]
                                  /\ SpentToday' = [SpentToday EXCEPT ![s] = @ + 1]
    BY <1>1, ChargeSpends
  <2>2. Today' = Today
    BY <1>1 DEF envVars, Today
  <2> QED
    BY <2>1, <2>2 DEF Quota!Next, Quota!Spend
<1>2. CASE UNCHANGED quotaVars /\ Today' = Today
  <2>1. SpentToday' = SpentToday
    BY <1>2 DEF SpentToday, DailyCount, quotaVars
  <2> QED
    BY <1>2, <2>1
<1>3. CASE UNCHANGED quotaVars /\ Today' > Today
  <2>1. \A c : DailyCount(gaslessCounters, c)' = 0
    BY <1>0, <1>3, CountersTyped DEF QuotaInv, CountersPast, DailyCount, quotaVars
  <2>2. \A n : DailyCount(nodeStatusCounters, n)' = 0
    BY <1>0, <1>3, CountersTyped DEF QuotaInv, CountersPast, DailyCount, quotaVars
  <2>3. SpentToday' = [s \in QuotaSubjects |-> 0]
    BY <2>1, <2>2 DEF SpentToday
  <2> QED
    BY <1>3, <2>3 DEF Quota!Next, Quota!Midnight
<1> QED
  BY <1>0, <1>1, <1>2, <1>3, ChargeSplits

(* keeper.go and admission.go, while governance leaves the parameters      *)
(* alone: counters that are rolled only when next used, and only after the *)
(* standing checks passed, are a table of daily allowances cleared for     *)
(* everyone at midnight - for every number of subjects and days.           *)
THEOREM QuotasImplementAllowances ==
  ASSUME ParamChoices = {}
  PROVE  Spec => QuotaPromise
<1>1. Init => Quota!Init
  <2> SUFFICES ASSUME Init PROVE Quota!Init
    OBVIOUS
  <2>1. gaslessCounters = EmptyMap /\ nodeStatusCounters = EmptyMap /\ now \in Nat
    BY DayLengthAssumption DEF Init
  <2>2. SpentToday = [s \in QuotaSubjects |-> 0]
    BY <2>1 DEF SpentToday, DailyCount, EmptyMap
  <2>3. Today \in Nat
    BY <2>1, DayType DEF Today
  <2> QED
    BY <2>2, <2>3 DEF Quota!Init
<1>2. QuotaInv /\ [Next]_vars => [Quota!Next]_<<Today, SpentToday>>
  BY QuotaStepMaps
<1> QED
  BY <1>1, <1>2, QuotaInvHolds, PTL DEF Spec, QuotaPromise, Quota!Spec

-----------------------------------------------------------------------------
(* The histories                                                           *)

LEMMA HistoryStep == [HistoryNext]_<<vars, historyVars>> => [Next]_vars
BY DEF HistoryNext, Next, historyVars

LEMMA HistoryIsSpec == HistorySpec => Spec
<1>1. HistoryInit => Init
  BY DEF HistoryInit
<1> QED
  BY <1>1, HistoryStep, PTL DEF HistorySpec, Spec

(* Heartbeats accepted, against the counters charged for them.             *)
HeartbeatsCharged ==
  \A n \in DOMAIN heartbeats :
    /\ n \in DOMAIN nodeStatusCounters
    /\ heartbeats[n].day \in Nat /\ heartbeats[n].count \in Nat
    /\ heartbeats[n].day <= nodeStatusCounters[n].day
    /\ heartbeats[n].day = nodeStatusCounters[n].day =>
         heartbeats[n].count <= nodeStatusCounters[n].count
    /\ heartbeats[n].count <= params.StatusDailyLimit

(* Both counts start over at the same midnight.                            *)
LEMMA HeartbeatsUnderCharges ==
  ASSUME TypeOK, CountersPast, HeartbeatsCharged, NEW n
  PROVE  /\ DailyCount(heartbeats, n) \in Nat /\ DailyCount(nodeStatusCounters, n) \in Nat
         /\ DailyCount(heartbeats, n) <= DailyCount(nodeStatusCounters, n)
<1>1. Today \in Nat
  BY DayType DEF TypeOK, Today
<1>2. CASE n \in DOMAIN heartbeats /\ heartbeats[n].day = Today
  <2>1. nodeStatusCounters[n].day = Today
    BY <1>1, <1>2, CountersTyped DEF HeartbeatsCharged, CountersPast
  <2> QED
    BY <1>2, <2>1, CountersTyped DEF HeartbeatsCharged, DailyCount
<1>3. CASE ~ (n \in DOMAIN heartbeats /\ heartbeats[n].day = Today)
  BY <1>3, CountersTyped DEF DailyCount
<1> QED
  BY <1>2, <1>3

LEMMA HeartbeatsChargedStep ==
  ASSUME "paid" \notin TxForms, TypeOK, CountersPast, HeartbeatsCharged, UNCHANGED params,
         [HistoryNext]_<<vars, historyVars>>
  PROVE  HeartbeatsCharged'
<1>0. Today \in Nat
  BY DayType DEF TypeOK, Today
<1>1. [Next]_vars
  BY HistoryStep
<1>2. CASE UNCHANGED heartbeats
  <2> SUFFICES ASSUME NEW n \in DOMAIN heartbeats
               PROVE  /\ n \in DOMAIN nodeStatusCounters'
                      /\ heartbeats[n].day <= nodeStatusCounters'[n].day
                      /\ heartbeats[n].day = nodeStatusCounters'[n].day =>
                           heartbeats[n].count <= nodeStatusCounters'[n].count
    BY <1>2 DEF HeartbeatsCharged
  <2>1. /\ n \in DOMAIN nodeStatusCounters
        /\ heartbeats[n].day \in Nat /\ heartbeats[n].count \in Nat
        /\ heartbeats[n].day <= nodeStatusCounters[n].day
        /\ heartbeats[n].day = nodeStatusCounters[n].day =>
             heartbeats[n].count <= nodeStatusCounters[n].count
    BY DEF HeartbeatsCharged
  <2>2. CASE nodeStatusCounters' = nodeStatusCounters
    BY <2>1, <2>2
  <2>3. CASE \E k \in NodeAddresses : nodeStatusCounters' = Counted(nodeStatusCounters, k)
    <3>1. PICK k \in NodeAddresses : nodeStatusCounters' = Counted(nodeStatusCounters, k)
      BY <2>3
    <3>2. /\ DOMAIN nodeStatusCounters' = DOMAIN nodeStatusCounters \cup {k}
          /\ nodeStatusCounters'[k].day = Today
          /\ nodeStatusCounters'[k].count = DailyCount(nodeStatusCounters, k) + 1
          /\ \A j \in DOMAIN nodeStatusCounters :
               j # k => nodeStatusCounters'[j] = nodeStatusCounters[j]
      BY ONLY <3>1, CountedRecord
    <3>3. CASE n # k
      BY <2>1, <3>2, <3>3
    <3>4. CASE n = k
      <4>1. heartbeats[n].day <= Today
        BY <1>0, <2>1, CountersTyped DEF CountersPast
      <4>2. heartbeats[n].day = Today => heartbeats[n].count <= DailyCount(nodeStatusCounters, n)
        BY HeartbeatsUnderCharges DEF DailyCount
      <4>3. DailyCount(nodeStatusCounters, n) \in Nat
        BY HeartbeatsUnderCharges
      <4> QED
        BY <2>1, <3>2, <3>4, <4>1, <4>2, <4>3
    <3> QED
      BY <3>3, <3>4
  <2> QED
    BY <1>1, <2>2, <2>3, NextSplits, StepSplits DEF QuotaStep, quotaVars
<1>3. CASE \E node \in NodeAddresses :
             /\ Heartbeat(node)
             /\ heartbeats' = Put(heartbeats, node,
                  [day |-> Today, count |-> DailyCount(heartbeats, node) + 1])
  <2>1. PICK node \in NodeAddresses :
               /\ Heartbeat(node)
               /\ heartbeats' = Put(heartbeats, node,
                    [day |-> Today, count |-> DailyCount(heartbeats, node) + 1])
    BY <1>3
  <2>2. /\ nodeStatusCounters' = Counted(nodeStatusCounters, node)
        /\ DailyCount(nodeStatusCounters, node) + 1 <= params.StatusDailyLimit
    BY <2>1 DEF Heartbeat, PaidStatus, CanPay, GaslessStatus, AdmitStatus, AdmittedStatus
  <2>3. /\ DOMAIN nodeStatusCounters' = DOMAIN nodeStatusCounters \cup {node}
        /\ nodeStatusCounters'[node].day = Today
        /\ nodeStatusCounters'[node].count = DailyCount(nodeStatusCounters, node) + 1
        /\ \A j \in DOMAIN nodeStatusCounters :
             j # node => nodeStatusCounters'[j] = nodeStatusCounters[j]
    BY ONLY <2>2, CountedRecord
  <2> DEFINE r == [day |-> Today, count |-> DailyCount(heartbeats, node) + 1]
  <2>4. r.day = Today /\ r.count = DailyCount(heartbeats, node) + 1
    OBVIOUS
  <2>5. heartbeats' = Put(heartbeats, node, r)
    BY <2>1
  <2> HIDE DEF r
  <2>6. /\ DOMAIN heartbeats' = DOMAIN heartbeats \cup {node} /\ heartbeats'[node] = r
        /\ \A n \in DOMAIN heartbeats : n # node => heartbeats'[n] = heartbeats[n]
    BY ONLY <2>5 DEF Put
  <2>7. /\ DailyCount(heartbeats, node) \in Nat /\ DailyCount(nodeStatusCounters, node) \in Nat
        /\ DailyCount(heartbeats, node) <= DailyCount(nodeStatusCounters, node)
    BY HeartbeatsUnderCharges
  <2>8. params.StatusDailyLimit \in Nat
    BY DEF TypeOK, ValidParams
  <2>9. ASSUME NEW n \in DOMAIN heartbeats'
        PROVE  /\ n \in DOMAIN nodeStatusCounters'
               /\ heartbeats'[n].day \in Nat /\ heartbeats'[n].count \in Nat
               /\ heartbeats'[n].day <= nodeStatusCounters'[n].day
               /\ heartbeats'[n].day = nodeStatusCounters'[n].day =>
                    heartbeats'[n].count <= nodeStatusCounters'[n].count
               /\ heartbeats'[n].count <= params.StatusDailyLimit
    <3>1. CASE n = node
      BY <1>0, <2>2, <2>3, <2>4, <2>6, <2>7, <2>8, <3>1
    <3>2. CASE n # node
      BY <2>3, <2>6, <3>2 DEF HeartbeatsCharged
    <3> QED
      BY <3>1, <3>2
  <2> QED
    BY <2>9 DEF HeartbeatsCharged
<1> QED
  BY <1>2, <1>3 DEF HistoryNext, historyVars

(* network.proto, Params.status_daily_limit, where every heartbeat travels *)
(* in a gasless transaction and governance leaves the parameters alone:    *)
(* the chain accepts no more heartbeats of a node in a day.                *)
THEOREM GaslessHeartbeatsLimited ==
  ASSUME ParamChoices = {}, "paid" \notin TxForms
  PROVE  HistorySpec => []HeartbeatsWithinDailyLimit
<1>1. HistoryInit => HeartbeatsCharged
  BY DEF HistoryInit, EmptyMap, HeartbeatsCharged
<1>2. QuotaInv /\ HeartbeatsCharged /\ [HistoryNext]_<<vars, historyVars>> => HeartbeatsCharged'
  BY HistoryStep, NextSplits, GovernanceAlone, HeartbeatsChargedStep DEF QuotaInv
<1>3. HeartbeatsCharged => HeartbeatsWithinDailyLimit
  BY DEF HeartbeatsCharged, HeartbeatsWithinDailyLimit
<1> QED
  BY <1>1, <1>2, <1>3, QuotaInvHolds, HistoryIsSpec, PTL DEF HistorySpec

-----------------------------------------------------------------------------
(* The fee-less channel and licenses                                       *)

AllowancesKept == AllowancesNow \subseteq allowances

LEMMA AllowancesStep ==
  AllowancesKept /\ [HistoryNext]_<<vars, historyVars>>
    => AllowancesKept' /\ allowances \subseteq allowances'
<1> SUFFICES ASSUME AllowancesKept, [HistoryNext]_<<vars, historyVars>>
             PROVE  AllowancesNow' \subseteq allowances' /\ allowances \subseteq allowances'
  BY DEF AllowancesKept
<1>1. CASE allowances' = allowances \cup AllowancesNow'
  BY <1>1
<1>2. CASE UNCHANGED <<vars, historyVars>>
  <2>1. AllowancesNow' = AllowancesNow /\ allowances' = allowances
    BY <1>2 DEF vars, fleetVars, envVars, historyVars, AllowancesNow, Today
  <2> QED
    BY <2>1 DEF AllowancesKept
<1> QED
  BY <1>1, <1>2 DEF HistoryNext

(* Whoever holds a license now had one today.                              *)
LEMMA LicensedNow ==
  ASSUME TypeOK, AllowancesKept, NEW op \in Operators, NEW lt \in LicenseTypeIds,
         licenses[op][lt] > 0
  PROVE  HadLicense(op, lt, Today)
<1> DEFINE spam == params.SpamLimitMultiplier
           held == licenses[op][lt]
           a    == <<op, lt, Today, spam * held>>
<1>1. spam \in Nat \ {0} /\ held \in Nat \ {0}
  BY WordAssumption DEF TypeOK, ValidParams, ValidMultipliers
<1>2. a \in allowances
  BY DEF AllowancesKept, AllowancesNow
<1> HIDE DEF spam, held
<1>3. spam * held > 0
  BY <1>1
<1> QED
  BY <1>2, <1>3 DEF HadLicense

(* What the license gates of admission find.                               *)
LEMMA GateLicensed ==
  ASSUME TypeOK, AllowancesKept, NEW op \in Operators, NEW type, LicensedForNodeType(op, type)
  PROVE  type \in DOMAIN nodeTypes /\ HadLicense(op, nodeTypes[type], Today)
<1>1. type \in DOMAIN nodeTypes /\ nodeTypes[type] \in LicenseTypeIds
  BY DEF LicensedForNodeType, TypeOK, IsPartial
<1>2. licenses[op][nodeTypes[type]] \in Nat
  BY <1>1 DEF TypeOK
<1>3. licenses[op][nodeTypes[type]] > 0
  BY <1>2 DEF LicensedForNodeType, BackingLicenses, CountUpTo
<1> QED
  BY <1>1, <1>3, LicensedNow

(* Each counter's license, and the records it is told by.                  *)
AuthorizeLicensed ==
  \A c \in DOMAIN gaslessCounters :
    c[1] = "authorize" =>
      \E lt \in DOMAIN nodeTypeByLicenseType : HadLicense(c[2], lt, gaslessCounters[c].day)

ActivateLicensed ==
  \A c \in DOMAIN gaslessCounters :
    c[1] = "activate" =>
      /\ c[2] \in DOMAIN activationKeys /\ c[3] \in DOMAIN nodeTypes
      /\ HadLicense(activationKeys[c[2]].operator, nodeTypes[c[3]], gaslessCounters[c].day)

StatusLicensed ==
  \A n \in DOMAIN nodeStatusCounters :
    /\ n \in DOMAIN nodes /\ nodes[n].type \in DOMAIN nodeTypes
    /\ HadLicense(nodes[n].operator, nodeTypes[nodes[n].type], nodeStatusCounters[n].day)

LEMMA LicenseTypesKept ==
  ASSUME [Next]_vars
  PROVE  DOMAIN nodeTypeByLicenseType \subseteq DOMAIN nodeTypeByLicenseType'
<1>1. FleetStep
  BY NextSplits, StepSplits
<1>2. CASE \E creator \in Admins, id \in NodeTypeIds, lt \in LicenseTypeIds :
              CreateNodeType(creator, id, lt)
  BY <1>2 DEF CreateNodeType, Put
<1>3. CASE ~ \E creator \in Admins, id \in NodeTypeIds, lt \in LicenseTypeIds :
              CreateNodeType(creator, id, lt)
  BY <1>1, <1>3 DEF FleetStep, CreateOperatorAccount, AuthorizeActivationKey,
     DeauthorizeActivationKey, ActivateNode, DeactivateNode, HeartbeatStep, UpdateParams,
     NewHolders, fleetVars, registryVars
<1> QED
  BY <1>2, <1>3

LEMMA HadLicenseKept ==
  ASSUME allowances \subseteq allowances', NEW op, NEW lt, NEW d, HadLicense(op, lt, d)
  PROVE  \E a \in allowances' : a[1] = op /\ a[2] = lt /\ a[3] = d /\ a[4] > 0
BY DEF HadLicense

(* A gasless counter that changes was charged by the admission of its kind.*)
LEMMA ChargedCounter ==
  ASSUME [Next]_vars, NEW c \in DOMAIN gaslessCounters',
         ~ (c \in DOMAIN gaslessCounters /\ gaslessCounters'[c] = gaslessCounters[c])
  PROVE  /\ gaslessCounters'[c].day = Today
         /\ \/ \E op \in Operators : AdmitAuthorize(op) /\ c = <<"authorize", op, NoScope>>
            \/ \E key \in KeyAddresses, op \in Operators, type \in NodeTypeIds :
                 AdmitActivate(key, op, type) /\ c = <<"activate", key, type>>
            \/ c[1] = "deactivate"
<1>1. ChargeStep
  BY ChargeSplits DEF quotaVars
<1>2. ASSUME NEW k, gaslessCounters' = Counted(gaslessCounters, k)
      PROVE  c = k /\ gaslessCounters'[c].day = Today
  BY <1>2, ChangedEntry
<1>3. CASE \E op \in Operators : AdmitAuthorize(op)
  BY <1>2, <1>3 DEF AdmitAuthorize, ConsumeGaslessCounter
<1>4. CASE \E key \in KeyAddresses, op \in Operators, type \in NodeTypeIds :
             AdmitActivate(key, op, type)
  BY <1>2, <1>4 DEF AdmitActivate
<1>5. CASE \E signer \in Address, node \in NodeAddresses : AdmitDeactivate(signer, node)
  BY <1>2, <1>5 DEF AdmitDeactivate, ConsumeGaslessCounter
<1>6. CASE \E node \in NodeAddresses : AdmitStatus(node)
  BY <1>6 DEF AdmitStatus
<1> QED
  BY <1>1, <1>3, <1>4, <1>5, <1>6 DEF ChargeStep

LEMMA AuthorizeLicensedStep ==
  ASSUME TypeOK, AllowancesKept, AuthorizeLicensed, [HistoryNext]_<<vars, historyVars>>
  PROVE  AuthorizeLicensed'
<1>0. /\ [Next]_vars /\ allowances \subseteq allowances'
      /\ DOMAIN nodeTypeByLicenseType \subseteq DOMAIN nodeTypeByLicenseType'
      /\ DOMAIN nodeTypeByLicenseType \subseteq LicenseTypeIds
  BY HistoryStep, AllowancesStep, LicenseTypesKept DEF TypeOK, IsPartial
<1> SUFFICES ASSUME NEW c \in DOMAIN gaslessCounters', c[1] = "authorize"
             PROVE  \E lt \in DOMAIN nodeTypeByLicenseType' : \E a \in allowances' :
                      a[1] = c[2] /\ a[2] = lt /\ a[3] = gaslessCounters'[c].day /\ a[4] > 0
  BY DEF AuthorizeLicensed, HadLicense
<1>1. CASE c \in DOMAIN gaslessCounters /\ gaslessCounters'[c] = gaslessCounters[c]
  BY <1>0, <1>1, HadLicenseKept DEF AuthorizeLicensed
<1>2. CASE ~ (c \in DOMAIN gaslessCounters /\ gaslessCounters'[c] = gaslessCounters[c])
  <2>1. \E op \in Operators : AdmitAuthorize(op) /\ c = <<"authorize", op, NoScope>>
    BY <1>0, <1>2, ChargedCounter
  <2>2. PICK op \in Operators : AdmitAuthorize(op) /\ c = <<"authorize", op, NoScope>>
    BY <2>1
  <2>3. PICK lt \in DOMAIN nodeTypeByLicenseType : CountUpTo(licenses[op][lt], 1) > 0
    BY <2>2 DEF AdmitAuthorize, OperatorLicensed
  <2>4. lt \in LicenseTypeIds /\ licenses[op][lt] \in Nat
    BY <1>0, <2>3 DEF TypeOK
  <2>5. HadLicense(op, lt, Today)
    BY <2>3, <2>4, LicensedNow DEF CountUpTo
  <2>6. gaslessCounters'[c].day = Today /\ c[2] = op
    BY <1>0, <1>2, <2>2, ChargedCounter
  <2>7. \E a \in allowances' : a[1] = op /\ a[2] = lt /\ a[3] = Today /\ a[4] > 0
    BY <1>0, <2>5, HadLicenseKept
  <2> QED
    BY ONLY <1>0, <2>3, <2>6, <2>7
<1> QED
  BY <1>1, <1>2

LEMMA ActivateLicensedStep ==
  ASSUME TypeOK, AllowancesKept, ActivateLicensed, [HistoryNext]_<<vars, historyVars>>
  PROVE  ActivateLicensed'
<1>0. [Next]_vars /\ allowances \subseteq allowances'
  BY HistoryStep, AllowancesStep
<1>1. /\ \A k \in DOMAIN activationKeys :
           /\ k \in DOMAIN activationKeys'
           /\ activationKeys'[k].operator = activationKeys[k].operator
      /\ \A t \in DOMAIN nodeTypes : t \in DOMAIN nodeTypes' /\ nodeTypes'[t] = nodeTypes[t]
  BY <1>0, NextSplits, KeysAndTypesKept DEF KeyRecordKept, BindingKept
<1> SUFFICES ASSUME NEW c \in DOMAIN gaslessCounters', c[1] = "activate"
             PROVE  /\ c[2] \in DOMAIN activationKeys /\ c[3] \in DOMAIN nodeTypes
                    /\ HadLicense(activationKeys[c[2]].operator, nodeTypes[c[3]],
                                  gaslessCounters'[c].day)
  <2> USE DEF ActivateLicensed
  <2>1. ASSUME NEW c \in DOMAIN gaslessCounters', c[1] = "activate"
        PROVE  /\ c[2] \in DOMAIN activationKeys' /\ c[3] \in DOMAIN nodeTypes'
               /\ \E a \in allowances' :
                    /\ a[1] = activationKeys'[c[2]].operator /\ a[2] = nodeTypes'[c[3]]
                    /\ a[3] = gaslessCounters'[c].day /\ a[4] > 0
    <3>1. /\ c[2] \in DOMAIN activationKeys /\ c[3] \in DOMAIN nodeTypes
          /\ HadLicense(activationKeys[c[2]].operator, nodeTypes[c[3]], gaslessCounters'[c].day)
      BY <2>1
    <3>2. \E a \in allowances' :
            /\ a[1] = activationKeys[c[2]].operator /\ a[2] = nodeTypes[c[3]]
            /\ a[3] = gaslessCounters'[c].day /\ a[4] > 0
      BY ONLY <1>0, <3>1, HadLicenseKept
    <3> QED
      BY ONLY <1>1, <3>1, <3>2
  <2> QED
    BY ONLY <2>1 DEF ActivateLicensed, HadLicense
<1>2. CASE c \in DOMAIN gaslessCounters /\ gaslessCounters'[c] = gaslessCounters[c]
  BY <1>2 DEF ActivateLicensed
<1>3. CASE ~ (c \in DOMAIN gaslessCounters /\ gaslessCounters'[c] = gaslessCounters[c])
  <2>1. \E key \in KeyAddresses, op \in Operators, type \in NodeTypeIds :
          AdmitActivate(key, op, type) /\ c = <<"activate", key, type>>
    BY <1>0, <1>3, ChargedCounter
  <2>2. PICK key \in KeyAddresses, op \in Operators, type \in NodeTypeIds :
               AdmitActivate(key, op, type) /\ c = <<"activate", key, type>>
    BY <2>1
  <2>3. /\ key \in DOMAIN activationKeys /\ activationKeys[key].operator = op
        /\ LicensedForNodeType(op, type)
    BY <2>2 DEF AdmitActivate, ActiveKey
  <2>4. gaslessCounters'[c].day = Today /\ c[2] = key /\ c[3] = type
    BY <1>0, <1>3, <2>2, ChargedCounter
  <2>5. type \in DOMAIN nodeTypes /\ HadLicense(op, nodeTypes[type], Today)
    BY <2>3, GateLicensed
  <2> QED
    BY ONLY <2>3, <2>4, <2>5
<1> QED
  BY <1>2, <1>3

LEMMA StatusLicensedStep ==
  ASSUME TypeOK, DaysPast, NodesReferTo, AllowancesKept, StatusLicensed,
         [HistoryNext]_<<vars, historyVars>>
  PROVE  StatusLicensed'
<1>0. [Next]_vars /\ allowances \subseteq allowances'
  BY HistoryStep, AllowancesStep
<1>1. /\ \A n \in DOMAIN nodes :
           /\ n \in DOMAIN nodes' /\ nodes'[n].operator = nodes[n].operator
           /\ nodes'[n].type = nodes[n].type
      /\ \A t \in DOMAIN nodeTypes : t \in DOMAIN nodeTypes' /\ nodeTypes'[t] = nodeTypes[t]
  BY <1>0, NextSplits, NodesKept, KeysAndTypesKept DEF NodeRecordKept, BindingKept
<1>2. ASSUME NEW n \in DOMAIN nodeStatusCounters'
      PROVE  /\ n \in DOMAIN nodes /\ nodes[n].type \in DOMAIN nodeTypes
             /\ HadLicense(nodes[n].operator, nodeTypes[nodes[n].type], nodeStatusCounters'[n].day)
  <2>1. CASE n \in DOMAIN nodeStatusCounters
               /\ nodeStatusCounters'[n].day = nodeStatusCounters[n].day
    BY <2>1 DEF StatusLicensed
  <2>2. CASE ~ (n \in DOMAIN nodeStatusCounters
                 /\ nodeStatusCounters'[n].day = nodeStatusCounters[n].day)
    <3>1. \E node \in NodeAddresses : AdmitStatus(node)
      <4>1. ChargeStep
        BY <1>0, <1>2, <2>2, ChargeSplits DEF quotaVars
      <4>2. nodeStatusCounters' # nodeStatusCounters
        BY <1>2, <2>2
      <4> QED
        BY <4>1, <4>2 DEF ChargeStep, AdmitAuthorize, AdmitActivate, AdmitDeactivate,
           ConsumeGaslessCounter
    <3>2. PICK node \in NodeAddresses : AdmitStatus(node)
      BY <3>1
    <3>3. nodeStatusCounters' = Counted(nodeStatusCounters, node)
      BY <3>2 DEF AdmitStatus
    <3>4. n = node /\ nodeStatusCounters'[n].day = Today
      BY ONLY <1>2, <2>2, <3>3, ChangedEntry
    <3>5. DailyCount(nodeStatusCounters, node) = 0
      BY <2>2, <3>4 DEF DailyCount
    <3>6. ActiveNode(node) /\ LicensedForNodeType(nodes[node].operator, nodes[node].type)
      BY <3>2, <3>5 DEF AdmitStatus, AdmittedStatus
    <3>7. node \in DOMAIN nodes /\ nodes[node].operator \in Operators
      BY <3>6, NodesTyped DEF ActiveNode
    <3>8. /\ nodes[node].type \in DOMAIN nodeTypes
          /\ HadLicense(nodes[node].operator, nodeTypes[nodes[node].type], Today)
      BY <3>6, <3>7, GateLicensed
    <3> QED
      BY ONLY <3>4, <3>7, <3>8
  <2> QED
    BY <2>1, <2>2
<1>3. ASSUME NEW n \in DOMAIN nodeStatusCounters'
      PROVE  /\ n \in DOMAIN nodes' /\ nodes'[n].type \in DOMAIN nodeTypes'
             /\ \E a \in allowances' :
                  /\ a[1] = nodes'[n].operator /\ a[2] = nodeTypes'[nodes'[n].type]
                  /\ a[3] = nodeStatusCounters'[n].day /\ a[4] > 0
  <2>1. /\ n \in DOMAIN nodes /\ nodes[n].type \in DOMAIN nodeTypes
        /\ HadLicense(nodes[n].operator, nodeTypes[nodes[n].type], nodeStatusCounters'[n].day)
    BY <1>2
  <2>2. \E a \in allowances' :
          /\ a[1] = nodes[n].operator /\ a[2] = nodeTypes[nodes[n].type]
          /\ a[3] = nodeStatusCounters'[n].day /\ a[4] > 0
    BY ONLY <1>0, <2>1, HadLicenseKept
  <2> QED
    BY ONLY <1>1, <2>1, <2>2
<1> QED
  BY ONLY <1>3 DEF StatusLicensed, HadLicense

(* admission.go: each day a counter was used, deactivation apart, the      *)
(* operator behind it held a license of the type concerned - whatever is   *)
(* revoked, re-bound or voted on before and after.                         *)
THEOREM FreeChannelUnderLicense == HistorySpec => []FreeChannelLicensed
<1> DEFINE Licensed == /\ AllowancesKept
                       /\ AuthorizeLicensed /\ ActivateLicensed /\ StatusLicensed
<1>1. HistoryInit => Licensed
  BY DEF HistoryInit, Init, EmptyMap, AllowancesKept, AuthorizeLicensed, ActivateLicensed,
         StatusLicensed
<1>2. RecordsInv /\ Licensed /\ [HistoryNext]_<<vars, historyVars>> => Licensed'
  <2>1. RecordsInv => TypeOK /\ DaysPast /\ NodesReferTo
    BY DEF RecordsInv, NodeIndexes
  <2> QED
    BY <2>1, AllowancesStep, AuthorizeLicensedStep, ActivateLicensedStep, StatusLicensedStep
<1>3. Licensed => FreeChannelLicensed
  BY DEF FreeChannelLicensed, AuthorizeLicensed, ActivateLicensed, StatusLicensed
<1> HIDE DEF Licensed
<1> QED
  BY <1>1, <1>2, <1>3, RecordsInvHolds, HistoryIsSpec, PTL DEF HistorySpec

-----------------------------------------------------------------------------
(* Churn                                                                   *)

(* The nodes activated on a day or the day before.                         *)
Births(op, type, d) == {n \in NodesOf(op, type) : bornOn[n] \in {d, d - 1}}

BirthsKnown ==
  /\ DOMAIN bornOn = DOMAIN nodes
  /\ \A n \in DOMAIN nodes : bornOn[n] \in Nat /\ bornOn[n] <= nodes[n].lastActiveDay

(* ChurnBounded of every day on which a node was activated, not only of    *)
(* the current one: the allowance that bounds today's and yesterday's      *)
(* births is one of the day of the last of them.                           *)
BirthsAllowed ==
  \A op \in Operators, type \in NodeTypeIds, d \in Nat :
    (\E n \in NodesOf(op, type) : bornOn[n] = d) =>
      \E a \in allowances :
        /\ a[1] = op /\ a[2] = nodeTypes[type] /\ a[3] = d
        /\ Cardinality(Births(op, type, d)) <= a[4]

AllowancesTyped == \A a \in allowances : a[4] \in Nat

LEMMA AllowancesNowTyped ==
  ASSUME TypeOK
  PROVE  \A a \in AllowancesNow : a[4] \in Nat
<1>1. ASSUME NEW op \in Operators, NEW lt \in LicenseTypeIds
      PROVE  params.SpamLimitMultiplier * licenses[op][lt] \in Nat
  <2>1. params.SpamLimitMultiplier \in Nat /\ licenses[op][lt] \in Nat
    BY WordAssumption DEF TypeOK, ValidParams, ValidMultipliers
  <2> QED
    BY <2>1
<1> QED
  BY <1>1 DEF AllowancesNow

LEMMA AllowancesTypedInit == HistoryInit => AllowancesTyped
BY InitType, AllowancesNowTyped DEF HistoryInit, AllowancesTyped

LEMMA AllowancesTypedStep ==
  ASSUME TypeOK, AllowancesTyped, [HistoryNext]_<<vars, historyVars>>
  PROVE  AllowancesTyped'
<1>1. TypeOK'
  BY HistoryStep, NextSplits, TypeStep
<1>2. \A a \in AllowancesNow' : a[4] \in Nat
  <2>1. ASSUME NEW op \in Operators, NEW lt \in LicenseTypeIds
        PROVE  params'.SpamLimitMultiplier * licenses'[op][lt] \in Nat
    <3>1. params'.SpamLimitMultiplier \in Nat /\ licenses'[op][lt] \in Nat
      BY <1>1, WordAssumption DEF TypeOK, ValidParams, ValidMultipliers
    <3> QED
      BY <3>1
  <2> QED
    BY <2>1 DEF AllowancesNow
<1> QED
  BY <1>2 DEF AllowancesTyped, HistoryNext, historyVars

LEMMA BirthsRecorded ==
  ASSUME [HistoryNext]_<<vars, historyVars>>, DOMAIN bornOn = DOMAIN nodes,
         \A n \in DOMAIN nodes : n \in DOMAIN nodes'
  PROVE  /\ DOMAIN bornOn' = DOMAIN nodes'
         /\ \A n \in DOMAIN nodes : bornOn'[n] = bornOn[n]
         /\ \A n \in DOMAIN nodes' : n \notin DOMAIN nodes => bornOn'[n] = Today
<1>1. CASE UNCHANGED <<vars, historyVars>>
  <2>1. bornOn' = bornOn /\ nodes' = nodes
    BY <1>1 DEF vars, fleetVars, nodeVars, historyVars
  <2> QED
    BY <2>1
<1>2. CASE bornOn' = [n \in DOMAIN nodes' |-> IF n \in DOMAIN bornOn THEN bornOn[n] ELSE Today]
  BY <1>2
<1> QED
  BY <1>1, <1>2 DEF HistoryNext

LEMMA NewNodeActiveToday ==
  ASSUME TypeOK, [Next]_vars, NEW n \in DOMAIN nodes', n \notin DOMAIN nodes
  PROVE  nodes'[n].lastActiveDay = Today /\ UNCHANGED envVars
<1>1. NodeStep /\ UNCHANGED envVars
  BY NextSplits, NodeSplits DEF nodeVars
<1>2. CASE \E key \in KeyAddresses, op \in Operators, node \in NodeAddresses,
              type \in NodeTypeIds : ActivateNode(key, op, node, type)
  <2>1. PICK key \in KeyAddresses, op \in Operators, node \in NodeAddresses,
             type \in NodeTypeIds : ActivateNode(key, op, node, type)
    BY <1>2
  <2>2. DOMAIN nodes' = DOMAIN nodes \cup {node} /\ nodes'[node].lastActiveDay = Today
    BY ONLY TypeOK, <2>1, ActivationWrites
  <2> QED
    BY <1>1, <2>2
<1>3. CASE \E signer \in Address, node \in NodeAddresses : DeactivateNode(signer, node)
  BY <1>3, DeactivationWrites
<1>4. CASE \E node \in NodeAddresses : HeartbeatStep(node)
  BY <1>4, HeartbeatWrites
<1> QED
  BY <1>1, <1>2, <1>3, <1>4 DEF NodeStep

LEMMA BirthsKnownStep ==
  ASSUME TypeOK, DaysPast, BirthsKnown, [HistoryNext]_<<vars, historyVars>>
  PROVE  BirthsKnown'
<1>0. [Next]_vars /\ Today \in Nat
  BY HistoryStep, NextSplits, TodayMonotone
<1>1. \A n \in DOMAIN nodes :
        /\ n \in DOMAIN nodes' /\ nodes'[n].lastActiveDay >= nodes[n].lastActiveDay
        /\ nodes'[n].lastActiveDay \in Nat /\ nodes[n].lastActiveDay \in Nat
  BY <1>0, NextSplits, NodesKept, NodesTyped, TypeStep
  DEF NodeRecordKept, TypeOK, IsPartial, NodeType
<1>2. /\ DOMAIN bornOn' = DOMAIN nodes'
      /\ \A n \in DOMAIN nodes : bornOn'[n] = bornOn[n]
      /\ \A n \in DOMAIN nodes' : n \notin DOMAIN nodes => bornOn'[n] = Today
  BY <1>1, BirthsRecorded DEF BirthsKnown
<1>3. ASSUME NEW n \in DOMAIN nodes'
      PROVE  bornOn'[n] \in Nat /\ bornOn'[n] <= nodes'[n].lastActiveDay
  <2>1. CASE n \in DOMAIN nodes
    BY <1>1, <1>2, <2>1 DEF BirthsKnown
  <2>2. CASE n \notin DOMAIN nodes
    <3>1. nodes'[n].lastActiveDay = Today
      BY <1>0, <2>2, NewNodeActiveToday
    <3> QED
      BY <1>0, <1>2, <2>2, <3>1
  <2> QED
    BY <2>1, <2>2
<1> QED
  BY <1>2, <1>3 DEF BirthsKnown

(* A step that adds a node to the type: the births of today are among the  *)
(* nodes active today and yesterday, which the entitlement bounds; those   *)
(* of earlier days stay as they were.                                      *)
LEMMA BirthsAllowedByActivation ==
  ASSUME VerdictInv, DaysPast, AllowancesKept, BirthsKnown, BirthsAllowed,
         [HistoryNext]_<<vars, historyVars>>,
         NEW op \in Operators, NEW type \in NodeTypeIds, NEW d \in Nat,
         NodesOf(op, type)' # NodesOf(op, type), type \in DOMAIN nodeTypes,
         NEW m \in NodesOf(op, type)', bornOn'[m] = d
  PROVE  \E a \in allowances :
           /\ a[1] = op /\ a[2] = nodeTypes[type] /\ a[3] = d
           /\ Cardinality(Births(op, type, d)') <= a[4]
<1>0. /\ [Next]_vars /\ TypeOK /\ NodesFinite /\ Today \in Nat
      /\ TypeOK' /\ NodesFinite' /\ BirthsKnown' /\ DaysPast'
  BY HistoryStep, NextSplits, TodayMonotone, TypeStep, NodesFiniteStep, BirthsKnownStep,
     DaysPastStep
  DEF VerdictInv, NodeIndexes
<1>1. \A n \in DOMAIN nodes :
        /\ n \in DOMAIN nodes' /\ nodes'[n].operator = nodes[n].operator
        /\ nodes'[n].type = nodes[n].type
  BY <1>0, NextSplits, NodesKept DEF NodeRecordKept
<1>2. /\ DOMAIN bornOn' = DOMAIN nodes'
      /\ \A n \in DOMAIN nodes : bornOn'[n] = bornOn[n]
      /\ \A n \in DOMAIN nodes' : n \notin DOMAIN nodes => bornOn'[n] = Today
  BY <1>1, BirthsRecorded DEF BirthsKnown
<1>3. UNCHANGED envVars /\ Today' = Today
  <2>1. \E n \in DOMAIN nodes' : n \notin DOMAIN nodes
    BY <1>1 DEF NodesOf
  <2> QED
    BY <1>0, <2>1, NewNodeActiveToday DEF envVars, Today
<1>4. \A n \in NodesOf(op, type)' :
        /\ bornOn'[n] \in Nat /\ bornOn'[n] <= nodes'[n].lastActiveDay
        /\ nodes'[n].lastActiveDay \in Nat /\ nodes'[n].lastActiveDay <= Today
  <2>1. \A n \in DOMAIN nodes' : nodes'[n].lastActiveDay \in Nat
    BY <1>0 DEF TypeOK, IsPartial, NodeType
  <2> QED
    BY <1>0, <1>3, <2>1 DEF BirthsKnown, DaysPast, NodesOf
<1>5. CASE d = Today
  <2> DEFINE ceiling == params.SpamLimitMultiplier * licenses[op][nodeTypes[type]]
             a       == <<op, nodeTypes[type], Today, ceiling>>
  <2>1. Cardinality(RecentOf(op, type)') <= ceiling
    BY <1>0, NextSplits, EntitledStep DEF Entitled
  <2>2. Births(op, type, d)' \subseteq RecentOf(op, type)'
    BY <1>0, <1>3, <1>4, <1>5 DEF Births, RecentOf
  <2>3. IsFiniteSet(RecentOf(op, type)')
    <3>1. RecentOf(op, type)' \subseteq DOMAIN nodes'
      BY DEF RecentOf, NodesOf
    <3> QED
      BY <1>0, <3>1, FS_Subset DEF NodesFinite
  <2>4. /\ Cardinality(Births(op, type, d)') <= Cardinality(RecentOf(op, type)')
        /\ Cardinality(Births(op, type, d)') \in Nat /\ Cardinality(RecentOf(op, type)') \in Nat
    BY <2>2, <2>3, FS_Subset, FS_CardinalityType
  <2>5. ceiling \in Int
    BY HoldingType DEF VerdictInv, NodeIndexes, ValidMultipliers
  <2>6. a \in allowances
    <3>1. nodeTypes[type] \in LicenseTypeIds
      BY <1>0 DEF TypeOK, IsPartial
    <3> QED
      BY <3>1 DEF AllowancesKept, AllowancesNow
  <2> HIDE DEF ceiling
  <2>7. a[1] = op /\ a[2] = nodeTypes[type] /\ a[3] = d /\ a[4] = ceiling
    BY <1>5
  <2>8. Cardinality(Births(op, type, d)') <= ceiling
    BY <2>1, <2>4, <2>5
  <2> HIDE DEF a
  <2> QED
    BY <2>6, <2>7, <2>8
<1>6. CASE d # Today
  <2>1. d < Today
    BY <1>0, <1>4, <1>6
  <2>2. m \in NodesOf(op, type) /\ bornOn[m] = d
    BY <1>0, <1>1, <1>2, <1>6 DEF NodesOf
  <2>3. Births(op, type, d)' = Births(op, type, d)
    <3>1. \A n \in DOMAIN nodes' : n \notin DOMAIN nodes => bornOn'[n] \notin {d, d - 1}
      BY <1>0, <1>2, <2>1
    <3> QED
      BY <1>1, <1>2, <3>1 DEF Births, NodesOf
  <2> QED
    BY <2>2, <2>3 DEF BirthsAllowed
<1> QED
  BY <1>5, <1>6

LEMMA BirthsAllowedStep ==
  ASSUME VerdictInv, DaysPast, NodesReferTo, AllowancesKept, BirthsKnown, BirthsAllowed,
         [HistoryNext]_<<vars, historyVars>>
  PROVE  BirthsAllowed'
<1>0. [Next]_vars /\ TypeOK /\ allowances \subseteq allowances'
  BY HistoryStep, AllowancesStep DEF VerdictInv, NodeIndexes
<1>1. /\ \A n \in DOMAIN nodes :
           /\ n \in DOMAIN nodes' /\ nodes'[n].operator = nodes[n].operator
           /\ nodes'[n].type = nodes[n].type
      /\ \A t \in DOMAIN nodeTypes : nodeTypes'[t] = nodeTypes[t]
  BY <1>0, NextSplits, NodesKept, KeysAndTypesKept DEF NodeRecordKept, BindingKept
<1>2. \A n \in DOMAIN nodes : bornOn'[n] = bornOn[n]
  BY <1>1, BirthsRecorded DEF BirthsKnown
<1> SUFFICES ASSUME NEW op \in Operators, NEW type \in NodeTypeIds, NEW d \in Nat,
                    NEW m \in NodesOf(op, type)', bornOn'[m] = d
             PROVE  \E a \in allowances' :
                      /\ a[1] = op /\ a[2] = nodeTypes'[type] /\ a[3] = d
                      /\ Cardinality(Births(op, type, d)') <= a[4]
  BY DEF BirthsAllowed
<1>3. type \in DOMAIN nodeTypes
  <2>1. CASE m \in DOMAIN nodes
    BY <1>1, <2>1 DEF NodesOf, NodesReferTo
  <2>2. CASE m \notin DOMAIN nodes
    <3>1. NodeStep
      BY <1>0, <2>2, NextSplits, NodeSplits DEF nodeVars, NodesOf
    <3>2. CASE \E key \in KeyAddresses, o \in Operators, node \in NodeAddresses,
                  t \in NodeTypeIds : ActivateNode(key, o, node, t)
      <4>1. PICK key \in KeyAddresses, o \in Operators, node \in NodeAddresses,
                 t \in NodeTypeIds : ActivateNode(key, o, node, t)
        BY <3>2
      <4>2. DOMAIN nodes' = DOMAIN nodes \cup {node} /\ nodes'[node].type = t
        BY ONLY <1>0, <4>1, ActivationWrites
      <4>3. t \in DOMAIN nodeTypes
        BY <4>1 DEF ActivateNode
      <4> QED
        BY <2>2, <4>2, <4>3 DEF NodesOf
    <3>3. CASE \E signer \in Address, node \in NodeAddresses : DeactivateNode(signer, node)
      BY <1>0, <2>2, <3>3, DeactivationWrites DEF NodesOf
    <3>4. CASE \E node \in NodeAddresses : HeartbeatStep(node)
      BY <1>0, <2>2, <3>4, HeartbeatWrites DEF NodesOf
    <3> QED
      BY <3>1, <3>2, <3>3, <3>4 DEF NodeStep
  <2> QED
    BY <2>1, <2>2
<1>4. \E a \in allowances :
        /\ a[1] = op /\ a[2] = nodeTypes[type] /\ a[3] = d
        /\ Cardinality(Births(op, type, d)') <= a[4]
  <2>1. CASE NodesOf(op, type)' # NodesOf(op, type)
    BY <1>3, <2>1, BirthsAllowedByActivation
  <2>2. CASE NodesOf(op, type)' = NodesOf(op, type)
    <3>1. \A n \in NodesOf(op, type) : bornOn'[n] = bornOn[n]
      BY <1>2 DEF NodesOf
    <3>2. Births(op, type, d)' = Births(op, type, d)
      BY <2>2, <3>1 DEF Births
    <3>3. m \in NodesOf(op, type) /\ bornOn[m] = d
      BY <2>2, <3>1
    <3> QED
      BY <3>2, <3>3 DEF BirthsAllowed
  <2> QED
    BY <2>1, <2>2
<1> QED
  BY ONLY <1>0, <1>1, <1>3, <1>4

(* msg_server_activate_node.go, for fleets and histories of any size and   *)
(* whatever multipliers governance sets: the nodes an operator activated   *)
(* today and yesterday are at most what spam_limit_multiplier times its    *)
(* licenses came to at one moment of these days.                           *)
THEOREM ChurnStaysBounded == HistorySpec => []ChurnBounded
<1> DEFINE Bounded == AllowancesKept /\ AllowancesTyped /\ BirthsKnown /\ BirthsAllowed
<1>1. HistoryInit => Bounded
  BY AllowancesTypedInit DEF HistoryInit, Init, EmptyMap, AllowancesKept, BirthsKnown,
     BirthsAllowed, NodesOf
<1>2. RecordsInv /\ VerdictInv /\ Bounded /\ [HistoryNext]_<<vars, historyVars>> => Bounded'
  <2>1. RecordsInv => TypeOK /\ DaysPast /\ NodesReferTo
    BY DEF RecordsInv, NodeIndexes
  <2> QED
    BY <2>1, AllowancesStep, AllowancesTypedStep, BirthsKnownStep, BirthsAllowedStep
<1>3. RecordsInv /\ Bounded => ChurnBounded
  <2> SUFFICES ASSUME RecordsInv, AllowancesTyped, BirthsKnown, BirthsAllowed,
                      NEW op \in Operators, NEW type \in DOMAIN nodeTypes,
                      NEW m \in NodesOf(op, type), bornOn[m] \in {Today, Today - 1}
               PROVE  \E a \in allowances :
                        /\ a[1] = op /\ a[2] = nodeTypes[type] /\ a[3] \in {Today, Today - 1}
                        /\ Cardinality({n \in NodesOf(op, type) :
                                          bornOn[n] \in {Today, Today - 1}}) <= a[4]
    BY DEF ChurnBounded
  <2>0. Today \in Nat /\ type \in NodeTypeIds /\ bornOn[m] \in Nat
    BY DayType DEF RecordsInv, NodeIndexes, TypeOK, IsPartial, Today, BirthsKnown, NodesOf
  <2> DEFINE born == {n \in NodesOf(op, type) : bornOn[n] \in {Today, Today - 1}}
  <2>1. CASE \E n \in NodesOf(op, type) : bornOn[n] = Today
    <3>1. born = Births(op, type, Today)
      BY DEF Births
    <3>2. PICK a \in allowances :
            /\ a[1] = op /\ a[2] = nodeTypes[type] /\ a[3] = Today
            /\ Cardinality(Births(op, type, Today)) <= a[4]
      BY <2>0, <2>1 DEF BirthsAllowed
    <3> QED
      BY ONLY <3>1, <3>2
  <2>2. CASE ~ \E n \in NodesOf(op, type) : bornOn[n] = Today
    <3>1. bornOn[m] = Today - 1 /\ Today - 1 \in Nat
      BY <2>0, <2>2
    <3>2. PICK a \in allowances :
            /\ a[1] = op /\ a[2] = nodeTypes[type] /\ a[3] = Today - 1
            /\ Cardinality(Births(op, type, Today - 1)) <= a[4]
      BY <2>0, <3>1 DEF BirthsAllowed
    <3>3. born \subseteq Births(op, type, Today - 1)
      BY <2>2 DEF Births
    <3>4. IsFiniteSet(Births(op, type, Today - 1))
      <4>1. Births(op, type, Today - 1) \subseteq DOMAIN nodes
        BY DEF Births, NodesOf
      <4> QED
        BY <4>1, FS_Subset DEF RecordsInv, NodeIndexes, NodesFinite
    <3>5. /\ Cardinality(born) <= Cardinality(Births(op, type, Today - 1))
          /\ Cardinality(born) \in Nat /\ Cardinality(Births(op, type, Today - 1)) \in Nat
      BY ONLY <3>3, <3>4, FS_Subset, FS_CardinalityType
    <3>6. a[4] \in Int
      BY DEF AllowancesTyped
    <3> HIDE DEF born
    <3>7. Cardinality(born) <= a[4]
      BY ONLY <3>2, <3>5, <3>6
    <3> QED
      BY ONLY <3>2, <3>7 DEF born
  <2> QED
    BY <2>1, <2>2
<1> HIDE DEF Bounded
<1> QED
  BY <1>1, <1>2, <1>3, RecordsInvHolds, VerdictInvHolds, HistoryIsSpec, PTL DEF HistorySpec
=============================================================================
