---------------------------- MODULE LicenseProofs ----------------------------
(***************************************************************************)
(* Proofs about License and its precompile, for any number of types,       *)
(* holders and licenses and batches of any size.  The grants decide who    *)
(* may act, never what an action does to the licenses, so no theorem       *)
(* depends on them.                                                        *)
(***************************************************************************)
EXTENDS LicensePrecompile, FiniteSetTheorems, FunctionTheorems, SequenceTheorems,
        WellFoundedInduction, TLAPS

(* The license records in any surroundings: whoever edits owners and       *)
(* grants, and whoever else creates accounts, a step is one of the         *)
(* handlers of x/license or leaves the records alone.                      *)
recordVars == <<licenseTypes, licenses, licensesByType, activeLicensesByHolder, nextLicenseID>>

RecordStep == LicenseNext \/ (UNCHANGED recordVars /\ accounts \subseteq accounts')

OpenSpec == Init /\ [][RecordStep]_vars

LEMMA SpecIsOpen == Spec => OpenSpec
<1>1. [Next]_vars => [RecordStep]_vars
  BY DEF Next, RecordStep, vars, licenseVars, recordVars
<1> QED  BY <1>1, PTL DEF Spec, OpenSpec

LEMMA StepCases ==
  ASSUME [RecordStep]_vars
  PROVE  \/ UNCHANGED recordVars /\ accounts \subseteq accounts'
         \/ \E signer \in accounts, type \in LicenseTypeIds, transferrable \in BOOLEAN,
               maxSupply \in SupplyChoices :
              CreateLicenseType(signer, type, transferrable, maxSupply)
         \/ \E signer \in accounts, type \in LicenseTypeIds, transferrable \in BOOLEAN :
              UpdateLicenseType(signer, type, transferrable)
         \/ \E signer \in accounts, slots \in Batches : IssueLicenses(signer, slots)
         \/ \E signer \in accounts, holder \in Holders, type \in LicenseTypeIds,
               count \in 1 .. MaxIssued : RevokeLicenses(signer, holder, type, count)
BY DEF RecordStep, LicenseNext, vars, licenseVars, recordVars

-----------------------------------------------------------------------------
(* Batches                                                                 *)

LEMMA BatchType ==
  ASSUME NEW slots \in Batches
  PROVE  /\ Len(slots) \in Nat
         /\ DOMAIN slots = 1 .. Len(slots)
         /\ \A i \in 1 .. Len(slots) : slots[i] \in LicenseTypeIds \X Holders
<1>1. PICK n \in 1 .. MaxBatch : slots \in [1 .. n -> LicenseTypeIds \X Holders]
  BY DEF Batches
<1>2. n \in Nat
  BY LicenseBoundAssumption
<1>3. slots \in Seq(LicenseTypeIds \X Holders)
  BY <1>1, <1>2, SeqDef
<1> QED  BY <1>3, LenProperties

(* The ids of a batch are the next ones, and each has its slot.            *)
LEMMA NewIdSlots ==
  ASSUME nextLicenseID \in Nat, NEW slots \in Batches
  PROVE  /\ \A id \in NewIds(slots) :
              /\ id \in Nat /\ id >= nextLicenseID /\ id < nextLicenseID + Len(slots)
              /\ id - nextLicenseID + 1 \in DOMAIN slots
              /\ SlotOf(id, slots) \in LicenseTypeIds \X Holders
         /\ \A i \in DOMAIN slots :
              /\ nextLicenseID + i - 1 \in NewIds(slots)
              /\ SlotOf(nextLicenseID + i - 1, slots) = slots[i]
         /\ NextId(slots) \in Nat /\ NextId(slots) >= nextLicenseID
<1>1. Len(slots) \in Nat /\ DOMAIN slots = 1 .. Len(slots)
      /\ \A i \in 1 .. Len(slots) : slots[i] \in LicenseTypeIds \X Holders
  BY BatchType
<1>2. ASSUME NEW id \in NewIds(slots)
      PROVE  /\ id \in Nat /\ id >= nextLicenseID /\ id < nextLicenseID + Len(slots)
             /\ id - nextLicenseID + 1 \in 1 .. Len(slots)
  BY <1>1 DEF NewIds
<1>3. \A id \in NewIds(slots) : SlotOf(id, slots) \in LicenseTypeIds \X Holders
  BY <1>1, <1>2 DEF SlotOf
<1>4. ASSUME NEW i \in 1 .. Len(slots)
      PROVE  /\ nextLicenseID + i - 1 \in NewIds(slots)
             /\ (nextLicenseID + i - 1) - nextLicenseID + 1 = i
  BY <1>1 DEF NewIds
<1>5. \A i \in 1 .. Len(slots) : SlotOf(nextLicenseID + i - 1, slots) = slots[i]
  BY <1>4 DEF SlotOf
<1>6. NextId(slots) \in Nat /\ NextId(slots) >= nextLicenseID
  BY <1>1 DEF NextId
<1> QED  BY <1>1, <1>2, <1>3, <1>4, <1>5, <1>6

(* The licenses of one type in a batch are as many as the batch orders.    *)
NewOf(slots, type) == {id \in NewIds(slots) : SlotOf(id, slots)[1] = type}

LEMMA OrderedCounts ==
  ASSUME nextLicenseID \in Nat, NEW slots \in Batches, NEW type
  PROVE  /\ IsFiniteSet(NewOf(slots, type))
         /\ Cardinality(NewOf(slots, type)) = Ordered(slots, type)
         /\ Ordered(slots, type) \in Nat
<1> DEFINE at   == {i \in DOMAIN slots : slots[i][1] = type}
           f    == [i \in at |-> nextLicenseID + i - 1]
<1>1. /\ Len(slots) \in Nat
      /\ DOMAIN slots = 1 .. Len(slots)
  BY BatchType
<1>2. IsFiniteSet(at)
  <2>1. IsFiniteSet(1 .. Len(slots))
    BY <1>1, FS_Interval
  <2> QED  BY <1>1, <2>1, FS_Subset
<1>3. f \in Bijection(at, NewOf(slots, type))
  <2>1. \A i \in at : i \in Int /\ nextLicenseID + i - 1 \in NewOf(slots, type)
    BY <1>1, NewIdSlots DEF NewOf
  <2>2. f \in [at -> NewOf(slots, type)]
    BY <2>1
  <2>3. \A i, j \in at : f[i] = f[j] => i = j
    BY <2>1
  <2>4. ASSUME NEW id \in NewOf(slots, type) PROVE \E i \in at : f[i] = id
    <3> DEFINE i == id - nextLicenseID + 1
    <3>1. i \in DOMAIN slots /\ id \in Nat
      BY NewIdSlots DEF NewOf
    <3>2. SlotOf(id, slots) = slots[i]
      BY DEF SlotOf
    <3>3. i \in at /\ nextLicenseID + i - 1 = id
      BY <3>1, <3>2 DEF NewOf
    <3> QED  BY <3>3
  <2> QED  BY <2>2, <2>3, <2>4 DEF Bijection, Injection, Surjection, IsInjective
<1>4. ExistsBijection(at, NewOf(slots, type))
  BY <1>3 DEF ExistsBijection
<1>5. /\ IsFiniteSet(NewOf(slots, type))
      /\ Cardinality(NewOf(slots, type)) = Cardinality(at)
  BY <1>2, <1>4, FS_Bijection
<1>6. Cardinality(at) \in Nat
  BY <1>2, FS_CardinalityType
<1> QED  BY <1>5, <1>6 DEF Ordered

-----------------------------------------------------------------------------
(* Types, and the ids in use                                               *)

RecordTypes ==
  /\ DOMAIN licenseTypes \subseteq LicenseTypeIds
  /\ licenseTypes \in [DOMAIN licenseTypes -> LicenseTypeRecord]
  /\ DOMAIN licenses \subseteq Nat
  /\ licenses \in [DOMAIN licenses -> LicenseRecord]
  /\ licensesByType \subseteq LicenseTypeIds \X Nat
  /\ activeLicensesByHolder \subseteq Holders \X LicenseTypeIds \X Nat
  /\ nextLicenseID \in Nat \ {0}

IdsInRange == DOMAIN licenses \subseteq 1 .. (nextLicenseID - 1)
TypeInv    == RecordTypes /\ IdsInRange

LEMMA TypeInit == Init => TypeInv
BY LicenseGenesisAssumption
DEF Init, TypeInv, RecordTypes, IdsInRange, LicenseTypeRecord, LicenseRecord, EmptyMap,
    FirstLicenseID

(* What a batch adds to the records: its ids are fresh.                    *)
LEMMA IssueRecords ==
  ASSUME TypeInv, NEW signer, NEW slots \in Batches, IssueLicenses(signer, slots)
  PROVE  /\ DOMAIN licenses \cap NewIds(slots) = {}
         /\ DOMAIN licenses' = DOMAIN licenses \cup NewIds(slots)
         /\ \A id \in DOMAIN licenses : licenses'[id] = licenses[id]
         /\ \A id \in NewIds(slots) :
              licenses'[id] = [type |-> SlotOf(id, slots)[1], holder |-> SlotOf(id, slots)[2],
                               status |-> "active"]
<1>1. nextLicenseID \in Nat
  BY DEF TypeInv, RecordTypes
<1>2. DOMAIN licenses \cap NewIds(slots) = {}
  BY <1>1, NewIdSlots DEF TypeInv, IdsInRange
<1> QED  BY <1>2 DEF IssueLicenses, Overlay

LEMMA RevokeRecords ==
  ASSUME TypeInv, NEW signer, NEW holder, NEW type, NEW count,
         RevokeLicenses(signer, holder, type, count)
  PROVE  LET revoked == NewestActive(holder, type, count)
         IN  /\ DOMAIN licenses' = DOMAIN licenses
             /\ \A id \in DOMAIN licenses :
                  /\ licenses'[id].type = licenses[id].type
                  /\ licenses'[id].holder = licenses[id].holder
                  /\ licenses'[id].status =
                       IF id \in revoked THEN "revoked" ELSE licenses[id].status
BY DEF RevokeLicenses, TypeInv, RecordTypes, LicenseRecord

LEMMA OutstandingFinite ==
  ASSUME TypeInv, NEW type
  PROVE  /\ IsFiniteSet(OfType(type)) /\ IsFiniteSet(Outstanding(type))
         /\ Outstanding(type) \subseteq OfType(type)
         /\ Cardinality(OfType(type)) \in Nat /\ Cardinality(Outstanding(type)) \in Nat
<1>1. IsFiniteSet(1 .. (nextLicenseID - 1))
  <2>1. 1 \in Int /\ nextLicenseID - 1 \in Int
    BY DEF TypeInv, RecordTypes
  <2> HIDE DEF TypeInv
  <2> QED  BY ONLY <2>1, FS_Interval
<1>2. Outstanding(type) \subseteq OfType(type) /\ OfType(type) \subseteq 1 .. (nextLicenseID - 1)
  BY DEF TypeInv, IdsInRange, OfType, Outstanding
<1>3. IsFiniteSet(OfType(type)) /\ IsFiniteSet(Outstanding(type))
  BY <1>1, <1>2, FS_Subset
<1> QED  BY <1>2, <1>3, FS_CardinalityType

(* What RevokeLicenses takes is outstanding: the holder index lists the    *)
(* active licenses and no other, so the active counter covers the count.   *)
LEMMA RevokedOutstanding ==
  ASSUME TypeInv, IndexesExact, CountersExact, NEW signer, NEW holder, NEW type, NEW count,
         RevokeLicenses(signer, holder, type, count)
  PROVE  LET revoked == NewestActive(holder, type, count)
         IN  /\ revoked \subseteq Outstanding(type)
             /\ revoked \subseteq HeldBy(holder, type)
             /\ IsFiniteSet(revoked) /\ Cardinality(revoked) = count
             /\ count \in Nat /\ count <= licenseTypes[type].active
<1> DEFINE revoked == NewestActive(holder, type, count)
<1>1. \A id \in ActiveIds(holder, type) :
        /\ id \in DOMAIN licenses /\ licenses[id].status = "active"
        /\ licenses[id].holder = holder /\ licenses[id].type = type
  BY DEF ActiveIds, IndexesExact
<1>2. revoked \subseteq HeldBy(holder, type) /\ HeldBy(holder, type) \subseteq Outstanding(type)
  BY <1>1 DEF NewestActive, HeldBy, Outstanding, OfType
<1>3. Cardinality(revoked) = count
  BY DEF RevokeLicenses, EnoughActive
<1>4. /\ IsFiniteSet(revoked) /\ Cardinality(revoked) \in Nat
      /\ Cardinality(revoked) <= Cardinality(Outstanding(type))
  BY <1>2, OutstandingFinite, FS_Subset, FS_CardinalityType
<1>5. licenseTypes[type].active = Cardinality(Outstanding(type))
  BY DEF RevokeLicenses, CountersExact
<1> QED  BY <1>2, <1>3, <1>4, <1>5

LEMMA TypeStep == TypeInv /\ IndexesExact /\ CountersExact /\ [RecordStep]_vars => TypeInv'
<1> SUFFICES ASSUME TypeInv, IndexesExact, CountersExact, [RecordStep]_vars PROVE TypeInv'
  OBVIOUS
<1> USE DEF TypeInv, RecordTypes, IdsInRange
<1>1. CASE UNCHANGED recordVars
  BY <1>1 DEF recordVars
<1>2. ASSUME NEW signer \in accounts, NEW type \in LicenseTypeIds,
             NEW transferrable \in BOOLEAN, NEW maxSupply \in SupplyChoices,
             CreateLicenseType(signer, type, transferrable, maxSupply)
      PROVE  TypeInv'
  <2>1. maxSupply \in Nat
    BY SupplyAssumption
  <2>2. licenseTypes' \in [DOMAIN licenseTypes' -> LicenseTypeRecord]
        /\ DOMAIN licenseTypes' \subseteq LicenseTypeIds
    BY <1>2, <2>1 DEF CreateLicenseType, Overlay, LicenseTypeRecord
  <2> QED  BY <1>2, <2>2 DEF CreateLicenseType
<1>3. ASSUME NEW signer \in accounts, NEW type \in LicenseTypeIds,
             NEW transferrable \in BOOLEAN, UpdateLicenseType(signer, type, transferrable)
      PROVE  TypeInv'
  <2>1. licenseTypes' \in [DOMAIN licenseTypes -> LicenseTypeRecord]
    BY <1>3 DEF UpdateLicenseType, LicenseTypeRecord
  <2> QED  BY <1>3, <2>1 DEF UpdateLicenseType
<1>4. ASSUME NEW signer \in accounts, NEW slots \in Batches, IssueLicenses(signer, slots)
      PROVE  TypeInv'
  <2>1. nextLicenseID \in Nat /\ nextLicenseID >= 1
    OBVIOUS
  <2>2. licenseTypes' \in [DOMAIN licenseTypes -> LicenseTypeRecord]
    <3>1. ASSUME NEW t \in DOMAIN licenseTypes
          PROVE  [licenseTypes[t] EXCEPT !.issued = @ + Ordered(slots, t),
                                         !.active = @ + Ordered(slots, t)] \in LicenseTypeRecord
      <4>1. Ordered(slots, t) \in Nat
        BY <2>1, OrderedCounts
      <4>2. licenseTypes[t] \in LicenseTypeRecord
        OBVIOUS
      <4>3. /\ licenseTypes[t].issued + Ordered(slots, t) \in Nat
            /\ licenseTypes[t].active + Ordered(slots, t) \in Nat
        BY <4>1, <4>2 DEF LicenseTypeRecord
      <4> HIDE DEF TypeInv, RecordTypes
      <4> QED  BY <4>2, <4>3 DEF LicenseTypeRecord
    <3> QED  BY <1>4, <3>1 DEF IssueLicenses, TypesAfterIssue
  <2>3. /\ DOMAIN licenses' \subseteq Nat
        /\ licenses' \in [DOMAIN licenses' -> LicenseRecord]
    <3>1. \A id \in NewIds(slots) :
            licenses'[id] \in LicenseRecord
      <4> TAKE id \in NewIds(slots)
      <4>1. SlotOf(id, slots)[1] \in LicenseTypeIds /\ SlotOf(id, slots)[2] \in Holders
        BY <2>1, NewIdSlots
      <4>2. licenses'[id] = [type |-> SlotOf(id, slots)[1], holder |-> SlotOf(id, slots)[2],
                             status |-> "active"]
        BY <1>4, IssueRecords
      <4> QED  BY <4>1, <4>2 DEF LicenseRecord, Statuses
    <3>2. DOMAIN licenses' \subseteq Nat
      BY <1>4, <2>1, IssueRecords, NewIdSlots
    <3>3. licenses' = [id \in DOMAIN licenses' |-> licenses'[id]]
      BY <1>4 DEF IssueLicenses, Overlay
    <3>4. \A id \in DOMAIN licenses' : licenses'[id] \in LicenseRecord
      BY <1>4, <3>1, IssueRecords
    <3> QED  BY <3>2, <3>3, <3>4
  <2>4. IdsInRange'
    <3>1. nextLicenseID' = nextLicenseID + Len(slots) /\ Len(slots) \in Nat
      BY <1>4, BatchType DEF IssueLicenses, NextId
    <3>2. DOMAIN licenses' = DOMAIN licenses \cup NewIds(slots)
      BY <1>4, IssueRecords
    <3>3. /\ DOMAIN licenses \subseteq 1 .. (nextLicenseID - 1)
          /\ NewIds(slots) \subseteq 1 .. (nextLicenseID + Len(slots) - 1)
      BY <2>1, <3>1 DEF NewIds
    <3> QED  BY <2>1, <3>1, <3>2, <3>3
  <2>5. /\ licensesByType' \subseteq LicenseTypeIds \X Nat
        /\ activeLicensesByHolder' \subseteq Holders \X LicenseTypeIds \X Nat
    BY <1>4, <2>1, NewIdSlots DEF IssueLicenses
  <2>6. nextLicenseID' \in Nat \ {0}
    BY <1>4, <2>1, NewIdSlots DEF IssueLicenses
  <2>7. DOMAIN licenseTypes' \subseteq LicenseTypeIds
    BY <2>2
  <2> QED  BY <2>2, <2>3, <2>4, <2>5, <2>6, <2>7
<1>5. ASSUME NEW signer \in accounts, NEW holder \in Holders, NEW type \in LicenseTypeIds,
             NEW count \in 1 .. MaxIssued, RevokeLicenses(signer, holder, type, count)
      PROVE  TypeInv'
  <2>1. licenses' \in [DOMAIN licenses -> LicenseRecord]
    BY <1>5 DEF RevokeLicenses, LicenseRecord, Statuses
  <2>2. /\ licenseTypes[type] \in LicenseTypeRecord
        /\ licenseTypes[type].active - count \in Nat
        /\ licenseTypes[type].revoked + count \in Nat
    <3>1. licenseTypes[type] \in LicenseTypeRecord
      BY <1>5 DEF RevokeLicenses
    <3>2. count \in Nat /\ count <= licenseTypes[type].active
      BY <1>5, RevokedOutstanding
    <3> HIDE DEF TypeInv, RecordTypes
    <3> QED  BY <3>1, <3>2 DEF LicenseTypeRecord
  <2>3. licenseTypes' \in [DOMAIN licenseTypes -> LicenseTypeRecord]
    <3>1. [licenseTypes[type] EXCEPT !.active = @ - count, !.revoked = @ + count]
            \in LicenseTypeRecord
      BY <2>2 DEF LicenseTypeRecord
    <3> QED  BY <1>5, <3>1 DEF RevokeLicenses
  <2> QED  BY <1>5, <2>1, <2>3 DEF RevokeLicenses
<1> QED  BY <1>1, <1>2, <1>3, <1>4, <1>5, StepCases

-----------------------------------------------------------------------------
(* Counters and indexes                                                    *)

LicenseInv == TypeInv /\ LicensesReimportable

LEMMA InvInit == Init => LicenseInv
<1> SUFFICES ASSUME Init PROVE LicensesReimportable
  BY TypeInit DEF LicenseInv
<1>1. \A t : OfType(t) = {} /\ Outstanding(t) = {}
  BY DEF Init, EmptyMap, OfType, Outstanding
<1>2. Cardinality({}) = 0
  BY FS_EmptySet
<1>3. TypesExist /\ IdsPast /\ IndexesExact
  BY DEF Init, EmptyMap, FirstLicenseID, TypesExist, IdsPast, IndexesExact
<1>4. ASSUME NEW t \in DOMAIN licenseTypes
      PROVE  /\ licenseTypes[t].active = 0 /\ licenseTypes[t].revoked = 0
             /\ licenseTypes[t].issued = 0
             /\ Cardinality(Outstanding(t)) = 0
             /\ Cardinality(OfType(t) \ Outstanding(t)) = 0
  BY <1>1, <1>2 DEF Init
<1> QED  BY <1>3, <1>4 DEF LicensesReimportable, CountersExact

(* A batch moves every count of the ground truth by what it orders.        *)
LEMMA IssueCounts ==
  ASSUME TypeInv, NEW signer, NEW slots \in Batches, IssueLicenses(signer, slots), NEW t
  PROVE  /\ Ordered(slots, t) \in Nat
         /\ Cardinality(Outstanding(t))' = Cardinality(Outstanding(t)) + Ordered(slots, t)
         /\ (OfType(t) \ Outstanding(t))' = OfType(t) \ Outstanding(t)
<1>1. nextLicenseID \in Nat
  BY DEF TypeInv, RecordTypes
<1>2. /\ OfType(t)' = OfType(t) \cup NewOf(slots, t)
      /\ Outstanding(t)' = Outstanding(t) \cup NewOf(slots, t)
      /\ OfType(t) \cap NewOf(slots, t) = {}
  <2>1. \A id \in NewIds(slots) : /\ licenses'[id].type = SlotOf(id, slots)[1]
                                  /\ licenses'[id].status = "active"
    <3> TAKE id \in NewIds(slots)
    <3>1. licenses'[id] = [type |-> SlotOf(id, slots)[1], holder |-> SlotOf(id, slots)[2],
                           status |-> "active"]
      BY IssueRecords
    <3> QED  BY ONLY <3>1
  <2>2. /\ DOMAIN licenses \cap NewIds(slots) = {}
        /\ DOMAIN licenses' = DOMAIN licenses \cup NewIds(slots)
        /\ \A id \in DOMAIN licenses : licenses'[id] = licenses[id]
    BY IssueRecords
  <2>3. OfType(t)' = OfType(t) \cup NewOf(slots, t)
    BY <2>1, <2>2 DEF OfType, NewOf
  <2>4. Outstanding(t)' = Outstanding(t) \cup NewOf(slots, t)
    BY <2>1, <2>2 DEF OfType, Outstanding, NewOf
  <2>5. OfType(t) \cap NewOf(slots, t) = {}
    BY <2>2 DEF OfType, NewOf
  <2> QED  BY <2>3, <2>4, <2>5
<1>3. Outstanding(t) \cap NewOf(slots, t) = {}
  BY <1>2, OutstandingFinite
<1>4. /\ IsFiniteSet(Outstanding(t)) /\ Cardinality(Outstanding(t)) \in Nat
      /\ IsFiniteSet(NewOf(slots, t))
      /\ Cardinality(NewOf(slots, t)) = Ordered(slots, t)
      /\ Ordered(slots, t) \in Nat
  BY <1>1, OutstandingFinite, OrderedCounts
<1>5. Cardinality(Outstanding(t) \cup NewOf(slots, t))
        = Cardinality(Outstanding(t)) + Cardinality(NewOf(slots, t)) - Cardinality({})
  BY <1>3, <1>4, FS_Union
<1>6. Cardinality({}) = 0
  BY FS_EmptySet
<1> QED  BY <1>2, <1>4, <1>5, <1>6

(* A revocation moves `count` licenses of its type from active to revoked. *)
LEMMA RevokeCounts ==
  ASSUME TypeInv, IndexesExact, CountersExact, NEW signer, NEW holder, NEW type, NEW count,
         RevokeLicenses(signer, holder, type, count), NEW t
  PROVE  LET moved == IF t = type THEN count ELSE 0
         IN  /\ Cardinality(Outstanding(t))' = Cardinality(Outstanding(t)) - moved
             /\ Cardinality(OfType(t) \ Outstanding(t))'
                  = Cardinality(OfType(t) \ Outstanding(t)) + moved
<1> DEFINE revoked == NewestActive(holder, type, count)
           gone    == OfType(t) \ Outstanding(t)
<1>1. /\ revoked \subseteq Outstanding(type)
      /\ IsFiniteSet(revoked) /\ Cardinality(revoked) = count
      /\ count \in Nat
  BY RevokedOutstanding
<1>2. /\ DOMAIN licenses' = DOMAIN licenses
      /\ \A id \in DOMAIN licenses :
           /\ licenses'[id].type = licenses[id].type
           /\ licenses'[id].status = IF id \in revoked THEN "revoked" ELSE licenses[id].status
  BY RevokeRecords
<1> HIDE DEF revoked
<1>3. OfType(t)' = OfType(t)
  BY <1>2 DEF OfType
<1>4. Outstanding(t)' = Outstanding(t) \ revoked
  BY <1>2 DEF Outstanding, OfType
<1>5. IsFiniteSet(Outstanding(t)) /\ IsFiniteSet(gone)
      /\ Cardinality(Outstanding(t)) \in Nat /\ Cardinality(gone) \in Nat
  BY OutstandingFinite, FS_Difference, FS_CardinalityType
<1>6. CASE t = type
  <2>1. Outstanding(t) \cap revoked = revoked
    BY <1>1, <1>6
  <2>2. Cardinality(Outstanding(t) \ revoked) = Cardinality(Outstanding(t)) - count
    BY <1>1, <1>5, <2>1, FS_Difference
  <2>3. (OfType(t) \ Outstanding(t))' = gone \cup revoked
    BY <1>1, <1>3, <1>4, <1>6, OutstandingFinite
  <2>4. gone \cap revoked = {}
    BY <1>1, <1>6
  <2>5. Cardinality(gone \cup revoked) = Cardinality(gone) + count - Cardinality({})
    BY <1>1, <1>5, <2>4, FS_Union
  <2>6. Cardinality({}) = 0
    BY FS_EmptySet
  <2>7. Cardinality(Outstanding(t))' = Cardinality(Outstanding(t)) - count
    BY <1>4, <2>2
  <2>8. Cardinality(OfType(t) \ Outstanding(t))' = Cardinality(gone) + count
    <3>1. Cardinality(OfType(t) \ Outstanding(t))' = Cardinality(gone \cup revoked)
      BY <2>3
    <3> HIDE DEF gone
    <3> QED  BY <1>1, <1>5, <2>5, <2>6, <3>1
  <2> QED  BY <1>6, <2>7, <2>8
<1>7. CASE t # type
  <2>1. Outstanding(t) \cap revoked = {}
    BY <1>1, <1>7 DEF Outstanding, OfType
  <2>2. Outstanding(t)' = Outstanding(t)
    BY <1>4, <2>1
  <2> QED  BY <1>3, <1>5, <1>7, <2>2
<1> QED  BY <1>6, <1>7

LEMMA CountersStep ==
  ASSUME LicenseInv, [RecordStep]_vars PROVE CountersExact'
<1> USE DEF LicenseInv, LicensesReimportable
<1>1. CASE UNCHANGED recordVars
  BY <1>1 DEF recordVars, CountersExact, OfType, Outstanding
<1>2. ASSUME NEW signer \in accounts, NEW type \in LicenseTypeIds,
             NEW transferrable \in BOOLEAN, NEW maxSupply \in SupplyChoices,
             CreateLicenseType(signer, type, transferrable, maxSupply)
      PROVE  CountersExact'
  <2>1. \A t : OfType(t)' = OfType(t) /\ Outstanding(t)' = Outstanding(t)
    BY <1>2 DEF CreateLicenseType, OfType, Outstanding
  <2>2. OfType(type) = {} /\ Outstanding(type) = {}
    BY <1>2 DEF CreateLicenseType, TypeFree, TypesExist, OfType, Outstanding
  <2>3. /\ DOMAIN licenseTypes' = DOMAIN licenseTypes \cup {type}
        /\ \A t \in DOMAIN licenseTypes : licenseTypes'[t] = licenseTypes[t]
        /\ licenseTypes'[type].active = 0 /\ licenseTypes'[type].revoked = 0
        /\ licenseTypes'[type].issued = 0
    BY <1>2 DEF CreateLicenseType, TypeFree, Overlay
  <2>4. Cardinality({}) = 0
    BY FS_EmptySet
  <2>5. Cardinality(Outstanding(type)) = 0 /\ Cardinality(OfType(type) \ Outstanding(type)) = 0
    BY <2>2, <2>4
  <2> QED  BY <2>1, <2>3, <2>5 DEF CountersExact
<1>3. ASSUME NEW signer \in accounts, NEW type \in LicenseTypeIds,
             NEW transferrable \in BOOLEAN, UpdateLicenseType(signer, type, transferrable)
      PROVE  CountersExact'
  <2>1. \A t : OfType(t)' = OfType(t) /\ Outstanding(t)' = Outstanding(t)
    BY <1>3 DEF UpdateLicenseType, OfType, Outstanding
  <2>2. /\ DOMAIN licenseTypes' = DOMAIN licenseTypes
        /\ \A t \in DOMAIN licenseTypes :
             /\ licenseTypes'[t].active = licenseTypes[t].active
             /\ licenseTypes'[t].revoked = licenseTypes[t].revoked
             /\ licenseTypes'[t].issued = licenseTypes[t].issued
    BY <1>3 DEF UpdateLicenseType, TypeInv, RecordTypes, LicenseTypeRecord
  <2> QED  BY <2>1, <2>2 DEF CountersExact
<1>4. ASSUME NEW t \in DOMAIN licenseTypes
      PROVE  /\ licenseTypes[t].active \in Nat /\ licenseTypes[t].revoked \in Nat
             /\ licenseTypes[t].active = Cardinality(Outstanding(t))
             /\ licenseTypes[t].revoked = Cardinality(OfType(t) \ Outstanding(t))
             /\ licenseTypes[t].issued = licenseTypes[t].active + licenseTypes[t].revoked
  BY DEF CountersExact, TypeInv, RecordTypes, LicenseTypeRecord
<1>5. ASSUME NEW signer \in accounts, NEW slots \in Batches, IssueLicenses(signer, slots)
      PROVE  CountersExact'
  <2>1. DOMAIN licenseTypes' = DOMAIN licenseTypes
    BY <1>5 DEF IssueLicenses, TypesAfterIssue
  <2>2. ASSUME NEW t \in DOMAIN licenseTypes
        PROVE  /\ licenseTypes'[t].active = Cardinality(Outstanding(t))'
               /\ licenseTypes'[t].revoked = Cardinality(OfType(t) \ Outstanding(t))'
               /\ licenseTypes'[t].issued = licenseTypes'[t].active + licenseTypes'[t].revoked
    <3>1. /\ licenseTypes'[t].active = licenseTypes[t].active + Ordered(slots, t)
          /\ licenseTypes'[t].revoked = licenseTypes[t].revoked
          /\ licenseTypes'[t].issued = licenseTypes[t].issued + Ordered(slots, t)
      BY <1>5 DEF IssueLicenses, TypesAfterIssue, TypeInv, RecordTypes, LicenseTypeRecord
    <3>2. /\ Ordered(slots, t) \in Nat
          /\ Cardinality(Outstanding(t))' = Cardinality(Outstanding(t)) + Ordered(slots, t)
      BY <1>5, IssueCounts
    <3>3. Cardinality(OfType(t) \ Outstanding(t))' = Cardinality(OfType(t) \ Outstanding(t))
      BY <1>5, IssueCounts
    <3> HIDE DEF LicenseInv, LicensesReimportable
    <3>4. /\ licenseTypes'[t].active = Cardinality(Outstanding(t))'
          /\ licenseTypes'[t].revoked = Cardinality(OfType(t) \ Outstanding(t))'
      BY <1>4, <3>1, <3>2, <3>3
    <3>5. licenseTypes'[t].issued = licenseTypes'[t].active + licenseTypes'[t].revoked
      <4>1. licenseTypes[t].issued + Ordered(slots, t)
              = (licenseTypes[t].active + Ordered(slots, t)) + licenseTypes[t].revoked
        <5>1. /\ licenseTypes[t].active \in Nat /\ licenseTypes[t].revoked \in Nat
              /\ licenseTypes[t].issued = licenseTypes[t].active + licenseTypes[t].revoked
              /\ Ordered(slots, t) \in Nat
          BY <1>4, <3>2
        <5> QED  BY ONLY <5>1
      <4> QED  BY ONLY <3>1, <4>1
    <3> QED  BY <3>4, <3>5
  <2> QED  BY <2>1, <2>2 DEF CountersExact
<1>6. ASSUME NEW signer \in accounts, NEW holder \in Holders, NEW type \in LicenseTypeIds,
             NEW count \in 1 .. MaxIssued, RevokeLicenses(signer, holder, type, count)
      PROVE  CountersExact'
  <2>1. DOMAIN licenseTypes' = DOMAIN licenseTypes
    BY <1>6 DEF RevokeLicenses
  <2>2. ASSUME NEW t \in DOMAIN licenseTypes
        PROVE  /\ licenseTypes'[t].active = Cardinality(Outstanding(t))'
               /\ licenseTypes'[t].revoked = Cardinality(OfType(t) \ Outstanding(t))'
               /\ licenseTypes'[t].issued = licenseTypes'[t].active + licenseTypes'[t].revoked
    <3> DEFINE moved == IF t = type THEN count ELSE 0
    <3>1. /\ licenseTypes'[t].active = licenseTypes[t].active - moved
          /\ licenseTypes'[t].revoked = licenseTypes[t].revoked + moved
          /\ licenseTypes'[t].issued = licenseTypes[t].issued
      <4>1. CASE t = type
        BY <1>6, <4>1 DEF RevokeLicenses, TypeInv, RecordTypes, LicenseTypeRecord
      <4>2. CASE t # type
        <5>1. licenseTypes'[t] = licenseTypes[t] /\ moved = 0
          BY <1>6, <4>2 DEF RevokeLicenses
        <5>2. licenseTypes[t].active \in Nat /\ licenseTypes[t].revoked \in Nat
          BY <1>4
        <5> QED  BY ONLY <5>1, <5>2
      <4> QED  BY <4>1, <4>2
    <3>2. /\ Cardinality(Outstanding(t))' = Cardinality(Outstanding(t)) - moved
          /\ Cardinality(OfType(t) \ Outstanding(t))'
               = Cardinality(OfType(t) \ Outstanding(t)) + moved
      BY <1>6, RevokeCounts
    <3>3. moved \in Nat
      BY <1>6, LicenseBoundAssumption
    <3> HIDE DEF moved, LicenseInv, LicensesReimportable
    <3>4. /\ licenseTypes'[t].active = Cardinality(Outstanding(t))'
          /\ licenseTypes'[t].revoked = Cardinality(OfType(t) \ Outstanding(t))'
      BY <1>4, <3>1, <3>2
    <3>5. licenseTypes'[t].issued = licenseTypes'[t].active + licenseTypes'[t].revoked
      <4>1. licenseTypes[t].issued
              = (licenseTypes[t].active - moved) + (licenseTypes[t].revoked + moved)
        <5>1. /\ licenseTypes[t].active \in Nat /\ licenseTypes[t].revoked \in Nat
              /\ licenseTypes[t].issued = licenseTypes[t].active + licenseTypes[t].revoked
              /\ moved \in Nat
          BY <1>4, <3>3
        <5> QED  BY ONLY <5>1
      <4> QED  BY ONLY <3>1, <4>1
    <3> QED  BY <3>4, <3>5
  <2> QED  BY <2>1, <2>2 DEF CountersExact
<1> QED  BY <1>1, <1>2, <1>3, <1>5, <1>6, StepCases

LEMMA IndexesStep ==
  ASSUME LicenseInv, [RecordStep]_vars PROVE TypesExist' /\ IndexesExact'
<1> USE DEF LicenseInv, LicensesReimportable
<1>1. CASE UNCHANGED recordVars
  BY <1>1 DEF recordVars, TypesExist, IndexesExact
<1>2. ASSUME NEW signer \in accounts, NEW type \in LicenseTypeIds,
             NEW transferrable \in BOOLEAN, NEW maxSupply \in SupplyChoices,
             CreateLicenseType(signer, type, transferrable, maxSupply)
      PROVE  TypesExist' /\ IndexesExact'
  BY <1>2 DEF CreateLicenseType, Overlay, TypesExist, IndexesExact
<1>3. ASSUME NEW signer \in accounts, NEW type \in LicenseTypeIds,
             NEW transferrable \in BOOLEAN, UpdateLicenseType(signer, type, transferrable)
      PROVE  TypesExist' /\ IndexesExact'
  BY <1>3 DEF UpdateLicenseType, TypesExist, IndexesExact
<1>4. ASSUME NEW signer \in accounts, NEW slots \in Batches, IssueLicenses(signer, slots)
      PROVE  TypesExist' /\ IndexesExact'
  <2>1. /\ DOMAIN licenses \cap NewIds(slots) = {}
        /\ DOMAIN licenses' = DOMAIN licenses \cup NewIds(slots)
        /\ \A id \in DOMAIN licenses : licenses'[id] = licenses[id]
    BY <1>4, IssueRecords
  <2>2. ASSUME NEW id \in NewIds(slots)
        PROVE  /\ licenses'[id].type = SlotOf(id, slots)[1]
               /\ licenses'[id].holder = SlotOf(id, slots)[2]
               /\ licenses'[id].status = "active"
    <3>1. licenses'[id] = [type |-> SlotOf(id, slots)[1], holder |-> SlotOf(id, slots)[2],
                           status |-> "active"]
      BY <1>4, IssueRecords
    <3> QED  BY ONLY <3>1
  <2>3. \A id \in NewIds(slots) : SlotOf(id, slots)[1] \in DOMAIN licenseTypes
    <3>1. nextLicenseID \in Nat
      BY DEF TypeInv, RecordTypes
    <3>2. \A id \in NewIds(slots) : id - nextLicenseID + 1 \in DOMAIN slots
      BY <3>1, NewIdSlots
    <3> QED  BY <1>4, <3>2 DEF IssueLicenses, SlotOf
  <2>4. DOMAIN licenseTypes' = DOMAIN licenseTypes
    BY <1>4 DEF IssueLicenses, TypesAfterIssue
  <2>5. TypesExist'
    BY <2>1, <2>2, <2>3, <2>4 DEF TypesExist
  <2>6. licensesByType' = {<<licenses'[id].type, id>> : id \in DOMAIN licenses'}
    <3>1. licensesByType' =
            licensesByType \cup {<<SlotOf(id, slots)[1], id>> : id \in NewIds(slots)}
      BY <1>4 DEF IssueLicenses
    <3>2. licensesByType = {<<licenses[id].type, id>> : id \in DOMAIN licenses}
      BY DEF IndexesExact
    <3> QED  BY <2>1, <2>2, <3>1, <3>2
  <2>7. activeLicensesByHolder' =
          {<<licenses'[id].holder, licenses'[id].type, id>> :
             id \in {x \in DOMAIN licenses' : licenses'[x].status = "active"}}
    <3>1. activeLicensesByHolder' = activeLicensesByHolder
            \cup {<<SlotOf(id, slots)[2], SlotOf(id, slots)[1], id>> : id \in NewIds(slots)}
      BY <1>4 DEF IssueLicenses
    <3>2. activeLicensesByHolder =
            {<<licenses[id].holder, licenses[id].type, id>> :
               id \in {x \in DOMAIN licenses : licenses[x].status = "active"}}
      BY DEF IndexesExact
    <3> QED  BY <2>1, <2>2, <3>1, <3>2
  <2> QED  BY <2>5, <2>6, <2>7 DEF IndexesExact
<1>5. ASSUME NEW signer \in accounts, NEW holder \in Holders, NEW type \in LicenseTypeIds,
             NEW count \in 1 .. MaxIssued, RevokeLicenses(signer, holder, type, count)
      PROVE  TypesExist' /\ IndexesExact'
  <2> DEFINE revoked == NewestActive(holder, type, count)
  <2>1. /\ DOMAIN licenses' = DOMAIN licenses
        /\ \A id \in DOMAIN licenses :
             /\ licenses'[id].type = licenses[id].type
             /\ licenses'[id].holder = licenses[id].holder
             /\ licenses'[id].status = IF id \in revoked THEN "revoked" ELSE licenses[id].status
    BY <1>5, RevokeRecords
  <2>2. \A id \in revoked : /\ id \in DOMAIN licenses /\ licenses[id].status = "active"
                            /\ licenses[id].holder = holder /\ licenses[id].type = type
    BY <1>5, RevokedOutstanding DEF HeldBy, Outstanding, OfType
  <2>3. /\ DOMAIN licenseTypes' = DOMAIN licenseTypes
        /\ licensesByType' = licensesByType
        /\ activeLicensesByHolder' =
             activeLicensesByHolder \ {<<holder, type, id>> : id \in revoked}
    BY <1>5 DEF RevokeLicenses
  <2> HIDE DEF revoked
  <2>4. TypesExist'
    BY <2>1, <2>3 DEF TypesExist
  <2>5. licensesByType' = {<<licenses'[id].type, id>> : id \in DOMAIN licenses'}
    BY <2>1, <2>3 DEF IndexesExact
  <2>6. activeLicensesByHolder' =
          {<<licenses'[id].holder, licenses'[id].type, id>> :
             id \in {x \in DOMAIN licenses' : licenses'[x].status = "active"}}
    <3>1. activeLicensesByHolder =
            {<<licenses[id].holder, licenses[id].type, id>> :
               id \in {x \in DOMAIN licenses : licenses[x].status = "active"}}
      BY DEF IndexesExact
    <3>2. {x \in DOMAIN licenses' : licenses'[x].status = "active"}
            = {x \in DOMAIN licenses : licenses[x].status = "active"} \ revoked
      BY <2>1, <2>2
    <3> QED  BY <2>1, <2>2, <2>3, <3>1, <3>2
  <2> QED  BY <2>4, <2>5, <2>6 DEF IndexesExact
<1> QED  BY <1>1, <1>2, <1>3, <1>4, <1>5, StepCases

LEMMA InvStep == LicenseInv /\ [RecordStep]_vars => LicenseInv'
<1> SUFFICES ASSUME LicenseInv, [RecordStep]_vars PROVE LicenseInv'
  OBVIOUS
<1>1. TypeInv'
  BY TypeStep DEF LicenseInv, LicensesReimportable
<1>2. IdsPast'
  BY <1>1 DEF TypeInv, RecordTypes, IdsInRange, IdsPast, FirstLicenseID
<1> QED  BY <1>1, <1>2, CountersStep, IndexesStep DEF LicenseInv, LicensesReimportable

LEMMA InvAlways == OpenSpec => []LicenseInv
BY InvInit, InvStep, PTL DEF OpenSpec

(* An export of any reachable state re-imports: the counters of every type *)
(* agree with its licenses, the sequence is past every id in use, and the  *)
(* holder index, which x/network counts, lists the active licenses.        *)
THEOREM AlwaysReimportable == Spec => []LicensesReimportable
<1>1. LicenseInv => LicensesReimportable
  BY DEF LicenseInv
<1> QED  BY <1>1, InvAlways, SpecIsOpen, PTL

-----------------------------------------------------------------------------
(* What the rest of the chain relies on                                    *)

Caps == \A t \in DOMAIN licenseTypes :
          licenseTypes[t].maxSupply # 0 => licenseTypes[t].active <= licenseTypes[t].maxSupply

LEMMA CapsStep == LicenseInv /\ Caps /\ [RecordStep]_vars => Caps'
<1> SUFFICES ASSUME LicenseInv, Caps, [RecordStep]_vars PROVE Caps'
  OBVIOUS
<1>1. TypeInv /\ IndexesExact /\ CountersExact
  BY DEF LicenseInv, LicensesReimportable
<1>2. CASE UNCHANGED recordVars
  BY <1>2 DEF recordVars, Caps
<1>3. ASSUME NEW signer \in accounts, NEW type \in LicenseTypeIds,
             NEW transferrable \in BOOLEAN, NEW maxSupply \in SupplyChoices,
             CreateLicenseType(signer, type, transferrable, maxSupply)
      PROVE  Caps'
  <2>1. maxSupply \in Nat
    BY SupplyAssumption
  <2> QED  BY <1>3, <2>1 DEF CreateLicenseType, TypeFree, Overlay, Caps
<1>4. ASSUME NEW signer \in accounts, NEW type \in LicenseTypeIds,
             NEW transferrable \in BOOLEAN, UpdateLicenseType(signer, type, transferrable)
      PROVE  Caps'
  <2>1. \A t \in DOMAIN licenseTypes :
          /\ licenseTypes'[t].active = licenseTypes[t].active
          /\ licenseTypes'[t].maxSupply = licenseTypes[t].maxSupply
    BY <1>1, <1>4 DEF UpdateLicenseType, TypeInv, RecordTypes, LicenseTypeRecord
  <2> QED  BY <1>4, <2>1 DEF UpdateLicenseType, Caps
<1>5. ASSUME NEW signer \in accounts, NEW slots \in Batches, IssueLicenses(signer, slots)
      PROVE  Caps'
  <2>1. DOMAIN licenseTypes' = DOMAIN licenseTypes
    BY <1>5 DEF IssueLicenses, TypesAfterIssue
  <2>2. ASSUME NEW t \in DOMAIN licenseTypes, licenseTypes[t].maxSupply # 0
        PROVE  /\ licenseTypes'[t].maxSupply = licenseTypes[t].maxSupply
               /\ licenseTypes'[t].active <= licenseTypes[t].maxSupply
    <3>1. /\ licenseTypes'[t].maxSupply = licenseTypes[t].maxSupply
          /\ licenseTypes'[t].active = licenseTypes[t].active + Ordered(slots, t)
      BY <1>1, <1>5 DEF IssueLicenses, TypesAfterIssue, TypeInv, RecordTypes, LicenseTypeRecord
    <3>2. CASE \E j \in DOMAIN slots : slots[j][1] = t
      BY <1>5, <2>2, <3>1, <3>2 DEF IssueLicenses, WithinSupply
    <3>3. CASE ~ \E j \in DOMAIN slots : slots[j][1] = t
      <4>1. {j \in DOMAIN slots : slots[j][1] = t} = {}
        BY <3>3
      <4>2. Ordered(slots, t) = 0
        BY <4>1, FS_EmptySet DEF Ordered
      <4>3. licenseTypes[t].active \in Nat /\ licenseTypes[t].active <= licenseTypes[t].maxSupply
        BY <1>1, <2>2 DEF Caps, TypeInv, RecordTypes, LicenseTypeRecord
      <4> QED  BY ONLY <3>1, <4>2, <4>3
    <3> QED  BY <3>1, <3>2, <3>3
  <2>3. ASSUME NEW t \in DOMAIN licenseTypes
        PROVE  licenseTypes'[t].maxSupply = licenseTypes[t].maxSupply
    BY <1>1, <1>5 DEF IssueLicenses, TypesAfterIssue, TypeInv, RecordTypes, LicenseTypeRecord
  <2> QED  BY <2>1, <2>2, <2>3 DEF Caps
<1>6. ASSUME NEW signer \in accounts, NEW holder \in Holders, NEW type \in LicenseTypeIds,
             NEW count \in 1 .. MaxIssued, RevokeLicenses(signer, holder, type, count)
      PROVE  Caps'
  <2>1. DOMAIN licenseTypes' = DOMAIN licenseTypes
    BY <1>6 DEF RevokeLicenses
  <2>2. ASSUME NEW t \in DOMAIN licenseTypes
        PROVE  /\ licenseTypes'[t].maxSupply = licenseTypes[t].maxSupply
               /\ licenseTypes'[t].active <= licenseTypes[t].active
               /\ licenseTypes'[t].active \in Int
    <3>1. licenseTypes[t].active \in Nat /\ count \in Nat
      BY <1>1, LicenseBoundAssumption DEF TypeInv, RecordTypes, LicenseTypeRecord
    <3>2. CASE t = type
      <4>1. /\ licenseTypes'[t].maxSupply = licenseTypes[t].maxSupply
            /\ licenseTypes'[t].active = licenseTypes[t].active - count
        BY <1>1, <1>6, <3>2 DEF RevokeLicenses, TypeInv, RecordTypes, LicenseTypeRecord
      <4> QED  BY ONLY <3>1, <4>1
    <3>3. CASE t # type
      <4>1. licenseTypes'[t] = licenseTypes[t]
        BY <1>6, <3>3 DEF RevokeLicenses
      <4> QED  BY ONLY <3>1, <4>1
    <3> QED  BY <3>2, <3>3
  <2>3. \A t \in DOMAIN licenseTypes :
          licenseTypes[t].active \in Nat /\ licenseTypes[t].maxSupply \in Nat
    BY <1>1 DEF TypeInv, RecordTypes, LicenseTypeRecord
  <2> QED  BY <2>1, <2>2, <2>3 DEF Caps
<1> QED  BY <1>2, <1>3, <1>4, <1>5, <1>6, StepCases

LEMMA OpenSupply == OpenSpec => []SupplyRespected
<1>1. Init => Caps
  <2> SUFFICES ASSUME Init, NEW t \in DOMAIN licenseTypes PROVE 0 <= licenseTypes[t].maxSupply
                                                               /\ licenseTypes[t].active = 0
    BY DEF Caps
  <2> QED  BY LicenseGenesisAssumption DEF Init
<1>2. LicenseInv /\ Caps => SupplyRespected
  BY DEF LicenseInv, LicensesReimportable, CountersExact, Caps, SupplyRespected
<1> QED  BY <1>1, <1>2, CapsStep, InvAlways, PTL DEF OpenSpec

(* max_supply bounds the licenses outstanding, however batches repeat a    *)
(* type and licenses are revoked and reissued.                             *)
THEOREM SupplyAlwaysRespected == Spec => []SupplyRespected
BY OpenSupply, SpecIsOpen, PTL

LEMMA OpenPermanent == OpenSpec => LicensesArePermanent
<1> DEFINE Permanent ==
      /\ \A id \in DOMAIN licenses :
           /\ id \in DOMAIN licenses'
           /\ licenses'[id].type = licenses[id].type
           /\ licenses'[id].holder = licenses[id].holder
           /\ licenses[id].status = "revoked" => licenses'[id].status = "revoked"
      /\ \A t \in DOMAIN licenseTypes :
           /\ t \in DOMAIN licenseTypes'
           /\ licenseTypes'[t].maxSupply = licenseTypes[t].maxSupply
           /\ licenseTypes'[t].issued >= licenseTypes[t].issued
<1>1. ASSUME LicenseInv, [RecordStep]_vars PROVE Permanent
  <2>1. TypeInv /\ \A t \in DOMAIN licenseTypes : licenseTypes[t].issued \in Nat
    BY <1>1 DEF LicenseInv, TypeInv, RecordTypes, LicenseTypeRecord
  <2>2. CASE UNCHANGED recordVars
    BY <2>1, <2>2 DEF recordVars
  <2>3. ASSUME NEW signer \in accounts, NEW type \in LicenseTypeIds,
               NEW transferrable \in BOOLEAN, NEW maxSupply \in SupplyChoices,
               CreateLicenseType(signer, type, transferrable, maxSupply)
        PROVE  Permanent
    BY <2>1, <2>3 DEF CreateLicenseType, TypeFree, Overlay
  <2>4. ASSUME NEW signer \in accounts, NEW type \in LicenseTypeIds,
               NEW transferrable \in BOOLEAN, UpdateLicenseType(signer, type, transferrable)
        PROVE  Permanent
    <3>1. \A t \in DOMAIN licenseTypes :
            /\ licenseTypes'[t].issued = licenseTypes[t].issued
            /\ licenseTypes'[t].maxSupply = licenseTypes[t].maxSupply
      BY <2>1, <2>4 DEF UpdateLicenseType, TypeInv, RecordTypes, LicenseTypeRecord
    <3> QED  BY <2>1, <2>4, <3>1 DEF UpdateLicenseType
  <2>5. ASSUME NEW signer \in accounts, NEW slots \in Batches, IssueLicenses(signer, slots)
        PROVE  Permanent
    <3>1. ASSUME NEW t \in DOMAIN licenseTypes
          PROVE  /\ licenseTypes'[t].maxSupply = licenseTypes[t].maxSupply
                 /\ licenseTypes'[t].issued >= licenseTypes[t].issued
      <4>1. /\ licenseTypes'[t].maxSupply = licenseTypes[t].maxSupply
            /\ licenseTypes'[t].issued = licenseTypes[t].issued + Ordered(slots, t)
        BY <2>1, <2>5
           DEF IssueLicenses, TypesAfterIssue, TypeInv, RecordTypes, LicenseTypeRecord
      <4>2. Ordered(slots, t) \in Nat
        BY <2>1, <2>5, IssueCounts
      <4> QED  BY <2>1, <4>1, <4>2
    <3> QED  BY <2>1, <2>5, <3>1, IssueRecords DEF IssueLicenses, TypesAfterIssue
  <2>6. ASSUME NEW signer \in accounts, NEW holder \in Holders, NEW type \in LicenseTypeIds,
               NEW count \in 1 .. MaxIssued, RevokeLicenses(signer, holder, type, count)
        PROVE  Permanent
    <3>1. \A t \in DOMAIN licenseTypes :
            /\ licenseTypes'[t].issued = licenseTypes[t].issued
            /\ licenseTypes'[t].maxSupply = licenseTypes[t].maxSupply
      BY <2>1, <2>6 DEF RevokeLicenses, TypeInv, RecordTypes, LicenseTypeRecord
    <3>2. \A id \in DOMAIN licenses :
            /\ id \in DOMAIN licenses'
            /\ licenses'[id].type = licenses[id].type
            /\ licenses'[id].holder = licenses[id].holder
            /\ licenses[id].status = "revoked" => licenses'[id].status = "revoked"
      BY <2>1, <2>6, RevokeRecords
    <3> QED  BY <2>1, <2>6, <3>1, <3>2 DEF RevokeLicenses
  <2> QED  BY <1>1, <2>2, <2>3, <2>4, <2>5, <2>6, StepCases
<1> QED  BY <1>1, InvAlways, PTL DEF OpenSpec, LicensesArePermanent

(* A license id is assigned once and for all, and a revoked license stays  *)
(* revoked; a type keeps its cap and its lifetime count never falls.       *)
THEOREM LicensesPermanent == Spec => LicensesArePermanent
BY OpenPermanent, SpecIsOpen, PTL

LEMMA OpenAccounts == OpenSpec => []HoldersCanSign
<1>1. Init => HoldersCanSign
  BY DEF Init, EmptyMap, HoldersCanSign
<1>2. ASSUME TypeInv, HoldersCanSign, [RecordStep]_vars PROVE HoldersCanSign'
  <2>1. CASE UNCHANGED recordVars /\ accounts \subseteq accounts'
    BY <1>2, <2>1 DEF recordVars, HoldersCanSign
  <2>2. ASSUME NEW signer \in accounts, NEW slots \in Batches, IssueLicenses(signer, slots)
        PROVE  HoldersCanSign'
    <3>1. accounts \subseteq accounts'
          /\ \A i \in DOMAIN slots : AccountOf[slots[i][2]] \in accounts'
      BY <2>2 DEF IssueLicenses, AccountsAfterIssue
    <3>2. ASSUME NEW id \in NewIds(slots)
          PROVE  \E i \in DOMAIN slots : licenses'[id].holder = slots[i][2]
      <4>1. licenses'[id] = [type |-> SlotOf(id, slots)[1], holder |-> SlotOf(id, slots)[2],
                             status |-> "active"]
        BY <1>2, <2>2, IssueRecords
      <4>2. nextLicenseID \in Nat
        BY <1>2 DEF TypeInv, RecordTypes
      <4>3. id - nextLicenseID + 1 \in DOMAIN slots
        BY <4>2, NewIdSlots
      <4> QED  BY <4>1, <4>3 DEF SlotOf
    <3>3. /\ DOMAIN licenses' = DOMAIN licenses \cup NewIds(slots)
          /\ \A id \in DOMAIN licenses : licenses'[id] = licenses[id]
      BY <1>2, <2>2, IssueRecords
    <3> QED  BY <1>2, <3>1, <3>2, <3>3 DEF HoldersCanSign
  <2>3. ASSUME NEW signer \in accounts, NEW holder \in Holders, NEW type \in LicenseTypeIds,
               NEW count \in 1 .. MaxIssued, RevokeLicenses(signer, holder, type, count)
        PROVE  HoldersCanSign'
    <3>1. /\ DOMAIN licenses' = DOMAIN licenses
          /\ \A id \in DOMAIN licenses : licenses'[id].holder = licenses[id].holder
      BY <1>2, <2>3, RevokeRecords
    <3> QED  BY <1>2, <2>3, <3>1 DEF RevokeLicenses, HoldersCanSign
  <2> QED
    BY <1>2, <2>1, <2>2, <2>3, StepCases
       DEF CreateLicenseType, UpdateLicenseType, HoldersCanSign
<1>3. LicenseInv => TypeInv
  BY DEF LicenseInv
<1> QED  BY <1>1, <1>2, <1>3, InvAlways, PTL DEF OpenSpec

(* Whoever was ever issued a license has an account to sign with.          *)
THEOREM HoldersHaveAccounts == Spec => []HoldersCanSign
BY OpenAccounts, SpecIsOpen, PTL

LEMMA OpenNewest == OpenSpec => RevokesNewest
<1> DEFINE Newest ==
      \A taken \in DOMAIN licenses, left \in DOMAIN licenses :
        /\ licenses[taken].status = "active" /\ licenses'[taken].status = "revoked"
        /\ licenses[left].holder = licenses[taken].holder
        /\ licenses[left].type = licenses[taken].type
        /\ licenses'[left].status = "active"
        => left < taken
<1>1. ASSUME LicenseInv, [RecordStep]_vars PROVE Newest
  <2>1. TypeInv /\ IndexesExact /\ CountersExact
    BY <1>1 DEF LicenseInv, LicensesReimportable
  <2>2. SUFFICES ASSUME NEW taken \in DOMAIN licenses, NEW left \in DOMAIN licenses,
                        licenses[taken].status = "active", licenses'[taken].status = "revoked",
                        licenses[left].holder = licenses[taken].holder,
                        licenses[left].type = licenses[taken].type,
                        licenses'[left].status = "active"
                 PROVE  left < taken
    OBVIOUS
  <2>3. PICK signer \in accounts, holder \in Holders, type \in LicenseTypeIds,
             count \in 1 .. MaxIssued : RevokeLicenses(signer, holder, type, count)
    <3>1. ASSUME NEW signer \in accounts, NEW slots \in Batches, IssueLicenses(signer, slots)
          PROVE  licenses'[taken] = licenses[taken]
      BY <2>1, <3>1, IssueRecords
    <3> QED
      BY <1>1, <2>2, <3>1, StepCases DEF CreateLicenseType, UpdateLicenseType, recordVars
  <2> DEFINE revoked == NewestActive(holder, type, count)
             newer(x) == {y \in ActiveIds(holder, type) : y > x}
  <2>4. /\ taken \in revoked
        /\ left \notin revoked /\ licenses[left].status = "active"
    BY <2>1, <2>2, <2>3, RevokeRecords
  <2>5. /\ licenses[taken].holder = holder /\ licenses[taken].type = type
        /\ taken \in ActiveIds(holder, type)
    <3>1. revoked \subseteq HeldBy(holder, type)
      BY <2>1, <2>3, RevokedOutstanding
    <3>2. licenses[taken].holder = holder /\ licenses[taken].type = type
      BY <2>4, <3>1 DEF HeldBy, Outstanding, OfType
    <3>3. taken \in ActiveIds(holder, type)
      BY <2>4 DEF NewestActive
    <3> QED  BY <3>2, <3>3
  <2>6. left \in ActiveIds(holder, type)
    BY <2>1, <2>2, <2>4, <2>5 DEF IndexesExact, ActiveIds, TypeInv, IdsInRange
  <2>7. /\ Cardinality(newer(taken)) < count
        /\ ~ Cardinality(newer(left)) < count
    BY <2>4, <2>6 DEF NewestActive
  <2>8. left \in Int /\ taken \in Int
    BY <2>1 DEF TypeInv, RecordTypes
  <2>9. ASSUME left >= taken PROVE FALSE
    <3>1. newer(left) \subseteq newer(taken)
      BY <2>1, <2>8, <2>9 DEF ActiveIds, TypeInv, RecordTypes
    <3>2. IsFiniteSet(newer(taken))
      <4>1. IsFiniteSet(1 .. (nextLicenseID - 1))
        <5>1. 1 \in Int /\ nextLicenseID - 1 \in Int
          BY <2>1 DEF TypeInv, RecordTypes
        <5> QED  BY ONLY <5>1, FS_Interval
      <4>2. newer(taken) \subseteq 1 .. (nextLicenseID - 1)
        BY DEF ActiveIds
      <4> QED  BY <4>1, <4>2, FS_Subset
    <3> HIDE DEF newer
    <3>3. /\ Cardinality(newer(left)) <= Cardinality(newer(taken))
          /\ Cardinality(newer(left)) \in Nat /\ Cardinality(newer(taken)) \in Nat
      BY <3>1, <3>2, FS_Subset, FS_CardinalityType
    <3>4. count \in Nat
      BY LicenseBoundAssumption
    <3> QED  BY <2>7, <3>3, <3>4
  <2> QED  BY <2>8, <2>9
<1> QED  BY <1>1, InvAlways, PTL DEF OpenSpec, RevokesNewest

(* A revocation takes the most recently issued of a holder's licenses.     *)
THEOREM NewestRevokedFirst == Spec => RevokesNewest
BY OpenNewest, SpecIsOpen, PTL
-----------------------------------------------------------------------------
(* The module as a ledger of capped holdings                               *)

Held(h, t)     == Cardinality(ActiveIds(h, t))
HoldingsOf(t)  == [h \in Holders |-> Held(h, t)]
Units(t)       == UNION {{h} \X (1 .. HoldingsOf(t)[h]) : h \in Holders}

LEMMA HeldIds ==
  ASSUME LicenseInv
  PROVE  /\ \A h \in Holders, t \in LicenseTypeIds :
              /\ \A id : id \in ActiveIds(h, t)
                           <=> id \in Outstanding(t) /\ licenses[id].holder = h
              /\ IsFiniteSet(ActiveIds(h, t)) /\ Held(h, t) \in Nat
         /\ \A id \in DOMAIN licenses : licenses[id].holder \in Holders
<1>1. \A id \in DOMAIN licenses : licenses[id].holder \in Holders
  BY DEF LicenseInv, TypeInv, RecordTypes, LicenseRecord
<1>2. ASSUME NEW h \in Holders, NEW t \in LicenseTypeIds, NEW id
      PROVE  id \in ActiveIds(h, t) <=> id \in Outstanding(t) /\ licenses[id].holder = h
  BY DEF LicenseInv, LicensesReimportable, IndexesExact, TypeInv, IdsInRange, ActiveIds,
         Outstanding, OfType
<1>3. ASSUME NEW h \in Holders, NEW t \in LicenseTypeIds
      PROVE  IsFiniteSet(ActiveIds(h, t)) /\ Held(h, t) \in Nat
  <2>1. IsFiniteSet(Outstanding(t))
    BY OutstandingFinite DEF LicenseInv
  <2>2. ActiveIds(h, t) \subseteq Outstanding(t)
    BY <1>2
  <2> QED  BY <2>1, <2>2, FS_Subset, FS_CardinalityType DEF Held
<1> QED  BY <1>1, <1>2, <1>3

(* The units the holders of a type hold are its outstanding licenses: the  *)
(* n-th unit of a holder is the n-th of its licenses, in some order.       *)
LEMMA TotalOutstanding ==
  ASSUME LicenseInv, NEW t \in LicenseTypeIds
  PROVE  Ledger!Total(HoldingsOf(t)) = Cardinality(Outstanding(t))
<1> DEFINE nth    == [h \in Holders |->
                        CHOOSE f : f \in Bijection(1 .. Held(h, t), ActiveIds(h, t))]
           id(u)  == nth[u[1]][u[2]]
           f      == [u \in Units(t) |-> id(u)]
<1>1. ASSUME NEW h \in Holders
      PROVE  nth[h] \in Bijection(1 .. Held(h, t), ActiveIds(h, t))
  <2>1. IsFiniteSet(ActiveIds(h, t))
    BY HeldIds
  <2>2. PICK n \in Nat : ExistsBijection(1 .. n, ActiveIds(h, t))
    BY <2>1, FS_NatBijection
  <2>3. n = Held(h, t)
    BY <2>2, FS_CountingElements DEF Held
  <2> QED  BY <2>2, <2>3 DEF ExistsBijection
<1>2. \A u \in Units(t) : u[1] \in Holders /\ u[2] \in 1 .. Held(u[1], t) /\ u = <<u[1], u[2]>>
  BY DEF Units, HoldingsOf
<1>3. \A h \in Holders : \A n \in 1 .. Held(h, t) : <<h, n>> \in Units(t)
  BY DEF Units, HoldingsOf
<1> HIDE DEF nth
<1>4. \A u \in Units(t) : id(u) \in Outstanding(t) /\ licenses[id(u)].holder = u[1]
  <2> TAKE u \in Units(t)
  <2>1. id(u) \in ActiveIds(u[1], t)
    BY <1>1, <1>2 DEF Bijection, Injection, Surjection
  <2> QED  BY <1>2, <2>1, HeldIds
<1>5. f \in [Units(t) -> Outstanding(t)]
  BY <1>4
<1>6. ASSUME NEW u \in Units(t), NEW v \in Units(t), f[u] = f[v] PROVE u = v
  <2>1. u[1] = v[1] /\ nth[u[1]][u[2]] = nth[u[1]][v[2]]
    BY <1>4, <1>6
  <2>2. nth[u[1]] \in Bijection(1 .. Held(u[1], t), ActiveIds(u[1], t))
    BY <1>1, <1>2
  <2>3. u[2] = v[2]
    BY <1>2, <2>1, <2>2 DEF Bijection, Injection, IsInjective
  <2> QED  BY <1>2, <2>1, <2>3
<1>7. ASSUME NEW x \in Outstanding(t) PROVE \E u \in Units(t) : f[u] = x
  <2> DEFINE h == licenses[x].holder
  <2>1. h \in Holders /\ x \in ActiveIds(h, t)
    BY HeldIds DEF Outstanding, OfType
  <2> HIDE DEF h
  <2>2. PICK n \in 1 .. Held(h, t) : nth[h][n] = x
    BY <1>1, <2>1 DEF Bijection, Surjection
  <2>3. <<h, n>> \in Units(t) /\ id(<<h, n>>) = x
    BY <1>3, <2>1, <2>2
  <2> QED  BY <2>3
<1>8. ExistsBijection(Units(t), Outstanding(t))
  <2> HIDE DEF f
  <2>1. f \in Bijection(Units(t), Outstanding(t))
    BY <1>5, <1>6, <1>7 DEF Bijection, Injection, Surjection, IsInjective
  <2> QED  BY <2>1 DEF ExistsBijection
<1>9. Cardinality(Units(t)) = Cardinality(Outstanding(t))
  <2>1. ExistsBijection(Outstanding(t), Units(t)) /\ IsFiniteSet(Outstanding(t))
    BY <1>8, Fun_ExistsBijSymmetric, OutstandingFinite DEF LicenseInv
  <2> QED  BY <2>1, FS_Bijection
<1>10. Ledger!Cardinality(Units(t)) = Cardinality(Units(t))
  BY DEF Ledger!Cardinality, Cardinality
<1> QED  BY <1>9, <1>10 DEF Ledger!Total, Units

(* What a step of the ledger reads of the states on both of its sides.     *)
LedgerFacts ==
  /\ \A h \in Holders, t \in LicenseTypeIds :
       /\ IsFiniteSet(ActiveIds(h, t)) /\ Held(h, t) \in Nat
       /\ \A id : id \in ActiveIds(h, t)
                    <=> /\ id \in DOMAIN licenses /\ licenses[id].status = "active"
                        /\ licenses[id].type = t /\ licenses[id].holder = h
  /\ \A id \in DOMAIN licenses : licenses[id].type \in DOMAIN licenseTypes
  /\ \A t \in DOMAIN licenseTypes :
       /\ t \in LicenseTypeIds /\ licenseTypes[t].maxSupply \in Nat
       /\ licenseTypes[t].maxSupply = 0
            \/ Ledger!Total(HoldingsOf(t)) <= licenseTypes[t].maxSupply

LEMMA LedgerFactsHold == LicenseInv /\ SupplyRespected => LedgerFacts
<1> SUFFICES ASSUME LicenseInv, SupplyRespected PROVE LedgerFacts
  OBVIOUS
<1>1. \A t \in DOMAIN licenseTypes : t \in LicenseTypeIds /\ licenseTypes[t].maxSupply \in Nat
  BY DEF LicenseInv, TypeInv, RecordTypes, LicenseTypeRecord
<1>2. \A t \in DOMAIN licenseTypes :
        licenseTypes[t].maxSupply = 0 \/ Ledger!Total(HoldingsOf(t)) <= licenseTypes[t].maxSupply
  BY <1>1, TotalOutstanding DEF SupplyRespected
<1>3. \A id \in DOMAIN licenses : licenses[id].type \in DOMAIN licenseTypes
  BY DEF LicenseInv, LicensesReimportable, TypesExist
<1> QED  BY <1>1, <1>2, <1>3, HeldIds DEF LedgerFacts, Outstanding, OfType

LedgerHeld == [t \in LicenseTypeIds |-> [h \in Holders |-> Cardinality(ActiveIds(h, t))]]
LedgerCap  == [t \in DOMAIN licenseTypes |-> licenseTypes[t].maxSupply]

(* A batch adds to holdings, and every type it adds to ends within its cap. *)
LEMMA IssueIsLedgerIssue ==
  ASSUME LicenseInv, LedgerFacts, LedgerFacts', NEW signer \in accounts, NEW slots \in Batches,
         IssueLicenses(signer, slots)
  PROVE  Ledger!Issue
<1>1. TypeInv
  BY DEF LicenseInv
<1>2. ASSUME NEW t \in LicenseTypeIds, NEW h \in Holders
      PROVE  /\ ActiveIds(h, t) \subseteq ActiveIds(h, t)'
             /\ Held(h, t)' >= Held(h, t)
             /\ Held(h, t)' # Held(h, t) => t \in DOMAIN licenseTypes'
  <2>1. ActiveIds(h, t) \subseteq ActiveIds(h, t)'
    <3>1. \A id \in DOMAIN licenses : id \in DOMAIN licenses' /\ licenses'[id] = licenses[id]
      BY <1>1, IssueRecords
    <3> QED  BY <3>1 DEF LedgerFacts
  <2>2. Cardinality(ActiveIds(h, t)) <= Cardinality(ActiveIds(h, t)')
    BY <2>1, FS_Subset DEF LedgerFacts
  <2>3. Held(h, t) \in Nat /\ Held(h, t)' \in Nat
    BY DEF LedgerFacts
  <2>4. ASSUME Held(h, t)' # Held(h, t) PROVE t \in DOMAIN licenseTypes'
    <3>1. \E id : id \in ActiveIds(h, t)'
      BY <2>1, <2>4 DEF Held
    <3> QED  BY <3>1 DEF LedgerFacts
  <2> QED  BY <2>1, <2>2, <2>3, <2>4 DEF Held
<1>3. /\ DOMAIN licenseTypes' = DOMAIN licenseTypes
      /\ \A t \in DOMAIN licenseTypes : licenseTypes'[t].maxSupply = licenseTypes[t].maxSupply
  BY <1>1 DEF IssueLicenses, TypesAfterIssue, TypeInv, RecordTypes, LicenseTypeRecord
<1>4. LedgerCap' = LedgerCap
  BY <1>3 DEF LedgerCap
<1>5. \A t \in LicenseTypeIds, h \in Holders : LedgerHeld'[t][h] >= LedgerHeld[t][h]
  BY <1>2 DEF LedgerHeld, Held
<1>6. ASSUME NEW t \in LicenseTypeIds, LedgerHeld'[t] # LedgerHeld[t]
      PROVE  /\ t \in DOMAIN LedgerCap
             /\ LedgerCap[t] = 0 \/ Ledger!Total(LedgerHeld'[t]) <= LedgerCap[t]
  <2>1. PICK h \in Holders : Held(h, t)' # Held(h, t)
    BY <1>6 DEF LedgerHeld, Held
  <2>2. t \in DOMAIN licenseTypes
    BY <1>2, <1>3, <2>1
  <2>3. licenseTypes'[t].maxSupply = 0
          \/ Ledger!Total(HoldingsOf(t))' <= licenseTypes'[t].maxSupply
    BY <1>3, <2>2 DEF LedgerFacts
  <2>4. Ledger!Total(HoldingsOf(t))' = Ledger!Total(LedgerHeld'[t])
    BY DEF HoldingsOf, LedgerHeld, Held, Ledger!Total
  <2> QED  BY <1>3, <2>2, <2>3, <2>4 DEF LedgerCap
<1> QED  BY <1>4, <1>5, <1>6 DEF Ledger!Issue, LedgerHeld, LedgerCap

(* A revocation takes from one holder of one type.                         *)
LEMMA RevokeIsLedgerRevoke ==
  ASSUME LicenseInv, LedgerFacts, LedgerFacts', NEW signer \in accounts, NEW holder \in Holders,
         NEW type \in LicenseTypeIds, NEW count \in 1 .. MaxIssued,
         RevokeLicenses(signer, holder, type, count)
  PROVE  Ledger!Revoke
<1> DEFINE revoked == NewestActive(holder, type, count)
<1>1. TypeInv /\ IndexesExact /\ CountersExact
  BY DEF LicenseInv, LicensesReimportable
<1>2. revoked \subseteq ActiveIds(holder, type) /\ \E id : id \in revoked
  <2>1. Cardinality(revoked) = count /\ count # 0
    BY <1>1, RevokedOutstanding, LicenseBoundAssumption
  <2>2. revoked # {}
    BY <2>1, FS_EmptySet
  <2> QED  BY <2>2 DEF NewestActive
<1>3. /\ DOMAIN licenses' = DOMAIN licenses
      /\ \A id \in DOMAIN licenses :
           /\ licenses'[id].type = licenses[id].type
           /\ licenses'[id].holder = licenses[id].holder
           /\ licenses'[id].status = IF id \in revoked THEN "revoked" ELSE licenses[id].status
  BY <1>1, RevokeRecords
<1> HIDE DEF revoked
<1>4. \A t \in LicenseTypeIds, h \in Holders : \A id :
        id \in ActiveIds(h, t)' <=> id \in ActiveIds(h, t) /\ id \notin revoked
  BY <1>3 DEF LedgerFacts
<1>5. \A t \in LicenseTypeIds, h \in Holders :
        t # type \/ h # holder => Held(h, t)' = Held(h, t)
  <2> SUFFICES ASSUME NEW t \in LicenseTypeIds, NEW h \in Holders, t # type \/ h # holder
               PROVE  ActiveIds(h, t)' = ActiveIds(h, t)
    BY DEF Held
  <2>1. \A id \in ActiveIds(h, t) : id \notin revoked
    BY <1>2 DEF LedgerFacts
  <2> QED  BY <1>4, <2>1
<1>6. Held(holder, type)' < Held(holder, type)
  <2>1. /\ ActiveIds(holder, type)' \subseteq ActiveIds(holder, type)
        /\ ActiveIds(holder, type)' # ActiveIds(holder, type)
    BY <1>2, <1>4
  <2>2. /\ IsFiniteSet(ActiveIds(holder, type))
        /\ Held(holder, type) \in Nat /\ Held(holder, type)' \in Nat
    BY DEF LedgerFacts
  <2> QED  BY <2>1, <2>2, FS_Subset DEF Held
<1>7. LedgerHeld'[type][holder] < LedgerHeld[type][holder]
  BY <1>6 DEF LedgerHeld, Held
<1>8. LedgerHeld' = [LedgerHeld EXCEPT ![type][holder] = LedgerHeld'[type][holder]]
  BY <1>5 DEF LedgerHeld, Held
<1>9. LedgerCap' = LedgerCap
  BY <1>1 DEF RevokeLicenses, LedgerCap, TypeInv, RecordTypes, LicenseTypeRecord
<1> QED  BY <1>7, <1>8, <1>9 DEF Ledger!Revoke, LedgerHeld, LedgerCap

LEMMA OpenLedger == OpenSpec => LedgerPromise
<1>1. Init => Ledger!Init
  <2> SUFFICES ASSUME Init PROVE Ledger!Init
    OBVIOUS
  <2>1. DOMAIN LedgerCap \subseteq LicenseTypeIds
    BY LicenseGenesisAssumption DEF Init, LedgerCap
  <2>2. \A h, t : Cardinality(ActiveIds(h, t)) = 0
    BY FS_EmptySet DEF Init, ActiveIds
  <2> QED  BY <2>1, <2>2 DEF Ledger!Init, LedgerCap
<1>2. ASSUME LicenseInv, LedgerFacts, LedgerFacts', [RecordStep]_vars
      PROVE  [Ledger!Next]_<<LedgerCap, LedgerHeld>>
  <2>1. TypeInv
    BY <1>2 DEF LicenseInv
  <2>2. CASE UNCHANGED recordVars
    BY <2>2 DEF recordVars, LedgerCap, LedgerHeld, ActiveIds
  <2>3. ASSUME NEW signer \in accounts, NEW type \in LicenseTypeIds,
               NEW transferrable \in BOOLEAN, NEW maxSupply \in SupplyChoices,
               CreateLicenseType(signer, type, transferrable, maxSupply)
        PROVE  Ledger!Create
    <3>1. /\ type \in LicenseTypeIds \ DOMAIN LedgerCap
          /\ DOMAIN LedgerCap' = DOMAIN LedgerCap \cup {type}
          /\ LedgerCap'[type] >= 0
          /\ \A u \in DOMAIN LedgerCap : LedgerCap'[u] = LedgerCap[u]
      BY <2>3, SupplyAssumption DEF CreateLicenseType, TypeFree, Overlay, LedgerCap
    <3>2. LedgerHeld' = LedgerHeld
      BY <2>3 DEF CreateLicenseType, LedgerHeld, ActiveIds
    <3> QED  BY <3>1, <3>2 DEF Ledger!Create, LedgerCap, LedgerHeld
  <2>4. ASSUME NEW signer \in accounts, NEW type \in LicenseTypeIds,
               NEW transferrable \in BOOLEAN, UpdateLicenseType(signer, type, transferrable)
        PROVE  UNCHANGED <<LedgerCap, LedgerHeld>>
    <3>1. LedgerCap' = LedgerCap
      BY <2>1, <2>4 DEF UpdateLicenseType, LedgerCap, TypeInv, RecordTypes, LicenseTypeRecord
    <3>2. LedgerHeld' = LedgerHeld
      BY <2>4 DEF UpdateLicenseType, LedgerHeld, ActiveIds
    <3> QED  BY <3>1, <3>2
  <2> QED
    BY <1>2, <2>2, <2>3, <2>4, StepCases, IssueIsLedgerIssue, RevokeIsLedgerRevoke DEF Ledger!Next
<1>3. [Ledger!Next]_<<LedgerCap, LedgerHeld>>
        => [Ledger!Next]_<<[t \in DOMAIN licenseTypes |-> licenseTypes[t].maxSupply],
                           [t \in LicenseTypeIds |->
                              [h \in Holders |-> Cardinality(ActiveIds(h, t))]]>>
  BY DEF LedgerCap, LedgerHeld
<1> QED
  BY <1>1, <1>2, <1>3, InvAlways, OpenSupply, LedgerFactsHold, PTL
  DEF OpenSpec, LedgerPromise, Ledger!Spec

(* The counts that x/network and contracts read change as a ledger of      *)
(* capped holdings does: a created type brings its cap, a batch only adds  *)
(* and ends within the caps, a revocation takes from one holder of one     *)
(* type, and nothing else moves a count.                                   *)
THEOREM LicensesImplementLedger == Spec => LedgerPromise
BY OpenLedger, SpecIsOpen, PTL

-----------------------------------------------------------------------------
(* The grants: no handler of x/license writes them, and a license type     *)
(* that appears only adds to the scopes of its namespace.                  *)

GenesisNamespace ==
  /\ DOMAIN GenesisOwners \subseteq {Namespace}
  /\ \A m \in DOMAIN GenesisOwners : GenesisOwners[m] \in Accounts
  /\ GenesisGrants \subseteq Permissions!GrantKeys

NamespaceOK ==
  /\ DOMAIN owners \subseteq {Namespace}
  /\ \A m \in DOMAIN owners : owners[m] \in Accounts
  /\ grants \subseteq Permissions!GrantKeys

LEMMA NamespaceStep == NamespaceOK /\ [Next]_vars => NamespaceOK'
<1> SUFFICES ASSUME NamespaceOK, [Next]_vars PROVE NamespaceOK'
  OBVIOUS
<1>1. CASE UNCHANGED <<owners, grants>>
  BY <1>1 DEF NamespaceOK
<1>2. ASSUME NEW module \in {Namespace}, NEW owner \in Accounts,
             Permissions!SetOwner(module, owner), UNCHANGED grants
      PROVE  NamespaceOK'
  BY <1>2 DEF Permissions!SetOwner, NamespaceOK
<1>3. ASSUME NEW module \in {Namespace}, NEW signer \in Accounts, NEW grantee \in Accounts,
             NEW pairs \in Permissions!Messages,
             Permissions!GrantPermissions(signer, module, grantee, pairs)
      PROVE  NamespaceOK'
  <2>1. Permissions!GrantsOf(module, grantee, pairs) \subseteq Permissions!GrantKeys
    BY <1>3 DEF Permissions!GrantsOf, Permissions!GrantKeys, Permissions!GrantPermissions,
                Permissions!PairsValid, Permissions!ValidPair, Permissions!Messages
  <2> QED  BY <1>3, <2>1 DEF Permissions!GrantPermissions, NamespaceOK
<1>4. ASSUME NEW module \in {Namespace}, NEW signer \in Accounts, NEW grantee \in Accounts,
             NEW pairs \in Permissions!Messages,
             Permissions!RevokePermissions(signer, module, grantee, pairs)
      PROVE  NamespaceOK'
  BY <1>4 DEF Permissions!RevokePermissions, NamespaceOK
<1>5. CASE Permissions!PermissionNext
  BY <1>2, <1>3, <1>4, <1>5
  DEF Permissions!PermissionNext, Permissions!UpdateNamespaceOwner,
      Permissions!TransferOwnership
<1>6. UNCHANGED <<owners, grants>> \/ Permissions!PermissionNext
  BY DEF Next, LicenseNext, vars, CreateLicenseType, UpdateLicenseType,
                   IssueLicenses, RevokeLicenses
<1> QED  BY <1>1, <1>5, <1>6

AccountsOK == accounts \subseteq Accounts

LEMMA AccountsStep == AccountsOK /\ [Next]_vars => AccountsOK'
<1> SUFFICES ASSUME accounts \subseteq Accounts, [Next]_vars PROVE accounts' \subseteq Accounts
  BY DEF AccountsOK
<1>1. CASE UNCHANGED accounts
  BY <1>1
<1>2. ASSUME NEW signer, NEW slots \in Batches, IssueLicenses(signer, slots)
      PROVE  accounts' \subseteq Accounts
  <2>1. \A i \in DOMAIN slots : AccountOf[slots[i][2]] \in Accounts
    BY BatchType, HolderAssumption
  <2> QED  BY <1>2, <2>1 DEF IssueLicenses, AccountsAfterIssue
<1>3. UNCHANGED accounts \/ \E signer \in accounts, slots \in Batches :
        IssueLicenses(signer, slots)
  BY DEF Next, LicenseNext, vars, licenseVars, CreateLicenseType, UpdateLicenseType,
         RevokeLicenses
<1> QED  BY <1>1, <1>2, <1>3

(* The collections, the owner of the namespace and its grants keep their   *)
(* types, from a genesis whose grants name what the module registers.      *)
THEOREM TypeCorrect == ASSUME GenesisNamespace PROVE Spec => []TypeOK
<1>1. Init => NamespaceOK
  BY DEF GenesisNamespace, Init, NamespaceOK
<1>2. TypeInv /\ NamespaceOK /\ AccountsOK => TypeOK
  BY DEF AccountsOK, TypeInv, RecordTypes, LicenseTypeOK, NamespaceOK, TypeOK, Permissions!TypeOK
<1>3. LicenseInv => TypeInv
  BY DEF LicenseInv
<1>4. Init => AccountsOK
  BY LicenseGenesisAssumption DEF Init, AccountsOK
<1> QED
  BY <1>1, <1>2, <1>3, <1>4, InvAlways, SpecIsOpen, NamespaceStep, AccountsStep, PTL DEF Spec

-----------------------------------------------------------------------------

(* What contracts do through the precompile, messages could do: a step of  *)
(* either kind is a step of License.  So everything proved of License      *)
(* holds with contracts around.                                            *)
LEMMA CallStep == [PrecompileNext]_<<vars, receipt>> => [Next]_vars
<1> SUFFICES ASSUME PrecompileNext PROVE Next
  BY DEF vars
<1>1. CASE Message
  BY <1>1 DEF Message
<1>2. CASE Call
  <2>1. PICK caller \in accounts \cap EvmAddresses :
          \/ \E type \in LicenseTypeIds, transferrable \in BOOLEAN :
               \/ \E maxSupply \in SupplyChoices :
                    CreateLicenseType(caller, type, transferrable, maxSupply)
               \/ UpdateLicenseType(caller, type, transferrable)
          \/ \E entries \in EntryLists :
               /\ nextLicenseID + Len(Flat(entries)) - 1 <= MaxIssued
               /\ IssueLicenses(caller, Flat(entries))
          \/ \E type \in LicenseTypeIds, holder \in EvmAddresses, count \in 1 .. MaxIssued :
               RevokeLicenses(caller, CanonicalOf[holder], type, count)
    BY <1>2 DEF Call, CreateLicenseTypeCall, UpdateLicenseTypeCall, IssueLicensesCall,
                RevokeLicensesCall
  <2>2. \A entries \in EntryLists : Flat(entries) \in Batches
    BY DEF EntryLists
  <2>3. \A holder \in EvmAddresses : CanonicalOf[holder] \in Holders
    BY EvmAddressAssumption
  <2>4. LicenseNext
    BY <2>1, <2>2, <2>3 DEF LicenseNext
  <2> QED  BY <2>4 DEF Next
<1> QED  BY <1>1, <1>2 DEF PrecompileNext

THEOREM CallsAreMessages == PrecompileSpec => Spec
<1>1. PrecompileInit => Init
  BY DEF PrecompileInit
<1> QED  BY <1>1, CallStep, PTL DEF PrecompileSpec, Spec

(* Where every holder is spelled canonically, what the precompile lists    *)
(* for an address are the active licenses whose output names it.           *)
THEOREM ListingComplete ==
  ASSUME \A h \in Holders : CanonicalOf[HexOf[h]] = h
  PROVE  PrecompileSpec => []HoldersListed
<1>1. LicenseInv => HoldersListed
  <2> SUFFICES ASSUME LicenseInv, NEW holder \in EvmAddresses, NEW type \in LicenseTypeIds
               PROVE  LicensesByHolderAndType(holder, type) =
                        {id \in DOMAIN licenses :
                           LicenseOutput(id) =
                             [type |-> type, holder |-> holder, status |-> "active"]}
    BY DEF HoldersListed
  <2>1. \A id : id \in LicensesByHolderAndType(holder, type)
                 <=> /\ id \in DOMAIN licenses
                     /\ licenses[id].holder = CanonicalOf[holder]
                     /\ licenses[id].type = type /\ licenses[id].status = "active"
    BY DEF LicenseInv, TypeInv, RecordTypes, LicenseTypeOK, IdsInRange, LicensesReimportable,
       IndexesExact,
           LicensesByHolderAndType, ActiveIds
  <2>2. \A id \in DOMAIN licenses :
          licenses[id].holder = CanonicalOf[holder] <=> HexOf[licenses[id].holder] = holder
    BY EvmAddressAssumption DEF LicenseInv, TypeInv, RecordTypes, LicenseTypeOK, LicenseRecord
  <2> QED  BY <2>1, <2>2 DEF LicenseOutput
<1> QED  BY <1>1, CallsAreMessages, SpecIsOpen, InvAlways, PTL

-----------------------------------------------------------------------------
(* Receipts                                                                *)

Counted(counts, n) == UNION {{i} \X (1 .. counts[i]) : i \in 1 .. n}

LEMMA FirstNumbers ==
  ASSUME NEW n \in Nat
  PROVE  IsFiniteSet(1 .. n) /\ Cardinality(1 .. n) = n
<1>1. 1 \in Int /\ n \in Int
  OBVIOUS
<1>2. /\ IsFiniteSet(1 .. n)
      /\ Cardinality(1 .. n) = IF 1 > n THEN 0 ELSE n - 1 + 1
  BY ONLY <1>1, FS_Interval
<1> QED  BY <1>2

LEMMA CountedFinite ==
  ASSUME NEW m \in Nat, NEW counts, \A i \in 1 .. m : counts[i] \in Nat
  PROVE  IsFiniteSet(Counted(counts, m))
<1> DEFINE S == {{i} \X (1 .. counts[i]) : i \in 1 .. m}
           f == [i \in 1 .. m |-> {i} \X (1 .. counts[i])]
<1>1. f \in Surjection(1 .. m, S)
  BY DEF Surjection
<1>2. IsFiniteSet(1 .. m)
  BY FirstNumbers
<1>3. IsFiniteSet(S)
  BY ONLY <1>1, <1>2, FS_Surjection
<1>4. ASSUME NEW T \in S PROVE IsFiniteSet(T)
  <2>1. PICK i \in 1 .. m : T = {i} \X (1 .. counts[i])
    OBVIOUS
  <2>2. IsFiniteSet({i}) /\ IsFiniteSet(1 .. counts[i])
    BY FS_Singleton, FirstNumbers
  <2> QED  BY <2>1, <2>2, FS_Product
<1> HIDE DEF S
<1>5. IsFiniteSet(UNION S)
  BY ONLY <1>3, <1>4, FS_UNION
<1> QED  BY <1>5 DEF Counted, S

(* The counts of the entries add up, one entry after the other.            *)
LEMMA UpToAdds ==
  ASSUME NEW m \in Nat, NEW counts, \A i \in 1 .. m : counts[i] \in Nat
  PROVE  /\ UpTo(counts, m) \in Nat
         /\ m = 0 => UpTo(counts, m) = 0
         /\ m > 0 => UpTo(counts, m) = UpTo(counts, m - 1) + counts[m]
<1>1. UpTo(counts, m) \in Nat
  BY CountedFinite, FS_CardinalityType DEF UpTo, Counted
<1>2. CASE m = 0
  <2>1. Counted(counts, m) = {}
    BY <1>2 DEF Counted
  <2> QED  BY <1>1, <1>2, <2>1, FS_EmptySet DEF UpTo, Counted
<1>3. CASE m > 0
  <2> DEFINE last == {m} \X (1 .. counts[m])
             rest == Counted(counts, m - 1)
  <2>1. m - 1 \in Nat /\ m \in 1 .. m /\ counts[m] \in Nat
    BY <1>3
  <2>2. Counted(counts, m) = rest \cup last
    <3>1. 1 .. m = (1 .. (m - 1)) \cup {m}
      BY <1>3
    <3> QED  BY <3>1 DEF Counted
  <2>3. rest \cap last = {}
    BY DEF Counted
  <2>4. IsFiniteSet(rest) /\ Cardinality(rest) \in Nat
    BY <2>1, CountedFinite, FS_CardinalityType
  <2>5. IsFiniteSet(last) /\ Cardinality(last) = counts[m]
    <3>1. IsFiniteSet({m}) /\ Cardinality({m}) = 1
      BY FS_Singleton
    <3>2. IsFiniteSet(1 .. counts[m]) /\ Cardinality(1 .. counts[m]) = counts[m]
      BY <2>1, FirstNumbers
    <3> QED  BY <2>1, <3>1, <3>2, FS_Product
  <2>6. Cardinality(rest \cup last) = Cardinality(rest) + counts[m]
    <3>1. Cardinality(rest \cup last)
            = Cardinality(rest) + Cardinality(last) - Cardinality(rest \cap last)
      BY <2>4, <2>5, FS_Union
    <3>2. Cardinality(rest \cap last) = 0
      BY <2>3, FS_EmptySet
    <3> HIDE DEF last, rest
    <3> QED  BY <2>1, <2>4, <2>5, <3>1, <3>2
  <2> QED  BY <1>1, <1>3, <2>2, <2>6 DEF UpTo, Counted
<1> QED  BY <1>1, <1>2, <1>3

LEMMA UpToMonotone ==
  ASSUME NEW n \in Nat, NEW counts, \A i \in 1 .. n : counts[i] \in Nat,
         NEW i \in 0 .. n, NEW j \in 0 .. n, i <= j
  PROVE  UpTo(counts, i) <= UpTo(counts, j) /\ UpTo(counts, i) \in Nat /\ UpTo(counts, j) \in Nat
<1>1. UpTo(counts, i) \in Nat /\ UpTo(counts, j) \in Nat
  BY UpToAdds
<1>2. Counted(counts, i) \subseteq Counted(counts, j)
  <2>1. 1 .. i \subseteq 1 .. j
    OBVIOUS
  <2> QED  BY <2>1 DEF Counted
<1>3. IsFiniteSet(Counted(counts, j))
  BY CountedFinite
<1>4. Cardinality(Counted(counts, i)) <= Cardinality(Counted(counts, j))
  BY <1>2, <1>3, FS_Subset
<1> QED  BY <1>1, <1>4 DEF UpTo, Counted

(* Each license of the batch belongs to one entry.                         *)
LEMMA EntryFound ==
  ASSUME NEW n \in Nat, NEW counts, DOMAIN counts = 1 .. n,
         \A i \in 1 .. n : counts[i] \in Nat,
         NEW k \in 1 .. UpTo(counts, n)
  PROVE  LET i == EntryOf(counts, k)
         IN  /\ i \in 1 .. n /\ UpTo(counts, i - 1) < k /\ k <= UpTo(counts, i)
             /\ \A j \in 1 .. n : UpTo(counts, j - 1) < k /\ k <= UpTo(counts, j) => j = i
<1> DEFINE Here(i) == UpTo(counts, i - 1) < k /\ k <= UpTo(counts, i)
           T       == {i \in 1 .. n : k <= UpTo(counts, i)}
<1>1. \A i \in 0 .. n : UpTo(counts, i) \in Nat /\ (i = 0 => UpTo(counts, i) = 0)
  BY UpToAdds
<1>2. n > 0 /\ n \in T
  BY <1>1
<1>3. PICK least \in T : \A i \in T : ~ i < least
  <2>1. T \subseteq Nat /\ T # {}
    BY <1>2
  <2>2. PICK x \in T : \A y \in T : ~ (<<y, x>> \in OpToRel(<, Nat))
    BY ONLY <2>1, WFMin, NatLessThanWellFounded
  <2>3. \A y \in T : ~ y < x
    BY <2>1, <2>2 DEF OpToRel
  <2> QED  BY <2>3
<1>4. least \in 1 .. n /\ Here(least)
  <2>1. least - 1 \in 0 .. n /\ (least - 1 \in 1 .. n => least - 1 \notin T)
    BY <1>3
  <2> QED  BY <1>1, <1>3, <2>1
<1>5. EntryOf(counts, k) \in 1 .. n /\ Here(EntryOf(counts, k))
  BY <1>4 DEF EntryOf
<1>6. ASSUME NEW i \in 1 .. n, NEW j \in 1 .. n, Here(i), Here(j), i < j PROVE FALSE
  <2>1. UpTo(counts, i) <= UpTo(counts, j - 1)
    <3>1. i \in 0 .. n /\ j - 1 \in 0 .. n /\ i <= j - 1
      BY <1>6
    <3> QED  BY <3>1, UpToMonotone
  <2>2. UpTo(counts, i) \in Nat /\ UpTo(counts, j - 1) \in Nat
    BY <1>1
  <2> QED  BY <1>6, <2>1, <2>2
<1>7. ASSUME NEW j \in 1 .. n, Here(j) PROVE j = EntryOf(counts, k)
  BY <1>5, <1>6, <1>7
<1> QED  BY <1>5, <1>7

(* The batch a call stands for: entry by entry, as many licenses as each   *)
(* entry says.                                                             *)
LEMMA FlatSlots ==
  ASSUME NEW entries \in EntryLists
  PROVE  LET counts == CountsOf(entries)
             slots  == Flat(entries)
             n      == Len(entries)
         IN  /\ n \in Nat /\ DOMAIN entries = 1 .. n /\ DOMAIN counts = 1 .. n
             /\ \A i \in 1 .. n : entries[i] \in EntryArg /\ counts[i] \in Nat
                                    /\ counts[i] = entries[i].count
             /\ DOMAIN slots = 1 .. UpTo(counts, n)
             /\ \A k \in DOMAIN slots :
                  slots[k] = <<entries[EntryOf(counts, k)].type,
                               CanonicalOf[entries[EntryOf(counts, k)].holder]>>
<1>1. PICK n \in 1 .. MaxBatch : entries \in [1 .. n -> EntryArg]
  BY DEF EntryLists
<1>2. n \in Nat
  BY LicenseBoundAssumption
<1>3. Len(entries) = n
  BY <1>1, <1>2, SeqDef, LenProperties
<1>4. \A i \in 1 .. n : entries[i].count \in Nat
  BY <1>1, LicenseBoundAssumption DEF EntryArg
<1> QED  BY <1>1, <1>2, <1>3, <1>4 DEF CountsOf, Flat

(* Any finite set of ids can be walked in descending order.                *)
LEMMA DescendingWalk ==
  ASSUME NEW S \in SUBSET Nat, IsFiniteSet(S)
  PROVE  Descending(S) \in Bijection(1 .. Cardinality(S), S)
<1> DEFINE n        == Cardinality(S)
           newer(x) == {y \in S : y > x}
           rank     == [x \in S |-> Cardinality(newer(x)) + 1]
<1>1. n \in Nat /\ IsFiniteSet(1 .. n) /\ Cardinality(1 .. n) = n
  BY FS_CardinalityType, FirstNumbers
<1>2. \A x \in S : IsFiniteSet(newer(x)) /\ Cardinality(newer(x)) \in Nat
  BY FS_Subset, FS_CardinalityType
<1>3. ASSUME NEW x \in S PROVE Cardinality(newer(x)) < n
  <2>1. newer(x) \in SUBSET S /\ newer(x) # S
    OBVIOUS
  <2> QED  BY <1>1, <1>2, <2>1, FS_Subset
<1>4. ASSUME NEW x \in S, NEW y \in S, x < y
      PROVE  Cardinality(newer(y)) < Cardinality(newer(x))
  <2>1. newer(y) \in SUBSET newer(x) /\ newer(y) # newer(x)
    <3>1. \A z \in S : z \in Nat
      OBVIOUS
    <3>2. \A z \in S : z > y => z > x
      BY <1>4, <3>1
    <3>3. y \in newer(x) /\ y \notin newer(y)
      BY <1>4, <3>1
    <3> QED  BY <3>2, <3>3
  <2> QED  BY <1>2, <2>1, FS_Subset
<1> HIDE DEF newer
<1>5. rank \in Injection(S, 1 .. n)
  <2>1. rank \in [S -> 1 .. n]
    BY <1>1, <1>2, <1>3
  <2>2. ASSUME NEW x \in S, NEW y \in S, rank[x] = rank[y] PROVE x = y
    <3>1. Cardinality(newer(x)) = Cardinality(newer(y))
      BY <1>2, <2>2
    <3>2. ~ x < y /\ ~ y < x
      BY <1>2, <1>4, <3>1
    <3> QED  BY <3>2
  <2> QED  BY ONLY <2>1, <2>2, Fun_IsInj
<1>6. rank \in Surjection(S, 1 .. n)
  <2> HIDE DEF rank
  <2> QED  BY <1>1, <1>5, FS_Injection
<1> DEFINE walk == [k \in 1 .. n |-> CHOOSE x \in S : rank[x] = k]
<1>7. \A k \in 1 .. n : walk[k] \in S /\ Cardinality(newer(walk[k])) + 1 = k
  BY <1>6 DEF Surjection
<1>8. walk \in [1 .. n -> S]
  BY <1>7
<1> HIDE DEF walk
<1>9. ASSUME NEW i \in 1 .. n, NEW j \in 1 .. n, i < j PROVE walk[i] > walk[j]
  <2> DEFINE x == walk[i]
             y == walk[j]
  <2>1. /\ x \in S /\ Cardinality(newer(x)) + 1 = i
        /\ y \in S /\ Cardinality(newer(y)) + 1 = j
    BY <1>7
  <2> HIDE DEF x, y
  <2>2. x \in Nat /\ y \in Nat
    BY <2>1
  <2>3. Cardinality(newer(x)) \in Nat /\ Cardinality(newer(y)) \in Nat
    BY <1>2, <2>1
  <2>4. Cardinality(newer(x)) < Cardinality(newer(y))
    BY <1>9, <2>1, <2>3
  <2>5. ~ x < y
    <3> SUFFICES ASSUME x < y PROVE FALSE
      OBVIOUS
    <3>1. Cardinality(newer(y)) < Cardinality(newer(x))
      BY <1>4, <2>1
    <3> QED  BY <2>3, <2>4, <3>1
  <2>6. x # y
    BY <2>3, <2>4
  <2>7. x > y
    BY <2>2, <2>5, <2>6
  <2> QED  BY <2>7 DEF x, y
<1>10. /\ Descending(S) \in [1 .. n -> S]
       /\ \A i, j \in 1 .. n : i < j => Descending(S)[i] > Descending(S)[j]
  <2>1. \A s \in [1 .. n -> S] : DOMAIN s = 1 .. n
    OBVIOUS
  <2> QED  BY <1>8, <1>9, <2>1 DEF Descending
<1>11. \A i, j \in 1 .. n : Descending(S)[i] = Descending(S)[j] => i = j
  <2> SUFFICES ASSUME NEW i \in 1 .. n, NEW j \in 1 .. n, Descending(S)[i] = Descending(S)[j]
               PROVE  i = j
    OBVIOUS
  <2>1. Descending(S)[i] \in Nat /\ Descending(S)[j] \in Nat
    BY <1>10
  <2> QED  BY <1>10, <2>1
<1>12. Descending(S) \in Injection(1 .. n, S)
  BY ONLY <1>10, <1>11, Fun_IsInj
<1> QED  BY <1>1, <1>12, FS_Injection DEF Bijection

(* What the receipt of a call tells a contract, and what the call did.     *)
Tells(i) ==
  LET log == receipt'.logs[i]
  IN  /\ Cardinality(Logged(receipt', i)) = log.count
      /\ \A id \in Logged(receipt', i) :
           LicenseOutput(id)' = [type |-> log.type, holder |-> log.holder,
                                 status |-> StatusAfter(log.event)]

TellsAll ==
  \A id \in DOMAIN licenses' :
    (id \in DOMAIN licenses => licenses[id] # licenses'[id])
      <=> \E i \in DOMAIN receipt'.logs : id \in Logged(receipt', i)

LEMMA IssueTold ==
  ASSUME TypeInv, NEW caller, NEW entries \in EntryLists, IssueLicensesCall(caller, entries)
  PROVE  (\A i \in DOMAIN receipt'.logs : Tells(i)) /\ TellsAll
<1> DEFINE counts == CountsOf(entries)
           slots  == Flat(entries)
           n      == Len(entries)
           next   == nextLicenseID
<1>1. /\ n \in Nat /\ DOMAIN entries = 1 .. n /\ DOMAIN counts = 1 .. n
      /\ \A i \in 1 .. n : entries[i] \in EntryArg /\ counts[i] \in Nat
                             /\ counts[i] = entries[i].count
      /\ DOMAIN slots = 1 .. UpTo(counts, n)
      /\ \A k \in DOMAIN slots :
           slots[k] = <<entries[EntryOf(counts, k)].type,
                        CanonicalOf[entries[EntryOf(counts, k)].holder]>>
  BY FlatSlots
<1>2. slots \in Batches /\ next \in Nat
  BY DEF EntryLists, TypeInv, RecordTypes
<1>3. /\ receipt'.ids = [k \in DOMAIN slots |-> next + k - 1]
      /\ receipt'.logs = IssueLogs(entries)
  BY DEF IssueLicensesCall
<1>4. /\ DOMAIN receipt'.logs = 1 .. n
      /\ \A i \in 1 .. n :
           receipt'.logs[i] = Log("LicenseIssued", entries[i].type, entries[i].holder,
                                  entries[i].count)
  BY <1>1, <1>3 DEF IssueLogs
<1>5. CountsOf(receipt'.logs) = counts
  <2>1. \A i \in 1 .. n : receipt'.logs[i].count = entries[i].count
    <3> TAKE i \in 1 .. n
    <3>1. receipt'.logs[i] = [event |-> "LicenseIssued", type |-> entries[i].type,
                              holder |-> entries[i].holder, count |-> entries[i].count]
      BY <1>4 DEF Log
    <3> QED  BY ONLY <3>1
  <2>2. CountsOf(receipt'.logs) = [i \in 1 .. n |-> receipt'.logs[i].count]
    BY <1>4 DEF CountsOf
  <2>3. counts = [i \in 1 .. n |-> entries[i].count]
    BY <1>1 DEF CountsOf
  <2> HIDE DEF counts, n
  <2> QED  BY <2>1, <2>2, <2>3
<1> HIDE DEF counts, slots, n
<1>13. \A i \in 1 .. n : /\ receipt'.logs[i].event = "LicenseIssued"
                         /\ receipt'.logs[i].type = entries[i].type
                         /\ receipt'.logs[i].holder = entries[i].holder
                         /\ receipt'.logs[i].count = counts[i]
  <2> TAKE i \in 1 .. n
  <2>1. receipt'.logs[i] = [event |-> "LicenseIssued", type |-> entries[i].type,
                            holder |-> entries[i].holder, count |-> entries[i].count]
    BY <1>4 DEF Log
  <2>2. counts[i] = entries[i].count
    BY <1>1
  <2> QED  BY ONLY <2>1, <2>2
<1>6. \A i \in 1 .. n : /\ UpTo(counts, i - 1) \in Nat /\ UpTo(counts, i) \in Nat
                        /\ UpTo(counts, i) = UpTo(counts, i - 1) + counts[i]
                        /\ UpTo(counts, i) <= UpTo(counts, n)
                        /\ UpTo(counts, n) \in Nat
  <2> TAKE i \in 1 .. n
  <2>1. i \in Nat /\ i - 1 \in Nat /\ i > 0
        /\ (\A j \in 1 .. i : counts[j] \in Nat) /\ (\A j \in 1 .. (i - 1) : counts[j] \in Nat)
    BY <1>1
  <2>2. UpTo(counts, i) \in Nat /\ UpTo(counts, i) = UpTo(counts, i - 1) + counts[i]
    BY <2>1, UpToAdds
  <2>3. UpTo(counts, i - 1) \in Nat
    BY <2>1, UpToAdds
  <2>4. UpTo(counts, i) <= UpTo(counts, n) /\ UpTo(counts, n) \in Nat
    BY <1>1, UpToMonotone
  <2> QED  BY <2>2, <2>3, <2>4
<1>7. \A i \in 1 .. n : \A id :
        id \in Logged(receipt', i)
          <=> \E k \in UpTo(counts, i - 1) + 1 .. UpTo(counts, i) : id = next + k - 1
  <2> TAKE i \in 1 .. n
  <2>1. Logged(receipt', i)
          = {receipt'.ids[k] : k \in UpTo(counts, i - 1) + 1 .. UpTo(counts, i)}
    BY <1>5 DEF Logged
  <2>2. \A k \in UpTo(counts, i - 1) + 1 .. UpTo(counts, i) :
          k \in DOMAIN slots /\ receipt'.ids[k] = next + k - 1
    BY <1>1, <1>3, <1>6
  <2> QED  BY <2>1, <2>2
<1>8. \A i \in 1 .. n :
        Logged(receipt', i) = next + UpTo(counts, i - 1) .. next + UpTo(counts, i) - 1
  <2> TAKE i \in 1 .. n
  <2> DEFINE a == UpTo(counts, i - 1)
             b == UpTo(counts, i)
  <2>1. a \in Nat /\ b \in Nat /\ next \in Nat
    BY <1>2, <1>6
  <2>2. \A id : id \in Logged(receipt', i) <=> \E k \in a + 1 .. b : id = next + k - 1
    BY <1>7
  <2> HIDE DEF a, b, next
  <2>3. \A id \in next + a .. next + b - 1 :
          id - next + 1 \in a + 1 .. b /\ id = next + (id - next + 1) - 1
    BY <2>1
  <2>4. \A k \in a + 1 .. b : next + k - 1 \in next + a .. next + b - 1
    BY <2>1
  <2>5. \A id : id \in Logged(receipt', i) <=> id \in next + a .. next + b - 1
    BY <2>2, <2>3, <2>4
  <2>6. Logged(receipt', i) = next + a .. next + b - 1
    BY <2>5
  <2> QED  BY <2>6 DEF a, b
<1>9. ASSUME NEW i \in 1 .. n
      PROVE  Cardinality(Logged(receipt', i)) = receipt'.logs[i].count
  <2> DEFINE a == UpTo(counts, i - 1)
             b == UpTo(counts, i)
  <2>1. a \in Nat /\ b \in Nat /\ next \in Nat /\ counts[i] \in Nat /\ b = a + counts[i]
    BY <1>1, <1>2, <1>6
  <2> HIDE DEF a, b, next
  <2>2. Cardinality(next + a .. next + b - 1) = counts[i]
    <3>1. next + a \in Int /\ next + b - 1 \in Int
      BY <2>1
    <3>2. Cardinality(next + a .. next + b - 1) =
            IF next + a > next + b - 1 THEN 0 ELSE (next + b - 1) - (next + a) + 1
      BY <3>1, FS_Interval
    <3>3. (next + b - 1) - (next + a) + 1 = counts[i]
          /\ (next + a > next + b - 1 <=> counts[i] = 0)
      BY <2>1
    <3> QED  BY <3>2, <3>3
  <2>3. receipt'.logs[i].count = counts[i]
    BY <1>13
  <2> QED  BY <1>8, <2>2, <2>3 DEF a, b, next
<1>10. ASSUME NEW i \in 1 .. n, NEW id \in Logged(receipt', i)
       PROVE  /\ id \in NewIds(slots)
              /\ LicenseOutput(id)' = [type |-> receipt'.logs[i].type,
                                       holder |-> receipt'.logs[i].holder,
                                       status |-> StatusAfter(receipt'.logs[i].event)]
  <2>1. PICK k \in UpTo(counts, i - 1) + 1 .. UpTo(counts, i) : id = next + k - 1
    BY <1>7
  <2>2. k \in 1 .. UpTo(counts, n) /\ UpTo(counts, i - 1) < k /\ k <= UpTo(counts, i)
    BY <1>6
  <2>3. i = EntryOf(counts, k)
    BY <1>1, <2>2, EntryFound
  <2>4. /\ id \in NewIds(slots) /\ SlotOf(id, slots) = slots[k]
    BY <1>1, <1>2, <2>1, <2>2, NewIdSlots
  <2>5. slots[k] = <<entries[i].type, CanonicalOf[entries[i].holder]>>
    BY <1>1, <2>2, <2>3
  <2>6. licenses'[id] = [type |-> entries[i].type, holder |-> CanonicalOf[entries[i].holder],
                         status |-> "active"]
    <3>1. IssueLicenses(caller, slots)
      BY DEF IssueLicensesCall, slots
    <3>2. licenses'[id] = [type |-> SlotOf(id, slots)[1], holder |-> SlotOf(id, slots)[2],
                           status |-> "active"]
      BY <1>2, <2>4, <3>1, IssueRecords
    <3> QED  BY ONLY <2>4, <2>5, <3>2
  <2>7. HexOf[CanonicalOf[entries[i].holder]] = entries[i].holder
    BY <1>1, EvmAddressAssumption DEF EntryArg
  <2>8. LicenseOutput(id)' = [type |-> licenses'[id].type,
                              holder |-> HexOf[licenses'[id].holder],
                              status |-> licenses'[id].status]
    BY DEF LicenseOutput
  <2>9. LicenseOutput(id)' = [type |-> entries[i].type, holder |-> entries[i].holder,
                              status |-> "active"]
    BY ONLY <2>6, <2>7, <2>8
  <2> QED  BY <1>13, <2>4, <2>9 DEF StatusAfter
<1>11. ASSUME NEW id \in NewIds(slots) PROVE \E i \in 1 .. n : id \in Logged(receipt', i)
  <2> DEFINE k == id - next + 1
             i == EntryOf(counts, k)
  <2>1. id \in Nat /\ k \in 1 .. UpTo(counts, n)
    BY <1>1, <1>2, NewIdSlots
  <2>2. i \in 1 .. n /\ UpTo(counts, i - 1) < k /\ k <= UpTo(counts, i)
    BY <1>1, <2>1, EntryFound
  <2>3. k \in UpTo(counts, i - 1) + 1 .. UpTo(counts, i) /\ id = next + k - 1
    <3> HIDE DEF i
    <3> QED  BY <1>2, <1>6, <2>1, <2>2
  <2> HIDE DEF i, k
  <2> QED  BY <1>7, <2>2, <2>3
<1>12. TellsAll
  <2>1. IssueLicenses(caller, slots)
    BY DEF IssueLicensesCall, slots
  <2>2. /\ DOMAIN licenses \cap NewIds(slots) = {}
        /\ DOMAIN licenses' = DOMAIN licenses \cup NewIds(slots)
        /\ \A id \in DOMAIN licenses : licenses'[id] = licenses[id]
    BY <1>2, <2>1, IssueRecords
  <2> QED  BY <1>4, <1>10, <1>11, <2>2 DEF TellsAll
<1> QED  BY <1>4, <1>9, <1>10, <1>12 DEF Tells

LEMMA RevokeTold ==
  ASSUME LicenseInv, NEW caller, NEW type, NEW holder \in EvmAddresses,
         NEW count \in 1 .. MaxIssued, RevokeLicensesCall(caller, type, holder, count)
  PROVE  (\A i \in DOMAIN receipt'.logs : Tells(i)) /\ TellsAll
<1> DEFINE string  == CanonicalOf[holder]
           revoked == NewestActive(string, type, count)
<1>1. /\ RevokeLicenses(caller, string, type, count)
      /\ receipt' = [ids |-> Descending(revoked),
                     logs |-> <<Log("LicenseRevoked", type, holder, count)>>]
  BY DEF RevokeLicensesCall
<1>2. TypeInv /\ IndexesExact /\ CountersExact
  BY DEF LicenseInv, LicensesReimportable
<1>3. /\ revoked \subseteq HeldBy(string, type)
      /\ IsFiniteSet(revoked) /\ Cardinality(revoked) = count /\ count \in Nat
  BY <1>1, <1>2, RevokedOutstanding
<1>4. \A id \in revoked : /\ id \in DOMAIN licenses /\ id \in Nat
                          /\ licenses[id].type = type /\ licenses[id].holder = string
                          /\ licenses[id].status = "active"
  BY <1>2, <1>3 DEF HeldBy, Outstanding, OfType, TypeInv, RecordTypes
<1> HIDE DEF revoked, string
<1>5. Descending(revoked) \in Bijection(1 .. count, revoked)
  BY <1>3, <1>4, DescendingWalk
<1>6. /\ DOMAIN receipt'.logs = {1}
      /\ receipt'.logs[1] = Log("LicenseRevoked", type, holder, count)
      /\ receipt'.ids = Descending(revoked)
  BY <1>1
<1>7. Logged(receipt', 1) = revoked
  <2> DEFINE counts == CountsOf(receipt'.logs)
  <2>1. counts[1] = count
    BY <1>6 DEF CountsOf, Log
  <2> HIDE DEF counts
  <2>2. UpTo(counts, 0) = 0
    BY UpToAdds
  <2>3. UpTo(counts, 1) = count
    <3>1. \A i \in 1 .. 1 : counts[i] \in Nat
      BY <1>3, <2>1
    <3>2. UpTo(counts, 1) = UpTo(counts, 1 - 1) + counts[1]
      BY <3>1, UpToAdds
    <3> QED  BY <1>3, <2>1, <2>2, <3>2
  <2>4. Logged(receipt', 1) = {receipt'.ids[k] : k \in UpTo(counts, 0) + 1 .. UpTo(counts, 1)}
    BY DEF Logged, counts
  <2>5. Logged(receipt', 1) = {Descending(revoked)[k] : k \in 1 .. count}
    BY <1>6, <2>2, <2>3, <2>4
  <2> QED  BY <1>5, <2>5 DEF Bijection, Injection, Surjection
<1>8. /\ DOMAIN licenses' = DOMAIN licenses
      /\ \A id \in DOMAIN licenses :
           licenses'[id] = IF id \in revoked THEN [licenses[id] EXCEPT !.status = "revoked"]
                           ELSE licenses[id]
  BY <1>1 DEF RevokeLicenses, revoked
<1>9. \A id \in revoked : licenses'[id].type = type /\ licenses'[id].holder = string
                          /\ licenses'[id].status = "revoked"
  BY <1>1, <1>2, <1>4, RevokeRecords DEF revoked
<1>10. HexOf[string] = holder
  BY EvmAddressAssumption DEF string
<1>11. Tells(1)
  BY <1>3, <1>6, <1>7, <1>9, <1>10 DEF Tells, LicenseOutput, StatusAfter, Log
<1>12. TellsAll
  BY <1>4, <1>6, <1>7, <1>8, <1>9 DEF TellsAll
<1> QED  BY <1>6, <1>11, <1>12

(* A contract that books what a call returned and logged has the whole     *)
(* change and nothing else, for entries and batches of any number and      *)
(* size: the n-th log stands for the n-th stretch of the returned ids, as  *)
(* long as the log says, and the call gave just these licenses the status, *)
(* type and holder that the log names.                                     *)
THEOREM ReceiptsComplete == PrecompileSpec => ReceiptsTellChange
<1> DEFINE Told == (\A i \in DOMAIN receipt'.logs : Tells(i)) /\ TellsAll
<1>1. LicenseInv /\ PrecompileNext => receipt' = NoReceipt \/ Told
  <2> SUFFICES ASSUME LicenseInv, PrecompileNext, receipt' # NoReceipt PROVE Told
    OBVIOUS
  <2>1. PICK caller \in accounts \cap EvmAddresses :
          \/ \E entries \in EntryLists : IssueLicensesCall(caller, entries)
          \/ \E type \in LicenseTypeIds, holder \in EvmAddresses, count \in 1 .. MaxIssued :
               RevokeLicensesCall(caller, type, holder, count)
    BY DEF PrecompileNext, Message, Call, CreateLicenseTypeCall, UpdateLicenseTypeCall
  <2> HIDE DEF Told
  <2>2. ASSUME NEW entries \in EntryLists, IssueLicensesCall(caller, entries) PROVE Told
    BY <2>2, IssueTold DEF Told, LicenseInv
  <2>3. ASSUME NEW type \in LicenseTypeIds, NEW holder \in EvmAddresses,
               NEW count \in 1 .. MaxIssued, RevokeLicensesCall(caller, type, holder, count)
        PROVE  Told
    BY <2>3, RevokeTold DEF Told
  <2> QED  BY <2>1, <2>2, <2>3
<1> HIDE DEF Told
<1>2. PrecompileSpec => [][receipt' = NoReceipt \/ Told]_<<vars, receipt>>
  BY <1>1, CallsAreMessages, SpecIsOpen, InvAlways, PTL DEF PrecompileSpec
<1>3. (receipt' = NoReceipt \/ Told)
        => (receipt' # NoReceipt =>
              /\ \A i \in DOMAIN receipt'.logs :
                   LET log == receipt'.logs[i]
                   IN  /\ Cardinality(Logged(receipt', i)) = log.count
                       /\ \A id \in Logged(receipt', i) :
                            LicenseOutput(id)' = [type |-> log.type, holder |-> log.holder,
                                                  status |-> StatusAfter(log.event)]
              /\ \A id \in DOMAIN licenses' :
                   (id \in DOMAIN licenses => licenses[id] # licenses'[id])
                     <=> \E i \in DOMAIN receipt'.logs : id \in Logged(receipt', i))
  BY DEF Told, Tells, TellsAll
<1> QED  BY <1>2, <1>3, PTL DEF ReceiptsTellChange
=============================================================================
