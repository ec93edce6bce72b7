--------------------------- MODULE WebstackProofs ---------------------------
(***************************************************************************)
(* Proofs about the three modules together: x/license and x/permission are *)
(* an environment x/network expects, for any numbers of operators,         *)
(* spellings, types, licenses and grants and batches of any size.          *)
(***************************************************************************)
EXTENDS Webstack, FiniteSetTheorems, SequenceTheorems, TLAPS

(* INSTANCE Network brings its own name for the cardinality of a set.      *)
LEMMA SameCardinality == \A S : N!Cardinality(S) = Cardinality(S)
BY DEF Cardinality, N!Cardinality

-----------------------------------------------------------------------------
(* The holder index lists ids the sequence is past, and nothing else, so   *)
(* the licenses of a batch add to what was counted.                        *)

IndexedIds ==
  /\ nextLicenseID \in Nat \ {0}
  /\ \A entry \in activeLicensesByHolder : entry[3] \in Nat /\ entry[3] < nextLicenseID

LEMMA BatchLength ==
  ASSUME NEW slots \in Batches
  PROVE  /\ Len(slots) \in Nat /\ Len(slots) <= MaxBatch
         /\ DOMAIN slots = 1 .. Len(slots)
         /\ \A i \in 1 .. Len(slots) : slots[i] \in LicenseTypeIds \X Holders
<1>1. PICK n \in 1 .. MaxBatch : slots \in [1 .. n -> LicenseTypeIds \X Holders]
  BY DEF Batches
<1>2. n \in Nat
  BY LicenseBoundAssumption
<1>3. slots \in Seq(LicenseTypeIds \X Holders)
  BY <1>1, <1>2, SeqDef
<1>4. Len(slots) = n
  BY <1>1, <1>2, <1>3, LenProperties
<1> QED  BY <1>1, <1>2, <1>4

LEMMA IndexedIdsStep == IndexedIds /\ WebstackNext => IndexedIds'
<1> SUFFICES ASSUME IndexedIds, WebstackNext PROVE IndexedIds'
  OBVIOUS
<1>1. CASE UNCHANGED <<nextLicenseID, activeLicensesByHolder>>
  BY <1>1 DEF IndexedIds
<1>2. ASSUME NEW signer \in accounts, NEW slots \in Batches, IssueLicenses(signer, slots)
      PROVE  IndexedIds'
  <2>1. Len(slots) \in Nat
    BY BatchLength
  <2>2. nextLicenseID' = nextLicenseID + Len(slots)
    BY <1>2 DEF IssueLicenses, NextId
  <2>3. ASSUME NEW entry \in activeLicensesByHolder'
        PROVE  entry[3] \in Nat /\ entry[3] < nextLicenseID'
    <3>1. CASE entry \in activeLicensesByHolder
      <4>1. entry[3] \in Nat /\ entry[3] < nextLicenseID
        BY <3>1 DEF IndexedIds
      <4> QED  BY <4>1, <2>1, <2>2 DEF IndexedIds
    <3>2. CASE entry \notin activeLicensesByHolder
      <4>1. PICK id \in NewIds(slots) :
              entry = <<SlotOf(id, slots)[2], SlotOf(id, slots)[1], id>>
        BY <1>2, <3>2 DEF IssueLicenses
      <4> QED  BY <4>1, <2>1, <2>2 DEF NewIds, IndexedIds
    <3> QED  BY <3>1, <3>2
  <2> QED  BY <2>1, <2>2, <2>3 DEF IndexedIds
<1>3. ASSUME NEW signer \in accounts, NEW holder \in Holders, NEW type \in LicenseTypeIds,
             NEW count \in 1 .. MaxIssued, RevokeLicenses(signer, holder, type, count)
      PROVE  IndexedIds'
  BY <1>3 DEF RevokeLicenses, IndexedIds
<1>4. CASE LicenseStep
  BY <1>1, <1>2, <1>3, <1>4
  DEF LicenseStep, LicenseNext, CreateLicenseType, UpdateLicenseType
<1>5. CASE PermissionStep \/ NetworkStep
  BY <1>1, <1>5 DEF PermissionStep, NetworkStep, licenseVars
<1> QED  BY <1>4, <1>5 DEF WebstackNext

-----------------------------------------------------------------------------
(* The grants of the namespace of x/network are those it registers.        *)

NetworkGrantsOK == NetworkGrants(grants) \subseteq Admins \X N!Permissions

LEMMA NetworkGrantsStep ==
  ASSUME NetworkGrantsOK, PermissionStep
  PROVE  NetworkGrantsOK'
<1>1. ASSUME NEW key \in grants', key \notin grants, key[1] = "network"
      PROVE  key[2] \in Admins /\ key[3] \in N!Permissions
  <2>1. PICK module \in Edited, grantee \in Admins, pairs \in Namespaces!Messages :
          \E signer \in Admins : Namespaces!GrantPermissions(signer, module, grantee, pairs)
    BY <1>1 DEF PermissionStep, Namespaces!PermissionNext, Namespaces!UpdateNamespaceOwner,
                Namespaces!TransferOwnership, Namespaces!RevokePermissions
  <2>2. key \in Namespaces!GrantsOf(module, grantee, pairs)
    BY <1>1, <2>1 DEF Namespaces!GrantPermissions
  <2>3. PICK pair \in pairs : key = <<module, grantee, pair[1], pair[2]>>
    BY <2>2 DEF Namespaces!GrantsOf
  <2>4. module = "network" /\ key[2] = grantee /\ key[3] = pair[1]
    BY <1>1, <2>3
  <2>5. pair[1] \in {"wallet.create", "nodetype.create"}
    BY <2>1, <2>3, <2>4
    DEF Namespaces!GrantPermissions, Namespaces!PairsValid, Namespaces!ValidPair
  <2> QED  BY <2>4, <2>5 DEF N!Permissions
<1>2. ASSUME NEW key \in grants', key[1] = "network", key[4] = "none"
      PROVE  <<key[2], key[3]>> \in Admins \X N!Permissions
  <2>1. CASE key \in grants
    BY <1>2, <2>1 DEF NetworkGrantsOK, NetworkGrants
  <2> QED  BY <1>1, <1>2, <2>1
<1> QED  BY <1>2 DEF NetworkGrantsOK, NetworkGrants

-----------------------------------------------------------------------------
(* What x/network sees of a step of x/license                              *)

(* The licenses of each operator as x/network reads them.                  *)
Held(op, type) == CountActiveLicenses(Canonical[op], type)
HeldByAll == [op \in Operators |-> [type \in LicenseTypeIds |-> Held(op, type)]]

LEMMA ActiveIdsFinite ==
  ASSUME IndexedIds, NEW holder, NEW type
  PROVE  /\ IsFiniteSet(ActiveIds(holder, type))
         /\ Cardinality(ActiveIds(holder, type)) \in Nat
<1>1. IsFiniteSet(1 .. (nextLicenseID - 1))
  BY FS_Interval DEF IndexedIds
<1>2. ActiveIds(holder, type) \subseteq 1 .. (nextLicenseID - 1)
  BY DEF ActiveIds
<1> QED  BY <1>1, <1>2, FS_Subset, FS_CardinalityType

(* A batch as x/network counts it: per operator and type, the licenses     *)
(* issued to the canonical spelling; 0 for an operator named otherwise.    *)
Touched(slots) == {<<AccountOf[slots[i][2]], slots[i][1]>> : i \in DOMAIN slots}
NewFor(slots, op, type) ==
  {id \in NewIds(slots) : SlotOf(id, slots) = <<type, Canonical[op]>>}
Counts(slots) ==
  [holding \in Touched(slots) |-> Cardinality(NewFor(slots, holding[1], holding[2]))]

LEMMA TouchedBounded ==
  ASSUME NEW slots \in Batches
  PROVE  /\ Touched(slots) \subseteq Operators \X LicenseTypeIds
         /\ Cardinality(Touched(slots)) <= MaxBatch
<1> DEFINE f == [i \in 1 .. Len(slots) |-> <<AccountOf[slots[i][2]], slots[i][1]>>]
<1>1. /\ Len(slots) \in Nat /\ Len(slots) <= MaxBatch
      /\ DOMAIN slots = 1 .. Len(slots)
      /\ \A i \in 1 .. Len(slots) : slots[i] \in LicenseTypeIds \X Holders
  BY BatchLength
<1>2. Touched(slots) \subseteq Operators \X LicenseTypeIds
  BY <1>1, HoldersOperateAssumption DEF Touched
<1>3. f \in Surjection(1 .. Len(slots), Touched(slots))
  BY <1>1 DEF Surjection, Touched
<1>4. IsFiniteSet(1 .. Len(slots)) /\ Cardinality(1 .. Len(slots)) = Len(slots)
  BY <1>1, FS_Interval
<1>5. /\ IsFiniteSet(Touched(slots))
      /\ Cardinality(Touched(slots)) <= Cardinality(1 .. Len(slots))
  BY <1>3, <1>4, FS_Surjection
<1>6. Cardinality(Touched(slots)) \in Nat
  BY <1>5, FS_CardinalityType
<1> QED  BY <1>1, <1>2, <1>4, <1>5, <1>6, LicenseBoundAssumption

LEMMA IssueAdds ==
  ASSUME IndexedIds, NEW signer, NEW slots \in Batches, IssueLicenses(signer, slots),
         NEW op \in Operators, NEW type \in LicenseTypeIds
  PROVE  /\ Cardinality(NewFor(slots, op, type)) \in Nat
         /\ Held(op, type)' = Held(op, type) + Cardinality(NewFor(slots, op, type))
         /\ Held(op, type)' < nextLicenseID + Len(slots)
         /\ <<op, type>> \notin Touched(slots) => Cardinality(NewFor(slots, op, type)) = 0
<1> DEFINE old   == ActiveIds(Canonical[op], type)
           new   == NewFor(slots, op, type)
<1>1. /\ Len(slots) \in Nat /\ DOMAIN slots = 1 .. Len(slots)
      /\ \A i \in 1 .. Len(slots) : slots[i] \in LicenseTypeIds \X Holders
  BY BatchLength
<1>2. nextLicenseID \in Nat \ {0} /\ nextLicenseID' = nextLicenseID + Len(slots)
  BY DEF IndexedIds, IssueLicenses, NextId
<1>3. ASSUME NEW id \in NewIds(slots)
      PROVE  /\ id \in Nat /\ id >= nextLicenseID /\ id < nextLicenseID + Len(slots)
             /\ SlotOf(id, slots) \in LicenseTypeIds \X Holders
             /\ id - nextLicenseID + 1 \in DOMAIN slots
  BY <1>1, <1>2 DEF NewIds, SlotOf
<1>4. \A id \in NewIds(slots) :
        <<Canonical[op], type, id>> = <<SlotOf(id, slots)[2], SlotOf(id, slots)[1], id>>
          <=> SlotOf(id, slots) = <<type, Canonical[op]>>
  BY <1>3
<1>5. ActiveIds(Canonical[op], type)' = old \cup new
  <2>1. ASSUME NEW id \in ActiveIds(Canonical[op], type)' PROVE id \in old \cup new
    <3>1. /\ id \in 1 .. (nextLicenseID' - 1)
          /\ <<Canonical[op], type, id>> \in activeLicensesByHolder'
      BY <2>1 DEF ActiveIds
    <3>2. CASE <<Canonical[op], type, id>> \in activeLicensesByHolder
      <4>1. id < nextLicenseID
        BY <3>2 DEF IndexedIds
      <4> QED  BY <3>1, <3>2, <4>1, <1>1, <1>2 DEF ActiveIds
    <3>3. CASE <<Canonical[op], type, id>> \notin activeLicensesByHolder
      <4>1. PICK x \in NewIds(slots) :
              <<Canonical[op], type, id>> = <<SlotOf(x, slots)[2], SlotOf(x, slots)[1], x>>
        BY <3>1, <3>3 DEF IssueLicenses
      <4>2. x = id
        BY <4>1
      <4> QED  BY <4>1, <4>2, <1>4 DEF NewFor
    <3> QED  BY <3>2, <3>3
  <2>2. ASSUME NEW id \in old PROVE id \in ActiveIds(Canonical[op], type)'
    BY <2>2, <1>1, <1>2 DEF ActiveIds, IssueLicenses
  <2>3. ASSUME NEW id \in new PROVE id \in ActiveIds(Canonical[op], type)'
    <3>1. id \in NewIds(slots) /\ SlotOf(id, slots) = <<type, Canonical[op]>>
      BY <2>3 DEF NewFor
    <3>2. <<Canonical[op], type, id>> \in activeLicensesByHolder'
      BY <3>1, <1>4 DEF IssueLicenses
    <3> QED  BY <3>1, <3>2, <1>1, <1>2, <1>3 DEF ActiveIds
  <2> QED  BY <2>1, <2>2, <2>3
<1>6. IsFiniteSet(old) /\ Cardinality(old) \in Nat
  BY ActiveIdsFinite
<1>7. IsFiniteSet(new) /\ Cardinality(new) \in Nat
  <2>1. IsFiniteSet(NewIds(slots))
    BY <1>1, <1>2, FS_Interval DEF NewIds
  <2>2. new \subseteq NewIds(slots)
    BY DEF NewFor
  <2> QED  BY <2>1, <2>2, FS_Subset, FS_CardinalityType
<1>8. old \cap new = {}
  BY <1>2, <1>3 DEF ActiveIds, NewFor
<1>9. Cardinality(old \cup new) = Cardinality(old) + Cardinality(new)
  <2> HIDE DEF old, new
  <2> QED  BY <1>6, <1>7, <1>8, FS_Union, FS_EmptySet
<1>10. Cardinality(old \cup new) < nextLicenseID + Len(slots)
  <2> DEFINE last == nextLicenseID + Len(slots) - 1
  <2>1. /\ IsFiniteSet(1 .. last) /\ Cardinality(1 .. last) = last
    <3>1. last \in Nat /\ 1 \in Int /\ last \in Int
      BY <1>1, <1>2
    <3> HIDE DEF last
    <3> QED  BY ONLY <3>1, FS_Interval
  <2>2. old \cup new \subseteq 1 .. last
    <3>1. ActiveIds(Canonical[op], type)' \subseteq 1 .. (nextLicenseID' - 1)
      BY DEF ActiveIds
    <3> QED  BY <3>1, <1>2, <1>5
  <2>3. Cardinality(old \cup new) <= last
    <3> HIDE DEF old, new, last
    <3> QED  BY <2>1, <2>2, FS_Subset
  <2> HIDE DEF old, new
  <2> QED  BY <2>3, <1>1, <1>2, <1>6, <1>7, <1>9
<1>11. ASSUME <<op, type>> \notin Touched(slots) PROVE Cardinality(new) = 0
  <2>1. ASSUME NEW id \in new PROVE FALSE
    <3>1. id \in NewIds(slots) /\ SlotOf(id, slots) = <<type, Canonical[op]>>
      BY <2>1 DEF NewFor
    <3>2. slots[id - nextLicenseID + 1] = <<type, Canonical[op]>>
      BY <3>1 DEF SlotOf
    <3> QED  BY <1>3, <1>11, <3>1, <3>2, CanonicalAssumption DEF Touched
  <2>2. new = {}
    BY <2>1
  <2> QED  BY <2>2, FS_EmptySet
<1> HIDE DEF new
<1>12. Held(op, type) = Cardinality(old) /\ Held(op, type)' = Cardinality(old \cup new)
  BY <1>5 DEF Held, CountActiveLicenses
<1> QED  BY <1>7, <1>9, <1>10, <1>11, <1>12 DEF new

(* A revocation takes from the one operator whose canonical spelling it    *)
(* names, if any.                                                          *)
LEMMA RevokeTakes ==
  ASSUME IndexedIds, NEW signer, NEW holder \in Holders, NEW lt \in LicenseTypeIds,
         NEW count \in 1 .. MaxIssued, RevokeLicenses(signer, holder, lt, count),
         NEW op \in Operators, NEW type \in LicenseTypeIds
  PROVE  /\ Canonical[op] # holder \/ type # lt => Held(op, type)' = Held(op, type)
         /\ Canonical[op] = holder /\ type = lt =>
              Held(op, type) >= count /\ Held(op, type)' = Held(op, type) - count
<1> DEFINE old  == ActiveIds(Canonical[op], type)
           gone == NewestActive(holder, lt, count)
<1>1. /\ nextLicenseID' = nextLicenseID
      /\ activeLicensesByHolder' = activeLicensesByHolder \ {<<holder, lt, id>> : id \in gone}
      /\ Cardinality(gone) = count
  BY DEF RevokeLicenses, EnoughActive
<1>2. ASSUME Canonical[op] # holder \/ type # lt PROVE Held(op, type)' = Held(op, type)
  <2>1. ActiveIds(Canonical[op], type)' = old
    BY <1>1, <1>2 DEF ActiveIds
  <2> QED  BY <2>1 DEF Held, CountActiveLicenses
<1>3. ASSUME Canonical[op] = holder, type = lt
      PROVE  Held(op, type) >= count /\ Held(op, type)' = Held(op, type) - count
  <2>1. ActiveIds(Canonical[op], type)' = old \ gone
    BY <1>1, <1>3 DEF ActiveIds
  <2>2. gone \subseteq old
    BY <1>3 DEF NewestActive
  <2>3. IsFiniteSet(old) /\ Cardinality(old) \in Nat
    BY ActiveIdsFinite
  <2>4. Held(op, type) = Cardinality(old) /\ Held(op, type)' = Cardinality(old \ gone)
    BY <2>1 DEF Held, CountActiveLicenses
  <2> HIDE DEF old, gone
  <2>5. Cardinality(gone) <= Cardinality(old)
    BY <2>2, <2>3, FS_Subset
  <2>6. Cardinality(old \ gone) = Cardinality(old) - Cardinality(gone)
    <3>1. old \cap gone = gone
      BY <2>2
    <3> QED  BY <2>3, <3>1, FS_Difference
  <2>7. count \in Nat
    BY LicenseBoundAssumption
  <2> QED  BY <1>1, <2>3, <2>4, <2>5, <2>6, <2>7
<1> QED  BY <1>2, <1>3

-----------------------------------------------------------------------------
(* Every step is one Network allows                                        *)

LEMMA IssueMaps ==
  ASSUME IndexedIds, UNCHANGED networkVars, NEW signer, NEW slots \in Batches,
         nextLicenseID + Len(slots) - 1 <= MaxIssued, IssueLicenses(signer, slots)
  PROVE  N!IssueLicenses(Counts(slots)) /\ Counts(slots) \in N!Batches
<1> DEFINE batch == Counts(slots)
<1>1. /\ Len(slots) \in Nat /\ DOMAIN slots = 1 .. Len(slots)
      /\ \A i \in 1 .. Len(slots) : slots[i] \in LicenseTypeIds \X Holders
  BY BatchLength
<1>2. DOMAIN batch = Touched(slots) /\ Touched(slots) \subseteq Operators \X LicenseTypeIds
  BY TouchedBounded DEF Counts
<1>3. ASSUME NEW op \in Operators, NEW type \in LicenseTypeIds
      PROVE  /\ Held(op, type) \in Nat /\ N!Issued(batch, op, type) \in Nat
             /\ Held(op, type)' = Held(op, type) + N!Issued(batch, op, type)
             /\ Held(op, type)' <= MaxIssued
  <2>1. N!Issued(batch, op, type) = Cardinality(NewFor(slots, op, type))
    <3>1. CASE <<op, type>> \in Touched(slots)
      BY <1>2, <3>1 DEF N!Issued, Counts
    <3>2. CASE <<op, type>> \notin Touched(slots)
      BY <1>2, <3>2, IssueAdds DEF N!Issued
    <3> QED  BY <3>1, <3>2
  <2>2. Held(op, type) \in Nat
    BY ActiveIdsFinite DEF Held, CountActiveLicenses
  <2>3. /\ Cardinality(NewFor(slots, op, type)) \in Nat
        /\ Held(op, type)' = Held(op, type) + Cardinality(NewFor(slots, op, type))
        /\ Held(op, type)' < nextLicenseID + Len(slots)
    BY IssueAdds
  <2> QED  BY <1>1, <2>1, <2>2, <2>3, LicenseBoundAssumption DEF IndexedIds
<1>4. batch \in N!Batches
  <2>1. ASSUME NEW holding \in Touched(slots) PROVE batch[holding] \in 0 .. MaxIssued
    <3>1. /\ holding = <<holding[1], holding[2]>>
          /\ holding[1] \in Operators /\ holding[2] \in LicenseTypeIds
      BY <1>2, <2>1
    <3>2. N!Issued(batch, holding[1], holding[2]) = batch[holding]
      BY <1>2, <2>1, <3>1 DEF N!Issued
    <3> QED  BY <1>3, <3>1, <3>2, LicenseBoundAssumption
  <2>2. batch \in [Touched(slots) -> 0 .. MaxIssued]
    BY <2>1 DEF Counts
  <2>3. N!Cardinality(Touched(slots)) <= MaxBatch
    BY TouchedBounded, SameCardinality
  <2> QED  BY <1>2, <2>2, <2>3 DEF N!Batches
<1>5. ASSUME NEW holding \in DOMAIN batch
      PROVE  /\ holding[2] \in DOMAIN licenseTypes
             /\ HeldByAll[holding[1]][holding[2]] + batch[holding] <= MaxIssued
  <2>1. PICK i \in DOMAIN slots : holding = <<AccountOf[slots[i][2]], slots[i][1]>>
    BY <1>2, <1>5 DEF Touched
  <2>2. holding[2] \in DOMAIN licenseTypes
    BY <2>1 DEF IssueLicenses
  <2>3. /\ holding = <<holding[1], holding[2]>>
        /\ holding[1] \in Operators /\ holding[2] \in LicenseTypeIds
    BY <1>2, <1>5
  <2>4. N!Issued(batch, holding[1], holding[2]) = batch[holding]
    BY <1>5, <2>3 DEF N!Issued
  <2> QED  BY <1>3, <2>2, <2>3, <2>4 DEF HeldByAll
<1>6. HeldByAll' = [op \in Operators |->
                      [lt \in LicenseTypeIds |-> HeldByAll[op][lt] + N!Issued(batch, op, lt)]]
  BY <1>3 DEF HeldByAll
<1>7. accounts' = accounts \cup {holding[1] : holding \in DOMAIN batch}
  <2>1. {holding[1] : holding \in Touched(slots)} = {AccountOf[slots[i][2]] : i \in DOMAIN slots}
    <3>1. ASSUME NEW i \in DOMAIN slots
          PROVE  AccountOf[slots[i][2]] \in {holding[1] : holding \in Touched(slots)}
      <4>1. <<AccountOf[slots[i][2]], slots[i][1]>> \in Touched(slots)
        BY DEF Touched
      <4>2. <<AccountOf[slots[i][2]], slots[i][1]>>[1] = AccountOf[slots[i][2]]
        OBVIOUS
      <4> QED  BY <4>1, <4>2
    <3>2. ASSUME NEW holding \in Touched(slots)
          PROVE  holding[1] \in {AccountOf[slots[i][2]] : i \in DOMAIN slots}
      BY DEF Touched
    <3> QED  BY <3>1, <3>2
  <2> QED  BY <1>2, <2>1 DEF IssueLicenses, AccountsAfterIssue
<1>8. DOMAIN licenseTypes' = DOMAIN licenseTypes /\ NetworkGrants(grants)' = NetworkGrants(grants)
  BY DEF IssueLicenses, TypesAfterIssue, NetworkGrants
<1> HIDE DEF batch
<1>9. N!IssueLicenses(batch)
  BY <1>5, <1>6, <1>7, <1>8
  DEF N!IssueLicenses, HeldByAll, Held, networkVars, N!registryVars, N!keyVars, N!nodeVars,
      N!bankVars, N!quotaVars
<1> QED  BY <1>4, <1>9 DEF batch

LEMMA LicenseStepMaps ==
  ASSUME IndexedIds, LicenseStep
  PROVE  [N!Next]_N!vars
<1>1. ASSUME NEW signer \in accounts, NEW slots \in Batches,
             nextLicenseID + Len(slots) - 1 <= MaxIssued, IssueLicenses(signer, slots)
      PROVE  N!Next
  BY <1>1, IssueMaps DEF LicenseStep, N!Next, N!QuietNext, N!EnvNext
<1>2. ASSUME NEW signer \in accounts, NEW holder \in Holders, NEW lt \in LicenseTypeIds,
             NEW count \in 1 .. MaxIssued, RevokeLicenses(signer, holder, lt, count)
      PROVE  [N!Next]_N!vars
  <2>1. /\ UNCHANGED <<networkVars, accounts, owners, grants>>
        /\ lt \in DOMAIN licenseTypes /\ DOMAIN licenseTypes' = DOMAIN licenseTypes
    BY <1>2 DEF LicenseStep, RevokeLicenses
  <2>2. CASE \E op \in Operators : Canonical[op] = holder
    <3>1. PICK op \in Operators : Canonical[op] = holder
      BY <2>2
    <3>2. \A other \in Operators : Canonical[other] = holder => other = op
      BY <3>1, CanonicalAssumption
    <3>3. HeldByAll' = [HeldByAll EXCEPT ![op][lt] = @ - count]
      <4>1. ASSUME NEW o \in Operators, NEW t \in LicenseTypeIds
            PROVE  Held(o, t)' = IF o = op /\ t = lt THEN Held(o, t) - count ELSE Held(o, t)
        <5>1. CASE o = op /\ t = lt
          <6>1. Canonical[o] = holder
            BY <3>1, <5>1
          <6> QED  BY <1>2, <5>1, <6>1, RevokeTakes
        <5>2. CASE o # op \/ t # lt
          <6>1. Canonical[o] # holder \/ t # lt
            BY <3>2, <5>2
          <6>2. Held(o, t)' = Held(o, t)
            BY <1>2, <6>1, RevokeTakes
          <6> QED  BY <5>2, <6>2
        <5> QED  BY <5>1, <5>2
      <4> QED  BY <4>1 DEF HeldByAll
    <3>4. HeldByAll[op][lt] >= count
      BY <1>2, <3>1, RevokeTakes DEF HeldByAll
    <3>5. N!RevokeLicenses(op, lt, count)
      BY <2>1, <3>3, <3>4
      DEF N!RevokeLicenses, HeldByAll, Held, NetworkGrants, networkVars, N!fleetVars,
          N!registryVars, N!keyVars, N!nodeVars, N!bankVars, N!quotaVars
    <3> QED  BY <3>5 DEF N!Next, N!QuietNext, N!EnvNext
  <2>3. CASE ~ \E op \in Operators : Canonical[op] = holder
    <3>1. HeldByAll' = HeldByAll
      <4>1. ASSUME NEW o \in Operators, NEW t \in LicenseTypeIds
            PROVE  Held(o, t)' = Held(o, t)
        BY <1>2, <2>3, RevokeTakes
      <4> QED  BY <4>1 DEF HeldByAll
    <3> QED
      BY <2>1, <3>1
      DEF N!vars, HeldByAll, Held, NetworkGrants, networkVars, N!fleetVars, N!envVars,
          N!registryVars, N!keyVars, N!nodeVars, N!bankVars, N!quotaVars
  <2> QED  BY <2>2, <2>3
<1>3. ASSUME UNCHANGED <<activeLicensesByHolder, nextLicenseID, accounts, grants>>
      PROVE  /\ UNCHANGED HeldByAll
             /\ UNCHANGED <<N!fleetVars, N!quotaVars, NetworkGrants(grants), now>>
  BY <1>3
  DEF LicenseStep, HeldByAll, Held, CountActiveLicenses, ActiveIds, NetworkGrants, networkVars,
      N!fleetVars, N!registryVars, N!keyVars, N!nodeVars, N!bankVars, N!quotaVars
<1>4. ASSUME NEW signer \in accounts, NEW type \in LicenseTypeIds,
             NEW transferrable \in BOOLEAN, NEW maxSupply \in SupplyChoices,
             CreateLicenseType(signer, type, transferrable, maxSupply)
      PROVE  N!Next
  <2>1. /\ type \notin DOMAIN licenseTypes
        /\ DOMAIN licenseTypes' = DOMAIN licenseTypes \cup {type}
    BY <1>4 DEF CreateLicenseType, TypeFree, Overlay
  <2>2. N!CreateLicenseType(type)
    BY <1>3, <1>4, <2>1 DEF CreateLicenseType, N!CreateLicenseType, HeldByAll, Held
  <2> QED  BY <2>2 DEF N!Next, N!QuietNext, N!EnvNext
<1>5. ASSUME NEW signer \in accounts, NEW type \in LicenseTypeIds,
             NEW transferrable \in BOOLEAN, UpdateLicenseType(signer, type, transferrable)
      PROVE  UNCHANGED N!vars
  <2>1. DOMAIN licenseTypes' = DOMAIN licenseTypes
    BY <1>5 DEF UpdateLicenseType
  <2> QED
    BY <1>3, <1>5, <2>1 DEF UpdateLicenseType, N!vars, N!envVars, HeldByAll, Held
<1> QED  BY <1>1, <1>2, <1>4, <1>5 DEF LicenseStep, LicenseNext

LEMMA PermissionStepMaps ==
  ASSUME NetworkGrantsOK, PermissionStep
  PROVE  N!Next
<1>1. NetworkGrants(grants') \in SUBSET (Admins \X N!Permissions)
  BY NetworkGrantsStep DEF NetworkGrantsOK, NetworkGrants
<1>2. N!ChangeGrants(NetworkGrants(grants'))
  BY DEF PermissionStep, N!ChangeGrants, CountActiveLicenses, ActiveIds, licenseVars,
         networkVars, N!fleetVars, N!registryVars, N!keyVars, N!nodeVars, N!bankVars,
         N!quotaVars, NetworkGrants
<1> QED  BY <1>1, <1>2 DEF N!Next, N!QuietNext, N!EnvNext

LEMMA NetworkStepMaps == NetworkStep => N!Next
BY DEF NetworkStep, N!Next, N!QuietNext, N!EnvNext

LEMMA StutterMaps == UNCHANGED <<vars, networkVars>> => UNCHANGED N!vars
BY DEF vars, licenseVars, networkVars, N!vars, N!fleetVars, N!registryVars, N!keyVars,
       N!nodeVars, N!bankVars, N!quotaVars, N!envVars, CountActiveLicenses, ActiveIds,
       NetworkGrants

(* The three modules together implement Network with its free environment: *)
(* whatever x/license and x/permission do, x/network was checked and       *)
(* proved against.                                                         *)
THEOREM ComposedImplementsNetwork == WebstackSpec => NetworkOverLicenses
<1> DEFINE Inv == IndexedIds /\ NetworkGrantsOK
<1>1. WebstackInit => Inv
  BY NetworkGenesisAssumption DEF WebstackInit, Init, IndexedIds, NetworkGrantsOK, FirstLicenseID
<1>2. Inv /\ [WebstackNext]_<<vars, networkVars>> => Inv'
  <2>1. ASSUME Inv, WebstackNext PROVE NetworkGrantsOK'
    <3>1. CASE LicenseStep
      <4>1. grants' = grants
        BY <3>1 DEF LicenseStep, LicenseNext, CreateLicenseType, UpdateLicenseType,
                    IssueLicenses, RevokeLicenses
      <4> QED  BY <2>1, <4>1 DEF NetworkGrantsOK, NetworkGrants
    <3>2. CASE NetworkStep
      BY <2>1, <3>2 DEF NetworkStep, NetworkGrantsOK, NetworkGrants
    <3> QED  BY <2>1, <3>1, <3>2, NetworkGrantsStep DEF WebstackNext
  <2>2. ASSUME Inv, UNCHANGED <<vars, networkVars>> PROVE Inv'
    BY <2>2 DEF vars, licenseVars, IndexedIds, NetworkGrantsOK, NetworkGrants
  <2> QED  BY <2>1, <2>2, IndexedIdsStep
<1>3. Inv /\ [WebstackNext]_<<vars, networkVars>> => [N!Next]_N!vars
  BY LicenseStepMaps, PermissionStepMaps, NetworkStepMaps, StutterMaps DEF WebstackNext
<1>4. WebstackInit => N!Init
  BY DEF WebstackInit
<1> HIDE DEF Inv
<1> QED  BY <1>1, <1>2, <1>3, <1>4, PTL DEF WebstackSpec, NetworkOverLicenses, N!Spec

-----------------------------------------------------------------------------
(* Accounts                                                                *)

(* No handler of x/network removes an account.                             *)
LEMMA NetworkKeepsAccounts == NetworkStep => accounts \subseteq accounts'
<1>a. ASSUME NEW addr, N!CreateAccountIfNotExists(addr) PROVE accounts \subseteq accounts'
  BY <1>a DEF N!CreateAccountIfNotExists
<1>b. ASSUME NEW op, NEW key, N!AuthorizeActivationKey(op, key)
      PROVE  accounts \subseteq accounts'
  BY <1>a, <1>b DEF N!AuthorizeActivationKey
<1>c. ASSUME NEW key, NEW op, NEW node, NEW type, N!ActivateNode(key, op, node, type)
      PROVE  accounts \subseteq accounts'
  BY <1>a, <1>c DEF N!ActivateNode
<1>d. ASSUME NEW signer, NEW node, N!DeactivateNode(signer, node)
      PROVE  accounts \subseteq accounts'
  BY <1>d DEF N!DeactivateNode
<1>e. UNCHANGED N!fleetVars => accounts \subseteq accounts'
  BY DEF N!fleetVars
<1>1. CASE N!PaidNext
  <2>1. ASSUME NEW admin, NEW wallet, N!CreateOperatorAccount(admin, wallet)
        PROVE  accounts \subseteq accounts'
    BY <1>a, <2>1 DEF N!CreateOperatorAccount
  <2>2. ASSUME NEW creator, NEW id, NEW lt, N!CreateNodeType(creator, id, lt)
        PROVE  accounts \subseteq accounts'
    BY <2>2 DEF N!CreateNodeType
  <2>3. ASSUME NEW op, NEW key, N!DeauthorizeActivationKey(op, key)
        PROVE  accounts \subseteq accounts'
    BY <2>3 DEF N!DeauthorizeActivationKey
  <2> QED
    BY <1>b, <1>c, <1>d, <1>1, <2>1, <2>2, <2>3
    DEF N!PaidNext, N!PaidCreateOperatorAccount, N!PaidCreateNodeType, N!PaidAuthorize,
        N!PaidDeauthorize, N!PaidActivate, N!PaidDeactivate
<1>2. CASE N!GaslessNext
  <2>1. ASSUME NEW node, N!UpdateNodeStatus(node, nodeStatusCounters')
        PROVE  accounts \subseteq accounts'
    BY <2>1 DEF N!UpdateNodeStatus
  <2> QED
    BY <1>b, <1>c, <1>d, <1>e, <1>2, <2>1
    DEF N!GaslessNext, N!GaslessAuthorize, N!GaslessActivate, N!GaslessDeactivate,
        N!GaslessStatus
<1>3. CASE \E node \in NodeAddresses : N!Heartbeat(node)
  BY <1>3 DEF N!Heartbeat, N!PaidStatus, N!GaslessStatus, N!UpdateNodeStatus
<1>4. CASE N!AdvanceTime
  BY <1>4 DEF N!AdvanceTime, N!fleetVars
<1>5. CASE \E p \in ParamChoices : N!GovUpdateParams(p)
  BY <1>5 DEF N!GovUpdateParams, N!UpdateParams
<1> QED  BY <1>1, <1>2, <1>3, <1>4, <1>5 DEF NetworkStep

-----------------------------------------------------------------------------
(* What was proved of x/license in any surroundings, here: x/network       *)
(* creates accounts too, and the namespaces have owners of their own.      *)

LP == INSTANCE LicenseProofs WITH
  EvmAddresses <- Operators,
  CanonicalOf  <- Canonical,
  HexOf        <- AccountOf,
  receipt      <- 0

(* An INSTANCE of a module of proofs brings a second copy of what the      *)
(* proofs are about; the two copies are the same text.                     *)
LEMMA SameLicense ==
  /\ Init => LP!Init
  /\ LicenseNext => LP!LicenseNext
  /\ LP!LicensesReimportable => LicensesReimportable
  /\ LP!SupplyRespected => SupplyRespected
  /\ LP!HoldersCanSign => HoldersCanSign
<1> USE DEF Init, LP!Init, LicenseNext, LP!LicenseNext, vars, LP!vars, EmptyMap, LP!EmptyMap,
           FirstLicenseID, LP!FirstLicenseID, CreateLicenseType, LP!CreateLicenseType,
           UpdateLicenseType, LP!UpdateLicenseType, Batches, LP!Batches, IssueLicenses,
           LP!IssueLicenses, RevokeLicenses, LP!RevokeLicenses, licenseVars,
           LP!licenseVars, TypeFree, LP!TypeFree, Overlay, LP!Overlay, Namespace,
           LP!Namespace, WithinSupply, LP!WithinSupply, AccountsAfterIssue,
           LP!AccountsAfterIssue, NewIds, LP!NewIds, SlotOf, LP!SlotOf, NextId,
           LP!NextId, TypesAfterIssue, LP!TypesAfterIssue, NewestActive,
           LP!NewestActive, EnoughActive, LP!EnoughActive, Ordered, LP!Ordered,
           ActiveIds, LP!ActiveIds, Cardinality, LP!Cardinality
<1>1. Init => LP!Init
  OBVIOUS
<1>2. LicenseNext => LP!LicenseNext
  BY DEF HasPermission, LP!HasPermission, Permissions!Has, LP!Permissions!Has,
         Permissions!IsOwner, LP!Permissions!IsOwner, Permissions!NoScope, LP!Permissions!NoScope
<1>3. LP!LicensesReimportable => LicensesReimportable
  BY DEF LicensesReimportable, LP!LicensesReimportable, TypesExist, LP!TypesExist, CountersExact,
         LP!CountersExact, IdsPast, LP!IdsPast, IndexesExact, LP!IndexesExact,
         Outstanding, LP!Outstanding, OfType, LP!OfType
<1>4. LP!SupplyRespected => SupplyRespected
  BY DEF SupplyRespected, LP!SupplyRespected, Outstanding, LP!Outstanding, OfType, LP!OfType
<1>5. LP!HoldersCanSign => HoldersCanSign
  BY DEF HoldersCanSign, LP!HoldersCanSign
<1> QED  BY <1>1, <1>2, <1>3, <1>4, <1>5

LEMMA SameLicenseSteps ==
  /\ LP!LicensesArePermanent => LicensesArePermanent
  /\ LP!RevokesNewest => RevokesNewest
BY DEF LicensesArePermanent, LP!LicensesArePermanent, RevokesNewest, LP!RevokesNewest, vars,
       LP!vars, licenseVars, LP!licenseVars

LEMMA LicenseSettings ==
  /\ AccountOf \in [Holders -> Accounts]
  /\ SupplyChoices \subseteq Nat
  /\ DOMAIN GenesisTypes \subseteq LicenseTypeIds
  /\ GenesisTypes \in [DOMAIN GenesisTypes -> Nat]
  /\ GenesisAccounts \subseteq Accounts
  /\ MaxBatch \in Nat /\ MaxIssued \in Nat
  /\ Operators \subseteq Accounts
  /\ Canonical \in [Operators -> Holders]
  /\ AccountOf \in [Holders -> Operators]
  /\ \A a \in Operators : AccountOf[Canonical[a]] = a
BY HolderAssumption, SupplyAssumption, LicenseGenesisAssumption, LicenseBoundAssumption,
   CanonicalAssumption, HoldersOperateAssumption

LEMMA ComposedKeepsRecords == WebstackSpec => LP!OpenSpec
<1>1. WebstackInit => LP!Init
  BY SameLicense DEF WebstackInit
<1>2. [WebstackNext]_<<vars, networkVars>> => [LP!RecordStep]_LP!vars
  <2>1. LicenseStep => LP!RecordStep
    BY SameLicense DEF LicenseStep, LP!RecordStep
  <2>2. PermissionStep \/ NetworkStep => LP!RecordStep
    BY NetworkKeepsAccounts
    DEF PermissionStep, NetworkStep, licenseVars, LP!RecordStep, LP!recordVars
  <2>3. UNCHANGED <<vars, networkVars>> => UNCHANGED LP!vars
    BY DEF vars, licenseVars, LP!vars, LP!licenseVars
  <2> QED  BY <2>1, <2>2, <2>3 DEF WebstackNext
<1> QED  BY <1>1, <1>2, PTL DEF WebstackSpec, LP!OpenSpec

(* Whoever holds a license can sign, whichever module created the account, *)
(* for x/license and x/network write the same accounts.                    *)
THEOREM HoldersAlwaysSign == WebstackSpec => []HoldersCanSign
<1>1. LP!OpenSpec => []LP!HoldersCanSign
  BY LicenseSettings, LP!OpenAccounts
<1> QED  BY <1>1, ComposedKeepsRecords, SameLicense, PTL

(* The promises of x/license hold of the three modules together: whatever  *)
(* x/network and the owners of the namespaces do, the records re-import,   *)
(* no cap is exceeded, licenses are permanent and the newest go first.     *)
THEOREM LicensePromisesComposed ==
  WebstackSpec => /\ [](LicensesReimportable /\ SupplyRespected)
                  /\ LicensesArePermanent /\ RevokesNewest
<1>1. LP!OpenSpec => []LP!LicenseInv
  BY LicenseSettings, LP!InvAlways
<1>2. LP!OpenSpec => []LP!SupplyRespected
  BY LicenseSettings, LP!OpenSupply
<1>3. LP!OpenSpec => LP!LicensesArePermanent
  BY LicenseSettings, LP!OpenPermanent
<1>4. LP!OpenSpec => LP!RevokesNewest
  BY LicenseSettings, LP!OpenNewest
<1>5. LP!LicenseInv => LP!LicensesReimportable
  BY DEF LP!LicenseInv
<1> QED  BY <1>1, <1>2, <1>3, <1>4, <1>5, ComposedKeepsRecords, SameLicense, SameLicenseSteps, PTL

-----------------------------------------------------------------------------
(* What was proved of x/network over any environment, here: its licenses   *)
(* are the active records of x/license, its grants those of x/permission.  *)

NP == INSTANCE NetworkRecordsProofs WITH
  licenses     <- [op \in Operators |->
                     [type \in LicenseTypeIds |-> CountActiveLicenses(Canonical[op], type)]],
  licenseTypes <- DOMAIN licenseTypes,
  grants       <- NetworkGrants(grants),
  GenesisLicenses     <- [op \in Operators |-> [type \in LicenseTypeIds |-> 0]],
  GenesisLicenseTypes <- DOMAIN GenesisTypes,
  GenesisGrants       <- NetworkGrants(GenesisGrants),
  DayLength           <- 1,
  WordSize            <- 1000,
  MaxLicenses         <- MaxIssued,
  MaxTouched          <- MaxBatch

LEMMA SameNetwork == N!Spec => NP!Spec
<1> USE DEF N!Init, NP!Init, N!Next, NP!Next, N!vars, NP!vars, N!EmptyMap, NP!EmptyMap, N!Address,
            NP!Address, N!QuietNext, NP!QuietNext, N!Heartbeat, NP!Heartbeat,
            N!fleetVars, NP!fleetVars, N!quotaVars, NP!quotaVars, N!envVars,
            NP!envVars, N!PaidNext, NP!PaidNext, N!GaslessNext, NP!GaslessNext,
            N!EnvNext, NP!EnvNext, N!PaidStatus, NP!PaidStatus, N!GaslessStatus,
            NP!GaslessStatus, N!registryVars, NP!registryVars, N!keyVars, NP!keyVars,
            N!nodeVars, NP!nodeVars, N!bankVars, NP!bankVars,
            N!PaidCreateOperatorAccount, NP!PaidCreateOperatorAccount,
            N!PaidCreateNodeType, NP!PaidCreateNodeType, N!PaidAuthorize,
            NP!PaidAuthorize, N!PaidDeauthorize, NP!PaidDeauthorize, N!PaidActivate,
            NP!PaidActivate, N!PaidDeactivate, NP!PaidDeactivate, N!GaslessAuthorize,
            NP!GaslessAuthorize, N!GaslessActivate, NP!GaslessActivate,
            N!GaslessDeactivate, NP!GaslessDeactivate, N!Batches, NP!Batches,
            N!IssueLicenses, NP!IssueLicenses, N!RevokeLicenses, NP!RevokeLicenses,
            N!CreateLicenseType, NP!CreateLicenseType, N!Permissions, NP!Permissions,
            N!ChangeGrants, NP!ChangeGrants, N!GovUpdateParams, NP!GovUpdateParams,
            N!AdvanceTime, NP!AdvanceTime, N!CanPay, NP!CanPay, N!UpdateNodeStatus,
            NP!UpdateNodeStatus, N!CanSubmit, NP!CanSubmit, N!AdmitStatus,
            NP!AdmitStatus, N!CreateOperatorAccount, NP!CreateOperatorAccount,
            N!CreateNodeType, NP!CreateNodeType, N!AuthorizeActivationKey,
            NP!AuthorizeActivationKey, N!DeauthorizeActivationKey,
            NP!DeauthorizeActivationKey, N!ActivateNode, NP!ActivateNode,
            N!DeactivateNode, NP!DeactivateNode, N!AdmitAuthorize, NP!AdmitAuthorize,
            N!AdmitActivate, NP!AdmitActivate, N!AdmitDeactivate, NP!AdmitDeactivate,
            N!Issued, NP!Issued, N!UpdateParams, NP!UpdateParams, N!ActiveNode,
            NP!ActiveNode, N!StatusNotOverLimit, NP!StatusNotOverLimit,
            N!TouchNodeActivity, NP!TouchNodeActivity, N!AdmittedStatus,
            NP!AdmittedStatus, N!Counted, NP!Counted, N!CreateAccountIfNotExists,
            NP!CreateAccountIfNotExists, N!BindingFree, NP!BindingFree, N!Put, NP!Put,
            N!KeyUnused, NP!KeyUnused, N!ActiveKeysOf, NP!ActiveKeysOf,
            N!RecentKeysOf, NP!RecentKeysOf, N!RegisterOperator, NP!RegisterOperator,
            N!ActiveKey, NP!ActiveKey, N!PayDeauthorizeFee, NP!PayDeauthorizeFee,
            N!NodeCounts, NP!NodeCounts, N!RecentEntries, NP!RecentEntries,
            N!NodeUnused, NP!NodeUnused, N!BoundedVerdict, NP!BoundedVerdict,
            N!BackingLicenses, NP!BackingLicenses, N!Today, NP!Today,
            N!DeactivateSigner, NP!DeactivateSigner, N!OneActiveLess,
            NP!OneActiveLess, N!OperatorLicensed, NP!OperatorLicensed,
            N!ConsumeGaslessCounter, NP!ConsumeGaslessCounter, N!LicensedForNodeType,
            NP!LicensedForNodeType, N!WithinActivateQuota, NP!WithinActivateQuota,
            N!DailyCount, NP!DailyCount, N!AdmittedDeactivateSigner,
            NP!AdmittedDeactivateSigner, N!ValidParams, NP!ValidParams, N!KeysOf,
            NP!KeysOf, N!ActivationVerdict, NP!ActivationVerdict, N!CountUpTo,
            NP!CountUpTo, N!ActivationStopAt, NP!ActivationStopAt, N!Day, NP!Day,
            N!NoScope, NP!NoScope, N!Times, NP!Times, N!ValidMultipliers,
            NP!ValidMultipliers, N!Larger, NP!Larger, N!Cardinality, NP!Cardinality
<1>1. N!Init => NP!Init
  OBVIOUS
<1>2. [N!Next]_N!vars => [NP!Next]_NP!vars
  OBVIOUS
<1> QED  BY <1>1, <1>2, PTL DEF N!Spec, NP!Spec

LEMMA NetworkSettings ==
  /\ 1000 \in Nat \ {0} /\ 1 \in Nat \ {0}
  /\ MaxTime \in Nat /\ MaxIssued \in Nat /\ MaxBatch \in Nat
  /\ NP!NoScope \notin NodeTypeIds
  /\ NP!ValidParams(GenesisParams)
  /\ NP!IsPartial(GenesisNodeTypes, NodeTypeIds, LicenseTypeIds)
  /\ NP!IsInjectiveOn(GenesisNodeTypes)
  /\ [op \in Operators |-> [type \in LicenseTypeIds |-> 0]]
       \in [Operators -> [LicenseTypeIds -> 0 .. MaxIssued]]
  /\ DOMAIN GenesisTypes \subseteq LicenseTypeIds
  /\ \A op \in Operators, lt \in LicenseTypeIds :
       [x \in Operators |-> [type \in LicenseTypeIds |-> 0]][op][lt] > 0
         => lt \in DOMAIN GenesisTypes
  /\ NetworkGrants(GenesisGrants) \subseteq Admins \X NP!Permissions
  /\ Funded \subseteq GenesisAccounts /\ GenesisAccounts \subseteq NP!Address
  /\ GenesisBalance \in Nat
BY NetworkGenesisAssumption, LicenseBoundAssumption, LicenseGenesisAssumption
DEF N!NoScope, NP!NoScope, N!ValidParams, NP!ValidParams, N!ValidMultipliers,
    NP!ValidMultipliers, N!IsPartial, NP!IsPartial, N!IsInjectiveOn, NP!IsInjectiveOn,
    N!Permissions, NP!Permissions, N!Address, NP!Address

LEMMA ComposedRunsNetwork == WebstackSpec => NP!Spec
BY ComposedImplementsNetwork, SameNetwork, PTL DEF NetworkOverLicenses

(* The promises of x/network hold of the three modules together, with its  *)
(* licenses counted on the index of x/license: exports of the fleet        *)
(* re-import, every key and node can sign, an admitted message is          *)
(* accepted, records are permanent, disabling a key costs its fee, and a   *)
(* node only ever appears under an operator entitled to it.                *)
THEOREM NetworkPromisesComposed ==
  WebstackSpec => /\ [](/\ NP!GenesisRoundTrip /\ NP!FleetCanSign
                        /\ NP!AdmissionImpliesAcceptance)
                  /\ NP!RecordsArePermanent /\ NP!DeauthorizePaysFee
                  /\ NP!ActivationEntitled
<1>1. NP!Spec => []NP!GenesisRoundTrip
  BY NetworkSettings, NP!AlwaysReimportable
<1>2. NP!Spec => []NP!FleetCanSign
  BY NetworkSettings, NP!FleetHasAccounts
<1>3. NP!Spec => []NP!AdmissionImpliesAcceptance
  BY NetworkSettings, NP!AdmittedIsAccepted
<1>4. NP!Spec => NP!RecordsArePermanent
  BY NetworkSettings, NP!RecordsPermanent
<1>5. NP!Spec => NP!DeauthorizePaysFee
  BY NetworkSettings, NP!DisablingCosts
<1>6. NP!Spec => NP!ActivationEntitled
  BY NetworkSettings, NP!OnlyEntitledActivations
<1> QED  BY <1>1, <1>2, <1>3, <1>4, <1>5, <1>6, ComposedRunsNetwork, PTL

(* And while governance leaves the parameters alone, the keys an operator  *)
(* creates in any window are bounded there too.                            *)
THEOREM KeyRatesComposed ==
  ASSUME ParamChoices = {}
  PROVE  WebstackSpec => []NP!KeyRateBounded
<1>1. NP!Spec => []NP!KeyRateBounded
  BY NetworkSettings, NP!KeyRateLimited
<1> QED  BY <1>1, ComposedRunsNetwork, PTL

-----------------------------------------------------------------------------
(* End to end: from license records to nodes                               *)

LEMMA RecordsInvHold == WebstackSpec => []LP!LicenseInv
<1>1. LP!OpenSpec => []LP!LicenseInv
  BY LicenseSettings, LP!InvAlways
<1> QED  BY <1>1, ComposedKeepsRecords, PTL

LEMMA FleetInvHold == WebstackSpec => [](NP!TypeOK /\ NP!NodesFinite /\ NP!DaysPast)
<1>1. NP!Spec => []NP!RecordsInv
  BY NetworkSettings, NP!RecordsInvHolds
<1>2. NP!RecordsInv => NP!TypeOK /\ NP!NodesFinite /\ NP!DaysPast
  BY DEF NP!RecordsInv, NP!NodeIndexes
<1> QED  BY <1>1, <1>2, ComposedRunsNetwork, PTL

(* What x/network counts for an operator is what the records say.          *)
LEMMA CountedAreRecords ==
  ASSUME LP!LicenseInv, NEW op \in Operators, NEW lt \in LicenseTypeIds
  PROVE  CountActiveLicenses(Canonical[op], lt) = Cardinality(HeldBy(Canonical[op], lt))
<1> DEFINE h == Canonical[op]
<1>1. h \in Holders
  BY CanonicalAssumption
<1>2. \A id : id \in LP!ActiveIds(h, lt) <=> id \in LP!Outstanding(lt) /\ licenses[id].holder = h
  BY <1>1, LicenseSettings, LP!HeldIds
<1>3. ActiveIds(h, lt) = HeldBy(h, lt)
  BY <1>2 DEF LP!ActiveIds, ActiveIds, LP!Outstanding, LP!OfType, HeldBy, Outstanding, OfType
<1> QED  BY <1>3 DEF CountActiveLicenses

(* No record dates activity after today, so recent is today or yesterday.  *)
NodeSetsAgree ==
  \A op \in Operators, type \in NodeTypeIds :
    /\ RecentOf(op, type) = NP!RecentOf(op, type)
    /\ Cardinality(ActiveOf(op, type)) <= Cardinality(NodesOf(op, type))
    /\ Cardinality(ActiveOf(op, type)) \in Nat /\ Cardinality(NodesOf(op, type)) \in Nat

LEMMA NodeSetsAgreeing == NP!TypeOK /\ NP!NodesFinite /\ NP!DaysPast => NodeSetsAgree
<1> SUFFICES ASSUME NP!TypeOK, NP!NodesFinite, NP!DaysPast,
                    NEW op \in Operators, NEW type \in NodeTypeIds
             PROVE  /\ RecentOf(op, type) = NP!RecentOf(op, type)
                    /\ Cardinality(ActiveOf(op, type)) <= Cardinality(NodesOf(op, type))
                    /\ Cardinality(ActiveOf(op, type)) \in Nat
                    /\ Cardinality(NodesOf(op, type)) \in Nat
  BY DEF NodeSetsAgree
<1>1. /\ now \in Nat
      /\ \A n \in DOMAIN nodes : nodes[n].lastActiveDay \in Nat /\ nodes[n].lastActiveDay <= now
  BY DEF NP!TypeOK, NP!DaysPast, NP!Today, NP!Day, NP!NodeType, NP!IsPartial
<1>2. NP!Today = now
  BY <1>1 DEF NP!Today, NP!Day
<1>3. RecentOf(op, type) = NP!RecentOf(op, type)
  BY <1>1, <1>2 DEF RecentOf, NP!RecentOf, NodesOf, NP!NodesOf
<1>4. IsFiniteSet(DOMAIN nodes)
  BY DEF NP!NodesFinite, NP!IsFiniteSet, IsFiniteSet
<1>5. IsFiniteSet(NodesOf(op, type)) /\ ActiveOf(op, type) \subseteq NodesOf(op, type)
  BY <1>4, FS_Subset DEF NodesOf, ActiveOf
<1> QED  BY <1>3, <1>5, FS_Subset, FS_CardinalityType

LEMMA IndexedIdsHold == WebstackSpec => []IndexedIds
<1>1. WebstackInit => IndexedIds
  BY DEF WebstackInit, Init, IndexedIds, FirstLicenseID
<1>2. IndexedIds /\ UNCHANGED <<vars, networkVars>> => IndexedIds'
  BY DEF vars, licenseVars, IndexedIds
<1> QED  BY <1>1, <1>2, IndexedIdsStep, PTL DEF WebstackSpec

LEMMA MultiplierTyped == NP!TypeOK => params.ActivationLimitMultiplier \in Nat
<1> SUFFICES ASSUME NP!TypeOK PROVE params.ActivationLimitMultiplier \in Nat
  OBVIOUS
<1>1. NP!ValidParams(params)
  BY DEF NP!TypeOK
<1> QED  BY ONLY <1>1 DEF NP!ValidParams, NP!ValidMultipliers

(* A node comes to exist only while license records of the bound type,     *)
(* issued under the canonical spelling of its operator and not revoked,    *)
(* back it: what the holder index, the walk that stops early, the tallies  *)
(* and the recent-activity index say at that moment is what the license    *)
(* and node records say.                                                   *)
THEOREM ActivationBacked == WebstackSpec => ActivationBackedByRecords
<1> DEFINE A == \A op \in Operators, type \in NodeTypeIds :
                  NodesOf(op, type)' # NodesOf(op, type) => BackedByRecords(op, type)
           E == \A op \in Operators, type \in NodeTypeIds :
                  NP!NodesOf(op, type)' # NP!NodesOf(op, type) => NP!Entitled(op, type)
<1>1. ASSUME LP!LicenseInv, IndexedIds, NP!TypeOK, NodeSetsAgree', E PROVE A
  <2> SUFFICES ASSUME NEW op \in Operators, NEW type \in NodeTypeIds,
                      NodesOf(op, type)' # NodesOf(op, type)
               PROVE  BackedByRecords(op, type)
    OBVIOUS
  <2> DEFINE held   == Cardinality(HeldBy(Canonical[op], nodeTypes[type]))
             active == Cardinality(ActiveOf(op, type)')
             recent == Cardinality(RecentOf(op, type)')
             limit  == params.ActivationLimitMultiplier * held
             spam   == params.SpamLimitMultiplier * held
  <2>1. NP!Entitled(op, type)
    BY <1>1 DEF NodesOf, NP!NodesOf
  <2>2. type \in DOMAIN nodeTypes /\ nodeTypes[type] \in LicenseTypeIds
    BY <1>1, <2>1 DEF NP!Entitled, NP!TypeOK, NP!IsPartial
  <2>3. CountActiveLicenses(Canonical[op], nodeTypes[type]) = held
    BY <1>1, <2>2, CountedAreRecords
  <2>4. \A S : NP!Cardinality(S) = Cardinality(S)
    BY DEF NP!Cardinality, Cardinality
  <2>5. /\ RecentOf(op, type)' = NP!RecentOf(op, type)'
        /\ ActiveOf(op, type)' = NP!ActiveOf(op, type)'
        /\ NodesOf(op, type)' = NP!NodesOf(op, type)'
    BY <1>1 DEF NodeSetsAgree, ActiveOf, NP!ActiveOf, NodesOf, NP!NodesOf
  <2>6. /\ recent <= spam
        /\ \/ Cardinality(NodesOf(op, type)') <= limit
           \/ recent <= limit
           \/ active <= limit
    BY <2>1, <2>2, <2>3, <2>4, <2>5 DEF NP!Entitled
  <2>7. /\ active <= Cardinality(NodesOf(op, type)')
        /\ active \in Nat /\ Cardinality(NodesOf(op, type)') \in Nat
    BY <1>1 DEF NodeSetsAgree
  <2>8. limit \in Int
    <3>1. params.ActivationLimitMultiplier \in Nat
      BY <1>1, MultiplierTyped
    <3>2. IsFiniteSet(ActiveIds(Canonical[op], nodeTypes[type]))
      BY <1>1, ActiveIdsFinite
    <3>3. held \in Nat
      BY <2>3, <3>2, FS_CardinalityType DEF CountActiveLicenses
    <3> QED  BY <3>1, <3>3
  <2> HIDE DEF held, active, recent, limit, spam
  <2>9. active <= limit \/ recent <= limit
    BY <2>6, <2>7, <2>8
  <2> QED
    BY <2>6, <2>9 DEF BackedByRecords, Backing, held, active, recent, limit, spam
<1>2. [E]_NP!vars /\ [WebstackNext]_<<vars, networkVars>> /\ ~ UNCHANGED <<vars, networkVars>>
        => E \/ A
  <2> SUFFICES ASSUME UNCHANGED NP!vars PROVE A
    OBVIOUS
  <2> QED
    BY DEF NP!vars, NP!fleetVars, NP!nodeVars, NodesOf
<1> HIDE DEF A, E
<1>3. WebstackSpec => [][E]_NP!vars
  <2>1. NP!Spec => NP!ActivationEntitled
    BY NetworkSettings, NP!OnlyEntitledActivations
  <2>2. NP!ActivationEntitled => [][E]_NP!vars
    BY DEF NP!ActivationEntitled, E
  <2> QED  BY <2>1, <2>2, ComposedRunsNetwork, PTL
<1>4. WebstackSpec => [][A]_<<vars, networkVars>>
  BY <1>1, <1>2, <1>3, RecordsInvHold, IndexedIdsHold, FleetInvHold, NodeSetsAgreeing,
     PTL DEF WebstackSpec
<1> QED  BY <1>4 DEF ActivationBackedByRecords, A
=============================================================================
