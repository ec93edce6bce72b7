------------------------------- MODULE License -------------------------------
(***************************************************************************)
(* x/license of webstack on top of x/permission: license types with an     *)
(* optional cap on outstanding licenses, batches of licenses issued to     *)
(* holders under one chain-wide id sequence, and revocation, newest first. *)
(* Who may do what is decided by the grants of the "license" namespace,    *)
(* whose scopes are the license types themselves.                          *)
(*                                                                         *)
(* A batch message is modelled by its flattening: one <<type, holder>> per *)
(* license, in the order the handler assigns ids.  Dates are left out.     *)
(***************************************************************************)
EXTENDS Integers, Sequences, FiniteSets

CONSTANTS
  Accounts,         \* addresses
  Holders,          \* holder strings that messages name
  AccountOf,        \* [Holders -> Accounts], the address a string decodes to
  LicenseTypeIds,
  SupplyChoices,    \* max_supply values a creator may choose; 0 is unlimited
  \* the genesis state
  GenesisTypes,     \* license type |-> max_supply
  GenesisOwners, GenesisGrants, GenesisAccounts,
  \* bounds of the model
  MaxBatch,         \* licenses in one message
  MaxIssued,        \* licenses ever issued
  MaxPairs          \* pairs in one permission message

ASSUME HolderAssumption == AccountOf \in [Holders -> Accounts]
ASSUME SupplyAssumption == SupplyChoices \subseteq Nat
ASSUME LicenseGenesisAssumption ==
  /\ DOMAIN GenesisTypes \subseteq LicenseTypeIds
  /\ GenesisTypes \in [DOMAIN GenesisTypes -> Nat]
  /\ GenesisAccounts \subseteq Accounts
ASSUME LicenseBoundAssumption == MaxBatch \in Nat /\ MaxIssued \in Nat

VARIABLES
  licenseTypes,           \* id |-> [transferrable, maxSupply, issued, active, revoked]
  licenses,               \* id |-> [type, holder, status]
  licensesByType,         \* index {<<type, id>>}, revoked licenses included
  activeLicensesByHolder, \* index {<<holder, type, id>>}
  nextLicenseID,
  accounts,               \* addresses with an account (x/auth)
  owners, grants          \* x/permission

licenseVars == <<licenseTypes, licenses, licensesByType, activeLicensesByHolder,
                 nextLicenseID, accounts>>
vars        == <<licenseVars, owners, grants>>

Namespace == "license"

(* The namespace as license.RegisterNamespace registers it: the scopes of  *)
(* its grants are the license types that exist.                            *)
Permissions == INSTANCE Permission WITH
  Modules       <- {Namespace},
  Vocabulary    <- [m \in {Namespace} |-> {"issue", "revoke", "type.create"}],
  Unscoped      <- [m \in {Namespace} |-> {"type.create"}],
  ScopedModules <- {Namespace},
  Scopes        <- LicenseTypeIds,
  GenesisScopes <- [m \in {Namespace} |-> DOMAIN GenesisTypes],
  scopes        <- [m \in {Namespace} |-> DOMAIN licenseTypes]

HasPermission(address, permission, type) ==
  Permissions!Has(Namespace, address, permission, type)

-----------------------------------------------------------------------------

FirstLicenseID == 1
Statuses       == {"active", "revoked"}

EmptyMap      == [x \in {} |-> x]
Overlay(f, g) == [x \in DOMAIN f \cup DOMAIN g |-> IF x \in DOMAIN g THEN g[x] ELSE f[x]]

(* The walk of RevokeLicenses and CountActiveLicenses over the index.      *)
ActiveIds(holder, type) ==
  {id \in 1 .. (nextLicenseID - 1) : <<holder, type, id>> \in activeLicensesByHolder}

\* Faulty: the index is walked in ascending order.
OldestActive(holder, type, count) ==
  {id \in ActiveIds(holder, type) :
     Cardinality({x \in ActiveIds(holder, type) : x < id}) < count}

NewestActive(holder, type, count) ==
  {id \in ActiveIds(holder, type) :
     Cardinality({x \in ActiveIds(holder, type) : x > id}) < count}

\* Faulty: a shorter holding is revoked as far as it goes.
AsManyAsHeld(holder, type, count) == ActiveIds(holder, type) # {}
EnoughActive(holder, type, count) == Cardinality(NewestActive(holder, type, count)) = count

(* A batch: slots[i] = <<type, holder>> is its i-th license.               *)
Ordered(slots, type) == Cardinality({i \in DOMAIN slots : slots[i][1] = type})

\* Faulty: each license of the batch is held against the cap on its own.
WithinSupplyEach(slots, type) ==
  licenseTypes[type].maxSupply = 0
    \/ licenseTypes[type].active + 1 <= licenseTypes[type].maxSupply

(* The cap is on licenses outstanding, for the whole batch.                *)
WithinSupply(slots, type) ==
  \/ licenseTypes[type].maxSupply = 0
  \/ licenseTypes[type].active + Ordered(slots, type) <= licenseTypes[type].maxSupply

NewIds(slots)  == nextLicenseID .. (nextLicenseID + Len(slots) - 1)
SlotOf(id, slots) == slots[id - nextLicenseID + 1]

\* Faulty: the type is read once for the batch, so the last entry wins.
TypesAfterIssueStale(slots) ==
  [t \in DOMAIN licenseTypes |->
     IF Ordered(slots, t) = 0 THEN licenseTypes[t]
     ELSE [licenseTypes[t] EXCEPT !.issued = @ + 1, !.active = @ + 1]]

TypesAfterIssue(slots) ==
  [t \in DOMAIN licenseTypes |->
     [licenseTypes[t] EXCEPT !.issued = @ + Ordered(slots, t),
                             !.active = @ + Ordered(slots, t)]]

\* Faulty: the sequence advances once per message.
NextIdPerMessage(slots) == nextLicenseID + 1
NextId(slots) == nextLicenseID + Len(slots)

\* Faulty: issuance leaves the holder without an account.
AccountsUntouched(slots) == accounts
AccountsAfterIssue(slots) == accounts \cup {AccountOf[slots[i][2]] : i \in DOMAIN slots}

\* Faulty: an existing type may be created again.
AnyType(type) == type \in LicenseTypeIds
TypeFree(type) == type \notin DOMAIN licenseTypes

-----------------------------------------------------------------------------
(* Message handlers                                                        *)

CreateLicenseType(creator, type, transferrable, maxSupply) ==
  /\ HasPermission(creator, "type.create", Permissions!NoScope)
  /\ TypeFree(type)
  /\ licenseTypes' = Overlay(licenseTypes, [t \in {type} |->
       [transferrable |-> transferrable, maxSupply |-> maxSupply,
        issued |-> 0, active |-> 0, revoked |-> 0]])
  /\ UNCHANGED <<licenses, licensesByType, activeLicensesByHolder, nextLicenseID,
                 accounts, owners, grants>>

UpdateLicenseType(owner, type, transferrable) ==
  /\ Permissions!IsOwner(Namespace, owner)
  /\ type \in DOMAIN licenseTypes
  /\ licenseTypes' = [licenseTypes EXCEPT ![type].transferrable = transferrable]
  /\ UNCHANGED <<licenses, licensesByType, activeLicensesByHolder, nextLicenseID,
                 accounts, owners, grants>>

IssueLicenses(issuer, slots) ==
  /\ \A i \in DOMAIN slots : HasPermission(issuer, "issue", slots[i][1])
  /\ \A i \in DOMAIN slots :
       slots[i][1] \in DOMAIN licenseTypes /\ WithinSupply(slots, slots[i][1])
  /\ accounts' = AccountsAfterIssue(slots)
  /\ licenses' = Overlay(licenses, [id \in NewIds(slots) |->
       [type |-> SlotOf(id, slots)[1], holder |-> SlotOf(id, slots)[2], status |-> "active"]])
  /\ licensesByType' = licensesByType \cup {<<SlotOf(id, slots)[1], id>> : id \in NewIds(slots)}
  /\ activeLicensesByHolder' = activeLicensesByHolder
       \cup {<<SlotOf(id, slots)[2], SlotOf(id, slots)[1], id>> : id \in NewIds(slots)}
  /\ nextLicenseID' = NextId(slots)
  /\ licenseTypes' = TypesAfterIssue(slots)
  /\ UNCHANGED <<owners, grants>>

RevokeLicenses(revoker, holder, type, count) ==
  LET revoked == NewestActive(holder, type, count)
  IN  /\ HasPermission(revoker, "revoke", type)
      /\ EnoughActive(holder, type, count)
      /\ type \in DOMAIN licenseTypes
      /\ licenses' = [id \in DOMAIN licenses |->
           IF id \in revoked THEN [licenses[id] EXCEPT !.status = "revoked"] ELSE licenses[id]]
      /\ activeLicensesByHolder' =
           activeLicensesByHolder \ {<<holder, type, id>> : id \in revoked}
      /\ licenseTypes' = [licenseTypes EXCEPT ![type].active = @ - count,
                                              ![type].revoked = @ + count]
      /\ UNCHANGED <<licensesByType, nextLicenseID, accounts, owners, grants>>

-----------------------------------------------------------------------------

Init ==
  /\ licenseTypes = [t \in DOMAIN GenesisTypes |->
       [transferrable |-> FALSE, maxSupply |-> GenesisTypes[t],
        issued |-> 0, active |-> 0, revoked |-> 0]]
  /\ licenses = EmptyMap
  /\ licensesByType = {}
  /\ activeLicensesByHolder = {}
  /\ nextLicenseID = FirstLicenseID
  /\ accounts = GenesisAccounts
  /\ owners = GenesisOwners
  /\ grants = GenesisGrants

Batches == UNION {[1 .. n -> LicenseTypeIds \X Holders] : n \in 1 .. MaxBatch}

(* The signer of a message has an account.                                 *)
LicenseNext ==
  \E signer \in accounts :
    \/ \E type \in LicenseTypeIds, transferrable \in BOOLEAN :
         \/ \E maxSupply \in SupplyChoices :
              CreateLicenseType(signer, type, transferrable, maxSupply)
         \/ UpdateLicenseType(signer, type, transferrable)
    \/ \E slots \in Batches :
         nextLicenseID + Len(slots) - 1 <= MaxIssued /\ IssueLicenses(signer, slots)
    \/ \E holder \in Holders, type \in LicenseTypeIds, count \in 1 .. MaxIssued :
         RevokeLicenses(signer, holder, type, count)

Next == LicenseNext \/ (UNCHANGED licenseVars /\ Permissions!PermissionNext)

Spec == Init /\ [][Next]_vars

-----------------------------------------------------------------------------
(* The ground truth: what the license records alone say.                   *)

OfType(type)       == {id \in DOMAIN licenses : licenses[id].type = type}
Outstanding(type)  == {id \in OfType(type) : licenses[id].status = "active"}
HeldBy(holder, type) == {id \in Outstanding(type) : licenses[id].holder = holder}

LicenseTypeRecord ==
  [transferrable : BOOLEAN, maxSupply : Nat, issued : Nat, active : Nat, revoked : Nat]
LicenseRecord == [type : LicenseTypeIds, holder : Holders, status : Statuses]

LicenseTypeOK ==
  /\ DOMAIN licenseTypes \subseteq LicenseTypeIds
  /\ licenseTypes \in [DOMAIN licenseTypes -> LicenseTypeRecord]
  /\ DOMAIN licenses \subseteq Nat
  /\ licenses \in [DOMAIN licenses -> LicenseRecord]
  /\ licensesByType \subseteq LicenseTypeIds \X Nat
  /\ activeLicensesByHolder \subseteq Holders \X LicenseTypeIds \X Nat
  /\ nextLicenseID \in Nat \ {0}
  /\ accounts \subseteq Accounts

TypeOK == LicenseTypeOK /\ Permissions!TypeOK

(* max_supply bounds the licenses outstanding, as counted on the records:  *)
(* neither a batch that names a type several times nor any sequence of     *)
(* revocations and reissues ever exceeds it.                               *)
SupplyRespected ==
  \A t \in DOMAIN licenseTypes :
    licenseTypes[t].maxSupply # 0 => Cardinality(Outstanding(t)) <= licenseTypes[t].maxSupply

TypesExist == \A id \in DOMAIN licenses : licenses[id].type \in DOMAIN licenseTypes

CountersExact ==
  \A t \in DOMAIN licenseTypes :
    /\ licenseTypes[t].active = Cardinality(Outstanding(t))
    /\ licenseTypes[t].revoked = Cardinality(OfType(t) \ Outstanding(t))
    /\ licenseTypes[t].issued = licenseTypes[t].active + licenseTypes[t].revoked

IdsPast == nextLicenseID >= FirstLicenseID /\ \A id \in DOMAIN licenses : id < nextLicenseID

IndexesExact ==
  /\ licensesByType = {<<licenses[id].type, id>> : id \in DOMAIN licenses}
  /\ activeLicensesByHolder =
       {<<licenses[id].holder, licenses[id].type, id>> :
          id \in {x \in DOMAIN licenses : licenses[x].status = "active"}}

(* GenesisState.Validate accepts an export of the state, and the indexes   *)
(* that InitGenesis rebuilds from it are the ones the handlers maintained: *)
(* the three counters of a type agree with its licenses, the id sequence   *)
(* is past every license, and the holder index, from which x/network reads *)
(* activation limits, lists the active licenses and no other.              *)
LicensesReimportable == TypesExist /\ CountersExact /\ IdsPast /\ IndexesExact

(* Whoever holds a license can sign a transaction: issuance created the    *)
(* account, so an operator's first (gasless) message needs no transfer.    *)
HoldersCanSign == \A id \in DOMAIN licenses : AccountOf[licenses[id].holder] \in accounts

(* A license id is assigned once: its record never disappears and keeps    *)
(* its type and holder, and a revoked license stays revoked.  A type's cap *)
(* is fixed at creation and its lifetime count never falls.                *)
LicensesArePermanent ==
  [][/\ \A id \in DOMAIN licenses :
          /\ id \in DOMAIN licenses'
          /\ licenses'[id].type = licenses[id].type
          /\ licenses'[id].holder = licenses[id].holder
          /\ licenses[id].status = "revoked" => licenses'[id].status = "revoked"
     /\ \A t \in DOMAIN licenseTypes :
          /\ t \in DOMAIN licenseTypes'
          /\ licenseTypes'[t].maxSupply = licenseTypes[t].maxSupply
          /\ licenseTypes'[t].issued >= licenseTypes[t].issued]_vars

(* Revocation takes the most recently issued licenses: what it leaves a    *)
(* holder of a type is older than everything it takes.                     *)
RevokesNewest ==
  [][\A taken \in DOMAIN licenses, left \in DOMAIN licenses :
       /\ licenses[taken].status = "active" /\ licenses'[taken].status = "revoked"
       /\ licenses[left].holder = licenses[taken].holder
       /\ licenses[left].type = licenses[taken].type
       /\ licenses'[left].status = "active"
       => left < taken]_vars

-----------------------------------------------------------------------------
(* The module as a ledger of capped holdings.                              *)

Ledger == INSTANCE LicenseLedger WITH
  Types <- LicenseTypeIds,
  cap   <- [t \in DOMAIN licenseTypes |-> licenseTypes[t].maxSupply],
  held  <- [t \in LicenseTypeIds |-> [h \in Holders |-> Cardinality(ActiveIds(h, t))]]

(* What CountActiveLicenses answers (to x/network, among others) changes   *)
(* as a ledger of capped holdings does: whole batches are added within the *)
(* caps, and a revocation takes from one holder of one type.               *)
LedgerPromise == Ledger!Spec
=============================================================================
