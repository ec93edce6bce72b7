------------------------------ MODULE Permission ------------------------------
(***************************************************************************)
(* x/permission of webstack: one namespace per registered module, each     *)
(* with an owner, and a flat set of grants (module, grantee, permission,   *)
(* scope) that the owner edits.  The modules that consume the grants       *)
(* declare, at wiring time, their vocabulary and how scopes are validated; *)
(* which scopes exist is their state, not this module's.                   *)
(*                                                                         *)
(* A message names (permission, scope) pairs; the order of a list and      *)
(* repeats in it do not matter to a keyset, so a message is a set of them. *)
(***************************************************************************)
EXTENDS Integers, FiniteSets

CONSTANTS
  Accounts,          \* addresses that sign, own and receive grants
  Modules,           \* modules registered in the binary
  Vocabulary,        \* [Modules -> permissions the module declares]
  Unscoped,          \* [Modules -> those declared module-wide]
  ScopedModules,     \* modules that supply a scope validator
  Scopes,            \* scope identifiers a message may name
  GenesisOwners, GenesisGrants, GenesisScopes,
  MaxPairs           \* bound: pairs in one message

(* The empty scope of a module-wide grant.                                 *)
NoScope == "none"

(* A message may also name a permission nobody declared.                   *)
Undeclared      == "undeclared"
PermissionNames == UNION {Vocabulary[m] : m \in Modules} \cup {Undeclared}
AllScopes       == Scopes \cup {NoScope}
GrantKeys       == {key \in Modules \X Accounts \X PermissionNames \X AllScopes :
                      key[3] \in Vocabulary[key[1]]}

(* NamespaceSpec.Validate, on the registered specs.                        *)
ASSUME RegistryAssumption ==
  /\ DOMAIN Vocabulary = Modules /\ DOMAIN Unscoped = Modules
  /\ ScopedModules \subseteq Modules
  /\ \A m \in Modules :
       /\ Vocabulary[m] # {}
       /\ Unscoped[m] \subseteq Vocabulary[m] /\ Unscoped[m] # Vocabulary[m]
       /\ Unscoped[m] # {} => m \in ScopedModules
ASSUME ScopeNameAssumption == NoScope \notin Scopes
ASSUME GenesisScopesAssumption == GenesisScopes \in [ScopedModules -> SUBSET Scopes]
ASSUME PairsAssumption     == MaxPairs \in Nat

VARIABLES
  owners,    \* Namespaces: module |-> owner; absent until one is set
  grants,    \* Grants: {<<module, grantee, permission, scope>>}
  scopes     \* [ScopedModules -> scopes that exist], state of the consumers

permissionVars == <<owners, grants>>
vars           == <<owners, grants, scopes>>

-----------------------------------------------------------------------------

IsOwner(module, addr) == module \in DOMAIN owners /\ owners[module] = addr

Has(module, grantee, permission, scope) == <<module, grantee, permission, scope>> \in grants

\* Faulty: the vocabulary is not looked at.
ValidPairUnlisted(module, pair, existing) ==
  IF module \in ScopedModules /\ pair[1] \notin Unscoped[module]
  THEN pair[2] \in existing[module] ELSE pair[2] = NoScope
\* Faulty: a scope need not exist yet.
ValidPairAhead(module, pair, existing) ==
  /\ pair[1] \in Vocabulary[module]
  /\ module \in ScopedModules => (pair[2] = NoScope <=> pair[1] \in Unscoped[module])

(* validateGrantPair: a module-wide permission must carry the empty scope, *)
(* a scoped one an existing scope; without a validator any scope will do.  *)
ValidPair(module, pair, existing) ==
  LET permission == pair[1]  scope == pair[2]
  IN  /\ permission \in Vocabulary[module]
      /\ \/ permission \in Unscoped[module] /\ scope = NoScope
         \/ permission \notin Unscoped[module] /\ module \notin ScopedModules
         \/ permission \notin Unscoped[module] /\ module \in ScopedModules
              /\ scope \in existing[module]

\* Faulty: one valid pair lets the whole message through.
SomePairValid(module, pairs, existing) == \E pair \in pairs : ValidPair(module, pair, existing)

(* Every pair of a message, before any is written.                         *)
PairsValid(module, pairs, existing) == \A pair \in pairs : ValidPair(module, pair, existing)

(* InitGenesis re-checks an import as the handlers check a message.        *)
ASSUME GenesisAssumption ==
  /\ DOMAIN GenesisOwners \subseteq Modules
  /\ \A m \in DOMAIN GenesisOwners : GenesisOwners[m] \in Accounts
  /\ GenesisGrants \subseteq GrantKeys
  /\ \A g \in GenesisGrants :
       g[1] \in DOMAIN GenesisOwners /\ ValidPair(g[1], <<g[3], g[4]>>, GenesisScopes)

GrantsOf(module, grantee, pairs) == {<<module, grantee, pair[1], pair[2]>> : pair \in pairs}

SetOwner(module, owner) ==
  owners' = [m \in DOMAIN owners \cup {module} |-> IF m = module THEN owner ELSE owners[m]]

-----------------------------------------------------------------------------

(* Governance sets or replaces an owner without the old one's cooperation. *)
UpdateNamespaceOwner(module, owner) ==
  /\ SetOwner(module, owner)
  /\ UNCHANGED <<grants, scopes>>

TransferOwnership(signer, module, newOwner) ==
  /\ IsOwner(module, signer)
  /\ SetOwner(module, newOwner)
  /\ UNCHANGED <<grants, scopes>>

GrantPermissions(signer, module, grantee, pairs) ==
  /\ IsOwner(module, signer)
  /\ PairsValid(module, pairs, scopes)
  /\ grants' = grants \cup GrantsOf(module, grantee, pairs)
  /\ UNCHANGED <<owners, scopes>>

(* No vocabulary or scope check, and a pair not granted is no error.       *)
RevokePermissions(signer, module, grantee, pairs) ==
  /\ IsOwner(module, signer)
  /\ grants' = grants \ GrantsOf(module, grantee, pairs)
  /\ UNCHANGED <<owners, scopes>>

(* The consuming modules: a resource that scopes can name comes to exist,  *)
(* and none ever ceases to.                                                *)
CreateScope(module, scope) ==
  /\ scope \notin scopes[module]
  /\ scopes' = [scopes EXCEPT ![module] = @ \cup {scope}]
  /\ UNCHANGED permissionVars

-----------------------------------------------------------------------------

Init ==
  /\ owners = GenesisOwners
  /\ grants = GenesisGrants
  /\ scopes = GenesisScopes

Messages == {pairs \in SUBSET (PermissionNames \X AllScopes) :
               pairs # {} /\ Cardinality(pairs) <= MaxPairs}

(* Everything x/permission itself does.                                    *)
PermissionNext ==
  \E module \in Modules :
    \/ \E owner \in Accounts : UpdateNamespaceOwner(module, owner)
    \/ \E signer \in Accounts, newOwner \in Accounts : TransferOwnership(signer, module, newOwner)
    \/ \E signer \in Accounts, grantee \in Accounts, pairs \in Messages :
         \/ GrantPermissions(signer, module, grantee, pairs)
         \/ RevokePermissions(signer, module, grantee, pairs)

Next ==
  \/ PermissionNext
  \/ \E module \in ScopedModules, scope \in Scopes : CreateScope(module, scope)

Spec == Init /\ [][Next]_vars

-----------------------------------------------------------------------------
(* Properties                                                              *)

TypeOK ==
  /\ DOMAIN owners \subseteq Modules /\ \A m \in DOMAIN owners : owners[m] \in Accounts
  /\ grants \subseteq GrantKeys
  /\ scopes \in [ScopedModules -> SUBSET Scopes]

(* What InitGenesis checks of an export (GenesisState.Validate and the     *)
(* registered specs): every grant in force belongs to a namespace with an  *)
(* owner and satisfies its module's spec now, however long ago it was      *)
(* granted and by whichever owner.  So a chain can always restart from its *)
(* own export, and in a namespace that scopes a grant has one key form,    *)
(* the one a permission check looks up and a revocation names.             *)
GrantsReimportable ==
  \A g \in grants :
    /\ g[1] \in DOMAIN owners
    /\ ValidPair(g[1], <<g[3], g[4]>>, scopes)

(* Rights over a resource cannot be prepared before it exists: when it is  *)
(* created (a license type, in x/license) nobody holds a grant scoped to   *)
(* it, whatever was granted, transferred or recovered before.              *)
ScopesStartWithoutRights ==
  [][\A m \in ScopedModules : \A s \in scopes'[m] \ scopes[m] :
       \A g \in grants' : g[1] = m => g[4] # s]_vars

(* x/network grants are module-wide, so every grant in its namespace       *)
(* carries the empty scope (x/network/README.md, "Permissions").           *)
NetworkGrantsModuleWide ==
  \A g \in grants : g[1] = "network" => g[4] = NoScope
=============================================================================
