--------------------------- MODULE PermissionProofs ---------------------------
(***************************************************************************)
(* Proofs about Permission, for any number of accounts, modules and scopes *)
(* and messages of any size.                                               *)
(***************************************************************************)
EXTENDS Permission, TLAPS

(* The collections keep their types.                                       *)
THEOREM TypeCorrect == Spec => []TypeOK
<1>1. Init => TypeOK
  BY GenesisAssumption, GenesisScopesAssumption DEF Init, TypeOK
<1>2. ASSUME TypeOK, [Next]_vars PROVE TypeOK'
  <2>1. CASE UNCHANGED vars
    BY <1>2, <2>1 DEF vars, TypeOK
  <2>2. ASSUME NEW module \in Modules, NEW owner \in Accounts, SetOwner(module, owner),
               UNCHANGED <<grants, scopes>>
        PROVE  TypeOK'
    BY <1>2, <2>2 DEF SetOwner, TypeOK
  <2>3. ASSUME NEW module \in Modules, NEW owner \in Accounts,
               UpdateNamespaceOwner(module, owner)
        PROVE  TypeOK'
    BY <2>2, <2>3 DEF UpdateNamespaceOwner
  <2>4. ASSUME NEW module \in Modules, NEW signer \in Accounts, NEW newOwner \in Accounts,
               TransferOwnership(signer, module, newOwner)
        PROVE  TypeOK'
    BY <2>2, <2>4 DEF TransferOwnership
  <2>5. ASSUME NEW module \in Modules, NEW signer \in Accounts, NEW grantee \in Accounts,
               NEW pairs \in Messages, GrantPermissions(signer, module, grantee, pairs)
        PROVE  TypeOK'
    <3>1. GrantsOf(module, grantee, pairs) \subseteq GrantKeys
      BY <2>5 DEF GrantsOf, GrantKeys, GrantPermissions, PairsValid, ValidPair, Messages
    <3> QED  BY <1>2, <2>5, <3>1 DEF GrantPermissions, TypeOK
  <2>6. ASSUME NEW module \in Modules, NEW signer \in Accounts, NEW grantee \in Accounts,
               NEW pairs \in Messages, RevokePermissions(signer, module, grantee, pairs)
        PROVE  TypeOK'
    BY <1>2, <2>6 DEF RevokePermissions, TypeOK
  <2>7. ASSUME NEW module \in ScopedModules, NEW scope \in Scopes, CreateScope(module, scope)
        PROVE  TypeOK'
    BY <1>2, <2>7 DEF CreateScope, permissionVars, TypeOK
  <2> QED
    BY <1>2, <2>1, <2>3, <2>4, <2>5, <2>6, <2>7 DEF Next, PermissionNext
<1> QED  BY <1>1, <1>2, PTL DEF Spec

(* A valid pair stays valid as scopes come into existence.                 *)
LEMMA ValidPairMonotone ==
  ASSUME NEW module \in Modules, NEW pair, NEW before, NEW after,
         \A m \in ScopedModules : before[m] \subseteq after[m],
         ValidPair(module, pair, before)
  PROVE  ValidPair(module, pair, after)
BY DEF ValidPair

(* Every grant in force would pass the import checks of InitGenesis.       *)
THEOREM GrantsValid == Spec => []GrantsReimportable
<1>1. Init => GrantsReimportable
  BY GenesisAssumption DEF Init, GrantsReimportable
<1>2. ASSUME TypeOK, GrantsReimportable, [Next]_vars PROVE GrantsReimportable'
  <2>1. CASE UNCHANGED vars
    BY <1>2, <2>1 DEF vars, GrantsReimportable, ValidPair
  <2>2. ASSUME NEW module \in Modules, NEW owner \in Accounts, SetOwner(module, owner),
               UNCHANGED <<grants, scopes>>
        PROVE  GrantsReimportable'
    BY <1>2, <2>2 DEF SetOwner, GrantsReimportable, ValidPair
  <2>3. ASSUME NEW module \in Modules, NEW owner \in Accounts,
               UpdateNamespaceOwner(module, owner)
        PROVE  GrantsReimportable'
    BY <2>2, <2>3 DEF UpdateNamespaceOwner
  <2>4. ASSUME NEW module \in Modules, NEW signer \in Accounts, NEW newOwner \in Accounts,
               TransferOwnership(signer, module, newOwner)
        PROVE  GrantsReimportable'
    BY <2>2, <2>4 DEF TransferOwnership
  <2>5. ASSUME NEW module \in Modules, NEW signer \in Accounts, NEW grantee \in Accounts,
               NEW pairs \in Messages, GrantPermissions(signer, module, grantee, pairs)
        PROVE  GrantsReimportable'
    <3>1. module \in DOMAIN owners
      BY <2>5 DEF GrantPermissions, IsOwner
    <3>2. \A g \in GrantsOf(module, grantee, pairs) :
            g[1] = module /\ ValidPair(module, <<g[3], g[4]>>, scopes)
      BY <2>5 DEF GrantsOf, GrantPermissions, PairsValid, ValidPair
    <3> QED  BY <1>2, <2>5, <3>1, <3>2 DEF GrantPermissions, GrantsReimportable, ValidPair
  <2>6. ASSUME NEW module \in Modules, NEW signer \in Accounts, NEW grantee \in Accounts,
               NEW pairs \in Messages, RevokePermissions(signer, module, grantee, pairs)
        PROVE  GrantsReimportable'
    BY <1>2, <2>6 DEF RevokePermissions, GrantsReimportable, ValidPair
  <2>7. ASSUME NEW module \in ScopedModules, NEW scope \in Scopes, CreateScope(module, scope)
        PROVE  GrantsReimportable'
    <3>1. \A m \in ScopedModules : scopes[m] \subseteq scopes'[m]
      BY <1>2, <2>7 DEF CreateScope, TypeOK
    <3>2. ASSUME NEW g \in grants'
          PROVE  g[1] \in DOMAIN owners' /\ ValidPair(g[1], <<g[3], g[4]>>, scopes')
      <4>1. g \in grants /\ owners' = owners
        BY <2>7, <3>2 DEF CreateScope, permissionVars
      <4>2. g[1] \in Modules
        BY <1>2, <4>1 DEF TypeOK, GrantKeys
      <4> QED  BY <1>2, <3>1, <4>1, <4>2, ValidPairMonotone DEF GrantsReimportable
    <3> QED  BY <3>2 DEF GrantsReimportable
  <2> QED
    BY <1>2, <2>1, <2>3, <2>4, <2>5, <2>6, <2>7 DEF Next, PermissionNext
<1> QED  BY <1>1, <1>2, TypeCorrect, PTL DEF Spec

(* Only CreateScope adds a scope, and every grant in force before it names *)
(* one that existed.                                                       *)
THEOREM ScopesStartBare == Spec => ScopesStartWithoutRights
<1>1. ASSUME TypeOK, GrantsReimportable, [Next]_vars,
             NEW m \in ScopedModules, NEW s \in scopes'[m] \ scopes[m],
             NEW g \in grants', g[1] = m
      PROVE  g[4] # s
  <2>1. CASE UNCHANGED scopes
    BY <1>1, <2>1
  <2>2. ASSUME NEW module \in ScopedModules, NEW scope \in Scopes, CreateScope(module, scope)
        PROVE  g[4] # s
    <3>1. g \in grants /\ s \in Scopes
      BY <1>1, <2>2 DEF CreateScope, permissionVars, TypeOK
    <3>2. ValidPair(m, <<g[3], g[4]>>, scopes)
      BY <1>1, <3>1 DEF GrantsReimportable
    <3>3. g[4] = NoScope \/ g[4] \in scopes[m]
      BY <1>1, <3>2 DEF ValidPair
    <3> QED  BY <1>1, <3>1, <3>3, ScopeNameAssumption
  <2>3. \/ UNCHANGED scopes
        \/ \E module \in ScopedModules, scope \in Scopes : CreateScope(module, scope)
    BY <1>1 DEF Next, vars, PermissionNext, UpdateNamespaceOwner, TransferOwnership,
                GrantPermissions, RevokePermissions
  <2> QED  BY <2>1, <2>2, <2>3
<1>2. TypeOK /\ GrantsReimportable /\ [Next]_vars =>
        [\A m \in ScopedModules : \A s \in scopes'[m] \ scopes[m] :
           \A g \in grants' : g[1] = m => g[4] # s]_vars
  BY <1>1
<1> QED  BY <1>2, TypeCorrect, GrantsValid, PTL DEF Spec, ScopesStartWithoutRights
=============================================================================
