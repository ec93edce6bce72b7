----------------------------- MODULE MCPermission -----------------------------
(* Small instances of x/permission for TLC, with the two namespaces that   *)
(* app.go registers.                                                       *)
EXTENDS Permission, TLC

CONSTANTS u, v

LicenseVocabulary == "license" :> {"issue", "revoke", "type.create"}
NetworkVocabulary == "network" :> {"wallet.create", "nodetype.create"}
LicenseOnly       == LicenseVocabulary
BothVocabularies  == LicenseVocabulary @@ NetworkVocabulary

LicenseUnscoped == "license" :> {"type.create"}
BothUnscoped    == LicenseUnscoped @@ ("network" :> {})

NoOwners   == [m \in {} |-> u]
NoLicenseTypes == "license" :> {}

AccountSymmetry == Permutations(Accounts)
=============================================================================
