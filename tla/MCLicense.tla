------------------------------ MODULE MCLicense ------------------------------
(* Small instances of x/license (over x/permission), with its precompile,  *)
(* for TLC.                                                                *)
EXTENDS LicensePrecompile, TLC

CONSTANTS u, v, h1, h2, h3

\* h1 and h2 are the addresses' own strings, h3 is another spelling of h2
HolderAccounts   == [h \in Holders |-> IF h = h1 THEN u ELSE v]
CanonicalStrings == [a \in EvmAddresses |-> IF a = u THEN h1 ELSE h2]

\* no property reads the receipt of an earlier step, and no handler or property
\* which of its two values a flag has
Essence ==
  <<[t \in DOMAIN licenseTypes |-> [licenseTypes[t] EXCEPT !.transferrable = FALSE]],
    licenses, licensesByType, activeLicensesByHolder, nextLicenseID, accounts, owners, grants>>

UOwns    == "license" :> u

\* u may create types and issue, v may revoke; lA is uncapped, lB to be created
OneType     == "lA" :> 0
Issues(t)   == <<"license", u, "issue", t>>
Revokes(t)  == <<"license", v, "revoke", t>>
FirstGrants ==
  {<<"license", u, "type.create", "none">>, Issues("lA"), Revokes("lA")}

\* bound: of the grants that may follow, u to issue lB and then v to revoke it
GrantsFollow ==
  grants \in {FirstGrants, FirstGrants \cup {Issues("lB")},
             FirstGrants \cup {Issues("lB"), Revokes("lB")}}
=============================================================================
