------------------------------ MODULE MCWebstack ------------------------------
(* Small instance of the three modules together.                           *)
EXTENDS Webstack, TLC

CONSTANTS a1, gov, o1, o2, k1, n1, n2, own, alias, other, lA, lB, tA, tB

\* own and alias are two spellings of the address o1, other is o2's
Spelled   == [h \in Holders |-> IF h = other THEN o2 ELSE o1]
OwnString == [op \in Operators |-> IF op = o1 THEN own ELSE other]

TwoTypes    == (lA :> 2) @@ (lB :> 2)
BoundTypes  == (tA :> lA) @@ (tB :> lB)

\* a1 issues and revokes, and owns the namespace of network; that of license
\* is owned by governance, which leaves it alone here
GovOwns      == ("license" :> gov) @@ ("network" :> a1)
LicenseAdmin ==
  {<<"license", a1, permission, type>> : permission \in {"issue", "revoke"},
                                         type \in DOMAIN GenesisTypes}

Multipliers(activation, spam) ==
  [ActivationLimitMultiplier |-> activation, SpamLimitMultiplier |-> spam,
   MaxActivationKeys |-> 1, RecentKeyLimit |-> 1, RecentKeyWindow |-> 1,
   StatusDailyLimit |-> 1, DeauthorizeFee |-> 0, MaxGaslessMsgs |-> 1]

SpamDoubled == Multipliers(1, 2)
Doubled     == {Multipliers(2, 2)}

\* a node type goes with the license type it is bound to
TypeSwap      == (lA :> lB) @@ (lB :> lA) @@ (tA :> tB) @@ (tB :> tA)
FleetSymmetry == Permutations(NodeAddresses) \cup {TypeSwap}

\* bound: the grants of network are edited before keys are authorized, or
\* again once they are back at those of genesis (no fleet action reads them)
EditsApart ==
  grants = GenesisGrants \/ (now = 1 /\ activationKeys = <<>> /\ params = GenesisParams)
=============================================================================
