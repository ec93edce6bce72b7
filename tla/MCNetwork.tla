------------------------------ MODULE MCNetwork ------------------------------
(* Small instances of x/network for TLC.  Every definition here is the     *)
(* value of a constant, a symmetry set or a view of a run.                 *)
EXTENDS NetworkProperties, TLC

Params(activation, spam, maxKeys, keyLimit, keyWindow, daily, fee) ==
  [ActivationLimitMultiplier |-> activation, SpamLimitMultiplier |-> spam,
   MaxActivationKeys |-> maxKeys, RecentKeyLimit |-> keyLimit,
   RecentKeyWindow |-> keyWindow, StatusDailyLimit |-> daily, DeauthorizeFee |-> fee,
   MaxGaslessMsgs |-> 2]

CONSTANTS o1, o2, k1, k2, k3, n1, n2, n3, n4, a1

NoTypes    == EmptyMap
OneType    == "tA" :> "lA"
TwoTypes   == ("tA" :> "lA") @@ ("tB" :> "lB")

NoLicenses  == [op \in Operators |-> [lt \in LicenseTypeIds |-> 0]]
OneEach     == [op \in Operators |-> [lt \in LicenseTypeIds |-> 1]]
LicensedOperators == Funded \cup Operators
PayersOnly        == Funded

\* fleet: activation multiplier 1, spam multiplier 2
FleetParams == Params(1, 2, 1, 3, 1, 1, 0)

\* quota: two heartbeats a day, one of everything else
HeartbeatParams == Params(1, 1, 1, 1, 1, 2, 0)

\* keys: two active, two created in any three time units, a fee of one coin
KeyParams == Params(1, 1, 2, 2, 3, 1, 1)

\* fleet: a relaxed set and one Params.Validate refuses
GovernanceParams ==
  {FleetParams, Params(2, 2, 1, 1, 1, 2, 0), Params(2, 1, 1, 3, 1, 1, 0)}

FleetSymmetry    == Permutations(NodeAddresses)
RegistrySymmetry ==
  Permutations(Operators) \cup Permutations(KeyAddresses) \cup Permutations(NodeAddresses)
=============================================================================
