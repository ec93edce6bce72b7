--------------------------- MODULE MCNetworkHistory ---------------------------
(* Small instances of NetworkHistory for TLC.                              *)
EXTENDS NetworkHistory, MCNetwork

(* fleet: its properties read no heartbeats, and of the other histories    *)
(* only the best allowance of each of the last two days and the nodes born *)
(* in them; states that agree on these have the same future.               *)
BestAllowances ==
  {a \in allowances :
     /\ a[3] >= Today - 1
     /\ \A b \in allowances : b[1] = a[1] /\ b[2] = a[2] /\ b[3] = a[3] => b[4] <= a[4]}
RecentBirths == {<<n, bornOn[n]>> : n \in {x \in DOMAIN bornOn : bornOn[x] >= Today - 1}}
FleetView    == <<vars, RecentBirths, BestAllowances>>
=============================================================================
