-------------------------- MODULE MCNetworkLiveness --------------------------
(* Small instances of NetworkLiveness for TLC.                             *)
EXTENDS NetworkLiveness, MCNetwork

\* a license allows two nodes, one of which can be deactivated a day
LivenessParams == Params(2, 2, 2, 1, 1, 1, 0)
=============================================================================
