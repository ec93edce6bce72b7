----------------------------- MODULE MCGaslessTx -----------------------------
(* Small instance of GaslessTxFate; the parameter sets are MCNetwork's.    *)
EXTENDS GaslessTxFate, MCNetwork

\* deliveries: two gasless heartbeats a day, until governance says one
DeliveryParams  == Params(1, 1, 1, 1, 1, 2, 0)
DeliveryChoices == {[DeliveryParams EXCEPT !.StatusDailyLimit = 1, !.MaxGaslessMsgs = 1]}
=============================================================================
