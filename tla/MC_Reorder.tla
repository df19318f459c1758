------------------------------ MODULE MC_Reorder ------------------------------
(* Reorder.tla on small instances.                                            *)
EXTENDS Reorder

OneStation  == {"p"}
TwoStations == {"p", "q"}
Sessions    == {"session"}
Bars        == {"bar"}
AllButEap   == {"exhaust", "bar", "oldbar", "session"}
=============================================================================
