----------------------------- MODULE MC_MlmeQueue -----------------------------
(* MlmeQueue.tla on small instances.                                         *)
EXTENDS MlmeQueue
OneTask     == {"mlme"}
OneSender   == {"cmd"}
NoSender    == {}
OneReceiver == {"rx"}
=============================================================================
