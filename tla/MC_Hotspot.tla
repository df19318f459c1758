------------------------------ MODULE MC_Hotspot ------------------------------
(* Hotspot.tla, with the assumptions of HotspotProofs.tla, for TLC: changes of  *)
(* each kind (a firewall rule is added and removed as the address is), and the *)
(* faults the code is meant to survive.                                        *)
EXTENDS HotspotProofs

Rule3      == {3}
Rule4      == {4}
KillRmtree == {"kill", "rmtree"}
=============================================================================
