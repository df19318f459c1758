------------------------------- MODULE MC_Andes -------------------------------
(* Andes.tla on small instances.                                              *)
EXTENDS Andes

Two     == {"a", "b"}
Post    == {"p"}
NoPost  == {}
Serial  == {"urb", "silent", "off"}
Overlap == {"overlap"}
=============================================================================
