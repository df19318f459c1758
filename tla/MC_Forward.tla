------------------------------ MODULE MC_Forward ------------------------------
(* Forward.tla on small instances.                                            *)
EXTENDS Forward

OneNetwork == <<"lan">>
=============================================================================
