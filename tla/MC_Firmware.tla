----------------------------- MODULE MC_Firmware -----------------------------
(* Firmware.tla, with the inductive invariant of FirmwareProofs.tla, for TLC. *)
EXTENDS FirmwareProofs

KillPanic == {"kill", "panic"}
=============================================================================
