------------------------------- MODULE MCBoot -------------------------------
(* Boot for TLC: four cores, one of which has no S-mode.                   *)
EXTENDS Boot
=============================================================================
