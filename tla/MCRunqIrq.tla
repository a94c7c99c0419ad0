----------------------------- MODULE MCRunqIrq -----------------------------
(* RunqIrq for TLC.                                                        *)
EXTENDS RunqIrq

MCQueue == {"runq", "ticks_queue"}
=============================================================================
