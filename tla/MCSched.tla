------------------------------ MODULE MCSched ------------------------------
(* Sched for TLC.                                                          *)
EXTENDS Sched, TLC

MCQueue == {"runq", "exit_queue", "ticks_queue", "wait_queue"}

Symmetry == Permutations(Proc)
=============================================================================
