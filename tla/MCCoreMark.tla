----------------------------- MODULE MCCoreMark -----------------------------
(* CoreMark for TLC.                                                       *)
EXTENDS CoreMark

R(total, s1, s2, s3, s4, cost, boot) ==
  [total |-> total, seed1 |-> s1, seed2 |-> s2, seed3 |-> s3, seed4 |-> s4,
   cost |-> cost, boot |-> boot]

(* The builds of the port: 2000 bytes are the performance run, 1200 the    *)
(* profile run, and the validation run's seeds are reached by 1, 0, 0.     *)
Port == {R(2000, 0, 0, 102, 1, 300, 0), R(2000, 1, 0, 0, 1, 300, 0), R(1200, 8, 8, 8, 2, 30, 0)}

(* Small data, so that short lists and loops occur.                        *)
Small == {R(total, s, s, n, 0, 7, 0) : total \in {480, 540}, s \in {3, -5, 300}, n \in {0, 1, 4}}

(* Data sizes: those that three matrices and their alignment fill to the   *)
(* last byte, and all from there to the next larger dimension.             *)
Tight == {R(3 * (8 * n * n + 2), 8, 8, 1, 1, 7, 0) : n \in 4..9}
Between == {R(total, 3, 3, 1, 1, 7, 0) : total \in 390..602}

(* Boards of all speeds: one to three trials, of which the last takes 1 to *)
(* 79 seconds, with the costs next to the whole seconds of a trial of ten. *)
(* The timer starts at 0, or at its last value and wraps at once.          *)
Costs == 1..60 \cup {c \in 61..1589 : c % 20 \in {0, 1, 19}}
MCBoards == {R(480, 2, 6, 0, 0, cost, boot) : cost \in Costs, boot \in {0, 15899}}

MCRuns == Port \cup Small \cup Tight \cup Between \cup MCBoards
=============================================================================
