----------------------------- MODULE PrivateMem -----------------------------
(***************************************************************************)
(* What fork promises: every process has a memory of its own.  A new       *)
(* process starts with a copy of its parent's memory and from then on a    *)
(* store of one process changes no other process' memory.                  *)
(***************************************************************************)
CONSTANTS Proc, Va, Val, Blank

VARIABLES
  alive,   \* the processes that exist
  mem      \* the memory each of them sees; Blank for the others

amvars == <<alive, mem>>

AInit == \E p \in Proc :
  /\ alive = {p}
  /\ \E m \in [Va -> Val] : mem = [r \in Proc |-> IF r = p THEN m ELSE Blank]

AStore(p, va, v) ==
  /\ p \in alive
  /\ mem' = [mem EXCEPT ![p][va] = v]
  /\ UNCHANGED alive

AFork(p, c) ==
  /\ p \in alive /\ c \notin alive
  /\ alive' = alive \cup {c}
  /\ mem' = [mem EXCEPT ![c] = mem[p]]

AExit(p) ==
  /\ p \in alive
  /\ alive' = alive \ {p}
  /\ mem' = [mem EXCEPT ![p] = Blank]

ANext ==
  \E p \in Proc : \/ AExit(p)
                  \/ \E c \in Proc : AFork(p, c)
                  \/ \E va \in Va, v \in Val : AStore(p, va, v)

ASpec == AInit /\ [][ANext]_amvars
=============================================================================
