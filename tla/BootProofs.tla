----------------------------- MODULE BootProofs -----------------------------
(* Proofs about Boot, for any set of cores.                                *)
EXTENDS Boot, TLAPS

(* The cores that got past boot_lock or wakeup.                            *)
Took(c) == c \in SCore /\ at[c] \notin {"reset", "amoswap", "spin"}

(* A core that did not, has not looked at primary yet.                     *)
NotYet ==
  \A c \in Core : /\ ~Took(c) => a1[c] = 0
                  /\ c \notin SCore => at[c] \in {"reset", "halt"}

(* boot_lock lets the first core through.                                  *)
LockOpen ==
  boot_lock = 0 => /\ \A c \in Core : ~Took(c)
                   /\ wakeup = 0 /\ mprimary = 1

(* Until it writes wakeup, that core is alone and prepares one thing after *)
(* the other.                                                              *)
BeforeWakeup ==
  wakeup = 0 =>
    /\ \A c, d \in Core : Took(c) /\ Took(d) => c = d
    /\ \A c \in Core : Took(c) =>
         /\ at[c] \notin {"lock", "print", "init", "schedule"}
         /\ at[c] = "mload" => mprimary = 1
         /\ at[c] # "mload" /\ at[c] # "halt" => a1[c] = 1
         /\ at[c] \in {"load", "copy", "jump"} \cup InKernel => pagetable /\ mprimary = 0
         /\ at[c] \in {"mstart", "mkmain"} => mprimary = 0
         /\ at[c] \in {"copy", "jump"} \cup InKernel => boot
         /\ at[c] \in {"jump"} \cup InKernel => image
         /\ at[c] \in {"jump", "kload"} => kprimary = 1
         /\ at[c] \in {"kstart", "kmain"} => kprimary = 0
         /\ at[c] = "kmain" => kbss

(* Afterwards everything is prepared and no other core is primary.         *)
AfterWakeup ==
  wakeup = 1 =>
    /\ mprimary = 0 /\ kprimary = 0
    /\ pagetable /\ boot /\ image /\ kbss
    /\ \A c, d \in Core : a1[c] = 1 /\ a1[d] = 1 => c = d
    /\ \A c \in Core : a1[c] = 1 => at[c] \in {"lock", "print", "init", "schedule"}

(* What a core does next depends on its a1.                                *)
Roles ==
  \A c \in Core :
    /\ at[c] \in {"load", "copy", "init", "schedule"} => a1[c] = 1
    /\ at[c] \in {"kmain", "lock", "print", "init", "schedule"} => cpu[c] = a1[c]

(* The printer's lock is held by the core that prints.                     *)
PrinterHeld ==
  /\ \A c \in Core : at[c] = "print" => printer = 1
  /\ PrintExclusive

IInv == TypeOK /\ NotYet /\ LockOpen /\ BeforeWakeup /\ AfterWakeup /\ Roles /\ PrinterHeld

-----------------------------------------------------------------------------
(* At reset no core has done anything.                                     *)
LEMMA InitIInv == Init => IInv
<1> SUFFICES ASSUME Init PROVE IInv OBVIOUS
<1> USE DEF Init
<1>1. TypeOK
  BY DEF TypeOK, Location
<1>2. NotYet /\ LockOpen /\ BeforeWakeup /\ AfterWakeup
  BY DEF NotYet, LockOpen, BeforeWakeup, AfterWakeup, Took
<1>3. Roles /\ PrinterHeld
  BY DEF Roles, PrinterHeld, PrintExclusive
<1> QED BY <1>1, <1>2, <1>3 DEF IInv

(* A step of a core keeps the invariant: one case per action.              *)
LEMMA StepIInv ==
  ASSUME IInv, NEW c \in Core, CoreStep(c)
  PROVE  IInv'
<1> USE SCoreAssumption
    DEF IInv, TypeOK, NotYet, LockOpen, BeforeWakeup, AfterWakeup, Roles, PrinterHeld,
        PrintExclusive, Took, Goto, InMonitor, InKernel, Location
<1>1. CASE Reset(c)
  BY <1>1 DEF Reset
<1>2. CASE BootLock(c)
  BY <1>2 DEF BootLock
<1>3. CASE Spin(c)
  BY <1>3 DEF Spin
<1>4. CASE MLoad(c)
  BY <1>4 DEF MLoad
<1>5. CASE MStore(c)
  BY <1>5 DEF MStore
<1>6. CASE MStart(c)
  <2>1. CASE a1[c] = 1
    BY <1>6, <2>1 DEF MStart
  <2>2. CASE a1[c] = 0
    BY <1>6, <2>2 DEF MStart
  <2> QED BY <2>1, <2>2
<1>7. CASE MKmain(c)
  <2>1. CASE a1[c] = 1
    BY <1>7, <2>1 DEF MKmain
  <2>2. CASE a1[c] = 0
    BY <1>7, <2>2 DEF MKmain
  <2> QED BY <2>1, <2>2
<1>8. CASE Load(c)
  <2>1. CASE boot' = TRUE /\ at' = [at EXCEPT ![c] = "copy"]
    BY <1>8, <2>1 DEF Load
  <2>2. CASE boot' = boot /\ at' = [at EXCEPT ![c] = "halt"]
    BY <1>8, <2>2 DEF Load
  <2> QED BY <1>8, <2>1, <2>2 DEF Load
<1>9. CASE CopyImage(c)
  BY <1>9 DEF CopyImage
<1>10. CASE Jump(c)
  BY <1>10 DEF Jump
<1>11. CASE KLoad(c)
  BY <1>11 DEF KLoad
<1>12. CASE KStore(c)
  BY <1>12 DEF KStore
<1>13. CASE KStart(c)
  <2>1. CASE a1[c] = 1
    BY <1>13, <2>1 DEF KStart
  <2>2. CASE a1[c] = 0
    BY <1>13, <2>2 DEF KStart
  <2> QED BY <2>1, <2>2
<1>14. CASE KMain(c)
  BY <1>14 DEF KMain
<1>15. CASE PrintLock(c)
  BY <1>15 DEF PrintLock
<1>16. CASE PrintUnlock(c)
  BY <1>16 DEF PrintUnlock
<1>17. CASE Schedule(c)
  BY <1>17 DEF Schedule
<1> QED
  BY <1>1, <1>2, <1>3, <1>4, <1>5, <1>6, <1>7, <1>8, <1>9, <1>10, <1>11, <1>12,
     <1>13, <1>14, <1>15, <1>16, <1>17 DEF CoreStep

(* So the invariant holds in every reachable state.                        *)
LEMMA SpecIInv == Spec => []IInv
<1>1. IInv /\ [Next]_vars => IInv'
  <2> SUFFICES ASSUME IInv, [Next]_vars PROVE IInv' OBVIOUS
  <2>1. CASE Next
    BY <2>1, StepIInv DEF Next
  <2>2. CASE UNCHANGED vars
    BY <2>2 DEF vars, IInv, TypeOK, NotYet, LockOpen, BeforeWakeup, AfterWakeup, Roles,
                PrinterHeld, PrintExclusive, Took
  <2> QED BY <2>1, <2>2
<1> QED BY <1>1, InitIInv, PTL DEF Spec

(* Type correctness: the flags stay flags although cores swap, clear and   *)
(* set them without a lock, and no core leaves the locations of the code.  *)
THEOREM TypeCorrect == Spec => []TypeOK
BY SpecIInv, PTL DEF IInv

-----------------------------------------------------------------------------
(* However many cores there are, one at most loads the image, sets up the  *)
(* kernel and runs the scheduler (monitor.s:25-41, kernel.s:13-15).        *)
THEOREM PrimaryIsUnique == Spec => []OnePrimary
<1>1. IInv => OnePrimary
  <2> SUFFICES ASSUME IInv, NEW c \in Core, NEW d \in Core,
                      at[c] \in {"load", "copy", "init", "schedule"},
                      at[d] \in {"load", "copy", "init", "schedule"}
               PROVE  c = d
    BY DEF OnePrimary
  <2>1. a1[c] = 1 /\ a1[d] = 1 /\ Took(c) /\ Took(d)
    BY DEF IInv, Roles, NotYet, Took
  <2>2. CASE wakeup = 0
    BY <2>1, <2>2 DEF IInv, BeforeWakeup
  <2>3. CASE wakeup = 1
    BY <2>1, <2>3 DEF IInv, AfterWakeup
  <2> QED BY <2>2, <2>3 DEF IInv, TypeOK
<1> QED BY <1>1, SpecIInv, PTL

(* A woken core uses only what the primary one has finished.               *)
THEOREM PreparedBeforeUse == Spec => []PublishedBeforeUse
<1>1. IInv => PublishedBeforeUse
  <2> SUFFICES ASSUME IInv, NEW c \in Core
               PROVE  /\ at[c] = "mkmain" /\ a1[c] = 0 => pagetable
                      /\ at[c] \in {"jump"} \cup InKernel => pagetable /\ boot /\ image
                      /\ at[c] \in {"kmain", "lock", "print", "init", "schedule"}
                           => kbss /\ cpu[c] = a1[c]
    BY DEF PublishedBeforeUse
  <2>1. at[c] \in {"mkmain", "jump"} \cup InKernel => Took(c)
    BY DEF IInv, NotYet, Took, InKernel
  <2>2. CASE wakeup = 0
    BY <2>1, <2>2 DEF IInv, BeforeWakeup, Roles, InKernel
  <2>3. CASE wakeup = 1
    BY <2>3 DEF IInv, AfterWakeup, Roles
  <2> QED BY <2>2, <2>3 DEF IInv, TypeOK
<1> QED BY <1>1, SpecIInv, PTL

(* The printer's spinlock excludes (spinlock.d:14).                        *)
THEOREM PrinterExcludes == Spec => []PrintExclusive
BY SpecIInv, PTL DEF IInv, PrinterHeld
=============================================================================
