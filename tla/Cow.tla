-------------------------------- MODULE Cow --------------------------------
(***************************************************************************)
(* Copy-on-write memory: Proc.make_from_elf, make_from_parent and ~this    *)
(* (plix/proc.d), mappg (plix/vm.d), the page reference counts and locks   *)
(* (plix/page.d), pgflt_handler (plix/trap.d), sys_read's use of user      *)
(* buffers (plix/sysfile.d).                                               *)
(*                                                                         *)
(* A handler runs with interrupts off up to a yield, so it is one action,  *)
(* except that pgflt_handler yields, with the page's spinlock held, while  *)
(* there is no memory.  A process that then needs that lock spins for      *)
(* ever, since only one core runs processes: mode becomes "spin".          *)
(*                                                                         *)
(* All user pages of the image and the stack are mapped when the process   *)
(* is made and none is added or unmapped later (sys_sbrk only fails), so a *)
(* page table is a function on the pages Va = 1 .. NVa in address order.   *)
(* kalloc may fail at any time, since other kernel objects use the same    *)
(* memory; page-table pages are not modelled except by that failure.       *)
(***************************************************************************)
EXTENDS Integers, FiniteSets

CONSTANTS
  Proc,     \* addresses of Procs
  Null,
  NVa,      \* user pages of a process
  Frame,    \* page frames of physical memory
  Val,      \* what a page may contain
  MaxRef    \* bound on reference counts, which only ever grow with fork

ASSUME NullAssumption == Null \notin Proc
ASSUME NVaAssumption == NVa \in Nat \ {0}
ASSUME MaxRefAssumption == MaxRef \in Nat
ASSUME FiniteAssumption == IsFiniteSet(Proc)

Va == 1 .. NVa
NoVa == 0

VARIABLES
  state,    \* "free" memory, "live" process, "zombie" on exit_queue
  pa,       \* Pte.pa: the frame that a page of a process is mapped to
  perm,     \* Pte.perm: "w" writable, or "cow" copy-on-write and read-only
  refcnt,   \* Page.refcnt
  lock,     \* Page.lock_: the process that holds it, or Null
  used,     \* frames handed out by kalloc
  data,     \* contents of the frames
  fault,    \* the page whose fault a process, blocked for memory, handles
  mode      \* "run", or how the kernel stopped: "spin" or "panic"

vars == <<state, pa, perm, refcnt, lock, used, data, fault, mode>>

TypeOK ==
  /\ state \in [Proc -> {"free", "live", "zombie"}]
  /\ pa \in [Proc -> [Va -> Frame]]
  /\ perm \in [Proc -> [Va -> {"w", "cow"}]]
  /\ refcnt \in [Frame -> Nat]
  /\ lock \in [Frame -> Proc \cup {Null}]
  /\ used \in SUBSET Frame
  /\ data \in [Frame -> Val]
  /\ fault \in [Proc -> Va \cup {NoVa}]
  /\ mode \in {"run", "spin", "panic"}

(* The page tables that exist: a zombie keeps its own until it is reaped.  *)
HasPt(p) == state[p] # "free"

(* loadelf, and the stack page: each page gets a frame of its own from     *)
(* kalloc, which mappg counts once.                                        *)
LoadElf(m) ==
  /\ \A v1, v2 \in Va : m[v1] = m[v2] => v1 = v2
  /\ used = {m[va] : va \in Va}
  /\ refcnt = [f \in Frame |-> IF f \in used THEN 1 ELSE 0]

(* make_from_elf made the first process, all of whose pages are writable.  *)
Init ==
  \E p \in Proc, m \in [Va -> Frame] :
    /\ LoadElf(m)
    /\ state = [r \in Proc |-> IF r = p THEN "live" ELSE "free"]
    /\ pa = [r \in Proc |-> m]
    /\ perm = [r \in Proc |-> [va \in Va |-> "w"]]
    /\ lock = [f \in Frame |-> Null]
    /\ data \in [Frame -> Val]
    /\ fault = [r \in Proc |-> NoVa]
    /\ mode = "run"

(* p executes in user mode or in a handler that just started.              *)
Running(p) == mode = "run" /\ state[p] = "live" /\ fault[p] = NoVa

(* The locks of the frames that the pages S of p are mapped to are free.   *)
Unlocked(p, S) == \A va \in S : lock[pa[p][va]] = Null

-----------------------------------------------------------------------------
(* Stores by the process itself, and by sys_read on its behalf.            *)

UserStore(p, va, v) ==
  /\ Running(p)
  /\ perm[p][va] = "w"
  /\ data' = [data EXCEPT ![pa[p][va]] = v]
  /\ UNCHANGED <<state, pa, perm, refcnt, lock, used, fault, mode>>

(* sys_read: checkaddr accepts any user page, so the copy to it is a store *)
(* in kernel mode; on a page that is not writable it faults, and           *)
(* kerneltrap panics on anything but a timer interrupt.                    *)
SysRead(p, va, v) ==
  /\ Running(p)
  /\ \/ /\ perm[p][va] = "w"
        /\ data' = [data EXCEPT ![pa[p][va]] = v]
        /\ UNCHANGED mode
     \/ /\ perm[p][va] # "w"
        /\ mode' = "panic"
        /\ UNCHANGED data
  /\ UNCHANGED <<state, pa, perm, refcnt, lock, used, fault>>

-----------------------------------------------------------------------------
(* pgflt_handler for a write to a copy-on-write page.                      *)

WriteFault(p, va) ==
  /\ Running(p)
  /\ perm[p][va] = "cow"
  /\ lock[pa[p][va]] = Null

(* Faulty take-over: whatever the reference count.                         *)
TakeOverAnyway(p, va) ==
  /\ WriteFault(p, va)
  /\ perm' = [perm EXCEPT ![p][va] = "w"]
  /\ UNCHANGED <<state, pa, refcnt, lock, used, data, fault, mode>>

(* refcnt == 1: take the page over.                                        *)
TakeOver(p, va) ==
  /\ WriteFault(p, va)
  /\ refcnt[pa[p][va]] = 1
  /\ perm' = [perm EXCEPT ![p][va] = "w"]
  /\ UNCHANGED <<state, pa, refcnt, lock, used, data, fault, mode>>

(* Faulty copy: the new page is mapped without the memcpy.                 *)
MapUncopied(p, va, g) ==
  /\ g \notin used
  /\ used' = used \cup {g}
  /\ perm' = [perm EXCEPT ![p][va] = "w"]
  /\ pa' = [pa EXCEPT ![p][va] = g]
  /\ UNCHANGED data

(* The end of the handler, once kalloc returned g: copy and remap.         *)
CopyTo(p, va, g) ==
  /\ g \notin used
  /\ used' = used \cup {g}
  /\ data' = [data EXCEPT ![g] = data[pa[p][va]]]
  /\ perm' = [perm EXCEPT ![p][va] = "w"]
  /\ pa' = [pa EXCEPT ![p][va] = g]

(* Somebody else has the page too: drop our reference and copy it.         *)
Copy(p, va, g) ==
  /\ WriteFault(p, va)
  /\ refcnt[pa[p][va]] # 1
  /\ CopyTo(p, va, g)
  /\ refcnt' = [refcnt EXCEPT ![pa[p][va]] = @ - 1, ![g] = @ + 1]
  /\ UNCHANGED <<state, lock, fault, mode>>

(* The same, with no memory: block with the page's lock held.              *)
CopyBlock(p, va) ==
  /\ WriteFault(p, va)
  /\ refcnt[pa[p][va]] # 1
  /\ refcnt' = [refcnt EXCEPT ![pa[p][va]] = @ - 1]
  /\ lock' = [lock EXCEPT ![pa[p][va]] = p]
  /\ fault' = [fault EXCEPT ![p] = va]
  /\ UNCHANGED <<state, pa, perm, used, data, mode>>

(* Faulty resume: the old page is dropped a second time.                   *)
CopyResumeDropsTwice(p, g) ==
  /\ mode = "run" /\ fault[p] # NoVa
  /\ CopyTo(p, fault[p], g)
  /\ refcnt' = [refcnt EXCEPT ![pa[p][fault[p]]] = @ - 1, ![g] = @ + 1]
  /\ lock' = [lock EXCEPT ![pa[p][fault[p]]] = Null]
  /\ fault' = [fault EXCEPT ![p] = NoVa]
  /\ UNCHANGED <<state, mode>>

(* Faulty resume: an early return without the unlock.                      *)
CopyResumeKeepsLock(p, g) ==
  /\ mode = "run" /\ fault[p] # NoVa
  /\ CopyTo(p, fault[p], g)
  /\ refcnt' = [refcnt EXCEPT ![g] = @ + 1]
  /\ fault' = [fault EXCEPT ![p] = NoVa]
  /\ UNCHANGED <<state, lock, mode>>

(* Woken by a tick, kalloc succeeds (while it fails, p just blocks again). *)
CopyResume(p, g) ==
  /\ mode = "run" /\ fault[p] # NoVa
  /\ CopyTo(p, fault[p], g)
  /\ refcnt' = [refcnt EXCEPT ![g] = @ + 1]
  /\ lock' = [lock EXCEPT ![pa[p][fault[p]]] = Null]
  /\ fault' = [fault EXCEPT ![p] = NoVa]
  /\ UNCHANGED <<state, mode>>

-----------------------------------------------------------------------------
(* Faulty mappg: the reference is not counted.                             *)
Unreferenced(p, S) == refcnt

(* mappg on the pages S of p: one more reference to each frame.            *)
Referenced(p, S) ==
  [f \in Frame |-> refcnt[f] + Cardinality({va \in S : pa[p][va] = f})]

(* Faulty fork: the parent keeps its write permission.                     *)
ForkKeepsWrite(p, c) ==
  /\ Running(p)
  /\ state[c] = "free"
  /\ Unlocked(p, Va)
  /\ \A va \in Va : refcnt[pa[p][va]] < MaxRef
  /\ state' = [state EXCEPT ![c] = "live"]
  /\ perm' = [perm EXCEPT ![c] = [va \in Va |-> "cow"]]
  /\ pa' = [pa EXCEPT ![c] = pa[p]]
  /\ refcnt' = Referenced(p, Va)
  /\ UNCHANGED <<lock, used, data, fault, mode>>

(* make_from_parent: p's pages become copy-on-write, and c shares them.    *)
Fork(p, c) ==
  /\ Running(p)
  /\ state[c] = "free"
  /\ Unlocked(p, Va)
  /\ \A va \in Va : refcnt[pa[p][va]] < MaxRef
  /\ state' = [state EXCEPT ![c] = "live"]
  /\ perm' = [perm EXCEPT ![p] = [va \in Va |-> "cow"], ![c] = [va \in Va |-> "cow"]]
  /\ pa' = [pa EXCEPT ![c] = pa[p]]
  /\ refcnt' = Referenced(p, Va)
  /\ UNCHANGED <<lock, used, data, fault, mode>>

(* ~this on a page table that maps the pages S as p's does, given the      *)
(* reference counts R: frames that nobody references go back to kalloc.    *)
Released(p, S, R) == used \ {f \in Frame : R[f] = 0 /\ \E va \in S : pa[p][va] = f}

(* make_from_parent when mapping page n into the child fails for lack of a *)
(* page-table page: p's pages up to n are copy-on-write by then, and the   *)
(* child that maps those before n is freed.                                *)
ForkFail(p, n) ==
  /\ Running(p)
  /\ Unlocked(p, 1 .. n - 1)
  /\ \A va \in 1 .. n - 1 : refcnt[pa[p][va]] < MaxRef
  /\ perm' = [perm EXCEPT ![p] = [va \in Va |-> IF va <= n THEN "cow" ELSE @[va]]]
  /\ refcnt' = Referenced(p, 1 .. n - 1)
  /\ used' = Released(p, 1 .. n - 1, refcnt')
  /\ UNCHANGED <<state, pa, lock, data, fault, mode>>

(* sys_exit leaves the memory alone.                                       *)
Exit(p) ==
  /\ Running(p)
  /\ state' = [state EXCEPT ![p] = "zombie"]
  /\ UNCHANGED <<pa, perm, refcnt, lock, used, data, fault, mode>>

(* sys_wait frees a zombie, running ~this.                                 *)
Reap(z) ==
  /\ mode = "run"
  /\ state[z] = "zombie"
  /\ \E p \in Proc : Running(p)
  /\ Unlocked(z, Va)
  /\ state' = [state EXCEPT ![z] = "free"]
  /\ used' = Released(z, Va, refcnt)
  /\ UNCHANGED <<pa, perm, refcnt, lock, data, fault, mode>>

(* A handler needs the lock of a page whose holder is blocked for memory.  *)
(* What it changed before does not matter: nothing runs any more.          *)
Spin(p) ==
  /\ Running(p)
  /\ \/ \E va \in Va : perm[p][va] = "cow" /\ ~Unlocked(p, {va})   \* pgflt_handler
     \/ ~Unlocked(p, Va)                                           \* sys_fork
     \/ \E z \in Proc : state[z] = "zombie" /\ ~Unlocked(z, Va)    \* sys_wait
  /\ mode' = "spin"
  /\ UNCHANGED <<state, pa, perm, refcnt, lock, used, data, fault>>

Next ==
  \E p \in Proc :
    \/ \E va \in Va :
         \/ \E v \in Val : UserStore(p, va, v) \/ SysRead(p, va, v)
         \/ TakeOver(p, va)
         \/ \E g \in Frame : Copy(p, va, g)
         \/ CopyBlock(p, va)
         \/ ForkFail(p, va)
    \/ \E g \in Frame : CopyResume(p, g)
    \/ \E c \in Proc : Fork(p, c)
    \/ Exit(p)
    \/ Reap(p)
    \/ Spin(p)

Spec == Init /\ [][Next]_vars

-----------------------------------------------------------------------------
(* The pages, of all processes, mapped to frame f; of a process that waits *)
(* for memory in pgflt_handler the faulting page no longer counts.         *)
Mapping(f) ==
  {m \in Proc \X Va : HasPt(m[1]) /\ pa[m[1]][m[2]] = f}

Counted(f) == {m \in Mapping(f) : fault[m[1]] # m[2]}

(* A page mapped writable is mapped by one process only, at one address:   *)
(* no store reaches another process (proc.d:98, trap.d:62 and 83).         *)
WritableExclusive ==
  \A p, q \in Proc, va, v \in Va :
    HasPt(p) /\ HasPt(q) /\ perm[p][va] = "w" /\ pa[q][v] = pa[p][va]
      => q = p /\ v = va

(* A frame has at least as many references as pages that count on it, so   *)
(* refcnt == 1 lets the right process take it over (trap.d:60), and it is  *)
(* not given out again while mapped.                                       *)
RefcntCovers ==
  \A f \in Frame : /\ refcnt[f] >= Cardinality(Counted(f))
                   /\ Mapping(f) # {} => f \in used

(* The lock of a frame is held exactly by a process that handles a fault   *)
(* on it without memory.                                                   *)
LocksMatchFaults ==
  /\ \A p \in Proc : fault[p] # NoVa =>
       /\ state[p] = "live" /\ perm[p][fault[p]] = "cow"
       /\ lock[pa[p][fault[p]]] = p
  /\ \A f \in Frame : lock[f] # Null =>
       fault[lock[f]] # NoVa /\ pa[lock[f]][fault[lock[f]]] = f

(* Every process sees a private memory (the promise of fork), whatever is  *)
(* shared, copied, taken over or waited for underneath.                    *)
Live == {p \in Proc : state[p] = "live"}
Seen == [p \in Proc |-> IF state[p] = "live" THEN [va \in Va |-> data[pa[p][va]]]
                        ELSE <<>>]
Private == INSTANCE PrivateMem WITH alive <- Live, mem <- Seen, Blank <- <<>>
IsPrivate == Private!ASpec

(* The kernel's own work on p's memory.                                    *)
KernelWork(p) ==
  \/ \E va \in Va : \/ TakeOver(p, va) \/ CopyBlock(p, va) \/ ForkFail(p, va)
                    \/ \E g \in Frame : Copy(p, va, g)
  \/ \E g \in Frame : CopyResume(p, g)
  \/ Reap(p)

(* A page fault, a fork that fails and the freeing of a process change no  *)
(* byte that any process sees: a copy is a true copy, also when it is made *)
(* long after the fault (trap.d:80), and no frame in use is overwritten.   *)
FaultsInvisible == [][\A p \in Proc : KernelWork(p) => UNCHANGED <<Live, Seen>>]_vars

(* A process without memory for a copy blocks (trap.d:70, "Block while     *)
(* waiting for available memory"), and the others go on.                   *)
OthersGoOn == mode # "spin"
=============================================================================
