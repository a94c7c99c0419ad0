-------------------------------- MODULE Boot --------------------------------
(***************************************************************************)
(* Booting all cores (riscv64): _monitor_start and _kernel_start in        *)
(* monitor.s and kernel.s, start (plix/start.d), the monitor's kmain       *)
(* (boot/main.d) with kernel_setup, and the kernel's kmain                 *)
(* (kernel/main.d) with wakeup_cores and its first printf.                 *)
(*                                                                         *)
(* One core is let through by boot_lock; it clears the BSS, loads the      *)
(* kernel image and enters it, and from there writes wakeup, on which the  *)
(* other cores spin.  Every core goes through the same code; that it is    *)
(* the primary one it learns from a flag that it reads and clears in two   *)
(* instructions, once in the monitor and once in the kernel image.         *)
(*                                                                         *)
(* A step is one access to a shared variable; memory is taken to be        *)
(* sequentially consistent.                                                *)
(***************************************************************************)
EXTENDS Integers

CONSTANTS
  Core,
  SCore   \* the cores that support S-mode

ASSUME SCoreAssumption == SCore \subseteq Core

VARIABLES
  at,         \* where a core is
  a1,         \* its copy of primary, the second argument of start
  boot_lock,
  wakeup,
  mprimary,   \* primary in the monitor's data
  kprimary,   \* primary in the kernel image
  pagetable,  \* the early page table is filled in (BSS of the monitor)
  boot,       \* boot.entry is set (BSS of the monitor)
  image,      \* the kernel image is in place
  kbss,       \* the kernel's BSS is cleared
  cpu,        \* cpu.primary of each core (BSS of the kernel)
  printer     \* locked, of the printer's Spinlock in the kernel image

vars == <<at, a1, boot_lock, wakeup, mprimary, kprimary, pagetable, boot, image,
          kbss, cpu, printer>>

Location == {"reset", "amoswap", "spin",
             "mload", "mstore", "mstart", "mkmain", "load", "copy", "jump",
             "kload", "kstore", "kstart", "kmain", "lock", "print", "init", "schedule",
             "halt"}

TypeOK ==
  /\ at \in [Core -> Location]
  /\ a1 \in [Core -> {0, 1}]
  /\ boot_lock \in {0, 1} /\ wakeup \in {0, 1} /\ printer \in {0, 1}
  /\ mprimary \in {0, 1} /\ kprimary \in {0, 1}
  /\ pagetable \in BOOLEAN /\ boot \in BOOLEAN
  /\ image \in BOOLEAN /\ kbss \in BOOLEAN
  /\ cpu \in [Core -> {0, 1}]

(* The kernel's memory holds anything before the image is copied to it.    *)
Init ==
  /\ at = [c \in Core |-> "reset"]
  /\ a1 = [c \in Core |-> 0]
  /\ boot_lock = 0 /\ wakeup = 0 /\ mprimary = 1
  /\ kprimary \in {0, 1} /\ printer \in {0, 1}
  /\ cpu \in [Core -> {0, 1}]
  /\ pagetable = FALSE /\ boot = FALSE /\ image = FALSE /\ kbss = FALSE

Goto(c, l) == at' = [at EXCEPT ![c] = l]

-----------------------------------------------------------------------------
(* The monitor.                                                            *)

(* _monitor_start halts a core that has no S-mode.                         *)
Reset(c) ==
  /\ at[c] = "reset"
  /\ Goto(c, IF c \in SCore THEN "amoswap" ELSE "halt")
  /\ UNCHANGED <<a1, boot_lock, wakeup, mprimary, kprimary, pagetable, boot, image,
                 kbss, cpu, printer>>

(* Faulty lock: added to rather than swapped.                              *)
BootLockAdds(c) ==
  /\ at[c] = "amoswap"
  /\ boot_lock' = boot_lock + 1
  /\ Goto(c, IF boot_lock = 0 THEN "mload" ELSE "spin")
  /\ UNCHANGED <<a1, wakeup, mprimary, kprimary, pagetable, boot, image, kbss, cpu, printer>>

(* amoswap.w.aq on boot_lock.                                              *)
BootLock(c) ==
  /\ at[c] = "amoswap"
  /\ boot_lock' = 1
  /\ Goto(c, IF boot_lock = 0 THEN "mload" ELSE "spin")
  /\ UNCHANGED <<a1, wakeup, mprimary, kprimary, pagetable, boot, image, kbss, cpu, printer>>

(* Faulty spin: the core does not wait for wakeup.                         *)
SpinNot(c) ==
  /\ at[c] = "spin"
  /\ Goto(c, "mload")
  /\ UNCHANGED <<a1, boot_lock, wakeup, mprimary, kprimary, pagetable, boot, image,
                 kbss, cpu, printer>>

(* _spin: until wakeup is written.                                         *)
Spin(c) ==
  /\ at[c] = "spin"
  /\ wakeup # 0
  /\ Goto(c, "mload")
  /\ UNCHANGED <<a1, boot_lock, wakeup, mprimary, kprimary, pagetable, boot, image,
                 kbss, cpu, printer>>

(* lw a1, primary                                                          *)
MLoad(c) ==
  /\ at[c] = "mload"
  /\ a1' = [a1 EXCEPT ![c] = mprimary]
  /\ Goto(c, "mstore")
  /\ UNCHANGED <<boot_lock, wakeup, mprimary, kprimary, pagetable, boot, image, kbss,
                 cpu, printer>>

(* Faulty store: primary is not cleared.                                   *)
MStoreMissing(c) ==
  /\ at[c] = "mstore"
  /\ Goto(c, "mstart")
  /\ UNCHANGED <<a1, boot_lock, wakeup, mprimary, kprimary, pagetable, boot, image,
                 kbss, cpu, printer>>

(* sw zero, primary                                                        *)
MStore(c) ==
  /\ at[c] = "mstore"
  /\ mprimary' = 0
  /\ Goto(c, "mstart")
  /\ UNCHANGED <<a1, boot_lock, wakeup, kprimary, pagetable, boot, image, kbss, cpu, printer>>

(* start: the primary core clears the BSS.                                 *)
MStart(c) ==
  /\ at[c] = "mstart"
  /\ pagetable' = IF a1[c] = 1 THEN FALSE ELSE pagetable
  /\ boot' = IF a1[c] = 1 THEN FALSE ELSE boot
  /\ Goto(c, "mkmain")
  /\ UNCHANGED <<a1, boot_lock, wakeup, mprimary, kprimary, image, kbss, cpu, printer>>

(* monitor_init, enter_kmode, and kernel_setup, which fills in the page    *)
(* table on the primary core and uses it on every core.                    *)
MKmain(c) ==
  /\ at[c] = "mkmain"
  /\ pagetable' = IF a1[c] = 1 THEN TRUE ELSE pagetable
  /\ Goto(c, IF a1[c] = 1 THEN "load" ELSE "jump")
  /\ UNCHANGED <<a1, boot_lock, wakeup, mprimary, kprimary, boot, image, kbss, cpu, printer>>

(* recv or unpack: boot is assigned, or a bad image halts the core.        *)
Load(c) ==
  /\ at[c] = "load"
  /\ \/ boot' = TRUE /\ Goto(c, "copy")
     \/ boot' = boot /\ Goto(c, "halt")
  /\ UNCHANGED <<a1, boot_lock, wakeup, mprimary, kprimary, pagetable, image, kbss,
                 cpu, printer>>

(* The loop of vst: the image, with the initial values of its data, goes   *)
(* to boot.entry.                                                          *)
CopyImage(c) ==
  /\ at[c] = "copy"
  /\ image' = TRUE /\ kprimary' = 1 /\ printer' = 0
  /\ Goto(c, "jump")
  /\ UNCHANGED <<a1, boot_lock, wakeup, mprimary, pagetable, boot, kbss, cpu>>

(* main(coreid): enter the kernel at boot.entry.                           *)
Jump(c) ==
  /\ at[c] = "jump"
  /\ Goto(c, "kload")
  /\ UNCHANGED <<a1, boot_lock, wakeup, mprimary, kprimary, pagetable, boot, image,
                 kbss, cpu, printer>>

-----------------------------------------------------------------------------
(* The kernel.                                                             *)

KLoad(c) ==
  /\ at[c] = "kload"
  /\ a1' = [a1 EXCEPT ![c] = kprimary]
  /\ Goto(c, "kstore")
  /\ UNCHANGED <<boot_lock, wakeup, mprimary, kprimary, pagetable, boot, image, kbss,
                 cpu, printer>>

KStore(c) ==
  /\ at[c] = "kstore"
  /\ kprimary' = 0
  /\ Goto(c, "kstart")
  /\ UNCHANGED <<a1, boot_lock, wakeup, mprimary, pagetable, boot, image, kbss, cpu, printer>>

(* start: init_bss on the primary core, then init_cpu.                     *)
KStart(c) ==
  /\ at[c] = "kstart"
  /\ kbss' = IF a1[c] = 1 THEN TRUE ELSE kbss
  /\ cpu' = [d \in Core |-> IF d = c THEN a1[c] ELSE IF a1[c] = 1 THEN 0 ELSE cpu[d]]
  /\ Goto(c, "kmain")
  /\ UNCHANGED <<a1, boot_lock, wakeup, mprimary, kprimary, pagetable, boot, image, printer>>

(* Faulty kmain: the other cores are not woken.                            *)
KMainWakesNobody(c) ==
  /\ at[c] = "kmain"
  /\ Goto(c, "lock")
  /\ UNCHANGED <<a1, boot_lock, wakeup, mprimary, kprimary, pagetable, boot, image,
                 kbss, cpu, printer>>

(* kmain: the primary core calls the monitor, which writes wakeup.         *)
KMain(c) ==
  /\ at[c] = "kmain"
  /\ wakeup' = IF a1[c] = 1 THEN 1 ELSE wakeup
  /\ Goto(c, "lock")
  /\ UNCHANGED <<a1, boot_lock, mprimary, kprimary, pagetable, boot, image, kbss, cpu, printer>>

(* Faulty lock: taken even when it is held.                                *)
PrintLockAnyway(c) ==
  /\ at[c] = "lock"
  /\ printer' = 1
  /\ Goto(c, "print")
  /\ UNCHANGED <<a1, boot_lock, wakeup, mprimary, kprimary, pagetable, boot, image, kbss, cpu>>

(* printf: Spinlock.lock of the printer,                                   *)
PrintLock(c) ==
  /\ at[c] = "lock"
  /\ printer = 0
  /\ printer' = 1
  /\ Goto(c, "print")
  /\ UNCHANGED <<a1, boot_lock, wakeup, mprimary, kprimary, pagetable, boot, image, kbss, cpu>>

(* and its release; then all but the primary core return and halt.         *)
PrintUnlock(c) ==
  /\ at[c] = "print"
  /\ printer' = 0
  /\ Goto(c, IF a1[c] = 1 THEN "init" ELSE "halt")
  /\ UNCHANGED <<a1, boot_lock, wakeup, mprimary, kprimary, pagetable, boot, image, kbss, cpu>>

(* kallocinit, binit, fsinit, the first process; then schedule() for ever. *)
Schedule(c) ==
  /\ at[c] = "init"
  /\ Goto(c, "schedule")
  /\ UNCHANGED <<a1, boot_lock, wakeup, mprimary, kprimary, pagetable, boot, image,
                 kbss, cpu, printer>>

CoreStep(c) ==
  \/ Reset(c) \/ BootLock(c) \/ Spin(c) \/ MLoad(c) \/ MStore(c) \/ MStart(c)
  \/ MKmain(c) \/ Load(c) \/ CopyImage(c) \/ Jump(c)
  \/ KLoad(c) \/ KStore(c) \/ KStart(c) \/ KMain(c)
  \/ PrintLock(c) \/ PrintUnlock(c) \/ Schedule(c)

Next == \E c \in Core : CoreStep(c)

(* Every core runs; one that waits for the printer gets it in the end,     *)
(* since each core takes it once.                                          *)
Fairness == \A c \in Core : WF_vars(CoreStep(c))

Spec == Init /\ [][Next]_vars

FairSpec == Spec /\ Fairness

-----------------------------------------------------------------------------
InMonitor == {"mload", "mstore", "mstart", "mkmain", "load", "copy", "jump"}
InKernel == {"kload", "kstore", "kstart", "kmain", "lock", "print", "init", "schedule"}

(* One core at most acts as the primary one: initialises memory, loads the *)
(* image, or runs the kernel's set-up and the scheduler (kernel/main.d:29).*)
OnePrimary ==
  \A c, d \in Core :
    /\ at[c] \in {"load", "copy", "init", "schedule"}
    /\ at[d] \in {"load", "copy", "init", "schedule"}
    => c = d

(* A core that was woken finds all that the primary one prepared: it jumps *)
(* into a complete image with the page table filled in, and no BSS is      *)
(* cleared under it (boot/main.d:138-142, start.d:24).                     *)
PublishedBeforeUse ==
  \A c \in Core :
    /\ at[c] = "mkmain" /\ a1[c] = 0 => pagetable
    /\ at[c] \in {"jump"} \cup InKernel => pagetable /\ boot /\ image
    /\ at[c] \in {"kmain", "lock", "print", "init", "schedule"} => kbss /\ cpu[c] = a1[c]

(* Only one core at a time writes to the console (spinlock.d:14).          *)
PrintExclusive ==
  \A c, d \in Core : at[c] = "print" /\ at[d] = "print" => c = d

(* Once a good image is loaded every core that can run enters the kernel,  *)
(* and one of them ends up in the scheduler.                               *)
AllCoresBoot ==
  image ~> /\ \A c \in SCore : at[c] \in {"halt", "schedule"}
           /\ \E c \in SCore : at[c] = "schedule"
=============================================================================
