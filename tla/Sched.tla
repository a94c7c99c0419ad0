------------------------------- MODULE Sched -------------------------------
(***************************************************************************)
(* Processes and the scheduler: plix/schedule.d, plix/proc.d (state, block,*)
(* exit, yield), the process system calls of plix/syscall.d (fork, wait,   *)
(* exit, usleep) and the timer interrupt of plix/trap.d.                   *)
(*                                                                         *)
(* One core runs processes (kmain: the others return and halt).  Kernel    *)
(* code entered from user mode runs with interrupts off up to the next     *)
(* yield, so a handler, or the part of it between two yields, is one       *)
(* action; its loops over a queue are one action per iteration with no     *)
(* other action enabled in between.  A timer interrupt is taken in user    *)
(* mode and in the scheduler loop.                                         *)
(*                                                                         *)
(* A Proc is identified by its address; the memory of a freed one keeps its*)
(* contents until knew makes a Proc of it again.  (It is assumed that it   *)
(* is not reused for anything else while a child still points to it.)      *)
(***************************************************************************)
EXTENDS ProcQueue

CONSTANT MaxSleep   \* longest usleep, in time slices

ASSUME MaxSleepAssumption == MaxSleep \in Nat

ASSUME QueueNames == Queue = {"runq", "exit_queue", "ticks_queue", "wait_queue"}

VARIABLES
  live,      \* addresses that hold an allocated Proc
  state,     \* Proc.state
  wq,        \* Proc.wq
  parent,    \* Proc.parent
  children,  \* Proc.children
  links,     \* Proc.next, Proc.prev and the four queues
  cur,       \* the process switched to, or Null while schedule() runs
  pc,        \* where a process is: in user mode or inside a system call
  inirq,     \* the timer interrupt handler is running
  zombie,    \* the cursor of sys_wait's walk over exit_queue
  left,      \* usleep: time slices until us_since(start) >= us
  kids       \* history: the unreaped processes p has forked

vars == <<live, state, wq, parent, children, links, cur, pc, inirq, zombie, left, kids>>

ProcState == {"runnable", "blocked", "exited"}
Location == {"user", "scan", "wait", "usleep", "exited"}

TypeOK ==
  /\ live \in SUBSET Proc
  /\ state \in [Proc -> ProcState]
  /\ wq \in [Proc -> Queue \cup {NoQueue}]
  /\ parent \in [Proc -> ProcPtr]
  /\ children \in [Proc -> Int]
  /\ links \in Links
  /\ cur \in ProcPtr
  /\ pc \in [Proc -> Location]
  /\ inirq \in BOOLEAN
  /\ zombie \in ProcPtr
  /\ left \in [Proc -> 0 .. MaxSleep]
  /\ kids \in [Proc -> SUBSET Proc]

(* The queue a process is in, as its state says: the process switched to   *)
(* and unallocated memory are in none.                                     *)
Where ==
  [p \in Proc |->
     IF p \notin live \/ p = cur THEN NoQueue
     ELSE IF state[p] = "runnable" THEN "runq"
     ELSE wq[p]]

-----------------------------------------------------------------------------
(* kmain: one process made from the ELF image is on runq, no parent.       *)
Init ==
  \E p \in Proc :
    /\ live = {p}
    /\ state = [r \in Proc |-> IF r = p THEN "runnable" ELSE "exited"]
    /\ wq = [r \in Proc |-> NoQueue]
    /\ parent = [r \in Proc |-> Null]
    /\ children = [r \in Proc |-> 0]
    /\ links = PushFront(EmptyLinks, "runq", p)
    /\ cur = Null
    /\ pc = [r \in Proc |-> "user"]
    /\ inirq = FALSE
    /\ zombie = Null
    /\ left = [r \in Proc |-> 0]
    /\ kids = [r \in Proc |-> {}]

(* Queue.wake: to be conjoined with the change of state.                   *)
Wake(L, q, p) == PushFront(Remove(L, q, p), "runq", p)

InUser(p) == cur = p /\ pc[p] = "user" /\ ~inirq

-----------------------------------------------------------------------------
(* Faulty dispatch: last in, first out.                                    *)
DispatchFront ==
  /\ cur = Null /\ ~inirq
  /\ links.front["runq"] # Null
  /\ cur' = links.front["runq"]
  /\ links' = Remove(links, "runq", links.front["runq"])
  /\ UNCHANGED <<live, state, wq, parent, children, pc, inirq, zombie, left, kids>>

(* runnable_proc and schedule: take the back of runq and switch to it.     *)
(* With runq empty the loop sits in wfi until the next interrupt.          *)
Dispatch ==
  /\ cur = Null /\ ~inirq
  /\ links.back["runq"] # Null
  /\ cur' = links.back["runq"]
  /\ links' = Remove(links, "runq", links.back["runq"])
  /\ UNCHANGED <<live, state, wq, parent, children, pc, inirq, zombie, left, kids>>

(* Faulty block: the state is not set.                                     *)
BlockKeepsState(p, q) ==
  /\ wq' = [wq EXCEPT ![p] = q]
  /\ links' = PushFront(links, q, p)
  /\ cur' = Null
  /\ UNCHANGED state

(* Proc.block (state, wq, push_front) followed by Proc.yield, after which  *)
(* schedule() does not requeue p because it is not runnable.               *)
BlockAndYield(p, q) ==
  /\ state' = [state EXCEPT ![p] = "blocked"]
  /\ wq' = [wq EXCEPT ![p] = q]
  /\ links' = PushFront(links, q, p)
  /\ cur' = Null

(* sys_fork: allocate a Proc (with no memory left it returns Err.nomem and *)
(* nothing here changes), make it a runnable child of p and queue it.      *)
Fork(p, c) ==
  /\ InUser(p)
  /\ c \notin live
  /\ live' = live \cup {c}
  /\ state' = [state EXCEPT ![c] = "runnable"]
  /\ wq' = [wq EXCEPT ![c] = NoQueue]
  /\ parent' = [parent EXCEPT ![c] = p]
  /\ children' = [children EXCEPT ![c] = 0, ![p] = @ + 1]
  /\ links' = PushFront(links, "runq", c)
  /\ pc' = [pc EXCEPT ![c] = "user"]
  /\ left' = [left EXCEPT ![c] = 0]
  /\ kids' = [kids EXCEPT ![c] = {}, ![p] = @ \cup {c}]
  /\ UNCHANGED <<cur, inirq, zombie>>

(* sys_wait, entry: with no children it returns Err.child at once, leaving *)
(* everything as it was; otherwise the walk over exit_queue starts.        *)
WaitEnter(p) ==
  /\ InUser(p)
  /\ children[p] # 0
  /\ pc' = [pc EXCEPT ![p] = "scan"]
  /\ zombie' = links.front["exit_queue"]
  /\ UNCHANGED <<live, state, wq, parent, children, links, cur, inirq, left, kids>>

(* sys_wait, switched to again after its block: the loop starts over.      *)
WaitResume(p) ==
  /\ cur = p /\ pc[p] = "wait"
  /\ pc' = [pc EXCEPT ![p] = "scan"]
  /\ zombie' = links.front["exit_queue"]
  /\ UNCHANGED <<live, state, wq, parent, children, links, cur, inirq, left, kids>>

(* sys_wait, foreach body: the zombie is somebody else's child.            *)
WaitSkip(p) ==
  /\ cur = p /\ pc[p] = "scan"
  /\ zombie # Null /\ parent[zombie] # p
  /\ zombie' = links.next[zombie]
  /\ UNCHANGED <<live, state, wq, parent, children, links, cur, pc, inirq, left, kids>>

(* Faulty wait: the walk goes on from the zombie that was just freed.      *)
WaitReapWalksOn(p) ==
  /\ cur = p /\ pc[p] = "scan"
  /\ zombie # Null /\ parent[zombie] = p
  /\ links' = Remove(links, "exit_queue", zombie)
  /\ live' = live \ {zombie}
  /\ children' = [children EXCEPT ![p] = @ - 1]
  /\ kids' = [r \in Proc |-> kids[r] \ {zombie}]
  /\ UNCHANGED <<state, wq, parent, cur, pc, inirq, zombie, left>>

(* sys_wait, foreach body: a zombie of p is unlinked and freed, and the    *)
(* call returns its pid.                                                   *)
WaitReap(p) ==
  /\ cur = p /\ pc[p] = "scan"
  /\ zombie # Null /\ parent[zombie] = p
  /\ links' = Remove(links, "exit_queue", zombie)
  /\ live' = live \ {zombie}
  /\ children' = [children EXCEPT ![p] = @ - 1]
  /\ kids' = [r \in Proc |-> kids[r] \ {zombie}]
  /\ pc' = [pc EXCEPT ![p] = "user"]
  /\ zombie' = Null
  /\ UNCHANGED <<state, wq, parent, cur, inirq, left>>

(* sys_wait: no zombie of p, so p blocks on wait_queue and yields.         *)
WaitBlock(p) ==
  /\ cur = p /\ pc[p] = "scan"
  /\ zombie = Null
  /\ BlockAndYield(p, "wait_queue")
  /\ pc' = [pc EXCEPT ![p] = "wait"]
  /\ UNCHANGED <<live, parent, children, inirq, zombie, left, kids>>

(* The test of sys_exit on the parent, which may have been freed (or its   *)
(* address reused) since p was forked.                                     *)
ParentWaits(p) ==
  /\ parent[p] # Null
  /\ state[parent[p]] = "blocked"
  /\ wq[parent[p]] = "wait_queue"

(* Faulty exit: a waiting parent is not woken.                             *)
ExitWakesNobody(p) ==
  /\ InUser(p)
  /\ links' = PushFront(links, "exit_queue", p)
  /\ state' = [state EXCEPT ![p] = "exited"]
  /\ wq' = [wq EXCEPT ![p] = "exit_queue"]
  /\ pc' = [pc EXCEPT ![p] = "exited"]
  /\ cur' = Null
  /\ UNCHANGED <<live, parent, children, inirq, zombie, left, kids>>

(* sys_exit, called by the process or on a fault that kills it: wake a     *)
(* waiting parent, go to exit_queue, never to run again.                   *)
Exit(p) ==
  /\ InUser(p)
  /\ links' = PushFront(IF ParentWaits(p) THEN Wake(links, "wait_queue", parent[p]) ELSE links,
                        "exit_queue", p)
  /\ state' = [r \in Proc |-> IF r = p THEN "exited"
                              ELSE IF ParentWaits(p) /\ r = parent[p] THEN "runnable"
                              ELSE state[r]]
  /\ wq' = [wq EXCEPT ![p] = "exit_queue"]
  /\ pc' = [pc EXCEPT ![p] = "exited"]
  /\ cur' = Null
  /\ UNCHANGED <<live, parent, children, inirq, zombie, left, kids>>

(* sys_usleep for d slices (for less than one tick it returns at once).    *)
Usleep(p, d) ==
  /\ InUser(p)
  /\ BlockAndYield(p, "ticks_queue")
  /\ left' = [left EXCEPT ![p] = d]
  /\ pc' = [pc EXCEPT ![p] = "usleep"]
  /\ UNCHANGED <<live, parent, children, inirq, zombie, kids>>

(* Faulty usleep: > instead of >= in the test of the time.                 *)
UsleepForEver(p) ==
  /\ cur = p /\ pc[p] = "usleep"
  /\ left[p] >= 0
  /\ BlockAndYield(p, "ticks_queue")
  /\ UNCHANGED <<live, parent, children, pc, inirq, zombie, left, kids>>

(* sys_usleep, switched to again after a tick: sleep on or return.         *)
UsleepResume(p) ==
  /\ cur = p /\ pc[p] = "usleep"
  /\ \/ /\ left[p] > 0
        /\ BlockAndYield(p, "ticks_queue")
        /\ UNCHANGED pc
     \/ /\ left[p] = 0
        /\ pc' = [pc EXCEPT ![p] = "user"]
        /\ UNCHANGED <<state, wq, links, cur>>
  /\ UNCHANGED <<live, parent, children, inirq, zombie, left, kids>>

-----------------------------------------------------------------------------
(* Faulty clock: the remaining time wraps below zero.                      *)
TimerIrqNoFloor ==
  /\ ~inirq
  /\ cur # Null => pc[cur] = "user"
  /\ inirq' = TRUE
  /\ left' = [p \in Proc |-> left[p] - 1]
  /\ UNCHANGED <<live, state, wq, parent, children, links, cur, pc, zombie, kids>>

(* A timer interrupt is taken: in user mode (usertrap) or in the scheduler *)
(* loop (kerneltrap).  One slice has passed.                               *)
TimerIrq ==
  /\ ~inirq
  /\ cur # Null => pc[cur] = "user"
  /\ inirq' = TRUE
  /\ left' = [p \in Proc |-> IF left[p] > 0 THEN left[p] - 1 ELSE 0]
  /\ UNCHANGED <<live, state, wq, parent, children, links, cur, pc, zombie, kids>>

(* irq_handler: one iteration of ticks_queue.wake_all().                   *)
WakeTick ==
  /\ inirq
  /\ links.front["ticks_queue"] # Null
  /\ links' = Wake(links, "ticks_queue", links.front["ticks_queue"])
  /\ state' = [state EXCEPT ![links.front["ticks_queue"]] = "runnable"]
  /\ UNCHANGED <<live, wq, parent, children, cur, pc, inirq, zombie, left, kids>>

(* irq_handler, end: the timer is armed again; an interrupted process      *)
(* yields, and schedule() puts it back on runq.                            *)
IrqReturn ==
  /\ inirq
  /\ links.front["ticks_queue"] = Null
  /\ inirq' = FALSE
  /\ links' = IF cur = Null THEN links ELSE PushFront(links, "runq", cur)
  /\ cur' = Null
  /\ UNCHANGED <<live, state, wq, parent, children, pc, zombie, left, kids>>

-----------------------------------------------------------------------------
Wait(p) == WaitEnter(p) \/ WaitResume(p) \/ WaitSkip(p) \/ WaitReap(p) \/ WaitBlock(p)

Next ==
  \/ Dispatch
  \/ \E p \in Proc : \/ Wait(p)
                     \/ Exit(p)
                     \/ UsleepResume(p)
                     \/ \E c \in Proc : Fork(p, c)
                     \/ \E d \in 1 .. MaxSleep : Usleep(p, d)
  \/ TimerIrq
  \/ WakeTick
  \/ IrqReturn

Spec == Init /\ [][Next]_vars

(* Kernel code that has started goes on.  The timer is armed again by every*)
(* handler and a pending interrupt stays pending while masked; it comes    *)
(* once per slice, so the scheduler loop runs between two of them.  User   *)
(* programs owe nothing.                                                   *)
Fairness ==
  /\ SF_vars(Dispatch)
  /\ SF_vars(TimerIrq)
  /\ WF_vars(WakeTick)
  /\ WF_vars(IrqReturn)
  /\ \A p \in Proc :
       /\ WF_vars(WaitResume(p) \/ WaitSkip(p) \/ WaitReap(p) \/ WaitBlock(p))
       /\ WF_vars(UsleepResume(p))

FairSpec == Spec /\ Fairness

-----------------------------------------------------------------------------
(* The links of every process agree with its state, wq and the scheduler:  *)
(* no process is in two queues, and the queue it is in is the one that its *)
(* state says (schedule.d, Queue; proc.d, wait).                           *)
QueuesConsistent == LinksAgree(links, Where)

(* No process is lost: walking each queue from its front meets exactly the *)
(* processes that wait there, and size counts them.                        *)
NoneLost == WalkMeetsMembers(links, Where)

(* The assertions of the kernel hold: Queue.wake finds a blocked process   *)
(* (schedule.d:56) and an exited process is never switched to again        *)
(* (syscall.d:155, "exited process resumed").                              *)
AssertionsHold ==
  /\ cur # Null => cur \in live /\ state[cur] = "runnable" /\ pc[cur] # "exited"
  /\ inirq /\ links.front["ticks_queue"] # Null
       => state[links.front["ticks_queue"]] = "blocked"

(* The walk of sys_wait stays on allocated zombies: the node it stands on  *)
(* is still linked in exit_queue (syscall.d:131).                          *)
ScanOnZombies == zombie # Null => zombie \in live /\ Where[zombie] = "exit_queue"

(* sys_wait says Err.child, "No child processes" (syscall.d:39), only to a *)
(* process that has no unreaped child.                                     *)
ErrChildMeansNoChild ==
  \A p \in live : children[p] = 0 => kids[p] = {}

(* Round robin: a process on runq is switched to, whatever the others do   *)
(* (runnable_proc pops what push_front pushed first).                      *)
RunnableRuns == \A p \in Proc : Where[p] = "runq" ~> cur = p

(* usleep returns: each tick wakes ticks_queue.                            *)
SleepReturns == \A p \in Proc : pc[p] = "usleep" ~> pc[p] = "user"

(* No wakeup is lost: a process inside wait with a child on exit_queue     *)
(* returns from wait.                                                      *)
WaitReturns ==
  \A p \in Proc :
    (/\ pc[p] \in {"scan", "wait"}
     /\ \E z \in live : state[z] = "exited" /\ parent[z] = p) ~> pc[p] = "user"
=============================================================================
