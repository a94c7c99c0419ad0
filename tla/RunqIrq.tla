------------------------------ MODULE RunqIrq ------------------------------
(***************************************************************************)
(* runnable_proc against the timer interrupt.  runnable_proc turns         *)
(* interrupts on and then pops runq (schedule.d:77-80), so the statements  *)
(* of Queue.remove can be interrupted by irq_handler, whose wake_all       *)
(* pushes the sleeping processes onto the same queue.  Sched takes the pop *)
(* as one step; here it is taken statement by statement.                   *)
(*                                                                         *)
(* Nothing tells the compiler that p.prev can change while remove runs, so *)
(* a statement that uses it may load it again or use the value loaded      *)
(* before: both are modelled.  p.next cannot change: p is the back.        *)
(***************************************************************************)
EXTENDS ProcQueue   \* Queue: "runq" and "ticks_queue"

VARIABLES
  links,   \* Proc.next, Proc.prev and the two queues
  state,   \* Proc.state, or "none" for memory that holds no process yet
  at,      \* the statement that the scheduler is about to run, or "user"
  b,       \* pop_back's b: the process being removed, then running
  prev,    \* remove: b.prev as loaded by an earlier statement
  inirq    \* the timer interrupt handler is running

vars == <<links, state, at, b, prev, inirq>>

(* kmain: one process, on runq.                                            *)
Init ==
  \E p \in Proc :
    /\ links = PushFront(EmptyLinks, "runq", p)
    /\ state = [r \in Proc |-> IF r = p THEN "runnable" ELSE "none"]
    /\ at = "pop"
    /\ b = Null
    /\ prev = Null
    /\ inirq = FALSE

(* pop_back: with back null it returns null, and the loop goes to wfi.     *)
PopBack ==
  /\ at = "pop" /\ ~inirq
  /\ \/ /\ links.back["runq"] = Null
        /\ at' = "wfi"
        /\ UNCHANGED <<b, prev>>
     \/ /\ links.back["runq"] # Null
        /\ at' = "back"
        /\ b' = links.back["runq"]
        /\ prev' = links.prev[b']
  /\ UNCHANGED <<links, state, inirq>>

(* remove, first if: p.next.prev or back takes p.prev.                     *)
RemoveBack ==
  /\ at = "back" /\ ~inirq
  /\ prev' \in {prev, links.prev[b]}
  /\ links' = IF links.next[b] # Null
              THEN [links EXCEPT !.prev[links.next[b]] = prev']
              ELSE [links EXCEPT !.back["runq"] = prev']
  /\ at' = "front"
  /\ UNCHANGED <<state, b, inirq>>

(* remove, second if: p.prev.next or front takes p.next.                   *)
RemoveFront ==
  /\ at = "front" /\ ~inirq
  /\ prev' \in {prev, links.prev[b]}
  /\ links' = IF prev' # Null
              THEN [links EXCEPT !.next[prev'] = links.next[b]]
              ELSE [links EXCEPT !.front["runq"] = links.next[b]]
  /\ at' = "size"
  /\ UNCHANGED <<state, b, inirq>>

(* remove, size--; then schedule() turns interrupts off and switches to b. *)
RemoveSize ==
  /\ at = "size" /\ ~inirq
  /\ links' = [links EXCEPT !.size["runq"] = @ - 1]
  /\ at' = "user"
  /\ UNCHANGED <<state, b, prev, inirq>>

(* wfi returns and the loop pops again.                                    *)
WfiReturn ==
  /\ at = "wfi" /\ ~inirq
  /\ at' = "pop"
  /\ UNCHANGED <<links, state, b, prev, inirq>>

-----------------------------------------------------------------------------
(* The running process makes system calls, interrupts off.                 *)

Fork(c) ==
  /\ at = "user" /\ ~inirq
  /\ state[c] = "none"
  /\ state' = [state EXCEPT ![c] = "runnable"]
  /\ links' = PushFront(links, "runq", c)
  /\ UNCHANGED <<at, b, prev, inirq>>

Usleep ==
  /\ at = "user" /\ ~inirq
  /\ state' = [state EXCEPT ![b] = "blocked"]
  /\ links' = PushFront(links, "ticks_queue", b)
  /\ at' = "pop"
  /\ UNCHANGED <<b, prev, inirq>>

-----------------------------------------------------------------------------
(* The timer interrupt, taken between any two statements above.            *)

TimerIrq == ~inirq /\ inirq' = TRUE /\ UNCHANGED <<links, state, at, b, prev>>

WakeTick ==
  LET p == links.front["ticks_queue"] IN
  /\ inirq
  /\ p # Null
  /\ state' = [state EXCEPT ![p] = "runnable"]
  /\ links' = PushFront(Remove(links, "ticks_queue", p), "runq", p)
  /\ UNCHANGED <<at, b, prev, inirq>>

(* The handler returns to the interrupted statement of the scheduler; an   *)
(* interrupted process yields and is put back on runq.                     *)
IrqReturn ==
  /\ inirq
  /\ links.front["ticks_queue"] = Null
  /\ inirq' = FALSE
  /\ at' = IF at = "user" THEN "pop" ELSE at
  /\ links' = IF at = "user" THEN PushFront(links, "runq", b) ELSE links
  /\ UNCHANGED <<state, b, prev>>

Next ==
  \/ PopBack \/ RemoveBack \/ RemoveFront \/ RemoveSize \/ WfiReturn
  \/ Usleep \/ \E c \in Proc : Fork(c)
  \/ TimerIrq \/ WakeTick \/ IrqReturn

Spec == Init /\ [][Next]_vars

(* runnable_proc "returns the next process available to run, or blocks     *)
(* waiting for a process to become available" (schedule.d:73-74): when it  *)
(* looks at runq and there is a runnable process, back is not null.        *)
PopFindsRunnable ==
  at = "pop" /\ (\E p \in Proc : state[p] = "runnable") => links.back["runq"] # Null
=============================================================================
