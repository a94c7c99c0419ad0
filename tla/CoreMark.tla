------------------------------ MODULE CoreMark ------------------------------
(***************************************************************************)
(* The CoreMark benchmark that the kernel can be built with                *)
(* (coremark/core_main.c and the port in coremark/multiplix): setting up   *)
(* seeds, memory and data, finding the number of iterations that runs for  *)
(* ten seconds, running them, and judging the result.  core_bench_list is  *)
(* taken apart into the steps of its body; the sorts, searches and the two *)
(* benchmarks that a sort calls are operators (CoreList, CoreState,        *)
(* CoreMatrix).                                                            *)
(*                                                                         *)
(* The build fixes the configuration: static memory, volatile seeds, one   *)
(* context, no floating point.  List, matrices and state input are kept    *)
(* apart here, which is what they are as long as MemoryApart holds.        *)
(***************************************************************************)
EXTENDS CoreList

CONSTANTS
  Runs,           \* the builds and boards looked at: [total, seed1 .. seed4, cost, boot],
                  \* with the ticks of one iteration and the timer's value at the start
  Freq,           \* timer ticks per second (TIMER_FREQ)
  TickMod,        \* the values of ee_u32, in which the port keeps ticks
  MaxIterations   \* bound: iterations of one call of iterate that are executed

ASSUME TimerAssumption == Freq \in Nat \ {0} /\ TickMod \in Nat \ {0}
ASSUME BoundAssumption == MaxIterations \in Nat \ {0}

VARIABLES
  run,     \* the member of Runs
  pc,      \* the statement to be executed next
  res,     \* results[0]
  heap,    \* the memory behind res.list
  loc,     \* the local variables of core_bench_list
  i,       \* the iteration of iterate
  phase,   \* which of its two calls of iterate coremark_main is in
  clock,   \* the timer and the two times the port has taken from it
  out      \* what is reported

vars == <<run, pc, res, heap, loc, i, phase, clock, out>>

World == [heap |-> heap, res |-> res]

-----------------------------------------------------------------------------
(* Seeds, memory and data.                                                 *)

(* All zero and one, zero, zero select the performance and the validation  *)
(* run.                                                                    *)
Seeds(r) == CASE <<r.seed1, r.seed2, r.seed3>> = <<0, 0, 0>> -> <<0, 0, 102>>
              [] <<r.seed1, r.seed2, r.seed3>> = <<1, 0, 0>> -> <<13333, 13333, 102>>
              [] OTHER -> <<S16(r.seed1), S16(r.seed2), S16(r.seed3)>>

NumAlgorithms == 3

(* Offset of the block of each algorithm in the static memory.             *)
Block(size, k) == size * (k - 1)
Align(x) == 4 + (((x - 1) \div 4) * 4)

(* The results record, with the memory divided and list, matrices and      *)
(* state input initialised.                                                *)
InitRes(r, list) ==
  LET s == Seeds(r)
      size == r.total \div NumAlgorithms
      seed32 == IF s[1] < 0 THEN s[1] ELSE s[2] * 65536 + s[1]
  IN [seed1 |-> s[1], seed2 |-> s[2], seed3 |-> s[3], size |-> size,
      iterations |-> r.seed4, list |-> list,
      mat |-> InitMatrix(size, seed32), state |-> InitState(size, s[1]),
      crc |-> 0, crclist |-> 0, crcmatrix |-> 0, crcstate |-> 0]

NoLocals == [fi |-> 0, n |-> 0, idx |-> 0, data16 |-> 0, retval |-> 0, found |-> 0,
             missed |-> 0, list |-> 0, remover |-> Null]

Init ==
  /\ run \in Runs
  /\ pc = "setup"
  /\ \E list \in {InitList(run.total \div NumAlgorithms, Seeds(run)[1])} :
       /\ heap = list.w.heap
       /\ res = InitRes(run, list.head)
  /\ loc = NoLocals
  /\ i = 0
  /\ phase = "none"
  /\ clock = [now |-> run.boot, start |-> 0, stop |-> 0]
  /\ out = [seedcrc |-> 0, known |-> -1, err |-> 0, total |-> 0, secs |-> 0]

-----------------------------------------------------------------------------
(* Time.                                                                   *)
TimeInSecs(ticks) == ticks \div Freq

(* Faulty form: a timer that has wrapped is taken for one that went back.  *)
ElapsedWrapped(c) == IF c.stop >= c.start THEN c.stop - c.start ELSE 0

Elapsed(c) == (c.stop - c.start) % TickMod

(* The iterations of the real run, from the seconds that the last trial    *)
(* took.  Faulty form: ten divided by the seconds, without the one.        *)
ScaledIterationsShort(iterations, secs) == iterations * (10 \div (IF secs = 0 THEN 1 ELSE secs))

ScaledIterations(iterations, secs) == iterations * (1 + (10 \div (IF secs = 0 THEN 1 ELSE secs)))

(* A trial of ten times as many iterations, when none are prescribed.      *)
Calibrate ==
  /\ \/ pc = "setup" /\ res.iterations = 0
     \/ pc = "timed" /\ phase = "trial" /\ TimeInSecs(Elapsed(clock)) < 1
  /\ res' = [res EXCEPT !.iterations = 10 * (IF @ = 0 THEN 1 ELSE @)]
  /\ clock' = [clock EXCEPT !.start = clock.now]
  /\ phase' = "trial"
  /\ pc' = "iterate"
  /\ UNCHANGED <<run, heap, loc, i, out>>

(* The benchmark proper.                                                   *)
Measure ==
  /\ \/ pc = "setup" /\ res.iterations # 0 /\ UNCHANGED res
     \/ /\ pc = "timed" /\ phase = "trial" /\ TimeInSecs(Elapsed(clock)) >= 1
        /\ res' = [res EXCEPT !.iterations = ScaledIterations(@, TimeInSecs(Elapsed(clock)))]
  /\ clock' = [clock EXCEPT !.start = clock.now]
  /\ phase' = "real"
  /\ pc' = "iterate"
  /\ UNCHANGED <<run, heap, loc, i, out>>

-----------------------------------------------------------------------------
(* iterate.                                                                *)
IterateStart ==
  /\ pc = "iterate"
  /\ res' = [res EXCEPT !.crc = 0, !.crclist = 0, !.crcmatrix = 0, !.crcstate = 0]
  /\ i' = 0
  /\ loc' = [NoLocals EXCEPT !.fi = 1, !.idx = 1, !.list = res.list]
  /\ pc' = "find"
  /\ UNCHANGED <<run, heap, phase, clock, out>>

(* A call of core_bench_list has returned loc.retval: the call with -1     *)
(* follows that with 1, and the next iteration that with -1.  When iterate *)
(* returns, the time its iterations take has passed.                       *)
BenchReturned ==
  /\ pc = "returned"
  /\ LET crc == CrcU16(loc.retval, res.crc)
         fi == -loc.fi
         next == IF loc.fi = 1 THEN i ELSE i + 1
     IN /\ res' = [res EXCEPT !.crc = crc, !.crclist = IF loc.fi = -1 /\ i = 0 THEN crc ELSE @]
        /\ i' = next
        /\ IF next < res.iterations /\ next < MaxIterations
           THEN /\ loc' = [NoLocals EXCEPT !.fi = fi, !.idx = fi, !.list = res.list]
                /\ pc' = "find"
                /\ UNCHANGED clock
           ELSE /\ LET now == (clock.now + res.iterations * run.cost) % TickMod
                   IN clock' = [clock EXCEPT !.now = now, !.stop = now]
                /\ pc' = "timed"
                /\ UNCHANGED loc
  /\ UNCHANGED <<run, heap, phase, out>>

-----------------------------------------------------------------------------
(* core_bench_list.                                                        *)

(* The cell behind f is cached behind the list's head.                     *)
CacheNext(h, list, f) ==
  LET finder == h.next[f]
      cut == [h EXCEPT !.next[f] = h.next[finder]]
  IN IF finder = Null THEN h
     ELSE [cut EXCEPT !.next[finder] = cut.next[list], !.next[list] = finder]

(* One round of the search loop: look for the next value, reverse the      *)
(* list, and use what was found.                                           *)
FindStep ==
  /\ pc = "find" /\ loc.n < res.seed3
  /\ LET info == [idx |-> loc.idx, data16 |-> U8(loc.n)]
         f == Find(heap, loc.list, info)
         rev == ReverseList(heap, loc.list)
         missedBit == (Datum(rev.heap, rev.heap.next[rev.head]).data16 \div 256) % 2
         data == Datum(heap, f).data16
         foundBit == IF data % 2 = 1 THEN (data \div 512) % 2 ELSE 0
         idx == IF loc.idx >= 0 THEN S16(loc.idx + 1) ELSE loc.idx
     IN /\ heap' = IF f = Null THEN rev.heap ELSE CacheNext(rev.heap, rev.head, f)
        /\ loc' = [loc EXCEPT !.n = @ + 1, !.idx = idx, !.data16 = info.data16,
                              !.list = rev.head,
                              !.missed = IF f = Null THEN @ + 1 ELSE @,
                              !.found = IF f = Null THEN @ ELSE @ + 1,
                              !.retval = U16(@ + IF f = Null THEN missedBit ELSE foundBit)]
  /\ UNCHANGED <<run, pc, res, i, phase, clock, out>>

SortByData ==
  /\ pc = "find" /\ loc.n >= res.seed3
  /\ \E s \in {IF loc.fi > 0 THEN MergeSort(World, loc.list, "complex")
                             ELSE [w |-> World, head |-> loc.list]} :
       /\ heap' = s.w.heap
       /\ res' = s.w.res
       /\ loc' = [loc EXCEPT !.retval = U16(@ + loc.found * 4 - loc.missed), !.list = s.head]
  /\ pc' = "remove"
  /\ UNCHANGED <<run, i, phase, clock, out>>

RemoveNext ==
  /\ pc = "remove"
  /\ LET item == heap.next[loc.list]
     IN /\ loc' = [loc EXCEPT !.remover = heap.next[item]]
        /\ heap' = Remove(heap, item)
  /\ pc' = "forward"
  /\ UNCHANGED <<run, res, i, phase, clock, out>>

(* n times the checksum of the head's data.                                *)
HeadCrc(n, crc) ==
  LET sum[k \in 0..n] == IF k = 0 THEN crc
                         ELSE Crc16(Datum(heap, loc.list).data16, sum[k - 1])
  IN sum[n]

(* From the last value looked for, or behind the head, to the end.         *)
CrcForward ==
  /\ pc = "forward"
  /\ LET f == Find(heap, loc.list, [idx |-> loc.idx, data16 |-> loc.data16])
         n == Len(Walk(heap, IF f = Null THEN heap.next[loc.list] ELSE f))
     IN loc' = [loc EXCEPT !.retval = HeadCrc(n, @)]
  /\ pc' = "undo"
  /\ UNCHANGED <<run, res, heap, i, phase, clock, out>>

UndoNext ==
  /\ pc = "undo"
  /\ heap' = UndoRemove(heap, loc.remover, heap.next[loc.list])
  /\ pc' = "resort"
  /\ UNCHANGED <<run, res, loc, i, phase, clock, out>>

SortByIdx ==
  /\ pc = "resort"
  /\ \E s \in {MergeSort(World, loc.list, "idx")} :
       /\ heap' = s.w.heap
       /\ loc' = [loc EXCEPT !.list = s.head]
  /\ pc' = "sum"
  /\ UNCHANGED <<run, res, i, phase, clock, out>>

CrcList ==
  /\ pc = "sum"
  /\ loc' = [loc EXCEPT !.retval = HeadCrc(Len(Walk(heap, heap.next[loc.list])), @)]
  /\ pc' = "returned"
  /\ UNCHANGED <<run, res, heap, i, phase, clock, out>>

-----------------------------------------------------------------------------
(* The verdict: seeds with known results are compared with them, others    *)
(* count minus one error, and a run below ten seconds counts one.          *)
KnownSeedCrcs == <<35330, 31493, 20143, 59893, 6386>>
ListKnown     == <<54448, 13120, 27257, 59156, 58305>>
MatrixKnown   == <<48722, 4505, 22024, 8151, 1863>>
StateKnown    == <<24135, 14783, 58788, 36410, 36228>>

Differs(a, b) == IF a = b THEN 0 ELSE 1

Report ==
  /\ pc = "timed" /\ phase = "real"
  /\ LET seedcrc == Crc16(res.size, Crc16(res.seed3, Crc16(res.seed2, Crc16(res.seed1, 0))))
         ids == {k \in 1..5 : KnownSeedCrcs[k] = seedcrc}
         known == IF ids = {} THEN -1 ELSE CHOOSE k \in ids : TRUE
         err == IF known = -1 THEN 0
                ELSE Differs(res.crclist, ListKnown[known])
                     + Differs(res.crcmatrix, MatrixKnown[known])
                     + Differs(res.crcstate, StateKnown[known])
         secs == TimeInSecs(Elapsed(clock))
     IN out' = [seedcrc |-> seedcrc, known |-> known, err |-> err, secs |-> secs,
                total |-> (IF known = -1 THEN -1 ELSE err) + (IF secs < 10 THEN 1 ELSE 0)]
  /\ pc' = "stop"
  /\ UNCHANGED <<run, res, heap, loc, i, phase, clock>>

Next ==
  \/ Calibrate \/ Measure \/ IterateStart \/ BenchReturned
  \/ FindStep \/ SortByData \/ RemoveNext \/ CrcForward \/ UndoNext \/ SortByIdx \/ CrcList
  \/ Report

Spec == Init /\ [][Next]_vars

-----------------------------------------------------------------------------
(* Properties.                                                             *)

(* Types: the checksums and the return value stay in 16 bits, the list has *)
(* a header that is never handed out again, and no cell points outside.    *)
TypeOK ==
  /\ {res.crc, res.crclist, res.crcmatrix, res.crcstate, loc.retval} \subseteq 0..65535
  /\ heap.mb = heap.db /\ heap.mb < heap.end
  /\ \A c \in 0..(heap.end - 1) : /\ heap.next[c] \in {Null} \cup 0..(heap.mb - 1)
                                  /\ heap.info[c] \in 0..(heap.db - 1)
  /\ loc.list \in 0..(heap.mb - 1)

(* Both sorts of core_bench_list return every cell of the list they were   *)
(* given, in the order of its key (the cached result, or the index), and   *)
(* cells with equal keys in the order they came in.                        *)
Position(s, c) == CHOOSE k \in DOMAIN s : s[k] = c
SortedFrom(cmp) ==
  LET before == Walk(heap, loc.list)
      after == Walk(heap', loc'.list)
      key == [c \in {after[k] : k \in DOMAIN after} |->
                Key(cmp, [heap |-> heap', res |-> res'], heap'.info[c])]
  IN /\ Len(before) = Len(after)
     /\ {before[k] : k \in DOMAIN before} = DOMAIN key
     /\ \A k \in 1..(Len(after) - 1) :
          \/ key[after[k]] < key[after[k + 1]]
          \/ /\ key[after[k]] = key[after[k + 1]]
             /\ Position(before, after[k]) < Position(before, after[k + 1])
SortsStable ==
  [][ /\ SortByData /\ loc.fi > 0 => SortedFrom("complex")
      /\ SortByIdx => SortedFrom("idx") ]_vars

(* Whatever was found, cached, sorted and removed in between, the list is  *)
(* back in its original order with its original data when core_bench_list  *)
(* returns: "At the end of this function, the list is back to original     *)
(* state" (core_list_join.c:156).  After a sort by data, which has run the *)
(* state machine over a corrupted input and the matrices with a constant   *)
(* added, the state input is what it was if the seeds are equal ("undo     *)
(* corruption is seed1 and seed2 are equal", core_state.c:99) and matrix A *)
(* is ("After the last step, matrix A is back to original contents",       *)
(* core_matrix.c:127).                                                     *)
DataRestored ==
  /\ pc = "returned" =>
       \E list \in {InitList(res.size, res.seed1)} :
         Contents(heap, res.list) = Contents(list.w.heap, list.head)
  /\ pc = "remove" =>
       LET new == InitRes(run, res.list)
       IN /\ res.seed1 = res.seed2 => res.state = new.state
          /\ res.mat = new.mat

(* The block of the list holds its cells and behind them its data.         *)
ListInBlock == 16 * heap.end + 4 * heap.end <= res.size

(* A and B, of two bytes per element, and C, of four, lie within the       *)
(* second block: "The total available data space will be divided to 3      *)
(* parts" (core_matrix.c:28).  It is left to what the dimension leaves     *)
(* over whether there is room for the alignment of A.                      *)
MatricesInBlock ==
  LET N == res.mat.N
      a == Align(Block(res.size, 2))
      c == Align(a + 4 * N * N)
  IN a >= Block(res.size, 2) /\ c + 4 * N * N <= Block(res.size, 3)

(* The state input ends in a zero byte within the memory.                  *)
StateInBlock ==
  /\ Block(res.size, 3) + Len(res.state) <= run.total
  /\ res.state[res.size] = 0 \/ res.state[res.size - 1] = 0

(* The three blocks of the static memory hold what is put into them.  This *)
(* is so for the data sizes of the port and for most others, down to those *)
(* that the matrices and their alignment fill to the last byte, but not    *)
(* for those one byte larger than three matrices without alignment.        *)
MemoryApart == ListInBlock /\ MatricesInBlock /\ StateInBlock

(* The runs whose results core_main.c knows, by the seeds and sizes its    *)
(* comments give (core_main.c:298-319), are recognised, and their list,    *)
(* matrix and state checksums are exactly the known ones.                  *)
KnownRuns == << <<0, 0, 102, 2000>>, <<13333, 13333, 102, 2000>>, <<8, 8, 8, 400>>,
                <<0, 0, 102, 666>>, <<13333, 13333, 102, 666>> >>
KnownCrcs ==
  pc = "stop" =>
    /\ \A k \in DOMAIN KnownRuns :
         <<res.seed1, res.seed2, res.seed3, res.size>> = KnownRuns[k] => out.known = k
    /\ out.err = 0

(* When the iterations were found by trials, the real run takes from 10 to *)
(* 100 seconds ("the benchmark will run between 10 to 100 secs",           *)
(* core_main.c:103) and its time is reported as it is, wherever the 32-bit *)
(* timer stands when the program starts and at whatever trial it wraps.    *)
(* Ten iterations, the shortest trial, must take less than the timer's     *)
(* period, or it could go round unnoticed ("make sure that overflow does   *)
(* not occur", core_portme.c:51).                                          *)
RunsLongEnough ==
  pc = "stop" /\ run.seed4 = 0 /\ 10 * run.cost < TickMod =>
    /\ res.iterations * run.cost \in (10 * Freq)..(100 * Freq)
    /\ out.secs = (res.iterations * run.cost) \div Freq
=============================================================================
