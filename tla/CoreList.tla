------------------------------ MODULE CoreList ------------------------------
(***************************************************************************)
(* CoreMark's linked list (coremark/core_list_join.c).  A heap holds the   *)
(* cells of the memory block: cell k has a next cell and points to a       *)
(* datum, and datum d holds idx and the bit pattern of data16, whose upper *)
(* byte is the backup of the lower one.  mb and db are the first cell and  *)
(* datum not yet handed out, end is one behind the last.                   *)
(*                                                                         *)
(* Sorting by content runs the other two benchmarks, so the operators here *)
(* work on a world w: w.heap and w.res, the results record of              *)
(* core_main.c with the state machine's buffer (res.state) and the         *)
(* matrices (res.mat).                                                     *)
(***************************************************************************)
EXTENDS CoreState, CoreMatrix, FiniteSets

Null == -1

(* The cells of the list that starts at c, in order.                       *)
RECURSIVE Walk(_, _)
Walk(heap, c) == IF c = Null THEN <<>> ELSE <<c>> \o Walk(heap, heap.next[c])

Datum(heap, c) == heap.data[heap.info[c]]
Contents(heap, c) == LET cells == Walk(heap, c)
                     IN [k \in DOMAIN cells |-> Datum(heap, cells[k])]

(* core_list_insert_new: nothing when cells or data have run out.  Faulty  *)
(* form: one cell more than there is.                                      *)
InsertNewPast(heap, at, info) ==
  IF heap.mb + 1 > heap.end \/ heap.db + 1 > heap.end THEN heap
  ELSE [heap EXCEPT !.mb = @ + 1, !.db = @ + 1,
                    !.next[heap.mb] = heap.next[at], !.next[at] = heap.mb,
                    !.info[heap.mb] = heap.db, !.data[heap.db] = info]

InsertNew(heap, at, info) ==
  IF heap.mb + 1 >= heap.end \/ heap.db + 1 >= heap.end THEN heap
  ELSE [heap EXCEPT !.mb = @ + 1, !.db = @ + 1,
                    !.next[heap.mb] = heap.next[at], !.next[at] = heap.mb,
                    !.info[heap.mb] = heap.db, !.data[heap.db] = info]

(* core_list_remove: the removed cell takes the datum of the given one     *)
(* with it.                                                                *)
Remove(heap, item) ==
  LET ret == heap.next[item]
  IN [heap EXCEPT !.info[item] = heap.info[ret], !.info[ret] = heap.info[item],
                  !.next[item] = heap.next[ret], !.next[ret] = Null]

(* core_list_undo_remove: both the cell and the data are put back.         *)
UndoRemove(heap, removed, modified) ==
  [heap EXCEPT !.info[removed] = heap.info[modified], !.info[modified] = heap.info[removed],
               !.next[removed] = heap.next[modified], !.next[modified] = removed]

(* core_list_find: by idx unless it is negative, then by the low byte.     *)
RECURSIVE Find(_, _, _)
Find(heap, c, info) ==
  IF c = Null THEN Null
  ELSE IF IF info.idx >= 0 THEN Datum(heap, c).idx = info.idx
                           ELSE U8(Datum(heap, c).data16) = info.data16
       THEN c
       ELSE Find(heap, heap.next[c], info)

(* core_list_reverse: the heap and the new head, the old last cell.        *)
RECURSIVE ReverseOnto(_, _, _)
ReverseOnto(heap, c, onto) ==
  IF c = Null THEN [heap |-> heap, head |-> onto]
  ELSE ReverseOnto([heap EXCEPT !.next[c] = onto], heap.next[c], c)
ReverseList(heap, c) == ReverseOnto(heap, c, Null)

-----------------------------------------------------------------------------
(* The value of a datum that is cached (bit 7) is its low seven bits.      *)
IsCached(data16) == (data16 \div 128) % 2 = 1
Value(w, d) == w.heap.data[d].data16 % 128

(* What a benchmark that returned b leaves in the results: the buffer it   *)
(* worked on, and its first checksum.                                      *)
StateResult(res, b) ==
  [ret |-> b.crc, res |-> [res EXCEPT !.state = b.buf,
                                      !.crcstate = IF @ = 0 THEN b.crc ELSE @]]
MatrixResult(res, b) ==
  [ret |-> b.crc, res |-> [res EXCEPT !.mat.A = b.A,
                                      !.crcmatrix = IF @ = 0 THEN b.crc ELSE @]]

(* The benchmark that bits 0 to 2 name with the operand in bits 3 to 6.    *)
RunBench(res, data) ==
  LET dtype == ((data \div 8) % 16) * 17
  IN CASE data % 8 = 0 -> StateResult(res, BenchState(res.state, res.seed1, res.seed2,
                                             IF dtype < 34 THEN 34 ELSE dtype, res.crc))
       [] data % 8 = 1 -> MatrixResult(res, BenchMatrix(res.mat, dtype, res.crc))
       [] OTHER        -> [ret |-> data, res |-> res]

(* The low bits of the result are cached in the datum.                     *)
Cache(w, d, ran) ==
  [heap |-> [w.heap EXCEPT !.data[d].data16 = (@ \div 256) * 256 + 128 + (ran.ret % 128)],
   res |-> [ran.res EXCEPT !.crc = CrcU16(ran.ret, @)]]

(* calc_func: a datum that is not cached runs its benchmark.               *)
CalcFunc(w, d) ==
  IF IsCached(w.heap.data[d].data16) THEN w
  ELSE Cache(w, d, RunBench(w.res, w.heap.data[d].data16))

Regen(datum) == [datum EXCEPT !.data16 = (@ \div 256) * 257]

(* What a comparison of the data a and b leaves behind: cmp_complex caches *)
(* both, cmp_idx (only ever called without results) restores both from     *)
(* their backups.  Faulty form: cmp_idx leaves the data alone.             *)
ComparedKept(cmp, w, a, b) == IF cmp = "complex" THEN CalcFunc(CalcFunc(w, a), b) ELSE w

Compared(cmp, w, a, b) ==
  IF cmp = "complex" THEN CalcFunc(CalcFunc(w, a), b)
  ELSE [w EXCEPT !.heap.data[a] = Regen(@), !.heap.data[b] = Regen(@)]

Key(cmp, w, d) == IF cmp = "complex" THEN Value(w, d) ELSE w.heap.data[d].idx

(* The comparison of mergesort.  Faulty form: equal items change places.   *)
AtMostStrict(cmp, w, a, b) == Key(cmp, w, a) < Key(cmp, w, b)
AtMost(cmp, w, a, b) == Key(cmp, w, a) <= Key(cmp, w, b)

(* A cell goes to the end of the list that is built from list to tail: the *)
(* first of run p, of psize cells, or of run q, of at most qsize.          *)
Linked(s, e) ==
  [s EXCEPT !.w.heap.next = IF s.tail = Null THEN @ ELSE [@ EXCEPT ![s.tail] = e],
            !.list = IF s.tail = Null THEN e ELSE @,
            !.tail = e]
TakeP(s) == [Linked(s, s.p) EXCEPT !.p = s.w.heap.next[s.p], !.psize = @ - 1]
TakeQ(s) == [Linked(s, s.q) EXCEPT !.q = s.w.heap.next[s.q], !.qsize = @ - 1]

TakeFirst(s, cmp) ==
  IF AtMost(cmp, s.w, s.w.heap.info[s.p], s.w.heap.info[s.q]) THEN TakeP(s) ELSE TakeQ(s)

(* The merge of the two runs; p is then where the next ones begin.         *)
RECURSIVE Merge(_, _)
Merge(s, cmp) ==
  LET pDone == s.psize = 0
      qDone == s.qsize = 0 \/ s.q = Null
  IN CASE pDone /\ qDone   -> [s EXCEPT !.p = s.q]
       [] pDone /\ ~qDone  -> Merge(TakeQ(s), cmp)
       [] ~pDone /\ qDone  -> Merge(TakeP(s), cmp)
       [] ~pDone /\ ~qDone ->
            Merge(TakeFirst([s EXCEPT !.w = Compared(cmp, @, @.heap.info[s.p],
                                                             @.heap.info[s.q])], cmp), cmp)

(* q and psize: insize steps from p, fewer when the list ends before.      *)
RECURSIVE StepAlong(_, _, _, _)
StepAlong(heap, q, psize, insize) ==
  IF psize = insize \/ q = Null THEN [q |-> q, psize |-> psize]
  ELSE StepAlong(heap, heap.next[q], psize + 1, insize)

(* One pass: pairs of runs of insize cells are merged.                     *)
RECURSIVE Pass(_, _, _)
Pass(s, cmp, insize) ==
  LET along == StepAlong(s.w.heap, s.p, 0, insize)
  IN IF s.p = Null THEN s
     ELSE Pass(Merge([s EXCEPT !.q = along.q, !.psize = along.psize, !.qsize = insize,
                               !.nmerges = @ + 1], cmp), cmp, insize)
PassOver(w, list, cmp, insize) ==
  Pass([w |-> w, p |-> list, q |-> Null, psize |-> 0, qsize |-> 0, list |-> Null,
        tail |-> Null, nmerges |-> 0], cmp, insize)

(* core_list_mergesort: passes with runs twice as long each, until one     *)
(* merge makes the whole list.  Returns the world and the new head.        *)
RECURSIVE SortOn(_, _, _)
SortOn(s, cmp, insize) ==
  LET ended == [s.w EXCEPT !.heap.next[s.tail] = Null]
  IN IF s.nmerges <= 1 THEN [w |-> ended, head |-> s.list]
     ELSE SortOn(PassOver(ended, s.list, cmp, insize * 2), cmp, insize * 2)
MergeSort(w, list, cmp) == SortOn(PassOver(w, list, cmp, 1), cmp, 1)

-----------------------------------------------------------------------------
(* core_list_init: a header, a last item, size items in front of it as     *)
(* long as there are cells, the index, and a sort by it.                   *)
ListSize(blksize) == (blksize \div 20) - 2

ItemData(seed, i) == LET dat == ((seed % 16) ^^ (i % 16)) * 8 + (i % 8) IN dat * 257

RECURSIVE InsertItems(_, _, _)
InsertItems(heap, seed, i) ==
  IF i = heap.end THEN heap
  ELSE InsertItems(InsertNew(heap, 0, [idx |-> 32767, data16 |-> ItemData(seed, i)]), seed, i + 1)

(* The idx of the i-th item behind the header: the first fifth in order,   *)
(* the others mixed by the seed.                                           *)
ItemIdx(seed, i, size) ==
  IF i < size \div 5 THEN i
  ELSE ((((i + 1) % 8) * 256) | (U16(i) ^^ U16(seed))) % 16384

InitList(blksize, seed) ==
  LET size == ListSize(blksize)
      Slots == 0..(size - 1)
      empty == [next |-> [k \in Slots |-> Null], info |-> [k \in Slots |-> 0],
                data |-> [k \in Slots |-> [idx |-> 0, data16 |-> 32896]],
                mb |-> 1, db |-> 1, end |-> size]
      filled == InsertItems(InsertNew(empty, 0, [idx |-> 32767, data16 |-> 65535]), seed, 0)
      cells == Walk(filled, 0)
      Place(d) == (CHOOSE k \in DOMAIN cells : filled.info[cells[k]] = d) - 1
      indexed == [filled EXCEPT !.data =
                    [d \in Slots |-> IF d >= filled.db \/ Place(d) \in {0, Len(cells) - 1} THEN @[d]
                                     ELSE [@[d] EXCEPT !.idx = ItemIdx(seed, Place(d), size)]]]
  IN MergeSort([heap |-> indexed, res |-> [seed1 |-> seed]], 0, "idx")
=============================================================================
