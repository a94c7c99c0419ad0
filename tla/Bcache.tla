------------------------------- MODULE Bcache -------------------------------
(***************************************************************************)
(* The buffer cache (plix/fs/bcache.d) over the RAM disk, and what the     *)
(* file system does with single blocks (plix/fs/fs.d): bzero, balloc,      *)
(* bfree.                                                                  *)
(*                                                                         *)
(* The operators work on a world w.  w.bufs is the list from head.next to  *)
(* head.prev, most recently released first; a buffer is [dev, bno, valid,  *)
(* refcnt, data], where dev is 0 until it is used.  w.disk is the image.   *)
(* w.panic is the assertion that failed, and w.lost is history: a changed  *)
(* buffer was recycled.                                                    *)
(***************************************************************************)
EXTENDS Mkfs

RootDev == 1
NoPanic == "none"

Stop(w, why) == IF w.panic = NoPanic THEN [w EXCEPT !.panic = why] ELSE w
Halted(w) == w.panic # NoPanic

Buffer(b, valid, refcnt, data) ==
  [dev |-> RootDev, bno |-> b, valid |-> valid, refcnt |-> refcnt, data |-> data]
WithBuf(w, k, buf) == [w EXCEPT !.bufs = [@ EXCEPT ![k] = buf]]

\* Positions of the buffers of block b, and of those that may be recycled.
At(w, b) == {k \in DOMAIN w.bufs : w.bufs[k].dev = RootDev /\ w.bufs[k].bno = b}
Idle(w) == {k \in DOMAIN w.bufs : w.bufs[k].refcnt = 0}

\* bget: the buffer of block b, or else the one released longest ago.
Shared(w, k) == WithBuf(w, k, [w.bufs[k] EXCEPT !.refcnt = @ + 1])
Recycled(w, k, b) ==
  LET old == w.bufs[k]
  IN [WithBuf(w, k, Buffer(b, FALSE, 1, old.data)) EXCEPT
        !.lost = @ \/ (old.valid /\ old.data # w.disk[old.bno])]
Bget(w, b) ==
  IF Halted(w) THEN w
  ELSE IF At(w, b) # {} THEN Shared(w, Min(At(w, b)))
  ELSE IF Idle(w) = {} THEN Stop(w, "buffers")
  ELSE Recycled(w, Max(Idle(w)), b)

\* bread: what is on the disk, unless the buffer holds it already.
Filled(w, b) ==
  LET k == Min(At(w, b))
  IN IF Halted(w) \/ w.bufs[k].valid THEN w
     ELSE WithBuf(w, k, Buffer(b, TRUE, w.bufs[k].refcnt, w.disk[b]))
Bread(w, b) == Filled(Bget(w, b), b)

\* brelease: the last user puts it in front.
ToFront(bufs, k, buf) ==
  [j \in DOMAIN bufs |-> IF j = 1 THEN buf ELSE IF j <= k THEN bufs[j - 1] ELSE bufs[j]]
Brelease(w, b) ==
  LET k == Min(At(w, b))
      buf == [w.bufs[k] EXCEPT !.refcnt = @ - 1]
  IN IF Halted(w) THEN w
     ELSE IF buf.refcnt > 0 THEN WithBuf(w, k, buf)
     ELSE [w EXCEPT !.bufs = ToFront(@, k, buf)]

Data(w, b) == w.bufs[Min(At(w, b))].data
SetData(w, b, data) ==
  LET k == Min(At(w, b))
  IN IF Halted(w) THEN w ELSE WithBuf(w, k, [w.bufs[k] EXCEPT !.data = data])

\* What a reader of block b gets.
Now(w, b) ==
  LET valid == {k \in At(w, b) : w.bufs[k].valid}
  IN IF valid # {} THEN w.bufs[Min(valid)].data ELSE w.disk[b]

-----------------------------------------------------------------------------
Bzero(w, b) == Brelease(SetData(Bread(w, b), b, ZeroBlock), b)

\* balloc: the first block that is not marked, zeroed; 0 when all are.
FreeIn(bm) == (0..(FSSize - 1)) \ Data(bm, BmapStart)
MarkBlock(bm, b) == Brelease(SetData(bm, BmapStart, Data(bm, BmapStart) \cup {b}), BmapStart)
TakeFree(bm) ==
  IF Halted(bm) THEN [w |-> bm, b |-> 0]
  ELSE IF FreeIn(bm) = {} THEN [w |-> Brelease(bm, BmapStart), b |-> 0]
  ELSE [w |-> Bzero(MarkBlock(bm, Min(FreeIn(bm))), Min(FreeIn(bm))), b |-> Min(FreeIn(bm))]
Balloc(w) == TakeFree(Bread(w, BmapStart))

\* bfree, of a block that is marked (assert).
Unmark(bm, b) ==
  IF Halted(bm) THEN bm
  ELSE IF b \notin Data(bm, BmapStart) THEN Stop(bm, "freeing free block")
  ELSE Brelease(SetData(bm, BmapStart, Data(bm, BmapStart) \ {b}), BmapStart)
Bfree(w, b) == Unmark(Bread(w, BmapStart), b)
=============================================================================
