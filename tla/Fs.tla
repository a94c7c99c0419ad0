--------------------------------- MODULE Fs ---------------------------------
(***************************************************************************)
(* The file system on the image that mkfs builds: inodes with their block  *)
(* maps, directory entries and the calls that open, create, read, write    *)
(* and truncate files (plix/fs/file.d, plix/sysfile.d), all through the    *)
(* buffer cache.                                                           *)
(*                                                                         *)
(* A call runs with interrupts off and never yields, so it is one step.    *)
(* Names are looked up in the root directory, which is the only one (the   *)
(* kernel has no mkdir) and which a process always holds as its current    *)
(* directory.  Tables of Files and inodes are never full here: Files is    *)
(* about them.  A behaviour is followed until a changed buffer has been    *)
(* recycled, or an assertion has failed.                                   *)
(***************************************************************************)
EXTENDS Bcache

CONSTANTS
  NBuf,      \* NBUF: buffers
  Images,    \* files that images are built with: sequences of [name, words]
  Names,     \* names that programs use
  MaxCount,  \* bound: words of one read or write
  MaxRef     \* bound: references to an inode

\* Two buffers are held at a time: an indirect block's and the bitmap's.
ASSUME FsAssumption == NBuf \in Nat /\ NBuf >= 2 /\ MaxCount \in Nat /\ MaxRef \in Nat \ {0}

\* The image was built, and all of it is there.
ASSUME ImagesAssumption == \A files \in Images : Buildable(files)

VARIABLES
  w,       \* the world: bufs, disk, panic, lost, and ip, the in-memory inodes
  last     \* history: the last call, if it was one that changes files

vars == <<w, last>>

Inums == 1..(NInodes - 1)
Word == <<-1>>    \* what programs write
NoCall == [op |-> "other", i |-> 0, off |-> 0, n |-> 0]

\* binit and fsinit: one buffer has read the superblock.
Mounted(v) == Brelease(Bread(v, 1), 1)

Init ==
  LET NoBuf == [dev |-> 0, bno |-> 0, valid |-> FALSE, refcnt |-> 0, data |-> ZeroBlock]
      NoCopy == [ref |-> 0, valid |-> FALSE, din |-> FreeInode]
  IN \E files \in Images :
       /\ w = Mounted([bufs |-> [k \in 1..NBuf |-> NoBuf], disk |-> Image(files),
                       panic |-> NoPanic, lost |-> FALSE,
                       ip |-> [i \in Inums |-> IF i = Root THEN [NoCopy EXCEPT !.ref = 1]
                                               ELSE NoCopy]])
       /\ last = NoCall

-----------------------------------------------------------------------------
(* In-memory inodes.                                                       *)

\* update, and its copy into the buffer.
CopyOut(r, i) ==
  LET b == IBlock(i)
  IN Brelease(SetData(r, b, [Data(r, b) EXCEPT ![i % IPB] = r.ip[i].din]), b)
Update(v, i) == CopyOut(Bread(v, IBlock(i)), i)

\* lock: the inode is read when the copy is not valid.
CopyIn(r, i) ==
  LET din == Data(r, IBlock(i))[i % IPB]
      read == Brelease([r EXCEPT !.ip[i].din = din, !.ip[i].valid = TRUE], IBlock(i))
  IN IF Halted(r) THEN r ELSE IF din.type = "free" THEN Stop(read, "type") ELSE read
Lock(v, i) == IF Halted(v) \/ v.ip[i].valid THEN v ELSE CopyIn(Bread(v, IBlock(i)), i)

\* iget: a copy that nobody refers to is not used again.
Iget(v, i) ==
  IF Halted(v) THEN v
  ELSE IF v.ip[i].ref > 0 THEN [v EXCEPT !.ip[i].ref = @ + 1]
  ELSE [v EXCEPT !.ip[i] = [@ EXCEPT !.ref = 1, !.valid = FALSE]]

\* bmap, block bn of inode i: a block is allocated where there is none, also for a
\* read.  Address 0 when there is no free block.
Assign(got, i, bn) ==
  [w |-> [got.w EXCEPT !.ip[i].din.addrs[bn] = got.b], b |-> got.b]
Direct(v, i, bn) ==
  LET addr == v.ip[i].din.addrs[bn]
  IN IF addr # 0 THEN [w |-> v, b |-> addr] ELSE Assign(Balloc(v), i, bn)

\* Entry k of indirect block b, which is held meanwhile.  Faulty form: and stays so.
SetEntryHeld(got, b, k) ==
  IF got.b = 0 THEN got
  ELSE [w |-> SetData(got.w, b, [Data(got.w, b) EXCEPT ![k] = <<got.b>>]), b |-> got.b]

SetEntry(got, b, k) ==
  LET set == [Data(got.w, b) EXCEPT ![k] = <<got.b>>]
  IN IF got.b = 0 THEN [w |-> Brelease(got.w, b), b |-> 0]
     ELSE [w |-> Brelease(SetData(got.w, b, set), b), b |-> got.b]
EntryIn(r, b, k) ==
  IF Halted(r) THEN [w |-> r, b |-> 0]
  ELSE IF Data(r, b)[k] # Zero THEN [w |-> Brelease(r, b), b |-> Address(Data(r, b)[k])]
  ELSE SetEntry(Balloc(r), b, k)
Indirect(ind, k) == IF ind.b = 0 THEN ind ELSE EntryIn(Bread(ind.w, ind.b), ind.b, k)

Bmap(v, i, bn) ==
  IF bn < NDirect THEN Direct(v, i, bn)
  ELSE IF bn < MaxFile THEN Indirect(Direct(v, i, NDirect), bn - NDirect)
  ELSE [w |-> Stop(v, "bmap"), b |-> 0]

\* trunc: the direct blocks, those in the indirect block, and that one.
FreeOne(v, a) == IF a = 0 THEN v ELSE Bfree(v, a)
FreeAll(v, addrs, n) ==
  LET freed[k \in 0..n] == IF k = 0 THEN v ELSE FreeOne(freed[k - 1], addrs[k - 1])
  IN freed[n]
FreeEntries(r, b) ==
  IF Halted(r) THEN r
  ELSE Brelease(FreeAll(r, [k \in 0..(NIndirect - 1) |-> Address(Data(r, b)[k])], NIndirect), b)
FreeIndirect(v, b) == IF b = 0 \/ Halted(v) THEN v ELSE Bfree(FreeEntries(Bread(v, b), b), b)
FreeDirect(v, addrs) == FreeAll(v, addrs, NDirect)
Emptied(v, i) ==
  [v EXCEPT !.ip[i].din = [@ EXCEPT !.addrs = FreeInode.addrs, !.size = 0]]

\* Faulty form: the blocks in the indirect block are forgotten.
TruncDirect(v, i) ==
  Update(Emptied(Bfree(FreeDirect(v, v.ip[i].din.addrs), v.ip[i].din.addrs[NDirect]), i), i)

Trunc(v, i) ==
  LET addrs == v.ip[i].din.addrs
  IN Update(Emptied(FreeIndirect(FreeDirect(v, addrs), addrs[NDirect]), i), i)

\* put: the last reference to an inode without links frees it.
Freed(v, i) ==
  [Update([Trunc(v, i) EXCEPT !.ip[i].din.type = "free"], i) EXCEPT !.ip[i].valid = FALSE]
Unref(v, i) == [v EXCEPT !.ip[i].ref = @ - 1]
Put(v, i) ==
  IF Halted(v) THEN v
  ELSE IF v.ip[i].ref = 1 /\ v.ip[i].valid /\ v.ip[i].din.nlink = 0
  THEN Unref(Freed(v, i), i) ELSE Unref(v, i)

-----------------------------------------------------------------------------
(* Inode.read and Inode.write: a transfer t of n words, or of words, from  *)
(* or to offset off.                                                       *)

\* Faulty form: the words come from the start of the block.
FromBlockStart(t, b) ==
  LET k == Min({t.n, BSize - (t.off % BSize)})
  IN IF Halted(t.w) THEN t
     ELSE [w |-> Brelease(t.w, b), off |-> t.off + k, n |-> t.n - k,
           words |-> t.words \o [j \in 1..k |-> Data(t.w, b)[j - 1]]]

FromBlock(t, b) ==
  LET at == t.off % BSize
      k == Min({t.n, BSize - at})
  IN IF Halted(t.w) THEN t
     ELSE [w |-> Brelease(t.w, b), off |-> t.off + k, n |-> t.n - k,
           words |-> t.words \o [j \in 1..k |-> Data(t.w, b)[at + j - 1]]]
ReadBlock(t, m) ==
  IF m.b = 0 THEN [w |-> m.w, off |-> t.off, n |-> 0, words |-> t.words]
  ELSE FromBlock([w |-> Bread(m.w, m.b), off |-> t.off, n |-> t.n, words |-> t.words], m.b)
ReadNext(t, i) == IF t.n = 0 \/ Halted(t.w) THEN t
                  ELSE ReadBlock(t, Bmap(t.w, i, t.off \div BSize))

\* The loop for n words at most: a turn reads a word at least.
ReadOn(t, i, n) ==
  LET turn[k \in 0..n] == IF k = 0 THEN t ELSE ReadNext(turn[k - 1], i)
  IN turn[n]

\* At most n words, and none past the end of the file.
ReadInode(v, i, off, n) ==
  LET size == v.ip[i].din.size
  IN ReadOn([w |-> v, off |-> off, words |-> <<>>,
             n |-> IF off > size THEN 0 ELSE Min({n, size - off})], i, n)

\* Faulty form: the words go to the start of the block.
IntoBlockStart(t, b) ==
  LET k == Min({Len(t.words), BSize - (t.off % BSize)})
      data == Data(t.w, b)
      new == [j \in DOMAIN data |-> IF j < k THEN t.words[j + 1] ELSE data[j]]
  IN IF Halted(t.w) THEN t
     ELSE [w |-> Brelease(SetData(t.w, b, new), b), off |-> t.off + k, tot |-> t.tot + k,
           words |-> SubSeq(t.words, k + 1, Len(t.words))]

IntoBlock(t, b) ==
  LET at == t.off % BSize
      k == Min({Len(t.words), BSize - at})
      data == Data(t.w, b)
      new == [j \in DOMAIN data |-> IF j \in at..(at + k - 1) THEN t.words[j - at + 1]
                                    ELSE data[j]]
  IN IF Halted(t.w) THEN t
     ELSE [w |-> Brelease(SetData(t.w, b, new), b), off |-> t.off + k, tot |-> t.tot + k,
           words |-> SubSeq(t.words, k + 1, Len(t.words))]
WriteBlock(t, m) ==
  IF m.b = 0 THEN [w |-> m.w, off |-> t.off, tot |-> t.tot, words |-> <<>>]
  ELSE IntoBlock([w |-> Bread(m.w, m.b), off |-> t.off, tot |-> t.tot, words |-> t.words], m.b)
WriteNext(t, i) == IF t.words = <<>> \/ Halted(t.w) THEN t
                   ELSE WriteBlock(t, Bmap(t.w, i, t.off \div BSize))

\* The loop for n words: a turn writes a word at least.
WriteOn(t, i, n) ==
  LET turn[k \in 0..n] == IF k = 0 THEN t ELSE WriteNext(turn[k - 1], i)
  IN turn[n]

\* The size afterwards.  Faulty form: what is written is always added to it.
SetSize(t, i, size) ==
  [w |-> Update([t.w EXCEPT !.ip[i].din.size = size], i), off |-> t.off, tot |-> t.tot]
GrownAdds(t, i) == SetSize(t, i, t.w.ip[i].din.size + t.tot)

Grown(t, i) == SetSize(t, i, Max({t.w.ip[i].din.size, t.off}))

\* tot: the words written, fewer when there is no free block, or -1.
WriteInode(v, i, off, words) ==
  LET t == [w |-> v, off |-> off, tot |-> 0, words |-> words]
  IN IF off > v.ip[i].din.size \/ off + Len(words) > MaxFile * BSize
     THEN [w |-> v, off |-> off, tot |-> -1]
     ELSE Grown(WriteOn(t, i, Len(words)), i)

-----------------------------------------------------------------------------
(* Directories.  A search s is at offset off, behind the entry de.         *)

\* An entry is read with Inode.read: nothing read fails an assertion.
EntryOf(t) == IF t.words = <<>> THEN [w |-> Stop(t.w, "read"), de |-> Zero, off |-> t.off]
              ELSE [w |-> t.w, de |-> t.words[1], off |-> t.off]
NextEntry(s) == EntryOf(ReadInode(s.w, Root, s.off, 1))
AtEnd(s) == Halted(s.w) \/ s.off >= s.w.ip[Root].din.size
Start(v) == [w |-> v, de |-> Zero, off |-> 0]

\* lookup: the first entry with that name, or Zero.  No directory has more entries
\* than MaxEntries.
MaxEntries == MaxFile * BSize
Named(s, name) == s.de # Zero /\ s.de[2] = name
LookupNext(s, name) == IF Named(s, name) \/ AtEnd(s) THEN s ELSE NextEntry(s)
LookupOn(v, name) ==
  LET turn[k \in 0..MaxEntries] ==
        IF k = 0 THEN Start(v) ELSE LookupNext(turn[k - 1], name)
  IN turn[MaxEntries]
Result(s, name) == IF Named(s, name) THEN s ELSE [w |-> s.w, de |-> Zero, off |-> s.off]
Lookup(v, name) == Result(LookupOn(v, name), name)

\* link: the offset of a free entry, or of the end, and the entry read last.
IsFree(s) == s.off > 0 /\ s.de = Zero
FreeNext(s) == IF IsFree(s) \/ AtEnd(s) THEN s ELSE NextEntry(s)
FreeEntryOn(v) ==
  LET turn[k \in 0..MaxEntries] == IF k = 0 THEN Start(v) ELSE FreeNext(turn[k - 1])
  IN turn[MaxEntries]
Place(s) == IF IsFree(s) THEN [w |-> s.w, de |-> Zero, off |-> s.off - 1] ELSE s

\* The entry gets the inode number, and keeps the name it was read with.
SetLink(s, inum) == WriteInode(s.w, Root, s.off,
                               <<Entry(inum, IF s.de = Zero THEN "" ELSE s.de[2])>>)
Link(v, name, inum) == SetLink(Place(FreeEntryOn(Lookup(v, name).w)), inum)

\* ialloc: the first inode that is free on disk; 0 when none is.
IallocIn(r, i) ==
  LET b == IBlock(i)
      new == [Data(r, b) EXCEPT ![i % IPB] = [FreeInode EXCEPT !.type = "file"]]
  IN IF Halted(r) THEN [w |-> r, inum |-> 0]
     ELSE IF Data(r, b)[i % IPB].type = "free"
     THEN [w |-> Iget(Brelease(SetData(r, b, new), b), i), inum |-> i]
     ELSE [w |-> Brelease(r, b), inum |-> 0]
IallocNext(s, i) == IF s.inum # 0 THEN s ELSE IallocIn(Bread(s.w, IBlock(i)), i)
InodeAlloc(v) ==
  LET turn[i \in 0..(NInodes - 1)] ==
        IF i = 0 THEN [w |-> v, inum |-> 0] ELSE IallocNext(turn[i - 1], i)
  IN turn[NInodes - 1]

\* namex of a path with one element: the root is got, locked, searched and put.
RootLocked(v) == Lock(Iget(v, Root), Root)
Namei(v, name) == Lookup(RootLocked(v), name)

-----------------------------------------------------------------------------
(* Calls.                                                                  *)

Runs == ~Halted(w) /\ ~w.lost
Did(op, i, off, n) == last' = [op |-> op, i |-> i, off |-> off, n |-> n]
DidOther == last' = NoCall

\* The end of sys_open, with Mode.TRUNC or not.
Opened(v, i, trunc) == IF trunc /\ ~Halted(v) THEN Trunc(v, i) ELSE v

\* A file that was found: it is got and the root put.
OpenFound(s, trunc) ==
  LET i == s.de[1]
  IN /\ s.de # Zero /\ w.ip[i].ref < MaxRef
     /\ w' = Opened(Lock(Put(Iget(s.w, i), Root), i), i, trunc)
     /\ IF trunc THEN Did("trunc", i, 0, 0) ELSE DidOther

\* sys_open
Open(name, trunc) ==
  /\ Runs
  /\ \E s \in {Namei(w, name)} :
       \/ OpenFound(s, trunc)
       \/ s.de = Zero /\ w' = Put(s.w, Root) /\ DidOther

\* create, with sys_open's end: a new file gets an inode and an entry, and loses the
\* inode when there is no entry.
SetNlink(v, i, n) == Update([v EXCEPT !.ip[i].din.nlink = n], i)
Undone(v, i) == IF Halted(v) THEN v ELSE Put(SetNlink(v, i, 0), i)

CreateNew(new, name, trunc) ==
  \E linked \in {Link(SetNlink(Lock(new.w, new.inum), new.inum, 1), name, new.inum)} :
    \/ /\ linked.tot = 1
       /\ w' = Opened(Put(linked.w, Root), new.inum, trunc) /\ Did("create", new.inum, 0, 0)
    \/ /\ linked.tot # 1
       /\ w' = Put(Undone(linked.w, new.inum), Root) /\ DidOther

Create(name, trunc) ==
  /\ Runs
  /\ \E s \in {Lookup(RootLocked(w), name)} :
       \/ OpenFound(s, trunc)
       \/ /\ s.de = Zero
          /\ \E new \in {InodeAlloc(s.w)} :
               \/ new.inum = 0 /\ w' = Put(new.w, Root) /\ DidOther
               \/ new.inum # 0 /\ CreateNew(new, name, trunc)

\* sys_close of the last descriptor with this File.
Close(i) ==
  /\ Runs /\ w.ip[i].ref > 0
  /\ w' = Put(w, i)
  /\ DidOther

\* sys_read, at the offset of the File.
Read(i, off, n) ==
  /\ Runs /\ w.ip[i].ref > 0
  /\ w' = ReadInode(Lock(w, i), i, off, n).w
  /\ DidOther

\* sys_write of at most one part of File.write's loop.
Write(i, off, n) ==
  /\ Runs /\ w.ip[i].ref > 0
  /\ \E t \in {WriteInode(Lock(w, i), i, off, [k \in 1..n |-> Word])} :
       /\ w' = t.w
       /\ IF t.tot > 0 THEN Did("write", i, off, t.tot) ELSE DidOther

Files == Inums \ {Root}
Next ==
  \/ \E name \in Names, trunc \in BOOLEAN : Open(name, trunc) \/ Create(name, trunc)
  \/ \E i \in Files : Close(i)
  \/ \E i \in Files, off \in 0..(MaxFile * BSize), n \in 1..MaxCount :
       Read(i, off, n) \/ Write(i, off, n)

Spec == Init /\ [][Next]_vars

-----------------------------------------------------------------------------
(* Properties.                                                             *)

\* What is on disk now: the copy in memory of an inode that is in use, and the
\* buffers, come before the image.
Din(i) == IF w.ip[i].ref > 0 /\ w.ip[i].valid THEN w.ip[i].din ELSE Now(w, IBlock(i))[i % IPB]
InUse == {i \in Inums : Din(i).type # "free"}

\* Block bn of inode i, or 0.
BlockOf(i, bn) ==
  LET a == Din(i).addrs
  IN IF bn < NDirect THEN a[bn]
     ELSE IF a[NDirect] = 0 THEN 0
     ELSE Address(Now(w, a[NDirect])[bn - NDirect])

\* The addresses that inode i holds, the indirect block's last.
AddressOf(i, k) == IF k = MaxFile THEN Din(i).addrs[NDirect] ELSE BlockOf(i, k)

Contents(i) ==
  LET block == [bn \in 0..(MaxFile - 1) |-> BlockOf(i, bn)]
  IN [p \in 1..Din(i).size |->
        LET b == block[(p - 1) \div BSize]
        IN IF b = 0 THEN Zero ELSE Now(w, b)[(p - 1) % BSize]]

\* Types of the buffers and of the inodes in memory.  (What a call does after it has
\* lost a changed buffer has none: it may take a stale word for an address.)
TypeOK ==
  /\ w.lost \in BOOLEAN
  /\ Runs =>
       /\ Len(w.bufs) = NBuf
       /\ \A k \in 1..NBuf : /\ w.bufs[k].dev \in {0, RootDev} /\ w.bufs[k].bno \in 0..(FSSize - 1)
                             /\ w.bufs[k].refcnt \in Nat /\ w.bufs[k].valid \in BOOLEAN
       /\ \A i \in Inums : /\ w.ip[i].ref \in 0..MaxRef /\ w.ip[i].valid \in BOOLEAN
                           /\ w.ip[i].din.size \in 0..(MaxFile * BSize)
                           /\ \A k \in 0..NDirect : w.ip[i].din.addrs[k] \in 0..(FSSize - 1)

\* What a file system check would ask, of the image that mkfs builds and after every
\* call, created, failed or truncated: no block belongs to two places, the bitmap
\* marks the blocks in use and no other, and no file has a gap.
BlocksAccounted ==
  Runs =>
    LET holds == [h \in InUse \X (0..MaxFile) |-> AddressOf(h[1], h[2])]
        held == {h \in DOMAIN holds : holds[h] # 0}
        blocks == {holds[h] : h \in held}
    IN /\ Cardinality(blocks) = Cardinality(held)
       /\ Now(w, BmapStart) = 0..(NMeta - 1) \cup blocks
       /\ \A i \in InUse \cap Files : \A p \in 1..Din(i).size :
            holds[i, (p - 1) \div BSize] # 0

\* On every path through a call, failures included, what bread got brelease gives
\* back: no call ends with a buffer in use, no block is in two buffers, and bget finds
\* a buffer ("bget: no buffers").
BuffersReleased ==
  /\ w.panic # "buffers"
  /\ ~Halted(w) =>
       \A k, l \in 1..NBuf :
         /\ w.bufs[k].refcnt = 0
         /\ k # l /\ w.bufs[k].dev = RootDev /\ w.bufs[l].dev = RootDev =>
              w.bufs[k].bno # w.bufs[l].bno

\* The assertions about blocks and inodes never fail ("freeing free block") in a call
\* that loses no changed buffer, and a read that recycles none returns the words that
\* are there, from every offset and across blocks.
ReadsSound ==
  /\ ~w.lost => w.panic \notin {"freeing free block", "bmap", "type"}
  /\ Runs =>
       \A i \in Files : w.ip[i].ref > 0 =>
         LET words == Contents(i)
         IN \A off \in 0..Len(words) :
              LET r == ReadInode(Lock(w, i), i, off, MaxCount)
              IN r.w.lost \/ r.words = SubSeq(words, off + 1,
                                              Min({off + MaxCount, Len(words)}))

\* A write changes the words it says it has written and nothing else, in no other
\* file either; an open with TRUNC empties its file; a new file is empty and adds one
\* entry to the root; opening, closing, reading, and calls that fail leave all
\* contents alone.
Overwritten(words, off, n) ==
  [p \in 1..Max({Len(words), off + n}) |-> IF p \in (off + 1)..(off + n) THEN Word ELSE words[p]]
ContentsKept ==
  [][ ~Halted(w') /\ ~w'.lost =>
        LET call == last'
            before == [i \in Inums |-> Contents(i)]
            after == [i \in Inums |-> Contents(i)']
        IN \A i \in Inums :
             CASE call.op = "create" /\ i = Root ->
                    \E p \in DOMAIN after[i] :
                      /\ after[i][p][1] = call.i
                      /\ \A q \in DOMAIN after[i] \ {p} : after[i][q] = before[i][q]
               [] call.op = "write" /\ i = call.i ->
                    after[i] = Overwritten(before[i], call.off, call.n)
               [] call.op \in {"trunc", "create"} /\ i = call.i -> after[i] = <<>>
               [] OTHER -> after[i] = before[i] ]_vars
=============================================================================
