------------------------------ MODULE FsProofs ------------------------------
(***************************************************************************)
(* Proofs about the buffer cache under the file system (module Fs): every  *)
(* path through every call gives back the buffers it got, whatever is on   *)
(* the disk, and bget finds a buffer as soon as there are two.             *)
(*                                                                         *)
(* An operation is proved to lead from Ok(v, x, y) to Ok(v', x', y'): x    *)
(* and y are the blocks whose buffers the running code holds.              *)
(***************************************************************************)
EXTENDS Fs, NatFacts

(* Who holds a buffer: nobody, or the code that got block b.               *)
Nobody == <<>>
Id(b) == <<b>>
Refs(x, y, b) == (IF x = Id(b) THEN 1 ELSE 0) + (IF y = Id(b) THEN 1 ELSE 0)

World(v) == v = [bufs |-> v.bufs, disk |-> v.disk, panic |-> v.panic, lost |-> v.lost,
                 ip |-> v.ip]
IsBuffer(u) == u = [dev |-> u.dev, bno |-> u.bno, valid |-> u.valid, refcnt |-> u.refcnt,
                    data |-> u.data]
Of(u, b) == u.dev = RootDev /\ u.bno = b

(* The cache while x and y are held: reference counts are exact, no block  *)
(* has two buffers, and what is held is there.                             *)
Cached(bufs, x, y) ==
  /\ bufs = [k \in 1 .. NBuf |-> bufs[k]]
  /\ \A k \in 1 .. NBuf :
       /\ IsBuffer(bufs[k])
       /\ bufs[k].refcnt = IF bufs[k].dev = RootDev THEN Refs(x, y, bufs[k].bno) ELSE 0
  /\ \A k, l \in 1 .. NBuf :
       bufs[k].dev = RootDev /\ Of(bufs[l], bufs[k].bno) => k = l
  /\ \A b : x = Id(b) \/ y = Id(b) => \E k \in 1 .. NBuf : Of(bufs[k], b)

Ok(v, x, y) ==
  /\ World(v)
  /\ v.panic # "buffers"
  /\ ~Halted(v) => Cached(v.bufs, x, y)

-----------------------------------------------------------------------------
(* Single buffers.                                                         *)

(* Holders of different blocks differ, and a block's holder is somebody.   *)
LEMMA IdsDiffer ==
  /\ \A b, c : Id(b) = Id(c) => b = c
  /\ \A b : Id(b) # Nobody
<1>1. \A b, c : <<b>>[1] = b /\ <<c>>[1] = c
  OBVIOUS
<1> QED BY <1>1 DEF Id, Nobody

(* Reference counts, of no, one and two holders.                           *)
LEMMA RefsAre ==
  ASSUME NEW x
  PROVE  /\ \A b : Refs(Nobody, Nobody, b) = 0
         /\ \A b : Refs(x, Nobody, b) = IF x = Id(b) THEN 1 ELSE 0
         /\ \A b, c : Refs(Id(c), x, b) = Refs(x, Nobody, b) + IF b = c THEN 1 ELSE 0
         /\ \A b : Refs(x, Nobody, b) \in Nat
<1>1. \A b : Nobody # Id(b)
  BY IdsDiffer
<1>2. \A b, c : Id(c) = Id(b) <=> b = c
  BY IdsDiffer
<1> HIDE DEF Nobody, Id
<1> QED BY <1>1, <1>2 DEF Refs

(* The greatest of a nonempty set of positions is one of them.             *)
LEMMA GreatestPosition ==
  ASSUME NEW S \in SUBSET (1 .. NBuf), S # {}
  PROVE  Max(S) \in S
<1> DEFINE T == {NBuf - k : k \in S}
<1>1. NBuf \in Nat
  BY FsAssumption
<1>2. T \in SUBSET Nat /\ T # {}
  <2>1. PICK k \in S : TRUE
    OBVIOUS
  <2>2. NBuf - k \in T
    OBVIOUS
  <2>3. \A l \in S : NBuf - l \in Nat
    BY <1>1
  <2> QED BY <2>2, <2>3
<1>3. Min(T) \in T /\ \A y \in T : Min(T) <= y
  BY <1>2, MinIsLeast
<1>4. PICK k \in S : Min(T) = NBuf - k
  BY <1>3
<1>5. \A l \in S : NBuf - k <= NBuf - l
  BY <1>3, <1>4
<1>6. \A l \in S : k >= l
  BY <1>1, <1>5
<1> QED BY <1>6 DEF Max

(* The buffer of a block, when there is one, is the one that code finds.   *)
LEMMA Found ==
  ASSUME NEW v, NEW x, NEW y, NEW b, Cached(v.bufs, x, y), At(v, b) # {}
  PROVE  /\ Min(At(v, b)) \in 1 .. NBuf
         /\ Of(v.bufs[Min(At(v, b))], b)
         /\ \A l \in 1 .. NBuf : Of(v.bufs[l], b) => l = Min(At(v, b))
<1>1. DOMAIN v.bufs = 1 .. NBuf
  BY DEF Cached
<1>2. At(v, b) \in SUBSET Nat
  BY <1>1, FsAssumption DEF At
<1>3. Min(At(v, b)) \in At(v, b)
  BY <1>2, MinIsLeast
<1>4. Min(At(v, b)) \in 1 .. NBuf /\ Of(v.bufs[Min(At(v, b))], b)
  BY <1>1, <1>3 DEF At, Of
<1> QED BY <1>4 DEF Cached, Of

(* A block that is held has a buffer.                                      *)
LEMMA HeldIsThere ==
  ASSUME NEW v, NEW x, NEW b, Cached(v.bufs, Id(b), x)
  PROVE  At(v, b) # {}
<1>1. PICK k \in 1 .. NBuf : Of(v.bufs[k], b)
  BY DEF Cached
<1>2. k \in DOMAIN v.bufs
  BY DEF Cached
<1> QED BY <1>1, <1>2 DEF At, Of

(* WithBuf changes one buffer and nothing else.                            *)
LEMMA WithBufIs ==
  ASSUME NEW v, NEW k, NEW buf, World(v)
  PROVE  /\ World(WithBuf(v, k, buf))
         /\ WithBuf(v, k, buf).bufs = [v.bufs EXCEPT ![k] = buf]
         /\ WithBuf(v, k, buf).panic = v.panic
BY DEF World, WithBuf

(* ... and keeps the world when it keeps the cache.                        *)
LEMMA WithBufOk ==
  ASSUME NEW v, NEW x, NEW y, NEW x1, NEW y1, NEW k, NEW buf,
         Ok(v, x, y), Cached([v.bufs EXCEPT ![k] = buf], x1, y1)
  PROVE  Ok(WithBuf(v, k, buf), x1, y1)
<1>1. World(v) /\ v.panic # "buffers"
  BY DEF Ok
<1> DEFINE new == WithBuf(v, k, buf)
<1>2. World(new) /\ new.panic = v.panic /\ new.bufs = [v.bufs EXCEPT ![k] = buf]
  BY <1>1 DEF World, WithBuf
<1> HIDE DEF new
<1>3. Ok(new, x1, y1)
  BY <1>1, <1>2 DEF Ok
<1> QED BY <1>3 DEF new

(* A buffer that keeps its block and gets the right count keeps the cache. *)
LEMMA SameBlock ==
  ASSUME NEW bufs, NEW x, NEW y, NEW x1, NEW y1, NEW k \in 1 .. NBuf, NEW buf,
         Cached(bufs, x, y),
         IsBuffer(buf), buf.dev = bufs[k].dev, buf.bno = bufs[k].bno, buf.dev = RootDev,
         buf.refcnt = Refs(x1, y1, buf.bno),
         \A b : b # buf.bno => Refs(x1, y1, b) = Refs(x, y, b),
         \A b : x1 = Id(b) \/ y1 = Id(b) => b = buf.bno \/ x = Id(b) \/ y = Id(b)
  PROVE  Cached([bufs EXCEPT ![k] = buf], x1, y1)
<1> DEFINE new == [bufs EXCEPT ![k] = buf]
<1>1. /\ new = [j \in 1 .. NBuf |-> new[j]]
      /\ new[k] = buf /\ \A j \in 1 .. NBuf : j # k => new[j] = bufs[j]
  BY DEF Cached
<1>2. \A j \in 1 .. NBuf : new[j].dev = bufs[j].dev /\ new[j].bno = bufs[j].bno
  BY <1>1
<1> HIDE DEF new
<1>3. \A j \in 1 .. NBuf :
        /\ IsBuffer(new[j])
        /\ new[j].refcnt = IF new[j].dev = RootDev THEN Refs(x1, y1, new[j].bno) ELSE 0
  <2> TAKE j \in 1 .. NBuf
  <2>1. CASE j = k
    BY <1>1, <2>1
  <2>2. CASE j # k
    <3>1. bufs[j].dev = RootDev => bufs[j].bno # buf.bno
      BY <2>2 DEF Cached, Of
    <3> QED BY <1>1, <2>2, <3>1 DEF Cached
  <2> QED BY <2>1, <2>2
<1>4. \A j, l \in 1 .. NBuf : new[j].dev = RootDev /\ Of(new[l], new[j].bno) => j = l
  BY <1>2 DEF Cached, Of
<1>5. \A b : x1 = Id(b) \/ y1 = Id(b) => \E j \in 1 .. NBuf : Of(new[j], b)
  <2> SUFFICES ASSUME NEW b, x1 = Id(b) \/ y1 = Id(b)
               PROVE  \E j \in 1 .. NBuf : Of(new[j], b)
    OBVIOUS
  <2>1. CASE b = buf.bno
    BY <1>1, <2>1 DEF Of
  <2>2. CASE x = Id(b) \/ y = Id(b)
    BY <1>2, <2>2 DEF Cached, Of
  <2> QED BY <2>1, <2>2
<1> QED BY <1>1, <1>3, <1>4, <1>5 DEF Cached, new

-----------------------------------------------------------------------------
(* bcache.d                                                                *)

(* An assertion that fails ends everything, and no call continues.         *)
LEMMA StopOk ==
  ASSUME NEW v, NEW x, NEW y, NEW why, Ok(v, x, y), why \notin {"buffers", NoPanic}
  PROVE  Ok(Stop(v, why), x, y) /\ Halted(Stop(v, why))
BY DEF Ok, Stop, Halted, World, NoPanic

(* Once an assertion has failed, whoever holds a buffer does not matter.   *)
LEMMA HaltedOk ==
  ASSUME NEW v, NEW x, NEW y, NEW x1, NEW y1, Ok(v, x, y), Halted(v)
  PROVE  Ok(v, x1, y1)
BY DEF Ok

(* While at most one buffer is held, another one is idle: bget has one to  *)
(* recycle.                                                                *)
LEMMA OneIsIdle ==
  ASSUME NEW v, NEW x, Cached(v.bufs, x, Nobody)
  PROVE  Idle(v) # {}
<1>1. 1 \in 1 .. NBuf /\ 2 \in 1 .. NBuf /\ 1 # 2
  BY FsAssumption
<1>2. \A k \in 1 .. NBuf : v.bufs[k].refcnt = 0 \/ (v.bufs[k].dev = RootDev /\ x = Id(v.bufs[k].bno))
  BY RefsAre DEF Cached
<1>3. v.bufs[1].dev = RootDev /\ v.bufs[2].dev = RootDev => v.bufs[1].bno # v.bufs[2].bno
  BY <1>1 DEF Cached, Of
<1>4. v.bufs[1].refcnt = 0 \/ v.bufs[2].refcnt = 0
  BY <1>1, <1>2, <1>3, IdsDiffer
<1>5. DOMAIN v.bufs = 1 .. NBuf
  BY DEF Cached
<1> QED BY <1>1, <1>4, <1>5 DEF Idle

(* bget holds the buffer of its block, besides the one held before.        *)
LEMMA BgetOk ==
  ASSUME NEW v, NEW x, NEW b, Ok(v, x, Nobody)
  PROVE  Ok(Bget(v, b), Id(b), x)
<1>1. CASE Halted(v)
  BY <1>1, HaltedOk DEF Bget
<1>2. CASE ~Halted(v) /\ At(v, b) # {}
  <2> DEFINE k == Min(At(v, b))
             buf == [v.bufs[k] EXCEPT !.refcnt = @ + 1]
  <2>1. Cached(v.bufs, x, Nobody) /\ World(v)
    BY <1>2 DEF Ok
  <2>2. k \in 1 .. NBuf /\ Of(v.bufs[k], b)
    BY <1>2, <2>1, Found
  <2>3. IsBuffer(v.bufs[k]) /\ v.bufs[k].refcnt = Refs(x, Nobody, b)
    BY <2>1, <2>2 DEF Cached, Of
  <2> HIDE DEF k
  <2>4. IsBuffer(buf) /\ buf.dev = RootDev /\ buf.bno = b /\ buf.refcnt = v.bufs[k].refcnt + 1
    BY <2>2, <2>3 DEF IsBuffer, Of
  <2>5. Bget(v, b) = WithBuf(v, k, buf)
    BY <1>2 DEF Bget, Shared, k
  <2> HIDE DEF buf
  <2>6. buf.refcnt = Refs(Id(b), x, b) /\ \A c : c # b => Refs(Id(b), x, c) = Refs(x, Nobody, c)
    BY <2>3, <2>4, RefsAre
  <2>7. Cached([v.bufs EXCEPT ![k] = buf], Id(b), x)
    BY <2>1, <2>2, <2>4, <2>6, SameBlock, IdsDiffer DEF Of
  <2> QED BY <2>5, <2>7, WithBufOk
<1>3. CASE ~Halted(v) /\ At(v, b) = {}
  <2> DEFINE k == Max(Idle(v))
             buf == Buffer(b, FALSE, 1, v.bufs[k].data)
             new == [v.bufs EXCEPT ![k] = buf]
  <2>1. Cached(v.bufs, x, Nobody) /\ World(v)
    BY <1>3 DEF Ok
  <2>2. DOMAIN v.bufs = 1 .. NBuf /\ Idle(v) # {}
    BY <2>1, OneIsIdle DEF Cached
  <2>3. k \in 1 .. NBuf /\ v.bufs[k].refcnt = 0
    <3>1. Idle(v) \in SUBSET (1 .. NBuf)
      BY <2>2 DEF Idle
    <3>2. k \in Idle(v)
      BY <2>2, <3>1, GreatestPosition
    <3> QED BY <2>2, <3>2 DEF Idle
  <2>4. \A j \in 1 .. NBuf : ~ Of(v.bufs[j], b)
    BY <1>3, <2>2 DEF At, Of
  <2>5. x # Id(b)
    BY <2>1, <2>4 DEF Cached
  <2>6. Bget(v, b) = Recycled(v, k, b)
    BY <1>3, <2>2 DEF Bget
  <2> HIDE DEF k
  <2>7. IsBuffer(buf) /\ buf.dev = RootDev /\ buf.bno = b /\ buf.refcnt = 1
    BY DEF IsBuffer, Buffer
  <2>8. World(Bget(v, b)) /\ Bget(v, b).bufs = new /\ Bget(v, b).panic = v.panic
    <3>1. /\ World(WithBuf(v, k, buf)) /\ WithBuf(v, k, buf).panic = v.panic
          /\ WithBuf(v, k, buf).bufs = new
      <4> HIDE DEF buf
      <4> QED BY <2>1, WithBufIs
    <3> HIDE DEF buf, new
    <3>2. PICK lost : Recycled(v, k, b) = [WithBuf(v, k, buf) EXCEPT !.lost = lost]
      BY DEF Recycled, buf
    <3> QED BY <2>6, <3>1, <3>2 DEF World
  <2> HIDE DEF buf
  <2>9. /\ new = [j \in 1 .. NBuf |-> new[j]]
        /\ new[k] = buf /\ \A j \in 1 .. NBuf : j # k => new[j] = v.bufs[j]
    BY <2>1, <2>3 DEF Cached
  <2> HIDE DEF new
  <2>10. \A j \in 1 .. NBuf :
           /\ IsBuffer(new[j])
           /\ new[j].refcnt = IF new[j].dev = RootDev THEN Refs(Id(b), x, new[j].bno) ELSE 0
    <3> TAKE j \in 1 .. NBuf
    <3>1. CASE j = k
      <4>1. Refs(Id(b), x, b) = 1
        BY <2>5, RefsAre
      <4> QED BY <2>7, <2>9, <3>1, <4>1
    <3>2. CASE j # k
      <4>1. v.bufs[j].dev = RootDev => v.bufs[j].bno # b
        BY <2>4 DEF Of
      <4>2. v.bufs[j].dev = RootDev =>
              Refs(Id(b), x, v.bufs[j].bno) = Refs(x, Nobody, v.bufs[j].bno)
        BY <4>1, RefsAre
      <4> QED BY <2>1, <2>9, <3>2, <4>2 DEF Cached
    <3> QED BY <3>1, <3>2
  <2>11. \A j, l \in 1 .. NBuf : new[j].dev = RootDev /\ Of(new[l], new[j].bno) => j = l
    BY <2>1, <2>4, <2>7, <2>9 DEF Cached, Of
  <2>12. \A c : Id(b) = Id(c) \/ x = Id(c) => \E j \in 1 .. NBuf : Of(new[j], c)
    <3>1. \A c : Id(b) = Id(c) => Of(new[k], c)
      BY <2>7, <2>9, IdsDiffer DEF Of
    <3>2. ASSUME NEW c, x = Id(c) PROVE \E j \in 1 .. NBuf : Of(new[j], c)
      <4>1. PICK j \in 1 .. NBuf : Of(v.bufs[j], c)
        BY <2>1, <3>2 DEF Cached
      <4>2. j # k
        BY <2>1, <2>3, <3>2, <4>1, RefsAre DEF Cached, Of
      <4> QED BY <2>9, <4>1, <4>2
    <3> QED BY <2>3, <3>1, <3>2
  <2>13. Cached(new, Id(b), x)
    BY <2>9, <2>10, <2>11, <2>12 DEF Cached
  <2> QED BY <2>8, <2>13 DEF Ok
<1> QED BY <1>1, <1>2, <1>3

(* bread holds the buffer of its block, filled.                            *)
LEMMA BreadOk ==
  ASSUME NEW v, NEW x, NEW b, Ok(v, x, Nobody)
  PROVE  Ok(Bread(v, b), Id(b), x)
<1> DEFINE r == Bget(v, b)
<1>1. Ok(r, Id(b), x)
  BY BgetOk
<1>2. Bread(v, b) = Filled(r, b)
  BY DEF Bread
<1> HIDE DEF r
<1> DEFINE k == Min(At(r, b))
<1>3. CASE Halted(r) \/ r.bufs[k].valid
  BY <1>1, <1>2, <1>3 DEF Filled
<1>4. CASE ~ (Halted(r) \/ r.bufs[k].valid)
  <2> DEFINE buf == Buffer(b, TRUE, r.bufs[k].refcnt, r.disk[b])
  <2>1. Cached(r.bufs, Id(b), x) /\ World(r)
    BY <1>1, <1>4 DEF Ok
  <2>2. k \in 1 .. NBuf /\ Of(r.bufs[k], b)
    BY <2>1, HeldIsThere, Found
  <2>3. Filled(r, b) = WithBuf(r, k, buf)
    BY <1>4 DEF Filled
  <2> HIDE DEF k
  <2>4. r.bufs[k].refcnt = Refs(Id(b), x, b)
    BY <2>1, <2>2 DEF Cached, Of
  <2>5. IsBuffer(buf) /\ buf.dev = RootDev /\ buf.bno = b /\ buf.refcnt = r.bufs[k].refcnt
    BY DEF IsBuffer, Buffer
  <2> HIDE DEF buf
  <2>6. Cached([r.bufs EXCEPT ![k] = buf], Id(b), x)
    BY <2>1, <2>2, <2>4, <2>5, SameBlock DEF Of
  <2> QED BY <1>1, <1>2, <2>3, <2>6, WithBufOk
<1> QED BY <1>3, <1>4

(* New contents of a buffer that is held.                                  *)
LEMMA SetDataOk ==
  ASSUME NEW v, NEW x, NEW b, NEW data, Ok(v, Id(b), x)
  PROVE  Ok(SetData(v, b, data), Id(b), x)
<1> DEFINE k == Min(At(v, b))
           buf == [v.bufs[k] EXCEPT !.data = data]
<1>1. CASE Halted(v)
  BY <1>1 DEF SetData
<1>2. CASE ~Halted(v)
  <2>1. Cached(v.bufs, Id(b), x) /\ World(v)
    BY <1>2 DEF Ok
  <2>2. k \in 1 .. NBuf /\ Of(v.bufs[k], b)
    BY <2>1, HeldIsThere, Found
  <2>3. SetData(v, b, data) = WithBuf(v, k, buf)
    BY <1>2 DEF SetData
  <2> HIDE DEF k
  <2>4. v.bufs[k].refcnt = Refs(Id(b), x, b) /\ IsBuffer(v.bufs[k])
    BY <2>1, <2>2 DEF Cached, Of
  <2>5. IsBuffer(buf) /\ buf.dev = RootDev /\ buf.bno = b /\ buf.refcnt = v.bufs[k].refcnt
    BY <2>2, <2>4 DEF IsBuffer, Of
  <2> HIDE DEF buf
  <2>6. Cached([v.bufs EXCEPT ![k] = buf], Id(b), x)
    BY <2>1, <2>2, <2>4, <2>5, SameBlock DEF Of
  <2> QED BY <2>3, <2>6, WithBufOk
<1> QED BY <1>1, <1>2

(* Moving a buffer to the front keeps the cache.                           *)
LEMMA ToFrontKeeps ==
  ASSUME NEW bufs, NEW x, NEW y, NEW k \in 1 .. NBuf, NEW buf,
         Cached([bufs EXCEPT ![k] = buf], x, y), bufs = [j \in 1 .. NBuf |-> bufs[j]]
  PROVE  Cached(ToFront(bufs, k, buf), x, y)
<1> DEFINE old == [bufs EXCEPT ![k] = buf]
           new == ToFront(bufs, k, buf)
           from(j) == IF j = 1 THEN k ELSE IF j <= k THEN j - 1 ELSE j
<1>1. NBuf \in Nat
  BY FsAssumption
<1>2. /\ DOMAIN bufs = 1 .. NBuf
      /\ old[k] = buf /\ \A j \in 1 .. NBuf : j # k => old[j] = bufs[j]
  OBVIOUS
<1>3. \A j \in 1 .. NBuf : from(j) \in 1 .. NBuf /\ new[j] = old[from(j)]
  BY <1>1, <1>2 DEF ToFront
<1>4. \A j, l \in 1 .. NBuf : from(j) = from(l) => j = l
  BY <1>1
<1>5. \A j \in 1 .. NBuf : \E l \in 1 .. NBuf : from(l) = j
  <2> TAKE j \in 1 .. NBuf
  <2>1. CASE j = k
    BY <1>1, <2>1
  <2>2. CASE j < k
    <3>1. j + 1 \in 1 .. NBuf /\ from(j + 1) = j
      BY <1>1, <2>2
    <3> QED BY <3>1
  <2>3. CASE j > k
    BY <1>1, <2>3
  <2> QED BY <1>1, <2>1, <2>2, <2>3
<1>6. new = [j \in 1 .. NBuf |-> new[j]]
  BY <1>2 DEF ToFront
<1> HIDE DEF new, old, from
<1>7. Cached(old, x, y)
  BY DEF old
<1>8. \A j \in 1 .. NBuf :
        /\ IsBuffer(new[j])
        /\ new[j].refcnt = IF new[j].dev = RootDev THEN Refs(x, y, new[j].bno) ELSE 0
  <2> TAKE j \in 1 .. NBuf
  <2>1. PICK l \in 1 .. NBuf : new[j] = old[l]
    BY <1>3
  <2> QED BY <1>7, <2>1 DEF Cached
<1>9. \A j, l \in 1 .. NBuf : new[j].dev = RootDev /\ Of(new[l], new[j].bno) => j = l
  <2> SUFFICES ASSUME NEW j \in 1 .. NBuf, NEW l \in 1 .. NBuf,
                      new[j].dev = RootDev, Of(new[l], new[j].bno)
               PROVE  j = l
    OBVIOUS
  <2>1. from(j) = from(l)
    BY <1>3, <1>7 DEF Cached
  <2> QED BY <1>4, <2>1
<1>10. \A b : x = Id(b) \/ y = Id(b) => \E j \in 1 .. NBuf : Of(new[j], b)
  <2> SUFFICES ASSUME NEW b, x = Id(b) \/ y = Id(b)
               PROVE  \E j \in 1 .. NBuf : Of(new[j], b)
    OBVIOUS
  <2>1. PICK l \in 1 .. NBuf : Of(old[l], b)
    BY <1>7 DEF Cached
  <2>2. PICK j \in 1 .. NBuf : from(j) = l
    BY <1>5
  <2> QED BY <1>3, <2>1, <2>2
<1> QED BY <1>6, <1>8, <1>9, <1>10 DEF Cached, new

(* brelease ends a hold; another one stays, also one of the same block.    *)
LEMMA BreleaseOk ==
  ASSUME NEW v, NEW x, NEW b, Ok(v, Id(b), x)
  PROVE  Ok(Brelease(v, b), x, Nobody)
<1> DEFINE k == Min(At(v, b))
           buf == [v.bufs[k] EXCEPT !.refcnt = @ - 1]
<1>1. CASE Halted(v)
  BY <1>1, HaltedOk DEF Brelease
<1>2. CASE ~Halted(v)
  <2>1. Cached(v.bufs, Id(b), x) /\ World(v)
    BY <1>2 DEF Ok
  <2>2. k \in 1 .. NBuf /\ Of(v.bufs[k], b)
    BY <2>1, HeldIsThere, Found
  <2>3. Brelease(v, b) = IF buf.refcnt > 0 THEN WithBuf(v, k, buf)
                         ELSE [v EXCEPT !.bufs = ToFront(v.bufs, k, buf)]
    BY <1>2 DEF Brelease
  <2> HIDE DEF k
  <2>4. v.bufs[k].refcnt = Refs(Id(b), x, b) /\ IsBuffer(v.bufs[k])
    BY <2>1, <2>2 DEF Cached, Of
  <2>5. IsBuffer(buf) /\ buf.dev = RootDev /\ buf.bno = b /\ buf.refcnt = v.bufs[k].refcnt - 1
    BY <2>2, <2>4 DEF IsBuffer, Of
  <2> HIDE DEF buf
  <2>6. /\ buf.refcnt = Refs(x, Nobody, b)
        /\ \A c : c # b => Refs(x, Nobody, c) = Refs(Id(b), x, c)
        /\ \A c : x = Id(c) \/ Nobody = Id(c) => c = b \/ Id(b) = Id(c) \/ x = Id(c)
    BY <2>4, <2>5, RefsAre, IdsDiffer
  <2>7. Cached([v.bufs EXCEPT ![k] = buf], x, Nobody)
    BY <2>1, <2>2, <2>5, <2>6, SameBlock DEF Of
  <2>8. CASE buf.refcnt > 0
    BY <2>3, <2>7, <2>8, WithBufOk
  <2>9. CASE ~ (buf.refcnt > 0)
    <3>0. v.bufs = [j \in 1 .. NBuf |-> v.bufs[j]]
      BY <2>1 DEF Cached
    <3>1. Cached(ToFront(v.bufs, k, buf), x, Nobody)
      BY <2>2, <2>7, <3>0, ToFrontKeeps
    <3> QED BY <1>2, <2>3, <2>9, <3>1 DEF Ok, World, Halted
  <2> QED BY <2>8, <2>9
<1> QED BY <1>1, <1>2

-----------------------------------------------------------------------------
(* fs.d                                                                    *)

(* bzero, also while another buffer is held.                               *)
LEMMA BzeroOk ==
  ASSUME NEW v, NEW x, NEW b, Ok(v, x, Nobody)
  PROVE  Ok(Bzero(v, b), x, Nobody)
<1>1. Ok(SetData(Bread(v, b), b, ZeroBlock), Id(b), x)
  BY BreadOk, SetDataOk
<1> QED BY <1>1, BreleaseOk DEF Bzero

(* balloc, also while another buffer is held: it gives back the bitmap     *)
(* before it gets the buffer of the block it found.                        *)
LEMMA BallocOk ==
  ASSUME NEW v, NEW x, Ok(v, x, Nobody)
  PROVE  Ok(Balloc(v).w, x, Nobody)
<1> DEFINE bm == Bread(v, BmapStart)
           b == Min(FreeIn(bm))
           data == Data(bm, BmapStart) \cup {b}
<1>1. Ok(bm, Id(BmapStart), x)
  BY BreadOk
<1>2. Balloc(v) = TakeFree(bm)
  BY DEF Balloc
<1> HIDE DEF bm
<1>3. CASE Halted(bm)
  BY <1>1, <1>2, <1>3, HaltedOk DEF TakeFree
<1>4. CASE ~Halted(bm) /\ FreeIn(bm) = {}
  BY <1>1, <1>2, <1>4, BreleaseOk DEF TakeFree
<1>5. CASE ~Halted(bm) /\ FreeIn(bm) # {}
  <2>1. Balloc(v).w = Bzero(MarkBlock(bm, b), b)
    BY <1>2, <1>5 DEF TakeFree
  <2>2. MarkBlock(bm, b) = Brelease(SetData(bm, BmapStart, data), BmapStart)
    BY DEF MarkBlock
  <2> HIDE DEF data, b
  <2>3. Ok(MarkBlock(bm, b), x, Nobody)
    BY <1>1, <2>2, SetDataOk, BreleaseOk
  <2> QED BY <2>1, <2>3, BzeroOk
<1> QED BY <1>3, <1>4, <1>5

(* bfree, also while another buffer is held.                               *)
LEMMA BfreeOk ==
  ASSUME NEW v, NEW x, NEW b, Ok(v, x, Nobody)
  PROVE  Ok(Bfree(v, b), x, Nobody)
<1> DEFINE bm == Bread(v, BmapStart)
           data == Data(bm, BmapStart) \ {b}
<1>1. Ok(bm, Id(BmapStart), x)
  BY BreadOk
<1>2. Bfree(v, b) = Unmark(bm, b)
  BY DEF Bfree
<1> HIDE DEF bm
<1>3. CASE Halted(bm)
  BY <1>1, <1>2, <1>3, HaltedOk DEF Unmark
<1>4. CASE ~Halted(bm) /\ b \notin Data(bm, BmapStart)
  <2>1. Ok(Stop(bm, "freeing free block"), Id(BmapStart), x)
        /\ Halted(Stop(bm, "freeing free block"))
    BY <1>1, StopOk DEF NoPanic
  <2>2. Bfree(v, b) = Stop(bm, "freeing free block")
    BY <1>2, <1>4 DEF Unmark
  <2>3. Ok(Stop(bm, "freeing free block"), x, Nobody)
    BY <2>1, HaltedOk
  <2> QED BY <2>2, <2>3
<1>5. CASE ~Halted(bm) /\ b \in Data(bm, BmapStart)
  <2>1. Bfree(v, b) = Brelease(SetData(bm, BmapStart, data), BmapStart)
    BY <1>2, <1>5 DEF Unmark
  <2> HIDE DEF data
  <2> QED BY <1>1, <2>1, SetDataOk, BreleaseOk
<1> QED BY <1>3, <1>4, <1>5

-----------------------------------------------------------------------------
(* Inodes (file.d).  Fine: no buffer is held.                              *)

Fine(v) == Ok(v, Nobody, Nobody)

(* What is done to inodes in memory touches no buffer.                     *)
LEMMA IpOk ==
  ASSUME NEW v, NEW x, NEW y, NEW ip, Ok(v, x, y)
  PROVE  Ok([v EXCEPT !.ip = ip], x, y)
<1> DEFINE new == [v EXCEPT !.ip = ip]
<1>1. World(new) /\ new.panic = v.panic /\ new.bufs = v.bufs
  BY DEF Ok, World
<1> HIDE DEF new
<1>2. Ok(new, x, y)
  BY <1>1 DEF Ok, Halted
<1> QED BY <1>2 DEF new

(* Inode.update                                                            *)
LEMMA UpdateOk ==
  ASSUME NEW v, NEW i, Fine(v)
  PROVE  Fine(Update(v, i))
<1> DEFINE b == IBlock(i)
           r == Bread(v, b)
           data == [Data(r, b) EXCEPT ![i % IPB] = r.ip[i].din]
<1>1. Ok(r, Id(b), Nobody)
  BY BreadOk DEF Fine
<1>2. Update(v, i) = Brelease(SetData(r, b, data), b)
  BY DEF Update, CopyOut
<1> HIDE DEF b, r, data
<1> QED BY <1>1, <1>2, SetDataOk, BreleaseOk DEF Fine

(* Inode.lock                                                              *)
LEMMA LockOk ==
  ASSUME NEW v, NEW i, Fine(v)
  PROVE  Fine(Lock(v, i))
<1> DEFINE b == IBlock(i)
           r == Bread(v, b)
           din == Data(r, b)[i % IPB]
           got == [r EXCEPT !.ip[i].din = din, !.ip[i].valid = TRUE]
           read == Brelease(got, b)
<1>1. Ok(r, Id(b), Nobody)
  BY BreadOk DEF Fine
<1>2. CASE Halted(v) \/ v.ip[i].valid
  BY <1>2 DEF Lock
<1>3. CASE ~ (Halted(v) \/ v.ip[i].valid)
  <2>1. Lock(v, i) = IF Halted(r) THEN r ELSE IF din.type = "free" THEN Stop(read, "type")
                     ELSE read
    BY <1>3 DEF Lock, CopyIn
  <2>2. PICK ip : got = [r EXCEPT !.ip = ip]
    OBVIOUS
  <2> HIDE DEF r, b, din, got
  <2>3. Ok(got, Id(b), Nobody)
    BY <1>1, <2>2, IpOk
  <2>4. Fine(read)
    BY <2>3, BreleaseOk DEF Fine
  <2> HIDE DEF read
  <2>5. Fine(Stop(read, "type"))
    BY <2>4, StopOk DEF Fine, NoPanic
  <2>6. Halted(r) => Fine(r)
    BY <1>1, HaltedOk DEF Fine
  <2> QED BY <2>1, <2>4, <2>5, <2>6
<1> QED BY <1>2, <1>3

-----------------------------------------------------------------------------
(* Block maps.                                                             *)

(* The numbers that bound loops are natural numbers.                       *)
LEMMA SizesNat ==
  /\ NDirect \in Nat /\ NIndirect \in Nat /\ MaxEntries \in Nat
  /\ NInodes - 1 \in Nat /\ NInodes \in Nat \ {0}
BY SizesAssumption DEF NIndirect, MaxEntries, MaxFile

(* bmap of a direct block, or of the indirect block itself.                *)
LEMMA DirectOk ==
  ASSUME NEW v, NEW i, NEW bn, Fine(v)
  PROVE  Fine(Direct(v, i, bn).w)
<1> DEFINE got == Balloc(v)
<1>1. Fine(got.w)
  BY BallocOk DEF Fine
<1>2. CASE v.ip[i].din.addrs[bn] # 0
  BY <1>2 DEF Direct
<1>3. CASE v.ip[i].din.addrs[bn] = 0
  <2>1. Direct(v, i, bn) = Assign(got, i, bn)
    BY <1>3 DEF Direct
  <2> HIDE DEF got
  <2>2. PICK ip : Assign(got, i, bn).w = [got.w EXCEPT !.ip = ip]
    BY DEF Assign
  <2>3. Fine([got.w EXCEPT !.ip = ip])
    BY <1>1, IpOk DEF Fine
  <2> QED BY <2>1, <2>2, <2>3
<1> QED BY <1>2, <1>3

(* bmap of a block behind the indirect block b: that buffer is held while  *)
(* a block is allocated, and given back also when there is none.           *)
LEMMA EntryInOk ==
  ASSUME NEW r, NEW b, NEW k, Ok(r, Id(b), Nobody)
  PROVE  Fine(EntryIn(r, b, k).w)
<1> DEFINE got == Balloc(r)
           set == [Data(got.w, b) EXCEPT ![k] = <<got.b>>]
<1>1. CASE Halted(r)
  BY <1>1, HaltedOk DEF EntryIn, Fine
<1>2. CASE ~Halted(r) /\ Data(r, b)[k] # Zero
  BY <1>2, BreleaseOk DEF EntryIn, Fine
<1>3. CASE ~Halted(r) /\ Data(r, b)[k] = Zero
  <2>1. EntryIn(r, b, k) = SetEntry(got, b, k)
    BY <1>3 DEF EntryIn
  <2>2. Ok(got.w, Id(b), Nobody)
    BY BallocOk
  <2> HIDE DEF got
  <2>3. SetEntry(got, b, k).w = IF got.b = 0 THEN Brelease(got.w, b)
                                ELSE Brelease(SetData(got.w, b, set), b)
    BY DEF SetEntry
  <2> HIDE DEF set
  <2> QED BY <2>1, <2>2, <2>3, SetDataOk, BreleaseOk DEF Fine
<1> QED BY <1>1, <1>2, <1>3

(* Inode.bmap                                                              *)
LEMMA BmapOk ==
  ASSUME NEW v, NEW i, NEW bn, Fine(v)
  PROVE  Fine(Bmap(v, i, bn).w)
<1>1. CASE bn < NDirect
  BY <1>1, DirectOk DEF Bmap
<1>2. CASE ~ (bn < NDirect) /\ bn < MaxFile
  <2> DEFINE ind == Direct(v, i, NDirect)
  <2>1. Fine(ind.w)
    BY DirectOk
  <2>2. Bmap(v, i, bn) = Indirect(ind, bn - NDirect)
    BY <1>2 DEF Bmap
  <2> HIDE DEF ind
  <2>3. CASE ind.b = 0
    BY <2>1, <2>2, <2>3 DEF Indirect
  <2>4. CASE ind.b # 0
    <3> DEFINE r == Bread(ind.w, ind.b)
    <3>1. Ok(r, Id(ind.b), Nobody)
      BY <2>1, BreadOk DEF Fine
    <3>2. Bmap(v, i, bn) = EntryIn(r, ind.b, bn - NDirect)
      BY <2>2, <2>4 DEF Indirect
    <3> HIDE DEF r
    <3> QED BY <3>1, <3>2, EntryInOk
  <2> QED BY <2>3, <2>4
<1>3. CASE ~ (bn < NDirect) /\ ~ (bn < MaxFile)
  <2>1. Bmap(v, i, bn).w = Stop(v, "bmap")
    BY <1>3 DEF Bmap
  <2> QED BY <2>1, StopOk DEF Fine, NoPanic
<1> QED BY <1>1, <1>2, <1>3

-----------------------------------------------------------------------------
(* Inode.trunc and Inode.put.                                              *)

(* The loop of free a list of blocks, turn by turn.  *)
LEMMA FreeAllTurns ==
  ASSUME NEW v, NEW addrs, NEW n \in Nat
  PROVE  \E f : /\ FreeAll(v, addrs, n) = f[n] /\ f[0] = v
               /\ \A k \in 0 .. (n - 1) : f[k + 1] = FreeOne(f[k], addrs[k])
<1> DEFINE After(u, k) == FreeOne(u, addrs[k - 1])
           Is(g, m) == g = [k \in 0 .. m |-> IF k = 0 THEN v ELSE After(g[k - 1], k)]
           D == {m \in Nat : \E g : Is(g, m)}
           f == CHOOSE g : Is(g, n)
<1>1. FreeAll(v, addrs, n) = f[n]
  BY DEF FreeAll, After
<1>2. \A u : \A k \in 0 .. (n - 1) : After(u, k + 1) = FreeOne(u, addrs[k])
  OBVIOUS
<1> HIDE DEF After
<1>3. 0 \in D
  <2> DEFINE g == [k \in 0 .. 0 |-> v]
  <2>1. Is(g, 0)
    OBVIOUS
  <2> QED BY <2>1
<1>4. ASSUME NEW m \in D PROVE m + 1 \in D
  <2>1. PICK g : Is(g, m)
    BY <1>4
  <2> DEFINE h == [k \in 0 .. (m + 1) |-> IF k = m + 1 THEN After(g[m], k) ELSE g[k]]
  <2>2. ASSUME NEW k \in 0 .. (m + 1)
        PROVE  h[k] = IF k = 0 THEN v ELSE After(h[k - 1], k)
    <3>1. CASE k = m + 1
      BY <3>1
    <3>2. CASE k # m + 1
      <4>1. k \in 0 .. m /\ h[k] = g[k]
        BY <3>2
      <4>2. g[k] = IF k = 0 THEN v ELSE After(g[k - 1], k)
        BY <2>1, <4>1
      <4>3. k # 0 => h[k - 1] = g[k - 1]
        BY <4>1
      <4> QED BY <4>1, <4>2, <4>3
    <3> QED BY <3>1, <3>2
  <2>3. Is(h, m + 1)
    BY <2>2
  <2> HIDE DEF h
  <2> QED BY <2>3
<1>5. D = Nat
  <2> HIDE DEF D
  <2>1. D \in SUBSET Nat
    BY DEF D
  <2> QED BY <1>3, <1>4, <2>1, Closed
<1>6. Is(f, n)
  <2>1. \E g : Is(g, n)
    BY <1>5
  <2> HIDE DEF Is
  <2> QED BY <2>1
<1> HIDE DEF f
<1>7. f[0] = v
  BY <1>6
<1>8. ASSUME NEW k \in 0 .. (n - 1) PROVE f[k + 1] = After(f[k], k + 1)
  <2>1. k + 1 \in 0 .. n /\ k + 1 # 0 /\ (k + 1) - 1 = k
    OBVIOUS
  <2>2. f[k + 1] = IF k + 1 = 0 THEN v ELSE After(f[(k + 1) - 1], k + 1)
    BY <1>6, <2>1
  <2> QED BY <2>1, <2>2
<1>9. \A k \in 0 .. (n - 1) : f[k + 1] = FreeOne(f[k], addrs[k])
  BY <1>2, <1>8
<1> QED BY <1>1, <1>7, <1>9

(* The loops of trunc, which free one address after the other, also while *)
(* the indirect block is held.                                             *)
LEMMA FreeAllOk ==
  ASSUME NEW v, NEW x, NEW addrs, NEW n \in Nat, Ok(v, x, Nobody)
  PROVE  Ok(FreeAll(v, addrs, n), x, Nobody)
<1>1. PICK f : /\ FreeAll(v, addrs, n) = f[n] /\ f[0] = v
               /\ \A k \in 0 .. (n - 1) : f[k + 1] = FreeOne(f[k], addrs[k])
  BY FreeAllTurns
<1> DEFINE E == {k \in Nat : Ok(f[k], x, Nobody)}
<1>2. 0 \in E
  BY <1>1
<1>3. ASSUME NEW k \in 0 .. (n - 1), k \in E PROVE k + 1 \in E
  <2>1. Ok(f[k], x, Nobody) /\ f[k + 1] = FreeOne(f[k], addrs[k]) /\ k + 1 \in Nat
    BY <1>1, <1>3
  <2>2. Ok(f[k + 1], x, Nobody)
    BY <2>1, BfreeOk DEF FreeOne
  <2> QED BY <2>1, <2>2
<1> HIDE DEF E
<1>4. n \in E
  BY <1>2, <1>3, Reached
<1> QED BY <1>1, <1>4 DEF E

(* The indirect block is held while the blocks it names are freed, and     *)
(* then freed itself.                                                      *)
LEMMA FreeIndirectOk ==
  ASSUME NEW v, NEW b, Fine(v)
  PROVE  Fine(FreeIndirect(v, b))
<1> DEFINE r == Bread(v, b)
           addrs == [k \in 0 .. (NIndirect - 1) |-> Address(Data(r, b)[k])]
           freed == FreeAll(r, addrs, NIndirect)
<1>1. CASE b = 0 \/ Halted(v)
  BY <1>1 DEF FreeIndirect
<1>2. CASE ~ (b = 0 \/ Halted(v))
  <2>1. Ok(r, Id(b), Nobody)
    BY BreadOk DEF Fine
  <2>2. FreeIndirect(v, b) = Bfree(FreeEntries(r, b), b)
    BY <1>2 DEF FreeIndirect
  <2>3. FreeEntries(r, b) = IF Halted(r) THEN r ELSE Brelease(freed, b)
    BY DEF FreeEntries
  <2> HIDE DEF r, addrs
  <2>4. Ok(freed, Id(b), Nobody)
    BY <2>1, FreeAllOk, SizesNat
  <2> HIDE DEF freed
  <2>5. Fine(Brelease(freed, b))
    BY <2>4, BreleaseOk DEF Fine
  <2>6. Halted(r) => Fine(r)
    BY <2>1, HaltedOk DEF Fine
  <2>7. Fine(FreeEntries(r, b))
    BY <2>3, <2>5, <2>6
  <2> QED BY <2>2, <2>7, BfreeOk DEF Fine
<1> QED BY <1>1, <1>2

(* Inode.trunc                                                             *)
LEMMA TruncOk ==
  ASSUME NEW v, NEW i, Fine(v)
  PROVE  Fine(Trunc(v, i))
<1> DEFINE addrs == v.ip[i].din.addrs
           u == FreeDirect(v, addrs)
           z == FreeIndirect(u, addrs[NDirect])
<1>1. Trunc(v, i) = Update(Emptied(z, i), i)
  BY DEF Trunc
<1> HIDE DEF addrs
<1>2. Fine(u)
  BY FreeAllOk, SizesNat DEF FreeDirect, Fine
<1> HIDE DEF u
<1>3. Fine(z)
  BY <1>2, FreeIndirectOk
<1> HIDE DEF z
<1>4. PICK ip : Emptied(z, i) = [z EXCEPT !.ip = ip]
  BY DEF Emptied
<1>5. Fine([z EXCEPT !.ip = ip])
  BY <1>3, IpOk DEF Fine
<1>6. Fine(Emptied(z, i))
  BY <1>4, <1>5
<1> QED BY <1>1, <1>6, UpdateOk

(* Inode.put, with the inode freed or not.                                 *)
LEMMA UnrefOk ==
  ASSUME NEW v, NEW i, Fine(v)
  PROVE  Fine(Unref(v, i))
<1>1. PICK ip : Unref(v, i) = [v EXCEPT !.ip = ip]
  BY DEF Unref
<1>2. Fine([v EXCEPT !.ip = ip])
  BY IpOk DEF Fine
<1> QED BY <1>1, <1>2

(* Inode.put                                                               *)
LEMMA PutOk ==
  ASSUME NEW v, NEW i, Fine(v)
  PROVE  Fine(Put(v, i))
<1> DEFINE z == Trunc(v, i)
           typed == [z EXCEPT !.ip[i].din.type = "free"]
           u == Update(typed, i)
<1>1. Fine(z)
  BY TruncOk
<1>2. Freed(v, i) = [u EXCEPT !.ip[i].valid = FALSE]
  BY DEF Freed
<1> HIDE DEF z
<1>3. PICK ip : typed = [z EXCEPT !.ip = ip]
  OBVIOUS
<1> HIDE DEF typed
<1>4. Fine([z EXCEPT !.ip = ip])
  BY <1>1, IpOk DEF Fine
<1>5. Fine(u)
  BY <1>3, <1>4, UpdateOk
<1> HIDE DEF u
<1>6. PICK jp : Freed(v, i) = [u EXCEPT !.ip = jp]
  BY <1>2
<1>7. Fine([u EXCEPT !.ip = jp])
  BY <1>5, IpOk DEF Fine
<1>8. Fine(Freed(v, i))
  BY <1>6, <1>7
<1>9. Fine(Unref(v, i)) /\ Fine(Unref(Freed(v, i), i))
  BY <1>8, UnrefOk
<1> QED BY <1>9 DEF Put

(* iget                                                                    *)
LEMMA IgetOk ==
  ASSUME NEW v, NEW i, Fine(v)
  PROVE  Fine(Iget(v, i))
<1>1. CASE Halted(v)
  BY <1>1 DEF Iget
<1>2. CASE ~Halted(v)
  <2>1. PICK ip : Iget(v, i) = [v EXCEPT !.ip = ip]
    <3>1. CASE v.ip[i].ref > 0
      BY <1>2, <3>1 DEF Iget
    <3>2. CASE ~ (v.ip[i].ref > 0)
      BY <1>2, <3>2 DEF Iget
    <3> QED BY <3>1, <3>2
  <2>2. Fine([v EXCEPT !.ip = ip])
    BY IpOk DEF Fine
  <2> QED BY <2>1, <2>2
<1> QED BY <1>1, <1>2

-----------------------------------------------------------------------------
(* Inode.read and Inode.write.                                             *)

(* One turn of Inode.read's loop.                                          *)
LEMMA ReadNextOk ==
  ASSUME NEW t, NEW i, Fine(t.w)
  PROVE  Fine(ReadNext(t, i).w)
<1> DEFINE m == Bmap(t.w, i, t.off \div BSize)
           r == Bread(m.w, m.b)
           u == [w |-> r, off |-> t.off, n |-> t.n, words |-> t.words]
<1>1. CASE t.n = 0 \/ Halted(t.w)
  BY <1>1 DEF ReadNext
<1>2. CASE ~ (t.n = 0 \/ Halted(t.w))
  <2>1. Fine(m.w)
    BY BmapOk
  <2>2. ReadNext(t, i) = ReadBlock(t, m)
    BY <1>2 DEF ReadNext
  <2> HIDE DEF m
  <2>3. CASE m.b = 0
    BY <2>1, <2>2, <2>3 DEF ReadBlock
  <2>4. CASE m.b # 0
    <3>1. Ok(r, Id(m.b), Nobody)
      BY <2>1, BreadOk DEF Fine
    <3>2. ReadNext(t, i) = FromBlock(u, m.b)
      BY <2>2, <2>4 DEF ReadBlock
    <3>3. u.w = r
      OBVIOUS
    <3> HIDE DEF r, u
    <3>4. FromBlock(u, m.b).w = IF Halted(r) THEN r ELSE Brelease(r, m.b)
      BY <3>3 DEF FromBlock
    <3>5. Fine(Brelease(r, m.b)) /\ (Halted(r) => Fine(r))
      BY <3>1, BreleaseOk, HaltedOk DEF Fine
    <3> QED BY <3>2, <3>4, <3>5
  <2> QED BY <2>3, <2>4
<1> QED BY <1>1, <1>2

(* One turn of Inode.write's loop.                                         *)
LEMMA WriteNextOk ==
  ASSUME NEW t, NEW i, Fine(t.w)
  PROVE  Fine(WriteNext(t, i).w)
<1> DEFINE m == Bmap(t.w, i, t.off \div BSize)
           r == Bread(m.w, m.b)
           u == [w |-> r, off |-> t.off, tot |-> t.tot, words |-> t.words]
<1>1. CASE t.words = <<>> \/ Halted(t.w)
  BY <1>1 DEF WriteNext
<1>2. CASE ~ (t.words = <<>> \/ Halted(t.w))
  <2>1. Fine(m.w)
    BY BmapOk
  <2>2. WriteNext(t, i) = WriteBlock(t, m)
    BY <1>2 DEF WriteNext
  <2> HIDE DEF m
  <2>3. CASE m.b = 0
    BY <2>1, <2>2, <2>3 DEF WriteBlock
  <2>4. CASE m.b # 0
    <3>1. Ok(r, Id(m.b), Nobody)
      BY <2>1, BreadOk DEF Fine
    <3>2. WriteNext(t, i) = IntoBlock(u, m.b)
      BY <2>2, <2>4 DEF WriteBlock
    <3>3. u.w = r
      OBVIOUS
    <3> HIDE DEF r, u
    <3>4. PICK data : IntoBlock(u, m.b).w = IF Halted(r) THEN r
                                            ELSE Brelease(SetData(r, m.b, data), m.b)
      BY <3>3 DEF IntoBlock
    <3>5. Ok(SetData(r, m.b, data), Id(m.b), Nobody)
      BY <3>1, SetDataOk
    <3>6. Fine(Brelease(SetData(r, m.b, data), m.b)) /\ (Halted(r) => Fine(r))
      BY <3>1, <3>5, BreleaseOk, HaltedOk DEF Fine
    <3> QED BY <3>2, <3>4, <3>6
  <2> QED BY <2>3, <2>4
<1> QED BY <1>1, <1>2

(* f holds the turns of the loop of Inode.read.                           *)
ReadTurns(f, t, i, n) ==
  /\ f[0] = t
  /\ \A k \in 0 .. (n - 1) : f[k + 1] = ReadNext(f[k], i)

(* The loop of Inode.read, turn by turn.  *)
LEMMA ReadOnTurns ==
  ASSUME NEW t, NEW i, NEW n \in Nat
  PROVE  \E f : ReadOn(t, i, n) = f[n] /\ ReadTurns(f, t, i, n)
<1> DEFINE After(u, k) == ReadNext(u, i)
           Is(g, m) == g = [k \in 0 .. m |-> IF k = 0 THEN t ELSE After(g[k - 1], k)]
           D == {m \in Nat : \E g : Is(g, m)}
           f == CHOOSE g : Is(g, n)
<1>1. ReadOn(t, i, n) = f[n]
  BY DEF ReadOn, After
<1>2. \A u : \A k \in 0 .. (n - 1) : After(u, k + 1) = ReadNext(u, i)
  OBVIOUS
<1> HIDE DEF After
<1>3. 0 \in D
  <2> DEFINE g == [k \in 0 .. 0 |-> t]
  <2>1. Is(g, 0)
    OBVIOUS
  <2> QED BY <2>1
<1>4. ASSUME NEW m \in D PROVE m + 1 \in D
  <2>1. PICK g : Is(g, m)
    BY <1>4
  <2> DEFINE h == [k \in 0 .. (m + 1) |-> IF k = m + 1 THEN After(g[m], k) ELSE g[k]]
  <2>2. ASSUME NEW k \in 0 .. (m + 1)
        PROVE  h[k] = IF k = 0 THEN t ELSE After(h[k - 1], k)
    <3>1. CASE k = m + 1
      BY <3>1
    <3>2. CASE k # m + 1
      <4>1. k \in 0 .. m /\ h[k] = g[k]
        BY <3>2
      <4>2. g[k] = IF k = 0 THEN t ELSE After(g[k - 1], k)
        BY <2>1, <4>1
      <4>3. k # 0 => h[k - 1] = g[k - 1]
        BY <4>1
      <4> QED BY <4>1, <4>2, <4>3
    <3> QED BY <3>1, <3>2
  <2>3. Is(h, m + 1)
    BY <2>2
  <2> HIDE DEF h
  <2> QED BY <2>3
<1>5. D = Nat
  <2> HIDE DEF D
  <2>1. D \in SUBSET Nat
    BY DEF D
  <2> QED BY <1>3, <1>4, <2>1, Closed
<1>6. Is(f, n)
  <2>1. \E g : Is(g, n)
    BY <1>5
  <2> HIDE DEF Is
  <2> QED BY <2>1
<1> HIDE DEF f
<1>7. f[0] = t
  BY <1>6
<1>8. ASSUME NEW k \in 0 .. (n - 1) PROVE f[k + 1] = After(f[k], k + 1)
  <2>1. k + 1 \in 0 .. n /\ k + 1 # 0 /\ (k + 1) - 1 = k
    OBVIOUS
  <2>2. f[k + 1] = IF k + 1 = 0 THEN t ELSE After(f[(k + 1) - 1], k + 1)
    BY <1>6, <2>1
  <2> QED BY <2>1, <2>2
<1>9. \A k \in 0 .. (n - 1) : f[k + 1] = ReadNext(f[k], i)
  BY <1>2, <1>8
<1> QED BY <1>1, <1>7, <1>9 DEF ReadTurns

(* The loop of Inode.read: no turn keeps a buffer.                         *)
LEMMA ReadOnOk ==
  ASSUME NEW t, NEW i, NEW n \in Nat, Fine(t.w)
  PROVE  Fine(ReadOn(t, i, n).w)
<1>0. PICK f : ReadOn(t, i, n) = f[n] /\ ReadTurns(f, t, i, n)
  BY ReadOnTurns
<1>1. /\ ReadOn(t, i, n) = f[n] /\ f[0] = t
      /\ \A k \in 0 .. (n - 1) : f[k + 1] = ReadNext(f[k], i)
  BY <1>0 DEF ReadTurns
<1> DEFINE E == {k \in Nat : Fine(f[k].w)}
<1>2. 0 \in E
  BY <1>1
<1>3. ASSUME NEW k \in 0 .. (n - 1), k \in E PROVE k + 1 \in E
  <2>1. Fine(f[k].w) /\ f[k + 1] = ReadNext(f[k], i) /\ k + 1 \in Nat
    BY <1>1, <1>3
  <2>2. Fine(f[k + 1].w)
    BY <2>1, ReadNextOk
  <2> QED BY <2>1, <2>2
<1> HIDE DEF E
<1>4. n \in E
  BY <1>2, <1>3, Reached
<1> QED BY <1>1, <1>4 DEF E

(* Inode.read                                                              *)
LEMMA ReadInodeOk ==
  ASSUME NEW v, NEW i, NEW off, NEW n \in Nat, Fine(v)
  PROVE  Fine(ReadInode(v, i, off, n).w)
<1>1. PICK m : ReadInode(v, i, off, n)
                 = ReadOn([w |-> v, off |-> off, words |-> <<>>, n |-> m], i, n)
  BY DEF ReadInode
<1> DEFINE t == [w |-> v, off |-> off, words |-> <<>>, n |-> m]
<1>2. Fine(t.w)
  OBVIOUS
<1> HIDE DEF t
<1>3. Fine(ReadOn(t, i, n).w)
  BY <1>2, ReadOnOk
<1> QED BY <1>1, <1>3 DEF t

(* f holds the turns of the loop of Inode.write.                           *)
WriteTurns(f, t, i, n) ==
  /\ f[0] = t
  /\ \A k \in 0 .. (n - 1) : f[k + 1] = WriteNext(f[k], i)

(* The loop of Inode.write, turn by turn.  *)
LEMMA WriteOnTurns ==
  ASSUME NEW t, NEW i, NEW n \in Nat
  PROVE  \E f : WriteOn(t, i, n) = f[n] /\ WriteTurns(f, t, i, n)
<1> DEFINE After(u, k) == WriteNext(u, i)
           Is(g, m) == g = [k \in 0 .. m |-> IF k = 0 THEN t ELSE After(g[k - 1], k)]
           D == {m \in Nat : \E g : Is(g, m)}
           f == CHOOSE g : Is(g, n)
<1>1. WriteOn(t, i, n) = f[n]
  BY DEF WriteOn, After
<1>2. \A u : \A k \in 0 .. (n - 1) : After(u, k + 1) = WriteNext(u, i)
  OBVIOUS
<1> HIDE DEF After
<1>3. 0 \in D
  <2> DEFINE g == [k \in 0 .. 0 |-> t]
  <2>1. Is(g, 0)
    OBVIOUS
  <2> QED BY <2>1
<1>4. ASSUME NEW m \in D PROVE m + 1 \in D
  <2>1. PICK g : Is(g, m)
    BY <1>4
  <2> DEFINE h == [k \in 0 .. (m + 1) |-> IF k = m + 1 THEN After(g[m], k) ELSE g[k]]
  <2>2. ASSUME NEW k \in 0 .. (m + 1)
        PROVE  h[k] = IF k = 0 THEN t ELSE After(h[k - 1], k)
    <3>1. CASE k = m + 1
      BY <3>1
    <3>2. CASE k # m + 1
      <4>1. k \in 0 .. m /\ h[k] = g[k]
        BY <3>2
      <4>2. g[k] = IF k = 0 THEN t ELSE After(g[k - 1], k)
        BY <2>1, <4>1
      <4>3. k # 0 => h[k - 1] = g[k - 1]
        BY <4>1
      <4> QED BY <4>1, <4>2, <4>3
    <3> QED BY <3>1, <3>2
  <2>3. Is(h, m + 1)
    BY <2>2
  <2> HIDE DEF h
  <2> QED BY <2>3
<1>5. D = Nat
  <2> HIDE DEF D
  <2>1. D \in SUBSET Nat
    BY DEF D
  <2> QED BY <1>3, <1>4, <2>1, Closed
<1>6. Is(f, n)
  <2>1. \E g : Is(g, n)
    BY <1>5
  <2> HIDE DEF Is
  <2> QED BY <2>1
<1> HIDE DEF f
<1>7. f[0] = t
  BY <1>6
<1>8. ASSUME NEW k \in 0 .. (n - 1) PROVE f[k + 1] = After(f[k], k + 1)
  <2>1. k + 1 \in 0 .. n /\ k + 1 # 0 /\ (k + 1) - 1 = k
    OBVIOUS
  <2>2. f[k + 1] = IF k + 1 = 0 THEN t ELSE After(f[(k + 1) - 1], k + 1)
    BY <1>6, <2>1
  <2> QED BY <2>1, <2>2
<1>9. \A k \in 0 .. (n - 1) : f[k + 1] = WriteNext(f[k], i)
  BY <1>2, <1>8
<1> QED BY <1>1, <1>7, <1>9 DEF WriteTurns

(* The loop of Inode.write: no turn keeps a buffer, the one that finds no  *)
(* free block neither.                                                     *)
LEMMA WriteOnOk ==
  ASSUME NEW t, NEW i, NEW n \in Nat, Fine(t.w)
  PROVE  Fine(WriteOn(t, i, n).w)
<1>0. PICK f : WriteOn(t, i, n) = f[n] /\ WriteTurns(f, t, i, n)
  BY WriteOnTurns
<1>1. /\ WriteOn(t, i, n) = f[n] /\ f[0] = t
      /\ \A k \in 0 .. (n - 1) : f[k + 1] = WriteNext(f[k], i)
  BY <1>0 DEF WriteTurns
<1> DEFINE E == {k \in Nat : Fine(f[k].w)}
<1>2. 0 \in E
  BY <1>1
<1>3. ASSUME NEW k \in 0 .. (n - 1), k \in E PROVE k + 1 \in E
  <2>1. Fine(f[k].w) /\ f[k + 1] = WriteNext(f[k], i) /\ k + 1 \in Nat
    BY <1>1, <1>3
  <2>2. Fine(f[k + 1].w)
    BY <2>1, WriteNextOk
  <2> QED BY <2>1, <2>2
<1> HIDE DEF E
<1>4. n \in E
  BY <1>2, <1>3, Reached
<1> QED BY <1>1, <1>4 DEF E

(* Inode.write                                                             *)
LEMMA WriteInodeOk ==
  ASSUME NEW v, NEW i, NEW off, NEW words, Len(words) \in Nat, Fine(v)
  PROVE  Fine(WriteInode(v, i, off, words).w)
<1> DEFINE t == [w |-> v, off |-> off, tot |-> 0, words |-> words]
           end == WriteOn(t, i, Len(words))
<1>1. CASE off > v.ip[i].din.size \/ off + Len(words) > MaxFile * BSize
  BY <1>1 DEF WriteInode
<1>2. CASE ~ (off > v.ip[i].din.size \/ off + Len(words) > MaxFile * BSize)
  <2>1. WriteInode(v, i, off, words) = Grown(end, i)
    BY <1>2 DEF WriteInode
  <2>2. Fine(t.w)
    OBVIOUS
  <2> HIDE DEF t
  <2>3. Fine(end.w)
    BY <2>2, WriteOnOk
  <2> HIDE DEF end
  <2>4. PICK size : Grown(end, i).w = Update([end.w EXCEPT !.ip[i].din.size = size], i)
    BY DEF Grown, SetSize
  <2>5. PICK ip : [end.w EXCEPT !.ip[i].din.size = size] = [end.w EXCEPT !.ip = ip]
    OBVIOUS
  <2>6. Fine([end.w EXCEPT !.ip = ip])
    BY <2>3, IpOk DEF Fine
  <2>7. Fine([end.w EXCEPT !.ip[i].din.size = size])
    BY <2>5, <2>6
  <2>8. Fine(Update([end.w EXCEPT !.ip[i].din.size = size], i))
    <3> DEFINE z == [end.w EXCEPT !.ip[i].din.size = size]
    <3>1. Fine(z)
      BY <2>7
    <3> HIDE DEF z
    <3>2. Fine(Update(z, i))
      BY <3>1, UpdateOk
    <3> QED BY <3>2 DEF z
  <2> QED BY <2>1, <2>4, <2>8
<1> QED BY <1>1, <1>2

-----------------------------------------------------------------------------
(* Directories and inode allocation.                                       *)

(* A search starts in the world it is called in.                           *)
LEMMA StartOk ==
  ASSUME NEW v, Fine(v)
  PROVE  Fine(Start(v).w)
BY DEF Start

(* One entry read.                                                         *)
LEMMA NextEntryOk ==
  ASSUME NEW s, Fine(s.w)
  PROVE  Fine(NextEntry(s).w)
<1> DEFINE t == ReadInode(s.w, Root, s.off, 1)
<1>1. Fine(t.w)
  BY ReadInodeOk
<1>2. NextEntry(s) = EntryOf(t)
  BY DEF NextEntry
<1> HIDE DEF t
<1>3. EntryOf(t).w = IF t.words = <<>> THEN Stop(t.w, "read") ELSE t.w
  BY DEF EntryOf
<1>4. Fine(Stop(t.w, "read"))
  BY <1>1, StopOk DEF Fine, NoPanic
<1> QED BY <1>1, <1>2, <1>3, <1>4

(* One turn of the loops of lookup and link.                               *)
LEMMA SearchNextOk ==
  ASSUME NEW s, NEW name, Fine(s.w)
  PROVE  Fine(LookupNext(s, name).w) /\ Fine(FreeNext(s).w)
BY NextEntryOk DEF LookupNext, FreeNext

(* The loop of Inode.lookup, turn by turn.  *)
LEMMA LookupOnTurns ==
  ASSUME NEW v, NEW name
  PROVE  \E f : /\ LookupOn(v, name) = f[MaxEntries] /\ f[0] = Start(v)
               /\ \A k \in 0 .. (MaxEntries - 1) : f[k + 1] = LookupNext(f[k], name)
<1> DEFINE After(u, k) == LookupNext(u, name)
           Is(g, m) == g = [k \in 0 .. m |-> IF k = 0 THEN Start(v) ELSE After(g[k - 1], k)]
           D == {m \in Nat : \E g : Is(g, m)}
           f == CHOOSE g : Is(g, MaxEntries)
<1>1. LookupOn(v, name) = f[MaxEntries]
  BY DEF LookupOn, After
<1>2. \A u : \A k \in 0 .. (MaxEntries - 1) : After(u, k + 1) = LookupNext(u, name)
  BY SizesNat
<1> HIDE DEF After
<1>3. 0 \in D
  <2> DEFINE g == [k \in 0 .. 0 |-> Start(v)]
  <2>1. Is(g, 0)
    OBVIOUS
  <2> QED BY <2>1
<1>4. ASSUME NEW m \in D PROVE m + 1 \in D
  <2>1. PICK g : Is(g, m)
    BY <1>4
  <2> DEFINE h == [k \in 0 .. (m + 1) |-> IF k = m + 1 THEN After(g[m], k) ELSE g[k]]
  <2>2. ASSUME NEW k \in 0 .. (m + 1)
        PROVE  h[k] = IF k = 0 THEN Start(v) ELSE After(h[k - 1], k)
    <3>1. CASE k = m + 1
      BY <3>1
    <3>2. CASE k # m + 1
      <4>1. k \in 0 .. m /\ h[k] = g[k]
        BY <3>2
      <4>2. g[k] = IF k = 0 THEN Start(v) ELSE After(g[k - 1], k)
        BY <2>1, <4>1
      <4>3. k # 0 => h[k - 1] = g[k - 1]
        BY <4>1
      <4> QED BY <4>1, <4>2, <4>3
    <3> QED BY <3>1, <3>2
  <2>3. Is(h, m + 1)
    BY <2>2
  <2> HIDE DEF h
  <2> QED BY <2>3
<1>5. D = Nat
  <2> HIDE DEF D
  <2>1. D \in SUBSET Nat
    BY DEF D
  <2> QED BY <1>3, <1>4, <2>1, Closed
<1>6. Is(f, MaxEntries)
  <2>1. \E g : Is(g, MaxEntries)
    BY <1>5, SizesNat
  <2> HIDE DEF Is
  <2> QED BY <2>1
<1> HIDE DEF f
<1>7. f[0] = Start(v)
  BY <1>6, SizesNat
<1>8. ASSUME NEW k \in 0 .. (MaxEntries - 1) PROVE f[k + 1] = After(f[k], k + 1)
  <2>1. k + 1 \in 0 .. MaxEntries /\ k + 1 # 0 /\ (k + 1) - 1 = k
    BY SizesNat
  <2>2. f[k + 1] = IF k + 1 = 0 THEN Start(v) ELSE After(f[(k + 1) - 1], k + 1)
    BY <1>6, <2>1
  <2> QED BY <2>1, <2>2
<1>9. \A k \in 0 .. (MaxEntries - 1) : f[k + 1] = LookupNext(f[k], name)
  BY <1>2, <1>8
<1> QED BY <1>1, <1>7, <1>9

(* The loop of Inode.lookup.                                               *)
LEMMA LookupOnOk ==
  ASSUME NEW v, NEW name, Fine(v)
  PROVE  Fine(LookupOn(v, name).w)
<1>1. PICK f : /\ LookupOn(v, name) = f[MaxEntries] /\ f[0] = Start(v)
               /\ \A k \in 0 .. (MaxEntries - 1) : f[k + 1] = LookupNext(f[k], name)
  BY LookupOnTurns
<1> DEFINE E == {k \in Nat : Fine(f[k].w)}
<1>2. 0 \in E
  BY StartOk, <1>1
<1>3. ASSUME NEW k \in 0 .. (MaxEntries - 1), k \in E PROVE k + 1 \in E
  <2>1. Fine(f[k].w) /\ f[k + 1] = LookupNext(f[k], name) /\ k + 1 \in Nat
    BY <1>1, <1>3
  <2>2. Fine(f[k + 1].w)
    BY <2>1, SearchNextOk
  <2> QED BY <2>1, <2>2
<1> HIDE DEF E
<1>4. MaxEntries \in E
  BY <1>2, <1>3, Reached, SizesNat
<1> QED BY <1>1, <1>4 DEF E

(* The loop of Inode.link's search, turn by turn.  *)
LEMMA FreeEntryOnTurns ==
  ASSUME NEW v
  PROVE  \E f : /\ FreeEntryOn(v) = f[MaxEntries] /\ f[0] = Start(v)
               /\ \A k \in 0 .. (MaxEntries - 1) : f[k + 1] = FreeNext(f[k])
<1> DEFINE After(u, k) == FreeNext(u)
           Is(g, m) == g = [k \in 0 .. m |-> IF k = 0 THEN Start(v) ELSE After(g[k - 1], k)]
           D == {m \in Nat : \E g : Is(g, m)}
           f == CHOOSE g : Is(g, MaxEntries)
<1>1. FreeEntryOn(v) = f[MaxEntries]
  BY DEF FreeEntryOn, After
<1>2. \A u : \A k \in 0 .. (MaxEntries - 1) : After(u, k + 1) = FreeNext(u)
  BY SizesNat
<1> HIDE DEF After
<1>3. 0 \in D
  <2> DEFINE g == [k \in 0 .. 0 |-> Start(v)]
  <2>1. Is(g, 0)
    OBVIOUS
  <2> QED BY <2>1
<1>4. ASSUME NEW m \in D PROVE m + 1 \in D
  <2>1. PICK g : Is(g, m)
    BY <1>4
  <2> DEFINE h == [k \in 0 .. (m + 1) |-> IF k = m + 1 THEN After(g[m], k) ELSE g[k]]
  <2>2. ASSUME NEW k \in 0 .. (m + 1)
        PROVE  h[k] = IF k = 0 THEN Start(v) ELSE After(h[k - 1], k)
    <3>1. CASE k = m + 1
      BY <3>1
    <3>2. CASE k # m + 1
      <4>1. k \in 0 .. m /\ h[k] = g[k]
        BY <3>2
      <4>2. g[k] = IF k = 0 THEN Start(v) ELSE After(g[k - 1], k)
        BY <2>1, <4>1
      <4>3. k # 0 => h[k - 1] = g[k - 1]
        BY <4>1
      <4> QED BY <4>1, <4>2, <4>3
    <3> QED BY <3>1, <3>2
  <2>3. Is(h, m + 1)
    BY <2>2
  <2> HIDE DEF h
  <2> QED BY <2>3
<1>5. D = Nat
  <2> HIDE DEF D
  <2>1. D \in SUBSET Nat
    BY DEF D
  <2> QED BY <1>3, <1>4, <2>1, Closed
<1>6. Is(f, MaxEntries)
  <2>1. \E g : Is(g, MaxEntries)
    BY <1>5, SizesNat
  <2> HIDE DEF Is
  <2> QED BY <2>1
<1> HIDE DEF f
<1>7. f[0] = Start(v)
  BY <1>6, SizesNat
<1>8. ASSUME NEW k \in 0 .. (MaxEntries - 1) PROVE f[k + 1] = After(f[k], k + 1)
  <2>1. k + 1 \in 0 .. MaxEntries /\ k + 1 # 0 /\ (k + 1) - 1 = k
    BY SizesNat
  <2>2. f[k + 1] = IF k + 1 = 0 THEN Start(v) ELSE After(f[(k + 1) - 1], k + 1)
    BY <1>6, <2>1
  <2> QED BY <2>1, <2>2
<1>9. \A k \in 0 .. (MaxEntries - 1) : f[k + 1] = FreeNext(f[k])
  BY <1>2, <1>8
<1> QED BY <1>1, <1>7, <1>9

(* The loop of Inode.link.                                                 *)
LEMMA FreeEntryOnOk ==
  ASSUME NEW v, Fine(v)
  PROVE  Fine(FreeEntryOn(v).w)
<1>1. PICK f : /\ FreeEntryOn(v) = f[MaxEntries] /\ f[0] = Start(v)
               /\ \A k \in 0 .. (MaxEntries - 1) : f[k + 1] = FreeNext(f[k])
  BY FreeEntryOnTurns
<1> DEFINE E == {k \in Nat : Fine(f[k].w)}
<1>2. 0 \in E
  BY StartOk, <1>1
<1>3. ASSUME NEW k \in 0 .. (MaxEntries - 1), k \in E PROVE k + 1 \in E
  <2>1. Fine(f[k].w) /\ f[k + 1] = FreeNext(f[k]) /\ k + 1 \in Nat
    BY <1>1, <1>3
  <2>2. Fine(f[k + 1].w)
    BY <2>1, SearchNextOk
  <2> QED BY <2>1, <2>2
<1> HIDE DEF E
<1>4. MaxEntries \in E
  BY <1>2, <1>3, Reached, SizesNat
<1> QED BY <1>1, <1>4 DEF E

(* Inode.lookup                                                            *)
LEMMA LookupOk ==
  ASSUME NEW v, NEW name, Fine(v)
  PROVE  Fine(Lookup(v, name).w)
<1> DEFINE s == LookupOn(v, name)
<1>1. Fine(s.w)
  BY LookupOnOk
<1> HIDE DEF s
<1>2. Result(s, name).w = s.w
  BY DEF Result
<1> QED BY <1>1, <1>2 DEF Lookup, s

(* Inode.link                                                              *)
LEMMA LinkOk ==
  ASSUME NEW v, NEW name, NEW inum, Fine(v)
  PROVE  Fine(Link(v, name, inum).w)
<1> DEFINE u == Lookup(v, name).w
           s == FreeEntryOn(u)
           p == Place(s)
<1>1. Fine(u)
  BY LookupOk
<1> HIDE DEF u
<1>2. Fine(s.w)
  BY <1>1, FreeEntryOnOk
<1> HIDE DEF s
<1>3. Fine(p.w)
  BY <1>2 DEF Place
<1>4. Link(v, name, inum) = SetLink(p, inum)
  BY DEF Link, s, u
<1> HIDE DEF p
<1>5. PICK word : SetLink(p, inum) = WriteInode(p.w, Root, p.off, <<word>>)
  BY DEF SetLink
<1>6. Len(<<word>>) \in Nat
  OBVIOUS
<1>7. Fine(WriteInode(p.w, Root, p.off, <<word>>).w)
  BY <1>3, <1>6, WriteInodeOk
<1> QED BY <1>4, <1>5, <1>7

(* One turn of ialloc's loop.                                              *)
LEMMA IallocNextOk ==
  ASSUME NEW s, NEW i, Fine(s.w)
  PROVE  Fine(IallocNext(s, i).w)
<1> DEFINE b == IBlock(i)
           r == Bread(s.w, b)
           new == [Data(r, b) EXCEPT ![i % IPB] = [FreeInode EXCEPT !.type = "file"]]
           z == Brelease(SetData(r, b, new), b)
<1>1. CASE s.inum # 0
  BY <1>1 DEF IallocNext
<1>2. CASE s.inum = 0
  <2>1. Ok(r, Id(b), Nobody)
    BY BreadOk DEF Fine
  <2>2. IallocNext(s, i) = IallocIn(r, i)
    BY <1>2 DEF IallocNext
  <2>3. IallocIn(r, i).w = IF Halted(r) THEN r
                           ELSE IF Data(r, b)[i % IPB].type = "free" THEN Iget(z, i)
                           ELSE Brelease(r, b)
    BY DEF IallocIn
  <2> HIDE DEF r, b, new
  <2>4. Fine(z)
    BY <2>1, SetDataOk, BreleaseOk DEF Fine
  <2> HIDE DEF z
  <2>5. Fine(Iget(z, i)) /\ Fine(Brelease(r, b)) /\ (Halted(r) => Fine(r))
    BY <2>1, <2>4, IgetOk, BreleaseOk, HaltedOk DEF Fine
  <2> QED BY <2>2, <2>3, <2>5
<1> QED BY <1>1, <1>2

(* A search for a free inode starts in the world it is called in.          *)
LEMMA NoInodeOk ==
  ASSUME NEW v, Fine(v)
  PROVE  Fine([w |-> v, inum |-> 0].w)
OBVIOUS

(* The loop of ialloc, turn by turn.  *)
LEMMA InodeAllocTurns ==
  ASSUME NEW v
  PROVE  \E f : /\ InodeAlloc(v) = f[NInodes - 1] /\ f[0] = [w |-> v, inum |-> 0]
               /\ \A k \in 0 .. (NInodes - 1 - 1) : f[k + 1] = IallocNext(f[k], k + 1)
<1> DEFINE After(u, k) == IallocNext(u, k)
           Is(g, m) == g = [k \in 0 .. m |-> IF k = 0 THEN [w |-> v, inum |-> 0] ELSE After(g[k - 1], k)]
           D == {m \in Nat : \E g : Is(g, m)}
           f == CHOOSE g : Is(g, NInodes - 1)
<1>1. InodeAlloc(v) = f[NInodes - 1]
  BY DEF InodeAlloc, After
<1>2. \A u : \A k \in 0 .. (NInodes - 1 - 1) : After(u, k + 1) = IallocNext(u, k + 1)
  BY SizesNat
<1> HIDE DEF After
<1>3. 0 \in D
  <2> DEFINE g == [k \in 0 .. 0 |-> [w |-> v, inum |-> 0]]
  <2>1. Is(g, 0)
    OBVIOUS
  <2> QED BY <2>1
<1>4. ASSUME NEW m \in D PROVE m + 1 \in D
  <2>1. PICK g : Is(g, m)
    BY <1>4
  <2> DEFINE h == [k \in 0 .. (m + 1) |-> IF k = m + 1 THEN After(g[m], k) ELSE g[k]]
  <2>2. ASSUME NEW k \in 0 .. (m + 1)
        PROVE  h[k] = IF k = 0 THEN [w |-> v, inum |-> 0] ELSE After(h[k - 1], k)
    <3>1. CASE k = m + 1
      BY <3>1
    <3>2. CASE k # m + 1
      <4>1. k \in 0 .. m /\ h[k] = g[k]
        BY <3>2
      <4>2. g[k] = IF k = 0 THEN [w |-> v, inum |-> 0] ELSE After(g[k - 1], k)
        BY <2>1, <4>1
      <4>3. k # 0 => h[k - 1] = g[k - 1]
        BY <4>1
      <4> QED BY <4>1, <4>2, <4>3
    <3> QED BY <3>1, <3>2
  <2>3. Is(h, m + 1)
    BY <2>2
  <2> HIDE DEF h
  <2> QED BY <2>3
<1>5. D = Nat
  <2> HIDE DEF D
  <2>1. D \in SUBSET Nat
    BY DEF D
  <2> QED BY <1>3, <1>4, <2>1, Closed
<1>6. Is(f, NInodes - 1)
  <2>1. \E g : Is(g, NInodes - 1)
    BY <1>5, SizesNat
  <2> HIDE DEF Is
  <2> QED BY <2>1
<1> HIDE DEF f
<1>7. f[0] = [w |-> v, inum |-> 0]
  BY <1>6, SizesNat
<1>8. ASSUME NEW k \in 0 .. (NInodes - 1 - 1) PROVE f[k + 1] = After(f[k], k + 1)
  <2>1. k + 1 \in 0 .. (NInodes - 1) /\ k + 1 # 0 /\ (k + 1) - 1 = k
    BY SizesNat
  <2>2. f[k + 1] = IF k + 1 = 0 THEN [w |-> v, inum |-> 0] ELSE After(f[(k + 1) - 1], k + 1)
    BY <1>6, <2>1
  <2> QED BY <2>1, <2>2
<1>9. \A k \in 0 .. (NInodes - 1 - 1) : f[k + 1] = IallocNext(f[k], k + 1)
  BY <1>2, <1>8
<1> QED BY <1>1, <1>7, <1>9

(* ialloc                                                                  *)
LEMMA InodeAllocOk ==
  ASSUME NEW v, Fine(v)
  PROVE  Fine(InodeAlloc(v).w)
<1>1. PICK f : /\ InodeAlloc(v) = f[NInodes - 1] /\ f[0] = [w |-> v, inum |-> 0]
               /\ \A k \in 0 .. (NInodes - 1 - 1) : f[k + 1] = IallocNext(f[k], k + 1)
  BY InodeAllocTurns
<1> DEFINE E == {k \in Nat : Fine(f[k].w)}
<1>2. 0 \in E
  BY NoInodeOk, <1>1
<1>3. ASSUME NEW k \in 0 .. (NInodes - 1 - 1), k \in E PROVE k + 1 \in E
  <2>1. Fine(f[k].w) /\ f[k + 1] = IallocNext(f[k], k + 1) /\ k + 1 \in Nat
    BY <1>1, <1>3
  <2>2. Fine(f[k + 1].w)
    BY <2>1, IallocNextOk
  <2> QED BY <2>1, <2>2
<1> HIDE DEF E
<1>4. NInodes - 1 \in E
  BY <1>2, <1>3, Reached, SizesNat
<1> QED BY <1>1, <1>4 DEF E

-----------------------------------------------------------------------------
(* System calls, and the theorem.                                          *)

IInv == Fine(w)

(* The root is got and locked.                                             *)
LEMMA RootLockedOk ==
  ASSUME NEW v, Fine(v)
  PROVE  Fine(RootLocked(v))
BY IgetOk, LockOk DEF RootLocked

(* create writes the number of links.                                      *)
LEMMA SetNlinkOk ==
  ASSUME NEW v, NEW i, NEW n, Fine(v)
  PROVE  Fine(SetNlink(v, i, n))
<1> DEFINE z == [v EXCEPT !.ip[i].din.nlink = n]
<1>1. PICK ip : z = [v EXCEPT !.ip = ip]
  OBVIOUS
<1>2. Fine([v EXCEPT !.ip = ip])
  BY IpOk DEF Fine
<1>3. SetNlink(v, i, n) = Update(z, i)
  BY DEF SetNlink
<1> HIDE DEF z
<1>4. Fine(z)
  BY <1>1, <1>2
<1> QED BY <1>3, <1>4, UpdateOk

(* The end of sys_open.                                                    *)
LEMMA OpenedOk ==
  ASSUME NEW v, NEW i, NEW trunc, Fine(v)
  PROVE  Fine(Opened(v, i, trunc))
BY TruncOk DEF Opened

(* A file that was found is opened.                                        *)
LEMMA OpenFoundOk ==
  ASSUME NEW s, NEW trunc, Fine(s.w), OpenFound(s, trunc)
  PROVE  Fine(w')
<1> DEFINE i == s.de[1]
           u == Lock(Put(Iget(s.w, i), Root), i)
<1>1. w' = Opened(u, i, trunc)
  BY DEF OpenFound
<1> HIDE DEF i
<1>2. Fine(u)
  BY IgetOk, PutOk, LockOk
<1> HIDE DEF u
<1>3. Fine(Opened(u, i, trunc))
  BY <1>2, OpenedOk
<1> QED BY <1>1, <1>3

(* The failing and the succeeding end of create.                           *)
LEMMA CreateNewOk ==
  ASSUME NEW new, NEW name, NEW trunc, Fine(new.w), CreateNew(new, name, trunc)
  PROVE  Fine(w')
<1> DEFINE i == new.inum
           v == SetNlink(Lock(new.w, i), i, 1)
           linked == Link(v, name, i)
<1>1. \/ w' = Opened(Put(linked.w, Root), i, trunc)
      \/ w' = Put(Undone(linked.w, i), Root)
  BY DEF CreateNew
<1> HIDE DEF i
<1>2. Fine(v)
  BY LockOk, SetNlinkOk
<1> HIDE DEF v
<1>3. Fine(linked.w)
  BY <1>2, LinkOk
<1> HIDE DEF linked
<1>4. Fine(Opened(Put(linked.w, Root), i, trunc))
  BY <1>3, PutOk, OpenedOk
<1>5. Fine(Put(SetNlink(linked.w, i, 0), i))
  BY <1>3, SetNlinkOk, PutOk
<1>6. Fine(Undone(linked.w, i))
  BY <1>3, <1>5 DEF Undone
<1>7. Fine(Put(Undone(linked.w, i), Root))
  BY <1>6, PutOk
<1> QED BY <1>1, <1>4, <1>7

(* Every buffer is released after mounting.                                *)
LEMMA InitOk ==
  ASSUME Init
  PROVE  IInv
<1> DEFINE NoBuf == [dev |-> 0, bno |-> 0, valid |-> FALSE, refcnt |-> 0, data |-> ZeroBlock]
<1>1. PICK disk, ip : w = Mounted([bufs |-> [k \in 1 .. NBuf |-> NoBuf], disk |-> disk,
                                   panic |-> NoPanic, lost |-> FALSE, ip |-> ip])
  BY DEF Init
<1> DEFINE v == [bufs |-> [k \in 1 .. NBuf |-> NoBuf], disk |-> disk,
                 panic |-> NoPanic, lost |-> FALSE, ip |-> ip]
<1>2. World(v) /\ v.panic # "buffers"
  BY DEF World, NoPanic
<1>3. \A k \in 1 .. NBuf : v.bufs[k] = NoBuf
  OBVIOUS
<1>4. IsBuffer(NoBuf) /\ NoBuf.dev # RootDev /\ NoBuf.refcnt = 0
  BY DEF IsBuffer, RootDev
<1>5. v.bufs = [k \in 1 .. NBuf |-> v.bufs[k]]
  OBVIOUS
<1>6. \A b : Nobody # Id(b)
  BY IdsDiffer
<1> HIDE DEF v, NoBuf
<1>7. Cached(v.bufs, Nobody, Nobody)
  BY <1>3, <1>4, <1>5, <1>6 DEF Cached, Of
<1>8. Ok(v, Nobody, Nobody)
  BY <1>2, <1>7 DEF Ok
<1>9. Fine(Mounted(v))
  BY <1>8, BreadOk, BreleaseOk DEF Mounted, Fine
<1> QED BY <1>1, <1>9 DEF IInv, v, NoBuf

(* Every call gives back the buffers it got.                               *)
LEMMA StepOk ==
  ASSUME IInv, [Next]_vars
  PROVE  IInv'
<1>1. ASSUME NEW name \in Names, NEW trunc \in BOOLEAN, Open(name, trunc) PROVE IInv'
  <2> DEFINE s == Namei(w, name)
  <2>1. OpenFound(s, trunc) \/ w' = Put(s.w, Root)
    BY <1>1 DEF Open
  <2>2. Fine(s.w)
    BY RootLockedOk, LookupOk DEF Namei, IInv
  <2> HIDE DEF s
  <2>3. CASE OpenFound(s, trunc)
    BY <2>2, <2>3, OpenFoundOk DEF IInv
  <2>4. CASE w' = Put(s.w, Root)
    BY <2>2, <2>4, PutOk DEF IInv
  <2> QED BY <2>1, <2>3, <2>4
<1>2. ASSUME NEW name \in Names, NEW trunc \in BOOLEAN, Create(name, trunc) PROVE IInv'
  <2> DEFINE s == Lookup(RootLocked(w), name)
             new == InodeAlloc(s.w)
  <2>1. OpenFound(s, trunc) \/ w' = Put(new.w, Root) \/ CreateNew(new, name, trunc)
    BY <1>2 DEF Create
  <2>2. Fine(s.w)
    BY RootLockedOk, LookupOk DEF IInv
  <2> HIDE DEF s
  <2>3. Fine(new.w)
    BY <2>2, InodeAllocOk
  <2> HIDE DEF new
  <2>4. CASE OpenFound(s, trunc)
    BY <2>2, <2>4, OpenFoundOk DEF IInv
  <2>5. CASE w' = Put(new.w, Root)
    BY <2>3, <2>5, PutOk DEF IInv
  <2>6. CASE CreateNew(new, name, trunc)
    BY <2>3, <2>6, CreateNewOk DEF IInv
  <2> QED BY <2>1, <2>4, <2>5, <2>6
<1>3. ASSUME NEW i \in Files, Close(i) PROVE IInv'
  BY <1>3, PutOk DEF Close, IInv
<1>4. ASSUME NEW i \in Files, NEW off, NEW n \in 1 .. MaxCount, Read(i, off, n) PROVE IInv'
  <2> DEFINE v == Lock(w, i)
  <2>1. w' = ReadInode(v, i, off, n).w
    BY <1>4 DEF Read
  <2>2. Fine(v)
    BY LockOk DEF IInv
  <2> HIDE DEF v
  <2>3. n \in Nat
    BY FsAssumption
  <2>4. Fine(ReadInode(v, i, off, n).w)
    BY <2>2, <2>3, ReadInodeOk
  <2> QED BY <2>1, <2>4 DEF IInv
<1>5. ASSUME NEW i \in Files, NEW off, NEW n \in 1 .. MaxCount, Write(i, off, n) PROVE IInv'
  <2> DEFINE v == Lock(w, i)
             words == [k \in 1 .. n |-> Word]
  <2>1. w' = WriteInode(v, i, off, words).w
    BY <1>5 DEF Write
  <2>2. Fine(v)
    BY LockOk DEF IInv
  <2>3. Len(words) \in Nat
    <3>1. words \in Seq({Word})
      BY FsAssumption
    <3> QED BY <3>1
  <2> HIDE DEF v, words
  <2>4. Fine(WriteInode(v, i, off, words).w)
    BY <2>2, <2>3, WriteInodeOk
  <2> QED BY <2>1, <2>4 DEF IInv
<1>6. CASE UNCHANGED vars
  BY <1>6 DEF IInv, vars
<1> QED BY <1>1, <1>2, <1>3, <1>4, <1>5, <1>6 DEF Next

(* On every path through a call, failures included, what bread got         *)
(* brelease gives back: no call ends with a buffer in use, no block is in  *)
(* two buffers, and bget finds a buffer.                                   *)
THEOREM BuffersStayReleased == Spec => []BuffersReleased
<1>1. Init => IInv
  BY InitOk
<1>2. IInv /\ [Next]_vars => IInv'
  BY StepOk
<1>3. IInv => BuffersReleased
  <2> SUFFICES ASSUME IInv PROVE BuffersReleased
    OBVIOUS
  <2>1. w.panic # "buffers" /\ (~Halted(w) => Cached(w.bufs, Nobody, Nobody))
    BY DEF IInv, Fine, Ok
  <2>2. ASSUME ~Halted(w), NEW k \in 1 .. NBuf, NEW l \in 1 .. NBuf
        PROVE  /\ w.bufs[k].refcnt = 0
               /\ k # l /\ w.bufs[k].dev = RootDev /\ w.bufs[l].dev = RootDev =>
                    w.bufs[k].bno # w.bufs[l].bno
    BY <2>1, <2>2, RefsAre DEF Cached, Of
  <2> QED BY <2>1, <2>2 DEF BuffersReleased
<1> QED BY <1>1, <1>2, <1>3, PTL DEF Spec

-----------------------------------------------------------------------------
(* What the buffers and the RAM disk show together: the disk as a caller  *)
(* sees it, and what each operation of the buffer cache does to it.       *)

Blocks == 0 .. (FSSize - 1)

(* Nothing was lost and no assertion has failed.                           *)
Live(v) == ~Halted(v) /\ ~v.lost

(* Buffers hold blocks of the image, and those in use are filled.          *)
Typed(u) == u.dev \in {0, RootDev} /\ u.bno \in Blocks /\ u.valid \in BOOLEAN
Loaded(bufs) ==
  \A k \in 1 .. NBuf :
    /\ Typed(bufs[k])
    /\ bufs[k].dev = RootDev /\ bufs[k].refcnt > 0 => bufs[k].valid

LoadedBut(bufs, b) ==
  \A k \in 1 .. NBuf :
    /\ Typed(bufs[k])
    /\ bufs[k].dev = RootDev /\ bufs[k].refcnt > 0 /\ bufs[k].bno # b => bufs[k].valid

(* The assertion that may fail is the one that finds nothing to read.      *)
Calm(v) == v.lost \in BOOLEAN /\ (~v.lost => v.panic \in {NoPanic, "read"})
Have(v, x, y) == Ok(v, x, y) /\ Calm(v) /\ (Live(v) => Loaded(v.bufs))

(* A step from v to u that fails no assertion.                             *)
Quiet(v, u) == u.lost \in BOOLEAN /\ (~u.lost => ~v.lost /\ u.panic = v.panic)

(* The disk as a reader of blocks sees it.                                 *)
Disk(v) == [b \in Blocks |-> Now(v, b)]

-----------------------------------------------------------------------------
(* What a reader gets depends on the caches having one buffer of a block.  *)
Single(v) ==
  /\ v.bufs = [k \in 1 .. NBuf |-> v.bufs[k]]
  /\ \A k, l \in 1 .. NBuf : v.bufs[k].dev = RootDev /\ Of(v.bufs[l], v.bufs[k].bno) => k = l
Filling(v, b) == {k \in 1 .. NBuf : Of(v.bufs[k], b) /\ v.bufs[k].valid}
Alike(v, u, b) ==
  /\ u.disk = v.disk
  /\ \A k \in Filling(v, b) : \E l \in Filling(u, b) : u.bufs[l].data = v.bufs[k].data
  /\ Filling(v, b) = {} => Filling(u, b) = {}

(* The cache is one, whoever holds buffers.                                *)
LEMMA CachedSingle ==
  ASSUME NEW v, NEW x, NEW y, Cached(v.bufs, x, y)
  PROVE  Single(v)
BY DEF Cached, Single

(* A reader of a block gets the data of its buffer, if that is filled.     *)
LEMMA NowFilled ==
  ASSUME NEW v, NEW b, NEW k \in Filling(v, b), Single(v)
  PROVE  Now(v, b) = v.bufs[k].data
<1> DEFINE filled == {j \in At(v, b) : v.bufs[j].valid}
<1>1. filled = Filling(v, b)
  BY DEF At, Of, Single, Filling
<1>2. Now(v, b) = IF filled # {} THEN v.bufs[Min(filled)].data ELSE v.disk[b]
  BY DEF Now
<1>3. \A j \in filled : j = k
  BY <1>1 DEF Single, Of, Filling
<1>4. filled \in SUBSET Nat /\ filled # {}
  BY <1>1, FsAssumption DEF Filling
<1> HIDE DEF filled
<1>5. Min(filled) \in filled
  BY <1>4, MinIsLeast
<1> QED BY <1>2, <1>3, <1>4, <1>5

(* ... and what is on the disk otherwise.                                  *)
LEMMA NowOnDisk ==
  ASSUME NEW v, NEW b, Filling(v, b) = {}, Single(v)
  PROVE  Now(v, b) = v.disk[b]
<1>1. {j \in At(v, b) : v.bufs[j].valid} = {}
  BY DEF At, Of, Single, Filling
<1> QED BY <1>1 DEF Now

(* Two caches with the same filled buffers of a block show the same block. *)
LEMMA NowSame ==
  ASSUME NEW v, NEW u, NEW b, Single(v), Single(u), Alike(v, u, b)
  PROVE  Now(u, b) = Now(v, b)
<1>1. CASE Filling(v, b) = {}
  <2>1. Now(v, b) = v.disk[b]
    BY <1>1, NowOnDisk
  <2>2. Now(u, b) = u.disk[b]
    BY <1>1, NowOnDisk DEF Alike
  <2> QED BY <2>1, <2>2 DEF Alike
<1>2. CASE Filling(v, b) # {}
  <2>1. PICK k \in Filling(v, b) : TRUE
    BY <1>2
  <2>2. PICK l \in Filling(u, b) : u.bufs[l].data = v.bufs[k].data
    BY <2>1 DEF Alike
  <2>3. Now(v, b) = v.bufs[k].data
    BY <2>1, NowFilled
  <2>4. Now(u, b) = u.bufs[l].data
    BY <2>2, NowFilled
  <2> QED BY <2>2, <2>3, <2>4
<1> QED BY <1>1, <1>2

(* A world u shows what v showed.                                          *)
Shows(v, u) == Live(v) /\ u.ip = v.ip /\ u.disk = v.disk /\ \A b : Now(u, b) = Now(v, b)

(* bget shows every reader what was there before, unless it lost it.       *)
LEMMA BgetShows ==
  ASSUME NEW v, NEW x, NEW b, Have(v, x, Nobody),
         Live(v) => b \in Blocks
  PROVE  /\ Quiet(v, Bget(v, b))
         /\ Live(Bget(v, b)) => Shows(v, Bget(v, b)) /\ LoadedBut(Bget(v, b).bufs, b)
<1>0. Ok(v, x, Nobody) /\ v.lost \in BOOLEAN /\ (Live(v) => Loaded(v.bufs))
  BY DEF Have, Calm
<1>1. CASE Halted(v)
  BY <1>0, <1>1 DEF Bget, Live, Quiet
<1>2. CASE ~Halted(v) /\ At(v, b) # {}
  <2> DEFINE k == Min(At(v, b))
             buf == [v.bufs[k] EXCEPT !.refcnt = @ + 1]
             u == WithBuf(v, k, buf)
  <2>1. Cached(v.bufs, x, Nobody) /\ World(v)
    BY <1>0, <1>2 DEF Ok
  <2>2. k \in 1 .. NBuf /\ Of(v.bufs[k], b)
    BY <1>2, <2>1, Found
  <2>3. IsBuffer(v.bufs[k])
    BY <2>1, <2>2 DEF Cached, Of
  <2>4. Bget(v, b) = u
    BY <1>2 DEF Bget, Shared
  <2>5. Ok(Bget(v, b), Id(b), x)
    BY <1>0, BgetOk
  <2> HIDE DEF k
  <2>6. buf.dev = v.bufs[k].dev /\ buf.bno = b /\ buf.valid = v.bufs[k].valid /\ buf.data = v.bufs[k].data
    BY <2>2, <2>3 DEF IsBuffer, Of
  <2> HIDE DEF buf
  <2>7. u.ip = v.ip /\ u.disk = v.disk /\ u.lost = v.lost /\ u.panic = v.panic
        /\ u.bufs = [v.bufs EXCEPT ![k] = buf]
    BY <2>1 DEF World, WithBuf
  <2> HIDE DEF u
  <2>8. u.bufs[k] = buf /\ \A j \in 1 .. NBuf : j # k => u.bufs[j] = v.bufs[j]
    BY <2>1, <2>2, <2>7 DEF Cached
  <2>9. \A j \in 1 .. NBuf : /\ u.bufs[j].dev = v.bufs[j].dev /\ u.bufs[j].bno = v.bufs[j].bno
                             /\ u.bufs[j].valid = v.bufs[j].valid /\ u.bufs[j].data = v.bufs[j].data
                             /\ u.bufs[j].bno # b => u.bufs[j] = v.bufs[j]
    BY <2>2, <2>6, <2>8 DEF Of
  <2>10. Cached(u.bufs, Id(b), x)
    BY <1>2, <2>4, <2>5, <2>7 DEF Ok, Halted
  <2>11. \A c : Now(u, c) = Now(v, c)
    <3> TAKE c
    <3>1. Filling(u, c) = Filling(v, c)
      BY <2>9 DEF Filling, Of
    <3>2. \A j \in Filling(v, c) : u.bufs[j].data = v.bufs[j].data
      BY <2>9 DEF Filling
    <3>3. Alike(v, u, c)
      BY <2>7, <3>1, <3>2 DEF Alike
    <3>4. Single(v) /\ Single(u)
      BY <2>1, <2>10, CachedSingle
    <3> QED BY <3>3, <3>4, NowSame
  <2>12. Live(u) <=> Live(v)
    BY <2>7 DEF Live, Halted
  <2>13. Live(v) => LoadedBut(u.bufs, b)
    BY <1>0, <2>9 DEF Loaded, LoadedBut, Typed
  <2>14. Live(u) => Shows(v, u) /\ LoadedBut(u.bufs, b)
    BY <2>7, <2>11, <2>12, <2>13 DEF Shows
  <2>15. Quiet(v, u)
    BY <1>0, <2>7 DEF Quiet
  <2> QED BY <2>4, <2>14, <2>15
<1>3. CASE ~Halted(v) /\ At(v, b) = {}
  <2> DEFINE k == Max(Idle(v))
             old == v.bufs[k]
             buf == Buffer(b, FALSE, 1, old.data)
             gone == v.lost \/ (old.valid /\ old.data # v.disk[old.bno])
             u == [WithBuf(v, k, buf) EXCEPT !.lost = gone]
  <2>1. Cached(v.bufs, x, Nobody) /\ World(v)
    BY <1>0, <1>3 DEF Ok
  <2>2. DOMAIN v.bufs = 1 .. NBuf /\ Idle(v) # {}
    BY <2>1, OneIsIdle DEF Cached
  <2>3. k \in 1 .. NBuf
    <3>1. Idle(v) \in SUBSET (1 .. NBuf)
      BY <2>2 DEF Idle
    <3>2. k \in Idle(v)
      BY <2>2, <3>1, GreatestPosition
    <3> QED BY <2>2, <3>2 DEF Idle
  <2>4. \A j \in 1 .. NBuf : ~ Of(v.bufs[j], b)
    BY <1>3, <2>2 DEF At, Of
  <2>5. Bget(v, b) = Recycled(v, k, b)
    BY <1>3, <2>2 DEF Bget
  <2> HIDE DEF k
  <2>6. /\ WithBuf(v, k, buf).ip = v.ip /\ WithBuf(v, k, buf).disk = v.disk
        /\ WithBuf(v, k, buf).lost = v.lost /\ WithBuf(v, k, buf).panic = v.panic
        /\ World(WithBuf(v, k, buf)) /\ WithBuf(v, k, buf).bufs = [v.bufs EXCEPT ![k] = buf]
    <3> HIDE DEF buf
    <3> QED BY <2>1 DEF World, WithBuf
  <2>7. Bget(v, b) = u
    <3>1. Recycled(v, k, b) = [WithBuf(v, k, buf) EXCEPT
                                 !.lost = WithBuf(v, k, buf).lost \/ (old.valid /\ old.data # v.disk[old.bno])]
      BY DEF Recycled
    <3> QED BY <2>5, <2>6, <3>1
  <2>8. Ok(Bget(v, b), Id(b), x)
    BY <1>0, BgetOk
  <2>9. buf.dev = RootDev /\ buf.bno = b /\ buf.valid = FALSE
    BY DEF Buffer
  <2> HIDE DEF buf, gone
  <2>10. u.ip = v.ip /\ u.disk = v.disk /\ u.lost = gone /\ u.panic = v.panic
         /\ u.bufs = [v.bufs EXCEPT ![k] = buf]
    BY <2>6 DEF World
  <2> HIDE DEF u
  <2>11. u.bufs[k] = buf /\ \A j \in 1 .. NBuf : j # k => u.bufs[j] = v.bufs[j]
    BY <2>1, <2>3, <2>10 DEF Cached
  <2>12. Cached(u.bufs, Id(b), x)
    BY <1>3, <2>7, <2>8, <2>10 DEF Ok, Halted
  <2>13. gone \in BOOLEAN
    BY <1>0 DEF gone
  <2>14. Live(u) => Live(v) /\ (old.valid => old.data = v.disk[old.bno])
    BY <2>10 DEF Live, Halted, gone
  <2>15. ASSUME Live(u), NEW c PROVE Now(u, c) = Now(v, c)
    <3>1. CASE Of(old, c) /\ old.valid
      <4>1. Now(v, c) = v.disk[c]
        <5>1. k \in Filling(v, c) /\ old.bno = c
          BY <2>3, <3>1 DEF Filling, Of
        <5>2. Single(v)
          BY <2>1, CachedSingle
        <5>3. Now(v, c) = v.bufs[k].data
          BY <5>1, <5>2, NowFilled
        <5> QED BY <2>14, <2>15, <3>1, <5>1, <5>3
      <4>2. Filling(u, c) = {}
        BY <2>1, <2>3, <2>9, <2>11, <3>1 DEF Cached, Of, Filling
      <4>3. Now(u, c) = u.disk[c]
        <5>1. Single(u)
          BY <2>12, CachedSingle
        <5> QED BY <4>2, <5>1, NowOnDisk
      <4> QED BY <2>10, <4>1, <4>3
    <3>2. CASE ~ (Of(old, c) /\ old.valid)
      <4>1. Filling(u, c) = Filling(v, c)
        BY <2>9, <2>11, <3>2 DEF Filling
      <4>2. \A j \in Filling(v, c) : u.bufs[j].data = v.bufs[j].data
        BY <2>11, <3>2 DEF Filling
      <4>3. Alike(v, u, c)
        BY <2>10, <4>1, <4>2 DEF Alike
      <4>4. Single(v) /\ Single(u)
        BY <2>1, <2>12, CachedSingle
      <4> QED BY <4>3, <4>4, NowSame
    <3> QED BY <3>1, <3>2
  <2>16. ASSUME Live(u) PROVE LoadedBut(u.bufs, b)
    <3> SUFFICES ASSUME NEW j \in 1 .. NBuf
                 PROVE  /\ Typed(u.bufs[j])
                        /\ u.bufs[j].dev = RootDev /\ u.bufs[j].refcnt > 0 /\ u.bufs[j].bno # b =>
                             u.bufs[j].valid
      BY DEF LoadedBut
    <3>1. Loaded(v.bufs)
      BY <1>0, <2>14, <2>16
    <3>2. CASE j = k
      BY <2>9, <2>11, <2>14, <2>16, <3>2 DEF Typed
    <3>3. CASE j # k
      BY <2>11, <3>1, <3>3 DEF Loaded
    <3> QED BY <3>2, <3>3
  <2>17. Live(u) => Shows(v, u)
    BY <2>10, <2>14, <2>15 DEF Shows
  <2>18. Quiet(v, u)
    BY <2>10, <2>13 DEF Quiet, gone
  <2> QED BY <2>7, <2>16, <2>17, <2>18
<1> QED BY <1>1, <1>2, <1>3

(* bread shows what was there before, and fills its buffer.                *)
LEMMA BreadShows ==
  ASSUME NEW v, NEW x, NEW b, Have(v, x, Nobody),
         Live(v) => b \in Blocks
  PROVE  /\ Have(Bread(v, b), Id(b), x)
         /\ Live(Bread(v, b)) => Shows(v, Bread(v, b))
<1> DEFINE r == Bget(v, b)
<1>0. Ok(v, x, Nobody)
  BY DEF Have
<1>1. Ok(r, Id(b), x) /\ Ok(Bread(v, b), Id(b), x)
  BY <1>0, BgetOk, BreadOk
<1>2. Quiet(v, r) /\ (Live(r) => Shows(v, r) /\ LoadedBut(r.bufs, b))
  BY BgetShows
<1>2a. Calm(r)
  BY <1>2 DEF Have, Calm, Quiet
<1>3. Bread(v, b) = Filled(r, b)
  BY DEF Bread
<1> HIDE DEF r
<1> DEFINE k == Min(At(r, b))
<1>4. CASE Halted(r)
  <2>1. Bread(v, b) = r
    BY <1>3, <1>4 DEF Filled
  <2> QED BY <1>1, <1>2a, <1>4, <2>1 DEF Have, Live
<1>5. CASE ~Halted(r)
  <2>1. Cached(r.bufs, Id(b), x) /\ World(r)
    BY <1>1, <1>5 DEF Ok
  <2>2. k \in 1 .. NBuf /\ Of(r.bufs[k], b)
    BY <2>1, HeldIsThere, Found
  <2>3. \A j \in 1 .. NBuf : Of(r.bufs[j], b) => j = k
    BY <2>1, HeldIsThere, Found
  <2>4. CASE r.bufs[k].valid
    <3>1. Bread(v, b) = r
      BY <1>3, <2>4 DEF Filled
    <3>2. Live(r) => Loaded(r.bufs)
      BY <1>2, <2>3, <2>4 DEF Loaded, LoadedBut, Of
    <3> QED BY <1>1, <1>2, <1>2a, <3>1, <3>2 DEF Have
  <2>5. CASE ~r.bufs[k].valid
    <3> DEFINE buf == Buffer(b, TRUE, r.bufs[k].refcnt, r.disk[b])
               u == WithBuf(r, k, buf)
    <3>1. Bread(v, b) = u
      BY <1>3, <1>5, <2>5 DEF Filled
    <3>2. buf.dev = RootDev /\ buf.bno = b /\ buf.valid = TRUE /\ buf.data = r.disk[b]
      BY DEF Buffer
    <3> HIDE DEF k, buf
    <3>3. u.ip = r.ip /\ u.disk = r.disk /\ u.lost = r.lost /\ u.panic = r.panic
          /\ u.bufs = [r.bufs EXCEPT ![k] = buf]
      BY <2>1 DEF World, WithBuf
    <3> HIDE DEF u
    <3>4. u.bufs[k] = buf /\ \A j \in 1 .. NBuf : j # k => u.bufs[j] = r.bufs[j]
      BY <2>1, <2>2, <3>3 DEF Cached
    <3>5. Cached(u.bufs, Id(b), x)
      BY <1>1, <1>5, <3>1, <3>3 DEF Ok, Halted
    <3>6. Single(r) /\ Single(u)
      BY <2>1, <3>5, CachedSingle
    <3>7. ASSUME NEW c PROVE Now(u, c) = Now(r, c)
      <4>1. CASE c = b
        <5>1. Filling(r, c) = {}
          BY <2>3, <2>5, <4>1 DEF Filling
        <5>2. Now(r, c) = r.disk[b]
          BY <3>6, <4>1, <5>1, NowOnDisk
        <5>3. k \in Filling(u, c)
          BY <2>2, <3>2, <3>4, <4>1 DEF Filling, Of
        <5>4. Now(u, c) = u.bufs[k].data
          BY <3>6, <5>3, NowFilled
        <5> QED BY <3>2, <3>4, <5>2, <5>4
      <4>2. CASE c # b
        <5>1. Filling(u, c) = Filling(r, c) /\ k \notin Filling(r, c)
          BY <2>2, <3>2, <3>4, <4>2 DEF Filling, Of
        <5>2. Alike(r, u, c)
          BY <3>3, <3>4, <5>1 DEF Alike, Filling
        <5> QED BY <3>6, <5>2, NowSame
      <4> QED BY <4>1, <4>2
    <3>8. Live(u) <=> Live(r)
      BY <3>3 DEF Live, Halted
    <3>9. Live(u) => Shows(v, u)
      BY <1>2, <3>3, <3>7, <3>8 DEF Shows
    <3>10. Live(u) => Loaded(u.bufs)
      <4> SUFFICES ASSUME Live(u), NEW j \in 1 .. NBuf
                   PROVE  Typed(u.bufs[j]) /\ (u.bufs[j].dev = RootDev /\ u.bufs[j].refcnt > 0 => u.bufs[j].valid)
        BY DEF Loaded
      <4>1. LoadedBut(r.bufs, b)
        BY <1>2, <3>8
      <4>2. b \in Blocks
        BY <1>2, <3>8 DEF Shows
      <4>3. CASE j = k
        BY <3>2, <3>4, <4>2, <4>3 DEF Typed
      <4>4. CASE j # k
        BY <2>3, <3>4, <4>1, <4>4 DEF LoadedBut, Of
      <4> QED BY <4>3, <4>4
    <3>11. Have(u, Id(b), x)
      BY <1>1, <1>2a, <3>1, <3>3, <3>10 DEF Have, Calm
    <3> QED BY <3>1, <3>9, <3>11
  <2> QED BY <2>4, <2>5
<1> QED BY <1>4, <1>5

(* Whoever holds a buffer is counted.                                      *)
LEMMA HolderCounts ==
  ASSUME NEW x, NEW b
  PROVE  Refs(Id(b), x, b) > 0
<1>1. Refs(x, Nobody, b) \in Nat
  BY RefsAre
<1>2. Refs(Id(b), x, b) = Refs(x, Nobody, b) + 1
  BY RefsAre
<1> QED BY <1>1, <1>2

(* The data of a buffer that is held are what readers get.                 *)
LEMMA DataIs ==
  ASSUME NEW v, NEW x, NEW b \in Blocks, Have(v, Id(b), x), Live(v)
  PROVE  Data(v, b) = Now(v, b)
<1> DEFINE k == Min(At(v, b))
<1>1. Cached(v.bufs, Id(b), x) /\ Loaded(v.bufs)
  BY DEF Have, Ok, Live
<1>2. k \in 1 .. NBuf /\ Of(v.bufs[k], b)
  BY <1>1, HeldIsThere, Found
<1> HIDE DEF k
<1>3. v.bufs[k].refcnt = Refs(Id(b), x, b)
  BY <1>1, <1>2 DEF Cached, Of
<1>4. v.bufs[k].refcnt > 0
  BY <1>3, HolderCounts
<1>5. k \in Filling(v, b)
  BY <1>1, <1>2, <1>4 DEF Filling, Loaded, Of
<1>6. Single(v)
  BY <1>1, CachedSingle
<1>7. Now(v, b) = v.bufs[k].data
  BY <1>5, <1>6, NowFilled
<1> QED BY <1>7 DEF Data, k

(* What readers get after a buffer that is held has got new data.          *)
Gets(v, u, b, data) ==
  Live(v) /\ u.ip = v.ip /\ \A c : Now(u, c) = IF c = b THEN data ELSE Now(v, c)

(* Storing into a buffer that is held changes what its block shows, and   *)
(* nothing else.                                                          *)
LEMMA SetDataShows ==
  ASSUME NEW v, NEW x, NEW b, NEW data, Have(v, Id(b), x)
  PROVE  /\ Have(SetData(v, b, data), Id(b), x)
         /\ Live(SetData(v, b, data)) => Gets(v, SetData(v, b, data), b, data)
<1>0. Ok(v, Id(b), x) /\ Calm(v) /\ (Live(v) => Loaded(v.bufs))
  BY DEF Have
<1> DEFINE k == Min(At(v, b))
           buf == [v.bufs[k] EXCEPT !.data = data]
           u == WithBuf(v, k, buf)
<1>1. CASE Halted(v)
  BY <1>1 DEF SetData, Live
<1>2. CASE ~Halted(v)
  <2>1. Cached(v.bufs, Id(b), x) /\ World(v)
    BY <1>0, <1>2 DEF Ok
  <2>2. k \in 1 .. NBuf /\ Of(v.bufs[k], b)
    BY <2>1, HeldIsThere, Found
  <2>3. SetData(v, b, data) = u
    BY <1>2 DEF SetData
  <2>4. Ok(u, Id(b), x)
    BY <1>0, <2>3, SetDataOk
  <2> HIDE DEF k
  <2>5. v.bufs[k].refcnt = Refs(Id(b), x, b) /\ IsBuffer(v.bufs[k])
    BY <2>1, <2>2 DEF Cached, Of
  <2>6. buf.dev = RootDev /\ buf.bno = b /\ buf.refcnt = v.bufs[k].refcnt
        /\ buf.valid = v.bufs[k].valid /\ buf.data = data
    BY <2>2, <2>5 DEF IsBuffer, Of
  <2> HIDE DEF buf
  <2>7. u.ip = v.ip /\ u.disk = v.disk /\ u.lost = v.lost /\ u.panic = v.panic
        /\ u.bufs = [v.bufs EXCEPT ![k] = buf]
    BY <2>1 DEF World, WithBuf
  <2> HIDE DEF u
  <2>8. u.bufs[k] = buf /\ \A j \in 1 .. NBuf : j # k => u.bufs[j] = v.bufs[j]
    BY <2>1, <2>2, <2>7 DEF Cached
  <2>9. Live(u) <=> Live(v)
    BY <2>7 DEF Live, Halted
  <2>10. Live(v) => Loaded(u.bufs)
    <3> SUFFICES ASSUME Live(v), NEW j \in 1 .. NBuf
                 PROVE  Typed(u.bufs[j]) /\ (u.bufs[j].dev = RootDev /\ u.bufs[j].refcnt > 0 => u.bufs[j].valid)
      BY DEF Loaded
    <3>1. CASE j = k
      BY <1>0, <2>2, <2>6, <2>8, <3>1 DEF Loaded, Of, Typed
    <3>2. CASE j # k
      BY <1>0, <2>8, <3>2 DEF Loaded
    <3> QED BY <3>1, <3>2
  <2>11. Have(u, Id(b), x)
    BY <1>0, <2>4, <2>7, <2>9, <2>10 DEF Have, Calm
  <2>12. ASSUME Live(v), NEW c PROVE Now(u, c) = IF c = b THEN data ELSE Now(v, c)
    <3>1. Single(v) /\ Single(u)
      BY <1>2, <2>1, <2>4, <2>7, CachedSingle DEF Ok, Halted
    <3>2. CASE c = b
      <4>1. k \in Filling(u, c)
        <5>1. v.bufs[k].refcnt > 0
          BY <2>5, HolderCounts
        <5> QED BY <1>0, <2>2, <2>6, <2>8, <2>12, <3>2, <5>1 DEF Filling, Of, Loaded
      <4>2. Now(u, c) = u.bufs[k].data
        BY <3>1, <4>1, NowFilled
      <4> QED BY <2>6, <2>8, <3>2, <4>2
    <3>3. CASE c # b
      <4>1. Filling(u, c) = Filling(v, c) /\ k \notin Filling(v, c)
        BY <2>2, <2>6, <2>8, <3>3 DEF Filling, Of
      <4>2. Alike(v, u, c)
        BY <2>7, <2>8, <4>1 DEF Alike, Filling
      <4>3. Now(u, c) = Now(v, c)
        BY <3>1, <4>2, NowSame
      <4> QED BY <3>3, <4>3
    <3> QED BY <3>2, <3>3
  <2> QED BY <2>3, <2>7, <2>9, <2>11, <2>12 DEF Gets
<1> QED BY <1>1, <1>2

(* brelease changes nothing for readers.                                   *)
LEMMA BreleaseShows ==
  ASSUME NEW v, NEW x, NEW b, Have(v, Id(b), x)
  PROVE  /\ Have(Brelease(v, b), x, Nobody)
         /\ Live(Brelease(v, b)) => Shows(v, Brelease(v, b))
<1>0. Ok(v, Id(b), x) /\ Calm(v) /\ (Live(v) => Loaded(v.bufs))
  BY DEF Have
<1>1. Ok(Brelease(v, b), x, Nobody)
  BY <1>0, BreleaseOk
<1> DEFINE k == Min(At(v, b))
           buf == [v.bufs[k] EXCEPT !.refcnt = @ - 1]
           u == Brelease(v, b)
<1>2. CASE Halted(v)
  BY <1>0, <1>1, <1>2 DEF Brelease, Live, Have
<1>3. CASE ~Halted(v)
  <2>1. Cached(v.bufs, Id(b), x) /\ World(v)
    BY <1>0, <1>3 DEF Ok
  <2>2. k \in 1 .. NBuf /\ Of(v.bufs[k], b)
    BY <2>1, HeldIsThere, Found
  <2>3. u = IF buf.refcnt > 0 THEN WithBuf(v, k, buf) ELSE [v EXCEPT !.bufs = ToFront(v.bufs, k, buf)]
    BY <1>3 DEF Brelease
  <2> HIDE DEF k, u
  <2>4. v.bufs[k].refcnt = Refs(Id(b), x, b) /\ IsBuffer(v.bufs[k])
    BY <2>1, <2>2 DEF Cached, Of
  <2>5. v.bufs[k].refcnt > 0
    BY <2>4, HolderCounts
  <2>6. buf.dev = RootDev /\ buf.bno = b /\ buf.valid = v.bufs[k].valid /\ buf.data = v.bufs[k].data
    BY <2>2, <2>4 DEF IsBuffer, Of
  <2> HIDE DEF buf
  <2>7. u.ip = v.ip /\ u.disk = v.disk /\ u.lost = v.lost /\ u.panic = v.panic
    BY <2>1, <2>3 DEF World, WithBuf
  <2>8. u.bufs = IF buf.refcnt > 0 THEN [v.bufs EXCEPT ![k] = buf] ELSE ToFront(v.bufs, k, buf)
    BY <2>1, <2>3 DEF World, WithBuf
  <2> DEFINE from(j) == IF buf.refcnt > 0 THEN j ELSE IF j = 1 THEN k ELSE IF j <= k THEN j - 1 ELSE j
             to(j) == IF buf.refcnt > 0 THEN j ELSE IF j = k THEN 1 ELSE IF j < k THEN j + 1 ELSE j
             Old(j) == IF j = k THEN buf ELSE v.bufs[j]
  <2>9. NBuf \in Nat
    BY FsAssumption
  <2>10. \A j \in 1 .. NBuf : from(j) \in 1 .. NBuf /\ to(j) \in 1 .. NBuf /\ from(to(j)) = j
    BY <2>2, <2>9
  <2>11. \A j \in 1 .. NBuf : u.bufs[j] = Old(from(j))
    <3>1. DOMAIN v.bufs = 1 .. NBuf
      BY <2>1 DEF Cached
    <3>2. CASE buf.refcnt > 0
      BY <2>1, <2>2, <2>8, <3>2 DEF Cached
    <3>3. CASE ~ (buf.refcnt > 0)
      BY <2>2, <2>8, <2>9, <3>1, <3>3 DEF ToFront
    <3> QED BY <3>2, <3>3
  <2> HIDE DEF from, to
  <2>12. \A j \in 1 .. NBuf : /\ Old(j).dev = v.bufs[j].dev /\ Old(j).bno = v.bufs[j].bno
                              /\ Old(j).valid = v.bufs[j].valid /\ Old(j).data = v.bufs[j].data
    BY <2>2, <2>6 DEF Of
  <2>13. \A j \in 1 .. NBuf : v.bufs[j].refcnt = 0 \/ j = k \/ Old(j) = v.bufs[j]
    OBVIOUS
  <2> HIDE DEF Old
  <2>14. Live(u) <=> Live(v)
    BY <2>7 DEF Live, Halted
  <2>15. Live(v) => Loaded(u.bufs)
    <3> SUFFICES ASSUME Live(v), NEW j \in 1 .. NBuf
                 PROVE  Typed(u.bufs[j]) /\ (u.bufs[j].dev = RootDev /\ u.bufs[j].refcnt > 0 => u.bufs[j].valid)
      BY DEF Loaded
    <3>1. Loaded(v.bufs)
      BY <1>0
    <3>2. \A l \in 1 .. NBuf : Old(l).dev = RootDev /\ Old(l).refcnt > 0 => v.bufs[l].valid
      BY <2>2, <2>5, <3>1 DEF Loaded, Of, Old
    <3>3. from(j) \in 1 .. NBuf /\ u.bufs[j] = Old(from(j))
      BY <2>10, <2>11
    <3>4. Typed(v.bufs[from(j)])
      BY <3>1, <3>3 DEF Loaded
    <3> QED BY <2>12, <3>2, <3>3, <3>4 DEF Typed
  <2>16. Have(u, x, Nobody)
    BY <1>0, <1>1, <2>7, <2>14, <2>15 DEF Have, Calm, u
  <2>17. ASSUME NEW c PROVE Now(u, c) = Now(v, c)
    <3>1. Single(v) /\ Single(u)
      BY <1>1, <1>3, <2>1, <2>7, CachedSingle DEF Ok, Halted, u
    <3>2. \A j \in Filling(v, c) : to(j) \in Filling(u, c) /\ u.bufs[to(j)].data = v.bufs[j].data
      BY <2>10, <2>11, <2>12 DEF Filling, Of
    <3>3. \A j \in Filling(u, c) : from(j) \in Filling(v, c)
      BY <2>10, <2>11, <2>12 DEF Filling, Of
    <3>4. Alike(v, u, c)
      BY <2>7, <3>2, <3>3 DEF Alike
    <3> QED BY <3>1, <3>4, NowSame
  <2> QED BY <2>7, <2>14, <2>16, <2>17 DEF Shows, u
<1> QED BY <1>2, <1>3

-----------------------------------------------------------------------------
(* What the operations on single blocks do to the disk that readers see.   *)

Same(v, u) == Live(v) /\ u.ip = v.ip /\ Disk(u) = Disk(v)
Poked(v, u, b, data) == Live(v) /\ u.ip = v.ip /\ Disk(u) = [Disk(v) EXCEPT ![b] = data]

(* bread                                                                   *)
LEMMA BreadSame ==
  ASSUME NEW v, NEW x, NEW b, Have(v, x, Nobody),
         Live(v) => b \in Blocks
  PROVE  Have(Bread(v, b), Id(b), x) /\ (Live(Bread(v, b)) => Same(v, Bread(v, b)))
<1>1. Have(Bread(v, b), Id(b), x) /\ (Live(Bread(v, b)) => Shows(v, Bread(v, b)))
  BY BreadShows
<1>2. Shows(v, Bread(v, b)) => Same(v, Bread(v, b))
  BY DEF Shows, Same, Disk
<1> QED BY <1>1, <1>2

(* The data that was read.                                                 *)
LEMMA DataSame ==
  ASSUME NEW v, NEW x, NEW b \in Blocks, Have(v, Id(b), x), Live(v)
  PROVE  Data(v, b) = Disk(v)[b]
<1>1. Data(v, b) = Now(v, b)
  BY DataIs
<1> QED BY <1>1 DEF Disk

(* brelease                                                                *)
LEMMA BreleaseSame ==
  ASSUME NEW v, NEW x, NEW b, Have(v, Id(b), x)
  PROVE  Have(Brelease(v, b), x, Nobody) /\ (Live(Brelease(v, b)) => Same(v, Brelease(v, b)))
<1>1. Have(Brelease(v, b), x, Nobody) /\ (Live(Brelease(v, b)) => Shows(v, Brelease(v, b)))
  BY BreleaseShows
<1>2. Shows(v, Brelease(v, b)) => Same(v, Brelease(v, b))
  BY DEF Shows, Same, Disk
<1> QED BY <1>1, <1>2

(* A buffer that is held gets new data and is released.                    *)
LEMMA StoreSame ==
  ASSUME NEW v, NEW x, NEW b, NEW data, Have(v, Id(b), x)
  PROVE  /\ Have(Brelease(SetData(v, b, data), b), x, Nobody)
         /\ Live(Brelease(SetData(v, b, data), b)) =>
              Poked(v, Brelease(SetData(v, b, data), b), b, data)
<1> DEFINE s == SetData(v, b, data)
           u == Brelease(s, b)
<1>1. Have(s, Id(b), x) /\ (Live(s) => Gets(v, s, b, data))
  BY SetDataShows
<1>2. Live(s) => /\ Live(v) /\ s.ip = v.ip
                 /\ \A c : Now(s, c) = IF c = b THEN data ELSE Now(v, c)
  BY <1>1 DEF Gets
<1> HIDE DEF s
<1>3. Have(u, x, Nobody) /\ (Live(u) => Shows(s, u))
  BY <1>1, BreleaseShows
<1> HIDE DEF u
<1>4. ASSUME Live(u) PROVE Poked(v, u, b, data)
  <2>1. Shows(s, u) /\ Live(s)
    BY <1>3, <1>4 DEF Shows
  <2>2. \A c : Now(u, c) = IF c = b THEN data ELSE Now(v, c)
    BY <1>2, <2>1 DEF Shows
  <2>3. Disk(u) = [Disk(v) EXCEPT ![b] = data]
    BY <2>2 DEF Disk
  <2> QED BY <1>2, <2>1, <2>3 DEF Shows, Poked
<1> QED BY <1>3, <1>4 DEF s, u

(* bzero                                                                   *)
LEMMA BzeroSame ==
  ASSUME NEW v, NEW x, NEW b, Have(v, x, Nobody),
         Live(v) => b \in Blocks
  PROVE  Have(Bzero(v, b), x, Nobody) /\ (Live(Bzero(v, b)) => Poked(v, Bzero(v, b), b, ZeroBlock))
<1> DEFINE r == Bread(v, b)
           u == Brelease(SetData(r, b, ZeroBlock), b)
<1>1. Have(r, Id(b), x) /\ (Live(r) => Same(v, r))
  BY BreadSame
<1>2. Bzero(v, b) = u
  BY DEF Bzero
<1> HIDE DEF r
<1>3. Have(u, x, Nobody) /\ (Live(u) => Poked(r, u, b, ZeroBlock))
  BY <1>1, StoreSame
<1> QED BY <1>1, <1>2, <1>3 DEF Poked, Same

(* Where the parts of the image are.                                       *)
LEMMA Layout ==
  /\ BSize \in Nat \ {0} /\ NDirect \in Nat \ {0} /\ NIndirect = BSize /\ IPB \in Nat \ {0}
  /\ FSSize \in Nat \ {0} /\ NInodes \in Nat \ {0}
  /\ InodeStart \in Nat /\ InodeStart >= 2 /\ BmapStart \in Nat /\ InodeStart < BmapStart
  /\ NMeta = BmapStart + 1 /\ NMeta < FSSize /\ BmapStart \in Blocks /\ 1 \in Blocks
<1>1. /\ BSize \in Nat \ {0} /\ NDirect \in Nat \ {0} /\ IPB \in Nat \ {0}
      /\ FSSize \in Nat \ {0} /\ NInodes \in Nat \ {0} /\ LogSize \in Nat
      /\ FSSize > 2 + LogSize + (NInodes \div IPB + 1) + 1
  BY SizesAssumption
<1>2. NInodes \div IPB \in Nat
  BY <1>1, Division
<1> QED BY <1>1, <1>2 DEF InodeStart, BmapStart, NInodeBlocks, NMeta, Blocks, NIndirect

(* The root is an inode.                                                   *)
LEMMA RootIsInode ==
  Root \in Inums
BY SizesAssumption DEF Inums, Root

(* Inode blocks lie before the bitmap, and inodes have places of their own.*)
LEMMA InodePlace ==
  ASSUME NEW i \in Inums
  PROVE  /\ IBlock(i) \in InodeStart .. (BmapStart - 1)
         /\ IBlock(i) \in Blocks /\ IBlock(i) # BmapStart
         /\ i % IPB \in 0 .. (IPB - 1)
<1>1. i \in Nat /\ i <= NInodes
  BY Layout DEF Inums
<1>2. IPB \in Nat \ {0} /\ NInodes \in Nat
  BY Layout
<1>3. i \div IPB \in Nat /\ NInodes \div IPB \in Nat /\ i % IPB \in 0 .. (IPB - 1)
  BY <1>1, <1>2, Division
<1>4. i \div IPB <= NInodes \div IPB
  <2>1. /\ i = (i \div IPB) * IPB + (i % IPB) /\ i % IPB >= 0
        /\ NInodes = (NInodes \div IPB) * IPB + (NInodes % IPB) /\ NInodes % IPB < IPB
        /\ i % IPB \in Int /\ NInodes % IPB \in Int
    BY <1>1, <1>2, Division
  <2> SUFFICES ASSUME i \div IPB > NInodes \div IPB PROVE FALSE
    BY <1>3
  <2>2. (i \div IPB) * IPB >= (NInodes \div IPB) * IPB + IPB
    <3>1. i \div IPB >= NInodes \div IPB + 1
      BY <1>3
    <3> QED BY <1>2, <1>3, <3>1
  <2> QED BY <1>1, <1>2, <1>3, <2>1, <2>2
<1> QED BY <1>3, <1>4, Layout DEF IBlock, BmapStart, NInodeBlocks, Blocks

(* Two inodes are not at the same place of the disk (IBLOCK).             *)
LEMMA InodePlaces ==
  ASSUME NEW i \in Inums, NEW j \in Inums, IBlock(i) = IBlock(j), i % IPB = j % IPB
  PROVE  i = j
<1>1. i \in Nat /\ j \in Nat /\ IPB \in Nat \ {0} /\ InodeStart \in Nat
  BY Layout DEF Inums
<1>2. i \div IPB \in Nat /\ j \div IPB \in Nat
  BY <1>1, Division
<1>3. i \div IPB = j \div IPB
  BY <1>1, <1>2 DEF IBlock
<1>4. i = (i \div IPB) * IPB + (i % IPB) /\ j = (j \div IPB) * IPB + (j % IPB)
  BY <1>1, Division
<1> QED BY <1>3, <1>4

-----------------------------------------------------------------------------
(* The accounting of blocks: no two inodes share one, those in use are    *)
(* marked, a file is mapped up to its size, and an entry of the root      *)
(* names an inode in use.                                                 *)

(* The blocks that mkfs and balloc hand out, and what an address may be.   *)
DataBlocks == NMeta .. (FSSize - 1)
Links == {0} \cup DataBlocks
InodeSet == [type : {"free", "file", "dir"}, nlink : Nat, size : 0 .. (MaxFile * BSize),
             addrs : [0 .. NDirect -> Links]]

(* The inode on the disk d, and the inodes as a caller gets them: the copy *)
(* in memory of one that is in use.                                        *)
OnDisk(d, i) == d[IBlock(i)][i % IPB]
Used(c) == c.ref > 0 /\ c.valid
Table(ip, d) == [i \in Inums |-> IF Used(ip[i]) THEN ip[i].din ELSE OnDisk(d, i)]

(* Address k of inode i: the blocks of the file, and last the block of the *)
(* indirect addresses.                                                     *)
Addr(F, d, i, k) ==
  IF k < NDirect THEN F[i].addrs[k]
  ELSE IF k = MaxFile THEN F[i].addrs[NDirect]
  ELSE IF F[i].addrs[NDirect] = 0 THEN 0
  ELSE Address(d[F[i].addrs[NDirect]][k - NDirect])

Shaped(F, d) ==
  /\ F \in [Inums -> InodeSet]
  /\ \A i \in Inums : F[i].type = "free" => F[i].size = 0 /\ F[i].addrs = FreeInode.addrs
  /\ \A b \in DataBlocks : d[b] = [k \in 0 .. (BSize - 1) |-> d[b][k]]
IsLink(word) == word = Zero \/ (word[1] \in DataBlocks /\ word = <<word[1]>>)
Linked(F, d) ==
  \A i \in Inums : F[i].addrs[NDirect] # 0 =>
    \A k \in 0 .. (BSize - 1) : IsLink(d[F[i].addrs[NDirect]][k])
Unshared(F, d) ==
  \A i, j \in Inums : \A k, l \in 0 .. MaxFile :
    Addr(F, d, i, k) = Addr(F, d, j, l) /\ Addr(F, d, i, k) # 0 => i = j /\ k = l
Holds(F, d, b) == \E i \in Inums, k \in 0 .. MaxFile : b = Addr(F, d, i, k)
Marked(F, d) ==
  /\ d[BmapStart] \subseteq Blocks
  /\ \A b \in Blocks : b \in d[BmapStart] <=> b < NMeta \/ Holds(F, d, b)
Gapless(F, d, i, n) ==
  \A l \in 0 .. (MaxFile - 1) : l * BSize < n => Addr(F, d, i, l) # 0

(* A word of the root directory names no inode of U, nor a free one.       *)
IsEntry(F, U, word) ==
  \/ word = Zero
  \/ word[1] \in Inums \ U /\ F[word[1]].type # "free" /\ F[word[1]].nlink # 0
Entries(F, d, U, n) ==
  \A l \in 0 .. (MaxFile - 1), q \in 0 .. (BSize - 1) :
    l * BSize + q < n /\ Addr(F, d, Root, l) # 0 => IsEntry(F, U, d[Addr(F, d, Root, l)][q])

Accounted(F, d, U) ==
  /\ Shaped(F, d) /\ Linked(F, d) /\ Unshared(F, d) /\ Marked(F, d)
  /\ \A i \in Files : Gapless(F, d, i, F[i].size)
  /\ Entries(F, d, U, F[Root].size)

(* What is in memory: nothing else is changed there than the inodes of X,  *)
(* and the root, which is never let go.                                    *)
Synced(c, din) == c.ref > 0 => c.valid /\ c.din = din
Memory(ip, d, X) ==
  /\ ip \in [Inums -> [ref : Nat, valid : BOOLEAN, din : InodeSet]]
  /\ \A i \in Inums : /\ d[IBlock(i)] = [k \in 0 .. (IPB - 1) |-> d[IBlock(i)][k]]
                      /\ OnDisk(d, i) \in InodeSet
                      /\ Used(ip[i]) => ip[i].din.type # "free"
  /\ \A i \in Files \ X : Synced(ip[i], OnDisk(d, i))
  /\ ip[Root].ref > 0 /\ OnDisk(d, Root).type # "free"

Sane(ip, d, X, U) == Accounted(Table(ip, d), d, U) /\ Memory(ip, d, X)

-----------------------------------------------------------------------------
(* Facts about the image as the file system sees it.                       *)

(* Offset p lies in block p \div BSize of a file, at p % BSize.            *)
LEMMA LineOf ==
  ASSUME NEW p \in 0 .. (MaxFile * BSize - 1)
  PROVE  /\ p \div BSize \in 0 .. (MaxFile - 1) /\ p % BSize \in 0 .. (BSize - 1)
         /\ p = (p \div BSize) * BSize + (p % BSize)
<1>1. BSize \in Nat \ {0} /\ MaxFile \in Nat /\ p \in Nat
  <2>1. BSize \in Nat \ {0} /\ NDirect \in Nat /\ NIndirect \in Nat
    BY Layout
  <2>2. MaxFile \in Nat
    BY <2>1 DEF MaxFile
  <2>3. MaxFile * BSize \in Nat
    BY <2>1, <2>2
  <2> QED BY <2>1, <2>2, <2>3
<1>2. /\ p \div BSize \in Nat /\ p % BSize \in 0 .. (BSize - 1)
      /\ p = (p \div BSize) * BSize + (p % BSize)
  BY <1>1, Division
<1>3. p < MaxFile * BSize
  BY <1>1
<1>4. (p \div BSize) * BSize < MaxFile * BSize
  BY <1>1, <1>2, <1>3
<1>5. p \div BSize + 1 <= MaxFile
  BY <1>1, <1>2, <1>4, Apart
<1> QED BY <1>1, <1>2, <1>5

(* The sizes as numbers.                                                   *)
LEMMA Sizes ==
  /\ BSize \in Nat \ {0} /\ NDirect \in Nat \ {0} /\ NIndirect = BSize
  /\ MaxFile \in Nat /\ MaxFile = NDirect + BSize /\ NDirect \in 0 .. (MaxFile - 1)
  /\ MaxFile * BSize \in Nat
  /\ NMeta \in Nat \ {0} /\ BmapStart < NMeta /\ BmapStart \in Nat /\ NMeta < FSSize /\ FSSize \in Nat
  /\ 0 \notin DataBlocks /\ BmapStart \notin DataBlocks /\ DataBlocks \subseteq Blocks
<1>1. BSize \in Nat \ {0} /\ NDirect \in Nat \ {0} /\ NIndirect = BSize
  BY Layout
<1>2. MaxFile = NDirect + BSize
  BY <1>1 DEF MaxFile
<1>3. MaxFile * BSize \in Nat
  BY <1>1, <1>2
<1>4. NMeta \in Nat \ {0} /\ BmapStart < NMeta /\ BmapStart \in Nat /\ NMeta < FSSize /\ FSSize \in Nat
  BY Layout
<1> QED BY <1>1, <1>2, <1>3, <1>4 DEF DataBlocks, Blocks

(* Inodes are records with an address for every index.                     *)
LEMMA InodeIs ==
  ASSUME NEW r \in InodeSet
  PROVE  /\ r = [type |-> r.type, nlink |-> r.nlink, size |-> r.size, addrs |-> r.addrs]
         /\ r.type \in {"free", "file", "dir"} /\ r.nlink \in Nat
         /\ r.size \in 0 .. (MaxFile * BSize) /\ r.addrs \in [0 .. NDirect -> Links]
BY DEF InodeSet

(* The size of an inode is a number of words (dinode.size).                *)
LEMMA SizeInNat ==
  ASSUME NEW r \in InodeSet
  PROVE  r.size \in Nat
<1> DEFINE M == MaxFile * BSize
<1>1. M \in Nat
  BY Sizes
<1>2. r.size \in 0 .. M
  BY DEF InodeSet
<1> HIDE DEF M
<1> QED BY <1>1, <1>2

(* The addresses of an inode are 0 or data blocks.                        *)
LEMMA AddrsAre ==
  ASSUME NEW F, NEW d, Shaped(F, d), NEW i \in Inums
  PROVE  /\ F[i] \in InodeSet
         /\ \A k \in 0 .. NDirect : F[i].addrs[k] \in Links
         /\ F[i].addrs[NDirect] \in Links
<1>1. F[i] \in InodeSet
  BY DEF Shaped
<1>2. F[i].addrs \in [0 .. NDirect -> Links]
  BY <1>1, InodeIs
<1>3. NDirect \in 0 .. NDirect
  BY Sizes
<1> QED BY <1>1, <1>2, <1>3

(* Every address is 0 or a data block.                                     *)
LEMMA AddrIsLink ==
  ASSUME NEW F, NEW d, Shaped(F, d), Linked(F, d), NEW i \in Inums, NEW k \in 0 .. MaxFile
  PROVE  Addr(F, d, i, k) \in Links
<1>1. (\A l \in 0 .. NDirect : F[i].addrs[l] \in Links) /\ F[i].addrs[NDirect] \in Links
  BY AddrsAre
<1>2. CASE k < NDirect \/ k = MaxFile
  <2>1. k < NDirect => k \in 0 .. NDirect
    BY Sizes
  <2> QED BY <1>1, <1>2, <2>1 DEF Addr
<1>3. CASE ~ (k < NDirect \/ k = MaxFile)
  <2>1. k - NDirect \in 0 .. (BSize - 1)
    BY <1>3, Sizes
  <2>2. Addr(F, d, i, k) = IF F[i].addrs[NDirect] = 0 THEN 0
                           ELSE Address(d[F[i].addrs[NDirect]][k - NDirect])
    BY <1>3 DEF Addr
  <2>3. F[i].addrs[NDirect] # 0 => IsLink(d[F[i].addrs[NDirect]][k - NDirect])
    BY <2>1 DEF Linked
  <2> QED BY <2>2, <2>3 DEF IsLink, Address, Links
<1> QED BY <1>2, <1>3

(* A disk that differs outside the bitmap and the data shows the same      *)
(* files.                                                                  *)
Agree(d, d2) == d2[BmapStart] = d[BmapStart] /\ \A b \in DataBlocks : d2[b] = d[b]

(* The addresses of an inode depend on the data blocks of the disk        *)
(* alone.                                                                 *)
LEMMA AddrAgrees ==
  ASSUME NEW F, NEW d, NEW d2, Shaped(F, d), \A b \in DataBlocks : d2[b] = d[b],
         NEW i \in Inums, NEW k \in 0 .. MaxFile
  PROVE  Addr(F, d2, i, k) = Addr(F, d, i, k)
<1>1. F[i].addrs[NDirect] \in Links
  BY AddrsAre
<1> QED BY <1>1 DEF Addr, Links

(* What is accounted for stays so on a disk that differs in the blocks    *)
(* of the inodes only.                                                    *)
LEMMA AccountedAgrees ==
  ASSUME NEW F, NEW d, NEW d2, NEW U, Accounted(F, d, U), Agree(d, d2)
  PROVE  Accounted(F, d2, U)
<1>1. Shaped(F, d) /\ Linked(F, d) /\ Unshared(F, d) /\ Marked(F, d) /\ Entries(F, d, U, F[Root].size)
  BY DEF Accounted
<1>2. Shaped(F, d2)
  BY <1>1 DEF Shaped, Agree
<1>3. \A i \in Inums, k \in 0 .. MaxFile : Addr(F, d2, i, k) = Addr(F, d, i, k)
  BY <1>1, AddrAgrees DEF Agree
<1>4. \A i \in Inums, k \in 0 .. MaxFile : Addr(F, d, i, k) \in Links
  BY <1>1, AddrIsLink
<1>5. Linked(F, d2)
  <2>1. \A i \in Inums : F[i].addrs[NDirect] \in Links
    BY <1>1, AddrsAre
  <2> QED BY <1>1, <2>1 DEF Linked, Agree, Links
<1>6. Unshared(F, d2)
  BY <1>1, <1>3 DEF Unshared
<1>7. Marked(F, d2)
  BY <1>1, <1>3 DEF Marked, Holds, Agree
<1>8. \A i \in Files : Gapless(F, d2, i, F[i].size)
  BY <1>3, Sizes DEF Gapless, Accounted, Files
<1>9. Entries(F, d2, U, F[Root].size)
  <2>1. Root \in Inums
    BY RootIsInode
  <2>2. \A l \in 0 .. (MaxFile - 1) : l \in 0 .. MaxFile
    BY Sizes
  <2> QED BY <1>1, <1>3, <1>4, <2>1, <2>2 DEF Entries, Agree, Links
<1> QED BY <1>2, <1>5, <1>6, <1>7, <1>8, <1>9 DEF Accounted

(* A free block becomes address kk of inode i, and is zero.                *)
Gained(F, d, F2, d2, i, kk, b) ==
  /\ \A j \in Inums, l \in 0 .. MaxFile :
       Addr(F2, d2, j, l) = IF j = i /\ l = kk THEN b ELSE Addr(F, d, j, l)
  /\ \A j \in Inums : F2[j].size = F[j].size /\ F2[j].type = F[j].type /\ F2[j].nlink = F[j].nlink
  /\ d2[BmapStart] = d[BmapStart] \cup {b}
  /\ d2[b] = ZeroBlock
  /\ \A j \in Inums, l \in 0 .. (MaxFile - 1) :
       Addr(F, d, j, l) # 0 => d2[Addr(F, d, j, l)] = d[Addr(F, d, j, l)]

(* A block that balloc hands out and one inode links is accounted for.    *)
LEMMA GainedAccounted ==
  ASSUME NEW F, NEW d, NEW F2, NEW d2, NEW U, NEW i \in Inums, NEW kk \in 0 .. MaxFile,
         NEW b \in DataBlocks, Accounted(F, d, U), b \notin d[BmapStart],
         Addr(F, d, i, kk) = 0, Gained(F, d, F2, d2, i, kk, b),
         Shaped(F2, d2), Linked(F2, d2)
  PROVE  Accounted(F2, d2, U)
<1>1. Shaped(F, d) /\ Linked(F, d) /\ Unshared(F, d) /\ Marked(F, d) /\ Entries(F, d, U, F[Root].size)
  BY DEF Accounted
<1>2. \A j \in Inums, l \in 0 .. MaxFile : Addr(F, d, j, l) # b
  BY <1>1, Sizes DEF Marked, Holds
<1>3. \A j \in Inums, l \in 0 .. MaxFile :
        Addr(F2, d2, j, l) = IF j = i /\ l = kk THEN b ELSE Addr(F, d, j, l)
  BY DEF Gained
<1>4. b # 0 /\ b \in Blocks /\ b >= NMeta
  BY Sizes DEF DataBlocks
<1>5. Unshared(F2, d2)
  BY <1>1, <1>2, <1>3 DEF Unshared
<1>6. Marked(F2, d2)
  <2>1. d2[BmapStart] = d[BmapStart] \cup {b}
    BY DEF Gained
  <2>2. ASSUME NEW c \in Blocks PROVE Holds(F2, d2, c) \/ c < NMeta <=> Holds(F, d, c) \/ c < NMeta \/ c = b
    <3>1. 0 < NMeta
      BY Sizes
    <3>2. ASSUME Holds(F2, d2, c) PROVE Holds(F, d, c) \/ c = b
      BY <1>3, <3>2 DEF Holds
    <3>3. ASSUME Holds(F, d, c) PROVE Holds(F2, d2, c) \/ c < NMeta
      <4>1. PICK j \in Inums, l \in 0 .. MaxFile : c = Addr(F, d, j, l)
        BY <3>3 DEF Holds
      <4>2. CASE j = i /\ l = kk
        BY <3>1, <4>1, <4>2
      <4>3. CASE ~ (j = i /\ l = kk)
        BY <1>3, <4>1, <4>3 DEF Holds
      <4> QED BY <4>2, <4>3
    <3>4. ASSUME c = b PROVE Holds(F2, d2, c)
      BY <1>3, <3>4 DEF Holds
    <3> QED BY <3>2, <3>3, <3>4
  <2>3. \A c \in Blocks : c \in d[BmapStart] <=> c < NMeta \/ Holds(F, d, c)
    BY <1>1 DEF Marked
  <2>4. \A c \in Blocks : c \in d2[BmapStart] <=> c < NMeta \/ Holds(F2, d2, c)
    BY <2>1, <2>2, <2>3
  <2>5. d2[BmapStart] \subseteq Blocks
    BY <1>1, <1>4, <2>1 DEF Marked
  <2> QED BY <2>4, <2>5 DEF Marked
<1>7. \A l \in 0 .. (MaxFile - 1) : l \in 0 .. MaxFile
  BY Sizes
<1>8. ASSUME NEW j \in Files PROVE Gapless(F2, d2, j, F2[j].size)
  <2>1. j \in Inums /\ Gapless(F, d, j, F[j].size) /\ F2[j].size = F[j].size
    BY DEF Accounted, Files, Gained
  <2> QED BY <1>3, <1>4, <1>7, <2>1 DEF Gapless
<1>9. Entries(F2, d2, U, F2[Root].size)
  <2> SUFFICES ASSUME NEW l \in 0 .. (MaxFile - 1), NEW q \in 0 .. (BSize - 1),
                      l * BSize + q < F2[Root].size, Addr(F2, d2, Root, l) # 0
               PROVE  IsEntry(F2, U, d2[Addr(F2, d2, Root, l)][q])
    BY DEF Entries
  <2>0. Root \in Inums /\ F2[Root].size = F[Root].size
    BY RootIsInode DEF Gained
  <2>1. CASE Root = i /\ l = kk
    <3>1. d2[Addr(F2, d2, Root, l)] = ZeroBlock
      BY <1>3, <1>7, <2>0, <2>1 DEF Gained
    <3> QED BY <3>1 DEF ZeroBlock, IsEntry
  <2>2. CASE ~ (Root = i /\ l = kk)
    <3>1. Addr(F2, d2, Root, l) = Addr(F, d, Root, l)
      BY <1>3, <1>7, <2>0, <2>2
    <3>2. d2[Addr(F, d, Root, l)] = d[Addr(F, d, Root, l)]
      BY <2>0, <3>1 DEF Gained
    <3>3. IsEntry(F, U, d[Addr(F, d, Root, l)][q])
      BY <1>1, <2>0, <3>1 DEF Entries
    <3> QED BY <3>1, <3>2, <3>3 DEF IsEntry, Gained
  <2> QED BY <2>1, <2>2
<1> QED BY <1>5, <1>6, <1>8, <1>9 DEF Accounted

(* A free block becomes a direct address, or that of the indirect block.   *)
Marking(d, b) == [[d EXCEPT ![BmapStart] = @ \cup {b}] EXCEPT ![b] = ZeroBlock]
WithAddr(F, i, k, b) == [F EXCEPT ![i] = [F[i] EXCEPT !.addrs = [F[i].addrs EXCEPT ![k] = b]]]

(* A disk has all its blocks.                                              *)
IsDisk(d) == d = [b \in Blocks |-> d[b]]

(* The disk after balloc: the bit of the block is set and the block is    *)
(* zero.                                                                  *)
LEMMA MarkingIs ==
  ASSUME NEW d, IsDisk(d), NEW b \in DataBlocks
  PROVE  /\ IsDisk(Marking(d, b))
         /\ Marking(d, b)[BmapStart] = d[BmapStart] \cup {b}
         /\ Marking(d, b)[b] = ZeroBlock
         /\ \A c \in Blocks : c # b /\ c # BmapStart => Marking(d, b)[c] = d[c]
<1>1. BmapStart \in Blocks /\ b \in Blocks /\ b # BmapStart
  BY Sizes, Layout
<1> QED BY <1>1 DEF Marking, IsDisk

(* The inodes after bmap stored a direct address, or that of the          *)
(* indirect block.                                                        *)
LEMMA WithAddrIs ==
  ASSUME NEW F, NEW d, Shaped(F, d), NEW i \in Inums, NEW k \in 0 .. NDirect, NEW b \in Links
  PROVE  /\ WithAddr(F, i, k, b) \in [Inums -> InodeSet]
         /\ \A j \in Inums : j # i => WithAddr(F, i, k, b)[j] = F[j]
         /\ WithAddr(F, i, k, b)[i].addrs[k] = b
         /\ \A l \in 0 .. NDirect : l # k => WithAddr(F, i, k, b)[i].addrs[l] = F[i].addrs[l]
         /\ WithAddr(F, i, k, b)[i].size = F[i].size /\ WithAddr(F, i, k, b)[i].type = F[i].type
         /\ WithAddr(F, i, k, b)[i].nlink = F[i].nlink
<1> DEFINE addrs == [F[i].addrs EXCEPT ![k] = b]
           r == [F[i] EXCEPT !.addrs = addrs]
<1>1. F[i] \in InodeSet /\ F \in [Inums -> InodeSet]
  BY DEF Shaped
<1>2. F[i].addrs \in [0 .. NDirect -> Links]
  BY <1>1, InodeIs
<1>3. addrs \in [0 .. NDirect -> Links] /\ addrs[k] = b /\ \A l \in 0 .. NDirect : l # k => addrs[l] = F[i].addrs[l]
  BY <1>2
<1> HIDE DEF addrs
<1>4. r \in InodeSet /\ r.addrs = addrs /\ r.size = F[i].size /\ r.type = F[i].type /\ r.nlink = F[i].nlink
  BY <1>1, <1>3 DEF InodeSet
<1> HIDE DEF r
<1>5. WithAddr(F, i, k, b) = [F EXCEPT ![i] = r]
  BY DEF WithAddr, r, addrs
<1> QED BY <1>1, <1>3, <1>4, <1>5

(* A fresh block in an address of the inode is accounted for (bmap).      *)
LEMMA DirectAccounted ==
  ASSUME NEW F, NEW d, NEW U, IsDisk(d), Accounted(F, d, U), NEW i \in Inums, NEW k \in 0 .. NDirect,
         NEW b \in DataBlocks, b \notin d[BmapStart], F[i].addrs[k] = 0, F[i].type # "free"
  PROVE  /\ Accounted(WithAddr(F, i, k, b), Marking(d, b), U)
         /\ Gained(F, d, WithAddr(F, i, k, b), Marking(d, b), i, IF k = NDirect THEN MaxFile ELSE k, b)
<1> DEFINE F2 == WithAddr(F, i, k, b)
           d2 == Marking(d, b)
           kk == IF k = NDirect THEN MaxFile ELSE k
<1>1. Shaped(F, d) /\ Linked(F, d) /\ Unshared(F, d) /\ Marked(F, d)
  BY DEF Accounted
<1>2. /\ F2 \in [Inums -> InodeSet]
      /\ \A j \in Inums : j # i => F2[j] = F[j]
      /\ F2[i].addrs[k] = b
      /\ \A l \in 0 .. NDirect : l # k => F2[i].addrs[l] = F[i].addrs[l]
      /\ F2[i].size = F[i].size /\ F2[i].type = F[i].type /\ F2[i].nlink = F[i].nlink
  BY <1>1, WithAddrIs DEF Links
<1>3. /\ IsDisk(d2) /\ d2[BmapStart] = d[BmapStart] \cup {b} /\ d2[b] = ZeroBlock
      /\ \A c \in Blocks : c # b /\ c # BmapStart => d2[c] = d[c]
  BY MarkingIs
<1> HIDE DEF F2, d2
<1>4. \A j \in Inums, l \in 0 .. MaxFile : Addr(F, d, j, l) \in Links /\ Addr(F, d, j, l) # b
  BY <1>1, AddrIsLink, Sizes DEF Marked, Holds
<1>5. \A c \in Links : c # 0 /\ c # b => d2[c] = d[c]
  BY <1>3, Sizes DEF Links
<1>6. \A j \in Inums : F[j].addrs[NDirect] \in Links /\ F[j].addrs[NDirect] # b
  <2>1. \A j \in Inums : Addr(F, d, j, MaxFile) = F[j].addrs[NDirect]
    BY Sizes DEF Addr
  <2>2. MaxFile \in 0 .. MaxFile
    BY Sizes
  <2> QED BY <1>4, <2>1, <2>2
<1>7. NDirect \in 0 .. NDirect
  BY Sizes
<1>8. ASSUME NEW j \in Inums, NEW l \in 0 .. MaxFile
      PROVE  Addr(F2, d2, j, l) = IF j = i /\ l = kk THEN b ELSE Addr(F, d, j, l)
  <2>1. CASE j # i
    BY <1>2, <1>5, <1>6, <2>1 DEF Addr
  <2>2. CASE j = i /\ k # NDirect
    <3>1. F2[i].addrs[NDirect] = F[i].addrs[NDirect]
      BY <1>2, <1>7, <2>2
    <3>2. CASE l < NDirect
      <4>1. l \in 0 .. NDirect
        BY <3>2, Sizes
      <4> QED BY <1>2, <2>2, <3>2, <4>1, Sizes DEF Addr
    <3>3. CASE ~ (l < NDirect)
      <4>1. k # l /\ k < NDirect
        BY <2>2, <3>3, Sizes
      <4> QED BY <1>5, <1>6, <2>2, <3>1, <3>3, <4>1 DEF Addr
    <3> QED BY <3>2, <3>3
  <2>3. CASE j = i /\ k = NDirect
    <3>1. F2[i].addrs[NDirect] = b /\ F[i].addrs[NDirect] = 0 /\ b # 0
      BY <1>2, <2>3, Sizes
    <3>2. CASE l < NDirect
      <4>1. l \in 0 .. NDirect /\ l # k /\ l # MaxFile
        BY <2>3, <3>2, Sizes
      <4> QED BY <1>2, <2>3, <3>2, <4>1 DEF Addr
    <3>3. CASE l = MaxFile
      <4>1. ~ (l < NDirect)
        BY <3>3, Sizes
      <4> QED BY <2>3, <3>1, <3>3, <4>1 DEF Addr
    <3>4. CASE ~ (l < NDirect) /\ l # MaxFile
      <4>1. l - NDirect \in 0 .. (BSize - 1)
        BY <3>4, Sizes
      <4>2. Address(d2[b][l - NDirect]) = 0
        BY <1>3, <4>1 DEF ZeroBlock, Address
      <4> QED BY <2>3, <3>1, <3>4, <4>2 DEF Addr
    <3> QED BY <3>2, <3>3, <3>4
  <2> QED BY <2>1, <2>2, <2>3
<1>9. Addr(F, d, i, kk) = 0 /\ kk \in 0 .. MaxFile
  BY Sizes DEF Addr
<1>10. ASSUME NEW j \in Inums, F2[j].type = "free" PROVE F2[j].size = 0 /\ F2[j].addrs = FreeInode.addrs
  <2>1. j # i
    BY <1>2, <1>10
  <2> QED BY <1>1, <1>2, <1>10, <2>1 DEF Shaped
<1>11. \A c \in DataBlocks : d2[c] = [m \in 0 .. (BSize - 1) |-> d2[c][m]]
  <2> TAKE c \in DataBlocks
  <2>1. CASE c = b
    BY <1>3, <2>1 DEF ZeroBlock
  <2>2. CASE c # b
    BY <1>1, <1>5, <2>2, Sizes DEF Shaped, Links
  <2> QED BY <2>1, <2>2
<1>12. Shaped(F2, d2)
  BY <1>2, <1>10, <1>11 DEF Shaped
<1>13. Linked(F2, d2)
  <2> SUFFICES ASSUME NEW j \in Inums, F2[j].addrs[NDirect] # 0, NEW m \in 0 .. (BSize - 1)
               PROVE  IsLink(d2[F2[j].addrs[NDirect]][m])
    BY DEF Linked
  <2>1. CASE j = i /\ k = NDirect
    BY <1>2, <1>3, <2>1 DEF ZeroBlock, IsLink
  <2>2. CASE ~ (j = i /\ k = NDirect)
    <3>1. F2[j].addrs[NDirect] = F[j].addrs[NDirect]
      BY <1>2, <1>7, <2>2
    <3> QED BY <1>1, <1>5, <1>6, <3>1 DEF Linked
  <2> QED BY <2>1, <2>2
<1>14. Gained(F, d, F2, d2, i, kk, b)
  <2>1. ASSUME NEW j \in Inums, NEW l \in 0 .. (MaxFile - 1), Addr(F, d, j, l) # 0
        PROVE  d2[Addr(F, d, j, l)] = d[Addr(F, d, j, l)]
    <3>1. l \in 0 .. MaxFile
      BY Sizes
    <3> QED BY <1>4, <1>5, <2>1, <3>1
  <2>2. \A j \in Inums : F2[j].size = F[j].size /\ F2[j].type = F[j].type /\ F2[j].nlink = F[j].nlink
    BY <1>2
  <2> QED BY <1>3, <1>8, <2>1, <2>2 DEF Gained
<1>15. Accounted(F2, d2, U)
  BY <1>9, <1>12, <1>13, <1>14, GainedAccounted
<1> QED BY <1>14, <1>15 DEF F2, d2

(* A free block becomes entry m of the indirect block of inode i.          *)
WithEntry(d, ind, m, b) == [Marking(d, b) EXCEPT ![ind] = [d[ind] EXCEPT ![m] = <<b>>]]

(* A fresh block in an entry of the indirect block is accounted for       *)
(* (bmap).                                                                *)
LEMMA EntryAccounted ==
  ASSUME NEW F, NEW d, NEW U, IsDisk(d), Accounted(F, d, U), NEW i \in Inums,
         NEW m \in 0 .. (BSize - 1), F[i].addrs[NDirect] # 0, d[F[i].addrs[NDirect]][m] = Zero,
         NEW b \in DataBlocks, b \notin d[BmapStart]
  PROVE  /\ Accounted(F, WithEntry(d, F[i].addrs[NDirect], m, b), U)
         /\ Gained(F, d, F, WithEntry(d, F[i].addrs[NDirect], m, b), i, NDirect + m, b)
<1> DEFINE ind == F[i].addrs[NDirect]
           d1 == Marking(d, b)
           new == [d[ind] EXCEPT ![m] = <<b>>]
           d2 == WithEntry(d, ind, m, b)
           kk == NDirect + m
<1>1. Shaped(F, d) /\ Linked(F, d) /\ Unshared(F, d) /\ Marked(F, d)
  BY DEF Accounted
<1>2. /\ IsDisk(d1) /\ d1[BmapStart] = d[BmapStart] \cup {b} /\ d1[b] = ZeroBlock
      /\ \A c \in Blocks : c # b /\ c # BmapStart => d1[c] = d[c]
  BY MarkingIs
<1>3. \A j \in Inums, l \in 0 .. MaxFile : Addr(F, d, j, l) \in Links /\ Addr(F, d, j, l) # b
  BY <1>1, AddrIsLink, Sizes DEF Marked, Holds
<1>4. /\ \A j \in Inums : Addr(F, d, j, MaxFile) = F[j].addrs[NDirect]
      /\ MaxFile \in 0 .. MaxFile /\ \A l \in 0 .. (MaxFile - 1) : l \in 0 .. MaxFile /\ l # MaxFile
      /\ kk \in 0 .. (MaxFile - 1) /\ kk - NDirect = m /\ ~ (kk < NDirect) /\ kk # MaxFile
  BY Sizes DEF Addr
<1>5. ind \in DataBlocks /\ ind # b /\ ind = Addr(F, d, i, MaxFile)
  BY <1>3, <1>4 DEF Links
<1>6. new = [q \in 0 .. (BSize - 1) |-> IF q = m THEN <<b>> ELSE d[ind][q]]
  BY <1>1, <1>5 DEF Shaped
<1> HIDE DEF new, d1
<1>7. /\ d2[BmapStart] = d[BmapStart] \cup {b} /\ d2[b] = ZeroBlock /\ d2[ind] = new
      /\ \A c \in Links : c # 0 /\ c # b /\ c # ind => d2[c] = d[c]
  <2>1. d2 = [d1 EXCEPT ![ind] = new]
    BY DEF WithEntry, d1, new
  <2>2. BmapStart \in Blocks /\ BmapStart # ind /\ b \in Blocks /\ ind \in Blocks
    BY <1>5, Sizes, Layout
  <2>3. \A c \in Links : c # 0 => c \in Blocks /\ c # BmapStart
    BY Sizes DEF Links
  <2> QED BY <1>2, <1>5, <2>1, <2>2, <2>3 DEF IsDisk
<1> HIDE DEF d2, ind
<1>8. \A j \in Inums : j # i /\ F[j].addrs[NDirect] # 0 => F[j].addrs[NDirect] # ind
  BY <1>1, <1>4, <1>5 DEF Unshared
<1>9. ASSUME NEW j \in Inums, NEW l \in 0 .. MaxFile
      PROVE  Addr(F, d2, j, l) = IF j = i /\ l = kk THEN b ELSE Addr(F, d, j, l)
  <2>1. CASE l < NDirect \/ l = MaxFile \/ F[j].addrs[NDirect] = 0
    <3>1. ~ (j = i /\ l = kk)
      BY <1>4, <1>5, <2>1, Sizes DEF ind
    <3> QED BY <2>1, <3>1 DEF Addr
  <2>2. CASE ~ (l < NDirect \/ l = MaxFile) /\ F[j].addrs[NDirect] # 0 /\ j # i
    <3>1. F[j].addrs[NDirect] \in Links /\ F[j].addrs[NDirect] # b /\ F[j].addrs[NDirect] # ind
      BY <1>3, <1>4, <1>8, <2>2
    <3> QED BY <1>7, <2>2, <3>1 DEF Addr
  <2>3. CASE ~ (l < NDirect \/ l = MaxFile) /\ F[j].addrs[NDirect] # 0 /\ j = i
    <3>1. l - NDirect \in 0 .. (BSize - 1) /\ (l = kk <=> l - NDirect = m)
      BY <1>4, <2>3, Sizes
    <3>2. Addr(F, d2, j, l) = Address(new[l - NDirect]) /\ Addr(F, d, j, l) = Address(d[ind][l - NDirect])
      BY <1>5, <1>7, <2>3 DEF Addr, ind
    <3>3. Address(<<b>>) = b
      BY DEF Address, Zero
    <3> QED BY <1>6, <2>3, <3>1, <3>2, <3>3
  <2> QED BY <2>1, <2>2, <2>3
<1>10. Addr(F, d, i, kk) = 0
  BY <1>4 DEF Addr, Address
<1>11. \A c \in DataBlocks : d2[c] = [q \in 0 .. (BSize - 1) |-> d2[c][q]]
  <2> TAKE c \in DataBlocks
  <2>1. CASE c = b
    BY <1>7, <2>1 DEF ZeroBlock
  <2>2. CASE c = ind
    BY <1>6, <1>7, <2>2
  <2>3. CASE c # b /\ c # ind
    BY <1>1, <1>7, <2>3, Sizes DEF Shaped, Links
  <2> QED BY <2>1, <2>2, <2>3
<1>12. Shaped(F, d2)
  BY <1>1, <1>11 DEF Shaped
<1>13. Linked(F, d2)
  <2> SUFFICES ASSUME NEW j \in Inums, F[j].addrs[NDirect] # 0, NEW q \in 0 .. (BSize - 1)
               PROVE  IsLink(d2[F[j].addrs[NDirect]][q])
    BY DEF Linked
  <2>1. IsLink(d[F[j].addrs[NDirect]][q])
    BY <1>1 DEF Linked
  <2>2. CASE j = i
    <3>1. IsLink(<<b>>)
      BY DEF IsLink
    <3> QED BY <1>6, <1>7, <2>1, <2>2, <3>1 DEF ind
  <2>3. CASE j # i
    <3>1. F[j].addrs[NDirect] \in Links /\ F[j].addrs[NDirect] # b /\ F[j].addrs[NDirect] # ind
      BY <1>3, <1>4, <1>8, <2>3
    <3> QED BY <1>7, <2>1, <3>1
  <2> QED BY <2>2, <2>3
<1>14. Gained(F, d, F, d2, i, kk, b)
  <2>1. ASSUME NEW j \in Inums, NEW l \in 0 .. (MaxFile - 1), Addr(F, d, j, l) # 0
        PROVE  d2[Addr(F, d, j, l)] = d[Addr(F, d, j, l)]
    <3>1. Addr(F, d, j, l) \in Links /\ Addr(F, d, j, l) # b
      BY <1>3, <1>4
    <3>2. Addr(F, d, j, l) # ind
      BY <1>1, <1>4, <1>5, <2>1 DEF Unshared
    <3> QED BY <1>7, <2>1, <3>1, <3>2
  <2> QED BY <1>7, <1>9, <2>1 DEF Gained
<1>15. kk \in 0 .. MaxFile
  BY <1>4
<1>16. Accounted(F, d2, U)
  BY <1>10, <1>12, <1>13, <1>14, <1>15, GainedAccounted
<1> QED BY <1>14, <1>16 DEF d2, ind

(* An inode changes, but for its addresses.                                *)
With(F, i, r) == [F EXCEPT ![i] = r]

(* An inode whose type, links or size change keeps its blocks (setNlink,  *)
(* write).                                                                *)
LEMMA RestatedAccounted ==
  ASSUME NEW F, NEW d, NEW U, NEW U2, Accounted(F, d, U), NEW i \in Inums, NEW r \in InodeSet,
         r.addrs = F[i].addrs, r.type = "free" => r.size = 0 /\ r.addrs = FreeInode.addrs,
         i # Root => Gapless(F, d, i, r.size),
         Entries(F, d, U2, With(F, i, r)[Root].size),
         \A word : IsEntry(F, U2, word) => IsEntry(With(F, i, r), U2, word)
  PROVE  Accounted(With(F, i, r), d, U2)
<1> DEFINE F2 == With(F, i, r)
<1>1. Shaped(F, d) /\ Linked(F, d) /\ Unshared(F, d) /\ Marked(F, d)
  BY DEF Accounted
<1>2. F2 \in [Inums -> InodeSet] /\ F2[i] = r /\ \A j \in Inums : j # i => F2[j] = F[j]
  BY <1>1 DEF Shaped, With
<1> HIDE DEF F2
<1>3. \A j \in Inums : F2[j].addrs = F[j].addrs
  BY <1>2
<1>4. \A j \in Inums, k \in 0 .. MaxFile : Addr(F2, d, j, k) = Addr(F, d, j, k)
  BY <1>3 DEF Addr
<1>5. Shaped(F2, d)
  BY <1>1, <1>2 DEF Shaped
<1>6. Linked(F2, d)
  BY <1>1, <1>3 DEF Linked
<1>7. Unshared(F2, d)
  BY <1>1, <1>4 DEF Unshared
<1>8. Marked(F2, d)
  BY <1>1, <1>4 DEF Marked, Holds
<1>9. \A l \in 0 .. (MaxFile - 1) : l \in 0 .. MaxFile
  BY Sizes
<1>10. ASSUME NEW j \in Files PROVE Gapless(F2, d, j, F2[j].size)
  <2>1. j \in Inums /\ j # Root /\ Gapless(F, d, j, F[j].size)
    BY DEF Accounted, Files
  <2>2. Gapless(F, d, j, F2[j].size)
    BY <1>2, <2>1
  <2> QED BY <1>4, <1>9, <2>1, <2>2 DEF Gapless
<1>11. Entries(F2, d, U2, F2[Root].size)
  <2> SUFFICES ASSUME NEW l \in 0 .. (MaxFile - 1), NEW q \in 0 .. (BSize - 1),
                      l * BSize + q < F2[Root].size, Addr(F2, d, Root, l) # 0
               PROVE  IsEntry(F2, U2, d[Addr(F2, d, Root, l)][q])
    BY DEF Entries
  <2>1. Addr(F2, d, Root, l) = Addr(F, d, Root, l)
    BY <1>4, <1>9, RootIsInode
  <2>2. Entries(F, d, U2, F2[Root].size)
    BY DEF F2
  <2>3. IsEntry(F, U2, d[Addr(F, d, Root, l)][q])
    BY <2>1, <2>2 DEF Entries
  <2> QED BY <2>1, <2>3 DEF F2
<1> QED BY <1>5, <1>6, <1>7, <1>8, <1>10, <1>11 DEF Accounted, F2

(* Fewer inodes may not be named.                                          *)
LEMMA FewerUnnamed ==
  ASSUME NEW F, NEW d, NEW U, NEW U2, Accounted(F, d, U), U2 \subseteq U
  PROVE  Accounted(F, d, U2)
<1>1. \A word : IsEntry(F, U, word) => IsEntry(F, U2, word)
  BY DEF IsEntry
<1> QED BY <1>1 DEF Accounted, Entries

(* The size becomes that of what was written.                              *)
LEMMA ResizedAccounted ==
  ASSUME NEW F, NEW d, NEW U, Accounted(F, d, U), NEW i \in Inums, F[i].type # "free",
         NEW n \in 0 .. (MaxFile * BSize), i # Root => Gapless(F, d, i, n),
         i = Root => Entries(F, d, U, n)
  PROVE  Accounted(With(F, i, [F[i] EXCEPT !.size = n]), d, U)
<1> DEFINE r == [F[i] EXCEPT !.size = n]
           F2 == With(F, i, r)
<1>1. F[i] \in InodeSet /\ F \in [Inums -> InodeSet]
  BY DEF Accounted, Shaped
<1>2. r \in InodeSet /\ r.addrs = F[i].addrs /\ r.type = F[i].type /\ r.nlink = F[i].nlink /\ r.size = n
  BY <1>1 DEF InodeSet
<1> HIDE DEF r
<1>3. F2[i] = r /\ \A j \in Inums : j # i => F2[j] = F[j]
  BY <1>1 DEF With
<1>4. \A word : IsEntry(F, U, word) => IsEntry(F2, U, word)
  BY <1>2, <1>3 DEF IsEntry
<1>5. Entries(F, d, U, F2[Root].size)
  BY <1>2, <1>3, RootIsInode DEF Accounted
<1> HIDE DEF F2
<1>6. Accounted(F2, d, U)
  BY <1>2, <1>4, <1>5, RestatedAccounted DEF F2
<1> QED BY <1>6 DEF F2, r

(* The number of links changes; it becomes 0 only of an inode without name.*)
LEMMA NlinkAccounted ==
  ASSUME NEW F, NEW d, NEW U, Accounted(F, d, U), NEW i \in Inums, NEW n \in Nat,
         n = 0 => i \in U
  PROVE  Accounted(With(F, i, [F[i] EXCEPT !.nlink = n]), d, U)
<1> DEFINE r == [F[i] EXCEPT !.nlink = n]
           F2 == With(F, i, r)
<1>1. F[i] \in InodeSet /\ F \in [Inums -> InodeSet]
      /\ (F[i].type = "free" => F[i].size = 0 /\ F[i].addrs = FreeInode.addrs)
  BY DEF Accounted, Shaped
<1>2. r \in InodeSet /\ r.addrs = F[i].addrs /\ r.type = F[i].type /\ r.nlink = n /\ r.size = F[i].size
  BY <1>1 DEF InodeSet
<1> HIDE DEF r
<1>3. F2[i] = r /\ \A j \in Inums : j # i => F2[j] = F[j]
  BY <1>1 DEF With
<1>4. \A word : IsEntry(F, U, word) => IsEntry(F2, U, word)
  BY <1>2, <1>3 DEF IsEntry
<1>5. Entries(F, d, U, F2[Root].size)
  BY <1>2, <1>3, RootIsInode DEF Accounted
<1>6. i # Root => Gapless(F, d, i, r.size)
  BY <1>2 DEF Accounted, Files
<1> HIDE DEF F2
<1>7. Accounted(F2, d, U)
  BY <1>1, <1>2, <1>4, <1>5, <1>6, RestatedAccounted DEF F2
<1> QED BY <1>7 DEF F2, r

(* A free inode becomes an empty file, which nothing names.                *)
LEMMA ClaimedAccounted ==
  ASSUME NEW F, NEW d, Accounted(F, d, {}), NEW i \in Inums, F[i].type = "free",
         NEW r \in InodeSet, r.addrs = FreeInode.addrs, r.size = 0
  PROVE  Accounted(With(F, i, r), d, {i})
<1> DEFINE F2 == With(F, i, r)
<1>1. F[i] \in InodeSet /\ F \in [Inums -> InodeSet] /\ F[i].size = 0 /\ F[i].addrs = FreeInode.addrs
  BY DEF Accounted, Shaped
<1>3. F2[i] = r /\ \A j \in Inums : j # i => F2[j] = F[j]
  BY <1>1 DEF With
<1>4. \A word : IsEntry(F, {}, word) => IsEntry(F, {i}, word)
  BY DEF IsEntry
<1>4a. \A word : IsEntry(F, {i}, word) => IsEntry(F2, {i}, word)
  BY <1>3 DEF IsEntry
<1>5. Entries(F, d, {i}, F2[Root].size)
  <2>1. Entries(F, d, {}, F[Root].size) /\ F2[Root].size = F[Root].size
    BY <1>1, <1>3, RootIsInode DEF Accounted
  <2> QED BY <1>4, <2>1 DEF Entries
<1>6. i # Root => Gapless(F, d, i, r.size)
  BY <1>1 DEF Accounted, Files
<1> HIDE DEF F2
<1>7. Accounted(F2, d, {i})
  BY <1>1, <1>4a, <1>5, <1>6, RestatedAccounted DEF F2
<1> QED BY <1>7 DEF F2

(* An empty inode without links becomes free.                              *)
LEMMA ReleasedAccounted ==
  ASSUME NEW F, NEW d, NEW U, Accounted(F, d, U), NEW i \in Inums, F[i].nlink = 0,
         F[i].size = 0, F[i].addrs = FreeInode.addrs,
         NEW r \in InodeSet, r.addrs = FreeInode.addrs, r.size = 0
  PROVE  Accounted(With(F, i, r), d, U)
<1> DEFINE F2 == With(F, i, r)
<1>1. F \in [Inums -> InodeSet]
  BY DEF Accounted, Shaped
<1>3. F2[i] = r /\ \A j \in Inums : j # i => F2[j] = F[j]
  BY <1>1 DEF With
<1>4. \A word : IsEntry(F, U, word) => IsEntry(F2, U, word)
  BY <1>3 DEF IsEntry
<1>5. Entries(F, d, U, F2[Root].size)
  BY <1>1, <1>3, RootIsInode DEF Accounted
<1>6. i # Root => Gapless(F, d, i, r.size)
  BY DEF Accounted, Files
<1> HIDE DEF F2
<1>7. Accounted(F2, d, U)
  BY <1>4, <1>5, <1>6, RestatedAccounted DEF F2
<1> QED BY <1>7 DEF F2

(* A block of file i gets new words; in the root, entries.                 *)
IsLine(data) == data = [q \in 0 .. (BSize - 1) |-> data[q]]
Pokable(F, d, U, i, l, b, data) ==
  /\ b = Addr(F, d, i, l) /\ b # 0 /\ IsLine(data)
  /\ i = Root => \A q \in 0 .. (BSize - 1) :
                   l * BSize + q < F[Root].size => data[q] = d[b][q] \/ IsEntry(F, U, data[q])
StillAccounted(F, d, d2, U) ==
  Accounted(F, d2, U) /\ \A j \in Inums, k \in 0 .. MaxFile : Addr(F, d2, j, k) = Addr(F, d, j, k)

(* New contents of a block of a file, or of the root as entries, leave    *)
(* all blocks accounted for (write).                                      *)
LEMMA PokedAccounted ==
  ASSUME NEW F, NEW d, NEW U, IsDisk(d), Accounted(F, d, U), NEW i \in Inums,
         NEW l \in 0 .. (MaxFile - 1), NEW b, NEW data, Pokable(F, d, U, i, l, b, data)
  PROVE  StillAccounted(F, d, [d EXCEPT ![b] = data], U)
<1> DEFINE d2 == [d EXCEPT ![b] = data]
<1>1. Shaped(F, d) /\ Linked(F, d) /\ Unshared(F, d) /\ Marked(F, d) /\ Entries(F, d, U, F[Root].size)
  BY DEF Accounted
<1>2. \A m \in 0 .. (MaxFile - 1) : m \in 0 .. MaxFile /\ m # MaxFile
  BY Sizes
<1>3. \A j \in Inums, k \in 0 .. MaxFile : Addr(F, d, j, k) \in Links
  BY <1>1, AddrIsLink
<1>3a. b = Addr(F, d, i, l) /\ b # 0
  BY DEF Pokable
<1>4. b \in DataBlocks /\ b \in Blocks /\ b # BmapStart
  BY <1>2, <1>3, <1>3a, Sizes DEF Links
<1>5. d2[b] = data /\ \A c : c # b => d2[c] = d[c]
  BY <1>4 DEF IsDisk
<1> HIDE DEF d2
<1>6. \A j \in Inums : F[j].addrs[NDirect] \in Links /\ F[j].addrs[NDirect] # b
  <2>1. \A j \in Inums : Addr(F, d, j, MaxFile) = F[j].addrs[NDirect]
    BY Sizes DEF Addr
  <2>2. MaxFile \in 0 .. MaxFile
    BY Sizes
  <2>3. \A j \in Inums : Addr(F, d, j, MaxFile) # b
    BY <1>1, <1>2, <1>3a, <2>2 DEF Unshared
  <2> QED BY <1>3, <2>1, <2>2, <2>3
<1>7. \A j \in Inums, k \in 0 .. MaxFile : Addr(F, d2, j, k) = Addr(F, d, j, k)
  BY <1>5, <1>6 DEF Addr
<1>8. Shaped(F, d2)
  <2>1. ASSUME NEW c \in DataBlocks PROVE d2[c] = [k \in 0 .. (BSize - 1) |-> d2[c][k]]
    <3>1. CASE c = b
      BY <1>5, <3>1 DEF Pokable, IsLine
    <3>2. CASE c # b
      BY <1>1, <1>5, <3>2 DEF Shaped
    <3> QED BY <3>1, <3>2
  <2> QED BY <1>1, <2>1 DEF Shaped
<1>9. Linked(F, d2)
  BY <1>1, <1>5, <1>6 DEF Linked
<1>10. Unshared(F, d2)
  BY <1>1, <1>7 DEF Unshared
<1>11. Marked(F, d2)
  BY <1>1, <1>4, <1>5, <1>7 DEF Marked, Holds
<1>12. ASSUME NEW j \in Files PROVE Gapless(F, d2, j, F[j].size)
  <2>1. j \in Inums /\ Gapless(F, d, j, F[j].size)
    BY DEF Accounted, Files
  <2> QED BY <1>2, <1>7, <2>1 DEF Gapless
<1>13. Entries(F, d2, U, F[Root].size)
  <2> SUFFICES ASSUME NEW m \in 0 .. (MaxFile - 1), NEW q \in 0 .. (BSize - 1),
                      m * BSize + q < F[Root].size, Addr(F, d2, Root, m) # 0
               PROVE  IsEntry(F, U, d2[Addr(F, d2, Root, m)][q])
    BY DEF Entries
  <2>1. Addr(F, d2, Root, m) = Addr(F, d, Root, m)
    BY <1>2, <1>7, RootIsInode
  <2>2. IsEntry(F, U, d[Addr(F, d, Root, m)][q])
    BY <1>1, <2>1 DEF Entries
  <2>3. CASE Addr(F, d, Root, m) # b
    BY <1>5, <2>1, <2>2, <2>3
  <2>4. CASE Addr(F, d, Root, m) = b
    <3>1. i = Root /\ m = l
      BY <1>1, <1>2, <1>3a, <2>4, RootIsInode DEF Unshared
    <3>2. data[q] = d[b][q] \/ IsEntry(F, U, data[q])
      BY <3>1 DEF Pokable
    <3> QED BY <1>5, <2>1, <2>2, <2>4, <3>2
  <2> QED BY <2>3, <2>4
<1>14. Accounted(F, d2, U)
  BY <1>8, <1>9, <1>10, <1>11, <1>12, <1>13 DEF Accounted
<1> QED BY <1>7, <1>14 DEF d2, StillAccounted

(* A file loses its blocks.                                                *)
LEMMA TruncatedAccounted ==
  ASSUME NEW F, NEW d, NEW U, Accounted(F, d, U), NEW i \in Inums, F[i].type # "free",
         NEW d2, \A b \in DataBlocks : d2[b] = d[b],
         d2[BmapStart] = d[BmapStart] \ {b \in DataBlocks : \E k \in 0 .. MaxFile : b = Addr(F, d, i, k)},
         NEW r \in InodeSet, r.addrs = FreeInode.addrs, r.size = 0, r.type = F[i].type, r.nlink = F[i].nlink
  PROVE  Accounted(With(F, i, r), d2, U)
<1> DEFINE F2 == With(F, i, r)
<1>1. Shaped(F, d) /\ Linked(F, d) /\ Unshared(F, d) /\ Marked(F, d) /\ Entries(F, d, U, F[Root].size)
  BY DEF Accounted
<1>2. \A m \in 0 .. (MaxFile - 1) : m \in 0 .. MaxFile /\ m # MaxFile
  BY Sizes
<1>3. F2 \in [Inums -> InodeSet] /\ F2[i] = r /\ \A j \in Inums : j # i => F2[j] = F[j]
  BY <1>1 DEF Shaped, With
<1> HIDE DEF F2
<1>4. \A k \in 0 .. NDirect : FreeInode.addrs[k] = 0
  BY DEF FreeInode
<1>5. \A k \in 0 .. MaxFile : Addr(F2, d2, i, k) = 0
  <2>1. NDirect \in 0 .. NDirect /\ \A k \in 0 .. MaxFile : k < NDirect => k \in 0 .. NDirect
    BY Sizes
  <2> QED BY <1>3, <1>4, <2>1 DEF Addr
<1>6. \A j \in Inums, k \in 0 .. MaxFile : j # i => Addr(F2, d2, j, k) = Addr(F, d, j, k)
  <2> TAKE j \in Inums, k \in 0 .. MaxFile
  <2>1. Addr(F, d2, j, k) = Addr(F, d, j, k)
    BY <1>1, AddrAgrees
  <2> QED BY <1>3, <2>1 DEF Addr
<1>7. Shaped(F2, d2)
  BY <1>1, <1>3 DEF Shaped
<1>8. Linked(F2, d2)
  <2>1. \A j \in Inums : F[j].addrs[NDirect] \in Links
    BY <1>1, AddrsAre
  <2>2. F2[i].addrs[NDirect] = 0
    BY <1>3, <1>4, Sizes
  <2> QED BY <1>1, <1>3, <2>1, <2>2 DEF Linked, Links
<1>9. Unshared(F2, d2)
  BY <1>1, <1>5, <1>6 DEF Unshared
<1>10. Marked(F2, d2)
  <2>1. ASSUME NEW b \in Blocks PROVE b \in d2[BmapStart] <=> b < NMeta \/ Holds(F2, d2, b)
    <3>1. b \in d[BmapStart] <=> b < NMeta \/ Holds(F, d, b)
      BY <1>1 DEF Marked
    <3>2. b \in DataBlocks <=> ~ (b < NMeta)
      BY Sizes DEF DataBlocks, Blocks
    <3>3. CASE b < NMeta
      BY <3>1, <3>2, <3>3
    <3>4. CASE ~ (b < NMeta)
      <4>1. b # 0
        BY <3>4, Sizes
      <4>2. Holds(F2, d2, b) <=> \E j \in Inums, k \in 0 .. MaxFile : j # i /\ b = Addr(F, d, j, k)
        BY <1>5, <1>6, <4>1 DEF Holds
      <4>3. (\E k \in 0 .. MaxFile : b = Addr(F, d, i, k)) =>
              ~ \E j \in Inums, k \in 0 .. MaxFile : j # i /\ b = Addr(F, d, j, k)
        BY <1>1, <4>1 DEF Unshared
      <4> QED BY <3>1, <3>2, <3>4, <4>2, <4>3 DEF Holds
    <3> QED BY <3>3, <3>4
  <2> QED BY <1>1, <2>1 DEF Marked
<1>11. ASSUME NEW j \in Files PROVE Gapless(F2, d2, j, F2[j].size)
  <2>1. j \in Inums /\ Gapless(F, d, j, F[j].size)
    BY DEF Accounted, Files
  <2>2. CASE j = i
    <3>1. \A l \in 0 .. (MaxFile - 1) : ~ (l * BSize < 0)
      BY Sizes
    <3> QED BY <1>3, <2>2, <3>1 DEF Gapless
  <2>3. CASE j # i
    BY <1>2, <1>3, <1>6, <2>1, <2>3 DEF Gapless
  <2> QED BY <2>2, <2>3
<1>12. Entries(F2, d2, U, F2[Root].size)
  <2> SUFFICES ASSUME NEW m \in 0 .. (MaxFile - 1), NEW q \in 0 .. (BSize - 1),
                      m * BSize + q < F2[Root].size, Addr(F2, d2, Root, m) # 0
               PROVE  IsEntry(F2, U, d2[Addr(F2, d2, Root, m)][q])
    BY DEF Entries
  <2>1. i # Root
    BY <1>2, <1>5
  <2>2. Addr(F2, d2, Root, m) = Addr(F, d, Root, m) /\ Addr(F, d, Root, m) \in DataBlocks
    BY <1>1, <1>2, <1>6, <2>1, RootIsInode, AddrIsLink DEF Links
  <2>3. IsEntry(F, U, d[Addr(F, d, Root, m)][q])
    BY <1>1, <1>3, <2>1, <2>2, RootIsInode DEF Entries
  <2> QED BY <1>3, <2>2, <2>3 DEF IsEntry
<1> QED BY <1>7, <1>8, <1>9, <1>10, <1>11, <1>12 DEF Accounted, F2

-----------------------------------------------------------------------------
(* balloc and bfree, the loops of trunc, the inodes on the disk and in    *)
(* memory, and the direct addresses of bmap.                              *)

(* Who holds what does not matter after a failed assertion.                *)
LEMMA HaltedHave ==
  ASSUME NEW v, NEW x, NEW y, NEW x1, NEW y1, Have(v, x, y), Halted(v)
  PROVE  Have(v, x1, y1) /\ ~ Live(v)
<1>1. Ok(v, x1, y1)
  BY HaltedOk DEF Have
<1> QED BY <1>1 DEF Have, Live

(* An assertion may fail when something was lost; one may fail always.     *)
LEMMA StopHave ==
  ASSUME NEW v, NEW x, NEW y, NEW x1, NEW y1, NEW why, Have(v, x, y),
         why \notin {"buffers", NoPanic}, ~ Live(v) \/ why = "read"
  PROVE  Have(Stop(v, why), x1, y1) /\ ~ Live(Stop(v, why))
<1> DEFINE u == Stop(v, why)
<1>0. Ok(v, x, y) /\ Calm(v)
  BY DEF Have
<1>1. Ok(u, x, y) /\ Halted(u)
  BY <1>0, StopOk
<1>2. Ok(u, x1, y1)
  BY <1>1, HaltedOk
<1>3. u = IF v.panic = NoPanic THEN [v EXCEPT !.panic = why] ELSE v
  BY DEF Stop
<1>4. u.lost = v.lost /\ u.panic = IF v.panic = NoPanic THEN why ELSE v.panic
  BY <1>0, <1>3 DEF Ok, World
<1> HIDE DEF u
<1>5. Calm(u)
  BY <1>0, <1>4 DEF Calm, Live, Halted
<1> QED BY <1>1, <1>2, <1>5 DEF Have, Live, u

(* The inodes in memory are no buffers.                                    *)
WithIp(v, ip) == [v EXCEPT !.ip = ip]

(* A step on the inodes in memory changes no buffer.                      *)
LEMMA IpHave ==
  ASSUME NEW v, NEW x, NEW y, NEW ip, Have(v, x, y)
  PROVE  /\ Have(WithIp(v, ip), x, y) /\ Disk(WithIp(v, ip)) = Disk(v)
         /\ (Live(WithIp(v, ip)) <=> Live(v)) /\ (Halted(WithIp(v, ip)) <=> Halted(v))
         /\ WithIp(v, ip).ip = ip
<1> DEFINE u == [v EXCEPT !.ip = ip]
<1>1. Ok(v, x, y) /\ Calm(v) /\ (Live(v) => Loaded(v.bufs))
  BY DEF Have
<1>2. Ok(u, x, y)
  BY <1>1, IpOk
<1>3. u.bufs = v.bufs /\ u.disk = v.disk /\ u.panic = v.panic /\ u.lost = v.lost /\ u.ip = ip
  BY <1>1 DEF Ok, World
<1> HIDE DEF u
<1>4. (Live(u) <=> Live(v)) /\ (Halted(u) <=> Halted(v)) /\ (Calm(u) <=> Calm(v))
  BY <1>3 DEF Live, Halted, Calm
<1>5. Have(u, x, y)
  BY <1>1, <1>2, <1>3, <1>4 DEF Have
<1>6. \A b : Now(u, b) = Now(v, b)
  BY <1>3 DEF Now, At
<1>7. Disk(u) = Disk(v)
  BY <1>6 DEF Disk
<1> QED BY <1>3, <1>4, <1>5, <1>7 DEF u, WithIp

(* What the buffers and the RAM disk show together has every block.       *)
LEMMA DiskIs ==
  ASSUME NEW v
  PROVE  IsDisk(Disk(v))
BY DEF IsDisk, Disk

-----------------------------------------------------------------------------
(* balloc and bfree.                                                       *)

(* balloc found no block, or marked one that was free, and zeroed it.      *)
Took(v, got) ==
  /\ Live(v) /\ got.w.ip = v.ip
  /\ \/ got.b = 0 /\ Disk(got.w) = Disk(v)
     \/ /\ got.b \in Blocks \ Disk(v)[BmapStart]
        /\ Disk(got.w) = Marking(Disk(v), got.b)

(* balloc hands out a block that was free, now marked and cleared, or     *)
(* none.                                                                  *)
LEMMA BallocTakes ==
  ASSUME NEW v, NEW x, Have(v, x, Nobody)
  PROVE  Have(Balloc(v).w, x, Nobody) /\ (Live(Balloc(v).w) => Took(v, Balloc(v)))
<1> DEFINE bm == Bread(v, BmapStart)
           got == TakeFree(bm)
           b == Min(FreeIn(bm))
           marked == Data(bm, BmapStart) \cup {b}
           r == Brelease(SetData(bm, BmapStart, marked), BmapStart)
<1>1. Have(bm, Id(BmapStart), x) /\ (Live(bm) => Same(v, bm))
  BY BreadSame, Layout
<1>2. Balloc(v) = got
  BY DEF Balloc
<1>3. Live(bm) => Data(bm, BmapStart) = Disk(v)[BmapStart]
  BY <1>1, DataSame, Layout DEF Same
<1>4. CASE Halted(bm)
  <2>1. got.w = bm
    BY <1>4 DEF TakeFree
  <2> HIDE DEF bm
  <2>2. Have(bm, x, Nobody) /\ ~ Live(bm)
    BY <1>1, <1>4, HaltedHave
  <2> HIDE DEF got
  <2> QED BY <1>2, <2>1, <2>2
<1>5. CASE ~Halted(bm) /\ FreeIn(bm) = {}
  <2>1. got.w = Brelease(bm, BmapStart) /\ got.b = 0
    BY <1>5 DEF TakeFree
  <2> HIDE DEF bm, got
  <2>2. Have(got.w, x, Nobody) /\ (Live(got.w) => Same(bm, got.w))
    BY <1>1, <2>1, BreleaseSame
  <2>3. Live(got.w) => Took(v, got)
    BY <1>1, <2>1, <2>2 DEF Same, Took
  <2> QED BY <1>2, <2>2, <2>3
<1>6. CASE ~Halted(bm) /\ FreeIn(bm) # {}
  <2>1. got.w = Bzero(r, b) /\ got.b = b
    BY <1>6 DEF TakeFree, MarkBlock
  <2>2. b \in FreeIn(bm)
    <3>1. FreeIn(bm) \in SUBSET Nat
      BY Sizes DEF FreeIn
    <3> HIDE DEF bm
    <3> QED BY <1>6, <3>1, MinIsLeast
  <2>3. b \in Blocks
    BY <2>2 DEF FreeIn, Blocks
  <2>4. Live(bm) => b \notin Disk(v)[BmapStart] /\ marked = Disk(v)[BmapStart] \cup {b}
    BY <1>3, <2>2 DEF FreeIn
  <2> HIDE DEF bm, b, marked
  <2>5. Have(r, x, Nobody) /\ (Live(r) => Poked(bm, r, BmapStart, marked))
    BY <1>1, StoreSame
  <2> HIDE DEF r, got
  <2>6. Have(got.w, x, Nobody) /\ (Live(got.w) => Poked(r, got.w, b, ZeroBlock))
    BY <2>1, <2>3, <2>5, BzeroSame
  <2>7. ASSUME Live(got.w) PROVE Took(v, got)
    <3>1. Poked(r, got.w, b, ZeroBlock) /\ Poked(bm, r, BmapStart, marked) /\ Same(v, bm)
      BY <1>1, <2>5, <2>6, <2>7 DEF Poked
    <3>2. Live(bm)
      BY <3>1 DEF Poked
    <3>3. Disk(got.w) = Marking(Disk(v), b)
      BY <2>4, <3>1, <3>2 DEF Poked, Same, Marking
    <3> QED BY <2>1, <2>3, <2>4, <3>1, <3>2, <3>3 DEF Took, Poked, Same
  <2> QED BY <1>2, <2>6, <2>7
<1> QED BY <1>4, <1>5, <1>6

(* bfree takes the mark away, from a block that has one.                   *)
LEMMA BfreeUnmarks ==
  ASSUME NEW v, NEW x, NEW b, Have(v, x, Nobody), Live(v) => b \in Disk(v)[BmapStart]
  PROVE  /\ Have(Bfree(v, b), x, Nobody)
         /\ Live(Bfree(v, b)) => Poked(v, Bfree(v, b), BmapStart, Disk(v)[BmapStart] \ {b})
<1> DEFINE bm == Bread(v, BmapStart)
           u == Unmark(bm, b)
           left == Data(bm, BmapStart) \ {b}
<1>1. Have(bm, Id(BmapStart), x) /\ (Live(bm) => Same(v, bm))
  BY BreadSame, Layout
<1>2. Bfree(v, b) = u
  BY DEF Bfree
<1>3. Live(bm) => Data(bm, BmapStart) = Disk(v)[BmapStart]
  BY <1>1, DataSame, Layout DEF Same
<1>4. CASE Halted(bm)
  <2>1. u = bm
    BY <1>4 DEF Unmark
  <2> HIDE DEF bm
  <2>2. Have(bm, x, Nobody) /\ ~ Live(bm)
    BY <1>1, <1>4, HaltedHave
  <2> QED BY <1>2, <2>1, <2>2
<1>5. CASE ~Halted(bm) /\ b \notin Data(bm, BmapStart)
  <2>1. u = Stop(bm, "freeing free block")
    BY <1>5 DEF Unmark
  <2>2. ~ Live(bm)
    BY <1>1, <1>3, <1>5 DEF Same
  <2> HIDE DEF bm, u
  <2>3. Have(u, x, Nobody) /\ ~ Live(u)
    BY <1>1, <2>1, <2>2, StopHave DEF NoPanic
  <2> QED BY <1>2, <2>3
<1>6. CASE ~Halted(bm) /\ b \in Data(bm, BmapStart)
  <2>1. u = Brelease(SetData(bm, BmapStart, left), BmapStart)
    BY <1>6 DEF Unmark
  <2> HIDE DEF u
  <2>2. Live(bm) => left = Disk(v)[BmapStart] \ {b}
    BY <1>3
  <2> HIDE DEF bm, left
  <2>3. Have(u, x, Nobody) /\ (Live(u) => Poked(bm, u, BmapStart, left))
    BY <1>1, <2>1, StoreSame
  <2>4. Live(u) => Poked(v, u, BmapStart, Disk(v)[BmapStart] \ {b})
    BY <1>1, <2>2, <2>3 DEF Poked, Same
  <2> QED BY <1>2, <2>3, <2>4
<1> QED BY <1>4, <1>5, <1>6

-----------------------------------------------------------------------------
(* trunc.                                                                  *)

Listed(addrs, n) == {addrs[k] : k \in 0 .. (n - 1)} \ {0}
Listable(addrs, n, bm) ==
  \A k \in 0 .. (n - 1) : addrs[k] # 0 =>
    addrs[k] \in bm /\ \A l \in 0 .. (n - 1) : addrs[l] = addrs[k] => l = k

(* So far the disk has lost the marks of the blocks of gone.               *)
Unmarked(v, u, gone) == Poked(v, u, BmapStart, Disk(v)[BmapStart] \ gone)

(* The loop of trunc takes the marks of the blocks it frees, and no       *)
(* others.                                                                *)
LEMMA FreeAllUnmarks ==
  ASSUME NEW v, NEW x, NEW addrs, NEW n \in Nat, Have(v, x, Nobody),
         Live(v) => Listable(addrs, n, Disk(v)[BmapStart])
  PROVE  /\ Have(FreeAll(v, addrs, n), x, Nobody)
         /\ Live(FreeAll(v, addrs, n)) => Unmarked(v, FreeAll(v, addrs, n), Listed(addrs, n))
<1>1. PICK f : /\ FreeAll(v, addrs, n) = f[n] /\ f[0] = v
               /\ \A k \in 0 .. (n - 1) : f[k + 1] = FreeOne(f[k], addrs[k])
  BY FreeAllTurns
<1> DEFINE E == {k \in Nat : /\ Have(f[k], x, Nobody)
                             /\ Live(f[k]) => Unmarked(v, f[k], Listed(addrs, k))}
<1>2. 0 \in E
  <2>1. Listed(addrs, 0) = {}
    BY DEF Listed
  <2>2. Live(v) => Unmarked(v, v, {})
    BY Layout DEF Unmarked, Poked, Disk
  <2> QED BY <1>1, <2>1, <2>2
<1>3. ASSUME NEW k \in 0 .. (n - 1), k \in E PROVE k + 1 \in E
  <2>1. /\ Have(f[k], x, Nobody)
        /\ Live(f[k]) => Unmarked(v, f[k], Listed(addrs, k))
        /\ f[k + 1] = FreeOne(f[k], addrs[k]) /\ k + 1 \in Nat
    BY <1>1, <1>3
  <2> DEFINE a == addrs[k]
  <2>2. CASE a = 0
    <3>1. f[k + 1] = f[k]
      BY <2>1, <2>2 DEF FreeOne
    <3>2. Listed(addrs, k + 1) = Listed(addrs, k)
      BY <2>2 DEF Listed
    <3> QED BY <2>1, <3>1, <3>2
  <2>3. CASE a # 0
    <3>1. f[k + 1] = Bfree(f[k], a)
      BY <2>1, <2>3 DEF FreeOne
    <3>2. Listed(addrs, k + 1) = Listed(addrs, k) \cup {a}
      BY <2>3 DEF Listed
    <3>3. Live(f[k]) => a \in Disk(f[k])[BmapStart]
      <4> SUFFICES ASSUME Live(f[k]) PROVE a \in Disk(f[k])[BmapStart]
        OBVIOUS
      <4>1. Live(v) /\ Disk(f[k]) = [Disk(v) EXCEPT ![BmapStart] = Disk(v)[BmapStart] \ Listed(addrs, k)]
        BY <2>1 DEF Unmarked, Poked
      <4>2. a \in Disk(v)[BmapStart] /\ \A l \in 0 .. (n - 1) : addrs[l] = a => l = k
        BY <2>3, <4>1 DEF Listable
      <4>3. a \notin Listed(addrs, k)
        BY <4>2 DEF Listed
      <4>4. Disk(f[k])[BmapStart] = Disk(v)[BmapStart] \ Listed(addrs, k)
        BY <4>1, Layout DEF Disk
      <4> QED BY <4>2, <4>3, <4>4
    <3> HIDE DEF a
    <3>4. /\ Have(f[k + 1], x, Nobody)
          /\ Live(f[k + 1]) => Poked(f[k], f[k + 1], BmapStart, Disk(f[k])[BmapStart] \ {a})
      BY <2>1, <3>1, <3>3, BfreeUnmarks
    <3>5. Live(f[k + 1]) => Unmarked(v, f[k + 1], Listed(addrs, k) \cup {a})
      <4> SUFFICES ASSUME Live(f[k + 1]) PROVE Unmarked(v, f[k + 1], Listed(addrs, k) \cup {a})
        OBVIOUS
      <4>1. Poked(f[k], f[k + 1], BmapStart, Disk(f[k])[BmapStart] \ {a})
        BY <3>4
      <4>2. Live(v) /\ f[k].ip = v.ip
            /\ Disk(f[k]) = [Disk(v) EXCEPT ![BmapStart] = Disk(v)[BmapStart] \ Listed(addrs, k)]
        BY <2>1, <4>1 DEF Unmarked, Poked
      <4>3. Disk(f[k])[BmapStart] = Disk(v)[BmapStart] \ Listed(addrs, k)
        BY <4>2, Layout DEF Disk
      <4>4. (Disk(v)[BmapStart] \ Listed(addrs, k)) \ {a} = Disk(v)[BmapStart] \ (Listed(addrs, k) \cup {a})
        OBVIOUS
      <4> QED BY <4>1, <4>2, <4>3, <4>4 DEF Unmarked, Poked
    <3> QED BY <2>1, <3>2, <3>4, <3>5
  <2> QED BY <2>2, <2>3
<1> HIDE DEF E
<1>4. n \in E
  BY <1>2, <1>3, Reached
<1> QED BY <1>1, <1>4 DEF E

(* The blocks that the indirect block b names, and itself.                 *)
Words(d, b) == [k \in 0 .. (NIndirect - 1) |-> Address(d[b][k])]
Indirectly(d, b) == IF b = 0 THEN {} ELSE {b} \cup Listed(Words(d, b), NIndirect)
Freeable(d, b) ==
  b # 0 => /\ b \in Blocks \ {BmapStart} /\ b \in d[BmapStart] /\ b \notin Listed(Words(d, b), NIndirect)
           /\ Listable(Words(d, b), NIndirect, d[BmapStart])

(* Freeing what the indirect block lists, and then the block, unmarks     *)
(* them (trunc).                                                          *)
LEMMA FreeIndirectUnmarks ==
  ASSUME NEW v, NEW b, Have(v, Nobody, Nobody), Live(v) => Freeable(Disk(v), b)
  PROVE  /\ Have(FreeIndirect(v, b), Nobody, Nobody)
         /\ Live(FreeIndirect(v, b)) => Unmarked(v, FreeIndirect(v, b), Indirectly(Disk(v), b))
<1> DEFINE u == FreeIndirect(v, b)
           r == Bread(v, b)
           words == [k \in 0 .. (NIndirect - 1) |-> Address(Data(r, b)[k])]
           freed == FreeAll(r, words, NIndirect)
           s == FreeEntries(r, b)
<1>1. CASE b = 0 \/ Halted(v)
  <2>1. u = v
    BY <1>1 DEF FreeIndirect
  <2>2. Live(v) => Unmarked(v, v, {})
    BY Layout DEF Unmarked, Poked, Disk
  <2>3. Live(v) => Indirectly(Disk(v), b) = {}
    BY <1>1 DEF Live, Indirectly
  <2> QED BY <2>1, <2>2, <2>3
<1>2. CASE ~ (b = 0 \/ Halted(v))
  <2>1. u = Bfree(s, b)
    BY <1>2 DEF FreeIndirect
  <2>2. Live(v) => b \in Blocks
    BY <1>2 DEF Freeable
  <2>3. Have(r, Id(b), Nobody) /\ (Live(r) => Same(v, r))
    BY <2>2, BreadSame
  <2>4. Live(r) => Data(r, b) = Disk(v)[b]
    BY <2>2, <2>3, DataSame DEF Same
  <2>5. Live(r) => words = Words(Disk(v), b)
    BY <2>4 DEF Words
  <2>6. Live(r) => Listable(words, NIndirect, Disk(r)[BmapStart])
    BY <1>2, <2>3, <2>5 DEF Same, Freeable
  <2>7. Have(s, Nobody, Nobody) /\ (Live(s) => Unmarked(v, s, Listed(Words(Disk(v), b), NIndirect)))
    <3>1. CASE Halted(r)
      <4>1. s = r
        BY <3>1 DEF FreeEntries
      <4> HIDE DEF r
      <4>2. Have(r, Nobody, Nobody) /\ ~ Live(r)
        BY <2>3, <3>1, HaltedHave
      <4> QED BY <4>1, <4>2
    <3>2. CASE ~ Halted(r)
      <4>1. s = Brelease(freed, b)
        BY <3>2 DEF FreeEntries
      <4>2. NIndirect \in Nat
        BY Sizes
      <4> HIDE DEF r, words, s
      <4>3. Have(freed, Id(b), Nobody) /\ (Live(freed) => Unmarked(r, freed, Listed(words, NIndirect)))
        BY <2>3, <2>6, <4>2, FreeAllUnmarks
      <4> HIDE DEF freed
      <4>4. Have(s, Nobody, Nobody) /\ (Live(s) => Same(freed, s))
        BY <4>1, <4>3, BreleaseSame
      <4>5. ASSUME Live(s) PROVE Unmarked(v, s, Listed(Words(Disk(v), b), NIndirect))
        <5>1. Same(freed, s) /\ Unmarked(r, freed, Listed(words, NIndirect))
          BY <4>3, <4>4, <4>5 DEF Same
        <5>2. Live(r) /\ Same(v, r)
          BY <2>3, <5>1 DEF Unmarked, Poked
        <5> QED BY <2>5, <5>1, <5>2 DEF Unmarked, Poked, Same
      <4> QED BY <4>4, <4>5
    <3> QED BY <3>1, <3>2
  <2> HIDE DEF s, u
  <2>8. Live(s) => b \in Disk(s)[BmapStart]
    <3> SUFFICES ASSUME Live(s) PROVE b \in Disk(s)[BmapStart]
      OBVIOUS
    <3>1. Live(v) /\ Disk(s) = [Disk(v) EXCEPT ![BmapStart] = Disk(v)[BmapStart] \ Listed(Words(Disk(v), b), NIndirect)]
      BY <2>7 DEF Unmarked, Poked
    <3>2. Disk(s)[BmapStart] = Disk(v)[BmapStart] \ Listed(Words(Disk(v), b), NIndirect)
      BY <3>1, Layout DEF Disk
    <3> QED BY <1>2, <3>1, <3>2 DEF Freeable
  <2>9. Have(u, Nobody, Nobody) /\ (Live(u) => Poked(s, u, BmapStart, Disk(s)[BmapStart] \ {b}))
    BY <2>1, <2>7, <2>8, BfreeUnmarks
  <2>10. ASSUME Live(u) PROVE Unmarked(v, u, Indirectly(Disk(v), b))
    <3>1. Poked(s, u, BmapStart, Disk(s)[BmapStart] \ {b})
      BY <2>9, <2>10
    <3>2. Live(v) /\ s.ip = v.ip
          /\ Disk(s) = [Disk(v) EXCEPT ![BmapStart] = Disk(v)[BmapStart] \ Listed(Words(Disk(v), b), NIndirect)]
      BY <2>7, <3>1 DEF Unmarked, Poked
    <3>3. Disk(s)[BmapStart] = Disk(v)[BmapStart] \ Listed(Words(Disk(v), b), NIndirect)
      BY <3>2, Layout DEF Disk
    <3>4. Disk(s)[BmapStart] \ {b} = Disk(v)[BmapStart] \ Indirectly(Disk(v), b)
      BY <1>2, <3>3 DEF Indirectly
    <3> QED BY <3>1, <3>2, <3>4 DEF Unmarked, Poked
  <2> QED BY <2>9, <2>10 DEF u
<1> QED BY <1>1, <1>2

-----------------------------------------------------------------------------
(* Inodes in memory and on the disk.                                       *)

Copies == [ref : Nat, valid : BOOLEAN, din : InodeSet]
Stored(d, i, r) == [d EXCEPT ![IBlock(i)] = [d[IBlock(i)] EXCEPT ![i % IPB] = r]]
SameInodes(d, d2) == \A i \in Inums : d2[IBlock(i)] = d[IBlock(i)]

(* A change of the bitmap and of data changes no inode.                    *)
LEMMA MemoryData ==
  ASSUME NEW ip, NEW d, NEW d2, NEW X, Memory(ip, d, X), SameInodes(d, d2)
  PROVE  Memory(ip, d2, X) /\ Table(ip, d2) = Table(ip, d)
<1>1. \A i \in Inums : OnDisk(d2, i) = OnDisk(d, i) /\ d2[IBlock(i)] = d[IBlock(i)]
  BY DEF SameInodes, OnDisk
<1>2. Table(ip, d2) = Table(ip, d)
  BY <1>1 DEF Table
<1>3. Memory(ip, d2, X)
  BY <1>1, RootIsInode DEF Memory, Files
<1> QED BY <1>2, <1>3

(* Data blocks and the bitmap hold no inode.                              *)
LEMMA PokedInodes ==
  ASSUME NEW d, IsDisk(d), NEW b, b \in DataBlocks \cup {BmapStart}, NEW data
  PROVE  SameInodes(d, [d EXCEPT ![b] = data])
<1>1. \A i \in Inums : IBlock(i) \in Blocks /\ IBlock(i) # b
  <2> TAKE i \in Inums
  <2>1. IBlock(i) \in InodeStart .. (BmapStart - 1) /\ IBlock(i) \in Blocks /\ IBlock(i) # BmapStart
    BY InodePlace
  <2> QED BY <2>1, Sizes, Layout DEF DataBlocks
<1> QED BY <1>1 DEF SameInodes, IsDisk

(* The disk after update: one inode is stored and the others are as they  *)
(* were.                                                                  *)
LEMMA StoredIs ==
  ASSUME NEW ip, NEW d, NEW X, IsDisk(d), Memory(ip, d, X), NEW i \in Inums, NEW r
  PROVE  /\ IsDisk(Stored(d, i, r)) /\ Agree(d, Stored(d, i, r))
         /\ OnDisk(Stored(d, i, r), i) = r
         /\ \A j \in Inums : j # i => OnDisk(Stored(d, i, r), j) = OnDisk(d, j)
         /\ \A j \in Inums : Stored(d, i, r)[IBlock(j)] =
                               [k \in 0 .. (IPB - 1) |-> Stored(d, i, r)[IBlock(j)][k]]
         /\ Stored(d, i, OnDisk(d, i)) = d
<1> DEFINE row == [d[IBlock(i)] EXCEPT ![i % IPB] = r]
           d2 == [d EXCEPT ![IBlock(i)] = row]
<1>1. \A j \in Inums : /\ IBlock(j) \in InodeStart .. (BmapStart - 1)
                       /\ IBlock(j) \in Blocks /\ j % IPB \in 0 .. (IPB - 1)
  BY InodePlace
<1>2. \A j \in Inums : d[IBlock(j)] = [k \in 0 .. (IPB - 1) |-> d[IBlock(j)][k]]
  BY DEF Memory
<1>3. row = [k \in 0 .. (IPB - 1) |-> row[k]] /\ row[i % IPB] = r
      /\ \A k \in 0 .. (IPB - 1) : k # i % IPB => row[k] = d[IBlock(i)][k]
  BY <1>1, <1>2
<1>4. [d[IBlock(i)] EXCEPT ![i % IPB] = OnDisk(d, i)] = d[IBlock(i)]
  BY <1>1, <1>2 DEF OnDisk
<1>5. [d EXCEPT ![IBlock(i)] = d[IBlock(i)]] = d
  BY <1>1 DEF IsDisk
<1> HIDE DEF row
<1>6. IsDisk(d2) /\ d2[IBlock(i)] = row /\ \A b \in Blocks : b # IBlock(i) => d2[b] = d[b]
  BY <1>1 DEF IsDisk
<1>7. \A b \in DataBlocks \cup {BmapStart} : b \in Blocks /\ b # IBlock(i)
  BY <1>1, Sizes, Layout DEF DataBlocks
<1> HIDE DEF d2
<1>8. Agree(d, d2)
  BY <1>6, <1>7 DEF Agree
<1>9. \A j \in Inums : j # i => OnDisk(d2, j) = OnDisk(d, j)
  <2> TAKE j \in Inums
  <2> HAVE j # i
  <2>1. CASE IBlock(j) = IBlock(i)
    <3>1. j % IPB # i % IPB
      BY <2>1, InodePlaces
    <3> QED BY <1>1, <1>3, <1>6, <2>1, <3>1 DEF OnDisk
  <2>2. CASE IBlock(j) # IBlock(i)
    BY <1>1, <1>6, <2>2 DEF OnDisk
  <2> QED BY <2>1, <2>2
<1>10. \A j \in Inums : d2[IBlock(j)] = [k \in 0 .. (IPB - 1) |-> d2[IBlock(j)][k]]
  <2> TAKE j \in Inums
  <2>1. CASE IBlock(j) = IBlock(i)
    BY <1>3, <1>6, <2>1
  <2>2. CASE IBlock(j) # IBlock(i)
    BY <1>1, <1>2, <1>6, <2>2
  <2> QED BY <2>1, <2>2
<1>11. OnDisk(d2, i) = r
  BY <1>3, <1>6 DEF OnDisk
<1>12. Stored(d, i, OnDisk(d, i)) = d
  BY <1>4, <1>5 DEF Stored
<1>13. Stored(d, i, r) = d2
  BY DEF Stored, d2, row
<1> QED BY <1>6, <1>8, <1>9, <1>10, <1>11, <1>12, <1>13

(* An update that stores what is there changes nothing.                   *)
LEMMA StoredSame ==
  ASSUME NEW ip, NEW d, NEW X, IsDisk(d), Memory(ip, d, X), NEW i \in Inums
  PROVE  Stored(d, i, OnDisk(d, i)) = d
BY StoredIs

(* One inode gets the copy c in memory, and r on the disk.                 *)
Placed(ip, d, i, c, r, Y) ==
  /\ Memory([ip EXCEPT ![i] = c], Stored(d, i, r), Y)
  /\ Table([ip EXCEPT ![i] = c], Stored(d, i, r)) =
       With(Table(ip, d), i, IF Used(c) THEN c.din ELSE r)

(* One inode changes in memory and on the disk together.                  *)
LEMMA MemoryAt ==
  ASSUME NEW ip, NEW d, NEW X, NEW Y, IsDisk(d), Memory(ip, d, X), NEW i \in Inums,
         NEW c \in Copies, NEW r \in InodeSet, Used(c) => c.din.type # "free",
         i \in Files \ Y => Synced(c, r), i = Root => c.ref > 0 /\ r.type # "free", X \ {i} \subseteq Y
  PROVE  Placed(ip, d, i, c, r, Y)
<1> DEFINE ip2 == [ip EXCEPT ![i] = c]
           d2 == Stored(d, i, r)
           din == IF Used(c) THEN c.din ELSE r
<1>1. /\ OnDisk(d2, i) = r /\ \A j \in Inums : j # i => OnDisk(d2, j) = OnDisk(d, j)
      /\ \A j \in Inums : d2[IBlock(j)] = [k \in 0 .. (IPB - 1) |-> d2[IBlock(j)][k]]
  BY StoredIs
<1>2. ip \in [Inums -> Copies]
  BY DEF Memory, Copies
<1>3. ip2 \in [Inums -> Copies] /\ ip2[i] = c /\ \A j \in Inums : j # i => ip2[j] = ip[j]
  BY <1>2
<1> HIDE DEF d2, ip2
<1>4. \A j \in Inums : OnDisk(d2, j) \in InodeSet /\ (Used(ip2[j]) => ip2[j].din.type # "free")
  BY <1>1, <1>3 DEF Memory
<1>5. \A j \in Files \ Y : Synced(ip2[j], OnDisk(d2, j))
  <2> TAKE j \in Files \ Y
  <2>1. CASE j = i
    BY <1>1, <1>3, <2>1
  <2>2. CASE j # i
    BY <1>1, <1>3, <2>2 DEF Memory, Files
  <2> QED BY <2>1, <2>2
<1>6. ip2[Root].ref > 0 /\ OnDisk(d2, Root).type # "free"
  BY <1>1, <1>3, RootIsInode DEF Memory
<1>7. Memory(ip2, d2, Y)
  BY <1>1, <1>3, <1>4, <1>5, <1>6 DEF Memory, Copies
<1>8. Table(ip2, d2) = With(Table(ip, d), i, din)
  BY <1>1, <1>3 DEF Table, With
<1> QED BY <1>7, <1>8 DEF ip2, d2, Placed

-----------------------------------------------------------------------------
(* bmap.                                                                   *)

(* Two states of the inodes in memory that differ in addresses only.       *)
OnlyAddrs(a, c) ==
  \A j \in Inums : /\ c[j].ref = a[j].ref /\ c[j].valid = a[j].valid /\ c[j].din.size = a[j].din.size
                   /\ c[j].din.type = a[j].din.type /\ c[j].din.nlink = a[j].din.nlink

Sound(v, X, U) == Sane(v.ip, Disk(v), X, U)
Inodes(v) == Table(v.ip, Disk(v))
Loc(v, j, l) == Addr(Inodes(v), Disk(v), j, l)

(* Inode i of v is in memory, and may be changed there.                    *)
Mappable(v, X, U, i) == Sound(v, X, U) /\ i \in Inums /\ Used(v.ip[i])

(* Block b is address k of inode i now, and addresses stay.                *)
Mapped(v, u, i, k, b) ==
  /\ OnlyAddrs(v.ip, u.ip)
  /\ b = Loc(u, i, k) /\ b \in Links
  /\ \A j \in Inums, l \in 0 .. MaxFile : Loc(v, j, l) # 0 => Loc(u, j, l) = Loc(v, j, l)
  /\ Loc(v, i, k) # 0 => u.ip = v.ip /\ Disk(u) = Disk(v)

(* What a sound file system says of the inodes in memory and on the       *)
(* disk.                                                                  *)
LEMMA SoundIs ==
  ASSUME NEW v, NEW X, NEW U, Sound(v, X, U)
  PROVE  /\ Accounted(Inodes(v), Disk(v), U) /\ Memory(v.ip, Disk(v), X)
         /\ v.ip \in [Inums -> Copies]
         /\ Inodes(v) \in [Inums -> InodeSet]
         /\ \A j \in Inums : Used(v.ip[j]) => Inodes(v)[j] = v.ip[j].din
         /\ 0 \in Disk(v)[BmapStart]
<1>1. Accounted(Inodes(v), Disk(v), U) /\ Memory(v.ip, Disk(v), X)
  BY DEF Sound, Sane, Inodes
<1>2. Inodes(v) \in [Inums -> InodeSet]
  BY <1>1 DEF Accounted, Shaped
<1>3. 0 \in Disk(v)[BmapStart]
  BY <1>1, Sizes DEF Accounted, Marked, Blocks
<1> QED BY <1>1, <1>2, <1>3 DEF Memory, Copies, Inodes, Table

(* A marked block is no new one.                                           *)
LEMMA NewIsData ==
  ASSUME NEW F, NEW d, NEW U, Accounted(F, d, U), NEW b \in Blocks \ d[BmapStart]
  PROVE  b \in DataBlocks
<1>1. ~ (b < NMeta)
  BY DEF Accounted, Marked
<1> QED BY <1>1, Sizes DEF DataBlocks, Blocks

(* balloc changes no inode on the disk.                                   *)
LEMMA MarkingInodes ==
  ASSUME NEW d, IsDisk(d), NEW b \in DataBlocks
  PROVE  SameInodes(d, Marking(d, b))
<1> DEFINE d1 == [d EXCEPT ![BmapStart] = d[BmapStart] \cup {b}]
<1>1. SameInodes(d, d1) /\ IsDisk(d1)
  BY PokedInodes DEF IsDisk
<1>2. Marking(d, b) = [d1 EXCEPT ![b] = ZeroBlock]
  BY DEF Marking
<1> HIDE DEF d1
<1>3. SameInodes(d1, [d1 EXCEPT ![b] = ZeroBlock])
  BY <1>1, PokedInodes
<1> QED BY <1>1, <1>2, <1>3 DEF SameInodes

Addressed(k) == IF k = NDirect THEN MaxFile ELSE k

(* An address of an inode in memory is what its block number maps to.     *)
LEMMA AddressedIs ==
  ASSUME NEW v, NEW X, NEW U, NEW i, NEW k \in 0 .. NDirect, Mappable(v, X, U, i)
  PROVE  Loc(v, i, Addressed(k)) = v.ip[i].din.addrs[k] /\ v.ip[i].din.addrs[k] \in Links
         /\ Addressed(k) \in 0 .. MaxFile
<1>1. Inodes(v)[i] = v.ip[i].din /\ i \in Inums /\ Shaped(Inodes(v), Disk(v))
  BY SoundIs DEF Mappable, Accounted
<1>2. v.ip[i].din.addrs[k] \in Links
  BY <1>1, AddrsAre
<1>3. Addressed(k) \in 0 .. MaxFile
  BY Sizes DEF Addressed
<1>4. Loc(v, i, Addressed(k)) = v.ip[i].din.addrs[k]
  <2>1. CASE k = NDirect
    BY <1>1, <2>1, Sizes DEF Loc, Addr, Addressed
  <2>2. CASE k # NDirect
    <3>1. k < NDirect
      BY <2>2, Sizes
    <3> QED BY <1>1, <2>2, <3>1 DEF Loc, Addr, Addressed
  <2> QED BY <2>1, <2>2
<1> QED BY <1>2, <1>3, <1>4

(* A block that was taken becomes address k of inode i.                    *)
LEMMA AssignMaps ==
  ASSUME NEW v, NEW i, NEW k \in 0 .. NDirect, NEW X, NEW U, NEW got,
         Mappable(v, X, U, i), i \in X \cup {Root}, v.ip[i].din.addrs[k] = 0,
         Took(v, got), NEW m, Disk(m) = Disk(got.w), m.ip = [v.ip EXCEPT ![i] = [v.ip[i] EXCEPT
           !.din = [v.ip[i].din EXCEPT !.addrs = [v.ip[i].din.addrs EXCEPT ![k] = got.b]]]]
  PROVE  Mappable(m, X, U, i) /\ Mapped(v, m, i, Addressed(k), got.b)
<1> DEFINE F == Inodes(v)
           d == Disk(v)
           b == got.b
           c == v.ip[i]
           addrs == [c.din.addrs EXCEPT ![k] = b]
           r == [c.din EXCEPT !.addrs = addrs]
           new == [c EXCEPT !.din = r]
           ip2 == [v.ip EXCEPT ![i] = new]
           d2 == Marking(d, b)
           kk == Addressed(k)
<1>1. /\ Accounted(F, d, U) /\ Memory(v.ip, d, X) /\ v.ip \in [Inums -> Copies]
      /\ F \in [Inums -> InodeSet] /\ i \in Inums /\ Used(c) /\ F[i] = c.din
  BY SoundIs DEF Mappable
<1>2. c \in Copies /\ c.din \in InodeSet /\ c.din.addrs \in [0 .. NDirect -> Links]
  <2>1. c \in Copies
    BY <1>1
  <2>2. c.din \in InodeSet
    BY <2>1 DEF Copies
  <2> QED BY <2>1, <2>2, InodeIs
<1>3. Loc(v, i, kk) = 0 /\ kk \in 0 .. MaxFile
  BY AddressedIs
<1>4. m.ip = ip2
  OBVIOUS
<1>5. CASE b = 0 /\ Disk(got.w) = d
  <2>1. addrs = c.din.addrs
    BY <1>2, <1>5
  <2>2. r = c.din
    <3> HIDE DEF addrs
    <3>1. c.din = [type |-> c.din.type, nlink |-> c.din.nlink, size |-> c.din.size, addrs |-> c.din.addrs]
      BY <1>2, InodeIs
    <3> QED BY <2>1, <3>1
  <2>3. new = c
    <3> HIDE DEF r
    <3>1. c = [ref |-> c.ref, valid |-> c.valid, din |-> c.din]
      BY <1>2 DEF Copies
    <3> QED BY <2>2, <3>1
  <2>4. m.ip = v.ip /\ Disk(m) = d
    <3> HIDE DEF new
    <3> QED BY <1>1, <1>4, <1>5, <2>3
  <2>5. Inodes(m) = F
    BY <2>4 DEF Inodes
  <2>6. Mappable(m, X, U, i)
    BY <2>4 DEF Mappable, Sound
  <2>7. \A j, l : Loc(m, j, l) = Loc(v, j, l)
    BY <2>4, <2>5 DEF Loc
  <2>8. OnlyAddrs(v.ip, m.ip)
    BY <2>4 DEF OnlyAddrs
  <2> QED BY <1>3, <1>5, <2>4, <2>6, <2>7, <2>8 DEF Mapped, Links
<1>6. CASE b \in Blocks \ d[BmapStart] /\ Disk(got.w) = Marking(d, b)
  <2>1. b \in DataBlocks /\ b # 0
    BY <1>1, <1>6, NewIsData, Sizes
  <2>2. Disk(m) = d2
    BY <1>6
  <2>3. IsDisk(d) /\ IsDisk(d2)
    BY <2>2, DiskIs
  <2>4. addrs \in [0 .. NDirect -> Links]
    BY <1>2, <2>1 DEF Links
  <2>5. r \in InodeSet /\ r.type = c.din.type /\ r.size = c.din.size /\ r.nlink = c.din.nlink
    BY <1>2, <2>4 DEF InodeSet
  <2>6. new \in Copies /\ new.din = r /\ new.ref = c.ref /\ new.valid = c.valid
    BY <1>2, <2>5 DEF Copies
  <2>7. Memory(v.ip, d2, X) /\ Table(v.ip, d2) = F
    <3>1. SameInodes(d, d2)
      BY <2>1, <2>3, MarkingInodes
    <3> QED BY <1>1, <3>1, MemoryData DEF Inodes
  <2>8. c.din.type # "free"
    BY <1>1 DEF Memory
  <2>9. Stored(d2, i, OnDisk(d2, i)) = d2 /\ OnDisk(d2, i) \in InodeSet
    <3>1. Stored(d2, i, OnDisk(d2, i)) = d2
      <4> HIDE DEF d2
      <4> QED BY <1>1, <2>3, <2>7, StoredSame
    <3> QED BY <1>1, <2>7, <3>1 DEF Memory
  <2>10. i = Root => new.ref > 0 /\ OnDisk(d2, i).type # "free"
    BY <1>1, <2>6, <2>7 DEF Memory, Used
  <2>11. Used(new) /\ new.din.type # "free"
    BY <1>1, <2>5, <2>6, <2>8 DEF Used
  <2>12. i \notin Files \ X
    BY DEF Files
  <2>12a. Placed(v.ip, d2, i, new, OnDisk(d2, i), X)
    <3>1. X \ {i} \subseteq X
      OBVIOUS
    <3> HIDE DEF new, d2, F, c, r
    <3> QED BY <1>1, <2>3, <2>6, <2>7, <2>9, <2>10, <2>11, <2>12, <3>1, MemoryAt
  <2>13. /\ Memory([v.ip EXCEPT ![i] = new], Stored(d2, i, OnDisk(d2, i)), X)
         /\ Table([v.ip EXCEPT ![i] = new], Stored(d2, i, OnDisk(d2, i))) =
              With(Table(v.ip, d2), i, IF Used(new) THEN new.din ELSE OnDisk(d2, i))
    <3> HIDE DEF new, d2
    <3> QED BY <2>12a DEF Placed
  <2>14. Memory(ip2, d2, X) /\ Table(ip2, d2) = With(F, i, r)
    BY <2>6, <2>7, <2>9, <2>11, <2>13
  <2>15. With(F, i, r) = WithAddr(F, i, k, b)
    BY <1>1 DEF With, WithAddr
  <2>16. /\ Accounted(WithAddr(F, i, k, b), d2, U)
         /\ Gained(F, d, WithAddr(F, i, k, b), d2, i, IF k = NDirect THEN MaxFile ELSE k, b)
    <3> HIDE DEF F
    <3> QED BY <1>1, <1>6, <2>1, <2>3, <2>8, DirectAccounted
  <2>17. Sane(ip2, d2, X, U)
    BY <2>14, <2>15, <2>16 DEF Sane
  <2>18. Used(ip2[i])
    BY <1>1, <2>11
  <2>19. Mappable(m, X, U, i)
    BY <1>1, <1>4, <2>2, <2>17, <2>18 DEF Mappable, Sound
  <2>20. Inodes(m) = WithAddr(F, i, k, b)
    BY <1>4, <2>2, <2>14, <2>15 DEF Inodes
  <2>21. \A j \in Inums, l \in 0 .. MaxFile : Loc(m, j, l) = IF j = i /\ l = kk THEN b ELSE Loc(v, j, l)
    BY <2>2, <2>16, <2>20 DEF Gained, Loc, Addressed
  <2>22. OnlyAddrs(v.ip, m.ip)
    <3> HIDE DEF new
    <3> QED BY <1>1, <1>4, <2>5, <2>6 DEF OnlyAddrs
  <2>23. b \in Links
    BY <2>1 DEF Links
  <2> QED BY <1>1, <1>3, <2>19, <2>21, <2>22, <2>23 DEF Mapped
<1> QED BY <1>5, <1>6 DEF Took

(* bmap returns the block of a direct address, or of the indirect block,  *)
(* after a balloc where there was none.                                   *)
LEMMA DirectMaps ==
  ASSUME NEW v, NEW i, NEW k, NEW X, NEW U, Have(v, Nobody, Nobody),
         Live(v) => /\ Mappable(v, X, U, i) /\ k \in 0 .. NDirect
                    /\ i \in X \cup {Root} \/ v.ip[i].din.addrs[k] # 0
  PROVE  /\ Have(Direct(v, i, k).w, Nobody, Nobody)
         /\ Live(Direct(v, i, k).w) =>
              /\ Live(v) /\ Mappable(Direct(v, i, k).w, X, U, i)
              /\ Mapped(v, Direct(v, i, k).w, i, Addressed(k), Direct(v, i, k).b)
<1> DEFINE m == Direct(v, i, k)
           got == Balloc(v)
           a == v.ip[i].din.addrs[k]
<1>1. CASE a # 0
  <2>1. m.w = v /\ m.b = a
    BY <1>1 DEF Direct
  <2>2. ASSUME Live(v) PROVE Mapped(v, v, i, Addressed(k), a)
    <3>0. Mappable(v, X, U, i) /\ k \in 0 .. NDirect
      BY <2>2
    <3>1. Loc(v, i, Addressed(k)) = a /\ a \in Links
      BY <3>0, AddressedIs
    <3> HIDE DEF a
    <3> QED BY <3>1 DEF Mapped, OnlyAddrs
  <2> HIDE DEF m
  <2> QED BY <2>1, <2>2 DEF m
<1>2. CASE a = 0
  <2> DEFINE ip == [got.w.ip EXCEPT ![i] = [got.w.ip[i] EXCEPT
                      !.din = [got.w.ip[i].din EXCEPT !.addrs = [got.w.ip[i].din.addrs EXCEPT ![k] = got.b]]]]
  <2>1. m = Assign(got, i, k)
    BY <1>2 DEF Direct
  <2> HIDE DEF got
  <2>2. m.w = [got.w EXCEPT !.ip[i].din.addrs[k] = got.b] /\ m.b = got.b
    BY <2>1 DEF Assign
  <2>3. m.w = WithIp(got.w, ip)
    BY <2>2 DEF WithIp
  <2>4. Have(got.w, Nobody, Nobody) /\ (Live(got.w) => Took(v, got))
    BY BallocTakes DEF got
  <2> HIDE DEF m, ip
  <2>5. /\ Have(m.w, Nobody, Nobody) /\ Disk(m.w) = Disk(got.w)
        /\ (Live(m.w) <=> Live(got.w)) /\ m.w.ip = ip
    BY <2>3, <2>4, IpHave
  <2>6. ASSUME Live(m.w)
        PROVE  Live(v) /\ Mappable(m.w, X, U, i) /\ Mapped(v, m.w, i, Addressed(k), m.b)
    <3>1. Took(v, got) /\ Live(v) /\ got.w.ip = v.ip
      BY <2>4, <2>5, <2>6 DEF Took
    <3>2. Mappable(v, X, U, i) /\ k \in 0 .. NDirect /\ i \in X \cup {Root} /\ v.ip[i].din.addrs[k] = 0
      BY <1>2, <3>1
    <3>3. m.w.ip = [v.ip EXCEPT ![i] = [v.ip[i] EXCEPT
           !.din = [v.ip[i].din EXCEPT !.addrs = [v.ip[i].din.addrs EXCEPT ![k] = got.b]]]]
      BY <2>5, <3>1 DEF ip
    <3>4. Mappable(m.w, X, U, i) /\ Mapped(v, m.w, i, Addressed(k), got.b)
      BY <2>5, <3>1, <3>2, <3>3, AssignMaps
    <3> QED BY <2>2, <3>1, <3>4
  <2> QED BY <2>5, <2>6 DEF m
<1> QED BY <1>1, <1>2

(* Nothing but a release: what was mapped is the same.                     *)
LEMMA SameMaps ==
  ASSUME NEW v, NEW u, NEW X, NEW U, NEW i, NEW k, NEW b, Same(v, u), Mappable(v, X, U, i),
         b = Loc(v, i, k), b \in Links
  PROVE  Mappable(u, X, U, i) /\ Mapped(v, u, i, k, b)
<1>1. u.ip = v.ip /\ Disk(u) = Disk(v) /\ Inodes(u) = Inodes(v)
  BY DEF Same, Inodes
<1>2. \A j, l : Loc(u, j, l) = Loc(v, j, l)
  BY <1>1 DEF Loc
<1>3. Mappable(u, X, U, i)
  BY <1>1 DEF Mappable, Sound
<1>4. OnlyAddrs(v.ip, u.ip)
  BY <1>1 DEF OnlyAddrs
<1> QED BY <1>1, <1>2, <1>3, <1>4 DEF Mapped

(* A block that was taken becomes entry k of the indirect block b.         *)
LEMMA EntryMaps ==
  ASSUME NEW v, NEW u, NEW X, NEW U, NEW i, NEW k \in 0 .. (BSize - 1), NEW b, NEW b2,
         Mappable(v, X, U, i), b = v.ip[i].din.addrs[NDirect], b # 0, Disk(v)[b][k] = Zero,
         b2 \in Blocks \ Disk(v)[BmapStart], u.ip = v.ip, Disk(u) = WithEntry(Disk(v), b, k, b2)
  PROVE  Mappable(u, X, U, i) /\ Mapped(v, u, i, NDirect + k, b2)
<1> DEFINE F == Inodes(v)
           d == Disk(v)
           d2 == Disk(u)
<1>1. /\ Accounted(F, d, U) /\ Memory(v.ip, d, X)
      /\ i \in Inums /\ Used(v.ip[i]) /\ F[i] = v.ip[i].din
  BY SoundIs DEF Mappable
<1>2. b2 \in DataBlocks /\ b2 # 0 /\ IsDisk(d)
  BY <1>1, NewIsData, DiskIs, Sizes
<1>3. d2 = WithEntry(d, F[i].addrs[NDirect], k, b2)
  BY <1>1
<1>4. F[i].addrs[NDirect] # 0 /\ d[F[i].addrs[NDirect]][k] = Zero
  BY <1>1
<1>5. b \in DataBlocks
  BY <1>1, AddrsAre DEF Accounted, Links
<1> HIDE DEF F, d, d2
<1>6. Accounted(F, d2, U) /\ Gained(F, d, F, d2, i, NDirect + k, b2)
  BY <1>1, <1>2, <1>3, <1>4, EntryAccounted DEF d
<1>7. SameInodes(d, d2)
  <2>1. SameInodes(d, Marking(d, b2)) /\ IsDisk(Marking(d, b2))
    BY <1>2, MarkingInodes, MarkingIs
  <2>2. \A data : SameInodes(Marking(d, b2), [Marking(d, b2) EXCEPT ![b] = data])
    <3> TAKE data
    <3> HIDE DEF Marking
    <3> QED BY <1>5, <2>1, PokedInodes
  <2>3. d2 = [Marking(d, b2) EXCEPT ![b] = [d[b] EXCEPT ![k] = <<b2>>]]
    BY DEF WithEntry, d2, d
  <2> QED BY <2>1, <2>2, <2>3 DEF SameInodes
<1>8. Memory(v.ip, d2, X) /\ Table(v.ip, d2) = F
  BY <1>1, <1>7, MemoryData DEF F, Inodes, d
<1>9. Inodes(u) = F
  BY <1>8 DEF Inodes, d2
<1>10. Mappable(u, X, U, i)
  BY <1>1, <1>6, <1>8 DEF Mappable, Sound, Sane, d2
<1>11. \A j \in Inums, l \in 0 .. MaxFile :
         Loc(u, j, l) = IF j = i /\ l = NDirect + k THEN b2 ELSE Loc(v, j, l)
  BY <1>6, <1>9 DEF Gained, Loc, F, d, d2
<1>12. NDirect + k \in 0 .. MaxFile /\ ~ (NDirect + k < NDirect) /\ NDirect + k # MaxFile /\ (NDirect + k) - NDirect = k
  BY Sizes
<1>13. Loc(v, i, NDirect + k) = 0
  BY <1>4, <1>12 DEF Loc, Addr, Address, F, d
<1>14. OnlyAddrs(v.ip, u.ip)
  BY DEF OnlyAddrs
<1>15. b2 \in Links
  BY <1>2 DEF Links
<1> HIDE DEF Mappable
<1> QED BY <1>1, <1>10, <1>11, <1>12, <1>13, <1>14, <1>15 DEF Mapped

(* The indirect block b is held while its entry is looked up or set.       *)
LEMMA EntryInMaps ==
  ASSUME NEW r, NEW b, NEW k, NEW X, NEW U, NEW i, Have(r, Id(b), Nobody),
         Live(r) => /\ Mappable(r, X, U, i) /\ k \in 0 .. (BSize - 1)
                    /\ b = r.ip[i].din.addrs[NDirect] /\ b # 0
  PROVE  /\ Have(EntryIn(r, b, k).w, Nobody, Nobody)
         /\ Live(EntryIn(r, b, k).w) =>
              /\ Live(r) /\ Mappable(EntryIn(r, b, k).w, X, U, i)
              /\ Mapped(r, EntryIn(r, b, k).w, i, NDirect + k, EntryIn(r, b, k).b)
<1> DEFINE m == EntryIn(r, b, k)
           got == Balloc(r)
           set == [Data(got.w, b) EXCEPT ![k] = <<got.b>>]
           d == Disk(r)
<1>1. ASSUME Live(r)
      PROVE  /\ Mappable(r, X, U, i) /\ k \in 0 .. (BSize - 1) /\ b \in DataBlocks /\ b \in Blocks
             /\ Data(r, b) = d[b] /\ IsLink(d[b][k]) /\ Loc(r, i, NDirect + k) = Address(d[b][k])
             /\ Address(d[b][k]) \in Links
  <2>1. Mappable(r, X, U, i) /\ k \in 0 .. (BSize - 1) /\ b = r.ip[i].din.addrs[NDirect] /\ b # 0
    BY <1>1
  <2>2. /\ Accounted(Inodes(r), d, U) /\ i \in Inums /\ Inodes(r)[i] = r.ip[i].din
    BY <2>1, SoundIs DEF Mappable
  <2>3. b \in DataBlocks /\ b \in Blocks
    BY <2>1, <2>2, AddrsAre, Sizes DEF Accounted, Links
  <2>4. Data(r, b) = d[b]
    BY <1>1, <2>3, DataSame
  <2>5. IsLink(d[b][k])
    BY <2>1, <2>2 DEF Accounted, Linked
  <2>6. ~ (NDirect + k < NDirect) /\ NDirect + k # MaxFile /\ (NDirect + k) - NDirect = k
    BY <2>1, Sizes
  <2>7. Loc(r, i, NDirect + k) = Address(d[b][k])
    BY <2>1, <2>2, <2>6 DEF Loc, Addr
  <2>8. Address(d[b][k]) \in Links
    BY <2>5 DEF IsLink, Address, Links
  <2> QED BY <2>1, <2>3, <2>4, <2>5, <2>7, <2>8
<1>2. CASE Halted(r)
  <2>1. m.w = r
    BY <1>2 DEF EntryIn
  <2>2. Have(r, Nobody, Nobody) /\ ~ Live(r)
    BY <1>2, HaltedHave
  <2> QED BY <2>1, <2>2
<1>3. CASE ~ Halted(r) /\ Data(r, b)[k] # Zero
  <2>1. m.w = Brelease(r, b) /\ m.b = Address(Data(r, b)[k])
    BY <1>3 DEF EntryIn
  <2>2. Have(m.w, Nobody, Nobody) /\ (Live(m.w) => Same(r, m.w))
    <3> HIDE DEF m
    <3> QED BY <2>1, BreleaseSame
  <2>3. ASSUME Live(m.w)
        PROVE  Live(r) /\ Mappable(m.w, X, U, i) /\ Mapped(r, m.w, i, NDirect + k, m.b)
    <3>1. Live(r) /\ Same(r, m.w)
      BY <2>2, <2>3 DEF Same
    <3>2. m.b = Loc(r, i, NDirect + k) /\ m.b \in Links /\ Mappable(r, X, U, i)
      BY <1>1, <2>1, <3>1
    <3> HIDE DEF m
    <3> QED BY <3>1, <3>2, SameMaps
  <2> QED BY <2>2, <2>3
<1>4. CASE ~ Halted(r) /\ Data(r, b)[k] = Zero
  <2>1. m = SetEntry(got, b, k)
    BY <1>4 DEF EntryIn
  <2>2. Have(got.w, Id(b), Nobody) /\ (Live(got.w) => Took(r, got))
    BY BallocTakes
  <2> HIDE DEF got
  <2>3. CASE got.b = 0
    <3>1. m.w = Brelease(got.w, b) /\ m.b = 0
      BY <2>1, <2>3 DEF SetEntry
    <3> HIDE DEF m
    <3>2. Have(m.w, Nobody, Nobody) /\ (Live(m.w) => Same(got.w, m.w))
      BY <2>2, <3>1, BreleaseSame
    <3>3. ASSUME Live(m.w)
          PROVE  Live(r) /\ Mappable(m.w, X, U, i) /\ Mapped(r, m.w, i, NDirect + k, m.b)
      <4>1. Same(got.w, m.w) /\ Took(r, got)
        BY <2>2, <3>2, <3>3 DEF Same
      <4>2. Live(r)
        BY <4>1 DEF Took
      <4>3. 0 \in d[BmapStart]
        BY <1>1, <4>2, SoundIs DEF Mappable
      <4>4. Same(r, m.w)
        BY <2>3, <4>1, <4>3 DEF Took, Same
      <4>5. m.b = Loc(r, i, NDirect + k) /\ m.b \in Links /\ Mappable(r, X, U, i)
        BY <1>1, <1>4, <3>1, <4>2 DEF Address, Links
      <4> QED BY <4>2, <4>4, <4>5, SameMaps
    <3> QED BY <3>2, <3>3 DEF m
  <2>4. CASE got.b # 0
    <3>1. m.w = Brelease(SetData(got.w, b, set), b) /\ m.b = got.b
      BY <2>1, <2>4 DEF SetEntry
    <3> HIDE DEF m
    <3>2. Have(m.w, Nobody, Nobody) /\ (Live(m.w) => Poked(got.w, m.w, b, set))
      <4> HIDE DEF set
      <4> QED BY <2>2, <3>1, StoreSame
    <3>3. ASSUME Live(m.w)
          PROVE  Live(r) /\ Mappable(m.w, X, U, i) /\ Mapped(r, m.w, i, NDirect + k, m.b)
      <4>1. Poked(got.w, m.w, b, set) /\ Took(r, got) /\ Live(got.w)
        BY <2>2, <3>2, <3>3 DEF Poked
      <4>2. Live(r) /\ got.b \in Blocks \ d[BmapStart] /\ Disk(got.w) = Marking(d, got.b) /\ got.w.ip = r.ip
        BY <2>4, <4>1 DEF Took
      <4>3. Mappable(r, X, U, i) /\ k \in 0 .. (BSize - 1) /\ b \in DataBlocks /\ b \in Blocks /\ d[b][k] = Zero
        BY <1>1, <1>4, <4>2
      <4>4. got.b \in DataBlocks
        BY <4>2, <4>3, SoundIs, NewIsData DEF Mappable
      <4>5. b # got.b /\ b # BmapStart /\ b = r.ip[i].din.addrs[NDirect] /\ b # 0
        <5>1. b = r.ip[i].din.addrs[NDirect] /\ b # 0
          BY <4>2
        <5>2. Loc(r, i, Addressed(NDirect)) = b /\ Addressed(NDirect) \in 0 .. MaxFile
          BY <4>3, <5>1, AddressedIs, Sizes
        <5>3. i \in Inums /\ Marked(Inodes(r), d)
          BY <4>3, SoundIs DEF Mappable, Accounted
        <5>4. b \in d[BmapStart]
          BY <4>3, <5>2, <5>3 DEF Loc, Marked, Holds
        <5> QED BY <4>2, <4>3, <5>1, <5>4, Sizes
      <4>6. Disk(got.w)[b] = d[b]
        BY <4>2, <4>3, <4>4, <4>5, MarkingIs, DiskIs
      <4>7. Data(got.w, b) = d[b]
        BY <2>2, <4>1, <4>3, <4>6, DataSame
      <4>8. Disk(m.w) = WithEntry(d, b, k, got.b) /\ m.w.ip = r.ip
        BY <4>1, <4>2, <4>7 DEF Poked, WithEntry
      <4>9. Mappable(m.w, X, U, i) /\ Mapped(r, m.w, i, NDirect + k, got.b)
        BY <4>2, <4>3, <4>5, <4>8, EntryMaps
      <4> QED BY <3>1, <4>2, <4>9
    <3> QED BY <3>2, <3>3 DEF m
  <2> QED BY <2>3, <2>4
<1> QED BY <1>2, <1>3, <1>4

-----------------------------------------------------------------------------
(* bmap, update and trunc, and the copies of inodes in memory (iget,      *)
(* lock).                                                                 *)

(* What is mapped through the indirect block needs that block.             *)
LEMMA ThroughIndirect ==
  ASSUME NEW v, NEW X, NEW U, NEW i, NEW bn, Mappable(v, X, U, i), ~ (bn < NDirect), bn # MaxFile
  PROVE  Loc(v, i, bn) # 0 => v.ip[i].din.addrs[NDirect] # 0 /\ Loc(v, i, MaxFile) # 0
<1>1. Inodes(v)[i] = v.ip[i].din
  BY SoundIs DEF Mappable
<1>2. ~ (MaxFile < NDirect)
  BY Sizes
<1> QED BY <1>1, <1>2 DEF Loc, Addr

(* Two steps of a lookup: the indirect block, then its entry.              *)
LEMMA ThenMapped ==
  ASSUME NEW v, NEW s, NEW r, NEW u, NEW X, NEW U, NEW i, NEW bn, NEW b1, NEW b2,
         Mappable(v, X, U, i), ~ (bn < NDirect), bn # MaxFile,
         Mapped(v, s, i, MaxFile, b1), Same(s, r), Mapped(r, u, i, bn, b2)
  PROVE  Mapped(v, u, i, bn, b2)
<1>1. r.ip = s.ip /\ Disk(r) = Disk(s)
  BY DEF Same
<1>2. \A j, l : Loc(r, j, l) = Loc(s, j, l)
  BY <1>1 DEF Loc, Inodes
<1>3. OnlyAddrs(v.ip, u.ip)
  BY <1>1 DEF Mapped, OnlyAddrs
<1>4. \A j \in Inums, l \in 0 .. MaxFile : Loc(v, j, l) # 0 => Loc(u, j, l) = Loc(v, j, l)
  BY <1>2 DEF Mapped
<1>5. ASSUME Loc(v, i, bn) # 0 PROVE u.ip = v.ip /\ Disk(u) = Disk(v)
  <2>1. Loc(v, i, MaxFile) # 0
    BY <1>5, ThroughIndirect
  <2>2. s.ip = v.ip /\ Disk(s) = Disk(v)
    BY <2>1 DEF Mapped
  <2>3. Loc(r, i, bn) # 0
    BY <1>2, <1>5, <2>2 DEF Loc, Inodes
  <2> QED BY <1>1, <2>2, <2>3 DEF Mapped
<1>6. b2 = Loc(u, i, bn) /\ b2 \in Links
  BY DEF Mapped
<1> QED BY <1>3, <1>4, <1>5, <1>6 DEF Mapped

(* A file of indirect blocks that gets no indirect block.                  *)
LEMMA NoIndirect ==
  ASSUME NEW v, NEW s, NEW X, NEW U, NEW i, NEW bn,
         Mappable(v, X, U, i), Mappable(s, X, U, i), ~ (bn < NDirect), bn # MaxFile,
         Mapped(v, s, i, MaxFile, 0)
  PROVE  Mapped(v, s, i, bn, 0)
<1>1. Loc(s, i, bn) = 0
  BY ThroughIndirect DEF Mapped
<1>2. Loc(v, i, bn) # 0 => Loc(v, i, MaxFile) # 0
  BY ThroughIndirect
<1> QED BY <1>1, <1>2 DEF Mapped

(* bmap gives the block of the file, and may allocate it.                  *)
Bmapped(v, m, X, U, i, bn) ==
  Live(v) /\ Mappable(m.w, X, U, i) /\ Mapped(v, m.w, i, bn, m.b)

(* bmap returns the block of a number, which it keeps mapped; what it     *)
(* allocates is accounted for.                                            *)
LEMMA BmapMaps ==
  ASSUME NEW v, NEW i, NEW bn, NEW X, NEW U, Have(v, Nobody, Nobody),
         Live(v) => /\ Mappable(v, X, U, i) /\ bn \in 0 .. (MaxFile - 1)
                    /\ i \in X \cup {Root} \/ Loc(v, i, bn) # 0
  PROVE  /\ Have(Bmap(v, i, bn).w, Nobody, Nobody)
         /\ Live(Bmap(v, i, bn).w) => Bmapped(v, Bmap(v, i, bn), X, U, i, bn)
<1> DEFINE m == Bmap(v, i, bn)
<1>1. CASE bn < NDirect
  <2>1. m = Direct(v, i, bn)
    BY <1>1 DEF Bmap
  <2>2. bn \in 0 .. (MaxFile - 1) => Addressed(bn) = bn /\ bn \in 0 .. NDirect
    BY <1>1, Sizes DEF Addressed
  <2>3. Live(v) => /\ Mappable(v, X, U, i) /\ bn \in 0 .. NDirect
                   /\ i \in X \cup {Root} \/ v.ip[i].din.addrs[bn] # 0
    BY <2>2, AddressedIs
  <2>4. /\ Have(Direct(v, i, bn).w, Nobody, Nobody)
        /\ Live(Direct(v, i, bn).w) =>
              /\ Live(v) /\ Mappable(Direct(v, i, bn).w, X, U, i)
              /\ Mapped(v, Direct(v, i, bn).w, i, Addressed(bn), Direct(v, i, bn).b)
    BY <2>3, DirectMaps
  <2> QED BY <2>1, <2>2, <2>3, <2>4 DEF Bmapped
<1>2. CASE ~ (bn < NDirect) /\ bn < MaxFile
  <2> DEFINE ind == Direct(v, i, NDirect)
             r == Bread(ind.w, ind.b)
             k == bn - NDirect
             e == EntryIn(r, ind.b, k)
  <2>1. m = Indirect(ind, k)
    BY <1>2 DEF Bmap
  <2>2. Live(v) => /\ Mappable(v, X, U, i) /\ NDirect \in 0 .. NDirect
                   /\ i \in X \cup {Root} \/ v.ip[i].din.addrs[NDirect] # 0
    BY <1>2, Sizes, ThroughIndirect
  <2>3. Addressed(NDirect) = MaxFile
    BY DEF Addressed
  <2>4. /\ Have(ind.w, Nobody, Nobody)
        /\ Live(ind.w) => Live(v) /\ Mappable(ind.w, X, U, i) /\ Mapped(v, ind.w, i, MaxFile, ind.b)
    BY <2>2, <2>3, DirectMaps
  <2> HIDE DEF ind
  <2>5. CASE ind.b = 0
    <3>1. m = ind
      BY <2>1, <2>5 DEF Indirect
    <3>2. Live(ind.w) => Mapped(v, ind.w, i, bn, 0)
      BY <1>2, <2>2, <2>4, <2>5, NoIndirect
    <3> QED BY <2>4, <2>5, <3>1, <3>2 DEF Bmapped
  <2>6. CASE ind.b # 0
    <3>1. m = e
      BY <2>1, <2>6 DEF Indirect
    <3>2. Live(ind.w) => ind.b \in Blocks /\ ind.b = ind.w.ip[i].din.addrs[NDirect] /\ bn \in 0 .. (MaxFile - 1)
      <4>1. Live(ind.w) => ind.b = Loc(ind.w, i, Addressed(NDirect)) /\ ind.b \in Links
        BY <2>3, <2>4 DEF Mapped
      <4>2. Live(ind.w) => Loc(ind.w, i, Addressed(NDirect)) = ind.w.ip[i].din.addrs[NDirect]
        BY <2>2, <2>4, AddressedIs
      <4> QED BY <2>4, <2>6, <4>1, <4>2, Sizes DEF Links
    <3>3. Have(r, Id(ind.b), Nobody) /\ (Live(r) => Same(ind.w, r))
      BY <2>4, <3>2, BreadSame
    <3>4. Live(r) => Live(ind.w) /\ r.ip = ind.w.ip /\ Disk(r) = Disk(ind.w)
      BY <3>3 DEF Same
    <3> HIDE DEF r
    <3>5. Live(r) => /\ Mappable(r, X, U, i) /\ k \in 0 .. (BSize - 1)
                     /\ ind.b = r.ip[i].din.addrs[NDirect] /\ ind.b # 0
      <4>1. bn \in 0 .. (MaxFile - 1) => k \in 0 .. (BSize - 1)
        BY <1>2, Sizes
      <4>2. Live(r) => Mappable(r, X, U, i)
        BY <2>4, <3>4 DEF Mappable, Sound
      <4> QED BY <2>6, <3>2, <3>4, <4>1, <4>2
    <3> HIDE DEF k
    <3>6. /\ Have(e.w, Nobody, Nobody)
          /\ Live(e.w) => /\ Live(r) /\ Mappable(e.w, X, U, i) /\ Mapped(r, e.w, i, NDirect + k, e.b)
      BY <3>3, <3>5, EntryInMaps
    <3>7. bn \in 0 .. (MaxFile - 1) => NDirect + k = bn /\ bn # MaxFile
      BY <1>2, Sizes DEF k
    <3>8. ASSUME Live(e.w) PROVE Bmapped(v, e, X, U, i, bn)
      <4>1. Live(r) /\ Live(ind.w) /\ Live(v) /\ Same(ind.w, r) /\ NDirect + k = bn /\ bn # MaxFile
        BY <2>4, <3>2, <3>3, <3>4, <3>6, <3>7, <3>8
      <4>2. Mapped(v, ind.w, i, MaxFile, ind.b) /\ Mapped(r, e.w, i, bn, e.b) /\ Mappable(v, X, U, i)
        BY <2>2, <2>4, <3>6, <3>8, <4>1
      <4> HIDE DEF e
      <4>3. Mapped(v, e.w, i, bn, e.b)
        BY <1>2, <4>1, <4>2, ThenMapped
      <4> QED BY <3>6, <3>8, <4>1, <4>3 DEF Bmapped
    <3> QED BY <3>1, <3>6, <3>8
  <2> QED BY <2>5, <2>6
<1>3. CASE ~ (bn < NDirect) /\ ~ (bn < MaxFile)
  <2>1. m.w = Stop(v, "bmap")
    BY <1>3 DEF Bmap
  <2>2. ~ Live(v)
    BY <1>3, Sizes
  <2>3. "bmap" \notin {"buffers", NoPanic}
    BY DEF NoPanic
  <2> HIDE DEF m
  <2> QED BY <2>1, <2>2, <2>3, StopHave DEF m
<1> QED BY <1>1, <1>2, <1>3

-----------------------------------------------------------------------------
(* update, trunc.                                                          *)

(* The inode in memory is what is on the disk.                             *)
Saved(v, u, i) == Live(v) /\ u.ip = v.ip /\ Disk(u) = Stored(Disk(v), i, v.ip[i].din)

(* update stores the inode as it is in memory.                            *)
LEMMA UpdateSaves ==
  ASSUME NEW v, NEW i, Have(v, Nobody, Nobody), Live(v) => i \in Inums
  PROVE  /\ Have(Update(v, i), Nobody, Nobody)
         /\ Live(Update(v, i)) => Saved(v, Update(v, i), i)
<1> DEFINE b == IBlock(i)
           r == Bread(v, b)
           new == [Data(r, b) EXCEPT ![i % IPB] = r.ip[i].din]
           u == Brelease(SetData(r, b, new), b)
<1>1. Live(v) => b \in Blocks
  BY InodePlace
<1>2. Update(v, i) = u
  BY DEF Update, CopyOut
<1> HIDE DEF b
<1>3. Have(r, Id(b), Nobody) /\ (Live(r) => Same(v, r))
  BY <1>1, BreadSame
<1>4. Live(r) => Data(r, b) = Disk(v)[b]
  BY <1>1, <1>3, DataSame DEF Same
<1> HIDE DEF r, new
<1>5. Have(u, Nobody, Nobody) /\ (Live(u) => Poked(r, u, b, new))
  BY <1>3, StoreSame
<1>6. ASSUME Live(u) PROVE Saved(v, u, i)
  <2>1. Poked(r, u, b, new) /\ Live(r) /\ Same(v, r)
    BY <1>3, <1>5, <1>6 DEF Poked
  <2>2. new = [Disk(v)[b] EXCEPT ![i % IPB] = v.ip[i].din]
    BY <1>4, <2>1 DEF new, Same
  <2> QED BY <2>1, <2>2 DEF Poked, Same, Saved, Stored, b
<1> QED BY <1>2, <1>5, <1>6

(* One inode changes, in memory and on the disk.                           *)
LEMMA PlaceSound ==
  ASSUME NEW u, NEW ip, NEW d, NEW X, NEW Y, NEW U, IsDisk(d), Memory(ip, d, X), NEW i \in Inums,
         NEW c \in Copies, NEW r \in InodeSet, Used(c) => c.din.type # "free",
         i \in Files \ Y => Synced(c, r), i = Root => c.ref > 0 /\ r.type # "free", X \ {i} \subseteq Y,
         u.ip = [ip EXCEPT ![i] = c], Disk(u) = Stored(d, i, r),
         Accounted(With(Table(ip, d), i, IF Used(c) THEN c.din ELSE r), d, U)
  PROVE  Sound(u, Y, U)
<1>1. Placed(ip, d, i, c, r, Y)
  BY MemoryAt
<1>2. Agree(d, Stored(d, i, r))
  BY StoredIs
<1>3. Accounted(Table(u.ip, Disk(u)), Disk(u), U)
  BY <1>1, <1>2, AccountedAgrees DEF Placed
<1> QED BY <1>1, <1>3 DEF Sound, Sane, Placed

(* A copy with another inode in it.                                        *)
Redin(c, din) == [c EXCEPT !.din = din]

(* A copy in memory with new contents.                                    *)
LEMMA RedinIs ==
  ASSUME NEW c \in Copies, NEW din \in InodeSet
  PROVE  /\ Redin(c, din) \in Copies /\ Redin(c, din).din = din
         /\ Redin(c, din).ref = c.ref /\ Redin(c, din).valid = c.valid
BY DEF Redin, Copies

(* Inode i of v becomes din, in memory and on the disk.                    *)
Restated(v, u, i, din, X, U) ==
  Live(v) /\ u.ip = [v.ip EXCEPT ![i] = Redin(v.ip[i], din)] /\ Sound(u, X, U)

(* A change of an inode in memory followed by update keeps the file       *)
(* system sound (setNlink, write, trunc).                                 *)
LEMMA RestateSound ==
  ASSUME NEW v, NEW i, NEW din, NEW X, NEW U, NEW U2, Have(v, Nobody, Nobody),
         Live(v) => /\ Mappable(v, X, U, i) /\ din \in InodeSet /\ din.type # "free"
                    /\ Accounted(With(Inodes(v), i, din), Disk(v), U2)
  PROVE  LET u == Update(WithIp(v, [v.ip EXCEPT ![i] = Redin(v.ip[i], din)]), i)
         IN Have(u, Nobody, Nobody) /\ (Live(u) => Restated(v, u, i, din, X \ {i}, U2))
<1> DEFINE c == Redin(v.ip[i], din)
           ip == [v.ip EXCEPT ![i] = c]
           s == WithIp(v, ip)
           u == Update(s, i)
<1> HIDE DEF c
<1>1. /\ Have(s, Nobody, Nobody) /\ Disk(s) = Disk(v) /\ (Live(s) <=> Live(v)) /\ s.ip = ip
  BY IpHave
<1> HIDE DEF s, ip
<1>2. Live(s) => i \in Inums
  BY <1>1 DEF Mappable
<1>3. Have(u, Nobody, Nobody) /\ (Live(u) => Saved(s, u, i))
  BY <1>1, <1>2, UpdateSaves
<1> HIDE DEF u
<1>4. ASSUME Live(u) PROVE Restated(v, u, i, din, X \ {i}, U2)
  <2>1. Saved(s, u, i) /\ Live(v)
    BY <1>1, <1>3, <1>4 DEF Saved
  <2>2. /\ Mappable(v, X, U, i) /\ din \in InodeSet /\ din.type # "free"
        /\ Accounted(With(Inodes(v), i, din), Disk(v), U2)
    BY <2>1
  <2>3. Memory(v.ip, Disk(v), X) /\ v.ip \in [Inums -> Copies] /\ i \in Inums /\ Used(v.ip[i])
    BY <2>2, SoundIs DEF Mappable
  <2>4. c \in Copies /\ c.din = din /\ c.ref = v.ip[i].ref /\ c.valid = v.ip[i].valid
    BY <2>2, <2>3, RedinIs DEF c
  <2>5. u.ip = ip /\ ip[i] = c
    BY <1>1, <2>1, <2>3 DEF Saved, ip
  <2>6. Disk(u) = Stored(Disk(v), i, din)
    BY <1>1, <2>1, <2>4, <2>5 DEF Saved
  <2>7. Used(c) /\ c.ref > 0 /\ Synced(c, din)
    BY <2>3, <2>4 DEF Used, Synced
  <2>8. Sound(u, X \ {i}, U2)
    <3>1. IsDisk(Disk(v))
      BY DiskIs
    <3>2. Accounted(With(Table(v.ip, Disk(v)), i, IF Used(c) THEN c.din ELSE din), Disk(v), U2)
      BY <2>2, <2>4 DEF Inodes
    <3>3. u.ip = [v.ip EXCEPT ![i] = c]
      BY <2>5 DEF ip
    <3>4. Used(c) => c.din.type # "free"
      BY <2>2, <2>4
    <3> QED BY <2>2, <2>3, <2>4, <2>6, <2>7, <3>1, <3>2, <3>3, <3>4, PlaceSound
  <2> QED BY <2>1, <2>5, <2>8 DEF Restated, ip, c
<1> QED BY <1>3, <1>4 DEF u, s, ip, c

(* The addresses of an inode: direct ones, entries of the indirect block,  *)
(* and that block.                                                         *)
LEMMA AddrDirect ==
  ASSUME NEW F, NEW d, NEW i, NEW k \in 0 .. (NDirect - 1)
  PROVE  k \in 0 .. MaxFile /\ Addr(F, d, i, k) = F[i].addrs[k]
<1>1. k \in 0 .. MaxFile /\ k < NDirect
  BY Sizes
<1> QED BY <1>1 DEF Addr

(* The last block number stands for the indirect block.                   *)
LEMMA AddrLast ==
  ASSUME NEW F, NEW d, NEW i
  PROVE  MaxFile \in 0 .. MaxFile /\ Addr(F, d, i, MaxFile) = F[i].addrs[NDirect]
<1>1. ~ (MaxFile < NDirect) /\ MaxFile \in 0 .. MaxFile
  BY Sizes
<1> QED BY <1>1 DEF Addr

(* The block numbers from NDIRECT on are the entries of the indirect      *)
(* block.                                                                 *)
LEMMA AddrEntry ==
  ASSUME NEW F, NEW d, NEW i, NEW k \in 0 .. (BSize - 1)
  PROVE  /\ NDirect + k \in 0 .. MaxFile /\ NDirect + k # MaxFile
         /\ ~ (NDirect + k \in 0 .. (NDirect - 1))
         /\ Addr(F, d, i, NDirect + k) = IF F[i].addrs[NDirect] = 0 THEN 0
                                         ELSE Address(d[F[i].addrs[NDirect]][k])
<1>1. /\ NDirect + k \in 0 .. MaxFile /\ NDirect + k # MaxFile
      /\ ~ (NDirect + k < NDirect) /\ (NDirect + k) - NDirect = k
      /\ ~ (NDirect + k \in 0 .. (NDirect - 1))
  BY Sizes
<1> QED BY <1>1 DEF Addr

(* A block number is a direct one, an entry of the indirect block, or     *)
(* the block itself.                                                      *)
LEMMA AddrParts ==
  ASSUME NEW k \in 0 .. MaxFile, ~ (k \in 0 .. (NDirect - 1)), k # MaxFile
  PROVE  \E m \in 0 .. (BSize - 1) : k = NDirect + m
<1>1. k - NDirect \in 0 .. (BSize - 1) /\ k = NDirect + (k - NDirect)
  BY Sizes
<1> QED BY <1>1

(* What trunc frees are all the addresses of the inode.                    *)
LEMMA FreedAreHeld ==
  ASSUME NEW F, NEW d, NEW U, Accounted(F, d, U), NEW i \in Inums
  PROVE  Listed(F[i].addrs, NDirect) \cup Indirectly(d, F[i].addrs[NDirect]) =
           {b \in DataBlocks : \E k \in 0 .. MaxFile : b = Addr(F, d, i, k)}
<1> DEFINE a == F[i].addrs
           ind == a[NDirect]
           L == Listed(a, NDirect)
           I == Indirectly(d, ind)
           All == {b \in DataBlocks : \E k \in 0 .. MaxFile : b = Addr(F, d, i, k)}
<1>1. \A k \in 0 .. MaxFile : Addr(F, d, i, k) \in Links
  BY AddrIsLink DEF Accounted
<1>2. 0 \notin DataBlocks
  BY Sizes
<1>3. NIndirect = BSize
  BY Sizes
<1>4. \A b \in L : b \in All
  <2> TAKE b \in L
  <2>1. PICK k \in 0 .. (NDirect - 1) : b = a[k] /\ b # 0
    BY DEF Listed
  <2>2. k \in 0 .. MaxFile /\ Addr(F, d, i, k) = b
    BY <2>1, AddrDirect
  <2> QED BY <1>1, <2>1, <2>2 DEF Links
<1>5. \A b \in I : b \in All
  <2> TAKE b \in I
  <2>0. ind # 0
    BY DEF Indirectly
  <2>1. CASE b = ind
    <3>1. Addr(F, d, i, MaxFile) = b /\ MaxFile \in 0 .. MaxFile
      BY <2>1, AddrLast
    <3> QED BY <1>1, <2>0, <2>1, <3>1 DEF Links
  <2>2. CASE b # ind
    <3>1. b \in Listed(Words(d, ind), NIndirect)
      BY <2>0, <2>2 DEF Indirectly
    <3>2. PICK k \in 0 .. (BSize - 1) : b = Address(d[ind][k]) /\ b # 0
      BY <1>3, <3>1 DEF Listed, Words
    <3>3. NDirect + k \in 0 .. MaxFile /\ Addr(F, d, i, NDirect + k) = b
      BY <2>0, <3>2, AddrEntry
    <3> QED BY <1>1, <3>2, <3>3 DEF Links
  <2> QED BY <2>1, <2>2
<1>6. \A b \in All : b \in L \cup I
  <2> TAKE b \in All
  <2>1. PICK k \in 0 .. MaxFile : b = Addr(F, d, i, k) /\ b # 0
    BY <1>2
  <2>2. CASE k \in 0 .. (NDirect - 1)
    <3>1. b = a[k]
      BY <2>1, <2>2, AddrDirect
    <3> QED BY <2>1, <2>2, <3>1 DEF Listed
  <2>3. CASE k = MaxFile
    <3>1. b = ind
      BY <2>1, <2>3, AddrLast
    <3> QED BY <2>1, <3>1 DEF Indirectly
  <2>4. CASE \E m \in 0 .. (BSize - 1) : k = NDirect + m
    <3>1. PICK m \in 0 .. (BSize - 1) : k = NDirect + m
      BY <2>4
    <3>2. ind # 0 /\ b = Address(d[ind][m])
      BY <2>1, <3>1, AddrEntry
    <3>3. b \in Listed(Words(d, ind), NIndirect)
      BY <1>3, <2>1, <3>2 DEF Listed, Words
    <3> QED BY <3>2, <3>3 DEF Indirectly
  <2> QED BY <2>2, <2>3, <2>4, AddrParts
<1> HIDE DEF L, I, All
<1>7. L \cup I = All
  BY <1>4, <1>5, <1>6
<1> QED BY <1>7 DEF L, I, All, ind, a

(* Every block of a file is marked, and is one block of the file only.     *)
LEMMA DirectListable ==
  ASSUME NEW F, NEW d, NEW U, Accounted(F, d, U), NEW i \in Inums
  PROVE  Listable(F[i].addrs, NDirect, d[BmapStart])
<1> SUFFICES ASSUME NEW k \in 0 .. (NDirect - 1), F[i].addrs[k] # 0
             PROVE  /\ F[i].addrs[k] \in d[BmapStart]
                    /\ \A l \in 0 .. (NDirect - 1) : F[i].addrs[l] = F[i].addrs[k] => l = k
  BY DEF Listable
<1>1. \A l \in 0 .. (NDirect - 1) : l \in 0 .. MaxFile /\ Addr(F, d, i, l) = F[i].addrs[l]
  BY AddrDirect
<1>2. Unshared(F, d) /\ Marked(F, d) /\ Addr(F, d, i, k) \in Links
  BY <1>1, AddrIsLink DEF Accounted
<1>3. \A l \in 0 .. (NDirect - 1) : F[i].addrs[l] = F[i].addrs[k] => l = k
  BY <1>1, <1>2 DEF Unshared
<1>4. F[i].addrs[k] \in Blocks
  BY <1>1, <1>2, Sizes DEF Links
<1> QED BY <1>1, <1>2, <1>3, <1>4 DEF Marked, Holds

(* After trunc freed the direct blocks, the indirect block and its        *)
(* entries are still marked, so bfree finds their bits set.               *)
LEMMA IndirectFreeable ==
  ASSUME NEW F, NEW d, NEW U, Accounted(F, d, U), NEW i \in Inums, NEW d1,
         d1[BmapStart] = d[BmapStart] \ Listed(F[i].addrs, NDirect),
         \A b \in DataBlocks : d1[b] = d[b]
  PROVE  Freeable(d1, F[i].addrs[NDirect])
<1> DEFINE ind == F[i].addrs[NDirect]
           W == Words(d1, ind)
<1> SUFFICES ASSUME ind # 0 PROVE Freeable(d1, ind)
  BY DEF Freeable
<1>1. Unshared(F, d) /\ Marked(F, d) /\ \A k \in 0 .. MaxFile : Addr(F, d, i, k) \in Links
  BY AddrIsLink DEF Accounted
<1>2. Addr(F, d, i, MaxFile) = ind /\ MaxFile \in 0 .. MaxFile
  BY AddrLast
<1>3. ind \in DataBlocks /\ ind \in Blocks \ {BmapStart}
  BY <1>1, <1>2, Sizes DEF Links
<1>4. d1[ind] = d[ind] /\ NIndirect = BSize
  BY <1>3, Sizes
<1>5. \A k \in 0 .. (BSize - 1) : /\ W[k] = Addr(F, d, i, NDirect + k)
                                  /\ NDirect + k \in 0 .. MaxFile /\ NDirect + k # MaxFile
                                  /\ ~ (NDirect + k \in 0 .. (NDirect - 1))
  BY <1>4, AddrEntry DEF Words
<1>6. \A k \in 0 .. MaxFile : Addr(F, d, i, k) # 0 => Addr(F, d, i, k) \in d[BmapStart]
  BY <1>1, Sizes DEF Marked, Holds, Links
<1>7. \A k \in 0 .. MaxFile : Addr(F, d, i, k) # 0 /\ ~ (k \in 0 .. (NDirect - 1)) =>
        Addr(F, d, i, k) \notin Listed(F[i].addrs, NDirect)
  <2> TAKE k \in 0 .. MaxFile
  <2> HAVE Addr(F, d, i, k) # 0 /\ ~ (k \in 0 .. (NDirect - 1))
  <2>1. \A l \in 0 .. (NDirect - 1) : l \in 0 .. MaxFile /\ Addr(F, d, i, l) = F[i].addrs[l]
    BY AddrDirect
  <2> QED BY <1>1, <2>1 DEF Unshared, Listed
<1>8. ind \in d1[BmapStart]
  <2>1. ~ (MaxFile \in 0 .. (NDirect - 1))
    BY Sizes
  <2> QED BY <1>2, <1>6, <1>7, <2>1
<1> HIDE DEF W
<1>9. ind \notin Listed(W, NIndirect)
  BY <1>1, <1>2, <1>4, <1>5 DEF Listed, Unshared
<1>10. ASSUME NEW k \in 0 .. (BSize - 1), W[k] # 0
       PROVE  W[k] \in d1[BmapStart] /\ \A l \in 0 .. (BSize - 1) : W[l] = W[k] => l = k
  <2>1. W[k] \in d1[BmapStart]
    BY <1>5, <1>6, <1>7, <1>10
  <2>2. \A l \in 0 .. (BSize - 1) : W[l] = W[k] => NDirect + l = NDirect + k
    BY <1>1, <1>5, <1>10 DEF Unshared
  <2> QED BY <2>1, <2>2, Sizes
<1>11. Listable(W, NIndirect, d1[BmapStart])
  BY <1>4, <1>10 DEF Listable
<1> QED BY <1>3, <1>8, <1>9, <1>11 DEF Freeable, W

(* The addresses and the size are gone.                                    *)
Emptying(din) == [din EXCEPT !.addrs = FreeInode.addrs, !.size = 0]

(* The inode trunc leaves: no block and size 0.                           *)
LEMMA EmptyingIs ==
  ASSUME NEW din \in InodeSet
  PROVE  /\ Emptying(din) \in InodeSet /\ Emptying(din).addrs = FreeInode.addrs
         /\ Emptying(din).size = 0 /\ Emptying(din).type = din.type /\ Emptying(din).nlink = din.nlink
<1>1. FreeInode.addrs \in [0 .. NDirect -> Links]
  BY DEF FreeInode, Links
<1>2. 0 \in 0 .. (MaxFile * BSize)
  BY Sizes
<1> HIDE DEF FreeInode
<1>3. Emptying(din) \in InodeSet
  BY <1>1, <1>2 DEF Emptying, InodeSet
<1> QED BY <1>3 DEF Emptying, InodeSet

(* The blocks of a file are not marked any more.                           *)
LEMMA FreedWorld ==
  ASSUME NEW v, NEW i, NEW X, NEW U, Have(v, Nobody, Nobody), Live(v) => Mappable(v, X, U, i)
  PROVE  LET a == v.ip[i].din.addrs
             u == FreeIndirect(FreeDirect(v, a), a[NDirect])
         IN /\ Have(u, Nobody, Nobody)
            /\ Live(u) => Unmarked(v, u, {b \in DataBlocks : \E k \in 0 .. MaxFile : b = Loc(v, i, k)})
<1> DEFINE a == v.ip[i].din.addrs
           t == FreeDirect(v, a)
           u == FreeIndirect(t, a[NDirect])
           d == Disk(v)
           L == Listed(a, NDirect)
           All == {b \in DataBlocks : \E k \in 0 .. MaxFile : b = Loc(v, i, k)}
<1>1. Live(v) => Accounted(Inodes(v), d, U) /\ i \in Inums /\ Inodes(v)[i].addrs = a
  BY SoundIs DEF Mappable
<1>2. t = FreeAll(v, a, NDirect) /\ NDirect \in Nat
  BY Sizes DEF FreeDirect
<1>3. Live(v) => Listable(a, NDirect, d[BmapStart])
  BY <1>1, DirectListable
<1> HIDE DEF t, a
<1>4. Have(t, Nobody, Nobody) /\ (Live(t) => Unmarked(v, t, L))
  BY <1>2, <1>3, FreeAllUnmarks
<1>5. ASSUME Live(t)
      PROVE  /\ Live(v) /\ t.ip = v.ip /\ Disk(t)[BmapStart] = d[BmapStart] \ L
             /\ \A b \in DataBlocks : Disk(t)[b] = d[b]
             /\ Disk(t) = [d EXCEPT ![BmapStart] = d[BmapStart] \ L]
  <2>1. Live(v) /\ t.ip = v.ip /\ Disk(t) = [d EXCEPT ![BmapStart] = d[BmapStart] \ L]
    BY <1>4, <1>5 DEF Unmarked, Poked
  <2>2. IsDisk(d) /\ BmapStart \in Blocks
    BY DiskIs, Layout
  <2> HIDE DEF d, L
  <2> QED BY <2>1, <2>2, Sizes DEF IsDisk
<1> HIDE DEF L, d
<1>6. Live(t) => Freeable(Disk(t), a[NDirect])
  <2> SUFFICES ASSUME Live(t) PROVE Freeable(Disk(t), a[NDirect])
    OBVIOUS
  <2>1. /\ Accounted(Inodes(v), d, U) /\ i \in Inums /\ Inodes(v)[i].addrs = a
        /\ Disk(t)[BmapStart] = d[BmapStart] \ Listed(Inodes(v)[i].addrs, NDirect)
        /\ \A b \in DataBlocks : Disk(t)[b] = d[b]
    BY <1>1, <1>5 DEF L
  <2>2. Freeable(Disk(t), Inodes(v)[i].addrs[NDirect])
    BY <2>1, IndirectFreeable
  <2> QED BY <2>1, <2>2
<1>7. Have(u, Nobody, Nobody) /\ (Live(u) => Unmarked(t, u, Indirectly(Disk(t), a[NDirect])))
  BY <1>4, <1>6, FreeIndirectUnmarks
<1>8. ASSUME Live(u) PROVE Unmarked(v, u, All)
  <2>1. /\ Live(t) /\ u.ip = t.ip
        /\ Disk(u) = [Disk(t) EXCEPT ![BmapStart] = Disk(t)[BmapStart] \ Indirectly(Disk(t), a[NDirect])]
    BY <1>7, <1>8 DEF Unmarked, Poked
  <2>2. Indirectly(Disk(t), a[NDirect]) = Indirectly(d, a[NDirect])
    <3>1. a[NDirect] # 0 => a[NDirect] \in DataBlocks
      BY <1>1, <1>5, <2>1, AddrsAre DEF Accounted, Links
    <3> QED BY <1>5, <2>1, <3>1 DEF Indirectly, Words
  <2>3. L \cup Indirectly(d, a[NDirect]) = All
    <3>1. Listed(Inodes(v)[i].addrs, NDirect) \cup Indirectly(d, Inodes(v)[i].addrs[NDirect]) =
            {b \in DataBlocks : \E k \in 0 .. MaxFile : b = Addr(Inodes(v), d, i, k)}
      BY <1>1, <1>5, <2>1, FreedAreHeld
    <3> QED BY <1>1, <1>5, <2>1, <3>1 DEF L, Loc, d
  <2>4. (d[BmapStart] \ L) \ Indirectly(d, a[NDirect]) = d[BmapStart] \ All
    BY <2>3
  <2> HIDE DEF All
  <2>5. Disk(u) = [d EXCEPT ![BmapStart] = d[BmapStart] \ All]
    BY <1>5, <2>1, <2>2, <2>4
  <2> QED BY <1>5, <2>1, <2>5 DEF Unmarked, Poked, d
<1> QED BY <1>7, <1>8 DEF t, a

(* trunc                                                                   *)
LEMMA TruncSound ==
  ASSUME NEW v, NEW i, NEW X, NEW U, Have(v, Nobody, Nobody), Live(v) => Mappable(v, X, U, i)
  PROVE  /\ Have(Trunc(v, i), Nobody, Nobody)
         /\ Live(Trunc(v, i)) =>
              Restated(v, Trunc(v, i), i, Emptying(v.ip[i].din), X \ {i}, U)
<1> DEFINE a == v.ip[i].din.addrs
           t == FreeIndirect(FreeDirect(v, a), a[NDirect])
           s == Emptied(t, i)
           u == Update(s, i)
           d == Disk(v)
           All == {b \in DataBlocks : \E k \in 0 .. MaxFile : b = Loc(v, i, k)}
           ip == [t.ip EXCEPT ![i] = Redin(t.ip[i], Emptying(t.ip[i].din))]
<1>1. Trunc(v, i) = u
  BY DEF Trunc
<1>2. Have(t, Nobody, Nobody) /\ (Live(t) => Unmarked(v, t, All))
  BY FreedWorld
<1> HIDE DEF t
<1>3. s = WithIp(t, ip)
  BY DEF Emptied, WithIp, Redin, Emptying
<1> HIDE DEF s, ip
<1>4. Have(s, Nobody, Nobody) /\ Disk(s) = Disk(t) /\ (Live(s) <=> Live(t)) /\ s.ip = ip
  BY <1>2, <1>3, IpHave
<1>5. Live(s) => Live(v) /\ i \in Inums
  BY <1>2, <1>4 DEF Unmarked, Poked, Mappable
<1>6. Have(u, Nobody, Nobody) /\ (Live(u) => Saved(s, u, i))
  BY <1>4, <1>5, UpdateSaves
<1> HIDE DEF u
<1>7. ASSUME Live(u) PROVE Restated(v, u, i, Emptying(v.ip[i].din), X \ {i}, U)
  <2> DEFINE din == Emptying(v.ip[i].din)
             c == Redin(v.ip[i], din)
             d2 == Disk(t)
  <2>1. Saved(s, u, i) /\ Live(s) /\ Live(t) /\ Live(v) /\ Unmarked(v, t, All) /\ Mappable(v, X, U, i)
    BY <1>2, <1>4, <1>5, <1>6, <1>7 DEF Saved
  <2>2. /\ Accounted(Inodes(v), d, U) /\ Memory(v.ip, d, X) /\ v.ip \in [Inums -> Copies]
        /\ i \in Inums /\ Used(v.ip[i]) /\ Inodes(v)[i] = v.ip[i].din
    BY <2>1, SoundIs DEF Mappable
  <2>3. v.ip[i].din \in InodeSet /\ v.ip[i] \in Copies /\ v.ip[i].din.type # "free"
    BY <2>2 DEF Copies, Memory
  <2>4. /\ din \in InodeSet /\ din.addrs = FreeInode.addrs /\ din.size = 0
        /\ din.type = v.ip[i].din.type /\ din.nlink = v.ip[i].din.nlink
    BY <2>3, EmptyingIs
  <2> HIDE DEF din, d, d2
  <2>5. c \in Copies /\ c.din = din /\ c.ref = v.ip[i].ref /\ c.valid = v.ip[i].valid
    BY <2>3, <2>4, RedinIs
  <2>6. t.ip = v.ip /\ d2 = [d EXCEPT ![BmapStart] = d[BmapStart] \ All]
    BY <2>1 DEF Unmarked, Poked, d, d2
  <2>7. u.ip = [v.ip EXCEPT ![i] = c]
    BY <1>4, <2>1, <2>6 DEF Saved, ip, din
  <2>8. Disk(u) = Stored(d2, i, din)
    BY <1>4, <2>1, <2>2, <2>5, <2>6 DEF Saved, ip, d2, din
  <2>9. IsDisk(d) /\ IsDisk(d2)
    BY DiskIs DEF d, d2
  <2>10. d2[BmapStart] = d[BmapStart] \ All /\ \A b \in DataBlocks : d2[b] = d[b]
    BY <2>6, <2>9, Sizes, Layout DEF IsDisk
  <2>11. SameInodes(d, d2)
    BY <2>6, <2>9, PokedInodes
  <2>12. Memory(v.ip, d2, X) /\ Table(v.ip, d2) = Inodes(v)
    BY <2>2, <2>11, MemoryData DEF Inodes, d
  <2>13. Accounted(With(Inodes(v), i, din), d2, U)
    <3>1. d2[BmapStart] = d[BmapStart] \ {b \in DataBlocks : \E k \in 0 .. MaxFile : b = Addr(Inodes(v), d, i, k)}
      BY <2>10 DEF Loc, d
    <3> QED BY <2>2, <2>3, <2>4, <2>10, <3>1, TruncatedAccounted
  <2>14. Used(c) /\ c.ref > 0 /\ Synced(c, din) /\ c.din.type # "free" /\ din.type # "free"
    BY <2>2, <2>3, <2>4, <2>5 DEF Used, Synced
  <2> HIDE DEF c
  <2>15. Accounted(With(Table(v.ip, d2), i, IF Used(c) THEN c.din ELSE din), d2, U)
    BY <2>5, <2>12, <2>13
  <2>16. Sound(u, X \ {i}, U)
    BY <2>2, <2>4, <2>5, <2>7, <2>8, <2>9, <2>12, <2>14, <2>15, PlaceSound
  <2> QED BY <2>1, <2>7, <2>16 DEF Restated, c, din
<1> QED BY <1>1, <1>6, <1>7

-----------------------------------------------------------------------------
(* iget, lock and put.                                                     *)

(* The copy in memory of inode i changes, not the inode.                   *)
Recopied(v, u, i, Y, U) ==
  /\ Live(v) /\ Disk(u) = Disk(v) /\ Inodes(u) = Inodes(v) /\ Sound(u, Y, U)
  /\ u.ip = [v.ip EXCEPT ![i] = u.ip[i]]

(* A copy c that shows inode i as it is.                                   *)
Copied(v, i, c, Y) ==
  /\ c \in Copies /\ (Used(c) => c.din.type # "free") /\ (i = Root => c.ref > 0)
  /\ Inodes(v)[i] = IF Used(c) THEN c.din ELSE OnDisk(Disk(v), i)
  /\ i \in Files \ Y => Synced(c, OnDisk(Disk(v), i))

Recopies(v, u, i, c, X, Y, U) ==
  /\ Live(v) /\ Sound(v, X, U) /\ i \in Inums /\ Copied(v, i, c, Y)
  /\ u.ip = [v.ip EXCEPT ![i] = c] /\ Disk(u) = Disk(v) /\ X \ {i} \subseteq Y

(* Another copy of the inode in memory, of the same inode, changes no     *)
(* block.                                                                 *)
LEMMA RecopySound ==
  ASSUME NEW v, NEW u, NEW i, NEW c, NEW X, NEW Y, NEW U, Recopies(v, u, i, c, X, Y, U)
  PROVE  Recopied(v, u, i, Y, U) /\ u.ip[i] = c
<1>0. /\ Live(v) /\ Sound(v, X, U) /\ i \in Inums /\ Copied(v, i, c, Y)
      /\ u.ip = [v.ip EXCEPT ![i] = c] /\ Disk(u) = Disk(v) /\ X \ {i} \subseteq Y
  BY DEF Recopies
<1> DEFINE d == Disk(v)
           F == Inodes(v)
           r == OnDisk(d, i)
<1>1. Accounted(F, d, U) /\ Memory(v.ip, d, X) /\ v.ip \in [Inums -> Copies] /\ F \in [Inums -> InodeSet]
  BY <1>0, SoundIs
<1>1a. /\ c \in Copies /\ (Used(c) => c.din.type # "free") /\ (i = Root => c.ref > 0)
       /\ F[i] = IF Used(c) THEN c.din ELSE r
       /\ i \in Files \ Y => Synced(c, r)
  BY <1>0 DEF Copied
<1>2. IsDisk(d) /\ r \in InodeSet /\ (i = Root => r.type # "free")
  BY <1>0, <1>1, DiskIs DEF Memory
<1>3. Stored(d, i, r) = d
  <2> HIDE DEF d
  <2> QED BY <1>1, <1>2, StoredSame, <1>0
<1>4. With(F, i, IF Used(c) THEN c.din ELSE r) = F
  <2>1. With(F, i, F[i]) = F
    BY <1>1 DEF With
  <2> HIDE DEF F, r
  <2> QED BY <1>1a, <2>1
<1>5. Placed(v.ip, d, i, c, r, Y)
  <2> HIDE DEF r, d
  <2> QED BY <1>0, <1>1, <1>1a, <1>2, MemoryAt
<1>6. Memory(u.ip, d, Y) /\ Table(u.ip, d) = F
  BY <1>0, <1>3, <1>4, <1>5 DEF Placed, Inodes
<1>7. Sound(u, Y, U) /\ Inodes(u) = F
  BY <1>0, <1>1, <1>6 DEF Sound, Sane, Inodes
<1>8. u.ip[i] = c
  BY <1>0, <1>1
<1> QED BY <1>0, <1>7, <1>8 DEF Recopied

(* A copy with another number of references.                               *)
Recount(c, n) == [c EXCEPT !.ref = n]

(* A copy in memory with another count of references.                     *)
LEMMA RecountIs ==
  ASSUME NEW c \in Copies, NEW n \in Nat
  PROVE  /\ Recount(c, n) \in Copies /\ Recount(c, n).ref = n
         /\ Recount(c, n).valid = c.valid /\ Recount(c, n).din = c.din
BY DEF Recount, Copies

(* Who holds a copy that was not read yet may not use it.                  *)
Unread(v, i) == IF v.ip[i].valid THEN {} ELSE {i}

(* iget                                                                    *)
LEMMA IgetSound ==
  ASSUME NEW v, NEW i, NEW U, Have(v, Nobody, Nobody), Live(v) => Sound(v, {}, U) /\ i \in Inums
  PROVE  /\ Have(Iget(v, i), Nobody, Nobody)
         /\ Live(Iget(v, i)) => /\ Recopied(v, Iget(v, i), i, Unread(Iget(v, i), i), U)
                                /\ Iget(v, i).ip[i].ref = v.ip[i].ref + 1
<1> DEFINE u == Iget(v, i)
<1>1. CASE Halted(v)
  BY <1>1 DEF Iget, Live
<1>2. CASE ~ Halted(v) /\ v.ip[i].ref > 0
  <2> DEFINE c == Recount(v.ip[i], v.ip[i].ref + 1)
             ip == [v.ip EXCEPT ![i] = c]
  <2>1. u = WithIp(v, ip)
    BY <1>2 DEF Iget, WithIp, Recount
  <2> HIDE DEF u, ip, c
  <2>2. Have(u, Nobody, Nobody) /\ Disk(u) = Disk(v) /\ (Live(u) <=> Live(v)) /\ u.ip = ip
    BY <2>1, IpHave
  <2>3. ASSUME Live(u) PROVE Recopied(v, u, i, Unread(u, i), U) /\ u.ip[i].ref = v.ip[i].ref + 1
    <3>1. Live(v) /\ Sound(v, {}, U) /\ i \in Inums
      BY <2>2, <2>3
    <3>2. /\ v.ip \in [Inums -> Copies] /\ Memory(v.ip, Disk(v), {})
          /\ Inodes(v)[i] = IF Used(v.ip[i]) THEN v.ip[i].din ELSE OnDisk(Disk(v), i)
      BY <3>1, SoundIs DEF Inodes, Table
    <3>3. v.ip[i] \in Copies /\ v.ip[i].ref + 1 \in Nat
      BY <3>1, <3>2 DEF Copies
    <3>4. c \in Copies /\ c.ref = v.ip[i].ref + 1 /\ c.valid = v.ip[i].valid /\ c.din = v.ip[i].din
      BY <3>3, RecountIs DEF c
    <3>5. (Used(c) <=> Used(v.ip[i])) /\ c.ref > 0
      BY <1>2, <3>3, <3>4 DEF Used, Copies
    <3>6. u.ip = [v.ip EXCEPT ![i] = c] /\ u.ip[i] = c
      BY <2>2, <3>1, <3>2 DEF ip
    <3>7. i \in Files => Synced(c, OnDisk(Disk(v), i))
      BY <1>2, <3>2, <3>4 DEF Memory, Synced
    <3>8. Used(c) => c.din.type # "free"
      BY <3>1, <3>2, <3>4, <3>5 DEF Memory
    <3>9. Copied(v, i, c, Unread(u, i))
      BY <3>2, <3>4, <3>5, <3>7, <3>8 DEF Copied
    <3>10. Recopied(v, u, i, Unread(u, i), U)
      <4>1. Recopies(v, u, i, c, {}, Unread(u, i), U)
        BY <2>2, <3>1, <3>6, <3>9 DEF Recopies
      <4> QED BY <4>1, RecopySound
    <3> QED BY <3>4, <3>6, <3>10
  <2> QED BY <2>2, <2>3 DEF u
<1>3. CASE ~ Halted(v) /\ ~ (v.ip[i].ref > 0)
  <2> DEFINE c == [v.ip[i] EXCEPT !.ref = 1, !.valid = FALSE]
             ip == [v.ip EXCEPT ![i] = c]
  <2>1. u = WithIp(v, ip)
    BY <1>3 DEF Iget, WithIp
  <2> HIDE DEF u, ip, c
  <2>2. Have(u, Nobody, Nobody) /\ Disk(u) = Disk(v) /\ (Live(u) <=> Live(v)) /\ u.ip = ip
    BY <2>1, IpHave
  <2>3. ASSUME Live(u) PROVE Recopied(v, u, i, Unread(u, i), U) /\ u.ip[i].ref = v.ip[i].ref + 1
    <3>1. Live(v) /\ Sound(v, {}, U) /\ i \in Inums
      BY <2>2, <2>3
    <3>2. /\ v.ip \in [Inums -> Copies] /\ Memory(v.ip, Disk(v), {})
          /\ Inodes(v)[i] = IF Used(v.ip[i]) THEN v.ip[i].din ELSE OnDisk(Disk(v), i)
      BY <3>1, SoundIs DEF Inodes, Table
    <3>3. v.ip[i] \in Copies /\ v.ip[i].ref = 0 /\ ~ Used(v.ip[i])
      BY <1>3, <3>1, <3>2 DEF Copies, Used
    <3>4. c \in Copies /\ c.ref = 1 /\ c.valid = FALSE /\ ~ Used(c)
      BY <3>3 DEF Copies, c, Used
    <3>6. u.ip = [v.ip EXCEPT ![i] = c] /\ u.ip[i] = c
      BY <2>2, <3>1, <3>2 DEF ip
    <3>7. Unread(u, i) = {i}
      BY <3>4, <3>6 DEF Unread
    <3>8. i # Root
      BY <1>3, <3>2 DEF Memory
    <3>9. Copied(v, i, c, Unread(u, i))
      BY <3>2, <3>3, <3>4, <3>7, <3>8 DEF Copied
    <3>10. Recopied(v, u, i, Unread(u, i), U)
      <4>1. Recopies(v, u, i, c, {}, Unread(u, i), U)
        BY <2>2, <3>1, <3>6, <3>9 DEF Recopies
      <4> QED BY <4>1, RecopySound
    <3> QED BY <3>3, <3>4, <3>6, <3>10
  <2> QED BY <2>2, <2>3 DEF u
<1> QED BY <1>1, <1>2, <1>3

(* lock reads what is not there yet, and finds an inode in use.            *)
Loadable(v, i, U) ==
  /\ i \in Inums /\ v.ip[i].ref > 0 /\ Inodes(v)[i].type # "free" /\ Sound(v, Unread(v, i), U)

(* lock reads the inode from the disk when the copy is not valid, and     *)
(* does not fail on one that is in use.                                   *)
LEMMA LockSound ==
  ASSUME NEW v, NEW i, NEW U, Have(v, Nobody, Nobody), Live(v) => Loadable(v, i, U)
  PROVE  /\ Have(Lock(v, i), Nobody, Nobody)
         /\ Live(Lock(v, i)) => /\ Recopied(v, Lock(v, i), i, {}, U)
                                /\ Lock(v, i).ip[i].ref = v.ip[i].ref /\ Used(Lock(v, i).ip[i])
<1> DEFINE u == Lock(v, i)
           b == IBlock(i)
           r == Bread(v, b)
           din == Data(r, b)[i % IPB]
           s == [r EXCEPT !.ip[i].din = din, !.ip[i].valid = TRUE]
           e == Brelease(s, b)
<1>1. CASE Halted(v)
  BY <1>1 DEF Lock, Live
<1>2. CASE ~ Halted(v) /\ v.ip[i].valid
  <2>1. u = v
    BY <1>2 DEF Lock
  <2> HIDE DEF u
  <2>2. ASSUME Live(v) PROVE Recopied(v, v, i, {}, U) /\ Used(v.ip[i])
    <3>1. Loadable(v, i, U) /\ Sound(v, {}, U)
      BY <1>2, <2>2 DEF Loadable, Unread
    <3>2. v.ip \in [Inums -> Copies]
      BY <3>1, SoundIs
    <3>3. v.ip = [v.ip EXCEPT ![i] = v.ip[i]]
      BY <3>1, <3>2 DEF Loadable
    <3> QED BY <1>2, <2>2, <3>1, <3>3 DEF Recopied, Used, Loadable
  <2> QED BY <2>1, <2>2 DEF u
<1>3. CASE ~ Halted(v) /\ ~ v.ip[i].valid
  <2>1. u = IF Halted(r) THEN r ELSE IF din.type = "free" THEN Stop(e, "type") ELSE e
    BY <1>3 DEF Lock, CopyIn
  <2>2. Live(v) => b \in Blocks
    BY InodePlace DEF Loadable
  <2> DEFINE ip == [r.ip EXCEPT ![i] = [r.ip[i] EXCEPT !.din = din, !.valid = TRUE]]
  <2>3. s = WithIp(r, ip)
    BY DEF WithIp
  <2> HIDE DEF u, s, ip
  <2>4. Have(r, Id(b), Nobody) /\ (Live(r) => Same(v, r))
    BY <2>2, BreadSame
  <2>5. Live(r) => din = OnDisk(Disk(v), i) /\ r.ip = v.ip /\ Live(v) /\ Disk(r) = Disk(v)
    BY <2>2, <2>4, DataSame DEF Same, OnDisk
  <2> HIDE DEF r, din
  <2>6. Have(s, Id(b), Nobody) /\ Disk(s) = Disk(r) /\ (Live(s) <=> Live(r)) /\ s.ip = ip
    BY <2>3, <2>4, IpHave
  <2> HIDE DEF b
  <2>7. Have(e, Nobody, Nobody) /\ (Live(e) => Same(s, e))
    BY <2>6, BreleaseSame
  <2>8. ASSUME Live(e)
        PROVE  din.type # "free" /\ Recopied(v, e, i, {}, U) /\ e.ip[i].ref = v.ip[i].ref /\ Used(e.ip[i])
    <3> DEFINE c == [v.ip[i] EXCEPT !.din = din, !.valid = TRUE]
    <3>1. Live(v) /\ e.ip = [v.ip EXCEPT ![i] = c] /\ Disk(e) = Disk(v) /\ din = OnDisk(Disk(v), i)
      BY <2>5, <2>6, <2>7, <2>8 DEF Same, ip
    <3>2. i \in Inums /\ v.ip[i].ref > 0 /\ Inodes(v)[i].type # "free" /\ Sound(v, {i}, U)
      BY <1>3, <3>1 DEF Loadable, Unread
    <3>3. /\ v.ip \in [Inums -> Copies] /\ Memory(v.ip, Disk(v), {i})
          /\ Inodes(v)[i] = IF Used(v.ip[i]) THEN v.ip[i].din ELSE OnDisk(Disk(v), i)
      BY <3>2, SoundIs DEF Inodes, Table
    <3>4. v.ip[i] \in Copies /\ ~ Used(v.ip[i]) /\ din \in InodeSet /\ din = Inodes(v)[i]
      BY <1>3, <3>1, <3>2, <3>3 DEF Used, Memory
    <3>5. c \in Copies /\ c.din = din /\ c.valid = TRUE /\ c.ref = v.ip[i].ref
      BY <3>4 DEF Copies
    <3> HIDE DEF c
    <3>6. Used(c) /\ Synced(c, din) /\ c.ref > 0
      BY <3>2, <3>5 DEF Used, Synced
    <3>7. Copied(v, i, c, {})
      BY <3>1, <3>2, <3>4, <3>5, <3>6 DEF Copied
    <3>7a. Recopies(v, e, i, c, {i}, {}, U)
      BY <3>1, <3>2, <3>7 DEF Recopies
    <3> HIDE DEF e
    <3>8. Recopied(v, e, i, {}, U) /\ e.ip[i] = c
      BY <3>7a, RecopySound
    <3> QED BY <3>2, <3>4, <3>5, <3>6, <3>8
  <2>9. CASE Halted(r)
    <3>1. Have(r, Nobody, Nobody) /\ ~ Live(r)
      BY <2>4, <2>9, HaltedHave
    <3> QED BY <2>1, <2>9, <3>1 DEF u
  <2>10. CASE ~ Halted(r) /\ din.type = "free"
    <3>1. u = Stop(e, "type") /\ ~ Live(e) /\ "type" \notin {"buffers", NoPanic}
      BY <2>1, <2>8, <2>10 DEF NoPanic
    <3> HIDE DEF e
    <3>2. Have(u, Nobody, Nobody) /\ ~ Live(u)
      BY <2>7, <3>1, StopHave
    <3> QED BY <3>2 DEF u
  <2>11. CASE ~ Halted(r) /\ din.type # "free"
    <3>1. u = e
      BY <2>1, <2>11
    <3> QED BY <2>7, <2>8, <3>1 DEF u
  <2> QED BY <2>9, <2>10, <2>11
<1> QED BY <1>1, <1>2, <1>3

(* put, of a reference that is not the last: to the root always.           *)
Uncounted(v, u, i) ==
  u.ip = [v.ip EXCEPT ![i] = u.ip[i]] /\ u.ip[i].ref = v.ip[i].ref - 1

(* The drop of one reference, without the free of the inode (put).        *)
LEMMA UnrefSound ==
  ASSUME NEW v, NEW i, NEW X, NEW U, Have(v, Nobody, Nobody),
         Live(v) => /\ Sound(v, X, U) /\ i \in Inums /\ v.ip[i].ref > 0
                    /\ i = Root => v.ip[i].ref > 1
                    /\ i = Root \/ i \notin X
  PROVE  /\ Have(Unref(v, i), Nobody, Nobody)
         /\ Live(Unref(v, i)) => Recopied(v, Unref(v, i), i, X, U) /\ Uncounted(v, Unref(v, i), i)
<1> DEFINE u == Unref(v, i)
           c == Recount(v.ip[i], v.ip[i].ref - 1)
           ip == [v.ip EXCEPT ![i] = c]
<1>1. u = WithIp(v, ip)
  BY DEF Unref, WithIp, Recount
<1> HIDE DEF u, ip, c
<1>2. Have(u, Nobody, Nobody) /\ Disk(u) = Disk(v) /\ (Live(u) <=> Live(v)) /\ u.ip = ip
  BY <1>1, IpHave
<1>3. ASSUME Live(u) PROVE Recopied(v, u, i, X, U) /\ Uncounted(v, u, i)
  <2>1. Live(v) /\ Sound(v, X, U) /\ i \in Inums /\ v.ip[i].ref > 0 /\ (i = Root => v.ip[i].ref > 1)
       /\ (i = Root \/ i \notin X)
    BY <1>2, <1>3
  <2>2. /\ v.ip \in [Inums -> Copies] /\ Memory(v.ip, Disk(v), X)
        /\ Inodes(v)[i] = IF Used(v.ip[i]) THEN v.ip[i].din ELSE OnDisk(Disk(v), i)
    BY <2>1, SoundIs DEF Inodes, Table
  <2>3. v.ip[i] \in Copies /\ v.ip[i].ref - 1 \in Nat /\ v.ip[i].ref \in Nat
    BY <2>1, <2>2 DEF Copies
  <2>4. c \in Copies /\ c.ref = v.ip[i].ref - 1 /\ c.valid = v.ip[i].valid /\ c.din = v.ip[i].din
    BY <2>3, RecountIs DEF c
  <2>5. u.ip = [v.ip EXCEPT ![i] = c] /\ u.ip[i] = c
    BY <1>2, <2>1, <2>2 DEF ip
  <2>6. i = Root => c.ref > 0
    BY <2>1, <2>3, <2>4
  <2>7. Used(c) => Used(v.ip[i])
    BY <2>1, <2>4 DEF Used
  <2>8. Used(c) => c.din.type # "free"
    BY <2>1, <2>2, <2>4, <2>7 DEF Memory
  <2>9. i \in Files \ X => Synced(c, OnDisk(Disk(v), i))
    <3>1. i \in Files \ X => Synced(v.ip[i], OnDisk(Disk(v), i))
      BY <2>2 DEF Memory
    <3> QED BY <2>1, <2>4, <3>1 DEF Synced
  <2>10. Inodes(v)[i] = IF Used(c) THEN c.din ELSE OnDisk(Disk(v), i)
    <3>1. CASE Used(v.ip[i]) /\ ~ Used(c)
      <4>1. c.ref = 0 /\ i # Root
        BY <2>3, <2>4, <2>6, <3>1 DEF Used
      <4>2. Synced(v.ip[i], OnDisk(Disk(v), i))
        BY <2>1, <2>2, <4>1 DEF Memory, Files
      <4> QED BY <2>1, <2>2, <3>1, <4>2 DEF Synced
    <3>2. CASE ~ (Used(v.ip[i]) /\ ~ Used(c))
      BY <2>2, <2>4, <2>7, <3>2
    <3> QED BY <3>1, <3>2
  <2>11. Copied(v, i, c, X)
    BY <2>4, <2>6, <2>8, <2>9, <2>10 DEF Copied
  <2>12. Recopied(v, u, i, X, U) /\ u.ip[i] = c
    <3>1. Recopies(v, u, i, c, X, X, U)
      BY <1>2, <2>1, <2>5, <2>11 DEF Recopies
    <3> QED BY <3>1, RecopySound
  <2> QED BY <2>4, <2>5, <2>12 DEF Uncounted
<1> QED BY <1>2, <1>3 DEF u

-----------------------------------------------------------------------------
(* put, and one turn of read.                                             *)

(* The fields of a copy of an inode.                                       *)
LEMMA CopyIs ==
  ASSUME NEW c \in Copies
  PROVE  /\ c = [ref |-> c.ref, valid |-> c.valid, din |-> c.din]
         /\ c.ref \in Nat /\ c.valid \in BOOLEAN /\ c.din \in InodeSet
BY DEF Copies

(* put: the reference is gone.                                             *)
Lowered(v, u, i, X, U) ==
  /\ Live(v) /\ Sound(u, X, U) /\ Uncounted(v, u, i)
  /\ i = Root => Recopied(v, u, i, X, U)

(* put, of the last reference to an inode without links: it is freed.      *)
LEMMA FreedSound ==
  ASSUME NEW v, NEW i, NEW U, Have(v, Nobody, Nobody),
         Live(v) => /\ Mappable(v, {}, U, i) /\ i # Root /\ v.ip[i].ref = 1
                    /\ v.ip[i].din.nlink = 0
  PROVE  LET u == Unref(Freed(v, i), i)
         IN Have(u, Nobody, Nobody) /\ (Live(u) => Lowered(v, u, i, {}, U))
<1> DEFINE t == Trunc(v, i)
           ip1 == [t.ip EXCEPT ![i] = Redin(t.ip[i], [t.ip[i].din EXCEPT !.type = "free"])]
           s == [t EXCEPT !.ip[i].din.type = "free"]
           z == Update(s, i)
           ip2 == [z.ip EXCEPT ![i] = [z.ip[i] EXCEPT !.valid = FALSE]]
           y == [z EXCEPT !.ip[i].valid = FALSE]
           ip3 == [y.ip EXCEPT ![i] = [y.ip[i] EXCEPT !.ref = y.ip[i].ref - 1]]
           u == Unref(y, i)
           e == Emptying(v.ip[i].din)
           c1 == Redin(v.ip[i], e)
           r == [e EXCEPT !.type = "free"]
           c2 == Redin(c1, r)
           c3 == [c2 EXCEPT !.valid = FALSE]
           c == [c3 EXCEPT !.ref = c3.ref - 1]
<1>1. Unref(Freed(v, i), i) = u
  BY DEF Freed
<1>2. Have(t, Nobody, Nobody) /\ (Live(t) => Restated(v, t, i, e, {} \ {i}, U))
  BY TruncSound
<1> HIDE DEF t
<1>3. s = WithIp(t, ip1)
  BY DEF WithIp, Redin
<1> HIDE DEF s, ip1
<1>4. Have(s, Nobody, Nobody) /\ Disk(s) = Disk(t) /\ (Live(s) <=> Live(t)) /\ s.ip = ip1
  BY <1>2, <1>3, IpHave
<1>5. Live(s) => i \in Inums
  BY <1>2, <1>4 DEF Restated, Mappable
<1>6. Have(z, Nobody, Nobody) /\ (Live(z) => Saved(s, z, i))
  BY <1>4, <1>5, UpdateSaves
<1> HIDE DEF z
<1>7. y = WithIp(z, ip2)
  BY DEF WithIp
<1> HIDE DEF y, ip2
<1>8. Have(y, Nobody, Nobody) /\ Disk(y) = Disk(z) /\ (Live(y) <=> Live(z)) /\ y.ip = ip2
  BY <1>6, <1>7, IpHave
<1>9. u = WithIp(y, ip3)
  BY DEF Unref, WithIp
<1> HIDE DEF u, ip3
<1>10. Have(u, Nobody, Nobody) /\ Disk(u) = Disk(y) /\ (Live(u) <=> Live(y)) /\ u.ip = ip3
  BY <1>8, <1>9, IpHave
<1>11. ASSUME Live(u) PROVE Lowered(v, u, i, {}, U)
  <2>1. Live(v) /\ Live(t) /\ Saved(s, z, i) /\ Restated(v, t, i, e, {} \ {i}, U)
    BY <1>2, <1>4, <1>6, <1>8, <1>10, <1>11 DEF Restated, Saved
  <2>2. Mappable(v, {}, U, i) /\ i # Root /\ v.ip[i].ref = 1 /\ v.ip[i].din.nlink = 0 /\ i \in Inums
    BY <2>1 DEF Mappable
  <2>3. v.ip \in [Inums -> Copies] /\ Used(v.ip[i])
    BY <2>2, SoundIs DEF Mappable
  <2>4. v.ip[i] \in Copies /\ v.ip[i].din \in InodeSet
    BY <2>2, <2>3 DEF Copies
  <2>5. /\ e \in InodeSet /\ e.addrs = FreeInode.addrs /\ e.size = 0 /\ e.nlink = 0
    BY <2>2, <2>4, EmptyingIs
  <2> HIDE DEF e
  <2>6. c1 \in Copies /\ c1.din = e /\ c1.ref = v.ip[i].ref /\ c1.valid = v.ip[i].valid
    BY <2>4, <2>5, RedinIs
  <2>7. r \in InodeSet /\ r.addrs = FreeInode.addrs /\ r.size = 0 /\ r.type = "free"
    BY <2>5 DEF InodeSet
  <2> HIDE DEF c1, r
  <2>9. Sound(t, {}, U) /\ t.ip = [v.ip EXCEPT ![i] = c1] /\ t.ip[i] = c1
    <3>1. {} \ {i} = {}
      OBVIOUS
    <3>2. Sound(t, {}, U) /\ t.ip = [v.ip EXCEPT ![i] = c1]
      BY <2>1, <3>1 DEF Restated, c1
    <3> QED BY <2>2, <2>3, <3>2
  <2>10. /\ Accounted(Inodes(t), Disk(t), U) /\ Memory(t.ip, Disk(t), {}) /\ t.ip \in [Inums -> Copies]
    BY <2>9, SoundIs
  <2>11. Used(t.ip[i]) /\ Inodes(t)[i] = e
    <3>1. Used(t.ip[i])
      BY <2>3, <2>6, <2>9 DEF Used
    <3> QED BY <2>2, <2>6, <2>9, <3>1, SoundIs
  <2>12. z.ip = [t.ip EXCEPT ![i] = Redin(c1, r)] /\ z.ip[i] = Redin(c1, r)
    BY <1>4, <2>1, <2>2, <2>6, <2>9, <2>10 DEF Saved, ip1, r
  <2>13. Redin(c1, r) \in Copies /\ Redin(c1, r).ref = 1 /\ Redin(c1, r).din = r
    BY <2>2, <2>6, <2>7, RedinIs
  <2>14. y.ip = [t.ip EXCEPT ![i] = c3] /\ y.ip[i] = c3
    <3> HIDE DEF c2
    <3>1. z.ip = [t.ip EXCEPT ![i] = c2] /\ z.ip[i] = c2
      BY <2>12 DEF c2
    <3> QED BY <1>8, <2>2, <2>10, <3>1 DEF ip2
  <2>15. c \in Copies /\ c.ref = 0 /\ c.din = r
    <3> HIDE DEF c2
    <3>1. c2 \in Copies /\ c2.ref = 1 /\ c2.din = r
      BY <2>13 DEF c2
    <3>2. c3 \in Copies /\ c3.ref = 1 /\ c3.din = r
      BY <3>1 DEF Copies
    <3> HIDE DEF c3
    <3> QED BY <3>2 DEF Copies
  <2> HIDE DEF c3, c
  <2>8. ~ Used(c) /\ Synced(c, r)
    BY <2>15 DEF Used, Synced
  <2>16. u.ip = [t.ip EXCEPT ![i] = c] /\ u.ip[i] = c
    BY <1>10, <2>2, <2>10, <2>14 DEF ip3, c
  <2>17. Disk(u) = Stored(Disk(t), i, r)
    <3>1. s.ip[i].din = r
      BY <2>1, <2>12, <2>13 DEF Saved
    <3> QED BY <1>4, <1>8, <1>10, <2>1, <3>1 DEF Saved
  <2>18. Accounted(With(Inodes(t), i, r), Disk(t), U)
    BY <2>2, <2>5, <2>7, <2>10, <2>11, ReleasedAccounted
  <2>19. Accounted(With(Table(t.ip, Disk(t)), i, IF Used(c) THEN c.din ELSE r), Disk(t), U)
    BY <2>8, <2>15, <2>18 DEF Inodes
  <2>20. IsDisk(Disk(t)) /\ {} \ {i} \subseteq {}
    BY DiskIs
  <2>21. Sound(u, {}, U)
    BY <2>2, <2>7, <2>8, <2>10, <2>15, <2>16, <2>17, <2>19, <2>20, PlaceSound
  <2>22. u.ip = [v.ip EXCEPT ![i] = c]
    BY <2>3, <2>9, <2>16
  <2>23. Uncounted(v, u, i)
    BY <2>2, <2>15, <2>16, <2>22 DEF Uncounted
  <2> QED BY <2>1, <2>2, <2>21, <2>23 DEF Lowered
<1> QED BY <1>1, <1>10, <1>11

(* put                                                                     *)
LEMMA PutSound ==
  ASSUME NEW v, NEW i, NEW X, NEW U, Have(v, Nobody, Nobody),
         Live(v) => /\ Sound(v, X, U) /\ i \in Inums /\ v.ip[i].ref > 0
                    /\ i = Root => v.ip[i].ref > 1
                    /\ i = Root \/ X = {}
  PROVE  /\ Have(Put(v, i), Nobody, Nobody)
         /\ Live(Put(v, i)) => Lowered(v, Put(v, i), i, X, U)
<1> DEFINE u == Put(v, i)
<1>1. CASE Halted(v)
  BY <1>1 DEF Put, Live
<1>2. CASE ~ Halted(v) /\ v.ip[i].ref = 1 /\ v.ip[i].valid /\ v.ip[i].din.nlink = 0
  <2>1. u = Unref(Freed(v, i), i)
    BY <1>2 DEF Put
  <2>2. Live(v) => X = {} /\ i # Root /\ Mappable(v, X, U, i)
    BY <1>2 DEF Mappable, Used
  <2>3. Live(v) => Mappable(v, {}, U, i) /\ i # Root /\ v.ip[i].ref = 1 /\ v.ip[i].din.nlink = 0
    BY <1>2, <2>2
  <2>4. Have(u, Nobody, Nobody) /\ (Live(u) => Lowered(v, u, i, {}, U))
    BY <2>1, <2>3, FreedSound
  <2> HIDE DEF u
  <2>5. Live(u) => Lowered(v, u, i, X, U)
    BY <2>2, <2>4 DEF Lowered
  <2> QED BY <2>4, <2>5 DEF u
<1>3. CASE ~ Halted(v) /\ ~ (v.ip[i].ref = 1 /\ v.ip[i].valid /\ v.ip[i].din.nlink = 0)
  <2>1. u = Unref(v, i)
    BY <1>3 DEF Put
  <2> HIDE DEF u
  <2>2. Live(v) => /\ Sound(v, X, U) /\ i \in Inums /\ v.ip[i].ref > 0
                   /\ i = Root => v.ip[i].ref > 1
                   /\ i = Root \/ i \notin X
    OBVIOUS
  <2>3. Have(u, Nobody, Nobody) /\ (Live(u) => Recopied(v, u, i, X, U) /\ Uncounted(v, u, i))
    BY <2>1, <2>2, UnrefSound
  <2> QED BY <2>3 DEF Lowered, Recopied, u
<1> QED BY <1>1, <1>2, <1>3

(* create sets the number of links of the new inode, and unsets it.        *)
LEMMA SetNlinkSound ==
  ASSUME NEW v, NEW i, NEW n \in Nat, NEW X, NEW U, Have(v, Nobody, Nobody),
         Live(v) => Mappable(v, X, U, i) /\ (n = 0 => i \in U)
  PROVE  /\ Have(SetNlink(v, i, n), Nobody, Nobody)
         /\ Live(SetNlink(v, i, n)) =>
              Restated(v, SetNlink(v, i, n), i, [v.ip[i].din EXCEPT !.nlink = n], X \ {i}, U)
<1> DEFINE din == [v.ip[i].din EXCEPT !.nlink = n]
           s == WithIp(v, [v.ip EXCEPT ![i] = Redin(v.ip[i], din)])
<1>1. [v EXCEPT !.ip[i].din.nlink = n] = s
  BY DEF WithIp, Redin
<1>2. SetNlink(v, i, n) = Update(s, i)
  BY <1>1 DEF SetNlink
<1>3. Live(v) => /\ Mappable(v, X, U, i) /\ din \in InodeSet /\ din.type # "free"
                 /\ Accounted(With(Inodes(v), i, din), Disk(v), U)
  <2> SUFFICES ASSUME Live(v)
               PROVE  /\ din \in InodeSet /\ din.type # "free"
                      /\ Accounted(With(Inodes(v), i, din), Disk(v), U)
    OBVIOUS
  <2>1. /\ Accounted(Inodes(v), Disk(v), U) /\ Memory(v.ip, Disk(v), X) /\ v.ip \in [Inums -> Copies]
        /\ i \in Inums /\ Used(v.ip[i]) /\ Inodes(v)[i] = v.ip[i].din /\ (n = 0 => i \in U)
    BY SoundIs DEF Mappable
  <2>2. v.ip[i].din \in InodeSet /\ v.ip[i].din.type # "free"
    BY <2>1 DEF Copies, Memory
  <2>3. din \in InodeSet /\ din.type # "free"
    BY <2>2 DEF InodeSet
  <2>4. Accounted(With(Inodes(v), i, [Inodes(v)[i] EXCEPT !.nlink = n]), Disk(v), U)
    BY <2>1, NlinkAccounted
  <2> QED BY <2>1, <2>3, <2>4
<1> HIDE DEF din
<1>4. LET u == Update(WithIp(v, [v.ip EXCEPT ![i] = Redin(v.ip[i], din)]), i)
      IN Have(u, Nobody, Nobody) /\ (Live(u) => Restated(v, u, i, din, X \ {i}, U))
  BY <1>3, RestateSound
<1> QED BY <1>2, <1>4 DEF din

-----------------------------------------------------------------------------
(* Inode.read.                                                             *)

(* The lesser and the greater of two numbers.                              *)
LEMMA LesserIs ==
  ASSUME NEW a \in Nat, NEW b \in Nat
  PROVE  Min({a, b}) = IF a <= b THEN a ELSE b
<1>1. {a, b} \in SUBSET Nat /\ {a, b} # {}
  OBVIOUS
<1>2. Min({a, b}) \in {a, b} /\ \A y \in {a, b} : Min({a, b}) <= y
  BY <1>1, MinIsLeast
<1> QED BY <1>2

(* The greater of two numbers, as Max picks it.                           *)
LEMMA GreaterIs ==
  ASSUME NEW a \in Nat, NEW b \in Nat
  PROVE  Max({a, b}) = IF a <= b THEN b ELSE a
BY DEF Max

(* A lookup, and then nothing that changes the disk.                       *)
LEMMA MappedSame ==
  ASSUME NEW v, NEW s, NEW u, NEW X, NEW U, NEW i, NEW k, NEW b,
         Mappable(s, X, U, i), Mapped(v, s, i, k, b), Same(s, u)
  PROVE  Mappable(u, X, U, i) /\ Mapped(v, u, i, k, b)
<1>1. u.ip = s.ip /\ Disk(u) = Disk(s)
  BY DEF Same
<1>2. \A j, l : Loc(u, j, l) = Loc(s, j, l)
  BY <1>1 DEF Loc, Inodes
<1> QED BY <1>1, <1>2 DEF Mappable, Sound, Mapped

(* The words of a turn.                                                    *)
Line(t) == t.off \div BSize
ReadTurn(t, u, X, U, i, b, k) ==
  /\ Live(t.w) /\ Mappable(u.w, X, U, i) /\ Mapped(t.w, u.w, i, Line(t), b)
  /\ IF b = 0 THEN u.off = t.off /\ u.n = 0 /\ u.words = t.words
     ELSE /\ u.off = t.off + k /\ u.n = t.n - k
          /\ u.words = t.words \o [j \in 1 .. k |-> Disk(u.w)[b][(t.off % BSize) + j - 1]]
Turned(t) == Min({t.n, BSize - (t.off % BSize)})

(* One turn of the loop of Inode.read.                                     *)
Readable(t, X, U, i) ==
  /\ Mappable(t.w, X, U, i) /\ Line(t) \in 0 .. (MaxFile - 1)
  /\ i \in X \cup {Root} \/ Loc(t.w, i, Line(t)) # 0

(* One turn of the loop of read copies the words of one block.            *)
LEMMA ReadNextReads ==
  ASSUME NEW t, NEW i, NEW X, NEW U, Have(t.w, Nobody, Nobody), t.n # 0,
         Live(t.w) => Readable(t, X, U, i)
  PROVE  LET u == ReadNext(t, i)
         IN /\ Have(u.w, Nobody, Nobody)
            /\ Live(u.w) => ReadTurn(t, u, X, U, i, Loc(u.w, i, Line(t)), Turned(t))
<1> DEFINE u == ReadNext(t, i)
           m == Bmap(t.w, i, Line(t))
           r == Bread(m.w, m.b)
           q == [w |-> r, off |-> t.off, n |-> t.n, words |-> t.words]
           e == Brelease(r, m.b)
           k == Turned(t)
<1>1. CASE Halted(t.w)
  <2>1. u = t
    BY <1>1 DEF ReadNext
  <2> HIDE DEF u
  <2> QED BY <1>1, <2>1 DEF Live, u
<1>2. CASE ~ Halted(t.w)
  <2>1. u = ReadBlock(t, m)
    BY <1>2 DEF ReadNext, Line
  <2> HIDE DEF u
  <2>2. /\ Have(m.w, Nobody, Nobody)
        /\ Live(m.w) => Bmapped(t.w, m, X, U, i, Line(t))
    BY BmapMaps DEF Readable
  <2> HIDE DEF m
  <2>3. Live(m.w) => /\ Live(t.w) /\ Mappable(m.w, X, U, i) /\ Mapped(t.w, m.w, i, Line(t), m.b)
                     /\ m.b = Loc(m.w, i, Line(t)) /\ m.b \in Links
    BY <2>2 DEF Bmapped, Mapped
  <2>4. CASE m.b = 0
    <3>1. u = [w |-> m.w, off |-> t.off, n |-> 0, words |-> t.words]
      BY <2>1, <2>4 DEF ReadBlock
    <3> QED BY <2>2, <2>3, <2>4, <3>1 DEF ReadTurn, u
  <2>5. CASE m.b # 0
    <3>1. u = FromBlock(q, m.b)
      BY <2>1, <2>5 DEF ReadBlock
    <3>2. Live(m.w) => m.b \in Blocks
      BY <2>3, <2>5, Sizes DEF Links
    <3>3. Have(r, Id(m.b), Nobody) /\ (Live(r) => Same(m.w, r))
      BY <2>2, <3>2, BreadSame
    <3>4. Have(e, Nobody, Nobody) /\ (Live(e) => Same(r, e))
      BY <3>3, BreleaseSame
    <3>5. Live(r) => Data(r, m.b) = Disk(r)[m.b]
      BY <3>2, <3>3, DataSame DEF Same
    <3> HIDE DEF r, e
    <3>6. CASE Halted(r)
      <4>1. u = q
        BY <3>1, <3>6 DEF FromBlock
      <4>2. u.w = r
        BY <4>1
      <4>3. Have(r, Nobody, Nobody) /\ ~ Live(r)
        BY <3>3, <3>6, HaltedHave
      <4> QED BY <4>2, <4>3 DEF u
    <3>7. CASE ~ Halted(r)
      <4> DEFINE W == t.words \o [j \in 1 .. k |-> Data(r, m.b)[(t.off % BSize) + j - 1]]
      <4>1. u = [w |-> e, off |-> t.off + k, n |-> t.n - k, words |-> W]
        BY <3>1, <3>7 DEF FromBlock, Turned, e
      <4>2. u.w = e /\ u.off = t.off + k /\ u.n = t.n - k /\ u.words = W
        BY <4>1
      <4> HIDE DEF k
      <4>3. ASSUME Live(e) PROVE ReadTurn(t, u, X, U, i, Loc(u.w, i, Line(t)), k)
        <5>1. Live(r) /\ Live(m.w) /\ Same(r, e) /\ Same(m.w, r)
          BY <3>3, <3>4, <4>3 DEF Same
        <5>2. Same(m.w, e) /\ Disk(e) = Disk(r)
          BY <5>1 DEF Same
        <5>3. Mappable(e, X, U, i) /\ Mapped(t.w, e, i, Line(t), m.b)
          BY <2>3, <5>1, <5>2, MappedSame
        <5>4. m.b = Loc(e, i, Line(t))
          BY <5>3 DEF Mapped
        <5>5. W = t.words \o [j \in 1 .. k |-> Disk(e)[m.b][(t.off % BSize) + j - 1]]
          BY <3>5, <5>1, <5>2
        <5> QED BY <2>3, <2>5, <4>2, <5>1, <5>3, <5>4, <5>5 DEF ReadTurn
      <4> QED BY <3>4, <4>2, <4>3 DEF u, k
    <3> QED BY <3>6, <3>7
  <2> QED BY <2>4, <2>5
<1> QED BY <1>1, <1>2
=============================================================================
