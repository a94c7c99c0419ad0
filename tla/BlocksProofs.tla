---------------------------- MODULE BlocksProofs ----------------------------
(***************************************************************************)
(* The file system (module Fs) keeps every block and inode accounted for,  *)
(* for disks, images and numbers of buffers of any size.                   *)
(*                                                                         *)
(* Consistent is the inductive invariant.  Init satisfies it because mkfs  *)
(* leaves an image with everything accounted for (ImageSane), and each     *)
(* call keeps it (Serves).  A call is taken apart as the code is: what a   *)
(* function leaves behind is stated as an operator of the world v it is    *)
(* called in and the world u it returns, and the lemma about the function  *)
(* proves that operator under Live(u): unless an assertion has failed, or  *)
(* a changed buffer was recycled, in which case later calls read old data  *)
(* and nothing is promised (Fs!Runs).                                      *)
(***************************************************************************)
EXTENDS FsProofs, SequenceTheorems, FiniteSetTheorems

-----------------------------------------------------------------------------
(* read, and the entries it finds in the root.                            *)

(* A function on 1..n is a sequence.                                       *)
LEMMA RunIsSeq ==
  ASSUME NEW S, NEW n \in Nat, NEW F \in [1 .. n -> S]
  PROVE  F \in Seq(S) /\ Len(F) = n
<1>1. F \in Seq(S)
  BY SeqDef
<1>2. Len(F) \in Nat /\ DOMAIN F = 1 .. Len(F)
  BY <1>1, LenProperties
<1>3. DOMAIN F = 1 .. n
  OBVIOUS
<1> QED BY <1>1, <1>2, <1>3

(* Words that continue others.                                             *)
IsRun(H, n) == H = [j \in 1 .. n |-> H[j]]
Joins(H, a, k) == [j \in 1 .. a |-> H[j]] \o [j \in 1 .. k |-> H[a + j]] = H

(* Two runs of words one after the other are the run of both (the         *)
(* destination of read).                                                  *)
LEMMA Joined ==
  ASSUME NEW a \in Nat, NEW k \in Nat, NEW H, IsRun(H, a + k)
  PROVE  Joins(H, a, k)
<1> DEFINE S == {H[j] : j \in 1 .. (a + k)}
           F == [j \in 1 .. a |-> H[j]]
           G == [j \in 1 .. k |-> H[a + j]]
<1>1. F \in Seq(S) /\ Len(F) = a
  <2>1. F \in [1 .. a -> S]
    OBVIOUS
  <2> HIDE DEF F
  <2> HIDE DEF S
  <2> QED BY <2>1, RunIsSeq
<1>2. G \in Seq(S) /\ Len(G) = k
  <2>1. G \in [1 .. k -> S]
    OBVIOUS
  <2> HIDE DEF G
  <2> HIDE DEF S
  <2> QED BY <2>1, RunIsSeq
<1>3. H \in Seq(S) /\ Len(H) = a + k
  <2>1. H \in [1 .. (a + k) -> S]
    <3>1. [j \in 1 .. (a + k) |-> H[j]] \in [1 .. (a + k) -> S]
      OBVIOUS
    <3>2. H = [j \in 1 .. (a + k) |-> H[j]]
      BY DEF IsRun
    <3> HIDE DEF S
    <3> QED BY <3>1, <3>2, Zenon
  <2>2. a + k \in Nat
    OBVIOUS
  <2> HIDE DEF S
  <2> QED BY <2>1, <2>2, RunIsSeq
<1> HIDE DEF S
<1>4. (F \o G) \in Seq(S) /\ Len(F \o G) = a + k
  BY <1>1, <1>2
<1>5. \A j \in 1 .. (a + k) : (F \o G)[j] = H[j]
  <2> TAKE j \in 1 .. (a + k)
  <2>1. CASE j \in 1 .. a
    BY <1>1, <1>2, <2>1
  <2>2. CASE ~ (j \in 1 .. a)
    <3>1. (F \o G)[j] = G[j - a]
      <4> HIDE DEF F, G
      <4> QED BY <1>1, <1>2, <2>2
    <3>2. j - a \in 1 .. k /\ a + (j - a) = j
      BY <2>2
    <3> QED BY <3>1, <3>2
  <2> QED BY <2>1, <2>2
<1> HIDE DEF F, G
<1>6. F \o G = H
  BY <1>3, <1>4, <1>5, SeqEqual
<1> QED BY <1>6 DEF F, G, Joins

(* Word p of inode i, from 0.                                              *)
WordAt(v, i, p) == Disk(v)[Loc(v, i, p \div BSize)][p % BSize]

(* What was read of a file from off on, up to stop.                        *)
SoFar(v, t, i, off, stop) ==
  /\ Live(v) /\ t.w.ip = v.ip /\ Disk(t.w) = Disk(v)
  /\ t.off \in Nat /\ t.n \in Nat /\ t.off + t.n = stop /\ off <= t.off
  /\ t.words = [j \in 1 .. (t.off - off) |-> WordAt(v, i, off + j - 1)]

(* A file, of which stop words can be read.                                *)
IsFile(v, i, U, stop) ==
  /\ Mappable(v, {}, U, i) /\ Gapless(Inodes(v), Disk(v), i, stop)
  /\ stop \in 0 .. (MaxFile * BSize)

(* The words of one turn of read and of write lie in one block.           *)
LEMMA InLine ==
  ASSUME NEW off \in 0 .. (MaxFile * BSize - 1), NEW n \in Nat \ {0}
  PROVE  LET k == Min({n, BSize - (off % BSize)})
         IN /\ k \in 1 .. n /\ (off % BSize) + k <= BSize
            /\ \A j \in 1 .. k : /\ (off + j - 1) \div BSize = off \div BSize
                                 /\ (off + j - 1) % BSize = (off % BSize) + j - 1
<1> DEFINE at == off % BSize
           l == off \div BSize
           k == Min({n, BSize - at})
<1>1. at \in 0 .. (BSize - 1) /\ l \in Nat /\ off = l * BSize + at /\ BSize \in Nat \ {0}
  BY LineOf, Sizes
<1> HIDE DEF at, l
<1>2. BSize - at \in Nat \ {0} /\ k = IF n <= BSize - at THEN n ELSE BSize - at
  BY <1>1, LesserIs
<1>3. k \in 1 .. n /\ at + k <= BSize
  BY <1>1, <1>2
<1> HIDE DEF k
<1>4. \A j \in 1 .. k : (off + j - 1) \div BSize = l /\ (off + j - 1) % BSize = at + j - 1
  <2> TAKE j \in 1 .. k
  <2> DEFINE r == at + j - 1
             p == l * BSize
  <2>1. r \in 0 .. (BSize - 1)
    BY <1>1, <1>3
  <2>2. off + j - 1 = p + r
    <3>1. p \in Int /\ off = p + at
      BY <1>1
    <3> HIDE DEF p
    <3> QED BY <1>1, <3>1
  <2> HIDE DEF r
  <2>3. BSize \in Nat \ {0} /\ l \in Nat
    BY <1>1
  <2>4. (l * BSize + r) \div BSize = l /\ (l * BSize + r) % BSize = r
    BY <2>1, <2>3, DivisionIsUnique
  <2> QED BY <2>2, <2>4 DEF r
<1> QED BY <1>3, <1>4 DEF at, l, k

(* A turn reads the next words.                                            *)
LEMMA TurnReadsOn ==
  ASSUME NEW v, NEW t, NEW i, NEW off \in Nat, NEW stop, NEW U, IsFile(v, i, U, stop),
         Live(t.w), SoFar(v, t, i, off, stop), t.n # 0
  PROVE  /\ Readable(t, {}, U, i)
         /\ \A u : ReadTurn(t, u, {}, U, i, Loc(u.w, i, Line(t)), Turned(t)) =>
              SoFar(v, u, i, off, stop) /\ u.n < t.n
<1> DEFINE at == t.off % BSize
           l == Line(t)
           k == Turned(t)
           b == Loc(v, i, l)
<1>1. /\ t.off \in 0 .. (MaxFile * BSize - 1) /\ t.off < stop /\ t.n \in Nat \ {0}
      /\ MaxFile * BSize \in Nat
  <2> DEFINE M == MaxFile * BSize
  <2>1. M \in Nat /\ stop \in 0 .. M
    BY Sizes DEF IsFile
  <2>2. t.off \in Nat /\ t.n \in Nat /\ t.off + t.n = stop /\ t.n # 0
    BY DEF SoFar
  <2> HIDE DEF M
  <2>3. t.off \in 0 .. (M - 1) /\ t.off < stop /\ t.n \in Nat \ {0} /\ M \in Nat
    BY <2>1, <2>2
  <2> QED BY <2>3 DEF M
<1>2. /\ l \in 0 .. (MaxFile - 1) /\ at \in 0 .. (BSize - 1) /\ t.off = l * BSize + at
      /\ BSize \in Nat \ {0}
  BY <1>1, LineOf, Sizes DEF Line
<1>3. /\ k \in 1 .. t.n
      /\ \A j \in 1 .. k : /\ (t.off + j - 1) \div BSize = l
                           /\ (t.off + j - 1) % BSize = at + j - 1
  BY <1>1, InLine DEF Turned, Line
<1>4. b # 0
  <2>1. l * BSize < stop
    <3> HIDE DEF l, at
    <3> DEFINE lb == l * BSize
    <3>1. lb \in Nat
      BY <1>2
    <3>2. t.off = lb + at /\ at \in Nat /\ t.off < stop /\ stop \in Nat
      BY <1>1, <1>2 DEF IsFile
    <3> HIDE DEF lb
    <3>3. lb < stop
      BY <3>1, <3>2
    <3> QED BY <3>3 DEF lb
  <2> HIDE DEF l
  <2> QED BY <1>2, <2>1 DEF IsFile, Gapless, Loc
<1>5. t.w.ip = v.ip /\ Disk(t.w) = Disk(v) /\ \A j, m : Loc(t.w, j, m) = Loc(v, j, m)
  BY DEF SoFar, Loc, Inodes
<1> HIDE DEF l, k
<1>6. Readable(t, {}, U, i)
  BY <1>2, <1>4, <1>5 DEF Readable, IsFile, Mappable, Sound, l
<1> SUFFICES ASSUME NEW u, ReadTurn(t, u, {}, U, i, Loc(u.w, i, l), k)
             PROVE  SoFar(v, u, i, off, stop) /\ u.n < t.n
  BY <1>6 DEF l, k
<1>7. u.w.ip = v.ip /\ Disk(u.w) = Disk(v) /\ Loc(u.w, i, l) = b
  <2>1. Mapped(t.w, u.w, i, l, Loc(u.w, i, l)) /\ i \in Inums
    BY DEF ReadTurn, l, IsFile, Mappable
  <2>2. l \in 0 .. MaxFile
    BY <1>2, Sizes
  <2> HIDE DEF b
  <2>3. u.w.ip = t.w.ip /\ Disk(u.w) = Disk(t.w) /\ Loc(u.w, i, l) = Loc(t.w, i, l)
    BY <1>4, <1>5, <2>1, <2>2 DEF Mapped, b
  <2> QED BY <1>5, <2>3 DEF b
<1> DEFINE G == [j \in 1 .. k |-> Disk(v)[b][at + j - 1]]
           a == t.off - off
           H == [j \in 1 .. (a + k) |-> WordAt(v, i, off + j - 1)]
<1>8. u.off = t.off + k /\ u.n = t.n - k /\ u.words = t.words \o G
  <2> HIDE DEF b
  <2> QED BY <1>4, <1>7 DEF ReadTurn
<1>9. a \in Nat /\ k \in Nat /\ t.off \in Nat /\ off + a = t.off /\ t.off - off = a
  BY <1>1, <1>3 DEF SoFar
<1> HIDE DEF b, at, a
<1>10. t.words = [j \in 1 .. a |-> H[j]]
  <2>1. \A j \in 1 .. a : H[j] = WordAt(v, i, off + j - 1)
    BY <1>9
  <2> HIDE DEF H
  <2>2. t.words = [j \in 1 .. a |-> WordAt(v, i, off + j - 1)]
    BY <1>9 DEF SoFar
  <2> QED BY <2>1, <2>2
<1>11. G = [j \in 1 .. k |-> H[a + j]]
  <2>1. ASSUME NEW j \in 1 .. k PROVE Disk(v)[b][at + j - 1] = H[a + j]
    <3>1. H[a + j] = WordAt(v, i, off + (a + j) - 1)
      BY <1>9
    <3>2. off + (a + j) - 1 = t.off + j - 1
      BY <1>9
    <3> HIDE DEF H
    <3>3. WordAt(v, i, t.off + j - 1) = Disk(v)[b][at + j - 1]
      BY <1>3 DEF WordAt, b
    <3> QED BY <3>1, <3>2, <3>3
  <2> HIDE DEF H
  <2> QED BY <2>1
<1>12. u.words = H
  <2>1. IsRun(H, a + k)
    BY DEF IsRun
  <2> HIDE DEF H, G
  <2>2. Joins(H, a, k)
    BY <1>9, <2>1, Joined
  <2> QED BY <1>8, <1>10, <1>11, <2>2 DEF Joins
<1>13. u.off - off = a + k /\ u.off \in Nat /\ u.n \in Nat /\ u.off + u.n = stop /\ off <= u.off
       /\ u.n < t.n
  <2>1. t.n \in Nat /\ t.off + t.n = stop /\ off <= t.off
    BY DEF SoFar
  <2>2. k \in 1 .. t.n /\ u.off = t.off + k /\ u.n = t.n - k
    BY <1>3, <1>8
  <2> HIDE DEF G, H
  <2> QED BY <1>9, <2>1, <2>2
<1>14. Live(v)
  BY DEF SoFar
<1> QED BY <1>7, <1>12, <1>13, <1>14 DEF SoFar

(* The read of a file: the words that are there, fewer if it stops.        *)
WasRead(v, t, i, off, stop) == SoFar(v, t, i, off, stop) /\ t.off = stop

(* read returns the words of the file from off on, at most n and not      *)
(* past its end.                                                          *)
LEMMA ReadFileReads ==
  ASSUME NEW v, NEW i, NEW off \in Nat, NEW n \in Nat, NEW U, Have(v, Nobody, Nobody),
         Live(v) => IsFile(v, i, U, v.ip[i].din.size)
  PROVE  LET size == v.ip[i].din.size
             stop == IF off > size THEN off ELSE off + Min({n, size - off})
             t == ReadInode(v, i, off, n)
         IN Have(t.w, Nobody, Nobody) /\ (Live(t.w) => WasRead(v, t, i, off, stop))
<1> DEFINE size == v.ip[i].din.size
           n0 == IF off > size THEN 0 ELSE Min({n, size - off})
           stop == IF off > size THEN off ELSE off + Min({n, size - off})
           t == [w |-> v, off |-> off, words |-> <<>>, n |-> n0]
<1>1. PICK f : ReadOn(t, i, n) = f[n] /\ ReadTurns(f, t, i, n)
  BY ReadOnTurns
<1>2. ReadInode(v, i, off, n) = f[n]
  BY <1>1 DEF ReadInode
<1>3. Live(v) => /\ size \in Nat /\ n0 \in 0 .. n /\ stop = off + n0
                 /\ n0 # 0 => stop <= size
  <2> SUFFICES ASSUME Live(v) PROVE size \in Nat /\ n0 \in 0 .. n /\ stop = off + n0 /\ (n0 # 0 => stop <= size)
    OBVIOUS
  <2>1. size \in Nat
    BY Sizes DEF IsFile
  <2> HIDE DEF size
  <2>2. ~ (off > size) => size - off \in Nat
    BY <2>1
  <2>3. ~ (off > size) => Min({n, size - off}) = IF n <= size - off THEN n ELSE size - off
    BY <2>2, LesserIs
  <2> QED BY <2>1, <2>2, <2>3
<1> HIDE DEF size, n0, stop
<1> DEFINE P(k) == /\ Have(f[k].w, Nobody, Nobody)
                   /\ Live(f[k].w) => /\ SoFar(v, f[k], i, off, stop)
                                      /\ f[k].n = 0 \/ f[k].n + k <= n
           S == {k \in 0 .. n : P(k)}
<1>4. P(0)
  <2>1. f[0] = t /\ t.w = v /\ t.off = off /\ t.n = n0 /\ t.words = <<>>
    BY <1>1 DEF ReadTurns
  <2> HIDE DEF t
  <2>2. Live(v) => SoFar(v, f[0], i, off, stop) /\ f[0].n + 0 <= n
    BY <1>3, <2>1 DEF SoFar
  <2> QED BY <2>1, <2>2
<1>5. ASSUME NEW k \in 0 .. (n - 1), P(k) PROVE P(k + 1)
  <2>1. f[k + 1] = ReadNext(f[k], i)
    BY <1>1 DEF ReadTurns
  <2> DEFINE p == f[k]
             u == f[k + 1]
  <2>2. CASE p.n = 0 \/ Halted(p.w)
    <3>1. u = p
      BY <2>1, <2>2 DEF ReadNext
    <3> QED BY <1>5, <2>2, <3>1 DEF Live
  <2>3. CASE p.n # 0 /\ ~ Halted(p.w)
    <3>1. Live(p.w) => /\ SoFar(v, p, i, off, stop) /\ IsFile(v, i, U, stop) /\ p.n + k <= n /\ p.n \in Nat
      <4> SUFFICES ASSUME Live(p.w)
                   PROVE SoFar(v, p, i, off, stop) /\ IsFile(v, i, U, stop) /\ p.n + k <= n /\ p.n \in Nat
        OBVIOUS
      <4>1. SoFar(v, p, i, off, stop) /\ p.n + k <= n
        BY <1>5, <2>3
      <4>2. n0 # 0
        BY <1>3, <2>3, <4>1 DEF SoFar
      <4> HIDE DEF p
      <4>2a. p.n \in Nat /\ Live(v)
        BY <4>1 DEF SoFar
      <4>3. stop <= size /\ IsFile(v, i, U, size) /\ size \in Nat /\ stop \in Nat
        BY <1>3, <4>2, <4>2a DEF size
      <4>4. stop \in 0 .. (MaxFile * BSize)
        <5> DEFINE M == MaxFile * BSize
        <5>1. size \in 0 .. M /\ M \in Nat
          BY <4>3, Sizes DEF IsFile
        <5> HIDE DEF M
        <5>2. stop \in 0 .. M
          BY <4>3, <5>1
        <5> QED BY <5>2 DEF M
      <4>5. Gapless(Inodes(v), Disk(v), i, stop)
        <5>1. ASSUME NEW l \in 0 .. (MaxFile - 1), l * BSize < stop PROVE l * BSize < size
          <6> DEFINE lb == l * BSize
          <6>1. lb \in Nat /\ lb < stop
            BY <5>1, Sizes
          <6> HIDE DEF lb
          <6>2. lb < size
            BY <4>3, <6>1
          <6> QED BY <6>2 DEF lb
        <5> QED BY <4>3, <5>1 DEF IsFile, Gapless
      <4> QED BY <4>1, <4>2a, <4>3, <4>4, <4>5 DEF IsFile
    <3> HIDE DEF p, u
    <3>2. Live(p.w) => Readable(p, {}, U, i)
      BY <2>3, <3>1, TurnReadsOn
    <3>3. /\ Have(u.w, Nobody, Nobody)
          /\ Live(u.w) => ReadTurn(p, u, {}, U, i, Loc(u.w, i, Line(p)), Turned(p))
      <4>1. u = ReadNext(p, i) /\ Have(p.w, Nobody, Nobody)
        BY <1>5, <2>1 DEF p, u
      <4> QED BY <2>3, <3>2, <4>1, ReadNextReads
    <3>4. ASSUME Live(u.w) PROVE SoFar(v, u, i, off, stop) /\ (u.n = 0 \/ u.n + (k + 1) <= n)
      <4>1. Live(p.w) /\ ReadTurn(p, u, {}, U, i, Loc(u.w, i, Line(p)), Turned(p))
        BY <3>3, <3>4 DEF ReadTurn
      <4>2. SoFar(v, u, i, off, stop) /\ u.n < p.n
        BY <2>3, <3>1, <4>1, TurnReadsOn
      <4> QED BY <3>1, <4>1, <4>2 DEF SoFar
    <3> QED BY <3>3, <3>4 DEF u
  <2> QED BY <2>2, <2>3
<1> HIDE DEF P
<1>6. 0 \in S /\ \A k \in 0 .. (n - 1) : k \in S => k + 1 \in S
  BY <1>4, <1>5
<1>7. P(n)
  <2> HIDE DEF S
  <2>1. n \in S
    BY <1>6, Reached
  <2> QED BY <2>1 DEF S
<1>8. Live(f[n].w) => WasRead(v, f[n], i, off, stop)
  BY <1>7 DEF P, WasRead, SoFar
<1> QED BY <1>2, <1>7, <1>8 DEF P, size, stop

-----------------------------------------------------------------------------
(* Searches of the root directory.                                         *)

(* A search from v on: every entry it reads is one.                        *)
Searched(v, s, X, U) ==
  /\ Live(v) /\ Mappable(s.w, X, U, Root) /\ OnlyAddrs(v.ip, s.w.ip)
  /\ s.off \in 0 .. s.w.ip[Root].din.size /\ IsEntry(Inodes(s.w), U, s.de)

(* Two steps that only map blocks are such a step.                        *)
LEMMA OnlyAddrsTwice ==
  ASSUME NEW a, NEW b, NEW c, OnlyAddrs(a, b), OnlyAddrs(b, c)
  PROVE  OnlyAddrs(a, c)
BY DEF OnlyAddrs

(* What is at the position of an entry in the root is an entry.            *)
LEMMA RootEntry ==
  ASSUME NEW u, NEW X, NEW U, NEW off \in Nat, Mappable(u, X, U, Root),
         off < u.ip[Root].din.size, Loc(u, Root, off \div BSize) # 0
  PROVE  /\ IsEntry(Inodes(u), U, WordAt(u, Root, off))
         /\ off \div BSize \in 0 .. (MaxFile - 1)
<1> DEFINE l == off \div BSize
           q == off % BSize
           size == u.ip[Root].din.size
           M == MaxFile * BSize
<1>1. /\ Accounted(Inodes(u), Disk(u), U) /\ Inodes(u)[Root] = u.ip[Root].din
      /\ Inodes(u)[Root] \in InodeSet
  BY SoundIs DEF Mappable
<1>2. size \in 0 .. M /\ M \in Nat
  BY <1>1, Sizes DEF InodeSet
<1>3. off \in 0 .. (M - 1)
  <2> HIDE DEF M
  <2> QED BY <1>2
<1>4. l \in 0 .. (MaxFile - 1) /\ q \in 0 .. (BSize - 1) /\ off = l * BSize + q
  BY <1>3, LineOf
<1>5. Entries(Inodes(u), Disk(u), U, size)
  BY <1>1 DEF Accounted
<1> HIDE DEF size
<1>6. l * BSize + q < size
  BY <1>4 DEF size
<1>7. IsEntry(Inodes(u), U, Disk(u)[Addr(Inodes(u), Disk(u), Root, l)][q])
  <2> HIDE DEF l, q
  <2> QED BY <1>4, <1>5, <1>6 DEF Entries, Loc, l
<1> QED BY <1>4, <1>7 DEF WordAt, Loc

(* The words before a word, when there are none.                           *)
LEMMA OneWord ==
  ASSUME NEW x
  PROVE  /\ <<>> \o [j \in 1 .. 1 |-> x] # <<>>
         /\ (<<>> \o [j \in 1 .. 1 |-> x])[1] = x
<1> DEFINE F == [j \in 1 .. 1 |-> x]
<1>1. F \in Seq({x}) /\ Len(F) = 1
  <2>1. F \in [1 .. 1 -> {x}] /\ 1 \in Nat
    OBVIOUS
  <2> HIDE DEF F
  <2> QED BY <2>1, RunIsSeq
<1>2. F[1] = x
  OBVIOUS
<1> HIDE DEF F
<1>3. <<>> \o F = F
  BY <1>1, ConcatEmptySeq
<1>4. F # <<>>
  <2>1. Len(<<>>) = 0
    OBVIOUS
  <2>2. Len(F) # Len(<<>>)
    BY <1>1, <2>1
  <2> QED BY <2>2
<1> QED BY <1>2, <1>3, <1>4 DEF F

(* The next entry of the root: a whole one, that names an inode in use    *)
(* (dirLookup, link).                                                     *)
LEMMA NextEntrySearches ==
  ASSUME NEW v, NEW s, NEW X, NEW U, Have(s.w, Nobody, Nobody),
         Live(s.w) => Searched(v, s, X, U) /\ ~ AtEnd(s)
  PROVE  LET e == NextEntry(s)
         IN /\ Have(e.w, Nobody, Nobody)
            /\ Live(e.w) => Searched(v, e, X, U) /\ e.off = s.off + 1 /\ Live(s.w)
<1> DEFINE size == s.w.ip[Root].din.size
           n0 == IF s.off > size THEN 0 ELSE Min({1, size - s.off})
           t == [w |-> s.w, off |-> s.off, words |-> <<>>, n |-> n0]
           u == ReadInode(s.w, Root, s.off, 1)
           e == NextEntry(s)
<1>1. PICK f : ReadOn(t, Root, 1) = f[1] /\ ReadTurns(f, t, Root, 1)
  BY ReadOnTurns
<1>2. u = ReadNext(t, Root)
  <2>1. u = f[1]
    BY <1>1 DEF ReadInode
  <2>2. 0 \in 0 .. (1 - 1) /\ 0 + 1 = 1
    OBVIOUS
  <2>3. f[0] = t /\ f[1] = ReadNext(f[0], Root)
    BY <1>1, <2>2 DEF ReadTurns
  <2> QED BY <2>1, <2>3
<1>3. e = EntryOf(u)
  BY DEF NextEntry
<1>4. t.w = s.w /\ t.off = s.off /\ t.n = n0 /\ t.words = <<>>
  OBVIOUS
<1> HIDE DEF u, e, t
<1>5. Live(s.w) => /\ size \in Nat /\ s.off \in Nat /\ s.off < size /\ n0 = 1
                   /\ Mappable(s.w, X, U, Root)
  <2> SUFFICES ASSUME Live(s.w) PROVE size \in Nat /\ s.off \in Nat /\ s.off < size /\ n0 = 1
    BY DEF Searched
  <2>1. size \in Nat
    <3>1. s.w.ip[Root].din \in InodeSet
      BY RootIsInode, SoundIs DEF Searched, Mappable, Copies
    <3> QED BY <3>1, SizeInNat
  <2> HIDE DEF size
  <2>2. s.off \in 0 .. size /\ s.off < size
    BY <2>1 DEF Searched, AtEnd, size
  <2>3. size - s.off \in Nat /\ size - s.off >= 1
    BY <2>1, <2>2
  <2> QED BY <2>1, <2>2, <2>3, LesserIs
<1> HIDE DEF size, n0
<1>6. /\ Have(u.w, Nobody, Nobody)
      /\ Live(u.w) => /\ u.words # <<>> => /\ Live(s.w) /\ Mappable(u.w, X, U, Root)
                                           /\ OnlyAddrs(s.w.ip, u.w.ip) /\ u.off = s.off + 1
                                           /\ IsEntry(Inodes(u.w), U, u.words[1])
  <2>1. CASE t.n = 0
    <3>1. u = t
      BY <1>2, <2>1 DEF ReadNext
    <3> QED BY <1>4, <3>1
  <2>2. CASE t.n # 0
    <3>1. ASSUME Live(t.w) PROVE Readable(t, X, U, Root) /\ Line(t) \in 0 .. (MaxFile - 1)
      <4> DEFINE M == MaxFile * BSize
      <4>1. size \in 0 .. M /\ M \in Nat
        <5>1. s.w.ip[Root].din \in InodeSet
          BY <1>4, <1>5, <3>1, RootIsInode, SoundIs DEF Mappable, Copies
        <5> QED BY <5>1, Sizes DEF InodeSet, size
      <4> HIDE DEF M
      <4>2. s.off \in 0 .. (M - 1)
        BY <1>4, <1>5, <3>1, <4>1
      <4>3. Line(t) \in 0 .. (MaxFile - 1)
        BY <1>4, <4>2, LineOf DEF Line, M
      <4> QED BY <1>4, <1>5, <3>1, <4>3 DEF Readable
    <3>2. /\ Have(u.w, Nobody, Nobody)
          /\ Live(u.w) => ReadTurn(t, u, X, U, Root, Loc(u.w, Root, Line(t)), Turned(t))
      BY <1>2, <1>4, <2>2, <3>1, ReadNextReads
    <3>3. ASSUME Live(u.w), u.words # <<>>
          PROVE  /\ Live(s.w) /\ Mappable(u.w, X, U, Root)
                 /\ OnlyAddrs(s.w.ip, u.w.ip) /\ u.off = s.off + 1
                 /\ IsEntry(Inodes(u.w), U, u.words[1])
      <4> DEFINE b == Loc(u.w, Root, Line(t))
                 at == t.off % BSize
                 k == Turned(t)
      <4>1. ReadTurn(t, u, X, U, Root, b, k)
        BY <3>2, <3>3
      <4>2. Live(s.w) /\ Mappable(u.w, X, U, Root) /\ OnlyAddrs(s.w.ip, u.w.ip) /\ b # 0
        BY <1>4, <3>3, <4>1 DEF ReadTurn, Mapped
      <4>3. s.off \in Nat /\ s.off < size /\ n0 = 1 /\ at \in 0 .. (BSize - 1) /\ BSize \in Nat
        BY <1>4, <1>5, <4>2, Sizes, Division
      <4>4. k = 1
        <5> HIDE DEF at
        <5>1. k = Min({1, BSize - at})
          BY <1>4, <4>3 DEF Turned, at
        <5>2. BSize - at \in Nat /\ 1 <= BSize - at
          BY <4>3
        <5> HIDE DEF k
        <5> QED BY <5>1, <5>2, LesserIs
      <4>5. u.off = s.off + 1 /\ u.words = <<>> \o [j \in 1 .. 1 |-> Disk(u.w)[b][at + j - 1]]
        <5> HIDE DEF b, at
        <5> QED BY <1>4, <4>1, <4>2, <4>4 DEF ReadTurn, at
      <4>6. [j \in 1 .. 1 |-> Disk(u.w)[b][at + j - 1]] = [j \in 1 .. 1 |-> Disk(u.w)[b][at]]
        <5> HIDE DEF at, b
        <5>1. \A j \in 1 .. 1 : at + j - 1 = at
          BY <4>3
        <5> QED BY <5>1
      <4>7. u.words[1] = WordAt(u.w, Root, s.off)
        <5>1. u.words[1] = Disk(u.w)[b][at]
          <6> HIDE DEF at, b
          <6> QED BY <4>5, <4>6, OneWord
        <5> QED BY <1>4, <5>1 DEF WordAt, Line
      <4>8. s.off < u.w.ip[Root].din.size
        BY <4>2, <4>3, RootIsInode DEF OnlyAddrs, size
      <4>9. IsEntry(Inodes(u.w), U, WordAt(u.w, Root, s.off))
        BY <1>4, <4>2, <4>3, <4>8, RootEntry DEF Line
      <4> QED BY <4>2, <4>5, <4>7, <4>9
    <3> QED BY <3>2, <3>3
  <2> QED BY <2>1, <2>2
<1>7. CASE u.words = <<>>
  <2>1. e = [w |-> Stop(u.w, "read"), de |-> Zero, off |-> u.off]
    BY <1>3, <1>7 DEF EntryOf
  <2>2. "read" \notin {"buffers", NoPanic}
    BY DEF NoPanic
  <2>3. Have(Stop(u.w, "read"), Nobody, Nobody) /\ ~ Live(Stop(u.w, "read"))
    BY <1>6, <2>2, StopHave
  <2> QED BY <2>1, <2>3 DEF e
<1>8. CASE u.words # <<>>
  <2>1. e = [w |-> u.w, de |-> u.words[1], off |-> u.off]
    BY <1>3, <1>8 DEF EntryOf
  <2>2. e.w = u.w /\ e.de = u.words[1] /\ e.off = u.off
    BY <2>1
  <2>3. ASSUME Live(u.w) PROVE Searched(v, e, X, U) /\ e.off = s.off + 1 /\ Live(s.w)
    <3>1. /\ Live(s.w) /\ Mappable(u.w, X, U, Root)
          /\ OnlyAddrs(s.w.ip, u.w.ip) /\ u.off = s.off + 1
          /\ IsEntry(Inodes(u.w), U, u.words[1])
      BY <1>6, <1>8, <2>3
    <3>2. u.w.ip[Root].din.size = size /\ u.off \in 0 .. size
      BY <1>5, <3>1, RootIsInode DEF OnlyAddrs, size
    <3>3. OnlyAddrs(v.ip, u.w.ip) /\ Live(v)
      BY <3>1, OnlyAddrsTwice DEF Searched
    <3> QED BY <2>2, <3>1, <3>2, <3>3 DEF Searched
  <2> QED BY <1>6, <2>2, <2>3 DEF e
<1> QED BY <1>7, <1>8

-----------------------------------------------------------------------------
(* Sizes, the search for the place of an entry (link), and one turn of    *)
(* write.                                                                 *)

(* The size of a file.                                                     *)
LEMMA SizeIs ==
  ASSUME NEW v, NEW X, NEW U, NEW i, Mappable(v, X, U, i)
  PROVE  /\ v.ip[i].din.size \in Nat /\ v.ip[i].din \in InodeSet /\ v.ip[i] \in Copies
         /\ v.ip[i].din.size \in 0 .. (MaxFile * BSize)
<1>1. v.ip[i] \in Copies /\ v.ip[i].din \in InodeSet
  BY SoundIs DEF Mappable, Copies
<1> DEFINE M == MaxFile * BSize
<1>2. v.ip[i].din.size \in 0 .. M /\ M \in Nat
  BY <1>1, InodeIs, Sizes
<1> HIDE DEF M
<1>3. v.ip[i].din.size \in Nat
  BY <1>2
<1> QED BY <1>1, <1>2, <1>3 DEF M

(* A search begins.                                                        *)
LEMMA StartSearches ==
  ASSUME NEW v, NEW X, NEW U, Live(v), Mappable(v, X, U, Root)
  PROVE  Searched(v, Start(v), X, U)
<1>1. Start(v).w = v /\ Start(v).de = Zero /\ Start(v).off = 0
  BY DEF Start
<1>2. v.ip[Root].din \in InodeSet
  BY RootIsInode, SoundIs DEF Mappable, Copies
<1>3. v.ip[Root].din.size \in Nat
  BY <1>2, SizeInNat
<1> HIDE DEF Start
<1> QED BY <1>1, <1>3 DEF Searched, OnlyAddrs, IsEntry

(* A search at s is fine.                                                  *)
Searching(v, s, X, U) ==
  Have(s.w, Nobody, Nobody) /\ (Live(s.w) => Searched(v, s, X, U))

(* A turn of the search keeps what the search knows.                      *)
LEMMA SearchesOn ==
  ASSUME NEW v, NEW s, NEW X, NEW U, Searching(v, s, X, U), ~ AtEnd(s)
  PROVE  Searching(v, NextEntry(s), X, U)
<1>1. Live(s.w) => Searched(v, s, X, U) /\ ~ AtEnd(s)
  BY DEF Searching
<1> QED BY <1>1, NextEntrySearches DEF Searching

(* lookup and the search of link.                                          *)
LEMMA LookupSearches ==
  ASSUME NEW v, NEW name, NEW X, NEW U, Have(v, Nobody, Nobody), Live(v) => Mappable(v, X, U, Root)
  PROVE  Searching(v, Lookup(v, name), X, U)
<1>1. PICK f : /\ LookupOn(v, name) = f[MaxEntries] /\ f[0] = Start(v)
               /\ \A k \in 0 .. (MaxEntries - 1) : f[k + 1] = LookupNext(f[k], name)
  BY LookupOnTurns
<1> DEFINE S == {k \in 0 .. MaxEntries : Searching(v, f[k], X, U)}
<1>2. MaxEntries \in Nat
  BY SizesNat
<1>3. Searching(v, f[0], X, U)
  <2>1. Start(v).w = v
    BY DEF Start
  <2> QED BY <1>1, <2>1, StartSearches DEF Searching
<1>4. ASSUME NEW k \in 0 .. (MaxEntries - 1), Searching(v, f[k], X, U)
      PROVE  Searching(v, f[k + 1], X, U)
  <2>1. f[k + 1] = LookupNext(f[k], name)
    BY <1>1
  <2>2. CASE Named(f[k], name) \/ AtEnd(f[k])
    BY <1>4, <2>1, <2>2 DEF LookupNext
  <2>3. CASE ~ (Named(f[k], name) \/ AtEnd(f[k]))
    BY <1>4, <2>1, <2>3, SearchesOn DEF LookupNext
  <2> QED BY <2>2, <2>3
<1>5. 0 \in S /\ \A k \in 0 .. (MaxEntries - 1) : k \in S => k + 1 \in S
  BY <1>2, <1>3, <1>4
<1>6. Searching(v, LookupOn(v, name), X, U)
  <2> HIDE DEF S
  <2>1. MaxEntries \in S
    BY <1>2, <1>5, Reached
  <2> QED BY <1>1, <2>1 DEF S
<1> DEFINE s == LookupOn(v, name)
           z == [w |-> s.w, de |-> Zero, off |-> s.off]
<1>7. Lookup(v, name) \in {s, z}
  BY DEF Lookup, Result
<1>8. Searching(v, z, X, U)
  <2>1. z.w = s.w /\ z.de = Zero /\ z.off = s.off
    OBVIOUS
  <2> HIDE DEF s, z
  <2> QED BY <1>6, <2>1 DEF Searching, Searched, IsEntry, s
<1> HIDE DEF z
<1> QED BY <1>6, <1>7, <1>8

(* link finds the place of a new entry: a free one, or the end of the     *)
(* root.                                                                  *)
LEMMA FreeEntrySearches ==
  ASSUME NEW v, NEW X, NEW U, Have(v, Nobody, Nobody), Live(v) => Mappable(v, X, U, Root)
  PROVE  Searching(v, Place(FreeEntryOn(v)), X, U)
<1>1. PICK f : /\ FreeEntryOn(v) = f[MaxEntries] /\ f[0] = Start(v)
               /\ \A k \in 0 .. (MaxEntries - 1) : f[k + 1] = FreeNext(f[k])
  BY FreeEntryOnTurns
<1> DEFINE S == {k \in 0 .. MaxEntries : Searching(v, f[k], X, U)}
<1>2. MaxEntries \in Nat
  BY SizesNat
<1>3. Searching(v, f[0], X, U)
  <2>1. Start(v).w = v
    BY DEF Start
  <2> QED BY <1>1, <2>1, StartSearches DEF Searching
<1>4. ASSUME NEW k \in 0 .. (MaxEntries - 1), Searching(v, f[k], X, U)
      PROVE  Searching(v, f[k + 1], X, U)
  <2>1. f[k + 1] = FreeNext(f[k])
    BY <1>1
  <2>2. CASE IsFree(f[k]) \/ AtEnd(f[k])
    BY <1>4, <2>1, <2>2 DEF FreeNext
  <2>3. CASE ~ (IsFree(f[k]) \/ AtEnd(f[k]))
    BY <1>4, <2>1, <2>3, SearchesOn DEF FreeNext
  <2> QED BY <2>2, <2>3
<1>5. 0 \in S /\ \A k \in 0 .. (MaxEntries - 1) : k \in S => k + 1 \in S
  BY <1>2, <1>3, <1>4
<1>6. Searching(v, FreeEntryOn(v), X, U)
  <2> HIDE DEF S
  <2>1. MaxEntries \in S
    BY <1>2, <1>5, Reached
  <2> QED BY <1>1, <2>1 DEF S
<1> DEFINE s == FreeEntryOn(v)
           z == [w |-> s.w, de |-> Zero, off |-> s.off - 1]
<1>7. CASE ~ IsFree(s)
  BY <1>6, <1>7 DEF Place
<1>8. CASE IsFree(s)
  <2>1. z.w = s.w /\ z.de = Zero /\ z.off = s.off - 1 /\ Place(s) = z /\ s.off > 0
    BY <1>8 DEF Place, IsFree
  <2> HIDE DEF s, z
  <2>2. ASSUME Live(s.w) PROVE Searched(v, z, X, U)
    <3> DEFINE size == s.w.ip[Root].din.size
    <3>1. Searched(v, s, X, U) /\ s.off \in 0 .. size
      BY <1>6, <2>2 DEF Searching, Searched, s
    <3>2. size \in Nat
      BY <3>1, SizeIs DEF Searched
    <3> HIDE DEF size
    <3>3. z.off \in 0 .. size
      BY <2>1, <3>1, <3>2
    <3> QED BY <2>1, <3>1, <3>3 DEF Searched, IsEntry, size
  <2> QED BY <1>6, <2>1, <2>2 DEF Searching, s
<1> QED BY <1>7, <1>8

-----------------------------------------------------------------------------
(* Inode.write.                                                            *)

(* The words of t laid over a line from at on.                             *)
Overlaid(data, at, k, words) ==
  [j \in DOMAIN data |-> IF j \in at .. (at + k - 1) THEN words[j - at + 1] ELSE data[j]]
Stride(t) == Min({Len(t.words), BSize - (t.off % BSize)})

(* A turn that finds block b in m, and writes k words into it.             *)
Wrote(t, u, m, X, U, i, b, k) ==
  /\ Live(t.w) /\ Mappable(m, X, U, i) /\ Mapped(t.w, m, i, Line(t), b) /\ u.w.ip = m.ip
  /\ IF b = 0 THEN Disk(u.w) = Disk(m) /\ u.off = t.off /\ u.tot = t.tot /\ u.words = <<>>
     ELSE /\ Disk(u.w) = [Disk(m) EXCEPT ![b] = Overlaid(Disk(m)[b], t.off % BSize, k, t.words)]
          /\ u.off = t.off + k /\ u.tot = t.tot + k
          /\ u.words = SubSeq(t.words, k + 1, Len(t.words))
WriteTurn(t, u, X, U, i) == \E m, b : Wrote(t, u, m, X, U, i, b, Stride(t))

(* One turn of the loop of Inode.write.                                    *)
LEMMA WriteNextWrites ==
  ASSUME NEW t, NEW i, NEW X, NEW U, Have(t.w, Nobody, Nobody), t.words # <<>>,
         Live(t.w) => Readable(t, X, U, i)
  PROVE  LET u == WriteNext(t, i)
         IN Have(u.w, Nobody, Nobody) /\ (Live(u.w) => WriteTurn(t, u, X, U, i))
<1> DEFINE u == WriteNext(t, i)
           m == Bmap(t.w, i, Line(t))
           r == Bread(m.w, m.b)
           q == [w |-> r, off |-> t.off, tot |-> t.tot, words |-> t.words]
           k == Stride(t)
           at == t.off % BSize
           new == Overlaid(Data(r, m.b), at, k, t.words)
           e == Brelease(SetData(r, m.b, new), m.b)
<1>1. CASE Halted(t.w)
  <2>1. u = t
    BY <1>1 DEF WriteNext
  <2> HIDE DEF u
  <2> QED BY <1>1, <2>1 DEF Live, u
<1>2. CASE ~ Halted(t.w)
  <2>1. u = WriteBlock(t, m)
    BY <1>2 DEF WriteNext, Line
  <2> HIDE DEF u
  <2>2. /\ Have(m.w, Nobody, Nobody)
        /\ Live(m.w) => Bmapped(t.w, m, X, U, i, Line(t))
    BY BmapMaps DEF Readable
  <2> HIDE DEF m
  <2>3. Live(m.w) => /\ Live(t.w) /\ Mappable(m.w, X, U, i) /\ Mapped(t.w, m.w, i, Line(t), m.b)
                     /\ m.b = Loc(m.w, i, Line(t)) /\ m.b \in Links
    BY <2>2 DEF Bmapped, Mapped
  <2>4. CASE m.b = 0
    <3>1. u = [w |-> m.w, off |-> t.off, tot |-> t.tot, words |-> <<>>]
      BY <2>1, <2>4 DEF WriteBlock
    <3>2. u.w = m.w /\ u.off = t.off /\ u.tot = t.tot /\ u.words = <<>>
      BY <3>1
    <3>3. ASSUME Live(m.w) PROVE WriteTurn(t, u, X, U, i)
      <4>1. Wrote(t, u, m.w, X, U, i, 0, Stride(t))
        BY <2>3, <2>4, <3>2, <3>3 DEF Wrote
      <4> QED BY <4>1 DEF WriteTurn
    <3> QED BY <2>2, <3>2, <3>3 DEF u
  <2>5. CASE m.b # 0
    <3>1. u = IntoBlock(q, m.b)
      BY <2>1, <2>5 DEF WriteBlock
    <3>2. Live(m.w) => m.b \in Blocks
      BY <2>3, <2>5, Sizes DEF Links
    <3>3. Have(r, Id(m.b), Nobody) /\ (Live(r) => Same(m.w, r))
      BY <2>2, <3>2, BreadSame
    <3>5. Live(r) => Data(r, m.b) = Disk(r)[m.b]
      BY <3>2, <3>3, DataSame DEF Same
    <3> HIDE DEF r, new
    <3>4. Have(e, Nobody, Nobody) /\ (Live(e) => Poked(r, e, m.b, new))
      BY <3>3, StoreSame
    <3> HIDE DEF e
    <3>6. CASE Halted(r)
      <4>1. u = q
        BY <3>1, <3>6 DEF IntoBlock
      <4>2. u.w = r
        BY <4>1
      <4>3. Have(r, Nobody, Nobody) /\ ~ Live(r)
        BY <3>3, <3>6, HaltedHave
      <4> QED BY <4>2, <4>3 DEF u
    <3>7. CASE ~ Halted(r)
      <4> DEFINE W == SubSeq(t.words, k + 1, Len(t.words))
      <4>1. u = [w |-> e, off |-> t.off + k, tot |-> t.tot + k, words |-> W]
        BY <3>1, <3>7 DEF IntoBlock, Stride, e, new, Overlaid
      <4>2. u.w = e /\ u.off = t.off + k /\ u.tot = t.tot + k /\ u.words = W
        BY <4>1
      <4> HIDE DEF k
      <4>3. ASSUME Live(e) PROVE WriteTurn(t, u, X, U, i)
        <5>1. Live(r) /\ Live(m.w) /\ Poked(r, e, m.b, new) /\ Same(m.w, r)
          BY <3>3, <3>4, <4>3 DEF Poked, Same
        <5>2. /\ e.ip = m.w.ip /\ Disk(r) = Disk(m.w)
              /\ Disk(e) = [Disk(m.w) EXCEPT ![m.b] = Overlaid(Disk(m.w)[m.b], at, k, t.words)]
          BY <3>5, <5>1 DEF Same, Poked, new
        <5>3. Wrote(t, u, m.w, X, U, i, m.b, k)
          BY <2>3, <2>5, <4>2, <5>1, <5>2 DEF Wrote
        <5> QED BY <5>3 DEF WriteTurn, k
      <4> QED BY <3>4, <4>2, <4>3 DEF u
    <3> QED BY <3>6, <3>7
  <2> QED BY <2>4, <2>5
<1> QED BY <1>1, <1>2

(* The blocks of all inodes are where they were.                           *)
StillMapped(m, u, X, U, i) ==
  /\ Mappable(u, X, U, i) /\ Inodes(u) = Inodes(m)
  /\ \A j \in Inums, k \in 0 .. MaxFile : Loc(u, j, k) = Loc(m, j, k)

(* The data of a block of a file changes.                                  *)
LEMMA PokeSound ==
  ASSUME NEW m, NEW u, NEW X, NEW U, NEW i, NEW l \in 0 .. (MaxFile - 1), NEW b, NEW data,
         Mappable(m, X, U, i), u.ip = m.ip, Disk(u) = [Disk(m) EXCEPT ![b] = data],
         Pokable(Inodes(m), Disk(m), U, i, l, b, data)
  PROVE  StillMapped(m, u, X, U, i)
<1> DEFINE d == Disk(m)
           F == Inodes(m)
<1>1. /\ Accounted(F, d, U) /\ Memory(m.ip, d, X) /\ i \in Inums /\ Used(m.ip[i])
      /\ F[i] = m.ip[i].din
  BY SoundIs DEF Mappable
<1>2. IsDisk(d)
  BY DiskIs
<1>3. b \in DataBlocks
  <2>1. l \in 0 .. MaxFile
    BY Sizes
  <2>2. Addr(F, d, i, l) \in Links
    BY <1>1, <2>1, AddrIsLink DEF Accounted
  <2> QED BY <2>2 DEF Links, Pokable
<1>4. SameInodes(d, Disk(u))
  <2> HIDE DEF d
  <2>1. Disk(u) = [d EXCEPT ![b] = data]
    BY DEF d
  <2>2. b \in DataBlocks \cup {BmapStart}
    BY <1>3
  <2>3. SameInodes(d, [d EXCEPT ![b] = data])
    BY <1>2, <2>2, PokedInodes
  <2> QED BY <2>1, <2>3
<1>5. Memory(u.ip, Disk(u), X) /\ Inodes(u) = F
  BY <1>1, <1>4, MemoryData DEF Inodes
<1>6. StillAccounted(F, d, [d EXCEPT ![b] = data], U)
  <2>1. Pokable(F, d, U, i, l, b, data)
    OBVIOUS
  <2> HIDE DEF F, d
  <2>2. i \in Inums /\ l \in 0 .. (MaxFile - 1)
    BY <1>1
  <2> QED BY <1>1, <1>2, <2>1, <2>2, PokedAccounted
<1>7. Accounted(F, Disk(u), U) /\ \A j \in Inums, k \in 0 .. MaxFile : Loc(u, j, k) = Loc(m, j, k)
  BY <1>5, <1>6 DEF Loc, StillAccounted
<1>8. Sound(u, X, U)
  BY <1>5, <1>7 DEF Sound, Sane, Inodes
<1> QED BY <1>1, <1>5, <1>7, <1>8 DEF Mappable, StillMapped

(* The size of a file changes.                                             *)
LEMMA ResizeSound ==
  ASSUME NEW t, NEW i, NEW n, NEW X, NEW U, Have(t.w, Nobody, Nobody),
         Live(t.w) => /\ Mappable(t.w, X, U, i) /\ n \in 0 .. (MaxFile * BSize)
                      /\ i # Root => Gapless(Inodes(t.w), Disk(t.w), i, n)
                      /\ i = Root => Entries(Inodes(t.w), Disk(t.w), U, n)
  PROVE  LET u == SetSize(t, i, n)
         IN /\ Have(u.w, Nobody, Nobody) /\ u.off = t.off /\ u.tot = t.tot
            /\ Live(u.w) => Restated(t.w, u.w, i, [t.w.ip[i].din EXCEPT !.size = n], X \ {i}, U)
<1> DEFINE v == t.w
           din == [v.ip[i].din EXCEPT !.size = n]
           s == WithIp(v, [v.ip EXCEPT ![i] = Redin(v.ip[i], din)])
           u == SetSize(t, i, n)
<1>1. [t.w EXCEPT !.ip[i].din.size = n] = s
  BY DEF WithIp, Redin
<1>2. u.w = Update(s, i) /\ u.off = t.off /\ u.tot = t.tot
  BY <1>1 DEF SetSize
<1>3. Live(v) => /\ Mappable(v, X, U, i) /\ din \in InodeSet /\ din.type # "free"
                 /\ Accounted(With(Inodes(v), i, din), Disk(v), U)
  <2> SUFFICES ASSUME Live(v)
               PROVE  /\ din \in InodeSet /\ din.type # "free"
                      /\ Accounted(With(Inodes(v), i, din), Disk(v), U)
    OBVIOUS
  <2> HIDE DEF v
  <2>0. /\ Mappable(v, X, U, i) /\ n \in 0 .. (MaxFile * BSize)
        /\ i # Root => Gapless(Inodes(v), Disk(v), i, n)
        /\ i = Root => Entries(Inodes(v), Disk(v), U, n)
    BY DEF v
  <2>1. /\ Accounted(Inodes(v), Disk(v), U) /\ Memory(v.ip, Disk(v), X) /\ v.ip \in [Inums -> Copies]
        /\ i \in Inums /\ Used(v.ip[i]) /\ Inodes(v)[i] = v.ip[i].din
    BY <2>0, SoundIs DEF Mappable
  <2>2. v.ip[i].din \in InodeSet /\ v.ip[i].din.type # "free"
    BY <2>1 DEF Copies, Memory
  <2>3. din \in InodeSet /\ din.type # "free"
    BY <2>0, <2>2 DEF InodeSet
  <2>4. Accounted(With(Inodes(v), i, [Inodes(v)[i] EXCEPT !.size = n]), Disk(v), U)
    BY <2>0, <2>1, <2>2, ResizedAccounted
  <2> QED BY <2>1, <2>3, <2>4
<1> HIDE DEF din, v
<1>4. LET z == Update(WithIp(v, [v.ip EXCEPT ![i] = Redin(v.ip[i], din)]), i)
      IN Have(z, Nobody, Nobody) /\ (Live(z) => Restated(v, z, i, din, X \ {i}, U))
  <2>1. Have(v, Nobody, Nobody)
    BY DEF v
  <2> QED BY <1>3, <2>1, RestateSound
<1> QED BY <1>2, <1>4 DEF din, v

-----------------------------------------------------------------------------
(* write into a file.                                                     *)

(* A line that words are laid over is a line.                              *)
LEMMA OverlaidIs ==
  ASSUME NEW data, IsLine(data), NEW at, NEW k, NEW words
  PROVE  /\ IsLine(Overlaid(data, at, k, words))
         /\ \A j \in 0 .. (BSize - 1) :
              Overlaid(data, at, k, words)[j] = IF j \in at .. (at + k - 1) THEN words[j - at + 1]
                                                ELSE data[j]
<1>1. DOMAIN data = 0 .. (BSize - 1)
  BY DEF IsLine
<1> DEFINE G(j) == IF j \in at .. (at + k - 1) THEN words[j - at + 1] ELSE data[j]
<1>2. Overlaid(data, at, k, words) = [j \in 0 .. (BSize - 1) |-> G(j)]
  BY <1>1 DEF Overlaid
<1> HIDE DEF G
<1>3. IsLine([j \in 0 .. (BSize - 1) |-> G(j)])
  BY DEF IsLine
<1>4. \A j \in 0 .. (BSize - 1) : [m \in 0 .. (BSize - 1) |-> G(m)][j] = G(j)
  OBVIOUS
<1> QED BY <1>2, <1>3, <1>4 DEF G

(* The blocks a file had are its blocks still.                             *)
StillThere(v, u) == \A j \in Inums, l \in 0 .. MaxFile : Loc(v, j, l) # 0 => Loc(u, j, l) # 0

(* A turn of a write to a file.                                            *)
FileTurn(t, u, U, i, k) ==
  /\ Live(t.w) /\ Mappable(u.w, {i}, U, i) /\ OnlyAddrs(t.w.ip, u.w.ip) /\ StillThere(t.w, u.w)
  /\ \/ u.off = t.off /\ u.words = <<>>
     \/ /\ u.off = t.off + k /\ u.words = SubSeq(t.words, k + 1, Len(t.words))
        /\ Loc(u.w, i, Line(t)) # 0

(* One turn of the loop of write in a file leaves the file mapped and     *)
(* sound.                                                                 *)
LEMMA TurnWrites ==
  ASSUME NEW t, NEW u, NEW U, NEW i, i # Root, Line(t) \in 0 .. (MaxFile - 1),
         WriteTurn(t, u, {i}, U, i)
  PROVE  FileTurn(t, u, U, i, Stride(t))
<1> DEFINE k == Stride(t)
<1> HIDE DEF k
<1>1. PICK m, b : Wrote(t, u, m, {i}, U, i, b, k)
  BY DEF WriteTurn, k
<1>2. /\ Live(t.w) /\ Mappable(m, {i}, U, i) /\ OnlyAddrs(t.w.ip, m.ip) /\ b = Loc(m, i, Line(t)) /\ b \in Links
      /\ \A j \in Inums, l \in 0 .. MaxFile : Loc(t.w, j, l) # 0 => Loc(m, j, l) # 0
      /\ u.w.ip = m.ip
  BY <1>1 DEF Wrote, Mapped
<1>3. CASE b = 0
  <2>1. Disk(u.w) = Disk(m) /\ u.off = t.off /\ u.words = <<>>
    BY <1>1, <1>3 DEF Wrote
  <2>2. Mappable(u.w, {i}, U, i) /\ \A j, l : Loc(u.w, j, l) = Loc(m, j, l)
    BY <1>2, <2>1 DEF Mappable, Sound, Loc, Inodes
  <2> QED BY <1>2, <2>1, <2>2 DEF FileTurn, StillThere
<1>4. CASE b # 0
  <2> DEFINE data == Overlaid(Disk(m)[b], t.off % BSize, k, t.words)
  <2>1. /\ Disk(u.w) = [Disk(m) EXCEPT ![b] = data]
        /\ u.off = t.off + k /\ u.words = SubSeq(t.words, k + 1, Len(t.words))
    BY <1>1, <1>4 DEF Wrote
  <2>2. IsLine(Disk(m)[b])
    <3>1. Shaped(Inodes(m), Disk(m)) /\ b \in DataBlocks
      BY <1>2, <1>4, SoundIs DEF Accounted, Mappable, Links
    <3> QED BY <3>1 DEF Shaped, IsLine
  <2>3. IsLine(data)
    BY <2>2, OverlaidIs
  <2> HIDE DEF data
  <2>4. Pokable(Inodes(m), Disk(m), U, i, Line(t), b, data)
    BY <1>2, <1>4, <2>3 DEF Pokable, Loc
  <2>5. /\ Mappable(u.w, {i}, U, i)
        /\ \A j \in Inums, l \in 0 .. MaxFile : Loc(u.w, j, l) = Loc(m, j, l)
    BY <1>2, <2>1, <2>4, PokeSound DEF StillMapped
  <2>6. i \in Inums /\ Line(t) \in 0 .. MaxFile
    BY <1>2, Sizes DEF Mappable
  <2> QED BY <1>2, <1>4, <2>1, <2>5, <2>6 DEF FileTurn, StillThere, k
<1> QED BY <1>3, <1>4

(* What was written of a file so far.                                      *)
Written(v, t, i, U, S) ==
  /\ Live(v) /\ Mappable(t.w, {i}, U, i) /\ OnlyAddrs(v.ip, t.w.ip)
  /\ t.off \in Nat /\ t.words \in Seq(S) /\ t.off + Len(t.words) <= MaxFile * BSize
  /\ Gapless(Inodes(t.w), Disk(t.w), i, t.off)

(* A turn leaves no gap.                                                   *)
LEMMA TurnWritesOn ==
  ASSUME NEW v, NEW t, NEW i, NEW U, NEW S, i # Root, Written(v, t, i, U, S), t.words # <<>>
  PROVE  /\ Readable(t, {i}, U, i)
         /\ \A u : WriteTurn(t, u, {i}, U, i) => Written(v, u, i, U, S)
<1> DEFINE M == MaxFile * BSize
           n == Len(t.words)
           at == t.off % BSize
           L == Line(t)
           k == Stride(t)
<1>1. t.off \in Nat /\ n \in Nat \ {0} /\ t.words \in Seq(S) /\ M \in Nat /\ t.off + n <= M
  <2>1. t.words \in Seq(S)
    BY DEF Written
  <2>2. n \in Nat \ {0}
    BY <2>1, EmptySeq, LenProperties
  <2>3. t.off \in Nat /\ t.off + n <= M
    BY DEF Written
  <2> HIDE DEF n
  <2> QED BY <2>1, <2>2, <2>3, Sizes
<1>2. t.off \in 0 .. (M - 1)
  <2> HIDE DEF M, n
  <2> QED BY <1>1
<1>3. /\ L \in 0 .. (MaxFile - 1) /\ at \in 0 .. (BSize - 1) /\ t.off = L * BSize + at
      /\ BSize \in Nat \ {0}
  BY <1>2, LineOf, Sizes DEF Line
<1>4. k \in 1 .. n /\ at + k <= BSize
  BY <1>1, <1>2, InLine DEF Stride
<1> HIDE DEF k, L, at, M, n
<1>5. Readable(t, {i}, U, i)
  BY <1>3 DEF Readable, Written, L
<1> SUFFICES ASSUME NEW u, WriteTurn(t, u, {i}, U, i)
             PROVE  Written(v, u, i, U, S)
  BY <1>5
<1>6. FileTurn(t, u, U, i, k)
  BY <1>3, TurnWrites DEF k, L
<1>7. OnlyAddrs(v.ip, u.w.ip)
  BY <1>6, OnlyAddrsTwice DEF Written, FileTurn
<1>8. \A l \in 0 .. (MaxFile - 1) : l * BSize < t.off => Loc(u.w, i, l) # 0
  <2>1. \A l \in 0 .. (MaxFile - 1) : l \in 0 .. MaxFile
    BY Sizes
  <2>2. i \in Inums
    BY DEF Written, Mappable
  <2>3. \A l \in 0 .. (MaxFile - 1) : l * BSize < t.off => Loc(t.w, i, l) # 0
    BY DEF Written, Gapless, Loc
  <2> QED BY <1>6, <2>1, <2>2, <2>3 DEF FileTurn, StillThere
<1>9. CASE u.off = t.off /\ u.words = <<>>
  <2>1. u.words \in Seq(S) /\ Len(u.words) = 0
    BY <1>9
  <2>2. u.off + Len(u.words) <= M
    BY <1>1, <1>2, <1>9, <2>1
  <2> QED BY <1>1, <1>6, <1>7, <1>8, <1>9, <2>1, <2>2 DEF Written, FileTurn, Gapless, Loc, M
<1>10. CASE /\ u.off = t.off + k /\ u.words = SubSeq(t.words, k + 1, n) /\ Loc(u.w, i, L) # 0
  <2>1. u.words \in Seq(S) /\ Len(u.words) = n - k
    <3>1. k + 1 \in 1 .. (n + 1)
      BY <1>1, <1>4
    <3>2. SubSeq(t.words, k + 1, n) \in Seq(S) /\ Len(SubSeq(t.words, k + 1, n)) = IF k + 1 <= n THEN n - (k + 1) + 1 ELSE 0
      <4>1. k + 1 \in 1 .. Len(t.words) + 1 /\ n \in (k + 1) - 1 .. Len(t.words)
        BY <1>1, <1>4 DEF n
      <4> QED BY <1>1, <3>1, <4>1, SubSeqProperties DEF n
    <3> QED BY <1>1, <1>4, <1>10, <3>2
  <2>2. u.off \in Nat /\ u.off + Len(u.words) <= M
    BY <1>1, <1>4, <1>10, <2>1
  <2>3. ASSUME NEW l \in 0 .. (MaxFile - 1), l * BSize < u.off PROVE Loc(u.w, i, l) # 0
    <3>1. CASE l * BSize < t.off
      BY <1>8, <3>1
    <3>2. CASE ~ (l * BSize < t.off)
      <4>1. l \in Int /\ L \in Int /\ l * BSize \in Nat /\ L * BSize \in Nat
        BY <1>3, Sizes
      <4>2. ~ (l < L)
        <5>1. l < L => l * BSize < L * BSize
          BY <1>3, <4>1
        <5> DEFINE p == l * BSize
                   q == L * BSize
        <5>2. p \in Nat /\ q \in Nat /\ t.off = q + at /\ ~ (p < t.off)
          BY <1>3, <3>2, <4>1
        <5> HIDE DEF p, q
        <5>3. ~ (p < q)
          BY <1>3, <5>2
        <5> QED BY <5>1, <5>3 DEF p, q
      <4>3. ~ (L < l)
        <5>1. L < l => L * BSize + BSize <= l * BSize
          <6>1. L < l => L * BSize < l * BSize
            BY <1>3, <4>1
          <6> QED BY <1>3, <4>1, <6>1, Apart
        <5> DEFINE p == l * BSize
                   q == L * BSize
        <5>2. p \in Nat /\ q \in Nat /\ t.off = q + at /\ p < t.off + k
          <6>1. p < u.off /\ u.off = t.off + k
            BY <1>10, <2>3
          <6> QED BY <1>3, <4>1, <6>1
        <5> HIDE DEF p, q
        <5>3. ~ (q + BSize <= p)
          <6>1. k \in Nat /\ at \in Nat /\ BSize \in Nat /\ at + k <= BSize
            BY <1>1, <1>3, <1>4
          <6> QED BY <5>2, <6>1
        <5> QED BY <5>1, <5>3 DEF p, q
      <4>4. l = L
        BY <4>1, <4>2, <4>3
      <4> QED BY <1>10, <4>4
    <3> QED BY <3>1, <3>2
  <2>4. Gapless(Inodes(u.w), Disk(u.w), i, u.off)
    BY <2>3 DEF Gapless, Loc
  <2> QED BY <1>6, <1>7, <2>1, <2>2, <2>4 DEF Written, FileTurn, M
<1> QED BY <1>6, <1>9, <1>10 DEF FileTurn, n, L

(* Inode.write of a file, within the file or at its end.                   *)
WroteFile(v, u, i, U) ==
  /\ Live(v) /\ Sound(u, {}, U)
  /\ \A j \in Inums : u.ip[j].ref = v.ip[j].ref

(* write into a file allocates what it needs, and the file system stays   *)
(* sound.                                                                 *)
LEMMA WriteFileSound ==
  ASSUME NEW v, NEW i, NEW off \in Nat, NEW S, NEW words \in Seq(S), NEW U,
         i # Root, Have(v, Nobody, Nobody), Live(v) => Mappable(v, {}, U, i)
  PROVE  LET t == WriteInode(v, i, off, words)
         IN Have(t.w, Nobody, Nobody) /\ (Live(t.w) => WroteFile(v, t.w, i, U))
<1> DEFINE t0 == [w |-> v, off |-> off, tot |-> 0, words |-> words]
           n == Len(words)
           M == MaxFile * BSize
           t == WriteInode(v, i, off, words)
<1>0. n \in Nat
  BY LenProperties
<1>1. PICK f : WriteOn(t0, i, n) = f[n] /\ WriteTurns(f, t0, i, n)
  BY <1>0, WriteOnTurns
<1>2. CASE off > v.ip[i].din.size \/ off + n > M
  <2>1. t.w = v
    BY <1>2 DEF WriteInode
  <2>2. ASSUME Live(v) PROVE WroteFile(v, v, i, U)
    BY <2>2 DEF WroteFile, Mappable
  <2> HIDE DEF t
  <2> QED BY <2>1, <2>2 DEF t
<1>3. CASE ~ (off > v.ip[i].din.size) /\ ~ (off + n > M)
  <2> DEFINE e == f[n]
             z == Max({e.w.ip[i].din.size, e.off})
  <2>1. t = SetSize(e, i, z)
    BY <1>1, <1>3 DEF WriteInode, Grown
  <2> HIDE DEF t
  <2> DEFINE Q(k) == /\ Have(f[k].w, Nobody, Nobody)
                     /\ Live(f[k].w) => Written(v, f[k], i, U, S)
             T == {k \in 0 .. n : Q(k)}
  <2>2. Q(0)
    <3>1. f[0] = t0 /\ t0.w = v /\ t0.off = off /\ t0.words = words
      BY <1>1 DEF WriteTurns
    <3> HIDE DEF t0
    <3>2. ASSUME Live(v) PROVE Written(v, f[0], i, U, S)
      <4>1. Mappable(v, {}, U, i) /\ v.ip[i].din.size \in Nat /\ off <= v.ip[i].din.size
        BY <1>3, <3>2, SizeIs
      <4>2. Mappable(v, {i}, U, i)
        BY <4>1 DEF Mappable, Sound, Sane, Memory
      <4>3. Gapless(Inodes(v), Disk(v), i, off)
        <5>1. Gapless(Inodes(v), Disk(v), i, v.ip[i].din.size)
          <6>1. Accounted(Inodes(v), Disk(v), U) /\ Inodes(v)[i] = v.ip[i].din /\ i \in Files
            BY <4>1, SoundIs DEF Mappable, Files
          <6> QED BY <6>1 DEF Accounted
        <5>2. ASSUME NEW l \in 0 .. (MaxFile - 1), l * BSize < off PROVE l * BSize < v.ip[i].din.size
          <6> DEFINE p == l * BSize
          <6>1. p \in Nat
            BY Sizes
          <6> HIDE DEF p
          <6>2. p < off
            BY <5>2 DEF p
          <6>3. p < v.ip[i].din.size
            BY <4>1, <6>1, <6>2
          <6> QED BY <6>3 DEF p
        <5> QED BY <5>1, <5>2 DEF Gapless
      <4>4. off + Len(words) <= M
        <5> HIDE DEF M
        <5>1. M \in Nat
          BY Sizes DEF M
        <5> QED BY <1>0, <1>3, <5>1
      <4> QED BY <3>1, <3>2, <4>2, <4>3, <4>4 DEF Written, OnlyAddrs
    <3> QED BY <3>1, <3>2
  <2>3. ASSUME NEW k \in 0 .. (n - 1), Q(k) PROVE Q(k + 1)
    <3>1. f[k + 1] = WriteNext(f[k], i)
      BY <1>1 DEF WriteTurns
    <3> DEFINE p == f[k]
               u == f[k + 1]
    <3>2. CASE p.words = <<>> \/ Halted(p.w)
      <4>1. u = p
        BY <3>1, <3>2 DEF WriteNext
      <4> QED BY <2>3, <4>1
    <3>3. CASE p.words # <<>> /\ ~ Halted(p.w)
      <4>0. u = WriteNext(p, i) /\ Have(p.w, Nobody, Nobody) /\ (Live(p.w) => Written(v, p, i, U, S))
        BY <2>3, <3>1
      <4> HIDE DEF p, u
      <4>1. Live(p.w) => Readable(p, {i}, U, i)
        BY <3>3, <4>0, TurnWritesOn
      <4>2. Have(u.w, Nobody, Nobody) /\ (Live(u.w) => WriteTurn(p, u, {i}, U, i))
        BY <3>3, <4>0, <4>1, WriteNextWrites
      <4>3. ASSUME Live(u.w) PROVE Written(v, u, i, U, S)
        <5>1. WriteTurn(p, u, {i}, U, i) /\ Live(p.w)
          BY <4>2, <4>3 DEF WriteTurn, Wrote
        <5> QED BY <3>3, <4>0, <5>1, TurnWritesOn
      <4> QED BY <4>2, <4>3 DEF u
    <3> QED BY <3>2, <3>3
  <2> HIDE DEF Q
  <2>4. 0 \in T /\ \A k \in 0 .. (n - 1) : k \in T => k + 1 \in T
    BY <1>0, <2>2, <2>3
  <2>5. Q(n)
    <3> HIDE DEF T
    <3>1. n \in T
      BY <1>0, <2>4, Reached
    <3> QED BY <3>1 DEF T
  <2>6. Have(e.w, Nobody, Nobody) /\ (Live(e.w) => Written(v, e, i, U, S))
    BY <2>5 DEF Q
  <2> HIDE DEF e, z
  <2>7. Live(e.w) => /\ Mappable(e.w, {i}, U, i) /\ z \in 0 .. M
                     /\ Gapless(Inodes(e.w), Disk(e.w), i, z)
    <3> SUFFICES ASSUME Live(e.w)
                 PROVE  /\ Mappable(e.w, {i}, U, i) /\ z \in 0 .. M
                        /\ Gapless(Inodes(e.w), Disk(e.w), i, z)
      OBVIOUS
    <3> DEFINE size == e.w.ip[i].din.size
    <3>1. Written(v, e, i, U, S) /\ Mappable(e.w, {i}, U, i) /\ size \in 0 .. M /\ size \in Nat
      BY <2>6, SizeIs DEF Written
    <3>2. e.off \in 0 .. M
      <4> HIDE DEF M
      <4>1. e.off \in Nat /\ e.off + Len(e.words) <= M /\ Len(e.words) \in Nat /\ M \in Nat
        BY <3>1, LenProperties, Sizes DEF Written, M
      <4> QED BY <4>1
    <3> HIDE DEF M, size
    <3>3. e.off \in Nat /\ z = IF size <= e.off THEN e.off ELSE size
      BY <3>1, GreaterIs DEF Written, size, z
    <3>4. Gapless(Inodes(e.w), Disk(e.w), i, e.off) /\ Gapless(Inodes(e.w), Disk(e.w), i, size)
      <4>1. Accounted(Inodes(e.w), Disk(e.w), U) /\ Inodes(e.w)[i] = e.w.ip[i].din /\ i \in Files
        BY <3>1, SoundIs DEF Mappable, Files
      <4> QED BY <3>1, <4>1 DEF Accounted, size, Written
    <3> QED BY <3>1, <3>2, <3>3, <3>4
  <2>8. /\ Have(t.w, Nobody, Nobody)
        /\ Live(t.w) => Restated(e.w, t.w, i, [e.w.ip[i].din EXCEPT !.size = z], {i} \ {i}, U)
    BY <1>3, <2>1, <2>6, <2>7, ResizeSound
  <2>9. ASSUME Live(t.w) PROVE WroteFile(v, t.w, i, U)
    <3> DEFINE din == [e.w.ip[i].din EXCEPT !.size = z]
    <3> HIDE DEF din
    <3>1. /\ Restated(e.w, t.w, i, din, {i} \ {i}, U) /\ Live(e.w) /\ Written(v, e, i, U, S) /\ Live(v)
          /\ Mappable(e.w, {i}, U, i)
      BY <2>6, <2>7, <2>8, <2>9 DEF Restated, Written, din
    <3>2. {i} \ {i} = {}
      OBVIOUS
    <3>3. Sound(t.w, {}, U) /\ t.w.ip = [e.w.ip EXCEPT ![i] = Redin(e.w.ip[i], din)]
      BY <3>1, <3>2 DEF Restated
    <3>4. e.w.ip \in [Inums -> Copies] /\ i \in Inums
      BY <3>1, SoundIs DEF Mappable
    <3>5. Redin(e.w.ip[i], din).ref = e.w.ip[i].ref
      BY <3>4 DEF Redin, Copies
    <3>6. \A j \in Inums : t.w.ip[j].ref = e.w.ip[j].ref
      BY <3>3, <3>4, <3>5
    <3>7. \A j \in Inums : e.w.ip[j].ref = v.ip[j].ref
      BY <3>1 DEF Written, OnlyAddrs
    <3> QED BY <3>1, <3>3, <3>6, <3>7 DEF WroteFile
  <2> QED BY <2>8, <2>9 DEF t
<1> QED BY <1>2, <1>3

-----------------------------------------------------------------------------
(* write of one entry into the root.                                      *)

(* The inodes in memory are the same but for their blocks and sizes.       *)
SameKind(a, c) ==
  \A j \in Inums : /\ c[j].ref = a[j].ref /\ c[j].valid = a[j].valid
                   /\ c[j].din.type = a[j].din.type /\ c[j].din.nlink = a[j].din.nlink

(* Steps that map blocks after it leave types, links and references as a  *)
(* step left them.                                                        *)
LEMMA OnlyAddrsKind ==
  ASSUME NEW a, NEW b, NEW c, OnlyAddrs(a, b), SameKind(b, c)
  PROVE  SameKind(a, c)
BY DEF OnlyAddrs, SameKind

(* An inode with another size is of the same kind.                         *)
LEMMA ResizedKind ==
  ASSUME NEW a, a \in [Inums -> Copies], NEW i \in Inums, NEW n
  PROVE  SameKind(a, [a EXCEPT ![i] = Redin(a[i], [a[i].din EXCEPT !.size = n])])
<1> DEFINE din == [a[i].din EXCEPT !.size = n]
           c == Redin(a[i], din)
<1>1. din.type = a[i].din.type /\ din.nlink = a[i].din.nlink
  BY DEF Copies, InodeSet
<1> HIDE DEF din
<1>2. c.ref = a[i].ref /\ c.valid = a[i].valid /\ c.din = din
  BY DEF Copies, Redin
<1> HIDE DEF c
<1>3. SameKind(a, [a EXCEPT ![i] = c])
  BY <1>1, <1>2 DEF SameKind
<1> QED BY <1>3 DEF c, din

(* No entry is needed for an inode that U is about.                        *)
LEMMA FewerSound ==
  ASSUME NEW v, NEW X, NEW U, NEW i, Mappable(v, X, U, i)
  PROVE  Mappable(v, X, {}, i)
BY FewerUnnamed DEF Mappable, Sound, Sane

(* One turn writes an entry into the root, or finds no block for it.       *)
Entered(t, u, U, word) ==
  /\ Live(t.w) /\ OnlyAddrs(t.w.ip, u.w.ip)
  /\ \/ u.tot = 0 /\ u.off = t.off /\ Mappable(u.w, {}, U, Root)
     \/ /\ u.tot = 1 /\ u.off = t.off + 1 /\ Mappable(u.w, {}, {}, Root)
        /\ WordAt(u.w, Root, t.off) = word

(* An entry for inode inum.                                                *)
Nameable(v, word) == word # Zero /\ word[1] \in Inums /\ Used(v.ip[word[1]])
                     /\ v.ip[word[1]].din.type # "free" /\ v.ip[word[1]].din.nlink # 0

(* write of one directory entry into the root, a single turn of its       *)
(* loop.                                                                  *)
LEMMA EntryWritten ==
  ASSUME NEW t, NEW U, NEW word, Have(t.w, Nobody, Nobody), t.words = <<word>>, t.tot = 0,
         Live(t.w) => /\ Mappable(t.w, {}, U, Root) /\ t.off \in 0 .. (MaxFile * BSize - 1)
                      /\ Nameable(t.w, word)
  PROVE  LET u == WriteNext(t, Root)
         IN Have(u.w, Nobody, Nobody) /\ (Live(u.w) => Entered(t, u, U, word))
<1> DEFINE u == WriteNext(t, Root)
           l == Line(t)
           at == t.off % BSize
<1>1. t.words # <<>> /\ Len(t.words) = 1 /\ t.words[1] = word
  OBVIOUS
<1>2. Live(t.w) => /\ l \in 0 .. (MaxFile - 1) /\ at \in 0 .. (BSize - 1) /\ t.off = l * BSize + at
  BY LineOf DEF Line
<1>3. Live(t.w) => Readable(t, {}, U, Root)
  BY <1>2 DEF Readable
<1> HIDE DEF u
<1>4. Have(u.w, Nobody, Nobody) /\ (Live(u.w) => WriteTurn(t, u, {}, U, Root))
  BY <1>1, <1>3, WriteNextWrites DEF u
<1>5. ASSUME Live(u.w) PROVE Entered(t, u, U, word)
  <2> DEFINE k == Stride(t)
  <2>1. PICK m, b : Wrote(t, u, m, {}, U, Root, b, k)
    BY <1>4, <1>5 DEF WriteTurn
  <2>2. /\ Live(t.w) /\ Mappable(m, {}, U, Root) /\ OnlyAddrs(t.w.ip, m.ip) /\ u.w.ip = m.ip
        /\ b = Loc(m, Root, l) /\ b \in Links
    BY <2>1 DEF Wrote, Mapped
  <2>3. /\ l \in 0 .. (MaxFile - 1) /\ at \in 0 .. (BSize - 1) /\ t.off = l * BSize + at
        /\ t.off \in Nat /\ BSize \in Nat \ {0}
    BY <1>2, <2>2, Sizes
  <2>4. k = 1
    <3> HIDE DEF at
    <3>1. BSize - at \in Nat /\ 1 <= BSize - at
      BY <2>3
    <3>2. Min({1, BSize - at}) = 1
      BY <3>1, LesserIs
    <3> QED BY <1>1, <3>2 DEF Stride, at
  <2>5. CASE b = 0
    <3>1. Disk(u.w) = Disk(m) /\ u.off = t.off /\ u.tot = 0
      BY <2>1, <2>5 DEF Wrote
    <3>2. Mappable(u.w, {}, U, Root)
      BY <2>2, <3>1 DEF Mappable, Sound
    <3> QED BY <2>2, <3>1, <3>2 DEF Entered
  <2>6. CASE b # 0
    <3> DEFINE old == Disk(m)[b]
               data == Overlaid(old, at, 1, t.words)
    <3> HIDE DEF l, at
    <3>1. Disk(u.w) = [Disk(m) EXCEPT ![b] = data] /\ u.off = t.off + 1 /\ u.tot = 1
      <4> HIDE DEF data
      <4>1. t.tot + 1 = 1
        OBVIOUS
      <4>2. /\ Disk(u.w) = [Disk(m) EXCEPT ![b] = Overlaid(Disk(m)[b], t.off % BSize, k, t.words)]
            /\ u.off = t.off + k /\ u.tot = t.tot + k
        BY <2>1, <2>6 DEF Wrote
      <4> QED BY <2>4, <4>1, <4>2 DEF data, at
    <3>2. Mappable(m, {}, {}, Root)
      BY <2>2, FewerSound
    <3>3. IsLine(old)
      <4>1. Shaped(Inodes(m), Disk(m)) /\ b \in DataBlocks
        BY <2>2, <2>6, SoundIs DEF Accounted, Mappable, Links
      <4> QED BY <4>1 DEF Shaped, IsLine
    <3> HIDE DEF old
    <3>4. IsLine(data) /\ \A q \in 0 .. (BSize - 1) :
            data[q] = IF q \in at .. (at + 1 - 1) THEN t.words[q - at + 1] ELSE old[q]
      BY <3>3, OverlaidIs
    <3> HIDE DEF data
    <3>5. data[at] = word /\ \A q \in 0 .. (BSize - 1) : q # at => data[q] = old[q]
      <4>1. at \in at .. (at + 1 - 1) /\ at - at + 1 = 1
        BY <2>3
      <4>2. \A q \in 0 .. (BSize - 1) : q # at => ~ (q \in at .. (at + 1 - 1))
        BY <2>3
      <4> QED BY <1>1, <2>3, <3>4, <4>1, <4>2
    <3>6. IsEntry(Inodes(m), {}, word)
      <4> DEFINE j == word[1]
      <4>1. Nameable(t.w, word) /\ j \in Inums
        BY <2>2 DEF Nameable
      <4>2. Used(m.ip[j]) /\ m.ip[j].din.type # "free" /\ m.ip[j].din.nlink # 0
        BY <2>2, <4>1 DEF Nameable, OnlyAddrs, Used
      <4>3. Inodes(m)[j] = m.ip[j].din
        BY <3>2, <4>1, <4>2, SoundIs DEF Mappable
      <4> QED BY <4>1, <4>2, <4>3 DEF IsEntry
    <3>7. Pokable(Inodes(m), Disk(m), {}, Root, l, b, data)
      BY <2>2, <2>6, <3>4, <3>5, <3>6 DEF Pokable, Loc, old
    <3>8. /\ Mappable(u.w, {}, {}, Root)
          /\ \A j \in Inums, n \in 0 .. MaxFile : Loc(u.w, j, n) = Loc(m, j, n)
      <4>1. StillMapped(m, u.w, {}, {}, Root)
        BY <2>2, <2>3, <3>1, <3>2, <3>7, PokeSound
      <4> QED BY <4>1 DEF StillMapped
    <3>9. WordAt(u.w, Root, t.off) = word
      <4>1. Loc(u.w, Root, l) = b
        BY <2>2, <2>3, <3>8, RootIsInode, Sizes
      <4>2. Disk(u.w)[b] = data
        <5>1. IsDisk(Disk(m)) /\ b \in Blocks
          BY <2>2, <2>6, DiskIs, Sizes DEF Links
        <5> QED BY <3>1, <5>1 DEF IsDisk
      <4> QED BY <3>5, <4>1, <4>2 DEF WordAt, l, Line, at
    <3> QED BY <2>2, <3>1, <3>8, <3>9 DEF Entered
  <2> QED BY <2>5, <2>6
<1> QED BY <1>4, <1>5 DEF u

-----------------------------------------------------------------------------
(* link, and ialloc.                                                      *)

(* One more entry in the root, at its end or before it.                    *)
LEMMA EntriesGrown ==
  ASSUME NEW u, NEW U, NEW off \in 0 .. (MaxFile * BSize - 1), Mappable(u, {}, U, Root),
         off <= u.ip[Root].din.size, IsEntry(Inodes(u), U, WordAt(u, Root, off))
  PROVE  Entries(Inodes(u), Disk(u), U, Max({u.ip[Root].din.size, off + 1}))
<1> DEFINE size == u.ip[Root].din.size
           n == Max({size, off + 1})
<1>1. size \in Nat /\ off \in Nat
  BY SizeIs, Sizes
<1>2. n = IF size <= off + 1 THEN off + 1 ELSE size
  BY <1>1, GreaterIs
<1>3. Entries(Inodes(u), Disk(u), U, size)
  <2>1. Inodes(u)[Root] = u.ip[Root].din /\ Accounted(Inodes(u), Disk(u), U)
    BY SoundIs DEF Mappable
  <2> QED BY <2>1 DEF Accounted
<1> HIDE DEF n
<1>4. ASSUME NEW l \in 0 .. (MaxFile - 1), NEW q \in 0 .. (BSize - 1), l * BSize + q < n,
             Loc(u, Root, l) # 0
      PROVE  IsEntry(Inodes(u), U, Disk(u)[Loc(u, Root, l)][q])
  <2> DEFINE p == l * BSize + q
  <2>1. l \in Nat /\ q \in 0 .. BSize - 1 /\ BSize \in Nat \ {0} /\ MaxFile \in Nat
    BY Sizes
  <2>2. p \div BSize = l /\ p % BSize = q /\ p \in Nat
    BY <2>1, DivisionIsUnique
  <2>3. p < n
    BY <1>4
  <2> HIDE DEF p, size
  <2>4. CASE p < size
    BY <1>3, <1>4, <2>4 DEF Entries, Loc, p
  <2>5. CASE ~ (p < size)
    <3>1. p = off
      BY <1>1, <1>2, <2>2, <2>3, <2>5 DEF size
    <3> QED BY <2>2, <3>1 DEF WordAt
  <2> QED BY <2>4, <2>5
<1> QED BY <1>4 DEF Entries, Loc, n

(* What a link does to the inodes: one that failed leaves inum unnamed.    *)
LinkSet(v, t, inum) ==
  /\ Live(v) /\ SameKind(v.ip, t.w.ip) /\ Sound(t.w, {}, IF t.tot = 1 THEN {} ELSE {inum})

Linkable(v, inum) ==
  /\ Mappable(v, {}, {inum}, Root)
  /\ inum \in Inums /\ Used(v.ip[inum])
  /\ v.ip[inum].din.type # "free" /\ v.ip[inum].din.nlink # 0

(* link writes the entry of a new inode where the search ended, and the   *)
(* root grows by at most one.                                             *)
LEMMA SetLinkSound ==
  ASSUME NEW s, NEW inum, Have(s.w, Nobody, Nobody),
         Live(s.w) => Linkable(s.w, inum) /\ s.off \in 0 .. s.w.ip[Root].din.size
  PROVE  LET t == SetLink(s, inum)
         IN Have(t.w, Nobody, Nobody) /\ (Live(t.w) => LinkSet(s.w, t, inum))
<1> DEFINE word == Entry(inum, IF s.de = Zero THEN "" ELSE s.de[2])
           v == s.w
           size == v.ip[Root].din.size
           t0 == [w |-> v, off |-> s.off, tot |-> 0, words |-> <<word>>]
           fail == [w |-> v, off |-> s.off, tot |-> -1]
           M == MaxFile * BSize
           u == WriteOn(t0, Root, 1)
           t == SetLink(s, inum)
<1>1. word # Zero /\ word[1] = inum
  BY DEF Entry, Zero
<1>2. Len(<<word>>) = 1
  OBVIOUS
<1> HIDE DEF word
<1>3. t = IF s.off > size \/ s.off + 1 > M THEN fail ELSE Grown(u, Root)
  BY <1>2 DEF SetLink, WriteInode, word
<1>4. t0.w = v /\ t0.off = s.off /\ t0.tot = 0 /\ t0.words = <<word>>
  OBVIOUS
<1> HIDE DEF t, t0
<1>5. CASE s.off > size \/ s.off + 1 > M
  <2>1. t.w = v /\ t.tot # 1
    BY <1>3, <1>5
  <2>2. SameKind(v.ip, v.ip)
    BY DEF SameKind
  <2> QED BY <2>1, <2>2 DEF t, LinkSet, Linkable, Mappable
<1>6. CASE ~ (s.off > size \/ s.off + 1 > M)
  <2>1. t = Grown(u, Root)
    BY <1>3, <1>6
  <2>2. u = WriteNext(t0, Root)
    <3>0. PICK f : WriteOn(t0, Root, 1) = f[1] /\ WriteTurns(f, t0, Root, 1)
      BY WriteOnTurns
    <3>1. /\ WriteOn(t0, Root, 1) = f[1] /\ f[0] = t0
          /\ \A k \in 0 .. (1 - 1) : f[k + 1] = WriteNext(f[k], Root)
      BY <3>0 DEF WriteTurns
    <3>2. 0 \in 0 .. (1 - 1) /\ 0 + 1 = 1
      OBVIOUS
    <3> QED BY <3>1, <3>2
  <2>3. Live(v) => /\ size \in 0 .. M /\ size \in Nat /\ M \in Nat
                   /\ s.off \in 0 .. (M - 1) /\ s.off <= size
    <3> SUFFICES ASSUME Live(v)
                 PROVE  /\ size \in 0 .. M /\ size \in Nat /\ M \in Nat
                        /\ s.off \in 0 .. (M - 1) /\ s.off <= size
      OBVIOUS
    <3>1. size \in 0 .. M /\ size \in Nat /\ M \in Nat
      BY SizeIs, Sizes DEF Linkable
    <3>2. s.off \in 0 .. size
      OBVIOUS
    <3> HIDE DEF M, size
    <3> QED BY <1>6, <3>1, <3>2
  <2>4. Live(t0.w) => /\ Mappable(t0.w, {}, {inum}, Root) /\ t0.off \in 0 .. (MaxFile * BSize - 1)
                      /\ Nameable(t0.w, word)
    BY <1>1, <1>4, <2>3 DEF Linkable, Nameable
  <2> HIDE DEF u
  <2>5. Have(u.w, Nobody, Nobody) /\ (Live(u.w) => Entered(t0, u, {inum}, word))
    BY <1>4, <2>2, <2>4, EntryWritten
  <2> DEFINE U2 == IF u.tot = 1 THEN {} ELSE {inum}
             size2 == u.w.ip[Root].din.size
             n == Max({size2, u.off})
  <2>6. ASSUME Live(u.w)
        PROVE  /\ Live(v) /\ Mappable(u.w, {}, U2, Root) /\ n \in 0 .. (MaxFile * BSize)
               /\ Entries(Inodes(u.w), Disk(u.w), U2, n) /\ OnlyAddrs(v.ip, u.w.ip)
    <3>1. Live(v) /\ OnlyAddrs(v.ip, u.w.ip) /\ size2 = size
      BY <1>4, <2>5, <2>6, RootIsInode DEF Entered, OnlyAddrs
    <3>2. CASE u.tot = 0 /\ u.off = s.off /\ Mappable(u.w, {}, {inum}, Root)
      <4>1. n = size2
        <5> HIDE DEF size, size2, M
        <5>1. size2 \in Nat /\ u.off \in Nat /\ u.off <= size2
          BY <2>3, <3>1, <3>2
        <5> QED BY <5>1, GreaterIs
      <4>2. U2 = {inum}
        BY <3>2
      <4>3. Entries(Inodes(u.w), Disk(u.w), {inum}, size2)
        <5>1. Inodes(u.w)[Root] = u.w.ip[Root].din /\ Accounted(Inodes(u.w), Disk(u.w), {inum})
          BY <3>2, SoundIs DEF Mappable
        <5> QED BY <5>1 DEF Accounted
      <4> HIDE DEF n, U2
      <4> QED BY <2>3, <3>1, <3>2, <4>1, <4>2, <4>3
    <3>3. CASE /\ u.tot = 1 /\ u.off = s.off + 1 /\ Mappable(u.w, {}, {}, Root)
               /\ WordAt(u.w, Root, s.off) = word
      <4>1. U2 = {}
        BY <3>3
      <4>2. IsEntry(Inodes(u.w), {}, word)
        <5>1. /\ inum \in Inums /\ Used(u.w.ip[inum])
              /\ u.w.ip[inum].din.type # "free" /\ u.w.ip[inum].din.nlink # 0
          BY <3>1 DEF Linkable, OnlyAddrs, Used
        <5>2. Inodes(u.w)[inum] = u.w.ip[inum].din
          BY <3>3, <5>1, SoundIs DEF Mappable
        <5> QED BY <1>1, <5>1, <5>2 DEF IsEntry
      <4>3. s.off \in 0 .. (MaxFile * BSize - 1) /\ s.off <= size2
        BY <2>3, <3>1
      <4>4. Entries(Inodes(u.w), Disk(u.w), {}, n)
        <5>1. n = Max({size2, s.off + 1})
          BY <3>3
        <5> HIDE DEF n
        <5> QED BY <3>3, <4>2, <4>3, <5>1, EntriesGrown
      <4>5. n \in 0 .. (MaxFile * BSize)
        <5> HIDE DEF size, size2, M
        <5>1. size2 \in Nat /\ u.off \in Nat /\ u.off <= M /\ size2 <= M /\ M \in Nat
          BY <2>3, <3>1, <3>3
        <5>2. n \in 0 .. M
          BY <5>1, GreaterIs
        <5> QED BY <5>2 DEF M
      <4> HIDE DEF n, U2
      <4> QED BY <3>1, <3>3, <4>1, <4>4, <4>5
    <3> QED BY <1>4, <2>5, <2>6, <3>2, <3>3 DEF Entered
  <2>7. t = SetSize(u, Root, n)
    BY <2>1 DEF Grown
  <2> HIDE DEF n, U2
  <2>8. /\ Have(t.w, Nobody, Nobody) /\ t.tot = u.tot
        /\ Live(t.w) => Restated(u.w, t.w, Root, [u.w.ip[Root].din EXCEPT !.size = n], {} \ {Root}, U2)
    BY <2>5, <2>6, <2>7, ResizeSound
  <2>9. ASSUME Live(t.w) PROVE LinkSet(v, t, inum)
    <3> DEFINE din == [u.w.ip[Root].din EXCEPT !.size = n]
    <3> HIDE DEF din
    <3>0. Restated(u.w, t.w, Root, din, {} \ {Root}, U2)
      BY <2>8, <2>9 DEF din
    <3>1. Live(u.w) /\ t.w.ip = [u.w.ip EXCEPT ![Root] = Redin(u.w.ip[Root], din)]
          /\ Sound(t.w, {}, U2)
      <4>1. {} \ {Root} = {}
        OBVIOUS
      <4> QED BY <3>0, <4>1 DEF Restated
    <3>2. u.w.ip \in [Inums -> Copies]
      BY <2>6, <3>1, SoundIs DEF Mappable
    <3>3. SameKind(u.w.ip, t.w.ip)
      <4> DEFINE a == u.w.ip
      <4>1. a \in [Inums -> Copies] /\ t.w.ip = [a EXCEPT ![Root] = Redin(a[Root], [a[Root].din EXCEPT !.size = n])]
        BY <3>1, <3>2 DEF din
      <4> HIDE DEF a
      <4>2. SameKind(a, [a EXCEPT ![Root] = Redin(a[Root], [a[Root].din EXCEPT !.size = n])])
        BY <4>1, RootIsInode, ResizedKind
      <4> QED BY <4>1, <4>2 DEF a
    <3>4. SameKind(v.ip, t.w.ip)
      BY <2>6, <3>1, <3>3, OnlyAddrsKind
    <3> QED BY <2>6, <2>8, <3>1, <3>4 DEF LinkSet, U2
  <2> QED BY <2>8, <2>9 DEF t
<1> QED BY <1>5, <1>6

(* What waits to be named still does after steps that only map blocks.    *)
LEMMA OnlyAddrsLinkable ==
  ASSUME NEW v, NEW u, NEW inum, Linkable(v, inum), OnlyAddrs(v.ip, u.ip),
         Mappable(u, {}, {inum}, Root)
  PROVE  Linkable(u, inum)
BY DEF Linkable, OnlyAddrs, Used

(* A step that only maps blocks leaves types, links and references.       *)
LEMMA OnlyAddrsSameKind ==
  ASSUME NEW a, NEW b, OnlyAddrs(a, b)
  PROVE  SameKind(a, b)
BY DEF OnlyAddrs, SameKind

(* Two steps that leave types, links and references are such a step.      *)
LEMMA SameKindTwice ==
  ASSUME NEW a, NEW b, NEW c, SameKind(a, b), SameKind(b, c)
  PROVE  SameKind(a, c)
BY DEF SameKind

(* link: the inode gets its entry, or stays without one.                   *)
LEMMA LinkSound ==
  ASSUME NEW v, NEW name, NEW inum, Have(v, Nobody, Nobody), Live(v) => Linkable(v, inum)
  PROVE  LET t == Link(v, name, inum)
         IN Have(t.w, Nobody, Nobody) /\ (Live(t.w) => LinkSet(v, t, inum))
<1> DEFINE s1 == Lookup(v, name)
           s2 == Place(FreeEntryOn(s1.w))
           t == SetLink(s2, inum)
<1>1. Link(v, name, inum) = t
  BY DEF Link
<1>2. Searching(v, s1, {}, {inum})
  BY LookupSearches DEF Linkable
<1> HIDE DEF s1
<1>3. Have(s1.w, Nobody, Nobody) /\ (Live(s1.w) => Live(v) /\ Linkable(s1.w, inum) /\ OnlyAddrs(v.ip, s1.w.ip))
  BY <1>2, OnlyAddrsLinkable DEF Searching, Searched
<1>4. Searching(s1.w, s2, {}, {inum})
  BY <1>3, FreeEntrySearches DEF Linkable
<1> HIDE DEF s2
<1>5. /\ Have(s2.w, Nobody, Nobody)
      /\ Live(s2.w) => /\ Live(s1.w) /\ OnlyAddrs(s1.w.ip, s2.w.ip) /\ Linkable(s2.w, inum)
                       /\ s2.off \in 0 .. s2.w.ip[Root].din.size
  BY <1>3, <1>4, OnlyAddrsLinkable DEF Searching, Searched
<1>6. Have(t.w, Nobody, Nobody) /\ (Live(t.w) => LinkSet(s2.w, t, inum))
  BY <1>5, SetLinkSound
<1> HIDE DEF t
<1>7. ASSUME Live(t.w) PROVE LinkSet(v, t, inum)
  <2>1. LinkSet(s2.w, t, inum) /\ Live(s2.w)
    BY <1>6, <1>7 DEF LinkSet
  <2>2. Live(v) /\ OnlyAddrs(v.ip, s1.w.ip) /\ OnlyAddrs(s1.w.ip, s2.w.ip)
    BY <1>3, <1>5, <2>1
  <2>3. SameKind(v.ip, s2.w.ip)
    BY <2>2, OnlyAddrsTwice, OnlyAddrsSameKind
  <2> QED BY <2>1, <2>2, <2>3, SameKindTwice DEF LinkSet
<1> QED BY <1>1, <1>6, <1>7

-----------------------------------------------------------------------------
(* ialloc.                                                                 *)

NewInode == [FreeInode EXCEPT !.type = "file"]

(* The inode that ialloc stores: of the given type, and empty.            *)
LEMMA NewInodeIs ==
  /\ NewInode \in InodeSet /\ NewInode.type = "file"
  /\ NewInode.addrs = FreeInode.addrs /\ NewInode.size = 0
<1>1. NewInode = [type |-> "file", nlink |-> 0, size |-> 0, addrs |-> FreeInode.addrs]
  <2> DEFINE B == [k \in 0 .. NDirect |-> 0]
  <2>1. FreeInode = [type |-> "free", nlink |-> 0, size |-> 0, addrs |-> B]
    BY DEF FreeInode
  <2> HIDE DEF B
  <2>2. FreeInode.addrs = B
    BY <2>1
  <2>3. [FreeInode EXCEPT !.type = "file"] = [type |-> "file", nlink |-> 0, size |-> 0, addrs |-> B]
    BY <2>1
  <2> QED BY <2>2, <2>3 DEF NewInode
<1>2. FreeInode.addrs \in [0 .. NDirect -> Links]
  BY DEF FreeInode, Links
<1> DEFINE A == FreeInode.addrs
           S == 0 .. (MaxFile * BSize)
<1>3. 0 \in S
  <2> DEFINE M == MaxFile * BSize
  <2>1. M \in Nat
    BY Sizes
  <2> HIDE DEF M
  <2>2. 0 \in 0 .. M
    BY <2>1
  <2> QED BY <2>2 DEF M
<1> HIDE DEF A, S
<1>4. NewInode \in [type : {"free", "file", "dir"}, nlink : Nat, size : S, addrs : [0 .. NDirect -> Links]]
  BY <1>1, <1>2, <1>3 DEF A
<1>5. NewInode.type = "file" /\ NewInode.addrs = A /\ NewInode.size = 0
  BY <1>1 DEF A
<1> QED BY <1>4, <1>5 DEF InodeSet, A, S

(* An inode that is free on disk is nowhere in use.                        *)
LEMMA FreeOnDisk ==
  ASSUME NEW v, NEW U, Sound(v, {}, U), NEW i \in Inums, OnDisk(Disk(v), i).type = "free"
  PROVE  i \in Files /\ v.ip[i].ref = 0 /\ Inodes(v)[i].type = "free"
<1>1. Memory(v.ip, Disk(v), {}) /\ v.ip \in [Inums -> Copies]
  BY SoundIs
<1>2. i \in Files
  BY <1>1 DEF Memory, Files
<1>3. ~ (v.ip[i].ref > 0)
  BY <1>1, <1>2 DEF Memory, Synced, Used
<1>4. v.ip[i].ref \in Nat
  BY <1>1 DEF Copies
<1>5. Inodes(v)[i] = OnDisk(Disk(v), i)
  BY <1>3 DEF Inodes, Table, Used
<1> QED BY <1>2, <1>3, <1>4, <1>5

(* It is claimed on disk.                                                  *)
LEMMA ClaimSound ==
  ASSUME NEW v, NEW u, Sound(v, {}, {}), NEW i \in Inums, OnDisk(Disk(v), i).type = "free",
         u.ip = v.ip, Disk(u) = Stored(Disk(v), i, NewInode)
  PROVE  Sound(u, {}, {i}) /\ Inodes(u)[i] = NewInode /\ v.ip[i].ref = 0 /\ i \in Files
<1> DEFINE F == Inodes(v)
           d == Disk(v)
           c == v.ip[i]
<1>1. i \in Files /\ v.ip[i].ref = 0 /\ F[i].type = "free"
  BY FreeOnDisk
<1>2. Accounted(F, d, {}) /\ Memory(v.ip, d, {}) /\ v.ip \in [Inums -> Copies] /\ IsDisk(d)
  BY SoundIs, DiskIs
<1>3. ~ Used(c) /\ c \in Copies /\ v.ip = [v.ip EXCEPT ![i] = c]
  BY <1>1, <1>2 DEF Used
<1>4. Accounted(With(F, i, NewInode), d, {i})
  <2> HIDE DEF F, d
  <2> QED BY <1>1, <1>2, NewInodeIs, ClaimedAccounted
<1>5. Accounted(With(Table(v.ip, d), i, IF Used(c) THEN c.din ELSE NewInode), d, {i})
  BY <1>3, <1>4 DEF Inodes
<1>6. i # Root /\ Synced(c, NewInode)
  BY <1>1 DEF Files, Synced
<1>7. u.ip = [v.ip EXCEPT ![i] = c] /\ Disk(u) = Stored(d, i, NewInode) /\ {} \ {i} \subseteq {}
  BY <1>3
<1>8. Sound(u, {}, {i})
  <2> HIDE DEF d, c
  <2> QED BY <1>2, <1>3, <1>5, <1>6, <1>7, NewInodeIs, PlaceSound
<1>9. Inodes(u)[i] = NewInode
  <2>1. OnDisk(Disk(u), i) = NewInode
    BY <1>2, StoredIs
  <2> QED BY <1>1, <2>1 DEF Inodes, Table, Used
<1> QED BY <1>1, <1>8, <1>9

(* What ialloc found: an inode of its own, to be locked.                   *)
Allocated(v, u, i) ==
  /\ i \in Files /\ v.ip[i].ref = 0 /\ u.ip[i].ref = 1
  /\ \A j \in Inums : j # i => u.ip[j] = v.ip[j]
  /\ Loadable(u, i, {i})
Allocating(v, s) ==
  /\ Have(s.w, Nobody, Nobody)
  /\ Live(s.w) => IF s.inum = 0 THEN Same(v, s.w) ELSE Live(v) /\ Allocated(v, s.w, s.inum)

(* One turn of ialloc takes the inode when it is free.                    *)
LEMMA IallocNextSound ==
  ASSUME NEW v, NEW s, NEW i \in Inums, Live(v) => Sound(v, {}, {}), Allocating(v, s)
  PROVE  Allocating(v, IallocNext(s, i))
<1> DEFINE b == IBlock(i)
           r == Bread(s.w, b)
           new == [Data(r, b) EXCEPT ![i % IPB] = [FreeInode EXCEPT !.type = "file"]]
           e == Brelease(SetData(r, b, new), b)
           g == Iget(e, i)
           f == Brelease(r, b)
           t == IallocNext(s, i)
<1>1. CASE s.inum # 0
  BY <1>1 DEF IallocNext
<1>2. CASE s.inum = 0
  <2>1. t = IF Halted(r) THEN [w |-> r, inum |-> 0]
            ELSE IF Data(r, b)[i % IPB].type = "free" THEN [w |-> g, inum |-> i]
            ELSE [w |-> f, inum |-> 0]
    BY <1>2 DEF IallocNext, IallocIn
  <2>2. b \in Blocks
    BY InodePlace
  <2>3. Have(s.w, Nobody, Nobody) /\ (Live(s.w) => Same(v, s.w))
    BY <1>2 DEF Allocating
  <2> HIDE DEF b, t
  <2>4. Have(r, Id(b), Nobody) /\ (Live(r) => Same(s.w, r))
    BY <2>2, <2>3, BreadSame
  <2>5. Live(r) => Data(r, b) = Disk(v)[b] /\ Same(v, r)
    BY <2>2, <2>3, <2>4, DataSame DEF Same
  <2> HIDE DEF r, new
  <2>6. CASE Halted(r)
    <3>1. t.w = r /\ t.inum = 0
      BY <2>1, <2>6
    <3>2. Have(r, Nobody, Nobody) /\ ~ Live(r)
      BY <2>4, <2>6, HaltedHave
    <3> QED BY <3>1, <3>2 DEF Allocating, t
  <2>7. CASE ~ Halted(r) /\ Data(r, b)[i % IPB].type = "free"
    <3>1. t = [w |-> g, inum |-> i]
      BY <2>1, <2>7
    <3>1a. t.w = g /\ t.inum = i /\ i # 0
      BY <3>1 DEF Inums
    <3>2. Have(e, Nobody, Nobody) /\ (Live(e) => Poked(r, e, b, new))
      BY <2>4, StoreSame
    <3> HIDE DEF e
    <3>3. ASSUME Live(e)
          PROVE  /\ Live(v) /\ Sound(e, {}, {i}) /\ Inodes(e)[i] = NewInode
                 /\ v.ip[i].ref = 0 /\ i \in Files /\ e.ip = v.ip
      <4>1. Poked(r, e, b, new) /\ Live(r) /\ Same(v, r) /\ Data(r, b) = Disk(v)[b] /\ Live(v)
        BY <2>5, <3>2, <3>3 DEF Poked, Same
      <4>2. Disk(e) = Stored(Disk(v), i, NewInode) /\ e.ip = v.ip
        BY <4>1 DEF Poked, Same, Stored, new, NewInode, b
      <4>3. OnDisk(Disk(v), i).type = "free"
        BY <2>7, <4>1 DEF OnDisk, b
      <4> QED BY <4>1, <4>2, <4>3, ClaimSound
    <3>4. /\ Have(g, Nobody, Nobody)
          /\ Live(g) => Recopied(e, g, i, Unread(g, i), {i}) /\ g.ip[i].ref = e.ip[i].ref + 1
      BY <3>2, <3>3, IgetSound
    <3> HIDE DEF g
    <3>5. ASSUME Live(g) PROVE Live(v) /\ Allocated(v, g, i)
      <4>1. Recopied(e, g, i, Unread(g, i), {i}) /\ g.ip[i].ref = e.ip[i].ref + 1 /\ Live(e)
        BY <3>4, <3>5 DEF Recopied
      <4>2. /\ Live(v) /\ Inodes(e)[i] = NewInode /\ v.ip[i].ref = 0 /\ i \in Files /\ e.ip = v.ip
            /\ v.ip \in [Inums -> Copies]
        BY <3>3, <4>1, SoundIs
      <4>3. g.ip = [v.ip EXCEPT ![i] = g.ip[i]] /\ g.ip[i].ref = 1 /\ Inodes(g)[i] = NewInode
            /\ Sound(g, Unread(g, i), {i})
        BY <4>1, <4>2 DEF Recopied
      <4>4. \A j \in Inums : j # i => g.ip[j] = v.ip[j]
        BY <4>2, <4>3
      <4>5. Loadable(g, i, {i})
        BY <4>3, NewInodeIs DEF Loadable
      <4> QED BY <4>2, <4>3, <4>4, <4>5 DEF Allocated
    <3> QED BY <3>1a, <3>4, <3>5 DEF Allocating, t
  <2>8. CASE ~ Halted(r) /\ Data(r, b)[i % IPB].type # "free"
    <3>1. t = [w |-> f, inum |-> 0]
      BY <2>1, <2>8
    <3>2. Have(f, Nobody, Nobody) /\ (Live(f) => Same(r, f))
      BY <2>4, BreleaseSame
    <3>3. Live(f) => Same(v, f)
      BY <2>5, <3>2 DEF Same
    <3> QED BY <3>1, <3>2, <3>3 DEF Allocating, t
  <2> QED BY <2>6, <2>7, <2>8
<1> QED BY <1>1, <1>2

(* ialloc takes a free inode that nobody refers to, or none.              *)
LEMMA InodeAllocSound ==
  ASSUME NEW v, Have(v, Nobody, Nobody), Live(v) => Sound(v, {}, {})
  PROVE  Allocating(v, InodeAlloc(v))
<1>1. PICK f : /\ InodeAlloc(v) = f[NInodes - 1] /\ f[0] = [w |-> v, inum |-> 0]
               /\ \A k \in 0 .. (NInodes - 1 - 1) : f[k + 1] = IallocNext(f[k], k + 1)
  BY InodeAllocTurns
<1> DEFINE n == NInodes - 1
           S == {k \in 0 .. n : Allocating(v, f[k])}
<1>2. n \in Nat
  BY SizesAssumption
<1>3. Allocating(v, f[0])
  BY <1>1 DEF Allocating, Same
<1>4. ASSUME NEW k \in 0 .. (n - 1), Allocating(v, f[k])
      PROVE  Allocating(v, f[k + 1])
  <2>1. f[k + 1] = IallocNext(f[k], k + 1)
    BY <1>1
  <2>2. k + 1 \in Inums
    BY <1>2 DEF Inums
  <2> QED BY <1>4, <2>1, <2>2, IallocNextSound
<1> QED
  <2>1. 0 \in S
    BY <1>2, <1>3
  <2>2. \A k \in 0 .. (n - 1) : k \in S => k + 1 \in S
    BY <1>2, <1>4
  <2> HIDE DEF S, n
  <2>3. n \in S
    BY <1>2, <2>1, <2>2, Reached
  <2>4. Allocating(v, f[n])
    BY <2>3 DEF S
  <2> QED BY <1>1, <2>4 DEF n

-----------------------------------------------------------------------------
(* The parts of sys_open and create.                                      *)

(* Between calls: everything is accounted for, and nobody waits.           *)
Whole(v) == Sound(v, {}, {})

(* An inode that somebody refers to is in memory, and so is the root, once *)
(* it is locked.                                                           *)
LEMMA CountsAre ==
  ASSUME NEW v, NEW X, NEW U, Sound(v, X, U)
  PROVE  /\ \A j \in Inums : v.ip[j].ref \in Nat
         /\ \A j \in Files \ X : v.ip[j].ref > 0 => Used(v.ip[j]) /\ Inodes(v)[j].type # "free"
         /\ v.ip[Root].ref > 0 /\ Inodes(v)[Root].type # "free"
<1>1. Memory(v.ip, Disk(v), X) /\ v.ip \in [Inums -> Copies]
  BY SoundIs
<1>2. \A j \in Inums : Used(v.ip[j]) => Inodes(v)[j] = v.ip[j].din /\ v.ip[j].din.type # "free"
  BY <1>1, SoundIs DEF Memory
<1>3. \A j \in Inums : ~ Used(v.ip[j]) => Inodes(v)[j] = OnDisk(Disk(v), j)
  BY DEF Inodes, Table
<1>4. \A j \in Files \ X : v.ip[j].ref > 0 => Used(v.ip[j])
  BY <1>1 DEF Memory, Synced, Used
<1>5. Inodes(v)[Root].type # "free"
  BY <1>1, <1>2, <1>3, RootIsInode DEF Memory
<1>6. v.ip[Root].ref > 0
  BY <1>1 DEF Memory
<1> QED BY <1>1, <1>2, <1>4, <1>5, <1>6 DEF Copies, Files

(* Who asks for less is told so.                                           *)
LEMMA WeakerSound ==
  ASSUME NEW v, NEW X, NEW Y, NEW U, Sound(v, X, U), X \cap Files \subseteq Y
  PROVE  Sound(v, Y, U)
BY DEF Sound, Sane, Memory

(* Nothing needs an inode to be without a name.                           *)
LEMMA FewerUnnamedSound ==
  ASSUME NEW v, NEW X, NEW U, Sound(v, X, U)
  PROVE  Sound(v, X, {})
BY FewerUnnamed DEF Sound, Sane

(* The root is got: its reference is u's only.                             *)
Holding(v, u) ==
  /\ Live(v) /\ Mappable(u, {}, {}, Root)
  /\ \A j \in Inums : u.ip[j].ref = v.ip[j].ref + IF j = Root THEN 1 ELSE 0

(* namei takes a reference to the root and locks it.                      *)
LEMMA RootLockedSound ==
  ASSUME NEW v, Have(v, Nobody, Nobody), Live(v) => Whole(v)
  PROVE  LET u == RootLocked(v)
         IN Have(u, Nobody, Nobody) /\ (Live(u) => Holding(v, u))
<1> DEFINE g == Iget(v, Root)
           u == Lock(g, Root)
<1>1. /\ Have(g, Nobody, Nobody)
      /\ Live(g) => Recopied(v, g, Root, Unread(g, Root), {}) /\ g.ip[Root].ref = v.ip[Root].ref + 1
  BY RootIsInode, IgetSound DEF Whole
<1> HIDE DEF g
<1>2. Live(g) => Loadable(g, Root, {})
  <2> SUFFICES ASSUME Live(g) PROVE Loadable(g, Root, {})
    OBVIOUS
  <2>1. Sound(g, Unread(g, Root), {})
    BY <1>1 DEF Recopied
  <2> QED BY <2>1, CountsAre, RootIsInode DEF Loadable
<1>3. /\ Have(u, Nobody, Nobody)
      /\ Live(u) => /\ Recopied(g, u, Root, {}, {})
                    /\ u.ip[Root].ref = g.ip[Root].ref /\ Used(u.ip[Root])
  BY <1>1, <1>2, LockSound
<1> HIDE DEF u
<1>4. ASSUME Live(u) PROVE Holding(v, u)
  <2>1. /\ Live(g) /\ Live(v) /\ Sound(u, {}, {}) /\ Used(u.ip[Root])
        /\ u.ip[Root].ref = v.ip[Root].ref + 1
        /\ g.ip = [v.ip EXCEPT ![Root] = g.ip[Root]] /\ u.ip = [g.ip EXCEPT ![Root] = u.ip[Root]]
    BY <1>1, <1>3, <1>4 DEF Recopied
  <2>2. v.ip \in [Inums -> Copies]
    BY <2>1, SoundIs DEF Whole
  <2>3. \A j \in Inums : j # Root => u.ip[j] = v.ip[j]
    BY <2>1, <2>2
  <2>4. \A j \in Inums : v.ip[j].ref + 0 = v.ip[j].ref
    BY <2>2 DEF Copies
  <2> QED BY <2>1, <2>3, <2>4, RootIsInode DEF Holding, Mappable
<1> QED BY <1>3, <1>4 DEF RootLocked, g, u

(* A path is looked up: what is found is an inode with links.              *)
Finds(v, s) == Holding(v, s.w) /\ IsEntry(Inodes(s.w), {}, s.de)

(* namei finds the entry of a name, whose inode is in use.                *)
LEMMA NameiSound ==
  ASSUME NEW v, NEW name, Have(v, Nobody, Nobody), Live(v) => Whole(v)
  PROVE  LET s == Lookup(RootLocked(v), name)
         IN Have(s.w, Nobody, Nobody) /\ (Live(s.w) => Finds(v, s))
<1> DEFINE r == RootLocked(v)
           s == Lookup(r, name)
<1>1. Have(r, Nobody, Nobody) /\ (Live(r) => Holding(v, r))
  BY RootLockedSound
<1> HIDE DEF r
<1>2. Searching(r, s, {}, {})
  BY <1>1, LookupSearches DEF Holding
<1> HIDE DEF s
<1>3. ASSUME Live(s.w) PROVE Finds(v, s)
  BY <1>1, <1>2, <1>3 DEF Searching, Searched, Holding, Finds, OnlyAddrs
<1> QED BY <1>2, <1>3 DEF Searching, r, s

(* The root is put again.                                                  *)
Back(v, u) == Live(v) /\ Whole(u) /\ \A j \in Inums : u.ip[j].ref = v.ip[j].ref

(* The put that ends namei: the reference to the root is gone.            *)
LEMMA PutRootSound ==
  ASSUME NEW v, NEW s, Have(s, Nobody, Nobody), Live(v) => Whole(v), Live(s) => Holding(v, s)
  PROVE  /\ Have(Put(s, Root), Nobody, Nobody)
         /\ Live(Put(s, Root)) => Back(v, Put(s, Root)) /\ Uncounted(s, Put(s, Root), Root)
<1> DEFINE u == Put(s, Root)
<1>1. Live(s) => Sound(s, {}, {}) /\ s.ip[Root].ref > 1
  <2> SUFFICES ASSUME Live(s) PROVE Sound(s, {}, {}) /\ s.ip[Root].ref > 1
    OBVIOUS
  <2>1. v.ip[Root].ref \in Nat /\ v.ip[Root].ref > 0 /\ s.ip[Root].ref = v.ip[Root].ref + 1
    BY CountsAre, RootIsInode DEF Holding, Whole
  <2> QED BY <2>1 DEF Holding, Mappable
<1>2. Live(s) => s.ip[Root].ref > 0
  <2>1. Live(s) => s.ip[Root].ref \in Nat
    BY <1>1, CountsAre, RootIsInode
  <2> QED BY <1>1, <2>1
<1>3. Have(u, Nobody, Nobody) /\ (Live(u) => Lowered(s, u, Root, {}, {}))
  BY <1>1, <1>2, RootIsInode, PutSound
<1> HIDE DEF u
<1>4. ASSUME Live(u) PROVE Back(v, u) /\ Uncounted(s, u, Root)
  <2>1. Live(s) /\ Sound(u, {}, {}) /\ Uncounted(s, u, Root)
    BY <1>3, <1>4 DEF Lowered
  <2>2. /\ Live(v) /\ s.ip \in [Inums -> Copies]
        /\ \A j \in Inums : s.ip[j].ref = v.ip[j].ref + IF j = Root THEN 1 ELSE 0
    BY <2>1, SoundIs DEF Holding, Mappable
  <2>3. u.ip[Root].ref = s.ip[Root].ref - 1 /\ \A j \in Inums : j # Root => u.ip[j] = s.ip[j]
    BY <2>1, <2>2 DEF Uncounted
  <2>4. \A j \in Inums : v.ip[j].ref \in Nat
    BY <2>2, CountsAre DEF Whole
  <2>5. \A j \in Inums : u.ip[j].ref = v.ip[j].ref
    <3> TAKE j \in Inums
    <3>1. CASE j = Root
      BY <2>2, <2>3, <2>4, <3>1
    <3>2. CASE j # Root
      BY <2>2, <2>3, <2>4, <3>2
    <3> QED BY <3>1, <3>2
  <2> QED BY <2>1, <2>2, <2>5 DEF Back, Whole
<1> QED BY <1>3, <1>4 DEF u

-----------------------------------------------------------------------------
(* Calls.                                                                  *)

(* A call that leaves one more reference to inode i.                       *)
Opens(v, u, i) ==
  /\ Live(v) /\ Whole(u)
  /\ \A j \in Inums : u.ip[j].ref = v.ip[j].ref + IF j = i THEN 1 ELSE 0

(* The end of sys_open keeps the references.                               *)
LEMMA OpenedSound ==
  ASSUME NEW v, NEW i, NEW trunc, Have(v, Nobody, Nobody), Live(v) => Mappable(v, {}, {}, i)
  PROVE  LET u == Opened(v, i, trunc)
         IN Have(u, Nobody, Nobody) /\ (Live(u) => Back(v, u))
<1> DEFINE u == Opened(v, i, trunc)
<1>1. CASE trunc /\ ~ Halted(v)
  <2>1. u = Trunc(v, i)
    BY <1>1 DEF Opened
  <2> DEFINE din == Emptying(v.ip[i].din)
  <2> HIDE DEF u, din
  <2>2. Have(u, Nobody, Nobody) /\ (Live(u) => Restated(v, u, i, din, {} \ {i}, {}))
    BY <2>1, TruncSound DEF din
  <2>3. ASSUME Live(u) PROVE Back(v, u)
    <3>1. {} \ {i} = {}
      OBVIOUS
    <3>2. Live(v) /\ Sound(u, {}, {}) /\ u.ip = [v.ip EXCEPT ![i] = Redin(v.ip[i], din)]
      BY <2>2, <2>3, <3>1 DEF Restated
    <3>3. v.ip \in [Inums -> Copies] /\ i \in Inums
      BY <3>2, SoundIs DEF Mappable
    <3>4. Redin(v.ip[i], din).ref = v.ip[i].ref
      BY <3>3 DEF Copies, Redin
    <3> QED BY <3>2, <3>3, <3>4 DEF Back, Whole
  <2> QED BY <2>2, <2>3 DEF u
<1>2. CASE ~ (trunc /\ ~ Halted(v))
  <2>1. u = v
    BY <1>2 DEF Opened
  <2> HIDE DEF u
  <2> QED BY <2>1 DEF Back, Whole, Mappable, u
<1> QED BY <1>1, <1>2

(* A file that was found is opened.                                        *)
LEMMA OpenFoundSound ==
  ASSUME NEW v, NEW s, NEW i, NEW trunc, Have(s, Nobody, Nobody), Live(v) => Whole(v),
         Live(s) => Holding(v, s) /\ i \in Inums /\ Inodes(s)[i].type # "free"
  PROVE  LET u == Opened(Lock(Put(Iget(s, i), Root), i), i, trunc)
         IN Have(u, Nobody, Nobody) /\ (Live(u) => Opens(v, u, i))
<1> DEFINE g == Iget(s, i)
           p == Put(g, Root)
           k == Lock(p, i)
           u == Opened(k, i, trunc)
           X == Unread(g, i)
<1>0. Live(s) => /\ Live(v) /\ Sound(s, {}, {}) /\ s.ip \in [Inums -> Copies]
                 /\ v.ip[Root].ref > 0 /\ (\A j \in Inums : v.ip[j].ref \in Nat)
                 /\ \A j \in Inums : s.ip[j].ref = v.ip[j].ref + IF j = Root THEN 1 ELSE 0
  <2> SUFFICES ASSUME Live(s)
               PROVE  /\ Live(v) /\ Sound(s, {}, {}) /\ s.ip \in [Inums -> Copies]
                      /\ v.ip[Root].ref > 0 /\ (\A j \in Inums : v.ip[j].ref \in Nat)
                      /\ \A j \in Inums : s.ip[j].ref = v.ip[j].ref + IF j = Root THEN 1 ELSE 0
    OBVIOUS
  <2>1. Live(v) /\ Sound(s, {}, {}) /\ Whole(v)
    BY DEF Holding, Mappable
  <2>2. s.ip \in [Inums -> Copies] /\ v.ip[Root].ref > 0 /\ \A j \in Inums : v.ip[j].ref \in Nat
    BY <2>1, SoundIs, CountsAre DEF Whole
  <2> QED BY <2>1, <2>2 DEF Holding
<1>1. /\ Have(g, Nobody, Nobody)
      /\ Live(g) => Recopied(s, g, i, X, {}) /\ g.ip[i].ref = s.ip[i].ref + 1
  BY <1>0, IgetSound
<1> HIDE DEF g, X
<1>2. ASSUME Live(g)
      PROVE  /\ Live(s) /\ i \in Inums /\ Sound(g, X, {}) /\ Inodes(g) = Inodes(s)
             /\ \A j \in Inums : g.ip[j].ref = s.ip[j].ref + IF j = i THEN 1 ELSE 0
             /\ g.ip \in [Inums -> Copies] /\ g.ip[Root].ref > 1 /\ g.ip[i].ref > 0
  <2>1. /\ Live(s) /\ Inodes(g) = Inodes(s) /\ Sound(g, X, {})
        /\ g.ip = [s.ip EXCEPT ![i] = g.ip[i]] /\ g.ip[i].ref = s.ip[i].ref + 1
    BY <1>1, <1>2 DEF Recopied
  <2>2. g.ip \in [Inums -> Copies] /\ \A j \in Inums : j # i => g.ip[j] = s.ip[j]
    BY <1>0, <2>1, SoundIs
  <2>3. \A j \in Inums : s.ip[j].ref \in Nat
    BY <1>0, <2>1 DEF Copies
  <2>4. \A j \in Inums : g.ip[j].ref = s.ip[j].ref + IF j = i THEN 1 ELSE 0
    <3> TAKE j \in Inums
    <3>1. s.ip[j].ref \in Nat
      BY <2>3
    <3> QED BY <2>1, <2>2, <3>1
  <2>5. s.ip[Root].ref > 1 /\ s.ip[Root].ref \in Nat /\ s.ip[i].ref \in Nat
    BY <1>0, <2>1, <2>3, RootIsInode
  <2>6. g.ip[Root].ref > 1 /\ g.ip[i].ref > 0
    BY <2>1, <2>4, <2>5, RootIsInode
  <2> QED BY <2>1, <2>2, <2>4, <2>6
<1>3. /\ Have(p, Nobody, Nobody)
      /\ Live(p) => Lowered(g, p, Root, X, {})
  <2>1. Live(g) => Sound(g, X, {}) /\ Root \in Inums /\ g.ip[Root].ref > 1 /\ g.ip[Root].ref > 0
    <3>1. Live(g) => g.ip[Root].ref \in Nat
      BY <1>2, RootIsInode DEF Copies
    <3> QED BY <1>2, <3>1, RootIsInode
  <2> QED BY <1>1, <2>1, PutSound
<1> HIDE DEF p
<1>4. ASSUME Live(p)
      PROVE  /\ Live(g) /\ Loadable(p, i, {})
             /\ \A j \in Inums : p.ip[j].ref = v.ip[j].ref + IF j = i THEN 1 ELSE 0
             /\ p.ip \in [Inums -> Copies]
  <2>1. /\ Live(g) /\ Recopied(g, p, Root, X, {}) /\ p.ip[Root].ref = g.ip[Root].ref - 1
    BY <1>3, <1>4 DEF Lowered, Uncounted
  <2>2. Sound(p, X, {}) /\ Inodes(p) = Inodes(g) /\ \A j \in Inums : j # Root => p.ip[j] = g.ip[j]
    BY <1>2, <2>1 DEF Recopied
  <2>3. p.ip \in [Inums -> Copies]
    BY <2>2, SoundIs
  <2>4. \A j \in Inums : p.ip[j].ref = v.ip[j].ref + IF j = i THEN 1 ELSE 0
    <3> TAKE j \in Inums
    <3>1. /\ v.ip[j].ref \in Nat /\ g.ip[j].ref = s.ip[j].ref + IF j = i THEN 1 ELSE 0
          /\ s.ip[j].ref = v.ip[j].ref + IF j = Root THEN 1 ELSE 0
      BY <1>0, <1>2, <2>1
    <3>2. p.ip[j].ref = g.ip[j].ref - IF j = Root THEN 1 ELSE 0
      BY <2>1, <2>2, <3>1
    <3> QED BY <3>1, <3>2
  <2>5. Sound(p, Unread(p, i), {})
    <3>1. X \cap Files \subseteq Unread(p, i)
      BY <2>2 DEF X, Unread, Files
    <3> QED BY <2>2, <3>1, WeakerSound
  <2>6. p.ip[i].ref > 0
    <3>1. v.ip[i].ref \in Nat
      BY <1>0, <1>2, <2>1
    <3> QED BY <1>2, <2>1, <2>4, <3>1
  <2>7. Inodes(p)[i].type # "free"
    BY <1>2, <2>1, <2>2
  <2> QED BY <1>2, <2>1, <2>3, <2>4, <2>5, <2>6, <2>7 DEF Loadable
<1>5. /\ Have(k, Nobody, Nobody)
      /\ Live(k) => Recopied(p, k, i, {}, {}) /\ k.ip[i].ref = p.ip[i].ref /\ Used(k.ip[i])
  BY <1>3, <1>4, LockSound
<1> HIDE DEF k
<1>6. ASSUME Live(k)
      PROVE  /\ Live(v) /\ Mappable(k, {}, {}, i)
             /\ \A j \in Inums : k.ip[j].ref = v.ip[j].ref + IF j = i THEN 1 ELSE 0
  <2>1. /\ Live(p) /\ Sound(k, {}, {}) /\ k.ip = [p.ip EXCEPT ![i] = k.ip[i]]
        /\ k.ip[i].ref = p.ip[i].ref /\ Used(k.ip[i])
    BY <1>5, <1>6 DEF Recopied
  <2>2. \A j \in Inums : k.ip[j].ref = p.ip[j].ref
    BY <1>4, <2>1
  <2> QED BY <1>0, <1>2, <1>4, <2>1, <2>2 DEF Mappable
<1>7. Have(u, Nobody, Nobody) /\ (Live(u) => Back(k, u))
  BY <1>5, <1>6, OpenedSound
<1> HIDE DEF u
<1>8. Live(u) => Opens(v, u, i)
  BY <1>6, <1>7 DEF Back, Opens
<1> QED BY <1>7, <1>8 DEF g, p, k, u

(* put, of a reference to the root that is not the last.                   *)
RootPut(s, u, U) ==
  /\ Live(s) /\ Sound(u, {}, U) /\ s.ip \in [Inums -> Copies]
  /\ u.ip[Root].ref = s.ip[Root].ref - 1 /\ \A j \in Inums : j # Root => u.ip[j] = s.ip[j]

(* The put of the root after a new entry was linked.                      *)
LEMMA RootPutSound ==
  ASSUME NEW s, NEW U, Have(s, Nobody, Nobody), Live(s) => Sound(s, {}, U) /\ s.ip[Root].ref > 1
  PROVE  LET u == Put(s, Root)
         IN Have(u, Nobody, Nobody) /\ (Live(u) => RootPut(s, u, U))
<1> DEFINE u == Put(s, Root)
<1>1. Live(s) => s.ip[Root].ref > 0 /\ s.ip \in [Inums -> Copies]
  <2>1. Live(s) => s.ip[Root].ref \in Nat
    BY CountsAre, RootIsInode
  <2> QED BY <2>1, SoundIs
<1>2. Have(u, Nobody, Nobody) /\ (Live(u) => Lowered(s, u, Root, {}, U))
  BY <1>1, RootIsInode, PutSound
<1> HIDE DEF u
<1>3. Live(u) => RootPut(s, u, U)
  BY <1>1, <1>2 DEF Lowered, Uncounted, RootPut
<1> QED BY <1>2, <1>3 DEF u

(* A new inode is named in the root, or is not.                            *)
NewLinked(v, t, i) ==
  /\ Live(v) /\ Whole(v) /\ i \in Files /\ v.ip[i].ref = 0
  /\ Sound(t.w, {}, IF t.tot = 1 THEN {} ELSE {i})
  /\ Used(t.w.ip[i]) /\ Used(t.w.ip[Root])
  /\ \A j \in Inums : t.w.ip[j].ref = v.ip[j].ref + IF j \in {Root, i} THEN 1 ELSE 0

(* A new inode is locked, gets its link and then its name (create).       *)
LEMMA NewLinkedSound ==
  ASSUME NEW v, NEW s, NEW name, Have(s, Nobody, Nobody), Live(v) => Whole(v), Live(s) => Holding(v, s),
         InodeAlloc(s).inum # 0
  PROVE  LET new == InodeAlloc(s)
             t == Link(SetNlink(Lock(new.w, new.inum), new.inum, 1), name, new.inum)
         IN Have(t.w, Nobody, Nobody) /\ (Live(t.w) => NewLinked(v, t, new.inum))
<1> DEFINE new == InodeAlloc(s)
           i == new.inum
           k == Lock(new.w, i)
           n == SetNlink(k, i, 1)
           t == Link(n, name, i)
<1>1. Allocating(s, new) /\ i # 0
  BY InodeAllocSound DEF Holding, Mappable
<1> HIDE DEF new
<1>2. Have(new.w, Nobody, Nobody) /\ (Live(new.w) => Live(s) /\ Allocated(s, new.w, i))
  BY <1>1 DEF Allocating
<1>3. /\ Have(k, Nobody, Nobody)
      /\ Live(k) => Recopied(new.w, k, i, {}, {i}) /\ k.ip[i].ref = new.w.ip[i].ref /\ Used(k.ip[i])
  <2>1. Have(new.w, Nobody, Nobody) /\ (Live(new.w) => Loadable(new.w, i, {i}))
    BY <1>2 DEF Allocated
  <2> QED BY <2>1, LockSound
<1> HIDE DEF k, i
<1>4. ASSUME Live(k)
      PROVE  /\ Live(s) /\ i \in Files /\ s.ip[i].ref = 0 /\ Mappable(k, {}, {i}, i)
             /\ k.ip \in [Inums -> Copies] /\ k.ip[i].ref = 1
             /\ \A j \in Inums : j # i => k.ip[j] = s.ip[j]
  <2>1. /\ Live(new.w) /\ Sound(k, {}, {i}) /\ k.ip = [new.w.ip EXCEPT ![i] = k.ip[i]]
        /\ k.ip[i].ref = new.w.ip[i].ref /\ Used(k.ip[i])
    BY <1>3, <1>4 DEF Recopied
  <2>2. /\ Live(s) /\ i \in Files /\ s.ip[i].ref = 0 /\ new.w.ip[i].ref = 1
        /\ \A j \in Inums : j # i => new.w.ip[j] = s.ip[j]
    BY <1>2, <2>1 DEF Allocated
  <2>3. k.ip \in [Inums -> Copies]
    BY <2>1, SoundIs
  <2>4. \A j \in Inums : j # i => k.ip[j] = new.w.ip[j]
    <3>1. k.ip = [new.w.ip EXCEPT ![i] = k.ip[i]] /\ DOMAIN k.ip = Inums
      BY <2>1, <2>3
    <3> QED BY <3>1
  <2> QED BY <2>1, <2>2, <2>3, <2>4 DEF Mappable, Files
<1> DEFINE din == [k.ip[i].din EXCEPT !.nlink = 1]
<1>5. Have(n, Nobody, Nobody) /\ (Live(n) => Restated(k, n, i, din, {} \ {i}, {i}))
  <2> HIDE DEF n
  <2>1. Live(k) => Mappable(k, {}, {i}, i) /\ (1 = 0 => i \in {i})
    BY <1>4
  <2> QED BY <1>3, <2>1, SetNlinkSound DEF n
<1> HIDE DEF n
<1>6. ASSUME Live(n)
      PROVE  /\ Live(s) /\ i \in Files /\ s.ip[i].ref = 0 /\ Linkable(n, i)
             /\ n.ip[i].ref = 1 /\ Used(n.ip[Root]) /\ Used(n.ip[i])
             /\ \A j \in Inums : j # i => n.ip[j] = s.ip[j]
  <2>1. Live(k) /\ n.ip = [k.ip EXCEPT ![i] = Redin(k.ip[i], din)] /\ Sound(n, {}, {i})
    <3> HIDE DEF din
    <3>1. {} \ {i} = {}
      OBVIOUS
    <3> QED BY <1>5, <1>6, <3>1 DEF Restated
  <2>2. /\ Live(s) /\ i \in Inums /\ i # Root /\ s.ip[i].ref = 0 /\ k.ip[i] \in Copies
        /\ k.ip \in [Inums -> Copies] /\ Used(k.ip[i]) /\ k.ip[i].ref = 1
        /\ \A j \in Inums : j # i => k.ip[j] = s.ip[j]
    BY <1>4, <2>1 DEF Files, Mappable
  <2>3. Used(s.ip[Root])
    BY <2>2 DEF Holding, Mappable
  <2>4. k.ip[i].din \in InodeSet
    BY <2>2 DEF Copies
  <2>5. din \in InodeSet /\ din.nlink = 1
    <3> DEFINE c == k.ip[i].din
    <3>1. c \in InodeSet
      BY <2>4
    <3> HIDE DEF c
    <3>2. [c EXCEPT !.nlink = 1] \in InodeSet /\ [c EXCEPT !.nlink = 1].nlink = 1
      BY <3>1 DEF InodeSet
    <3> QED BY <3>2 DEF c
  <2> HIDE DEF din
  <2>6. /\ Redin(k.ip[i], din).din = din /\ Redin(k.ip[i], din).ref = 1
        /\ Redin(k.ip[i], din).valid = k.ip[i].valid
    BY <2>2, <2>5, RedinIs
  <2>7. n.ip[i] = Redin(k.ip[i], din) /\ \A j \in Inums : j # i => n.ip[j] = s.ip[j]
    BY <2>1, <2>2
  <2>8. Used(n.ip[i]) /\ n.ip[i].din.nlink # 0 /\ n.ip[i].ref = 1
    <3>1. n.ip[i].ref > 0 /\ n.ip[i].din.nlink # 0 /\ n.ip[i].ref = 1
      BY <2>5, <2>6, <2>7
    <3>2. n.ip[i].valid
      BY <2>2, <2>6, <2>7, Zenon DEF Used
    <3> QED BY <3>1, <3>2 DEF Used
  <2>9. n.ip[i].din.type # "free"
    <3>1. Memory(n.ip, Disk(n), {})
      BY <2>1, SoundIs
    <3> QED BY <2>2, <2>8, <3>1 DEF Memory
  <2>10. Used(n.ip[Root])
    BY <2>2, <2>3, <2>7, RootIsInode
  <2> QED BY <2>1, <2>2, <2>7, <2>8, <2>9, <2>10, RootIsInode DEF Linkable, Mappable, Files
<1>7. Have(t.w, Nobody, Nobody) /\ (Live(t.w) => LinkSet(n, t, i))
  BY <1>5, <1>6, LinkSound
<1> HIDE DEF t
<1>8. ASSUME Live(t.w) PROVE NewLinked(v, t, i)
  <2>1. Live(n) /\ SameKind(n.ip, t.w.ip) /\ Sound(t.w, {}, IF t.tot = 1 THEN {} ELSE {i})
    BY <1>7, <1>8 DEF LinkSet
  <2>2. /\ Live(s) /\ i \in Files /\ s.ip[i].ref = 0 /\ n.ip[i].ref = 1 /\ Used(n.ip[Root]) /\ Used(n.ip[i])
        /\ \A j \in Inums : j # i => n.ip[j] = s.ip[j]
    BY <1>6, <2>1
  <2>3. Used(t.w.ip[i]) /\ Used(t.w.ip[Root]) /\ \A j \in Inums : t.w.ip[j].ref = n.ip[j].ref
    BY <2>1, <2>2, RootIsInode DEF SameKind, Used, Files
  <2>4. /\ Live(v) /\ Whole(v)
        /\ \A j \in Inums : s.ip[j].ref = v.ip[j].ref + IF j = Root THEN 1 ELSE 0
    BY <2>2 DEF Holding
  <2>5. \A j \in Inums : v.ip[j].ref \in Nat
    BY <2>4, CountsAre DEF Whole
  <2>6. v.ip[i].ref = 0 /\ i # Root
    BY <2>2, <2>4, <2>5 DEF Files
  <2>7. \A j \in Inums : t.w.ip[j].ref = v.ip[j].ref + IF j \in {Root, i} THEN 1 ELSE 0
    <3> TAKE j \in Inums
    <3>1. CASE j = i
      BY <2>2, <2>3, <2>6, <3>1
    <3>2. CASE j # i
      BY <2>2, <2>3, <2>4, <3>2
    <3> QED BY <3>1, <3>2
  <2> QED BY <2>1, <2>2, <2>3, <2>4, <2>6, <2>7 DEF NewLinked
<1> QED BY <1>7, <1>8 DEF t, n, k, i, new

(* The new file stays open, and the root is put.                           *)
LEMMA CreatedSound ==
  ASSUME NEW v, NEW t, NEW i, NEW trunc, Have(t.w, Nobody, Nobody), Live(t.w) => NewLinked(v, t, i),
         t.tot = 1
  PROVE  LET u == Opened(Put(t.w, Root), i, trunc)
         IN Have(u, Nobody, Nobody) /\ (Live(u) => Opens(v, u, i) /\ v.ip[i].ref = 0 /\ i \in Inums)
<1> DEFINE p == Put(t.w, Root)
           u == Opened(p, i, trunc)
<1>1. ASSUME Live(t.w)
      PROVE  /\ Live(v) /\ Sound(t.w, {}, {}) /\ Used(t.w.ip[i]) /\ i \in Inums /\ i # Root /\ v.ip[i].ref = 0
             /\ \A j \in Inums : v.ip[j].ref \in Nat
             /\ \A j \in Inums : t.w.ip[j].ref = v.ip[j].ref + IF j \in {Root, i} THEN 1 ELSE 0
             /\ t.w.ip[Root].ref > 1
  <2>1. /\ Live(v) /\ Sound(t.w, {}, {}) /\ Used(t.w.ip[i]) /\ i \in Inums /\ i # Root /\ v.ip[i].ref = 0
        /\ \A j \in Inums : t.w.ip[j].ref = v.ip[j].ref + IF j \in {Root, i} THEN 1 ELSE 0
    BY <1>1 DEF NewLinked, Files
  <2>2. v.ip[Root].ref > 0 /\ \A j \in Inums : v.ip[j].ref \in Nat
    BY <1>1, CountsAre DEF NewLinked, Whole
  <2>3. t.w.ip[Root].ref = v.ip[Root].ref + 1 /\ v.ip[Root].ref \in Nat
    BY <2>1, <2>2, RootIsInode
  <2> QED BY <2>1, <2>2, <2>3
<1>2. Have(p, Nobody, Nobody) /\ (Live(p) => RootPut(t.w, p, {}))
  BY <1>1, RootPutSound
<1> HIDE DEF p
<1>3. ASSUME Live(p)
      PROVE  /\ Live(v) /\ Mappable(p, {}, {}, i) /\ v.ip[i].ref = 0
             /\ \A j \in Inums : p.ip[j].ref = v.ip[j].ref + IF j = i THEN 1 ELSE 0
  <2>1. /\ Live(t.w) /\ Sound(p, {}, {}) /\ p.ip[Root].ref = t.w.ip[Root].ref - 1
        /\ \A j \in Inums : j # Root => p.ip[j] = t.w.ip[j]
    BY <1>2, <1>3 DEF RootPut
  <2>2. \A j \in Inums : p.ip[j].ref = v.ip[j].ref + IF j = i THEN 1 ELSE 0
    <3> TAKE j \in Inums
    <3>1. v.ip[j].ref \in Nat /\ t.w.ip[j].ref = v.ip[j].ref + (IF j \in {Root, i} THEN 1 ELSE 0) /\ i # Root
      BY <1>1, <2>1
    <3>2. CASE j = Root
      BY <2>1, <3>1, <3>2
    <3>3. CASE j # Root
      BY <2>1, <3>1, <3>3
    <3> QED BY <3>2, <3>3
  <2> QED BY <1>1, <2>1, <2>2 DEF Mappable
<1>4. Have(u, Nobody, Nobody) /\ (Live(u) => Back(p, u))
  BY <1>2, <1>3, OpenedSound
<1> HIDE DEF u
<1>5. Live(u) => Opens(v, u, i) /\ v.ip[i].ref = 0 /\ i \in Inums
  BY <1>3, <1>4 DEF Back, Opens, Mappable
<1> QED BY <1>4, <1>5 DEF u, p

(* create without an entry: the inode is free again.                       *)
LEMMA UndoneSound ==
  ASSUME NEW v, NEW t, NEW i, Have(t.w, Nobody, Nobody), Live(t.w) => NewLinked(v, t, i),
         t.tot # 1
  PROVE  LET u == Put(Undone(t.w, i), Root)
         IN Have(u, Nobody, Nobody) /\ (Live(u) => Back(v, u))
<1> DEFINE x == Undone(t.w, i)
           n == SetNlink(t.w, i, 0)
           p == Put(n, i)
           u == Put(x, Root)
           din == [t.w.ip[i].din EXCEPT !.nlink = 0]
<1>1. ASSUME Live(t.w)
      PROVE  /\ Live(v) /\ Mappable(t.w, {}, {i}, i) /\ i # Root /\ v.ip[i].ref = 0
             /\ t.w.ip \in [Inums -> Copies]
             /\ \A j \in Inums : v.ip[j].ref \in Nat
             /\ \A j \in Inums : t.w.ip[j].ref = v.ip[j].ref + IF j \in {Root, i} THEN 1 ELSE 0
             /\ t.w.ip[Root].ref > 1
  <2>1. /\ Live(v) /\ Mappable(t.w, {}, {i}, i) /\ i \in Inums /\ i # Root /\ v.ip[i].ref = 0
        /\ \A j \in Inums : t.w.ip[j].ref = v.ip[j].ref + IF j \in {Root, i} THEN 1 ELSE 0
    BY <1>1 DEF NewLinked, Files, Mappable
  <2>2. v.ip[Root].ref > 0 /\ \A j \in Inums : v.ip[j].ref \in Nat
    BY <1>1, CountsAre DEF NewLinked, Whole
  <2>3. t.w.ip[Root].ref = v.ip[Root].ref + 1 /\ v.ip[Root].ref \in Nat
    BY <2>1, <2>2, RootIsInode
  <2>4. t.w.ip \in [Inums -> Copies]
    BY <2>1, SoundIs DEF Mappable
  <2> QED BY <2>1, <2>2, <2>3, <2>4
<1>2. Have(n, Nobody, Nobody) /\ (Live(n) => Restated(t.w, n, i, din, {} \ {i}, {i}))
  <2>1. Live(t.w) => Mappable(t.w, {}, {i}, i) /\ (0 = 0 => i \in {i})
    BY <1>1
  <2> HIDE DEF n
  <2> QED BY <2>1, SetNlinkSound DEF n
<1> HIDE DEF n
<1>3. ASSUME Live(n)
      PROVE  /\ Live(t.w) /\ Sound(n, {}, {i}) /\ i \in Inums /\ n.ip \in [Inums -> Copies]
             /\ \A j \in Inums : n.ip[j].ref = t.w.ip[j].ref
             /\ n.ip[i].ref > 0
  <2> HIDE DEF din
  <2>1. Live(t.w) /\ n.ip = [t.w.ip EXCEPT ![i] = Redin(t.w.ip[i], din)] /\ Sound(n, {}, {i})
    <3>1. {} \ {i} = {}
      OBVIOUS
    <3> QED BY <1>2, <1>3, <3>1 DEF Restated
  <2>2. t.w.ip \in [Inums -> Copies] /\ i \in Inums /\ Used(t.w.ip[i])
    BY <1>1, <2>1 DEF Mappable
  <2>3. Redin(t.w.ip[i], din).ref = t.w.ip[i].ref
    BY <2>2 DEF Copies, Redin
  <2>4. \A j \in Inums : n.ip[j].ref = t.w.ip[j].ref
    BY <2>1, <2>2, <2>3
  <2> QED BY <2>1, <2>2, <2>4, SoundIs DEF Used
<1>4. Have(p, Nobody, Nobody) /\ (Live(p) => Lowered(n, p, i, {}, {i}))
  <2>1. Live(n) => Sound(n, {}, {i}) /\ i \in Inums /\ n.ip[i].ref > 0 /\ i # Root
    BY <1>1, <1>3
  <2> QED BY <1>2, <2>1, PutSound
<1> HIDE DEF p
<1>5. Have(x, Nobody, Nobody) /\ (Live(x) => Live(p) /\ x = p)
  <2>1. CASE Halted(t.w)
    <3>1. x = t.w
      BY <2>1 DEF Undone
    <3> HIDE DEF x
    <3> QED BY <2>1, <3>1 DEF Live
  <2>2. CASE ~ Halted(t.w)
    <3>1. x = p
      BY <2>2 DEF Undone, p, n
    <3> HIDE DEF x
    <3> QED BY <1>4, <3>1
  <2> QED BY <2>1, <2>2
<1> HIDE DEF x
<1>6. ASSUME Live(x)
      PROVE  /\ Live(v) /\ Sound(x, {}, {i}) /\ x.ip[Root].ref > 1
             /\ \A j \in Inums : v.ip[j].ref \in Nat
             /\ \A j \in Inums : x.ip[j].ref = v.ip[j].ref + IF j = Root THEN 1 ELSE 0
  <2>1. Live(n) /\ Sound(x, {}, {i}) /\ x.ip = [n.ip EXCEPT ![i] = x.ip[i]] /\ x.ip[i].ref = n.ip[i].ref - 1
    BY <1>4, <1>5, <1>6 DEF Lowered, Uncounted
  <2>2. /\ Live(v) /\ i # Root /\ v.ip[i].ref = 0 /\ i \in Inums /\ n.ip \in [Inums -> Copies]
        /\ \A j \in Inums : v.ip[j].ref \in Nat
        /\ \A j \in Inums : n.ip[j].ref = v.ip[j].ref + IF j \in {Root, i} THEN 1 ELSE 0
        /\ n.ip[Root].ref > 1
    BY <1>1, <1>3, <2>1, RootIsInode
  <2>3. \A j \in Inums : j # i => x.ip[j] = n.ip[j]
    BY <2>1, <2>2
  <2>4. \A j \in Inums : x.ip[j].ref = v.ip[j].ref + IF j = Root THEN 1 ELSE 0
    <3> TAKE j \in Inums
    <3>0. v.ip[j].ref \in Nat
      BY <2>2
    <3>1. CASE j = i
      BY <2>1, <2>2, <3>1
    <3>2. CASE j # i
      BY <2>2, <2>3, <3>0, <3>2
    <3> QED BY <3>1, <3>2
  <2> QED BY <2>1, <2>2, <2>3, <2>4, RootIsInode
<1>7. Have(u, Nobody, Nobody) /\ (Live(u) => RootPut(x, u, {i}))
  BY <1>5, <1>6, RootPutSound
<1> HIDE DEF u
<1>8. ASSUME Live(u) PROVE Back(v, u)
  <2>1. /\ Live(x) /\ Sound(u, {}, {i}) /\ u.ip[Root].ref = x.ip[Root].ref - 1
        /\ \A j \in Inums : j # Root => u.ip[j] = x.ip[j]
    BY <1>7, <1>8 DEF RootPut
  <2>2. Whole(u)
    BY <2>1, FewerUnnamedSound DEF Whole
  <2>3. \A j \in Inums : u.ip[j].ref = v.ip[j].ref
    <3> TAKE j \in Inums
    <3>0. v.ip[j].ref \in Nat /\ x.ip[j].ref = v.ip[j].ref + IF j = Root THEN 1 ELSE 0
      BY <1>6, <2>1
    <3>1. CASE j = Root
      BY <2>1, <3>0, <3>1
    <3>2. CASE j # Root
      BY <2>1, <3>0, <3>2
    <3> QED BY <3>1, <3>2
  <2> QED BY <1>6, <2>1, <2>2, <2>3 DEF Back
<1> QED BY <1>7, <1>8 DEF u, x

-----------------------------------------------------------------------------
(* Every call leaves the file system consistent.                          *)

(* What every call finds and leaves: unless an assertion has failed or a   *)
(* changed buffer was lost, everything is accounted for.                   *)
Consistent(v) ==
  /\ Have(v, Nobody, Nobody)
  /\ Live(v) => Whole(v) /\ \A j \in Inums : v.ip[j].ref \in 0 .. MaxRef

(* A call from v to u that took references only where there was room.      *)
Serves(v, u) ==
  /\ Have(u, Nobody, Nobody)
  /\ Live(u) => /\ Live(v) /\ Whole(u)
                /\ \A j \in Inums : \/ u.ip[j].ref \in Nat /\ u.ip[j].ref <= v.ip[j].ref
                                    \/ u.ip[j].ref = v.ip[j].ref + 1 /\ v.ip[j].ref < MaxRef

(* A call that serves leaves a consistent file system.                    *)
LEMMA ServesConsistent ==
  ASSUME NEW v, NEW u, Consistent(v), Serves(v, u)
  PROVE  Consistent(u)
<1>1. ASSUME Live(u), NEW j \in Inums PROVE u.ip[j].ref \in 0 .. MaxRef
  <2>1. v.ip[j].ref \in 0 .. MaxRef /\ MaxRef \in Nat
    BY <1>1, FsAssumption DEF Consistent, Serves
  <2>2. \/ u.ip[j].ref \in Nat /\ u.ip[j].ref <= v.ip[j].ref
        \/ u.ip[j].ref = v.ip[j].ref + 1 /\ v.ip[j].ref < MaxRef
    BY <1>1 DEF Serves
  <2> QED BY <2>1, <2>2
<1> QED BY <1>1 DEF Consistent, Serves

(* Calls that change no reference, and those that take one.                *)
LEMMA BackServes ==
  ASSUME NEW v, NEW u, Have(u, Nobody, Nobody), Live(u) => Back(v, u)
  PROVE  Serves(v, u)
<1>1. ASSUME Live(u), NEW j \in Inums PROVE u.ip[j].ref \in Nat /\ u.ip[j].ref <= v.ip[j].ref
  <2>1. Back(v, u)
    BY <1>1
  <2>2. u.ip[j].ref \in Nat /\ u.ip[j].ref = v.ip[j].ref
    BY <2>1, CountsAre DEF Back, Whole
  <2> QED BY <2>2
<1> QED BY <1>1 DEF Serves, Back

(* A call that opens a file serves while there is room for its            *)
(* reference.                                                             *)
LEMMA OpensServes ==
  ASSUME NEW v, NEW u, NEW i, Have(u, Nobody, Nobody), Live(u) => Opens(v, u, i) /\ Whole(v),
         Live(u) => v.ip[i].ref < MaxRef
  PROVE  Serves(v, u)
<1>1. ASSUME Live(u), NEW j \in Inums
      PROVE  \/ u.ip[j].ref \in Nat /\ u.ip[j].ref <= v.ip[j].ref
             \/ u.ip[j].ref = v.ip[j].ref + 1 /\ v.ip[j].ref < MaxRef
  <2>1. v.ip[j].ref \in Nat /\ u.ip[j].ref = v.ip[j].ref + (IF j = i THEN 1 ELSE 0) /\ v.ip[i].ref < MaxRef
    BY <1>1, CountsAre DEF Opens, Whole
  <2>2. CASE j = i
    BY <2>1, <2>2
  <2>3. CASE j # i
    BY <2>1, <2>3
  <2> QED BY <2>2, <2>3
<1> QED BY <1>1 DEF Serves, Opens

(* sys_open of a file that is there.                                       *)
LEMMA OpenFoundServes ==
  ASSUME NEW s, NEW trunc, Consistent(w), Have(s.w, Nobody, Nobody), Live(s.w) => Finds(w, s),
         OpenFound(s, trunc)
  PROVE  Serves(w, w')
<1> DEFINE i == s.de[1]
           u == Opened(Lock(Put(Iget(s.w, i), Root), i), i, trunc)
<1>1. w' = u /\ s.de # Zero /\ w.ip[i].ref < MaxRef
  BY DEF OpenFound
<1>2. Live(w) => Whole(w)
  BY DEF Consistent
<1>3. Live(s.w) => Holding(w, s.w) /\ i \in Inums /\ Inodes(s.w)[i].type # "free"
  BY <1>1 DEF Finds, IsEntry
<1> HIDE DEF i
<1>4. Have(u, Nobody, Nobody) /\ (Live(u) => Opens(w, u, i))
  BY <1>2, <1>3, OpenFoundSound
<1> HIDE DEF u
<1>5. Live(u) => Whole(w)
  BY <1>2, <1>4 DEF Opens
<1>6. Serves(w, u)
  BY <1>1, <1>4, <1>5, OpensServes
<1> QED BY <1>1, <1>6

(* A path that leads nowhere.                                              *)
LEMMA NotFoundServes ==
  ASSUME NEW s, Consistent(w), Have(s, Nobody, Nobody), Live(s) => Holding(w, s)
  PROVE  Serves(w, Put(s, Root))
<1> DEFINE u == Put(s, Root)
<1>1. Live(w) => Whole(w)
  BY DEF Consistent
<1>2. Have(u, Nobody, Nobody) /\ (Live(u) => Back(w, u))
  BY <1>1, PutRootSound
<1> HIDE DEF u
<1>3. Serves(w, u)
  BY <1>2, BackServes
<1> QED BY <1>3 DEF u

(* sys_open                                                                *)
LEMMA OpenServes ==
  ASSUME NEW name, NEW trunc, Consistent(w), Open(name, trunc)
  PROVE  Serves(w, w')
<1> DEFINE s == Namei(w, name)
<1>1. OpenFound(s, trunc) \/ w' = Put(s.w, Root)
  BY DEF Open
<1>2. Have(s.w, Nobody, Nobody) /\ (Live(s.w) => Finds(w, s))
  BY NameiSound DEF Namei, Consistent
<1> HIDE DEF s
<1>3. CASE OpenFound(s, trunc)
  BY <1>2, <1>3, OpenFoundServes
<1>4. CASE w' = Put(s.w, Root)
  <2>1. Live(s.w) => Holding(w, s.w)
    BY <1>2 DEF Finds
  <2>2. Serves(w, Put(s.w, Root))
    BY <1>2, <2>1, NotFoundServes
  <2> QED BY <1>4, <2>2
<1> QED BY <1>1, <1>3, <1>4

(* create of a file that is not there.                                     *)
LEMMA CreateNewServes ==
  ASSUME NEW s, NEW name, NEW trunc, Consistent(w), Have(s, Nobody, Nobody),
         Live(s) => Holding(w, s), InodeAlloc(s).inum # 0,
         CreateNew(InodeAlloc(s), name, trunc)
  PROVE  Serves(w, w')
<1> DEFINE new == InodeAlloc(s)
           i == new.inum
           t == Link(SetNlink(Lock(new.w, i), i, 1), name, i)
           c == Opened(Put(t.w, Root), i, trunc)
           u == Put(Undone(t.w, i), Root)
<1>1. (t.tot = 1 /\ w' = c) \/ (t.tot # 1 /\ w' = u)
  BY DEF CreateNew
<1>2. Live(w) => Whole(w)
  BY DEF Consistent
<1>3. Have(t.w, Nobody, Nobody) /\ (Live(t.w) => NewLinked(w, t, i))
  BY <1>2, NewLinkedSound
<1> HIDE DEF t, i
<1>4. CASE t.tot = 1 /\ w' = c
  <2>1. Have(c, Nobody, Nobody) /\ (Live(c) => Opens(w, c, i) /\ w.ip[i].ref = 0 /\ i \in Inums)
    BY <1>3, <1>4, CreatedSound
  <2> HIDE DEF c
  <2>2. Live(c) => Whole(w) /\ w.ip[i].ref < MaxRef
    BY <1>2, <2>1, FsAssumption DEF Opens
  <2>3. Serves(w, c)
    BY <2>1, <2>2, OpensServes
  <2> QED BY <1>4, <2>3
<1>5. CASE t.tot # 1 /\ w' = u
  <2>1. Have(u, Nobody, Nobody) /\ (Live(u) => Back(w, u))
    BY <1>3, <1>5, UndoneSound
  <2> HIDE DEF u
  <2>2. Serves(w, u)
    BY <2>1, BackServes
  <2> QED BY <1>5, <2>2
<1> QED BY <1>1, <1>4, <1>5

(* create                                                                  *)
LEMMA CreateServes ==
  ASSUME NEW name, NEW trunc, Consistent(w), Create(name, trunc)
  PROVE  Serves(w, w')
<1> DEFINE s == Lookup(RootLocked(w), name)
           new == InodeAlloc(s.w)
<1>1. \/ OpenFound(s, trunc)
      \/ new.inum = 0 /\ w' = Put(new.w, Root)
      \/ new.inum # 0 /\ CreateNew(new, name, trunc)
  BY DEF Create
<1>2. Have(s.w, Nobody, Nobody) /\ (Live(s.w) => Finds(w, s))
  BY NameiSound DEF Consistent
<1> HIDE DEF s
<1>3. Live(s.w) => Holding(w, s.w) /\ Sound(s.w, {}, {})
  BY <1>2 DEF Finds, Holding, Mappable
<1>4. CASE OpenFound(s, trunc)
  BY <1>2, <1>4, OpenFoundServes
<1>5. CASE new.inum = 0 /\ w' = Put(new.w, Root)
  <2>1. Allocating(s.w, new)
    BY <1>2, <1>3, InodeAllocSound
  <2> HIDE DEF new
  <2>2. Have(new.w, Nobody, Nobody) /\ (Live(new.w) => Same(s.w, new.w))
    BY <1>5, <2>1 DEF Allocating
  <2>3. Live(new.w) => Holding(w, new.w)
    <3> SUFFICES ASSUME Live(new.w) PROVE Holding(w, new.w)
      OBVIOUS
    <3>1. Holding(w, s.w) /\ new.w.ip = s.w.ip /\ Disk(new.w) = Disk(s.w)
      BY <1>3, <2>2 DEF Same
    <3> QED BY <3>1 DEF Holding, Mappable, Sound
  <2>4. Serves(w, Put(new.w, Root))
    BY <2>2, <2>3, NotFoundServes
  <2> QED BY <1>5, <2>4
<1>6. CASE new.inum # 0 /\ CreateNew(new, name, trunc)
  BY <1>2, <1>3, <1>6, CreateNewServes
<1> QED BY <1>1, <1>4, <1>5, <1>6

(* sys_close                                                               *)
LEMMA CloseServes ==
  ASSUME NEW i \in Files, Consistent(w), Close(i)
  PROVE  Serves(w, w')
<1> DEFINE u == Put(w, i)
<1>1. Live(w) /\ w.ip[i].ref > 0 /\ w' = u /\ i \in Inums /\ i # Root
  BY DEF Close, Runs, Live, Files
<1>2. Have(w, Nobody, Nobody) /\ Sound(w, {}, {})
  BY <1>1 DEF Consistent, Whole
<1>3. Have(u, Nobody, Nobody) /\ (Live(u) => Lowered(w, u, i, {}, {}))
  BY <1>1, <1>2, PutSound
<1> HIDE DEF u
<1>4. ASSUME Live(u), NEW j \in Inums PROVE u.ip[j].ref \in Nat /\ u.ip[j].ref <= w.ip[j].ref
  <2>1. Sound(u, {}, {}) /\ Uncounted(w, u, i)
    BY <1>3, <1>4 DEF Lowered
  <2>2. u.ip[j].ref \in Nat /\ w.ip[j].ref \in Nat /\ w.ip \in [Inums -> Copies]
    BY <1>2, <2>1, CountsAre, SoundIs
  <2>3. u.ip[j].ref = IF j = i THEN w.ip[j].ref - 1 ELSE w.ip[j].ref
    BY <2>1, <2>2 DEF Uncounted
  <2> QED BY <2>2, <2>3
<1>5. Serves(w, u)
  BY <1>3, <1>4 DEF Serves, Lowered, Whole
<1> QED BY <1>1, <1>5

(* A file that is open is in memory already.                               *)
LEMMA OpenFileLocked ==
  ASSUME NEW v, NEW i \in Files, Live(v), Whole(v), v.ip[i].ref > 0
  PROVE  Lock(v, i) = v /\ Mappable(v, {}, {}, i)
<1>1. Used(v.ip[i]) /\ i \in Inums
  BY CountsAre DEF Whole, Files
<1> QED BY <1>1 DEF Lock, Used, Mappable, Whole

(* sys_read                                                                *)
LEMMA ReadServes ==
  ASSUME NEW i \in Files, NEW off \in Nat, NEW n \in Nat, Consistent(w), Read(i, off, n)
  PROVE  Serves(w, w')
<1> DEFINE t == ReadInode(w, i, off, n)
           size == w.ip[i].din.size
           stop == IF off > size THEN off ELSE off + Min({n, size - off})
<1>1. Live(w) /\ w.ip[i].ref > 0 /\ w' = ReadInode(Lock(w, i), i, off, n).w
  BY DEF Read, Runs, Live
<1>2. Have(w, Nobody, Nobody) /\ Whole(w)
  BY <1>1 DEF Consistent
<1>3. Lock(w, i) = w /\ Mappable(w, {}, {}, i)
  BY <1>1, <1>2, OpenFileLocked
<1>4. w' = t.w
  BY <1>1, <1>3
<1>5. IsFile(w, i, {}, size)
  <2>1. Accounted(Inodes(w), Disk(w), {}) /\ Inodes(w)[i] = w.ip[i].din
    BY <1>3, SoundIs DEF Mappable
  <2>2. Gapless(Inodes(w), Disk(w), i, size)
    BY <2>1 DEF Accounted
  <2>3. size \in 0 .. (MaxFile * BSize)
    BY <1>3, SizeIs
  <2> QED BY <1>3, <2>2, <2>3 DEF IsFile
<1>6. Have(t.w, Nobody, Nobody) /\ (Live(t.w) => WasRead(w, t, i, off, stop))
  BY <1>2, <1>5, ReadFileReads
<1> HIDE DEF t, stop
<1>7. Live(t.w) => Back(w, t.w)
  BY <1>2, <1>6 DEF WasRead, SoFar, Back, Whole, Sound
<1>8. Serves(w, t.w)
  BY <1>6, <1>7, BackServes
<1> QED BY <1>4, <1>8

(* sys_write                                                               *)
LEMMA WriteServes ==
  ASSUME NEW i \in Files, NEW off \in Nat, NEW n \in Nat, Consistent(w), Write(i, off, n)
  PROVE  Serves(w, w')
<1> DEFINE words == [k \in 1 .. n |-> Word]
           u == WriteInode(w, i, off, words).w
<1>1. Live(w) /\ w.ip[i].ref > 0 /\ w' = WriteInode(Lock(w, i), i, off, words).w
  BY DEF Write, Runs, Live
<1>2. Have(w, Nobody, Nobody) /\ Whole(w)
  BY <1>1 DEF Consistent
<1>3. Lock(w, i) = w /\ Mappable(w, {}, {}, i)
  BY <1>1, <1>2, OpenFileLocked
<1>4. w' = u
  BY <1>1, <1>3
<1>5. words \in Seq({Word})
  OBVIOUS
<1> HIDE DEF words
<1>6. Have(u, Nobody, Nobody) /\ (Live(u) => WroteFile(w, u, i, {}))
  BY <1>2, <1>3, <1>5, WriteFileSound DEF Files
<1> HIDE DEF u
<1>7. Live(u) => Back(w, u)
  BY <1>6 DEF WroteFile, Back, Whole
<1>8. Serves(w, u)
  BY <1>6, <1>7, BackServes
<1> QED BY <1>4, <1>8

(* Every call leaves the file system consistent.                           *)
LEMMA NextConsistent ==
  ASSUME Consistent(w), [Next]_vars
  PROVE  Consistent(w')
<1>0. MaxCount \in Nat /\ MaxFile * BSize \in Nat
  BY FsAssumption, Sizes
<1> DEFINE M == MaxFile * BSize
<1>1. \/ \E name \in Names, trunc \in BOOLEAN : Open(name, trunc) \/ Create(name, trunc)
      \/ \E i \in Files : Close(i)
      \/ \E i \in Files, off \in 0 .. M, n \in 1 .. MaxCount : Read(i, off, n) \/ Write(i, off, n)
      \/ w' = w
  BY DEF Next, vars
<1> HIDE DEF M
<1>2. ASSUME NEW name \in Names, NEW trunc \in BOOLEAN, Open(name, trunc) \/ Create(name, trunc)
      PROVE  Consistent(w')
  <2>1. Serves(w, w')
    BY <1>2, OpenServes, CreateServes
  <2> QED BY <2>1, ServesConsistent
<1>3. ASSUME NEW i \in Files, Close(i) PROVE Consistent(w')
  BY <1>3, CloseServes, ServesConsistent
<1>4. ASSUME NEW i \in Files, NEW off \in 0 .. M, NEW n \in 1 .. MaxCount,
             Read(i, off, n) \/ Write(i, off, n)
      PROVE  Consistent(w')
  <2>1. off \in Nat /\ n \in Nat
    BY <1>0 DEF M
  <2>2. Serves(w, w')
    BY <1>4, <2>1, ReadServes, WriteServes
  <2> QED BY <2>2, ServesConsistent
<1> QED BY <1>1, <1>2, <1>3, <1>4

-----------------------------------------------------------------------------
(* The image builder: what iappend, winode and ialloc of mkfs leave       *)
(* behind.                                                                *)

(* What mkfs keeps of a build: the blocks written, and the first inode and *)
(* block not handed out.  The bitmap is written at the end (balloc).       *)
IsBuild(st) ==
  /\ st = [img |-> st.img, freeinode |-> st.freeinode, freeblock |-> st.freeblock]
  /\ IsDisk(st.img) /\ st.freeinode \in Nat /\ st.freeblock \in Nat
Later(st, u) == IsBuild(u) /\ u.freeinode = st.freeinode /\ u.freeblock >= st.freeblock
Img(st) == [st.img EXCEPT ![BmapStart] = 0 .. (st.freeblock - 1)]

(* A build st with new data in block b (wsect).                            *)
WithBlock(st, b, data) == [st EXCEPT !.img = [st.img EXCEPT ![b] = data]]

Sectored(st, u, b, data) ==
  /\ Later(st, u) /\ u.freeblock = st.freeblock /\ u.img = [st.img EXCEPT ![b] = data]
  /\ b # BmapStart => Img(u) = [Img(st) EXCEPT ![b] = data]

(* wsect writes one block of the image.                                   *)
LEMMA WithBlockIs ==
  ASSUME NEW st, IsBuild(st), NEW b, NEW data
  PROVE  Sectored(st, WithBlock(st, b, data), b, data)
<1> DEFINE im == [st.img EXCEPT ![b] = data]
           u == WithBlock(st, b, data)
<1>1. IsDisk(im)
  BY DEF IsBuild, IsDisk
<1>1a. st = [img |-> st.img, freeinode |-> st.freeinode, freeblock |-> st.freeblock]
       /\ st.freeinode \in Nat /\ st.freeblock \in Nat
  BY DEF IsBuild
<1>2. u = [st EXCEPT !.img = im]
  BY DEF WithBlock
<1> HIDE DEF im, u
<1>3. u = [img |-> im, freeinode |-> st.freeinode, freeblock |-> st.freeblock]
  BY <1>1a, <1>2
<1>4. u.img = im /\ u.freeinode = st.freeinode /\ u.freeblock = st.freeblock
  BY <1>3
<1>5. Later(st, u)
  BY <1>1, <1>1a, <1>3, <1>4 DEF Later, IsBuild
<1>6. ASSUME b # BmapStart PROVE Img(u) = [Img(st) EXCEPT ![b] = data]
  <2>1. Img(u) = [im EXCEPT ![BmapStart] = 0 .. (st.freeblock - 1)]
    BY <1>4 DEF Img
  <2>2. IsDisk(st.img)
    BY DEF IsBuild
  <2>3. [[st.img EXCEPT ![b] = data] EXCEPT ![BmapStart] = 0 .. (st.freeblock - 1)] =
          [[st.img EXCEPT ![BmapStart] = 0 .. (st.freeblock - 1)] EXCEPT ![b] = data]
    <3> DEFINE bits == 0 .. (st.freeblock - 1)
    <3> HIDE DEF bits
    <3>1. [[st.img EXCEPT ![b] = data] EXCEPT ![BmapStart] = bits] =
            [[st.img EXCEPT ![BmapStart] = bits] EXCEPT ![b] = data]
      BY <1>6, <2>2 DEF IsDisk
    <3> QED BY <3>1 DEF bits
  <2> QED BY <2>1, <2>3 DEF im, Img
<1> QED BY <1>4, <1>5, <1>6 DEF u, im, Sectored

(* The bitmap block aside, the image is what was written.                  *)
LEMMA ImgIs ==
  ASSUME NEW st, IsBuild(st)
  PROVE  /\ IsDisk(Img(st)) /\ Img(st)[BmapStart] = 0 .. (st.freeblock - 1)
         /\ \A b : b # BmapStart => Img(st)[b] = st.img[b]
         /\ MarkUsed(st).img = Img(st)
<1>1. IsDisk(st.img) /\ BmapStart \in Blocks
  BY Layout DEF IsBuild
<1>2. st = [img |-> st.img, freeinode |-> st.freeinode, freeblock |-> st.freeblock]
  BY DEF IsBuild
<1>3. MarkUsed(st).img = Img(st)
  BY <1>2 DEF MarkUsed, Img
<1> DEFINE bits == 0 .. (st.freeblock - 1)
<1>4. Img(st) = [st.img EXCEPT ![BmapStart] = bits]
  BY DEF Img
<1> HIDE DEF bits
<1>5. IsDisk(Img(st)) /\ Img(st)[BmapStart] = bits /\ \A b : b # BmapStart => Img(st)[b] = st.img[b]
  BY <1>1, <1>4 DEF IsDisk
<1> QED BY <1>3, <1>5 DEF bits

(* A block is handed out, or was before.                                   *)
LEMMA GivenIs ==
  ASSUME NEW st, IsBuild(st), NEW a
  PROVE  /\ Later(st, Given(st, a).st) /\ Given(st, a).st.img = st.img
         /\ a # 0 => Given(st, a).st = st /\ Given(st, a).a = a
         /\ a = 0 => /\ Given(st, a).st.freeblock = st.freeblock + 1 /\ Given(st, a).a = st.freeblock
                     /\ Img(Given(st, a).st) = [Img(st) EXCEPT ![BmapStart] = 0 .. st.freeblock]
<1>1. st = [img |-> st.img, freeinode |-> st.freeinode, freeblock |-> st.freeblock]
       /\ st.freeinode \in Nat /\ st.freeblock \in Nat /\ IsDisk(st.img)
  BY DEF IsBuild
<1>2. CASE a # 0
  <2>1. Given(st, a).st = st /\ Given(st, a).a = a
    BY <1>2 DEF Given
  <2> QED BY <1>1, <1>2, <2>1 DEF Later
<1>3. CASE a = 0
  <2> DEFINE u == [st EXCEPT !.freeblock = st.freeblock + 1]
  <2>1. Given(st, a).st = u /\ Given(st, a).a = st.freeblock
    BY <1>3 DEF Given
  <2>2. u = [img |-> st.img, freeinode |-> st.freeinode, freeblock |-> st.freeblock + 1]
    BY <1>1
  <2> HIDE DEF u
  <2>3. u.img = st.img /\ u.freeinode = st.freeinode /\ u.freeblock = st.freeblock + 1
    BY <2>2
  <2>4. Later(st, u)
    BY <1>1, <2>2, <2>3 DEF Later, IsBuild
  <2>5. (st.freeblock + 1) - 1 = st.freeblock
    BY <1>1
  <2>6. Img(u) = [st.img EXCEPT ![BmapStart] = 0 .. st.freeblock]
    BY <2>3, <2>5 DEF Img
  <2>7. Img(u) = [Img(st) EXCEPT ![BmapStart] = 0 .. st.freeblock]
    <3> DEFINE x == 0 .. st.freeblock
               y == 0 .. (st.freeblock - 1)
    <3> HIDE DEF x, y
    <3>1. [[st.img EXCEPT ![BmapStart] = y] EXCEPT ![BmapStart] = x] = [st.img EXCEPT ![BmapStart] = x]
      BY <1>1 DEF IsDisk
    <3> QED BY <2>6, <3>1 DEF Img, x, y
  <2> QED BY <1>3, <2>1, <2>3, <2>4, <2>7
<1> QED BY <1>2, <1>3

-----------------------------------------------------------------------------
(* The root may take all of its blocks: its size is rounded up in the end, *)
(* and what is behind the entries of its last block is zero.               *)
Row(i, din) == IF i = Root THEN [din EXCEPT !.size = MaxFile * BSize] ELSE din

(* A build that accounts for the blocks of the inodes F, with free blocks  *)
(* that are zero.                                                          *)
Fresh(F, st) ==
  /\ IsBuild(st) /\ st.freeblock \in NMeta .. FSSize
  /\ Accounted(F, Img(st), {})
  /\ \A b \in st.freeblock .. (FSSize - 1) : st.img[b] = ZeroBlock

(* iappend has din instead of row i of the inodes R that are on the disk.  *)
Rows(R, i, din) == With(R, i, Row(i, din))
AtDin(R, i, din, st) ==
  /\ i \in Inums /\ R \in [Inums -> InodeSet]
  /\ din \in InodeSet /\ din.type # "free" /\ din.type = R[i].type /\ din.nlink = R[i].nlink
  /\ Fresh(Rows(R, i, din), st)

(* No inode block is written, no block is taken back.                      *)
Kept(F, d, F2, d2) ==
  \A j \in Inums, l \in 0 .. MaxFile : Addr(F, d, j, l) # 0 => Addr(F2, d2, j, l) = Addr(F, d, j, l)
Goes(R, i, din, st, din2, st2) ==
  /\ AtDin(R, i, din2, st2) /\ SameInodes(Img(st), Img(st2))
  /\ Kept(Rows(R, i, din), Img(st), Rows(R, i, din2), Img(st2))

(* A row of the inode table, with the root taken at its rounded size.     *)
LEMMA RowIs ==
  ASSUME NEW i \in Inums, NEW din \in InodeSet
  PROVE  /\ Row(i, din) \in InodeSet /\ Row(i, din).addrs = din.addrs
         /\ Row(i, din).type = din.type /\ Row(i, din).nlink = din.nlink
         /\ i # Root => Row(i, din) = din
         /\ i = Root => Row(i, din).size = MaxFile * BSize
<1> DEFINE M == MaxFile * BSize
<1>1. M \in Nat
  BY Sizes
<1>2. Row(i, din) = IF i = Root THEN [din EXCEPT !.size = M] ELSE din
  BY DEF Row
<1>3. InodeSet = [type : {"free", "file", "dir"}, nlink : Nat, size : 0 .. M, addrs : [0 .. NDirect -> Links]]
  BY DEF InodeSet
<1> HIDE DEF M
<1>4. M \in 0 .. M
  BY <1>1
<1>5. [din EXCEPT !.size = M] \in InodeSet
  BY <1>3, <1>4
<1>6. /\ [din EXCEPT !.size = M].addrs = din.addrs /\ [din EXCEPT !.size = M].type = din.type
      /\ [din EXCEPT !.size = M].nlink = din.nlink /\ [din EXCEPT !.size = M].size = M
  BY <1>3
<1>7. Row(i, din) \in InodeSet
  BY <1>2, <1>5
<1>8. Row(i, din).addrs = din.addrs /\ Row(i, din).type = din.type /\ Row(i, din).nlink = din.nlink
  BY <1>2, <1>6
<1> QED BY <1>2, <1>6, <1>7, <1>8 DEF M

(* Addresses are set the same before and after the rounding.              *)
LEMMA RowAddrs ==
  ASSUME NEW i \in Inums, NEW din \in InodeSet, NEW k \in 0 .. NDirect, NEW b
  PROVE  Row(i, [din EXCEPT !.addrs = [din.addrs EXCEPT ![k] = b]]) =
           [Row(i, din) EXCEPT !.addrs = [Row(i, din).addrs EXCEPT ![k] = b]]
<1> DEFINE M == MaxFile * BSize
           A == [din.addrs EXCEPT ![k] = b]
<1>1. din = [type |-> din.type, nlink |-> din.nlink, size |-> din.size, addrs |-> din.addrs]
  BY InodeIs
<1>2. Row(i, din).addrs = din.addrs
  BY RowIs
<1> HIDE DEF A, M
<1>3. [[din EXCEPT !.addrs = A] EXCEPT !.size = M] = [[din EXCEPT !.size = M] EXCEPT !.addrs = A]
  BY <1>1
<1>4. CASE i = Root
  BY <1>2, <1>3, <1>4 DEF Row, A, M
<1>5. CASE i # Root
  BY <1>5 DEF Row
<1> QED BY <1>4, <1>5

(* The rows with that of i.                                                *)
LEMMA RowsAre ==
  ASSUME NEW R, NEW i, NEW din, NEW st, AtDin(R, i, din, st)
  PROVE  /\ Rows(R, i, din) \in [Inums -> InodeSet] /\ Rows(R, i, din)[i] = Row(i, din)
         /\ \A j \in Inums : j # i => Rows(R, i, din)[j] = R[j]
         /\ \A j \in Inums : Rows(R, i, din)[j].type = R[j].type /\ Rows(R, i, din)[j].nlink = R[j].nlink
         /\ Rows(R, i, din)[i].addrs = din.addrs
<1>1. i \in Inums /\ R \in [Inums -> InodeSet] /\ din \in InodeSet /\ din.type = R[i].type /\ din.nlink = R[i].nlink
  BY DEF AtDin
<1>2. Row(i, din) \in InodeSet /\ Row(i, din).addrs = din.addrs
      /\ Row(i, din).type = din.type /\ Row(i, din).nlink = din.nlink
  BY <1>1, RowIs
<1>3. Rows(R, i, din) \in [Inums -> InodeSet] /\ Rows(R, i, din)[i] = Row(i, din)
      /\ \A j \in Inums : j # i => Rows(R, i, din)[j] = R[j]
  BY <1>1, <1>2 DEF Rows, With
<1> QED BY <1>1, <1>2, <1>3

(* An address of the inode, perhaps a new one.                             *)
LEMMA GivenAddress ==
  ASSUME NEW R, NEW i, NEW din, NEW st, AtDin(R, i, din, st), NEW k \in 0 .. NDirect,
         Given(st, din.addrs[k]).st.freeblock <= FSSize
  PROVE  LET g == Given(st, din.addrs[k])
             din2 == [din EXCEPT !.addrs = [din.addrs EXCEPT ![k] = g.a]]
         IN /\ Goes(R, i, din, st, din2, g.st) /\ din2.size = din.size
            /\ g.a \in DataBlocks /\ din2.addrs[k] = g.a
<1> DEFINE a == din.addrs[k]
           g == Given(st, a)
           din2 == [din EXCEPT !.addrs = [din.addrs EXCEPT ![k] = g.a]]
           G == Rows(R, i, din)
<1>1. i \in Inums /\ R \in [Inums -> InodeSet] /\ din \in InodeSet /\ din.type # "free"
      /\ din.type = R[i].type /\ din.nlink = R[i].nlink /\ Fresh(G, st)
  BY DEF AtDin
<1>2. IsBuild(st) /\ st.freeblock \in NMeta .. FSSize /\ Accounted(G, Img(st), {})
      /\ \A b \in st.freeblock .. (FSSize - 1) : st.img[b] = ZeroBlock
  BY <1>1 DEF Fresh
<1>3. /\ din = [type |-> din.type, nlink |-> din.nlink, size |-> din.size, addrs |-> din.addrs]
      /\ din.addrs \in [0 .. NDirect -> Links]
  BY <1>1, InodeIs
<1>4. a \in Links
  BY <1>3
<1>5. CASE a # 0
  <2>1. g.st = st /\ g.a = a
    BY <1>2, <1>5, GivenIs
  <2>2. [din.addrs EXCEPT ![k] = g.a] = din.addrs
    BY <1>3, <2>1
  <2>3. din2 = din
    BY <1>3, <2>2
  <2> QED BY <1>4, <1>5, <2>1, <2>3 DEF Goes, Kept, SameInodes, Links
<1>6. CASE a = 0
  <2>1. Later(st, g.st) /\ g.st.img = st.img /\ g.st.freeblock = st.freeblock + 1 /\ g.a = st.freeblock
        /\ Img(g.st) = [Img(st) EXCEPT ![BmapStart] = 0 .. st.freeblock]
    BY <1>2, <1>6, GivenIs
  <2>2. g.st.freeblock <= FSSize
    OBVIOUS
  <2> HIDE DEF g
  <2>3. g.a \in DataBlocks /\ g.a \in st.freeblock .. (FSSize - 1) /\ g.a # BmapStart
    BY <1>2, <2>1, <2>2, Sizes DEF DataBlocks
  <2>4. IsDisk(Img(st)) /\ Img(st)[BmapStart] = 0 .. (st.freeblock - 1) /\ Img(st)[g.a] = ZeroBlock
    BY <1>2, <2>3, ImgIs
  <2>5. Img(g.st) = Marking(Img(st), g.a)
    <3>1. 0 .. st.freeblock = (0 .. (st.freeblock - 1)) \cup {g.a}
      BY <1>2, <2>1, Sizes
    <3>2. Marking(Img(st), g.a) = [[Img(st) EXCEPT ![BmapStart] = Img(st)[BmapStart] \cup {g.a}] EXCEPT ![g.a] = ZeroBlock]
      BY DEF Marking
    <3> DEFINE bits == 0 .. st.freeblock
               d == Img(st)
    <3>3. d[BmapStart] \cup {g.a} = bits
      BY <2>4, <3>1
    <3> HIDE DEF bits, d
    <3>4. [[d EXCEPT ![BmapStart] = bits] EXCEPT ![g.a] = ZeroBlock] = [d EXCEPT ![BmapStart] = bits]
      BY <2>3, <2>4 DEF IsDisk, d
    <3> QED BY <2>1, <3>2, <3>3, <3>4 DEF bits, d
  <2>6. g.a \notin Img(st)[BmapStart]
    BY <1>2, <2>1, <2>4, Sizes
  <2>7. G[i].addrs = din.addrs /\ G[i].type # "free" /\ G \in [Inums -> InodeSet]
    BY <1>1, RowsAre
  <2> HIDE DEF G
  <2>8. Accounted(WithAddr(G, i, k, g.a), Img(g.st), {})
        /\ Gained(G, Img(st), WithAddr(G, i, k, g.a), Img(g.st), i, IF k = NDirect THEN MaxFile ELSE k, g.a)
    BY <1>1, <1>2, <1>6, <2>3, <2>4, <2>5, <2>6, <2>7, DirectAccounted
  <2>9. din2 \in InodeSet /\ din2.type = din.type /\ din2.nlink = din.nlink /\ din2.size = din.size
        /\ din2.addrs[k] = g.a
    <3> DEFINE A == [din.addrs EXCEPT ![k] = g.a]
    <3>1. A \in [0 .. NDirect -> Links] /\ A[k] = g.a
      BY <1>3, <2>3 DEF Links
    <3> HIDE DEF A
    <3> DEFINE new == [din EXCEPT !.addrs = A]
    <3>2. new \in InodeSet /\ new.addrs = A /\ new.type = din.type /\ new.nlink = din.nlink
          /\ new.size = din.size
      <4>1. din \in InodeSet
        BY <1>1
      <4>2. new = [type |-> din.type, nlink |-> din.nlink, size |-> din.size, addrs |-> A]
        BY <4>1, InodeIs
      <4> HIDE DEF new
      <4> QED BY <3>1, <4>1, <4>2, InodeIs DEF InodeSet
    <3>3. din2 = new
      BY DEF A
    <3> HIDE DEF new, A, din2
    <3> QED BY <3>1, <3>2, <3>3
  <2>10. WithAddr(G, i, k, g.a) = Rows(R, i, din2)
    <3>1. Row(i, din2) = [Row(i, din) EXCEPT !.addrs = [Row(i, din).addrs EXCEPT ![k] = g.a]]
      <4>1. i \in Inums /\ din \in InodeSet
        BY <1>1
      <4> HIDE DEF g
      <4> QED BY <4>1, RowAddrs
    <3>2. G[i] = Row(i, din)
      BY RowsAre DEF G
    <3>3. WithAddr(G, i, k, g.a) = [G EXCEPT ![i] = Row(i, din2)]
      BY <3>1, <3>2 DEF WithAddr
    <3> DEFINE r1 == Row(i, din)
               r2 == Row(i, din2)
    <3> HIDE DEF r1, r2, din2
    <3>4. [[R EXCEPT ![i] = r1] EXCEPT ![i] = r2] = [R EXCEPT ![i] = r2]
      BY <1>1
    <3> QED BY <3>3, <3>4 DEF r1, r2, G, Rows, With
  <2> HIDE DEF din2
  <2>11. Fresh(Rows(R, i, din2), g.st)
    <3>1. g.st.freeblock \in NMeta .. FSSize
      BY <1>2, <2>1, <2>2, Sizes
    <3>2. \A b \in g.st.freeblock .. (FSSize - 1) : g.st.img[b] = ZeroBlock
      BY <1>2, <2>1, Sizes
    <3> QED BY <2>1, <2>8, <2>10, <3>1, <3>2 DEF Fresh, Later
  <2>12. AtDin(R, i, din2, g.st)
    BY <1>1, <2>9, <2>11 DEF AtDin
  <2>13. Kept(G, Img(st), Rows(R, i, din2), Img(g.st))
    <3> DEFINE kk == IF k = NDirect THEN MaxFile ELSE k
    <3>1. Addr(G, Img(st), i, kk) = 0
      <4>1. CASE k = NDirect
        BY <1>6, <2>7, <4>1, AddrLast
      <4>2. CASE k # NDirect
        <5>1. k \in 0 .. (NDirect - 1)
          BY <4>2, Sizes
        <5> QED BY <1>6, <2>7, <4>2, <5>1, AddrDirect
      <4> QED BY <4>1, <4>2
    <3> QED BY <2>8, <2>10, <3>1 DEF Kept, Gained
  <2>14. SameInodes(Img(st), Img(g.st))
    BY <2>3, <2>4, <2>5, MarkingInodes
  <2> QED BY <2>3, <2>9, <2>12, <2>13, <2>14 DEF Goes, G, g, din2
<1> QED BY <1>5, <1>6

(* The first free block is next.                                           *)
LEMMA NextBlock ==
  ASSUME NEW fb \in NMeta .. FSSize, fb + 1 <= FSSize
  PROVE  /\ fb \in DataBlocks /\ fb \in fb .. (FSSize - 1) /\ fb # BmapStart /\ fb \notin 0 .. (fb - 1)
         /\ 0 .. fb = (0 .. (fb - 1)) \cup {fb} /\ fb + 1 \in NMeta .. FSSize
         /\ \A b \in (fb + 1) .. (FSSize - 1) : b \in fb .. (FSSize - 1) /\ b \notin 0 .. (fb - 1)
BY Sizes DEF DataBlocks

(* An entry of the indirect block, perhaps a new one; an old one is written*)
(* again as it was.                                                        *)
GivenAt(st, b, m) == Given(st, Address(st.img[b][m]))
EntrySet(g, b, m) == WithBlock(g.st, b, [g.st.img[b] EXCEPT ![m] = <<g.a>>])
EntryGoes(R, i, din, st, b, m, g) ==
  /\ Goes(R, i, din, st, din, EntrySet(g, b, m))
  /\ g.a \in DataBlocks /\ EntrySet(g, b, m).img[b][m] = <<g.a>>

(* iappend gives the entry of an indirect block the next block when it    *)
(* has none.                                                              *)
LEMMA GivenEntry ==
  ASSUME NEW R, NEW i, NEW din, NEW st, AtDin(R, i, din, st), NEW m \in 0 .. (BSize - 1),
         NEW ind, ind = din.addrs[NDirect], ind # 0, GivenAt(st, ind, m).st.freeblock <= FSSize
  PROVE  EntryGoes(R, i, din, st, ind, m, GivenAt(st, ind, m))
<1> DEFINE a == Address(st.img[ind][m])
           g == Given(st, a)
           data == [g.st.img[ind] EXCEPT ![m] = <<g.a>>]
           u == WithBlock(g.st, ind, data)
           G == Rows(R, i, din)
<1>1. i \in Inums /\ R \in [Inums -> InodeSet] /\ din \in InodeSet /\ din.type # "free"
      /\ din.type = R[i].type /\ din.nlink = R[i].nlink /\ Fresh(G, st)
  BY DEF AtDin
<1>2. IsBuild(st) /\ st.freeblock \in NMeta .. FSSize /\ Accounted(G, Img(st), {})
      /\ \A b \in st.freeblock .. (FSSize - 1) : st.img[b] = ZeroBlock
  BY <1>1 DEF Fresh
<1>3. G[i].addrs[NDirect] = ind
  BY RowsAre
<1>4. ind \in DataBlocks /\ ind # BmapStart
  <2>1. G[i].addrs[NDirect] \in Links
    BY <1>1, <1>2, AddrsAre DEF Accounted
  <2> QED BY <1>3, <2>1, Sizes DEF Links
<1>5. IsDisk(Img(st)) /\ Img(st)[BmapStart] = 0 .. (st.freeblock - 1)
      /\ \A b : b # BmapStart => Img(st)[b] = st.img[b]
  BY <1>2, ImgIs
<1>6. Img(st)[ind] = st.img[ind] /\ IsLink(st.img[ind][m]) /\ IsLine(st.img[ind])
  <2>1. IsLink(Img(st)[ind][m])
    BY <1>1, <1>2, <1>3 DEF Accounted, Linked
  <2>2. IsLine(Img(st)[ind])
    BY <1>2, <1>4 DEF Accounted, Shaped, IsLine
  <2> QED BY <1>4, <1>5, <2>1, <2>2
<1>7. Later(st, g.st) /\ g.st.img = st.img
  BY <1>2, GivenIs
<1>8. Later(g.st, u) /\ u.freeblock = g.st.freeblock /\ u.img = [g.st.img EXCEPT ![ind] = data]
      /\ Img(u) = [Img(g.st) EXCEPT ![ind] = data]
  <2>1. IsBuild(g.st)
    BY <1>7 DEF Later
  <2> HIDE DEF g, data
  <2>2. Sectored(g.st, WithBlock(g.st, ind, data), ind, data)
    BY <2>1, WithBlockIs
  <2> QED BY <1>4, <2>2 DEF Sectored
<1>9. g.st.freeblock <= FSSize
  BY DEF GivenAt
<1>10. data = [st.img[ind] EXCEPT ![m] = <<g.a>>] /\ data[m] = <<g.a>>
  BY <1>6, <1>7 DEF IsLine
<1>11. u.img[ind][m] = <<g.a>>
  <2>1. u.img[ind] = data
    <3>1. ind \in Blocks
      BY <1>4, Sizes
    <3>2. st.img = [b \in Blocks |-> st.img[b]]
      BY <1>2 DEF IsBuild, IsDisk
    <3> HIDE DEF data
    <3> QED BY <1>7, <1>8, <3>1, <3>2
  <2> QED BY <1>10, <2>1
<1>12. CASE a # 0
  <2>1. g.st = st /\ g.a = a
    <3> HIDE DEF a
    <3> QED BY <1>2, <1>12, GivenIs
  <2>2. st.img[ind][m] # Zero /\ a = st.img[ind][m][1]
    BY <1>12 DEF Address
  <2>3. a \in DataBlocks /\ st.img[ind][m] = <<a>>
    BY <1>6, <2>2 DEF IsLink
  <2> HIDE DEF a, g, u
  <2>4. data = st.img[ind]
    BY <1>6, <1>10, <2>1, <2>3 DEF IsLine
  <2> HIDE DEF data
  <2>5. Img(u) = Img(st)
    <3> DEFINE D == Img(st)
    <3>1. D = [b \in Blocks |-> D[b]] /\ D[ind] = data
      BY <1>5, <1>6, <2>4 DEF IsDisk
    <3>2. Img(u) = [D EXCEPT ![ind] = data]
      BY <1>8, <2>1
    <3> HIDE DEF D
    <3> QED BY <3>1, <3>2 DEF D
  <2>6. u.img = st.img
    BY <1>2, <1>8, <2>1, <2>4 DEF IsBuild, IsDisk
  <2>7. Fresh(G, u)
    BY <1>2, <1>8, <2>1, <2>5, <2>6 DEF Fresh, Later
  <2>8. AtDin(R, i, din, u)
    BY <1>1, <2>7 DEF AtDin
  <2>9. Goes(R, i, din, st, din, u)
    BY <2>5, <2>8 DEF Goes, Kept, SameInodes
  <2> QED BY <1>11, <2>1, <2>3, <2>9 DEF u, g, a, data, EntryGoes, EntrySet, GivenAt
<1>13. CASE a = 0
  <2>0. /\ g.st.freeblock = st.freeblock + 1 /\ g.a = st.freeblock
        /\ Img(g.st) = [Img(st) EXCEPT ![BmapStart] = 0 .. st.freeblock]
    BY <1>2, <1>13, GivenIs
  <2>1. st.img[ind][m] = Zero
    BY <1>6, <1>13, Sizes DEF Address, IsLink
  <2> HIDE DEF a, g, u, data
  <2>2. g.a \in DataBlocks /\ g.a \in st.freeblock .. (FSSize - 1) /\ g.a # BmapStart
        /\ g.a \notin Img(st)[BmapStart]
    BY <1>2, <1>5, <1>9, <2>0, NextBlock
  <2>3. Img(st)[g.a] = ZeroBlock
    BY <1>2, <1>5, <2>2
  <2>4. Img(g.st) = Marking(Img(st), g.a)
    <3>1. 0 .. st.freeblock = (0 .. (st.freeblock - 1)) \cup {g.a}
      BY <1>2, <1>9, <2>0, NextBlock
    <3>2. Marking(Img(st), g.a) = [[Img(st) EXCEPT ![BmapStart] = Img(st)[BmapStart] \cup {g.a}] EXCEPT ![g.a] = ZeroBlock]
      BY DEF Marking
    <3> DEFINE bits == 0 .. st.freeblock
               d == Img(st)
    <3>3. d[BmapStart] \cup {g.a} = bits
      BY <1>5, <3>1
    <3> HIDE DEF bits, d
    <3>4. [[d EXCEPT ![BmapStart] = bits] EXCEPT ![g.a] = ZeroBlock] = [d EXCEPT ![BmapStart] = bits]
      BY <1>5, <2>2, <2>3 DEF IsDisk, d
    <3> QED BY <2>0, <3>2, <3>3, <3>4 DEF bits, d
  <2>5. Img(u) = WithEntry(Img(st), ind, m, g.a)
    BY <1>6, <1>8, <1>10, <2>4 DEF WithEntry
  <2> HIDE DEF G
  <2>6. Accounted(G, Img(u), {}) /\ Gained(G, Img(st), G, Img(u), i, NDirect + m, g.a)
    <3>1. G[i].addrs[NDirect] # 0 /\ Img(st)[G[i].addrs[NDirect]][m] = Zero
      BY <1>3, <1>4, <1>6, <2>1, Sizes
    <3> QED BY <1>1, <1>2, <1>3, <1>5, <2>2, <2>5, <3>1, EntryAccounted
  <2>7. Fresh(G, u)
    <3>1. u.freeblock = st.freeblock + 1 /\ u.freeblock \in NMeta .. FSSize
      BY <1>2, <1>8, <1>9, <2>0, Sizes
    <3>2. ASSUME NEW b \in u.freeblock .. (FSSize - 1) PROVE u.img[b] = ZeroBlock
      <4>1. b \in st.freeblock .. (FSSize - 1) /\ b \notin 0 .. (st.freeblock - 1)
        BY <1>2, <3>1, <3>2, Sizes
      <4>1a. ind \in Img(st)[BmapStart]
        <5>1. Addr(G, Img(st), i, MaxFile) = ind /\ MaxFile \in 0 .. MaxFile
          BY <1>3, AddrLast
        <5>2. Holds(G, Img(st), ind) /\ ind \in Blocks
          BY <1>1, <1>4, <5>1, Sizes DEF Holds
        <5> QED BY <1>2, <5>2 DEF Accounted, Marked
      <4>2. b # ind
        BY <1>5, <4>1, <4>1a
      <4> QED BY <1>2, <1>7, <1>8, <4>1, <4>2 DEF IsBuild, IsDisk
    <3> QED BY <1>8, <2>6, <3>1, <3>2 DEF Fresh, Later
  <2>8. AtDin(R, i, din, u)
    BY <1>1, <2>7 DEF AtDin, G
  <2>9. Kept(G, Img(st), G, Img(u))
    <3>1. Addr(G, Img(st), i, NDirect + m) = 0
      <4>1. G[i].addrs[NDirect] # 0 /\ Img(st)[G[i].addrs[NDirect]][m] = Zero
        BY <1>3, <1>4, <1>6, <2>1, Sizes
      <4> QED BY <4>1, AddrEntry DEF Address
    <3> QED BY <2>6, <3>1 DEF Kept, Gained
  <2>10. SameInodes(Img(st), Img(u))
    <3>1. SameInodes(Img(st), Marking(Img(st), g.a)) /\ IsDisk(Marking(Img(st), g.a))
      BY <1>5, <2>2, MarkingInodes, MarkingIs
    <3>2. SameInodes(Marking(Img(st), g.a), Img(u))
      BY <1>4, <1>8, <2>4, <3>1, PokedInodes
    <3> QED BY <3>1, <3>2 DEF SameInodes
  <2>11. Goes(R, i, din, st, din, u)
    BY <2>8, <2>9, <2>10 DEF Goes, G
  <2> QED BY <1>11, <2>2, <2>11 DEF u, g, a, data, EntryGoes, EntrySet, GivenAt
<1> QED BY <1>12, <1>13

(* What happens one after the other.                                       *)
LEMMA LaterTwice ==
  ASSUME NEW st, NEW u, NEW t, Later(st, u), Later(u, t), IsBuild(st)
  PROVE  Later(st, t)
BY DEF Later, IsBuild

(* Two steps of a build are one.                                          *)
LEMMA GoesTwice ==
  ASSUME NEW R, NEW i, NEW din, NEW st, NEW din2, NEW st2, NEW din3, NEW st3,
         Goes(R, i, din, st, din2, st2), Goes(R, i, din2, st2, din3, st3)
  PROVE  Goes(R, i, din, st, din3, st3)
<1>1. SameInodes(Img(st), Img(st3))
  BY DEF Goes, SameInodes
<1>2. Kept(Rows(R, i, din), Img(st), Rows(R, i, din3), Img(st3))
  BY DEF Goes, Kept
<1> QED BY <1>1, <1>2 DEF Goes

(* The two forms of iappend's block, direct and indirect.                  *)
DirectBlock(st, din, k) ==
  LET g == Given(st, din.addrs[k])
  IN [st |-> g.st, din |-> [din EXCEPT !.addrs = [din.addrs EXCEPT ![k] = g.a]], x |-> g.a]
EntryBlock(ind, m) ==
  LET g == GivenAt(ind.st, ind.x, m)
  IN [st |-> EntrySet(g, ind.x, m), din |-> ind.din, x |-> g.a]

(* iappend finds its block in a direct address or in an entry of the      *)
(* indirect block.                                                        *)
LEMMA BlockAtForms ==
  ASSUME NEW st, NEW din
  PROVE  BlockAt(st, din) =
           IF din.size \div BSize < NDirect THEN DirectBlock(st, din, din.size \div BSize)
           ELSE EntryBlock(DirectBlock(st, din, NDirect), (din.size \div BSize) - NDirect)
BY DEF BlockAt, DirectBlock, EntryBlock, WithBlock, GivenAt, EntrySet

(* A direct address may take the next block, and never gives one back.    *)
LEMMA DirectBuilds ==
  ASSUME NEW st, IsBuild(st), NEW din, NEW k
  PROVE  Later(st, DirectBlock(st, din, k).st)
<1> DEFINE g == Given(st, din.addrs[k])
<1>1. Later(st, g.st)
  BY GivenIs
<1>2. DirectBlock(st, din, k).st = g.st
  BY DEF DirectBlock
<1> QED BY <1>1, <1>2

(* A write of the entry of the indirect block keeps what was handed out.  *)
LEMMA EntrySetBuilds ==
  ASSUME NEW st, IsBuild(st), NEW b, NEW m
  PROVE  LET g == GivenAt(st, b, m)
             u == EntrySet(g, b, m)
         IN Later(st, g.st) /\ Later(st, u) /\ u.freeblock = g.st.freeblock
<1> DEFINE a == Address(st.img[b][m])
           g == GivenAt(st, b, m)
           data == [g.st.img[b] EXCEPT ![m] = <<g.a>>]
<1> HIDE DEF a
<1>1. g = Given(st, a)
  BY DEF GivenAt, a
<1>2. Later(st, g.st)
  <2>1. Later(st, Given(st, a).st)
    BY GivenIs
  <2> QED BY <1>1, <2>1
<1>3. IsBuild(g.st)
  BY <1>2 DEF Later
<1>4. EntrySet(g, b, m) = WithBlock(g.st, b, data)
  BY DEF EntrySet
<1> HIDE DEF g, data
<1>5. Sectored(g.st, WithBlock(g.st, b, data), b, data)
  BY <1>3, WithBlockIs
<1>6. Later(st, EntrySet(g, b, m)) /\ EntrySet(g, b, m).freeblock = g.st.freeblock
  BY <1>2, <1>4, <1>5, LaterTwice DEF Sectored
<1> QED BY <1>2, <1>6 DEF g

(* An entry of the indirect block may take the next block, and never      *)
(* gives one back.                                                        *)
LEMMA EntryBuilds ==
  ASSUME NEW ind, IsBuild(ind.st), NEW m
  PROVE  Later(ind.st, EntryBlock(ind, m).st)
<1> DEFINE g == GivenAt(ind.st, ind.x, m)
<1>1. Later(ind.st, EntrySet(g, ind.x, m))
  BY EntrySetBuilds
<1>2. EntryBlock(ind, m).st = EntrySet(g, ind.x, m)
  BY DEF EntryBlock
<1> QED BY <1>1, <1>2

(* The block iappend writes to may be the next one, and none is given     *)
(* back.                                                                  *)
LEMMA BlockAtBuilds ==
  ASSUME NEW st, IsBuild(st), NEW din
  PROVE  Later(st, BlockAt(st, din).st)
<1> DEFINE k == din.size \div BSize
           ind == DirectBlock(st, din, NDirect)
<1> HIDE DEF k
<1>1. Later(st, DirectBlock(st, din, k).st)
  BY DirectBuilds
<1>2. Later(st, ind.st)
  BY DirectBuilds
<1> HIDE DEF ind
<1>3. Later(ind.st, EntryBlock(ind, k - NDirect).st)
  <2>1. IsBuild(ind.st)
    BY <1>2 DEF Later
  <2> QED BY <2>1, EntryBuilds
<1>4. Later(st, EntryBlock(ind, k - NDirect).st)
  BY <1>2, <1>3, LaterTwice
<1>5. BlockAt(st, din) = IF k < NDirect THEN DirectBlock(st, din, k) ELSE EntryBlock(ind, k - NDirect)
  BY BlockAtForms DEF k, ind
<1> QED BY <1>1, <1>4, <1>5

(* The block for the words at the end of an inode.                         *)
Extended(R, i, din, st, b) ==
  /\ Goes(R, i, din, st, b.din, b.st) /\ b.din.size = din.size /\ b.x \in DataBlocks
  /\ b.x = Addr(Rows(R, i, b.din), Img(b.st), i, din.size \div BSize)

(* iappend gives a direct address the next block when it has none.        *)
LEMMA DirectExtends ==
  ASSUME NEW R, NEW i, NEW din, NEW st, AtDin(R, i, din, st), NEW k \in 0 .. NDirect,
         DirectBlock(st, din, k).st.freeblock <= FSSize
  PROVE  LET b == DirectBlock(st, din, k)
         IN /\ Goes(R, i, din, st, b.din, b.st) /\ b.din.size = din.size /\ b.x \in DataBlocks
            /\ b.din.addrs[k] = b.x
<1> DEFINE g == Given(st, din.addrs[k])
           b == DirectBlock(st, din, k)
           din2 == [din EXCEPT !.addrs = [din.addrs EXCEPT ![k] = g.a]]
<1>1. b = [st |-> g.st, din |-> din2, x |-> g.a]
  BY DEF DirectBlock
<1> HIDE DEF b, din2
<1>2. b.st = g.st /\ b.din = din2 /\ b.x = g.a
  BY <1>1
<1>3. g.st.freeblock <= FSSize
  BY <1>2 DEF b
<1>4. Goes(R, i, din, st, din2, g.st) /\ din2.size = din.size /\ g.a \in DataBlocks /\ din2.addrs[k] = g.a
  BY <1>3, GivenAddress DEF din2
<1> QED BY <1>2, <1>4 DEF b

(* The block that iappend writes to is the inode's own.                   *)
LEMMA BlockAtExtends ==
  ASSUME NEW R, NEW i, NEW din, NEW st, AtDin(R, i, din, st), din.size < MaxFile * BSize,
         BlockAt(st, din).st.freeblock <= FSSize
  PROVE  Extended(R, i, din, st, BlockAt(st, din))
<1> DEFINE k == din.size \div BSize
           b == BlockAt(st, din)
<1>1. k \in 0 .. (MaxFile - 1)
  <2> DEFINE M == MaxFile * BSize
  <2>1. din.size \in 0 .. M /\ M \in Nat
    BY Sizes DEF AtDin, InodeSet
  <2>2. din.size < M
    OBVIOUS
  <2> HIDE DEF M
  <2>3. din.size \in 0 .. (M - 1)
    BY <2>1, <2>2
  <2> QED BY <2>3, LineOf DEF M
<1> HIDE DEF k
<1>2. b = IF k < NDirect THEN DirectBlock(st, din, k) ELSE EntryBlock(DirectBlock(st, din, NDirect), k - NDirect)
  BY BlockAtForms DEF k
<1>3. i \in Inums /\ IsBuild(st)
  BY DEF AtDin, Fresh
<1>4. CASE k < NDirect
  <2>1. b = DirectBlock(st, din, k) /\ k \in 0 .. NDirect /\ k \in 0 .. (NDirect - 1)
    BY <1>1, <1>2, <1>4, Sizes
  <2>2. Goes(R, i, din, st, b.din, b.st) /\ b.din.size = din.size /\ b.x \in DataBlocks /\ b.din.addrs[k] = b.x
    BY <2>1, DirectExtends
  <2>3. Rows(R, i, b.din)[i].addrs = b.din.addrs
    BY <2>2, RowsAre DEF Goes
  <2> HIDE DEF b
  <2>4. Addr(Rows(R, i, b.din), Img(b.st), i, k) = b.x
    BY <2>1, <2>2, <2>3, AddrDirect
  <2> QED BY <2>2, <2>4 DEF Extended, k, b
<1>5. CASE ~ (k < NDirect)
  <2> DEFINE ind == DirectBlock(st, din, NDirect)
             m == k - NDirect
             g == GivenAt(ind.st, ind.x, m)
             u == EntrySet(g, ind.x, m)
  <2>1. b = EntryBlock(ind, m)
    BY <1>2, <1>5
  <2>2. m \in 0 .. (BSize - 1) /\ NDirect \in 0 .. NDirect /\ k = NDirect + m
    BY <1>1, <1>5, Sizes
  <2>3. Later(st, ind.st)
    BY <1>3, DirectBuilds
  <2>4. Later(ind.st, b.st)
    <3> HIDE DEF ind, m
    <3>1. IsBuild(ind.st)
      BY <2>3 DEF Later
    <3> QED BY <2>1, <3>1, EntryBuilds
  <2>5. ind.st.freeblock <= FSSize
    <3>1. ind.st.freeblock \in Nat /\ b.st.freeblock \in Nat /\ b.st.freeblock >= ind.st.freeblock
      BY <2>3, <2>4 DEF Later, IsBuild
    <3> QED BY <3>1, Sizes
  <2>6. Goes(R, i, din, st, ind.din, ind.st) /\ ind.din.size = din.size /\ ind.x \in DataBlocks
        /\ ind.din.addrs[NDirect] = ind.x
    BY <2>2, <2>5, DirectExtends
  <2>7. b.st = u /\ b.din = ind.din /\ b.x = g.a
    <3> HIDE DEF b, ind, m
    <3>1. b = [st |-> u, din |-> ind.din, x |-> g.a]
      BY <2>1 DEF EntryBlock
    <3> HIDE DEF u, g
    <3> QED BY <3>1
  <2> HIDE DEF ind, m, b
  <2>8. AtDin(R, i, ind.din, ind.st) /\ ind.x # 0
    BY <2>6, Sizes DEF Goes
  <2>9. g.st.freeblock <= FSSize
    <3>0. IsBuild(ind.st)
      BY <2>3 DEF Later
    <3>3. u.freeblock = g.st.freeblock
      BY <3>0, EntrySetBuilds
    <3>4. b.st.freeblock <= FSSize
      BY DEF b
    <3> HIDE DEF u, g
    <3> QED BY <2>7, <3>3, <3>4
  <2>10. Goes(R, i, ind.din, ind.st, ind.din, u) /\ g.a \in DataBlocks /\ u.img[ind.x][m] = <<g.a>>
    <3> HIDE DEF u
    <3>1. EntryGoes(R, i, ind.din, ind.st, ind.x, m, g)
      <4>1. g.st.freeblock <= FSSize /\ ind.x = ind.din.addrs[NDirect]
        BY <2>6, <2>9
      <4> QED BY <2>2, <2>8, <4>1, GivenEntry
    <3> HIDE DEF g
    <3> QED BY <3>1 DEF EntryGoes, u
  <2> HIDE DEF u, g
  <2>11. Goes(R, i, din, st, b.din, b.st)
    BY <2>6, <2>7, <2>10, GoesTwice
  <2>12. Addr(Rows(R, i, b.din), Img(b.st), i, k) = b.x
    <3>1. AtDin(R, i, b.din, b.st)
      BY <2>11 DEF Goes
    <3>2. Rows(R, i, b.din)[i].addrs = b.din.addrs
      BY <3>1, RowsAre
    <3>3. ind.x # BmapStart
      BY <2>6, Sizes
    <3>4. Img(b.st)[ind.x] = b.st.img[ind.x]
      BY <3>1, <3>3, ImgIs DEF AtDin, Fresh
    <3>5. Address(Img(b.st)[ind.x][m]) = g.a
      <4>1. Img(b.st)[ind.x][m] = <<g.a>>
        BY <2>7, <2>10, <3>4
      <4>2. <<g.a>> # <<>> /\ <<g.a>>[1] = g.a
        BY SMT
      <4> QED BY <4>1, <4>2 DEF Address, Zero
    <3> QED BY <2>2, <2>6, <2>7, <2>8, <3>2, <3>5, AddrEntry
  <2> QED BY <2>6, <2>7, <2>10, <2>11, <2>12 DEF Extended, k, b
<1> QED BY <1>4, <1>5

-----------------------------------------------------------------------------
(* The size of a row changes; that of the root's does not matter.          *)
LEMMA RowSize ==
  ASSUME NEW i \in Inums, NEW din \in InodeSet, NEW n \in 0 .. (MaxFile * BSize)
  PROVE  /\ [din EXCEPT !.size = n] \in InodeSet /\ [din EXCEPT !.size = n].size = n
         /\ [din EXCEPT !.size = n].type = din.type /\ [din EXCEPT !.size = n].nlink = din.nlink
         /\ [din EXCEPT !.size = n].addrs = din.addrs
         /\ i = Root => Row(i, [din EXCEPT !.size = n]) = Row(i, din)
<1> DEFINE M == MaxFile * BSize
<1>1. din = [type |-> din.type, nlink |-> din.nlink, size |-> din.size, addrs |-> din.addrs]
  BY InodeIs
<1>2. InodeSet = [type : {"free", "file", "dir"}, nlink : Nat, size : 0 .. M, addrs : [0 .. NDirect -> Links]]
  BY DEF InodeSet
<1> HIDE DEF M
<1>3. [din EXCEPT !.size = n] \in InodeSet
  BY <1>2 DEF M
<1>4. [[din EXCEPT !.size = n] EXCEPT !.size = M] = [din EXCEPT !.size = M]
  BY <1>1
<1>5. i = Root => Row(i, [din EXCEPT !.size = n]) = Row(i, din)
  BY <1>4 DEF Row, M
<1> QED BY <1>1, <1>3, <1>5

(* iappend, in a loop: words that are left for the end of inode i.         *)
Appending(R, i, T, S, st, s) ==
  /\ AtDin(R, i, s.din, s.st) /\ SameInodes(Img(st), Img(s.st))
  /\ s.words \in Seq(S) /\ s.din.size + Len(s.words) = T
Appendable(R, i, T, S) ==
  T \in 0 .. (MaxFile * BSize) /\ (i = Root => \A word \in S : IsEntry(R, {}, word))

(* The words go into the block, and no other block is written.             *)
LEMMA TurnAppends ==
  ASSUME NEW R, NEW i, NEW T, NEW S, NEW st, NEW s, Appendable(R, i, T, S),
         Appending(R, i, T, S, st, s), s.words # <<>>, BlockAt(s.st, s.din).st.freeblock <= FSSize
  PROVE  Appending(R, i, T, S, st, AppendBlock(s))
<1> DEFINE M == MaxFile * BSize
           n == Len(s.words)
           size == s.din.size
           b == BlockAt(s.st, s.din)
           at == size % BSize
           L == size \div BSize
           k == Min({n, BSize - at})
           d == Img(b.st)
           F == Rows(R, i, b.din)
           old == b.st.img[b.x]
           data == Overlaid(old, at, k, s.words)
           st2 == WithBlock(b.st, b.x, data)
           din2 == [b.din EXCEPT !.size = b.din.size + k]
           u == AppendBlock(s)
<1>1. s.words \in Seq(S) /\ n \in Nat \ {0} /\ M \in Nat /\ T \in 0 .. M /\ size + n = T /\ size \in 0 .. M
  <2>1. s.words \in Seq(S) /\ size + n = T /\ s.din \in InodeSet
    BY DEF Appending, AtDin
  <2>2. n \in Nat \ {0}
    BY <2>1, EmptySeq, LenProperties
  <2>3. size \in 0 .. M
    BY <2>1 DEF InodeSet
  <2> HIDE DEF n, size
  <2> QED BY <2>1, <2>2, <2>3, Sizes DEF Appendable
<1>2. size \in 0 .. (M - 1) /\ size < M
  <2> HIDE DEF n, size, M
  <2> QED BY <1>1
<1>3. /\ L \in 0 .. (MaxFile - 1) /\ at \in 0 .. (BSize - 1) /\ size = L * BSize + at
      /\ BSize \in Nat \ {0}
  <2> HIDE DEF size
  <2> QED BY <1>2, LineOf, Sizes
<1>4. k \in 1 .. n /\ at + k <= BSize
  <2>1. size \in 0 .. (M - 1) /\ n \in Nat \ {0}
    BY <1>1, <1>2
  <2> HIDE DEF n, size
  <2> QED BY <2>1, InLine
<1>5. AtDin(R, i, s.din, s.st)
  BY DEF Appending
<1>6. Extended(R, i, s.din, s.st, b)
  BY <1>2, <1>5, BlockAtExtends
<1> HIDE DEF b
<1>7. /\ AtDin(R, i, b.din, b.st) /\ SameInodes(Img(s.st), d) /\ b.din.size = size
      /\ b.x \in DataBlocks /\ b.x = Addr(F, d, i, L)
      /\ Kept(Rows(R, i, s.din), Img(s.st), F, d)
  BY <1>6 DEF Extended, Goes
<1>8. /\ i \in Inums /\ R \in [Inums -> InodeSet] /\ b.din \in InodeSet /\ b.din.type # "free"
      /\ b.din.type = R[i].type /\ b.din.nlink = R[i].nlink
      /\ IsBuild(b.st) /\ b.st.freeblock \in NMeta .. FSSize /\ Accounted(F, d, {})
      /\ \A c \in b.st.freeblock .. (FSSize - 1) : b.st.img[c] = ZeroBlock
  BY <1>7 DEF AtDin, Fresh
<1>9. u = [st |-> st2, din |-> din2, words |-> SubSeq(s.words, k + 1, n)]
  BY DEF AppendBlock, WithBlock, Overlaid, b
<1> HIDE DEF k, L, at, n, u
<1>10. IsDisk(d) /\ old = d[b.x] /\ b.x # BmapStart /\ b.x # 0 /\ d[BmapStart] = 0 .. (b.st.freeblock - 1)
  BY <1>7, <1>8, ImgIs, Sizes
<1>11. IsLine(d[b.x])
  BY <1>7, <1>8 DEF Accounted, Shaped, IsLine
<1>12. /\ IsLine(data)
       /\ \A q \in 0 .. (BSize - 1) : data[q] = IF q \in at .. (at + k - 1) THEN s.words[q - at + 1] ELSE d[b.x][q]
  <2> HIDE DEF old
  <2> QED BY <1>10, <1>11, OverlaidIs
<1> HIDE DEF old, data, F, d
<1>13. Pokable(F, d, {}, i, L, b.x, data)
  <2>1. ASSUME i = Root, NEW q \in 0 .. (BSize - 1) PROVE data[q] = d[b.x][q] \/ IsEntry(F, {}, data[q])
    <3>1. CASE q \in at .. (at + k - 1)
      <4>1. data[q] = s.words[q - at + 1] /\ q - at + 1 \in 1 .. n
        BY <1>1, <1>3, <1>4, <1>12, <3>1
      <4>2. data[q] \in S
        BY <1>1, <4>1, ElementOfSeq DEF n
      <4>3. IsEntry(R, {}, data[q])
        BY <2>1, <4>2 DEF Appendable
      <4>4. \A j \in Inums : F[j].type = R[j].type /\ F[j].nlink = R[j].nlink
        BY <1>7, RowsAre DEF F
      <4> QED BY <4>3, <4>4 DEF IsEntry
    <3>2. CASE ~ (q \in at .. (at + k - 1))
      BY <1>12, <3>2
    <3> QED BY <3>1, <3>2
  <2> QED BY <1>7, <1>10, <1>12, <2>1 DEF Pokable
<1> DEFINE d2 == [d EXCEPT ![b.x] = data]
<1>14. Accounted(F, d2, {}) /\ \A j \in Inums, l \in 0 .. MaxFile : Addr(F, d2, j, l) = Addr(F, d, j, l)
  <2>1. StillAccounted(F, d, d2, {})
    BY <1>3, <1>8, <1>10, <1>13, PokedAccounted
  <2> QED BY <2>1 DEF StillAccounted
<1>15. Sectored(b.st, st2, b.x, data)
  BY <1>8, WithBlockIs
<1> HIDE DEF st2
<1>16. /\ IsBuild(st2) /\ st2.freeblock = b.st.freeblock /\ st2.img = [b.st.img EXCEPT ![b.x] = data]
       /\ Img(st2) = d2
  BY <1>10, <1>15 DEF Sectored, Later, d
<1>17. \A c \in st2.freeblock .. (FSSize - 1) : st2.img[c] = ZeroBlock
  <2> TAKE c \in st2.freeblock .. (FSSize - 1)
  <2>1. c \in b.st.freeblock .. (FSSize - 1) /\ c \notin 0 .. (b.st.freeblock - 1)
    BY <1>8, <1>16, Sizes
  <2>2. b.x \in d[BmapStart]
    <3>1. L \in 0 .. MaxFile
      BY <1>3, Sizes
    <3>2. Holds(F, d, b.x) /\ b.x \in Blocks
      BY <1>7, <1>8, <3>1, Sizes DEF Holds
    <3> QED BY <1>8, <3>2 DEF Accounted, Marked
  <2>3. c # b.x
    BY <1>10, <2>1, <2>2
  <2>3a. c \in Blocks
    <3>1. b.st.freeblock \in Nat
      BY <1>8 DEF IsBuild
    <3> QED BY <2>1, <3>1 DEF Blocks
  <2>4. DOMAIN b.st.img = Blocks
    BY <1>8 DEF IsBuild, IsDisk
  <2>5. st2.img[c] = b.st.img[c]
    BY <1>16, <2>3, <2>3a, <2>4
  <2> QED BY <1>8, <2>1, <2>5
<1> DEFINE size2 == size + k
<1>18. size2 \in 0 .. M /\ size2 + (n - k) = T
  <2> HIDE DEF M, size
  <2> QED BY <1>1, <1>2, <1>4
<1>19. din2 = [b.din EXCEPT !.size = size2]
  BY <1>7
<1> HIDE DEF din2, size2
<1>20. din2 \in InodeSet /\ din2.size = size2 /\ din2.type = b.din.type /\ din2.nlink = b.din.nlink
       /\ (i = Root => Row(i, din2) = Row(i, b.din))
  BY <1>8, <1>18, <1>19, RowSize
<1>21. Accounted(Rows(R, i, din2), d2, {})
  <2>1. CASE i = Root
    BY <1>14, <1>20, <2>1 DEF Rows, F
  <2>2. CASE i # Root
    <3>1. ASSUME NEW l \in 0 .. (MaxFile - 1), l * BSize < size2 PROVE Addr(F, d2, i, l) # 0
      <4>0. l \in 0 .. MaxFile
        BY Sizes
      <4>1. CASE l * BSize < size
        <5>1. Gapless(F, d, i, F[i].size)
          BY <1>8, <2>2 DEF Accounted, Files
        <5>2. F[i].size = size
          <6>1. F[i] = Row(i, b.din)
            BY <1>7, RowsAre DEF F
          <6> QED BY <1>7, <1>8, <2>2, <6>1, RowIs
        <5> QED BY <1>8, <1>14, <4>0, <4>1, <5>1, <5>2 DEF Gapless
      <4>2. CASE ~ (l * BSize < size)
        <5>1. l \in Int /\ L \in Int /\ l * BSize \in Nat /\ L * BSize \in Nat
          BY <1>3, Sizes
        <5> DEFINE p == l * BSize
                   q == L * BSize
        <5>2. p \in Nat /\ q \in Nat /\ size = q + at /\ ~ (p < size) /\ p < size + k
          BY <1>3, <3>1, <4>2, <5>1 DEF size2
        <5>3. ~ (l < L)
          <6>1. l < L => p < q
            BY <1>3, <5>1
          <6> HIDE DEF p, q, size
          <6>2. ~ (p < q)
            BY <1>3, <5>2
          <6> QED BY <6>1, <6>2
        <5>4. ~ (L < l)
          <6>1. L < l => q + BSize <= p
            <7>1. L < l => L * BSize < l * BSize
              BY <1>3, <5>1
            <7> QED BY <1>3, <5>1, <7>1, Apart
          <6> HIDE DEF p, q, size
          <6>2. ~ (q + BSize <= p)
            <7>1. k \in Nat /\ at \in Nat /\ BSize \in Nat /\ at + k <= BSize
              BY <1>1, <1>3, <1>4
            <7> QED BY <5>2, <7>1
          <6> QED BY <6>1, <6>2
        <5>5. l = L
          BY <5>1, <5>3, <5>4
        <5> QED BY <1>7, <1>8, <1>10, <1>14, <4>0, <5>5
      <4> QED BY <4>1, <4>2
    <3>2. Gapless(F, d2, i, size2)
      BY <3>1 DEF Gapless
    <3>3. F[i] = b.din
      <4>1. F[i] = Row(i, b.din)
        BY <1>7, RowsAre DEF F
      <4> QED BY <1>8, <2>2, <4>1, RowIs
    <3>4. Accounted(With(F, i, [F[i] EXCEPT !.size = size2]), d2, {})
      BY <1>8, <1>14, <1>18, <2>2, <3>2, <3>3, ResizedAccounted
    <3>5. With(F, i, [F[i] EXCEPT !.size = size2]) = Rows(R, i, din2)
      <4>1. Row(i, din2) = din2
        BY <1>8, <1>20, <2>2, RowIs
      <4>2. [[R EXCEPT ![i] = Row(i, b.din)] EXCEPT ![i] = din2] = [R EXCEPT ![i] = din2]
        BY <1>8
      <4> QED BY <1>19, <3>3, <4>1, <4>2 DEF With, Rows, F
    <3> QED BY <3>4, <3>5
  <2> QED BY <2>1, <2>2
<1>22. AtDin(R, i, din2, st2)
  BY <1>8, <1>16, <1>17, <1>20, <1>21 DEF AtDin, Fresh
<1>23. SameInodes(Img(st), Img(st2))
  <2>1. SameInodes(d, d2)
    BY <1>7, <1>10, PokedInodes
  <2> QED BY <1>7, <1>16, <2>1 DEF SameInodes, Appending
<1>24. SubSeq(s.words, k + 1, n) \in Seq(S) /\ Len(SubSeq(s.words, k + 1, n)) = n - k
  <2>1. k + 1 \in 1 .. Len(s.words) + 1 /\ n \in (k + 1) - 1 .. Len(s.words)
    BY <1>1, <1>4 DEF n
  <2>2. SubSeq(s.words, k + 1, n) \in Seq(S)
        /\ Len(SubSeq(s.words, k + 1, n)) = IF k + 1 <= n THEN n - (k + 1) + 1 ELSE 0
    BY <1>1, <2>1, SubSeqProperties
  <2> QED BY <1>1, <1>4, <2>2
<1>25. u.st = st2 /\ u.din = din2 /\ u.words = SubSeq(s.words, k + 1, n)
  BY <1>9
<1> QED BY <1>18, <1>20, <1>22, <1>23, <1>24, <1>25 DEF Appending, u

(* The turns of the loop of iappend.*)
AppendTurns(f, t, n) ==
  /\ f[0] = t
  /\ \A k \in 0 .. (n - 1) : f[k + 1] = AppendBlock(f[k])

(* iappend as a loop, turn by turn: a word each.                          *)
LEMMA IappendTurns ==
  ASSUME NEW st, NEW inum, NEW words, NEW n \in Nat, n = Len(words), NEW t,
         t = [st |-> st, din |-> Rinode(st, inum), words |-> words]
  PROVE  \E f : Iappend(st, inum, words) = Winode(f[n].st, inum, f[n].din) /\ AppendTurns(f, t, n)
<1> DEFINE After(u, k) == AppendBlock(u)
           Is(g, m) == g = [k \in 0 .. m |-> IF k = 0 THEN t ELSE After(g[k - 1], k)]
           D == {m \in Nat : \E g : Is(g, m)}
           f == CHOOSE g : Is(g, n)
<1>1. Iappend(st, inum, words) = Winode(f[n].st, inum, f[n].din)
  BY DEF Iappend, After
<1>2. \A u : \A k \in 0 .. (n - 1) : After(u, k + 1) = AppendBlock(u)
  OBVIOUS
<1> HIDE DEF After
<1>3. 0 \in D
  <2> DEFINE g == [k \in 0 .. 0 |-> t]
  <2>1. Is(g, 0)
    OBVIOUS
  <2> QED BY <2>1
<1>4. ASSUME NEW m \in D PROVE m + 1 \in D
  <2>1. PICK g : Is(g, m)
    BY <1>4
  <2> DEFINE h == [k \in 0 .. (m + 1) |-> IF k = m + 1 THEN After(g[m], k) ELSE g[k]]
  <2>2. ASSUME NEW k \in 0 .. (m + 1)
        PROVE  h[k] = IF k = 0 THEN t ELSE After(h[k - 1], k)
    <3>1. CASE k = m + 1
      BY <3>1
    <3>2. CASE k # m + 1
      <4>1. k \in 0 .. m /\ h[k] = g[k]
        BY <3>2
      <4>2. g[k] = IF k = 0 THEN t ELSE After(g[k - 1], k)
        BY <2>1, <4>1
      <4>3. k # 0 => h[k - 1] = g[k - 1]
        BY <4>1
      <4> QED BY <4>1, <4>2, <4>3
    <3> QED BY <3>1, <3>2
  <2>3. Is(h, m + 1)
    BY <2>2
  <2> HIDE DEF h, Is
  <2> QED BY <2>3
<1>5. D = Nat
  <2> HIDE DEF D
  <2>1. D \in SUBSET Nat
    BY DEF D
  <2> QED BY <1>3, <1>4, <2>1, Closed
<1>6. Is(f, n)
  <2>1. \E g : Is(g, n)
    BY <1>5
  <2> HIDE DEF Is
  <2> QED BY <2>1
<1> HIDE DEF f
<1>7. f[0] = t
  BY <1>6
<1>8. ASSUME NEW k \in 0 .. (n - 1) PROVE f[k + 1] = After(f[k], k + 1)
  <2>1. k + 1 \in 0 .. n /\ k + 1 # 0 /\ (k + 1) - 1 = k
    OBVIOUS
  <2>2. f[k + 1] = IF k + 1 = 0 THEN t ELSE After(f[(k + 1) - 1], k + 1)
    BY <1>6, <2>1
  <2> QED BY <2>1, <2>2
<1>9. \A k \in 0 .. (n - 1) : f[k + 1] = AppendBlock(f[k])
  BY <1>2, <1>8
<1> QED BY <1>1, <1>7, <1>9 DEF AppendTurns


(* The files of the command line, one after the other.*)
BuildTurns(f, files, n) ==
  /\ f[0] = RootOnly
  /\ \A k \in 0 .. (n - 1) : f[k + 1] = AddFile(f[k], files[k + 1])

(* main of mkfs as a loop, turn by turn: a file of the command line       *)
(* each.                                                                  *)
LEMMA BuiltTurns ==
  ASSUME NEW files, NEW n \in Nat, n = Len(files)
  PROVE  \E f : Built(files) = RoundRoot(f[n]) /\ BuildTurns(f, files, n)
<1> DEFINE t == RootOnly
           After(u, k) == AddFile(u, files[k])
           Is(g, m) == g = [k \in 0 .. m |-> IF k = 0 THEN t ELSE After(g[k - 1], k)]
           D == {m \in Nat : \E g : Is(g, m)}
           f == CHOOSE g : Is(g, n)
<1>1. Built(files) = RoundRoot(f[n])
  BY DEF Built, After
<1>2. \A u : \A k \in 0 .. (n - 1) : After(u, k + 1) = AddFile(u, files[k + 1])
  OBVIOUS
<1> HIDE DEF After
<1>3. 0 \in D
  <2> DEFINE g == [k \in 0 .. 0 |-> t]
  <2>1. Is(g, 0)
    OBVIOUS
  <2> QED BY <2>1
<1>4. ASSUME NEW m \in D PROVE m + 1 \in D
  <2>1. PICK g : Is(g, m)
    BY <1>4
  <2> DEFINE h == [k \in 0 .. (m + 1) |-> IF k = m + 1 THEN After(g[m], k) ELSE g[k]]
  <2>2. ASSUME NEW k \in 0 .. (m + 1)
        PROVE  h[k] = IF k = 0 THEN t ELSE After(h[k - 1], k)
    <3>1. CASE k = m + 1
      BY <3>1
    <3>2. CASE k # m + 1
      <4>1. k \in 0 .. m /\ h[k] = g[k]
        BY <3>2
      <4>2. g[k] = IF k = 0 THEN t ELSE After(g[k - 1], k)
        BY <2>1, <4>1
      <4>3. k # 0 => h[k - 1] = g[k - 1]
        BY <4>1
      <4> QED BY <4>1, <4>2, <4>3
    <3> QED BY <3>1, <3>2
  <2>3. Is(h, m + 1)
    BY <2>2
  <2> HIDE DEF h, Is
  <2> QED BY <2>3
<1>5. D = Nat
  <2> HIDE DEF D
  <2>1. D \in SUBSET Nat
    BY DEF D
  <2> QED BY <1>3, <1>4, <2>1, Closed
<1>6. Is(f, n)
  <2>1. \E g : Is(g, n)
    BY <1>5
  <2> HIDE DEF Is
  <2> QED BY <2>1
<1> HIDE DEF f
<1>7. f[0] = t
  BY <1>6
<1>8. ASSUME NEW k \in 0 .. (n - 1) PROVE f[k + 1] = After(f[k], k + 1)
  <2>1. k + 1 \in 0 .. n /\ k + 1 # 0 /\ (k + 1) - 1 = k
    OBVIOUS
  <2>2. f[k + 1] = IF k + 1 = 0 THEN t ELSE After(f[(k + 1) - 1], k + 1)
    BY <1>6, <2>1
  <2> QED BY <2>1, <2>2
<1>9. \A k \in 0 .. (n - 1) : f[k + 1] = AddFile(f[k], files[k + 1])
  BY <1>2, <1>8
<1> QED BY <1>1, <1>7, <1>9 DEF BuildTurns

-----------------------------------------------------------------------------
(* An inode is written to its block (winode).                              *)
Stores(st, u, i, din) ==
  /\ Later(st, u) /\ u.freeblock = st.freeblock /\ Img(u) = Stored(Img(st), i, din)
  /\ \A b : ~ (b < NMeta) => u.img[b] = st.img[b]

(* winode stores one inode in its block of the image.                     *)
LEMMA WinodeStores ==
  ASSUME NEW st, IsBuild(st), NEW i \in Inums, NEW din
  PROVE  Stores(st, Winode(st, i, din), i, din)
<1> DEFINE data == [st.img[IBlock(i)] EXCEPT ![i % IPB] = din]
           u == Winode(st, i, din)
<1>1. u = WithBlock(st, IBlock(i), data)
  BY DEF Winode, WithBlock
<1>2. IBlock(i) # BmapStart /\ IBlock(i) \in InodeStart .. (BmapStart - 1) /\ IBlock(i) \in Blocks
  BY InodePlace
<1>3. Img(st)[IBlock(i)] = st.img[IBlock(i)]
  BY <1>2, ImgIs
<1>4. Stored(Img(st), i, din) = [Img(st) EXCEPT ![IBlock(i)] = data]
  BY <1>3 DEF Stored
<1> HIDE DEF data
<1>5. Sectored(st, WithBlock(st, IBlock(i), data), IBlock(i), data)
  BY WithBlockIs
<1> HIDE DEF u
<1>6. Later(st, u) /\ u.freeblock = st.freeblock /\ u.img = [st.img EXCEPT ![IBlock(i)] = data]
      /\ Img(u) = [Img(st) EXCEPT ![IBlock(i)] = data]
  BY <1>1, <1>2, <1>5 DEF Sectored
<1>7. IBlock(i) < NMeta
  BY <1>2, Layout
<1>8. DOMAIN st.img = Blocks
  BY DEF IsBuild, IsDisk
<1>9. \A b : ~ (b < NMeta) => u.img[b] = st.img[b]
  BY <1>6, <1>7, <1>8
<1> QED BY <1>4, <1>6, <1>9 DEF Stores, u

(* What a turn of iappend does to the numbers of a build.                  *)
LEMMA AppendKeeps ==
  ASSUME NEW s, IsBuild(s.st), s.words # <<>>
  PROVE  /\ Later(s.st, BlockAt(s.st, s.din).st) /\ Later(s.st, AppendBlock(s).st)
         /\ AppendBlock(s).st.freeblock = BlockAt(s.st, s.din).st.freeblock
<1> DEFINE b == BlockAt(s.st, s.din)
           data == Overlaid(b.st.img[b.x], s.din.size % BSize,
                            Min({Len(s.words), BSize - (s.din.size % BSize)}), s.words)
<1>1. Later(s.st, b.st)
  BY BlockAtBuilds
<1>2. AppendBlock(s).st = WithBlock(b.st, b.x, data)
  BY DEF AppendBlock, WithBlock, Overlaid
<1> HIDE DEF b, data
<1>3. Sectored(b.st, WithBlock(b.st, b.x, data), b.x, data)
  BY <1>1, WithBlockIs DEF Later
<1>4. Later(s.st, AppendBlock(s).st) /\ AppendBlock(s).st.freeblock = b.st.freeblock
  BY <1>1, <1>2, <1>3, LaterTwice DEF Sectored
<1> QED BY <1>1, <1>4 DEF b

(* A turn of iappend hands out blocks and gives none back.                *)
LEMMA AppendBuilds ==
  ASSUME NEW s, IsBuild(s.st)
  PROVE  Later(s.st, AppendBlock(s).st)
<1>1. CASE s.words = <<>>
  BY <1>1 DEF AppendBlock, Later, IsBuild
<1>2. CASE s.words # <<>>
  BY <1>2, AppendKeeps
<1> QED BY <1>1, <1>2

(* The turns of iappend hand out blocks and give none back.               *)
LEMMA AppendTurnsBuild ==
  ASSUME NEW f, NEW s, NEW n \in Nat, AppendTurns(f, s, n), IsBuild(s.st), NEW m \in 0 .. n
  PROVE  Later(s.st, f[m].st) /\ Later(f[m].st, f[n].st)
<1>0. f[0] = s /\ \A k \in 0 .. (n - 1) : f[k + 1] = AppendBlock(f[k])
  BY DEF AppendTurns
<1>1. \A k \in 0 .. n : IsBuild(f[k].st)
  <2> SUFFICES ASSUME NEW k \in 0 .. n PROVE IsBuild(f[k].st)
    OBVIOUS
  <2> DEFINE S == {j \in 0 .. n : IsBuild(f[j].st)}
  <2>1. 0 \in S
    BY <1>0
  <2>2. ASSUME NEW j \in 0 .. (k - 1), j \in S PROVE j + 1 \in S
    <3>1. f[j + 1] = AppendBlock(f[j]) /\ j + 1 \in 0 .. n /\ IsBuild(f[j].st)
      BY <1>0, <2>2
    <3>2. IsBuild(AppendBlock(f[j]).st)
      BY <3>1, AppendBuilds DEF Later
    <3> QED BY <3>1, <3>2
  <2> HIDE DEF S
  <2>3. k \in S
    BY <2>1, <2>2, Reached
  <2> QED BY <2>3 DEF S
<1>2. ASSUME NEW a \in 0 .. n, NEW k \in 0 .. n, a <= k PROVE Later(f[a].st, f[k].st)
  <2> DEFINE S == {j \in 0 .. n : a <= j => Later(f[a].st, f[j].st)}
  <2>1. \A j \in 0 .. n : j <= a => j \in S
    <3> SUFFICES ASSUME NEW j \in 0 .. n, j <= a, a <= j PROVE Later(f[a].st, f[j].st)
      OBVIOUS
    <3>1. j = a
      OBVIOUS
    <3> QED BY <1>1, <3>1 DEF Later, IsBuild
  <2>2. ASSUME NEW j \in 0 .. (k - 1), j \in S PROVE j + 1 \in S
    <3>1. f[j + 1] = AppendBlock(f[j]) /\ j + 1 \in 0 .. n /\ IsBuild(f[j].st) /\ j \in 0 .. n
      BY <1>0, <1>1, <2>2
    <3>2. Later(f[j].st, f[j + 1].st)
      BY <3>1, AppendBuilds
    <3>3. CASE a <= j
      <4>1. Later(f[a].st, f[j].st) /\ IsBuild(f[a].st)
        BY <1>1, <2>2, <3>3
      <4> QED BY <3>1, <3>2, <4>1, LaterTwice
    <3>4. CASE ~ (a <= j)
      <4>1. j + 1 <= a
        BY <3>4
      <4> QED BY <2>1, <3>1, <4>1
    <3> QED BY <3>3, <3>4
  <2> HIDE DEF S
  <2>3. 0 \in S
    BY <2>1
  <2>4. k \in S
    BY <2>2, <2>3, Reached
  <2> QED BY <1>2, <2>4 DEF S
<1>3. 0 \in 0 .. n /\ n \in 0 .. n /\ 0 <= m /\ m <= n
  OBVIOUS
<1> QED BY <1>0, <1>2, <1>3

(* What iappend does to the numbers of a build.                            *)
LEMMA IappendBuilds ==
  ASSUME NEW st, IsBuild(st), NEW i \in Inums, NEW S, NEW words \in Seq(S)
  PROVE  Later(st, Iappend(st, i, words))
<1> DEFINE n == Len(words)
           t == [st |-> st, din |-> Rinode(st, i), words |-> words]
<1>1. n \in Nat
  BY LenProperties
<1>2. PICK f : Iappend(st, i, words) = Winode(f[n].st, i, f[n].din) /\ AppendTurns(f, t, n)
  <2> HIDE DEF t
  <2>1. t = [st |-> st, din |-> Rinode(st, i), words |-> words]
    BY DEF t
  <2> QED BY <1>1, <2>1, IappendTurns
<1>3. Later(st, f[n].st)
  <2>1. t.st = st /\ n \in 0 .. n
    BY <1>1
  <2> HIDE DEF t, n
  <2> QED BY <1>1, <1>2, <2>1, AppendTurnsBuild
<1>4. Stores(f[n].st, Winode(f[n].st, i, f[n].din), i, f[n].din)
  BY <1>3, WinodeStores DEF Later
<1> QED BY <1>2, <1>3, <1>4, LaterTwice DEF Stores

-----------------------------------------------------------------------------
(* Before the kernel has read an inode; it has got the root directory.     *)
Unread0 == [i \in Inums |-> [ref |-> IF i = Root THEN 1 ELSE 0, valid |-> FALSE, din |-> FreeInode]]

(* The inodes of a build, the root as if all of its blocks were in use.    *)
RowsOf(st) == [i \in Inums |-> Row(i, OnDisk(Img(st), i))]

Ready(st) ==
  /\ IsBuild(st) /\ st.freeblock \in NMeta .. FSSize
  /\ Memory(Unread0, Img(st), {})
  /\ \A b \in st.freeblock .. (FSSize - 1) : st.img[b] = ZeroBlock
Laid(st) ==
  /\ Ready(st) /\ Accounted(RowsOf(st), Img(st), {})
  /\ \A i \in Inums : i >= st.freeinode => OnDisk(Img(st), i).type = "free"

(* Before the first lock no inode is in memory, and the root has the      *)
(* reference that fsinit keeps.                                           *)
LEMMA Unread0Is ==
  /\ \A i \in Inums : Unread0[i] \in Copies /\ ~ Used(Unread0[i]) /\ (i # Root => Unread0[i].ref = 0)
  /\ Unread0[Root].ref > 0
<1>1. FreeInode \in InodeSet
  <2>1. 0 \in 0 .. (MaxFile * BSize)
    BY Sizes
  <2> QED BY <2>1 DEF FreeInode, InodeSet, Links
<1> QED BY <1>1, RootIsInode DEF Unread0, Copies, Used

(* The rows of a build that is ready.                                      *)
LEMMA RowsOfAre ==
  ASSUME NEW st, Ready(st)
  PROVE  /\ RowsOf(st) \in [Inums -> InodeSet]
         /\ \A i \in Inums : /\ OnDisk(Img(st), i) \in InodeSet /\ RowsOf(st)[i] = Row(i, OnDisk(Img(st), i))
                             /\ RowsOf(st)[i].type = OnDisk(Img(st), i).type
                             /\ RowsOf(st)[i].nlink = OnDisk(Img(st), i).nlink
                             /\ Rinode(st, i) = OnDisk(Img(st), i)
<1>1. \A i \in Inums : OnDisk(Img(st), i) \in InodeSet
  BY DEF Ready, Memory
<1>2. \A i \in Inums : /\ Row(i, OnDisk(Img(st), i)) \in InodeSet
                       /\ Row(i, OnDisk(Img(st), i)).type = OnDisk(Img(st), i).type
                       /\ Row(i, OnDisk(Img(st), i)).nlink = OnDisk(Img(st), i).nlink
  BY <1>1, RowIs
<1>3. ASSUME NEW i \in Inums PROVE Rinode(st, i) = OnDisk(Img(st), i)
  <2>1. IBlock(i) # BmapStart
    BY InodePlace
  <2>2. Img(st)[IBlock(i)] = st.img[IBlock(i)]
    BY <2>1, ImgIs DEF Ready
  <2> QED BY <2>2 DEF Rinode, OnDisk
<1> QED BY <1>1, <1>2, <1>3 DEF RowsOf

(* An inode of a build is written.                                         *)
StoredAs(st, u, i, din) ==
  /\ Ready(u) /\ RowsOf(u) = With(RowsOf(st), i, Row(i, din))
  /\ \A j \in Inums : OnDisk(Img(u), j) = IF j = i THEN din ELSE OnDisk(Img(st), j)
  /\ Agree(Img(st), Img(u))

(* A build stays ready when winode stores a row of the inode table.       *)
LEMMA StoresReady ==
  ASSUME NEW st, NEW u, NEW i \in Inums, NEW din \in InodeSet, Ready(st), Stores(st, u, i, din),
         i = Root => din.type # "free"
  PROVE  StoredAs(st, u, i, din)
<1> DEFINE d == Img(st)
           d2 == Img(u)
           ip == Unread0
<1>1. /\ IsBuild(st) /\ st.freeblock \in NMeta .. FSSize /\ Memory(ip, d, {})
      /\ \A b \in st.freeblock .. (FSSize - 1) : st.img[b] = ZeroBlock
  BY DEF Ready
<1>2. /\ IsBuild(u) /\ u.freeblock = st.freeblock /\ d2 = Stored(d, i, din)
      /\ \A b : ~ (b < NMeta) => u.img[b] = st.img[b]
  BY DEF Stores, Later
<1>3. IsDisk(d)
  BY <1>1, ImgIs
<1>4. ip[i] \in Copies /\ ~ Used(ip[i]) /\ (i # Root => ip[i].ref = 0) /\ (i = Root => ip[i].ref > 0)
  BY Unread0Is, RootIsInode
<1> HIDE DEF d, d2, ip
<1>5. Placed(ip, d, i, ip[i], din, {})
  <2>1. i \in Files \ {} => Synced(ip[i], din)
    BY <1>4 DEF Synced, Files
  <2> QED BY <1>1, <1>3, <1>4, <2>1, MemoryAt
<1>6. [ip EXCEPT ![i] = ip[i]] = ip
  BY <1>1 DEF Memory
<1>7. Memory(ip, d2, {})
  BY <1>2, <1>5, <1>6 DEF Placed
<1>8. /\ Agree(d, d2) /\ OnDisk(d2, i) = din
      /\ \A j \in Inums : j # i => OnDisk(d2, j) = OnDisk(d, j)
  BY <1>1, <1>2, <1>3, StoredIs
<1>9. Ready(u)
  <2>1. \A b \in u.freeblock .. (FSSize - 1) : u.img[b] = ZeroBlock
    <3> TAKE b \in u.freeblock .. (FSSize - 1)
    <3>1. b \in st.freeblock .. (FSSize - 1) /\ ~ (b < NMeta)
      BY <1>1, <1>2, Sizes
    <3> QED BY <1>1, <1>2, <3>1
  <2> QED BY <1>1, <1>2, <1>7, <2>1 DEF Ready, d2, ip
<1>10. RowsOf(u) = With(RowsOf(st), i, Row(i, din))
  <2>1. RowsOf(u) = [j \in Inums |-> Row(j, OnDisk(d2, j))]
    BY DEF RowsOf, d2
  <2>2. RowsOf(st) = [j \in Inums |-> Row(j, OnDisk(d, j))]
    BY DEF RowsOf, d
  <2>3. With(RowsOf(st), i, Row(i, din)) = [j \in Inums |-> IF j = i THEN Row(i, din) ELSE Row(j, OnDisk(d, j))]
    BY <2>2 DEF With
  <2>4. \A j \in Inums : Row(j, OnDisk(d2, j)) = IF j = i THEN Row(i, din) ELSE Row(j, OnDisk(d, j))
    BY <1>8
  <2> HIDE DEF d, d2
  <2> QED BY <2>1, <2>3, <2>4
<1> QED BY <1>8, <1>9, <1>10 DEF StoredAs, d, d2

(* iappend: the words are accounted for, and no other inode changes.       *)
Appended(st, u, i, T) ==
  /\ Laid(u) /\ u.freeinode = st.freeinode
  /\ \A j \in Inums : j # i => OnDisk(Img(u), j) = OnDisk(Img(st), j)
  /\ OnDisk(Img(u), i).type = OnDisk(Img(st), i).type /\ OnDisk(Img(u), i).nlink = OnDisk(Img(st), i).nlink
  /\ OnDisk(Img(u), i).size \in 0 .. T

(* iappend adds words to a file, or entries to the root, and everything   *)
(* stays accounted for.                                                   *)
LEMMA IappendLaid ==
  ASSUME NEW st, NEW i \in Inums, NEW S, NEW words \in Seq(S), NEW T,
         Laid(st), OnDisk(Img(st), i).type # "free",
         T = OnDisk(Img(st), i).size + Len(words), T <= MaxFile * BSize,
         i = Root => \A word \in S : IsEntry(RowsOf(st), {}, word),
         Iappend(st, i, words).freeblock <= FSSize
  PROVE  Appended(st, Iappend(st, i, words), i, T)
<1> DEFINE n == Len(words)
           t == [st |-> st, din |-> Rinode(st, i), words |-> words]
           R == RowsOf(st)
           u == Iappend(st, i, words)
<1>1. n \in Nat
  BY LenProperties
<1>2. PICK f : u = Winode(f[n].st, i, f[n].din) /\ AppendTurns(f, t, n)
  <2> HIDE DEF t, n
  <2>1. t = [st |-> st, din |-> Rinode(st, i), words |-> words] /\ n = Len(words)
    BY DEF t, n
  <2> QED BY <1>1, <2>1, IappendTurns
<1>2a. u.freeblock <= FSSize
  OBVIOUS
<1> HIDE DEF u
<1>3. /\ Ready(st) /\ IsBuild(st) /\ st.freeblock \in NMeta .. FSSize /\ Memory(Unread0, Img(st), {})
      /\ Accounted(R, Img(st), {}) /\ \A b \in st.freeblock .. (FSSize - 1) : st.img[b] = ZeroBlock
  BY DEF Laid, Ready
<1>4. /\ t.st = st /\ t.din = OnDisk(Img(st), i) /\ t.words = words /\ t.din \in InodeSet
      /\ R[i] = Row(i, t.din) /\ R \in [Inums -> InodeSet]
      /\ R[i].type = t.din.type /\ R[i].nlink = t.din.nlink
  <2>1. t.st = st /\ t.din = Rinode(st, i) /\ t.words = words
    OBVIOUS
  <2> HIDE DEF t
  <2> QED BY <1>3, <2>1, RowsOfAre
<1> HIDE DEF t, R
<1>5. T \in 0 .. (MaxFile * BSize)
  <2> DEFINE M == MaxFile * BSize
  <2>1. t.din.size \in 0 .. M /\ M \in Nat
    BY <1>4, Sizes DEF InodeSet
  <2>2. T = t.din.size + n /\ T <= M
    BY <1>4
  <2> HIDE DEF M, n
  <2>3. T \in 0 .. M
    BY <1>1, <2>1, <2>2
  <2> QED BY <2>3 DEF M
<1>6. Appendable(R, i, T, S)
  BY <1>5 DEF Appendable, R
<1>7. Appending(R, i, T, S, st, t)
  <2>1. Rows(R, i, t.din) = R
    BY <1>4 DEF Rows, With
  <2>2. Fresh(R, st)
    BY <1>3 DEF Fresh
  <2>3. AtDin(R, i, t.din, t.st)
    BY <1>4, <2>1, <2>2 DEF AtDin
  <2> QED BY <1>4, <2>3 DEF Appending, SameInodes
<1> HIDE DEF n
<1>8. \A m \in 0 .. n : Later(st, f[m].st) /\ Later(f[m].st, f[n].st)
  BY <1>1, <1>2, <1>3, <1>4, AppendTurnsBuild
<1>9. f[n].st.freeblock <= FSSize /\ IsBuild(f[n].st)
  <2>1. IsBuild(f[n].st)
    BY <1>1, <1>8 DEF Later
  <2>2. Stores(f[n].st, Winode(f[n].st, i, f[n].din), i, f[n].din)
    BY <2>1, WinodeStores
  <2> QED BY <1>2, <1>2a, <2>1, <2>2 DEF Stores
<1>10. Appending(R, i, T, S, st, f[n])
  <2> DEFINE P == {m \in 0 .. n : Appending(R, i, T, S, st, f[m])}
  <2>1. 0 \in P
    BY <1>1, <1>2, <1>7 DEF AppendTurns
  <2>2. ASSUME NEW m \in 0 .. (n - 1), m \in P PROVE m + 1 \in P
    <3>1. f[m + 1] = AppendBlock(f[m]) /\ m + 1 \in 0 .. n /\ Appending(R, i, T, S, st, f[m])
      BY <1>1, <1>2, <2>2 DEF AppendTurns
    <3>2. CASE f[m].words = <<>>
      BY <3>1, <3>2 DEF AppendBlock
    <3>3. CASE f[m].words # <<>>
      <4> DEFINE s == f[m]
                 b == BlockAt(s.st, s.din)
      <4>2. IsBuild(s.st)
        BY <3>1 DEF Appending, AtDin, Fresh
      <4> HIDE DEF s
      <4>3. Later(s.st, b.st) /\ AppendBlock(s).st.freeblock = b.st.freeblock
        BY <3>3, <4>2, AppendKeeps DEF s
      <4>5. f[m + 1].st.freeblock = b.st.freeblock
        BY <3>1, <4>3 DEF s
      <4> HIDE DEF b
      <4>6. b.st.freeblock <= FSSize
        <5>1. f[n].st.freeblock >= f[m + 1].st.freeblock
          BY <1>8, <3>1 DEF Later
        <5>2. b.st.freeblock \in Nat /\ f[n].st.freeblock \in Nat
          BY <1>9, <4>3 DEF Later, IsBuild
        <5>3. FSSize \in Nat
          BY Sizes
        <5> QED BY <1>9, <4>5, <5>1, <5>2, <5>3
      <4> QED BY <1>6, <3>1, <3>3, <4>6, TurnAppends DEF b, s
    <3> QED BY <3>2, <3>3
  <2> HIDE DEF P
  <2>3. n \in P
    BY <1>1, <2>1, <2>2, Reached
  <2> QED BY <2>3 DEF P
<1> DEFINE e == f[n].st
           din == f[n].din
<1>11. /\ AtDin(R, i, din, e) /\ SameInodes(Img(st), Img(e)) /\ f[n].words \in Seq(S)
       /\ din.size + Len(f[n].words) = T
  BY <1>10 DEF Appending
<1>12. u = Winode(e, i, din)
  BY <1>2
<1> HIDE DEF e, din
<1>13. /\ din \in InodeSet /\ din.type # "free" /\ din.type = R[i].type /\ din.nlink = R[i].nlink
       /\ Fresh(Rows(R, i, din), e)
  BY <1>11 DEF AtDin
<1>14. \A j \in Inums : OnDisk(Img(e), j) = OnDisk(Img(st), j)
  BY <1>11 DEF SameInodes, OnDisk
<1>15. Ready(e) /\ RowsOf(e) = R
  <2>1. Memory(Unread0, Img(e), {})
    BY <1>3, <1>11, MemoryData
  <2>2. Ready(e)
    BY <1>13, <2>1 DEF Ready, Fresh
  <2> QED BY <1>14, <2>2 DEF RowsOf, R
<1>16. Stores(e, u, i, din)
  BY <1>12, <1>15, WinodeStores DEF Ready
<1>17. StoredAs(e, u, i, din)
  BY <1>13, <1>15, <1>16, StoresReady
<1>18. Accounted(RowsOf(u), Img(u), {})
  <2>1. RowsOf(u) = Rows(R, i, din) /\ Agree(Img(e), Img(u))
    BY <1>15, <1>17 DEF StoredAs, Rows
  <2>2. Accounted(Rows(R, i, din), Img(e), {})
    BY <1>13 DEF Fresh
  <2> QED BY <2>1, <2>2, AccountedAgrees
<1>19. u.freeinode = st.freeinode
  BY <1>1, <1>8, <1>16 DEF Stores, Later, e
<1>20. /\ \A j \in Inums : j # i => OnDisk(Img(u), j) = OnDisk(Img(st), j)
       /\ OnDisk(Img(u), i) = din
  BY <1>14, <1>17 DEF StoredAs
<1>21. Laid(u)
  <2>1. \A j \in Inums : j >= u.freeinode => OnDisk(Img(u), j).type = "free"
    <3> TAKE j \in Inums
    <3> HAVE j >= u.freeinode
    <3>1. OnDisk(Img(st), j).type = "free"
      BY <1>19 DEF Laid
    <3>2. j # i
      BY <3>1
    <3> QED BY <1>20, <3>1, <3>2
  <2> QED BY <1>17, <1>18, <2>1 DEF Laid, StoredAs
<1>22. din.size \in 0 .. T
  <2> DEFINE M == MaxFile * BSize
  <2>1. din.size \in 0 .. M /\ M \in Nat
    BY <1>13, Sizes DEF InodeSet
  <2>2. Len(f[n].words) \in Nat
    BY <1>11, LenProperties
  <2> DEFINE l == Len(f[n].words)
  <2>3. l \in Nat /\ din.size + l = T
    BY <1>11, <2>2
  <2> HIDE DEF M, l
  <2> QED BY <1>5, <2>1, <2>3
<1> QED BY <1>4, <1>13, <1>19, <1>20, <1>21, <1>22 DEF Appended, u

-----------------------------------------------------------------------------
(* A new inode has one link and no blocks (ialloc).                        *)
NewRow(kind) == [FreeInode EXCEPT !.type = kind, !.nlink = 1]
NextInode(st) == [st EXCEPT !.freeinode = st.freeinode + 1]

(* The inode ialloc of mkfs stores, and the free ones beside it.          *)
LEMMA NewRowIs ==
  ASSUME NEW kind \in {"file", "dir"}
  PROVE  /\ NewRow(kind) \in InodeSet /\ NewRow(kind).addrs = FreeInode.addrs /\ NewRow(kind).size = 0
         /\ NewRow(kind).type = kind /\ NewRow(kind).nlink = 1
         /\ FreeInode \in InodeSet /\ FreeInode.size = 0 /\ FreeInode.type = "free"
<1>1. 0 \in 0 .. (MaxFile * BSize)
  BY Sizes
<1> DEFINE A == [k \in 0 .. NDirect |-> 0]
<1>2. A \in [0 .. NDirect -> Links]
  BY DEF Links
<1>3. FreeInode = [type |-> "free", nlink |-> 0, size |-> 0, addrs |-> A]
  BY DEF FreeInode
<1> HIDE DEF A
<1>4. NewRow(kind) = [type |-> kind, nlink |-> 1, size |-> 0, addrs |-> A]
  <2> DEFINE B == [FreeInode EXCEPT !.type = kind]
  <2>1. B = [type |-> kind, nlink |-> 0, size |-> 0, addrs |-> A]
    BY <1>3
  <2>2. NewRow(kind) = [B EXCEPT !.nlink = 1]
    BY DEF NewRow
  <2> HIDE DEF B
  <2> QED BY <2>1, <2>2
<1> QED BY <1>1, <1>2, <1>3, <1>4 DEF InodeSet

(* ialloc of mkfs counts the inodes it hands out.                         *)
LEMMA NextInodeIs ==
  ASSUME NEW st, IsBuild(st)
  PROVE  /\ IsBuild(NextInode(st)) /\ NextInode(st).freeinode = st.freeinode + 1
         /\ NextInode(st).freeblock = st.freeblock /\ NextInode(st).img = st.img
         /\ Img(NextInode(st)) = Img(st)
<1>1. st = [img |-> st.img, freeinode |-> st.freeinode, freeblock |-> st.freeblock]
      /\ IsDisk(st.img) /\ st.freeinode \in Nat /\ st.freeblock \in Nat
  BY DEF IsBuild
<1>2. NextInode(st) = [img |-> st.img, freeinode |-> st.freeinode + 1, freeblock |-> st.freeblock]
  BY <1>1 DEF NextInode
<1> QED BY <1>1, <1>2 DEF IsBuild, Img

(* ialloc of mkfs stores a new inode in the next row.                     *)
LEMMA IallocStores ==
  ASSUME NEW st, IsBuild(st), st.freeinode \in Inums, NEW type
  PROVE  Stores(NextInode(st), Ialloc(st, type), st.freeinode, NewRow(type))
<1>1. Ialloc(st, type) = Winode(NextInode(st), st.freeinode, NewRow(type))
  BY DEF Ialloc, NextInode, NewRow
<1>2. IsBuild(NextInode(st))
  BY NextInodeIs
<1> QED BY <1>1, <1>2, WinodeStores

(* A file gets an inode, which nothing names yet.                          *)
Ialloced(st, u) ==
  /\ Laid(u) /\ u.freeinode = st.freeinode + 1
  /\ \A j \in Inums : OnDisk(Img(u), j) = IF j = st.freeinode THEN NewRow("file") ELSE OnDisk(Img(st), j)

(* ialloc of mkfs takes a free row for a file, and everything stays       *)
(* accounted for.                                                         *)
LEMMA IallocLaid ==
  ASSUME NEW st, Laid(st), st.freeinode \in Files
  PROVE  Ialloced(st, Ialloc(st, "file"))
<1> DEFINE i == st.freeinode
           u == Ialloc(st, "file")
           s == NextInode(st)
           r == NewRow("file")
<1>1. Ready(st) /\ IsBuild(st) /\ Accounted(RowsOf(st), Img(st), {}) /\ i \in Inums /\ i # Root
      /\ OnDisk(Img(st), i).type = "free" /\ i \in Nat
  BY DEF Laid, Ready, Files, IsBuild
<1>2. Stores(s, u, i, r)
  BY <1>1, IallocStores
<1>3. s.freeinode = i + 1 /\ Img(s) = Img(st) /\ s.freeblock = st.freeblock /\ s.img = st.img /\ IsBuild(s)
  BY <1>1, NextInodeIs
<1> HIDE DEF s, u, r
<1>4. Ready(s) /\ RowsOf(s) = RowsOf(st)
  BY <1>1, <1>3 DEF Ready, RowsOf
<1>5. r \in InodeSet /\ r.addrs = FreeInode.addrs /\ r.size = 0 /\ r.type = "file"
  BY NewRowIs DEF r
<1>6. StoredAs(s, u, i, r)
  BY <1>1, <1>2, <1>4, <1>5, StoresReady
<1>7. Accounted(With(RowsOf(st), i, r), Img(st), {i})
  <2>1. RowsOf(st)[i].type = "free"
    BY <1>1, RowsOfAre
  <2> QED BY <1>1, <1>5, <2>1, ClaimedAccounted
<1>8. Accounted(RowsOf(u), Img(u), {})
  <2>1. RowsOf(u) = With(RowsOf(st), i, r) /\ Agree(Img(st), Img(u))
    BY <1>1, <1>3, <1>4, <1>5, <1>6, RowIs DEF StoredAs
  <2>2. Accounted(With(RowsOf(st), i, r), Img(st), {})
    BY <1>7, FewerUnnamed
  <2> QED BY <2>1, <2>2, AccountedAgrees
<1>9. \A j \in Inums : OnDisk(Img(u), j) = IF j = i THEN r ELSE OnDisk(Img(st), j)
  BY <1>3, <1>6 DEF StoredAs
<1>10. u.freeinode = i + 1
  BY <1>2, <1>3 DEF Stores, Later
<1>11. \A j \in Inums : j >= u.freeinode => OnDisk(Img(u), j).type = "free"
  <2> SUFFICES ASSUME NEW j \in Inums, j >= i + 1 PROVE OnDisk(Img(u), j).type = "free"
    BY <1>10
  <2>1. j \in Nat /\ j # i /\ j >= i
    BY <1>1, Layout DEF Inums
  <2> QED BY <1>9, <2>1 DEF Laid
<1> QED BY <1>6, <1>8, <1>9, <1>10, <1>11 DEF Ialloced, Laid, StoredAs, u, r

(* An entry of the root for an inode with a link.                          *)
LEMMA EntryLaid ==
  ASSUME NEW st, Laid(st), NEW i \in Inums, OnDisk(Img(st), i).type # "free",
         OnDisk(Img(st), i).nlink # 0, NEW name, NEW n \in Nat, n < MaxFile * BSize,
         OnDisk(Img(st), Root).size <= n,
         Iappend(st, Root, <<Entry(i, name)>>).freeblock <= FSSize
  PROVE  Appended(st, Iappend(st, Root, <<Entry(i, name)>>), Root, n + 1)
<1> DEFINE word == Entry(i, name)
           words == <<word>>
           u == Iappend(st, Root, words)
           size == OnDisk(Img(st), Root).size
           M == MaxFile * BSize
<1>1. Ready(st) /\ Root \in Inums /\ OnDisk(Img(st), Root).type # "free" /\ size \in 0 .. M /\ M \in Nat
  BY RootIsInode, Sizes DEF Laid, Ready, Memory, InodeSet
<1>2. IsEntry(RowsOf(st), {}, word)
  <2>1. word[1] = i
    BY DEF Entry
  <2> HIDE DEF word
  <2>2. RowsOf(st)[i].type # "free" /\ RowsOf(st)[i].nlink # 0
    BY <1>1, RowsOfAre
  <2> QED BY <2>1, <2>2 DEF IsEntry
<1>3. words \in Seq({word}) /\ Len(words) = 1
  OBVIOUS
<1>4. size + Len(words) <= M
  <2>1. n < M
    OBVIOUS
  <2>2. size <= n
    OBVIOUS
  <2> HIDE DEF M, size, words
  <2> QED BY <1>1, <1>3, <2>1, <2>2
<1>5. u.freeblock <= FSSize
  OBVIOUS
<1> HIDE DEF word, words, u
<1>6. Appended(st, u, Root, size + Len(words))
  <2>1. \A x \in {word} : IsEntry(RowsOf(st), {}, x)
    BY <1>2
  <2> DEFINE T == size + Len(words)
             S == {word}
  <2>2. /\ T = OnDisk(Img(st), Root).size + Len(words) /\ T <= MaxFile * BSize
        /\ words \in Seq(S) /\ \A x \in S : IsEntry(RowsOf(st), {}, x)
        /\ Iappend(st, Root, words).freeblock <= FSSize
    BY <1>3, <1>4, <1>5, <2>1 DEF u
  <2> HIDE DEF T, S
  <2>3. Appended(st, Iappend(st, Root, words), Root, T)
    BY <1>1, <2>2, IappendLaid
  <2> QED BY <2>3 DEF u, T
<1>7. \A x \in 0 .. (size + Len(words)) : x \in 0 .. (n + 1)
  <2>1. size <= n
    OBVIOUS
  <2> HIDE DEF size
  <2> QED BY <1>1, <1>3, <2>1
<1>8. Appended(st, u, Root, n + 1)
  BY <1>6, <1>7 DEF Appended
<1> QED BY <1>8 DEF u, words, word

-----------------------------------------------------------------------------
(* The image of mkfs has everything accounted for.                        *)

(* A file of the command line: what it takes is handed out, and never      *)
(* handed back; its entry and its contents are accounted for when there    *)
(* is room.                                                                *)
AddedBuild(st, u) == IsBuild(u) /\ u.freeinode = st.freeinode + 1 /\ u.freeblock >= st.freeblock

(* A file of the command line takes one inode and gives no block back.    *)
LEMMA AddFileBuilds ==
  ASSUME NEW st, IsBuild(st), st.freeinode \in Inums, NEW file, NEW S, file.words \in Seq(S)
  PROVE  /\ AddedBuild(st, AddFile(st, file))
         /\ LET e == Iappend(Ialloc(st, "file"), Root, <<Entry(st.freeinode, file.name)>>)
            IN IsBuild(e) /\ e.freeblock <= AddFile(st, file).freeblock
<1> DEFINE a == Ialloc(st, "file")
           words == <<Entry(st.freeinode, file.name)>>
           e == Iappend(a, Root, words)
           u == AddFile(st, file)
<1>1. Later(NextInode(st), a) /\ IsBuild(NextInode(st)) /\ NextInode(st).freeinode = st.freeinode + 1
      /\ NextInode(st).freeblock = st.freeblock
  BY IallocStores, NextInodeIs DEF Stores
<1>2. \E x : words \in Seq({x})
  OBVIOUS
<1>3. u = Iappend(e, st.freeinode, file.words)
  BY DEF AddFile
<1> HIDE DEF a, words
<1>4. IsBuild(a)
  BY <1>1 DEF Later
<1>5. Later(a, e)
  BY <1>2, <1>4, RootIsInode, IappendBuilds
<1> HIDE DEF e, u
<1>6. Later(e, u)
  BY <1>3, <1>5, IappendBuilds DEF Later
<1>7. /\ a.freeblock >= st.freeblock /\ e.freeblock >= a.freeblock /\ u.freeblock >= e.freeblock
      /\ u.freeinode = st.freeinode + 1 /\ IsBuild(u) /\ IsBuild(e)
  BY <1>1, <1>5, <1>6 DEF Later
<1>8. st.freeblock \in Nat /\ a.freeblock \in Nat /\ e.freeblock \in Nat /\ u.freeblock \in Nat
  BY <1>4, <1>7 DEF IsBuild
<1> QED BY <1>7, <1>8 DEF AddedBuild, e, u, a, words

Added(st, u, n) == Laid(u) /\ u.freeinode = st.freeinode + 1 /\ OnDisk(Img(u), Root).size \in 0 .. n

(* With a file of the command line added, everything stays accounted for  *)
(* when there is room.                                                    *)
LEMMA AddFileLaid ==
  ASSUME NEW st, Laid(st), st.freeinode \in Files, NEW file, NEW S, file.words \in Seq(S),
         Len(file.words) <= MaxFile * BSize, NEW n \in Nat, n < MaxFile * BSize,
         OnDisk(Img(st), Root).size <= n, AddFile(st, file).freeblock <= FSSize
  PROVE  Added(st, AddFile(st, file), n + 1)
<1> DEFINE i == st.freeinode
           a == Ialloc(st, "file")
           e == Iappend(a, Root, <<Entry(i, file.name)>>)
           u == AddFile(st, file)
           M == MaxFile * BSize
<1>1. u = Iappend(e, i, file.words)
  BY DEF AddFile
<1>2. i \in Inums /\ i # Root /\ IsBuild(st)
  BY DEF Files, Laid, Ready
<1>3. Ialloced(st, a)
  BY IallocLaid
<1>4. IsBuild(e) /\ e.freeblock <= u.freeblock /\ IsBuild(u)
  BY <1>2, AddFileBuilds DEF AddedBuild
<1> HIDE DEF a, u
<1>5. /\ OnDisk(Img(a), i) = NewRow("file")
      /\ OnDisk(Img(a), Root) = OnDisk(Img(st), Root)
      /\ Laid(a) /\ a.freeinode = i + 1
  BY <1>2, <1>3, RootIsInode DEF Ialloced
<1>6. OnDisk(Img(a), i).type = "file" /\ OnDisk(Img(a), i).nlink = 1 /\ OnDisk(Img(a), i).size = 0
  BY <1>5, NewRowIs
<1>7. e.freeblock <= FSSize
  <2>1. e.freeblock \in Nat /\ u.freeblock \in Nat /\ u.freeblock <= FSSize
    BY <1>4 DEF IsBuild, u
  <2> QED BY <1>4, <2>1, Sizes
<1>8. Appended(a, e, Root, n + 1)
  <2>1. OnDisk(Img(a), i).type # "free" /\ OnDisk(Img(a), i).nlink # 0 /\ OnDisk(Img(a), Root).size <= n
    BY <1>5, <1>6
  <2> QED BY <1>2, <1>5, <1>7, <2>1, EntryLaid
<1> HIDE DEF e
<1>9. /\ OnDisk(Img(e), i) = OnDisk(Img(a), i) /\ Laid(e) /\ e.freeinode = i + 1
      /\ OnDisk(Img(e), Root).size \in 0 .. (n + 1)
  BY <1>2, <1>5, <1>8 DEF Appended
<1> DEFINE T == Len(file.words)
<1>10. T = OnDisk(Img(e), i).size + Len(file.words) /\ T <= MaxFile * BSize
  <2>1. Len(file.words) \in Nat
    BY LenProperties
  <2> QED BY <1>6, <1>9, <2>1
<1> HIDE DEF T
<1>11. Appended(e, u, i, T)
  <2>1. OnDisk(Img(e), i).type # "free" /\ u.freeblock <= FSSize
    BY <1>6, <1>9 DEF u
  <2> QED BY <1>1, <1>2, <1>9, <1>10, <2>1, IappendLaid
<1>12. Laid(u) /\ u.freeinode = i + 1 /\ OnDisk(Img(u), Root) = OnDisk(Img(e), Root)
  BY <1>2, <1>9, <1>11, RootIsInode DEF Appended
<1> QED BY <1>9, <1>12 DEF Added, u

-----------------------------------------------------------------------------
(* main: an image with no files, and then one with the root directory.     *)
LEMMA NoFilesIs ==
  /\ IsBuild(NoFiles) /\ NoFiles.freeinode = 1 /\ NoFiles.freeblock = NMeta
  /\ \A b \in InodeStart .. (BmapStart - 1) : Img(NoFiles)[b] = [k \in 0 .. (IPB - 1) |-> FreeInode]
  /\ Img(NoFiles)[BmapStart] = 0 .. (NMeta - 1)
  /\ \A b \in DataBlocks : NoFiles.img[b] = ZeroBlock
<1> DEFINE im == [b \in 0 .. (FSSize - 1) |->
                    CASE b \in InodeStart .. (BmapStart - 1) -> [k \in 0 .. (IPB - 1) |-> FreeInode]
                      [] b = BmapStart                     -> {}
                      [] OTHER                             -> ZeroBlock]
<1>1. NoFiles = [img |-> im, freeinode |-> 1, freeblock |-> NMeta]
  BY DEF NoFiles
<1>2. IsDisk(im)
  BY DEF IsDisk, Blocks
<1>3. \A b \in InodeStart .. (BmapStart - 1) : im[b] = [k \in 0 .. (IPB - 1) |-> FreeInode]
  <2> TAKE b \in InodeStart .. (BmapStart - 1)
  <2>1. b \in 0 .. (FSSize - 1)
    BY Layout
  <2> QED BY <2>1
<1>4. \A b \in DataBlocks : im[b] = ZeroBlock
  <2> TAKE b \in DataBlocks
  <2>1. b \in 0 .. (FSSize - 1) /\ b \notin InodeStart .. (BmapStart - 1) /\ b # BmapStart
    BY Layout DEF DataBlocks
  <2> QED BY <2>1
<1> HIDE DEF im
<1>5. NoFiles.img = im /\ NoFiles.freeinode = 1 /\ NoFiles.freeblock = NMeta
  BY <1>1
<1>6. IsBuild(NoFiles)
  BY <1>1, <1>2, <1>5, Sizes DEF IsBuild
<1>7. \A b \in InodeStart .. (BmapStart - 1) : b # BmapStart
  BY Layout
<1>8. Img(NoFiles)[BmapStart] = 0 .. (NMeta - 1) /\ \A b : b # BmapStart => Img(NoFiles)[b] = im[b]
  BY <1>5, <1>6, ImgIs
<1> QED BY <1>3, <1>4, <1>5, <1>6, <1>7, <1>8

RootStart == Ialloc(NoFiles, "dir")

(* The image with the root and no file: all rows but one free, all data   *)
(* blocks unused.                                                         *)
LEMMA RootStartIs ==
  LET d == Img(RootStart)
  IN /\ IsBuild(RootStart) /\ RootStart.freeinode = 2 /\ RootStart.freeblock = NMeta
     /\ \A j \in Inums : OnDisk(d, j) = IF j = Root THEN NewRow("dir") ELSE FreeInode
     /\ \A j \in Inums : d[IBlock(j)] = [k \in 0 .. (IPB - 1) |-> d[IBlock(j)][k]]
     /\ d[BmapStart] = 0 .. (NMeta - 1)
     /\ \A b \in DataBlocks : d[b] = ZeroBlock /\ RootStart.img[b] = ZeroBlock
<1> DEFINE s == NextInode(NoFiles)
           d == Img(NoFiles)
           d2 == Img(RootStart)
           r == NewRow("dir")
           B == IBlock(Root)
           p == Root % IPB
           row == [k \in 0 .. (IPB - 1) |-> FreeInode]
<1>1. /\ IsBuild(NoFiles) /\ NoFiles.freeinode = 1 /\ NoFiles.freeblock = NMeta
      /\ \A b \in InodeStart .. (BmapStart - 1) : d[b] = row
      /\ d[BmapStart] = 0 .. (NMeta - 1)
      /\ \A b \in DataBlocks : NoFiles.img[b] = ZeroBlock
  BY NoFilesIs
<1>2. s.freeinode = 2 /\ s.freeblock = NMeta /\ Img(s) = d /\ s.img = NoFiles.img
  BY <1>1, NextInodeIs
<1>3. IsDisk(d) /\ \A b : b # BmapStart => d[b] = NoFiles.img[b]
  BY <1>1, ImgIs
<1>4. Stores(s, RootStart, Root, r)
  <2>1. NoFiles.freeinode = Root
    BY <1>1 DEF Root
  <2> QED BY <1>1, <2>1, RootIsInode, IallocStores DEF RootStart
<1> HIDE DEF s, r
<1>5. /\ IsBuild(RootStart) /\ RootStart.freeinode = 2 /\ RootStart.freeblock = NMeta
      /\ \A b : ~ (b < NMeta) => RootStart.img[b] = NoFiles.img[b]
      /\ d2 = Stored(d, Root, r)
  BY <1>2, <1>4 DEF Stores, Later
<1>6. B \in InodeStart .. (BmapStart - 1) /\ B \in Blocks /\ B # BmapStart /\ p \in 0 .. (IPB - 1)
  BY RootIsInode, InodePlace
<1> DEFINE new == [row EXCEPT ![p] = r]
<1>7. d2 = [d EXCEPT ![B] = new]
  <2>1. d[B] = row
    BY <1>1, <1>6
  <2> HIDE DEF d, B, p, row
  <2> QED BY <1>5, <2>1 DEF Stored, B, p
<1>8. DOMAIN d = Blocks
  BY <1>3 DEF IsDisk
<1> HIDE DEF d, d2, B, p, row
<1>9. d2[B] = new /\ \A b : b # B => d2[b] = d[b]
  BY <1>6, <1>7, <1>8
<1>10. new = [k \in 0 .. (IPB - 1) |-> IF k = p THEN r ELSE FreeInode]
  BY DEF row
<1> HIDE DEF new
<1>11. ASSUME NEW j \in Inums
       PROVE  /\ OnDisk(d2, j) = IF j = Root THEN r ELSE FreeInode
              /\ d2[IBlock(j)] = [k \in 0 .. (IPB - 1) |-> d2[IBlock(j)][k]]
  <2>1. IBlock(j) \in InodeStart .. (BmapStart - 1) /\ j % IPB \in 0 .. (IPB - 1)
    BY InodePlace
  <2>2. d[IBlock(j)] = row
    BY <1>1, <2>1
  <2>3. CASE IBlock(j) # B
    <3>1. d2[IBlock(j)] = row /\ j # Root
      BY <1>9, <2>2, <2>3 DEF B
    <3> QED BY <2>1, <3>1 DEF OnDisk, row
  <2>4. CASE IBlock(j) = B
    <3>1. j % IPB = p <=> j = Root
      BY <2>4, RootIsInode, InodePlaces DEF B, p
    <3>2. d2[IBlock(j)] = new
      BY <1>9, <2>4
    <3>3. OnDisk(d2, j) = new[j % IPB]
      BY <3>2 DEF OnDisk
    <3>4. OnDisk(d2, j) = IF j = Root THEN r ELSE FreeInode
      BY <1>10, <2>1, <3>1, <3>3
    <3>5. new = [k \in 0 .. (IPB - 1) |-> new[k]]
      BY <1>10
    <3> QED BY <3>2, <3>4, <3>5
  <2> QED BY <2>3, <2>4
<1>12. d2[BmapStart] = 0 .. (NMeta - 1)
  BY <1>1, <1>6, <1>9
<1>13. ASSUME NEW b \in DataBlocks
       PROVE  d2[b] = ZeroBlock /\ RootStart.img[b] = ZeroBlock
  <2>1. b # B /\ b # BmapStart /\ ~ (b < NMeta)
    BY <1>6, Layout DEF DataBlocks
  <2> QED BY <1>1, <1>3, <1>5, <1>9, <2>1
<1> QED BY <1>5, <1>11, <1>12, <1>13 DEF d2, r

(* The image with the root and no file has everything accounted for.      *)
LEMMA RootStartLaid ==
  Laid(RootStart) /\ OnDisk(Img(RootStart), Root) = NewRow("dir")
<1> DEFINE st == RootStart
           d == Img(RootStart)
           F == RowsOf(RootStart)
           r == NewRow("dir")
           M == MaxFile * BSize
<1>1. /\ IsBuild(st) /\ st.freeinode = 2 /\ st.freeblock = NMeta
      /\ \A j \in Inums : OnDisk(d, j) = IF j = Root THEN r ELSE FreeInode
      /\ \A j \in Inums : d[IBlock(j)] = [k \in 0 .. (IPB - 1) |-> d[IBlock(j)][k]]
      /\ d[BmapStart] = 0 .. (NMeta - 1)
      /\ \A b \in DataBlocks : d[b] = ZeroBlock /\ st.img[b] = ZeroBlock
  BY RootStartIs
<1>2. /\ r \in InodeSet /\ r.addrs = FreeInode.addrs /\ r.size = 0 /\ r.type = "dir"
      /\ FreeInode \in InodeSet /\ FreeInode.size = 0 /\ FreeInode.type = "free"
  BY NewRowIs
<1>3. FreeInode.addrs = [k \in 0 .. NDirect |-> 0]
  BY DEF FreeInode
<1>4. F = [j \in Inums |-> Row(j, OnDisk(d, j))]
  BY DEF RowsOf
<1> HIDE DEF st, d, F, r
<1>5. Root \in Inums
  BY RootIsInode
<1>6. \A j \in Inums : OnDisk(d, j) \in InodeSet /\ OnDisk(d, j).addrs = FreeInode.addrs
                       /\ (j # Root => OnDisk(d, j) = FreeInode)
  BY <1>1, <1>2
<1>7. ASSUME NEW j \in Inums
      PROVE  /\ F[j] \in InodeSet /\ F[j].addrs = FreeInode.addrs
             /\ j # Root => F[j] = FreeInode
  <2>1. F[j] = Row(j, OnDisk(d, j))
    BY <1>4
  <2> QED BY <1>6, <2>1, RowIs
<1>8. F[Root].type = "dir"
  <2>1. F[Root] = Row(Root, r)
    BY <1>1, <1>4, <1>5
  <2> QED BY <1>2, <1>5, <2>1, RowIs
<1>9. Ready(st)
  <2>1. Memory(Unread0, d, {})
    <3>1. /\ Unread0 \in [Inums -> Copies]
          /\ \A i \in Inums : ~ Used(Unread0[i]) /\ (i # Root => Unread0[i].ref = 0)
          /\ Unread0[Root].ref > 0
      <4>1. Unread0 = [i \in Inums |-> Unread0[i]]
        BY DEF Unread0
      <4> QED BY <4>1, Unread0Is
    <3>2. \A i \in Files \ {} : Synced(Unread0[i], OnDisk(d, i))
      <4> TAKE i \in Files \ {}
      <4>1. Unread0[i].ref = 0
        BY <3>1 DEF Files
      <4> QED BY <4>1 DEF Synced
    <3>3. OnDisk(d, Root).type # "free"
      BY <1>1, <1>2, <1>5
    <3> QED BY <1>1, <1>6, <3>1, <3>2, <3>3 DEF Memory, Copies
  <2>2. st.freeblock \in NMeta .. FSSize
    BY <1>1, Sizes
  <2>3. \A b \in st.freeblock .. (FSSize - 1) : st.img[b] = ZeroBlock
    BY <1>1 DEF DataBlocks
  <2> QED BY <1>1, <2>1, <2>2, <2>3 DEF Ready, d, st
<1>10. ASSUME NEW j \in Inums, NEW k \in 0 .. MaxFile PROVE Addr(F, d, j, k) = 0
  <2>1. F[j].addrs = [l \in 0 .. NDirect |-> 0]
    BY <1>3, <1>7
  <2>1a. NDirect \in 0 .. NDirect
    BY Sizes
  <2>2. k < NDirect => k \in 0 .. NDirect
    BY Sizes
  <2> QED BY <2>1, <2>1a, <2>2 DEF Addr
<1>11. Shaped(F, d)
  <2>1. F \in [Inums -> InodeSet]
    BY <1>4, <1>7
  <2>2. \A i \in Inums : F[i].type = "free" => F[i].size = 0 /\ F[i].addrs = FreeInode.addrs
    BY <1>2, <1>7, <1>8
  <2>3. \A b \in DataBlocks : d[b] = [k \in 0 .. (BSize - 1) |-> d[b][k]]
    <3> TAKE b \in DataBlocks
    <3>1. d[b] = [k \in 0 .. (BSize - 1) |-> Zero]
      BY <1>1 DEF ZeroBlock
    <3> QED BY <3>1
  <2> QED BY <2>1, <2>2, <2>3 DEF Shaped
<1>12. Linked(F, d)
  <2>1. \A i \in Inums : F[i].addrs[NDirect] = 0
    <3> TAKE i \in Inums
    <3>1. F[i].addrs = [l \in 0 .. NDirect |-> 0] /\ NDirect \in 0 .. NDirect
      BY <1>3, <1>7, Sizes
    <3> QED BY <3>1
  <2> QED BY <2>1 DEF Linked
<1>13. Unshared(F, d)
  BY <1>10 DEF Unshared
<1>14. Marked(F, d)
  <2>1. 0 .. (NMeta - 1) \subseteq Blocks
    BY Sizes DEF Blocks
  <2>2. ASSUME NEW b \in Blocks, Holds(F, d, b) PROVE b = 0
    BY <1>10, <2>2 DEF Holds
  <2>3. ASSUME NEW b \in Blocks PROVE b \in 0 .. (NMeta - 1) <=> b < NMeta \/ Holds(F, d, b)
    BY <2>2, Sizes DEF Blocks
  <2> QED BY <1>1, <2>1, <2>3 DEF Marked
<1>15. \A i \in Files : Gapless(F, d, i, F[i].size)
  <2> TAKE i \in Files
  <2>1. F[i].size = 0
    BY <1>2, <1>7 DEF Files
  <2>2. \A l \in 0 .. (MaxFile - 1) : ~ (l * BSize < 0)
    BY Sizes
  <2> QED BY <2>1, <2>2 DEF Gapless
<1>16. Entries(F, d, {}, F[Root].size)
  BY <1>5, <1>10, Sizes DEF Entries
<1>17. Accounted(F, d, {})
  BY <1>11, <1>12, <1>13, <1>14, <1>15, <1>16 DEF Accounted
<1>18. \A i \in Inums : i >= st.freeinode => OnDisk(d, i).type = "free"
  <2> TAKE i \in Inums
  <2> HAVE i >= st.freeinode
  <2>1. i # Root
    BY <1>1 DEF Root
  <2> QED BY <1>2, <1>6, <2>1
<1> QED BY <1>1, <1>5, <1>9, <1>17, <1>18 DEF Laid, st, d, F, r

(* The root directory names itself twice.                                  *)
LEMMA RootOnlyLaid ==
  /\ IsBuild(RootOnly) /\ RootOnly.freeinode = 2
  /\ 2 < MaxFile * BSize /\ RootOnly.freeblock <= FSSize =>
       Laid(RootOnly) /\ OnDisk(Img(RootOnly), Root).size \in 0 .. 2
<1> DEFINE a == RootStart
           one == <<Entry(Root, ".")>>
           e == Iappend(a, Root, one)
           two == <<Entry(Root, "..")>>
           u == Iappend(e, Root, two)
           M == MaxFile * BSize
<1>1. RootOnly = u
  BY DEF RootOnly, RootStart
<1>2. Laid(a) /\ OnDisk(Img(a), Root) = NewRow("dir") /\ IsBuild(a) /\ a.freeinode = 2
  BY RootStartLaid, RootStartIs
<1>3. OnDisk(Img(a), Root).type # "free" /\ OnDisk(Img(a), Root).nlink # 0 /\ OnDisk(Img(a), Root).size = 0
  BY <1>2, NewRowIs
<1>4. (\E x : one \in Seq({x})) /\ (\E x : two \in Seq({x}))
  OBVIOUS
<1> HIDE DEF a, one, two
<1>5. Later(a, e)
  BY <1>2, <1>4, RootIsInode, IappendBuilds
<1> HIDE DEF e
<1>6. Later(e, u)
  BY <1>4, <1>5, RootIsInode, IappendBuilds DEF Later
<1> HIDE DEF u
<1>7. IsBuild(u) /\ u.freeinode = 2 /\ e.freeblock <= u.freeblock /\ e.freeblock \in Nat /\ u.freeblock \in Nat
  BY <1>2, <1>5, <1>6 DEF Later, IsBuild
<1>8. ASSUME 2 < M, u.freeblock <= FSSize
      PROVE  Laid(u) /\ OnDisk(Img(u), Root).size \in 0 .. 2
  <2>1. 0 < M /\ 1 < M /\ e.freeblock <= FSSize
    <3> HIDE DEF M
    <3>1. M \in Nat
      BY Sizes DEF M
    <3> QED BY <1>7, <1>8, <3>1, Sizes
  <2>2. Appended(a, e, Root, 0 + 1)
    BY <1>2, <1>3, <2>1, RootIsInode, EntryLaid DEF e, one
  <2>3. /\ Laid(e) /\ OnDisk(Img(e), Root).type # "free" /\ OnDisk(Img(e), Root).nlink # 0
        /\ OnDisk(Img(e), Root).size <= 1
    BY <1>3, <2>2 DEF Appended
  <2>4. Appended(e, u, Root, 1 + 1)
    BY <1>8, <2>1, <2>3, RootIsInode, EntryLaid DEF u, two
  <2> QED BY <2>4 DEF Appended
<1> QED BY <1>1, <1>7, <1>8

(* Every file of the command line in turn.                                 *)
LEMMA FilesLaid ==
  ASSUME NEW files, Buildable(files), NEW n \in Nat, n = Len(files),
         NEW f, BuildTurns(f, files, n)
  PROVE  /\ IsBuild(f[n])
         /\ f[n].freeblock <= FSSize =>
              Laid(f[n]) /\ OnDisk(Img(f[n]), Root).size \in 0 .. (n + 2)
<1> DEFINE M == MaxFile * BSize
<1>1. /\ f[0] = RootOnly /\ \A k \in 0 .. (n - 1) : f[k + 1] = AddFile(f[k], files[k + 1])
      /\ n + 2 < M /\ n + 1 < NInodes /\ M \in Nat
  BY Sizes DEF BuildTurns, Buildable
<1>2. ASSUME NEW k \in 1 .. n
      PROVE  files[k].words \in Seq(Seq(Int)) /\ Len(files[k].words) <= M
  <2>1. files \in Seq([name : STRING, words : Seq(Seq(Int))]) /\ k \in 1 .. Len(files)
    BY DEF Buildable
  <2>2. files[k] \in [name : STRING, words : Seq(Seq(Int))]
    BY <2>1, ElementOfSeq
  <2>3. files[k].words \in Seq(Seq(Int))
    BY <2>2
  <2>4. Len(files[k].words) <= M
    BY <2>1 DEF Buildable
  <2> QED BY <2>3, <2>4
<1> DEFINE Q(k) == /\ IsBuild(f[k]) /\ f[k].freeinode = k + 2
                   /\ f[k].freeblock <= FSSize =>
                        Laid(f[k]) /\ OnDisk(Img(f[k]), Root).size \in 0 .. (k + 2)
           S == {k \in 0 .. n : Q(k)}
<1> HIDE DEF M
<1>3. 0 \in S
  <2>1. 2 < M
    BY <1>1
  <2>2. Q(0)
    BY <1>1, <2>1, RootOnlyLaid DEF M
  <2> QED BY <2>2
<1>4. ASSUME NEW m \in 0 .. (n - 1), m \in S
      PROVE  m + 1 \in S
  <2> DEFINE st == f[m]
             file == files[m + 1]
             u == AddFile(st, file)
  <2>1. f[m + 1] = u
    BY <1>1
  <2>2. IsBuild(st) /\ st.freeinode = m + 2
        /\ (st.freeblock <= FSSize => Laid(st) /\ OnDisk(Img(st), Root).size \in 0 .. (m + 2))
    BY <1>4
  <2>3. m + 1 \in 1 .. n /\ m + 2 \in Nat /\ m + 2 < M /\ m + 2 \in 1 .. (NInodes - 1) /\ m + 2 # 1
        /\ m + 1 \in 0 .. n
    BY <1>1, Layout
  <2>4. file.words \in Seq(Seq(Int)) /\ Len(file.words) <= M
    BY <1>2, <2>3
  <2> HIDE DEF st, file
  <2>5. st.freeinode \in Files
    BY <2>2, <2>3 DEF Files, Inums, Root
  <2>6. AddedBuild(st, u)
    BY <2>2, <2>4, <2>5, AddFileBuilds DEF Files
  <2>7. ASSUME u.freeblock <= FSSize
        PROVE  Laid(u) /\ OnDisk(Img(u), Root).size \in 0 .. (m + 3)
    <3> HIDE DEF u
    <3>1. st.freeblock <= FSSize
      <4>1. st.freeblock \in Nat /\ u.freeblock \in Nat /\ u.freeblock >= st.freeblock
        BY <2>2, <2>6 DEF AddedBuild, IsBuild
      <4> QED BY <2>7, <4>1, Sizes
    <3>2. Laid(st) /\ OnDisk(Img(st), Root).size <= m + 2
      BY <2>2, <2>3, <3>1
    <3>3. Added(st, u, (m + 2) + 1)
      BY <2>3, <2>4, <2>5, <2>7, <3>2, AddFileLaid DEF M, u
    <3> QED BY <2>3, <3>3 DEF Added
  <2>8. Q(m + 1)
    <3>1. IsBuild(u) /\ u.freeinode = (m + 1) + 2
      BY <2>2, <2>6 DEF AddedBuild
    <3>2. (m + 1) + 2 = m + 3
      OBVIOUS
    <3> HIDE DEF u
    <3> QED BY <2>1, <2>7, <3>1, <3>2
  <2> HIDE DEF Q
  <2> QED BY <2>3, <2>8
<1>5. S \subseteq 0 .. n
  OBVIOUS
<1> HIDE DEF S
<1>6. n \in S
  BY <1>3, <1>4, <1>5, Reached
<1> QED BY <1>6 DEF S

-----------------------------------------------------------------------------
(* The root's size becomes a multiple of the block size, which it may.     *)
LEMMA RoundedSize ==
  ASSUME NEW n \in Nat, n < MaxFile * BSize
  PROVE  (n \div BSize + 1) * BSize \in 0 .. (MaxFile * BSize)
<1> DEFINE l == n \div BSize
           M == MaxFile * BSize
<1>1. M \in Nat /\ MaxFile \in Nat /\ BSize \in Nat \ {0}
  BY Sizes
<1>2. n \in 0 .. (M - 1)
  <2>1. n < M
    OBVIOUS
  <2> HIDE DEF M
  <2> QED BY <1>1, <2>1
<1>3. l \in 0 .. (MaxFile - 1)
  BY <1>2, LineOf
<1> HIDE DEF l
<1> DEFINE d == MaxFile - (l + 1)
<1>4. d \in Nat /\ MaxFile = (l + 1) + d /\ l + 1 \in Nat
  BY <1>1, <1>3
<1> HIDE DEF d
<1>5. M = (l + 1) * BSize + d * BSize /\ (l + 1) * BSize \in Nat /\ d * BSize \in Nat
  BY <1>1, <1>4
<1> DEFINE p == (l + 1) * BSize
           r == d * BSize
<1>6. M = p + r /\ p \in Nat /\ r \in Nat
  BY <1>5
<1> HIDE DEF M, p, r
<1>7. p \in 0 .. M
  BY <1>6
<1> QED BY <1>7 DEF M, p, l

(* RoundRoot, on what was built.                                           *)
LEMMA RoundRootLaid ==
  ASSUME NEW st, Laid(st), OnDisk(Img(st), Root).size < MaxFile * BSize
  PROVE  /\ Ready(RoundRoot(st)) /\ RoundRoot(st).freeblock = st.freeblock
         /\ Accounted(RowsOf(RoundRoot(st)), Img(RoundRoot(st)), {})
<1> DEFINE din == OnDisk(Img(st), Root)
           u == RoundRoot(st)
           n == (din.size \div BSize + 1) * BSize
           din2 == [din EXCEPT !.size = n]
<1>1. Ready(st) /\ Accounted(RowsOf(st), Img(st), {}) /\ Root \in Inums /\ IsBuild(st)
  BY RootIsInode DEF Laid, Ready
<1>2. din \in InodeSet /\ RowsOf(st)[Root] = Row(Root, din) /\ Rinode(st, Root) = din
      /\ RowsOf(st) \in [Inums -> InodeSet] /\ din.type # "free"
  BY <1>1, RowsOfAre DEF Ready, Memory
<1>3. u = Winode(st, Root, din2)
  BY <1>2 DEF RoundRoot
<1>4. n \in 0 .. (MaxFile * BSize)
  <2>1. din.size \in Nat
    BY <1>2, Sizes DEF InodeSet
  <2> QED BY <2>1, RoundedSize
<1> HIDE DEF din, n, u
<1>5. din2 \in InodeSet /\ din2.type = din.type /\ Row(Root, din2) = Row(Root, din)
  BY <1>1, <1>2, <1>4, RowSize
<1> HIDE DEF din2
<1>6. Stores(st, u, Root, din2)
  BY <1>1, <1>3, WinodeStores
<1>7. StoredAs(st, u, Root, din2)
  BY <1>1, <1>2, <1>5, <1>6, StoresReady
<1>8. RowsOf(u) = RowsOf(st)
  <2>1. RowsOf(u) = With(RowsOf(st), Root, RowsOf(st)[Root])
    BY <1>2, <1>5, <1>7 DEF StoredAs
  <2> QED BY <1>2, <2>1 DEF With
<1>9. Accounted(RowsOf(u), Img(u), {})
  BY <1>1, <1>7, <1>8, AccountedAgrees DEF StoredAs
<1>10. u.freeblock = st.freeblock
  BY <1>6 DEF Stores
<1> QED BY <1>7, <1>9, <1>10 DEF StoredAs, u

(* The image that mkfs builds accounts for every block.                    *)
LEMMA ImageSane ==
  ASSUME NEW files, Buildable(files)
  PROVE  IsDisk(Image(files)) /\ Sane(Unread0, Image(files), {}, {})
<1> DEFINE n == Len(files)
           M == MaxFile * BSize
           d == Image(files)
           u == Built(files)
<1>1. n \in Nat /\ n + 2 < M /\ M \in Nat /\ u.freeblock <= FSSize
  BY LenProperties, Sizes DEF Buildable
<1>2. PICK f : u = RoundRoot(f[n]) /\ BuildTurns(f, files, n)
  BY <1>1, BuiltTurns
<1> DEFINE st == f[n]
<1>3. IsBuild(st) /\ (st.freeblock <= FSSize => Laid(st) /\ OnDisk(Img(st), Root).size \in 0 .. (n + 2))
  BY <1>1, <1>2, FilesLaid
<1> HIDE DEF n, st, u, M, d
<1>4. u = RoundRoot(st)
  BY <1>2 DEF st
<1>5. u.freeblock = st.freeblock
  BY <1>3, <1>4, RootIsInode, WinodeStores DEF RoundRoot, Stores
<1>6. Laid(st) /\ OnDisk(Img(st), Root).size < M
  BY <1>1, <1>3, <1>5
<1>7. Ready(u) /\ Accounted(RowsOf(u), Img(u), {})
  BY <1>4, <1>6, RoundRootLaid DEF M
<1>8. IsBuild(u) /\ Memory(Unread0, Img(u), {})
  BY <1>7 DEF Ready
<1>9. d = Img(u) /\ IsDisk(d)
  BY <1>8, ImgIs DEF d, u, Image
<1> DEFINE F == RowsOf(u)
           din == OnDisk(d, Root)
           r == [F[Root] EXCEPT !.size = din.size]
<1>10. /\ F \in [Inums -> InodeSet] /\ Root \in Inums
       /\ \A i \in Inums : OnDisk(d, i) \in InodeSet /\ F[i] = Row(i, OnDisk(d, i))
       /\ din \in InodeSet /\ din.size \in 0 .. M /\ din.type # "free"
  BY <1>7, <1>8, <1>9, RowsOfAre, RootIsInode DEF InodeSet, Memory, M
<1>11. F = [i \in Inums |-> Row(i, OnDisk(d, i))]
  BY <1>9 DEF RowsOf
<1> HIDE DEF F, din, r
<1>12. F[Root] \in InodeSet /\ F[Root].type # "free" /\ F[Root].size = MaxFile * BSize
       /\ F[Root].type = din.type /\ F[Root].nlink = din.nlink /\ F[Root].addrs = din.addrs
  BY <1>10, RowIs DEF din
<1>13. r = din
  <2>1. r = [type |-> F[Root].type, nlink |-> F[Root].nlink, size |-> din.size, addrs |-> F[Root].addrs]
    BY <1>12, InodeIs DEF r
  <2>2. din = [type |-> din.type, nlink |-> din.nlink, size |-> din.size, addrs |-> din.addrs]
    BY <1>10, InodeIs
  <2> QED BY <1>12, <2>1, <2>2
<1>14. Accounted(With(F, Root, r), d, {})
  <2>1. Accounted(F, d, {}) /\ Entries(F, d, {}, M)
    BY <1>7, <1>9, <1>12 DEF Accounted, F, M
  <2>2. Entries(F, d, {}, din.size)
    <3>1. \A l \in 0 .. (MaxFile - 1), q \in 0 .. (BSize - 1) : l * BSize + q < din.size => l * BSize + q < M
      <4> TAKE l \in 0 .. (MaxFile - 1), q \in 0 .. (BSize - 1)
      <4> DEFINE p == l * BSize
      <4>1. p \in Int /\ q \in Int
        BY Sizes
      <4> HIDE DEF p
      <4>2. p + q < din.size => p + q < M
        BY <1>1, <1>10, <4>1
      <4> QED BY <4>2 DEF p
    <3> QED BY <2>1, <3>1 DEF Entries
  <2>3. din.size \in 0 .. (MaxFile * BSize)
    BY <1>10 DEF M
  <2> QED BY <1>10, <1>12, <2>1, <2>2, <2>3, ResizedAccounted DEF r
<1>15. Table(Unread0, d) = With(F, Root, r)
  <2>1. Table(Unread0, d) = [i \in Inums |-> OnDisk(d, i)]
    BY Unread0Is DEF Table
  <2>2. With(F, Root, r) = [i \in Inums |-> IF i = Root THEN r ELSE Row(i, OnDisk(d, i))]
    BY <1>11 DEF With
  <2>3. \A i \in Inums : OnDisk(d, i) = IF i = Root THEN r ELSE Row(i, OnDisk(d, i))
    BY <1>10, <1>13, RowIs DEF din
  <2> QED BY <2>1, <2>2, <2>3
<1> QED BY <1>8, <1>9, <1>14, <1>15 DEF Sane, d

-----------------------------------------------------------------------------
(* The file system is consistent from start-up on.                        *)

(* Buffers that nothing has used, as binit leaves them.                    *)
Unused == [dev |-> 0, bno |-> 0, valid |-> FALSE, refcnt |-> 0, data |-> ZeroBlock]
NewWorld(disk, ip) ==
  [bufs |-> [k \in 1 .. NBuf |-> Unused], disk |-> disk, panic |-> NoPanic, lost |-> FALSE, ip |-> ip]

(* At start-up no buffer is in use, and the disk shows what mkfs wrote.   *)
LEMMA NewWorldIs ==
  ASSUME NEW disk, NEW ip
  PROVE  LET v == NewWorld(disk, ip)
         IN /\ Have(v, Nobody, Nobody) /\ v.ip = ip
            /\ IsDisk(disk) => Disk(v) = disk
<1> DEFINE v == NewWorld(disk, ip)
<1>1. World(v) /\ v.panic = NoPanic /\ v.lost = FALSE /\ v.ip = ip /\ v.disk = disk
  BY DEF World, NewWorld
<1>2. \A k \in 1 .. NBuf : v.bufs[k] = Unused
  BY DEF NewWorld
<1>3. IsBuffer(Unused) /\ Unused.dev # RootDev /\ Unused.refcnt = 0
  BY DEF IsBuffer, RootDev, Unused
<1>3a. Unused.dev \in {0, RootDev} /\ Unused.bno = 0 /\ Unused.valid = FALSE
  BY DEF Unused
<1>4. v.bufs = [k \in 1 .. NBuf |-> v.bufs[k]]
  BY DEF NewWorld
<1>5. \A b : Nobody # Id(b)
  BY IdsDiffer
<1>6. NoPanic # "buffers"
  BY DEF NoPanic
<1> HIDE DEF v
<1>7. Cached(v.bufs, Nobody, Nobody)
  BY <1>2, <1>3, <1>4, <1>5 DEF Cached, Of
<1>8. Ok(v, Nobody, Nobody)
  BY <1>1, <1>6, <1>7 DEF Ok
<1>9. Loaded(v.bufs)
  <2>1. 0 \in Blocks
    BY Sizes DEF Blocks
  <2>2. Typed(Unused)
    BY <1>3a, <2>1 DEF Typed
  <2> QED BY <1>2, <1>3, <2>2 DEF Loaded
<1>10. Have(v, Nobody, Nobody)
  BY <1>1, <1>8, <1>9 DEF Have, Calm
<1>11. ASSUME IsDisk(disk) PROVE Disk(v) = disk
  <2>1. DOMAIN v.bufs = 1 .. NBuf
    BY <1>4
  <2>2. \A b : At(v, b) = {}
    BY <1>2, <1>3, <2>1 DEF At
  <2>3. \A b : Now(v, b) = disk[b]
    BY <1>1, <2>2 DEF Now
  <2> QED BY <1>11, <2>3 DEF Disk, IsDisk
<1> QED BY <1>1, <1>10, <1>11 DEF v

(* fsinit reads the superblock and leaves the image as it was built.       *)
LEMMA InitConsistent ==
  ASSUME Init
  PROVE  Consistent(w)
<1> DEFINE NoCopy == [ref |-> 0, valid |-> FALSE, din |-> FreeInode]
           ip == [i \in Inums |-> IF i = Root THEN [NoCopy EXCEPT !.ref = 1] ELSE NoCopy]
<1>1. PICK files \in Images : w = Mounted(NewWorld(Image(files), ip))
  BY DEF Init, NewWorld, Unused
<1>2. ip = Unread0
  <2>0. NoCopy = [ref |-> 0, valid |-> FALSE, din |-> FreeInode]
    OBVIOUS
  <2> HIDE DEF NoCopy
  <2>1. [NoCopy EXCEPT !.ref = 1] = [ref |-> 1, valid |-> FALSE, din |-> FreeInode]
    <3>1. ASSUME NEW c, NEW x, NEW y, c = [ref |-> 0, valid |-> x, din |-> y]
          PROVE  [c EXCEPT !.ref = 1] = [ref |-> 1, valid |-> x, din |-> y]
      BY <3>1
    <3> QED BY <2>0, <3>1, Zenon
  <2> DEFINE c == [NoCopy EXCEPT !.ref = 1]
  <2>2. \A i \in Inums : (IF i = Root THEN c ELSE NoCopy) =
                           [ref |-> IF i = Root THEN 1 ELSE 0, valid |-> FALSE, din |-> FreeInode]
    BY <2>0, <2>1
  <2> HIDE DEF c
  <2> QED BY <2>2 DEF Unread0, c
<1> HIDE DEF NoCopy
<1> HIDE DEF ip
<1>3. IsDisk(Image(files)) /\ Sane(ip, Image(files), {}, {})
  BY <1>2, ImagesAssumption, ImageSane
<1> DEFINE v == NewWorld(Image(files), ip)
           r == Bread(v, 1)
           u == Brelease(r, 1)
<1>4. Have(v, Nobody, Nobody) /\ v.ip = ip /\ Disk(v) = Image(files)
  BY <1>3, NewWorldIs
<1>5. w = u
  BY <1>1 DEF Mounted
<1> HIDE DEF v
<1>6. Have(r, Id(1), Nobody) /\ (Live(r) => Same(v, r))
  BY <1>4, Layout, BreadSame
<1> HIDE DEF r
<1>7. Have(u, Nobody, Nobody) /\ (Live(u) => Same(r, u))
  BY <1>6, BreleaseSame
<1> HIDE DEF u
<1>8. ASSUME Live(u) PROVE Whole(u) /\ \A j \in Inums : u.ip[j].ref \in 0 .. MaxRef
  <2>1. u.ip = ip /\ Disk(u) = Image(files)
    BY <1>4, <1>6, <1>7, <1>8 DEF Same
  <2>2. Whole(u)
    BY <1>3, <2>1 DEF Whole, Sound
  <2>3. \A j \in Inums : Unread0[j].ref \in 0 .. MaxRef
    BY FsAssumption DEF Unread0
  <2> QED BY <1>2, <2>1, <2>2, <2>3
<1> QED BY <1>5, <1>7, <1>8 DEF Consistent

(* Everything is accounted for, after every sequence of calls.             *)
THEOREM StaysConsistent == Spec => []Consistent(w)
<1>1. Init => Consistent(w)
  BY InitConsistent
<1>2. Consistent(w) /\ [Next]_vars => Consistent(w)'
  <2>1. Consistent(w)' <=> Consistent(w')
    OBVIOUS
  <2> QED BY <2>1, NextConsistent
<1> QED BY <1>1, <1>2, PTL DEF Spec

-----------------------------------------------------------------------------
(* What BlocksAccounted counts.                                           *)

(* What the properties see of inode i and of its blocks.                   *)
LEMMA SeenIs ==
  ASSUME Consistent(w), Live(w), NEW i \in Inums
  PROVE  /\ Din(i) = Inodes(w)[i] /\ Inodes(w)[i] \in InodeSet
         /\ \A k \in 0 .. MaxFile : AddressOf(i, k) = Loc(w, i, k) /\ Loc(w, i, k) \in Links
         /\ \A k \in 0 .. (MaxFile - 1) : BlockOf(i, k) = Loc(w, i, k)
<1> DEFINE F == Inodes(w)
           d == Disk(w)
<1>1. Accounted(F, d, {}) /\ F = Table(w.ip, d)
  BY DEF Consistent, Whole, Sound, Sane, Inodes
<1>2. Shaped(F, d) /\ Linked(F, d) /\ F[i] \in InodeSet /\ F[i].addrs[NDirect] \in Links
  BY <1>1, AddrsAre DEF Accounted
<1>3. \A b \in Blocks : d[b] = Now(w, b)
  BY DEF Disk
<1>4. Din(i) = F[i]
  <2>1. d[IBlock(i)] = Now(w, IBlock(i))
    BY <1>3, InodePlace
  <2> HIDE DEF F, d
  <2> QED BY <1>1, <2>1 DEF Din, Table, Used, OnDisk
<1> HIDE DEF F, d
<1>5. ASSUME NEW k \in 0 .. (MaxFile - 1) PROVE BlockOf(i, k) = Addr(F, d, i, k)
  <2> DEFINE a == F[i].addrs
  <2>1. a[NDirect] # 0 => d[a[NDirect]] = Now(w, a[NDirect])
    BY <1>2, <1>3, Sizes DEF Links
  <2>2. BlockOf(i, k) = IF k < NDirect THEN a[k] ELSE IF a[NDirect] = 0 THEN 0
                        ELSE Address(Now(w, a[NDirect])[k - NDirect])
    BY <1>4 DEF BlockOf
  <2>3. k # MaxFile
    BY Sizes
  <2> QED BY <2>1, <2>2, <2>3 DEF Addr
<1>6. ASSUME NEW k \in 0 .. MaxFile
      PROVE  AddressOf(i, k) = Addr(F, d, i, k) /\ Addr(F, d, i, k) \in Links
  <2>1. k = MaxFile \/ k \in 0 .. (MaxFile - 1)
    BY Sizes
  <2>2. ASSUME k = MaxFile PROVE AddressOf(i, k) = Addr(F, d, i, k)
    <3>1. ~ (k < NDirect)
      BY <2>2, Sizes
    <3> QED BY <1>4, <2>2, <3>1 DEF AddressOf, Addr
  <2>3. ASSUME k # MaxFile PROVE AddressOf(i, k) = Addr(F, d, i, k)
    BY <1>5, <2>1, <2>3 DEF AddressOf
  <2>4. Addr(F, d, i, k) \in Links
    BY <1>2, AddrIsLink
  <2> QED BY <2>2, <2>3, <2>4
<1> QED BY <1>2, <1>4, <1>5, <1>6 DEF Loc, F, d

(* A set whose members all have different values has as many as values.    *)
LEMMA ImageCounts ==
  ASSUME NEW f, NEW S, IsFiniteSet(S), \A x, y \in S : f[x] = f[y] => x = y
  PROVE  Cardinality({f[x] : x \in S}) = Cardinality(S)
<1> DEFINE T == {f[x] : x \in S}
           g == [x \in S |-> f[x]]
<1>1. g \in [S -> T] /\ \A x \in S : g[x] = f[x]
  OBVIOUS
<1>2. \A t \in T : \E x \in S : g[x] = t
  OBVIOUS
<1> HIDE DEF g
<1>3. g \in Bijection(S, T)
  BY <1>1, <1>2 DEF Bijection, Injection, Surjection, IsInjective
<1>4. ExistsBijection(S, T)
  BY <1>3 DEF ExistsBijection
<1> QED BY <1>4, FS_Bijection

(* There are finitely many block numbers of all inodes.                   *)
LEMMA AddressesFinite ==
  IsFiniteSet(Inums \X (0 .. MaxFile))
<1>1. 0 \in Int /\ 1 \in Int /\ NInodes - 1 \in Int /\ MaxFile \in Int
  BY Layout, Sizes
<1>2. IsFiniteSet(Inums) /\ IsFiniteSet(0 .. MaxFile)
  BY <1>1, FS_Interval DEF Inums
<1> QED BY <1>2, FS_Product

(* What a file system check would ask holds of what is consistent.         *)
LEMMA ConsistentAccounts ==
  ASSUME Consistent(w)
  PROVE  BlocksAccounted
<1> SUFFICES ASSUME Runs PROVE BlocksAccounted
  BY DEF BlocksAccounted
<1> DEFINE F == Inodes(w)
           d == Disk(w)
           holds == [h \in InUse \X (0 .. MaxFile) |-> AddressOf(h[1], h[2])]
           held == {h \in DOMAIN holds : holds[h] # 0}
           blocks == {holds[h] : h \in held}
<1>0. Live(w)
  BY DEF Runs, Live
<1>1. /\ Shaped(F, d) /\ Unshared(F, d) /\ Marked(F, d)
      /\ \A i \in Files : Gapless(F, d, i, F[i].size)
  BY <1>0 DEF Consistent, Whole, Sound, Sane, Inodes, Accounted
<1>2. /\ \A i \in Inums : Din(i) = F[i] /\ F[i] \in InodeSet
      /\ \A i \in Inums, k \in 0 .. MaxFile : AddressOf(i, k) = Addr(F, d, i, k) /\ Addr(F, d, i, k) \in Links
  BY <1>0, SeenIs DEF Loc
<1>3. InUse = {i \in Inums : F[i].type # "free"}
  BY <1>2 DEF InUse
<1>4. /\ DOMAIN holds = InUse \X (0 .. MaxFile)
      /\ \A i \in InUse, k \in 0 .. MaxFile : holds[i, k] = Addr(F, d, i, k)
  <2>1. \A i \in InUse, k \in 0 .. MaxFile : holds[<<i, k>>] = AddressOf(i, k)
    OBVIOUS
  <2> HIDE DEF holds
  <2> QED BY <1>2, <1>3, <2>1 DEF holds
<1>4a. ASSUME NEW h \in held PROVE \E i \in InUse, k \in 0 .. MaxFile : h = <<i, k>>
  <2>1. h \in InUse \X (0 .. MaxFile)
    BY <1>4
  <2> QED BY <2>1
<1> HIDE DEF F, d, holds
<1>5. Cardinality(blocks) = Cardinality(held)
  <2>1. held \subseteq Inums \X (0 .. MaxFile)
    BY <1>3, <1>4
  <2>2. IsFiniteSet(held)
    BY <2>1, AddressesFinite, FS_Subset
  <2>3. ASSUME NEW x \in held, NEW y \in held, holds[x] = holds[y] PROVE x = y
    <3>1. PICK i \in InUse, k \in 0 .. MaxFile : x = <<i, k>>
      BY <1>4a
    <3>2. PICK j \in InUse, l \in 0 .. MaxFile : y = <<j, l>>
      BY <1>4a
    <3>3. i \in Inums /\ j \in Inums
      BY <1>3
    <3>4. Addr(F, d, i, k) = Addr(F, d, j, l) /\ Addr(F, d, i, k) # 0
      <4>1. holds[x] = Addr(F, d, i, k)
        BY <1>4, <3>1
      <4>2. holds[y] = Addr(F, d, j, l)
        BY <1>4, <3>2
      <4> QED BY <2>3, <4>1, <4>2
    <3>5. i = j /\ k = l
      BY <1>1, <3>3, <3>4 DEF Unshared
    <3> QED BY <3>1, <3>2, <3>5
  <2> HIDE DEF held
  <2> QED BY <2>2, <2>3, ImageCounts
<1>6. Now(w, BmapStart) = 0 .. (NMeta - 1) \cup blocks
  <2>1. Now(w, BmapStart) = d[BmapStart]
    BY Layout DEF d, Disk
  <2>2. \A b : b \in blocks <=> b # 0 /\ \E i \in InUse, k \in 0 .. MaxFile : b = Addr(F, d, i, k)
    <3> TAKE b
    <3>1. ASSUME b \in blocks PROVE b # 0 /\ \E i \in InUse, k \in 0 .. MaxFile : b = Addr(F, d, i, k)
      <4>1. PICK h \in held : b = holds[h]
        BY <3>1
      <4>2. PICK i \in InUse, k \in 0 .. MaxFile : h = <<i, k>>
        BY <1>4a
      <4> QED BY <1>4, <4>1, <4>2
    <3>2. ASSUME b # 0, NEW i \in InUse, NEW k \in 0 .. MaxFile, b = Addr(F, d, i, k) PROVE b \in blocks
      <4>1. <<i, k>> \in held /\ holds[<<i, k>>] = b
        BY <1>4, <3>2
      <4> QED BY <4>1
    <3> QED BY <3>1, <3>2
  <2> HIDE DEF blocks
  <2>3. \A i \in Inums, k \in 0 .. MaxFile : F[i].type = "free" => Addr(F, d, i, k) = 0
    <3> TAKE i \in Inums, k \in 0 .. MaxFile
    <3> HAVE F[i].type = "free"
    <3>1. F[i].addrs = [m \in 0 .. NDirect |-> 0]
      BY <1>1 DEF Shaped, FreeInode
    <3>2. NDirect \in 0 .. NDirect /\ (k < NDirect => k \in 0 .. NDirect)
      BY Sizes
    <3> QED BY <3>1, <3>2 DEF Addr
  <2>4. \A b : b \in blocks <=> b # 0 /\ Holds(F, d, b)
    BY <1>3, <2>2, <2>3 DEF Holds
  <2>5. \A b : b \in blocks => b \in Blocks
    BY <1>2, <2>4, Sizes DEF Holds, Links
  <2>6. ASSUME NEW b \in Blocks PROVE b \in d[BmapStart] <=> b \in 0 .. (NMeta - 1) \/ b \in blocks
    <3>1. b < NMeta <=> b \in 0 .. (NMeta - 1)
      BY Sizes DEF Blocks
    <3>2. b = 0 => b < NMeta
      BY Sizes
    <3> QED BY <1>1, <2>4, <3>1, <3>2 DEF Marked
  <2>7. 0 .. (NMeta - 1) \subseteq Blocks /\ d[BmapStart] \subseteq Blocks
    BY <1>1, Sizes DEF Blocks, Marked
  <2> QED BY <2>1, <2>5, <2>6, <2>7
<1>7. ASSUME NEW i \in InUse \cap Files, NEW p \in 1 .. Din(i).size
      PROVE  holds[i, (p - 1) \div BSize] # 0
  <2>1. i \in Inums /\ Din(i) = F[i] /\ F[i].size \in 0 .. (MaxFile * BSize)
    BY <1>2 DEF Files, InodeSet
  <2> DEFINE q == p - 1
             l == q \div BSize
             M == MaxFile * BSize
  <2>2. p \in 1 .. F[i].size
    BY <2>1
  <2>3. q \in 0 .. (M - 1) /\ q < F[i].size
    <3> HIDE DEF M
    <3>1. F[i].size \in 0 .. M /\ M \in Nat
      BY <2>1, Sizes DEF M
    <3> QED BY <2>2, <3>1
  <2> HIDE DEF q
  <2>4. l \in 0 .. (MaxFile - 1) /\ q % BSize \in 0 .. (BSize - 1) /\ q = l * BSize + (q % BSize)
    BY <2>3, LineOf
  <2> HIDE DEF l
  <2>5. l * BSize < F[i].size
    <3> DEFINE s == l * BSize
               r == q % BSize
    <3>1. s \in Int /\ r \in Nat /\ q = s + r
      BY <2>4, Sizes
    <3> HIDE DEF s, r
    <3>2. s < F[i].size
      BY <2>1, <2>3, <3>1, Sizes
    <3> QED BY <3>2 DEF s
  <2>6. Addr(F, d, i, l) # 0 /\ l \in 0 .. MaxFile
    BY <1>1, <2>4, <2>5, Sizes DEF Gapless
  <2> QED BY <1>4, <2>6 DEF l, q
<1> QED BY <1>5, <1>6, <1>7 DEF BlocksAccounted, holds

(* No block of the disk is in two places, lost or free while it is used,   *)
(* after every sequence of calls.                                          *)
THEOREM BlocksStayAccounted == Spec => []BlocksAccounted
<1>1. Consistent(w) => BlocksAccounted
  BY ConsistentAccounts
<1> QED BY <1>1, StaysConsistent, PTL

-----------------------------------------------------------------------------
(* What a read may fail of.                                               *)

(* What a read can fail of: it has no buffer, or no block of that number   *)
(* can be mapped.                                                          *)
Tame(u) == World(u) /\ u.panic \in {NoPanic, "buffers", "bmap"}

(* A read that stops at bget or bmap.                                     *)
LEMMA StopTame ==
  ASSUME NEW v, Tame(v), NEW why \in {"buffers", "bmap"}
  PROVE  Tame(Stop(v, why))
BY DEF Tame, World, Stop

(* A change of a buffer fails of nothing.                                 *)
LEMMA WithBufTame ==
  ASSUME NEW v, Tame(v), NEW k, NEW buf
  PROVE  Tame(WithBuf(v, k, buf))
<1>1. World(v)
  BY DEF Tame
<1>2. World(WithBuf(v, k, buf))
  BY <1>1, WithBufIs
<1>3. WithBuf(v, k, buf).panic = v.panic
  BY <1>1 DEF World, WithBuf
<1> QED BY <1>2, <1>3 DEF Tame

(* bget fails only when all buffers are in use.                           *)
LEMMA BgetTame ==
  ASSUME NEW v, Tame(v), NEW b
  PROVE  Tame(Bget(v, b))
<1>1. ASSUME NEW k PROVE Tame(Shared(v, k))
  BY WithBufTame DEF Shared
<1>2. ASSUME NEW k PROVE Tame(Recycled(v, k, b))
  <2> DEFINE u == WithBuf(v, k, Buffer(b, FALSE, 1, v.bufs[k].data))
  <2>1. Tame(u)
    BY WithBufTame
  <2> HIDE DEF u
  <2>2. PICK lost : Recycled(v, k, b) = [u EXCEPT !.lost = lost]
    BY DEF Recycled, u
  <2> QED BY <2>1, <2>2 DEF Tame, World
<1> QED BY <1>1, <1>2, StopTame DEF Bget

(* bread fails only as bget does.                                         *)
LEMMA BreadTame ==
  ASSUME NEW v, Tame(v), NEW b
  PROVE  Tame(Bread(v, b))
BY BgetTame, WithBufTame DEF Bread, Filled

(* brelse of a read fails of nothing.                                     *)
LEMMA BreleaseTame ==
  ASSUME NEW v, Tame(v), NEW b
  PROVE  Tame(Brelease(v, b))
<1> DEFINE k == Min(At(v, b))
           buf == [v.bufs[k] EXCEPT !.refcnt = @ - 1]
           bufs == ToFront(v.bufs, k, buf)
<1>1. Brelease(v, b) = v \/ Brelease(v, b) = WithBuf(v, k, buf) \/ Brelease(v, b) = [v EXCEPT !.bufs = bufs]
  BY DEF Brelease
<1> HIDE DEF k, buf, bufs
<1>2. Tame([v EXCEPT !.bufs = bufs])
  BY DEF Tame, World
<1> QED BY <1>1, <1>2, WithBufTame

(* A write into a buffer fails of nothing.                                *)
LEMMA SetDataTame ==
  ASSUME NEW v, Tame(v), NEW b, NEW data
  PROVE  Tame(SetData(v, b, data))
BY WithBufTame DEF SetData

(* bzero fails only as bread does.                                        *)
LEMMA BzeroTame ==
  ASSUME NEW v, Tame(v), NEW b
  PROVE  Tame(Bzero(v, b))
BY BreadTame, SetDataTame, BreleaseTame DEF Bzero

(* balloc fails only as bread does; what is full it reports as block 0.   *)
LEMMA BallocTame ==
  ASSUME NEW v, Tame(v)
  PROVE  Tame(Balloc(v).w)
<1> DEFINE bm == Bread(v, BmapStart)
<1>1. Tame(bm)
  BY BreadTame
<1>2. Balloc(v) = TakeFree(bm)
  BY DEF Balloc
<1> HIDE DEF bm
<1> DEFINE b == Min(FreeIn(bm))
           marked == MarkBlock(bm, b)
<1>3. Tame(marked)
  BY <1>1, SetDataTame, BreleaseTame DEF MarkBlock
<1>4. Balloc(v).w = bm \/ Balloc(v).w = Brelease(bm, BmapStart) \/ Balloc(v).w = Bzero(marked, b)
  BY <1>2 DEF TakeFree
<1> HIDE DEF b, marked
<1> QED BY <1>1, <1>3, <1>4, BreleaseTame, BzeroTame

(* A direct address is mapped with failures of balloc only.               *)
LEMMA DirectTame ==
  ASSUME NEW v, Tame(v), NEW i, NEW k
  PROVE  Tame(Direct(v, i, k).w)
<1> DEFINE got == Balloc(v)
<1>1. Tame(got.w)
  BY BallocTame
<1>2. Direct(v, i, k).w = v \/ Direct(v, i, k).w = Assign(got, i, k).w
  BY DEF Direct
<1> HIDE DEF got
<1>3. PICK ip : Assign(got, i, k).w = [got.w EXCEPT !.ip = ip]
  BY DEF Assign
<1>4. Tame(Assign(got, i, k).w)
  BY <1>1, <1>3 DEF Tame, World
<1> QED BY <1>2, <1>4

(* An entry of the indirect block is mapped with failures of bread and    *)
(* balloc only.                                                           *)
LEMMA EntryTame ==
  ASSUME NEW r, Tame(r), NEW b, NEW k
  PROVE  Tame(EntryIn(r, b, k).w)
<1> DEFINE got == Balloc(r)
           data == [Data(got.w, b) EXCEPT ![k] = <<got.b>>]
           e == EntryIn(r, b, k)
<1>1. Tame(got.w)
  BY BallocTame
<1>2. e.w = r \/ e.w = Brelease(r, b) \/ e.w = Brelease(got.w, b) \/ e.w = Brelease(SetData(got.w, b, data), b)
  BY DEF EntryIn, SetEntry
<1> HIDE DEF got, data, e
<1>3. Tame(e.w)
  BY <1>1, <1>2, BreleaseTame, SetDataTame
<1> QED BY <1>3 DEF e

(* bmap fails of a number past MAXFILE, and as balloc does.               *)
LEMMA BmapTame ==
  ASSUME NEW v, Tame(v), NEW i, NEW bn
  PROVE  Tame(Bmap(v, i, bn).w)
<1> DEFINE ind == Direct(v, i, NDirect)
           m == Bmap(v, i, bn)
<1>1. Tame(ind.w)
  BY DirectTame
<1>2. m = Direct(v, i, bn) \/ m = ind \/ m = EntryIn(Bread(ind.w, ind.b), ind.b, bn - NDirect) \/ m.w = Stop(v, "bmap")
  BY DEF Bmap, Indirect
<1> HIDE DEF ind, m
<1>3. Tame(m.w)
  BY <1>1, <1>2, DirectTame, BreadTame, EntryTame, StopTame
<1> QED BY <1>3 DEF m

(* A turn of read fails as bmap and bread do.                             *)
LEMMA ReadNextTame ==
  ASSUME NEW t, Tame(t.w), NEW i
  PROVE  Tame(ReadNext(t, i).w)
<1> DEFINE m == Bmap(t.w, i, t.off \div BSize)
           s == [w |-> Bread(m.w, m.b), off |-> t.off, n |-> t.n, words |-> t.words]
           u == ReadNext(t, i)
<1>1. Tame(m.w)
  BY BmapTame
<1>2. u = t \/ u.w = m.w \/ u = FromBlock(s, m.b)
  BY DEF ReadNext, ReadBlock
<1>3. s.w = Bread(m.w, m.b)
  OBVIOUS
<1> HIDE DEF m, s, u
<1>4. Tame(s.w)
  BY <1>1, <1>3, BreadTame
<1>5. FromBlock(s, m.b) = s \/ FromBlock(s, m.b).w = Brelease(s.w, m.b)
  BY DEF FromBlock
<1>6. Tame(u.w)
  BY <1>1, <1>2, <1>4, <1>5, BreleaseTame
<1> QED BY <1>6 DEF u

(* read fails as its turns do.                                            *)
LEMMA ReadInodeTame ==
  ASSUME NEW v, Tame(v), NEW i, NEW off, NEW n \in Nat
  PROVE  Tame(ReadInode(v, i, off, n).w)
<1>1. PICK m : ReadInode(v, i, off, n)
                 = ReadOn([w |-> v, off |-> off, words |-> <<>>, n |-> m], i, n)
  BY DEF ReadInode
<1> DEFINE t == [w |-> v, off |-> off, words |-> <<>>, n |-> m]
<1>2. Tame(t.w)
  OBVIOUS
<1> HIDE DEF t
<1>3. PICK f : ReadOn(t, i, n) = f[n] /\ ReadTurns(f, t, i, n)
  BY ReadOnTurns
<1>4. ReadOn(t, i, n) = f[n] /\ f[0] = t /\ \A k \in 0 .. (n - 1) : f[k + 1] = ReadNext(f[k], i)
  BY <1>3 DEF ReadTurns
<1> DEFINE S == {k \in Nat : Tame(f[k].w)}
<1>5. 0 \in S
  BY <1>2, <1>4
<1>6. ASSUME NEW k \in 0 .. (n - 1), k \in S PROVE k + 1 \in S
  BY <1>4, <1>6, ReadNextTame
<1> HIDE DEF S
<1>7. n \in S
  BY <1>5, <1>6, Reached
<1> QED BY <1>1, <1>4, <1>7 DEF S, t

-----------------------------------------------------------------------------
(* Types, and what a read returns.                                        *)

(* The words of a file are where its blocks say.                           *)
LEMMA ContentsAre ==
  ASSUME Consistent(w), Live(w), NEW i \in Files
  PROVE  /\ Din(i).size \in 0 .. (MaxFile * BSize)
         /\ Contents(i) = [p \in 1 .. Din(i).size |-> WordAt(w, i, p - 1)]
<1> DEFINE size == Din(i).size
           M == MaxFile * BSize
           block == [bn \in 0 .. (MaxFile - 1) |-> BlockOf(i, bn)]
           word(p) == LET b == block[(p - 1) \div BSize]
                      IN IF b = 0 THEN Zero ELSE Now(w, b)[(p - 1) % BSize]
<1>1. i \in Inums
  BY DEF Files
<1>2. /\ Din(i) = Inodes(w)[i] /\ size \in 0 .. M
      /\ \A k \in 0 .. (MaxFile - 1) : BlockOf(i, k) = Loc(w, i, k)
      /\ \A k \in 0 .. MaxFile : Loc(w, i, k) \in Links
  BY <1>1, SeenIs DEF InodeSet
<1>3. Gapless(Inodes(w), Disk(w), i, size)
  BY <1>2 DEF Consistent, Whole, Sound, Sane, Inodes, Accounted
<1>4. ASSUME NEW p \in 1 .. size PROVE word(p) = WordAt(w, i, p - 1)
  <2> DEFINE q == p - 1
             l == q \div BSize
             b == Loc(w, i, l)
  <2>1. q \in 0 .. (M - 1) /\ q < size
    <3> HIDE DEF M, size
    <3>1. M \in Nat
      BY Sizes DEF M
    <3> QED BY <1>2, <3>1
  <2> HIDE DEF q
  <2>2. l \in 0 .. (MaxFile - 1) /\ q % BSize \in 0 .. (BSize - 1) /\ q = l * BSize + (q % BSize)
    BY <2>1, LineOf
  <2> HIDE DEF l
  <2>3. l * BSize < size
    <3> DEFINE s == l * BSize
               r == q % BSize
    <3>1. s \in Int /\ r \in Nat /\ q = s + r /\ size \in Int /\ q \in Int
      BY <1>2, <2>1, <2>2, Sizes
    <3> HIDE DEF s, r, size
    <3>2. s < size
      BY <2>1, <3>1
    <3> QED BY <3>2 DEF s, size
  <2>4. b # 0
    BY <1>3, <2>2, <2>3 DEF Gapless, Loc
  <2>5. b \in DataBlocks /\ b \in Blocks /\ block[l] = b
    <3>1. l \in 0 .. MaxFile
      BY <2>2, Sizes
    <3>2. b \in Links
      BY <1>2, <3>1
    <3>3. b \in DataBlocks /\ b \in Blocks
      BY <2>4, <3>2, Sizes DEF Links
    <3> QED BY <1>2, <2>2, <3>3
  <2>6. Disk(w)[b] = Now(w, b)
    BY <2>5 DEF Disk
  <2>7. word(p) = Now(w, b)[q % BSize]
    BY <2>4, <2>5 DEF l, q
  <2> QED BY <2>6, <2>7 DEF WordAt, l, q
<1>5. Contents(i) = [p \in 1 .. size |-> word(p)]
  BY DEF Contents
<1> HIDE DEF word, size
<1>6. Contents(i) = [p \in 1 .. size |-> WordAt(w, i, p - 1)]
  BY <1>4, <1>5
<1> QED BY <1>2, <1>6 DEF size, M

(* A read that loses no buffer gets these words.                           *)
LEMMA ReadsWords ==
  ASSUME Consistent(w), Live(w), NEW i \in Files, w.ip[i].ref > 0,
         NEW off \in 0 .. Len(Contents(i)), NEW n \in Nat,
         NEW r, r = ReadInode(Lock(w, i), i, off, n), ~ r.w.lost
  PROVE  r.words = SubSeq(Contents(i), off + 1, Min({off + n, Len(Contents(i))}))
<1> DEFINE words == Contents(i)
           size == Din(i).size
           M == MaxFile * BSize
<1>1. i \in Inums /\ Have(w, Nobody, Nobody) /\ Whole(w)
  BY DEF Files, Consistent
<1>2. Lock(w, i) = w /\ Mappable(w, {}, {}, i)
  BY <1>1, OpenFileLocked
<1>3. /\ Din(i) = Inodes(w)[i] /\ Inodes(w)[i] = w.ip[i].din
      /\ Accounted(Inodes(w), Disk(w), {})
  BY <1>1, <1>2, SeenIs, SoundIs DEF Mappable
<1>4. size \in 0 .. M /\ M \in Nat /\ words = [p \in 1 .. size |-> WordAt(w, i, p - 1)]
  BY ContentsAre, Sizes
<1>5. IsFile(w, i, {}, size)
  BY <1>2, <1>3, <1>4 DEF IsFile, Accounted
<1> HIDE DEF words, size, M
<1>6. Len(words) = size /\ \E S : words \in Seq(S)
  <2> DEFINE S == {words[p] : p \in 1 .. size}
  <2>1. words \in [1 .. size -> S] /\ size \in Nat
    BY <1>4
  <2> HIDE DEF S
  <2> QED BY <2>1, RunIsSeq
<1> DEFINE stop == off + Min({n, size - off})
           least == Min({off + n, size})
<1>7. off \in Nat /\ off <= size
  BY <1>4, <1>6 DEF words
<1>8. stop = least /\ stop \in Nat /\ off <= stop /\ stop <= size
  <2>1. size - off \in Nat /\ off + n \in Nat /\ size \in Nat
    BY <1>4, <1>7
  <2>2. Min({n, size - off}) = IF n <= size - off THEN n ELSE size - off
    BY <2>1, LesserIs
  <2>3. least = IF off + n <= size THEN off + n ELSE size
    BY <2>1, LesserIs
  <2> QED BY <1>7, <2>1, <2>2, <2>3
<1> HIDE DEF stop, least
<1>9. Have(r.w, Nobody, Nobody) /\ (Live(r.w) => WasRead(w, r, i, off, stop))
  <2>1. r = ReadInode(w, i, off, n)
    BY <1>2
  <2>2. w.ip[i].din.size = size
    BY <1>3 DEF size
  <2>3. Live(w) => IsFile(w, i, {}, w.ip[i].din.size)
    BY <1>5, <2>2
  <2>4. (IF off > size THEN off ELSE off + Min({n, size - off})) = stop
    BY <1>4, <1>7 DEF stop
  <2> DEFINE m == w.ip[i].din.size
             end == IF off > m THEN off ELSE off + Min({n, m - off})
             t == ReadInode(w, i, off, n)
  <2>5. Have(t.w, Nobody, Nobody) /\ (Live(t.w) => WasRead(w, t, i, off, end))
    BY <1>1, <1>7, <2>3, ReadFileReads
  <2>6. end = stop /\ r = t
    BY <2>1, <2>2, <2>4
  <2> HIDE DEF end, t
  <2> QED BY <2>5, <2>6
<1>10. Live(r.w)
  <2>1. Tame(w)
    BY <1>1 DEF Have, Ok, Tame, Live, Halted
  <2>2. Tame(r.w)
    BY <1>2, <2>1, ReadInodeTame
  <2>3. r.w.panic \in {NoPanic, "read"}
    BY <1>9 DEF Have, Calm
  <2>4. r.w.panic = NoPanic
    BY <2>2, <2>3 DEF Tame
  <2> QED BY <2>4 DEF Live, Halted
<1>11. /\ r.words = [j \in 1 .. (r.off - off) |-> WordAt(w, i, off + j - 1)] /\ r.off = stop
  BY <1>9, <1>10 DEF WasRead, SoFar
<1>12. SubSeq(words, off + 1, stop) = [j \in 1 .. (stop - off) |-> WordAt(w, i, off + j - 1)]
  <2> DEFINE s == SubSeq(words, off + 1, stop)
             S == {words[p] : p \in 1 .. size}
             a == off + 1
  <2>1. a \in Int /\ stop \in Int /\ \A p \in a .. stop : words[p] \in S
    BY <1>4, <1>7, <1>8
  <2> HIDE DEF S, a
  <2>2. /\ s \in Seq(S) /\ Len(s) = IF a <= stop THEN stop - a + 1 ELSE 0
        /\ \A j \in 1 .. (stop - a + 1) : s[j] = words[a + j - 1]
    BY <2>1, SubSeqProperties DEF a
  <2>3. Len(s) = stop - off /\ stop - a + 1 = stop - off
    BY <1>7, <1>8, <2>2 DEF a
  <2> HIDE DEF s
  <2>4. s = [j \in 1 .. (stop - off) |-> s[j]]
    BY <2>2, <2>3
  <2>5. \A j \in 1 .. (stop - off) : s[j] = WordAt(w, i, off + j - 1)
    <3> TAKE j \in 1 .. (stop - off)
    <3>1. a + j - 1 = off + j /\ off + j \in 1 .. size /\ (off + j) - 1 = off + j - 1
      BY <1>4, <1>7, <1>8 DEF a
    <3>2. s[j] = words[off + j]
      BY <2>2, <2>3, <3>1
    <3> QED BY <1>4, <3>1, <3>2
  <2> QED BY <2>4, <2>5 DEF s
<1> QED BY <1>6, <1>8, <1>11, <1>12 DEF words, least

(* The types, and the sound reads, of what is consistent.                  *)
LEMMA ConsistentTypes ==
  ASSUME Consistent(w)
  PROVE  TypeOK
<1>1. w.lost \in BOOLEAN
  BY DEF Consistent, Have, Calm
<1>2. ASSUME Runs
      PROVE  /\ Len(w.bufs) = NBuf
             /\ \A k \in 1 .. NBuf : /\ w.bufs[k].dev \in {0, RootDev} /\ w.bufs[k].bno \in 0 .. (FSSize - 1)
                                     /\ w.bufs[k].refcnt \in Nat /\ w.bufs[k].valid \in BOOLEAN
             /\ \A i \in Inums : /\ w.ip[i].ref \in 0 .. MaxRef /\ w.ip[i].valid \in BOOLEAN
                                 /\ w.ip[i].din.size \in 0 .. (MaxFile * BSize)
                                 /\ \A k \in 0 .. NDirect : w.ip[i].din.addrs[k] \in 0 .. (FSSize - 1)
  <2>1. Live(w)
    BY <1>2 DEF Runs, Live
  <2>2. /\ Cached(w.bufs, Nobody, Nobody) /\ Loaded(w.bufs) /\ Whole(w)
        /\ \A j \in Inums : w.ip[j].ref \in 0 .. MaxRef
    BY <2>1 DEF Consistent, Have, Ok, Live
  <2>3. Len(w.bufs) = NBuf
    BY <2>2, FsAssumption DEF Cached
  <2>4. \A k \in 1 .. NBuf : w.bufs[k].refcnt \in Nat
    BY <2>2, RefsAre DEF Cached
  <2>5. \A k \in 1 .. NBuf : /\ w.bufs[k].dev \in {0, RootDev} /\ w.bufs[k].bno \in 0 .. (FSSize - 1)
                             /\ w.bufs[k].valid \in BOOLEAN
    BY <2>2 DEF Loaded, Typed, Blocks
  <2>6. w.ip \in [Inums -> Copies]
    BY <2>2 DEF Whole, Sound, Sane, Memory, Copies
  <2>7. ASSUME NEW i \in Inums
        PROVE  /\ w.ip[i].valid \in BOOLEAN /\ w.ip[i].din.size \in 0 .. (MaxFile * BSize)
               /\ \A k \in 0 .. NDirect : w.ip[i].din.addrs[k] \in 0 .. (FSSize - 1)
    <3>1. w.ip[i].valid \in BOOLEAN /\ w.ip[i].din \in InodeSet
      BY <2>6 DEF Copies
    <3>2. \A k \in 0 .. NDirect : w.ip[i].din.addrs[k] \in Links
      BY <3>1, InodeIs
    <3>3. Links \subseteq 0 .. (FSSize - 1)
      BY Sizes DEF Links, Blocks
    <3> QED BY <3>1, <3>2, <3>3, InodeIs
  <2> QED BY <2>2, <2>3, <2>4, <2>5, <2>7
<1> QED BY <1>1, <1>2 DEF TypeOK

(* In a consistent file system read returns what the blocks hold.         *)
LEMMA ConsistentReads ==
  ASSUME Consistent(w)
  PROVE  ReadsSound
<1>1. ~ w.lost => w.panic \notin {"freeing free block", "bmap", "type"}
  BY Zenon DEF Consistent, Have, Calm, NoPanic
<1>2. ASSUME Runs, NEW i \in Files, w.ip[i].ref > 0, NEW off \in 0 .. Len(Contents(i)),
             NEW r, r = ReadInode(Lock(w, i), i, off, MaxCount), ~ r.w.lost
      PROVE  r.words = SubSeq(Contents(i), off + 1, Min({off + MaxCount, Len(Contents(i))}))
  <2>1. Live(w) /\ MaxCount \in Nat
    BY <1>2, FsAssumption DEF Runs, Live
  <2> QED BY <1>2, <2>1, ReadsWords
<1> QED BY <1>1, <1>2, Zenon DEF ReadsSound

(* Types, after every sequence of calls.                                   *)
THEOREM FsTypes == Spec => []TypeOK
<1>1. Consistent(w) => TypeOK
  BY ConsistentTypes
<1> QED BY <1>1, StaysConsistent, PTL

(* A read returns the words that are there, and no assertion about blocks  *)
(* or inodes fails, after every sequence of calls.                         *)
THEOREM ReadsStaySound == Spec => []ReadsSound
<1>1. Consistent(w) => ReadsSound
  BY ConsistentReads
<1> QED BY <1>1, StaysConsistent, PTL
=============================================================================
