-------------------------------- MODULE Mkfs --------------------------------
(***************************************************************************)
(* The disk image that the kernel carries, as tools/mkfs/mkfs.c builds it: *)
(*   boot block | superblock | log | inode blocks | bitmap | data blocks.  *)
(*                                                                         *)
(* The unit of data is a word, a sequence: <<>> is zero, <<n>> an address  *)
(* or a word of a file, <<inum, name>> a directory entry.  A block of data *)
(* holds BSize words, an inode block IPB inodes, and the bitmap block is   *)
(* the set of the blocks it marks.                                         *)
(***************************************************************************)
EXTENDS Integers, SequencesExt, FiniteSetsExt

CONSTANTS
  BSize,      \* BSIZE: words of a block
  NDirect,    \* NDIRECT: direct addresses of an inode
  IPB,        \* inodes per block
  NInodes,    \* NINODES: inodes of the image
  FSSize,     \* FSSIZE: blocks of the image
  LogSize     \* LOGSIZE: blocks of the log, which nobody uses

ASSUME SizesAssumption ==
  /\ {BSize, NDirect, IPB, FSSize} \subseteq Nat \ {0} /\ LogSize \in Nat
  /\ NInodes \in Nat /\ NInodes > 1
  /\ FSSize > 2 + LogSize + (NInodes \div IPB + 1) + 1

Zero == <<>>
ZeroBlock == [k \in 0..(BSize - 1) |-> Zero]
NIndirect == BSize
MaxFile == NDirect + NIndirect

NInodeBlocks == (NInodes \div IPB) + 1
InodeStart == 2 + LogSize
BmapStart == InodeStart + NInodeBlocks
NMeta == BmapStart + 1
IBlock(inum) == (inum \div IPB) + InodeStart

FreeInode == [type |-> "free", nlink |-> 0, size |-> 0, addrs |-> [k \in 0..NDirect |-> 0]]
Root == 1
Entry(inum, name) == <<inum, name>>
Address(word) == IF word = Zero THEN 0 ELSE word[1]

-----------------------------------------------------------------------------
(* A build st: the blocks written, and the first inode and block that have *)
(* not been handed out.                                                    *)

Rinode(st, inum) == st.img[IBlock(inum)][inum % IPB]
Winode(st, inum, din) == [st EXCEPT !.img[IBlock(inum)][inum % IPB] = din]

\* ialloc, of inode st.freeinode.
Ialloc(st, type) ==
  Winode([st EXCEPT !.freeinode = @ + 1], st.freeinode,
         [FreeInode EXCEPT !.type = type, !.nlink = 1])

\* The address a, or a new block where there is none.
Given(st, a) == IF a # 0 THEN [st |-> st, a |-> a]
                ELSE [st |-> [st EXCEPT !.freeblock = @ + 1], a |-> st.freeblock]

\* iappend, the block x for the words at offset din.size.
BlockAt(st, din) ==
  LET fbn == din.size \div BSize
  IN IF fbn < NDirect
     THEN LET g == Given(st, din.addrs[fbn])
          IN [st |-> g.st, din |-> [din EXCEPT !.addrs[fbn] = g.a], x |-> g.a]
     ELSE LET ind == Given(st, din.addrs[NDirect])
              g == Given(ind.st, Address(ind.st.img[ind.a][fbn - NDirect]))
          IN [st |-> [g.st EXCEPT !.img[ind.a][fbn - NDirect] = <<g.a>>],
              din |-> [din EXCEPT !.addrs[NDirect] = ind.a], x |-> g.a]

\* iappend, one turn of its loop: what fits into the block.  A file of MaxFile blocks
\* cannot be appended to (assert).
AppendBlock(s) ==
  LET b == BlockAt(s.st, s.din)
      at == s.din.size % BSize
      n1 == Min({Len(s.words), BSize - at})
  IN IF s.words = <<>> THEN s
     ELSE [st |-> [b.st EXCEPT !.img[b.x] =
                     [k \in DOMAIN @ |-> IF k \in at..(at + n1 - 1) THEN s.words[k - at + 1]
                                         ELSE @[k]]],
           din |-> [b.din EXCEPT !.size = @ + n1],
           words |-> SubSeq(s.words, n1 + 1, Len(s.words))]
Iappend(st, inum, words) ==
  LET turn[k \in 0..Len(words)] ==
        IF k = 0 THEN [st |-> st, din |-> Rinode(st, inum), words |-> words]
        ELSE AppendBlock(turn[k - 1])
      end == turn[Len(words)]
  IN Winode(end.st, inum, end.din)

\* One file of the command line: an inode, an entry in the root, the contents.
AddFile(st, f) ==
  Iappend(Iappend(Ialloc(st, "file"), Root, <<Entry(st.freeinode, f.name)>>),
          st.freeinode, f.words)

\* The size of the root directory becomes a multiple of the block size: one more
\* block even if it is one already.
RoundRoot(st) ==
  LET din == Rinode(st, Root)
  IN Winode(st, Root, [din EXCEPT !.size = ((@ \div BSize) + 1) * BSize])

\* balloc
MarkUsed(st) == [st EXCEPT !.img[BmapStart] = 0..(st.freeblock - 1)]

\* main: the zeroed image, and with the root directory.
NoFiles ==
  [img |-> [b \in 0..(FSSize - 1) |->
              CASE b \in InodeStart..(BmapStart - 1) -> [k \in 0..(IPB - 1) |-> FreeInode]
                [] b = BmapStart                    -> {}
                [] OTHER                            -> ZeroBlock],
   freeinode |-> 1, freeblock |-> NMeta]
RootOnly == Iappend(Iappend(Ialloc(NoFiles, "dir"), Root, <<Entry(Root, ".")>>),
                    Root, <<Entry(Root, "..")>>)

\* ... and with a sequence of files [name, words].
Built(files) ==
  LET built[k \in 0..Len(files)] == IF k = 0 THEN RootOnly ELSE AddFile(built[k - 1], files[k])
  IN RoundRoot(built[Len(files)])
Image(files) == MarkUsed(Built(files)).img

\* What mkfs asserts of the files, or takes for granted: no file is larger than an
\* inode can map, the root neither, and there are inodes and blocks for them.
Buildable(files) ==
  /\ files \in Seq([name : STRING, words : Seq(Seq(Int))])
  /\ \A k \in 1..Len(files) : Len(files[k].words) <= MaxFile * BSize
  /\ Len(files) + 2 < MaxFile * BSize /\ Len(files) + 1 < NInodes
  /\ Built(files).freeblock <= FSSize
=============================================================================
