------------------------------- MODULE Buddy -------------------------------
(***************************************************************************)
(* The buddy allocator below the kernel heap (plix/alloc/buddy.d), as      *)
(* functions on its free lists.  Addresses and sizes count machine words.  *)
(*                                                                         *)
(* A free list is the set of its blocks: the code pops the block that was  *)
(* inserted last, the model any of them, and nothing else depends on the   *)
(* order.  Alignment is not modelled: every block size is a multiple of    *)
(* the largest alignment that is asked for.                                *)
(***************************************************************************)
EXTENDS Integers, FiniteSetsExt

CONSTANTS
    Base,      \* heap.ptr
    MinBlock,  \* min_block_size
    NOrders,   \* N, the number of free lists
    Width      \* the number of bits of usize

Orders == 0 .. NOrders - 1
Top == NOrders - 1

\* 1 << k
Pow2[k \in Nat] == IF k = 0 THEN 1 ELSE 2 * Pow2[k - 1]

\* The powers of two that a usize can hold.
Powers == {Pow2[k] : k \in 0 .. Width - 1}

OrderSize(k) == MinBlock * Pow2[k]

HeapSize == OrderSize(Top)

ASSUME BuddyAssumption ==
    /\ NOrders \in Nat \ {0} /\ Width \in Nat \ {0}
    /\ MinBlock \in Powers /\ HeapSize \in Powers   \* the heap's length is a usize
    /\ Base \in Nat \ {0}   \* 0 is the null pointer

HeapWords == Base .. Base + HeapSize - 1

\* Is the request at most the whole heap?  Otherwise no order is computed.
AllocationSize(size) == size <= HeapSize

\* The order of the smallest block that holds size.
AllocationOrder(size) == Min({k \in Orders : size <= OrderSize(k)})

\* initialize: the whole heap is one free block.
WholeHeapFree == [k \in Orders |-> IF k = Top THEN {Base} ELSE {}]

\* relative ^ size: the other half of the block's parent.
BuddyOf(k, block) ==
    IF ((block - Base) \div OrderSize(k)) % 2 = 0
    THEN block + OrderSize(k)
    ELSE block - OrderSize(k)

\* Faulty: one half too few is kept.
SplitForgetsHalf(free, block, k, need) ==
    [j \in Orders |->
        CASE j = k               -> free[j] \ {block}
          [] j \in need+1 .. k-1 -> free[j] \union {block + OrderSize(j)}
          [] OTHER               -> free[j]]

\* Faulty: the offset is taken before the size is halved.
SplitTooFar(free, block, k, need) ==
    [j \in Orders |->
        CASE j = k             -> free[j] \ {block}
          [] j \in need .. k-1 -> free[j] \union {block + OrderSize(j + 1)}
          [] OTHER             -> free[j]]

\* allocate, having found the first list that is not empty at order k: take
\* block from it and put back the upper halves that are not needed.
Split(free, block, k, need) ==
    [j \in Orders |->
        CASE j = k             -> free[j] \ {block}
          [] j \in need .. k-1 -> free[j] \union {block + OrderSize(j)}
          [] OTHER             -> free[j]]

\* The ways in which a request can be met; none if allocate returns null.
Allocations(free, size) ==
    LET need == AllocationOrder(size)
        avail == {k \in Orders : k >= need /\ free[k] # {}}
        first == Min(avail)
    IN  IF AllocationSize(size) /\ avail # {}
        THEN {[block |-> b, free |-> Split(free, b, first, need)] : b \in free[first]}
        ELSE {}

\* The block that block has grown to after merging up to order k: the lower
\* of the two at every order passed.
Merged(block, k) == block - ((block - Base) % OrderSize(k))

\* Faulty: merges with the first free buddy only.
DeallocMergesOnce(free, block, size) ==
    LET start == AllocationOrder(size)
        buddy == BuddyOf(start, block)
    IN  IF start # Top /\ buddy \in free[start]
        THEN [free EXCEPT ![start] = @ \ {buddy},
                          ![start + 1] = @ \union {Merged(block, start + 1)}]
        ELSE [free EXCEPT ![start] = @ \union {block}]

\* dealloc: merge with the buddy as long as that is free, insert the result.
Dealloc(free, block, size) ==
    LET start == AllocationOrder(size)
        buddy(k) == BuddyOf(k, Merged(block, k))
        stop == Min({k \in start .. Top : k = Top \/ buddy(k) \notin free[k]})
    IN  [k \in Orders |->
            CASE k = stop             -> free[k] \union {Merged(block, k)}
              [] k \in start .. stop-1 -> free[k] \ {buddy(k)}
              [] OTHER                -> free[k]]
=============================================================================
