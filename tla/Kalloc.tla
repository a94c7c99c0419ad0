------------------------------- MODULE Kalloc -------------------------------
(***************************************************************************)
(* The kernel heap: kalloc and kfree (plix/alloc/package.d), the slots of  *)
(* BlockAlloc (plix/alloc/block.d) over the buddy allocator of Buddy.      *)
(*                                                                         *)
(* Every call holds the lock of alloc from begin to end, so a call is one  *)
(* step.  Callers free what they were given, with the size they asked for. *)
(* A request that cannot be met returns null and changes nothing: no step. *)
(***************************************************************************)
EXTENDS Buddy, Sequences, FiniteSets, Functions

CONSTANTS
    Page,     \* sys.pagesize, also blocksize
    Header,   \* Header.sizeof
    Sizes,    \* the sizes requested
    MaxLive   \* bound: allocations that are live at the same time

ASSUME KallocAssumption ==
    /\ Page \in Powers /\ Base % Page = 0 /\ MinBlock % Page = 0
    /\ Header \in 1 .. Page \div 2 - 1
    /\ Sizes \subseteq 1 .. Pow2[Width - 1]   \* the loop of pow2ceil ends
    /\ MaxLive \in Nat

VARIABLES
    free,     \* free_lists of the buddy allocator
    hdr,      \* address of a block of slots -> its Header
    partial,  \* partial_blocks: class -> sequence of blocks
    full,     \* full_blocks: class -> set of blocks (nothing walks it)
    live      \* the allocations handed out and not freed: [addr, size]

vars == <<free, hdr, partial, full, live>>

Classes == {c \in Powers : c < Page}

\* pow2ceil of the requested size (a word is the size of a Free pointer).
Pow2Ceil(sz) == Min({c \in Powers : c >= sz})

Init ==
    /\ free = WholeHeapFree
    /\ hdr = <<>>
    /\ partial = [c \in Classes |-> <<>>]
    /\ full = [c \in Classes |-> {}]
    /\ live = {}

\* Faulty: counts the slot that crosses the end.
MakeBlockRoundsUp(block, c) ==
    LET n == (Page - Header + c - 1) \div c
    IN  [class |-> c,
         free_head |-> [i \in 1 .. n |-> block + Header + (i - 1) * c],
         alloc_slots |-> 0,
         total_slots |-> n]

\* make_block: slots are linked while the link lies before the last c words, so
\* that when c does not divide the data area the list ends in a slot that
\* crosses the end of the block.  Only the first total_slots ones are proper.
MakeBlock(block, c) ==
    LET data == Page - Header
        n == (data + c - 1) \div c
    IN  [class |-> c,
         free_head |-> [i \in 1 .. n |-> block + Header + (i - 1) * c],
         alloc_slots |-> 0,
         total_slots |-> data \div c]

\* The header with other free slots and another count of slots in use.
WithSlots(h, list, used) ==
    [class |-> h.class, free_head |-> list, alloc_slots |-> used, total_slots |-> h.total_slots]

\* alloc_into: take the first slot of block, the head of the partial blocks,
\* and move the block to the full ones with its last slot.
AllocInto(headers, blocks, c, sz) ==
    LET block == Head(blocks)
        h == headers[block]
        used == h.alloc_slots + 1
        isFull == used >= h.total_slots
    IN  /\ h.free_head # <<>>
        /\ hdr' = [headers EXCEPT ![block] = WithSlots(h, Tail(h.free_head), used)]
        /\ partial' = [partial EXCEPT ![c] = IF isFull THEN Tail(blocks) ELSE blocks]
        /\ full' = [full EXCEPT ![c] = IF isFull THEN @ \union {block} ELSE @]
        /\ live' = live \union {[addr |-> Head(h.free_head), size |-> sz]}

\* A request of a page or more goes to the buddy allocator.
AllocLarge(sz) ==
    /\ Pow2Ceil(sz) >= Page
    /\ \E a \in Allocations(free, Pow2Ceil(sz)) :
        /\ free' = a.free
        /\ live' = live \union {[addr |-> a.block, size |-> sz]}
    /\ UNCHANGED <<hdr, partial, full>>

\* A smaller one is served by the first partial block of its class,
AllocSmall(sz) ==
    LET c == Pow2Ceil(sz)
    IN  /\ c < Page
        /\ partial[c] # <<>>
        /\ AllocInto(hdr, partial[c], c, sz)
        /\ UNCHANGED free

\* or by a new one if there is none.
AllocNewBlock(sz) ==
    LET c == Pow2Ceil(sz)
    IN  /\ c < Page
        /\ partial[c] = <<>>
        /\ \E a \in Allocations(free, Page) :
            /\ free' = a.free
            /\ AllocInto([b \in DOMAIN hdr \union {a.block} |->
                            IF b = a.block THEN MakeBlock(b, c) ELSE hdr[b]], <<a.block>>, c, sz)

Kalloc(sz) ==
    /\ Cardinality(live) < MaxLive
    /\ AllocLarge(sz) \/ AllocSmall(sz) \/ AllocNewBlock(sz)

\* A page-aligned address goes to the buddy allocator.
FreeLarge(a) ==
    /\ a.addr % Page = 0
    /\ free' = Dealloc(free, a.addr, a.size)
    /\ UNCHANGED <<hdr, partial, full>>

\* Faulty: forgets to count the slot.
FreeSlotUncounted(a) ==
    LET block == a.addr - (a.addr % Page)
    IN  /\ a.addr % Page # 0
        /\ hdr' = [hdr EXCEPT ![block].free_head = <<a.addr>> \o @]
        /\ UNCHANGED <<free, partial, full>>

\* Any other is a slot of the block that starts at its page; the block is left
\* where it is, in partial_blocks or in full_blocks.
FreeSlot(a) ==
    LET block == a.addr - (a.addr % Page)
        h == hdr[block]
    IN  /\ a.addr % Page # 0
        /\ hdr' = [hdr EXCEPT ![block] =
                       WithSlots(h, <<a.addr>> \o h.free_head, h.alloc_slots - 1)]
        /\ UNCHANGED <<free, partial, full>>

Kfree(a) ==
    /\ live' = live \ {a}
    /\ FreeLarge(a) \/ FreeSlot(a)

Next == (\E sz \in Sizes : Kalloc(sz)) \/ (\E a \in live : Kfree(a))

Spec == Init /\ [][Next]_vars
-----------------------------------------------------------------------------
\* The words of a block of n words at b.
Words(b, n) == b .. b + n - 1

\* The extent of what was handed out: slots have the size of their class.
Extent(a) == Words(a.addr, Pow2Ceil(a.size))

Large == {a \in live : Pow2Ceil(a.size) >= Page}

\* Types of the allocator's state.
TypeOK ==
    /\ free \in [Orders -> SUBSET HeapWords]
    /\ DOMAIN hdr \subseteq HeapWords
    /\ \A b \in DOMAIN hdr :
        /\ hdr[b].class \in Classes
        /\ hdr[b].free_head \in Seq(HeapWords)
        /\ hdr[b].alloc_slots \in Nat /\ hdr[b].total_slots \in Nat
    /\ partial \in [Classes -> Seq(DOMAIN hdr)]
    /\ full \in [Classes -> SUBSET DOMAIN hdr]
    /\ \A a \in live : a.addr \in HeapWords /\ a.size \in Sizes

\* What the buddy allocator has cut the heap into: free blocks, blocks handed to
\* callers, blocks divided into slots.  Each is <<kind, address, size>>.
Pieces ==
    (UNION {{<<"free", b, OrderSize(k)>> : b \in free[k]} : k \in Orders})
    \union {<<"large", a.addr, OrderSize(AllocationOrder(a.size))>> : a \in Large}
    \union {<<"slots", b, OrderSize(AllocationOrder(Page))>> : b \in DOMAIN hdr}

\* Splitting and merging neither lose a word of the heap nor give one to two
\* owners: free blocks, large allocations and blocks of slots tile the heap.
HeapTiled ==
    LET pieces == Pieces
    IN  \A w \in HeapWords : Cardinality({p \in pieces : w \in Words(p[2], p[3])}) = 1

\* What kalloc hands out is inside the heap and overlaps neither another live
\* allocation nor the allocator's own headers and free blocks, so that no write of
\* a caller damages anybody else; a slot lies in the page that make_block asked
\* for.  The slot crossing its end, which make_block links, is never handed out.
NoOverlap ==
    \A a \in live :
        /\ Extent(a) \subseteq HeapWords
        /\ \A b \in live \ {a} : Extent(a) \intersect Extent(b) = {}
        /\ \A b \in DOMAIN hdr : Extent(a) \intersect Words(b, Header) = {}
        /\ a \notin Large => \E b \in DOMAIN hdr : Extent(a) \subseteq Words(b, Page)
        /\ \A p \in Pieces : p[1] = "free" => Extent(a) \intersect Words(p[2], p[3]) = {}

\* alloc_slots, by which alloc decides that a block is full, is the number of
\* slots in use, and every other slot is on the block's free list once.
SlotsCounted ==
    \A b \in DOMAIN hdr :
        LET mine == {a.addr : a \in {x \in live : x.addr \in Words(b, Page)}}
            list == hdr[b].free_head
        IN  /\ hdr[b].alloc_slots = Cardinality(mine)
            /\ IsInjective(list)
            /\ Range(list) \intersect mine = {}
            /\ Range(list) \union mine = Range(MakeBlock(b, hdr[b].class).free_head)

\* Merging is complete: the buddy allocator refuses an order only when no
\* aligned run of that size is free, whatever was freed in which order.
RefusesOnlyWhenFragmented ==
    \A k \in Orders : (\A j \in k .. Top : free[j] = {}) =>
        \A i \in 0 .. Pow2[Top - k] - 1 :
            \E w \in Words(Base + i * OrderSize(k), OrderSize(k)) :
                \E p \in Pieces : p[1] # "free" /\ w \in Words(p[2], p[3])
=============================================================================
