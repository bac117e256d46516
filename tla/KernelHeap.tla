------------------------------ MODULE KernelHeap ------------------------------
(***************************************************************************)
(* The page pool of kalloc.cpp: a binary buddy tree kept in the array      *)
(* longest[], whose node i has the children 2i+1 and 2i+2 and holds 0 or   *)
(* 1 + log2 of the largest free block below it.  The operators are pure;   *)
(* they work on a heap h, a record with the fields                         *)
(*   longest  the array,                                                   *)
(*   given    the frames handed out so far (not in the code: what the      *)
(*            array is compared with),                                     *)
(*   at       the offset that the last allocation returned,                *)
(*   hung     TRUE once the assertion of BuddyPool::alloc has failed.      *)
(* The pool of small blocks is the same template with another batch size.  *)
(***************************************************************************)
EXTENDS Integers, FiniteSets

CONSTANTS CapLog,      \* log2 of the number of frames of the pool
          Reserved     \* frames below PAGE_START, taken by init_kernel_heap

Capacity == 2^CapLog
Frames == 0 .. Capacity - 1
Nodes == 0 .. 2 * Capacity - 2

ASSUME HeapAssumption ==
    /\ CapLog \in Nat
    /\ Reserved \in 1 .. Capacity

\* log2 rounds down, CeilPower2 rounds up.
log2(x) == CHOOSE k \in 0 .. CapLog + 1 : 2^k <= x /\ x < 2^(k + 1)
CeilPower2(x) == CHOOSE y \in {2^k : k \in 0 .. CapLog} : x <= y /\ y < 2 * x

\* BuddyPool::init, from the leaves up: a node at depth d covers
\* 2^(CapLog - d) frames.
pool_init == [n \in Nodes |-> CapLog + 1 - log2(n + 1)]

\* The walk of BuddyPool::alloc down the tree: the child that fits, the tighter
\* one when both do.  Found(longest, size) is the node of that size it ends at.
Found(longest, size) ==
    LET Index[k \in size .. CapLog + 1] ==
          IF k = CapLog + 1 THEN 0
          ELSE LET lc == 2 * Index[k + 1] + 1
                   rc == lc + 1
               IN  IF \/ longest[rc] < size
                      \/ size <= longest[lc] /\ longest[lc] <= longest[rc]
                   THEN lc ELSE rc
    IN  Index[size]

\* The node is marked; then each node above it becomes the larger of its children.
Taken(longest, index) ==
    LET up[k \in 0 .. log2(index + 1)] ==
          IF k = 0 THEN [longest EXCEPT ![index] = 0]
          ELSE LET below == up[k - 1]
                   n == (index + 1) \div 2^k - 1
               IN  [below EXCEPT ![n] = IF below[2 * n + 1] >= below[2 * n + 2]
                                        THEN below[2 * n + 1] ELSE below[2 * n + 2]]
    IN  up[log2(index + 1)]

\* BuddyPool::alloc
pool_alloc(h, pages) ==
    LET size == log2(pages) + 1
        index == Found(h.longest, size)
        offset == (index + 1) * 2^(size - 1) - Capacity
    IN  IF h.longest[0] < size
        THEN [h EXCEPT !.hung = TRUE]
        ELSE [h EXCEPT !.longest = Taken(h.longest, index),
                       !.given = @ \cup (offset .. offset + 2^(size - 1) - 1),
                       !.at = offset]

\* kalloc of a number of whole pages.  A heap whose assertion has failed is
\* left alone: the CPU spins in assert.
kalloc(h, pages) == IF h.hung THEN h ELSE pool_alloc(h, CeilPower2(pages))

\* Allocator::free computes the offset and returns nothing to the pool.
Allocator_free(h, frame) == h
kfree(h, frame) == Allocator_free(h, frame)

\* Allocator::init takes the frames in use, and asserts that they are the first.
Allocator_init(used) ==
    LET h == kalloc([longest |-> pool_init, given |-> {}, at |-> 0, hung |-> FALSE], used)
    IN  [h EXCEPT !.hung = @ \/ h.at # 0]

init_kernel_heap == Allocator_init(Reserved)
-----------------------------------------------------------------------------
\* The reference: the aligned blocks of 2^k frames that are free.
FreeBlocks(h, k) ==
    {b \in Frames : b % 2^k = 0 /\ (b .. b + 2^k - 1) \cap h.given = {}}

\* The root of the tree tells the largest free block exactly.
RootIsExact(h) ==
    \A k \in 0 .. CapLog : h.longest[0] >= k + 1 <=> FreeBlocks(h, k) # {}
=============================================================================
