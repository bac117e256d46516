------------------------------- MODULE UserHeap -------------------------------
(***************************************************************************)
(* malloc and free of tiny_libc/memory.c: a buddy tree over the batches of  *)
(* a process's heap.  longest[i] is the size of the largest free block      *)
(* below node i, in batches; unlike the pool of the kernel it gives blocks  *)
(* back and merges them, and it does not look whether there is room.  The   *)
(* operators are pure; they work on a heap u, a record with the fields      *)
(*   longest  the array,                                                    *)
(*   live     the blocks handed out and not yet freed, as a function from   *)
(*            offset to size, and the bytes asked for (not in the code:     *)
(*            what the array is compared with),                             *)
(*   short    TRUE once malloc was called without room for the block.       *)
(***************************************************************************)
EXTENDS Integers, FiniteSets

CONSTANTS UserCapLog,      \* log2 of capacity
          batch_size       \* bytes of a batch, a power of 2

capacity == 2^UserCapLog
Batches == 0 .. capacity - 1
HeapNodes == 0 .. 2 * capacity - 2

ASSUME UserHeapAssumption ==
    /\ UserCapLog \in Nat
    /\ batch_size \in {2^k : k \in 0 .. 12}

maxul(a, b) == IF a > b THEN a ELSE b
Parent(i) == (i - 1) \div 2

\* How many steps node i is below the root, and the batches it covers.
Depth(i) == CHOOSE k \in 0 .. UserCapLog : 2^k <= i + 1 /\ i + 1 < 2^(k + 1)
NodeSize(i) == 2^(UserCapLog - Depth(i))

\* size_t arithmetic: CeilPower2(0) wraps around twice and is 0.
UserCeilPower2(x) == IF x = 0 THEN 0
                     ELSE CHOOSE y \in {2^k : k \in 0 .. 30} : x <= y /\ y < 2 * x

\* pool_init, by __crt_init before main.
FreshHeap == [longest |-> [i \in HeapNodes |-> NodeSize(i)], live |-> {}, short |-> FALSE]

\* The walk of pool_alloc: the child that fits, the tighter one when both do, the left
\* one when none does.
Descend(longest, size) ==
    LET at[k \in 0 .. Depth(capacity \div size - 1)] ==
            IF k = 0 THEN 0
            ELSE LET lc == 2 * at[k - 1] + 1
                     rc == lc + 1
                 IN  IF longest[rc] < size \/ (size <= longest[lc] /\ longest[lc] <= longest[rc])
                     THEN lc ELSE rc
    IN  at[Depth(capacity \div size - 1)]

\* Mutant of Merged: the two halves are not put together.
M_Merged_never(nodesize, ll, rl) == maxul(ll, rl)

\* A node whose children are both free is one free block again.
Merged(nodesize, ll, rl) == IF ll + rl = nodesize THEN nodesize ELSE maxul(ll, rl)

\* The nodes above index are computed anew, the lowest first; only free merges.
Upward(longest, index, merge) ==
    LET Value(n, ll, rl) == IF merge THEN Merged(NodeSize(n), ll, rl) ELSE maxul(ll, rl)
        up[k \in 0 .. Depth(index)] ==
            IF k = 0 THEN longest
            ELSE LET below == up[k - 1]
                     n == (index + 1) \div 2^k - 1
                 IN  [below EXCEPT ![n] = Value(n, below[2 * n + 1], below[2 * n + 2])]
    IN  up[Depth(index)]

\* malloc: pool_alloc of the batches, at least one.
malloc(u, bytes) ==
    LET n == UserCeilPower2(bytes) \div batch_size
        size == IF n = 0 THEN 1 ELSE n
        index == Descend(u.longest, size)
        offset == (index + 1) * size - capacity
    IN  [longest |-> Upward([u.longest EXCEPT ![index] = 0], index, FALSE),
         live    |-> u.live \cup {[at |-> offset, size |-> size, bytes |-> bytes]},
         short   |-> u.short \/ u.longest[0] < size]

\* pool_free starts at the leaf and goes up to the first node marked 0: the block.
Marked(longest, offset) ==
    LET Up[i \in HeapNodes] == IF longest[i] = 0 THEN i ELSE Up[Parent(i)]
    IN  Up[offset + capacity - 1]

\* free of a pointer that malloc returned.
free(u, offset) ==
    LET index == Marked(u.longest, offset)
    IN  [u EXCEPT !.longest = Upward([u.longest EXCEPT ![index] = NodeSize(index)], index, TRUE),
                  !.live = {b \in @ : b.at # offset}]
-------------------------------------------------------------------------------
Covers(b) == b.at .. b.at + b.size - 1

\* The live blocks lie within the heap, have room for the bytes that were asked for and
\* have no batch in common.
BlocksAreApart(u) ==
    /\ \A b \in u.live : Covers(b) \subseteq Batches /\ b.bytes <= b.size * batch_size
    /\ \A a, b \in u.live : a # b => Covers(a) \cap Covers(b) = {}

\* The root knows the largest block that is free and aligned to its size.
HeapRootIsExact(u) ==
    LET used == UNION {Covers(b) : b \in u.live}
        free_at(k) == \E j \in 0 .. 2^(UserCapLog - k) - 1 : (j * 2^k .. (j + 1) * 2^k - 1) \cap used = {}
    IN  /\ u.longest[0] \in {0} \cup {2^k : k \in 0 .. UserCapLog}
        /\ \A k \in 0 .. UserCapLog : 2^k <= u.longest[0] <=> free_at(k)
===============================================================================
