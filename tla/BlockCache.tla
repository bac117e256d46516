------------------------------ MODULE BlockCache ------------------------------
(***************************************************************************)
(* The block cache of fs/io.cpp: a fixed number of slots, replaced by age,  *)
(* in front of the SD card, written through or written back by a timer.     *)
(*                                                                          *)
(* The file system works on Block objects.  The constructor finds a slot    *)
(* under cache_lock and keeps its number; the contents are then changed     *)
(* without a lock, and update() takes the lock to write them or to mark     *)
(* them dirty.  Block objects of several CPUs interleave freely here.       *)
(***************************************************************************)
EXTENDS Integers, FiniteSets

CONSTANTS Blocks,       \* block numbers
          Data,         \* contents of a block
          CACHE_SIZE,   \* slots are 0 .. CACHE_SIZE - 1
          Objs          \* Block objects that can exist at the same time

ASSUME CacheAssumption ==
    /\ CACHE_SIZE \in Nat \ {0}
    /\ Blocks \cap Int = {}
    /\ Data # {}

VARIABLES disk,                 \* the SD card
          cache_data, cache_blockid, cache_dirty,
          cache_age,            \* the place of each slot in the order of the code's ages
          policy_writethrough,
          flush,                \* next slot of cache_writeback, -1: cache_lock is free
          block,                \* the Block objects
          since,                \* history: other blocks found since each was created
          saved,                \* history: contents of each block at its last update()
          unsaved               \* history: blocks changed since their last update()

cache == <<cache_data, cache_blockid, cache_dirty, cache_age>>
vars == <<disk, cache, policy_writethrough, flush, block, since, saved, unsaved>>

Slots == 0 .. CACHE_SIZE - 1
NoBlock == -1                      \* cache_blockid of a slot never used
NoObj == [blk |-> NoBlock, slot |-> 0]

Open(o) == block[o] # NoObj

\* cache_init
CacheInit ==
    [data    |-> [s \in Slots |-> CHOOSE v \in Data : TRUE],
     blockid |-> [s \in Slots |-> NoBlock],
     dirty   |-> [s \in Slots |-> FALSE],
     age     |-> [s \in Slots |-> s]]     \* all -1: the first slot is taken first

Init ==
    /\ disk \in [Blocks -> Data]
    /\ cache_data = CacheInit.data
    /\ cache_blockid = CacheInit.blockid
    /\ cache_dirty = CacheInit.dirty
    /\ cache_age = CacheInit.age
    /\ policy_writethrough \in BOOLEAN
    /\ flush = -1
    /\ block = [o \in Objs |-> NoObj]
    /\ since = [o \in Objs |-> {}]
    /\ saved = disk
    /\ unsaved = {}

-------------------------------------------------------------------------------
\* cache_lock is free and the file system asks for block b.  It asks for at most
\* CACHE_SIZE - 1 other blocks while it keeps a Block object: that many it may rely on.
Request(o, b) ==
    /\ flush = -1
    /\ ~Open(o)
    /\ \A q \in Objs : Open(q) => Cardinality((since[q] \cup {b}) \ {block[q].blk}) < CACHE_SIZE

\* "cache_age[s] = age++": s becomes the youngest and the order of the others stays.
Touch(s) == cache_age' = [r \in Slots |-> IF r = s THEN CACHE_SIZE - 1
                                         ELSE IF cache_age[r] > cache_age[s] THEN cache_age[r] - 1
                                         ELSE cache_age[r]]

\* The Block object o now stands for b in slot s.
Construct(o, b, s) ==
    /\ block' = [block EXCEPT ![o] = [blk |-> b, slot |-> s]]
    /\ since' = [q \in Objs |-> IF q = o THEN {}
                                ELSE IF Open(q) THEN (since[q] \cup {b}) \ {block[q].blk}
                                ELSE {}]
    /\ Touch(s)

\* cache_find when some slot holds the block.
FindHit(o, b) ==
    /\ Request(o, b)
    /\ \E s \in Slots :
          /\ cache_blockid[s] = b
          /\ Construct(o, b, s)
    /\ UNCHANGED <<disk, cache_data, cache_blockid, cache_dirty, policy_writethrough, flush, saved, unsaved>>

\* Mutant of Oldest: the youngest slot is given up.
M_Oldest(s) == \A r \in Slots : cache_age[s] >= cache_age[r]

\* The slot to give up: the first of the smallest age.
Oldest(s) == \A r \in Slots : cache_age[s] <= cache_age[r]

\* Mutant of FindMiss: the slots are not searched first.
M_FindMiss_again(o, b) ==
    /\ Request(o, b)
    /\ \E s \in Slots :
          LET old == cache_blockid[s]
          IN  /\ Oldest(s)
              /\ disk' = IF cache_dirty[s] THEN [disk EXCEPT ![old] = cache_data[s]] ELSE disk
              /\ saved' = IF cache_dirty[s] THEN [saved EXCEPT ![old] = cache_data[s]] ELSE saved
              /\ cache_blockid' = [cache_blockid EXCEPT ![s] = b]
              /\ cache_data' = [cache_data EXCEPT ![s] = disk'[b]]
              /\ cache_dirty' = [cache_dirty EXCEPT ![s] = FALSE]
              /\ unsaved' = unsaved \ {old}
              /\ Construct(o, b, s)
    /\ UNCHANGED <<policy_writethrough, flush>>

\* Mutant of FindMiss: a dirty victim is not written back.
M_FindMiss(o, b) ==
    /\ Request(o, b)
    /\ \A s \in Slots : cache_blockid[s] # b
    /\ \E s \in Slots :
          /\ Oldest(s)
          /\ cache_blockid' = [cache_blockid EXCEPT ![s] = b]
          /\ cache_data' = [cache_data EXCEPT ![s] = disk[b]]
          /\ cache_dirty' = [cache_dirty EXCEPT ![s] = FALSE]
          /\ unsaved' = unsaved \ {cache_blockid[s]}
          /\ Construct(o, b, s)
    /\ UNCHANGED <<disk, policy_writethrough, flush, saved>>

\* cache_find otherwise: the oldest slot is written back if dirty and read anew.  What was
\* changed in it without update() is gone.
FindMiss(o, b) ==
    /\ Request(o, b)
    /\ \A s \in Slots : cache_blockid[s] # b
    /\ \E s \in Slots :
          LET old == cache_blockid[s]
          IN  /\ Oldest(s)
              /\ disk' = IF cache_dirty[s] THEN [disk EXCEPT ![old] = cache_data[s]] ELSE disk
              /\ saved' = IF cache_dirty[s] THEN [saved EXCEPT ![old] = cache_data[s]] ELSE saved
              /\ cache_blockid' = [cache_blockid EXCEPT ![s] = b]
              /\ cache_data' = [cache_data EXCEPT ![s] = disk'[b]]
              /\ cache_dirty' = [cache_dirty EXCEPT ![s] = FALSE]
              /\ unsaved' = unsaved \ {old}
              /\ Construct(o, b, s)
    /\ UNCHANGED <<policy_writethrough, flush>>

\* The file system changes the contents through Block::data.
Modify(o, v) ==
    /\ Open(o)
    /\ cache_data' = [cache_data EXCEPT ![block[o].slot] = v]
    /\ unsaved' = unsaved \cup {block[o].blk}
    /\ UNCHANGED <<disk, cache_blockid, cache_dirty, cache_age, policy_writethrough,
                   flush, block, since, saved>>

\* Block::update.
update(o) ==
    LET s == block[o].slot
    IN  /\ Open(o) /\ flush = -1
        /\ disk' = IF policy_writethrough THEN [disk EXCEPT ![cache_blockid[s]] = cache_data[s]]
                   ELSE disk
        /\ cache_dirty' = IF policy_writethrough THEN cache_dirty
                          ELSE [cache_dirty EXCEPT ![s] = TRUE]
        /\ saved' = [saved EXCEPT ![block[o].blk] = cache_data[s]]
        /\ unsaved' = unsaved \ {block[o].blk}
        /\ UNCHANGED <<cache_data, cache_blockid, cache_age, policy_writethrough, flush, block, since>>

\* Block::~Block does nothing: the slot stays as it is.
Destroy(o) ==
    /\ Open(o)
    /\ block' = [block EXCEPT ![o] = NoObj]
    /\ since' = [since EXCEPT ![o] = {}]
    /\ UNCHANGED <<disk, cache, policy_writethrough, flush, saved, unsaved>>

-------------------------------------------------------------------------------
\* One turn of the loop of cache_writeback; the caller gives up cache_lock at its end.
\* A dirty slot may hold changes whose update() is still to come: they are written too.
cache_writeback ==
    LET s == flush
        b == cache_blockid[s]
    IN  /\ flush # -1
        /\ disk' = IF cache_dirty[s] THEN [disk EXCEPT ![b] = cache_data[s]] ELSE disk
        /\ saved' = IF cache_dirty[s] THEN [saved EXCEPT ![b] = cache_data[s]] ELSE saved
        /\ unsaved' = IF cache_dirty[s] THEN unsaved \ {b} ELSE unsaved
        /\ cache_dirty' = [cache_dirty EXCEPT ![s] = FALSE]
        /\ flush' = IF s = CACHE_SIZE - 1 THEN -1 ELSE s + 1
        /\ UNCHANGED <<cache_data, cache_blockid, cache_age, policy_writethrough,
                       block, since>>

\* Mutant of cache_scan_timer: the test of the policy is inverted.
M_cache_scan_timer ==
    /\ policy_writethrough
    /\ flush = -1
    /\ flush' = 0
    /\ UNCHANGED <<disk, cache, policy_writethrough, block, since, saved, unsaved>>

\* cache_scan_timer, on a timer interrupt that finds cache_lock free and the interval
\* since last_time elapsed; otherwise it returns at once.
cache_scan_timer ==
    /\ ~policy_writethrough
    /\ flush = -1
    /\ flush' = 0
    /\ UNCHANGED <<disk, cache, policy_writethrough, block, since, saved, unsaved>>

\* cache_set_policy(-1) and cache_set_policy(n), n >= 0.
cache_set_policy(through) ==
    /\ flush = -1
    /\ policy_writethrough' = through
    /\ flush' = IF through THEN 0 ELSE -1
    /\ UNCHANGED <<disk, cache, block, since, saved, unsaved>>

\* init_parameters, when the kernel comes up: the cache writes back if the file sysparams
\* is empty or has a number, and goes on writing through if it has anything else.
init_parameters == policy_writethrough' \in BOOLEAN

\* The machine loses power and starts again from the SD card.
PowerLoss ==
    /\ cache_data' = CacheInit.data
    /\ cache_blockid' = CacheInit.blockid
    /\ cache_dirty' = CacheInit.dirty
    /\ cache_age' = CacheInit.age
    /\ init_parameters
    /\ flush' = -1
    /\ block' = [o \in Objs |-> NoObj]
    /\ since' = [o \in Objs |-> {}]
    /\ saved' = disk
    /\ unsaved' = {}
    /\ UNCHANGED disk

Use(o) ==
    \/ \E b \in Blocks : FindHit(o, b) \/ FindMiss(o, b)
    \/ \E v \in Data : Modify(o, v)
    \/ update(o)
    \/ Destroy(o)

Next ==
    \/ \E o \in Objs : Use(o)
    \/ cache_writeback
    \/ cache_scan_timer
    \/ \E through \in BOOLEAN : cache_set_policy(through)
    \/ PowerLoss

\* The CPU that flushes goes on; timer interrupts keep coming, the interval passes, and
\* one of them finds cache_lock free if it is free again and again.
Spec == /\ Init /\ [][Next]_vars
        /\ WF_vars(cache_writeback) /\ SF_vars(cache_scan_timer)

-------------------------------------------------------------------------------
\* Every variable of io.cpp keeps its type; cache_writeback stays within the slots.
TypeOK ==
    /\ disk \in [Blocks -> Data] /\ saved \in [Blocks -> Data]
    /\ cache_data \in [Slots -> Data]
    /\ cache_blockid \in [Slots -> Blocks \cup {NoBlock}]
    /\ cache_dirty \in [Slots -> BOOLEAN]
    /\ cache_age \in [Slots -> Slots]
    /\ policy_writethrough \in BOOLEAN
    /\ flush \in Slots \cup {-1}
    /\ block \in [Objs -> [blk : Blocks \cup {NoBlock}, slot : Slots]]
    /\ since \in [Objs -> SUBSET Blocks]
    /\ unsaved \subseteq Blocks

\* The state is well formed, and the slot a Block object remembers still holds its block,
\* although cache_find runs in between and gives slots away (io.cpp, "uint32_t cacheid").
SlotHoldsBlock ==
    /\ TypeOK
    /\ \A o \in Objs : Open(o) => cache_blockid[block[o].slot] = block[o].blk

\* With write-through no slot is dirty, once the flush that set_policy starts is over.
WriteThroughIsClean ==
    policy_writethrough => \A s \in Slots : cache_dirty[s] => flush # -1 /\ flush <= s

\* A block that is in no dirty slot is on the card as it was last saved, and with
\* write-through no slot is dirty: a power failure loses dirty blocks only, and with
\* write-through nothing that update() has written (io.cpp, update and cache_set_policy).
CleanIsDurable ==
    /\ \A b \in Blocks :
          (\A s \in Slots : cache_blockid[s] = b => ~cache_dirty[s]) => disk[b] = saved[b]
    /\ WriteThroughIsClean

\* A block in the cache reads as it was last saved, whatever was evicted, flushed or read
\* anew meanwhile, unless somebody has changed it since without update().
ReadsSeeUpdates ==
    \A s \in Slots :
        cache_blockid[s] \in Blocks \ unsaved => cache_data[s] = saved[cache_blockid[s]]

\* A dirty slot does not stay dirty: the timer, or the eviction of the slot, saves it.
DirtyIsFlushed == \A s \in Slots : cache_dirty[s] ~> ~cache_dirty[s]
===============================================================================
