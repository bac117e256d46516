--------------------------- MODULE BlockCacheProofs ---------------------------
(***************************************************************************)
(* The theorems about BlockCache, for any number of blocks, slots and Block *)
(* objects: replacement by age never takes the slot of a Block object that  *)
(* may rely on it, and for this reason update() saves the right block.      *)
(***************************************************************************)
EXTENDS BlockCache, FiniteSetTheorems, TLAPS

(* Z3 gets half a minute, through either encoding; a leaf for Zenon says so. *)
USE SMTT(30), Z3T(30)

\* A block is in at most one slot.
OneSlotPerBlock ==
    \A r, s \in Slots : r # s /\ cache_blockid[r] = cache_blockid[s] => cache_blockid[r] = NoBlock

\* The ages order the slots.
AgesDiffer == \A r, s \in Slots : cache_age[r] = cache_age[s] => r = s

\* The slot of a Block object holds its block, and every younger slot holds one of the
\* blocks found since.
Held(o) ==
    /\ block[o].blk \in Blocks
    /\ cache_blockid[block[o].slot] = block[o].blk
    /\ block[o].blk \notin since[o]
    /\ \A r \in Slots : cache_age[r] > cache_age[block[o].slot] => cache_blockid[r] \in since[o]

SinceFinite == \A o \in Objs : IsFiniteSet(since[o])

DirtyIsUsed == \A s \in Slots : cache_dirty[s] => cache_blockid[s] \in Blocks

\* A block that is in no dirty slot is on the card as it was last saved.
DiskInv ==
    \A b \in Blocks : (\A s \in Slots : cache_blockid[s] = b => ~cache_dirty[s]) => disk[b] = saved[b]

Structure ==
    /\ TypeOK
    /\ OneSlotPerBlock
    /\ AgesDiffer
    /\ SinceFinite
    /\ DirtyIsUsed
    /\ \A o \in Objs : Open(o) => Held(o)

IInv == Structure /\ DiskInv /\ ReadsSeeUpdates /\ WriteThroughIsClean

-------------------------------------------------------------------------------
\* Slots is a finite set of CACHE_SIZE numbers with 0 first and CACHE_SIZE - 1 last.
LEMMA SlotFacts ==
    /\ CACHE_SIZE \in Nat \ {0} /\ NoBlock \notin Blocks /\ NoBlock = -1
    /\ Slots \subseteq Nat /\ 0 \in Slots /\ CACHE_SIZE - 1 \in Slots
    /\ \A s \in Slots : s <= CACHE_SIZE - 1
    /\ IsFiniteSet(Slots) /\ Cardinality(Slots) = CACHE_SIZE
    /\ (CHOOSE v \in Data : TRUE) \in Data
<1>1. CACHE_SIZE \in Nat \ {0} /\ Blocks \cap Int = {} /\ Data # {}
  BY CacheAssumption, Zenon
<1>2. IsFiniteSet(0 .. CACHE_SIZE - 1) /\ Cardinality(0 .. CACHE_SIZE - 1) = CACHE_SIZE
  <2>1. 0 \in Int /\ CACHE_SIZE - 1 \in Int /\ ~(0 > CACHE_SIZE - 1) /\ (CACHE_SIZE - 1) - 0 + 1 = CACHE_SIZE
    BY <1>1
  <2>2. QED BY <2>1, FS_Interval, Zenon
<1>3. (CHOOSE v \in Data : TRUE) \in Data
  BY <1>1, Zenon
<1>4. NoBlock \notin Blocks /\ NoBlock = -1
  BY <1>1 DEF NoBlock
<1>5. QED BY <1>1, <1>2, <1>3, <1>4 DEF Slots

\* Touch keeps the order of the other slots and makes s the youngest.
LEMMA TouchOrder ==
    ASSUME TypeOK, AgesDiffer, NEW s \in Slots, Touch(s)
    PROVE  /\ cache_age' \in [Slots -> Slots]
           /\ AgesDiffer'
           /\ \A r \in Slots : ~(cache_age'[r] > cache_age'[s])
           /\ \A q, r \in Slots : q # s /\ r # s => (cache_age'[r] > cache_age'[q] <=> cache_age[r] > cache_age[q])
<1>1. cache_age \in [Slots -> 0 .. CACHE_SIZE - 1] /\ CACHE_SIZE \in Nat \ {0}
  BY SlotFacts, Zenon DEF TypeOK, Slots
<1>2. \A r \in Slots : r # s => cache_age[r] # cache_age[s]
  BY Zenon DEF AgesDiffer
<1>3. \A r \in Slots : cache_age'[r] = IF r = s THEN CACHE_SIZE - 1
                                        ELSE IF cache_age[r] > cache_age[s] THEN cache_age[r] - 1
                                        ELSE cache_age[r]
  BY Zenon DEF Touch
<1>4. \A r \in Slots : cache_age'[r] \in 0 .. CACHE_SIZE - 1 /\ (r # s => cache_age'[r] < CACHE_SIZE - 1)
  BY <1>1, <1>2, <1>3
<1>5. cache_age' \in [Slots -> Slots]
  BY <1>4, Zenon DEF Touch, Slots
<1>6. \A q, r \in Slots : q # s /\ r # s => (cache_age'[r] > cache_age'[q] <=> cache_age[r] > cache_age[q])
  BY <1>1, <1>2, <1>3
<1>7. \A r \in Slots : ~(cache_age'[r] > cache_age'[s])
  BY <1>1, <1>3, <1>4
<1>8. ASSUME NEW q \in Slots, NEW r \in Slots, cache_age'[q] = cache_age'[r]
      PROVE  q = r
  <2>1. CASE q = s \/ r = s
    BY <1>1, <1>3, <1>4, <1>8, <2>1
  <2>2. CASE q # s /\ r # s
    <3>1. cache_age[q] = cache_age[r]
      BY <1>1, <1>6, <1>8, <2>2, <1>4
    <3>2. QED BY <3>1, Zenon DEF AgesDiffer
  <2>3. QED BY <2>1, <2>2, Zenon
<1>9. QED BY <1>5, <1>6, <1>7, <1>8, Zenon DEF AgesDiffer

\* The slot that cache_find gives up is no slot a Block object relies on: otherwise the
\* other slots, all younger, would hold CACHE_SIZE - 1 different blocks found since.
LEMMA VictimIsFree ==
    ASSUME Structure, NEW b \in Blocks, NEW o \in Objs, NEW q \in Objs, Request(o, b), Open(q),
           \A s \in Slots : cache_blockid[s] # b, NEW s \in Slots, Oldest(s)
    PROVE  block[q].slot # s
<1> SUFFICES ASSUME block[q].slot = s PROVE FALSE
  OBVIOUS
<1> DEFINE T == (since[q] \cup {b}) \ {block[q].blk}
           f == [r \in Slots |-> IF r = s THEN b ELSE cache_blockid[r]]
<1>1. Held(q) /\ IsFiniteSet(since[q])
  BY Zenon DEF Structure, SinceFinite
<1>2. IsFiniteSet(T) /\ Cardinality(T) < Cardinality(Slots) /\ IsFiniteSet(Slots)
  <2>1. IsFiniteSet(since[q] \cup {b})
    BY <1>1, FS_AddElement, Zenon
  <2>2. IsFiniteSet(T)
    BY <2>1, FS_RemoveElement, Zenon
  <2>3. QED BY <2>2, SlotFacts, Zenon DEF Request
<1>3. b # block[q].blk
  BY <1>1, Zenon DEF Held
<1>4. \A r \in Slots : r # s => cache_blockid[r] \in T
  <2>1. \A r \in Slots : r # s => cache_age[r] > cache_age[s]
    <3>1. \A r \in Slots : cache_age[r] \in Nat
      BY SlotFacts, Zenon DEF Structure, TypeOK
    <3>2. QED BY <3>1 DEF Oldest, Structure, AgesDiffer
  <2>2. QED BY <2>1, <1>1, Zenon DEF Held
<1>5. f \in [Slots -> T]
  BY <1>3, <1>4, Zenon
<1>6. PICK x, y \in Slots : x # y /\ f[x] = f[y]
  <2> HIDE DEF T, f
  <2>1. QED BY <1>2, <1>5, FS_PigeonHole, Zenon
<1>7. \A r \in Slots : r # s => cache_blockid[r] # NoBlock
  BY <1>4, SlotFacts, <1>1 DEF Held, Structure, TypeOK
<1>8. QED BY <1>6, <1>7, Zenon DEF Structure, OneSlotPerBlock

-------------------------------------------------------------------------------
\* Construct keeps what the Block objects rely on, when slot s holds b in the end and no
\* other Block object has lost its slot.
LEMMA ConstructKeepsHeld ==
    ASSUME Structure, NEW o \in Objs, NEW b \in Blocks, NEW s \in Slots, Construct(o, b, s),
           OneSlotPerBlock', cache_blockid'[s] = b,
           \A r \in Slots : r # s => cache_blockid'[r] = cache_blockid[r],
           \A q \in Objs : Open(q) /\ block[q].slot = s => block[q].blk = b
    PROVE  \A q \in Objs : Open(q)' => Held(q)'
<1> SUFFICES ASSUME NEW q \in Objs, Open(q)' PROVE Held(q)'
  OBVIOUS
<1>1. /\ \A r \in Slots : ~(cache_age'[r] > cache_age'[s])
      /\ \A p, r \in Slots : p # s /\ r # s => (cache_age'[r] > cache_age'[p] <=> cache_age[r] > cache_age[p])
  BY TouchOrder, Zenon DEF Construct, Structure
<1>2. block \in [Objs -> [blk : Blocks \cup {NoBlock}, slot : Slots]]
  BY Zenon DEF Structure, TypeOK
<1>3. CASE q = o
  <2>1. block'[q] = [blk |-> b, slot |-> s] /\ since'[q] = {}
    BY <1>2, <1>3, Zenon DEF Construct
  <2>2. QED BY <2>1, <1>1 DEF Held
<1>4. CASE q # o
  <2>1. block'[q] = block[q] /\ Open(q)
    BY <1>2, <1>4, Zenon DEF Construct, Open
  <2>2. Held(q) /\ since'[q] = (since[q] \cup {b}) \ {block[q].blk} /\ block[q].slot \in Slots
    BY <2>1, <1>2, <1>4, Zenon DEF Structure, Construct
  <2>3. cache_blockid'[block[q].slot] = block[q].blk
    BY <2>1, <2>2, Zenon DEF Held
  <2>4. ASSUME NEW r \in Slots, cache_age'[r] > cache_age'[block[q].slot]
        PROVE  cache_blockid'[r] \in since'[q]
    <3>1. block[q].slot # s
      BY <1>1, <2>4, Zenon
    <3>2. r # block[q].slot
      BY <2>4, <1>1, <2>2, <3>1, SlotFacts, TouchOrder DEF Construct, Structure
    <3>3. cache_blockid'[r] # block[q].blk
      <4>1. block[q].blk # NoBlock
        BY <2>2, SlotFacts, Zenon DEF Held
      <4>2. block[q].slot \in Slots
        BY <2>2, Zenon
      <4>3. QED BY <2>3, <3>2, <4>1, <4>2 DEF OneSlotPerBlock
    <3>4. CASE r = s
      BY <3>3, <3>4, <2>2, Zenon
    <3>5. CASE r # s
      <4>1. cache_age[r] > cache_age[block[q].slot]
        BY <1>1, <2>2, <2>4, <3>1, <3>5, Zenon
      <4>2. QED BY <4>1, <3>3, <3>5, <2>2, Zenon DEF Held
    <3>6. QED BY <3>4, <3>5, Zenon
  <2>5. QED BY <2>1, <2>2, <2>3, <2>4, Zenon DEF Held
<1>5. QED BY <1>3, <1>4, Zenon

\* The types of the variables that Construct assigns.
LEMMA ConstructTypes ==
    ASSUME Structure, NEW o \in Objs, NEW b \in Blocks, NEW s \in Slots, Construct(o, b, s)
    PROVE  /\ block' \in [Objs -> [blk : Blocks \cup {NoBlock}, slot : Slots]]
           /\ since' \in [Objs -> SUBSET Blocks]
           /\ cache_age' \in [Slots -> Slots]
           /\ AgesDiffer'
           /\ SinceFinite'
<1>1. cache_age' \in [Slots -> Slots] /\ AgesDiffer'
  BY TouchOrder, Zenon DEF Construct, Structure
<1>2. /\ block \in [Objs -> [blk : Blocks \cup {NoBlock}, slot : Slots]]
      /\ since \in [Objs -> SUBSET Blocks]
  BY Zenon DEF Structure, TypeOK
<1>3. block' \in [Objs -> [blk : Blocks \cup {NoBlock}, slot : Slots]]
  BY <1>2, Zenon DEF Construct
<1>4. since' \in [Objs -> SUBSET Blocks]
  BY <1>2, Zenon DEF Construct
<1>5. ASSUME NEW q \in Objs PROVE IsFiniteSet(since'[q])
  <2>1. IsFiniteSet({}) /\ IsFiniteSet(since[q])
    BY FS_EmptySet, Zenon DEF Structure, SinceFinite
  <2>2. IsFiniteSet(since[q] \cup {b})
    BY <2>1, FS_AddElement, Zenon
  <2>3. IsFiniteSet((since[q] \cup {b}) \ {block[q].blk})
    BY <2>2, FS_RemoveElement, Zenon
  <2>4. \/ since'[q] = {}
        \/ since'[q] = (since[q] \cup {b}) \ {block[q].blk}
    BY Zenon DEF Construct
  <2>5. QED BY <2>1, <2>3, <2>4, Zenon
<1>6. QED BY <1>1, <1>3, <1>4, <1>5, Zenon DEF SinceFinite

-------------------------------------------------------------------------------
\* Every step keeps the structure of the cache.
LEMMA HitKeepsStructure ==
    ASSUME Structure, NEW o \in Objs, NEW b \in Blocks, FindHit(o, b)
    PROVE  Structure'
<1>1. PICK s \in Slots : cache_blockid[s] = b /\ Construct(o, b, s)
  BY Zenon DEF FindHit
<1>2. UNCHANGED <<disk, cache_data, cache_blockid, cache_dirty, policy_writethrough, flush, saved, unsaved>>
  BY Zenon DEF FindHit
<1>3. OneSlotPerBlock' /\ DirtyIsUsed'
  BY <1>2, Zenon DEF Structure, OneSlotPerBlock, DirtyIsUsed
<1>4. \A q \in Objs : Open(q) /\ block[q].slot = s => block[q].blk = b
  BY <1>1 DEF Structure, Held
<1>5. \A q \in Objs : Open(q)' => Held(q)'
  BY <1>1, <1>2, <1>3, <1>4, ConstructKeepsHeld, ZenonT(60)
<1>6. TypeOK' /\ AgesDiffer' /\ SinceFinite'
  BY <1>1, <1>2, ConstructTypes, Zenon DEF Structure, TypeOK
<1>7. QED BY <1>3, <1>5, <1>6, Zenon DEF Structure

\* A miss replaces the oldest slot, on which no Block object relies.
LEMMA MissKeepsStructure ==
    ASSUME Structure, NEW o \in Objs, NEW b \in Blocks, FindMiss(o, b)
    PROVE  Structure'
<1>1. PICK s \in Slots :
        /\ Oldest(s)
        /\ disk' = IF cache_dirty[s] THEN [disk EXCEPT ![cache_blockid[s]] = cache_data[s]] ELSE disk
        /\ saved' = IF cache_dirty[s] THEN [saved EXCEPT ![cache_blockid[s]] = cache_data[s]] ELSE saved
        /\ cache_blockid' = [cache_blockid EXCEPT ![s] = b]
        /\ cache_data' = [cache_data EXCEPT ![s] = disk'[b]]
        /\ cache_dirty' = [cache_dirty EXCEPT ![s] = FALSE]
        /\ unsaved' = unsaved \ {cache_blockid[s]}
        /\ Construct(o, b, s)
  BY Zenon DEF FindMiss
<1>2. Request(o, b) /\ (\A r \in Slots : cache_blockid[r] # b) /\ UNCHANGED <<policy_writethrough, flush>>
  BY Zenon DEF FindMiss
<1>3. TypeOK
  BY Zenon DEF Structure
<1>4. /\ cache_blockid'[s] = b
      /\ \A r \in Slots : r # s => cache_blockid'[r] = cache_blockid[r] /\ cache_dirty'[r] = cache_dirty[r]
      /\ ~cache_dirty'[s]
  BY <1>1, <1>3, Zenon DEF TypeOK
<1>5. OneSlotPerBlock' /\ DirtyIsUsed'
  BY <1>2, <1>4, Zenon DEF Structure, OneSlotPerBlock, DirtyIsUsed
<1>6. \A q \in Objs : Open(q) => block[q].slot # s
  BY <1>1, <1>2, VictimIsFree, Zenon
<1>7. \A q \in Objs : Open(q)' => Held(q)'
  BY <1>1, <1>4, <1>5, <1>6, ConstructKeepsHeld
<1>8. disk' \in [Blocks -> Data] /\ saved' \in [Blocks -> Data]
  BY <1>1, <1>3, Zenon DEF TypeOK
<1>9. TypeOK' /\ AgesDiffer' /\ SinceFinite'
  BY <1>1, <1>2, <1>3, <1>8, ConstructTypes, Zenon DEF TypeOK
<1>10. QED BY <1>5, <1>7, <1>9, Zenon DEF Structure

\* The inductive invariant holds of the cache that cache_init leaves.
LEMMA InitHolds == Init => IInv
<1> SUFFICES ASSUME Init PROVE IInv
  OBVIOUS
<1>1. TypeOK
  BY SlotFacts, Zenon DEF Init, TypeOK, CacheInit, NoObj
<1>2. OneSlotPerBlock /\ AgesDiffer /\ DirtyIsUsed
  BY Zenon DEF Init, CacheInit, OneSlotPerBlock, AgesDiffer, DirtyIsUsed
<1>3. SinceFinite
  BY FS_EmptySet, Zenon DEF Init, SinceFinite
<1>4. \A o \in Objs : ~Open(o)
  BY Zenon DEF Init, Open
<1>5. DiskInv /\ WriteThroughIsClean
  BY Zenon DEF Init, CacheInit, DiskInv, WriteThroughIsClean
<1>6. ReadsSeeUpdates
  BY SlotFacts, Zenon DEF Init, CacheInit, ReadsSeeUpdates
<1>7. QED BY <1>1, <1>2, <1>3, <1>4, <1>5, <1>6, Zenon DEF IInv, Structure

\* After a power failure every slot is empty, and the card alone counts.
LEMMA PowerLossKeeps ==
    ASSUME IInv, PowerLoss
    PROVE  IInv'
<1>1. TypeOK'
  BY SlotFacts, Zenon DEF IInv, Structure, TypeOK, PowerLoss, init_parameters, CacheInit, NoObj
<1>2. OneSlotPerBlock' /\ AgesDiffer' /\ DirtyIsUsed'
  BY Zenon DEF PowerLoss, CacheInit, OneSlotPerBlock, AgesDiffer, DirtyIsUsed
<1>3. SinceFinite'
  BY FS_EmptySet, Zenon DEF PowerLoss, SinceFinite
<1>4. \A o \in Objs : ~Open(o)'
  BY Zenon DEF PowerLoss, Open
<1>5. DiskInv' /\ WriteThroughIsClean'
  BY Zenon DEF PowerLoss, CacheInit, DiskInv, WriteThroughIsClean
<1>6. ReadsSeeUpdates'
  BY SlotFacts, Zenon DEF PowerLoss, CacheInit, ReadsSeeUpdates
<1>7. QED BY <1>1, <1>2, <1>3, <1>4, <1>5, <1>6, Zenon DEF IInv, Structure

\* Steps that leave ages, block numbers and Block objects alone.
LEMMA QuietStep ==
    ASSUME Structure, TypeOK', DirtyIsUsed', UNCHANGED <<cache_blockid, cache_age, block, since>>
    PROVE  Structure'
BY Zenon DEF Structure, OneSlotPerBlock, AgesDiffer, SinceFinite, Open, Held

-------------------------------------------------------------------------------
\* One lemma per operation: the cache and the card stay consistent.
LEMMA HitKeeps ==
    ASSUME IInv, NEW o \in Objs, NEW b \in Blocks, FindHit(o, b)
    PROVE  IInv'
<1>1. Structure'
  BY HitKeepsStructure, Zenon DEF IInv
<1>2. UNCHANGED <<disk, cache_data, cache_blockid, cache_dirty, policy_writethrough, flush, saved, unsaved>>
  BY Zenon DEF FindHit
<1>3. QED BY <1>1, <1>2, Zenon DEF IInv, DiskInv, ReadsSeeUpdates, WriteThroughIsClean

\* A miss writes a dirty victim back before its slot is read over.
LEMMA MissKeeps ==
    ASSUME IInv, NEW o \in Objs, NEW b \in Blocks, FindMiss(o, b)
    PROVE  IInv'
<1>1. Structure' /\ Structure
  BY MissKeepsStructure, Zenon DEF IInv
<1>2. PICK s \in Slots :
        /\ disk' = IF cache_dirty[s] THEN [disk EXCEPT ![cache_blockid[s]] = cache_data[s]] ELSE disk
        /\ saved' = IF cache_dirty[s] THEN [saved EXCEPT ![cache_blockid[s]] = cache_data[s]] ELSE saved
        /\ cache_blockid' = [cache_blockid EXCEPT ![s] = b]
        /\ cache_data' = [cache_data EXCEPT ![s] = disk'[b]]
        /\ cache_dirty' = [cache_dirty EXCEPT ![s] = FALSE]
        /\ unsaved' = unsaved \ {cache_blockid[s]}
  BY Zenon DEF FindMiss
<1>3. (\A r \in Slots : cache_blockid[r] # b) /\ UNCHANGED <<policy_writethrough, flush>>
  BY Zenon DEF FindMiss
<1>4. /\ cache_blockid'[s] = b /\ cache_data'[s] = disk'[b] /\ ~cache_dirty'[s]
      /\ \A r \in Slots : r # s => /\ cache_blockid'[r] = cache_blockid[r]
                                   /\ cache_dirty'[r] = cache_dirty[r]
                                   /\ cache_data'[r] = cache_data[r]
  BY <1>1, <1>2, ZenonT(60) DEF Structure, TypeOK
<1>5. \A c \in Blocks : c # cache_blockid[s] => disk'[c] = disk[c] /\ saved'[c] = saved[c]
  BY <1>1, <1>2, Zenon DEF Structure, TypeOK
<1>6. cache_blockid[s] \in Blocks => disk'[cache_blockid[s]] = saved'[cache_blockid[s]]
  <2>1. SUFFICES ASSUME cache_blockid[s] \in Blocks
                 PROVE  disk'[cache_blockid[s]] = saved'[cache_blockid[s]]
    OBVIOUS
  <2>2. CASE cache_dirty[s]
    BY <1>1, <1>2, <2>1, <2>2, Zenon DEF Structure, TypeOK
  <2>3. CASE ~cache_dirty[s]
    <3>1. \A r \in Slots : cache_blockid[r] = cache_blockid[s] => r = s
      BY <1>1, <2>1, SlotFacts, Zenon DEF Structure, OneSlotPerBlock
    <3>2. disk[cache_blockid[s]] = saved[cache_blockid[s]]
      BY <2>1, <2>3, <3>1, Zenon DEF IInv, DiskInv
    <3>3. QED BY <1>2, <2>3, <3>2, Zenon
  <2>4. QED BY <2>2, <2>3, Zenon
<1>7. DiskInv'
  <2>1. SUFFICES ASSUME NEW c \in Blocks, \A r \in Slots : cache_blockid'[r] = c => ~cache_dirty'[r]
                 PROVE  disk'[c] = saved'[c]
    BY Zenon DEF DiskInv
  <2>2. CASE c = cache_blockid[s]
    BY <1>6, <2>2, Zenon
  <2>3. CASE c # cache_blockid[s]
    <3>1. \A r \in Slots : cache_blockid[r] = c => ~cache_dirty[r]
      BY <1>4, <2>1, <2>3, Zenon
    <3>2. QED BY <1>5, <2>3, <3>1, Zenon DEF IInv, DiskInv
  <2>4. QED BY <2>2, <2>3, Zenon
<1>8. ReadsSeeUpdates'
  <2>1. SUFFICES ASSUME NEW r \in Slots, cache_blockid'[r] \in Blocks \ unsaved'
                 PROVE  cache_data'[r] = saved'[cache_blockid'[r]]
    BY Zenon DEF ReadsSeeUpdates
  <2>2. CASE r = s
    <3>1. disk[b] = saved[b]
      BY <1>3, Zenon DEF IInv, DiskInv
    <3>2. QED BY <1>3, <1>4, <1>5, <2>2, <3>1, Zenon
  <2>3. CASE r # s
    <3>1. cache_blockid[r] # cache_blockid[s]
      BY <1>1, <1>4, <2>1, <2>3, SlotFacts DEF Structure, OneSlotPerBlock
    <3>2. cache_blockid[r] \in Blocks \ unsaved
      BY <1>2, <1>4, <2>1, <2>3, <3>1
    <3>3. QED BY <1>4, <1>5, <2>3, <3>1, <3>2 DEF IInv, ReadsSeeUpdates
  <2>4. QED BY <2>2, <2>3, Zenon
<1>9. WriteThroughIsClean'
  BY <1>3, <1>4, Zenon DEF IInv, WriteThroughIsClean
<1>10. QED BY <1>1, <1>7, <1>8, <1>9, Zenon DEF IInv

\* Writing through data() touches the slot of the Block object alone.
LEMMA ModifyKeeps ==
    ASSUME IInv, NEW o \in Objs, NEW v \in Data, Modify(o, v)
    PROVE  IInv'
<1>1. Structure /\ Held(o) /\ block[o].slot \in Slots
  BY Zenon DEF IInv, Structure, Modify, TypeOK
<1>2. TypeOK' /\ DirtyIsUsed'
  BY <1>1, Zenon DEF Structure, TypeOK, DirtyIsUsed, Modify, Held
<1>3. Structure'
  BY <1>1, <1>2, QuietStep, Zenon DEF Modify
<1>4. DiskInv' /\ WriteThroughIsClean'
  BY Zenon DEF IInv, DiskInv, WriteThroughIsClean, Modify
<1>5. ReadsSeeUpdates'
  <2>1. \A s \in Slots : s # block[o].slot => cache_data'[s] = cache_data[s]
    BY <1>1, Zenon DEF Structure, TypeOK, Modify
  <2>2. QED BY <1>1, <2>1, Zenon DEF IInv, ReadsSeeUpdates, Modify, Held
<1>6. QED BY <1>3, <1>4, <1>5, Zenon DEF IInv

\* update() marks the slot dirty, or writes it through.
LEMMA UpdateKeeps ==
    ASSUME IInv, NEW o \in Objs, update(o)
    PROVE  IInv'
<1> DEFINE s == block[o].slot
           b == block[o].blk
<1>1. Structure /\ s \in Slots /\ b \in Blocks /\ cache_blockid[s] = b
  BY Zenon DEF IInv, Structure, update, TypeOK, Held
<1>2. \A r \in Slots : cache_blockid[r] = b => r = s
  BY <1>1, SlotFacts, Zenon DEF Structure, OneSlotPerBlock
<1>3. /\ saved' = [saved EXCEPT ![b] = cache_data[s]]
      /\ unsaved' = unsaved \ {b}
      /\ UNCHANGED <<cache_data, cache_blockid, cache_age, policy_writethrough, flush, block, since>>
      /\ disk' = IF policy_writethrough THEN [disk EXCEPT ![b] = cache_data[s]] ELSE disk
      /\ cache_dirty' = IF policy_writethrough THEN cache_dirty ELSE [cache_dirty EXCEPT ![s] = TRUE]
  BY <1>1, Zenon DEF update
<1>4. TypeOK
  BY <1>1, Zenon DEF Structure
<1> HIDE DEF s, b
<1>5. TypeOK' /\ DirtyIsUsed'
  BY <1>1, <1>3, <1>4, Zenon DEF Structure, TypeOK, DirtyIsUsed
<1>6. Structure'
  BY <1>1, <1>3, <1>5, QuietStep, Zenon
<1>7. DiskInv'
  <2>1. SUFFICES ASSUME NEW c \in Blocks, \A r \in Slots : cache_blockid[r] = c => ~cache_dirty'[r]
                 PROVE  disk'[c] = saved'[c]
    BY <1>3, Zenon DEF DiskInv
  <2>2. CASE c = b
    BY <1>1, <1>3, <1>4, <2>1, <2>2, Zenon DEF TypeOK
  <2>3. CASE c # b
    <3>1. \A r \in Slots : cache_blockid[r] = c => ~cache_dirty[r]
      BY <1>1, <1>3, <1>4, <2>1, <2>3, Zenon DEF TypeOK
    <3>2. disk'[c] = disk[c] /\ saved'[c] = saved[c]
      BY <1>3, <1>4, <2>3, Zenon DEF TypeOK
    <3>3. QED BY <3>1, <3>2, Zenon DEF IInv, DiskInv
  <2>4. QED BY <2>2, <2>3, Zenon
<1>8. ReadsSeeUpdates'
  <2>1. SUFFICES ASSUME NEW r \in Slots, cache_blockid[r] \in Blocks \ unsaved'
                 PROVE  cache_data[r] = saved'[cache_blockid[r]]
    BY <1>3, Zenon DEF ReadsSeeUpdates
  <2>2. CASE r = s
    BY <1>1, <1>3, <1>4, <2>2, Zenon DEF TypeOK
  <2>3. CASE r # s
    <3>1. cache_blockid[r] # b /\ cache_blockid[r] \in Blocks \ unsaved
      BY <1>2, <1>3, <2>1, <2>3, Zenon
    <3>2. QED BY <1>3, <1>4, <2>1, <3>1, Zenon DEF IInv, ReadsSeeUpdates, TypeOK
  <2>4. QED BY <2>2, <2>3, Zenon
<1>9. WriteThroughIsClean'
  BY <1>3, Zenon DEF IInv, WriteThroughIsClean
<1>10. QED BY <1>6, <1>7, <1>8, <1>9, Zenon DEF IInv

\* A Block object that ends takes nothing with it.
LEMMA DestroyKeeps ==
    ASSUME IInv, NEW o \in Objs, Destroy(o)
    PROVE  IInv'
<1>1. /\ Structure
      /\ block' = [block EXCEPT ![o] = NoObj] /\ since' = [since EXCEPT ![o] = {}]
      /\ UNCHANGED <<disk, cache_data, cache_blockid, cache_dirty, cache_age, policy_writethrough,
                     flush, saved, unsaved>>
  BY Zenon DEF IInv, Destroy, cache
<1>2. TypeOK'
  BY <1>1, SlotFacts, Zenon DEF Structure, TypeOK, NoObj
<1>3. OneSlotPerBlock' /\ AgesDiffer' /\ DirtyIsUsed'
  BY <1>1, Zenon DEF Structure, OneSlotPerBlock, AgesDiffer, DirtyIsUsed
<1>4. SinceFinite'
  BY <1>1, FS_EmptySet, Zenon DEF Structure, SinceFinite, TypeOK
<1>5. ASSUME NEW q \in Objs, Open(q)' PROVE Held(q)'
  <2>1. q # o
    BY <1>1, <1>5, Zenon DEF Open, Structure, TypeOK
  <2>2. block'[q] = block[q] /\ since'[q] = since[q]
    BY <1>1, <2>1, Zenon DEF Structure, TypeOK
  <2>3. QED BY <1>1, <1>5, <2>2, Zenon DEF Structure, Open, Held
<1>6. DiskInv' /\ ReadsSeeUpdates' /\ WriteThroughIsClean'
  BY <1>1, Zenon DEF IInv, DiskInv, ReadsSeeUpdates, WriteThroughIsClean
<1>7. QED BY <1>2, <1>3, <1>4, <1>5, <1>6, Zenon DEF IInv, Structure

\* cache_writeback makes one slot clean and its block durable.
LEMMA WritebackKeeps ==
    ASSUME IInv, cache_writeback
    PROVE  IInv'
<1> DEFINE b == cache_blockid[flush]
<1>1. Structure /\ TypeOK /\ flush \in Slots /\ flush \in Nat /\ CACHE_SIZE \in Nat \ {0}
  BY SlotFacts, Zenon DEF IInv, Structure, cache_writeback, TypeOK
<1>2. /\ disk' = IF cache_dirty[flush] THEN [disk EXCEPT ![b] = cache_data[flush]] ELSE disk
      /\ saved' = IF cache_dirty[flush] THEN [saved EXCEPT ![b] = cache_data[flush]] ELSE saved
      /\ unsaved' = IF cache_dirty[flush] THEN unsaved \ {b} ELSE unsaved
      /\ cache_dirty' = [cache_dirty EXCEPT ![flush] = FALSE]
      /\ flush' = IF flush = CACHE_SIZE - 1 THEN -1 ELSE flush + 1
      /\ UNCHANGED <<cache_data, cache_blockid, cache_age, policy_writethrough, block, since>>
  BY Zenon DEF cache_writeback
<1>3. cache_dirty[flush] => b \in Blocks
  BY <1>1, Zenon DEF Structure, DirtyIsUsed
<1>4. \A r \in Slots : b \in Blocks /\ cache_blockid[r] = b => r = flush
  BY <1>1, SlotFacts, Zenon DEF Structure, OneSlotPerBlock
<1>5. ~cache_dirty'[flush] /\ \A r \in Slots : r # flush => cache_dirty'[r] = cache_dirty[r]
  BY <1>1, <1>2, Zenon DEF TypeOK
<1> HIDE DEF b
<1>6. flush' \in Slots \cup {-1}
  BY <1>1, <1>2 DEF Slots
<1>7. TypeOK' /\ DirtyIsUsed'
  BY <1>1, <1>2, <1>5, <1>6, ZenonT(60) DEF TypeOK, Structure, DirtyIsUsed
<1>8. Structure'
  BY <1>1, <1>2, <1>7, QuietStep, Zenon
<1>9. DiskInv'
  <2>1. SUFFICES ASSUME NEW c \in Blocks, \A r \in Slots : cache_blockid[r] = c => ~cache_dirty'[r]
                 PROVE  disk'[c] = saved'[c]
    BY <1>2, Zenon DEF DiskInv
  <2>2. CASE cache_dirty[flush] /\ c = b
    BY <1>1, <1>2, <2>2, Zenon DEF TypeOK
  <2>3. CASE ~(cache_dirty[flush] /\ c = b)
    <3>1. \A r \in Slots : cache_blockid[r] = c => ~cache_dirty[r]
      BY <1>5, <2>1, <2>3, Zenon DEF b
    <3>2. disk'[c] = disk[c] /\ saved'[c] = saved[c]
      BY <1>1, <1>2, <2>3, Zenon DEF TypeOK
    <3>3. QED BY <3>1, <3>2, Zenon DEF IInv, DiskInv
  <2>4. QED BY <2>2, <2>3, Zenon
<1>10. ReadsSeeUpdates'
  <2>1. SUFFICES ASSUME NEW r \in Slots, cache_blockid[r] \in Blocks \ unsaved'
                 PROVE  cache_data[r] = saved'[cache_blockid[r]]
    BY <1>2, Zenon DEF ReadsSeeUpdates
  <2>2. CASE cache_dirty[flush] /\ cache_blockid[r] = b
    BY <1>1, <1>2, <1>3, <1>4, <2>2, Zenon DEF TypeOK
  <2>3. CASE ~(cache_dirty[flush] /\ cache_blockid[r] = b)
    <3>1. cache_blockid[r] \in Blocks \ unsaved
      BY <1>2, <2>1, <2>3, Zenon
    <3>2. saved'[cache_blockid[r]] = saved[cache_blockid[r]]
      BY <1>1, <1>2, <2>3, <3>1, Zenon DEF TypeOK
    <3>3. QED BY <3>1, <3>2, Zenon DEF IInv, ReadsSeeUpdates
  <2>4. QED BY <2>2, <2>3, Zenon
<1>11. WriteThroughIsClean'
  <2>1. SUFFICES ASSUME policy_writethrough, NEW r \in Slots, cache_dirty'[r]
                 PROVE  flush' # -1 /\ flush' <= r
    BY <1>2, Zenon DEF WriteThroughIsClean
  <2>2. r # flush /\ cache_dirty[r]
    BY <1>5, <2>1, Zenon
  <2>3. flush <= r /\ r \in Nat /\ r <= CACHE_SIZE - 1
    BY <2>1, <2>2, SlotFacts, Zenon DEF IInv, WriteThroughIsClean
  <2>4. QED BY <1>1, <1>2, <2>2, <2>3
<1>12. QED BY <1>8, <1>9, <1>10, <1>11, Zenon DEF IInv

\* Setting the timer or the policy moves no block.
LEMMA TimerKeeps ==
    ASSUME IInv, cache_scan_timer \/ \E through \in BOOLEAN : cache_set_policy(through)
    PROVE  IInv'
<1>1. UNCHANGED <<disk, cache_data, cache_blockid, cache_dirty, cache_age, block, since, saved, unsaved>>
  BY Zenon DEF cache_scan_timer, cache_set_policy, cache
<1>2. flush' \in {0, -1} /\ policy_writethrough' \in BOOLEAN /\ (policy_writethrough' => flush' = 0)
  <2>1. CASE cache_scan_timer
    BY <2>1, Zenon DEF cache_scan_timer, IInv, Structure, TypeOK
  <2>2. CASE \E through \in BOOLEAN : cache_set_policy(through)
    BY <2>2 DEF cache_set_policy
  <2>3. QED BY <2>1, <2>2, Zenon
<1>3. TypeOK' /\ DirtyIsUsed'
  BY <1>1, <1>2, SlotFacts, Zenon DEF IInv, Structure, TypeOK, DirtyIsUsed
<1>4. Structure'
  BY <1>1, <1>3, QuietStep, Zenon DEF IInv
<1>5. DiskInv' /\ ReadsSeeUpdates'
  BY <1>1, Zenon DEF IInv, DiskInv, ReadsSeeUpdates
<1>6. WriteThroughIsClean'
  BY <1>2, SlotFacts DEF WriteThroughIsClean
<1>7. QED BY <1>4, <1>5, <1>6, Zenon DEF IInv

\* The inductive invariant is preserved by every step of the cache.
LEMMA StepKeeps == IInv /\ [Next]_vars => IInv'
<1> SUFFICES ASSUME IInv, [Next]_vars PROVE IInv'
  OBVIOUS
<1>1. ASSUME NEW o \in Objs, Use(o) PROVE IInv'
  BY <1>1, HitKeeps, MissKeeps, ModifyKeeps, UpdateKeeps, DestroyKeeps, Zenon DEF Use
<1>2. CASE cache_writeback
  BY <1>2, WritebackKeeps, Zenon
<1>3. CASE cache_scan_timer \/ \E through \in BOOLEAN : cache_set_policy(through)
  BY <1>3, TimerKeeps, Zenon
<1>4. CASE PowerLoss
  BY <1>4, PowerLossKeeps, Zenon
<1>5. CASE UNCHANGED vars
  BY <1>5 DEF vars, cache, IInv, Structure, TypeOK, OneSlotPerBlock, AgesDiffer, SinceFinite, DirtyIsUsed,
              Open, Held, DiskInv, ReadsSeeUpdates, WriteThroughIsClean
<1>6. QED BY <1>1, <1>2, <1>3, <1>4, <1>5, Zenon DEF Next

-------------------------------------------------------------------------------
\* The slot a Block object remembers holds its block as long as the object exists, however
\* often cache_find replaces slots, if fewer than CACHE_SIZE other blocks are asked for.
THEOREM SlotsAreKept == Spec => []SlotHoldsBlock
<1>1. IInv => SlotHoldsBlock
  BY Zenon DEF IInv, Structure, Held, SlotHoldsBlock
<1>2. QED BY <1>1, InitHolds, StepKeeps, PTL DEF Spec

\* A power failure loses only what is in dirty slots, and nothing with write-through.
THEOREM UpdatesAreDurable == Spec => []CleanIsDurable
<1>1. IInv => CleanIsDurable
  BY Zenon DEF IInv, DiskInv, CleanIsDurable
<1>2. QED BY <1>1, InitHolds, StepKeeps, PTL DEF Spec

\* A cached block reads as last saved, through evictions, flushes and policy changes.
THEOREM ReadsAreCurrent == Spec => []ReadsSeeUpdates
<1>1. IInv => ReadsSeeUpdates
  BY Zenon DEF IInv
<1>2. QED BY <1>1, InitHolds, StepKeeps, PTL DEF Spec
===============================================================================
