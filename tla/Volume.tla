-------------------------------- MODULE Volume --------------------------------
(***************************************************************************)
(* The helpers of fs/fs.cpp: bitmaps, inodes, file data, directories.       *)
(*                                                                          *)
(* A "view" is the contents of the volume: superblock counters, the two     *)
(* bitmaps, the inodes and the data blocks.  The kernel works on the view m *)
(* it has through the cache; d is what is on the card.  A helper maps a     *)
(* machine                                                                  *)
(*     f = [m, d, writethrough, dirty, log, ret, panic]                     *)
(* to the next one.  Under write-through update() writes to the card, and   *)
(* the log has every successive d, so that a power failure may stop an      *)
(* operation after any of its writes.  Under write-back it makes the unit   *)
(* dirty.  A unit is what lies in one block of the card and so is written   *)
(* at once: the superblock, a block of a bitmap, the inodes (few enough for *)
(* one block), a data block.                                                *)
(*                                                                          *)
(* A block is BLOCK_SIZE words, and offsets count words.  A word is a       *)
(* number (file data, or a block number in an index block) or a directory   *)
(* entry; an entry whose valid field is 0 has the name "".  Of the indirect *)
(* levels the first is modelled.                                            *)
(***************************************************************************)
EXTENDS Integers, Sequences, FiniteSets

CONSTANTS MAX_INODE_NUM, MAX_BLOCK_NUM,
          MAP_BITS,            \* bits in one block of a bitmap (BLOCK_SIZE * 8)
          BLOCK_SIZE,          \* words in a block
          INODE_DATA_DIRECT, INODE_DATA_L1

ASSUME VolumeAssumption ==
    /\ MAX_INODE_NUM \in Nat \ {0} /\ MAX_BLOCK_NUM \in Nat \ {0} /\ MAP_BITS \in Nat \ {0, 1}
    /\ MAX_INODE_NUM % MAP_BITS = 0 /\ MAX_BLOCK_NUM % MAP_BITS = 0
    /\ BLOCK_SIZE \in Nat \ {0, 1} /\ INODE_DATA_DIRECT \in Nat \ {0} /\ INODE_DATA_L1 \in Nat

Inodes == 0 .. MAX_INODE_NUM - 1
Blocks == 0 .. MAX_BLOCK_NUM - 1
START == 1                              \* superblock.block_start_block
Size == [inode |-> MAX_INODE_NUM, block |-> MAX_BLOCK_NUM]
Num(v) == [n |-> v, name |-> ""]
Zero == [w \in 0 .. BLOCK_SIZE - 1 |-> Num(0)]
Junk == [w \in 0 .. BLOCK_SIZE - 1 |-> [n |-> 0, name |-> "?"]]     \* what a free block holds
NoInode == [type |-> 0, link_cnt |-> 0, size |-> 0,
            direct |-> [i \in 0 .. INODE_DATA_DIRECT - 1 |-> 0],
            l1     |-> [i \in 0 .. INODE_DATA_L1 - 1 |-> 0]]
L0_BOUND == INODE_DATA_DIRECT * BLOCK_SIZE
L1_SIZE == BLOCK_SIZE * BLOCK_SIZE
UINT == 2 ^ 30                          \* sizes wrap; 2 ^ 32 in the code
Least(S) == CHOOSE x \in S : \A y \in S : x <= y

-------------------------------------------------------------------------------
Units == {<<"sb", 0>>, <<"ino", 0>>} \cup {<<"blk", b>> : b \in Blocks}
           \cup UNION {{<<k, x \div MAP_BITS>> : x \in 0 .. Size[k] - 1} : k \in {"inode", "block"}}

\* View w once the units us have been written to it as they are in view v.
Put(w, v, us) ==
    [sb  |-> IF <<"sb", 0>> \in us THEN v.sb ELSE w.sb,
     map |-> [k \in {"inode", "block"} |-> {x \in w.map[k] : <<k, x \div MAP_BITS>> \notin us}
                                             \cup {x \in v.map[k] : <<k, x \div MAP_BITS>> \in us}],
     ino |-> IF <<"ino", 0>> \in us THEN v.ino ELSE w.ino,
     blk |-> [b \in Blocks |-> IF <<"blk", b>> \in us THEN v.blk[b] ELSE w.blk[b]]]

\* Block::update for the block of unit u, under write-through and under write-back.
Written(f, new) == [f EXCEPT !.d = new, !.log = Append(@, new)]
Update(f, u) ==
    IF f.panic # "no" THEN f
    ELSE IF f.writethrough THEN Written(f, Put(f.d, f.m, {u}))
    ELSE [f EXCEPT !.dirty = @ \cup {u}]

flush_superblock(f) == Update(f, <<"sb", 0>>)

Panic(f, why) == [f EXCEPT !.panic = IF @ = "no" THEN why ELSE @]
Ret(f, r) == [f EXCEPT !.ret = r]

\* Bit x is set, then the counters follow.
Take(f, kind, x) ==
    LET bit == Update([f EXCEPT !.m.map[kind] = @ \cup {x}], <<kind, x \div MAP_BITS>>)
    IN  Ret(flush_superblock([bit EXCEPT !.m.sb[kind] = [allocated |-> @.allocated + 1,
                                                         free_map  |-> (x + 1) \div MAP_BITS]]), x)

\* inode_alloc and block_alloc: the first clear bit of the bitmap, looked for from the
\* map block that free_min is in.
alloc(f, kind) ==
    LET clear == {x \in 0 .. Size[kind] - 1 :
                     x \notin f.m.map[kind] /\ x \div MAP_BITS >= f.m.sb[kind].free_map}
    IN  IF clear = {} THEN Ret(Panic(f, kind), 0) ELSE Take(f, kind, Least(clear))

\* Mutant of free: free_min does not follow.
M_free(f, kind, x) ==
    LET bit == Update([f EXCEPT !.m.map[kind] = @ \ {x}], <<kind, x \div MAP_BITS>>)
    IN  IF x \notin f.m.map[kind] THEN Panic(f, "free")
        ELSE flush_superblock([bit EXCEPT !.m.sb[kind].allocated = @ - 1])

\* inode_free and block_free.
free(f, kind, x) ==
    LET bit == Update([f EXCEPT !.m.map[kind] = @ \ {x}], <<kind, x \div MAP_BITS>>)
    IN  IF x \notin f.m.map[kind] THEN Panic(f, "free")
        ELSE flush_superblock([bit EXCEPT !.m.sb[kind] =
                 [allocated |-> @.allocated - 1,
                  free_map  |-> Least({x \div MAP_BITS, @.free_map})]])

inode_alloc(f) == alloc(f, "inode")
block_alloc(f) == alloc(f, "block")
inode_free(f, i) == free(f, "inode", i)
block_free(f, b) == free(f, "block", b)
write_inode(f, i, n) == Update([f EXCEPT !.m.ino[i] = n], <<"ino", 0>>)

-------------------------------------------------------------------------------
\* The start of inode_modify_data_recur: a block that is missing is allocated and cleared
\* in the cache.  The answer is the block, and whether it is new.
Ensure(f, b) ==
    LET Clear(g) == [g EXCEPT !.m.blk[g.ret] = Zero, !.ret = [b |-> @, modified |-> TRUE]]
    IN  IF b # 0 THEN Ret(f, [b |-> b, modified |-> FALSE]) ELSE Clear(block_alloc(f))

\* The words of t, of which there are n, laid over block c from offset o.
Lay(c, o, t, n) == [w \in DOMAIN c |-> IF w \in o .. o + n - 1 THEN t[w - o] ELSE c[w]]

\* inode_modify_data_recur at depth 0, once the block is there.  The words to write are
\* buf, those read are the answer; a read changes nothing on the card, even if the block
\* is new.
Copy(g, is_write, buf, o, n) ==
    LET c == g.ret.b
    IN  IF is_write
        THEN Ret(Update([g EXCEPT !.m.blk[c] = Lay(@, o, buf, n)], <<"blk", c>>),
                 [b |-> c, modified |-> g.ret.modified, buf |-> buf])
        ELSE Ret(g, [b |-> c, modified |-> g.ret.modified,
                     buf |-> [w \in 0 .. n - 1 |-> g.m.blk[c][o + w]]])

Recur0(f, is_write, b, buf, o, n) == Copy(Ensure(f, b), is_write, buf, o, n)

\* ... and at depth 1.  The local variable data hides the parameter, so the next level
\* copies from or to the start of the index block and the caller's buffer is not used.
Recur1(f, is_write, b, buf, o, n) ==
    LET slot == o \div BLOCK_SIZE
        Link(e, x) == [e EXCEPT !.m.blk[x][slot] = Num(e.ret.b)]
        Read(r, x) == IF is_write THEN r ELSE [r EXCEPT !.m.blk[x] = Lay(@, 0, r.ret.buf, n)]
        Save(s, x, new) == IF new THEN Update(s, <<"blk", x>>) ELSE s
        Below(h, x) == Save(Read(Copy(h, is_write, h.m.blk[x], o % BLOCK_SIZE, n), x), x, h.ret.modified)
        Index(g) == Ret(Below(Link(Ensure(g, g.m.blk[g.ret.b][slot].n), g.ret.b), g.ret.b),
                        [b |-> g.ret.b, modified |-> g.ret.modified, buf |-> buf])
    IN  Index(Ensure(f, b))

\* inode_modify_data: the inode is the caller's copy, and returned with the words read.
inode_modify_data(f, is_write, inode, buf, offset, n) ==
    LET grow == offset + n > inode.size /\ inode.type = 2
        level == IF offset < L0_BOUND THEN "direct" ELSE "l1"
        o == IF level = "direct" THEN offset ELSE offset - L0_BOUND
        i == o \div (IF level = "direct" THEN BLOCK_SIZE ELSE L1_SIZE)
        Answer(g) == Ret(g, [inode    |-> [inode EXCEPT ![level][i] = g.ret.b,
                                                        !.size = IF grow THEN offset + n ELSE @],
                             modified |-> grow \/ g.ret.modified,
                             buf      |-> g.ret.buf])
    IN  IF i \notin DOMAIN inode[level]
        THEN Ret(Panic(f, "range"), [inode |-> inode, modified |-> FALSE, buf |-> buf])
        ELSE Answer(IF level = "direct" THEN Recur0(f, is_write, inode.direct[i], buf, o % BLOCK_SIZE, n)
                    ELSE Recur1(f, is_write, inode.l1[i], buf, o % L1_SIZE, n))

-------------------------------------------------------------------------------
\* The entries of a directory: pairs of a direct block and a place in it, in the order of
\* the double loop of get_inode_by_filename.
Places(inode) == {i \in 0 .. L0_BOUND - 1 : inode.direct[i \div BLOCK_SIZE] # 0}
Entry(view, inode, i) == view.blk[inode.direct[i \div BLOCK_SIZE]][i % BLOCK_SIZE]
Matches(view, inode, name) == {i \in Places(inode) : Entry(view, inode, i).name = name}

\* free_offset after both loops; 0 also stands for "none".
FreeOffset(view, inode) ==
    LET unused == {i \in Places(inode) \ {0} : Entry(view, inode, i).name = ""}
        empty == {b \in DOMAIN inode.direct : inode.direct[b] = 0}
    IN  IF unused # {} THEN Least(unused)
        ELSE IF empty # {} THEN Least(empty) * BLOCK_SIZE ELSE 0

\* get_inode_by_filename with create_if_not_existed, when the name is not there.
Create(f, dir, name, new) ==
    LET Link(g, i) == Ret(write_inode(g, dir, [g.ret.inode EXCEPT !.size = (@ + 1) % UINT]), i)
        Add(g, i) == Link(inode_modify_data(g, TRUE, f.m.ino[dir], [w \in {0} |-> [n |-> i, name |-> name]],
                                            FreeOffset(f.m, f.m.ino[dir]), 1), i)
        Fresh(g) == write_inode(g, g.ret, NoInode)
        From(g) == Add(g, g.ret)
    IN  From(IF new # 0 THEN Ret(f, new) ELSE Fresh(inode_alloc(f)))

Find(f, dir, name) ==
    LET hits == Matches(f.m, f.m.ino[dir], name)
    IN  IF hits = {} THEN -1 ELSE Entry(f.m, f.m.ino[dir], Least(hits)).n

get_inode_by_filename(f, dir, name, create, new) ==
    IF Find(f, dir, name) # -1 \/ ~create THEN Ret(f, Find(f, dir, name))
    ELSE Create(f, dir, name, new)

\* Mutant of remove_inode_by_filename: the size of the directory stays.
M_remove_inode_by_filename(f, dir, name) ==
    LET inode == f.m.ino[dir]
        hits == Matches(f.m, inode, name)
        i == Least(hits)
        b == inode.direct[i \div BLOCK_SIZE]
    IN  IF hits = {} THEN Panic(f, "entry")
        ELSE Update([f EXCEPT !.m.blk[b][i % BLOCK_SIZE] = Num(0)], <<"blk", b>>)

\* remove_inode_by_filename: the entry first, then the size of the directory.
remove_inode_by_filename(f, dir, name) ==
    LET inode == f.m.ino[dir]
        hits == Matches(f.m, inode, name)
        i == Least(hits)
        b == inode.direct[i \div BLOCK_SIZE]
        g == Update([f EXCEPT !.m.blk[b][i % BLOCK_SIZE] = Num(0)], <<"blk", b>>)
    IN  IF hits = {} THEN Panic(f, "entry")
        ELSE write_inode(g, dir, [inode EXCEPT !.size = (@ - 1) % UINT])

\* Block k of a file (0: none), as inode_modify_data and free_inode_blocks find it.
BlockOf(view, inode, k) ==
    LET j == k - INODE_DATA_DIRECT
        x == inode.l1[j \div BLOCK_SIZE]
    IN  IF k < INODE_DATA_DIRECT THEN inode.direct[k]
        ELSE IF x = 0 THEN 0 ELSE view.blk[x][j % BLOCK_SIZE].n

FileBlocks == 0 .. INODE_DATA_DIRECT + INODE_DATA_L1 * BLOCK_SIZE - 1

\* free_inode_blocks: the data blocks one after the other; index blocks stay allocated.
free_inode_blocks(f, inode) ==
    LET upto[k \in {-1} \cup FileBlocks] ==
            IF k = -1 THEN f
            ELSE LET b == BlockOf(f.m, inode, k)
                 IN  IF b = 0 THEN upto[k - 1] ELSE block_free(upto[k - 1], b)
    IN  upto[Cardinality(FileBlocks) - 1]

\* The blocks of a bitmap are written one after the other.
UpdateMap(f, kind) ==
    LET upto[k \in 0 .. Size[kind] \div MAP_BITS] ==
            IF k = 0 THEN f ELSE Update(upto[k - 1], <<kind, k - 1>>)
    IN  upto[Size[kind] \div MAP_BITS]

\* fs_mkfs: the bitmaps are reset and the root directory is made.
mkfs(f) ==
    LET sb == [f EXCEPT !.m.sb = [inode |-> [allocated |-> 0, free_map |-> 0],
                                  block |-> [allocated |-> START, free_map |-> (START + 1) \div MAP_BITS]]]
        im == UpdateMap([sb EXCEPT !.m.map.inode = {}], "inode")
        bm == UpdateMap([im EXCEPT !.m.map.block = 0 .. START - 1], "block")
        root == [NoInode EXCEPT !.type = 1, !.link_cnt = 65535]
        dots(i) == [w \in 0 .. 1 |-> [n |-> i, name |-> IF w = 0 THEN "." ELSE ".."]]
        Save(r, i) == write_inode(r, i, r.ret.inode)
        Root(al) == Save(inode_modify_data(flush_superblock(al), TRUE, root, dots(al.ret), 0, 2), al.ret)
    IN  Root(inode_alloc(bm))

\* A view in which what is free, given the bits that are set, is not told apart.
Tidy(v, map) == [v EXCEPT !.ino = [i \in Inodes |-> IF i \in map.inode THEN @[i] ELSE NoInode],
                          !.blk = [b \in Blocks |-> IF b \in map.block THEN @[b] ELSE Junk]]
===============================================================================
