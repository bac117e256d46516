------------------------------ MODULE FileSystem ------------------------------
(***************************************************************************)
(* The system calls of fs/fs.cpp and fs/file.cpp on a Volume, as one CPU    *)
(* runs them (the kernel is not preempted), over a cache that writes        *)
(* through or writes back.  Power can fail after any block write, and the   *)
(* kernel starts again from what is on the card.                            *)
(*                                                                          *)
(* Under write-back an operation only makes units dirty, and the timer, the *)
(* change of policy and the replacement of slots bring them to the card.    *)
(* They do so here between operations.  In the code a slot may also be      *)
(* replaced inside one: if the operation changes the unit again it is dirty *)
(* at the end all the same, and if not it may as well be written then.      *)
(*                                                                          *)
(* The code has calls after which the volume is no longer sound whatever    *)
(* follows.  They are named in "spoiled" when they happen, and the          *)
(* properties say what holds as long as none has.  So is a power failure    *)
(* when some of the dirty units, but not all, have reached the card: the    *)
(* order in which they do is that of the cache slots, and means nothing.    *)
(***************************************************************************)
EXTENDS Volume

CONSTANTS Procs, Names,
          Data,                \* numbers that are written to files
          Modes,               \* of fopen
          Workloads,           \* who does what: the processes, the names they use, which of the
                               \* groups of calls in Next they make, the offsets of lseek with SEEK_SET,
                               \* the lengths and numbers of fread and fwrite, how often (at most)
                               \* power fails inside an operation, and the values that
                               \* policy_writethrough is given
          MaxLinks             \* bound: link_cnt that ln makes

ASSUME FileSystemAssumption ==
    /\ Data \subseteq Nat /\ Data \cap Blocks = {}
    /\ \A w \in Workloads : /\ w.data \subseteq Data
                             /\ w.lengths \subseteq 1 .. BLOCK_SIZE  \* File::read and write loop at most twice

VARIABLES use,         \* the workload; it does not change
          m, d,        \* the view through the cache, and the card
          cwd,         \* cwd_node_idx of each process
          files,       \* the open File objects, by inode number, their key in File::pool
          writethrough,\* policy_writethrough
          dirty,       \* the units whose cache slot is dirty
          hung,        \* the assertion that has stopped the kernel, "no" if none
          written,     \* history: <<inode, offset, number>> that fwrite has completed
          saved,       \* history: what written was when last nothing was dirty
          partial,     \* history: since then some of what is dirty has been written
          torn,        \* history: how often power has failed inside an operation
          spoiled      \* history: calls that may break the volume

histories == <<written, saved, partial, torn, spoiled>>
vars == <<use, m, d, cwd, files, writethrough, dirty, hung, histories>>

Closed == [i \in Inodes |-> [open |-> {}, mode |-> 0, ptr |-> 0, inode |-> NoInode]]
Machine(memory, card, through, units) ==
    [m |-> memory, d |-> card, writethrough |-> through, dirty |-> units, log |-> <<>>, ret |-> 0, panic |-> "no"]
Start == Machine(m, d, writethrough, dirty)

\* init_filesystem has found a new card and made the file system.
Init ==
    LET v == [sb  |-> [k \in {"inode", "block"} |-> [allocated |-> 0, free_map |-> 0]],
              map |-> [inode |-> {}, block |-> {}],
              ino |-> [i \in Inodes |-> NoInode],
              blk |-> [b \in Blocks |-> Junk]]
    IN  /\ use \in Workloads
        /\ m = mkfs(Machine(v, v, TRUE, {})).m
        /\ d = m
        /\ cwd = [p \in Procs |-> 0]
        /\ files = Closed
        /\ writethrough = TRUE
        /\ dirty = {}
        /\ hung = "no"
        /\ written = {}
        /\ saved = {}
        /\ partial = FALSE
        /\ torn = 0
        /\ spoiled = {}

\* The kernel has come up on the card as it is: init_filesystem finds the magic numbers.
init_filesystem ==
    /\ m' = d'
    /\ cwd' = [p \in Procs |-> 0]
    /\ files' = Closed
    /\ writethrough' = TRUE
    /\ dirty' = {}
    /\ partial' = FALSE
    /\ hung' = "no"

\* What one view or the other uses.
Either(v, w) == [k \in {"inode", "block"} |-> v.map[k] \cup w.map[k]]

\* The history is now w, and all of it on the card if nothing is dirty.
Record(w) ==
    /\ written' = w
    /\ saved' = IF dirty' = {} THEN w ELSE saved

\* An operation with result f: it runs to its end, or into an assertion, or power fails
\* after one of its writes but the last.  written2 is the history after it; events and
\* torn_events are the dangers it brings.
Perform(f, cwd2, files2, written2, events, torn_events) ==
    /\ hung = "no"
    /\ UNCHANGED use
    /\ \/ /\ m' = Tidy(f.m, f.m.map)
          /\ d' = Tidy(f.d, Either(f.m, f.d))
          /\ dirty' = f.dirty
          /\ hung' = f.panic
          /\ cwd' = IF f.panic = "no" THEN cwd2 ELSE cwd
          /\ files' = IF f.panic = "no" THEN files2 ELSE files
          /\ Record(IF f.panic = "no" THEN written2 ELSE written \cap written2)
          /\ spoiled' = spoiled \cup events
          /\ UNCHANGED <<writethrough, partial, torn>>
       \/ \E k \in 1 .. Len(f.log) - 1 :
             /\ torn < use.torn
             /\ d' = Tidy(f.log[k], f.log[k].map)
             /\ init_filesystem
             /\ torn' = torn + 1
             /\ Record(written \cap written2)
             /\ spoiled' = spoiled \cup events \cup torn_events

\* Power fails between two operations, or the machine is switched off after an assertion.
Restart ==
    /\ UNCHANGED d
    /\ init_filesystem
    /\ Record(saved)
    /\ spoiled' = spoiled \cup (IF partial THEN {"mixed"} ELSE {})
    /\ UNCHANGED <<use, torn>>

\* The slots of the dirty units us are written to the card.
Flush(us) ==
    /\ hung = "no"
    /\ \E new \in {Put(d, m, us)} : d' = Tidy(new, Either(new, m))
    /\ dirty' = dirty \ us
    /\ partial' = (dirty' # {} /\ (partial \/ us # {}))
    /\ Record(written)

\* cache_find replaces the slot of a unit.  If it is dirty it is written; a block changed
\* without update() is as it was when it is next read.
Evict(u) ==
    /\ m' = IF u \in dirty THEN m ELSE Tidy(Put(m, d, {u}), m.map)
    /\ u \in dirty \/ m' # m
    /\ Flush(dirty \cap {u})
    /\ UNCHANGED <<use, cwd, files, writethrough, hung, torn, spoiled>>

cache_scan_timer ==
    /\ ~writethrough
    /\ Flush(dirty)
    /\ UNCHANGED <<use, m, cwd, files, writethrough, hung, torn, spoiled>>

cache_set_policy(through) ==
    /\ writethrough' = through
    /\ Flush(IF through THEN dirty ELSE {})
    /\ UNCHANGED <<use, m, cwd, files, hung, torn, spoiled>>

-------------------------------------------------------------------------------
fs_mkfs(p) ==
    Perform(mkfs(Start), [cwd EXCEPT ![p] = 0], files, {},
            IF files # Closed \/ \E q \in Procs \ {p} : cwd[q] # 0 THEN {"mkfs"} ELSE {},
            {"mkfs"})

\* The directory that a path leads to from i, -1 if a part of it is missing or no directory.
Walk(i, path) ==
    LET at[k \in 0 .. Len(path)] ==
            IF k = 0 THEN i
            ELSE IF at[k - 1] = -1 THEN -1
            ELSE LET j == Find(Start, at[k - 1], path[k])
                 IN  IF j # -1 /\ m.ino[j].type = 1 THEN j ELSE -1
    IN  at[Len(path)]

fs_cd(p, path) ==
    /\ hung = "no"
    /\ \E i \in {Walk(cwd[p], path)} : i # -1 /\ cwd' = [cwd EXCEPT ![p] = i]
    /\ UNCHANGED <<use, m, d, files, writethrough, dirty, hung, histories>>

\* fs_ls goes to the directory, prints its entries and goes back.
fs_ls(p, path) ==
    LET there == [cwd EXCEPT ![p] = Walk(cwd[p], path)]
    IN  /\ hung = "no"
        /\ there[p] # -1
        /\ cwd' = [there EXCEPT ![p] = cwd[p]]
        /\ UNCHANGED <<use, m, d, files, writethrough, dirty, hung, histories>>

\* mkdir, touch and fopen begin alike.
fs_mkdir(p, name) ==
    LET dots(i) == [w \in 0 .. 1 |-> IF w = 0 THEN [n |-> i, name |-> "."] ELSE [n |-> cwd[p], name |-> ".."]]
        Save(r, i) == write_inode(r, i, r.ret.inode)
        Make(f, i) == IF f.m.ino[i].type # 0 THEN f
                      ELSE Save(inode_modify_data(f, TRUE, [f.m.ino[i] EXCEPT !.type = 1, !.link_cnt = 1],
                                                  dots(i), 0, 2), i)
        Named(f) == Make(f, f.ret)
    IN  Perform(Named(get_inode_by_filename(Start, cwd[p], name, TRUE, 0)), cwd, files, written, {}, {})

MakeFile(p, name) ==
    LET Make(f, i) == IF f.m.ino[i].type # 0 THEN f
                      ELSE Ret(write_inode(f, i, [f.m.ino[i] EXCEPT !.type = 2, !.link_cnt = 1]), i)
        Named(f) == Make(f, f.ret)
    IN  Named(get_inode_by_filename(Start, cwd[p], name, TRUE, 0))

fs_touch(p, name) == Perform(MakeFile(p, name), cwd, files, written, {}, {})

\* Mutant of Unlink: the blocks are freed before the entry is removed.
M_Unlink(p, name, i) ==
    LET inode == [m.ino[i] EXCEPT !.link_cnt = (@ - 1) % 2 ^ 16]
    IN  IF inode.link_cnt # 0 THEN write_inode(remove_inode_by_filename(Start, cwd[p], name), i, inode)
        ELSE remove_inode_by_filename(inode_free(free_inode_blocks(Start, inode), i), cwd[p], name)

\* The end of rm and rmdir: the link is gone, and with the last one the inode.
Unlink(p, name, i) ==
    LET f == remove_inode_by_filename(Start, cwd[p], name)
        inode == [m.ino[i] EXCEPT !.link_cnt = (@ - 1) % 2 ^ 16]
    IN  IF inode.link_cnt # 0 THEN write_inode(f, i, inode)
        ELSE inode_free(free_inode_blocks(f, inode), i)

Gone(i) == m.ino[i].link_cnt = 1

fs_rm(p, name) ==
    LET i == Find(Start, cwd[p], name)
    IN  /\ i # -1
        /\ m.ino[i].type = 2
        /\ Perform(Unlink(p, name, i), cwd, files,
                   IF Gone(i) THEN {t \in written : t[1] # i} ELSE written,
                   IF Gone(i) /\ files[i].open # {} THEN {"open"} ELSE {}, {})

fs_rmdir(p, name) ==
    LET i == Find(Start, cwd[p], name)
    IN  /\ i # -1
        /\ m.ino[i].type = 1
        /\ m.ino[i].size = 0
        /\ Perform(Unlink(p, name, i), cwd, files, written,
                   (IF Gone(i) /\ \E q \in Procs : cwd[q] = i THEN {"cwd"} ELSE {})
                     \cup (IF name \notin Names THEN {"dot"} ELSE {}), {})

\* Mutant of fs_ln: the link is not counted.
M_fs_ln(p, src, dst) ==
    LET i == Find(Start, cwd[p], src)
    IN  /\ i # -1
        /\ m.ino[i].type # 0 /\ i # 0 /\ files[i].open = {}
        /\ Perform(get_inode_by_filename(Start, cwd[p], dst, TRUE, i), cwd, files, written, {}, {"ln"})

fs_ln(p, src, dst) ==
    LET i == Find(Start, cwd[p], src)
        Count(f) == write_inode(f, i, [f.m.ino[i] EXCEPT !.link_cnt = (@ + 1) % 2 ^ 16])
    IN  /\ i # -1
        /\ m.ino[i].link_cnt < MaxLinks \/ i = 0
        /\ Perform(Count(get_inode_by_filename(Start, cwd[p], dst, TRUE, i)), cwd, files, written,
                   (IF files[i].open # {} THEN {"open"} ELSE {})
                     \cup (IF m.ino[i].type = 0 THEN {"empty"} ELSE {})
                     \cup (IF i = 0 THEN {"root"} ELSE {}), {"ln"})

\* cat reads whole blocks into a copy of the inode that it does not write back.
fs_cat(p, name) ==
    LET i == Find(Start, cwd[p], name)
        inode == m.ino[i]
        upto[o \in 0 .. inode.size] ==
            IF o = 0 THEN Ret(Start, [inode |-> inode])
            ELSE LET from == ((o - 1) \div BLOCK_SIZE) * BLOCK_SIZE
                     Read(f) == inode_modify_data(f, FALSE, f.ret.inode, <<>>, from, o - from)
                 IN  Read(upto[from])
    IN  /\ i # -1
        /\ inode.type = 2
        /\ Perform(upto[inode.size], cwd, files, written, {}, {})

-------------------------------------------------------------------------------
\* File::pool.init makes a File for the inode if there is none and registers the process.
fs_fopen(p, name, mode) ==
    \E f \in {MakeFile(p, name)} :
       LET i == f.ret
           new == [open |-> {p}, mode |-> mode, ptr |-> 0, inode |-> f.m.ino[i]]
       IN  Perform(f, cwd,
                   IF f.m.ino[i].type = 1 THEN files
                   ELSE IF files[i].open # {} THEN [files EXCEPT ![i].open = @ \cup {p}]
                   ELSE [files EXCEPT ![i] = new],
                   written, {}, {})

\* Mutant of Transfer: file_ptr is not advanced between the two parts.
M_Transfer(i, is_write, buf, n) ==
    LET file == files[i]
        k == Least({BLOCK_SIZE - (file.ptr % BLOCK_SIZE), n})
        Save(h) == IF h.ret.modified THEN write_inode(h, i, h.ret.inode) ELSE h
        Or(g, modified) == [g EXCEPT !.ret.modified = @ \/ modified]
        Rest(f) == IF n = k THEN f
                   ELSE Or(inode_modify_data(f, is_write, f.ret.inode, [w \in 0 .. n - k - 1 |-> buf[k + w]],
                                             file.ptr, n - k), f.ret.modified)
    IN  Save(Rest(inode_modify_data(Start, is_write, file.inode, buf, file.ptr, k)))

\* File::read and File::write: the part in the block of file_ptr, then the rest.
Transfer(i, is_write, buf, n) ==
    LET file == files[i]
        k == Least({BLOCK_SIZE - (file.ptr % BLOCK_SIZE), n})
        Save(h) == IF h.ret.modified THEN write_inode(h, i, h.ret.inode) ELSE h
        Or(g, modified) == [g EXCEPT !.ret.modified = @ \/ modified]
        Rest(f) == IF n = k THEN f
                   ELSE Or(inode_modify_data(f, is_write, f.ret.inode, [w \in 0 .. n - k - 1 |-> buf[k + w]],
                                             file.ptr + k, n - k), f.ret.modified)
    IN  Save(Rest(inode_modify_data(Start, is_write, file.inode, buf, file.ptr, k)))

fs_fread(i, n) ==
    /\ files[i].open # {}
    /\ files[i].mode % 2 = 1
    /\ \E f \in {Transfer(i, FALSE, Zero, n)} :
          Perform(f, cwd, [files EXCEPT ![i].ptr = @ + n, ![i].inode = f.ret.inode], written, {}, {})

fs_fwrite(i, n, v) ==
    LET at == files[i].ptr .. files[i].ptr + n - 1
    IN  /\ files[i].open # {}
        /\ files[i].mode \div 2 = 1
        /\ \E f \in {Transfer(i, TRUE, [w \in 0 .. n - 1 |-> Num(v)], n)} :
              Perform(f, cwd, [files EXCEPT ![i].ptr = @ + n, ![i].inode = f.ret.inode],
                      {t \in written : ~(t[1] = i /\ t[2] \in at)} \cup {<<i, o, v>> : o \in at}, {}, {})

\* File::lseek.
Seek(i, o) ==
    /\ hung = "no"
    /\ files[i].open # {}
    /\ files' = [files EXCEPT ![i].ptr = o]
    /\ UNCHANGED <<use, m, d, cwd, writethrough, dirty, hung, histories>>

fs_lseek(i) ==
    \/ \E o \in use.offsets : Seek(i, o)
    \/ Seek(i, files[i].inode.size)                 \* SEEK_END

fs_fclose(p, i) ==
    /\ hung = "no"
    /\ p \in files[i].open
    /\ files' = [files EXCEPT ![i] = IF @.open = {p} THEN Closed[i] ELSE [@ EXCEPT !.open = @ \ {p}]]
    /\ UNCHANGED <<use, m, d, cwd, writethrough, dirty, hung, histories>>

Dots == {".", ".."}

Next ==
    \/ \E p \in use.procs :
          \/ "mkfs" \in use.calls /\ fs_mkfs(p)
          \/ /\ "dir" \in use.calls
             /\ \/ \E x \in use.names \cup Dots : fs_cd(p, <<x>>) \/ fs_ls(p, <<x>>) \/ fs_rmdir(p, x)
                \/ \E x \in use.names : fs_cd(p, <<"..", x>>) \/ fs_mkdir(p, x)
          \/ /\ "link" \in use.calls
             /\ \E x \in use.names : fs_touch(p, x) \/ fs_cat(p, x) \/ \E y \in use.names \cup Dots : fs_ln(p, y, x)
          \/ \E x \in use.names : fs_rm(p, x)
          \/ "open" \in use.calls /\ \E x \in use.names, mode \in Modes : fs_fopen(p, x, mode)
          \/ \E i \in Inodes : fs_fclose(p, i)
    \/ \E i \in Inodes :
          \/ \E n \in use.lengths : \/ "read" \in use.calls /\ fs_fread(i, n)
                                    \/ \E v \in use.data : fs_fwrite(i, n, v)
          \/ fs_lseek(i)
    \/ \E u \in Units : Evict(u)
    \/ \E through \in use.policies : cache_set_policy(through)
    \/ cache_scan_timer
    \/ Restart

Spec == Init /\ [][Next]_vars

-------------------------------------------------------------------------------
Words == {Junk[0]} \cup {Num(v) : v \in Data \cup Blocks} \cup [n : Inodes, name : Names \cup Dots]
INode == [type : 0 .. 2, link_cnt : 0 .. 2 ^ 16 - 1, size : Nat,
          direct : [0 .. INODE_DATA_DIRECT - 1 -> Blocks], l1 : [0 .. INODE_DATA_L1 - 1 -> Blocks]]
View(v) ==
    /\ \A k \in {"inode", "block"} :
          /\ v.sb[k].allocated \in 0 .. Size[k] + torn /\ v.sb[k].free_map \in 0 .. Size[k] \div MAP_BITS
          /\ v.map[k] \subseteq 0 .. Size[k] - 1
    /\ \A i \in Inodes : v.ino[i] \in INode
    /\ \A b \in Blocks : \A w \in DOMAIN Zero : v.blk[b][w] \in Words

\* The state is well formed: counters within the volume, block numbers in the inodes, words
\* in the blocks (superblock, Inode and DirEntry of fs.hpp), and nothing dirty under
\* write-through.
TypeOK ==
    spoiled = {} =>
        /\ View(m) /\ View(d)
        /\ cwd \in [Procs -> Inodes]
        /\ \A i \in Inodes : files[i].open \subseteq Procs /\ files[i].inode \in INode
        /\ dirty \subseteq Units /\ (writethrough => dirty = {}) /\ (partial => dirty # {})
        /\ hung \in {"no", "inode", "block", "free", "entry", "range"}

\* The entries of directory i as a set of places.
Entries(v, i) == {e \in Places(v.ino[i]) : Entry(v, v.ino[i], e).name # ""}
Children(v, i) == IF v.ino[i].type = 1 THEN {Entry(v, v.ino[i], e).n : e \in Entries(v, i)} ELSE {}
Reachable(v) ==
    LET after[k \in Inodes] == IF k = 0 THEN {0}
                               ELSE after[k - 1] \cup UNION {Children(v, i) : i \in after[k - 1]}
    IN  after[MAX_INODE_NUM - 1]
Links(v, R, i) ==
    {<<j, e>> \in R \X (0 .. L0_BOUND - 1) :
        /\ v.ino[j].type = 1 /\ e \in Entries(v, j)
        /\ Entry(v, v.ino[j], e).n = i /\ Entry(v, v.ino[j], e).name \in Names}
References(v) ==
    {<<i, k>> \in Reachable(v) \X FileBlocks : BlockOf(v, v.ino[i], k) # 0}

\* The views that have to be sound: what the kernel sees, unless it has stopped in the
\* middle of an operation, and the card, unless part of what is dirty has been written.
Views == (IF hung = "no" THEN {m} ELSE {}) \cup (IF partial THEN {} ELSE {d})

\* In the cache and on the card a block in use by a file or directory that can be reached is
\* marked in the bitmap and belongs to one place of one inode (block_alloc, block_free and the
\* order of the writes around them).  Under write-through this is so after a power failure at
\* any point of an operation; under write-back, when the card is as the last complete flush
\* has left it.
BlocksHaveOneOwner ==
    spoiled = {} =>
        \A v \in Views :
            LET refs == References(v)
                Block(r) == BlockOf(v, v.ino[r[1]], r[2])
            IN  \A r \in refs : /\ Block(r) \in v.map.block /\ Block(r) >= START
                               /\ \A s \in refs \ {r} : Block(s) # Block(r)

\* In the cache and on the card every directory entry that can be reached names an inode that
\* is allocated, and an inode has at least as many links counted as it has names: so removing
\* one name never frees an inode that has another (fs_ln, fs_rm, fs_rmdir).  Power failures
\* are as above, but for one inside ln, which links before it counts.
EntriesAreLive ==
    spoiled = {} =>
        \A v \in Views :
            LET R == Reachable(v)
            IN  \A i \in R : /\ i \in v.map.inode
                            /\ v.ino[i].type # 0 /\ i # 0 => Cardinality(Links(v, R, i)) <= v.ino[i].link_cnt

\* The state is well formed and, as long as power never failed inside an operation, the
\* counters of the superblock are the number of bits set and the size of each directory is
\* the number of its names: the size is what fs_rmdir takes for "empty".
CountersAreExact ==
    /\ TypeOK
    /\ spoiled = {} /\ torn = 0 /\ hung = "no" =>
        \A v \in Views :
            /\ \A k \in {"inode", "block"} : v.sb[k].allocated = Cardinality(v.map[k])
            /\ \A i \in Reachable(v) :
                  v.ino[i].type = 1 =>
                      v.ino[i].size = Cardinality({e \in Entries(v, i) : Entry(v, v.ino[i], e).name \in Names})

\* The assertions of the file system hold: nothing is freed twice, a name that was found is
\* removed, and "no space" means that the bitmap is full (free_min skips no free bit).  The
\* first two also hold after power failures of the kinds above.
AssertionsHold ==
    spoiled = {} =>
        /\ hung \notin {"free", "entry"}
        /\ hung \in {"inode", "block"} /\ torn = 0 => m.map[hung] = 0 .. Size[hung] - 1

\* What fwrite has written is read at its place in the file, whatever was done to other files
\* or to other parts of it since.  Under write-through it is on the card, whenever power
\* fails; under write-back what was written before the last complete flush is, as long as the
\* next one has not begun (File::write, inode_modify_data, Block::update).
FileKeepsWrites ==
    LET Keeps(v, w) == \A t \in w :
            LET b == BlockOf(v, v.ino[t[1]], t[2] \div BLOCK_SIZE)
            IN  b # 0 /\ v.blk[b][t[2] % BLOCK_SIZE] = Num(t[3])
    IN  spoiled = {} => (hung = "no" => Keeps(m, written)) /\ (~partial => Keeps(d, saved))
===============================================================================
