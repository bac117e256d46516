----------------------------- MODULE KernelObjects -----------------------------
(***************************************************************************)
(* The life of the kernel objects a process names by a handle (mutex,       *)
(* barrier, condition, mailbox, open file): IdPool of container.cpp, the    *)
(* reference count of KernelObject, and the tries by which a pool finds an  *)
(* object by key and a process remembers what it has registered.            *)
(*                                                                          *)
(* An object is named by its address.  kfree gives nothing back to the      *)
(* heap, so an address is never used twice and the address of the n-th      *)
(* object created is n.  A call is split where another CPU can come in      *)
(* between: get takes the lock of the pool and gives it up, the reference   *)
(* count is atomic, and the destructor takes the lock again.                *)
(***************************************************************************)
EXTENDS TrieLookup, FiniteSets

CONSTANTS Procs,       \* processes; each is one thread of control
          Keys,        \* keys given to init
          CPUs,        \* how many calls can be inside the kernel at once
          MaxObjects   \* bound: objects created in a behaviour

ASSUME ObjectsAssumption ==
    /\ Keys \subseteq Nat
    /\ CPUs \in Nat \ {0}
    /\ MaxObjects \in Nat

VARIABLES keymap,           \* IdPool::keymap
          table,            \* IdPool::table; handle h is table[h + 1]
          objs,             \* the objects created, by address
          kernel_objects,   \* Process::kernel_objects
          life,             \* "alive", "exited" (by sys_exit) or "killed"
          pc,               \* what each process is doing in the kernel
          misused           \* history: some close named an object its caller did not hold

vars == <<keymap, table, objs, kernel_objects, life, pc, misused>>

\* A call in progress: the objects still to unregister, for which process.
Idle == [at |-> "user", todo |-> <<>>, victim |-> Null]

Init ==
    /\ keymap = EmptyTrie
    /\ table = <<>>
    /\ objs = <<>>
    /\ kernel_objects = [p \in Procs |-> EmptyTrie]
    /\ life = [p \in Procs |-> "alive"]
    /\ pc = [p \in Procs |-> Idle]
    /\ misused = FALSE

Registered(p, o) == lookup(kernel_objects[p], o) = o

\* A system call starts on a free CPU.
Enter(p) ==
    /\ life[p] = "alive" /\ pc[p].at = "user"
    /\ Cardinality({q \in Procs : pc[q].at # "user"}) < CPUs

\* Mutant of register: counted even if the trie held it.
M_register(p, o, os) ==
    LET r == insert(kernel_objects[p], o, o)
    IN  /\ kernel_objects' = [kernel_objects EXCEPT ![p] = r.nodes]
        /\ objs' = [os EXCEPT ![o].ref_count = @ + 1]

-------------------------------------------------------------------------------
\* register_kernel_object: counted only when the trie did not hold it.
register(p, o, os) ==
    LET r == insert(kernel_objects[p], o, o)
    IN  /\ kernel_objects' = [kernel_objects EXCEPT ![p] = r.nodes]
        /\ objs' = IF r.idx # 0 THEN [os EXCEPT ![o].ref_count = @ + 1] ELSE os

\* IdPool::init when the key is in the map, under the lock of the pool throughout.
InitFound(p, k) ==
    LET o == lookup(keymap, k)
    IN  /\ Enter(p)
        /\ o # Null
        /\ register(p, o, objs)
        /\ UNCHANGED <<keymap, table, life, pc, misused>>

\* IdPool::init when it is not: a new object, with the next handle.
InitNew(p, k) ==
    LET o == Len(objs) + 1
        r == insert(keymap, k, o)
    IN  /\ Enter(p)
        /\ lookup(keymap, k) = Null
        /\ Len(objs) < MaxObjects
        /\ table' = Append(table, o)
        /\ keymap' = r.nodes
        /\ register(p, o, Append(objs, [key |-> k, handle |-> Len(table), trie_idx |-> r.idx,
                                        ref_count |-> 0, freed |-> FALSE]))
        /\ UNCHANGED <<life, pc, misused>>

\* IdPool::close, up to the answer of get.
close(p, h) ==
    LET o == table[h + 1]
    IN  /\ Enter(p)
        /\ h < Len(table)
        /\ o # Null
        /\ pc' = [pc EXCEPT ![p] = [at |-> "close", todo |-> <<o>>, victim |-> p]]
        /\ misused' = (misused \/ ~Registered(p, o))
        /\ UNCHANGED <<keymap, table, objs, kernel_objects, life>>

\* unregister_kernel_object: goes on to the reference count if remove says so.
unregister(p) ==
    LET o == Head(pc[p].todo)
        r == remove(kernel_objects[p], o)
    IN  /\ pc[p].at = "close"
        /\ kernel_objects' = [kernel_objects EXCEPT ![p] = r.nodes]
        /\ pc' = [pc EXCEPT ![p] = IF r.found THEN [@ EXCEPT !.at = "release"] ELSE Idle]
        /\ UNCHANGED <<keymap, table, objs, life, misused>>

-------------------------------------------------------------------------------
\* What is left of the call once the first object has been dealt with.
Rest(c) == IF Len(c.todo) = 1 THEN Idle ELSE [c EXCEPT !.at = "release", !.todo = Tail(@)]

\* Mutant of on_process_unregister: the old count is compared with 0.
M_on_process_unregister(p) ==
    LET o == Head(pc[p].todo)
    IN  /\ pc[p].at = "release"
        /\ objs' = [objs EXCEPT ![o].ref_count = @ - 1]
        /\ pc' = [pc EXCEPT ![p] = IF objs[o].ref_count = 0 THEN [@ EXCEPT !.at = "delete"]
                                   ELSE Rest(@)]
        /\ UNCHANGED <<keymap, table, kernel_objects, life, misused>>

\* on_process_unregister: the caller that counts down to 0 deletes the object.
on_process_unregister(p) ==
    LET o == Head(pc[p].todo)
    IN  /\ pc[p].at = "release"
        /\ objs' = [objs EXCEPT ![o].ref_count = @ - 1]
        /\ pc' = [pc EXCEPT ![p] = IF objs[o].ref_count = 1 THEN [@ EXCEPT !.at = "delete"]
                                   ELSE Rest(@)]
        /\ UNCHANGED <<keymap, table, kernel_objects, life, misused>>

\* Mutant of pool_remove: the key stays in the trie.
M_pool_remove(p) ==
    LET o == Head(pc[p].todo)
    IN  /\ pc[p].at = "delete"
        /\ table' = [table EXCEPT ![objs[o].handle + 1] = Null]
        /\ objs' = [objs EXCEPT ![o].freed = TRUE]
        /\ pc' = [pc EXCEPT ![p] = Rest(@)]
        /\ UNCHANGED <<keymap, kernel_objects, life, misused>>

\* The destructor: IdPool::remove under the lock of the pool, then the memory is freed.
pool_remove(p) ==
    LET o == Head(pc[p].todo)
    IN  /\ pc[p].at = "delete"
        /\ table' = [table EXCEPT ![objs[o].handle + 1] = Null]
        /\ keymap' = remove_by_idx(keymap, objs[o].trie_idx)
        /\ objs' = [objs EXCEPT ![o].freed = TRUE]
        /\ pc' = [pc EXCEPT ![p] = Rest(@)]
        /\ UNCHANGED <<kernel_objects, life, misused>>

\* Process::kill of v, run by q (q = v: the last thread of v left by sys_exit_thread):
\* on_process_unregister for every object in the trie of v, which keeps its entries.
kill(q, v) ==
    LET todo == Values(kernel_objects[v])
    IN  /\ Enter(q)
        /\ life[v] = "alive"
        /\ life' = [life EXCEPT ![v] = "killed"]
        /\ pc' = [pc EXCEPT ![q] = IF todo = <<>> THEN Idle
                                   ELSE [at |-> "release", todo |-> todo, victim |-> v]]
        /\ UNCHANGED <<keymap, table, objs, kernel_objects, misused>>

\* sys_exit: the exit() of the calling thread inside kill does not return, so nothing
\* is unregistered.
sys_exit(p) ==
    /\ Enter(p)
    /\ life' = [life EXCEPT ![p] = "exited"]
    /\ UNCHANGED <<keymap, table, objs, kernel_objects, pc, misused>>

\* A call that has started runs on to its end.
KernelStep(p) == unregister(p) \/ on_process_unregister(p) \/ pool_remove(p)

Next ==
    \E p \in Procs :
        \/ \E k \in Keys : InitFound(p, k) \/ InitNew(p, k)
        \/ \E h \in 0 .. Len(table) - 1 : close(p, h)
        \/ KernelStep(p)
        \/ \E v \in Procs : kill(p, v)
        \/ sys_exit(p)

\* A CPU inside the kernel keeps executing.
Spec == Init /\ [][Next]_vars /\ \A p \in Procs : WF_vars(KernelStep(p))

-------------------------------------------------------------------------------
\* The table has objects or null pointers, an object its handle in the table.
TypeOK ==
    /\ \A i \in DOMAIN table : table[i] \in {Null} \cup DOMAIN objs
    /\ \A o \in DOMAIN objs : objs[o].key \in Keys /\ objs[o].handle \in 0 .. Len(table) - 1
    /\ life \in [Procs -> {"alive", "exited", "killed"}]
    /\ \A p \in Procs : pc[p].at \in {"user", "close", "release", "delete"}
    /\ misused \in BOOLEAN

\* The processes whose registration of o has not been given up: a killed process keeps
\* its trie, but only what its killer has still to unregister counts; a close in
\* progress counts from when the trie has changed until the count has.
Holders(o) ==
    {p \in Procs :
        \/ Registered(p, o) /\ life[p] # "killed"
        \/ \E q \in Procs : /\ pc[q].at = "release" /\ pc[q].victim = p
                            /\ \E i \in DOMAIN pc[q].todo : pc[q].todo[i] = o
        \/ \E q \in Procs : /\ pc[q].at = "delete" /\ pc[q].victim = p
                            /\ \E i \in 2 .. Len(pc[q].todo) : pc[q].todo[i] = o}

\* The count of an object (container.hpp, ref_count) is the number of processes that
\* hold it, whatever the order of opens, closes and kills, and an object a live process
\* has registered is not deleted, as long as nobody closes a handle it does not hold.
RefCountIsHolders ==
    ~misused => \A o \in DOMAIN objs :
                    /\ objs[o].ref_count = Cardinality(Holders(o))
                    /\ \A p \in Procs : Registered(p, o) /\ life[p] # "killed" => ~objs[o].freed

\* The state is well formed and a pool is a map: the trie finds for every key the one object that has the key and is
\* not deleted, and its handle leads to the same object (container.cpp, init and remove).
PoolIsAMap ==
    /\ TypeOK
    /\ \A k \in Keys :
          lookup(keymap, k) # Null =>
              objs[lookup(keymap, k)].key = k /\ ~objs[lookup(keymap, k)].freed
    /\ \A o \in DOMAIN objs :
          ~objs[o].freed => /\ lookup(keymap, objs[o].key) = o
                            /\ table[objs[o].handle + 1] = o

\* An object nobody holds any more is deleted and its key can be created anew.
UnheldIsFreed ==
    \A o \in 1 .. MaxObjects :
        (o \in DOMAIN objs /\ ~misused /\ Holders(o) = {})
            ~> (misused \/ Holders(o) # {} \/ (o \in DOMAIN objs /\ objs[o].freed))
===============================================================================
