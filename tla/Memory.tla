------------------------------- MODULE Memory -------------------------------
(***************************************************************************)
(* Virtual memory of page.cpp on top of the page pool: page directories    *)
(* filled on demand by page faults, shared pages counted by shared_pages,  *)
(* the loader of task_loader.cpp and the TLB of every CPU, which the code  *)
(* keeps fresh with inter-processor interrupts and a flush at each switch. *)
(*                                                                         *)
(* A virtual address is a page number: 0 is USER_ENTRYPOINT, Argv the page *)
(* of argv, and SharedStart the first page of shared_page_start.           *)
(* shared_pages has no lock in the code; the model admits one CPU at a     *)
(* time into sys_shmpageget and sys_shmpagedt (hazard page.cpp:249).       *)
(***************************************************************************)
EXTENDS KernelHeap, UserHeap, Sequences

CONSTANTS CPUs, Procs, Keys,
          Bounds,        \* values of user_mem_bound, in pages; brk may go anywhere
          FirstBound,    \* its first value; it stands for mem_end too
          Argv,          \* page of argv_va
          SharedStart, MaxAttach,
          SectorsPerPage,
          StackPages,    \* pages of a kernel stack
          Workloads,     \* what the processes do: see use
          Idle           \* the idle process

VAs == 0 .. SharedStart + MaxAttach - 1
Regions == {"low", "shared"}
Region(va) == IF va < SharedStart THEN "low" ELSE "shared"

ASSUME MemoryAssumption ==
    /\ SharedStart \in Nat /\ MaxAttach \in Nat /\ SectorsPerPage \in Nat \ {0}
    /\ Bounds \subseteq Nat /\ FirstBound \in Bounds
    /\ Argv \in Nat /\ Argv < FirstBound /\ Argv < SharedStart
    /\ \A u \in Workloads :
         /\ u.procs \cup u.killed \subseteq Procs
         /\ u.pages \cup u.detached \subseteq VAs
         /\ \A n \in u.images : n \in Nat /\ n \div SectorsPerPage < Argv
         /\ u.attach \in 0 .. MaxAttach
    /\ Idle \notin Procs

VARIABLES use,           \* the workload: the processes that are started, the sizes
                         \* of their images in sectors, the bounds they set, the
                         \* keys they attach and how often, the pages they touch and
                         \* detach, the bytes they ask malloc for, and the processes
                         \* that are killed
          user,          \* process -> its heap, which user code keeps itself
          heap,          \* the page pool
          pd,            \* process -> its PageDir
          life,          \* process -> "none", "live", "killed", "deleted"
          cpu,           \* CPU -> what it runs
          tlb,           \* CPU -> translations it has cached
          ipi,           \* CPUs with a software interrupt pending
          shared_pages,  \* the vector of SharedPage
          frame,         \* frame -> first sector and count read into it
          hung           \* the assertion that stopped the kernel, or "no"

vars == <<use, user, heap, pd, life, cpu, tlb, ipi, shared_pages, frame, hung>>

Unmapped == [V |-> FALSE, pa |-> 0, os |-> "Normal"]
NoPage == [first |-> 0, count |-> 0]
NoDir == [root |-> -1, dirs |-> [r \in Regions |-> {}], pte |-> [va \in VAs |-> Unmapped],
          shared_page_start |-> SharedStart, user_mem_bound |-> FirstBound, stack |-> -1]
NoHeap == [longest |-> <<>>, live |-> {}, short |-> FALSE]
NoTask == [p |-> Idle, block_num |-> 0, i |-> 0, pages |-> 0]
Resting(p) == [pc |-> "user", proc |-> p, va |-> 0, task |-> NoTask]

\* After boot: the idle process runs everywhere, in kernel mode.
Init ==
    /\ use \in Workloads
    /\ user = [p \in Procs |-> NoHeap]
    /\ heap = init_kernel_heap
    /\ pd = [p \in Procs |-> NoDir]
    /\ life = [p \in Procs |-> "none"]
    /\ cpu = [c \in CPUs |-> Resting(Idle)]
    /\ tlb = [c \in CPUs |-> {}]
    /\ ipi = {}
    /\ shared_pages = <<>>
    /\ frame = [f \in Frames |-> NoPage]
    /\ hung = "no"
-----------------------------------------------------------------------------
\* PageDir operations.  They work on m = [h |-> heap, d |-> a PageDir, remapped |->
\* whether the assertion of map_va_kva has failed].

\* PageDir::lookup allocates the two directories on the way to a leaf.  All the
\* pages of a region share them.
lookup(m, va) ==
    IF m.d.dirs[Region(va)] # {} THEN m
    ELSE LET h1 == kalloc(m.h, 1)
             h2 == kalloc(h1, 1)
         IN  [h |-> h2, d |-> [m.d EXCEPT !.dirs[Region(va)] = {h1.at, h2.at}],
              remapped |-> m.remapped]

\* PageDir::map_va_kva with its assertion that the page is not mapped, and
\* PageEntry::set_as_leaf
map_va_kva(m, va, f, osflag) ==
    LET n == lookup(m, va)
    IN  IF n.d.pte[va].V THEN [n EXCEPT !.remapped = TRUE]
        ELSE [n EXCEPT !.d.pte[va] = [V |-> TRUE, pa |-> f, os |-> osflag]]

\* Mutant of alloc_page_for_va: no second look at the entry under the lock.
M_alloc_page_for_va(m, va) ==
    LET n == lookup(m, va)
        h == kalloc(n.h, 1)
    IN  map_va_kva([n EXCEPT !.h = h], va, h.at, "Normal")

\* PageDir::alloc_page_for_va under the lock: another CPU may have mapped the page since
\* this one faulted.  (active_private_mem and private_mem_fifo are written here and read
\* nowhere.)
alloc_page_for_va(m, va) ==
    LET n == lookup(m, va)
        h == kalloc(n.h, 1)
        k == map_va_kva([n EXCEPT !.h = h], va, h.at, "Normal")
    IN  IF n.d.pte[va].V THEN n ELSE k

\* Mutant of send_intr_to_running_thread: CPUs in the middle of a switch are passed over.
M_send_intr_to_running_thread(p) ==
    ipi' = IF p # Idle /\ life[p] = "live"
           THEN ipi \cup {c \in CPUs : cpu[c].proc = p /\ cpu[c].pc = "user"}
           ELSE ipi

\* Process::send_intr_to_running_thread: every CPU on which a thread of the
\* process has the status RUNNING.  The threads of a killed process have the
\* status EXITED, the idle threads at boot READY.
send_intr_to_running_thread(p) ==
    ipi' = IF p # Idle /\ life[p] = "live"
           THEN ipi \cup {c \in CPUs : cpu[c].proc = p}
           ELSE ipi

\* The lock of a PageDir is held by the CPU between the two steps of a detach.
Unlocked(p) == \A c \in CPUs : cpu[c].pc = "unmap" => cpu[c].proc # p
NoShm == \A c \in CPUs : cpu[c].pc # "unmap"

\* The effect on process p of the new PageDir and heap, unless an assertion failed.
Store(p, m) ==
    /\ heap' = m.h
    /\ pd' = [pd EXCEPT ![p] = m.d]
    /\ hung' = IF m.h.hung THEN "memory" ELSE IF m.remapped THEN "mapped" ELSE hung

Mem(p) == [h |-> heap, d |-> pd[p], remapped |-> FALSE]
User(c) == hung = "no" /\ cpu[c].pc = "user" /\ cpu[c].proc # Idle
-----------------------------------------------------------------------------
\* User code on CPU c uses page va: through the TLB, or by a walk of the table
\* that fills the TLB (hardware).  The TLB has room for one translation: what is
\* said of it is said of each of its entries alone.
Walk(c, va) ==
    LET p == cpu[c].proc
    IN  /\ User(c)
        /\ \A e \in tlb[c] : e.va # va
        /\ pd[p].pte[va].V
        /\ tlb' = [tlb EXCEPT ![c] = {[va |-> va, pa |-> pd[p].pte[va].pa]}]
        /\ UNCHANGED <<use, user, heap, pd, life, cpu, ipi, shared_pages, frame, hung>>

\* A page fault: trap_handler calls alloc_page_for_va, which looks at the bound and then
\* waits for the lock of the PageDir ...
PageFault(c, va) ==
    LET p == cpu[c].proc
    IN  /\ User(c)
        /\ \A e \in tlb[c] : e.va # va
        /\ ~ pd[p].pte[va].V
        /\ IF va >= pd[p].user_mem_bound
           THEN hung' = "bound" /\ cpu' = cpu
           ELSE hung' = hung /\ cpu' = [cpu EXCEPT ![c].pc = "fault", ![c].va = va]
        /\ UNCHANGED <<use, user, heap, pd, life, tlb, ipi, shared_pages, frame>>

\* ... and maps the page under it, unless another CPU has.
FaultEnd(c) ==
    LET p == cpu[c].proc
        va == cpu[c].va
    IN  /\ hung = "no" /\ cpu[c].pc = "fault" /\ Unlocked(p)
        /\ Store(p, alloc_page_for_va(Mem(p), va))
        /\ IF pd[p].pte[va].V THEN ipi' = ipi ELSE send_intr_to_running_thread(p)
        /\ cpu' = [cpu EXCEPT ![c] = Resting(p)]
        /\ UNCHANGED <<use, user, life, tlb, shared_pages, frame>>

\* sys_brk and sys_sbrk set or move the bound, above shared_page_start too; nothing is
\* unmapped.
sys_brk(c, b) ==
    /\ User(c)
    /\ b # pd[cpu[c].proc].user_mem_bound
    /\ pd' = [pd EXCEPT ![cpu[c].proc].user_mem_bound = b]
    /\ UNCHANGED <<use, user, heap, life, cpu, tlb, ipi, shared_pages, frame, hung>>

\* crt0 calls __crt_init before main: the bound is set to mem_end, and pool_init makes
\* the heap.
crt_init(c) ==
    LET p == cpu[c].proc
    IN  /\ User(c)
        /\ user[p] = NoHeap
        /\ pd' = [pd EXCEPT ![p].user_mem_bound = FirstBound]
        /\ user' = [user EXCEPT ![p] = FreshHeap]
        /\ UNCHANGED <<use, heap, life, cpu, tlb, ipi, shared_pages, frame, hung>>

\* A thread calls malloc or free.  The code has no lock: one thread of a process at a time
\* (hazard memory.c:31).  After a malloc without room nothing more is claimed.
HeapCall(c, u) ==
    LET p == cpu[c].proc
    IN  /\ User(c)
        /\ user[p] # NoHeap /\ ~ user[p].short
        /\ user' = [user EXCEPT ![p] = u]
        /\ UNCHANGED <<use, heap, pd, life, cpu, tlb, ipi, shared_pages, frame, hung>>

\* Mutant of Find: the last page is not looked at.
M_Find(key) == {i \in DOMAIN shared_pages : shared_pages[i].key = key /\ i < Len(shared_pages)}

\* std::find_if over shared_pages
Find(key) == {i \in DOMAIN shared_pages : shared_pages[i].key = key}

\* sys_shmpageget and PageDir::attach_shared_page: the address is never reused.
sys_shmpageget(c, key) ==
    LET p == cpu[c].proc
        va == pd[p].shared_page_start
        new == kalloc(heap, 1)
        page == IF Find(key) = {} THEN [key |-> key, kva |-> new.at, cnt |-> 0]
                ELSE shared_pages[CHOOSE i \in Find(key) : TRUE]
        h == IF Find(key) = {} THEN new ELSE heap
        m == map_va_kva([Mem(p) EXCEPT !.h = h], va, page.kva, "Shared")
        counted == [page EXCEPT !.cnt = @ + 1]
    IN  /\ User(c) /\ NoShm /\ Unlocked(p)
        /\ va < SharedStart + use.attach
        /\ Store(p, IF m.remapped THEN m ELSE [m EXCEPT !.d.shared_page_start = va + 1])
        /\ shared_pages' = IF Find(key) = {} THEN Append(shared_pages, counted)
                           ELSE [i \in DOMAIN shared_pages |->
                                   IF i \in Find(key) THEN counted ELSE shared_pages[i]]
        /\ send_intr_to_running_thread(p)
        /\ UNCHANGED <<use, user, life, cpu, tlb, frame>>

\* sys_shmpagedt of any page: PageDir::free_shared_page clears V ...
Unmap(c, va) ==
    LET p == cpu[c].proc
    IN  /\ User(c) /\ NoShm /\ Unlocked(p)
        /\ IF pd[p].pte[va].V
           THEN /\ pd' = [pd EXCEPT ![p].pte[va].V = FALSE]
                /\ cpu' = [cpu EXCEPT ![c].pc = "unmap", ![c].va = va]
                /\ hung' = hung
           ELSE hung' = "detach" /\ UNCHANGED <<pd, cpu>>
        /\ UNCHANGED <<use, user, heap, life, tlb, ipi, shared_pages, frame>>

\* ... and interrupts the CPUs of the process; sys_shmpagedt then counts down
\* and deletes the page that nobody uses.
sys_shmpagedt(c) ==
    LET p == cpu[c].proc
        Hit(s) == s.kva = pd[p].pte[cpu[c].va].pa
        Left(s) == IF Hit(s) THEN [s EXCEPT !.cnt = @ - 1] ELSE s
        kept == SelectSeq(shared_pages, LAMBDA s : ~ Hit(s) \/ s.cnt # 1)
    IN  /\ hung = "no" /\ cpu[c].pc = "unmap"
        /\ send_intr_to_running_thread(p)
        /\ shared_pages' = [i \in DOMAIN kept |-> Left(kept[i])]
        /\ heap' = IF Len(kept) < Len(shared_pages)
                   THEN kfree(heap, pd[p].pte[cpu[c].va].pa) ELSE heap
        /\ cpu' = [cpu EXCEPT ![c] = Resting(p)]
        /\ UNCHANGED <<use, user, pd, life, tlb, frame, hung>>
-----------------------------------------------------------------------------
\* Mutant of Pages: the last, partly filled page is left out.
M_Pages(block_num) == block_num \div SectorsPerPage

\* The number of pages that load_task_img fills.
Pages(block_num) == block_num \div SectorsPerPage + (IF block_num # 0 THEN 1 ELSE 0)

\* sys_exec, called by user code, or by main for the shell, the first process: the
\* PageDir of the new process and the kernel stack of its thread.
Exec(c, p, n) ==
    LET root == kalloc(heap, 1)
        stack == kalloc(root, StackPages)
    IN  /\ \/ User(c)
           \/ /\ hung = "no" /\ cpu[c].pc = "user"
              /\ \A q \in Procs : pd[q].root = -1
        /\ \A d \in CPUs : cpu[d].task.p # p
        /\ life[p] = "none"
        /\ Store(p, [h |-> stack, d |-> [NoDir EXCEPT !.root = root.at, !.stack = stack.at],
                     remapped |-> FALSE])
        /\ cpu' = [cpu EXCEPT ![c].pc = "exec",
                              ![c].task = [p |-> p, block_num |-> n, i |-> 0,
                                           pages |-> Pages(n)]]
        /\ UNCHANGED <<use, user, life, tlb, ipi, shared_pages, frame>>

\* load_task_img takes load_lock ...
LoadBegin(c) ==
    /\ hung = "no" /\ cpu[c].pc = "exec"
    /\ \A d \in CPUs : cpu[d].pc # "load"
    /\ cpu' = [cpu EXCEPT ![c].pc = "load"]
    /\ UNCHANGED <<use, user, heap, pd, life, tlb, ipi, shared_pages, frame, hung>>

\* ... reads one page of the image after the other ...
LoadPage(c) ==
    LET t == cpu[c].task
        m == alloc_page_for_va(Mem(t.p), t.i)
        count == IF t.block_num > SectorsPerPage THEN SectorsPerPage ELSE t.block_num
    IN  /\ hung = "no" /\ cpu[c].pc = "load" /\ t.i < t.pages
        /\ Store(t.p, m)
        /\ frame' = IF count = 0 THEN frame
                    ELSE [frame EXCEPT ![m.d.pte[t.i].pa] =
                            [first |-> t.i * SectorsPerPage, count |-> count]]
        /\ cpu' = [cpu EXCEPT ![c].task = [t EXCEPT !.i = t.i + 1,
                                            !.block_num = t.block_num - SectorsPerPage]]
        /\ send_intr_to_running_thread(cpu[c].proc)
        /\ UNCHANGED <<use, user, life, tlb, shared_pages>>

\* ... and releases it.  sys_exec maps the page of argv and makes the thread
\* ready.
LoadEnd(c) ==
    LET t == cpu[c].task
    IN  /\ hung = "no" /\ cpu[c].pc = "load" /\ t.i = t.pages
        /\ Store(t.p, alloc_page_for_va(Mem(t.p), Argv))
        /\ life' = [life EXCEPT ![t.p] = "live"]
        /\ cpu' = [cpu EXCEPT ![c] = Resting(cpu[c].proc)]
        /\ send_intr_to_running_thread(cpu[c].proc)
        /\ UNCHANGED <<use, user, tlb, shared_pages, frame>>

\* Process::kill: the threads are marked, no interrupt is sent (their status is
\* EXITED by then), and shared pages stay counted.
Kill(c, p) ==
    /\ User(c)
    /\ life[p] = "live"
    /\ life' = [life EXCEPT ![p] = "killed"]
    /\ UNCHANGED <<use, user, heap, pd, cpu, tlb, ipi, shared_pages, frame, hung>>

\* free_user_private_mem in ~Process: freeUserRecur descends only through
\* entries with U set, which set_as_dir clears, so it frees the root alone.
Cleanup(c, p) ==
    /\ hung = "no" /\ cpu[c] = Resting(Idle)
    /\ life[p] = "killed"
    /\ heap' = kfree(heap, pd[p].root)
    /\ life' = [life EXCEPT ![p] = "deleted"]
    /\ UNCHANGED <<use, user, pd, cpu, tlb, ipi, shared_pages, frame, hung>>
-----------------------------------------------------------------------------
\* The processes with a thread that do_scheduler may pick.
Ready == {Idle} \cup {p \in Procs : life[p] = "live"}

\* do_scheduler makes a thread of q current and RUNNING ...
Switch(c, q) ==
    /\ hung = "no" /\ cpu[c].pc = "user"
    /\ cpu' = [cpu EXCEPT ![c] = [Resting(q) EXCEPT !.pc = "switch"]]
    /\ UNCHANGED <<use, user, heap, pd, life, tlb, ipi, shared_pages, frame, hung>>

\* ... and then loads satp and flushes (PageDir::enable, flushcpu).
enable(c) ==
    /\ hung = "no" /\ cpu[c].pc = "switch"
    /\ cpu' = [cpu EXCEPT ![c].pc = "user"]
    /\ tlb' = [tlb EXCEPT ![c] = {}]
    /\ UNCHANGED <<use, user, heap, pd, life, ipi, shared_pages, frame, hung>>

\* The software interrupt: flush, or leave a process that has been killed.
SoftIrq(c) ==
    LET p == cpu[c].proc
    IN  /\ hung = "no" /\ cpu[c].pc = "user" /\ c \in ipi
        /\ ipi' = ipi \ {c}
        /\ IF p \in Ready
           THEN tlb' = [tlb EXCEPT ![c] = {}] /\ cpu' = cpu
           ELSE /\ \E q \in Ready :
                     cpu' = [cpu EXCEPT ![c] = [Resting(q) EXCEPT !.pc = "switch"]]
                /\ tlb' = tlb
        /\ UNCHANGED <<use, user, heap, pd, life, shared_pages, frame, hung>>

Next ==
    \E c \in CPUs :
        \/ \E va \in use.pages : Walk(c, va) \/ PageFault(c, va)
        \/ \E va \in use.detached : Unmap(c, va)
        \/ \E b \in use.bounds : sys_brk(c, b)
        \/ use.mallocs # {} /\ crt_init(c)
        \/ \E n \in use.mallocs : HeapCall(c, malloc(user[cpu[c].proc], n))
        \/ User(c) /\ \E b \in user[cpu[c].proc].live : HeapCall(c, free(user[cpu[c].proc], b.at))
        \/ \E key \in use.keys : sys_shmpageget(c, key)
        \/ \E p \in use.procs, n \in use.images : Exec(c, p, n)
        \/ \E p \in use.killed : Kill(c, p) \/ Cleanup(c, p)
        \/ \E q \in Ready : Switch(c, q)
        \/ LoadBegin(c) \/ LoadPage(c) \/ LoadEnd(c)
        \/ FaultEnd(c) \/ sys_shmpagedt(c) \/ enable(c) \/ SoftIrq(c)

Spec == Init /\ [][Next]_vars
-----------------------------------------------------------------------------
\* The shape of the state.
TypeOK ==
    /\ heap.given \subseteq Frames
    /\ \A p \in Procs :
         /\ pd[p].root \in Frames \cup {-1}
         /\ pd[p].shared_page_start \in SharedStart .. SharedStart + MaxAttach
         /\ pd[p].user_mem_bound \in Bounds
         /\ \A va \in VAs : pd[p].pte[va].pa \in Frames
    /\ life \in [Procs -> {"none", "live", "killed", "deleted"}]
    /\ \A c \in CPUs : cpu[c].pc \in {"user", "fault", "switch", "unmap", "exec", "load"}
    /\ ipi \subseteq CPUs
    /\ Len(shared_pages) <= Cardinality(Keys)
    /\ hung \in {"no", "memory", "bound", "mapped", "detach"}

\* Who holds which frame: directories, kernel stacks, private and shared pages.
Claims ==
    LET Made == {p \in Procs : pd[p].root # -1}
        Mapped == {x \in Made \X VAs : /\ pd[x[1]].pte[x[2]].V
                                       /\ pd[x[1]].pte[x[2]].os = "Normal"}
    IN  {<<"root", p, 0, pd[p].root>> : p \in Made}
        \cup {<<"stack", x[1], 0, pd[x[1]].stack + x[2]>> : x \in Made \X (0 .. StackPages - 1)}
        \cup {<<"dir", x[1], x[2], x[3]>> : x \in {y \in Made \X Regions \X Frames :
                                                    y[3] \in pd[y[1]].dirs[y[2]]}}
        \cup {<<"page", x[1], x[2], pd[x[1]].pte[x[2]].pa>> : x \in Mapped}
        \cup {<<"shared", s.key, 0, s.kva>> : s \in {shared_pages[i] : i \in DOMAIN shared_pages}}

\* The state is well formed and no frame has two uses: what kalloc hands to the page directory, to a kernel
\* stack, to a private mapping or to a shared page is never handed out again
\* while it is in use, and none of it lies below PAGE_START.  Two CPUs that fault on one
\* page map it once: the assertion of map_va_kva that the page is not mapped never fails,
\* unless a process has moved its bound above shared_page_start and used a page there
\* before it was attached.
FramesHaveOneUse ==
    /\ TypeOK
    /\ hung = "mapped" => \E b \in use.bounds : b > SharedStart
    /\ hung = "no" =>
        /\ Cardinality({x[4] : x \in Claims}) = Cardinality(Claims)
        /\ \A x \in Claims : x[4] \in heap.given /\ x[4] >= Reserved

\* The count of a shared page is the number of page table entries that map it,
\* in every page table, so that the page is deleted with its last mapping and
\* not before; and a key has one page.  Entries of killed processes stay, and
\* stay counted.
SharedCountIsMappings ==
    LET Maps(f) == {x \in Procs \X VAs : pd[x[1]].pte[x[2]].V /\ pd[x[1]].pte[x[2]].pa = f}
        shared == {x \in Procs \X VAs : pd[x[1]].pte[x[2]].V /\ pd[x[1]].pte[x[2]].os = "Shared"}
    IN  hung = "no" /\ NoShm =>
            /\ \A i \in DOMAIN shared_pages :
                 /\ shared_pages[i].cnt = Cardinality(Maps(shared_pages[i].kva))
                 /\ shared_pages[i].cnt > 0
                 /\ \A j \in DOMAIN shared_pages \ {i} : shared_pages[j].key # shared_pages[i].key
            /\ \A x \in shared : \E i \in DOMAIN shared_pages :
                 shared_pages[i].kva = pd[x[1]].pte[x[2]].pa

\* User code of a live process runs on c with a translation in the TLB that the
\* page table no longer has.
Stale(c) ==
    LET p == cpu[c].proc
    IN  /\ cpu[c].pc = "user" /\ p \in Ready \ {Idle}
        /\ \E e \in tlb[c] : ~ pd[p].pte[e.va].V \/ pd[p].pte[e.va].pa # e.pa

\* User code of a live process uses a stale translation only while a detach
\* holds the lock of the PageDir or the interrupt that flushes it is pending.
StaleIsInterrupted ==
    \A c \in CPUs : Stale(c) => c \in ipi \/ ~ Unlocked(cpu[c].proc)

\* A process that starts finds its whole image: every sector is in the page
\* that covers it, at its place.
ImageIsLoaded ==
    \A c \in CPUs :
        LET t == cpu[c].task
            d == pd[t.p]
            size == t.block_num + t.i * SectorsPerPage
        IN  hung = "no" /\ cpu[c].pc = "load" /\ t.i = t.pages =>
              \A s \in 0 .. size - 1 :
                 LET va == s \div SectorsPerPage
                 IN  /\ d.pte[va].V
                     /\ frame[d.pte[va].pa].first = va * SectorsPerPage
                     /\ frame[d.pte[va].pa].count > s % SectorsPerPage

\* The buddy tree of the kernel never loses a free block: BuddyPool::alloc fails its
\* assertion only when no aligned block of the size is left.  And malloc hands out memory
\* that no live block uses and that is large enough, free gives back exactly the block it
\* is asked to and merges all that can be merged, after any sequence of calls until one
\* asks for more than there is (memory.c, pool_alloc and pool_free).
HeapsAreExact ==
    /\ RootIsExact(heap)
    /\ \A p \in Procs : user[p] # NoHeap /\ ~ user[p].short =>
          BlocksAreApart(user[p]) /\ HeapRootIsExact(user[p])
=============================================================================
