# A TLA+ model of the UCAS-OS-Lab kernel

The repository is a small RISC-V kernel: threads and processes, several CPUs,
locks and mailboxes, paging, a file system with a block cache, and a network
driver. This directory holds TLA+ modules that model it, TLC configurations
that check them on small instances, and TLAPS proofs. Paths below are relative
to the kernel directory `src/src/`, or to `src/` for the user library.

## The system and its parts

| Part | Source | Modules |
|---|---|---|
| scheduler, sleep, block and wakeup | `schedule.cpp`, `thread.cpp`, `container.cpp` | `Scheduler` |
| timer interrupt, context switch | `trap.cpp`, `time.cpp`, `arch/trap_entry.S` | `Scheduler` |
| life of a thread (abstract) | `thread.hpp` | `ThreadStates` |
| mutex and condition variable | `locks.cpp` | `Mutex` |
| barrier | `locks.cpp` | `Barrier` |
| mailbox | `locks.cpp` | `Mailbox` |
| handles, reference counts, trie | `container.cpp`, `container.hpp`, `process.hpp` | `KernelObjects`, `TrieLookup` |
| processes: exec, kill, wait, clean-up | `process.cpp`, `thread.cpp` | `Process` |
| paging, shared pages, task loader | `page.cpp`, `page.hpp`, `task_loader.cpp`, `trap.cpp` | `Memory` |
| kernel heap | `kalloc.cpp` | `KernelHeap` |
| heap of a process | `tiny_libc/memory.c` | `UserHeap` |
| block cache | `fs/io.cpp` | `BlockCache` |
| file system and open files | `fs/fs.cpp`, `fs/file.cpp` | `Volume`, `FileSystem` |
| network, E1000, PLIC | `net.cpp`, `drivers/e1000.cpp`, `drivers/plic.c` | `Network` |

Everything that waits does so in the same way: the thread is pushed on a
`WaitQueue`, `block()` counts `status_block_cnt` up, and `do_scheduler` switches
away; `wakeup()` counts down and queues the thread again. `Scheduler` models
this mechanism in full. The modules for locks and the network use what it
provides: a thread that is not blocked and has not exited continues eventually.
The system calls of the file system sit on `Block` objects; `BlockCache` says
what such an object may rely on, and `FileSystem` uses it.

Kernel code is not preempted: on one CPU a system call runs to its end or to
the point where it blocks. `Process`, `KernelObjects` (as configured) and
`FileSystem` are models of this machine. `Scheduler`, `Mutex`, `Barrier`,
`Mailbox`, `Memory`, `BlockCache` and `Network` have the steps of several CPUs.

`PROJECT.json` maps each definition to its lines and lists the hazards found in
the source, with the properties that cover them or the reason why none does.
Definitions whose name begins with `M_` are mutations of the one they name,
kept to show that each property can fail.

## Modules

**Scheduler.** Each CPU has a label `pc`; one CPU leaves the kernel only by
finishing, while the steps of two CPUs interleave wherever a lock does not
prevent it. A critical section is one step where nothing outside the lock sees
its middle. `do_scheduler` is split at each point another CPU can observe:
clearing `status_running`, `check_sleeping`, requeueing, each iteration of the
scan, the writes after `ready_lock` is released, and the switch. `stack[c]` is
the thread whose kernel stack CPU `c` executes on. Each process has one thread.
`ready_lock` is released before the context of the old thread is saved, so on
two CPUs a second one can execute on the same stack. The real machine then does
arbitrary things; the model lets both go on, so what holds of it on several CPUs
holds up to the first such sharing. The queue of ready threads may hold a thread
twice, as in the code.

**ThreadStates.** The life of threads seen through `Thread::status()`, on one
CPU: what `Scheduler` implements (`ThreadLife`, with `Statuses` for the abstract
status). `Life` is its safety part, `Spec` adds that a ready thread is dispatched.

**Mutex.** `mutex_lock` with `condition`. The scheduler is reduced to `GetsCPU`:
at most `machine.cpus` threads are inside the kernel. `Kill` is one step, which
is exact on one CPU; on two it happens as well, between two steps of the other
CPU and not in the middle of one. A thread releases only a mutex it has: the code
compares processes, so it would also let a sibling thread release it. `Registered` says
which processes called `mutex_init`: others may use the handle. `release`
without an owner reads `owner->process` through a null pointer into a page
nobody cleared; the model lets the comparison go either way (`OwnedBy`).

**Barrier.** `wait` and `destroy`, with `wakeup_all` one thread at a time.
`destroy` happens with no thread running inside `wait`. `calls`, `arrivals` and
`returns` count calls; `calls` bounds them, the others are read by properties only.

**Mailbox.** `send` and `recv`, one byte at a time under the lock, which
`do_block` gives up. A byte is identified by sender, call and the number of
bytes that remain; `waited` records the bytes that a sender had to wait for room
for. After `front()` or `pop()` on an empty queue the model sets
`undefined` and stops moving bytes.

**TrieLookup, KernelObjects.** The trie is a sequence of nodes with two
children, searched bit by bit as in `container.hpp`, where a removed key keeps
its node. A pool is the trie and the table of handles; `init`, `close` and the
release of the objects of a killed process are split where they take and drop
locks. `misused` is set when a process closes a handle it does not hold: the
code counts the reference down all the same.

**Process.** The two tables, with `live`, `killed` and `deleted` entries, one
system call at a time. `kill` has its three endings: the victim is another
process, the caller's own, or an ended one. A process that kills itself leaves
the loop over its threads at its own thread and never returns; `own` says that
its lock stays held. A thread of such a process that outlived the kill and calls
`exec` or creates a thread spins on that lock for ever (`SpinOnOwnLock`). Nobody
kills process 0, the idle process; the code does not refuse it. `halt` says how the kernel has stopped: at an assertion, in a
spin lock, or by a call with a null entry of the table, after which behaviour is
undefined.

**KernelHeap, UserHeap.** The two buddy trees, as recursive functions over the
levels. The tree of the kernel stores exponents, that of a process sizes.
`kfree` gives nothing back, as in the code. Without room `malloc` hands out a
block that is in use; `short` records that this has happened.

**Memory.** Page directories with frames for root and directory pages, the TLB
of each CPU, `alloc_page_for_va`, shared pages, `brk` and `sbrk`, the loader, the
heap of a process, and kill. A page fault has two steps, the trap with the test of
the bound and the part under the lock, so that two CPUs may fault on one page and
the second finds it mapped (`FaultEnd`). `brk` may put the bound above the first shared
page; a page that was touched there and is then given to `shmpageget` fails the
assertion of `map_va_kva` (`hung = "mapped"`), and `FramesHaveOneUse` says that
it does not fail while no program puts its bound there. A software interrupt is pending in `ipi` until its
CPU takes it and flushes. User code may fill its TLB from the page table at any
time. The end of a process frees the root only: directory entries lack the U
bit that `freeUserRecur` looks for.

**BlockCache.** The slots, `Block` objects of several CPUs, both policies, the
timer and power failures. Only the order of the ages matters, so an age is a rank.
`Request` lets a `Block` object see at most `CACHE_SIZE - 1` other blocks while it
exists; the code relies on this and does not test it (64 slots, and a call of
the file system touches a handful).

**Volume, FileSystem.** `Volume` has the helpers of `fs.cpp` as operators that
map one state of the volume to the next. What lies in one block of the card (the
superblock, a block of a bitmap, the inodes, a data block) is a unit; `Update` is
`Block::update`, which writes the unit and logs the write under write-through and
makes it dirty under write-back. `FileSystem` has the system calls; `Perform`
completes one, stops at an assertion, or loses power after any of the logged
writes. The view `m` through the cache and the card `d` differ in dirty units and
in blocks that were changed without `update()`. `Evict` replaces a slot: a dirty
one is written, another change is lost. `cache_scan_timer` and `cache_set_policy`
write all dirty units.
After a boot the policy is write-through until `init_parameters` sets it, to
write-back with interval 0 for an empty parameter file; in the model it may be set at
any time. `saved` is what had been written to files when last nothing was dirty,
and `partial` says that since then some dirty units have reached the card and
others have not. Some events leave the volume unsound whatever follows:
removing or linking a file that is open, removing the working directory of
another process or an entry `.` or `..`, `mkfs` with files open, `ln` torn by a
power failure, `ln` onto a name without a file, and a power failure while
`partial`. They are recorded in `spoiled`, and the properties say what holds before.

**Network.** Both rings with head and tail, `sys_net_send` and `sys_net_recv`
under `net_buffer_lock`, the interrupt handler with its reads of ICR and IMS and
its writes of IMC as separate steps, and `net_idle_check`, which the timer
interrupt calls (`trap.cpp:53`). The card,
the wire and the PLIC are external: the card takes and fills descriptors in
order and raises TXQE when the transmit ring is empty and RXDMT0 when receive
descriptors run low. Packets carry serial numbers modulo twice the ring.

## Runs

| Run | Instance | Shows |
|---|---|---|
| `scheduler_smp` | 2 threads, 2 CPUs | no runnable thread is lost; block counts equal pending wakeups |
| `scheduler_live` | 3 threads, 1 CPU, masks with and without the CPU | nobody runs user code while blocked, ready threads run, sleep returns, refinement of `ThreadStates` |
| `mutex` | 3 threads in 2 processes, on 1 CPU, and on 2 with acquisition by the owner | exclusion, no waiter beside a free mutex, no lost signal, acquire and a signalled wait return, with kills and exits |
| `barrier` | 4 threads, goal 3, 3 rounds | complete groups, nobody left behind, each complete group returns |
| `mailbox` | 2 senders, 1 receiver, capacity 3, messages of 1, 2 and 4 bytes | order of bytes, messages cut only where the sender waited for room, a receiver is woken |
| `objects` | 2 processes, keys 0 and 2, 3 objects, 1 CPU | reference count equals holders, nothing held is freed, the pool is a map, what nobody holds is freed |
| `process` | 4 processes, 4 threads | orphans get a live parent, clean-up does not fail and gets stuck only behind a process that killed itself, nobody waits for the dead |
| `cache` | 3 blocks, 2 slots, 2 values, 2 `Block` objects | slots keep their block, clean blocks survive power loss, reads see updates, dirty slots are flushed |
| `fs` | 2 processes, 2 names, 3 inodes, 6 blocks of 2 words, both policies, power failures | one owner per block, entries lead to live inodes, counters and bitmaps agree, assertions hold, files keep what was written |
| `memory` | 3 processes, 2 CPUs, 24 frames for pages, heap of 8 batches | frames have one use, also when two CPUs fault on one page, both heaps are exact, shared pages are counted, stale translations are about to be flushed, images are whole |
| `network` | transmit ring of 3, receive ring of 5; 2 senders on 1 and 2 CPUs, a sender among arriving packets on 2, a receiver on 1 and 2 | order in both rings, a sleeping sender has its interrupt enabled, send returns, a packet is received |
| `fs_large` | one file with an index block | **violation**: `FileKeepsWrites` |

`fs_large` ends in a violation: in `inode_modify_data_recur` a local `data`
shadows the buffer, so beyond the direct blocks a write stores words of the
index block, while `test/test_project6/large.c` writes such a file and expects
to read it back.

### Limits of the properties

Some properties hold only within limits that they state, and the code does not
keep more than that:

* `MutualExclusion` and `AcquireReturns` are about one CPU. On two, `acquire`
  drops the spin lock before it sets `owner` and two threads get the mutex.
  `AcquireReturns` excepts a mutex that belongs to a dead thread: one killed while
  it waited, or one whose process never registered the mutex. It is checked
  without acquisition by the owner, which returns with the spin lock held.
* `MessagesAreWhole`: a sender that finds the mailbox full gives up the lock in
  `do_block`, and there another message may come in between; the property says that it is
  the only place. Such a sender waits on the queue that `recv` does not wake, so it is
  not claimed that `send` returns. `BytesInOrder` needs one receiver: with two, one may
  read from an empty queue.
* `UserCodeIsNotBlocked`, the liveness properties and the refinement of the
  scheduler are about one CPU. A thread whose mask names no CPU is excepted
  (`barred` in `ThreadStates`).
* `RefCountIsHolders` holds until a process closes what it does not hold, and on
  one CPU: on two, a close that races a kill counts down twice.
* `CleanupIsSafe` and `OrphansAreAdopted` except a process that killed itself.
* `SharedCountIsMappings` is claimed while nobody is inside the calls on shared
  pages, which take no lock; mappings of killed processes stay and stay counted.
* `SendReturns` is about one CPU and excepts a sender next to one that calls again
  and again: TXQE is raised only for an empty ring. On two CPUs a handler that has read
  ICR and IMS before the sender enables TXQE has consumed the cause and does not wake the
  sender, which then waits until the ring is filled and drained once more.
* `BlocksHaveOneOwner`, `EntriesAreLive` and `FileKeepsWrites` speak of the volume as
  the kernel sees it, under either policy, and of the card. Under write-through the card
  is sound after a power failure at any point of an operation, except inside `ln`. Under
  write-back, the policy the kernel boots into by default, it is sound as the last complete flush has
  left it, and a power failure loses what came later. Once some of the dirty slots, but not all, have been
  written (by a flush that power cuts short or by replacement) nothing is claimed of
  the card until the rest is: slots are written in the order of the cache, in which a
  directory entry may come before the inode or the bitmap.
* `CountersAreExact`, and that "no space" means a full bitmap, are claimed while no power
  failure has cut an operation short.

### Bounds

Three threads are needed for the scan of `do_scheduler` to pass over one element
and find another. `MaxTime` bounds the clock; a delay of zero is a sleeper that
expires at the next second. `MaxReady` stops system calls, not the kernel, while
the ready queue is that long. Four threads at a barrier of three give one that
arrives in the next round early. A mailbox of three bytes holds messages of one
and two bytes, not of four. Key 0 is the root of the trie and a prefix of key 2,
so that nodes without a value are passed; three objects let both keys be used and one be
created again. Four processes make a chain in which any two in the middle end in
any order. Two slots and three blocks make every eviction happen. `fs` is split
by workload (`Cases` in `MCFileSystem`): two processes in a tree of directories,
and one that also links in it; files in nested directories; one file of up to two blocks with writes of one and
two words from any place, also across the end of a block; two files side by side;
one power failure inside an operation on links, directories and files; and a cache that changes
between the policies. The block bitmap has two blocks, so the search crosses from one
to the next, and inodes and blocks both run out. States with `partial` that differ
only in units of the card that are dirty are taken for one (`Seen`): nothing reads
these units before they are written. `memory` is split likewise (`Cases` in `MCMemory`): two
threads of a process that fault on and detach the same pages, two that
move the bound above the shared pages, two processes
that share a page, three that are loaded until memory runs out, and one that uses
its heap until that runs out; images of one, two and five sectors end inside and at the
end of a page. Rings of three and five wrap around after a few packets; with five
receive descriptors the first packets leave enough of them free for RXDMT0 not to be
raised, so that the receiver depends on `net_idle_check`.
`Rounds`, `Calls`, `MaxLinks`, `MaxAttach` and `MaxObjects` bound how often a call is made.
Symmetry is used only where no liveness is checked.

### Deadlock checking

It is on for the scheduler, the block cache, the file system and the network, where the
timer, the card, a restart or the next call always can go on. It is off where the system may
stop: all threads have exited, used up their calls or wait for a thread that no
longer comes (locks, objects), or the kernel has stopped at an assertion or in a
spin lock (processes, memory).

### Fairness

* `Scheduler`: a CPU inside the kernel goes on (weak); time passes (weak); the
  timer interrupt is taken (strong), because it stays pending while the kernel
  runs and fires on return to user mode.
* `Mutex`: kernel steps weakly fair; dispatch strongly fair, which
  `ReadyThreadRuns` justifies; an owner releases in the end (an assumption about programs).
* `Barrier`: kernel steps strongly fair: a thread spinning on a lock that is
  free again and again gets it, and a woken thread is resumed.
* `Mailbox`: the same, and threads go on calling while their bound allows (an
  assumption about programs).
* `KernelObjects`: steps inside the kernel weakly fair.
* `BlockCache`: a flush goes on (weak); the timer finds the lock free (strong):
  it tries at every tick, and the lock is held for the length of one call.
* `Network`: the card sends, the handler and the threads go on (weak); a woken
  thread is resumed, a pending interrupt is claimed and the timer interrupt makes
  its check (strong), as `ReadyThreadRuns` and the trap on return to user mode give.

## Proofs

Each proof module extends the module it is about and proves its theorems for all values of
the constants that the named assumption of that module allows. Each follows the
same line: an inductive invariant `IInv`, `Init => IInv`, one step per
action for `IInv /\ [Next]_vars => IInv'`, and `IInv` implies the property.

**SchedulerProofs** (`SchedulerAssumption`): five results, for all threads, delays and masks.

* `TypeCorrect` and `NoThreadIsLost`, on any number of CPUs. `NoLostThread` is not
  inductive. `IInv` adds: which labels have a `target` (`TargetInv`); that a
  thread marked RUNNING is current on a CPU that has not begun to leave it
  (`RunningInv`); and that a runnable thread is queued or kept by a CPU
  (`KeptInv`). The crucial steps are the two that can drop a thread. `Select`
  drops the current thread only if it is not READY: it has exited, is blocked, or
  is RUNNING, in which case `RunningInv` gives another CPU that keeps it.
  `ScanErase` argues alike. This is why `status_running` must be cleared first in
  `do_scheduler`.
* `CountsAreBalanced`, on any finite number of CPUs: `BlockCountIsPendingWakeups`.
  `Balance` is the property with the entries of each queue counted by one
  operator, `Count`; lemmas say by how much `push_back`, `pop_front` and `erase`
  change it, and each action moves both sides by the same number.
* `ResumedWhenWoken`, on one CPU: `UserCodeIsNotBlocked`. `AwakeInv` says at which
  labels the current thread, or the one about to be, has a block count of zero; it
  needs `Balance` for the wakeups, which concern a thread in a queue.
* `ThreadsLiveAsPromised`, on one CPU: every behaviour of `Scheduler`, seen through
  `Statuses`, is one of `ThreadStates!Life`. Three more invariants make each step
  a move of one thread or none: a thread that is not created is in no queue, on
  no CPU and has no flag set (`UnbornInv`, so `Spawn` moves NEW to READY and
  nothing else leaves NEW); the current thread is marked RUNNING outside
  `do_scheduler` (`MarkedInv`, so what blocks was RUNNING); and by `Balance` a
  thread in a queue is BLOCKED, so a wakeup moves BLOCKED to READY or leaves it.
  `ThreadStates` has at most one RUNNING thread, hence one CPU. The fairness of
  `ThreadStates!Spec` is left to the run.

**MutexProofs** (`MutexAssumption`): `MutexExcludes`, `NoWaiterIsLeft`,
`NoSignalIsLost`. The core of the invariant is `Counts`: the block count of a
thread is determined by where it is and in which queue, -1 for a thread that was
signalled before it blocked. `Uni` adds for one CPU that one thread is in the
kernel and that `owner` names whoever has the mutex, including the thread it was
handed to and that has not run since.

**BarrierProofs** (`BarrierAssumption`): `GroupIsQueued` and `GroupsPassTogether`. The
last arrival holds the lock while it wakes the others (`Group`), so whoever comes
back early waits for the lock until the queue is empty. For the second, `Tally`
adds that the arrivals are the returns and the threads inside, and that they are
a number of complete groups and the one that is assembling.

**MailboxProofs** (`MailboxAssumption`): `BytesArriveInOrder` for one receiver: what was
pushed is what was read followed by the queue, and a receiver that was woken
finds a byte, because nobody else takes one. `MessagesStayWhole`, for any number of
senders and receivers and any history of the mailbox: the next byte of the message
of the last byte is in the hands of the thread inside the loop, or its sender has
waited for it (`Last`).

**BlockCacheProofs** (`CacheAssumption`): `SlotsAreKept`, `UpdatesAreDurable`,
`ReadsAreCurrent`. The argument is `Held`: every slot younger than that of a
`Block` object holds a block that was found since the object was made; fewer than
`CACHE_SIZE` were, so the slot is not the oldest when a victim is chosen
(by counting: the younger slots hold different blocks of that set).

**NetworkProofs** (`NetworkAssumption`): `PacketsKeepOrder`, for rings of any size: both rings are
the one predicate `Ring`, kept by adding at the tail and taking at the head, with
lemmas on remainders around the wrap. `NoSenderIsForgotten`: a sender between the
write of IMS and the switch counts as asleep.

**ProcessProofs** (`Process` has tables of any size): `OrphansFindParents`,
`NobodyWaitsForTheDead`, `CleanupStaysSafe`. The invariant is stated for a value
`k` of the two tables and the list of released processes, because `kill` and the
clean-up change them several times in one system call; each of those changes is
a lemma. Its conjuncts: tables refer to each other consistently (`Links`); a
live process is listed by its parent (`Family`); `active_thread_cnt` is the number
of its threads that have not exited (`Counted`); a process ends with its last thread
(`Ends`, `Stays`); a blocked thread is in the queue of a live process or of a
thread that has not exited (`Waiters`); and a process that ended otherwise than by
killing itself is released once (`Released`).

**MemoryProofs** (`MemoryAssumption`): `TranslationsAreFlushed`. What `kalloc` returns is
left open, so nothing depends on the recursion in it and a page directory is
described by its fields. `StaleIsInterrupted` is kept, CPU by CPU, by each action
(`Covered`, about every CPU in user code or in a page fault), given `Loaders`: a process that is being loaded is not yet live and is
loaded by one CPU, and no CPU runs it. So the entries that `exec` and the loader
write are in nobody's TLB; the end of a page fault and an attachment only fill entries that
were not valid (the one looks again under the lock, the other stops at the assertion), whose translations in a TLB were stale before; and a detach that has
cleared an entry holds the lock until it has interrupted every CPU that runs
the process.

**Queues** defines what several proofs say of a queue: its members, and that they are distinct.

Only model-checked:

* liveness, and with it the fairness in `ThreadLife`;
* `RefCountIsHolders` and `PoolIsAMap`: what the search in the trie finds is a
  recursion over its nodes, which needs induction over data;
* `FramesHaveOneUse`, `HeapsAreExact`, `SharedCountIsMappings` and `ImageIsLoaded`:
  they depend on what the buddy trees hand out, a recursion over levels;
* everything about `FileSystem`, whose helpers fold over blocks and entries.

## Not modelled

* Saving and restoring registers, the boot mapping, `ioremap`, the reset of
  the network card: straight-line set-up without a protocol.
* The screen, printing, strings, the kernel's console and the pool of small
  objects (a second instance of the buddy code).
* Second and third indirect level of files: the first has the same code, and the
  same error. Text of the parameter file of `sysparams.cpp`,
  and the read of it at boot.
* Two CPUs inside the file system, the process table or `malloc` of one process: the
  code takes no lock there, and any interleaving of its reads and writes can result.
* A thread deleted by `idle_cleanup` while current on another CPU, and a barrier destroyed on
  one CPU while another is inside `wait`: use of freed memory.
* The rest of the user library, the test programs and the image builder.

## Other places to watch

These were met while modelling and no property covers them:

* `thread.cpp:21`, `process.cpp:35`: an id is the size of a table read before the
  lock is taken; two CPUs can create the same one.
* `process.cpp:119`, `thread.cpp:71`: entries that `idle_cleanup` has set to null are read through.
* `process.cpp:103`: `kill` marks the threads exited before it looks for running
  ones, so no CPU is interrupted and a killed thread runs on until its next trap.
* `page.cpp:196`: the frames of a killed process are not found, and its shared
  mappings keep their count.
* `fs/fs.cpp:493`: index blocks are never freed. `fs/fs.cpp:269`: a read past the
  end grows the file.
* `sysparams.cpp:37`: the parameter file is not truncated, so a shorter number
  keeps the last digits of a longer one.
* `tiny_libc/memory.c:37`: `malloc` does not test for room.
  `tiny_libc/crt0/crt0.S:45`: the stack of the 32nd thread reaches the page of `argv`.
* `drivers/screen.cpp:45`: the cursor may reach one line past the last.
