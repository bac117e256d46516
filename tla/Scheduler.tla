----------------------------- MODULE Scheduler -----------------------------
(***************************************************************************)
(* The thread scheduler: do_scheduler and its callers (schedule.cpp), the  *)
(* block / wakeup counter of a thread (thread.hpp, thread.cpp), wait       *)
(* queues (container.cpp) and the timer interrupt that preempts user code  *)
(* (trap.cpp, time.cpp).                                                   *)
(*                                                                         *)
(* Every CPU is a process with a program counter.  Kernel code runs with   *)
(* interrupts off, so on one CPU it is never interrupted; between CPUs     *)
(* every shared access is interleaved.  A critical section of a spinlock   *)
(* is one step when nothing outside the lock can observe its middle.       *)
(*                                                                         *)
(* The idle thread of CPU c is denoted by c itself.                        *)
(***************************************************************************)
EXTENDS Integers, Sequences, FiniteSets

CONSTANTS Threads,   \* the user threads that may be created
          CPUs,      \* the harts; also their idle threads
          Nobody,    \* nullptr
          Delays,    \* arguments of sleep, in seconds
          Masks,     \* cpu_mask values passed to sys_task_set
          MaxTime,   \* bound on the second counter get_timer()
          MaxReady   \* bound: no system call while ready_queue is this long

ASSUME SchedulerAssumption ==
  /\ IsFiniteSet(CPUs)
  /\ Threads \cap CPUs = {}
  /\ Nobody \notin Threads \cup CPUs
  /\ Delays \subseteq Nat
  /\ Masks \subseteq SUBSET CPUs
  /\ MaxTime \in Nat
  /\ MaxReady \in Nat

AllThreads == Threads \cup CPUs

VARIABLES
  clock,            \* get_timer()
  created,          \* threads made by sys_exec
  ready_queue,      \* std::list<Thread *>
  sleeping_queue,   \* the heap, as a bag in a sequence of <<time, thread>>
  wait_queue,       \* one WaitQueue of a kernel object
  ready_lock,       \* CPU holding it, or Nobody
  sleep_lock,
  object_lock,      \* the SpinLock of the object that owns wait_queue
  status_block_cnt,
  status_exited,
  status_running,
  running_cpu,
  cpu_mask,         \* of the thread's process
  current_thread,   \* per CPU
  stack,            \* the thread whose kernel stack the CPU executes on
  pc,               \* per CPU: where in the kernel it is
  target,           \* per CPU: next_thread, or the thread being woken
  it,               \* per CPU: position of the iterator over ready_queue
  current_time      \* per CPU: the local of check_sleeping; wakeup_time in sleep

threadVars == <<status_block_cnt, status_exited, status_running, running_cpu>>
queueVars == <<ready_queue, sleeping_queue, wait_queue>>
lockVars == <<ready_lock, sleep_lock, object_lock>>
cpuVars == <<current_thread, stack, pc, target, it, current_time>>
vars == <<clock, created, queueVars, lockVars, threadVars, cpu_mask, cpuVars>>

PCs == {"run",       \* user code, or the idle loop
        "sleep",     \* sleep: wakeup_time computed, sleep_lock not yet taken
        "block",     \* sleep: queued, block() not yet executed
        "resched",   \* blocked, do_scheduler not yet called
        "check",     \* do_scheduler entered, check_sleeping not yet locked
        "expire",    \* in the loop of check_sleeping
        "select",    \* before ready_lock.lock()
        "scan",      \* in the loop over ready_queue
        "assign",    \* after ready_lock.unlock()
        "mark",      \* before status_running is written
        "switch",    \* before switch_context_entry
        "wakeall",   \* in the loop of wakeup_all
        "push_sleeper", "push_one", "push_all", "push_new"}  \* add_ready_thread

Init ==
  \E shell \in Threads :
    /\ clock = 0
    /\ created = {shell}
    /\ ready_queue = <<shell>>
    /\ sleeping_queue = <<>>
    /\ wait_queue = <<>>
    /\ ready_lock = Nobody
    /\ sleep_lock = Nobody
    /\ object_lock = Nobody
    /\ status_block_cnt = [t \in AllThreads |-> 0]
    /\ status_exited = [t \in AllThreads |-> FALSE]
    /\ status_running = [t \in AllThreads |-> FALSE]
    /\ running_cpu = [t \in AllThreads |-> Nobody]
    /\ cpu_mask = [t \in Threads |-> CPUs]
    /\ current_thread = [c \in CPUs |-> c]
    /\ stack = [c \in CPUs |-> c]
    /\ pc = [c \in CPUs |-> "run"]
    /\ target = [c \in CPUs |-> Nobody]
    /\ it = [c \in CPUs |-> 0]
    /\ current_time = [c \in CPUs |-> 0]

-----------------------------------------------------------------------------
\* Mutant of status: BLOCKED is never reported.
M_status(t) ==
  CASE status_exited[t] -> "EXITED"
    [] ~status_exited[t] /\ status_running[t] -> "RUNNING"
    [] OTHER -> "READY"

(* Thread::status() *)
status(t) ==
  CASE status_exited[t] -> "EXITED"
    [] ~status_exited[t] /\ status_block_cnt[t] # 0 -> "BLOCKED"
    [] ~status_exited[t] /\ status_block_cnt[t] = 0 /\ status_running[t] -> "RUNNING"
    [] OTHER -> "READY"

(* list::erase, and the removal of one item of the heap *)
Erase(list, i) == SubSeq(list, 1, i - 1) \o SubSeq(list, i + 1, Len(list))

Goto(c, label) == pc' = [pc EXCEPT ![c] = label]

\* Mutant of do_scheduler: status_running is not cleared first.
M_do_scheduler(c) ==
  /\ status_running' = status_running
  /\ Goto(c, "check")

(* First lines of do_scheduler, on CPU c: clear status_running of the       *)
(* thread that gives up the CPU.                                            *)
do_scheduler(c) ==
  /\ status_running' = [status_running EXCEPT ![current_thread[c]] = FALSE]
  /\ Goto(c, "check")

\* Mutant of wakeup: the counter is reset, not decremented.
M_wakeup_reset(c, t, push, done) ==
  /\ status_block_cnt' = [status_block_cnt EXCEPT ![t] = 0]
  /\ IF ~status_exited[t]
     THEN target' = [target EXCEPT ![c] = t] /\ Goto(c, push)
     ELSE target' = target /\ Goto(c, done)

\* Mutant of wakeup: status_block_cnt-- == 0 for --status_block_cnt == 0.
M_wakeup_postfix(c, t, push, done) ==
  /\ status_block_cnt' = [status_block_cnt EXCEPT ![t] = @ - 1]
  /\ IF status_block_cnt[t] = 0 /\ ~status_exited[t]
     THEN target' = [target EXCEPT ![c] = t] /\ Goto(c, push)
     ELSE target' = target /\ Goto(c, done)

(* Thread::wakeup() up to the call of add_ready_thread, which is the step   *)
(* AddReadyThread from label push; a thread that need not be queued leaves c at   *)
(* label done.                                                              *)
wakeup(c, t, push, done) ==
  /\ status_block_cnt' = [status_block_cnt EXCEPT ![t] = @ - 1]
  /\ IF status_block_cnt[t] = 1 /\ ~status_exited[t]
     THEN target' = [target EXCEPT ![c] = t] /\ Goto(c, push)
     ELSE target' = target /\ Goto(c, done)

-----------------------------------------------------------------------------
(* check_sleeping: take sleep_lock and read the time *)
CheckSleeping(c) ==
  /\ pc[c] = "check"
  /\ sleep_lock = Nobody
  /\ sleep_lock' = c
  /\ current_time' = [current_time EXCEPT ![c] = clock]
  /\ Goto(c, "expire")
  /\ UNCHANGED <<clock, created, queueVars, ready_lock, object_lock, threadVars,
                 cpu_mask, current_thread, stack, target, it>>

(* Positions that may be the top of the heap: no other item is earlier. *)
Tops == {i \in DOMAIN sleeping_queue :
           \A j \in DOMAIN sleeping_queue :
             sleeping_queue[i][1] <= sleeping_queue[j][1]}

(* One iteration of the loop of check_sleeping *)
Expire(c) ==
  /\ pc[c] = "expire"
  /\ \E i \in Tops :
       /\ sleeping_queue[i][1] < current_time[c]
       /\ sleeping_queue' = Erase(sleeping_queue, i)
       /\ wakeup(c, sleeping_queue[i][2], "push_sleeper", "expire")
  /\ UNCHANGED <<clock, created, ready_queue, wait_queue, lockVars, status_exited,
                 status_running, running_cpu, cpu_mask, current_thread, stack,
                 it, current_time>>

(* The loop ends; sleep_lock.unlock() *)
ExpireDone(c) ==
  /\ pc[c] = "expire"
  /\ \A i \in Tops : sleeping_queue[i][1] >= current_time[c]
  /\ sleep_lock' = Nobody
  /\ current_time' = [current_time EXCEPT ![c] = 0]
  /\ Goto(c, "select")
  /\ UNCHANGED <<clock, created, queueVars, ready_lock, object_lock, threadVars,
                 cpu_mask, current_thread, stack, target, it>>

\* Mutant of Select: push_front for push_back.
M_Select_front(c) ==
  /\ pc[c] = "select"
  /\ ready_lock = Nobody
  /\ ready_lock' = c
  /\ ready_queue' = IF status(current_thread[c]) = "READY" /\ current_thread[c] # c
                    THEN <<current_thread[c]>> \o ready_queue
                    ELSE ready_queue
  /\ it' = [it EXCEPT ![c] = 1]
  /\ Goto(c, "scan")
  /\ UNCHANGED <<clock, created, sleeping_queue, wait_queue, sleep_lock, object_lock,
                 threadVars, cpu_mask, current_thread, stack, target, current_time>>

(* do_scheduler: ready_lock.lock(), then the current thread goes to the     *)
(* tail of the queue if it can still run                                    *)
Select(c) ==
  /\ pc[c] = "select"
  /\ ready_lock = Nobody
  /\ ready_lock' = c
  /\ ready_queue' = IF status(current_thread[c]) = "READY" /\ current_thread[c] # c
                    THEN Append(ready_queue, current_thread[c])
                    ELSE ready_queue
  /\ it' = [it EXCEPT ![c] = 1]
  /\ Goto(c, "scan")
  /\ UNCHANGED <<clock, created, sleeping_queue, wait_queue, sleep_lock, object_lock,
                 threadVars, cpu_mask, current_thread, stack, target, current_time>>

(* Position of the iterator after "it = erase(it)" and the "++it" of the    *)
(* loop; list is what is left.  The element after the erased one is passed  *)
(* over; past the end, libstdc++'s circular list wraps to begin().          *)
AfterErase(list, i) == IF i > Len(list) THEN 1 ELSE i + 1

(* The loop meets a thread that is not READY: dropped from the queue *)
ScanErase(c) ==
  /\ pc[c] = "scan"
  /\ it[c] <= Len(ready_queue)
  /\ status(ready_queue[it[c]]) # "READY"
  /\ ready_queue' = Erase(ready_queue, it[c])
  /\ it' = [it EXCEPT ![c] = AfterErase(ready_queue', it[c])]
  /\ UNCHANGED <<clock, created, sleeping_queue, wait_queue, lockVars, threadVars,
                 cpu_mask, current_thread, stack, pc, target, current_time>>

(* The loop meets a READY thread that may not run on this CPU *)
ScanSkip(c) ==
  /\ pc[c] = "scan"
  /\ it[c] <= Len(ready_queue)
  /\ status(ready_queue[it[c]]) = "READY"
  /\ c \notin cpu_mask[ready_queue[it[c]]]
  /\ it' = [it EXCEPT ![c] = @ + 1]
  /\ UNCHANGED <<clock, created, queueVars, lockVars, threadVars, cpu_mask,
                 current_thread, stack, pc, target, current_time>>

(* ready_lock.unlock() with next_thread = t *)
Chosen(c, t) ==
  /\ target' = [target EXCEPT ![c] = t]
  /\ ready_lock' = Nobody
  /\ it' = [it EXCEPT ![c] = 0]
  /\ Goto(c, "assign")
  /\ UNCHANGED <<clock, created, sleeping_queue, wait_queue, sleep_lock, object_lock,
                 threadVars, cpu_mask, current_thread, stack, current_time>>

(* The loop picks the thread under the iterator *)
ScanPick(c) ==
  /\ pc[c] = "scan"
  /\ it[c] <= Len(ready_queue)
  /\ status(ready_queue[it[c]]) = "READY"
  /\ c \in cpu_mask[ready_queue[it[c]]]
  /\ ready_queue' = Erase(ready_queue, it[c])
  /\ Chosen(c, ready_queue[it[c]])

(* The loop reaches end(): the idle thread *)
ScanIdle(c) ==
  /\ pc[c] = "scan"
  /\ it[c] > Len(ready_queue)
  /\ ready_queue' = ready_queue
  /\ Chosen(c, c)

(* After ready_lock has been released: current_thread, running_cpu of both  *)
(* threads, status_running of from_thread.  From here on stack[c] is        *)
(* from_thread: c still executes on its kernel stack.                       *)
Assign(c) ==
  /\ pc[c] = "assign"
  /\ current_thread' = [current_thread EXCEPT ![c] = target[c]]
  /\ running_cpu' = [running_cpu EXCEPT ![current_thread[c]] = Nobody,
                                        ![target[c]] = c]
  /\ status_running' = [status_running EXCEPT ![current_thread[c]] = FALSE]
  /\ Goto(c, "mark")
  /\ UNCHANGED <<clock, created, queueVars, lockVars, status_block_cnt, status_exited,
                 cpu_mask, stack, target, it, current_time>>

(* status_running of next_thread *)
Mark(c) ==
  /\ pc[c] = "mark"
  /\ status_running' = [status_running EXCEPT ![target[c]] = TRUE]
  /\ target' = [target EXCEPT ![c] = Nobody]
  /\ Goto(c, "switch")
  /\ UNCHANGED <<clock, created, queueVars, lockVars, status_block_cnt, status_exited,
                 running_cpu, cpu_mask, current_thread, stack, it, current_time>>

(* switch_context_entry: save from_thread's context, load next_thread's.    *)
(* Every call of do_scheduler modelled here is the last thing its caller    *)
(* does, so the thread continues in user mode (or in the idle loop).        *)
SwitchContext(c) ==
  /\ pc[c] = "switch"
  /\ stack' = [stack EXCEPT ![c] = current_thread[c]]
  /\ Goto(c, "run")
  /\ UNCHANGED <<clock, created, queueVars, lockVars, threadVars, cpu_mask,
                 current_thread, target, it, current_time>>

(* add_ready_thread(target[c]), from wakeup or for a new thread; the caller *)
(* wakeup_one releases the lock of its object on return.                    *)
AddReadyThread(c) ==
  /\ pc[c] \in {"push_sleeper", "push_one", "push_all", "push_new"}
  /\ ready_lock = Nobody
  /\ ready_queue' = Append(ready_queue, target[c])
  /\ target' = [target EXCEPT ![c] = Nobody]
  /\ object_lock' = IF pc[c] = "push_one" THEN Nobody ELSE object_lock
  /\ Goto(c, CASE pc[c] = "push_sleeper" -> "expire"
               [] pc[c] = "push_all" -> "wakeall"
               [] OTHER -> "run")
  /\ UNCHANGED <<clock, created, sleeping_queue, wait_queue, ready_lock, sleep_lock,
                 threadVars, cpu_mask, current_thread, stack, it, current_time>>

-----------------------------------------------------------------------------
(* CPU c executes user code of a thread *)
InUser(c) == pc[c] = "run" /\ current_thread[c] # c

(* ... which makes a system call *)
Syscall(c) == InUser(c) /\ Len(ready_queue) < MaxReady

(* Syscall::yield, and the timer interrupt in user code or the idle loop *)
Preempt(c) ==
  /\ pc[c] = "run"
  /\ do_scheduler(c)
  /\ UNCHANGED <<clock, created, queueVars, lockVars, status_block_cnt, status_exited,
                 running_cpu, cpu_mask, current_thread, stack, target, it, current_time>>

(* Syscall::sleep: compute wakeup_time *)
Sleep(c) ==
  /\ Syscall(c)
  /\ \E time \in Delays :
       /\ clock + time < MaxTime
       /\ current_time' = [current_time EXCEPT ![c] = clock + time]
  /\ Goto(c, "sleep")
  /\ UNCHANGED <<clock, created, queueVars, lockVars, threadVars, cpu_mask,
                 current_thread, stack, target, it>>

(* Syscall::sleep: the critical section of sleep_lock *)
SleepPush(c) ==
  /\ pc[c] = "sleep"
  /\ sleep_lock = Nobody
  /\ sleeping_queue' = Append(sleeping_queue, <<current_time[c], current_thread[c]>>)
  /\ current_time' = [current_time EXCEPT ![c] = 0]
  /\ Goto(c, "block")
  /\ UNCHANGED <<clock, created, ready_queue, wait_queue, lockVars, threadVars, cpu_mask,
                 current_thread, stack, target, it>>

(* Syscall::sleep: block(), after the lock is released *)
SleepBlock(c) ==
  /\ pc[c] = "block"
  /\ status_block_cnt' = [status_block_cnt EXCEPT ![current_thread[c]] = @ + 1]
  /\ Goto(c, "resched")
  /\ UNCHANGED <<clock, created, queueVars, lockVars, status_exited, status_running,
                 running_cpu, cpu_mask, current_thread, stack, target, it, current_time>>

(* do_block(wait_queue, lock), at the end of an operation: push and block   *)
(* under the lock of the object, which is released before do_scheduler.     *)
do_block(c) ==
  /\ Syscall(c)
  /\ object_lock = Nobody
  /\ wait_queue' = Append(wait_queue, current_thread[c])
  /\ status_block_cnt' = [status_block_cnt EXCEPT ![current_thread[c]] = @ + 1]
  /\ Goto(c, "resched")
  /\ UNCHANGED <<clock, created, ready_queue, sleeping_queue, lockVars, status_exited,
                 status_running, running_cpu, cpu_mask, current_thread, stack, target, it,
                 current_time>>

(* A thread that has blocked calls do_scheduler; it may have been woken *)
Resched(c) ==
  /\ pc[c] = "resched"
  /\ do_scheduler(c)
  /\ UNCHANGED <<clock, created, queueVars, lockVars, status_block_cnt, status_exited,
                 running_cpu, cpu_mask, current_thread, stack, target, it, current_time>>

(* An operation that calls wakeup_one under the lock of the object *)
wakeup_one(c) ==
  /\ Syscall(c)
  /\ object_lock = Nobody
  /\ wait_queue # <<>>
  /\ wait_queue' = Tail(wait_queue)
  /\ wakeup(c, Head(wait_queue), "push_one", "run")
  /\ object_lock' = IF pc'[c] = "push_one" THEN c ELSE Nobody
  /\ UNCHANGED <<clock, created, ready_queue, sleeping_queue, ready_lock, sleep_lock,
                 status_exited, status_running, running_cpu, cpu_mask, current_thread,
                 stack, it, current_time>>

(* An operation that calls wakeup_all under the lock of the object *)
WakeAllEnter(c) ==
  /\ Syscall(c)
  /\ object_lock = Nobody
  /\ object_lock' = c
  /\ Goto(c, "wakeall")
  /\ UNCHANGED <<clock, created, queueVars, ready_lock, sleep_lock, threadVars, cpu_mask,
                 current_thread, stack, target, it, current_time>>

(* One iteration of the loop of wakeup_all *)
wakeup_all(c) ==
  /\ pc[c] = "wakeall"
  /\ wait_queue # <<>>
  /\ wait_queue' = Tail(wait_queue)
  /\ wakeup(c, Head(wait_queue), "push_all", "wakeall")
  /\ UNCHANGED <<clock, created, ready_queue, sleeping_queue, lockVars, status_exited,
                 status_running, running_cpu, cpu_mask, current_thread, stack, it,
                 current_time>>

(* The loop of wakeup_all ends, the lock of the object is released *)
WakeAllExit(c) ==
  /\ pc[c] = "wakeall"
  /\ wait_queue = <<>>
  /\ object_lock' = Nobody
  /\ Goto(c, "run")
  /\ UNCHANGED <<clock, created, queueVars, ready_lock, sleep_lock, threadVars, cpu_mask,
                 current_thread, stack, target, it, current_time>>

(* sys_exec, up to add_ready_thread: a process of one thread that inherits  *)
(* the mask of its parent                                                   *)
Spawn(c) ==
  /\ Syscall(c)
  /\ \E t \in Threads \ created :
       /\ created' = created \cup {t}
       /\ target' = [target EXCEPT ![c] = t]
       /\ cpu_mask' = [cpu_mask EXCEPT ![t] = cpu_mask[current_thread[c]]]
  /\ Goto(c, "push_new")
  /\ UNCHANGED <<clock, queueVars, lockVars, threadVars, current_thread, stack, it,
                 current_time>>

(* Thread::exit() of t, called on CPU c by sys_exit_thread or               *)
(* sys_kill_thread.  No operation here fills wait_exited_queue or           *)
(* wait_kill_queue (sys_wait_thread and sys_waitpid do), so the calls of    *)
(* wakeup_all in exit and in Process::kill find them empty; kill finds the  *)
(* only thread of the process exited, and changes nothing else modelled.    *)
Exit(c) ==
  /\ Syscall(c)
  /\ \E t \in created :
       /\ ~status_exited[t]
       /\ status_exited' = [status_exited EXCEPT ![t] = TRUE]
       /\ IF t = current_thread[c]
          THEN do_scheduler(c)
          ELSE UNCHANGED <<status_running, pc>>
  /\ UNCHANGED <<clock, created, queueVars, lockVars, status_block_cnt, running_cpu, cpu_mask,
                 current_thread, stack, target, it, current_time>>

(* Syscall::sys_task_set, on the process of a live thread *)
TaskSet(c) ==
  /\ Syscall(c)
  /\ \E t \in created, mask \in Masks :
       /\ t = current_thread[c] \/ ~status_exited[t]
       /\ cpu_mask' = [cpu_mask EXCEPT ![t] = mask]
  /\ UNCHANGED <<clock, created, queueVars, lockVars, threadVars, cpuVars>>

(* The hardware counter advances *)
Tick ==
  /\ clock < MaxTime
  /\ clock' = clock + 1
  /\ UNCHANGED <<created, queueVars, lockVars, threadVars, cpu_mask, cpuVars>>

(* The kernel's own steps: once a trap has entered the kernel they follow *)
KernelStep(c) ==
  \/ CheckSleeping(c) \/ Expire(c) \/ ExpireDone(c)
  \/ Select(c) \/ ScanErase(c) \/ ScanSkip(c) \/ ScanPick(c) \/ ScanIdle(c)
  \/ Assign(c) \/ Mark(c) \/ SwitchContext(c)
  \/ AddReadyThread(c) \/ SleepPush(c) \/ SleepBlock(c) \/ Resched(c)
  \/ wakeup_all(c) \/ WakeAllExit(c)

(* The steps a trap starts *)
TrapStep(c) ==
  \/ Preempt(c) \/ Sleep(c) \/ do_block(c) \/ wakeup_one(c) \/ WakeAllEnter(c)
  \/ Spawn(c) \/ Exit(c) \/ TaskSet(c)

Next == Tick \/ \E c \in CPUs : KernelStep(c) \/ TrapStep(c)

Spec == Init /\ [][Next]_vars

(* Time passes; a CPU in the kernel goes on; and the timer interrupt is     *)
(* taken again and again: it stays pending while the kernel runs and fires  *)
(* before the first instruction after the return to user mode, so strong    *)
(* fairness is what the hardware gives.                                     *)
FairSpec ==
  /\ Spec
  /\ WF_vars(Tick)
  /\ \A c \in CPUs : WF_vars(KernelStep(c)) /\ SF_vars(Preempt(c))
-----------------------------------------------------------------------------
(* Every variable keeps the type its C++ declaration gives it; the iterator *)
(* stays inside ready_queue or at its end().                                *)
TypeOK ==
  /\ clock \in 0..MaxTime
  /\ created \subseteq Threads
  /\ ready_queue \in Seq(Threads)
  /\ sleeping_queue \in Seq((0..MaxTime) \X Threads)
  /\ wait_queue \in Seq(Threads)
  /\ ready_lock \in CPUs \cup {Nobody}
  /\ sleep_lock \in CPUs \cup {Nobody}
  /\ object_lock \in CPUs \cup {Nobody}
  /\ status_block_cnt \in [AllThreads -> Int]
  /\ status_exited \in [AllThreads -> BOOLEAN]
  /\ status_running \in [AllThreads -> BOOLEAN]
  /\ running_cpu \in [AllThreads -> CPUs \cup {Nobody}]
  /\ cpu_mask \in [Threads -> SUBSET CPUs]
  /\ current_thread \in [CPUs -> AllThreads]
  /\ stack \in [CPUs -> AllThreads]
  /\ pc \in [CPUs -> PCs]
  /\ target \in [CPUs -> AllThreads \cup {Nobody}]
  /\ it \in [CPUs -> Nat]
  /\ current_time \in [CPUs -> 0..MaxTime]

(* A thread that could run: created, not exited, block count zero. *)
Runnable(t) == t \in created /\ ~status_exited[t] /\ status_block_cnt[t] = 0

(* No runnable thread is ever forgotten: it is in ready_queue, or some CPU   *)
(* is about to queue it or to switch to it, or it is current on a CPU that   *)
(* has still to decide in Select whether to queue it.  The scan of           *)
(* do_scheduler erases threads it finds not READY, wakeup queues a thread    *)
(* whose CPU may not have left it, and both race with the CPU that is        *)
(* switching away from the thread.                                           *)
NoLostThread ==
  \A t \in Threads : Runnable(t) =>
    \/ \E i \in DOMAIN ready_queue : ready_queue[i] = t
    \/ \E c \in CPUs : \/ target[c] = t
                       \/ current_thread[c] = t /\ pc[c] \notin {"scan", "assign"}

Occurrences(t) ==
  Cardinality({i \in DOMAIN wait_queue : wait_queue[i] = t})
  + Cardinality({i \in DOMAIN sleeping_queue : sleeping_queue[i][2] = t})

(* The block count of a thread is the number of queues that will wake it,   *)
(* less the blocks it has still to execute: no push without its block(), no *)
(* pop without its wakeup(), in whatever order two CPUs execute them.       *)
BlockCountIsPendingWakeups ==
  \A t \in Threads :
    status_block_cnt[t] =
      Occurrences(t) - Cardinality({c \in CPUs : pc[c] = "block" /\ current_thread[c] = t})

(* A thread that executes user code waits in no queue: it was not resumed   *)
(* before the wakeup that matches its block().                              *)
UserCodeIsNotBlocked ==
  \A c \in CPUs : InUser(c) => status_block_cnt[current_thread[c]] = 0

(* A runnable thread that some CPU may run gets to run user code, is        *)
(* killed, or loses every CPU of its mask.  The scan passes over the        *)
(* element after one it erases; that delays a thread but does not starve    *)
(* it.                                                                      *)
ReadyThreadRuns ==
  \A t \in Threads :
    Runnable(t) /\ cpu_mask[t] # {} ~>
      \/ \E c \in CPUs : InUser(c) /\ current_thread[c] = t
      \/ ~Runnable(t)
      \/ cpu_mask[t] = {}

(* sleep returns: a thread that has queued itself in sleeping_queue runs    *)
(* user code again unless it is killed or no CPU may run it.                *)
SleepReturns ==
  \A t \in Threads :
    (\E c \in CPUs : pc[c] = "block" /\ current_thread[c] = t) ~>
      \/ \E c \in CPUs : InUser(c) /\ current_thread[c] = t
      \/ status_exited[t]
      \/ cpu_mask[t] = {}

(* The status of the threads, those that do not exist yet included *)
Statuses == [t \in Threads |-> IF t \in created THEN status(t) ELSE "NEW"]

(* On one CPU the scheduler implements the life of threads that             *)
(* ThreadStates describes.                                                  *)
Abstract == INSTANCE ThreadStates
  WITH st <- Statuses,
       barred <- {t \in Threads : cpu_mask[t] = {}}
ThreadLife == Abstract!Spec
=============================================================================
