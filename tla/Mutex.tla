------------------------------- MODULE Mutex -------------------------------
(***************************************************************************)
(* One mutex_lock and one condition of locks.cpp, and the threads of       *)
(* several processes that use them.  A thread blocks and wakes through the *)
(* counter of Scheduler; here the scheduler is reduced to what it promises *)
(* (a thread that has not exited and whose counter is zero gets a CPU) and *)
(* to its limit: at most machine.cpus threads are inside the kernel, which *)
(* is not preemptible, at any time.                                        *)
(***************************************************************************)
EXTENDS Integers, Sequences, FiniteSets

CONSTANTS Threads,
          Processes,
          ProcessOf,   \* the process of each thread
          Registered,  \* processes that called mutex_init, not only used the handle
          Victims,     \* processes that sys_kill is called on
          Nobody,      \* nullptr
          Machines     \* the number of CPUs, and whether a thread may apply
                       \* for the mutex it holds

ASSUME MutexAssumption ==
  /\ IsFiniteSet(Threads)
  /\ ProcessOf \in [Threads -> Processes]
  /\ Registered \subseteq Processes /\ Victims \subseteq Processes
  /\ Machines \subseteq [cpus : Nat \ {0}, reacquire : BOOLEAN]
  /\ Nobody \notin Threads

VARIABLES
  machine,           \* one of Machines
  lock,              \* mutex_lock::lock: the thread holding it, or Nobody
  owner,             \* mutex_lock::owner
  wait_queue,        \* mutex_lock::wait_queue
  cond_queue,        \* condition::wait_queue
  status_block_cnt,
  status_exited,
  pc

vars == <<machine, lock, owner, wait_queue, cond_queue, status_block_cnt, status_exited, pc>>

User == {"idle",       \* user code outside the critical section
         "critical"}   \* user code after acquire (or condition wait) has returned
Kernel == {"acquire",  \* in acquire, before lock.lock()
           "own",      \* in acquire, before the assignment of owner
           "release",  \* in release, before lock.lock()
           "unlock",   \* in condition::wait, before mutex->release
           "block"}    \* in condition::wait, before block()
Off == {"blocked",     \* in do_scheduler, called by acquire
        "waiting"}     \* in do_scheduler, called by condition::wait

Init ==
  /\ machine \in Machines
  /\ lock = Nobody
  /\ owner = Nobody
  /\ wait_queue = <<>>
  /\ cond_queue = <<>>
  /\ status_block_cnt = [t \in Threads |-> 0]
  /\ status_exited = [t \in Threads |-> FALSE]
  /\ pc = [t \in Threads |-> "idle"]

-----------------------------------------------------------------------------
Goto(t, label) == pc' = [pc EXCEPT ![t] = label]

(* A CPU that is not inside the kernel can run t, in user mode or resuming  *)
(* it from do_scheduler.                                                    *)
GetsCPU(t) ==
  /\ ~status_exited[t]
  /\ Cardinality({u \in Threads : pc[u] \in Kernel}) < machine.cpus

(* The system calls that only enter the kernel: mutex_acquire and           *)
(* mutex_release.  A thread releases the mutex only while it has it.  The   *)
(* code asks no more than that caller and owner are of one process: what a  *)
(* thread that releases the mutex of a sibling brings about is left out.    *)
Acquire(t) ==
  /\ pc[t] = "idle" \/ (machine.reacquire /\ pc[t] = "critical")
  /\ GetsCPU(t)
  /\ Goto(t, "acquire")
  /\ UNCHANGED <<lock, owner, wait_queue, cond_queue, status_block_cnt, status_exited>>

Release(t) ==
  /\ pc[t] = "critical" /\ GetsCPU(t)
  /\ Goto(t, "release")
  /\ UNCHANGED <<lock, owner, wait_queue, cond_queue, status_block_cnt, status_exited>>

(* acquire under lock: the owner itself returns, and keeps the spin lock *)
AcquireOwned(t) ==
  /\ pc[t] = "acquire" /\ lock = Nobody
  /\ owner = t
  /\ lock' = t
  /\ Goto(t, "critical")
  /\ UNCHANGED <<owner, wait_queue, cond_queue, status_block_cnt, status_exited>>

(* acquire under lock: do_block(wait_queue, lock) *)
AcquireBlock(t) ==
  /\ pc[t] = "acquire" /\ lock = Nobody
  /\ owner \notin {t, Nobody}
  /\ wait_queue' = Append(wait_queue, t)
  /\ status_block_cnt' = [status_block_cnt EXCEPT ![t] = @ + 1]
  /\ Goto(t, "blocked")
  /\ UNCHANGED <<lock, owner, cond_queue, status_exited>>

\* Mutant of AcquireFree: the test of owner is missing.
M_AcquireFree(t) ==
  /\ pc[t] = "acquire" /\ lock = Nobody
  /\ Goto(t, "own")
  /\ UNCHANGED <<lock, owner, wait_queue, cond_queue, status_block_cnt, status_exited>>

(* acquire under lock: nobody owns the mutex, the lock is released *)
AcquireFree(t) ==
  /\ pc[t] = "acquire" /\ lock = Nobody
  /\ owner = Nobody
  /\ Goto(t, "own")
  /\ UNCHANGED <<lock, owner, wait_queue, cond_queue, status_block_cnt, status_exited>>

(* do_scheduler returns in the thread that acquire had blocked *)
Resume(t) ==
  /\ pc[t] = "blocked" /\ status_block_cnt[t] = 0 /\ GetsCPU(t)
  /\ Goto(t, "own")
  /\ UNCHANGED <<lock, owner, wait_queue, cond_queue, status_block_cnt, status_exited>>

(* The last statement of acquire, outside the lock *)
Own(t) ==
  /\ pc[t] = "own"
  /\ owner' = t
  /\ Goto(t, "critical")
  /\ UNCHANGED <<lock, wait_queue, cond_queue, status_block_cnt, status_exited>>

(* Outcomes of owner->process == p.  Without an owner the load goes through  *)
(* nullptr: the page fault handler maps a page there that kalloc does not    *)
(* clear, so the comparison may go either way.                               *)
OwnedBy(p) == IF owner = Nobody THEN BOOLEAN ELSE {ProcessOf[owner] = p}

\* Mutant of release: owner is cleared and nobody is woken.
M_release_nowake(p) ==
  /\ lock = Nobody
  /\ \E same \in OwnedBy(p) : owner' = IF same THEN Nobody ELSE owner
  /\ UNCHANGED <<wait_queue, status_block_cnt>>

\* Mutant of release: the last waiter is served first.
M_release_last(p) ==
  /\ lock = Nobody
  /\ \E same \in OwnedBy(p) :
       IF same /\ wait_queue # <<>>
       THEN LET last == wait_queue[Len(wait_queue)] IN
            /\ owner' = last
            /\ wait_queue' = SubSeq(wait_queue, 1, Len(wait_queue) - 1)
            /\ status_block_cnt' = [status_block_cnt EXCEPT ![last] = @ - 1]
       ELSE /\ owner' = IF same THEN Nobody ELSE owner
            /\ UNCHANGED <<wait_queue, status_block_cnt>>

(* release(p): hand the mutex to the head of wait_queue, or to nobody *)
release(p) ==
  /\ lock = Nobody
  /\ \E same \in OwnedBy(p) :
       IF same /\ wait_queue # <<>>
       THEN /\ owner' = Head(wait_queue)
            /\ wait_queue' = Tail(wait_queue)
            /\ status_block_cnt' = [status_block_cnt EXCEPT ![Head(wait_queue)] = @ - 1]
       ELSE /\ owner' = IF same THEN Nobody ELSE owner
            /\ UNCHANGED <<wait_queue, status_block_cnt>>

(* mutex_release *)
ReleaseDone(t) ==
  /\ pc[t] = "release"
  /\ release(ProcessOf[t])
  /\ Goto(t, "idle")
  /\ UNCHANGED <<lock, cond_queue, status_exited>>

-----------------------------------------------------------------------------
\* Mutant of CondWait: the thread is not queued before the mutex is released.
M_CondWait(t) ==
  /\ pc[t] = "critical" /\ GetsCPU(t)
  /\ Goto(t, "unlock")
  /\ UNCHANGED <<lock, owner, wait_queue, cond_queue, status_block_cnt, status_exited>>

(* condition::wait up to lock.unlock(); the caller holds the mutex *)
CondWait(t) ==
  /\ pc[t] = "critical" /\ GetsCPU(t)
  /\ cond_queue' = Append(cond_queue, t)
  /\ Goto(t, "unlock")
  /\ UNCHANGED <<lock, owner, wait_queue, status_block_cnt, status_exited>>

(* mutex->release(current_process) in condition::wait *)
CondRelease(t) ==
  /\ pc[t] = "unlock"
  /\ release(ProcessOf[t])
  /\ Goto(t, "block")
  /\ UNCHANGED <<lock, cond_queue, status_exited>>

(* block(), do_scheduler() in condition::wait *)
CondBlock(t) ==
  /\ pc[t] = "block"
  /\ status_block_cnt' = [status_block_cnt EXCEPT ![t] = @ + 1]
  /\ Goto(t, "waiting")
  /\ UNCHANGED <<lock, owner, wait_queue, cond_queue, status_exited>>

(* do_scheduler returns in condition::wait; mutex->acquire() *)
CondResume(t) ==
  /\ pc[t] = "waiting" /\ status_block_cnt[t] = 0 /\ GetsCPU(t)
  /\ Goto(t, "acquire")
  /\ UNCHANGED <<lock, owner, wait_queue, cond_queue, status_block_cnt, status_exited>>

(* condition::signal *)
Signal(t) ==
  /\ pc[t] \in User /\ GetsCPU(t)
  /\ cond_queue # <<>>
  /\ status_block_cnt' = [status_block_cnt EXCEPT ![Head(cond_queue)] = @ - 1]
  /\ cond_queue' = Tail(cond_queue)
  /\ UNCHANGED <<lock, owner, wait_queue, status_exited, pc>>

Waiters(queue) == {queue[i] : i \in DOMAIN queue}

(* condition::broadcast; a thread is at most once in cond_queue *)
Broadcast(t) ==
  /\ pc[t] \in User /\ GetsCPU(t)
  /\ cond_queue # <<>>
  /\ status_block_cnt' = [u \in Threads |-> IF u \in Waiters(cond_queue)
                                            THEN status_block_cnt[u] - 1
                                            ELSE status_block_cnt[u]]
  /\ cond_queue' = <<>>
  /\ UNCHANGED <<lock, owner, wait_queue, status_exited, pc>>

-----------------------------------------------------------------------------
(* What the end of process p does to the mutex: on_process_unregister, if   *)
(* the process has registered the object.                                   *)
on_process_unregister(p) ==
  IF p \in Registered
  THEN release(p)
  ELSE UNCHANGED <<owner, wait_queue, status_block_cnt>>

(* sys_kill of another process by t: its threads exit, its objects go *)
Kill(t) ==
  /\ pc[t] \in User /\ GetsCPU(t)
  /\ \E p \in Victims \ {ProcessOf[t]} :
       /\ \E u \in Threads : ProcessOf[u] = p /\ ~status_exited[u]
       /\ status_exited' = [u \in Threads |-> status_exited[u] \/ ProcessOf[u] = p]
       /\ on_process_unregister(p)
  /\ UNCHANGED <<lock, cond_queue, pc>>

(* sys_exit_thread; the last thread of a process ends the process *)
Exit(t) ==
  /\ pc[t] \in User /\ GetsCPU(t)
  /\ status_exited' = [status_exited EXCEPT ![t] = TRUE]
  /\ IF \A u \in Threads \ {t} : ProcessOf[u] = ProcessOf[t] => status_exited[u]
     THEN on_process_unregister(ProcessOf[t])
     ELSE UNCHANGED <<owner, wait_queue, status_block_cnt>>
  /\ UNCHANGED <<lock, cond_queue, pc>>

KernelStep(t) ==
  /\ \/ AcquireOwned(t) \/ AcquireBlock(t) \/ AcquireFree(t) \/ Own(t) \/ ReleaseDone(t)
     \/ CondRelease(t) \/ CondBlock(t)
  /\ UNCHANGED machine

Dispatch(t) == (Resume(t) \/ CondResume(t)) /\ UNCHANGED machine

UserStep(t) ==
  /\ \/ Acquire(t) \/ Release(t) \/ CondWait(t) \/ Signal(t) \/ Broadcast(t)
     \/ Kill(t) \/ Exit(t)
  /\ UNCHANGED machine

Next == \E t \in Threads : KernelStep(t) \/ Dispatch(t) \/ UserStep(t)

Spec == Init /\ [][Next]_vars

(* Kernel code runs to its end, the scheduler dispatches every thread that  *)
(* can run, and a thread that holds the mutex releases it in the end.       *)
FairSpec ==
  /\ Spec
  /\ \A t \in Threads :
       /\ WF_vars(KernelStep(t))
       /\ SF_vars(Dispatch(t))
       /\ SF_vars(Release(t) /\ UNCHANGED machine)
-----------------------------------------------------------------------------
(* The fields of mutex_lock and condition keep their types; a block count   *)
(* is -1 only between the two halves of condition::wait.                    *)
TypeOK ==
  /\ machine \in Machines
  /\ lock \in Threads \cup {Nobody}
  /\ owner \in Threads \cup {Nobody}
  /\ wait_queue \in Seq(Threads)
  /\ cond_queue \in Seq(Threads)
  /\ status_block_cnt \in [Threads -> {-1, 0, 1}]
  /\ status_exited \in [Threads -> BOOLEAN]
  /\ pc \in [Threads -> User \cup Kernel \cup Off]

(* On one CPU two live threads are never both past acquire: across          *)
(* hand-over by release, the kill of the owner, and the re-acquisition in   *)
(* condition wait.  With two CPUs both may find owner == nullptr before     *)
(* either stores it.                                                        *)
MutualExclusion ==
  machine.cpus = 1 =>
  \A t, u \in Threads :
    /\ pc[t] = "critical" /\ ~status_exited[t]
    /\ pc[u] = "critical" /\ ~status_exited[u]
    => t = u

(* The state is well formed, and release never frees the mutex while        *)
(* threads wait for it: they would wait until the next owner releases, or   *)
(* for ever.                                                                *)
FreeMutexHasNoWaiters == TypeOK /\ (owner = Nobody => wait_queue = <<>>)

(* A condition waiter that has been signalled is not blocked any more and   *)
(* one that has not is: the signal may come between the release of the      *)
(* mutex and block(), on another CPU.                                       *)
SignalledIffAwake ==
  \A t \in Threads : pc[t] \in {"unlock", "block", "waiting"} =>
    status_block_cnt[t] = (IF t \in Waiters(cond_queue) THEN 1 ELSE 0)
                          - (IF pc[t] = "waiting" THEN 0 ELSE 1)

(* The mutex does not belong to a thread that will never release it: a      *)
(* process that ends while it holds the mutex gives it up.                  *)
OwnerIsAlive == owner # Nobody => ~status_exited[owner]

(* Where acquire is never called by the owner, which returns with the spin  *)
(* lock held, and on one CPU.                                               *)
Orderly == machine.cpus = 1 /\ ~machine.reacquire

(* A thread applies for the mutex, by acquire or because it was woken in    *)
(* condition::wait.                                                         *)
Applies(t) ==
  \/ pc[t] \in {"acquire", "blocked"}
  \/ pc[t] = "waiting" /\ t \notin Waiters(cond_queue)

(* A thread that applies for the mutex, in acquire or at the end of a       *)
(* condition wait, gets it, unless it is killed or the mutex has been       *)
(* handed to a thread that was killed while it waited.                      *)
AcquireReturns ==
  \A t \in Threads :
    Orderly /\ Applies(t) ~>
      \/ pc[t] = "critical"
      \/ status_exited[t]
      \/ ~OwnerIsAlive
=============================================================================
