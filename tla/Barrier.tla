------------------------------ MODULE Barrier ------------------------------
(***************************************************************************)
(* One barrier of locks.cpp, used over and over by threads on any number   *)
(* of CPUs.  A thread blocks and wakes through the counter of Scheduler; a *)
(* thread that is not blocked runs on.                                     *)
(***************************************************************************)
EXTENDS Integers, Sequences, FiniteSets

CONSTANTS Threads,
          Goal,      \* the argument of sys_barrier_init
          Rounds,    \* bound: how often a thread calls wait
          Nobody

ASSUME BarrierAssumption ==
  /\ IsFiniteSet(Threads)
  /\ Goal \in Nat \ {0}
  /\ Rounds \in Nat
  /\ Nobody \notin Threads

VARIABLES
  count,
  lock,              \* the thread holding it, or Nobody
  wait_queue,
  status_block_cnt,
  open,              \* FALSE once destroyed: pool.get answers nullptr
  pc,
  calls,             \* how often each thread has called wait
  arrivals,          \* how often wait has counted a thread
  returns            \* how often wait has returned

vars == <<count, lock, wait_queue, status_block_cnt, open, pc, calls, arrivals, returns>>

Init ==
  /\ count = 0
  /\ lock = Nobody
  /\ wait_queue = <<>>
  /\ status_block_cnt = [t \in Threads |-> 0]
  /\ open = TRUE
  /\ pc = [t \in Threads |-> "user"]
  /\ calls = [t \in Threads |-> 0]
  /\ arrivals = 0 /\ returns = 0

-----------------------------------------------------------------------------
Goto(t, label) == pc' = [pc EXCEPT ![t] = label]

(* sys_barrier_wait up to lock.lock() *)
Wait(t) ==
  /\ pc[t] = "user" /\ calls[t] < Rounds
  /\ open
  /\ calls' = [calls EXCEPT ![t] = @ + 1]
  /\ Goto(t, "wait")
  /\ UNCHANGED <<count, lock, wait_queue, status_block_cnt, open, arrivals, returns>>

(* Fewer than goal have arrived: do_block(wait_queue, lock) *)
WaitBlock(t) ==
  /\ pc[t] = "wait" /\ lock = Nobody
  /\ count + 1 < Goal
  /\ count' = count + 1
  /\ arrivals' = arrivals + 1
  /\ wait_queue' = Append(wait_queue, t)
  /\ status_block_cnt' = [status_block_cnt EXCEPT ![t] = @ + 1]
  /\ Goto(t, "blocked")
  /\ UNCHANGED <<lock, open, calls, returns>>

\* Mutant of WaitLast: one arrival too few is enough.
M_WaitLast_early(t) ==
  /\ pc[t] = "wait" /\ lock = Nobody
  /\ count + 2 >= Goal
  /\ count' = 0
  /\ arrivals' = arrivals + 1
  /\ lock' = t
  /\ Goto(t, "waking")
  /\ UNCHANGED <<wait_queue, status_block_cnt, open, calls, returns>>

(* The last arrival: count = 0, then wakeup_all under the lock *)
WaitLast(t) ==
  /\ pc[t] = "wait" /\ lock = Nobody
  /\ count + 1 >= Goal
  /\ count' = 0
  /\ arrivals' = arrivals + 1
  /\ lock' = t
  /\ Goto(t, "waking")
  /\ UNCHANGED <<wait_queue, status_block_cnt, open, calls, returns>>

(* One iteration of wakeup_all *)
WakeOne(t) ==
  /\ pc[t] = "waking" /\ wait_queue # <<>>
  /\ status_block_cnt' = [status_block_cnt EXCEPT ![Head(wait_queue)] = @ - 1]
  /\ wait_queue' = Tail(wait_queue)
  /\ UNCHANGED <<count, lock, open, pc, calls, arrivals, returns>>

\* Mutant of WakeDone: the lock is released after one iteration of wakeup_all.
M_WakeDone(t) ==
  /\ pc[t] = "waking"
  /\ lock' = Nobody
  /\ returns' = returns + 1
  /\ Goto(t, "user")
  /\ UNCHANGED <<count, wait_queue, status_block_cnt, open, calls, arrivals>>

(* wakeup_all has emptied the queue: unlock and return *)
WakeDone(t) ==
  /\ pc[t] = "waking" /\ wait_queue = <<>>
  /\ lock' = Nobody
  /\ returns' = returns + 1
  /\ Goto(t, "user")
  /\ UNCHANGED <<count, wait_queue, status_block_cnt, open, calls, arrivals>>

\* Mutant of Resume: a woken thread waits for count to be zero, which a fast
\* thread may already have changed for the next group.
M_Resume(t) ==
  /\ pc[t] = "blocked" /\ status_block_cnt[t] = 0 /\ count = 0
  /\ returns' = returns + 1
  /\ Goto(t, "user")
  /\ UNCHANGED <<count, lock, wait_queue, status_block_cnt, open, calls, arrivals>>

(* A woken thread returns from do_block *)
Resume(t) ==
  /\ pc[t] = "blocked" /\ status_block_cnt[t] = 0
  /\ returns' = returns + 1
  /\ Goto(t, "user")
  /\ UNCHANGED <<count, lock, wait_queue, status_block_cnt, open, calls, arrivals>>

Occurrences(t) == Cardinality({i \in DOMAIN wait_queue : wait_queue[i] = t})

(* sys_barrier_destroy by the only process that registered it: the          *)
(* destructor of WaitQueue wakes every thread.  Nobody is inside wait: on   *)
(* one CPU the kernel is not preempted, and on several the programs destroy *)
(* a barrier after they have waited for its users.                          *)
Destroy ==
  /\ open
  /\ \A t \in Threads : pc[t] \notin {"wait", "waking"}
  /\ open' = FALSE
  /\ wait_queue' = <<>>
  /\ status_block_cnt' = [t \in Threads |-> status_block_cnt[t] - Occurrences(t)]
  /\ UNCHANGED <<count, lock, pc, calls, arrivals, returns>>

KernelStep(t) == WaitBlock(t) \/ WaitLast(t) \/ WakeOne(t) \/ WakeDone(t) \/ Resume(t)

Next == Destroy \/ \E t \in Threads : Wait(t) \/ KernelStep(t)

Spec == Init /\ [][Next]_vars

(* Kernel code goes on, and the scheduler resumes a thread that was woken. *)
FairSpec == Spec /\ \A t \in Threads : SF_vars(KernelStep(t))
-----------------------------------------------------------------------------
(* The fields of the barrier keep their types. *)
TypeOK ==
  /\ count \in 0..(Goal - 1)
  /\ lock \in Threads \cup {Nobody}
  /\ wait_queue \in Seq(Threads)
  /\ status_block_cnt \in [Threads -> {0, 1}]
  /\ open \in BOOLEAN
  /\ pc \in [Threads -> {"user", "wait", "waking", "blocked"}]
  /\ calls \in [Threads -> 0..Rounds]
  /\ arrivals \in Nat /\ returns \in Nat

(* Nobody passes early: returns from wait come in complete groups of goal   *)
(* arrivals, also when a fast thread is back in wait while wakeup_all is    *)
(* still waking the others.                                                 *)
NobodyPassesEarly ==
  open => returns <= Goal * (arrivals \div Goal)

(* The state is well formed, and whenever the lock is free the waiting      *)
(* threads are exactly the arrivals of the current group: nobody of a past  *)
(* group is left behind in the queue and nobody of the next one was woken   *)
(* with it.                                                                 *)
WaitersAreCounted ==
  /\ TypeOK
  /\ open /\ lock = Nobody =>
       /\ Len(wait_queue) = count
       /\ \A t \in Threads : status_block_cnt[t] = Occurrences(t)

(* When goal threads have arrived, wait returns to as many: for every group, *)
(* also while threads of the next one are already queueing behind it.       *)
GroupReturns ==
  \A n \in 1..(Cardinality(Threads) * Rounds) :
    n % Goal = 0 => (arrivals >= n ~> returns >= n)
=============================================================================
