-------------------------- MODULE SchedulerProofs --------------------------
(***************************************************************************)
(* The theorems about Scheduler, for any number of CPUs and threads and for *)
(* every bound on time and on the length of ready_queue: the inductive      *)
(* invariant, first the part about types, labels and the RUNNING flag, then *)
(* the part about runnable threads: no step loses one. After them come the  *)
(* balance of status_block_cnt with the two wait queues, the promise that   *)
(* a CPU resumes the thread it woke, and, on one CPU, the refinement: the   *)
(* statuses of the threads follow ThreadStates.                             *)
(***************************************************************************)
EXTENDS Scheduler, TLAPS

(* Z3 gets half a minute, through either encoding; a leaf for Zenon says so. *)
USE SMTT(30), Z3T(30)

(* Labels between the clearing of status_running and the choice of the next *)
(* thread, and labels at which the CPU no longer answers for its current    *)
(* thread because Select has dealt with it.                                 *)
Leaving == {"check", "expire", "push_sleeper", "select", "scan", "assign", "mark"}
Left == {"scan", "assign"}
Pushing == {"push_sleeper", "push_one", "push_all", "push_new"}

(* target is set exactly while the CPU wakes or switches to a thread *)
TargetInv ==
  \A c \in CPUs :
    /\ current_thread[c] \in Threads \cup {c}
    /\ pc[c] \in Pushing => target[c] \in Threads
    /\ pc[c] \in {"assign", "mark"} => target[c] \in Threads \cup {c}
    /\ pc[c] \notin Pushing \cup {"assign", "mark"} => target[c] = Nobody
    /\ pc[c] = "mark" => target[c] = current_thread[c]
    /\ pc[c] = "scan" => it[c] >= 1
    /\ pc[c] \in {"sleep", "block"} => current_thread[c] \in Threads

(* A thread marked RUNNING is the current thread of a CPU that has not      *)
(* begun to leave it.                                                       *)
RunningInv ==
  \A t \in Threads : status_running[t] =>
    \E c \in CPUs : current_thread[c] = t /\ pc[c] \notin Leaving

Queued(t) == \E i \in 1..Len(ready_queue) : ready_queue[i] = t

(* CPU c will queue t, or run it, or reach Select with it *)
Keeps(c, t) == target[c] = t \/ (current_thread[c] = t /\ pc[c] \notin Left)

(* A runnable thread is in the queue or kept by a CPU. *)
KeptInv == \A t \in Threads : Runnable(t) => Queued(t) \/ \E c \in CPUs : Keeps(c, t)

IInv == TypeOK /\ TargetInv /\ RunningInv /\ KeptInv
-----------------------------------------------------------------------------

(* What is left of a sequence after Erase, the model of list::erase: one    *)
(* element fewer, the others in their order, and none of them missing.      *)
LEMMA EraseProperties ==
  ASSUME NEW S, NEW q \in Seq(S), NEW i \in 1..Len(q)
  PROVE  /\ Erase(q, i) \in Seq(S)
         /\ Len(Erase(q, i)) = Len(q) - 1
         /\ \A k \in 1..(Len(q) - 1) :
              (k < i => Erase(q, i)[k] = q[k]) /\ (k >= i => Erase(q, i)[k] = q[k + 1])
         /\ \A j \in 1..Len(q) : j # i =>
              \E k \in 1..Len(Erase(q, i)) : Erase(q, i)[k] = q[j]
<1> DEFINE a == SubSeq(q, 1, i - 1)
           b == SubSeq(q, i + 1, Len(q))
<1>1. /\ a \in Seq(S) /\ Len(a) = i - 1
      /\ \A k \in 1..(i - 1) : a[k] = q[k]
  OBVIOUS
<1>2. /\ b \in Seq(S) /\ Len(b) = Len(q) - i
      /\ \A k \in 1..(Len(q) - i) : b[k] = q[i + k]
  OBVIOUS
<1> HIDE DEF a, b
<1> DEFINE r == a \o b
<1>3. /\ r \in Seq(S)
      /\ Len(r) = Len(a) + Len(b)
      /\ \A k \in 1..(Len(a) + Len(b)) : r[k] = IF k <= Len(a) THEN a[k] ELSE b[k - Len(a)]
  <2>1. a \in Seq(S) /\ b \in Seq(S)
    BY <1>1, <1>2
  <2>2. QED
    BY <2>1
<1>4. Erase(q, i) = r
  BY Zenon DEF Erase, a, b
<1> HIDE DEF r
<1>5. Len(r) = Len(q) - 1
  BY <1>1, <1>2, <1>3
<1>6. ASSUME NEW k \in 1..(Len(q) - 1)
      PROVE  (k < i => r[k] = q[k]) /\ (k >= i => r[k] = q[k + 1])
  <2>1. ASSUME k < i PROVE r[k] = q[k]
    <3>1. k \in 1..(i - 1) /\ k \in 1..(Len(a) + Len(b)) /\ k <= Len(a)
      BY <2>1, <1>1, <1>2
    <3> QED BY <3>1, <1>1, <1>3
  <2>2. ASSUME k >= i PROVE r[k] = q[k + 1]
    <3>1. /\ k \in 1..(Len(a) + Len(b)) /\ ~(k <= Len(a)) /\ k - Len(a) = k - i + 1
          /\ k - i + 1 \in 1..(Len(q) - i) /\ i + (k - i + 1) = k + 1
      BY <2>2, <1>1, <1>2
    <3>2. r[k] = b[k - i + 1]
      BY <3>1, <1>3
    <3>3. b[k - i + 1] = q[k + 1]
      BY <3>1, <1>2
    <3> QED BY <3>2, <3>3
  <2> QED BY <2>1, <2>2
<1>7. ASSUME NEW j \in 1..Len(q), j # i
      PROVE  \E k \in 1..(Len(q) - 1) : r[k] = q[j]
  <2>1. CASE j < i
    <3>1. j \in 1..(Len(q) - 1)
      BY <2>1
    <3>2. r[j] = q[j]
      BY <2>1, <3>1, <1>6
    <3> QED BY <3>1, <3>2
  <2>2. CASE j > i
    <3>1. j - 1 \in 1..(Len(q) - 1) /\ j - 1 >= i /\ (j - 1) + 1 = j
      BY <2>2
    <3>2. r[j - 1] = q[j]
      BY <3>1, <1>6
    <3> QED BY <3>1, <3>2
  <2>3. j < i \/ j > i
    BY <1>7
  <2> QED BY <2>1, <2>2, <2>3
<1> QED
  BY <1>3, <1>4, <1>5, <1>6, <1>7, Zenon

(* The initial state satisfies the inductive invariant. *)
LEMMA InitIInv == Init => IInv
<1> SUFFICES ASSUME Init PROVE IInv
  OBVIOUS
<1> USE SchedulerAssumption DEF Init, AllThreads
<1>1. PICK shell \in Threads : Init!(shell)
  BY DEF Init
<1>2. TypeOK
  BY <1>1 DEF TypeOK, PCs
<1>3. TargetInv
  BY <1>1 DEF TargetInv, Pushing
<1>4. RunningInv
  BY <1>1 DEF RunningInv
<1>5. KeptInv
  BY <1>1 DEF KeptInv, Runnable, Queued
<1>6. QED
  BY <1>2, <1>3, <1>4, <1>5 DEF IInv

(* wakeup keeps the types of what it writes. *)
LEMMA WakeupType ==
  ASSUME TypeOK, NEW c \in CPUs, NEW t \in Threads, NEW push \in PCs, NEW done \in PCs,
         wakeup(c, t, push, done)
  PROVE  /\ status_block_cnt' \in [AllThreads -> Int]
         /\ target' \in [CPUs -> AllThreads \cup {Nobody}]
         /\ pc' \in [CPUs -> PCs]
<1>1. status_block_cnt' \in [AllThreads -> Int]
  <2>1. status_block_cnt \in [AllThreads -> Int] /\ t \in AllThreads
    BY DEF TypeOK, AllThreads
  <2>2. status_block_cnt' = [status_block_cnt EXCEPT ![t] = status_block_cnt[t] - 1]
    BY Zenon DEF wakeup
  <2>3. QED
    BY <2>1, <2>2
<1>2. CASE status_block_cnt[t] = 1 /\ ~status_exited[t]
  <2>1. target' = [target EXCEPT ![c] = t] /\ pc' = [pc EXCEPT ![c] = push]
    BY <1>2 DEF wakeup, Goto
  <2>2. QED
    BY <1>1, <2>1 DEF TypeOK, AllThreads
<1>3. CASE ~(status_block_cnt[t] = 1 /\ ~status_exited[t])
  <2>1. target' = target /\ pc' = [pc EXCEPT ![c] = done]
    BY <1>3 DEF wakeup, Goto
  <2>2. QED
    BY <1>1, <2>1 DEF TypeOK, AllThreads
<1>4. QED
  BY <1>2, <1>3

(* The top of the sleeping heap is one of its items. *)
LEMMA TopIsItem ==
  ASSUME TypeOK, NEW i \in Tops
  PROVE  i \in 1..Len(sleeping_queue) /\ sleeping_queue[i][2] \in Threads
<1>1. sleeping_queue \in Seq((0..MaxTime) \X Threads)
  BY DEF TypeOK
<1>2. i \in 1..Len(sleeping_queue)
  BY <1>1 DEF Tops
<1>3. sleeping_queue[i] \in (0..MaxTime) \X Threads
  BY <1>1, <1>2
<1>4. QED
  BY <1>2, <1>3

(* Every step keeps the types. *)
LEMMA TypeStep == IInv /\ [Next]_vars => TypeOK'
<1> SUFFICES ASSUME IInv PROVE [Next]_vars => TypeOK'
  OBVIOUS
<1> USE SchedulerAssumption DEF IInv, TypeOK, TargetInv, AllThreads, PCs, Pushing, Goto,
    do_scheduler, queueVars, lockVars, threadVars, cpuVars, Syscall, InUser, Chosen
<1>1. ASSUME NEW c \in CPUs, CheckSleeping(c) PROVE TypeOK'
  BY <1>1 DEF CheckSleeping
<1>2. ASSUME NEW c \in CPUs, Expire(c) PROVE TypeOK'
  <2>1. PICK i \in Tops :
          /\ sleeping_queue' = Erase(sleeping_queue, i)
          /\ wakeup(c, sleeping_queue[i][2], "push_sleeper", "expire")
    BY <1>2 DEF Expire
  <2>2. i \in 1..Len(sleeping_queue) /\ sleeping_queue[i][2] \in Threads
    BY TopIsItem
  <2>3. sleeping_queue' \in Seq((0..MaxTime) \X Threads)
    BY <2>1, <2>2, EraseProperties
  <2>4. PICK t \in Threads : wakeup(c, t, "push_sleeper", "expire")
    BY <2>1, <2>2
  <2>5. /\ status_block_cnt' \in [AllThreads -> Int]
        /\ target' \in [CPUs -> AllThreads \cup {Nobody}]
        /\ pc' \in [CPUs -> PCs]
    BY <2>4, WakeupType, Zenon
  <2>6. QED
    BY <1>2, <2>3, <2>5, Zenon DEF Expire
<1>3. ASSUME NEW c \in CPUs, ExpireDone(c) PROVE TypeOK'
  BY <1>3 DEF ExpireDone
<1>4. ASSUME NEW c \in CPUs, Select(c) PROVE TypeOK'
  BY <1>4 DEF Select
<1>5. ASSUME NEW c \in CPUs, ScanErase(c) PROVE TypeOK'
  <2>1. it[c] \in 1..Len(ready_queue)
    BY <1>5 DEF ScanErase
  <2>2. ready_queue' \in Seq(Threads)
    BY <1>5, <2>1, EraseProperties DEF ScanErase
  <2>3. it' \in [CPUs -> Nat]
    BY <1>5 DEF ScanErase, AfterErase
  <2>4. QED
    BY <1>5, <2>2, <2>3, Zenon DEF ScanErase
<1>6. ASSUME NEW c \in CPUs, ScanSkip(c) PROVE TypeOK'
  <2>1. it' = [it EXCEPT ![c] = it[c] + 1]
    BY <1>6 DEF ScanSkip
  <2>2. it' \in [CPUs -> Nat]
    BY <2>1
  <2>3. QED
    BY <1>6, <2>2, Zenon DEF ScanSkip
<1>7. ASSUME NEW c \in CPUs, ScanPick(c) PROVE TypeOK'
  <2>1. it[c] \in 1..Len(ready_queue) /\ ready_queue[it[c]] \in Threads
    BY <1>7 DEF ScanPick
  <2>2. ready_queue' \in Seq(Threads)
    BY <1>7, <2>1, EraseProperties DEF ScanPick
  <2>3. QED
    BY <1>7, <2>1, <2>2 DEF ScanPick
<1>8. ASSUME NEW c \in CPUs, ScanIdle(c) PROVE TypeOK'
  BY <1>8 DEF ScanIdle
<1>9. ASSUME NEW c \in CPUs, Assign(c) PROVE TypeOK'
  <2>1. target[c] \in AllThreads /\ current_thread[c] \in AllThreads
    BY <1>9 DEF Assign
  <2>2. current_thread' \in [CPUs -> AllThreads]
    BY <1>9, <2>1 DEF Assign
  <2>3. running_cpu' \in [AllThreads -> CPUs \cup {Nobody}]
    BY <1>9, <2>1, Zenon DEF Assign
  <2>4. status_running' \in [AllThreads -> BOOLEAN]
    BY <1>9 DEF Assign
  <2>5. QED
    BY <1>9, <2>2, <2>3, <2>4, Zenon DEF Assign
<1>10. ASSUME NEW c \in CPUs, Mark(c) PROVE TypeOK'
  <2>1. status_running' \in [AllThreads -> BOOLEAN]
    BY <1>10 DEF Mark
  <2>2. pc' \in [CPUs -> PCs] /\ target' \in [CPUs -> AllThreads \cup {Nobody}]
    BY <1>10 DEF Mark
  <2>3. QED
    BY <1>10, <2>1, <2>2, Zenon DEF Mark
<1>11. ASSUME NEW c \in CPUs, SwitchContext(c) PROVE TypeOK'
  BY <1>11 DEF SwitchContext
<1>12. ASSUME NEW c \in CPUs, AddReadyThread(c) PROVE TypeOK'
  <2>1. target[c] \in Threads
    BY <1>12 DEF AddReadyThread
  <2>2. ready_queue' \in Seq(Threads)
    BY <1>12, <2>1 DEF AddReadyThread
  <2>3. pc' \in [CPUs -> PCs] /\ object_lock' \in CPUs \cup {Nobody}
    BY <1>12 DEF AddReadyThread
  <2>4. QED
    BY <1>12, <2>2, <2>3, ZenonT(60) DEF AddReadyThread
<1>13. ASSUME NEW c \in CPUs, SleepBlock(c) PROVE TypeOK'
  <2>1. status_block_cnt' \in [AllThreads -> Int]
    <3>1. status_block_cnt' = [status_block_cnt EXCEPT ![current_thread[c]] =
                                 status_block_cnt[current_thread[c]] + 1]
      BY <1>13, Zenon DEF SleepBlock
    <3>2. QED BY <3>1
  <2>2. pc' \in [CPUs -> PCs]
    BY <1>13 DEF SleepBlock
  <2>3. QED
    BY <1>13, <2>1, <2>2, Zenon DEF SleepBlock
<1>14. ASSUME NEW c \in CPUs, wakeup_all(c) PROVE TypeOK'
  <2>1. /\ Head(wait_queue) \in Threads
        /\ wait_queue' \in Seq(Threads)
    BY <1>14 DEF wakeup_all
  <2>2. /\ status_block_cnt' \in [AllThreads -> Int]
        /\ target' \in [CPUs -> AllThreads \cup {Nobody}]
        /\ pc' \in [CPUs -> PCs]
    BY <1>14, <2>1, WakeupType, ZenonT(60) DEF wakeup_all
  <2>3. QED
    BY <1>14, <2>1, <2>2, Zenon DEF wakeup_all
<1>15. ASSUME NEW c \in CPUs, WakeAllExit(c) PROVE TypeOK'
  BY <1>15 DEF WakeAllExit
<1>16. ASSUME NEW c \in CPUs, Preempt(c) PROVE TypeOK'
  BY <1>16 DEF Preempt
<1>17. ASSUME NEW c \in CPUs, Sleep(c) PROVE TypeOK'
  <2>1. PICK time \in Delays :
          /\ clock + time < MaxTime
          /\ current_time' = [current_time EXCEPT ![c] = clock + time]
    BY <1>17, Zenon DEF Sleep
  <2>2. clock + time \in 0..MaxTime
    BY <2>1
  <2>3. current_time' \in [CPUs -> 0..MaxTime]
    BY <2>1, <2>2
  <2>4. QED
    BY <1>17, <2>3 DEF Sleep
<1>18. ASSUME NEW c \in CPUs, do_block(c) PROVE TypeOK'
  <2>1. wait_queue' \in Seq(Threads)
    BY <1>18 DEF do_block
  <2>2. status_block_cnt' \in [AllThreads -> Int] /\ pc' \in [CPUs -> PCs]
    BY <1>18 DEF do_block
  <2>3. QED
    BY <1>18, <2>1, <2>2, ZenonT(60) DEF do_block
<1>19. ASSUME NEW c \in CPUs, wakeup_one(c) PROVE TypeOK'
  <2>1. /\ Head(wait_queue) \in Threads
        /\ wait_queue' \in Seq(Threads)
    BY <1>19 DEF wakeup_one
  <2>2. /\ status_block_cnt' \in [AllThreads -> Int]
        /\ target' \in [CPUs -> AllThreads \cup {Nobody}]
        /\ pc' \in [CPUs -> PCs]
    BY <1>19, <2>1, WakeupType, Zenon DEF wakeup_one
  <2>3. QED
    BY <1>19, <2>1, <2>2, Zenon DEF wakeup_one
<1>20. ASSUME NEW c \in CPUs, WakeAllEnter(c) PROVE TypeOK'
  BY <1>20 DEF WakeAllEnter
<1>21. ASSUME NEW c \in CPUs, Spawn(c) PROVE TypeOK'
  BY <1>21 DEF Spawn
<1>22. ASSUME NEW c \in CPUs, Exit(c) PROVE TypeOK'
  <2>1. PICK t \in created :
          /\ status_exited' = [status_exited EXCEPT ![t] = TRUE]
          /\ IF t = current_thread[c] THEN do_scheduler(c) ELSE UNCHANGED <<status_running, pc>>
    BY <1>22, Zenon DEF Exit
  <2>2. status_exited' \in [AllThreads -> BOOLEAN]
    BY <2>1
  <2>3. status_running' \in [AllThreads -> BOOLEAN] /\ pc' \in [CPUs -> PCs]
    <3>1. CASE t = current_thread[c]
      <4>1. /\ status_running' = [status_running EXCEPT ![current_thread[c]] = FALSE]
            /\ pc' = [pc EXCEPT ![c] = "check"]
        BY <2>1, <3>1
      <4>2. QED BY <4>1
    <3>2. CASE t # current_thread[c]
      BY <2>1, <3>2
    <3>3. QED BY <3>1, <3>2
  <2>4. QED
    BY <1>22, <2>2, <2>3, Zenon DEF Exit, do_scheduler
<1>23. ASSUME NEW c \in CPUs, TaskSet(c) PROVE TypeOK'
  <2>1. PICK t \in created, mask \in Masks : cpu_mask' = [cpu_mask EXCEPT ![t] = mask]
    BY <1>23, Zenon DEF TaskSet
  <2>2. cpu_mask' \in [Threads -> SUBSET CPUs]
    BY <2>1
  <2>3. QED
    BY <1>23, <2>2, Zenon DEF TaskSet
<1>24. ASSUME NEW c \in CPUs, SleepPush(c) PROVE TypeOK'
  <2>1. <<current_time[c], current_thread[c]>> \in (0..MaxTime) \X Threads
    BY <1>24 DEF SleepPush
  <2>2. sleeping_queue' \in Seq((0..MaxTime) \X Threads)
    BY <1>24, <2>1 DEF SleepPush
  <2>3. current_time' \in [CPUs -> 0..MaxTime]
    BY <1>24 DEF SleepPush
  <2>4. QED
    BY <1>24, <2>2, <2>3, Zenon DEF SleepPush
<1>25. ASSUME NEW c \in CPUs, Resched(c) PROVE TypeOK'
  BY <1>25 DEF Resched
<1>26. CASE Tick
  BY <1>26 DEF Tick
<1>27. CASE UNCHANGED vars
  BY <1>27 DEF vars
<1>28. QED
  BY <1>1, <1>2, <1>3, <1>4, <1>5, <1>6, <1>7, <1>8, <1>9, <1>10, <1>11, <1>12, <1>13, Zenon,
     <1>14, <1>15, <1>16, <1>17, <1>18, <1>19, <1>20, <1>21, <1>22, <1>23, <1>24, <1>25,
     <1>26, <1>27 DEF Next, KernelStep, TrapStep

(* The two outcomes of wakeup: the thread is to be queued, or it is not. *)
LEMMA WakeupCases ==
  ASSUME NEW c \in CPUs, NEW t, NEW push, NEW done, wakeup(c, t, push, done)
  PROVE  \/ /\ status_block_cnt[t] = 1 /\ ~status_exited[t]
            /\ target' = [target EXCEPT ![c] = t]
            /\ pc' = [pc EXCEPT ![c] = push]
         \/ /\ ~(status_block_cnt[t] = 1 /\ ~status_exited[t])
            /\ target' = target
            /\ pc' = [pc EXCEPT ![c] = done]
BY DEF wakeup, Goto

(* The two outcomes of exit: a thread that ends itself gives up the CPU. *)
LEMMA ExitCases ==
  ASSUME NEW c \in CPUs, Exit(c)
  PROVE  \E t \in created :
           /\ status_exited' = [status_exited EXCEPT ![t] = TRUE]
           /\ \/ /\ status_running' = [status_running EXCEPT ![current_thread[c]] = FALSE]
                 /\ pc' = [pc EXCEPT ![c] = "check"]
              \/ status_running' = status_running /\ pc' = pc
<1>1. PICK t \in created :
        /\ status_exited' = [status_exited EXCEPT ![t] = TRUE]
        /\ IF t = current_thread[c] THEN do_scheduler(c) ELSE UNCHANGED <<status_running, pc>>
  BY Zenon DEF Exit
<1>2. \/ /\ status_running' = [status_running EXCEPT ![current_thread[c]] = FALSE]
         /\ pc' = [pc EXCEPT ![c] = "check"]
      \/ status_running' = status_running /\ pc' = pc
  BY <1>1 DEF do_scheduler, Goto
<1>3. QED
  BY <1>1, <1>2, Zenon

(* Every step keeps target in step with the label of the CPU. *)
LEMMA TargetStep == IInv /\ [Next]_vars => TargetInv'
<1> SUFFICES ASSUME IInv PROVE [Next]_vars => TargetInv'
  OBVIOUS
<1>0. /\ TypeOK /\ TargetInv
      /\ pc \in [CPUs -> PCs]
      /\ current_thread \in [CPUs -> AllThreads]
      /\ target \in [CPUs -> AllThreads \cup {Nobody}]
      /\ it \in [CPUs -> Nat]
      /\ ready_queue \in Seq(Threads) /\ wait_queue \in Seq(Threads)
  BY Zenon DEF IInv, TypeOK
<1> USE <1>0, SchedulerAssumption DEF TargetInv, AllThreads, Pushing, Goto, do_scheduler,
    queueVars, lockVars, threadVars, cpuVars, Syscall, InUser, Chosen
<1>1. ASSUME NEW c \in CPUs, CheckSleeping(c) PROVE TargetInv'
  BY <1>1 DEF CheckSleeping
<1>2. ASSUME NEW c \in CPUs, Expire(c) PROVE TargetInv'
  <2>0. PICK i \in Tops : wakeup(c, sleeping_queue[i][2], "push_sleeper", "expire")
    BY <1>2 DEF Expire
  <2> DEFINE t == sleeping_queue[i][2]
  <2>1. t \in Threads
    BY TopIsItem
  <2>2. \/ target' = [target EXCEPT ![c] = t] /\ pc' = [pc EXCEPT ![c] = "push_sleeper"]
        \/ target' = target /\ pc' = [pc EXCEPT ![c] = "expire"]
    BY <2>0 DEF wakeup
  <2> HIDE DEF t
  <2>3. CASE target' = [target EXCEPT ![c] = t] /\ pc' = [pc EXCEPT ![c] = "push_sleeper"]
    BY <1>2, <2>1, <2>3 DEF Expire
  <2>4. CASE target' = target /\ pc' = [pc EXCEPT ![c] = "expire"]
    <3>1. /\ pc[c] = "expire" /\ current_thread' = current_thread /\ it' = it
          /\ status_running' = status_running
      BY <1>2 DEF Expire
    <3>2. QED
      BY <2>4, <3>1
  <2>5. QED
    BY <2>2, <2>3, <2>4
<1>3. ASSUME NEW c \in CPUs, ExpireDone(c) PROVE TargetInv'
  BY <1>3 DEF ExpireDone
<1>4. ASSUME NEW c \in CPUs, Select(c) PROVE TargetInv'
  BY <1>4 DEF Select
<1>5. ASSUME NEW c \in CPUs, ScanErase(c) PROVE TargetInv'
  <2>1. /\ pc' = pc /\ current_thread' = current_thread /\ target' = target
        /\ \A d \in CPUs : d # c => it'[d] = it[d]
    BY <1>5 DEF ScanErase
  <2>2. it[c] \in Nat /\ it'[c] = AfterErase(ready_queue', it[c])
    BY <1>5 DEF ScanErase
  <2>3. it'[c] >= 1
    BY <2>2 DEF AfterErase
  <2>4. QED
    BY <2>1, <2>3
<1>6. ASSUME NEW c \in CPUs, ScanSkip(c) PROVE TargetInv'
  BY <1>6 DEF ScanSkip
<1>7. ASSUME NEW c \in CPUs, ScanPick(c) PROVE TargetInv'
  BY <1>7 DEF ScanPick
<1>8. ASSUME NEW c \in CPUs, ScanIdle(c) PROVE TargetInv'
  BY <1>8 DEF ScanIdle
<1>9. ASSUME NEW c \in CPUs, Assign(c) PROVE TargetInv'
  BY <1>9 DEF Assign
<1>10. ASSUME NEW c \in CPUs, Mark(c) PROVE TargetInv'
  BY <1>10 DEF Mark
<1>11. ASSUME NEW c \in CPUs, SwitchContext(c) PROVE TargetInv'
  BY <1>11 DEF SwitchContext
<1>12. ASSUME NEW c \in CPUs, AddReadyThread(c) PROVE TargetInv'
  BY <1>12 DEF AddReadyThread
<1>13. ASSUME NEW c \in CPUs, SleepBlock(c) PROVE TargetInv'
  BY <1>13 DEF SleepBlock
<1>14. ASSUME NEW c \in CPUs, wakeup_all(c) PROVE TargetInv'
  <2>1. Head(wait_queue) \in Threads
    BY <1>14 DEF wakeup_all
  <2>2. \/ target' = [target EXCEPT ![c] = Head(wait_queue)] /\ pc' = [pc EXCEPT ![c] = "push_all"]
        \/ target' = target /\ pc' = [pc EXCEPT ![c] = "wakeall"]
    BY <1>14 DEF wakeup_all, wakeup
  <2>3. CASE target' = [target EXCEPT ![c] = Head(wait_queue)] /\ pc' = [pc EXCEPT ![c] = "push_all"]
    BY <1>14, <2>1, <2>3 DEF wakeup_all
  <2>4. CASE target' = target /\ pc' = [pc EXCEPT ![c] = "wakeall"]
    BY <1>14, <2>4 DEF wakeup_all
  <2>5. QED
    BY <2>2, <2>3, <2>4
<1>15. ASSUME NEW c \in CPUs, WakeAllExit(c) PROVE TargetInv'
  BY <1>15 DEF WakeAllExit
<1>16. ASSUME NEW c \in CPUs, Preempt(c) PROVE TargetInv'
  BY <1>16 DEF Preempt
<1>17. ASSUME NEW c \in CPUs, Sleep(c) PROVE TargetInv'
  <2>1. pc[c] = "run" /\ pc' = [pc EXCEPT ![c] = "sleep"] /\ current_thread[c] # c
    BY <1>17 DEF Sleep
  <2>2. current_thread' = current_thread /\ target' = target /\ it' = it
    BY <1>17 DEF Sleep
  <2>3. QED
    BY <2>1, <2>2
<1>18. ASSUME NEW c \in CPUs, do_block(c) PROVE TargetInv'
  BY <1>18 DEF do_block
<1>19. ASSUME NEW c \in CPUs, wakeup_one(c) PROVE TargetInv'
  <2>1. Head(wait_queue) \in Threads
    BY <1>19 DEF wakeup_one
  <2>2. \/ target' = [target EXCEPT ![c] = Head(wait_queue)] /\ pc' = [pc EXCEPT ![c] = "push_one"]
        \/ target' = target /\ pc' = [pc EXCEPT ![c] = "run"]
    BY <1>19 DEF wakeup_one, wakeup
  <2>3. CASE target' = [target EXCEPT ![c] = Head(wait_queue)] /\ pc' = [pc EXCEPT ![c] = "push_one"]
    BY <1>19, <2>1, <2>3 DEF wakeup_one
  <2>4. CASE target' = target /\ pc' = [pc EXCEPT ![c] = "run"]
    BY <1>19, <2>4 DEF wakeup_one
  <2>5. QED
    BY <2>2, <2>3, <2>4
<1>20. ASSUME NEW c \in CPUs, WakeAllEnter(c) PROVE TargetInv'
  BY <1>20 DEF WakeAllEnter
<1>21. ASSUME NEW c \in CPUs, Spawn(c) PROVE TargetInv'
  BY <1>21 DEF Spawn
<1>22. ASSUME NEW c \in CPUs, Exit(c) PROVE TargetInv'
  <2>1. pc' = pc \/ pc' = [pc EXCEPT ![c] = "check"]
    BY <1>22, ExitCases
  <2>2. QED
    BY <1>22, <2>1 DEF Exit
<1>23. ASSUME NEW c \in CPUs, TaskSet(c) PROVE TargetInv'
  BY <1>23 DEF TaskSet
<1>24. ASSUME NEW c \in CPUs, SleepPush(c) PROVE TargetInv'
  BY <1>24 DEF SleepPush
<1>25. ASSUME NEW c \in CPUs, Resched(c) PROVE TargetInv'
  BY <1>25 DEF Resched
<1>26. CASE Tick
  BY <1>26 DEF Tick
<1>27. CASE UNCHANGED vars
  BY <1>27 DEF vars
<1>28. QED
  BY <1>1, <1>2, <1>3, <1>4, <1>5, <1>6, <1>7, <1>8, <1>9, <1>10, <1>11, <1>12, <1>13, Zenon,
     <1>14, <1>15, <1>16, <1>17, <1>18, <1>19, <1>20, <1>21, <1>22, <1>23, <1>24, <1>25,
     <1>26, <1>27 DEF Next, KernelStep, TrapStep

(* Every step keeps RUNNING threads current. *)
LEMMA RunningStep == IInv /\ [Next]_vars => RunningInv'
<1> SUFFICES ASSUME IInv PROVE [Next]_vars => RunningInv'
  OBVIOUS
<1>0. /\ TypeOK /\ TargetInv /\ RunningInv
      /\ pc \in [CPUs -> PCs]
      /\ current_thread \in [CPUs -> AllThreads]
      /\ status_running \in [AllThreads -> BOOLEAN]
      /\ wait_queue \in Seq(Threads)
  BY DEF IInv, TypeOK
<1> USE <1>0, SchedulerAssumption DEF RunningInv, AllThreads, Leaving, Goto, do_scheduler,
    queueVars, lockVars, threadVars, cpuVars, Syscall, InUser, Chosen
<1>1. ASSUME NEW c \in CPUs, CheckSleeping(c) PROVE RunningInv'
  BY <1>1 DEF CheckSleeping
<1>2. ASSUME NEW c \in CPUs, Expire(c) PROVE RunningInv'
  <2>0. PICK i \in Tops : wakeup(c, sleeping_queue[i][2], "push_sleeper", "expire")
    BY <1>2 DEF Expire
  <2> DEFINE t == sleeping_queue[i][2]
  <2>1. t \in Threads
    BY TopIsItem
  <2>2. \/ target' = [target EXCEPT ![c] = t] /\ pc' = [pc EXCEPT ![c] = "push_sleeper"]
        \/ target' = target /\ pc' = [pc EXCEPT ![c] = "expire"]
    BY <2>0 DEF wakeup
  <2> HIDE DEF t
  <2>3. CASE target' = [target EXCEPT ![c] = t] /\ pc' = [pc EXCEPT ![c] = "push_sleeper"]
    BY <1>2, <2>1, <2>3 DEF Expire
  <2>4. CASE target' = target /\ pc' = [pc EXCEPT ![c] = "expire"]
    <3>1. /\ pc[c] = "expire" /\ current_thread' = current_thread /\ it' = it
          /\ status_running' = status_running
      BY <1>2 DEF Expire
    <3>2. QED
      BY <2>4, <3>1
  <2>5. QED
    BY <2>2, <2>3, <2>4
<1>3. ASSUME NEW c \in CPUs, ExpireDone(c) PROVE RunningInv'
  BY <1>3 DEF ExpireDone
<1>4. ASSUME NEW c \in CPUs, Select(c) PROVE RunningInv'
  BY <1>4 DEF Select
<1>5. ASSUME NEW c \in CPUs, ScanErase(c) PROVE RunningInv'
  BY <1>5 DEF ScanErase
<1>6. ASSUME NEW c \in CPUs, ScanSkip(c) PROVE RunningInv'
  BY <1>6 DEF ScanSkip
<1>7. ASSUME NEW c \in CPUs, ScanPick(c) PROVE RunningInv'
  BY <1>7 DEF ScanPick
<1>8. ASSUME NEW c \in CPUs, ScanIdle(c) PROVE RunningInv'
  BY <1>8 DEF ScanIdle
<1>9. ASSUME NEW c \in CPUs, Assign(c) PROVE RunningInv'
  BY <1>9 DEF Assign, TargetInv
<1>10. ASSUME NEW c \in CPUs, Mark(c) PROVE RunningInv'
  <2>1. /\ pc[c] = "mark" /\ target[c] = current_thread[c]
        /\ pc' = [pc EXCEPT ![c] = "switch"]
        /\ current_thread' = current_thread
        /\ status_running' = [status_running EXCEPT ![target[c]] = TRUE]
    BY <1>10 DEF Mark, TargetInv
  <2>2. ASSUME NEW t \in Threads, status_running'[t]
        PROVE  \E d \in CPUs : current_thread'[d] = t /\ pc'[d] \notin Leaving
    <3>1. CASE t = target[c]
      BY <3>1, <2>1
    <3>2. CASE t # target[c]
      <4>1. status_running[t]
        BY <2>1, <2>2, <3>2
      <4>2. PICK d \in CPUs : current_thread[d] = t /\ pc[d] \notin Leaving
        BY <4>1
      <4>3. QED
        BY <2>1, <4>2
    <3>3. QED BY <3>1, <3>2
  <2>3. QED
    BY <2>2
<1>11. ASSUME NEW c \in CPUs, SwitchContext(c) PROVE RunningInv'
  BY <1>11 DEF SwitchContext
<1>12. ASSUME NEW c \in CPUs, AddReadyThread(c) PROVE RunningInv'
  BY <1>12 DEF AddReadyThread
<1>13. ASSUME NEW c \in CPUs, SleepBlock(c) PROVE RunningInv'
  BY <1>13 DEF SleepBlock
<1>14. ASSUME NEW c \in CPUs, wakeup_all(c) PROVE RunningInv'
  <2>1. Head(wait_queue) \in Threads
    BY <1>14 DEF wakeup_all
  <2>2. \/ target' = [target EXCEPT ![c] = Head(wait_queue)] /\ pc' = [pc EXCEPT ![c] = "push_all"]
        \/ target' = target /\ pc' = [pc EXCEPT ![c] = "wakeall"]
    BY <1>14 DEF wakeup_all, wakeup
  <2>3. CASE target' = [target EXCEPT ![c] = Head(wait_queue)] /\ pc' = [pc EXCEPT ![c] = "push_all"]
    BY <1>14, <2>1, <2>3 DEF wakeup_all
  <2>4. CASE target' = target /\ pc' = [pc EXCEPT ![c] = "wakeall"]
    BY <1>14, <2>4 DEF wakeup_all
  <2>5. QED
    BY <2>2, <2>3, <2>4
<1>15. ASSUME NEW c \in CPUs, WakeAllExit(c) PROVE RunningInv'
  BY <1>15 DEF WakeAllExit
<1>16. ASSUME NEW c \in CPUs, Preempt(c) PROVE RunningInv'
  BY <1>16 DEF Preempt
<1>17. ASSUME NEW c \in CPUs, Sleep(c) PROVE RunningInv'
  BY <1>17 DEF Sleep
<1>18. ASSUME NEW c \in CPUs, do_block(c) PROVE RunningInv'
  BY <1>18 DEF do_block
<1>19. ASSUME NEW c \in CPUs, wakeup_one(c) PROVE RunningInv'
  <2>1. Head(wait_queue) \in Threads
    BY <1>19 DEF wakeup_one
  <2>2. \/ target' = [target EXCEPT ![c] = Head(wait_queue)] /\ pc' = [pc EXCEPT ![c] = "push_one"]
        \/ target' = target /\ pc' = [pc EXCEPT ![c] = "run"]
    BY <1>19 DEF wakeup_one, wakeup
  <2>3. CASE target' = [target EXCEPT ![c] = Head(wait_queue)] /\ pc' = [pc EXCEPT ![c] = "push_one"]
    BY <1>19, <2>1, <2>3 DEF wakeup_one
  <2>4. CASE target' = target /\ pc' = [pc EXCEPT ![c] = "run"]
    BY <1>19, <2>4 DEF wakeup_one
  <2>5. QED
    BY <2>2, <2>3, <2>4
<1>20. ASSUME NEW c \in CPUs, WakeAllEnter(c) PROVE RunningInv'
  BY <1>20 DEF WakeAllEnter
<1>21. ASSUME NEW c \in CPUs, Spawn(c) PROVE RunningInv'
  BY <1>21 DEF Spawn
<1>22. ASSUME NEW c \in CPUs, Exit(c) PROVE RunningInv'
  <2>1. \/ /\ status_running' = [status_running EXCEPT ![current_thread[c]] = FALSE]
           /\ pc' = [pc EXCEPT ![c] = "check"]
        \/ status_running' = status_running /\ pc' = pc
    BY <1>22, ExitCases
  <2>2. current_thread' = current_thread
    BY <1>22 DEF Exit
  <2>3. CASE status_running' = status_running /\ pc' = pc
    BY <2>2, <2>3
  <2>4. CASE /\ status_running' = [status_running EXCEPT ![current_thread[c]] = FALSE]
             /\ pc' = [pc EXCEPT ![c] = "check"]
    BY <2>2, <2>4
  <2>5. QED
    BY <2>1, <2>3, <2>4
<1>23. ASSUME NEW c \in CPUs, TaskSet(c) PROVE RunningInv'
  BY <1>23 DEF TaskSet
<1>24. ASSUME NEW c \in CPUs, SleepPush(c) PROVE RunningInv'
  BY <1>24 DEF SleepPush
<1>25. ASSUME NEW c \in CPUs, Resched(c) PROVE RunningInv'
  BY <1>25 DEF Resched
<1>26. CASE Tick
  BY <1>26 DEF Tick
<1>27. CASE UNCHANGED vars
  BY <1>27 DEF vars
<1>28. QED
  BY <1>1, <1>2, <1>3, <1>4, <1>5, <1>6, <1>7, <1>8, <1>9, <1>10, <1>11, <1>12, <1>13, Zenon,
     <1>14, <1>15, <1>16, <1>17, <1>18, <1>19, <1>20, <1>21, <1>22, <1>23, <1>24, <1>25,
     <1>26, <1>27 DEF Next, KernelStep, TrapStep
-----------------------------------------------------------------------------

(* What READY means, once the flags have their types. *)
LEMMA StatusReady ==
  ASSUME TypeOK, NEW t \in AllThreads
  PROVE  status(t) = "READY" <=>
           ~status_exited[t] /\ status_block_cnt[t] = 0 /\ ~status_running[t]
BY DEF TypeOK, status

(* push_back queues its argument and keeps what is queued. *)
LEMMA QueuedAppend ==
  ASSUME TypeOK, NEW u \in Threads, ready_queue' = Append(ready_queue, u)
  PROVE  /\ Queued(u)'
         /\ \A t \in Threads : Queued(t) => Queued(t)'
<1>1. ready_queue \in Seq(Threads) /\ Len(ready_queue) \in Nat
  BY DEF TypeOK
<1>2. /\ Len(ready_queue') = Len(ready_queue) + 1
      /\ ready_queue'[Len(ready_queue) + 1] = u
      /\ \A i \in 1..Len(ready_queue) : ready_queue'[i] = ready_queue[i]
  BY <1>1
<1>3. QED
  BY <1>1, <1>2 DEF Queued

(* erase keeps every other thread queued. *)
LEMMA QueuedRemove ==
  ASSUME TypeOK, NEW i \in 1..Len(ready_queue), ready_queue' = Erase(ready_queue, i)
  PROVE  \A t \in Threads : Queued(t) /\ t # ready_queue[i] => Queued(t)'
<1>1. ready_queue \in Seq(Threads)
  BY DEF TypeOK
<1>2. \A j \in 1..Len(ready_queue) : j # i =>
        \E k \in 1..Len(ready_queue') : ready_queue'[k] = ready_queue[j]
  BY <1>1, EraseProperties, Zenon
<1>3. QED
  BY <1>2 DEF Queued

-----------------------------------------------------------------------------
(* No step loses a runnable thread. *)

(* A step that touches neither ready_queue nor what makes a thread          *)
(* runnable, and after which every CPU keeps what it kept.                  *)
Calm ==
  /\ UNCHANGED <<created, ready_queue, status_exited, status_block_cnt>>
  /\ \A t \in Threads, d \in CPUs : Keeps(d, t) => Keeps(d, t)'

(* Such a step loses nobody. *)
LEMMA CalmKeeps ==
  ASSUME KeptInv, Calm
  PROVE  KeptInv'
<1>1. ASSUME NEW t \in Threads, Runnable(t)' PROVE Queued(t)' \/ \E d \in CPUs : Keeps(d, t)'
  <2>1. Runnable(t)
    BY <1>1, Zenon DEF Calm, Runnable
  <2>2. Queued(t) => Queued(t)'
    BY Zenon DEF Calm, Queued
  <2> QED
    BY <1>1, <2>1, <2>2, Zenon DEF KeptInv, Calm
<1> QED
  BY <1>1, Zenon DEF KeptInv

(* A CPU goes on to a label at which it still answers for its current       *)
(* thread.                                                                  *)
GoesOn(c, label) ==
  /\ UNCHANGED <<created, ready_queue, status_exited, status_block_cnt, current_thread, target>>
  /\ Goto(c, label)

(* Going on is calm. *)
LEMMA GoingOnIsCalm ==
  ASSUME TypeOK, NEW c \in CPUs, NEW label, label \notin Left, GoesOn(c, label)
  PROVE  Calm
<1>1. \A d \in CPUs : pc'[d] \in Left => pc[d] \in Left
  <2>1. pc \in [CPUs -> PCs]
    BY Zenon DEF TypeOK
  <2> QED
    BY <2>1 DEF GoesOn, Goto
<1> QED
  BY <1>1, Zenon DEF GoesOn, Calm, Keeps

(* wakeup: the thread whose count falls to zero becomes the target of the   *)
(* CPU, which will queue it.                                                *)
LEMMA WakeupKeeps ==
  ASSUME TypeOK, KeptInv, NEW c \in CPUs, NEW w \in Threads, NEW push, NEW done,
         wakeup(c, w, push, done), push \notin Left, done \notin Left, target[c] = Nobody,
         UNCHANGED <<created, ready_queue, status_exited, current_thread>>
  PROVE  KeptInv'
<1>1. /\ pc \in [CPUs -> PCs] /\ target \in [CPUs -> AllThreads \cup {Nobody}]
      /\ status_block_cnt \in [AllThreads -> Int] /\ Threads \subseteq AllThreads
      /\ status_exited \in [AllThreads -> BOOLEAN]
  BY DEF TypeOK, AllThreads
<1>2. status_block_cnt' = [status_block_cnt EXCEPT ![w] = status_block_cnt[w] - 1]
  BY Zenon DEF wakeup
<1>3. ASSUME NEW t \in Threads, Runnable(t)', t # w
      PROVE  Queued(t)' \/ \E d \in CPUs : Keeps(d, t)'
  <2>1. Runnable(t)
    BY <1>1, <1>2, <1>3 DEF Runnable
  <2>2. ASSUME NEW d \in CPUs, Keeps(d, t) PROVE Keeps(d, t)'
    <3>1. CASE d = c
      <4>1. target[d] # t
        BY <3>1, SchedulerAssumption
      <4>2. pc'[d] \in {push, done}
        BY <1>1, <3>1 DEF wakeup, Goto
      <4> QED
        BY <2>2, <4>1, <4>2 DEF Keeps
    <3>2. CASE d # c
      <4>1. pc'[d] = pc[d] /\ target'[d] = target[d]
        BY <1>1, <3>2 DEF wakeup, Goto
      <4> QED
        BY <2>2, <4>1, Zenon DEF Keeps
    <3> QED
      BY <3>1, <3>2
  <2>3. Queued(t) => Queued(t)'
    BY Zenon DEF Queued
  <2> QED
    BY <1>3, <2>1, <2>2, <2>3, Zenon DEF KeptInv
<1>4. ASSUME Runnable(w)' PROVE Keeps(c, w)'
  <2>1. status_block_cnt[w] = 1 /\ ~status_exited[w]
    BY <1>1, <1>2, <1>4 DEF Runnable
  <2>2. target' = [target EXCEPT ![c] = w]
    BY <2>1, Zenon DEF wakeup
  <2> QED
    BY <1>1, <2>2 DEF Keeps
<1> QED
  BY <1>3, <1>4, Zenon DEF KeptInv

(* block: the CPU still answers for its current thread. *)
LEMMA BlockKeeps ==
  ASSUME TypeOK, KeptInv, NEW c \in CPUs, Goto(c, "resched"),
         status_block_cnt' = [status_block_cnt EXCEPT ![current_thread[c]] = @ + 1],
         UNCHANGED <<created, ready_queue, status_exited, current_thread, target>>
  PROVE  KeptInv'
<1>1. /\ pc \in [CPUs -> PCs] /\ status_block_cnt \in [AllThreads -> Int]
      /\ Threads \subseteq AllThreads
  BY DEF TypeOK, AllThreads
<1>2. \A d \in CPUs : pc'[d] \in Left => pc[d] \in Left
  BY <1>1 DEF Goto, Left
<1>3. ASSUME NEW t \in Threads, Runnable(t)' PROVE Queued(t)' \/ \E d \in CPUs : Keeps(d, t)'
  <2>1. CASE t = current_thread[c]
    <3>1. pc'[c] = "resched"
      BY <1>1 DEF Goto
    <3> QED
      BY <2>1, <3>1 DEF Keeps, Left
  <2>2. CASE t # current_thread[c]
    <3>1. Runnable(t)
      BY <1>1, <1>3, <2>2 DEF Runnable
    <3>2. Queued(t) => Queued(t)'
      BY Zenon DEF Queued
    <3>3. \A d \in CPUs : Keeps(d, t) => Keeps(d, t)'
      BY <1>2, Zenon DEF Keeps
    <3> QED
      BY <3>1, <3>2, <3>3, Zenon DEF KeptInv
  <2> QED
    BY <2>1, <2>2
<1> QED
  BY <1>3, Zenon DEF KeptInv

(* The steps that only go on. *)
LEMMA GoingOn ==
  ASSUME NEW c \in CPUs
  PROVE  /\ CheckSleeping(c) => GoesOn(c, "expire")
         /\ ExpireDone(c) => GoesOn(c, "select")
         /\ SwitchContext(c) => GoesOn(c, "run")
         /\ WakeAllEnter(c) => GoesOn(c, "wakeall")
         /\ WakeAllExit(c) => GoesOn(c, "run")
         /\ Preempt(c) => GoesOn(c, "check")
         /\ Resched(c) => GoesOn(c, "check")
         /\ Sleep(c) => GoesOn(c, "sleep")
         /\ SleepPush(c) => GoesOn(c, "block")
<1> USE DEF GoesOn, queueVars, threadVars
<1>1. CheckSleeping(c) => GoesOn(c, "expire")
  BY Zenon DEF CheckSleeping
<1>2. ExpireDone(c) => GoesOn(c, "select")
  BY Zenon DEF ExpireDone
<1>3. SwitchContext(c) => GoesOn(c, "run")
  BY Zenon DEF SwitchContext
<1>4. WakeAllEnter(c) => GoesOn(c, "wakeall")
  BY Zenon DEF WakeAllEnter
<1>5. WakeAllExit(c) => GoesOn(c, "run")
  BY Zenon DEF WakeAllExit
<1>6. Preempt(c) => GoesOn(c, "check")
  BY Zenon DEF Preempt, do_scheduler
<1>7. Resched(c) => GoesOn(c, "check")
  BY Zenon DEF Resched, do_scheduler
<1>8. Sleep(c) => GoesOn(c, "sleep")
  BY Zenon DEF Sleep
<1>9. SleepPush(c) => GoesOn(c, "block")
  BY Zenon DEF SleepPush
<1> QED
  BY <1>1, <1>2, <1>3, <1>4, <1>5, <1>6, <1>7, <1>8, <1>9, Zenon

(* An expired thread is woken. *)
LEMMA ExpireKeeps ==
  ASSUME IInv, NEW c \in CPUs, Expire(c)
  PROVE  KeptInv'
<1>1. UNCHANGED <<created, ready_queue, status_exited, current_thread>>
  BY Zenon DEF Expire
<1>2. TypeOK /\ KeptInv
  BY DEF IInv
<1>3. target[c] = Nobody
  BY DEF IInv, TargetInv, Pushing, Expire
<1>4. PICK i \in Tops : wakeup(c, sleeping_queue[i][2], "push_sleeper", "expire")
  BY Zenon DEF Expire
<1>5. sleeping_queue[i][2] \in Threads
  BY <1>2, TopIsItem
<1>6. "push_sleeper" \notin Left /\ "expire" \notin Left
  BY DEF Left
<1> QED
  BY <1>1, <1>2, <1>3, <1>4, <1>5, <1>6, WakeupKeeps, Zenon

(* What wakeup_one and wakeup_all have in common: the head of the wait      *)
(* queue is removed and woken.                                              *)
Pops(c) ==
  /\ pc[c] \in {"run", "wakeall"}
  /\ wait_queue # <<>> /\ wait_queue' = Tail(wait_queue)
  /\ \/ wakeup(c, Head(wait_queue), "push_one", "run")
     \/ wakeup(c, Head(wait_queue), "push_all", "wakeall")
  /\ UNCHANGED <<created, ready_queue, sleeping_queue, status_exited, status_running,
                 current_thread>>

(* Both wakeups pop a thread of the wait queue. *)
LEMMA WakeupsPop ==
  ASSUME NEW c \in CPUs
  PROVE  (wakeup_one(c) => Pops(c)) /\ (wakeup_all(c) => Pops(c))
<1>1. wakeup_one(c) => Pops(c)
  BY Zenon DEF wakeup_one, Pops, Syscall, InUser
<1>2. wakeup_all(c) => Pops(c)
  BY Zenon DEF wakeup_all, Pops
<1> QED
  BY <1>1, <1>2

(* A thread taken from the wait queue is woken. *)
LEMMA PopKeeps ==
  ASSUME IInv, NEW c \in CPUs, Pops(c)
  PROVE  KeptInv'
<1>1. TypeOK /\ KeptInv
  BY DEF IInv
<1>2. target[c] = Nobody
  BY DEF IInv, TargetInv, Pushing, Pops
<1>3. Head(wait_queue) \in Threads
  BY <1>1 DEF TypeOK, Pops
<1>4. /\ "push_one" \notin Left /\ "run" \notin Left
      /\ "push_all" \notin Left /\ "wakeall" \notin Left
  BY DEF Left
<1> QED
  BY <1>1, <1>2, <1>3, <1>4, WakeupKeeps, Zenon DEF Pops

(* Select queues the thread that gives up the CPU if it is READY; while its *)
(* flag says RUNNING, the CPU that runs it answers for it.                  *)
LEMMA SelectKeeps ==
  ASSUME IInv, NEW c \in CPUs, Select(c)
  PROVE  KeptInv'
<1>1. /\ TypeOK /\ pc \in [CPUs -> PCs] /\ pc[c] = "select" /\ pc' = [pc EXCEPT ![c] = "scan"]
      /\ UNCHANGED <<created, status_exited, status_block_cnt, current_thread, target>>
  BY Zenon DEF IInv, TypeOK, Select, Goto, threadVars
<1>2. \A u \in Threads : Queued(u) => Queued(u)'
  <2>1. CASE ready_queue' = ready_queue
    BY <2>1, Zenon DEF Queued
  <2>2. CASE ready_queue' # ready_queue
    <3>1. current_thread[c] \in Threads \cup {c}
      BY Zenon DEF IInv, TargetInv
    <3>2. current_thread[c] # c /\ ready_queue' = Append(ready_queue, current_thread[c])
      BY <2>2, Zenon DEF Select
    <3> QED
      BY <1>1, <3>1, <3>2, QueuedAppend
  <2> QED
    BY <2>1, <2>2
<1>3. ASSUME NEW t \in Threads, NEW d \in CPUs, Keeps(d, t), d # c PROVE Keeps(d, t)'
  <2>1. pc'[d] = pc[d]
    BY <1>1, <1>3
  <2> QED
    BY <1>1, <1>3, <2>1, Zenon DEF Keeps
<1>4. ASSUME NEW t \in Threads, Runnable(t), Keeps(c, t)
      PROVE  Queued(t)' \/ \E d \in CPUs : Keeps(d, t)'
  <2>1. CASE target[c] = t
    BY <1>1, <2>1, Zenon DEF Keeps
  <2>2. CASE current_thread[c] = t /\ status_running[t]
    <3>1. PICK d \in CPUs : current_thread[d] = t /\ pc[d] \notin Leaving
      BY <2>2, Zenon DEF IInv, RunningInv
    <3>2. d # c /\ Keeps(d, t)
      BY <1>1, <3>1 DEF Keeps, Left, Leaving
    <3> QED
      BY <1>3, <3>2, Zenon
  <2>3. CASE current_thread[c] = t /\ ~status_running[t]
    <3>1. status(t) = "READY" /\ t # c
      BY <1>1, <1>4, <2>3, StatusReady, SchedulerAssumption DEF Runnable, AllThreads
    <3>2. ready_queue' = Append(ready_queue, t)
      BY <2>3, <3>1, Zenon DEF Select
    <3> QED
      BY <1>1, <3>2, QueuedAppend
  <2> QED
    BY <1>4, <2>1, <2>2, <2>3, Zenon DEF Keeps
<1>5. \A t \in Threads : Runnable(t)' => Runnable(t)
  BY <1>1, Zenon DEF Runnable
<1> QED
  BY <1>2, <1>3, <1>4, <1>5, Zenon DEF IInv, KeptInv

(* The scan begins without a target. *)
LEMMA ScanHasNoTarget ==
  ASSUME IInv, NEW c \in CPUs, pc[c] = "scan"
  PROVE  target[c] = Nobody
<1>1. pc[c] \notin Pushing \cup {"assign", "mark"}
  BY DEF Pushing
<1> QED
  BY <1>1, Zenon DEF IInv, TargetInv

(* The scan drops a thread that is not READY: if it is runnable, a CPU that *)
(* runs it answers for it.                                                  *)
LEMMA ScanEraseKeeps ==
  ASSUME IInv, NEW c \in CPUs, ScanErase(c)
  PROVE  KeptInv'
<1>1. /\ TypeOK /\ ready_queue \in Seq(Threads)
      /\ UNCHANGED <<created, status_exited, status_block_cnt, current_thread, pc, target>>
  BY Zenon DEF IInv, TypeOK, ScanErase, threadVars
<1>2. /\ it[c] \in 1..Len(ready_queue) /\ ready_queue' = Erase(ready_queue, it[c])
      /\ status(ready_queue[it[c]]) # "READY"
  <2>1. it \in [CPUs -> Nat] /\ (pc[c] = "scan" => it[c] >= 1)
    BY Zenon DEF IInv, TypeOK, TargetInv
  <2>2. /\ pc[c] = "scan" /\ it[c] <= Len(ready_queue)
        /\ ready_queue' = Erase(ready_queue, it[c]) /\ status(ready_queue[it[c]]) # "READY"
    BY Zenon DEF ScanErase
  <2>3. Len(ready_queue) \in Nat /\ it[c] \in Nat
    BY <1>1, <2>1
  <2> QED
    BY <2>1, <2>2, <2>3
<1>3. ASSUME NEW t \in Threads, Runnable(t)' PROVE Queued(t)' \/ \E d \in CPUs : Keeps(d, t)'
  <2>1. Runnable(t) /\ \A d \in CPUs : Keeps(d, t) => Keeps(d, t)'
    BY <1>1, <1>3, Zenon DEF Runnable, Keeps
  <2>2. CASE t # ready_queue[it[c]]
    <3>1. Queued(t) => Queued(t)'
      BY <1>1, <1>2, <2>2, QueuedRemove
    <3> QED
      BY <2>1, <3>1, Zenon DEF IInv, KeptInv
  <2>3. CASE t = ready_queue[it[c]]
    <3>1. status_running[t]
      BY <1>1, <1>2, <2>1, <2>3, StatusReady, Zenon DEF Runnable, AllThreads
    <3>2. PICK d \in CPUs : current_thread[d] = t /\ pc[d] \notin Leaving
      BY <3>1, Zenon DEF IInv, RunningInv
    <3>3. Keeps(d, t)
      BY <3>2 DEF Keeps, Left, Leaving
    <3> QED
      BY <2>1, <3>3, Zenon
  <2> QED
    BY <2>2, <2>3
<1> QED
  BY <1>3, Zenon DEF KeptInv

(* The scan takes a thread from the queue: it is the target of the CPU. *)
LEMMA ScanPickKeeps ==
  ASSUME IInv, NEW c \in CPUs, ScanPick(c)
  PROVE  KeptInv'
<1>1. /\ TypeOK /\ pc \in [CPUs -> PCs] /\ target \in [CPUs -> AllThreads \cup {Nobody}]
      /\ pc[c] = "scan" /\ pc' = [pc EXCEPT ![c] = "assign"]
      /\ target' = [target EXCEPT ![c] = ready_queue[it[c]]]
      /\ UNCHANGED <<created, status_exited, status_block_cnt, current_thread>>
  BY Zenon DEF IInv, TypeOK, ScanPick, Chosen, Goto, threadVars
<1>2. it[c] \in 1..Len(ready_queue) /\ ready_queue' = Erase(ready_queue, it[c])
  <2>1. it \in [CPUs -> Nat] /\ ready_queue \in Seq(Threads) /\ (pc[c] = "scan" => it[c] >= 1)
    BY Zenon DEF IInv, TypeOK, TargetInv
  <2>2. /\ pc[c] = "scan" /\ it[c] <= Len(ready_queue)
        /\ ready_queue' = Erase(ready_queue, it[c])
    BY Zenon DEF ScanPick
  <2>3. Len(ready_queue) \in Nat /\ it[c] \in Nat
    BY <2>1
  <2> QED
    BY <2>1, <2>2, <2>3
<1>3. target[c] = Nobody
  BY <1>1, ScanHasNoTarget
<1>4. ASSUME NEW t \in Threads, Runnable(t)' PROVE Queued(t)' \/ \E d \in CPUs : Keeps(d, t)'
  <2>1. CASE t = ready_queue[it[c]]
    <3>1. target'[c] = t
      BY <1>1, <2>1, Zenon
    <3> QED
      BY <3>1, Zenon DEF Keeps
  <2>2. CASE t # ready_queue[it[c]]
    <3>1. Queued(t) => Queued(t)'
      BY <1>1, <1>2, <2>2, QueuedRemove, Zenon
    <3>2. ASSUME NEW d \in CPUs, Keeps(d, t) PROVE Keeps(d, t)'
      <4>1. d # c
        BY <1>1, <1>3, <3>2, SchedulerAssumption, Zenon DEF Keeps, Left
      <4>2. pc'[d] = pc[d] /\ target'[d] = target[d]
        BY <1>1, <4>1, Zenon
      <4> QED
        BY <1>1, <3>2, <4>2, Zenon DEF Keeps
    <3>3. Runnable(t)
      BY <1>1, <1>4, Zenon DEF Runnable
    <3> QED
      BY <3>1, <3>2, <3>3, Zenon DEF IInv, KeptInv
  <2> QED
    BY <2>1, <2>2, Zenon
<1> QED
  BY <1>4, Zenon DEF KeptInv

(* The switch to the chosen thread is calm: what the CPU has chosen is its  *)
(* target until it is its current thread.                                   *)
LEMMA IdleIsCalm ==
  ASSUME IInv, NEW c \in CPUs, ScanIdle(c)
  PROVE  Calm
<1>1. pc \in [CPUs -> PCs] /\ target \in [CPUs -> AllThreads \cup {Nobody}]
  BY Zenon DEF IInv, TypeOK
<1>2. /\ UNCHANGED <<created, ready_queue, status_exited, status_block_cnt, current_thread>>
      /\ pc[c] = "scan"
  BY Zenon DEF ScanIdle, Chosen, threadVars
<1>3. \A d \in CPUs : d # c => target'[d] = target[d] /\ pc'[d] = pc[d]
  BY <1>1, Zenon DEF ScanIdle, Chosen, Goto
<1>4. target[c] = Nobody
  BY <1>2, ScanHasNoTarget, Zenon
<1>5. \A t \in Threads : ~Keeps(c, t)
  BY <1>2, <1>4, SchedulerAssumption, Zenon DEF Keeps, Left
<1> QED
  BY <1>2, <1>3, <1>5, Zenon DEF Calm, Keeps

(* Becoming the current thread loses nobody, *)
LEMMA AssignIsCalm ==
  ASSUME IInv, NEW c \in CPUs, Assign(c)
  PROVE  Calm
<1>1. pc \in [CPUs -> PCs] /\ current_thread \in [CPUs -> AllThreads]
  BY Zenon DEF IInv, TypeOK
<1>2. /\ UNCHANGED <<created, ready_queue, status_exited, status_block_cnt, target>>
      /\ pc[c] = "assign"
  BY Zenon DEF Assign, queueVars
<1>3. \A d \in CPUs : d # c => current_thread'[d] = current_thread[d] /\ pc'[d] = pc[d]
  BY <1>1, Zenon DEF Assign, Goto
<1>4. \A t \in Threads : Keeps(c, t) => target[c] = t
  BY <1>2, Zenon DEF Keeps, Left
<1> QED
  BY <1>2, <1>3, <1>4, Zenon DEF Calm, Keeps

(* ... nor does being marked RUNNING. *)
LEMMA MarkIsCalm ==
  ASSUME IInv, NEW c \in CPUs, Mark(c)
  PROVE  Calm
<1>1. pc \in [CPUs -> PCs] /\ target \in [CPUs -> AllThreads \cup {Nobody}]
  BY Zenon DEF IInv, TypeOK
<1>2. UNCHANGED <<created, ready_queue, status_exited, status_block_cnt, current_thread>>
  BY Zenon DEF Mark, queueVars
<1>3. \A d \in CPUs : d # c => target'[d] = target[d] /\ pc'[d] = pc[d]
  BY <1>1, Zenon DEF Mark, Goto
<1>4. target[c] = current_thread[c]
  BY Zenon DEF Mark, IInv, TargetInv
<1>5. pc'[c] \notin Left
  BY <1>1, Zenon DEF Mark, Goto, Left
<1> QED
  BY <1>2, <1>3, <1>4, <1>5, Zenon DEF Calm, Keeps

(* add_ready_thread queues the target. *)
LEMMA AddReadyThreadKeeps ==
  ASSUME IInv, NEW c \in CPUs, AddReadyThread(c)
  PROVE  KeptInv'
<1>1. /\ TypeOK /\ pc \in [CPUs -> PCs] /\ target \in [CPUs -> AllThreads \cup {Nobody}]
      /\ target' = [target EXCEPT ![c] = Nobody]
      /\ UNCHANGED <<created, status_exited, status_block_cnt, current_thread>>
  BY Zenon DEF IInv, TypeOK, AddReadyThread, threadVars
<1>2. target[c] \in Threads /\ ready_queue' = Append(ready_queue, target[c])
  BY Zenon DEF IInv, TargetInv, Pushing, AddReadyThread
<1>3. \A t \in Threads : /\ t = target[c] => Queued(t)'
                         /\ Queued(t) => Queued(t)'
  <2>1. PICK u \in Threads : u = target[c] /\ ready_queue' = Append(ready_queue, u)
    BY <1>2, Zenon
  <2>2. Queued(u)' /\ \A t \in Threads : Queued(t) => Queued(t)'
    BY <1>1, <2>1, QueuedAppend, Zenon
  <2> QED
    BY <2>1, <2>2, Zenon
<1>4. pc'[c] \notin Left /\ \A d \in CPUs : d # c => pc'[d] = pc[d] /\ target'[d] = target[d]
  BY <1>1, Zenon DEF AddReadyThread, Goto, Left
<1>5. ASSUME NEW t \in Threads, NEW d \in CPUs, Keeps(d, t) PROVE Queued(t)' \/ Keeps(d, t)'
  <2>1. CASE d = c /\ t = target[c]
    BY <1>3, <2>1, Zenon
  <2>2. CASE ~(d = c /\ t = target[c])
    BY <1>1, <1>4, <1>5, <2>2, Zenon DEF Keeps
  <2> QED
    BY <2>1, <2>2, Zenon
<1>6. \A t \in Threads : Runnable(t)' => Runnable(t)
  BY <1>1, Zenon DEF Runnable
<1> QED
  BY <1>3, <1>5, <1>6, Zenon DEF IInv, KeptInv

(* A new thread is the target of the CPU that creates it. *)
LEMMA SpawnKeeps ==
  ASSUME IInv, NEW c \in CPUs, Spawn(c)
  PROVE  KeptInv'
<1>1. PICK u \in Threads \ created :
        created' = created \cup {u} /\ target' = [target EXCEPT ![c] = u]
  BY Zenon DEF Spawn
<1>2. /\ pc \in [CPUs -> PCs] /\ target \in [CPUs -> AllThreads \cup {Nobody}]
      /\ pc' = [pc EXCEPT ![c] = "push_new"]
      /\ UNCHANGED <<ready_queue, status_exited, status_block_cnt, current_thread>>
  BY Zenon DEF IInv, TypeOK, Spawn, Goto, queueVars, threadVars
<1>3. target[c] = Nobody
  BY Zenon DEF IInv, TargetInv, Pushing, Spawn, Syscall, InUser
<1>4. ASSUME NEW t \in Threads, NEW d \in CPUs, Keeps(d, t) PROVE Keeps(d, t)'
  <2>1. CASE d = c
    <3>1. pc'[c] \notin Left /\ target[c] # t
      BY <1>2, <1>3, SchedulerAssumption, Zenon DEF Left
    <3> QED
      BY <1>2, <1>4, <2>1, <3>1, Zenon DEF Keeps
  <2>2. CASE d # c
    <3>1. pc'[d] = pc[d] /\ target'[d] = target[d]
      BY <1>1, <1>2, <2>2, Zenon
    <3> QED
      BY <1>2, <1>4, <3>1, Zenon DEF Keeps
  <2> QED
    BY <2>1, <2>2, Zenon
<1>5. Keeps(c, u)'
  <2>1. target'[c] = u
    BY <1>1, <1>2, Zenon
  <2> QED
    BY <2>1, Zenon DEF Keeps
<1>6. \A t \in Threads : Runnable(t)' /\ t # u => Runnable(t)
  BY <1>1, <1>2, Zenon DEF Runnable
<1>7. \A t \in Threads : Queued(t) => Queued(t)'
  BY <1>2, Zenon DEF Queued
<1> QED
  BY <1>4, <1>5, <1>6, <1>7, Zenon DEF IInv, KeptInv

(* exit makes nothing runnable, and a CPU that leaves a thread comes to     *)
(* Select.                                                                  *)
LEMMA ExitKeeps ==
  ASSUME IInv, NEW c \in CPUs, Exit(c)
  PROVE  KeptInv'
<1>1. UNCHANGED <<created, ready_queue, status_block_cnt, current_thread, target>>
  BY Zenon DEF Exit, queueVars
<1>2. PICK u \in created : /\ status_exited' = [status_exited EXCEPT ![u] = TRUE]
                           /\ pc' = pc \/ pc' = [pc EXCEPT ![c] = "check"]
  BY ExitCases, Zenon
<1>3. /\ pc \in [CPUs -> PCs] /\ status_exited \in [AllThreads -> BOOLEAN]
      /\ Threads \subseteq AllThreads
  BY Zenon DEF IInv, TypeOK, AllThreads
<1>4. \A t \in Threads : Runnable(t)' => Runnable(t)
  BY <1>1, <1>2, <1>3, Zenon DEF Runnable
<1>5. \A d \in CPUs : pc'[d] \in Left => pc[d] \in Left
  BY <1>2, <1>3, Zenon DEF Left
<1>6. \A t \in Threads : Queued(t) => Queued(t)'
  BY <1>1, Zenon DEF Queued
<1>7. \A t \in Threads, d \in CPUs : Keeps(d, t) => Keeps(d, t)'
  BY <1>1, <1>5, Zenon DEF Keeps
<1> QED
  BY <1>4, <1>6, <1>7, Zenon DEF IInv, KeptInv

(* Every step keeps every runnable thread. *)
LEMMA KeptStep == IInv /\ [Next]_vars => KeptInv'
<1> SUFFICES ASSUME IInv PROVE [Next]_vars => KeptInv'
  OBVIOUS
<1>1. TypeOK /\ KeptInv
  BY Zenon DEF IInv
<1>2. ASSUME NEW c \in CPUs, NEW label, label \notin Left, GoesOn(c, label) PROVE KeptInv'
  BY <1>1, <1>2, GoingOnIsCalm, CalmKeeps, Zenon
<1>3. ASSUME NEW c \in CPUs,
             \/ CheckSleeping(c) \/ ExpireDone(c) \/ SwitchContext(c) \/ WakeAllEnter(c)
             \/ WakeAllExit(c) \/ Preempt(c) \/ Resched(c) \/ Sleep(c) \/ SleepPush(c)
      PROVE  KeptInv'
  <2>1. \A label \in {"expire", "select", "run", "wakeall", "check", "sleep", "block"} :
          label \notin Left
    BY Zenon DEF Left
  <2> QED
    BY <1>2, <1>3, <2>1, GoingOn, Zenon
<1>4. ASSUME NEW c \in CPUs, SleepBlock(c) \/ do_block(c) PROVE KeptInv'
  <2>1. /\ Goto(c, "resched")
        /\ status_block_cnt' = [status_block_cnt EXCEPT ![current_thread[c]] = @ + 1]
        /\ UNCHANGED <<created, ready_queue, status_exited, current_thread, target>>
    BY <1>4, Zenon DEF SleepBlock, do_block, queueVars
  <2> QED
    BY <1>1, <2>1, BlockKeeps, Zenon
<1>5. ASSUME NEW c \in CPUs, ScanIdle(c) \/ Assign(c) \/ Mark(c) PROVE KeptInv'
  BY <1>1, <1>5, IdleIsCalm, AssignIsCalm, MarkIsCalm, CalmKeeps, Zenon
<1>6. ASSUME UNCHANGED <<created, queueVars, threadVars, cpuVars>> PROVE KeptInv'
  <2>1. Calm
    BY <1>6, Zenon DEF Calm, Keeps, queueVars, threadVars, cpuVars
  <2> QED
    BY <1>1, <2>1, CalmKeeps, Zenon
<1>7. ASSUME NEW c \in CPUs, ScanSkip(c) PROVE KeptInv'
  <2>1. Calm
    BY <1>7, Zenon DEF ScanSkip, Calm, Keeps, queueVars, threadVars
  <2> QED
    BY <1>1, <2>1, CalmKeeps, Zenon
<1>8. ASSUME Tick \/ UNCHANGED vars \/ \E c \in CPUs : TaskSet(c) PROVE KeptInv'
  BY <1>6, <1>8, Zenon DEF Tick, TaskSet, vars
<1> QED
  BY <1>3, <1>4, <1>5, <1>7, <1>8, ExpireKeeps, WakeupsPop, PopKeeps, SelectKeeps, ScanEraseKeeps, ScanPickKeeps,
     AddReadyThreadKeeps, SpawnKeeps, ExitKeeps, Zenon DEF Next, KernelStep, TrapStep

(* The inductive invariant holds in every reachable state. *)
THEOREM Invariance == Spec => []IInv
<1>1. IInv /\ [Next]_vars => IInv'
  BY TypeStep, TargetStep, RunningStep, KeptStep, Zenon DEF IInv
<1>2. QED
  BY InitIInv, <1>1, PTL DEF Spec

(* Type correctness: the variables of the scheduler keep their types. *)
THEOREM TypeCorrect == Spec => []TypeOK
<1>1. IInv => TypeOK
  BY Zenon DEF IInv
<1>2. QED
  BY Invariance, <1>1, PTL

(* However many CPUs run do_scheduler, wakeup and exit concurrently, no     *)
(* runnable thread is dropped: it is queued, or some CPU will deal with it.    *)
THEOREM NoThreadIsLost == Spec => []NoLostThread
<1>1. IInv => NoLostThread
  <2> SUFFICES ASSUME IInv, NEW t \in Threads, Runnable(t)
               PROVE  \/ \E i \in DOMAIN ready_queue : ready_queue[i] = t
                      \/ \E c \in CPUs :
                           \/ target[c] = t
                           \/ current_thread[c] = t /\ pc[c] \notin {"scan", "assign"}
    BY Zenon DEF NoLostThread
  <2>1. Queued(t) \/ \E c \in CPUs : Keeps(c, t)
    BY Zenon DEF IInv, KeptInv
  <2>2. ready_queue \in Seq(Threads)
    BY Zenon DEF IInv, TypeOK
  <2>3. QED
    BY <2>1, <2>2 DEF Queued, Keeps, Left
<1>2. QED
  BY Invariance, <1>1, PTL

-----------------------------------------------------------------------------
(* How many items of a queue are in X; the CPUs that have queued t for      *)
(* sleep and have still to execute its block().                             *)
Count(q, X) == Cardinality({i \in DOMAIN q : q[i] \in X})
One(x, X) == IF x \in X THEN 1 ELSE 0
Items(t) == (0..MaxTime) \X {t}
Blocking(t) == {c \in CPUs : pc[c] = "block" /\ current_thread[c] = t}

Waits(t) == Count(wait_queue, {t})
Sleeps(t) == Count(sleeping_queue, Items(t))
Blocks(t) == Cardinality(Blocking(t))

(* The block count of a thread is the balance of its queue entries and of   *)
(* the blocks to come.                                                      *)
Balanced(t) == status_block_cnt[t] = (Waits(t) + Sleeps(t)) - Blocks(t)
Balance == \A t \in Threads : Balanced(t)

(* What counting rests on; CountingHolds takes it from the library.  The    *)
(* lemmas that count assume it, so that the library's theorems stay out of  *)
(* their proof obligations.                                                 *)
Counting ==
  /\ \A n \in Nat : \A T \in SUBSET (1..n) : IsFiniteSet(T)
  /\ \A T \in SUBSET CPUs : IsFiniteSet(T)
  /\ \A S : IsFiniteSet(S) => Cardinality(S) \in Nat /\ (Cardinality(S) = 0 <=> S = {})
  /\ \A S, x : IsFiniteSet(S) /\ x \notin S => Cardinality(S \cup {x}) = Cardinality(S) + 1
  /\ \A S, x : IsFiniteSet(S) /\ x \in S => Cardinality(S \ {x}) = Cardinality(S) - 1
  /\ \A S, T, f : /\ IsFiniteSet(S)
                  /\ f \in [S -> T]
                  /\ \A x, y \in S : f[x] = f[y] => x = y
                  /\ \A y \in T : \E x \in S : f[x] = y
                  => Cardinality(T) = Cardinality(S)

(* The items of a queue that are in X are finitely many. *)
LEMMA CountType ==
  ASSUME Counting, NEW S, NEW q \in Seq(S), NEW X
  PROVE  /\ IsFiniteSet({i \in DOMAIN q : q[i] \in X})
         /\ Count(q, X) \in Nat
<1>1. {i \in DOMAIN q : q[i] \in X} \in SUBSET (1..Len(q)) /\ Len(q) \in Nat
  OBVIOUS
<1>2. IsFiniteSet({i \in DOMAIN q : q[i] \in X})
  BY <1>1, Zenon DEF Counting
<1> QED
  BY <1>2, Zenon DEF Counting, Count

(* push_back of an item. *)
LEMMA PushCount ==
  ASSUME Counting, NEW S, NEW q \in Seq(S), NEW e \in S, NEW X
  PROVE  Count(Append(q, e), X) = Count(q, X) + One(e, X)
<1> DEFINE A == {i \in DOMAIN q : q[i] \in X}
           B == {i \in DOMAIN Append(q, e) : Append(q, e)[i] \in X}
<1>1. Len(q) + 1 \notin A
  OBVIOUS
<1>2. B = IF e \in X THEN A \cup {Len(q) + 1} ELSE A
  OBVIOUS
<1>3. IsFiniteSet(A) /\ Cardinality(A) \in Nat
  BY CountType, Zenon DEF Count
<1>4. Cardinality(A \cup {Len(q) + 1}) = Cardinality(A) + 1
  <2> HIDE DEF A
  <2> QED BY <1>1, <1>3, Zenon DEF Counting
<1>5. Count(q, X) = Cardinality(A) /\ Count(Append(q, e), X) = Cardinality(B)
  BY Zenon DEF Count
<1> HIDE DEF A, B
<1> QED
  BY <1>2, <1>3, <1>4, <1>5 DEF One

(* A one-to-one map keeps the number of elements. *)
LEMMA EqualCount ==
  ASSUME Counting, NEW S, NEW T, NEW f \in [S -> T], IsFiniteSet(S),
         \A x, y \in S : f[x] = f[y] => x = y,
         \A y \in T : \E x \in S : f[x] = y
  PROVE  Cardinality(T) = Cardinality(S)
BY DEF Counting

(* q without the item at position n, however it is written. *)
Without(q, r, n) ==
  /\ Len(r) = Len(q) - 1
  /\ \A i \in 1..(Len(q) - 1) : (i < n => r[i] = q[i]) /\ (i >= n => r[i] = q[i + 1])

(* ... and the removal of one. *)
LEMMA DropCount ==
  ASSUME Counting, NEW S, NEW q \in Seq(S), NEW r \in Seq(S), NEW n \in 1..Len(q), NEW X,
         Without(q, r, n)
  PROVE  Count(r, X) = Count(q, X) - One(q[n], X)
<1> DEFINE A == {i \in DOMAIN q : q[i] \in X}
           B == {i \in DOMAIN r : r[i] \in X}
           f == [i \in B |-> IF i < n THEN i ELSE i + 1]
<1>1. IsFiniteSet(A) /\ IsFiniteSet(B) /\ Cardinality(A) \in Nat
  BY CountType, Zenon DEF Count
<1>2. f \in [B -> A \ {n}]
  BY DEF Without
<1>3. \A x, y \in B : f[x] = f[y] => x = y
  OBVIOUS
<1>4. \A y \in A \ {n} : \E x \in B : f[x] = y
  <2> TAKE y \in A \ {n}
  <2>1. CASE y < n
    <3>1. y \in B /\ f[y] = y
      BY <2>1 DEF Without
    <3> QED BY <3>1
  <2>2. CASE ~(y < n)
    <3>1. y - 1 \in B /\ f[y - 1] = y
      BY <2>2 DEF Without
    <3> QED BY <3>1
  <2> QED BY <2>1, <2>2
<1>5. Cardinality(A \ {n}) = Cardinality(B)
  <2> HIDE DEF A, B, f
  <2> QED BY <1>1, <1>2, <1>3, <1>4, EqualCount, Zenon
<1>6. n \in A <=> q[n] \in X
  OBVIOUS
<1>7. Count(q, X) = Cardinality(A) /\ Count(r, X) = Cardinality(B)
  BY Zenon DEF Count
<1>8. n \in A => Cardinality(A \ {n}) = Cardinality(A) - 1
  <2> HIDE DEF A
  <2> QED BY <1>1, Zenon DEF Counting
<1> HIDE DEF A, B, f
<1>9. CASE n \in A
  BY <1>1, <1>5, <1>6, <1>7, <1>8, <1>9, Zenon DEF One
<1>10. CASE n \notin A
  <2>1. A \ {n} = A
    BY <1>10, Zenon
  <2>2. Cardinality(B) = Cardinality(A)
    BY <1>5, <2>1, Zenon
  <2> QED BY <1>1, <1>6, <1>7, <1>10, <2>2 DEF One
<1> QED
  BY <1>9, <1>10, Zenon

(* pop_front and erase remove one item. *)
LEMMA PopCount ==
  ASSUME Counting, NEW S, NEW q \in Seq(S), q # <<>>, NEW X
  PROVE  Count(Tail(q), X) = Count(q, X) - One(Head(q), X)
<1>1. Tail(q) \in Seq(S) /\ 1 \in 1..Len(q) /\ q[1] = Head(q)
  OBVIOUS
<1>2. Without(q, Tail(q), 1)
  BY DEF Without
<1>3. Count(Tail(q), X) = Count(q, X) - One(q[1], X)
  BY <1>1, <1>2, DropCount, Zenon
<1> QED
  BY <1>1, <1>3, Zenon

(* erase removes the item at n. *)
LEMMA EraseCount ==
  ASSUME Counting, NEW S, NEW q \in Seq(S), NEW n \in 1..Len(q), NEW X
  PROVE  Count(Erase(q, n), X) = Count(q, X) - One(q[n], X)
<1>1. /\ Erase(q, n) \in Seq(S) /\ Len(Erase(q, n)) = Len(q) - 1
      /\ \A i \in 1..(Len(q) - 1) :
           (i < n => Erase(q, n)[i] = q[i]) /\ (i >= n => Erase(q, n)[i] = q[i + 1])
  BY EraseProperties, Zenon
<1>2. Without(q, Erase(q, n), n)
  BY <1>1, Zenon DEF Without
<1>3. Erase(q, n) \in Seq(S)
  BY <1>1, Zenon
<1> QED
  BY <1>2, <1>3, DropCount, Zenon

(* The property in these terms. *)
LEMMA BalanceIsCount ==
  ASSUME TypeOK
  PROVE  BlockCountIsPendingWakeups <=> Balance
<1>1. ASSUME NEW t \in Threads PROVE Occurrences(t) = Waits(t) + Sleeps(t)
  <2>1. {i \in DOMAIN wait_queue : wait_queue[i] = t} = {i \in DOMAIN wait_queue : wait_queue[i] \in {t}}
    OBVIOUS
  <2>2. {i \in DOMAIN sleeping_queue : sleeping_queue[i][2] = t} =
          {i \in DOMAIN sleeping_queue : sleeping_queue[i] \in Items(t)}
    BY DEF TypeOK, Items
  <2> QED
    BY <2>1, <2>2, Zenon DEF Occurrences, Count, Waits, Sleeps
<1>2. BlockCountIsPendingWakeups <=>
        \A t \in Threads : status_block_cnt[t] = Occurrences(t) - Blocks(t)
  BY Zenon DEF BlockCountIsPendingWakeups, Blocking, Blocks
<1> QED
  BY <1>1, <1>2, Zenon DEF Balance, Balanced

(* Only finitely many CPUs are about to block a thread. *)
LEMMA BlockingIsFinite ==
  ASSUME Counting, NEW t \in Threads
  PROVE  IsFiniteSet(Blocking(t))
<1>1. Blocking(t) \in SUBSET CPUs
  BY Zenon DEF Blocking
<1> QED
  BY <1>1, Zenon DEF Counting

(* The three numbers are numbers. *)
LEMMA BalanceTypes ==
  ASSUME Counting, TypeOK, NEW t \in Threads
  PROVE  Waits(t) \in Nat /\ Sleeps(t) \in Nat /\ Blocks(t) \in Nat
<1>1. wait_queue \in Seq(Threads) /\ sleeping_queue \in Seq((0..MaxTime) \X Threads)
  BY Zenon DEF TypeOK
<1> QED
  BY <1>1, CountType, BlockingIsFinite, Zenon DEF Counting, Waits, Sleeps, Blocks
-----------------------------------------------------------------------------
(* A step in which no CPU is, or comes, between the push of sleep and its   *)
(* block.                                                                   *)
LEMMA SameBlocks ==
  ASSUME NEW c \in CPUs, pc[c] # "block", pc'[c] # "block",
         \A d \in CPUs : d # c => pc'[d] = pc[d] /\ current_thread'[d] = current_thread[d]
  PROVE  \A t \in Threads : Blocks(t)' = Blocks(t)
<1>1. \A t \in Threads : Blocking(t)' = Blocking(t)
  BY Zenon DEF Blocking
<1> QED
  BY <1>1, Zenon DEF Blocks

(* If it leaves the queues and the counts alone, too, it keeps the balance. *)
LEMMA QuietBalance ==
  ASSUME Balance, UNCHANGED <<status_block_cnt, wait_queue, sleeping_queue>>,
         \A t \in Threads : Blocks(t)' = Blocks(t)
  PROVE  Balance'
<1>1. \A t \in Threads : Waits(t)' = Waits(t) /\ Sleeps(t)' = Sleeps(t)
  BY Zenon DEF Waits, Sleeps, Items
<1> QED
  BY <1>1, Zenon DEF Balance, Balanced

(* The numbers of one thread move together, by n. *)
LEMMA MoveTogether ==
  ASSUME Counting, TypeOK, Balance, NEW t \in Threads, NEW n \in Int,
         status_block_cnt'[t] = status_block_cnt[t] + n,
         \/ Waits(t)' = Waits(t) + n /\ Sleeps(t)' = Sleeps(t) /\ Blocks(t)' = Blocks(t)
         \/ Waits(t)' = Waits(t) /\ Sleeps(t)' = Sleeps(t) + n /\ Blocks(t)' = Blocks(t)
         \/ Waits(t)' = Waits(t) /\ Sleeps(t)' = Sleeps(t) /\ Blocks(t)' = Blocks(t) - n
  PROVE  Balanced(t)'
<1>1. Waits(t) \in Nat /\ Sleeps(t) \in Nat /\ Blocks(t) \in Nat
  BY BalanceTypes, Zenon
<1>2. status_block_cnt[t] = (Waits(t) + Sleeps(t)) - Blocks(t)
  BY Zenon DEF Balance, Balanced
<1> QED
  BY <1>1, <1>2 DEF Balanced

(* pop and wakeup. *)
LEMMA WakeBalance ==
  ASSUME Counting, TypeOK, Balance, wait_queue # <<>>, wait_queue' = Tail(wait_queue),
         status_block_cnt' = [status_block_cnt EXCEPT ![Head(wait_queue)] = @ - 1],
         sleeping_queue' = sleeping_queue, \A t \in Threads : Blocks(t)' = Blocks(t)
  PROVE  Balance'
<1>1. wait_queue \in Seq(Threads) /\ status_block_cnt \in [AllThreads -> Int]
  BY Zenon DEF TypeOK
<1>2. PICK w \in Threads : w = Head(wait_queue)
  BY <1>1
<1>3. ASSUME NEW t \in Threads PROVE Balanced(t)'
  <2>1. Waits(t)' = Waits(t) - One(w, {t})
    BY <1>1, <1>2, PopCount, Zenon DEF Waits
  <2>2. Sleeps(t)' = Sleeps(t)
    BY Zenon DEF Sleeps, Items
  <2>3. status_block_cnt'[t] = status_block_cnt[t] - One(w, {t})
    BY <1>1, <1>2 DEF AllThreads, One
  <2>4. Waits(t) \in Nat /\ status_block_cnt[t] \in Int
    BY <1>1, BalanceTypes, Zenon DEF AllThreads
  <2>5. PICK n \in Int : n = - One(w, {t})
    BY DEF One
  <2>6. Waits(t)' = Waits(t) + n /\ status_block_cnt'[t] = status_block_cnt[t] + n
    BY <2>1, <2>3, <2>4, <2>5 DEF One
  <2> QED
    BY <2>2, <2>6, MoveTogether, Zenon
<1> QED
  BY <1>3, Zenon DEF Balance

(* The top of the heap is removed and its thread woken. *)
LEMMA ExpireBalance ==
  ASSUME Counting, TypeOK, Balance, NEW i \in DOMAIN sleeping_queue,
         sleeping_queue' = Erase(sleeping_queue, i),
         status_block_cnt' = [status_block_cnt EXCEPT ![sleeping_queue[i][2]] = @ - 1],
         wait_queue' = wait_queue, \A t \in Threads : Blocks(t)' = Blocks(t)
  PROVE  Balance'
<1>1. sleeping_queue \in Seq((0..MaxTime) \X Threads) /\ status_block_cnt \in [AllThreads -> Int]
  BY Zenon DEF TypeOK
<1>2. i \in 1..Len(sleeping_queue)
  BY <1>1
<1>3. PICK e \in (0..MaxTime) \X Threads : e = sleeping_queue[i]
  BY <1>1, <1>2
<1>4. ASSUME NEW t \in Threads PROVE Balanced(t)'
  <2>1. Sleeps(t)' = Sleeps(t) - One(e, Items(t))
    <3>1. Sleeps(t) = Count(sleeping_queue, Items(t)) /\ Sleeps(t)' = Count(sleeping_queue', Items(t))
      BY Zenon DEF Sleeps, Items
    <3>2. \A X : Count(Erase(sleeping_queue, i), X) =
                  Count(sleeping_queue, X) - One(sleeping_queue[i], X)
      BY <1>1, <1>2, EraseCount, Zenon
    <3> QED
      BY <1>3, <3>1, <3>2, Zenon
  <2>2. Waits(t)' = Waits(t)
    BY Zenon DEF Waits
  <2>3. status_block_cnt'[t] = status_block_cnt[t] - One(e, Items(t))
    <3>1. e[2] \in Threads /\ (e \in Items(t) <=> e[2] = t)
      BY Zenon DEF Items
    <3> QED
      BY <1>1, <1>3, <3>1 DEF AllThreads, One
  <2>4. Sleeps(t) \in Nat /\ status_block_cnt[t] \in Int
    BY <1>1, BalanceTypes, Zenon DEF AllThreads
  <2>5. PICK n \in Int : n = - One(e, Items(t))
    BY DEF One
  <2>6. Sleeps(t)' = Sleeps(t) + n /\ status_block_cnt'[t] = status_block_cnt[t] + n
    BY <2>1, <2>3, <2>4, <2>5 DEF One
  <2> QED
    BY <2>2, <2>6, MoveTogether, Zenon
<1> QED
  BY <1>4, Zenon DEF Balance

(* push and block. *)
LEMMA BlockBalance ==
  ASSUME Counting, TypeOK, Balance, NEW u \in Threads, wait_queue' = Append(wait_queue, u),
         status_block_cnt' = [status_block_cnt EXCEPT ![u] = @ + 1],
         sleeping_queue' = sleeping_queue, \A t \in Threads : Blocks(t)' = Blocks(t)
  PROVE  Balance'
<1>1. wait_queue \in Seq(Threads) /\ status_block_cnt \in [AllThreads -> Int]
  BY Zenon DEF TypeOK
<1>2. ASSUME NEW t \in Threads PROVE Balanced(t)'
  <2>1. Waits(t)' = Waits(t) + One(u, {t})
    BY <1>1, PushCount, Zenon DEF Waits
  <2>2. Sleeps(t)' = Sleeps(t)
    BY Zenon DEF Sleeps, Items
  <2>3. status_block_cnt'[t] = status_block_cnt[t] + One(u, {t})
    BY <1>1 DEF AllThreads, One
  <2>4. PICK n \in Int : n = One(u, {t})
    BY DEF One
  <2> QED
    BY <2>1, <2>2, <2>3, <2>4, MoveTogether, Zenon
<1> QED
  BY <1>2, Zenon DEF Balance

(* The push of sleep leaves a block to come ... *)
LEMMA SleepPushBalance ==
  ASSUME Counting, TypeOK, Balance, NEW c \in CPUs, NEW u \in Threads, u = current_thread[c],
         SleepPush(c)
  PROVE  Balance'
<1>1. /\ sleeping_queue \in Seq((0..MaxTime) \X Threads) /\ current_time[c] \in 0..MaxTime
      /\ pc \in [CPUs -> PCs] /\ pc[c] = "sleep"
      /\ sleeping_queue' = Append(sleeping_queue, <<current_time[c], u>>)
      /\ pc' = [pc EXCEPT ![c] = "block"]
      /\ UNCHANGED <<wait_queue, status_block_cnt, current_thread>>
  BY Zenon DEF TypeOK, SleepPush, Goto, threadVars
<1>2. ASSUME NEW t \in Threads PROVE Balanced(t)'
  <2>1. <<current_time[c], u>> \in (0..MaxTime) \X Threads
    BY <1>1, Zenon
  <2>2. Sleeps(t)' = Sleeps(t) + One(<<current_time[c], u>>, Items(t))
    <3>1. Sleeps(t) = Count(sleeping_queue, Items(t)) /\ Sleeps(t)' = Count(sleeping_queue', Items(t))
      BY Zenon DEF Sleeps, Items
    <3>2. PICK e \in (0..MaxTime) \X Threads : e = <<current_time[c], u>>
      BY <2>1, Zenon
    <3>3. \A X : Count(Append(sleeping_queue, e), X) =
                  Count(sleeping_queue, X) + One(e, X)
      <4>1. sleeping_queue \in Seq((0..MaxTime) \X Threads)
        BY <1>1, Zenon
      <4>2. ASSUME NEW X PROVE Count(Append(sleeping_queue, e), X) =
                                 Count(sleeping_queue, X) + One(e, X)
        BY <4>1, PushCount, Zenon
      <4> QED
        BY <4>2, Zenon
    <3> QED
      BY <1>1, <3>1, <3>2, <3>3, Zenon
  <2>3. <<current_time[c], u>> \in Items(t) <=> u = t
    BY <1>1, Zenon DEF Items
  <2>4. Waits(t)' = Waits(t)
    BY <1>1, Zenon DEF Waits
  <2>5. Blocks(t)' = Blocks(t) + (IF u = t THEN 1 ELSE 0)
    <3>1. c \notin Blocking(t) /\ Blocking(t)' = IF u = t THEN Blocking(t) \cup {c} ELSE Blocking(t)
      BY <1>1, Zenon DEF Blocking
    <3>2. IsFiniteSet(Blocking(t)) /\ Blocks(t) \in Nat
      BY BlockingIsFinite, BalanceTypes, Zenon
    <3>3. Cardinality(Blocking(t) \cup {c}) = Cardinality(Blocking(t)) + 1
      BY <3>1, <3>2, Zenon DEF Counting
    <3> QED
      BY <3>1, <3>2, <3>3 DEF Blocks
  <2>6. Waits(t) \in Nat /\ Sleeps(t) \in Nat /\ Blocks(t) \in Nat
    BY BalanceTypes, Zenon
  <2>7. status_block_cnt[t] = (Waits(t) + Sleeps(t)) - Blocks(t)
    BY Zenon DEF Balance, Balanced
  <2>8. PICK n \in Int : n = IF u = t THEN 1 ELSE 0
    OBVIOUS
  <2>9. Sleeps(t)' = Sleeps(t) + n /\ Blocks(t)' = Blocks(t) + n
    BY <2>2, <2>3, <2>5, <2>8, Zenon DEF One
  <2>10. (Waits(t)' + Sleeps(t)') - Blocks(t)' = (Waits(t) + Sleeps(t)) - Blocks(t)
    BY <2>4, <2>6, <2>9
  <2> QED
    BY <1>1, <2>7, <2>10, Zenon DEF Balanced
<1> QED
  BY <1>2, Zenon DEF Balance

(* ... which is the next step of the CPU. *)
LEMMA SleepBlockBalance ==
  ASSUME Counting, TypeOK, Balance, NEW c \in CPUs, NEW u \in Threads, u = current_thread[c],
         SleepBlock(c)
  PROVE  Balance'
<1>1. /\ status_block_cnt \in [AllThreads -> Int] /\ pc \in [CPUs -> PCs] /\ pc[c] = "block"
      /\ status_block_cnt' = [status_block_cnt EXCEPT ![u] = @ + 1]
      /\ pc' = [pc EXCEPT ![c] = "resched"]
      /\ UNCHANGED <<wait_queue, sleeping_queue, current_thread>>
  BY Zenon DEF TypeOK, SleepBlock, Goto, queueVars
<1>2. ASSUME NEW t \in Threads PROVE Balanced(t)'
  <2>1. Waits(t)' = Waits(t) /\ Sleeps(t)' = Sleeps(t)
    BY <1>1, Zenon DEF Waits, Sleeps, Items
  <2>2. status_block_cnt'[t] = status_block_cnt[t] + (IF u = t THEN 1 ELSE 0)
    BY <1>1 DEF AllThreads
  <2>3. Blocks(t)' = Blocks(t) - (IF u = t THEN 1 ELSE 0)
    <3>1. /\ Blocking(t)' = IF u = t THEN Blocking(t) \ {c} ELSE Blocking(t)
          /\ u = t => c \in Blocking(t)
      BY <1>1, Zenon DEF Blocking
    <3>2. IsFiniteSet(Blocking(t)) /\ Blocks(t) \in Nat
      BY BlockingIsFinite, BalanceTypes, Zenon
    <3>3. u = t => Cardinality(Blocking(t) \ {c}) = Cardinality(Blocking(t)) - 1
      BY <3>1, <3>2, Zenon DEF Counting
    <3> QED
      BY <3>1, <3>2, <3>3 DEF Blocks
  <2>4. PICK n \in Int : n = IF u = t THEN 1 ELSE 0
    OBVIOUS
  <2> QED
    BY <2>1, <2>2, <2>3, <2>4, MoveTogether, Zenon
<1> QED
  BY <1>2, Zenon DEF Balance

-----------------------------------------------------------------------------
(* A step that leaves the counts and their queues alone, and during which   *)
(* no CPU is between the push of sleep and its block.                       *)
Quiet(c) ==
  /\ UNCHANGED <<status_block_cnt, wait_queue, sleeping_queue>>
  /\ pc[c] # "block" /\ pc'[c] # "block"
  /\ \A d \in CPUs : d # c => pc'[d] = pc[d] /\ current_thread'[d] = current_thread[d]

(* The quiet steps of the scheduler. *)
LEMMA KernelIsQuiet ==
  ASSUME TypeOK, NEW c \in CPUs
  PROVE  /\ CheckSleeping(c) => Quiet(c)
         /\ ExpireDone(c) => Quiet(c)
         /\ Select(c) => Quiet(c)
         /\ ScanPick(c) => Quiet(c)
         /\ ScanIdle(c) => Quiet(c)
         /\ Assign(c) => Quiet(c)
         /\ Mark(c) => Quiet(c)
         /\ SwitchContext(c) => Quiet(c)
         /\ AddReadyThread(c) => Quiet(c)
         /\ Resched(c) => Quiet(c)
         /\ WakeAllExit(c) => Quiet(c)
<1>1. pc \in [CPUs -> PCs] /\ current_thread \in [CPUs -> AllThreads]
  BY Zenon DEF TypeOK
<1> USE <1>1 DEF Quiet, Goto, queueVars, threadVars
<1>2. CheckSleeping(c) => Quiet(c)
  BY Zenon DEF CheckSleeping
<1>3. ExpireDone(c) => Quiet(c)
  BY Zenon DEF ExpireDone
<1>4. Select(c) => Quiet(c)
  BY Zenon DEF Select
<1>5. ScanPick(c) => Quiet(c)
  BY Zenon DEF ScanPick, Chosen
<1>6. ScanIdle(c) => Quiet(c)
  BY Zenon DEF ScanIdle, Chosen
<1>7. Assign(c) => Quiet(c)
  BY Zenon DEF Assign
<1>8. Mark(c) => Quiet(c)
  BY Zenon DEF Mark
<1>9. SwitchContext(c) => Quiet(c)
  BY Zenon DEF SwitchContext
<1>10. AddReadyThread(c) => Quiet(c)
  BY Zenon DEF AddReadyThread
<1>11. Resched(c) => Quiet(c)
  BY Zenon DEF Resched, do_scheduler
<1>12. WakeAllExit(c) => Quiet(c)
  BY Zenon DEF WakeAllExit
<1> QED
  BY <1>2, <1>3, <1>4, <1>5, <1>6, <1>7, <1>8, <1>9, <1>10, <1>11, <1>12, Zenon

(* The quiet system calls. *)
LEMMA TrapIsQuiet ==
  ASSUME TypeOK, NEW c \in CPUs
  PROVE  /\ Preempt(c) => Quiet(c)
         /\ Sleep(c) => Quiet(c)
         /\ WakeAllEnter(c) => Quiet(c)
         /\ Spawn(c) => Quiet(c)
         /\ Exit(c) => Quiet(c)
<1>1. pc \in [CPUs -> PCs] /\ current_thread \in [CPUs -> AllThreads]
  BY Zenon DEF TypeOK
<1> USE <1>1 DEF Quiet, Goto, queueVars, threadVars, Syscall, InUser
<1>2. Preempt(c) => Quiet(c)
  BY Zenon DEF Preempt, do_scheduler
<1>3. Sleep(c) => Quiet(c)
  BY Zenon DEF Sleep
<1>4. WakeAllEnter(c) => Quiet(c)
  BY Zenon DEF WakeAllEnter
<1>5. Spawn(c) => Quiet(c)
  BY Zenon DEF Spawn
<1>6. Exit(c) => Quiet(c)
  BY Zenon DEF Exit, do_scheduler
<1> QED
  BY <1>2, <1>3, <1>4, <1>5, <1>6, Zenon

(* wakeup takes one from the count and blocks nobody. *)
LEMMA WakeupCounts ==
  ASSUME TypeOK, NEW c \in CPUs, NEW w, NEW push, NEW done, wakeup(c, w, push, done),
         push # "block", done # "block", pc[c] # "block", current_thread' = current_thread
  PROVE  /\ status_block_cnt' = [status_block_cnt EXCEPT ![w] = @ - 1]
         /\ \A t \in Threads : Blocks(t)' = Blocks(t)
<1>1. pc'[c] # "block" /\ \A d \in CPUs : d # c => pc'[d] = pc[d]
  BY Zenon DEF TypeOK, wakeup, Goto
<1>2. \A t \in Threads : Blocks(t)' = Blocks(t)
  BY <1>1, SameBlocks, Zenon
<1> QED
  BY <1>2, Zenon DEF wakeup

(* The wakeups of check_sleeping, ... *)
LEMMA ExpiresBalanced ==
  ASSUME Counting, TypeOK, Balance, NEW c \in CPUs, Expire(c)
  PROVE  Balance'
<1>1. PICK i \in Tops : /\ sleeping_queue' = Erase(sleeping_queue, i)
                        /\ wakeup(c, sleeping_queue[i][2], "push_sleeper", "expire")
  BY Zenon DEF Expire
<1>2. pc[c] # "block" /\ current_thread' = current_thread /\ wait_queue' = wait_queue
  BY Zenon DEF Expire
<1>3. i \in DOMAIN sleeping_queue
  BY Zenon DEF Tops
<1>4. /\ status_block_cnt' = [status_block_cnt EXCEPT ![sleeping_queue[i][2]] = @ - 1]
      /\ \A t \in Threads : Blocks(t)' = Blocks(t)
  BY <1>1, <1>2, WakeupCounts, Zenon
<1> QED
  BY <1>1, <1>2, <1>3, <1>4, ExpireBalance, Zenon

(* ... and those of wakeup_one and wakeup_all. *)
LEMMA PopsBalanced ==
  ASSUME Counting, TypeOK, Balance, NEW c \in CPUs, Pops(c)
  PROVE  Balance'
<1>1. /\ pc[c] # "block" /\ current_thread' = current_thread /\ sleeping_queue' = sleeping_queue
      /\ wait_queue # <<>> /\ wait_queue' = Tail(wait_queue)
  BY Zenon DEF Pops
<1>2. /\ status_block_cnt' = [status_block_cnt EXCEPT ![Head(wait_queue)] = @ - 1]
      /\ \A t \in Threads : Blocks(t)' = Blocks(t)
  BY <1>1, WakeupCounts, Zenon DEF Pops
<1> QED
  BY <1>1, <1>2, WakeBalance, Zenon

(* No step changes the count without the queues. *)
LEMMA BalanceStep ==
  ASSUME Counting, IInv, Balance, [Next]_vars
  PROVE  Balance'
<1>1. TypeOK /\ TargetInv
  BY Zenon DEF IInv
<1>2. ASSUME NEW c \in CPUs, Quiet(c) PROVE Balance'
  BY <1>2, SameBlocks, QuietBalance, Zenon DEF Quiet
<1>3. ASSUME UNCHANGED <<status_block_cnt, wait_queue, sleeping_queue, pc, current_thread>>
      PROVE  Balance'
  BY <1>3, QuietBalance, Zenon DEF Blocks, Blocking
<1>4. ASSUME NEW c \in CPUs, do_block(c) PROVE Balance'
  <2>1. PICK u \in Threads : u = current_thread[c]
    BY <1>1, <1>4, Zenon DEF TargetInv, do_block, Syscall, InUser
  <2>2. /\ wait_queue' = Append(wait_queue, u) /\ sleeping_queue' = sleeping_queue
        /\ status_block_cnt' = [status_block_cnt EXCEPT ![u] = @ + 1]
        /\ pc' = [pc EXCEPT ![c] = "resched"] /\ current_thread' = current_thread
        /\ pc[c] = "run"
    BY <1>4, <2>1, Zenon DEF do_block, Goto, Syscall, InUser
  <2>3. pc'[c] # "block" /\ \A d \in CPUs : d # c => pc'[d] = pc[d]
    BY <1>1, <2>2, Zenon DEF TypeOK
  <2>4. \A t \in Threads : Blocks(t)' = Blocks(t)
    BY <2>2, <2>3, SameBlocks, Zenon
  <2> QED
    BY <1>1, <2>2, <2>4, BlockBalance, Zenon
<1>5. ASSUME NEW c \in CPUs, SleepPush(c) \/ SleepBlock(c) PROVE Balance'
  <2>1. current_thread[c] \in Threads
    BY <1>1, <1>5, Zenon DEF TargetInv, SleepPush, SleepBlock
  <2> QED
    BY <1>1, <1>5, <2>1, SleepPushBalance, SleepBlockBalance, Zenon
<1>6. ASSUME NEW c \in CPUs, ScanErase(c) \/ ScanSkip(c) \/ TaskSet(c) PROVE Balance'
  <2>1. UNCHANGED <<status_block_cnt, wait_queue, sleeping_queue, pc, current_thread>>
    BY <1>6, Zenon DEF ScanErase, ScanSkip, TaskSet, threadVars, queueVars, cpuVars
  <2> QED
    BY <1>3, <2>1, Zenon
<1>7. ASSUME Tick \/ UNCHANGED vars PROVE Balance'
  <2>1. UNCHANGED <<status_block_cnt, wait_queue, sleeping_queue, pc, current_thread>>
    BY <1>7, Zenon DEF Tick, vars, threadVars, queueVars, cpuVars
  <2> QED
    BY <1>3, <2>1, Zenon
<1>8. ASSUME NEW c \in CPUs, KernelStep(c) PROVE Balance'
  BY <1>1, <1>2, <1>5, <1>6, <1>8, KernelIsQuiet, ExpiresBalanced, WakeupsPop, PopsBalanced,
     Zenon DEF KernelStep
<1>9. ASSUME NEW c \in CPUs, TrapStep(c) PROVE Balance'
  BY <1>1, <1>2, <1>4, <1>6, <1>9, TrapIsQuiet, WakeupsPop, PopsBalanced, Zenon DEF TrapStep
<1> QED
  BY <1>7, <1>8, <1>9, Zenon DEF Next

-----------------------------------------------------------------------------
(* On one CPU a thread is resumed only when its count is zero. *)

OneCPU == \A c, d \in CPUs : c = d

(* Labels at which the current thread has been resumed and has not yet      *)
(* blocked or given up the CPU.                                             *)
Resumed == {"mark", "switch", "run", "sleep", "block", "wakeall", "push_one", "push_all", "push_new"}

Awake(t) == t \in Threads => status_block_cnt[t] = 0

AwakeInv ==
  \A c \in CPUs :
    /\ pc[c] \in Resumed => Awake(current_thread[c])
    /\ pc[c] = "assign" => Awake(target[c])

(* A step that changes neither the thread of its CPU nor a count, from a    *)
(* label at which the thread is resumed, or one to a label at which none is. *)
Stays(c) ==
  /\ pc'[c] \in Resumed => pc[c] \in Resumed /\ UNCHANGED <<status_block_cnt, current_thread>>
  /\ pc'[c] # "assign"

(* Such a step keeps AwakeInv on one CPU. *)
LEMMA StayAwake ==
  ASSUME OneCPU, AwakeInv, NEW c \in CPUs, Stays(c)
  PROVE  AwakeInv'
<1>1. \A d \in CPUs : d = c
  BY Zenon DEF OneCPU
<1>2. pc'[c] \in Resumed => Awake(current_thread[c])'
  BY Zenon DEF AwakeInv, Awake, Stays
<1> QED
  BY <1>1, <1>2, Zenon DEF AwakeInv, Stays

(* The steps of this kind. *)
LEMMA KernelStays ==
  ASSUME TypeOK, NEW c \in CPUs
  PROVE  /\ CheckSleeping(c) \/ ExpireDone(c) \/ Select(c) => Stays(c)
         /\ Expire(c) => Stays(c)
         /\ ScanErase(c) \/ ScanSkip(c) => Stays(c)
         /\ Mark(c) \/ SwitchContext(c) => Stays(c)
         /\ AddReadyThread(c) => Stays(c)
         /\ SleepPush(c) \/ SleepBlock(c) \/ Resched(c) \/ WakeAllExit(c) => Stays(c)
<1>1. pc \in [CPUs -> PCs]
  BY Zenon DEF TypeOK
<1> USE <1>1 DEF Stays, Goto, Resumed
<1>2. CheckSleeping(c) \/ ExpireDone(c) \/ Select(c) => Stays(c)
  BY Zenon DEF CheckSleeping, ExpireDone, Select
<1>3. Expire(c) => Stays(c)
  BY Zenon DEF Expire, wakeup
<1>4. ScanErase(c) \/ ScanSkip(c) => Stays(c)
  BY Zenon DEF ScanErase, ScanSkip
<1>5. Mark(c) \/ SwitchContext(c) => Stays(c)
  BY Zenon DEF Mark, SwitchContext, threadVars
<1>6. AddReadyThread(c) => Stays(c)
  BY Zenon DEF AddReadyThread, threadVars
<1>7. SleepPush(c) \/ SleepBlock(c) \/ Resched(c) \/ WakeAllExit(c) => Stays(c)
  BY Zenon DEF SleepPush, SleepBlock, Resched, WakeAllExit, do_scheduler, threadVars
<1> QED
  BY <1>2, <1>3, <1>4, <1>5, <1>6, <1>7, Zenon

(* The traps that are such steps. *)
LEMMA TrapStays ==
  ASSUME TypeOK, NEW c \in CPUs
  PROVE  /\ Preempt(c) \/ do_block(c) => Stays(c)
         /\ Sleep(c) \/ WakeAllEnter(c) \/ Spawn(c) => Stays(c)
         /\ Exit(c) => Stays(c)
<1>1. pc \in [CPUs -> PCs]
  BY Zenon DEF TypeOK
<1> USE <1>1 DEF Stays, Goto, Resumed
<1>2. Preempt(c) \/ do_block(c) => Stays(c)
  BY Zenon DEF Preempt, do_scheduler, do_block
<1>3. Sleep(c) \/ WakeAllEnter(c) \/ Spawn(c) => Stays(c)
  BY Zenon DEF Sleep, WakeAllEnter, Spawn, threadVars, Syscall, InUser
<1>4. Exit(c) => Stays(c)
  BY Zenon DEF Exit, do_scheduler, Syscall, InUser
<1> QED
  BY <1>2, <1>3, <1>4, Zenon

(* do_scheduler chooses a READY thread ... *)
LEMMA ChoiceIsAwake ==
  ASSUME OneCPU, TypeOK, NEW c \in CPUs, NEW t, Chosen(c, t), status(t) = "READY" \/ t = c
  PROVE  AwakeInv'
<1>1. \A d \in CPUs : d = c
  BY Zenon DEF OneCPU
<1>2. Awake(t)
  BY SchedulerAssumption, Zenon DEF status, Awake
<1>3. pc'[c] = "assign" /\ target'[c] = t /\ status_block_cnt' = status_block_cnt
  BY Zenon DEF TypeOK, Chosen, Goto, threadVars
<1>4. "assign" \notin Resumed
  BY Zenon DEF Resumed
<1> QED
  BY <1>1, <1>2, <1>3, <1>4, Zenon DEF AwakeInv, Awake

(* ... and makes it the current one. *)
LEMMA AssignIsAwake ==
  ASSUME OneCPU, TypeOK, AwakeInv, NEW c \in CPUs, Assign(c)
  PROVE  AwakeInv'
<1>1. \A d \in CPUs : d = c
  BY Zenon DEF OneCPU
<1>2. /\ pc[c] = "assign" /\ pc'[c] = "mark" /\ current_thread'[c] = target[c]
      /\ status_block_cnt' = status_block_cnt
  BY Zenon DEF TypeOK, Assign, Goto
<1>3. Awake(current_thread[c])'
  BY <1>2, Zenon DEF AwakeInv, Awake
<1> QED
  BY <1>1, <1>2, <1>3, Zenon DEF AwakeInv

(* The thread a system call wakes is blocked, so it is not the one that     *)
(* makes the call.                                                          *)
LEMMA WakesAnother ==
  ASSUME OneCPU, Counting, TypeOK, Balance, AwakeInv, NEW c \in CPUs, Pops(c)
  PROVE  AwakeInv'
<1>1. /\ pc \in [CPUs -> PCs] /\ wait_queue \in Seq(Threads)
      /\ status_block_cnt \in [AllThreads -> Int] /\ current_thread \in [CPUs -> AllThreads]
  BY Zenon DEF TypeOK
<1>2. \A d \in CPUs : d = c
  BY Zenon DEF OneCPU
<1>3. PICK w \in Threads : w = Head(wait_queue)
  BY <1>1 DEF Pops
<1>4. /\ pc[c] \in {"run", "wakeall"} /\ wait_queue # <<>> /\ current_thread' = current_thread
      /\ status_block_cnt' = [status_block_cnt EXCEPT ![w] = @ - 1]
  BY <1>3, Zenon DEF Pops, wakeup
<1>5. pc'[c] # "assign"
  BY <1>1, Zenon DEF Pops, wakeup, Goto
<1>6. Blocks(w) = 0
  <2>1. Blocking(w) = {}
    BY <1>2, <1>4, Zenon DEF Blocking
  <2> QED
    BY <2>1, BlockingIsFinite, Zenon DEF Blocks, Counting
<1>7. Waits(w) # 0
  <2>1. 1 \in {i \in DOMAIN wait_queue : wait_queue[i] \in {w}}
    BY <1>1, <1>3, <1>4
  <2>2. IsFiniteSet({i \in DOMAIN wait_queue : wait_queue[i] \in {w}})
    BY <1>1, CountType, Zenon
  <2> QED
    BY <2>1, <2>2, Zenon DEF Waits, Count, Counting
<1>8. status_block_cnt[w] # 0
  <2>1. Waits(w) \in Nat /\ Sleeps(w) \in Nat
    BY BalanceTypes, Zenon
  <2> QED
    BY <1>6, <1>7, <2>1 DEF Balance, Balanced
<1>9. Awake(current_thread[c])
  BY <1>4, Zenon DEF AwakeInv, Resumed
<1>10. Awake(current_thread[c])'
  BY <1>1, <1>4, <1>8, <1>9, Zenon DEF Awake, AllThreads
<1> QED
  BY <1>2, <1>5, <1>10, Zenon DEF AwakeInv

(* No step resumes a blocked thread or blocks a resumed one. *)
LEMMA AwakeStep ==
  ASSUME OneCPU, Counting, IInv, Balance, AwakeInv, [Next]_vars
  PROVE  AwakeInv'
<1>1. TypeOK
  BY Zenon DEF IInv
<1>2. ASSUME UNCHANGED <<status_block_cnt, pc, current_thread, target>> PROVE AwakeInv'
  BY <1>2, Zenon DEF AwakeInv, Awake
<1>3. ASSUME Tick \/ UNCHANGED vars \/ \E c \in CPUs : TaskSet(c) PROVE AwakeInv'
  <2>1. UNCHANGED <<status_block_cnt, pc, current_thread, target>>
    BY <1>3, Zenon DEF Tick, TaskSet, vars, threadVars, cpuVars
  <2> QED
    BY <1>2, <2>1, Zenon
<1>4. ASSUME NEW c \in CPUs, ScanPick(c) \/ ScanIdle(c) PROVE AwakeInv'
  <2>1. PICK t : Chosen(c, t) /\ (status(t) = "READY" \/ t = c)
    BY <1>4, Zenon DEF ScanPick, ScanIdle
  <2> QED
    BY <1>1, <2>1, ChoiceIsAwake, Zenon
<1>5. ASSUME NEW c \in CPUs, KernelStep(c) PROVE AwakeInv'
  BY <1>1, <1>4, <1>5, KernelStays, StayAwake, AssignIsAwake, WakeupsPop, WakesAnother,
     Zenon DEF KernelStep
<1>6. ASSUME NEW c \in CPUs, TrapStep(c) PROVE AwakeInv'
  BY <1>1, <1>3, <1>6, TrapStays, StayAwake, WakeupsPop, WakesAnother, Zenon DEF TrapStep
<1> QED
  BY <1>3, <1>5, <1>6, Zenon DEF Next

-----------------------------------------------------------------------------
(* The threads that are not created yet are nowhere. *)
In(q, X) == \E i \in DOMAIN q : q[i] \in X

Unborn(t) ==
  /\ ~ In(ready_queue, {t}) /\ ~ In(wait_queue, {t}) /\ ~ In(sleeping_queue, Items(t))
  /\ \A c \in CPUs : current_thread[c] # t /\ target[c] # t
  /\ status_block_cnt[t] = 0 /\ ~status_exited[t] /\ ~status_running[t]

UnbornInv == \A t \in Threads : t \notin created => Unborn(t)

(* What is appended, and what is left, comes from somewhere. *)
LEMMA PushIn ==
  ASSUME NEW S, NEW q \in Seq(S), NEW x \in S, NEW X, x \notin X, ~ In(q, X)
  PROVE  ~ In(Append(q, x), X)
<1>1. \A i \in DOMAIN Append(q, x) : (i \in DOMAIN q /\ Append(q, x)[i] = q[i]) \/ Append(q, x)[i] = x
  OBVIOUS
<1> QED
  BY <1>1, Zenon DEF In

(* So does what is left by pop_front, and its head. *)
LEMMA PopIn ==
  ASSUME NEW S, NEW q \in Seq(S), q # << >>, NEW X, ~ In(q, X)
  PROVE  ~ In(Tail(q), X) /\ Head(q) \notin X
<1>1. \A i \in DOMAIN Tail(q) : i + 1 \in DOMAIN q /\ Tail(q)[i] = q[i + 1]
  OBVIOUS
<1>2. 1 \in DOMAIN q /\ Head(q) = q[1]
  OBVIOUS
<1> QED
  BY <1>1, <1>2, Zenon DEF In

(* ... and by erase. *)
LEMMA EraseIn ==
  ASSUME NEW S, NEW q \in Seq(S), NEW n \in 1..Len(q), NEW X, ~ In(q, X)
  PROVE  ~ In(Erase(q, n), X)
<1>1. PICK r : r = Erase(q, n)
  BY Zenon
<1>2. /\ r \in Seq(S) /\ Len(r) = Len(q) - 1
      /\ \A k \in 1..(Len(q) - 1) : (k < n => r[k] = q[k]) /\ (k >= n => r[k] = q[k + 1])
  BY <1>1, EraseProperties, Zenon
<1>3. \A k \in DOMAIN r : \E j \in DOMAIN q : r[k] = q[j]
  <2> SUFFICES ASSUME NEW k \in DOMAIN r PROVE \E j \in DOMAIN q : r[k] = q[j]
    BY Zenon
  <2>1. k \in 1..(Len(q) - 1)
    BY <1>2
  <2>2. CASE k < n
    <3>1. k \in DOMAIN q /\ r[k] = q[k]
      BY <1>2, <2>1, <2>2
    <3> QED
      BY <3>1, Zenon
  <2>3. CASE k >= n
    <3>1. k + 1 \in DOMAIN q /\ r[k] = q[k + 1]
      BY <1>2, <2>1, <2>3
    <3> QED
      BY <3>1, Zenon
  <2> QED
    BY <2>1, <2>2, <2>3
<1> QED
  BY <1>1, <1>3, Zenon DEF In

(* The types of the state that the threads move in. *)
LEMMA ThreadTypes ==
  ASSUME IInv
  PROVE  /\ ready_queue \in Seq(Threads) /\ wait_queue \in Seq(Threads)
         /\ sleeping_queue \in Seq((0..MaxTime) \X Threads)
         /\ current_thread \in [CPUs -> AllThreads]
         /\ target \in [CPUs -> AllThreads \cup {Nobody}]
         /\ status_block_cnt \in [AllThreads -> Int]
         /\ status_exited \in [AllThreads -> BOOLEAN]
         /\ status_running \in [AllThreads -> BOOLEAN]
         /\ pc \in [CPUs -> PCs]
         /\ Threads \subseteq AllThreads /\ Nobody \notin Threads
         /\ \A c \in CPUs : c \notin Threads /\ c \in AllThreads
BY SchedulerAssumption, Zenon DEF IInv, TypeOK, AllThreads

(* The parts of the state of a thread that is not created, one at a time. *)
Nowhere(t) == ~ In(ready_queue, {t}) /\ ~ In(wait_queue, {t}) /\ ~ In(sleeping_queue, Items(t))
NotOnCPU(t) == \A c \in CPUs : current_thread[c] # t /\ target[c] # t
Untouched(t) == status_block_cnt[t] = 0 /\ ~status_exited[t] /\ ~status_running[t]

SameQueues == UNCHANGED queueVars
SamePlaces == UNCHANGED <<current_thread, target>>
SameFlags == UNCHANGED <<status_block_cnt, status_exited, status_running>>

(* Unborn in three parts, as the steps disturb them, *)
LEMMA UnbornParts ==
  ASSUME NEW t
  PROVE  /\ Unborn(t) <=> Nowhere(t) /\ NotOnCPU(t) /\ Untouched(t)
         /\ SameQueues /\ Nowhere(t) => Nowhere(t)'
         /\ SamePlaces /\ NotOnCPU(t) => NotOnCPU(t)'
         /\ SameFlags /\ Untouched(t) => Untouched(t)'
BY Zenon DEF Unborn, Nowhere, NotOnCPU, Untouched, SameQueues, SamePlaces, SameFlags, queueVars

(* ... and put together again after a step. *)
LEMMA UnbornIs ==
  ASSUME NEW t, Nowhere(t)', NotOnCPU(t)', Untouched(t)'
  PROVE  Unborn(t)'
BY Zenon DEF Unborn, Nowhere, NotOnCPU, Untouched

(* A flag of a thread that exists is written, or a CPU turns to one. *)
SetCount(u, n) == status_block_cnt' = [status_block_cnt EXCEPT ![u] = n]
SetRunning(u, b) == status_running' = [status_running EXCEPT ![u] = b]
SetTarget(c, u) == target' = [target EXCEPT ![c] = u]

(* A count, a flag or a target set for another thread does not touch t. *)
LEMMA CountOther ==
  ASSUME IInv, NEW t \in Threads, Untouched(t), NEW u, u # t, NEW n,
         SetCount(u, n), UNCHANGED <<status_exited, status_running>>
  PROVE  Untouched(t)'
BY ThreadTypes DEF Untouched, SetCount

(* A RUNNING flag set for another thread. *)
LEMMA RunOther ==
  ASSUME IInv, NEW t \in Threads, Untouched(t), NEW u, u # t, NEW b,
         SetRunning(u, b), UNCHANGED <<status_exited, status_block_cnt>>
  PROVE  Untouched(t)'
BY ThreadTypes DEF Untouched, SetRunning

(* A target that is another thread. *)
LEMMA TargetOther ==
  ASSUME IInv, NEW t \in Threads, NotOnCPU(t), NEW c \in CPUs, NEW u, u # t,
         SetTarget(c, u), UNCHANGED current_thread
  PROVE  NotOnCPU(t)'
BY ThreadTypes DEF NotOnCPU, SetTarget

(* The steps that touch none of this. *)
LEMMA UnbornIdle ==
  ASSUME NEW t, Unborn(t), SameQueues, SamePlaces, SameFlags
  PROVE  Unborn(t)'
BY UnbornParts, UnbornIs, Zenon

(* The steps that move no thread. *)
LEMMA QuietUnborn ==
  ASSUME NEW c \in CPUs
  PROVE  /\ CheckSleeping(c) => SameQueues /\ SamePlaces /\ SameFlags
         /\ ExpireDone(c) => SameQueues /\ SamePlaces /\ SameFlags
         /\ ScanSkip(c) => SameQueues /\ SamePlaces /\ SameFlags
         /\ SwitchContext(c) => SameQueues /\ SamePlaces /\ SameFlags
         /\ WakeAllExit(c) => SameQueues /\ SamePlaces /\ SameFlags
         /\ WakeAllEnter(c) => SameQueues /\ SamePlaces /\ SameFlags
         /\ Sleep(c) => SameQueues /\ SamePlaces /\ SameFlags
         /\ TaskSet(c) => SameQueues /\ SamePlaces /\ SameFlags
         /\ Tick => SameQueues /\ SamePlaces /\ SameFlags
         /\ UNCHANGED vars => SameQueues /\ SamePlaces /\ SameFlags
<1> USE DEF SameQueues, SamePlaces, SameFlags, threadVars, cpuVars
<1>1. /\ CheckSleeping(c) => SameQueues /\ SamePlaces /\ SameFlags
      /\ ExpireDone(c) => SameQueues /\ SamePlaces /\ SameFlags
      /\ ScanSkip(c) => SameQueues /\ SamePlaces /\ SameFlags
  BY Zenon DEF CheckSleeping, ExpireDone, ScanSkip
<1>2. /\ SwitchContext(c) => SameQueues /\ SamePlaces /\ SameFlags
      /\ WakeAllExit(c) => SameQueues /\ SamePlaces /\ SameFlags
      /\ WakeAllEnter(c) => SameQueues /\ SamePlaces /\ SameFlags
  BY Zenon DEF SwitchContext, WakeAllExit, WakeAllEnter
<1>3. /\ Sleep(c) => SameQueues /\ SamePlaces /\ SameFlags
      /\ TaskSet(c) => SameQueues /\ SamePlaces /\ SameFlags
  BY Zenon DEF Sleep, TaskSet
<1>4. /\ Tick => SameQueues /\ SamePlaces /\ SameFlags
      /\ UNCHANGED vars => SameQueues /\ SamePlaces /\ SameFlags
  BY Zenon DEF Tick, vars
<1> QED
  BY <1>1, <1>2, <1>3, <1>4, Zenon

(* Those that clear or set a flag. *)
LEMMA ClearUnborn ==
  ASSUME IInv, NEW c \in CPUs, NEW t \in Threads, Unborn(t),
         SetRunning(current_thread[c], FALSE),
         UNCHANGED <<status_exited, status_block_cnt>>, SameQueues, SamePlaces
  PROVE  Unborn(t)'
<1>1. Nowhere(t)' /\ NotOnCPU(t)' /\ NotOnCPU(t) /\ Untouched(t)
  BY UnbornParts, Zenon
<1>2. current_thread[c] # t
  BY <1>1, Zenon DEF NotOnCPU
<1>3. Untouched(t)'
  BY <1>1, <1>2, RunOther, Zenon
<1> QED
  BY <1>1, <1>3, UnbornIs, Zenon

(* The traps that only leave user code. *)
LEMMA PreemptUnborn ==
  ASSUME IInv, NEW c \in CPUs, NEW t \in Threads, Unborn(t)
  PROVE  (Preempt(c) => Unborn(t)') /\ (Resched(c) => Unborn(t)')
<1>1. ASSUME Preempt(c) PROVE Unborn(t)'
  BY <1>1, ClearUnborn, Zenon DEF Preempt, do_scheduler, SameQueues, SamePlaces, SetRunning
<1>2. ASSUME Resched(c) PROVE Unborn(t)'
  BY <1>2, ClearUnborn, Zenon DEF Resched, do_scheduler, SameQueues, SamePlaces, SetRunning
<1> QED
  BY <1>1, <1>2, Zenon

(* Thread::exit concerns its caller, which has been created. *)
LEMMA ExitUnborn ==
  ASSUME IInv, NEW c \in CPUs, NEW t \in Threads, t \notin created, Unborn(t), Exit(c)
  PROVE  Unborn(t)'
<1>1. PICK u \in created :
        /\ status_exited' = [status_exited EXCEPT ![u] = TRUE]
        /\ \/ status_running' = [status_running EXCEPT ![current_thread[c]] = FALSE]
           \/ status_running' = status_running
  BY ExitCases, Zenon
<1>2. u # t /\ current_thread[c] # t /\ Untouched(t)
  BY <1>1, UnbornParts, Zenon DEF NotOnCPU
<1>3. SameQueues /\ SamePlaces /\ status_block_cnt' = status_block_cnt
  BY Zenon DEF Exit, SameQueues, SamePlaces
<1>4. ~status_exited'[t] /\ ~status_running'[t]
  BY <1>1, <1>2, ThreadTypes DEF Untouched
<1>5. Untouched(t)'
  BY <1>2, <1>3, <1>4, Zenon DEF Untouched
<1> QED
  BY <1>3, <1>5, UnbornParts, UnbornIs, Zenon

(* Those of the ready queue. *)
LEMMA ReadyUnborn ==
  ASSUME NEW t, Unborn(t), ~ In(ready_queue', {t}),
         UNCHANGED <<wait_queue, sleeping_queue>>, NotOnCPU(t)', SameFlags
  PROVE  Unborn(t)'
<1>1. Nowhere(t)'
  BY UnbornParts, Zenon DEF Nowhere
<1> QED
  BY <1>1, UnbornParts, UnbornIs, Zenon

(* Select queues the current thread. *)
LEMMA SelectUnborn ==
  ASSUME IInv, NEW c \in CPUs, NEW t \in Threads, Unborn(t), Select(c)
  PROVE  Unborn(t)'
<1>1. current_thread[c] \notin {t} /\ ~ In(ready_queue, {t})
  BY UnbornParts, Zenon DEF NotOnCPU, Nowhere
<1>2. current_thread[c] # c => current_thread[c] \in Threads
  BY Zenon DEF IInv, TargetInv
<1>3. ~ In(ready_queue', {t})
  BY <1>1, <1>2, ThreadTypes, PushIn, Zenon DEF Select
<1>4. UNCHANGED <<wait_queue, sleeping_queue>> /\ SamePlaces /\ SameFlags
  BY Zenon DEF Select, SamePlaces, SameFlags, threadVars
<1> QED
  BY <1>3, <1>4, UnbornParts, ReadyUnborn, Zenon

(* The scan takes a thread out of ready_queue. *)
LEMMA ScanUnborn ==
  ASSUME IInv, NEW c \in CPUs, NEW t \in Threads, Unborn(t)
  PROVE  (ScanErase(c) => Unborn(t)') /\ (ScanPick(c) => Unborn(t)') /\ (ScanIdle(c) => Unborn(t)')
<1>1. ~ In(ready_queue, {t}) /\ NotOnCPU(t)
  BY UnbornParts, Zenon DEF Nowhere
<1>2. ASSUME pc[c] = "scan", it[c] <= Len(ready_queue)
      PROVE  /\ it[c] \in 1..Len(ready_queue)
             /\ ~ In(Erase(ready_queue, it[c]), {t}) /\ ready_queue[it[c]] # t
  <2>1. it[c] \in 1..Len(ready_queue)
    BY <1>2 DEF IInv, TypeOK, TargetInv
  <2>2. it[c] \in DOMAIN ready_queue
    BY <2>1, ThreadTypes
  <2> QED
    BY <1>1, <2>1, <2>2, ThreadTypes, EraseIn, Zenon DEF In
<1>3. ASSUME ScanErase(c) PROVE Unborn(t)'
  <2>1. /\ ready_queue' = Erase(ready_queue, it[c]) /\ UNCHANGED <<wait_queue, sleeping_queue>>
        /\ SamePlaces /\ SameFlags /\ pc[c] = "scan" /\ it[c] <= Len(ready_queue)
    BY <1>3, Zenon DEF ScanErase, SamePlaces, SameFlags, threadVars
  <2> QED
    BY <1>2, <2>1, UnbornParts, ReadyUnborn, Zenon
<1>4. ASSUME ScanPick(c) PROVE Unborn(t)'
  <2>1. /\ ready_queue' = Erase(ready_queue, it[c]) /\ UNCHANGED <<wait_queue, sleeping_queue>>
        /\ SetTarget(c, ready_queue[it[c]]) /\ current_thread' = current_thread
        /\ SameFlags /\ pc[c] = "scan" /\ it[c] <= Len(ready_queue)
    BY <1>4, Zenon DEF ScanPick, Chosen, SameFlags, threadVars, SetTarget
  <2>2. NotOnCPU(t)'
    BY <1>1, <1>2, <2>1, TargetOther, Zenon
  <2> QED
    BY <1>2, <2>1, <2>2, ReadyUnborn, Zenon
<1>5. ASSUME ScanIdle(c) PROVE Unborn(t)'
  <2>1. /\ SameQueues /\ SameFlags
        /\ SetTarget(c, c) /\ current_thread' = current_thread
    BY <1>5, Zenon DEF ScanIdle, Chosen, SameQueues, queueVars, SameFlags, threadVars,
                        SetTarget
  <2>2. c # t
    BY ThreadTypes, Zenon
  <2>3. NotOnCPU(t)'
    BY <1>1, <2>1, <2>2, TargetOther, Zenon
  <2> QED
    BY <2>1, <2>3, UnbornParts, UnbornIs, Zenon
<1> QED
  BY <1>3, <1>4, <1>5, Zenon

(* add_ready_thread queues the target. *)
LEMMA AddUnborn ==
  ASSUME IInv, NEW c \in CPUs, NEW t \in Threads, Unborn(t), AddReadyThread(c)
  PROVE  Unborn(t)'
<1>1. /\ ready_queue' = Append(ready_queue, target[c]) /\ UNCHANGED <<wait_queue, sleeping_queue>>
      /\ SetTarget(c, Nobody) /\ current_thread' = current_thread /\ SameFlags
      /\ pc[c] \in Pushing
  BY Zenon DEF AddReadyThread, SetTarget, SameFlags, threadVars, Pushing
<1>2. ~ In(ready_queue, {t}) /\ NotOnCPU(t) /\ Nobody # t
  BY UnbornParts, ThreadTypes, Zenon DEF Nowhere
<1>3. target[c] \in Threads /\ target[c] \notin {t}
  BY <1>1, <1>2, Zenon DEF IInv, TargetInv, NotOnCPU
<1>4. ~ In(ready_queue', {t})
  BY <1>1, <1>2, <1>3, ThreadTypes, PushIn, Zenon
<1>5. NotOnCPU(t)'
  BY <1>1, <1>2, TargetOther, Zenon
<1> QED
  BY <1>1, <1>4, <1>5, ReadyUnborn, Zenon

(* The target becomes the current thread. *)
LEMMA AssignUnborn ==
  ASSUME IInv, NEW c \in CPUs, NEW t \in Threads, Unborn(t)
  PROVE  (Assign(c) => Unborn(t)') /\ (Mark(c) => Unborn(t)')
<1>1. NotOnCPU(t) /\ Untouched(t) /\ Nobody # t
  BY UnbornParts, ThreadTypes, Zenon
<1>2. current_thread[c] # t /\ target[c] # t
  BY <1>1, Zenon DEF NotOnCPU
<1>3. ASSUME Assign(c) PROVE Unborn(t)'
  <2>1. /\ current_thread' = [current_thread EXCEPT ![c] = target[c]] /\ target' = target
        /\ SetRunning(current_thread[c], FALSE) /\ UNCHANGED <<status_exited, status_block_cnt>>
        /\ SameQueues
    BY <1>3, Zenon DEF Assign, SetRunning, SameQueues
  <2>2. Untouched(t)'
    BY <1>1, <1>2, <2>1, RunOther, Zenon
  <2>3. NotOnCPU(t)'
    <3>1. current_thread \in [CPUs -> AllThreads]
      BY ThreadTypes, Zenon
    <3>2. \A d \in CPUs : current_thread'[d] = IF d = c THEN target[c] ELSE current_thread[d]
      BY <2>1, <3>1
    <3> QED
      BY <1>1, <1>2, <2>1, <3>2, Zenon DEF NotOnCPU
  <2> QED
    BY <2>1, <2>2, <2>3, UnbornParts, UnbornIs, Zenon
<1>4. ASSUME Mark(c) PROVE Unborn(t)'
  <2>1. /\ SetTarget(c, Nobody) /\ current_thread' = current_thread
        /\ SetRunning(target[c], TRUE) /\ UNCHANGED <<status_exited, status_block_cnt>>
        /\ SameQueues
    BY <1>4, Zenon DEF Mark, SetRunning, SetTarget, SameQueues
  <2>2. Untouched(t)'
    BY <1>1, <1>2, <2>1, RunOther, Zenon
  <2>3. NotOnCPU(t)'
    BY <1>1, <2>1, TargetOther, Zenon
  <2> QED
    BY <2>1, <2>2, <2>3, UnbornParts, UnbornIs, Zenon
<1> QED
  BY <1>3, <1>4, Zenon

(* Those that block the current thread. *)
LEMMA BlockUnborn ==
  ASSUME IInv, NEW c \in CPUs, NEW t \in Threads, Unborn(t)
  PROVE  (SleepPush(c) => Unborn(t)') /\ (SleepBlock(c) => Unborn(t)') /\ (do_block(c) => Unborn(t)')
<1>1. Nowhere(t) /\ NotOnCPU(t) /\ Untouched(t)
  BY UnbornParts, Zenon
<1>2. current_thread[c] # t
  BY <1>1, Zenon DEF NotOnCPU
<1>3. ASSUME SleepPush(c) PROVE Unborn(t)'
  <2>1. /\ sleeping_queue' = Append(sleeping_queue, <<current_time[c], current_thread[c]>>)
        /\ UNCHANGED <<ready_queue, wait_queue>> /\ SamePlaces /\ SameFlags /\ pc[c] = "sleep"
    BY <1>3, Zenon DEF SleepPush, SamePlaces, SameFlags, threadVars
  <2>2. PICK x : x = <<current_time[c], current_thread[c]>>
    BY Zenon
  <2>3. current_time[c] \in 0..MaxTime /\ current_thread[c] \in Threads
    BY <2>1, Zenon DEF IInv, TypeOK, TargetInv
  <2>4. x \in (0..MaxTime) \X Threads /\ x \notin Items(t)
    BY <1>2, <2>2, <2>3 DEF Items
  <2>5. ~ In(sleeping_queue', Items(t))
    BY <1>1, <2>1, <2>2, <2>4, ThreadTypes, PushIn, Zenon DEF Nowhere
  <2>6. Nowhere(t)'
    <3>1. PICK X : X = Items(t)
      BY Zenon
    <3>2. Items(t)' = X
      BY <3>1, Zenon DEF Items
    <3> QED
      BY <1>1, <2>1, <2>5, <3>1, <3>2, Zenon DEF Nowhere
  <2> QED
    BY <2>1, <2>6, UnbornParts, UnbornIs, Zenon
<1>4. ASSUME SleepBlock(c) PROVE Unborn(t)'
  <2>1. /\ SetCount(current_thread[c], status_block_cnt[current_thread[c]] + 1)
        /\ UNCHANGED <<status_exited, status_running>> /\ SamePlaces /\ SameQueues
    BY <1>4, Zenon DEF SleepBlock, SetCount, SamePlaces, SameQueues
  <2> QED
    BY <1>1, <1>2, <2>1, CountOther, UnbornParts, UnbornIs, Zenon
<1>5. ASSUME do_block(c) PROVE Unborn(t)'
  <2>1. /\ SetCount(current_thread[c], status_block_cnt[current_thread[c]] + 1)
        /\ wait_queue' = Append(wait_queue, current_thread[c])
        /\ UNCHANGED <<status_exited, status_running, ready_queue, sleeping_queue>> /\ SamePlaces
        /\ current_thread[c] # c
    BY <1>5, Zenon DEF do_block, SetCount, SamePlaces, Syscall, InUser
  <2>2. current_thread[c] \in Threads /\ current_thread[c] \notin {t}
    BY <1>2, <2>1, Zenon DEF IInv, TargetInv
  <2>3. ~ In(wait_queue', {t})
    BY <1>1, <2>1, <2>2, ThreadTypes, PushIn, Zenon DEF Nowhere
  <2>4. Nowhere(t)'
    BY <1>1, <2>1, <2>3, Zenon DEF Nowhere
  <2> QED
    BY <1>1, <1>2, <2>1, <2>4, CountOther, UnbornParts, UnbornIs, Zenon
<1> QED
  BY <1>3, <1>4, <1>5, Zenon

(* Those that wake another. *)
LEMMA WakeUnborn ==
  ASSUME IInv, NEW t \in Threads, Untouched(t), NotOnCPU(t), NEW c \in CPUs, NEW w, w # t,
         NEW push, NEW done, wakeup(c, w, push, done),
         UNCHANGED <<status_exited, status_running, current_thread>>
  PROVE  NotOnCPU(t)' /\ Untouched(t)'
<1>1. SetCount(w, status_block_cnt[w] - 1)
  BY Zenon DEF wakeup, SetCount
<1>2. SetTarget(c, w) \/ SamePlaces
  BY Zenon DEF wakeup, SetTarget, SamePlaces
<1> QED
  BY <1>1, <1>2, CountOther, TargetOther, UnbornParts, Zenon

(* An expired sleeper was queued, so it was created. *)
LEMMA ExpireUnborn ==
  ASSUME IInv, NEW c \in CPUs, NEW t \in Threads, Unborn(t), Expire(c)
  PROVE  Unborn(t)'
<1>1. Nowhere(t) /\ NotOnCPU(t) /\ Untouched(t)
  BY UnbornParts, Zenon
<1>2. PICK i \in Tops : /\ sleeping_queue' = Erase(sleeping_queue, i)
                        /\ wakeup(c, sleeping_queue[i][2], "push_sleeper", "expire")
  BY Zenon DEF Expire
<1>3. UNCHANGED <<ready_queue, wait_queue, status_exited, status_running, current_thread>>
  BY Zenon DEF Expire
<1>4. i \in 1..Len(sleeping_queue) /\ i \in DOMAIN sleeping_queue
  BY TopIsItem, Zenon DEF IInv, Tops
<1>5. sleeping_queue[i][2] # t
  <2>1. sleeping_queue[i] \in (0..MaxTime) \X Threads
    BY <1>4, ThreadTypes
  <2>2. sleeping_queue[i] \notin Items(t)
    BY <1>1, <1>4, Zenon DEF Nowhere, In
  <2> QED
    BY <2>1, <2>2 DEF Items
<1>6. NotOnCPU(t)' /\ Untouched(t)'
  BY <1>1, <1>2, <1>3, <1>5, WakeUnborn, Zenon
<1>7. ~ In(sleeping_queue', Items(t))
  BY <1>1, <1>2, <1>4, ThreadTypes, EraseIn, Zenon DEF Nowhere
<1>8. Nowhere(t)'
  <2>1. PICK X : X = Items(t)
    BY Zenon
  <2>2. Items(t)' = X
    BY <2>1, Zenon DEF Items
  <2> QED
    BY <1>1, <1>3, <1>7, <2>1, <2>2, Zenon DEF Nowhere
<1> QED
  BY <1>6, <1>8, UnbornIs, Zenon

(* So was the thread a wakeup pops. *)
LEMMA PopUnborn ==
  ASSUME IInv, NEW c \in CPUs, NEW t \in Threads, Unborn(t), Pops(c)
  PROVE  Unborn(t)'
<1>1. Nowhere(t) /\ NotOnCPU(t) /\ Untouched(t)
  BY UnbornParts, Zenon
<1>2. /\ wait_queue # << >> /\ wait_queue' = Tail(wait_queue)
      /\ UNCHANGED <<ready_queue, sleeping_queue, status_exited, status_running, current_thread>>
      /\ \E push, done : wakeup(c, Head(wait_queue), push, done)
  BY Zenon DEF Pops
<1>3. ~ In(Tail(wait_queue), {t}) /\ Head(wait_queue) \notin {t}
  BY <1>1, <1>2, ThreadTypes, PopIn, Zenon DEF Nowhere
<1>4. Head(wait_queue) # t
  BY <1>3, Zenon
<1>5. NotOnCPU(t)' /\ Untouched(t)'
  BY <1>1, <1>2, <1>4, WakeUnborn, Zenon
<1>6. Nowhere(t)'
  BY <1>1, <1>2, <1>3, Zenon DEF Nowhere, Items
<1> QED
  BY <1>5, <1>6, UnbornIs, Zenon

(* A new thread leaves the unborn ones. *)
LEMMA SpawnUnborn ==
  ASSUME IInv, NEW c \in CPUs, NEW t \in Threads, t \notin created', Unborn(t), Spawn(c)
  PROVE  Unborn(t)'
<1>1. PICK u \in Threads : created' = created \cup {u} /\ SetTarget(c, u)
  BY Zenon DEF Spawn, SetTarget
<1>2. SameQueues /\ SameFlags /\ current_thread' = current_thread /\ u # t
  BY <1>1, Zenon DEF Spawn, SameQueues, SameFlags, threadVars
<1>3. NotOnCPU(t)'
  BY <1>1, <1>2, UnbornParts, TargetOther, Zenon
<1> QED
  BY <1>2, <1>3, UnbornParts, UnbornIs, Zenon

(* Threads are created by Spawn alone. *)
LEMMA CreatedGrows ==
  ASSUME NEW c \in CPUs
  PROVE  /\ KernelStep(c) => created' = created
         /\ TrapStep(c) => Spawn(c) \/ created' = created
<1>1. KernelStep(c) => created' = created
  BY Zenon DEF KernelStep, CheckSleeping, Expire, ExpireDone, Select, ScanErase, ScanSkip, ScanPick,
       ScanIdle, Chosen, Assign, Mark, SwitchContext, AddReadyThread, SleepPush, SleepBlock,
       Resched, wakeup_all, WakeAllExit
<1>2. TrapStep(c) => Spawn(c) \/ created' = created
  BY Zenon DEF TrapStep, Preempt, Sleep, do_block, wakeup_one, WakeAllEnter, Exit, TaskSet
<1> QED
  BY <1>1, <1>2, Zenon

(* A thread that is not created stays nowhere. *)
LEMMA UnbornStep ==
  ASSUME IInv, UnbornInv, [Next]_vars
  PROVE  UnbornInv'
<1> SUFFICES ASSUME NEW t \in Threads, t \notin created' PROVE Unborn(t)'
  BY Zenon DEF UnbornInv
<1>1. CASE Tick \/ UNCHANGED vars
  <2>1. SameQueues /\ SamePlaces /\ SameFlags /\ created' = created
    BY <1>1, Zenon DEF Tick, vars, SameQueues, SamePlaces, SameFlags, threadVars, cpuVars
  <2> QED
    BY <2>1, UnbornIdle, Zenon DEF UnbornInv
<1>2. ASSUME NEW c \in CPUs, KernelStep(c) PROVE Unborn(t)'
  <2>1. t \notin created /\ Unborn(t)
    BY <1>2, CreatedGrows, Zenon DEF UnbornInv
  <2> QED
    BY <1>2, <2>1, QuietUnborn, UnbornIdle, ExpireUnborn, SelectUnborn, ScanUnborn, AssignUnborn,
       AddUnborn, BlockUnborn, PreemptUnborn, WakeupsPop, PopUnborn, Zenon DEF KernelStep
<1>3. ASSUME NEW c \in CPUs, TrapStep(c) PROVE Unborn(t)'
  <2>1. t \notin created /\ Unborn(t)
    BY <1>3, CreatedGrows, Zenon DEF UnbornInv, Spawn
  <2> QED
    BY <1>3, <2>1, QuietUnborn, UnbornIdle, BlockUnborn, PreemptUnborn, WakeupsPop, PopUnborn,
       SpawnUnborn, ExitUnborn, Zenon DEF TrapStep
<1> QED
  BY <1>1, <1>2, <1>3, Zenon DEF Next

(* At start only the shell is born. *)
LEMMA InitUnborn ==
  ASSUME Init
  PROVE  UnbornInv
<1>1. PICK shell \in Threads : created = {shell} /\ ready_queue = <<shell>>
  BY Zenon DEF Init
<1>2. ASSUME NEW t \in Threads, t # shell PROVE Unborn(t)
  <2>1. \A X : ~ In(<< >>, X)
    BY DEF In
  <2>2. ~ In(<<shell>>, {t})
    BY <1>2 DEF In
  <2>3. Nowhere(t)
    BY <1>1, <2>1, <2>2, Zenon DEF Nowhere, Init
  <2>4. NotOnCPU(t)
    <3>1. ASSUME NEW c \in CPUs PROVE c # t /\ Nobody # t
      BY SchedulerAssumption
    <3>2. \A c \in CPUs : current_thread[c] = c /\ target[c] = Nobody
      BY Zenon DEF Init
    <3> QED
      BY <3>1, <3>2, Zenon DEF NotOnCPU
  <2>5. Untouched(t)
    BY DEF Untouched, AllThreads, Init
  <2> QED
    BY <2>3, <2>4, <2>5, UnbornParts, Zenon
<1> QED
  BY <1>1, <1>2, Zenon DEF UnbornInv
-----------------------------------------------------------------------------
(* On one CPU the current thread is marked RUNNING from Mark until it gives *)
(* up the CPU.                                                              *)
Active == {"switch", "run", "sleep", "block", "wakeall", "push_one", "push_all", "push_new"}

MarkedInv ==
  \A c \in CPUs : pc[c] \in Active /\ current_thread[c] \in Threads
                 => status_running[current_thread[c]]

(* A step that goes to a label where none is marked, or leaves the mark. *)
Leaves(c) ==
  pc'[c] \in Active => pc[c] \in Active /\ UNCHANGED <<status_running, current_thread>>

(* Such a step keeps MarkedInv on one CPU. *)
LEMMA LeavesMark ==
  ASSUME OneCPU, MarkedInv, NEW c \in CPUs, Leaves(c)
  PROVE  MarkedInv'
<1>1. \A d \in CPUs : d = c
  BY Zenon DEF OneCPU
<1> QED
  BY <1>1, Zenon DEF MarkedInv, Leaves

(* The steps of the scheduler that are such steps, *)
LEMMA KernelLeaves ==
  ASSUME TypeOK, NEW c \in CPUs
  PROVE  /\ CheckSleeping(c) \/ ExpireDone(c) \/ Select(c) => Leaves(c)
         /\ Expire(c) => Leaves(c)
         /\ ScanErase(c) \/ ScanSkip(c) => Leaves(c)
         /\ ScanPick(c) \/ ScanIdle(c) \/ Assign(c) => Leaves(c)
         /\ SwitchContext(c) => Leaves(c)
         /\ AddReadyThread(c) => Leaves(c)
         /\ SleepPush(c) \/ SleepBlock(c) \/ Resched(c) \/ WakeAllExit(c) => Leaves(c)
<1>1. pc \in [CPUs -> PCs]
  BY Zenon DEF TypeOK
<1> USE <1>1 DEF Leaves, Goto, Active
<1>2. CheckSleeping(c) \/ ExpireDone(c) \/ Select(c) => Leaves(c)
  BY Zenon DEF CheckSleeping, ExpireDone, Select
<1>3. Expire(c) => Leaves(c)
  BY Zenon DEF Expire, wakeup
<1>4. ScanErase(c) \/ ScanSkip(c) => Leaves(c)
  BY Zenon DEF ScanErase, ScanSkip
<1>5. ScanPick(c) \/ ScanIdle(c) \/ Assign(c) => Leaves(c)
  BY Zenon DEF ScanPick, ScanIdle, Chosen, Assign
<1>6. SwitchContext(c) => Leaves(c)
  BY Zenon DEF SwitchContext, threadVars
<1>7. AddReadyThread(c) => Leaves(c)
  BY Zenon DEF AddReadyThread, threadVars
<1>8. SleepPush(c) \/ SleepBlock(c) \/ Resched(c) \/ WakeAllExit(c) => Leaves(c)
  BY Zenon DEF SleepPush, SleepBlock, Resched, WakeAllExit, do_scheduler, threadVars
<1> QED
  BY <1>2, <1>3, <1>4, <1>5, <1>6, <1>7, <1>8, Zenon

(* ... and the traps. *)
LEMMA TrapLeaves ==
  ASSUME TypeOK, NEW c \in CPUs
  PROVE  /\ Preempt(c) \/ do_block(c) => Leaves(c)
         /\ Sleep(c) \/ WakeAllEnter(c) \/ Spawn(c) => Leaves(c)
         /\ Exit(c) => Leaves(c)
         /\ Pops(c) => Leaves(c)
<1>1. pc \in [CPUs -> PCs]
  BY Zenon DEF TypeOK
<1> USE <1>1 DEF Leaves, Goto, Active
<1>2. Preempt(c) \/ do_block(c) => Leaves(c)
  BY Zenon DEF Preempt, do_scheduler, do_block
<1>3. Sleep(c) \/ WakeAllEnter(c) \/ Spawn(c) => Leaves(c)
  BY Zenon DEF Sleep, WakeAllEnter, Spawn, threadVars, Syscall, InUser
<1>4. Exit(c) => Leaves(c)
  BY Zenon DEF Exit, do_scheduler, Syscall, InUser
<1>5. Pops(c) => Leaves(c)
  BY Zenon DEF Pops
<1> QED
  BY <1>2, <1>3, <1>4, <1>5, Zenon

(* do_scheduler marks the thread it switches to. *)
LEMMA MarkMarks ==
  ASSUME OneCPU, IInv, NEW c \in CPUs, Mark(c)
  PROVE  MarkedInv'
<1>1. \A d \in CPUs : d = c
  BY Zenon DEF OneCPU
<1>2. /\ target[c] = current_thread[c] /\ current_thread' = current_thread
      /\ status_running' = [status_running EXCEPT ![target[c]] = TRUE]
  BY Zenon DEF Mark, IInv, TargetInv
<1>3. current_thread[c] \in Threads => status_running'[current_thread[c]]
  BY <1>2, ThreadTypes, Zenon
<1> QED
  BY <1>1, <1>2, <1>3, Zenon DEF MarkedInv

(* MarkedInv is inductive on one CPU. *)
LEMMA MarkedStep ==
  ASSUME OneCPU, IInv, MarkedInv, [Next]_vars
  PROVE  MarkedInv'
<1>1. TypeOK
  BY Zenon DEF IInv
<1>2. CASE Tick \/ UNCHANGED vars \/ \E c \in CPUs : TaskSet(c)
  <2>1. UNCHANGED <<status_running, pc, current_thread>>
    BY <1>2, Zenon DEF Tick, TaskSet, vars, threadVars, cpuVars
  <2> QED
    BY <2>1, Zenon DEF MarkedInv
<1>3. ASSUME NEW c \in CPUs, KernelStep(c) PROVE MarkedInv'
  BY <1>1, <1>3, KernelLeaves, TrapLeaves, LeavesMark, MarkMarks, WakeupsPop, Zenon DEF KernelStep
<1>4. ASSUME NEW c \in CPUs, TrapStep(c) PROVE MarkedInv'
  BY <1>1, <1>2, <1>4, TrapLeaves, LeavesMark, WakeupsPop, Zenon DEF TrapStep
<1> QED
  BY <1>2, <1>3, <1>4, Zenon DEF Next

-----------------------------------------------------------------------------
(* The refinement of ThreadStates, step by step.  Only t changes its status. *)
Only(t) ==
  \A u \in Threads : u # t =>
    /\ u \in created' <=> u \in created
    /\ status_block_cnt'[u] = status_block_cnt[u]
    /\ status_exited'[u] = status_exited[u]
    /\ status_running'[u] = status_running[u]

(* What status() returns, by cases, *)
LEMMA StatusOf ==
  ASSUME IInv, NEW t \in Threads
  PROVE  /\ t \notin created => Statuses[t] = "NEW"
         /\ t \in created /\ status_exited[t] => Statuses[t] = "EXITED"
         /\ t \in created /\ ~status_exited[t] /\ status_block_cnt[t] # 0 => Statuses[t] = "BLOCKED"
         /\ t \in created /\ ~status_exited[t] /\ status_block_cnt[t] = 0 =>
              Statuses[t] = IF status_running[t] THEN "RUNNING" ELSE "READY"
<1>1. Statuses[t] = IF t \in created THEN status(t) ELSE "NEW"
  BY Zenon DEF Statuses
<1>2. status_exited[t] \in BOOLEAN /\ status_running[t] \in BOOLEAN
  BY ThreadTypes
<1> QED
  BY <1>1, <1>2 DEF status

(* ... and after a step. *)
LEMMA NextStatusOf ==
  ASSUME IInv', NEW t \in Threads
  PROVE  /\ t \notin created' => Statuses'[t] = "NEW"
         /\ t \in created' /\ status_exited'[t] => Statuses'[t] = "EXITED"
         /\ t \in created' /\ ~status_exited'[t] /\ status_block_cnt'[t] # 0 => Statuses'[t] = "BLOCKED"
         /\ t \in created' /\ ~status_exited'[t] /\ status_block_cnt'[t] = 0 =>
              Statuses'[t] = IF status_running'[t] THEN "RUNNING" ELSE "READY"
<1>1. Statuses'[t] = IF t \in created' THEN status(t)' ELSE "NEW"
  BY Zenon DEF Statuses
<1>2. status_exited'[t] \in BOOLEAN /\ status_running'[t] \in BOOLEAN
  BY DEF IInv, TypeOK, AllThreads
<1> QED
  BY <1>1, <1>2 DEF status

(* Another thread keeps its status. *)
LEMMA OnlyStatus ==
  ASSUME NEW t, Only(t), NEW u \in Threads, u # t
  PROVE  Statuses'[u] = Statuses[u]
<1>1. Statuses[u] = IF u \in created THEN status(u) ELSE "NEW"
  BY Zenon DEF Statuses
<1>2. Statuses'[u] = IF u \in created' THEN status(u)' ELSE "NEW"
  BY Zenon DEF Statuses
<1>3. /\ u \in created' <=> u \in created
      /\ status_block_cnt'[u] = status_block_cnt[u]
      /\ status_exited'[u] = status_exited[u]
      /\ status_running'[u] = status_running[u]
  BY Zenon DEF Only
<1>4. status(u)' = status(u)
  BY <1>3, Zenon DEF status
<1> QED
  BY <1>1, <1>2, <1>3, <1>4, Zenon

(* If only t changes, the threads make one move of ThreadStates, or none. *)
LEMMA StatusMoves ==
  ASSUME NEW t \in Threads, Only(t)
  PROVE  /\ Statuses'[t] = Statuses[t] => Statuses' = Statuses
         /\ \A from, to : Statuses[t] = from /\ Statuses'[t] = to => Abstract!Move(t, from, to)
<1>1. /\ Statuses = [u \in Threads |-> Statuses[u]]
      /\ Statuses' = [u \in Threads |-> Statuses'[u]]
  BY Zenon DEF Statuses
<1>2. ASSUME NEW u \in Threads, u # t PROVE Statuses'[u] = Statuses[u]
  BY <1>2, OnlyStatus
<1>3. PICK S : S = Statuses
  BY Zenon
<1>4. PICK T : T = Statuses'
  BY Zenon
<1>5. /\ S = [u \in Threads |-> S[u]] /\ T = [u \in Threads |-> T[u]]
      /\ \A u \in Threads : u # t => T[u] = S[u]
  BY <1>1, <1>2, <1>3, <1>4, Zenon
<1>6. /\ T[t] = S[t] => T = S
      /\ T = [S EXCEPT ![t] = T[t]]
  BY <1>5
<1> QED
  BY <1>3, <1>4, <1>6, Zenon DEF Abstract!Move

(* Without a change of a flag there is none. *)
LEMMA SameStatus ==
  ASSUME SameFlags, created' = created
  PROVE  Statuses' = Statuses
BY Zenon DEF SameFlags, Statuses, status

(* do_scheduler on the way out: RUNNING becomes READY. *)
LEMMA ClearStatus ==
  ASSUME IInv, IInv', NEW u \in AllThreads, SetRunning(u, FALSE),
         UNCHANGED <<created, status_exited, status_block_cnt>>
  PROVE  Statuses' = Statuses \/ Abstract!Next
<1>1. \A v \in AllThreads : status_running'[v] = IF v = u THEN FALSE ELSE status_running[v]
  BY ThreadTypes DEF SetRunning
<1>2. CASE u \notin Threads
  <2>1. \A v \in Threads : status_running'[v] = status_running[v]
    BY <1>1, <1>2, ThreadTypes, Zenon
  <2> QED
    BY <2>1, Zenon DEF Statuses, status
<1>3. CASE u \in Threads
  <2>1. Only(u) /\ ~ status_running'[u]
    BY <1>1, <1>3, ThreadTypes, Zenon DEF Only
  <2>2. CASE u \in created /\ ~status_exited[u] /\ status_block_cnt[u] = 0 /\ status_running[u]
    <3>1. Statuses[u] = "RUNNING"
      BY <1>3, <2>2, StatusOf, Zenon
    <3>2. Statuses'[u] = "READY"
      BY <1>3, <2>1, <2>2, NextStatusOf, Zenon
    <3>3. Abstract!Move(u, "RUNNING", "READY")
      BY <1>3, <2>1, <3>1, <3>2, StatusMoves, Zenon
    <3> QED
      BY <1>3, <3>3, Zenon DEF Abstract!Next, Abstract!Preempt
  <2>3. CASE ~(u \in created /\ ~status_exited[u] /\ status_block_cnt[u] = 0 /\ status_running[u])
    <3>1. Statuses'[u] = Statuses[u]
      BY <1>3, <2>1, <2>3, Zenon DEF Statuses, status
    <3> QED
      BY <1>3, <2>1, <3>1, StatusMoves, Zenon
  <2> QED
    BY <2>2, <2>3, Zenon
<1> QED
  BY <1>2, <1>3, Zenon

(* The writes, seen from the threads. *)
LEMMA CountOnly ==
  ASSUME IInv, NEW u \in Threads, NEW n, SetCount(u, n),
         UNCHANGED <<created, status_exited, status_running>>
  PROVE  Only(u) /\ status_block_cnt'[u] = n
<1>1. \A v \in AllThreads : status_block_cnt'[v] = IF v = u THEN n ELSE status_block_cnt[v]
  BY ThreadTypes DEF SetCount
<1> QED
  BY <1>1, ThreadTypes, Zenon DEF Only

(* A RUNNING flag is the flag of one thread. *)
LEMMA RunningOnly ==
  ASSUME IInv, NEW u \in Threads, NEW b, SetRunning(u, b),
         UNCHANGED <<created, status_exited, status_block_cnt>>
  PROVE  Only(u) /\ status_running'[u] = b
<1>1. \A v \in AllThreads : status_running'[v] = IF v = u THEN b ELSE status_running[v]
  BY ThreadTypes DEF SetRunning
<1> QED
  BY <1>1, ThreadTypes, Zenon DEF Only

(* The other flags stay. *)
LEMMA ElseRuns ==
  ASSUME IInv, NEW u, NEW b, SetRunning(u, b), NEW v \in Threads, v # u
  PROVE  status_running'[v] = status_running[v]
BY ThreadTypes DEF SetRunning

(* On one CPU no thread is RUNNING while the CPU chooses the next. *)
LEMMA NoneRuns ==
  ASSUME OneCPU, IInv, NEW c \in CPUs, pc[c] \in Leaving, NEW t \in Threads
  PROVE  ~status_running[t]
BY Zenon DEF OneCPU, IInv, RunningInv

(* READY becomes RUNNING. *)
LEMMA MarkStatus ==
  ASSUME OneCPU, IInv, IInv', NEW c \in CPUs, Mark(c)
  PROVE  Statuses' = Statuses \/ Abstract!Next
<1>1. /\ pc[c] = "mark" /\ SetRunning(target[c], TRUE)
      /\ UNCHANGED <<created, status_exited, status_block_cnt>>
  BY Zenon DEF Mark, SetRunning
<1>2. PICK u \in Threads \cup {c} : u = target[c]
  BY <1>1, Zenon DEF IInv, TargetInv
<1>3. pc[c] \in Leaving
  BY <1>1, Zenon DEF Leaving
<1>4. \A t \in Threads : ~status_running[t]
  BY <1>3, NoneRuns, Zenon
<1>5. CASE u \notin Threads
  <2>1. \A v \in Threads : status_running'[v] = status_running[v]
    <3>1. SetRunning(u, TRUE)
      BY <1>1, <1>2, Zenon
    <3>2. ASSUME NEW v \in Threads PROVE status_running'[v] = status_running[v]
      BY <1>5, <3>1, ElseRuns, Zenon
    <3> QED
      BY <3>2, Zenon
  <2> QED
    BY <1>1, <2>1, Zenon DEF Statuses, status
<1>6. CASE u \in Threads
  <2>1. Only(u) /\ status_running'[u]
    BY <1>1, <1>2, <1>6, RunningOnly, Zenon
  <2>2. CASE u \in created /\ ~status_exited[u] /\ status_block_cnt[u] = 0
    <3>1. Statuses[u] = "READY" /\ Statuses'[u] = "RUNNING"
      BY <1>1, <1>4, <1>6, <2>1, <2>2, StatusOf, NextStatusOf, Zenon
    <3>2. Abstract!Move(u, "READY", "RUNNING")
      BY <1>6, <2>1, <3>1, StatusMoves, Zenon
    <3>3. \A v \in Threads : Statuses[v] # "RUNNING"
      BY <1>4 DEF Statuses, status
    <3> QED
      BY <1>6, <3>2, <3>3, Zenon DEF Abstract!Next, Abstract!Dispatch
  <2>3. CASE ~(u \in created /\ ~status_exited[u] /\ status_block_cnt[u] = 0)
    <3>1. Statuses'[u] = Statuses[u]
      BY <1>1, <1>6, <2>1, <2>3, StatusOf, NextStatusOf, Zenon
    <3> QED
      BY <1>6, <2>1, <3>1, StatusMoves, Zenon
  <2> QED
    BY <2>2, <2>3, Zenon
<1> QED
  BY <1>5, <1>6, Zenon

(* RUNNING becomes BLOCKED. *)
LEMMA BlockStatus ==
  ASSUME IInv, IInv', NEW u \in Threads, status_block_cnt[u] = 0, status_running[u],
         SetCount(u, 1), UNCHANGED <<created, status_exited, status_running>>
  PROVE  Statuses' = Statuses \/ Abstract!Next
<1>1. Only(u) /\ status_block_cnt'[u] = 1
  BY CountOnly, Zenon
<1>2. status_block_cnt'[u] # 0
  BY <1>1
<1>3. CASE u \in created /\ ~status_exited[u]
  <2>1. Statuses[u] = "RUNNING" /\ Statuses'[u] = "BLOCKED"
    BY <1>2, <1>3, StatusOf, NextStatusOf, Zenon
  <2>2. Abstract!Move(u, "RUNNING", "BLOCKED")
    BY <1>1, <2>1, StatusMoves, Zenon
  <2> QED
    BY <2>2, Zenon DEF Abstract!Next, Abstract!Block
<1>4. CASE ~(u \in created /\ ~status_exited[u])
  <2>1. Statuses'[u] = Statuses[u]
    <3>1. CASE u \notin created
      <4>1. Statuses[u] = "NEW"
        BY <3>1, StatusOf, Zenon
      <4>2. Statuses'[u] = "NEW"
        BY <3>1, NextStatusOf, Zenon
      <4> QED
        BY <4>1, <4>2, Zenon
    <3>2. CASE u \in created /\ status_exited[u]
      <4>1. Statuses[u] = "EXITED"
        BY <3>2, StatusOf, Zenon
      <4>2. Statuses'[u] = "EXITED"
        BY <3>2, NextStatusOf, Zenon
      <4> QED
        BY <4>1, <4>2, Zenon
    <3> QED
      BY <1>4, <3>1, <3>2, Zenon
  <2> QED
    BY <1>1, <2>1, StatusMoves, Zenon
<1> QED
  BY <1>3, <1>4, Zenon

(* BLOCKED becomes READY, or stays. *)
LEMMA WakeStatus ==
  ASSUME IInv, IInv', NEW u \in Threads, status_block_cnt[u] # 0, ~status_running[u],
         NEW n, SetCount(u, n), UNCHANGED <<created, status_exited, status_running>>
  PROVE  Statuses' = Statuses \/ Abstract!Next
<1>1. Only(u) /\ status_block_cnt'[u] = n
  BY CountOnly, Zenon
<1>2. CASE u \in created /\ ~status_exited[u] /\ n = 0
  <2>1. Statuses[u] = "BLOCKED" /\ Statuses'[u] = "READY"
    BY <1>1, <1>2, StatusOf, NextStatusOf, Zenon
  <2>2. Abstract!Move(u, "BLOCKED", "READY")
    BY <1>1, <2>1, StatusMoves, Zenon
  <2> QED
    BY <2>2, Zenon DEF Abstract!Next, Abstract!Wake
<1>3. CASE ~(u \in created /\ ~status_exited[u] /\ n = 0)
  <2>1. Statuses'[u] = Statuses[u]
    BY <1>1, <1>3, StatusOf, NextStatusOf, Zenon
  <2> QED
    BY <1>1, <2>1, StatusMoves, Zenon
<1> QED
  BY <1>2, <1>3, Zenon

(* NEW becomes READY. *)
LEMMA SpawnStatus ==
  ASSUME IInv, IInv', UnbornInv, NEW c \in CPUs, Spawn(c)
  PROVE  Abstract!Next
<1>1. PICK u \in Threads : u \notin created /\ created' = created \cup {u}
  BY Zenon DEF Spawn
<1>2. SameFlags
  BY Zenon DEF Spawn, SameFlags, threadVars
<1>3. Only(u) /\ u \in created'
  BY <1>1, <1>2, Zenon DEF Only, SameFlags
<1>4. status_block_cnt[u] = 0 /\ ~status_exited[u] /\ ~status_running[u]
  BY <1>1, Zenon DEF UnbornInv, Unborn
<1>5. Statuses[u] = "NEW" /\ Statuses'[u] = "READY"
  BY <1>1, <1>2, <1>3, <1>4, StatusOf, NextStatusOf, Zenon DEF SameFlags
<1>6. Abstract!Move(u, "NEW", "READY")
  BY <1>3, <1>5, StatusMoves, Zenon
<1> QED
  BY <1>6, Zenon DEF Abstract!Next, Abstract!Start

(* Any status becomes EXITED. *)
LEMMA ExitStatus ==
  ASSUME IInv, IInv', NEW c \in CPUs, Exit(c)
  PROVE  Abstract!Next
<1>1. PICK u \in created :
        /\ ~status_exited[u] /\ status_exited' = [status_exited EXCEPT ![u] = TRUE]
        /\ IF u = current_thread[c] THEN do_scheduler(c) ELSE UNCHANGED <<status_running, pc>>
  BY Zenon DEF Exit
<1>2. UNCHANGED <<created, status_block_cnt>> /\ u \in Threads
  BY Zenon DEF Exit, IInv, TypeOK
<1>3. SetRunning(u, FALSE) \/ status_running' = status_running
  BY <1>1, Zenon DEF do_scheduler, SetRunning
<1>4. \A v \in Threads : v # u => status_running'[v] = status_running[v]
  <2>1. status_running \in [AllThreads -> BOOLEAN] /\ Threads \subseteq AllThreads
    BY ThreadTypes, Zenon
  <2> QED
    BY <1>2, <1>3, <2>1 DEF SetRunning
<1>5. status_exited'[u] /\ \A v \in Threads : v # u => status_exited'[v] = status_exited[v]
  <2>1. status_exited \in [AllThreads -> BOOLEAN] /\ Threads \subseteq AllThreads
    BY ThreadTypes, Zenon
  <2> QED
    BY <1>1, <1>2, <2>1
<1>6. Only(u)
  BY <1>2, <1>4, <1>5, Zenon DEF Only
<1>7. Statuses'[u] = "EXITED"
  BY <1>1, <1>2, <1>5, NextStatusOf, Zenon
<1>8. PICK from \in {"READY", "RUNNING", "BLOCKED"} : Statuses[u] = from
  BY <1>1, <1>2, StatusOf, Zenon
<1>9. Abstract!Move(u, from, "EXITED")
  BY <1>2, <1>6, <1>7, <1>8, StatusMoves, Zenon
<1> QED
  BY <1>2, <1>9, Zenon DEF Abstract!Next, Abstract!Exit

(* A thread in a queue is blocked, unless it is between the push of sleep   *)
(* and its block.                                                           *)
LEMMA QueuedIsBlocked ==
  ASSUME Counting, IInv, Balance, NEW w \in Threads, Blocking(w) = {},
         In(wait_queue, {w}) \/ In(sleeping_queue, Items(w))
  PROVE  status_block_cnt[w] # 0
<1>1. Blocks(w) = 0
  BY BlockingIsFinite, Zenon DEF Blocks, Counting
<1>2. Waits(w) \in Nat /\ Sleeps(w) \in Nat
  BY BalanceTypes, Zenon DEF IInv
<1>3. ASSUME NEW S, NEW q \in Seq(S), NEW X, In(q, X)
      PROVE  Count(q, X) # 0
  <2> DEFINE A == {i \in DOMAIN q : q[i] \in X}
  <2>1. A # {}
    BY <1>3, Zenon DEF In
  <2>2. IsFiniteSet(A)
    BY CountType, Zenon
  <2>3. Count(q, X) = Cardinality(A)
    BY Zenon DEF Count
  <2> HIDE DEF A
  <2> QED
    BY <2>1, <2>2, <2>3, Zenon DEF Counting
<1>4. Waits(w) # 0 \/ Sleeps(w) # 0
  BY <1>3, ThreadTypes, Zenon DEF Waits, Sleeps
<1>5. status_block_cnt[w] = (Waits(w) + Sleeps(w)) - Blocks(w)
  BY Zenon DEF Balance, Balanced
<1> QED
  BY <1>1, <1>2, <1>4, <1>5

(* An expired sleeper: BLOCKED becomes READY, or stays. *)
LEMMA ExpireStatus ==
  ASSUME OneCPU, Counting, IInv, IInv', Balance, NEW c \in CPUs, Expire(c)
  PROVE  Statuses' = Statuses \/ Abstract!Next
<1>1. PICK i \in Tops : wakeup(c, sleeping_queue[i][2], "push_sleeper", "expire")
  BY Zenon DEF Expire
<1>2. pc[c] = "expire" /\ UNCHANGED <<created, status_exited, status_running>>
  BY Zenon DEF Expire
<1>3. PICK w \in Threads : w = sleeping_queue[i][2]
  BY TopIsItem, Zenon DEF IInv
<1>4. In(sleeping_queue, Items(w))
  <2>1. i \in DOMAIN sleeping_queue
    BY Zenon DEF Tops
  <2>2. sleeping_queue[i] \in (0..MaxTime) \X Threads
    BY <2>1, ThreadTypes
  <2>3. sleeping_queue[i] \in Items(w)
    BY <1>3, <2>2 DEF Items
  <2> QED
    BY <2>1, <2>3, Zenon DEF In
<1>5. pc[c] # "block" /\ pc[c] \in Leaving
  BY <1>2 DEF Leaving
<1>6. Blocking(w) = {}
  BY <1>5, Zenon DEF Blocking, OneCPU
<1>7. status_block_cnt[w] # 0 /\ ~status_running[w]
  BY <1>4, <1>5, <1>6, QueuedIsBlocked, NoneRuns, Zenon
<1>8. SetCount(w, status_block_cnt[w] - 1)
  BY <1>1, <1>3, Zenon DEF wakeup, SetCount
<1> QED
  BY <1>2, <1>7, <1>8, WakeStatus, Zenon

(* So does a thread woken from a wait queue. *)
LEMMA PopStatus ==
  ASSUME OneCPU, Counting, IInv, IInv', Balance, AwakeInv, NEW c \in CPUs, Pops(c)
  PROVE  Statuses' = Statuses \/ Abstract!Next
<1>1. /\ pc[c] \in {"run", "wakeall"} /\ wait_queue # << >>
      /\ UNCHANGED <<created, status_exited, status_running>>
      /\ status_block_cnt' = [status_block_cnt EXCEPT ![Head(wait_queue)] = @ - 1]
  BY Zenon DEF Pops, wakeup
<1>2. wait_queue \in Seq(Threads)
  BY ThreadTypes, Zenon
<1>3. PICK w \in Threads : w = Head(wait_queue) /\ 1 \in DOMAIN wait_queue /\ wait_queue[1] = w
  BY <1>1, <1>2
<1>4. pc[c] # "block" /\ pc[c] \in Resumed
  BY <1>1 DEF Resumed
<1>5. Blocking(w) = {}
  BY <1>4, Zenon DEF Blocking, OneCPU
<1>6. In(wait_queue, {w})
  BY <1>3, Zenon DEF In
<1>7. status_block_cnt[w] # 0
  BY <1>5, <1>6, QueuedIsBlocked, Zenon
<1>8. ~status_running[w]
  <2>1. current_thread[c] # w
    BY <1>4, <1>7, Zenon DEF AwakeInv, Awake
  <2> QED
    BY <2>1, Zenon DEF IInv, RunningInv, OneCPU
<1>9. SetCount(w, status_block_cnt[w] - 1)
  BY <1>1, <1>3, Zenon DEF SetCount
<1> QED
  BY <1>1, <1>7, <1>8, <1>9, WakeStatus, Zenon

(* The current thread that blocks is RUNNING until then. *)
LEMMA BlocksStatus ==
  ASSUME IInv, IInv', AwakeInv, MarkedInv, NEW c \in CPUs
  PROVE  /\ SleepBlock(c) => Statuses' = Statuses \/ Abstract!Next
         /\ do_block(c) => Statuses' = Statuses \/ Abstract!Next
<1>1. ASSUME SleepBlock(c) \/ do_block(c) PROVE Statuses' = Statuses \/ Abstract!Next
  <2>1. /\ pc[c] \in Resumed /\ pc[c] \in Active
        /\ pc[c] = "block" \/ current_thread[c] # c
        /\ status_block_cnt' = [status_block_cnt EXCEPT ![current_thread[c]] = @ + 1]
        /\ UNCHANGED <<created, status_exited, status_running>>
    BY <1>1, Zenon DEF SleepBlock, do_block, Syscall, InUser, Resumed, Active
  <2>2. PICK u \in Threads : u = current_thread[c]
    BY <2>1, Zenon DEF IInv, TargetInv
  <2>3. status_block_cnt[u] = 0 /\ status_running[u]
    BY <2>1, <2>2, Zenon DEF AwakeInv, Awake, MarkedInv
  <2>4. SetCount(u, status_block_cnt[u] + 1)
    BY <2>1, <2>2, Zenon DEF SetCount
  <2>5. status_block_cnt[u] + 1 = 1
    BY <2>3
  <2> QED
    BY <2>1, <2>3, <2>4, <2>5, BlockStatus, Zenon
<1> QED
  BY <1>1, Zenon

(* The steps that clear the flag, and those that change no status. *)
LEMMA ClearsStatus ==
  ASSUME IInv, IInv', NEW c \in CPUs
  PROVE  /\ Preempt(c) => Statuses' = Statuses \/ Abstract!Next
         /\ Resched(c) => Statuses' = Statuses \/ Abstract!Next
         /\ Assign(c) => Statuses' = Statuses \/ Abstract!Next
<1>1. current_thread[c] \in AllThreads
  BY ThreadTypes, Zenon
<1>2. ASSUME Preempt(c) \/ Resched(c) \/ Assign(c)
      PROVE  /\ SetRunning(current_thread[c], FALSE)
             /\ UNCHANGED <<created, status_exited, status_block_cnt>>
  BY <1>2, Zenon DEF Preempt, Resched, Assign, do_scheduler, SetRunning
<1> QED
  BY <1>1, <1>2, ClearStatus, Zenon

(* The other steps change no status. *)
LEMMA QuietStatus ==
  ASSUME NEW c \in CPUs
  PROVE  /\ Select(c) => Statuses' = Statuses
         /\ ScanErase(c) => Statuses' = Statuses
         /\ ScanPick(c) \/ ScanIdle(c) => Statuses' = Statuses
         /\ AddReadyThread(c) => Statuses' = Statuses
         /\ SleepPush(c) => Statuses' = Statuses
<1> USE SameStatus DEF SameFlags, threadVars
<1>1. Select(c) => Statuses' = Statuses
  BY Zenon DEF Select
<1>2. ScanErase(c) => Statuses' = Statuses
  BY Zenon DEF ScanErase
<1>3. ScanPick(c) \/ ScanIdle(c) => Statuses' = Statuses
  BY Zenon DEF ScanPick, ScanIdle, Chosen
<1>4. AddReadyThread(c) => Statuses' = Statuses
  BY Zenon DEF AddReadyThread
<1>5. SleepPush(c) => Statuses' = Statuses
  BY Zenon DEF SleepPush
<1> QED
  BY <1>1, <1>2, <1>3, <1>4, <1>5, Zenon

(* Every step of the scheduler is a step of ThreadStates, or none. *)
LEMMA StatusStep ==
  ASSUME OneCPU, Counting, IInv, IInv', Balance, AwakeInv, UnbornInv, MarkedInv, [Next]_vars
  PROVE  [Abstract!Next]_Statuses
<1>1. CASE Tick \/ UNCHANGED vars
  <2>1. SameFlags /\ created' = created
    BY <1>1, Zenon DEF Tick, vars, SameFlags, threadVars
  <2> QED
    BY <2>1, SameStatus, Zenon
<1>2. ASSUME NEW c \in CPUs, KernelStep(c) PROVE Statuses' = Statuses \/ Abstract!Next
  <2>1. SameFlags => Statuses' = Statuses
    BY <1>2, CreatedGrows, SameStatus, Zenon
  <2> QED
    BY <1>2, <2>1, QuietUnborn, QuietStatus, ExpireStatus, MarkStatus, ClearsStatus, BlocksStatus,
       WakeupsPop, PopStatus, Zenon DEF KernelStep
<1>3. ASSUME NEW c \in CPUs, TrapStep(c) PROVE Statuses' = Statuses \/ Abstract!Next
  <2>1. Spawn(c) \/ (SameFlags => Statuses' = Statuses)
    BY <1>3, CreatedGrows, SameStatus, Zenon
  <2> QED
    BY <1>3, <2>1, QuietUnborn, ClearsStatus, BlocksStatus, WakeupsPop, PopStatus, SpawnStatus,
       ExitStatus, Zenon DEF TrapStep
<1> QED
  BY <1>1, <1>2, <1>3, Zenon DEF Next

(* At start the shell is READY and no other thread exists. *)
LEMMA InitStatuses ==
  ASSUME Init
  PROVE  Abstract!Init
<1>1. PICK shell \in Threads : created = {shell}
  BY Zenon DEF Init
<1>2. ASSUME NEW u \in Threads PROVE Statuses[u] = IF u = shell THEN "READY" ELSE "NEW"
  <2>1. ~status_exited[u] /\ status_block_cnt[u] = 0 /\ ~status_running[u]
    BY DEF Init, AllThreads
  <2>2. u = shell => Statuses[u] = "READY"
    BY <1>1, <2>1, InitIInv, StatusOf, Zenon
  <2>3. u # shell => Statuses[u] = "NEW"
    BY <1>1, InitIInv, StatusOf, Zenon
  <2> QED
    BY <2>2, <2>3, Zenon
<1>3. Statuses = [u \in Threads |-> IF u = shell THEN "READY" ELSE "NEW"]
  BY <1>2, Zenon DEF Statuses
<1> QED
  BY <1>3, Zenon DEF Abstract!Init

-----------------------------------------------------------------------------
INSTANCE FiniteSetTheorems

(* The library proves what counting rests on. *)
LEMMA CountingHolds == Counting
<1>1. \A n \in Nat : \A T \in SUBSET (1..n) : IsFiniteSet(T)
  <2>1. \A n \in Nat : IsFiniteSet(1..n)
    BY FS_Interval
  <2> QED
    BY <2>1, FS_Subset, Zenon
<1>2. \A T \in SUBSET CPUs : IsFiniteSet(T)
  BY FS_Subset, SchedulerAssumption, Zenon
<1>3. \A S : IsFiniteSet(S) => Cardinality(S) \in Nat /\ (Cardinality(S) = 0 <=> S = {})
  BY FS_CardinalityType, FS_EmptySet, Zenon
<1>4. \A S, x : IsFiniteSet(S) /\ x \notin S => Cardinality(S \cup {x}) = Cardinality(S) + 1
  BY FS_AddElement, Zenon
<1>5. \A S, x : IsFiniteSet(S) /\ x \in S => Cardinality(S \ {x}) = Cardinality(S) - 1
  BY FS_RemoveElement, Zenon
<1>6. \A S, T, f : /\ IsFiniteSet(S)
                   /\ f \in [S -> T]
                   /\ \A x, y \in S : f[x] = f[y] => x = y
                   /\ \A y \in T : \E x \in S : f[x] = y
                   => Cardinality(T) = Cardinality(S)
  <2> SUFFICES ASSUME NEW S, NEW T, NEW f, IsFiniteSet(S), f \in [S -> T],
                      \A x, y \in S : f[x] = f[y] => x = y,
                      \A y \in T : \E x \in S : f[x] = y
               PROVE  Cardinality(T) = Cardinality(S)
    BY Zenon
  <2>1. f \in Injection(S, T) /\ f \in Surjection(S, T)
    BY Zenon DEF Injection, Surjection, IsInjective
  <2> QED
    BY <2>1, FS_Bijection, Zenon DEF ExistsBijection, Bijection
<1> QED
  BY <1>1, <1>2, <1>3, <1>4, <1>5, <1>6, Zenon DEF Counting

(* Nobody waits at first. *)
LEMMA InitBalance ==
  ASSUME Init
  PROVE  Balance
<1>1. ASSUME NEW t \in Threads PROVE Balanced(t)
  <2>1. \A X : {i \in DOMAIN << >> : << >>[i] \in X} = {}
    OBVIOUS
  <2>2. Waits(t) = 0 /\ Sleeps(t) = 0
    BY <2>1, FS_EmptySet, Zenon DEF Waits, Sleeps, Count, Init
  <2>3. Blocking(t) = {}
    BY Zenon DEF Blocking, Init
  <2>4. Blocks(t) = 0
    BY <2>3, FS_EmptySet, Zenon DEF Blocks
  <2>5. status_block_cnt[t] = 0
    BY Zenon DEF Init, AllThreads
  <2> QED
    BY <2>2, <2>4, <2>5 DEF Balanced
<1> QED
  BY <1>1, Zenon DEF Balance

(* The block count of a thread is the number of wakeups that will come for  *)
(* it, however push, block, pop and wakeup of several CPUs interleave.      *)
THEOREM CountsAreBalanced == Spec => []BlockCountIsPendingWakeups
<1>1. Init => Balance
  BY InitBalance, Zenon
<1>2. IInv /\ Balance /\ [Next]_vars => Balance'
  BY BalanceStep, CountingHolds, Zenon
<1>3. IInv /\ Balance => BlockCountIsPendingWakeups
  BY BalanceIsCount, Zenon DEF IInv
<1> QED
  BY Invariance, <1>1, <1>2, <1>3, PTL DEF Spec

(* On one CPU a thread that executes user code is not blocked: wakeup and   *)
(* block() balance, and do_scheduler resumes a thread only once they do.    *)
THEOREM ResumedWhenWoken == Spec => [](OneCPU => UserCodeIsNotBlocked)
<1>1. Init => Balance
  BY InitBalance, Zenon
<1>2. Init => AwakeInv
  BY DEF Init, AwakeInv, Awake, AllThreads
<1>3. IInv /\ Balance /\ [Next]_vars => Balance'
  BY BalanceStep, CountingHolds, Zenon
<1>4. IInv /\ Balance /\ (OneCPU => AwakeInv) /\ [Next]_vars => (OneCPU => AwakeInv)'
  <2>1. OneCPU' => OneCPU
    BY Zenon DEF OneCPU
  <2> QED
    BY <2>1, AwakeStep, CountingHolds, Zenon
<1>5. IInv /\ (OneCPU => AwakeInv) => (OneCPU => UserCodeIsNotBlocked)
  BY Zenon DEF IInv, TargetInv, AwakeInv, Awake, Resumed, UserCodeIsNotBlocked, InUser
<1> QED
  BY Invariance, <1>1, <1>2, <1>3, <1>4, <1>5, PTL DEF Spec

(* On one CPU the threads live as ThreadStates says: however the handlers   *)
(* interleave, every step of the scheduler changes the status() of at most  *)
(* one thread, and by one of the changes ThreadStates allows.               *)
THEOREM ThreadsLiveAsPromised == ASSUME OneCPU PROVE Spec => Abstract!Life
<1> DEFINE J == Balance /\ AwakeInv /\ UnbornInv /\ MarkedInv
<1>1. Init => J /\ Abstract!Init
  <2> SUFFICES ASSUME Init PROVE J /\ Abstract!Init
    OBVIOUS
  <2>1. Balance /\ UnbornInv /\ Abstract!Init
    BY InitBalance, InitUnborn, InitStatuses, Zenon
  <2>2. AwakeInv
    BY DEF Init, AwakeInv, Awake, AllThreads
  <2>3. MarkedInv
    BY SchedulerAssumption DEF Init, MarkedInv
  <2> QED
    BY <2>1, <2>2, <2>3
<1>2. IInv /\ J /\ [Next]_vars => J'
  BY BalanceStep, AwakeStep, UnbornStep, MarkedStep, CountingHolds, Zenon
<1>3. IInv /\ IInv' /\ J /\ [Next]_vars => [Abstract!Next]_Statuses
  BY StatusStep, CountingHolds, Zenon
<1> HIDE DEF J
<1> QED
  BY Invariance, <1>1, <1>2, <1>3, PTL DEF Spec, Abstract!Life
=============================================================================
