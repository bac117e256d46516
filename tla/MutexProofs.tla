----------------------------- MODULE MutexProofs -----------------------------
(***************************************************************************)
(* The theorems about Mutex, for all threads, processes and machines: no    *)
(* signal is lost and no waiter is left beside a free mutex on any number   *)
(* of CPUs, and on one CPU the mutex excludes.                              *)
(***************************************************************************)
EXTENDS Mutex, Queues, SequenceTheorems, FiniteSetTheorems, TLAPS

(* Z3 gets half a minute, through either encoding; a leaf for Zenon says so. *)
USE SMTT(30), Z3T(30)

InWait == {"unlock", "block", "waiting"}

(* A thread is queued at most once, and where the queue says it is. *)
Queues ==
  /\ Distinct(wait_queue) /\ Distinct(cond_queue)
  /\ \A t \in Waiters(wait_queue) : pc[t] = "blocked"
  /\ \A t \in Waiters(cond_queue) : pc[t] \in InWait

(* The block count that the place of a thread and the queues call for. *)
Due(t) ==
  IF pc[t] = "blocked" THEN IF t \in Waiters(wait_queue) THEN 1 ELSE 0
  ELSE IF pc[t] = "waiting" THEN IF t \in Waiters(cond_queue) THEN 1 ELSE 0
  ELSE IF pc[t] \in {"unlock", "block"} THEN IF t \in Waiters(cond_queue) THEN 0 ELSE -1
  ELSE 0

Counts == \A t \in Threads : status_block_cnt[t] = Due(t)

NoneBesideFree == owner = Nobody => wait_queue = <<>>

Core == TypeOK /\ Queues /\ Counts /\ NoneBesideFree

(* t has the mutex, or was handed it and has not run since. *)
Has(t) ==
  \/ pc[t] \in {"critical", "release", "unlock"}
  \/ pc[t] = "blocked" /\ t \notin Waiters(wait_queue)

(* One CPU: one thread is inside the kernel, it is not killed there, and    *)
(* owner names the thread that has the mutex.                               *)
Uni ==
  machine.cpus = 1 =>
    /\ \A t, u \in Threads : pc[t] \in Kernel /\ pc[u] \in Kernel => t = u
    /\ \A t \in Threads : pc[t] \in Kernel => ~status_exited[t]
    /\ \A t \in Threads : Has(t) /\ ~status_exited[t] => owner = t
    /\ \A t \in Threads : pc[t] = "own" => owner \in {t, Nobody}

IInv == Core /\ Uni

-----------------------------------------------------------------------------
(* push adds one member, and keeps the queue distinct if it is a new one. *)
LEMMA AppendMembers ==
  ASSUME NEW S, NEW q \in Seq(S), NEW t \in S
  PROVE  /\ Append(q, t) \in Seq(S)
         /\ Members(Append(q, t)) = Members(q) \cup {t}
         /\ Distinct(q) /\ t \notin Members(q) => Distinct(Append(q, t))
<1>1. \A x \in Members(Append(q, t)) : x \in Members(q) \cup {t}
  BY DEF Members
<1>2. \A i \in DOMAIN q : i \in DOMAIN Append(q, t) /\ Append(q, t)[i] = q[i]
  OBVIOUS
<1>3. Len(q) + 1 \in DOMAIN Append(q, t) /\ Append(q, t)[Len(q) + 1] = t
  OBVIOUS
<1>4. \A x \in Members(q) \cup {t} : x \in Members(Append(q, t))
  BY <1>2, <1>3, Zenon DEF Members
<1>5. Distinct(q) /\ t \notin Members(q) => Distinct(Append(q, t))
  BY DEF Members, Distinct
<1> QED
  BY <1>1, <1>4, <1>5

(* pop removes the member at the front. *)
LEMMA TailMembers ==
  ASSUME NEW S, NEW q \in Seq(S), q # <<>>, Distinct(q)
  PROVE  /\ Tail(q) \in Seq(S) /\ Distinct(Tail(q))
         /\ Head(q) \in S /\ Head(q) \in Members(q)
         /\ Members(Tail(q)) = Members(q) \ {Head(q)}
<1>1. \A x \in Members(Tail(q)) : x \in Members(q) \ {Head(q)}
  BY DEF Members, Distinct
<1>2. \A i \in DOMAIN q : q[i] # Head(q) => i - 1 \in DOMAIN Tail(q) /\ Tail(q)[i - 1] = q[i]
  OBVIOUS
<1>3. \A x \in Members(q) \ {Head(q)} : x \in Members(Tail(q))
  BY <1>2, Zenon DEF Members
<1>4. Tail(q) \in Seq(S) /\ Distinct(Tail(q)) /\ Head(q) \in S /\ Head(q) \in Members(q)
  BY DEF Members, Distinct
<1> QED
  BY <1>1, <1>3, <1>4, Zenon

(* Queues of threads, with Waiters for their members. *)
LEMMA AppendWaiters ==
  ASSUME NEW q \in Seq(Threads), NEW t \in Threads
  PROVE  /\ Append(q, t) \in Seq(Threads)
         /\ Waiters(Append(q, t)) = Waiters(q) \cup {t}
         /\ Distinct(q) /\ t \notin Waiters(q) => Distinct(Append(q, t))
  BY AppendMembers, Zenon DEF Waiters, Members

(* A queue without its head has the other members. *)
LEMMA TailWaiters ==
  ASSUME NEW q \in Seq(Threads), q # <<>>, Distinct(q)
  PROVE  /\ Tail(q) \in Seq(Threads) /\ Distinct(Tail(q))
         /\ Head(q) \in Threads /\ Head(q) \in Waiters(q)
         /\ Waiters(Tail(q)) = Waiters(q) \ {Head(q)}
  BY TailMembers, Zenon DEF Waiters, Members

-----------------------------------------------------------------------------
(* A thread that is in neither queue and owes no wakeup goes on to label l. *)
LEMMA MoveKeepsCore ==
  ASSUME Core, NEW t \in Threads, NEW l \in {"idle", "critical", "acquire", "own", "release"},
         Goto(t, l), status_block_cnt[t] = 0,
         t \notin Waiters(wait_queue), t \notin Waiters(cond_queue),
         UNCHANGED <<machine, wait_queue, cond_queue, status_block_cnt, status_exited>>,
         lock' \in Threads \cup {Nobody}, owner' \in Threads \cup {Nobody},
         owner' = Nobody => owner = Nobody
  PROVE  Core'
<1>1. TypeOK /\ Queues /\ Counts /\ NoneBesideFree
  BY Zenon DEF Core
<1>2. pc' = [pc EXCEPT ![t] = l] /\ pc'[t] = l /\ \A u \in Threads : u # t => pc'[u] = pc[u]
  BY <1>1, Zenon DEF Goto, TypeOK
<1>3. TypeOK'
  BY <1>1, <1>2, Zenon DEF TypeOK, User, Kernel
<1>4. Waiters(wait_queue)' = Waiters(wait_queue) /\ Waiters(cond_queue)' = Waiters(cond_queue)
  BY Zenon DEF Waiters
<1>5. Waiters(wait_queue) \subseteq Threads /\ Waiters(cond_queue) \subseteq Threads
  BY <1>1 DEF TypeOK, Waiters
<1>6. Queues'
  BY <1>1, <1>2, <1>4, <1>5, Zenon DEF Queues, Distinct
<1>7. Counts'
  BY <1>1, <1>2, <1>4, Zenon DEF Counts, Due
<1>8. QED BY <1>1, <1>3, <1>6, <1>7, Zenon DEF Core, NoneBesideFree

(* A thread outside the queues and outside condition wait owes no wakeup. *)
LEMMA Unqueued ==
  ASSUME Core, NEW t \in Threads, pc[t] \in {"idle", "critical", "acquire", "own", "release"}
  PROVE  status_block_cnt[t] = 0 /\ t \notin Waiters(wait_queue) /\ t \notin Waiters(cond_queue)
BY Zenon DEF Core, Queues, Counts, Due, InWait

(* What release may do to the mutex. *)
LEMMA ReleaseCases ==
  ASSUME TypeOK, NoneBesideFree, NEW p \in Processes, release(p)
  PROVE  \/ UNCHANGED <<owner, wait_queue, status_block_cnt>>
         \/ /\ owner \in Threads /\ ProcessOf[owner] = p /\ wait_queue = <<>>
            /\ owner' = Nobody /\ UNCHANGED <<wait_queue, status_block_cnt>>
         \/ /\ owner \in Threads /\ ProcessOf[owner] = p /\ wait_queue # <<>>
            /\ owner' = Head(wait_queue)
            /\ wait_queue' = Tail(wait_queue)
            /\ status_block_cnt' = [status_block_cnt EXCEPT ![Head(wait_queue)] = @ - 1]
<1>1. CASE owner = Nobody
  BY <1>1, Zenon DEF release, NoneBesideFree
<1>2. CASE owner # Nobody
  BY <1>2, Zenon DEF release, OwnedBy, TypeOK
<1>3. QED BY <1>1, <1>2, Zenon

(* release keeps the queues and counts right while pc stays. *)
LEMMA ReleaseQueues ==
  ASSUME Core, NEW p \in Processes, release(p)
  PROVE  /\ owner' \in Threads \cup {Nobody} /\ wait_queue' \in Seq(Threads)
         /\ status_block_cnt' \in [Threads -> Int] /\ (owner' = Nobody => wait_queue' = <<>>)
         /\ Distinct(wait_queue') /\ Waiters(wait_queue') \subseteq Waiters(wait_queue)
         /\ \A t \in Threads : t \notin Waiters(wait_queue) \ Waiters(wait_queue') =>
                                   status_block_cnt'[t] = status_block_cnt[t]
         /\ \A t \in Waiters(wait_queue) \ Waiters(wait_queue') : t \in Threads /\ t = owner' /\ status_block_cnt'[t] = 0
<1>1. TypeOK /\ Queues /\ Counts /\ NoneBesideFree /\ wait_queue \in Seq(Threads)
  BY Zenon DEF Core, TypeOK
<1>2. CASE UNCHANGED <<owner, wait_queue, status_block_cnt>>
  BY <1>1, <1>2 DEF TypeOK, Queues, NoneBesideFree
<1>3. CASE /\ wait_queue = <<>>
           /\ owner' = Nobody /\ UNCHANGED <<wait_queue, status_block_cnt>>
  BY <1>1, <1>3 DEF TypeOK, Queues
<1>4. CASE /\ wait_queue # <<>>
           /\ owner' = Head(wait_queue)
           /\ wait_queue' = Tail(wait_queue)
           /\ status_block_cnt' = [status_block_cnt EXCEPT ![Head(wait_queue)] = @ - 1]
  <2>1. /\ Tail(wait_queue) \in Seq(Threads) /\ Distinct(Tail(wait_queue))
        /\ Head(wait_queue) \in Threads /\ Head(wait_queue) \in Waiters(wait_queue)
        /\ Waiters(Tail(wait_queue)) = Waiters(wait_queue) \ {Head(wait_queue)}
    BY <1>1, <1>4, TailWaiters, Zenon DEF Queues
  <2>2. status_block_cnt[Head(wait_queue)] = 1
    BY <1>1, <2>1, Zenon DEF Queues, Counts, Due
  <2>3. status_block_cnt \in [Threads -> Int]
    BY <1>1 DEF TypeOK
  <2>4. /\ status_block_cnt' \in [Threads -> Int] /\ status_block_cnt'[Head(wait_queue)] = 0
        /\ \A t \in Threads : t # Head(wait_queue) => status_block_cnt'[t] = status_block_cnt[t]
    BY <1>4, <2>1, <2>2, <2>3
  <2>5. Head(wait_queue) # Nobody
    BY <2>1, MutexAssumption, Zenon
  <2>6. QED BY <1>4, <2>1, <2>4, <2>5, Zenon
<1>5. QED BY <1>1, <1>2, <1>3, <1>4, ReleaseCases, Zenon

(* release, by the kernel code of t that goes on to label l, or by the end  *)
(* of a process.                                                            *)
LEMMA ReleaseKeepsCore ==
  ASSUME Core, NEW p \in Processes, release(p),
         status_exited' \in [Threads -> BOOLEAN], UNCHANGED <<machine, lock, cond_queue>>,
         \/ UNCHANGED pc
         \/ \E t \in Threads : pc[t] = "release" /\ Goto(t, "idle")
         \/ \E t \in Threads : pc[t] = "unlock" /\ Goto(t, "block")
  PROVE  Core'
<1>1. TypeOK /\ Queues /\ Counts /\ NoneBesideFree
  BY Zenon DEF Core
<1>2. /\ pc' \in [Threads -> User \cup Kernel \cup Off]
      /\ \A u \in Threads : \/ pc'[u] = pc[u]
                            \/ pc[u] = "release" /\ pc'[u] = "idle"
                            \/ pc[u] = "unlock" /\ pc'[u] = "block"
  BY <1>1, Zenon DEF Goto, TypeOK, User, Kernel
<1>3. /\ owner' \in Threads \cup {Nobody} /\ wait_queue' \in Seq(Threads)
      /\ status_block_cnt' \in [Threads -> Int] /\ (owner' = Nobody => wait_queue' = <<>>)
      /\ Distinct(wait_queue') /\ Waiters(wait_queue') \subseteq Waiters(wait_queue)
      /\ \A t \in Threads : t \notin Waiters(wait_queue) \ Waiters(wait_queue') =>
                                status_block_cnt'[t] = status_block_cnt[t]
      /\ \A t \in Waiters(wait_queue) \ Waiters(wait_queue') : t \in Threads /\ t = owner' /\ status_block_cnt'[t] = 0
  BY ReleaseQueues, Zenon
<1>4. Waiters(wait_queue) \subseteq Threads /\ Waiters(cond_queue) \subseteq Threads
  BY <1>1 DEF TypeOK, Waiters
<1>5. Queues'
  BY <1>1, <1>2, <1>3, <1>4, Zenon DEF Queues, InWait
<1>6. Counts'
  <2>1. SUFFICES ASSUME NEW u \in Threads PROVE status_block_cnt'[u] = Due(u)'
    BY Zenon DEF Counts
  <2>2. CASE u \in Waiters(wait_queue)
    <3>1. pc'[u] = "blocked" /\ status_block_cnt[u] = 1
      BY <1>1, <1>2, <2>2, Zenon DEF Queues, Counts, Due
    <3>2. QED BY <1>3, <2>2, <3>1, Zenon DEF Due
  <2>3. CASE u \notin Waiters(wait_queue)
    <3>1. status_block_cnt'[u] = status_block_cnt[u] /\ u \notin Waiters(wait_queue')
      BY <1>3, <2>3, Zenon
    <3>2. QED BY <1>1, <1>2, <2>3, <3>1, Zenon DEF Counts, Due
  <2>4. QED BY <2>2, <2>3, Zenon
<1>7. status_block_cnt' \in [Threads -> {-1, 0, 1}]
  BY <1>3, <1>6, Zenon DEF Counts, Due
<1>8. TypeOK'
  BY <1>1, <1>2, <1>3, <1>7, Zenon DEF TypeOK
<1>9. QED BY <1>3, <1>5, <1>6, <1>8, Zenon DEF Core, NoneBesideFree

-----------------------------------------------------------------------------
(* The steps that queue a thread or take it off cond_queue. *)
LEMMA BlockKeepsCore ==
  ASSUME Core, NEW t \in Threads, AcquireBlock(t), UNCHANGED machine
  PROVE  Core'
<1>1. TypeOK /\ Queues /\ Counts /\ NoneBesideFree
  BY Zenon DEF Core
<1>2. status_block_cnt[t] = 0 /\ t \notin Waiters(wait_queue) /\ t \notin Waiters(cond_queue)
  BY Unqueued, Zenon DEF AcquireBlock
<1>3. /\ wait_queue' \in Seq(Threads) /\ Distinct(wait_queue')
      /\ Waiters(wait_queue') = Waiters(wait_queue) \cup {t}
  BY <1>1, <1>2, AppendWaiters, Zenon DEF AcquireBlock, TypeOK, Queues
<1>4. /\ pc' \in [Threads -> User \cup Kernel \cup Off] /\ pc'[t] = "blocked"
      /\ \A u \in Threads : u # t => pc'[u] = pc[u]
      /\ status_block_cnt' \in [Threads -> {-1, 0, 1}] /\ status_block_cnt'[t] = 1
      /\ \A u \in Threads : u # t => status_block_cnt'[u] = status_block_cnt[u]
      /\ owner # Nobody /\ UNCHANGED <<lock, owner, cond_queue, status_exited>>
  BY <1>1, <1>2 DEF AcquireBlock, Goto, TypeOK, Off
<1>5. Waiters(wait_queue) \subseteq Threads /\ Waiters(cond_queue) \subseteq Threads
  BY <1>1 DEF TypeOK, Waiters
<1>6. Queues'
  BY <1>1, <1>2, <1>3, <1>4, <1>5, Zenon DEF Queues
<1>7. Counts'
  BY <1>1, <1>3, <1>4, Zenon DEF Counts, Due
<1>8. TypeOK'
  BY <1>1, <1>3, <1>4, Zenon DEF TypeOK
<1>9. QED BY <1>4, <1>6, <1>7, <1>8, Zenon DEF Core, NoneBesideFree

(* condition::wait puts its thread into cond_queue. *)
LEMMA CondWaitKeepsCore ==
  ASSUME Core, NEW t \in Threads, CondWait(t), UNCHANGED machine
  PROVE  Core'
<1>1. TypeOK /\ Queues /\ Counts /\ NoneBesideFree
  BY Zenon DEF Core
<1>2. status_block_cnt[t] = 0 /\ t \notin Waiters(wait_queue) /\ t \notin Waiters(cond_queue)
  BY Unqueued, Zenon DEF CondWait
<1>3. /\ cond_queue' \in Seq(Threads) /\ Distinct(cond_queue')
      /\ Waiters(cond_queue') = Waiters(cond_queue) \cup {t}
  BY <1>1, <1>2, AppendWaiters, Zenon DEF CondWait, TypeOK, Queues
<1>4. /\ pc' \in [Threads -> User \cup Kernel \cup Off] /\ pc'[t] = "unlock"
      /\ \A u \in Threads : u # t => pc'[u] = pc[u]
      /\ UNCHANGED <<lock, owner, wait_queue, status_block_cnt, status_exited>>
  BY <1>1, <1>2, Zenon DEF CondWait, Goto, TypeOK, Kernel
<1>5. Waiters(wait_queue) \subseteq Threads /\ Waiters(cond_queue) \subseteq Threads
  BY <1>1 DEF TypeOK, Waiters
<1>6. Queues'
  BY <1>1, <1>2, <1>3, <1>4, <1>5, Zenon DEF Queues, InWait
<1>7. Counts'
  BY <1>1, <1>2, <1>3, <1>4, Zenon DEF Counts, Due
<1>8. TypeOK'
  BY <1>1, <1>3, <1>4, Zenon DEF TypeOK
<1>9. QED BY <1>1, <1>4, <1>6, <1>7, <1>8, Zenon DEF Core, NoneBesideFree

(* do_block counts the wait of a thread, which may already have been signalled. *)
LEMMA CondBlockKeepsCore ==
  ASSUME Core, NEW t \in Threads, CondBlock(t), UNCHANGED machine
  PROVE  Core'
<1>1. TypeOK /\ Queues /\ Counts /\ NoneBesideFree
  BY Zenon DEF Core
<1>2. status_block_cnt[t] = (IF t \in Waiters(cond_queue) THEN 0 ELSE -1) /\ t \notin Waiters(wait_queue)
  BY <1>1, Zenon DEF CondBlock, Queues, Counts, Due
<1>3. /\ pc' \in [Threads -> User \cup Kernel \cup Off] /\ pc'[t] = "waiting"
      /\ \A u \in Threads : u # t => pc'[u] = pc[u]
      /\ status_block_cnt' \in [Threads -> {-1, 0, 1}]
      /\ status_block_cnt'[t] = status_block_cnt[t] + 1
      /\ \A u \in Threads : u # t => status_block_cnt'[u] = status_block_cnt[u]
      /\ UNCHANGED <<lock, owner, wait_queue, cond_queue, status_exited>>
  BY <1>1, <1>2 DEF CondBlock, Goto, TypeOK, Off
<1>4. Waiters(wait_queue) \subseteq Threads /\ Waiters(cond_queue) \subseteq Threads
  BY <1>1 DEF TypeOK, Waiters
<1>5. Waiters(wait_queue)' = Waiters(wait_queue) /\ Waiters(cond_queue)' = Waiters(cond_queue)
  BY <1>3, Zenon DEF Waiters
<1>6. Queues'
  BY <1>1, <1>2, <1>3, <1>4, <1>5, Zenon DEF Queues, InWait, Distinct
<1>7. Counts'
  BY <1>1, <1>2, <1>3, <1>5 DEF Counts, Due
<1>8. TypeOK'
  BY <1>1, <1>3, Zenon DEF TypeOK
<1>9. QED BY <1>1, <1>3, <1>6, <1>7, <1>8, Zenon DEF Core, NoneBesideFree

(* Threads S are taken off cond_queue and woken. *)
LEMMA WakeKeepsCore ==
  ASSUME Core, NEW S \in SUBSET Waiters(cond_queue),
         cond_queue' \in Seq(Threads), Distinct(cond_queue'),
         Waiters(cond_queue') = Waiters(cond_queue) \ S,
         status_block_cnt' \in [Threads -> Int],
         \A u \in Threads : status_block_cnt'[u] = status_block_cnt[u] - (IF u \in S THEN 1 ELSE 0),
         UNCHANGED <<machine, lock, owner, wait_queue, status_exited, pc>>
  PROVE  Core'
<1>1. TypeOK /\ Queues /\ Counts /\ NoneBesideFree
  BY Zenon DEF Core
<1>2. Waiters(wait_queue)' = Waiters(wait_queue)
  BY Zenon DEF Waiters
<1>3. Queues'
  BY <1>1, <1>2, Zenon DEF Queues, Distinct
<1>4. Counts'
  <2>1. SUFFICES ASSUME NEW u \in Threads PROVE status_block_cnt'[u] = Due(u)'
    BY Zenon DEF Counts
  <2>2. status_block_cnt[u] = Due(u) /\ status_block_cnt[u] \in {-1, 0, 1}
    BY <1>1, Zenon DEF Counts, TypeOK
  <2>3. CASE u \in S
    <3>1. pc[u] \in InWait /\ u \in Waiters(cond_queue) /\ u \notin Waiters(cond_queue')
      BY <1>1, <2>3, Zenon DEF Queues
    <3>2. QED BY <2>2, <2>3, <3>1 DEF Due, InWait
  <2>4. CASE u \notin S
    <3>1. u \in Waiters(cond_queue) <=> u \in Waiters(cond_queue')
      BY <2>4, Zenon
    <3>2. status_block_cnt'[u] = status_block_cnt[u]
      BY <2>2, <2>4
    <3>3. QED BY <1>2, <2>2, <3>1, <3>2, Zenon DEF Due
  <2>5. QED BY <2>3, <2>4, Zenon
<1>5. status_block_cnt' \in [Threads -> {-1, 0, 1}]
  BY <1>4, Zenon DEF Counts, Due
<1>6. TypeOK'
  BY <1>1, <1>5, Zenon DEF TypeOK
<1>7. QED BY <1>1, <1>3, <1>4, <1>6, Zenon DEF Core, NoneBesideFree

(* signal and broadcast wake members of cond_queue. *)
LEMMA SignalKeepsCore ==
  ASSUME Core, NEW t \in Threads, Signal(t) \/ Broadcast(t), UNCHANGED machine
  PROVE  Core'
<1>1. /\ TypeOK /\ Distinct(cond_queue) /\ cond_queue \in Seq(Threads)
      /\ status_block_cnt \in [Threads -> Int]
  BY DEF Core, TypeOK, Queues
<1>2. CASE Signal(t)
  <2>1. /\ cond_queue # <<>> /\ cond_queue' = Tail(cond_queue)
        /\ status_block_cnt' = [status_block_cnt EXCEPT ![Head(cond_queue)] = @ - 1]
        /\ UNCHANGED <<machine, lock, owner, wait_queue, status_exited, pc>>
    BY <1>2, Zenon DEF Signal
  <2>2. /\ cond_queue' \in Seq(Threads) /\ Distinct(cond_queue') /\ Head(cond_queue) \in Threads
        /\ Waiters(cond_queue') = Waiters(cond_queue) \ {Head(cond_queue)}
        /\ {Head(cond_queue)} \in SUBSET Waiters(cond_queue)
    BY <1>1, <2>1, TailWaiters, Zenon
  <2>3. /\ status_block_cnt' \in [Threads -> Int]
        /\ \A u \in Threads : status_block_cnt'[u] =
              status_block_cnt[u] - (IF u \in {Head(cond_queue)} THEN 1 ELSE 0)
    BY <1>1, <2>1, <2>2
  <2>4. QED BY <2>1, <2>2, <2>3, WakeKeepsCore, Zenon
<1>3. CASE Broadcast(t)
  <2>1. /\ cond_queue' = <<>>
        /\ status_block_cnt' = [u \in Threads |-> IF u \in Waiters(cond_queue) THEN status_block_cnt[u] - 1
                                                  ELSE status_block_cnt[u]]
        /\ UNCHANGED <<machine, lock, owner, wait_queue, status_exited, pc>>
    BY <1>3, Zenon DEF Broadcast
  <2>2. /\ cond_queue' \in Seq(Threads) /\ Distinct(cond_queue')
        /\ Waiters(cond_queue') = Waiters(cond_queue) \ Waiters(cond_queue)
    BY <2>1 DEF Distinct, Waiters
  <2>3. /\ status_block_cnt' \in [Threads -> Int]
        /\ \A u \in Threads : status_block_cnt'[u] =
              status_block_cnt[u] - (IF u \in Waiters(cond_queue) THEN 1 ELSE 0)
    BY <1>1, <2>1
  <2>4. Waiters(cond_queue) \in SUBSET Waiters(cond_queue)
    OBVIOUS
  <2>5. QED BY <2>1, <2>2, <2>3, <2>4, WakeKeepsCore, Zenon
<1>4. QED BY <1>2, <1>3, Zenon

(* A process that ends releases its mutex or leaves it alone. *)
LEMMA EndKeepsCore ==
  ASSUME Core, NEW t \in Threads, Kill(t) \/ Exit(t), UNCHANGED machine
  PROVE  Core'
<1>1. /\ UNCHANGED <<machine, lock, cond_queue, pc>>
      /\ \/ \E p \in Processes : release(p)
         \/ UNCHANGED <<owner, wait_queue, status_block_cnt>>
  BY MutexAssumption, Zenon DEF Kill, Exit, on_process_unregister
<1>2. status_exited' \in [Threads -> BOOLEAN]
  BY Zenon DEF Kill, Exit, Core, TypeOK
<1>3. CASE \E p \in Processes : release(p)
  BY <1>1, <1>2, <1>3, ReleaseKeepsCore, Zenon
<1>4. CASE UNCHANGED <<owner, wait_queue, status_block_cnt>>
  <2>1. TypeOK'
    BY <1>1, <1>2, <1>4, Zenon DEF Core, TypeOK
  <2>2. QED BY <1>1, <1>4, <2>1 DEF Core, Queues, Counts, Due, NoneBesideFree, Distinct, Waiters
<1>5. QED BY <1>1, <1>3, <1>4, Zenon

(* Every kernel step of a thread keeps queues and counts right. *)
LEMMA KernelKeepsCore ==
  ASSUME Core, NEW t \in Threads, KernelStep(t)
  PROVE  Core'
<1>1. UNCHANGED machine /\ TypeOK
  BY Zenon DEF KernelStep, Core
<1>2. CASE AcquireOwned(t)
  BY <1>1, <1>2, Unqueued, MoveKeepsCore, Zenon DEF AcquireOwned, TypeOK
<1>3. CASE AcquireBlock(t)
  BY <1>1, <1>3, BlockKeepsCore, Zenon
<1>4. CASE AcquireFree(t)
  BY <1>1, <1>4, Unqueued, MoveKeepsCore, Zenon DEF AcquireFree, TypeOK
<1>5. CASE Own(t)
  BY <1>1, <1>5, Unqueued, MoveKeepsCore, MutexAssumption, Zenon DEF Own, TypeOK
<1>6. ProcessOf[t] \in Processes
  BY MutexAssumption, Zenon
<1>7. CASE ReleaseDone(t)
  BY <1>1, <1>6, <1>7, ReleaseKeepsCore, Zenon DEF ReleaseDone, TypeOK
<1>8. CASE CondRelease(t)
  BY <1>1, <1>6, <1>8, ReleaseKeepsCore, Zenon DEF CondRelease, TypeOK
<1>9. CASE CondBlock(t)
  BY <1>1, <1>9, CondBlockKeepsCore, Zenon
<1>10. QED BY <1>2, <1>3, <1>4, <1>5, <1>7, <1>8, <1>9, Zenon DEF KernelStep

(* A dispatched thread was woken, so it is in no queue. *)
LEMMA DispatchKeepsCore ==
  ASSUME Core, NEW t \in Threads, Dispatch(t)
  PROVE  Core'
<1>1. UNCHANGED machine /\ TypeOK /\ Queues /\ Counts
  BY Zenon DEF Dispatch, Core
<1>2. t \notin Waiters(wait_queue) /\ t \notin Waiters(cond_queue) /\ status_block_cnt[t] = 0
  BY <1>1 DEF Dispatch, Resume, CondResume, Queues, Counts, Due, InWait
<1>3. QED BY <1>1, <1>2, MoveKeepsCore, Zenon DEF Dispatch, Resume, CondResume, TypeOK

(* Entering the kernel and ending keep queues and counts right. *)
LEMMA UserKeepsCore ==
  ASSUME Core, NEW t \in Threads, UserStep(t)
  PROVE  Core'
<1>1. UNCHANGED machine /\ TypeOK
  BY Zenon DEF UserStep, Core
<1>2. CASE Acquire(t)
  BY <1>1, <1>2, Unqueued, MoveKeepsCore, Zenon DEF Acquire, TypeOK
<1>3. CASE Release(t)
  BY <1>1, <1>3, Unqueued, MoveKeepsCore, Zenon DEF Release, TypeOK
<1>4. CASE CondWait(t)
  BY <1>1, <1>4, CondWaitKeepsCore, Zenon
<1>5. CASE Signal(t) \/ Broadcast(t)
  BY <1>1, <1>5, SignalKeepsCore, Zenon
<1>6. CASE Kill(t) \/ Exit(t)
  BY <1>1, <1>6, EndKeepsCore, Zenon
<1>7. QED BY <1>2, <1>3, <1>4, <1>5, <1>6, Zenon DEF UserStep

-----------------------------------------------------------------------------
(* One CPU gets no second thread into the kernel. *)
LEMMA KernelIsEmpty ==
  ASSUME machine.cpus = 1, NEW t \in Threads, GetsCPU(t)
  PROVE  \A u \in Threads : pc[u] \notin Kernel
<1> DEFINE K == {u \in Threads : pc[u] \in Kernel}
<1>1. IsFiniteSet(K) /\ Cardinality(K) \in Nat
  <2>1. IsFiniteSet(Threads) /\ K \in SUBSET Threads
    BY MutexAssumption, Zenon
  <2>2. IsFiniteSet(K)
    BY <2>1, FS_Subset, Zenon
  <2>3. QED BY <2>2, FS_CardinalityType, Zenon
<1>2. Cardinality(K) < 1
  BY Zenon DEF GetsCPU
<1>3. Cardinality(K) = 0
  BY <1>1, <1>2
<1>4. K = {}
  BY <1>1, <1>3, FS_EmptySet, Zenon
<1>5. QED BY <1>4, Zenon

(* On one CPU the thread in the kernel is the only one to change the mutex. *)
LEMMA KernelKeepsUni ==
  ASSUME IInv, NEW t \in Threads, KernelStep(t), machine.cpus = 1
  PROVE  Uni'
<1>1. /\ Core /\ TypeOK /\ Queues
      /\ \A v, u \in Threads : pc[v] \in Kernel /\ pc[u] \in Kernel => v = u
      /\ \A u \in Threads : pc[u] \in Kernel => ~status_exited[u]
      /\ \A u \in Threads : Has(u) /\ ~status_exited[u] => owner = u
      /\ \A u \in Threads : pc[u] = "own" => owner \in {u, Nobody}
  BY Zenon DEF IInv, Core, Uni
<1>2. pc[t] \in Kernel /\ \E l \in User \cup Kernel \cup Off : Goto(t, l)
  BY DEF KernelStep, AcquireOwned, AcquireBlock, AcquireFree, Own, ReleaseDone, CondRelease, CondBlock,
         User, Kernel, Off
<1>3. ~status_exited[t] /\ \A u \in Threads : u # t => pc[u] \notin Kernel /\ pc'[u] = pc[u]
  BY <1>1, <1>2, Zenon DEF Goto, TypeOK
<1>4. UNCHANGED <<machine, status_exited, cond_queue>>
  BY Zenon DEF KernelStep, AcquireOwned, AcquireBlock, AcquireFree, Own, ReleaseDone, CondRelease, CondBlock
<1>5. (Has(t)' => owner' = t) /\ (pc'[t] = "own" => owner' \in {t, Nobody})
  <2>1. CASE AcquireOwned(t)
    BY <1>1, <2>1, Zenon DEF AcquireOwned, Goto, TypeOK
  <2>2. CASE AcquireBlock(t)
    <3>1. pc'[t] = "blocked" /\ t \in Waiters(wait_queue')
      BY <1>1, <2>2, AppendWaiters, ZenonT(60) DEF AcquireBlock, Goto, TypeOK
    <3>2. QED BY <3>1, Zenon DEF Has
  <2>3. CASE AcquireFree(t)
    BY <1>1, <2>3, Zenon DEF AcquireFree, Goto, TypeOK, Has
  <2>4. CASE Own(t)
    BY <1>1, <2>4, Zenon DEF Own, Goto, TypeOK
  <2>5. CASE ReleaseDone(t) \/ CondRelease(t) \/ CondBlock(t)
    BY <1>1, <2>5, Zenon DEF ReleaseDone, CondRelease, CondBlock, Goto, TypeOK, Has
  <2>6. QED BY <2>1, <2>2, <2>3, <2>4, <2>5, Zenon DEF KernelStep
<1>6. ASSUME NEW u \in Threads, u # t, Has(u)', ~status_exited[u] PROVE owner' = u
  <2>1. CASE AcquireOwned(t) \/ AcquireFree(t) \/ CondBlock(t)
    <3>1. UNCHANGED <<owner, wait_queue>>
      BY <2>1, Zenon DEF AcquireOwned, AcquireFree, CondBlock
    <3>2. QED BY <1>1, <1>3, <1>6, <3>1, Zenon DEF Has
  <2>2. CASE AcquireBlock(t)
    <3>1. UNCHANGED owner /\ Waiters(wait_queue') = Waiters(wait_queue) \cup {t}
      BY <1>1, <2>2, AppendWaiters, Zenon DEF AcquireBlock, TypeOK
    <3>2. QED BY <1>1, <1>3, <1>6, <3>1, Zenon DEF Has
  <2>3. CASE Own(t)
    <3>1. UNCHANGED wait_queue /\ owner \in {t, Nobody}
      BY <1>1, <2>3, Zenon DEF Own
    <3>2. owner = u
      BY <1>1, <1>3, <1>6, <3>1, Zenon DEF Has
    <3>3. QED BY <1>6, <3>1, <3>2, MutexAssumption, Zenon
  <2>4. CASE ReleaseDone(t) \/ CondRelease(t)
    <3>1. release(ProcessOf[t]) /\ ProcessOf[t] \in Processes /\ Has(t)
      BY <2>4, MutexAssumption, Zenon DEF ReleaseDone, CondRelease, Has
    <3>2. owner = t
      BY <1>1, <1>3, <3>1, Zenon
    <3>3. ~Has(u)
      BY <1>1, <1>6, <3>2, Zenon
    <3>4. u \in Waiters(wait_queue) \ Waiters(wait_queue')
      BY <1>3, <1>6, <3>3, Zenon DEF Has
    <3>5. QED BY <1>1, <3>1, <3>4, ReleaseQueues, Zenon
  <2>5. QED BY <2>1, <2>2, <2>3, <2>4, Zenon DEF KernelStep
<1>7. QED
  <2>1. \A u \in Threads : pc'[u] \in Kernel => u = t
    BY <1>3, Zenon
  <2>2. \A u \in Threads : pc'[u] = "own" => owner' \in {u, Nobody}
    BY <1>5, <2>1, Zenon DEF Kernel
  <2>3. QED BY <1>3, <1>4, <1>5, <1>6, <2>1, <2>2, Zenon DEF Uni

(* On one CPU a dispatched thread finds the mutex handed over to it. *)
LEMMA DispatchKeepsUni ==
  ASSUME IInv, NEW t \in Threads, Dispatch(t), machine.cpus = 1
  PROVE  Uni'
<1>1. /\ TypeOK /\ Counts
      /\ \A u \in Threads : Has(u) /\ ~status_exited[u] => owner = u
  BY Zenon DEF IInv, Core, Uni
<1>2. GetsCPU(t) /\ UNCHANGED <<machine, owner, wait_queue, status_exited>> /\ ~status_exited[t]
  BY Zenon DEF Dispatch, Resume, CondResume, GetsCPU
<1>3. \A u \in Threads : pc[u] \notin Kernel
  BY <1>2, KernelIsEmpty, Zenon
<1>4. \A u \in Threads : u # t => pc'[u] = pc[u]
  BY <1>1, Zenon DEF Dispatch, Resume, CondResume, Goto, TypeOK
<1>5. pc'[t] \in {"own", "acquire"} /\ (pc'[t] = "own" => owner = t)
  <2>1. CASE Resume(t)
    <3>1. Has(t)
      BY <1>1, <2>1 DEF Resume, Counts, Due, Has
    <3>2. QED BY <1>1, <1>2, <2>1, <3>1, Zenon DEF Resume, Goto, TypeOK
  <2>2. CASE CondResume(t)
    BY <1>1, <2>2, Zenon DEF CondResume, Goto, TypeOK
  <2>3. QED BY <2>1, <2>2, Zenon DEF Dispatch
<1>6. \A u \in Threads : Has(u)' => u # t /\ Has(u)
  BY <1>2, <1>4, <1>5, Zenon DEF Has
<1>7. \A u \in Threads : pc'[u] \in Kernel => u = t
  BY <1>3, <1>4, Zenon
<1>8. \A u \in Threads : pc'[u] = "own" => u = t
  BY <1>7, Zenon DEF Kernel
<1>9. QED BY <1>1, <1>2, <1>5, <1>6, <1>7, <1>8, Zenon DEF Uni

(* On one CPU a thread enters an empty kernel. *)
LEMMA UserKeepsUni ==
  ASSUME IInv, NEW t \in Threads, UserStep(t), machine.cpus = 1
  PROVE  Uni'
<1>1. /\ Core /\ TypeOK /\ Queues
      /\ \A u \in Threads : Has(u) /\ ~status_exited[u] => owner = u
  BY Zenon DEF IInv, Core, Uni
<1>2. GetsCPU(t) /\ UNCHANGED machine /\ ~status_exited[t]
  BY Zenon DEF UserStep, Acquire, Release, CondWait, Signal, Broadcast, Kill, Exit, GetsCPU
<1>3. \A u \in Threads : pc[u] \notin Kernel
  BY <1>2, KernelIsEmpty, Zenon
<1>4. CASE Acquire(t) \/ Release(t) \/ CondWait(t)
  <2>1. /\ UNCHANGED <<owner, wait_queue, status_exited>>
        /\ pc'[t] \in {"acquire", "release", "unlock"}
        /\ pc'[t] \in {"release", "unlock"} => pc[t] = "critical"
        /\ \A u \in Threads : u # t => pc'[u] = pc[u]
    BY <1>1, <1>4, Zenon DEF Acquire, Release, CondWait, Goto, TypeOK
  <2>2. \A u \in Threads : Has(u)' => Has(u)
    BY <2>1, Zenon DEF Has
  <2>3. \A u \in Threads : pc'[u] \in Kernel => u = t
    BY <1>3, <2>1, Zenon
  <2>4. \A u \in Threads : pc'[u] # "own"
    BY <2>1, <2>3, Zenon DEF Kernel
  <2>5. QED BY <1>1, <1>2, <2>1, <2>2, <2>3, <2>4, Zenon DEF Uni
<1>5. CASE Signal(t) \/ Broadcast(t)
  <2>1. UNCHANGED <<owner, wait_queue, status_exited, pc>>
    BY <1>5, Zenon DEF Signal, Broadcast
  <2>2. QED BY <1>1, <1>2, <2>1, Zenon DEF Uni, IInv, Has, Waiters
<1>6. CASE Kill(t) \/ Exit(t)
  <2>1. /\ UNCHANGED pc /\ (\A u \in Threads : status_exited[u] => status_exited'[u])
        /\ \/ UNCHANGED <<owner, wait_queue>>
           \/ \E p \in Processes : release(p) /\ \A u \in Threads : ProcessOf[u] = p => status_exited'[u]
    <3>1. CASE Kill(t)
      BY <1>1, <3>1, MutexAssumption, Zenon DEF Kill, on_process_unregister, TypeOK
    <3>2. CASE Exit(t)
      BY <1>1, <3>2, MutexAssumption DEF Exit, on_process_unregister, TypeOK
    <3>3. QED BY <1>6, <3>1, <3>2, Zenon
  <2>2. \A u \in Threads : pc'[u] \notin Kernel /\ pc'[u] # "own"
    BY <1>3, <2>1, Zenon DEF Kernel
  <2>3. ASSUME NEW u \in Threads, Has(u)', ~status_exited'[u] PROVE owner' = u
    <3>1. ~status_exited[u]
      BY <2>1, <2>3, Zenon
    <3>2. CASE UNCHANGED <<owner, wait_queue>>
      <4>1. Has(u)
        BY <2>1, <2>3, <3>2, Zenon DEF Has
      <4>2. QED BY <1>1, <3>1, <3>2, <4>1, Zenon
    <3>3. ASSUME NEW p \in Processes, release(p), \A v \in Threads : ProcessOf[v] = p => status_exited'[v]
          PROVE  owner' = u
      <4>1. CASE u \in Waiters(wait_queue) \ Waiters(wait_queue')
        BY <1>1, <3>3, <4>1, ReleaseQueues, Zenon
      <4>2. CASE ~(u \in Waiters(wait_queue) \ Waiters(wait_queue'))
        <5>1. Has(u)
          BY <2>1, <2>3, <4>2, Zenon DEF Has
        <5>2. owner = u /\ ProcessOf[u] # p
          BY <1>1, <2>3, <3>1, <3>3, <5>1, Zenon
        <5>3. QED BY <1>1, <3>3, <5>2, ReleaseCases, Zenon DEF Core
      <4>3. QED BY <4>1, <4>2, Zenon
    <3>4. QED BY <2>1, <3>2, <3>3, Zenon
  <2>4. QED BY <1>2, <2>2, <2>3, Zenon DEF Uni
<1>7. QED BY <1>4, <1>5, <1>6, Zenon DEF UserStep

-----------------------------------------------------------------------------
(* The inductive invariant holds at first. *)
LEMMA InitHolds == Init => IInv
<1> SUFFICES ASSUME Init PROVE IInv
  OBVIOUS
<1>1. TypeOK /\ NoneBesideFree
  BY DEF Init, TypeOK, User, NoneBesideFree
<1>2. Waiters(wait_queue) = {} /\ Waiters(cond_queue) = {}
  BY DEF Init, Waiters
<1>3. Queues /\ Counts
  BY <1>2 DEF Init, Queues, Counts, Due, Distinct
<1>4. Uni
  BY Zenon DEF Init, Uni, Kernel, Has
<1>5. QED BY <1>1, <1>3, <1>4, Zenon DEF IInv, Core

(* The inductive invariant is preserved by every step. *)
LEMMA StepKeeps == IInv /\ [Next]_vars => IInv'
<1> SUFFICES ASSUME IInv, [Next]_vars PROVE IInv'
  OBVIOUS
<1>1. ASSUME NEW t \in Threads, KernelStep(t) \/ Dispatch(t) \/ UserStep(t) PROVE IInv'
  <2>1. Core'
    BY <1>1, KernelKeepsCore, DispatchKeepsCore, UserKeepsCore, Zenon DEF IInv
  <2>2. CASE machine.cpus = 1
    <3>1. Uni'
      BY <1>1, <2>2, KernelKeepsUni, DispatchKeepsUni, UserKeepsUni, Zenon
    <3>2. QED BY <2>1, <3>1, Zenon DEF IInv
  <2>3. CASE machine.cpus # 1
    <3>1. UNCHANGED machine
      BY <1>1, Zenon DEF KernelStep, Dispatch, UserStep
    <3>2. QED BY <2>1, <2>3, <3>1, Zenon DEF IInv, Uni
  <2>4. QED BY <2>2, <2>3, Zenon
<1>2. CASE UNCHANGED vars
  BY <1>2 DEF vars, IInv, Core, TypeOK, Queues, Counts, Due, NoneBesideFree, Uni, Has, Waiters, Distinct
<1>3. QED BY <1>1, <1>2, Zenon DEF Next

(* On one CPU the mutex excludes, through hand-over, kills, exits and       *)
(* condition waits, for any number of threads and processes.                *)
THEOREM MutexExcludes == Spec => []MutualExclusion
<1>1. IInv => MutualExclusion
  BY Zenon DEF IInv, Uni, Has, MutualExclusion
<1>2. QED BY <1>1, InitHolds, StepKeeps, PTL DEF Spec

(* release leaves no waiter beside a free mutex, on any number of CPUs. *)
THEOREM NoWaiterIsLeft == Spec => []FreeMutexHasNoWaiters
<1>1. IInv => FreeMutexHasNoWaiters
  BY Zenon DEF IInv, Core, NoneBesideFree, FreeMutexHasNoWaiters
<1>2. QED BY <1>1, InitHolds, StepKeeps, PTL DEF Spec

(* No signal is lost between the two halves of condition::wait, on any      *)
(* number of CPUs.                                                          *)
THEOREM NoSignalIsLost == Spec => []SignalledIffAwake
<1>1. IInv => SignalledIffAwake
  BY DEF IInv, Core, Counts, Due, SignalledIffAwake
<1>2. QED BY <1>1, InitHolds, StepKeeps, PTL DEF Spec
=============================================================================
