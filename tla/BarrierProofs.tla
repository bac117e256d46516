---------------------------- MODULE BarrierProofs ----------------------------
(***************************************************************************)
(* The theorems about Barrier, for any number of threads, any goal and any  *)
(* number of rounds: whenever the lock is free, the queue is the group that *)
(* is assembling, and nobody passes before the group is complete.           *)
(***************************************************************************)
EXTENDS Barrier, Queues, SequenceTheorems, FiniteSetTheorems, TLAPS

(* Z3 gets half a minute, through either encoding; a leaf for Zenon says so. *)
USE SMTT(30), Z3T(30)

(* A waiting thread is queued once, and blocked while it is.               *)
Queued ==
  /\ Distinct(wait_queue)
  /\ \A t \in Members(wait_queue) : pc[t] = "blocked"
  /\ \A t \in Threads : status_block_cnt[t] = IF t \in Members(wait_queue) THEN 1 ELSE 0

(* The last arrival holds the lock until everybody is woken; the group is   *)
(* counted from zero behind it.                                             *)
Group ==
  /\ \A t \in Threads : lock = t <=> pc[t] = "waking"
  /\ lock # Nobody => count = 0
  /\ open /\ lock = Nobody => Len(wait_queue) = count
  /\ ~open => lock = Nobody /\ \A t \in Threads : pc[t] # "wait"

(* The threads that were counted and that wait has not returned to. *)
Inside == {t \in Threads : pc[t] \in {"waking", "blocked"}}

(* The arrivals are the returns and those inside; they are a number of      *)
(* complete groups and the group that is assembling.                        *)
Tally ==
  /\ arrivals = returns + Cardinality(Inside)
  /\ \E k \in Nat : arrivals = Goal * k + count

IInv == TypeOK /\ Queued /\ Group /\ Tally
-----------------------------------------------------------------------------
(* push adds one member, and keeps the queue distinct if it is a new one. *)
LEMMA AppendMembers ==
  ASSUME NEW S, NEW q \in Seq(S), NEW t \in S
  PROVE  /\ Append(q, t) \in Seq(S)
         /\ Members(Append(q, t)) = Members(q) \cup {t}
         /\ Distinct(q) /\ t \notin Members(q) => Distinct(Append(q, t))
<1>1. \A x \in Members(Append(q, t)) : x \in Members(q) \cup {t}
  BY DEF Members
<1>2. \A i \in DOMAIN q : i \in DOMAIN Append(q, t) /\ Append(q, t)[i] = q[i]
  OBVIOUS
<1>3. Len(q) + 1 \in DOMAIN Append(q, t) /\ Append(q, t)[Len(q) + 1] = t
  OBVIOUS
<1>4. \A x \in Members(q) \cup {t} : x \in Members(Append(q, t))
  BY <1>2, <1>3, Zenon DEF Members
<1>5. Distinct(q) /\ t \notin Members(q) => Distinct(Append(q, t))
  BY DEF Members, Distinct
<1> QED
  BY <1>1, <1>4, <1>5

(* pop removes the member at the front. *)
LEMMA TailMembers ==
  ASSUME NEW S, NEW q \in Seq(S), q # <<>>, Distinct(q)
  PROVE  /\ Tail(q) \in Seq(S) /\ Distinct(Tail(q))
         /\ Head(q) \in S /\ Head(q) \in Members(q)
         /\ Members(Tail(q)) = Members(q) \ {Head(q)}
<1>1. \A x \in Members(Tail(q)) : x \in Members(q) \ {Head(q)}
  BY DEF Members, Distinct
<1>2. \A i \in DOMAIN q : q[i] # Head(q) => i - 1 \in DOMAIN Tail(q) /\ Tail(q)[i - 1] = q[i]
  OBVIOUS
<1>3. \A x \in Members(q) \ {Head(q)} : x \in Members(Tail(q))
  BY <1>2, Zenon DEF Members
<1>4. Tail(q) \in Seq(S) /\ Distinct(Tail(q)) /\ Head(q) \in S /\ Head(q) \in Members(q)
  BY DEF Members, Distinct
<1> QED
  BY <1>1, <1>3, <1>4, Zenon

(* In a distinct queue a thread occurs once or not at all. *)
LEMMA OccursOnce ==
  ASSUME wait_queue \in Seq(Threads), Distinct(wait_queue), NEW t \in Threads
  PROVE  Occurrences(t) = IF t \in Members(wait_queue) THEN 1 ELSE 0
<1> DEFINE I == {i \in DOMAIN wait_queue : wait_queue[i] = t}
<1>1. CASE t \in Members(wait_queue)
  <2>1. PICK i \in DOMAIN wait_queue : wait_queue[i] = t
    BY <1>1, Zenon DEF Members
  <2>2. I = {i}
    BY <2>1, Zenon DEF Distinct
  <2> QED
    BY <1>1, <2>2, FS_Singleton, Zenon DEF Occurrences
<1>2. CASE t \notin Members(wait_queue)
  <2>1. I = {}
    BY <1>2, Zenon DEF Members
  <2> QED
    BY <1>2, <2>1, FS_EmptySet, Zenon DEF Occurrences
<1> QED
  BY <1>1, <1>2, Zenon

(* The inductive invariant holds at first, and every action keeps it. *)
LEMMA InitIInv == Init => IInv
<1> SUFFICES ASSUME Init PROVE IInv
  OBVIOUS
<1>1. TypeOK
  BY BarrierAssumption, EmptySeq DEF Init, TypeOK
<1>2. Members(wait_queue) = {} /\ Distinct(wait_queue) /\ Len(wait_queue) = 0
  BY DEF Init, Members, Distinct
<1>3. Queued /\ Group
  BY <1>2, BarrierAssumption DEF Init, Queued, Group
<1>4. Tally
  <2>1. Inside = {}
    BY Zenon DEF Init, Inside
  <2>2. arrivals = Goal * 0 + count
    BY BarrierAssumption DEF Init
  <2> QED
    BY <2>1, <2>2, FS_EmptySet DEF Init, Tally
<1> QED
  BY <1>1, <1>3, <1>4, Zenon DEF IInv

(* A thread that is counted enters, one that wait returns to leaves. *)
LEMMA Enters ==
  ASSUME TypeOK, NEW t \in Threads, pc[t] = "wait",
         NEW label \in {"waking", "blocked"}, Goto(t, label)
  PROVE  Cardinality(Inside') = Cardinality(Inside) + 1 /\ Cardinality(Inside) \in Nat
<1>1. Inside' = Inside \cup {t} /\ t \notin Inside
  BY Zenon DEF TypeOK, Goto, Inside
<1>2. IsFiniteSet(Inside)
  BY FS_Subset, BarrierAssumption, Zenon DEF Inside
<1> QED
  BY <1>1, <1>2, FS_AddElement, FS_CardinalityType, Zenon

(* A thread that returns from barrier_wait is one thread less inside. *)
LEMMA Leaves ==
  ASSUME TypeOK, NEW t \in Threads, pc[t] \in {"waking", "blocked"}, Goto(t, "user")
  PROVE  Cardinality(Inside') = Cardinality(Inside) - 1 /\ Cardinality(Inside) \in Nat
<1>1. Inside' = Inside \ {t} /\ t \in Inside
  BY Zenon DEF TypeOK, Goto, Inside
<1>2. IsFiniteSet(Inside)
  BY FS_Subset, BarrierAssumption, Zenon DEF Inside
<1> QED
  BY <1>1, <1>2, FS_RemoveElement, FS_CardinalityType, Zenon

(* Every action keeps the tally: an arrival that blocks is one more of the  *)
(* group, ...                                                               *)
LEMMA WaitBlockTally ==
  ASSUME IInv, NEW t \in Threads, WaitBlock(t)
  PROVE  Tally'
<1>1. /\ TypeOK /\ Tally
      /\ count' = count + 1 /\ arrivals' = arrivals + 1 /\ returns' = returns
  BY Zenon DEF IInv, WaitBlock
<1>2. Cardinality(Inside') = Cardinality(Inside) + 1 /\ Cardinality(Inside) \in Nat
  BY <1>1, Enters, Zenon DEF WaitBlock
<1>3. PICK k \in Nat : arrivals = Goal * k + count
  BY <1>1, Zenon DEF Tally
<1>4. arrivals' = Goal * k + count'
  BY <1>1, <1>3, BarrierAssumption DEF TypeOK
<1> QED
  BY <1>1, <1>2, <1>4 DEF Tally, TypeOK

(* ... the last arrival completes it, ... *)
LEMMA WaitLastTally ==
  ASSUME IInv, NEW t \in Threads, WaitLast(t)
  PROVE  Tally'
<1>1. /\ TypeOK /\ Tally
      /\ count' = 0 /\ arrivals' = arrivals + 1 /\ returns' = returns
  BY Zenon DEF IInv, WaitLast
<1>2. Cardinality(Inside') = Cardinality(Inside) + 1 /\ Cardinality(Inside) \in Nat
  BY <1>1, Enters, Zenon DEF WaitLast
<1>3. PICK k \in Nat : arrivals = Goal * k + count
  BY <1>1, Zenon DEF Tally
<1>4. count + 1 = Goal
  BY <1>1, BarrierAssumption DEF WaitLast, TypeOK
<1>5. Goal * (k + 1) = Goal * k + Goal
  BY BarrierAssumption
<1>6. arrivals' = Goal * (k + 1) + count'
  BY <1>1, <1>3, <1>4, <1>5, BarrierAssumption DEF TypeOK
<1> QED
  BY <1>1, <1>2, <1>6 DEF Tally, TypeOK

(* ... a return takes a thread from those inside, ... *)
LEMMA LeaveTally ==
  ASSUME IInv, NEW t \in Threads, pc[t] \in {"waking", "blocked"}, Goto(t, "user"),
         returns' = returns + 1, UNCHANGED <<count, arrivals>>
  PROVE  Tally'
<1>1. TypeOK /\ Tally
  BY Zenon DEF IInv
<1>2. Cardinality(Inside') = Cardinality(Inside) - 1 /\ Cardinality(Inside) \in Nat
  BY <1>1, Leaves, Zenon
<1> QED
  BY <1>1, <1>2 DEF Tally, TypeOK

(* The last thread of a group returns. *)
LEMMA WakeDoneTally ==
  ASSUME IInv, NEW t \in Threads, WakeDone(t)
  PROVE  Tally'
BY LeaveTally, Zenon DEF WakeDone

(* A woken thread returns. *)
LEMMA ResumeTally ==
  ASSUME IInv, NEW t \in Threads, Resume(t)
  PROVE  Tally'
BY LeaveTally, Zenon DEF Resume

(* ... and a call and a wakeup change nothing of it. *)
LEMMA WaitTally ==
  ASSUME IInv, NEW t \in Threads, Wait(t)
  PROVE  Tally'
<1>1. Inside' = Inside
  BY Zenon DEF Wait, Goto, Inside, IInv, TypeOK
<1> QED
  BY <1>1, Zenon DEF Wait, IInv, Tally

(* A wakeup moves a thread from the queue to the resumed ones. *)
LEMMA WakeOneTally ==
  ASSUME IInv, NEW t \in Threads, WakeOne(t)
  PROVE  Tally'
BY Zenon DEF WakeOne, IInv, Tally, Inside

(* The inductive invariant is preserved by every step of the barrier. *)
LEMMA StepIInv == IInv /\ [Next]_vars => IInv'
<1> SUFFICES ASSUME IInv, [Next]_vars PROVE IInv'
  OBVIOUS
<1> USE BarrierAssumption DEF IInv, Goto
<1>1. ASSUME NEW t \in Threads, Wait(t) PROVE IInv'
  <2>1. TypeOK'
    BY <1>1 DEF Wait, TypeOK
  <2>2. Queued'
    BY <1>1 DEF Wait, TypeOK, Queued, Members
  <2>3. Group'
    BY <1>1, Zenon DEF Wait, TypeOK, Group
  <2>4. Tally'
    BY <1>1, WaitTally, Zenon
  <2> QED
    BY <2>1, <2>2, <2>3, <2>4, Zenon
<1>2. ASSUME NEW t \in Threads, WaitBlock(t) PROVE IInv'
  <2>1. wait_queue \in Seq(Threads) /\ t \notin Members(wait_queue) /\ Distinct(wait_queue)
    BY <1>2, Zenon DEF WaitBlock, TypeOK, Queued
  <2>2. /\ wait_queue' \in Seq(Threads) /\ Distinct(wait_queue')
        /\ Members(wait_queue') = Members(wait_queue) \cup {t}
        /\ Len(wait_queue') = Len(wait_queue) + 1
    BY <1>2, <2>1, AppendMembers, AppendProperties DEF WaitBlock
  <2>3. status_block_cnt[t] = 0
    BY <2>1, Zenon DEF Queued
  <2>4. TypeOK'
    BY <1>2, <2>2, <2>3 DEF WaitBlock, TypeOK
  <2>5. Queued'
    BY <1>2, <2>2, <2>3 DEF WaitBlock, TypeOK, Queued
  <2>6. Group'
    BY <1>2, <2>2, Zenon DEF WaitBlock, TypeOK, Group
  <2>7. Tally'
    BY <1>2, WaitBlockTally, Zenon
  <2> QED
    BY <2>4, <2>5, <2>6, <2>7, Zenon
<1>3. ASSUME NEW t \in Threads, WaitLast(t) PROVE IInv'
  <2>1. TypeOK'
    BY <1>3 DEF WaitLast, TypeOK
  <2>2. Queued'
    <3>1. t \notin Members(wait_queue) /\ Members(wait_queue)' = Members(wait_queue)
      BY <1>3, Zenon DEF WaitLast, Queued, Members
    <3> QED
      BY <1>3, <3>1 DEF WaitLast, TypeOK, Queued
  <2>3. Group'
    BY <1>3, Zenon DEF WaitLast, TypeOK, Group
  <2>4. Tally'
    BY <1>3, WaitLastTally, Zenon
  <2> QED
    BY <2>1, <2>2, <2>3, <2>4, Zenon
<1>4. ASSUME NEW t \in Threads, WakeOne(t) PROVE IInv'
  <2>1. /\ wait_queue \in Seq(Threads) /\ wait_queue # <<>> /\ Distinct(wait_queue)
        /\ lock = t /\ open
    BY <1>4, Zenon DEF WakeOne, TypeOK, Queued, Group
  <2>2. /\ wait_queue' \in Seq(Threads) /\ Distinct(wait_queue')
        /\ Head(wait_queue) \in Threads /\ Head(wait_queue) \in Members(wait_queue)
        /\ Members(wait_queue') = Members(wait_queue) \ {Head(wait_queue)}
    BY <1>4, <2>1, TailMembers, Zenon DEF WakeOne
  <2>3. status_block_cnt[Head(wait_queue)] = 1
    BY <2>2, Zenon DEF Queued
  <2>4. TypeOK'
    <3>1. status_block_cnt' \in [Threads -> {0, 1}]
      BY <1>4, <2>2, <2>3 DEF WakeOne, TypeOK
    <3> QED
      BY <1>4, <2>2, <3>1, Zenon DEF WakeOne, TypeOK
  <2>5. Queued'
    BY <1>4, <2>2, <2>3 DEF WakeOne, TypeOK, Queued
  <2>6. Group'
    BY <1>4, <2>1, Zenon DEF WakeOne, TypeOK, Group
  <2>7. Tally'
    BY <1>4, WakeOneTally, Zenon
  <2> QED
    BY <2>4, <2>5, <2>6, <2>7, Zenon
<1>5. ASSUME NEW t \in Threads, WakeDone(t) PROVE IInv'
  <2>1. lock = t /\ count = 0 /\ open /\ Len(wait_queue) = 0
    BY <1>5, EmptySeq, Zenon DEF WakeDone, TypeOK, Group
  <2>2. TypeOK'
    BY <1>5 DEF WakeDone, TypeOK
  <2>3. Queued'
    BY <1>5 DEF WakeDone, TypeOK, Queued, Members
  <2>4. Group'
    BY <1>5, <2>1, Zenon DEF WakeDone, TypeOK, Group
  <2>5. Tally'
    BY <1>5, WakeDoneTally, Zenon
  <2> QED
    BY <2>2, <2>3, <2>4, <2>5, Zenon
<1>6. ASSUME NEW t \in Threads, Resume(t) PROVE IInv'
  <2>1. t \notin Members(wait_queue)
    BY <1>6 DEF Resume, Queued
  <2>2. TypeOK'
    BY <1>6 DEF Resume, TypeOK
  <2>3. Queued'
    BY <1>6, <2>1 DEF Resume, TypeOK, Queued, Members
  <2>4. Group'
    BY <1>6, Zenon DEF Resume, TypeOK, Group
  <2>5. Tally'
    BY <1>6, ResumeTally, Zenon
  <2> QED
    BY <2>2, <2>3, <2>4, <2>5, Zenon
<1>7. CASE Destroy
  <2>1. \A t \in Threads : status_block_cnt'[t] = 0
    BY <1>7, OccursOnce DEF Destroy, TypeOK, Queued
  <2>2. Members(wait_queue') = {} /\ Distinct(wait_queue') /\ wait_queue' \in Seq(Threads)
    BY <1>7, EmptySeq DEF Destroy, Members, Distinct
  <2>3. TypeOK'
    BY <1>7, <2>1, <2>2, Zenon DEF Destroy, TypeOK
  <2>4. Queued'
    BY <1>7, <2>1, <2>2, Zenon DEF Destroy, Queued
  <2>5. Group'
    BY <1>7, Zenon DEF Destroy, TypeOK, Group
  <2>6. Tally'
    BY <1>7, Zenon DEF Destroy, Tally, Inside
  <2> QED
    BY <2>3, <2>4, <2>5, <2>6, Zenon
<1>8. CASE UNCHANGED vars
  <2>1. TypeOK' /\ Queued' /\ Group'
    BY <1>8 DEF vars, TypeOK, Queued, Group, Members
  <2>2. Tally'
    BY <1>8, Zenon DEF vars, Tally, Inside
  <2> QED
    BY <2>1, <2>2, Zenon
<1> QED
  BY <1>1, <1>2, <1>3, <1>4, <1>5, <1>6, <1>7, <1>8, Zenon DEF Next, KernelStep

(* Whenever the lock is free, exactly the arrivals of the current group are *)
(* queued, each blocked once (barrier::wait): nobody of a past group stays  *)
(* behind, nobody of the next is woken with it.                             *)
THEOREM GroupIsQueued == Spec => []WaitersAreCounted
<1>1. Init => IInv
  BY InitIInv, Zenon
<1>2. IInv /\ [Next]_vars => IInv'
  BY StepIInv, Zenon
<1>3. IInv => WaitersAreCounted
  BY OccursOnce, Zenon DEF IInv, TypeOK, Queued, Group, WaitersAreCounted
<1> QED
  BY <1>1, <1>2, <1>3, PTL DEF Spec

(* While the barrier exists, the group that is assembling is inside: its    *)
(* threads are queued, or the last arrival has just begun a new one.        *)
LEMMA GroupIsInside ==
  ASSUME IInv, open
  PROVE  Cardinality(Inside) \in Nat /\ count <= Cardinality(Inside)
<1>1. IsFiniteSet(Inside) /\ Cardinality(Inside) \in Nat
  BY FS_Subset, FS_CardinalityType, BarrierAssumption, Zenon DEF Inside
<1>2. CASE lock # Nobody
  BY <1>1, <1>2 DEF IInv, Group
<1>3. CASE lock = Nobody
  <2>1. Len(wait_queue) = count /\ count \in Nat
    BY <1>3, BarrierAssumption DEF IInv, TypeOK, Group
  <2>2. \A i \in 1..count : wait_queue[i] \in Inside
    <3>1. \A i \in 1..count : wait_queue[i] \in Threads /\ wait_queue[i] \in Members(wait_queue)
      <4>1. wait_queue \in Seq(Threads) /\ DOMAIN wait_queue = 1..count
        BY <2>1 DEF IInv, TypeOK
      <4>2. \A i \in 1..count : wait_queue[i] \in Threads
        BY <2>1, <4>1
      <4> QED
        BY <4>1, <4>2, Zenon DEF Members
    <3> QED
      BY <3>1, Zenon DEF IInv, Queued, Inside
  <2>3. wait_queue \in Injection(1..count, Inside)
    BY <2>1, <2>2 DEF IInv, TypeOK, Queued, Distinct, Injection, IsInjective
  <2>4. Cardinality(1..count) <= Cardinality(Inside)
    BY <1>1, <2>3, FS_Injection, Zenon
  <2>5. Cardinality(1..count) = count
    BY <2>1, FS_Interval
  <2> QED
    BY <1>1, <2>4, <2>5, Zenon
<1> QED
  BY <1>2, <1>3, Zenon

(* k complete groups and less than one are k groups when divided. *)
LEMMA GroupsOf ==
  ASSUME NEW g \in Nat \ {0}, NEW k \in Nat, NEW r \in 0..(g - 1), NEW n \in Nat, n = g * k + r
  PROVE  n \div g = k
<1> DEFINE q == n \div g
<1>1. q \in Int /\ g * q <= n /\ n < g * q + g
  OBVIOUS
<1> HIDE DEF q
<1>2. CASE q < k
  <2>1. g * (q + 1) <= g * k
    BY <1>1, <1>2
  <2> QED
    BY <1>1, <2>1
<1>3. CASE k < q
  <2>1. g * (k + 1) <= g * q
    BY <1>1, <1>3
  <2> QED
    BY <1>1, <2>1
<1> QED
  BY <1>1, <1>2, <1>3 DEF q

(* wait returns to no more threads than the complete groups have            *)
(* (barrier::wait): nobody passes while the own group is assembling, also   *)
(* when a fast thread is back in wait before the others have been woken.    *)
THEOREM GroupsPassTogether == Spec => []NobodyPassesEarly
<1>1. Init => IInv
  BY InitIInv, Zenon
<1>2. IInv /\ [Next]_vars => IInv'
  BY StepIInv, Zenon
<1>3. IInv => NobodyPassesEarly
  <2> SUFFICES ASSUME IInv, open PROVE returns <= Goal * (arrivals \div Goal)
    BY Zenon DEF NobodyPassesEarly
  <2>1. PICK k \in Nat : arrivals = Goal * k + count
    BY Zenon DEF IInv, Tally
  <2>2. count \in 0..(Goal - 1) /\ arrivals \in Nat /\ returns \in Nat
    BY Zenon DEF IInv, TypeOK
  <2>3. arrivals \div Goal = k
    BY <2>1, <2>2, GroupsOf, BarrierAssumption, Zenon
  <2>4. arrivals - returns >= count
    BY <2>2, GroupIsInside DEF IInv, Tally
  <2>5. Goal * k \in Nat
    BY BarrierAssumption
  <2> QED
    BY <2>1, <2>2, <2>3, <2>4, <2>5
<1> QED
  BY <1>1, <1>2, <1>3, PTL DEF Spec
==============================================================================
