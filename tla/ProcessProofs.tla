---------------------------- MODULE ProcessProofs ----------------------------
(***************************************************************************)
(* The theorems about Process, for tables of any size: orphans are adopted, *)
(* threads end with their process and are cleaned up once, and nobody waits *)
(* for what has ended.                                                      *)
(*                                                                         *)
(* The system calls are operators on k = [p, t, r], the three tables, and   *)
(* Thread::exit calls Process::kill half way.  So the invariant is stated   *)
(* of such a k; an operator has a lemma that says what it preserves, and    *)
(* one, in the second half, that says what it does to the fields.           *)
(***************************************************************************)
EXTENDS Process, Queues, TLAPS

(* Z3 gets half a minute, through either encoding; a leaf for Zenon says so. *)
USE SMTT(30), Z3T(30)

ProcessRec ==
  [state : {"live", "killed", "deleted"}, parent : Nat, children : SUBSET Nat,
   threads : Seq(Nat), active_thread_cnt : Int, wait_kill_queue : SUBSET Nat,
   own : BOOLEAN]
ThreadRec ==
  [state : {"ready", "blocked", "exited", "deleted"}, process : Nat,
   wait_exited_queue : SUBSET Nat]
Kernel == [p : Seq(ProcessRec), t : Seq(ThreadRec), r : Seq(Nat)]

(* The fields, by name. *)
Processes(k) == DOMAIN k.p
State(k, p) == k.p[p].state
Own(k, p) == k.p[p].own
Parent(k, p) == k.p[p].parent
Children(k, p) == k.p[p].children
ThreadsOf(k, p) == k.p[p].threads
Count(k, p) == k.p[p].active_thread_cnt
Waiting(k, p) == k.p[p].wait_kill_queue
Threads(k) == DOMAIN k.t
Status(k, u) == k.t[u].state
Home(k, u) == k.t[u].process
Joiners(k, u) == k.t[u].wait_exited_queue

Alive(k, p) ==
  {u \in Threads(k) : Home(k, u) = p /\ Status(k, u) \in {"ready", "blocked"}}

(* What the fields refer to exists, and threads lists exactly the threads   *)
(* of a process.                                                            *)
Links(k) ==
  /\ \A p \in Processes(k) :
       /\ Parent(k, p) < p
       /\ Children(k, p) \subseteq Processes(k)
       /\ Waiting(k, p) \subseteq Threads(k)
       /\ \A u \in Threads(k) : Home(k, u) = p <=> u \in Members(ThreadsOf(k, p))
       /\ Members(ThreadsOf(k, p)) \subseteq Threads(k)
  /\ \A u \in Threads(k) :
       /\ Home(k, u) \in Processes(k)
       /\ Joiners(k, u) \subseteq Threads(k)

(* Parents and children agree while both live; a live process hangs below a *)
(* live one, the idle process, or one that killed itself.                   *)
Family(k) ==
  /\ \A p \in Processes(k) : \A c \in Children(k, p) :
       /\ p < c
       /\ State(k, p) = "live" /\ State(k, c) = "live" => Parent(k, c) = p
  /\ \A p \in Processes(k) : State(k, p) = "live" =>
       \/ Parent(k, p) = IdleProcess
       \/ State(k, Parent(k, p)) = "live" /\ p \in Children(k, Parent(k, p))
       \/ Own(k, Parent(k, p))

(* active_thread_cnt is exact. *)
Counted(k) ==
  \A p \in Processes(k) : Count(k, p) = Cardinality(Alive(k, p))

(* When process p has threads. *)
EndsAt(k, p) ==
  /\ State(k, p) = "live" => Alive(k, p) # {}
  /\ State(k, p) # "live" => Alive(k, p) = {} \/ Own(k, p)
Ends(k) == \A p \in Processes(k) : EndsAt(k, p)

(* A process that killed itself stays killed; threads are deleted with      *)
(* their process.                                                           *)
Stays(k) ==
  /\ \A p \in Processes(k) : Own(k, p) => State(k, p) = "killed"
  /\ \A u \in Threads(k) : Status(k, u) = "deleted" => State(k, Home(k, u)) = "deleted"

Waiters(k) ==
  \A t \in Threads(k) : Status(k, t) = "blocked" =>
    \/ \E p \in Processes(k) : State(k, p) = "live" /\ t \in Waiting(k, p)
    \/ \E u \in Threads(k) : Status(k, u) \in {"ready", "blocked"} /\ t \in Joiners(k, u)

Times(q, x) == Cardinality({i \in DOMAIN q : q[i] = x})

(* A killed process is released once, unless it killed itself. *)
Released(k) ==
  /\ \A i \in DOMAIN k.r : k.r[i] \in Processes(k)
  /\ \A p \in Processes(k) :
       Times(k.r, p) = IF State(k, p) # "live" /\ ~Own(k, p) THEN 1 ELSE 0

Inv(k) == /\ k \in Kernel /\ Links(k) /\ Family(k) /\ Counted(k) /\ Ends(k)
          /\ Stays(k) /\ Waiters(k) /\ Released(k)

IInv ==
  /\ Inv(Now)
  /\ halt \in {"no", "null", "spin"}
  /\ halt = "spin" => \E p \in Pids : process_table[p].own
-----------------------------------------------------------------------------
(* A thread is pushed to the vector of the threads of a process. *)
LEMMA PushMembers ==
  ASSUME NEW S, NEW q \in Seq(S), NEW t \in S
  PROVE  Members(Append(q, t)) = Members(q) \cup {t}
<1>1. \A x \in Members(Append(q, t)) : x \in Members(q) \cup {t}
  BY DEF Members
<1>2. \A i \in DOMAIN q : i \in DOMAIN Append(q, t) /\ Append(q, t)[i] = q[i]
  OBVIOUS
<1>3. Len(q) + 1 \in DOMAIN Append(q, t) /\ Append(q, t)[Len(q) + 1] = t
  OBVIOUS
<1>4. \A x \in Members(q) \cup {t} : x \in Members(Append(q, t))
  BY <1>2, <1>3, Zenon DEF Members
<1> QED
  BY <1>1, <1>4, Zenon

(* A function on the indices of a table is a table. *)
LEMMA TableType ==
  ASSUME NEW S, NEW q \in Seq(S), NEW f \in [DOMAIN q -> S]
  PROVE  f \in Seq(S) /\ DOMAIN f = DOMAIN q
OBVIOUS

(* The tables of a kernel state and their entries. *)
LEMMA KernelTables ==
  ASSUME NEW k \in Kernel
  PROVE  /\ k.p \in Seq(ProcessRec) /\ k.t \in Seq(ThreadRec) /\ k.r \in Seq(Nat)
         /\ Processes(k) = 1..Len(k.p) /\ Len(k.p) \in Nat
         /\ Threads(k) = 1..Len(k.t) /\ Len(k.t) \in Nat
         /\ \A p \in Processes(k) : k.p[p] \in ProcessRec
         /\ \A u \in Threads(k) : k.t[u] \in ThreadRec
BY DEF Kernel, Processes, Threads

(* What the counts of threads and of releases rest on; CountingHolds takes  *)
(* it from the library. The lemmas that count assume it, so that the        *)
(* library's theorems stay out of their proof obligations.                  *)
Counting ==
  /\ \A n \in Nat : IsFiniteSet(1..n)
  /\ \A S : IsFiniteSet(S) => \A T \in SUBSET S : IsFiniteSet(T)
  /\ \A S : IsFiniteSet(S) => Cardinality(S) \in Nat /\ (Cardinality(S) = 0 <=> S = {})
  /\ \A x : Cardinality({x}) = 1
  /\ Cardinality({}) = 0
  /\ \A S, x : IsFiniteSet(S) /\ x \notin S => Cardinality(S \cup {x}) = Cardinality(S) + 1
  /\ \A S, T : IsFiniteSet(S) => Cardinality(S \ T) = Cardinality(S) - Cardinality(S \cap T)

(* The elements of a finite set that are left when those in T are taken     *)
(* away, and the number of elements with a new one.                         *)
LEMMA CountDifference ==
  ASSUME Counting, NEW S, NEW T, IsFiniteSet(S)
  PROVE  Cardinality(S \ T) = Cardinality(S) - Cardinality(S \cap T)
BY Zenon DEF Counting

(* A new element counts one. *)
LEMMA CountAdd ==
  ASSUME Counting, NEW S, NEW x, IsFiniteSet(S), x \notin S
  PROVE  Cardinality(S \cup {x}) = Cardinality(S) + 1
BY Zenon DEF Counting

(* A set of one element. *)
LEMMA CountOne ==
  ASSUME Counting, NEW x
  PROVE  Cardinality({x}) = 1
BY Zenon DEF Counting

(* The live threads of a process are finitely many. *)
LEMMA AliveFinite ==
  ASSUME Counting, NEW k \in Kernel, NEW p
  PROVE  IsFiniteSet(Alive(k, p)) /\ Cardinality(Alive(k, p)) \in Nat
<1>1. IsFiniteSet(Threads(k))
  BY KernelTables, Zenon DEF Counting
<1>2. Alive(k, p) \in SUBSET Threads(k)
  BY Zenon DEF Alive
<1> QED
  BY <1>1, <1>2, Zenon DEF Counting

(* A parent other than the idle process is in the table. *)
LEMMA ParentIsThere ==
  ASSUME NEW k \in Kernel, Links(k), NEW q \in Processes(k), Parent(k, q) # IdleProcess
  PROVE  Parent(k, q) \in Processes(k)
<1>1. k.p[q] \in ProcessRec /\ Processes(k) = 1..Len(k.p) /\ Len(k.p) \in Nat
  BY KernelTables, Zenon
<1>2. Parent(k, q) \in Nat /\ Parent(k, q) < q
  BY <1>1, Zenon DEF ProcessRec, Links, Parent
<1> QED
  BY <1>1, <1>2 DEF IdleProcess

SameFamily(k, o) ==
  /\ Processes(o) = Processes(k) /\ o.r = k.r
  /\ \A q \in Processes(k) :
       /\ State(o, q) = State(k, q) /\ (Own(o, q) <=> Own(k, q))
       /\ Parent(o, q) = Parent(k, q) /\ Children(o, q) = Children(k, q)

(* Families and releases are not touched when only threads move on. *)
LEMMA FamilyKept ==
  ASSUME NEW k \in Kernel, NEW o \in Kernel, SameFamily(k, o), Links(k), Family(k), Released(k)
  PROVE  Family(o) /\ Released(o)
<1>1. /\ Processes(o) = Processes(k) /\ o.r = k.r
      /\ \A q \in Processes(k) :
           /\ State(o, q) = State(k, q) /\ (Own(o, q) <=> Own(k, q))
           /\ Parent(o, q) = Parent(k, q) /\ Children(o, q) = Children(k, q)
  BY Zenon DEF SameFamily
<1>2. \A q \in Processes(k) : Children(k, q) \subseteq Processes(k)
  BY Zenon DEF Links
<1>3. ASSUME NEW q \in Processes(k), NEW c \in Children(k, q)
      PROVE  /\ q < c
             /\ State(o, q) = "live" /\ State(o, c) = "live" => Parent(o, c) = q
  <2>1. c \in Processes(k)
    BY <1>2, <1>3, Zenon
  <2> QED
    BY <1>1, <1>3, <2>1, Zenon DEF Family
<1>4. ASSUME NEW q \in Processes(k), State(o, q) = "live", Parent(k, q) # IdleProcess
      PROVE  \/ State(o, Parent(k, q)) = "live" /\ q \in Children(o, Parent(k, q))
             \/ Own(o, Parent(k, q))
  <2>1. Parent(k, q) \in Processes(k)
    BY <1>4, ParentIsThere, Zenon
  <2>2. \/ State(k, Parent(k, q)) = "live" /\ q \in Children(k, Parent(k, q))
        \/ Own(k, Parent(k, q))
    BY <1>1, <1>4, Zenon DEF Family
  <2> QED
    BY <1>1, <2>1, <2>2, Zenon
<1>5. Family(o)
  BY <1>1, <1>3, <1>4, Zenon DEF Family
<1>6. Released(o)
  BY <1>1, Zenon DEF Released
<1> QED
  BY <1>5, <1>6, Zenon

-----------------------------------------------------------------------------
(* A thread m is new, and belongs to process n. *)
ThreadAdded(k, n, m, z) ==
  /\ m \notin Threads(k) /\ m = Len(k.t) + 1 /\ Threads(z) = Threads(k) \cup {m}
  /\ Status(z, m) = "ready" /\ Home(z, m) = n /\ Joiners(z, m) = {}
  /\ \A u \in Threads(k) : /\ Status(z, u) = Status(k, u)
                           /\ Home(z, u) = Home(k, u)
                           /\ Joiners(z, u) = Joiners(k, u)

(* A process n with one thread m is new, a child of up. *)
Born(k, up, n, m, z) ==
  /\ n \notin Processes(k) /\ Processes(z) = Processes(k) \cup {n} /\ \A q \in Processes(k) : q < n
  /\ State(z, n) = "live" /\ Parent(z, n) = up /\ Children(z, n) = {}
  /\ Members(ThreadsOf(z, n)) = {m} /\ Count(z, n) = 1
  /\ Waiting(z, n) = {} /\ ~Own(z, n)
  /\ \A q \in Processes(k) :
       /\ State(z, q) = State(k, q) /\ ThreadsOf(z, q) = ThreadsOf(k, q)
       /\ Count(z, q) = Count(k, q)
       /\ Waiting(z, q) = Waiting(k, q)
       /\ (Own(z, q) <=> Own(k, q)) /\ Parent(z, q) = Parent(k, q)
       /\ q # up => Children(z, q) = Children(k, q)
       /\ q = up => Children(z, q) = Children(k, q) \cup {n}

(* sys_exec, by a thread of up. *)
LEMMA ExecKeeps ==
  ASSUME Counting, NEW k, Inv(k), NEW t \in Threads(k), Status(k, t) = "ready",
         NEW n \in Nat, NEW m \in Nat, NEW z \in Kernel,
         ThreadAdded(k, n, m, z), Born(k, Home(k, t), n, m, z), z.r = k.r
  PROVE  Inv(z)
<1> DEFINE up == Home(k, t)
<1>1. /\ k \in Kernel /\ Links(k) /\ Family(k) /\ Counted(k) /\ Ends(k) /\ Stays(k)
      /\ Waiters(k) /\ Released(k)
  BY Zenon DEF Inv
<1>2. up \in Processes(k) /\ (State(k, up) = "live" \/ Own(k, up))
  <2>1. up \in Processes(k) /\ t \in Alive(k, up)
    BY <1>1, Zenon DEF Links, Alive
  <2> QED
    BY <1>1, <2>1, Zenon DEF Ends, EndsAt
<1>3. Born(k, up, n, m, z)
  OBVIOUS
<1> HIDE DEF up
<1>4. /\ n \notin Processes(k) /\ Processes(z) = Processes(k) \cup {n} /\ \A q \in Processes(k) : q < n
      /\ State(z, n) = "live" /\ Parent(z, n) = up /\ Children(z, n) = {}
      /\ Members(ThreadsOf(z, n)) = {m} /\ Count(z, n) = 1
      /\ Waiting(z, n) = {} /\ ~Own(z, n)
      /\ \A q \in Processes(k) :
           /\ State(z, q) = State(k, q) /\ ThreadsOf(z, q) = ThreadsOf(k, q)
           /\ Count(z, q) = Count(k, q)
           /\ Waiting(z, q) = Waiting(k, q)
           /\ (Own(z, q) <=> Own(k, q)) /\ Parent(z, q) = Parent(k, q)
           /\ q # up => Children(z, q) = Children(k, q)
           /\ q = up => Children(z, q) = Children(k, q) \cup {n}
  BY <1>3, Zenon DEF Born
<1>5. /\ m \notin Threads(k) /\ Threads(z) = Threads(k) \cup {m}
      /\ Status(z, m) = "ready" /\ Home(z, m) = n /\ Joiners(z, m) = {}
      /\ \A u \in Threads(k) : /\ Status(z, u) = Status(k, u)
                               /\ Home(z, u) = Home(k, u)
                               /\ Joiners(z, u) = Joiners(k, u)
  BY Zenon DEF ThreadAdded
<1>6. \A u \in Threads(k) : Home(k, u) \in Processes(k) /\ Home(k, u) # n
  BY <1>1, <1>4, ZenonT(60) DEF Links
<1>7. /\ \A q \in Processes(k) : Alive(z, q) = Alive(k, q)
      /\ Alive(z, n) = {m}
  BY <1>4, <1>5, <1>6, Zenon DEF Alive
<1>8. Links(z)
  <2>1. ASSUME NEW q \in Processes(k)
        PROVE  /\ Parent(z, q) < q
               /\ Children(z, q) \subseteq Processes(z)
               /\ Waiting(z, q) \subseteq Threads(z)
               /\ \A u \in Threads(z) : Home(z, u) = q <=> u \in Members(ThreadsOf(z, q))
               /\ Members(ThreadsOf(z, q)) \subseteq Threads(z)
    BY <1>1, <1>4, <1>5 DEF Links
  <2>2. /\ Parent(z, n) < n /\ Members(ThreadsOf(z, n)) \subseteq Threads(z)
        /\ \A u \in Threads(z) : Home(z, u) = n <=> u \in Members(ThreadsOf(z, n))
    BY <1>2, <1>4, <1>5, <1>6, Zenon
  <2>3. \A u \in Threads(z) : Home(z, u) \in Processes(z) /\ Joiners(z, u) \subseteq Threads(z)
    BY <1>1, <1>4, <1>5, Zenon DEF Links
  <2>4. Children(z, n) \subseteq Processes(z) /\ Waiting(z, n) \subseteq Threads(z)
    BY <1>4, Zenon
  <2>5. ASSUME NEW q \in Processes(z) PROVE q \in Processes(k) \/ q = n
    BY <1>4, Zenon
  <2> QED
    BY <2>1, <2>2, <2>3, <2>4, <2>5, Zenon DEF Links
<1>9. Family(z)
  <2>1. ASSUME NEW q \in Processes(k), NEW c \in Children(k, q)
        PROVE  /\ q < c
               /\ State(z, q) = "live" /\ State(z, c) = "live" => Parent(z, c) = q
    <3>1. c \in Processes(k)
      BY <1>1, <2>1, Zenon DEF Links
    <3> QED
      BY <1>1, <1>4, <2>1, <3>1 DEF Family
  <2>2. ASSUME NEW q \in Processes(z), NEW c \in Children(z, q)
        PROVE  \/ c \in Children(k, q) /\ q \in Processes(k)
               \/ q = up /\ c = n
    <3>1. q \in Processes(k)
      BY <1>4, <2>2, Zenon
    <3>2. /\ q = up => Children(z, q) = Children(k, q) \cup {n}
          /\ q # up => Children(z, q) = Children(k, q)
      BY <1>4, <3>1, Zenon
    <3> QED
      BY <2>2, <3>1, <3>2, Zenon
  <2>3. up < n
    BY <1>2, <1>4, Zenon
  <2>4. ASSUME NEW q \in Processes(k), State(z, q) = "live", Parent(k, q) # IdleProcess
        PROVE  \/ State(z, Parent(k, q)) = "live" /\ q \in Children(z, Parent(k, q))
               \/ Own(z, Parent(k, q))
    <3>1. Parent(k, q) \in Processes(k)
      BY <1>1, <2>4, ParentIsThere, Zenon
    <3>2. \/ State(k, Parent(k, q)) = "live" /\ q \in Children(k, Parent(k, q))
          \/ Own(k, Parent(k, q))
      BY <1>1, <1>4, <2>4, Zenon DEF Family
    <3> QED
      BY <1>4, <3>1, <3>2, Zenon
  <2>5. (State(z, up) = "live" /\ n \in Children(z, up)) \/ Own(z, up)
    BY <1>2, <1>4, Zenon
  <2>6. ASSUME NEW q \in Processes(z), NEW c \in Children(z, q)
        PROVE  /\ q < c
               /\ State(z, q) = "live" /\ State(z, c) = "live" => Parent(z, c) = q
    BY <1>4, <2>1, <2>2, <2>3, <2>6, Zenon
  <2>7. ASSUME NEW q \in Processes(z), State(z, q) = "live"
        PROVE  \/ Parent(z, q) = IdleProcess
               \/ State(z, Parent(z, q)) = "live" /\ q \in Children(z, Parent(z, q))
               \/ Own(z, Parent(z, q))
    BY <1>4, <2>4, <2>5, <2>7, Zenon
  <2> QED
    BY <2>6, <2>7, Zenon DEF Family
<1>10. Counted(z)
  <2>1. Cardinality({m}) = 1
    BY CountOne, Zenon
  <2>2. Count(z, n) = Cardinality(Alive(z, n))
    BY <1>4, <1>7, <2>1, Zenon
  <2>3. \A q \in Processes(k) : Count(z, q) = Cardinality(Alive(z, q))
    BY <1>1, <1>4, <1>7, Zenon DEF Counted
  <2> QED
    BY <1>4, <2>2, <2>3, Zenon DEF Counted
<1>11. Ends(z)
  BY <1>1, <1>4, <1>7, Zenon DEF Ends, EndsAt
<1>12. Stays(z)
  <2>1. \A q \in Processes(z) : Own(z, q) => State(z, q) = "killed"
    BY <1>1, <1>4, Zenon DEF Stays
  <2>2. \A u \in Threads(z) : Status(z, u) = "deleted" => State(z, Home(z, u)) = "deleted"
    BY <1>1, <1>4, <1>5, <1>6, Zenon DEF Stays
  <2> QED
    BY <2>1, <2>2, Zenon DEF Stays
<1>13. Waiters(z)
  BY <1>1, <1>4, <1>5, Zenon DEF Waiters
<1>14. Released(z)
  <2>1. {i \in DOMAIN k.r : k.r[i] = n} = {}
    <3>1. \A i \in DOMAIN k.r : k.r[i] \in Processes(k)
      BY <1>1, Zenon DEF Released
    <3>2. n \notin Processes(k)
      BY <1>4, Zenon
    <3> QED
      BY <3>1, <3>2, Zenon
  <2>2. Times(k.r, n) = 0
    BY <2>1, Zenon DEF Times, Counting
  <2> QED
    BY <1>1, <1>4, <2>2, Zenon DEF Released
<1> QED
  BY <1>8, <1>9, <1>10, <1>11, <1>12, <1>13, <1>14, Zenon DEF Inv

(* A thread m is added to process p. *)
Joined(k, p, m, z) ==
  /\ Processes(z) = Processes(k) /\ z.r = k.r
  /\ Members(ThreadsOf(z, p)) = Members(ThreadsOf(k, p)) \cup {m}
  /\ Count(z, p) = Count(k, p) + 1
  /\ \A q \in Processes(k) :
       /\ State(z, q) = State(k, q) /\ (Own(z, q) <=> Own(k, q))
       /\ Parent(z, q) = Parent(k, q) /\ Children(z, q) = Children(k, q)
       /\ Waiting(z, q) = Waiting(k, q)
       /\ q # p => /\ ThreadsOf(z, q) = ThreadsOf(k, q)
                   /\ Count(z, q) = Count(k, q)

(* sys_create_thread: a thread of p is added while one of p runs. *)
LEMMA CreateKeeps ==
  ASSUME Counting, NEW k, Inv(k), NEW t \in Threads(k), Status(k, t) = "ready",
         NEW m \in Nat, NEW z \in Kernel,
         ThreadAdded(k, Home(k, t), m, z), Joined(k, Home(k, t), m, z)
  PROVE  Inv(z)
<1> DEFINE p == Home(k, t)
<1>1. /\ k \in Kernel /\ Links(k) /\ Family(k) /\ Counted(k) /\ Ends(k) /\ Stays(k)
      /\ Waiters(k) /\ Released(k)
  BY Zenon DEF Inv
<1>2. p \in Processes(k) /\ (State(k, p) = "live" \/ Own(k, p))
  <2>1. p \in Processes(k) /\ t \in Alive(k, p)
    BY <1>1, Zenon DEF Links, Alive
  <2> QED
    BY <1>1, <2>1, Zenon DEF Ends, EndsAt
<1>3. ThreadAdded(k, p, m, z) /\ Joined(k, p, m, z)
  OBVIOUS
<1> HIDE DEF p
<1>4. /\ Processes(z) = Processes(k) /\ z.r = k.r
      /\ Members(ThreadsOf(z, p)) = Members(ThreadsOf(k, p)) \cup {m}
      /\ Count(z, p) = Count(k, p) + 1
      /\ \A q \in Processes(k) :
           /\ State(z, q) = State(k, q) /\ (Own(z, q) <=> Own(k, q))
           /\ Parent(z, q) = Parent(k, q) /\ Children(z, q) = Children(k, q)
           /\ Waiting(z, q) = Waiting(k, q)
           /\ q # p => /\ ThreadsOf(z, q) = ThreadsOf(k, q)
                       /\ Count(z, q) = Count(k, q)
  BY <1>3, Zenon DEF Joined
<1>5. /\ m \notin Threads(k) /\ Threads(z) = Threads(k) \cup {m}
      /\ Status(z, m) = "ready" /\ Home(z, m) = p /\ Joiners(z, m) = {}
      /\ \A u \in Threads(k) : /\ Status(z, u) = Status(k, u)
                               /\ Home(z, u) = Home(k, u)
                               /\ Joiners(z, u) = Joiners(k, u)
  BY <1>3, Zenon DEF ThreadAdded
<1>6. /\ \A q \in Processes(k) : q # p => Alive(z, q) = Alive(k, q)
      /\ Alive(z, p) = Alive(k, p) \cup {m} /\ m \notin Alive(k, p)
  BY <1>4, <1>5, Zenon DEF Alive
<1>7. Links(z)
  <2>1. ASSUME NEW q \in Processes(k)
        PROVE  /\ Parent(z, q) < q /\ Children(z, q) \subseteq Processes(z)
               /\ Waiting(z, q) \subseteq Threads(z)
    BY <1>1, <1>4, <1>5, Zenon DEF Links
  <2>2. ASSUME NEW q \in Processes(k)
        PROVE  /\ \A u \in Threads(z) : Home(z, u) = q <=> u \in Members(ThreadsOf(z, q))
               /\ Members(ThreadsOf(z, q)) \subseteq Threads(z)
    <3>1. /\ \A u \in Threads(k) : Home(k, u) = q <=> u \in Members(ThreadsOf(k, q))
          /\ Members(ThreadsOf(k, q)) \subseteq Threads(k)
      BY <1>1, Zenon DEF Links
    <3>2. CASE q = p
      BY <1>4, <1>5, <3>1, <3>2
    <3>3. CASE q # p
      BY <1>4, <1>5, <3>1, <3>3, Zenon
    <3> QED
      BY <3>2, <3>3, Zenon
  <2>3. \A u \in Threads(z) : Home(z, u) \in Processes(z) /\ Joiners(z, u) \subseteq Threads(z)
    BY <1>1, <1>2, <1>4, <1>5, Zenon DEF Links
  <2> QED
    BY <1>4, <2>1, <2>2, <2>3, Zenon DEF Links
<1>8. Family(z) /\ Released(z)
  <2>1. SameFamily(k, z)
    BY <1>4, Zenon DEF SameFamily
  <2> QED
    BY <1>1, <2>1, FamilyKept, Zenon
<1>9. Counted(z)
  <2>1. Cardinality(Alive(z, p)) = Cardinality(Alive(k, p)) + 1
    BY <1>1, <1>6, AliveFinite, CountAdd, Zenon
  <2> QED
    BY <1>1, <1>2, <1>4, <1>6, <2>1, Zenon DEF Counted
<1>10. Ends(z)
  BY <1>1, <1>2, <1>4, <1>6, Zenon DEF Ends, EndsAt
<1>11. Stays(z)
  <2>1. \A u \in Threads(z) : Status(z, u) = "deleted" => State(z, Home(z, u)) = "deleted"
    BY <1>1, <1>4, <1>5, Zenon DEF Stays, Links
  <2> QED
    BY <1>1, <1>4, <2>1, Zenon DEF Stays
<1>12. Waiters(z)
  BY <1>1, <1>4, <1>5, Zenon DEF Waiters
<1> QED
  BY <1>7, <1>8, <1>9, <1>10, <1>11, <1>12, Zenon DEF Inv

(* Somebody waits: threads keep their process and queues only grow; only   *)
(* the caller changes state.                                                *)
Blocked(k, t, z) ==
  /\ Processes(z) = Processes(k) /\ Threads(z) = Threads(k) /\ z.r = k.r
  /\ \A q \in Processes(k) :
       /\ State(z, q) = State(k, q) /\ (Own(z, q) <=> Own(k, q))
       /\ Parent(z, q) = Parent(k, q) /\ Children(z, q) = Children(k, q)
       /\ ThreadsOf(z, q) = ThreadsOf(k, q)
       /\ Count(z, q) = Count(k, q)
       /\ Waiting(k, q) \subseteq Waiting(z, q)
       /\ Waiting(z, q) \subseteq Waiting(k, q) \cup {t}
  /\ \A u \in Threads(k) :
       /\ Home(z, u) = Home(k, u)
       /\ u # t => Status(z, u) = Status(k, u)
       /\ u = t => Status(z, u) = "blocked"
       /\ Joiners(k, u) \subseteq Joiners(z, u)
       /\ Joiners(z, u) \subseteq Joiners(k, u) \cup {t}

(* A thread that waits for something that has not ended keeps the           *)
(* invariant.                                                               *)
LEMMA BlockedKeeps ==
  ASSUME NEW k, Inv(k), NEW t \in Threads(k), Status(k, t) = "ready",
         NEW z \in Kernel, Blocked(k, t, z),
         \/ \E p \in Processes(k) : State(k, p) = "live" /\ t \in Waiting(z, p)
         \/ \E u \in Threads(k) : Status(k, u) \in {"ready", "blocked"} /\ t \in Joiners(z, u)
  PROVE  Inv(z)
<1>1. /\ k \in Kernel /\ Links(k) /\ Family(k) /\ Counted(k) /\ Ends(k) /\ Stays(k)
      /\ Waiters(k) /\ Released(k)
  BY Zenon DEF Inv
<1>2. /\ Processes(z) = Processes(k) /\ Threads(z) = Threads(k) /\ z.r = k.r
      /\ \A q \in Processes(k) :
           /\ State(z, q) = State(k, q) /\ (Own(z, q) <=> Own(k, q))
           /\ Parent(z, q) = Parent(k, q) /\ Children(z, q) = Children(k, q)
           /\ ThreadsOf(z, q) = ThreadsOf(k, q)
           /\ Count(z, q) = Count(k, q)
           /\ Waiting(k, q) \subseteq Waiting(z, q)
           /\ Waiting(z, q) \subseteq Waiting(k, q) \cup {t}
  BY Zenon DEF Blocked
<1>3. \A u \in Threads(k) :
        /\ Home(z, u) = Home(k, u)
        /\ u # t => Status(z, u) = Status(k, u)
        /\ u = t => Status(z, u) = "blocked"
        /\ Joiners(k, u) \subseteq Joiners(z, u)
        /\ Joiners(z, u) \subseteq Joiners(k, u) \cup {t}
  BY Zenon DEF Blocked
<1>4. \A u \in Threads(k) : Status(z, u) \in {"ready", "blocked"} <=> Status(k, u) \in {"ready", "blocked"}
  BY <1>3, Zenon
<1>5. \A q : Alive(z, q) = Alive(k, q)
  BY <1>2, <1>3, <1>4, Zenon DEF Alive
<1>6. Links(z)
  <2>1. ASSUME NEW q \in Processes(k)
        PROVE  /\ Parent(z, q) < q /\ Children(z, q) \subseteq Processes(z)
               /\ Waiting(z, q) \subseteq Threads(z)
               /\ \A u \in Threads(z) : Home(z, u) = q <=> u \in Members(ThreadsOf(z, q))
               /\ Members(ThreadsOf(z, q)) \subseteq Threads(z)
    BY <1>1, <1>2, <1>3, ZenonT(60) DEF Links
  <2>2. \A u \in Threads(z) : Home(z, u) \in Processes(z) /\ Joiners(z, u) \subseteq Threads(z)
    BY <1>1, <1>2, <1>3, Zenon DEF Links
  <2> QED
    BY <1>2, <2>1, <2>2, Zenon DEF Links
<1>7. Family(z) /\ Released(z)
  <2>1. SameFamily(k, z)
    BY <1>2, Zenon DEF SameFamily
  <2> QED
    BY <1>1, <2>1, FamilyKept, Zenon
<1>8. Counted(z)
  BY <1>1, <1>2, <1>5, Zenon DEF Counted
<1>9. Ends(z)
  BY <1>1, <1>2, <1>5, Zenon DEF Ends, EndsAt
<1>10. Stays(z)
  BY <1>1, <1>2, <1>3 DEF Stays, Links
<1>11. Waiters(z)
  <2> SUFFICES ASSUME NEW v \in Threads(k), Status(z, v) = "blocked"
               PROVE  \/ \E q \in Processes(z) : State(z, q) = "live" /\ v \in Waiting(z, q)
                      \/ \E u \in Threads(z) : Status(z, u) \in {"ready", "blocked"} /\ v \in Joiners(z, u)
    BY <1>2, Zenon DEF Waiters
  <2>1. CASE v = t
    BY <1>2, <1>4, <2>1, Zenon
  <2>2. CASE v # t
    <3>1. Status(k, v) = "blocked"
      BY <1>3, <2>2, Zenon
    <3> QED
      BY <1>1, <1>2, <1>3, <1>4, <3>1, Zenon DEF Waiters
  <2> QED
    BY <2>1, <2>2, Zenon
<1> QED
  BY <1>6, <1>7, <1>8, <1>9, <1>10, <1>11, Zenon DEF Inv

(* Processes dead have been cleaned up. *)
Cleaned(k, dead, z) ==
  /\ Processes(z) = Processes(k) /\ Threads(z) = Threads(k) /\ z.r = k.r
  /\ \A q \in Processes(k) :
       /\ q \notin dead => State(z, q) = State(k, q)
       /\ q \in dead => State(z, q) = "deleted"
       /\ (Own(z, q) <=> Own(k, q))
       /\ Parent(z, q) = Parent(k, q) /\ Children(z, q) = Children(k, q)
       /\ ThreadsOf(z, q) = ThreadsOf(k, q)
       /\ Count(z, q) = Count(k, q)
       /\ Waiting(z, q) = Waiting(k, q)
  /\ \A u \in Threads(k) :
       /\ Home(z, u) = Home(k, u)
       /\ Joiners(z, u) = Joiners(k, u)
       /\ Home(k, u) \notin dead => Status(z, u) = Status(k, u)
       /\ Home(k, u) \in dead => Status(z, u) = "deleted"

(* idle_cleanup deletes killed processes whose lock it gets: they have no   *)
(* thread left that has not exited.                                         *)
LEMMA CleanedKeeps ==
  ASSUME NEW k, Inv(k), NEW dead \in SUBSET Processes(k),
         \A p \in dead : State(k, p) = "killed" /\ ~Own(k, p),
         NEW z \in Kernel, Cleaned(k, dead, z)
  PROVE  /\ Inv(z)
         /\ \A u \in Threads(k) : Home(k, u) \in dead => Status(k, u) = "exited"
<1>1. /\ k \in Kernel /\ Links(k) /\ Family(k) /\ Counted(k) /\ Ends(k) /\ Stays(k)
      /\ Waiters(k) /\ Released(k)
  BY Zenon DEF Inv
<1>2. /\ Processes(z) = Processes(k) /\ Threads(z) = Threads(k) /\ z.r = k.r
      /\ \A q \in Processes(k) :
           /\ q \notin dead => State(z, q) = State(k, q)
           /\ q \in dead => State(z, q) = "deleted"
           /\ (Own(z, q) <=> Own(k, q))
           /\ Parent(z, q) = Parent(k, q) /\ Children(z, q) = Children(k, q)
           /\ ThreadsOf(z, q) = ThreadsOf(k, q)
           /\ Count(z, q) = Count(k, q)
           /\ Waiting(z, q) = Waiting(k, q)
  BY Zenon DEF Cleaned
<1>3. \A u \in Threads(k) :
        /\ Home(z, u) = Home(k, u)
        /\ Joiners(z, u) = Joiners(k, u)
        /\ Home(k, u) \notin dead => Status(z, u) = Status(k, u)
        /\ Home(k, u) \in dead => Status(z, u) = "deleted"
  BY Zenon DEF Cleaned
<1>4. ASSUME NEW u \in Threads(k), Home(k, u) \in dead PROVE Status(k, u) = "exited"
  <2>1. Status(k, u) \in {"ready", "blocked", "exited", "deleted"}
    BY <1>1, KernelTables, Zenon DEF ThreadRec, Status
  <2>2. Alive(k, Home(k, u)) = {}
    BY <1>1, <1>4, Zenon DEF Ends, EndsAt
  <2>3. Status(k, u) \notin {"ready", "blocked"}
    BY <2>2, Zenon DEF Alive
  <2>4. Status(k, u) # "deleted"
    BY <1>1, <1>4, Zenon DEF Stays
  <2> QED
    BY <2>1, <2>3, <2>4, Zenon
<1>5. \A u \in Threads(k) : Status(z, u) \in {"ready", "blocked"} <=> Status(k, u) \in {"ready", "blocked"}
  BY <1>3, <1>4, Zenon
<1>6. \A q : Alive(z, q) = Alive(k, q)
  BY <1>2, <1>3, <1>5, Zenon DEF Alive
<1>7. \A q \in Processes(k) : /\ State(z, q) = "live" <=> State(k, q) = "live"
                              /\ Own(z, q) => State(z, q) = State(k, q)
  BY <1>2, Zenon
<1>8. Links(z)
  BY <1>1, <1>2, <1>3, Zenon DEF Links
<1>9. Family(z)
  <2>1. ASSUME NEW q \in Processes(k), NEW c \in Children(k, q)
        PROVE  /\ q < c
               /\ State(z, q) = "live" /\ State(z, c) = "live" => Parent(z, c) = q
    <3>1. c \in Processes(k)
      BY <1>1, <2>1, Zenon DEF Links
    <3> QED
      BY <1>1, <1>2, <1>7, <2>1, <3>1, Zenon DEF Family
  <2>2. ASSUME NEW q \in Processes(k), State(z, q) = "live", Parent(k, q) # IdleProcess
        PROVE  \/ State(z, Parent(k, q)) = "live" /\ q \in Children(z, Parent(k, q))
               \/ Own(z, Parent(k, q))
    <3>1. Parent(k, q) \in Processes(k)
      BY <1>1, <2>2, ParentIsThere, Zenon
    <3>2. State(k, q) = "live"
      BY <1>7, <2>2, Zenon
    <3>3. \/ State(k, Parent(k, q)) = "live" /\ q \in Children(k, Parent(k, q))
          \/ Own(k, Parent(k, q))
      BY <1>1, <2>2, <3>2, Zenon DEF Family
    <3> QED
      BY <1>2, <1>7, <3>1, <3>3, Zenon
  <2> QED
    BY <1>2, <2>1, <2>2, Zenon DEF Family
<1>10. Counted(z)
  BY <1>1, <1>2, <1>6, Zenon DEF Counted
<1>11. Ends(z)
  BY <1>1, <1>2, <1>6, <1>7, Zenon DEF Ends, EndsAt
<1>12. Stays(z)
  <2>1. \A q \in Processes(k) : Own(z, q) => State(z, q) = "killed"
    BY <1>1, <1>2, <1>7, Zenon DEF Stays
  <2>2. \A u \in Threads(k) : Status(z, u) = "deleted" => State(z, Home(k, u)) = "deleted"
    BY <1>1, <1>2, <1>3, Zenon DEF Stays, Links
  <2> QED
    BY <1>2, <1>3, <2>1, <2>2, Zenon DEF Stays
<1>13. Waiters(z)
  <2> SUFFICES ASSUME NEW v \in Threads(k), Status(z, v) = "blocked"
               PROVE  \/ \E q \in Processes(z) : State(z, q) = "live" /\ v \in Waiting(z, q)
                      \/ \E u \in Threads(z) : Status(z, u) \in {"ready", "blocked"} /\ v \in Joiners(z, u)
    BY <1>2, Zenon DEF Waiters
  <2>1. Status(k, v) = "blocked"
    BY <1>3, Zenon
  <2> QED
    BY <1>1, <1>2, <1>3, <1>5, <1>7, <2>1, Zenon DEF Waiters
<1>14. Released(z)
  <2>1. \A q \in Processes(k) : (State(z, q) # "live" /\ ~Own(z, q)) <=> (State(k, q) # "live" /\ ~Own(k, q))
    BY <1>2, <1>7, Zenon
  <2> QED
    BY <1>1, <1>2, <2>1, Zenon DEF Released
<1> QED
  BY <1>4, <1>8, <1>9, <1>10, <1>11, <1>12, <1>13, <1>14, Zenon DEF Inv

-----------------------------------------------------------------------------
(* The thread tables agree. *)
SameThreads(k, o) ==
  /\ Threads(o) = Threads(k)
  /\ \A u : /\ Status(o, u) = Status(k, u)
            /\ Home(o, u) = Home(k, u)
            /\ Joiners(o, u) = Joiners(k, u)

(* Nothing that counts threads or waiters looks at parents, children, own   *)
(* or the list of releases.                                                 *)
LEMMA FamilyIsApart ==
  ASSUME NEW k \in Kernel, NEW o \in Kernel, SameThreads(k, o), Processes(o) = Processes(k),
         Links(k), Waiters(k), Counted(k),
         \A q \in Processes(k) :
           /\ State(o, q) = State(k, q) /\ ThreadsOf(o, q) = ThreadsOf(k, q)
           /\ Count(o, q) = Count(k, q)
           /\ Waiting(o, q) = Waiting(k, q)
           /\ Parent(o, q) < q /\ Children(o, q) \subseteq Processes(k)
  PROVE  /\ Links(o) /\ Waiters(o) /\ Counted(o)
         /\ \A q : Alive(o, q) = Alive(k, q)
<1>0. /\ Threads(o) = Threads(k)
      /\ \A u : /\ Status(o, u) = Status(k, u)
                /\ Home(o, u) = Home(k, u)
                /\ Joiners(o, u) = Joiners(k, u)
  BY Zenon DEF SameThreads
<1>1. \A q : Alive(o, q) = Alive(k, q)
  BY <1>0, Zenon DEF Alive
<1>2. Counted(o)
  BY <1>1, Zenon DEF Counted
<1>3. Links(o)
  BY <1>0, Zenon DEF Links
<1>4. Waiters(o)
  BY <1>0, Zenon DEF Waiters
<1> QED
  BY <1>1, <1>2, <1>3, <1>4, Zenon

(* The invariant, but for the threads of p, which Thread::exit may have     *)
(* emptied before it calls kill.                                            *)
Almost(k, p) ==
  /\ k \in Kernel /\ Links(k) /\ Family(k) /\ Counted(k) /\ Stays(k) /\ Waiters(k) /\ Released(k)
  /\ \A q \in Processes(k) : q # p => EndsAt(k, q)

(* A kernel state that satisfies the invariant may be killed at any p. *)
LEMMA InvIsAlmost ==
  ASSUME NEW k, Inv(k), NEW p \in Processes(k)
  PROVE  Almost(k, p)
BY Zenon DEF Inv, Almost, Ends

(* The loop of kill has run: p is marked, its waiters are awake, and the    *)
(* threads reached have exited.                                             *)
Looped(k, p, o) ==
  /\ o \in Kernel /\ Links(o) /\ Counted(o) /\ Stays(o) /\ Waiters(o)
  /\ Processes(o) = Processes(k) /\ o.r = k.r
  /\ \A q \in Processes(k) :
       /\ State(o, q) = (IF q = p THEN "killed" ELSE State(k, q))
       /\ (Own(o, q) <=> Own(k, q))
       /\ Parent(o, q) = Parent(k, q) /\ Children(o, q) = Children(k, q)
  /\ \A q \in Processes(k) : q # p => EndsAt(o, q)

Orphans(k, p) == {c \in Children(k, p) : State(k, c) = "live"}

(* The parent of p has adopted the orphans. *)
AdoptedBy(k, p, o) ==
  /\ Processes(o) = Processes(k)
  /\ \A q \in Processes(k) :
       /\ State(o, q) = State(k, q) /\ ThreadsOf(o, q) = ThreadsOf(k, q)
       /\ Count(o, q) = Count(k, q)
       /\ Waiting(o, q) = Waiting(k, q)
       /\ (Own(o, q) <=> Own(k, q))
       /\ q # Parent(k, p) => Children(o, q) = Children(k, q)
       /\ q = Parent(k, p) => Children(o, q) = Children(k, q) \cup Orphans(k, p)
       /\ q = Parent(k, p) \/ q \notin Orphans(k, p) => Parent(o, q) = Parent(k, q)
       /\ q # Parent(k, p) /\ q \in Orphans(k, p) => Parent(o, q) = Parent(k, p)

Pushed(o, p, z) == z.r = Append(o.r, p)

(* A process killed by another: its children are adopted and it is          *)
(* released.                                                                *)
LEMMA KillOther ==
  ASSUME NEW k \in Kernel, NEW p \in Processes(k), Almost(k, p), State(k, p) = "live",
         NEW o \in Kernel, Looped(k, p, o), Alive(o, p) = {},
         NEW z \in Kernel, SameThreads(o, z), Pushed(o, p, z), AdoptedBy(o, p, z)
  PROVE  Links(z) /\ Family(z) /\ Counted(z) /\ Ends(z) /\ Stays(z) /\ Waiters(z)
<1>1. /\ o \in Kernel /\ Links(o) /\ Counted(o) /\ Stays(o) /\ Waiters(o)
      /\ Processes(o) = Processes(k) /\ o.r = k.r
      /\ \A q \in Processes(k) :
           /\ State(o, q) = (IF q = p THEN "killed" ELSE State(k, q))
           /\ (Own(o, q) <=> Own(k, q))
           /\ Parent(o, q) = Parent(k, q) /\ Children(o, q) = Children(k, q)
      /\ \A q \in Processes(k) : q # p => EndsAt(o, q)
      /\ Alive(o, p) = {}
  BY Zenon DEF Looped
<1>2. Family(k) /\ Released(k) /\ Stays(k) /\ Links(k)
  BY Zenon DEF Almost
<1>3. Processes(k) \subseteq Nat /\ k.r \in Seq(Nat) /\ \A q \in Processes(k) : Parent(k, q) \in Nat
  <2>1. \A q \in Processes(k) : k.p[q] \in ProcessRec
    BY KernelTables, Zenon
  <2>2. \A q \in Processes(k) : Parent(k, q) \in Nat
    BY <2>1, Zenon DEF ProcessRec, Parent
  <2> QED
    BY <2>2, KernelTables
<1> DEFINE up == Parent(k, p)
           orphans == Orphans(k, p)
<1>4. /\ Orphans(o, p) = orphans /\ orphans \subseteq Processes(k)
      /\ \A c \in orphans : Parent(k, c) = p /\ State(k, c) = "live" /\ p < c
  <2>1. \A c \in Children(k, p) : c \in Processes(k) /\ p < c /\ c # p
    BY <1>2, <1>3 DEF Family, Links
  <2> QED
    BY <1>1, <1>2, <2>1 DEF Orphans, Family
<1> HIDE DEF orphans
<1>5. /\ Processes(z) = Processes(k)
      /\ \A q \in Processes(k) :
           /\ State(z, q) = State(o, q) /\ ThreadsOf(z, q) = ThreadsOf(o, q)
           /\ Count(z, q) = Count(o, q)
           /\ Waiting(z, q) = Waiting(o, q)
           /\ (Own(z, q) <=> Own(k, q))
           /\ q # up => Children(z, q) = Children(k, q)
           /\ q = up => Children(z, q) = Children(k, q) \cup orphans
           /\ q = up \/ q \notin orphans => Parent(z, q) = Parent(k, q)
           /\ q # up /\ q \in orphans => Parent(z, q) = up
  BY <1>1, <1>4, Zenon DEF AdoptedBy
<1> HIDE DEF up
<1>6. up \in Nat /\ up < p
  BY <1>2, <1>3, Zenon DEF Links, up
<1>7. \A c \in orphans : c # up /\ c # p
  BY <1>3, <1>4, <1>6
<1>8. /\ Links(z) /\ Waiters(z) /\ Counted(z)
      /\ \A q : Alive(z, q) = Alive(o, q)
  <2>1. \A q \in Processes(o) : Parent(z, q) < q
    BY <1>1, <1>2, <1>3, <1>4, <1>5, <1>6 DEF Links
  <2>2. \A q \in Processes(o) : Children(z, q) \subseteq Processes(o)
    BY <1>1, <1>2, <1>4, <1>5 DEF Links
  <2> QED
    BY <1>1, <1>5, <2>1, <2>2, FamilyIsApart
<1>9. Family(z)
  <2>1. ASSUME NEW q \in Processes(k), NEW c \in Children(z, q)
        PROVE  /\ q < c
               /\ State(z, q) = "live" /\ State(z, c) = "live" => Parent(z, c) = q
    <3>1. CASE q = up /\ c \in orphans
      BY <3>1, <1>3, <1>4, <1>5, <1>6, <1>7
    <3>2. CASE c \in Children(k, q)
      <4>1. c \in Processes(k) /\ q < c
        BY <1>2, <3>2, Zenon DEF Family, Links
      <4>2. ASSUME State(z, q) = "live", State(z, c) = "live"
            PROVE  Parent(z, c) = q
        <5>1. q # p /\ c # p /\ State(k, q) = "live" /\ State(k, c) = "live"
          BY <1>1, <1>5, <4>1, <4>2, Zenon
        <5>2. Parent(k, c) = q
          BY <1>2, <3>2, <5>1, Zenon DEF Family
        <5>3. c \notin orphans
          BY <1>4, <5>1, <5>2, Zenon
        <5> QED
          BY <1>5, <4>1, <5>2, <5>3, Zenon
      <4> QED
        BY <4>1, <4>2, Zenon
    <3> QED
      BY <1>5, <3>1, <3>2, Zenon
  <2>2. ASSUME NEW q \in Processes(k), State(z, q) = "live"
        PROVE  \/ Parent(z, q) = IdleProcess
               \/ State(z, Parent(z, q)) = "live" /\ q \in Children(z, Parent(z, q))
               \/ Own(z, Parent(z, q))
    <3>0. q # p /\ State(k, q) = "live"
      BY <1>1, <1>5, <2>2, Zenon
    <3>1. CASE q \in orphans
      <4>1. Parent(z, q) = up
        BY <1>5, <1>7, <3>1, Zenon
      <4>2. CASE up = IdleProcess
        BY <4>1, <4>2, Zenon
      <4>3. CASE up # IdleProcess
        <5>1. up \in Processes(k) /\ up # p
          BY <1>3, <1>6, <4>3, KernelTables DEF IdleProcess
        <5>2. State(k, up) = "live" \/ Own(k, up)
          BY <1>2, <4>3, Zenon DEF Family, up
        <5> QED
          BY <1>1, <1>5, <3>1, <4>1, <5>1, <5>2, Zenon
      <4> QED
        BY <4>2, <4>3, Zenon
    <3>2. CASE q \notin orphans
      <4>1. Parent(z, q) = Parent(k, q)
        BY <1>5, <3>2, Zenon
      <4>2. Parent(k, q) # p
        <5>1. SUFFICES ASSUME Parent(k, q) = p PROVE FALSE
          OBVIOUS
        <5>2. p # IdleProcess /\ ~Own(k, p)
          BY <1>2, KernelTables DEF IdleProcess, Stays
        <5>3. q \in Children(k, p)
          BY <1>2, <3>0, <5>1, <5>2, Zenon DEF Family
        <5> QED
          BY <3>0, <3>2, <5>3, Zenon DEF Orphans, orphans
      <4>3. CASE Parent(k, q) = IdleProcess
        BY <4>1, <4>3, Zenon
      <4>4. CASE Parent(k, q) # IdleProcess
        <5>1. Parent(k, q) \in Processes(k)
          BY <1>2, <4>4, ParentIsThere, Zenon
        <5>2. \/ State(k, Parent(k, q)) = "live" /\ q \in Children(k, Parent(k, q))
              \/ Own(k, Parent(k, q))
          BY <1>2, <3>0, <4>4, Zenon DEF Family
        <5> QED
          BY <1>1, <1>5, <4>1, <4>2, <5>1, <5>2, Zenon
      <4> QED
        BY <4>3, <4>4, Zenon
    <3> QED
      BY <3>1, <3>2, Zenon
  <2> QED
    BY <1>5, <2>1, <2>2, Zenon DEF Family
<1>10. Ends(z)
  BY <1>1, <1>5, <1>8, Zenon DEF Ends, EndsAt
<1>11. Stays(z)
  BY <1>1, <1>5, Zenon DEF Stays, Links, SameThreads
<1> QED
  BY <1>8, <1>9, <1>10, <1>11, Zenon

(* kill stops in do_scheduler, with the lock of p taken. *)
OwnTaken(o, p, z) ==
  /\ z \in Kernel /\ SameThreads(o, z) /\ z.r = o.r /\ Processes(z) = Processes(o)
  /\ \A q \in Processes(o) :
       /\ State(z, q) = State(o, q) /\ ThreadsOf(z, q) = ThreadsOf(o, q)
       /\ Count(z, q) = Count(o, q)
       /\ Waiting(z, q) = Waiting(o, q)
       /\ Parent(z, q) = Parent(o, q) /\ Children(z, q) = Children(o, q)
       /\ Own(z, q) <=> q = p \/ Own(o, q)

(* A process that kills itself: the lock stays taken, the children stay.    *)
LEMMA KillSelf ==
  ASSUME NEW k \in Kernel, NEW p \in Processes(k),
         Almost(k, p), State(k, p) = "live",
         NEW o \in Kernel, Looped(k, p, o),
         NEW z, OwnTaken(o, p, z)
  PROVE  Inv(z)
<1>1. /\ o \in Kernel /\ Links(o) /\ Counted(o) /\ Stays(o) /\ Waiters(o)
      /\ Processes(o) = Processes(k) /\ o.r = k.r
      /\ \A q \in Processes(k) :
           /\ State(o, q) = (IF q = p THEN "killed" ELSE State(k, q))
           /\ (Own(o, q) <=> Own(k, q))
           /\ Parent(o, q) = Parent(k, q) /\ Children(o, q) = Children(k, q)
      /\ \A q \in Processes(k) : q # p => EndsAt(o, q)
  BY Zenon DEF Looped
<1>2. /\ z \in Kernel /\ SameThreads(o, z) /\ z.r = o.r /\ Processes(z) = Processes(o)
      /\ \A q \in Processes(o) :
           /\ State(z, q) = State(o, q) /\ ThreadsOf(z, q) = ThreadsOf(o, q)
           /\ Count(z, q) = Count(o, q)
           /\ Waiting(z, q) = Waiting(o, q)
           /\ Parent(z, q) = Parent(o, q) /\ Children(z, q) = Children(o, q)
           /\ Own(z, q) <=> q = p \/ Own(o, q)
  BY Zenon DEF OwnTaken
<1>3. /\ Links(z) /\ Waiters(z) /\ Counted(z)
      /\ \A q : Alive(z, q) = Alive(o, q)
  <2>1. \A q \in Processes(o) : Parent(z, q) < q /\ Children(z, q) \subseteq Processes(o)
    BY <1>1, <1>2, Zenon DEF Links
  <2>2. \A q \in Processes(o) :
          /\ State(z, q) = State(o, q) /\ ThreadsOf(z, q) = ThreadsOf(o, q)
          /\ Count(z, q) = Count(o, q)
          /\ Waiting(z, q) = Waiting(o, q)
          /\ Parent(z, q) < q /\ Children(z, q) \subseteq Processes(o)
    BY <1>2, <2>1, Zenon
  <2>3. /\ z \in Kernel /\ SameThreads(o, z) /\ Processes(z) = Processes(o)
        /\ Links(o) /\ Waiters(o) /\ Counted(o)
    BY <1>1, <1>2, Zenon
  <2> QED
    BY <2>2, <2>3, FamilyIsApart, Zenon
<1>4. Family(k) /\ Released(k) /\ Stays(k) /\ Links(k)
  BY Zenon DEF Almost
<1>4a. Processes(z) = Processes(k) /\ z.r = k.r
  BY <1>1, <1>2, Zenon
<1>4b. \A q \in Processes(k) :
         /\ Parent(z, q) = Parent(k, q) /\ Children(z, q) = Children(k, q)
         /\ q = p => Own(z, q)
         /\ q # p => State(z, q) = State(k, q) /\ (Own(z, q) <=> Own(k, q))
  BY <1>1, <1>2, Zenon
<1>5. Family(z)
  <2>1. \A q \in Processes(k) : Children(k, q) \subseteq Processes(k)
    BY <1>4, Zenon DEF Links
  <2>2. ASSUME NEW q \in Processes(k), NEW c \in Children(k, q)
        PROVE  /\ q < c
               /\ State(z, q) = "live" /\ State(z, c) = "live" => Parent(z, c) = q
    <3>1. c \in Processes(k)
      BY <2>1, <2>2, Zenon
    <3> QED
      BY <1>1, <1>2, <1>4, <2>2, <3>1, Zenon DEF Family
  <2>3. ASSUME NEW q \in Processes(k), State(z, q) = "live", Parent(k, q) # IdleProcess
        PROVE  \/ State(z, Parent(k, q)) = "live" /\ q \in Children(z, Parent(k, q))
               \/ Own(z, Parent(k, q))
    <3>1. Parent(k, q) \in Processes(k)
      BY <1>4, <2>3, ParentIsThere, Zenon
    <3>2. State(k, q) = "live"
      BY <1>1, <1>2, <2>3, Zenon
    <3>3. \/ State(k, Parent(k, q)) = "live" /\ q \in Children(k, Parent(k, q))
          \/ Own(k, Parent(k, q))
      BY <1>4, <2>3, <3>2, Zenon DEF Family
    <3> QED
      BY <1>1, <1>2, <3>1, <3>3, Zenon
  <2>4. \A q \in Processes(z) : \A c \in Children(z, q) :
          /\ q < c
          /\ State(z, q) = "live" /\ State(z, c) = "live" => Parent(z, c) = q
    BY <1>4a, <1>4b, <2>2, Zenon
  <2>5. \A q \in Processes(z) : State(z, q) = "live" =>
          \/ Parent(z, q) = IdleProcess
          \/ State(z, Parent(z, q)) = "live" /\ q \in Children(z, Parent(z, q))
          \/ Own(z, Parent(z, q))
    BY <1>4a, <1>4b, <2>3, Zenon
  <2> QED
    BY <2>4, <2>5, Zenon DEF Family
<1>6. Ends(z)
  BY <1>1, <1>2, <1>3, Zenon DEF Ends, EndsAt
<1>7. Stays(z)
  BY <1>1, <1>2, Zenon DEF Stays, Links, SameThreads
<1>8. Released(z)
  <2>1. \A i \in DOMAIN z.r : z.r[i] \in Processes(z)
    BY <1>4, <1>4a, Zenon DEF Released
  <2>2. ASSUME NEW q \in Processes(k)
        PROVE  Times(k.r, q) = IF State(z, q) # "live" /\ ~Own(z, q) THEN 1 ELSE 0
    <3>1. Times(k.r, q) = IF State(k, q) # "live" /\ ~Own(k, q) THEN 1 ELSE 0
      BY <1>4, Zenon DEF Released
    <3>2. CASE q = p
      BY <1>4b, <3>1, <3>2, Zenon
    <3>3. CASE q # p
      BY <1>4b, <3>1, <3>3, Zenon
    <3> QED
      BY <3>2, <3>3, Zenon
  <2> QED
    BY <1>4a, <2>1, <2>2, Zenon DEF Released
<1> QED
  BY <1>2, <1>3, <1>5, <1>6, <1>7, <1>8, Zenon DEF Inv

-----------------------------------------------------------------------------
Gone(k, us) == {u \in us : Status(k, u) \in {"ready", "blocked"}}

Waking(k, us) == UNION {Joiners(k, u) : u \in Gone(k, us)}

(* What k and o agree on when only threads have moved on: the families, the *)
(* states of processes and who belongs to which process.                    *)
Agree(k, o) ==
  /\ Processes(o) = Processes(k) /\ Threads(o) = Threads(k) /\ o.r = k.r
  /\ \A q \in Processes(k) :
       /\ State(o, q) = State(k, q) /\ (Own(o, q) <=> Own(k, q))
       /\ Parent(o, q) = Parent(k, q) /\ Children(o, q) = Children(k, q)
       /\ ThreadsOf(o, q) = ThreadsOf(k, q) /\ Waiting(o, q) = Waiting(k, q)
  /\ \A u \in Threads(k) : Home(o, u) = Home(k, u)

(* The entry of a thread after some threads have exited. *)
ExitedThread(k, us, u) ==
  IF u \in Gone(k, us) THEN [k.t[u] EXCEPT !.state = "exited", !.wait_exited_queue = {}]
  ELSE IF u \in Waking(k, us) /\ Status(k, u) = "blocked" THEN [k.t[u] EXCEPT !.state = "ready"]
  ELSE k.t[u]

(* wakeup_all makes the blocked threads of a queue ready. *)
LEMMA WokenIs ==
  ASSUME NEW k \in Kernel, NEW queue
  PROVE  /\ Woken(k, queue) \in Kernel
         /\ Woken(k, queue).p = k.p /\ Woken(k, queue).r = k.r
         /\ DOMAIN Woken(k, queue).t = Threads(k)
         /\ \A u \in Threads(k) :
              Woken(k, queue).t[u] =
                IF u \in queue /\ Status(k, u) = "blocked"
                THEN [k.t[u] EXCEPT !.state = "ready"] ELSE k.t[u]
<1> USE DEF Threads, Status, Home, Joiners
<1> DEFINE f == [u \in Threads(k) |->
                   IF u \in queue /\ Status(k, u) = "blocked"
                   THEN [k.t[u] EXCEPT !.state = "ready"] ELSE k.t[u]]
<1>1. f \in [Threads(k) -> ThreadRec]
  BY KernelTables, Zenon DEF ThreadRec
<1>2. f \in Seq(ThreadRec) /\ DOMAIN f = Threads(k)
  BY <1>1, KernelTables, TableType, Zenon
<1>3. Woken(k, queue) = [k EXCEPT !.t = f]
  BY Zenon DEF Woken
<1> QED
  BY <1>2, <1>3, Zenon DEF Kernel

(* The fields after Thread::exit. *)
LEMMA ExitedFields ==
  ASSUME Counting, NEW k \in Kernel, NEW p \in Processes(k), NEW us \in SUBSET Threads(k),
         NEW o, o = Exited(k, p, us)
  PROVE  /\ o \in Kernel /\ Agree(k, o)
         /\ \A q \in Processes(k) : Count(o, q) =
              Count(k, q) - (IF q = p THEN Cardinality(Gone(k, us)) ELSE 0)
         /\ \A u \in Threads(k) :
              /\ Status(o, u) = IF u \in Gone(k, us) THEN "exited"
                                ELSE IF u \in Waking(k, us) /\ Status(k, u) = "blocked" THEN "ready"
                                ELSE Status(k, u)
              /\ Joiners(o, u) = IF u \in Gone(k, us) THEN {}
                                            ELSE Joiners(k, u)
<1> USE DEF Processes, State, Own, Parent, Children, ThreadsOf, Count, Waiting,
            Threads, Status, Home, Joiners
<1> DEFINE gone == Gone(k, us)
           n == Cardinality(gone)
           w == Woken(k, Waking(k, us))
           f == [u \in Threads(k) |->
                   IF u \in gone THEN [w.t[u] EXCEPT !.state = "exited", !.wait_exited_queue = {}]
                   ELSE w.t[u]]
           g == [k.p EXCEPT ![p].active_thread_cnt = @ - n]
<1>1. /\ w \in Kernel /\ w.p = k.p /\ w.r = k.r /\ DOMAIN w.t = Threads(k)
      /\ \A u \in Threads(k) : w.t[u] =
            IF u \in Waking(k, us) /\ Status(k, u) = "blocked"
            THEN [k.t[u] EXCEPT !.state = "ready"] ELSE k.t[u]
  BY WokenIs, Zenon
<1>2. IsFiniteSet(gone) /\ n \in Nat
  <2>1. IsFiniteSet(Threads(k))
    BY KernelTables, Zenon DEF Counting
  <2>2. gone \in SUBSET Threads(k)
    BY Zenon DEF Gone
  <2> QED
    BY <2>1, <2>2, Zenon DEF Counting
<1>3. o = [w EXCEPT !.t = f, !.p = g]
  BY <1>1, Zenon DEF Exited, Gone, Waking
<1> HIDE DEF w, n
<1>4. f \in [Threads(k) -> ThreadRec]
  <2>1. \A u \in Threads(k) : w.t[u] \in ThreadRec
    BY <1>1, KernelTables, Zenon
  <2> QED
    BY <2>1, Zenon DEF ThreadRec
<1>5. f \in Seq(ThreadRec) /\ DOMAIN f = Threads(k)
  BY <1>4, KernelTables, TableType, Zenon
<1>6. g \in [Processes(k) -> ProcessRec]
  <2>1. [k.p[p] EXCEPT !.active_thread_cnt = @ - n] \in ProcessRec
    <3>1. k.p[p] \in ProcessRec /\ Count(k, p) - n \in Int
      BY <1>2, KernelTables DEF ProcessRec
    <3> QED
      BY <3>1, Zenon DEF ProcessRec
  <2> QED
    BY <2>1, KernelTables, Zenon
<1>7. g \in Seq(ProcessRec)
  BY <1>6, KernelTables, TableType, Zenon
<1>8. \A u \in Threads(k) : f[u] = ExitedThread(k, us, u)
  BY <1>1, KernelTables, Zenon DEF ExitedThread, ThreadRec
<1> HIDE DEF f, g
<1>9. o \in Kernel /\ o.r = k.r /\ Processes(o) = Processes(k) /\ Threads(o) = Threads(k)
  BY <1>1, <1>3, <1>5, <1>7, Zenon DEF Kernel, g
<1>10. o.p = g /\ \A u \in Threads(k) : o.t[u] = ExitedThread(k, us, u)
  BY <1>1, <1>3, <1>8, Zenon DEF Kernel
<1>11. \A q \in Processes(k) : k.p[q] \in ProcessRec
  BY KernelTables, Zenon
<1>12. \A u \in Threads(k) : k.t[u] \in ThreadRec
  BY KernelTables, Zenon
<1>13. \A q \in Processes(k) :
           /\ State(o, q) = State(k, q) /\ (Own(o, q) <=> Own(k, q))
           /\ Parent(o, q) = Parent(k, q) /\ Children(o, q) = Children(k, q)
           /\ ThreadsOf(o, q) = ThreadsOf(k, q) /\ Waiting(o, q) = Waiting(k, q)
           /\ Count(o, q) =
                Count(k, q) - (IF q = p THEN Cardinality(Gone(k, us)) ELSE 0)
  BY <1>10, <1>11 DEF g, n, ProcessRec
<1>14. \A u \in Threads(k) :
        /\ Home(o, u) = Home(k, u)
        /\ Status(o, u) = IF u \in Gone(k, us) THEN "exited"
                          ELSE IF u \in Waking(k, us) /\ Status(k, u) = "blocked" THEN "ready"
                          ELSE Status(k, u)
        /\ Joiners(o, u) = IF u \in Gone(k, us) THEN {}
                                      ELSE Joiners(k, u)
  BY <1>10, <1>12, Zenon DEF ExitedThread, ThreadRec
<1> QED
  BY <1>9, <1>13, <1>14, Zenon DEF Agree

(* Thread::exit takes threads of p away from its live threads, keeps the    *)
(* count exact, and leaves nobody waiting for them.                         *)
LEMMA ExitedKeeps ==
  ASSUME Counting, NEW k \in Kernel, NEW p \in Processes(k), NEW us \in SUBSET Threads(k),
         NEW o, o = Exited(k, p, us),
         Links(k), \A u \in us : Home(k, u) = p
  PROVE  /\ o \in Kernel /\ Agree(k, o) /\ Links(o)
         /\ Alive(o, p) = Alive(k, p) \ us
         /\ \A q \in Processes(k) : q # p => Alive(o, q) = Alive(k, q)
         /\ Counted(k) => Counted(o)
         /\ Waiters(k) => Waiters(o)
         /\ Stays(k) => Stays(o)
<1>1. /\ o \in Kernel /\ Agree(k, o)
      /\ \A q \in Processes(k) : Count(o, q) =
           Count(k, q) - (IF q = p THEN Cardinality(Gone(k, us)) ELSE 0)
  BY ExitedFields
<1>2. \A u \in Threads(k) :
        /\ Status(o, u) = IF u \in Gone(k, us) THEN "exited"
                          ELSE IF u \in Waking(k, us) /\ Status(k, u) = "blocked" THEN "ready"
                          ELSE Status(k, u)
        /\ Joiners(o, u) = IF u \in Gone(k, us) THEN {}
                                      ELSE Joiners(k, u)
  BY ExitedFields
<1>3. Links(o)
  BY <1>1, <1>2, Zenon DEF Links, Agree
<1>4. Alive(o, p) = Alive(k, p) \ us /\ Gone(k, us) = Alive(k, p) \cap us
  BY <1>1, <1>2, Zenon DEF Alive, Agree, Gone
<1>5. \A q \in Processes(k) : q # p => Alive(o, q) = Alive(k, q)
  BY <1>1, <1>2, Zenon DEF Alive, Agree, Gone
<1>6. ASSUME Counted(k) PROVE Counted(o)
  <2>1. Cardinality(Alive(o, p)) = Cardinality(Alive(k, p)) - Cardinality(Gone(k, us))
    <3>1. IsFiniteSet(Alive(k, p))
      BY AliveFinite, Zenon
    <3>2. Cardinality(Alive(k, p) \ us) = Cardinality(Alive(k, p)) - Cardinality(Alive(k, p) \cap us)
      BY <3>1, CountDifference, Zenon
    <3> QED
      BY <1>4, <3>2, Zenon
  <2> QED
    BY <1>1, <1>5, <1>6, <2>1, AliveFinite DEF Counted, Agree
<1>7. ASSUME Waiters(k) PROVE Waiters(o)
  <2> SUFFICES ASSUME NEW t \in Threads(k), Status(o, t) = "blocked"
               PROVE  \/ \E q \in Processes(o) : State(o, q) = "live" /\ t \in Waiting(o, q)
                      \/ \E u \in Threads(o) : Status(o, u) \in {"ready", "blocked"} /\ t \in Joiners(o, u)
    BY <1>1, Zenon DEF Waiters, Agree
  <2>1. Status(k, t) = "blocked" /\ t \notin Waking(k, us)
    BY <1>2, Zenon
  <2>2. CASE \E q \in Processes(k) : State(k, q) = "live" /\ t \in Waiting(k, q)
    BY <2>2, <1>1, Zenon DEF Agree
  <2>3. ASSUME NEW u \in Threads(k), Status(k, u) \in {"ready", "blocked"}, t \in Joiners(k, u)
        PROVE  Status(o, u) \in {"ready", "blocked"} /\ t \in Joiners(o, u)
    <3>1. u \notin Gone(k, us)
      BY <2>1, <2>3, Zenon DEF Waking
    <3> QED
      BY <2>3, <3>1, <1>2, Zenon
  <2> QED
    BY <1>1, <1>7, <2>1, <2>2, <2>3, Zenon DEF Waiters, Agree
<1>8. ASSUME Stays(k) PROVE Stays(o)
  BY <1>1, <1>2, <1>8 DEF Stays, Agree, Links
<1> QED
  BY <1>1, <1>3, <1>4, <1>5, <1>6, <1>7, <1>8, Zenon

-----------------------------------------------------------------------------
(* The first half of Process::kill: the waiters are woken, the process is   *)
(* marked.                                                                  *)
Marked(k, p) ==
  [Woken(k, Waiting(k, p)) EXCEPT !.p[p].state = "killed", !.p[p].wait_kill_queue = {}]

(* Marking a live process wakes everybody who waits for it, and changes     *)
(* nothing else.                                                            *)
LEMMA MarkedKeeps ==
  ASSUME NEW k \in Kernel, NEW p \in Processes(k), NEW m, m = Marked(k, p),
         Links(k), Waiters(k), Counted(k), Stays(k), State(k, p) = "live"
  PROVE  /\ m \in Kernel /\ Links(m) /\ Waiters(m) /\ Counted(m) /\ Stays(m)
         /\ Processes(m) = Processes(k) /\ Threads(m) = Threads(k) /\ m.r = k.r
         /\ \A q \in Processes(k) :
              /\ State(m, q) = (IF q = p THEN "killed" ELSE State(k, q))
              /\ (Own(m, q) <=> Own(k, q))
              /\ Parent(m, q) = Parent(k, q) /\ Children(m, q) = Children(k, q)
              /\ ThreadsOf(m, q) = ThreadsOf(k, q)
         /\ \A q \in Processes(k) : Alive(m, q) = Alive(k, q)
<1> USE DEF Processes, State, Own, Parent, Children, ThreadsOf, Count, Waiting,
            Threads, Status, Home, Joiners
<1> DEFINE queue == Waiting(k, p)
           w == Woken(k, queue)
           g == [k.p EXCEPT ![p] = [@ EXCEPT !.state = "killed", !.wait_kill_queue = {}]]
<1>1. /\ w \in Kernel /\ w.p = k.p /\ w.r = k.r /\ DOMAIN w.t = Threads(k)
      /\ \A u \in Threads(k) : w.t[u] =
           IF u \in queue /\ Status(k, u) = "blocked"
           THEN [k.t[u] EXCEPT !.state = "ready"] ELSE k.t[u]
  BY WokenIs, Zenon
<1>2. \A q \in Processes(k) : k.p[q] \in ProcessRec
  BY KernelTables, Zenon
<1>3. \A u \in Threads(k) : k.t[u] \in ThreadRec
  BY KernelTables, Zenon
<1>4. m = [w EXCEPT !.p = g]
  BY <1>1, Zenon DEF Marked, Kernel
<1> HIDE DEF w
<1>5. g \in Seq(ProcessRec) /\ DOMAIN g = Processes(k)
  <2>1. g \in [Processes(k) -> ProcessRec]
    BY <1>2, Zenon DEF ProcessRec
  <2> QED
    BY <2>1, KernelTables, TableType, Zenon
<1>6. m \in Kernel /\ m.p = g /\ m.t = w.t /\ m.r = k.r
      /\ Processes(m) = Processes(k) /\ Threads(m) = Threads(k)
  BY <1>1, <1>4, <1>5, Zenon DEF Kernel
<1>7. \A q \in Processes(k) :
        /\ State(m, q) = (IF q = p THEN "killed" ELSE State(k, q))
        /\ (Own(m, q) <=> Own(k, q))
        /\ Parent(m, q) = Parent(k, q) /\ Children(m, q) = Children(k, q)
        /\ ThreadsOf(m, q) = ThreadsOf(k, q)
        /\ Count(m, q) = Count(k, q)
        /\ Waiting(m, q) = IF q = p THEN {} ELSE Waiting(k, q)
  BY <1>2, <1>6 DEF ProcessRec
<1> HIDE DEF g, queue
<1>8. \A u \in Threads(k) :
        /\ Home(m, u) = Home(k, u)
        /\ Joiners(m, u) = Joiners(k, u)
        /\ Status(m, u) = IF u \in queue /\ Status(k, u) = "blocked" THEN "ready" ELSE Status(k, u)
  <2> TAKE u \in Threads(k)
  <2>1. m.t[u] = IF u \in queue /\ Status(k, u) = "blocked"
                 THEN [k.t[u] EXCEPT !.state = "ready"] ELSE k.t[u]
    BY <1>1, <1>6, Zenon
  <2> QED
    BY <1>3, <2>1, Zenon DEF ThreadRec
<1> HIDE DEF Processes, State, Own, Parent, Children, ThreadsOf, Count, Waiting,
            Threads, Status, Home, Joiners
<1>9. Links(m)
  <2>1. Processes(m) = Processes(k) /\ Threads(m) = Threads(k)
    BY <1>5, <1>6, Zenon
  <2> QED
    BY <2>1, <1>7, <1>8, Zenon DEF Links
<1>10. \A q \in Processes(k) : Alive(m, q) = Alive(k, q)
  BY <1>6, <1>8, Zenon DEF Alive
<1>11. Counted(m)
  BY <1>5, <1>6, <1>7, <1>10, Zenon DEF Counted
<1>12. Stays(m)
  <2>1. Processes(m) = Processes(k) /\ Threads(m) = Threads(k) /\ ~Own(k, p)
    BY <1>2, <1>5, <1>6, Zenon DEF Stays
  <2>2. \A u \in Threads(k) : Home(k, u) \in Processes(k)
    BY Zenon DEF Links
  <2> QED
    BY <2>1, <2>2, <1>7, <1>8, Zenon DEF Stays
<1>13. Waiters(m)
  <2> SUFFICES ASSUME NEW t \in Threads(k), Status(m, t) = "blocked"
               PROVE  \/ \E q \in Processes(m) : State(m, q) = "live" /\ t \in Waiting(m, q)
                      \/ \E u \in Threads(m) : Status(m, u) \in {"ready", "blocked"} /\ t \in Joiners(m, u)
    BY <1>6, Zenon DEF Waiters
  <2>1. Status(k, t) = "blocked" /\ t \notin queue
    BY <1>8, Zenon
  <2>2. ASSUME NEW q \in Processes(k), State(k, q) = "live", t \in Waiting(k, q)
        PROVE  State(m, q) = "live" /\ t \in Waiting(m, q)
    <3>1. q # p
      BY <2>1, <2>2, Zenon DEF queue
    <3> QED
      BY <1>7, <2>2, <3>1, Zenon
  <2>3. ASSUME NEW u \in Threads(k), Status(k, u) \in {"ready", "blocked"}, t \in Joiners(k, u)
        PROVE  Status(m, u) \in {"ready", "blocked"} /\ t \in Joiners(m, u)
    BY <1>8, <2>3, Zenon
  <2> QED
    BY <1>5, <1>6, <2>1, <2>2, <2>3, Zenon DEF Waiters
<1> QED
  BY <1>5, <1>6, <1>7, <1>9, <1>10, <1>11, <1>12, <1>13, Zenon

(* Where the loop of kill over the threads ends, and how far it gets. *)
Self(k, p, t) ==
  {i \in DOMAIN ThreadsOf(k, p) : ThreadsOf(k, p)[i] = t /\ Status(k, t) = "ready"}

Reached(k, p, t) ==
  {ThreadsOf(k, p)[i] : i \in {j \in DOMAIN ThreadsOf(k, p) : \A s \in Self(k, p, t) : j <= s}}

(* The threads the loop reaches belong to p; without a thread that kills    *)
(* its own process it reaches them all.                                     *)
LEMMA ReachedIs ==
  ASSUME NEW k \in Kernel, NEW p \in Processes(k), NEW t, Links(k)
  PROVE  /\ Reached(k, p, t) \in SUBSET Threads(k)
         /\ \A u \in Reached(k, p, t) : Home(k, u) = p
         /\ Self(k, p, t) = {} => Alive(k, p) \subseteq Reached(k, p, t)
<1>1. Reached(k, p, t) \subseteq Members(ThreadsOf(k, p))
  BY Zenon DEF Reached, Members
<1>2. Self(k, p, t) = {} => Reached(k, p, t) = Members(ThreadsOf(k, p))
  BY Zenon DEF Reached, Members
<1>3. Alive(k, p) \subseteq Members(ThreadsOf(k, p))
  BY Zenon DEF Alive, Links
<1> QED
  BY <1>1, <1>2, <1>3, Zenon DEF Links

(* What the loop of kill does. *)
LEMMA KillLoop ==
  ASSUME Counting, NEW k \in Kernel, NEW p \in Processes(k), NEW t,
         Almost(k, p), State(k, p) = "live",
         NEW o, o = Exited(Marked(k, p), p, Reached(k, p, t))
  PROVE  Looped(k, p, o) /\ (Self(k, p, t) = {} => Alive(o, p) = {})
<1> DEFINE m == Marked(k, p)
           us == Reached(k, p, t)
<1>0. Links(k) /\ Counted(k) /\ Stays(k) /\ Waiters(k)
  BY Zenon DEF Almost
<1>1. /\ m \in Kernel /\ Links(m) /\ Waiters(m) /\ Counted(m) /\ Stays(m)
      /\ Processes(m) = Processes(k) /\ Threads(m) = Threads(k) /\ m.r = k.r
      /\ \A q \in Processes(k) :
           /\ State(m, q) = (IF q = p THEN "killed" ELSE State(k, q))
           /\ (Own(m, q) <=> Own(k, q))
           /\ Parent(m, q) = Parent(k, q) /\ Children(m, q) = Children(k, q)
           /\ ThreadsOf(m, q) = ThreadsOf(k, q)
      /\ \A q \in Processes(k) : Alive(m, q) = Alive(k, q)
  BY <1>0, MarkedKeeps, Zenon
<1> HIDE DEF m
<1>2. us \in SUBSET Threads(m) /\ \A u \in us : Home(m, u) = p
  <2>1. us \subseteq Members(ThreadsOf(m, p))
    BY <1>1, Zenon DEF Reached, Members
  <2> QED
    BY <1>1, <2>1, Zenon DEF Links
<1>3. Self(k, p, t) = {} => Alive(m, p) \subseteq us
  BY <1>0, <1>1, ReachedIs, Zenon
<1> HIDE DEF us
<1>4. o = Exited(m, p, us)
  BY Zenon DEF m, us
<1>5. /\ o \in Kernel /\ Agree(m, o) /\ Links(o)
      /\ Alive(o, p) = Alive(m, p) \ us
      /\ \A q \in Processes(m) : q # p => Alive(o, q) = Alive(m, q)
      /\ Counted(o) /\ Waiters(o) /\ Stays(o)
  BY <1>1, <1>2, <1>4, ExitedKeeps
<1>6. /\ Processes(o) = Processes(k) /\ o.r = k.r
      /\ \A q \in Processes(k) :
           /\ State(o, q) = (IF q = p THEN "killed" ELSE State(k, q))
           /\ (Own(o, q) <=> Own(k, q))
           /\ Parent(o, q) = Parent(k, q) /\ Children(o, q) = Children(k, q)
  BY <1>1, <1>5, Zenon DEF Agree
<1>7. ASSUME NEW q \in Processes(k), q # p PROVE EndsAt(o, q)
  <2>1. EndsAt(k, q) /\ Alive(o, q) = Alive(k, q)
    BY <1>1, <1>5, <1>7, Zenon DEF Almost
  <2> QED
    BY <1>6, <1>7, <2>1, Zenon DEF EndsAt
<1>8. Self(k, p, t) = {} => Alive(o, p) = {}
  BY <1>3, <1>5, Zenon
<1> QED
  BY <1>5, <1>6, <1>7, <1>8, Zenon DEF Looped

(* One more entry at the end of a sequence. *)
LEMMA TimesAppend ==
  ASSUME Counting, NEW S, NEW q \in Seq(S), NEW x \in S, NEW y
  PROVE  /\ Times(q, y) \in Nat
         /\ Times(Append(q, x), y) = Times(q, y) + (IF x = y THEN 1 ELSE 0)
<1> DEFINE I == {i \in DOMAIN q : q[i] = y}
           J == {i \in DOMAIN Append(q, x) : Append(q, x)[i] = y}
           n == Len(q) + 1
<1>1. /\ DOMAIN q = 1..Len(q) /\ Len(q) \in Nat
      /\ DOMAIN Append(q, x) = 1..n
      /\ Append(q, x)[n] = x
      /\ \A i \in 1..Len(q) : Append(q, x)[i] = q[i]
  OBVIOUS
<1>2. IsFiniteSet(I) /\ n \notin I
  <2>1. IsFiniteSet(1..Len(q))
    BY <1>1, Zenon DEF Counting
  <2>2. I \in SUBSET (1..Len(q)) /\ n \notin I
    BY <1>1
  <2> QED
    BY <2>1, <2>2, Zenon DEF Counting
<1>3. 1..n = (1..Len(q)) \cup {n}
  BY <1>1
<1>4. J = IF x = y THEN I \cup {n} ELSE I
  BY <1>1, <1>3, Zenon
<1> HIDE DEF I, J, n
<1>5. Cardinality(I) \in Nat /\ Cardinality(I \cup {n}) = Cardinality(I) + 1
  BY <1>2, Zenon DEF Counting
<1>6. Times(q, y) = Cardinality(I) /\ Times(Append(q, x), y) = Cardinality(J)
  BY Zenon DEF Times, I, J
<1> QED
  BY <1>4, <1>5, <1>6

(* A process killed by another is released, once. *)
LEMMA KillReleases ==
  ASSUME Counting, NEW k \in Kernel, NEW p \in Processes(k), Almost(k, p), State(k, p) = "live",
         NEW o \in Kernel, Looped(k, p, o), NEW z, Pushed(o, p, z), AdoptedBy(o, p, z)
  PROVE  Released(z)
<1>1. /\ Processes(z) = Processes(k) /\ z.r = Append(k.r, p)
      /\ \A q \in Processes(k) : /\ q = p => State(z, q) = "killed"
                                 /\ q # p => State(z, q) = State(k, q)
                                 /\ Own(z, q) <=> Own(k, q)
  BY Zenon DEF Looped, Pushed, AdoptedBy
<1>2. Released(k) /\ ~Own(k, p)
  BY Zenon DEF Almost, Stays
<1>3. p \in Nat /\ k.r \in Seq(Nat)
  BY KernelTables
<1>4. ASSUME NEW q \in Processes(k)
      PROVE  Times(z.r, q) = IF State(z, q) # "live" /\ ~Own(z, q) THEN 1 ELSE 0
  <2>1. Times(z.r, q) = Times(k.r, q) + (IF p = q THEN 1 ELSE 0)
    BY <1>1, <1>3, TimesAppend
  <2>2. Times(k.r, q) = IF State(k, q) # "live" /\ ~Own(k, q) THEN 1 ELSE 0
    BY <1>2, Zenon DEF Released
  <2> QED
    <3>1. CASE q = p
      BY <1>1, <1>2, <2>1, <2>2, <3>1
    <3>2. CASE q # p
      BY <1>1, <2>1, <2>2, <3>2
    <3> QED
      BY <3>1, <3>2, Zenon
<1>5. \A i \in DOMAIN z.r : z.r[i] \in Processes(k)
  <2>1. DOMAIN k.r = 1..Len(k.r) /\ Len(k.r) \in Nat /\ k.r \in [1..Len(k.r) -> Nat]
    BY <1>3
  <2>2. k.r \in [1..Len(k.r) -> Processes(k)]
    BY <1>2, <2>1, Zenon DEF Released
  <2>3. k.r \in Seq(Processes(k))
    BY <2>1, <2>2
  <2> QED
    BY <1>1, <2>3
<1> QED
  BY <1>1, <1>4, <1>5, Zenon DEF Released

(* What the adoption of the orphans does to the fields. *)
LEMMA AdoptedFields ==
  ASSUME NEW k \in Kernel, NEW p \in Processes(k), NEW o, o = Adopted(k, p)
  PROVE  o \in Kernel /\ o.t = k.t /\ o.r = k.r /\ AdoptedBy(k, p, o)
<1> USE DEF Processes, State, Own, Parent, Children, ThreadsOf, Count, Waiting
<1> DEFINE up == Parent(k, p)
           orphans == Orphans(k, p)
           f == [q \in Processes(k) |->
                   IF q = up THEN [k.p[q] EXCEPT !.children = @ \cup orphans]
                   ELSE IF q \in orphans THEN [k.p[q] EXCEPT !.parent = up]
                   ELSE k.p[q]]
<1>1. \A q \in Processes(k) : k.p[q] \in ProcessRec
  BY KernelTables, Zenon
<1>2. up \in Nat /\ orphans \subseteq Nat
  BY <1>1, Zenon DEF ProcessRec, Orphans
<1>3. o = [k EXCEPT !.p = f]
  BY Zenon DEF Adopted, Orphans
<1> HIDE DEF up, orphans
<1>4. f \in [Processes(k) -> ProcessRec]
  BY <1>1, <1>2, Zenon DEF ProcessRec
<1>5. f \in Seq(ProcessRec) /\ DOMAIN f = Processes(k)
  BY <1>4, KernelTables, TableType, Zenon
<1>6. o \in Kernel /\ o.t = k.t /\ o.r = k.r /\ o.p = f
  BY <1>3, <1>5, Zenon DEF Kernel
<1>7. \A q \in Processes(k) :
        /\ State(o, q) = State(k, q) /\ ThreadsOf(o, q) = ThreadsOf(k, q)
        /\ Count(o, q) = Count(k, q)
        /\ Waiting(o, q) = Waiting(k, q)
        /\ (Own(o, q) <=> Own(k, q))
        /\ Children(o, q) = IF q = up THEN Children(k, q) \cup orphans ELSE Children(k, q)
        /\ Parent(o, q) = IF q # up /\ q \in orphans THEN up ELSE Parent(k, q)
  BY <1>1, <1>6 DEF ProcessRec
<1> QED
  BY <1>5, <1>6, <1>7, Zenon DEF AdoptedBy, up, orphans

(* What setting own does to the fields. *)
LEMMA OwnFields ==
  ASSUME NEW o \in Kernel, NEW p \in Processes(o), NEW z, z = [o EXCEPT !.p[p].own = TRUE]
  PROVE  OwnTaken(o, p, z)
<1> USE DEF Processes, State, Own, Parent, Children, ThreadsOf, Count, Waiting
<1> DEFINE g == [o.p EXCEPT ![p] = [@ EXCEPT !.own = TRUE]]
<1>1. \A q \in Processes(o) : o.p[q] \in ProcessRec
  BY KernelTables, Zenon
<1>2. z = [o EXCEPT !.p = g]
  OBVIOUS
<1>3. g \in [Processes(o) -> ProcessRec]
  BY <1>1, Zenon DEF ProcessRec
<1>4. g \in Seq(ProcessRec) /\ DOMAIN g = Processes(o)
  BY <1>3, KernelTables, TableType, Zenon
<1>5. \A q \in Processes(o) : g[q] = IF q = p THEN [o.p[p] EXCEPT !.own = TRUE] ELSE o.p[q]
  OBVIOUS
<1> HIDE DEF g
<1>6. z \in Kernel /\ z.t = o.t /\ z.r = o.r /\ z.p = g
  BY <1>2, <1>4, Zenon DEF Kernel
<1>7. \A q \in Processes(o) :
        /\ g[q].state = State(o, q) /\ g[q].threads = ThreadsOf(o, q)
        /\ g[q].active_thread_cnt = Count(o, q)
        /\ g[q].wait_kill_queue = Waiting(o, q)
        /\ g[q].parent = Parent(o, q) /\ g[q].children = Children(o, q)
        /\ g[q].own <=> q = p \/ Own(o, q)
  BY <1>1, <1>5 DEF ProcessRec
<1>8. SameThreads(o, z)
  BY <1>6, Zenon DEF SameThreads, Threads, Status, Home, Joiners
<1> QED
  BY <1>4, <1>6, <1>7, <1>8, Zenon DEF OwnTaken

(* The process is pushed to process_to_release. *)
LEMMA ReleaseFields ==
  ASSUME NEW o \in Kernel, NEW p \in Nat, NEW z, z = [o EXCEPT !.r = Append(@, p)]
  PROVE  z \in Kernel /\ z.p = o.p /\ z.t = o.t /\ Pushed(o, p, z)
<1>1. Append(o.r, p) \in Seq(Nat)
  BY KernelTables
<1> QED
  BY <1>1, Zenon DEF Kernel, Pushed

(* Process::kill of a live process, by any thread: what Almost says of p    *)
(* before, Inv says of everything after.                                    *)
LEMMA KillKeeps ==
  ASSUME Counting, NEW k \in Kernel, NEW p \in Processes(k), NEW t,
         Almost(k, p), State(k, p) = "live"
  PROVE  Inv(kill(k, p, t))
<1> DEFINE o == Exited(Marked(k, p), p, Reached(k, p, t))
           a == Adopted(o, p)
<1>1. Looped(k, p, o) /\ (Self(k, p, t) = {} => Alive(o, p) = {})
  BY KillLoop, Zenon
<1>2. kill(k, p, t) = IF Self(k, p, t) # {} THEN [o EXCEPT !.p[p].own = TRUE]
                      ELSE [a EXCEPT !.r = Append(@, p)]
  BY Zenon DEF kill, Self, Reached, Marked, State, ThreadsOf, Waiting, Status
<1> HIDE DEF o
<1>3. o \in Kernel /\ p \in Processes(o)
  BY <1>1, Zenon DEF Looped
<1>4. p \in Nat
  BY KernelTables
<1>5. CASE Self(k, p, t) # {}
  <2>1. OwnTaken(o, p, kill(k, p, t))
    BY <1>2, <1>3, <1>5, OwnFields, Zenon
  <2> QED
    BY <1>1, <1>3, <2>1, KillSelf, Zenon
<1>6. CASE Self(k, p, t) = {}
  <2>1. a \in Kernel /\ a.t = o.t /\ a.r = o.r /\ AdoptedBy(o, p, a)
    BY <1>3, AdoptedFields, Zenon
  <2> HIDE DEF a
  <2> DEFINE z == kill(k, p, t)
  <2>2. z = [a EXCEPT !.r = Append(@, p)]
    BY <1>2, <1>6, Zenon
  <2> HIDE DEF z
  <2>3. z \in Kernel /\ z.p = a.p /\ z.t = a.t /\ Pushed(a, p, z)
    BY <1>4, <2>1, <2>2, ReleaseFields, Zenon
  <2>4. SameThreads(o, z) /\ Pushed(o, p, z) /\ AdoptedBy(o, p, z)
    <3>1. SameThreads(o, z)
      BY <2>1, <2>3, Zenon DEF SameThreads, Threads, Status, Home, Joiners
    <3>2. /\ Processes(z) = Processes(a)
          /\ \A q : /\ State(z, q) = State(a, q) /\ ThreadsOf(z, q) = ThreadsOf(a, q)
                    /\ Count(z, q) = Count(a, q) /\ Waiting(z, q) = Waiting(a, q)
                    /\ Own(z, q) = Own(a, q)
                    /\ Parent(z, q) = Parent(a, q) /\ Children(z, q) = Children(a, q)
      BY <2>3 DEF Processes, State, Own, Parent, Children, ThreadsOf,
                  Count, Waiting
    <3> QED
      BY <2>1, <2>3, <3>1, <3>2, Zenon DEF Pushed, AdoptedBy
  <2>5. Links(z) /\ Family(z) /\ Counted(z) /\ Ends(z) /\ Stays(z) /\ Waiters(z)
    BY <1>1, <1>3, <1>6, <2>3, <2>4, KillOther, Zenon
  <2>6. Released(z)
    BY <1>1, <1>3, <2>4, KillReleases, Zenon
  <2> QED
    BY <2>3, <2>5, <2>6, Zenon DEF z, Inv
<1> QED
  BY <1>5, <1>6, Zenon

(* Thread::exit of a thread that has not exited, by any thread: the last    *)
(* one takes its process with it.                                           *)
LEMMA ExitKeeps ==
  ASSUME Counting, NEW k, Inv(k), NEW u \in Threads(k), Status(k, u) \in {"ready", "blocked"}, NEW t
  PROVE  Inv(exit(k, u, t))
<1> DEFINE p == Home(k, u)
           o == Exited(k, p, {u})
<1>1. /\ k \in Kernel /\ Links(k) /\ Family(k) /\ Counted(k) /\ Ends(k) /\ Stays(k)
      /\ Waiters(k) /\ Released(k)
  BY Zenon DEF Inv
<1>2. p \in Processes(k) /\ u \in Alive(k, p)
  BY <1>1, Zenon DEF Links, Alive
<1> HIDE DEF p
<1>3. {u} \in SUBSET Threads(k) /\ \A v \in {u} : Home(k, v) = p
  BY Zenon DEF p
<1>4. exit(k, u, t) = IF Count(o, p) = 0 THEN kill(o, p, t) ELSE o
  BY Zenon DEF exit, p, Home, Count
<1>5. /\ o \in Kernel /\ Agree(k, o) /\ Links(o) /\ Counted(o) /\ Waiters(o) /\ Stays(o)
      /\ \A q \in Processes(k) : q # p => Alive(o, q) = Alive(k, q)
  BY <1>1, <1>2, <1>3, ExitedKeeps
<1> HIDE DEF o
<1>6. Family(o) /\ Released(o)
  <2>1. SameFamily(k, o)
    BY <1>5, Zenon DEF Agree, SameFamily
  <2> QED
    BY <1>1, <1>5, <2>1, FamilyKept, Zenon
<1>7. /\ Processes(o) = Processes(k)
      /\ \A q \in Processes(k) : State(o, q) = State(k, q) /\ (Own(o, q) <=> Own(k, q))
  BY <1>5, Zenon DEF Agree
<1>8. \A q \in Processes(k) : q # p => EndsAt(o, q)
  BY <1>1, <1>5, <1>7, Zenon DEF Ends, EndsAt
<1>9. Almost(o, p)
  BY <1>5, <1>6, <1>7, <1>8, Zenon DEF Almost
<1>10. State(k, p) = "live" \/ Own(k, p)
  BY <1>1, <1>2, Zenon DEF Ends, EndsAt
<1>11. Count(o, p) = Cardinality(Alive(o, p)) /\ IsFiniteSet(Alive(o, p))
  BY <1>2, <1>5, <1>7, AliveFinite, Zenon DEF Counted
<1>12. Count(o, p) = 0 <=> Alive(o, p) = {}
  BY <1>11, Zenon DEF Counting
<1>13. EndsAt(o, p) => Inv(o)
  BY <1>5, <1>6, <1>7, <1>8, Zenon DEF Inv, Ends
<1>14. CASE Alive(o, p) # {}
  <2>1. EndsAt(o, p)
    BY <1>2, <1>7, <1>10, <1>14, Zenon DEF EndsAt
  <2> QED
    BY <1>4, <1>12, <1>13, <1>14, <2>1, Zenon
<1>15. CASE Alive(o, p) = {} /\ State(k, p) = "live"
  <2>1. Inv(kill(o, p, t))
    BY <1>2, <1>5, <1>7, <1>9, <1>15, KillKeeps, Zenon
  <2> QED
    BY <1>4, <1>12, <1>15, <2>1, Zenon
<1>16. CASE Alive(o, p) = {} /\ State(k, p) # "live"
  <2>1. EndsAt(o, p)
    BY <1>2, <1>7, <1>16, Zenon DEF EndsAt
  <2>2. kill(o, p, t) = o
    BY <1>2, <1>7, <1>16, Zenon DEF kill, State
  <2> QED
    BY <1>4, <1>12, <1>13, <1>16, <2>1, <2>2, Zenon
<1> QED
  BY <1>14, <1>15, <1>16, Zenon

-----------------------------------------------------------------------------
(* The shell has just been started. *)
LEMMA Start ==
  ASSUME Counting, Init
  PROVE  IInv
<1> USE DEF Processes, Threads
<1> DEFINE k == Now
           a == NewProcess(IdleProcess, 1)
           b == NewThread(1)
<1>1. /\ a \in ProcessRec /\ a.state = "live" /\ a.parent = IdleProcess /\ a.children = {}
      /\ a.threads = <<1>> /\ a.active_thread_cnt = 1 /\ a.wait_kill_queue = {} /\ ~a.own
  <2>1. <<1>> \in Seq(Nat)
    OBVIOUS
  <2> QED
    BY <2>1 DEF NewProcess, ProcessRec, IdleProcess
<1>2. b \in ThreadRec /\ b.state = "ready" /\ b.process = 1 /\ b.wait_exited_queue = {}
  BY Zenon DEF NewThread, ThreadRec
<1>3. k.p = <<a>> /\ k.t = <<b>> /\ k.r = <<>>
  BY Zenon DEF Init, Now
<1> HIDE DEF a, b
<1>4. /\ <<a>> \in Seq(ProcessRec) /\ DOMAIN <<a>> = {1} /\ <<a>>[1] = a
      /\ <<b>> \in Seq(ThreadRec) /\ DOMAIN <<b>> = {1} /\ <<b>>[1] = b
      /\ <<>> \in Seq(Nat) /\ DOMAIN <<>> = {}
  BY <1>1, <1>2
<1>5. k \in Kernel
  BY <1>4, Zenon DEF Init, Now, Kernel, a, b
<1>6. Members(a.threads) = {1}
  <2>1. Members(<<1>>) = {1}
    BY DEF Members
  <2> QED
    BY <1>1, <2>1, Zenon
<1> HIDE DEF k
<1>7. /\ Processes(k) = {1} /\ k.p[1] = a /\ Threads(k) = {1} /\ k.t[1] = b /\ DOMAIN k.r = {}
  BY <1>3, <1>4, Zenon
<1>8. /\ State(k, 1) = "live" /\ Parent(k, 1) = IdleProcess /\ Children(k, 1) = {}
       /\ Members(ThreadsOf(k, 1)) = {1} /\ Count(k, 1) = 1 /\ Waiting(k, 1) = {} /\ ~Own(k, 1)
       /\ Status(k, 1) = "ready" /\ Home(k, 1) = 1 /\ Joiners(k, 1) = {}
  BY <1>1, <1>2, <1>6, <1>7 DEF State, Own, Parent, Children, ThreadsOf, Count, Waiting,
                                Status, Home, Joiners
<1> HIDE DEF Processes, Threads
<1>9. Alive(k, 1) = {1}
  BY <1>7, <1>8, Zenon DEF Alive
<1>10. Links(k) /\ Family(k)
  BY <1>7, <1>8 DEF Links, Family, IdleProcess
<1>11. Counted(k)
  <2>1. Cardinality({1}) = 1
    BY CountOne, Zenon
  <2> QED
    BY <1>7, <1>8, <1>9, <2>1, Zenon DEF Counted
<1>12. Ends(k) /\ Stays(k) /\ Waiters(k)
  BY <1>7, <1>8, <1>9, Zenon DEF Ends, EndsAt, Stays, Waiters
<1>13. Released(k)
  <2>1. Times(k.r, 1) = 0
    BY <1>7, Zenon DEF Times, Counting
  <2> QED
    BY <1>7, <1>8, <2>1, Zenon DEF Released
<1>14. Inv(k)
  BY <1>5, <1>10, <1>11, <1>12, <1>13, Zenon DEF Inv
<1> QED
  BY <1>14, Zenon DEF IInv, Init, k

(* What the constructor of Thread does to the table. *)
LEMMA ThreadFields ==
  ASSUME NEW k \in Kernel, NEW n \in Nat, NEW z, z.t = Append(k.t, NewThread(n))
  PROVE  z.t \in Seq(ThreadRec) /\ ThreadAdded(k, n, Len(k.t) + 1, z)
<1> USE DEF Threads, Status, Home, Joiners
<1>1. NewThread(n) \in ThreadRec
  BY Zenon DEF NewThread, ThreadRec
<1>2. k.t \in Seq(ThreadRec) /\ Threads(k) = 1..Len(k.t) /\ Len(k.t) \in Nat
  BY KernelTables, Zenon
<1>3. /\ z.t \in Seq(ThreadRec) /\ Len(z.t) = Len(k.t) + 1 /\ Threads(z) = 1..Len(z.t)
      /\ \A i \in 1..Len(k.t) : z.t[i] = k.t[i]
      /\ z.t[Len(k.t) + 1] = NewThread(n)
  BY <1>1, <1>2
<1>4. 1..(Len(k.t) + 1) = 1..Len(k.t) \cup {Len(k.t) + 1} /\ Len(k.t) + 1 \notin 1..Len(k.t)
  BY <1>2
<1>5. /\ NewThread(n).state = "ready" /\ NewThread(n).process = n
      /\ NewThread(n).wait_exited_queue = {}
  BY Zenon DEF NewThread
<1> HIDE DEF NewThread
<1> QED
  BY <1>2, <1>3, <1>4, <1>5, Zenon DEF ThreadAdded

Execed(k, up, m, z) ==
  z.p = Append([k.p EXCEPT ![up].children = @ \cup {Len(k.p) + 1}], NewProcess(up, m))

(* What sys_exec does to the process table. *)
LEMMA ExecFields ==
  ASSUME NEW k \in Kernel, NEW up \in Processes(k), NEW m \in Nat, NEW z, Execed(k, up, m, z)
  PROVE  z.p \in Seq(ProcessRec) /\ Born(k, up, Len(k.p) + 1, m, z)
<1> USE DEF Processes, State, Own, Parent, Children, ThreadsOf, Count, Waiting
<1> DEFINE n == Len(k.p) + 1
           g == [k.p EXCEPT ![up].children = @ \cup {n}]
           new == NewProcess(up, m)
<1>1. /\ \A q \in Processes(k) : k.p[q] \in ProcessRec
      /\ Processes(k) = 1..Len(k.p) /\ Len(k.p) \in Nat
  BY KernelTables, Zenon
<1>2. n \in Nat /\ up \in Nat
  BY <1>1
<1>3. z.p = Append(g, new)
  BY Zenon DEF Execed
<1>4. /\ new \in ProcessRec
      /\ new.state = "live" /\ new.parent = up /\ new.children = {} /\ new.threads = <<m>>
      /\ new.active_thread_cnt = 1 /\ new.wait_kill_queue = {} /\ ~new.own
  <2>1. <<m>> \in Seq(Nat)
    OBVIOUS
  <2> QED
    BY <1>2, <2>1 DEF NewProcess, ProcessRec
<1> HIDE DEF new
<1>5. Members(new.threads) = {m}
  <2>1. Members(<<m>>) = {m}
    BY DEF Members
  <2> QED
    BY <1>4, <2>1, Zenon
<1>6. g \in [Processes(k) -> ProcessRec]
  BY <1>1, <1>2, Zenon DEF ProcessRec
<1>7. \A q \in Processes(k) :
        /\ g[q].state = State(k, q) /\ g[q].threads = ThreadsOf(k, q)
        /\ g[q].active_thread_cnt = Count(k, q)
        /\ g[q].wait_kill_queue = Waiting(k, q)
        /\ (g[q].own <=> Own(k, q)) /\ g[q].parent = Parent(k, q)
        /\ q # up => g[q].children = Children(k, q)
        /\ q = up => g[q].children = Children(k, q) \cup {n}
  BY <1>1, Zenon DEF ProcessRec
<1>8. g \in Seq(ProcessRec) /\ Len(g) = Len(k.p)
  <2>1. g \in Seq(ProcessRec) /\ DOMAIN g = Processes(k)
    BY <1>6, KernelTables, TableType, Zenon
  <2>2. DOMAIN g = 1..Len(g) /\ Len(g) \in Nat
    BY <2>1
  <2> QED
    BY <1>1, <2>1, <2>2
<1> HIDE DEF g
<1>9. /\ z.p \in Seq(ProcessRec) /\ Processes(z) = 1..n /\ z.p[n] = new
      /\ \A q \in 1..Len(k.p) : z.p[q] = g[q]
  BY <1>3, <1>4, <1>8
<1>10. 1..n = 1..Len(k.p) \cup {n} /\ n \notin 1..Len(k.p) /\ \A q \in 1..Len(k.p) : q < n
  BY <1>1
<1> HIDE DEF n
<1>11. Born(k, up, n, m, z)
  <2>1. n \notin Processes(k) /\ Processes(z) = Processes(k) \cup {n} /\ \A q \in Processes(k) : q < n
    BY <1>1, <1>9, <1>10, Zenon
  <2>2. /\ State(z, n) = "live" /\ Parent(z, n) = up /\ Children(z, n) = {}
        /\ Members(ThreadsOf(z, n)) = {m} /\ Count(z, n) = 1
        /\ Waiting(z, n) = {} /\ ~Own(z, n)
    BY <1>4, <1>5, <1>9, Zenon
  <2>3. \A q \in Processes(k) : z.p[q] = g[q]
    BY <1>1, <1>9, Zenon
  <2> QED
    BY <1>7, <2>1, <2>2, <2>3 DEF Born
<1> QED
  BY <1>9, <1>11, Zenon DEF n

Created(k, p, m, z) ==
  z.p = [k.p EXCEPT ![p].threads = Append(@, m), ![p].active_thread_cnt = @ + 1]

(* What Process::create_thread does to the process table. *)
LEMMA CreateFields ==
  ASSUME NEW k \in Kernel, NEW p \in Processes(k), NEW m \in Nat, NEW z,
         Created(k, p, m, z), z.r = k.r
  PROVE  z.p \in Seq(ProcessRec) /\ Joined(k, p, m, z)
<1> USE DEF Processes, State, Own, Parent, Children, ThreadsOf, Count, Waiting
<1> DEFINE ths == Append(ThreadsOf(k, p), m)
           n == Count(k, p) + 1
           new == [k.p[p] EXCEPT !.threads = ths, !.active_thread_cnt = n]
<1>1. \A q \in Processes(k) : k.p[q] \in ProcessRec
  BY KernelTables, Zenon
<1>2. /\ ThreadsOf(k, p) \in Seq(Nat) /\ Count(k, p) \in Int
      /\ Own(k, p) \in BOOLEAN
  BY <1>1, Zenon DEF ProcessRec
<1>3. ths \in Seq(Nat) /\ n \in Int /\ Members(ths) = Members(ThreadsOf(k, p)) \cup {m}
  BY <1>2, PushMembers
<1>4. z.p = [k.p EXCEPT ![p] = new]
  BY Zenon DEF Created
<1> HIDE DEF ths, n
<1>5. new \in ProcessRec
  BY <1>1, <1>3, Zenon DEF ProcessRec
<1>6. /\ new.threads = ths /\ new.active_thread_cnt = n
      /\ new.state = State(k, p) /\ new.parent = Parent(k, p)
      /\ new.children = Children(k, p) /\ new.wait_kill_queue = Waiting(k, p)
      /\ new.own = Own(k, p)
  BY <1>1, Zenon DEF ProcessRec
<1> HIDE DEF new
<1>7. z.p \in [Processes(k) -> ProcessRec]
  BY <1>1, <1>4, <1>5, Zenon
<1>8. z.p \in Seq(ProcessRec) /\ Processes(z) = Processes(k)
  BY <1>7, KernelTables, TableType, Zenon
<1>9. z.p[p] = new /\ \A q \in Processes(k) : q # p => z.p[q] = k.p[q]
  BY <1>4, Zenon
<1>10. /\ Members(ThreadsOf(z, p)) = Members(ThreadsOf(k, p)) \cup {m}
       /\ Count(z, p) = Count(k, p) + 1
  BY <1>3, <1>6, <1>9, Zenon DEF n
<1>11. ASSUME NEW q \in Processes(k)
       PROVE  /\ State(z, q) = State(k, q) /\ (Own(z, q) <=> Own(k, q))
              /\ Parent(z, q) = Parent(k, q) /\ Children(z, q) = Children(k, q)
              /\ Waiting(z, q) = Waiting(k, q)
              /\ q # p => /\ ThreadsOf(z, q) = ThreadsOf(k, q)
                          /\ Count(z, q) = Count(k, q)
  <2>1. CASE q = p
    BY <1>6, <1>9, <2>1, Zenon
  <2>2. CASE q # p
    BY <1>9, <2>2, Zenon
  <2> QED
    BY <2>1, <2>2, Zenon
<1> QED
  BY <1>8, <1>10, <1>11, Zenon DEF Joined

(* The tables the variables hold. *)
LEMMA NowIs ==
  /\ Now.p = process_table /\ Now.t = thread_table /\ Now.r = released
  /\ Now'.p = process_table' /\ Now'.t = thread_table' /\ Now'.r = released'
  /\ (process_table' \in Seq(ProcessRec) /\ thread_table' \in Seq(ThreadRec)
        /\ released' \in Seq(Nat) => Now' \in Kernel)
BY Zenon DEF Now, Kernel

(* The thread that makes a system call. *)
LEMMA CallerIs ==
  ASSUME Inv(Now), NEW t \in Tids, Current(t)
  PROVE  /\ Now \in Kernel /\ Links(Now) /\ t \in Threads(Now)
         /\ Status(Now, t) = "ready"
BY NowIs, Zenon DEF Inv, Current, Tids, Threads, Status

(* sys_exec keeps the invariant. *)
LEMMA ExecStep ==
  ASSUME Counting, Inv(Now), NEW t \in Tids, sys_exec(t)
  PROVE  Inv(Now')
<1> DEFINE k == Now
           z == Now'
           m == Len(k.t) + 1
           n == Len(k.p) + 1
           up == Home(k, t)
<1>1. /\ k.p = process_table /\ k.t = thread_table /\ k.r = released
      /\ z.p = process_table' /\ z.t = thread_table' /\ z.r = released'
  BY NowIs, Zenon
<1>2. k \in Kernel /\ Links(k) /\ t \in Threads(k) /\ Status(k, t) = "ready"
  <2>1. Current(t)
    BY Zenon DEF sys_exec
  <2> QED
    BY <2>1, CallerIs, Zenon
<1>3. Execed(k, up, m, z) /\ z.t = Append(k.t, NewThread(n)) /\ z.r = k.r
  BY <1>1, Zenon DEF sys_exec, Execed, Home
<1> HIDE DEF k, z
<1>4. n \in Nat /\ m \in Nat /\ up \in Processes(k)
  BY <1>2, KernelTables DEF Links
<1>5. z.t \in Seq(ThreadRec) /\ ThreadAdded(k, n, m, z)
  BY <1>2, <1>3, <1>4, ThreadFields, Zenon
<1>6. z.p \in Seq(ProcessRec) /\ Born(k, up, n, m, z)
  BY <1>2, <1>3, <1>4, ExecFields, Zenon
<1>7. k.r \in Seq(Nat)
  BY <1>2, KernelTables, Zenon
<1>8. z \in Kernel
  BY <1>1, <1>3, <1>5, <1>6, <1>7, NowIs, Zenon DEF z
<1>9. Inv(k)
  BY Zenon DEF k
<1> HIDE DEF n, m
<1>10. Inv(z)
  BY <1>2, <1>3, <1>4, <1>5, <1>6, <1>8, <1>9, ExecKeeps, Zenon
<1> QED
  BY <1>10, Zenon DEF z

(* sys_create_thread keeps the invariant. *)
LEMMA CreateStep ==
  ASSUME Counting, Inv(Now), NEW t \in Tids, sys_create_thread(t)
  PROVE  Inv(Now')
<1> DEFINE k == Now
           z == Now'
           m == Len(k.t) + 1
           p == Home(k, t)
<1>1. /\ k.p = process_table /\ k.t = thread_table /\ k.r = released
      /\ z.p = process_table' /\ z.t = thread_table' /\ z.r = released'
  BY NowIs, Zenon
<1>2. k \in Kernel /\ Links(k) /\ t \in Threads(k) /\ Status(k, t) = "ready"
  <2>1. Current(t)
    BY Zenon DEF sys_create_thread
  <2> QED
    BY <2>1, CallerIs, Zenon
<1>3. Created(k, p, m, z) /\ z.t = Append(k.t, NewThread(p)) /\ z.r = k.r
  BY <1>1, Zenon DEF sys_create_thread, Created, Home
<1> HIDE DEF k, z
<1>4. m \in Nat /\ p \in Processes(k) /\ p \in Nat
  BY <1>2, KernelTables DEF Links
<1>5. z.t \in Seq(ThreadRec) /\ ThreadAdded(k, p, m, z)
  BY <1>2, <1>3, <1>4, ThreadFields, Zenon
<1>6. z.p \in Seq(ProcessRec) /\ Joined(k, p, m, z)
  BY <1>2, <1>3, <1>4, CreateFields, Zenon
<1>7. k.r \in Seq(Nat)
  BY <1>2, KernelTables, Zenon
<1>8. z \in Kernel
  BY <1>1, <1>3, <1>5, <1>6, <1>7, NowIs, Zenon DEF z
<1>9. Inv(k)
  BY Zenon DEF k
<1> HIDE DEF m
<1>10. Inv(z)
  BY <1>2, <1>4, <1>5, <1>6, <1>8, <1>9, CreateKeeps, Zenon
<1> QED
  BY <1>10, Zenon DEF z

(* The step of sys_wait_thread in which t waits for u. *)
WaitsFor(t, u) ==
  thread_table' = [v \in Tids |->
    [thread_table[v] EXCEPT !.wait_exited_queue = IF v = u THEN @ \cup {t} ELSE @,
                            !.state = IF v = t THEN "blocked" ELSE @]]

(* sys_wait_thread keeps the invariant: a thread blocks on one that has not *)
(* exited.                                                                  *)
LEMMA WaitThreadStep ==
  ASSUME Inv(Now), NEW t \in Tids, NEW u \in Tids, Current(t),
         get_thread(u) \in {"ready", "blocked"}, WaitsFor(t, u),
         UNCHANGED <<process_table, released>>
  PROVE  Inv(Now')
<1> USE DEF Processes, State, Own, Parent, Children, ThreadsOf, Count, Waiting,
            Threads, Status, Home, Joiners
<1> DEFINE k == Now
           z == Now'
           q(v) == IF v = u THEN Joiners(k, v) \cup {t} ELSE Joiners(k, v)
           s(v) == IF v = t THEN "blocked" ELSE Status(k, v)
           f == [v \in Threads(k) |-> [k.t[v] EXCEPT !.wait_exited_queue = q(v), !.state = s(v)]]
<1>1. /\ k.p = process_table /\ k.t = thread_table /\ k.r = released
      /\ z.p = process_table' /\ z.t = thread_table' /\ z.r = released'
  BY NowIs, Zenon
<1>2. /\ k \in Kernel /\ t \in Threads(k) /\ u \in Threads(k) /\ Status(k, t) = "ready"
      /\ Status(k, u) \in {"ready", "blocked"}
  BY <1>1, Zenon DEF Inv, Current, Tids, get_thread
<1>3. z.p = k.p /\ z.t = f /\ z.r = k.r
  BY <1>1, Zenon DEF Tids, WaitsFor
<1>4. Inv(k)
  OBVIOUS
<1> HIDE DEF k, z
<1>5. /\ \A v \in Threads(k) : k.t[v] \in ThreadRec
      /\ Threads(k) \subseteq Nat /\ k.p \in Seq(ProcessRec) /\ k.r \in Seq(Nat)
  BY <1>2, KernelTables
<1>6. \A v \in Threads(k) : /\ Joiners(k, v) \in SUBSET Nat
                            /\ Status(k, v) \in {"ready", "blocked", "exited", "deleted"}
  BY <1>5, Zenon DEF ThreadRec
<1>7. \A v \in Threads(k) : /\ q(v) \in SUBSET Nat
                            /\ s(v) \in {"ready", "blocked", "exited", "deleted"}
                            /\ Joiners(k, v) \subseteq q(v)
                            /\ q(v) \subseteq Joiners(k, v) \cup {t}
                            /\ v # t => s(v) = Status(k, v)
                            /\ v = t => s(v) = "blocked"
                            /\ v = u => t \in q(v)
  BY <1>2, <1>5, <1>6, Zenon
<1> HIDE DEF q, s
<1>8. f \in [Threads(k) -> ThreadRec]
  BY <1>5, <1>7, Zenon DEF ThreadRec
<1>9. f \in Seq(ThreadRec) /\ DOMAIN f = Threads(k)
  BY <1>2, <1>8, KernelTables, TableType, Zenon
<1>10. \A v \in Threads(k) : /\ f[v].process = Home(k, v)
                             /\ f[v].state = s(v) /\ f[v].wait_exited_queue = q(v)
  BY <1>5, Zenon DEF ThreadRec
<1> HIDE DEF f
<1>11. z \in Kernel
  BY <1>1, <1>3, <1>5, <1>9, NowIs, Zenon DEF z
<1>12. Blocked(k, t, z)
  BY <1>3, <1>7, <1>9, <1>10, Zenon DEF Blocked
<1>13. \E v \in Threads(k) : Status(k, v) \in {"ready", "blocked"} /\ t \in Joiners(z, v)
  BY <1>2, <1>3, <1>7, <1>10, Zenon
<1>14. Inv(z)
  BY <1>2, <1>4, <1>11, <1>12, <1>13, BlockedKeeps, Zenon
<1> QED
  BY <1>14, Zenon DEF z

(* sys_waitpid keeps the invariant: a thread blocks on a live process. *)
LEMMA WaitpidStep ==
  ASSUME Inv(Now), NEW t \in Tids, NEW p \in Pids, Current(t), get_process(p) = "live",
         process_table' = [process_table EXCEPT ![p].wait_kill_queue = @ \cup {t}],
         thread_table' = [thread_table EXCEPT ![t].state = "blocked"],
         released' = released
  PROVE  Inv(Now')
<1> USE DEF Processes, State, Own, Parent, Children, ThreadsOf, Count, Waiting,
            Threads, Status, Home, Joiners
<1> DEFINE k == Now
           z == Now'
           new == [k.p[p] EXCEPT !.wait_kill_queue = @ \cup {t}]
           g == [k.p EXCEPT ![p] = new]
           f == [k.t EXCEPT ![t].state = "blocked"]
<1>1. /\ k.p = process_table /\ k.t = thread_table /\ k.r = released
      /\ z.p = process_table' /\ z.t = thread_table' /\ z.r = released'
  BY NowIs, Zenon
<1>2. /\ k \in Kernel /\ t \in Threads(k) /\ p \in Processes(k) /\ Status(k, t) = "ready"
      /\ State(k, p) = "live"
  BY <1>1, Zenon DEF Inv, Current, Tids, Pids, get_process
<1>3. z.p = g /\ z.t = f /\ z.r = k.r
  BY <1>1, Zenon
<1>4. Inv(k)
  OBVIOUS
<1> HIDE DEF k, z
<1>5. /\ \A v \in Threads(k) : k.t[v] \in ThreadRec
      /\ \A v \in Processes(k) : k.p[v] \in ProcessRec
      /\ Threads(k) \subseteq Nat /\ k.r \in Seq(Nat)
  BY <1>2, KernelTables
<1>6. f \in [Threads(k) -> ThreadRec]
  BY <1>5, Zenon DEF ThreadRec
<1>7. f \in Seq(ThreadRec) /\ DOMAIN f = Threads(k)
  BY <1>2, <1>6, KernelTables, TableType, Zenon
<1>8. \A v \in Threads(k) : /\ f[v].process = Home(k, v)
                            /\ f[v].wait_exited_queue = Joiners(k, v)
                            /\ v # t => f[v].state = Status(k, v)
                            /\ v = t => f[v].state = "blocked"
  BY <1>5, Zenon DEF ThreadRec
<1>9. new \in ProcessRec
  BY <1>2, <1>5, Zenon DEF ProcessRec
<1>10. /\ new.state = State(k, p) /\ new.parent = Parent(k, p)
       /\ new.children = Children(k, p) /\ new.threads = ThreadsOf(k, p)
       /\ new.active_thread_cnt = Count(k, p) /\ new.own = Own(k, p)
       /\ new.wait_kill_queue = Waiting(k, p) \cup {t}
  BY <1>2, <1>5, Zenon DEF ProcessRec
<1> HIDE DEF new, f
<1>11. g \in [Processes(k) -> ProcessRec]
  BY <1>5, <1>9, Zenon
<1>12. g \in Seq(ProcessRec) /\ DOMAIN g = Processes(k)
  BY <1>2, <1>11, KernelTables, TableType, Zenon
<1>13. g[p] = new /\ \A q \in Processes(k) : q # p => g[q] = k.p[q]
  BY <1>2, Zenon
<1> HIDE DEF g
<1>14. ASSUME NEW q \in Processes(k)
       PROVE  /\ g[q].state = State(k, q) /\ (g[q].own <=> Own(k, q))
              /\ g[q].parent = Parent(k, q) /\ g[q].children = Children(k, q)
              /\ g[q].threads = ThreadsOf(k, q)
              /\ g[q].active_thread_cnt = Count(k, q)
              /\ Waiting(k, q) \subseteq g[q].wait_kill_queue
              /\ g[q].wait_kill_queue \subseteq Waiting(k, q) \cup {t}
  <2>1. CASE q = p
    BY <1>10, <1>13, <2>1, Zenon
  <2>2. CASE q # p
    BY <1>13, <2>2, Zenon
  <2> QED
    BY <2>1, <2>2, Zenon
<1>15. z \in Kernel
  BY <1>1, <1>3, <1>5, <1>7, <1>12, NowIs, Zenon DEF z
<1>16. Blocked(k, t, z)
  BY <1>3, <1>7, <1>8, <1>12, <1>14, Zenon DEF Blocked
<1>17. t \in Waiting(z, p)
  BY <1>3, <1>10, <1>13, Zenon
<1>18. Inv(z)
  BY <1>2, <1>4, <1>15, <1>16, <1>17, BlockedKeeps, Zenon
<1> QED
  BY <1>18, Zenon DEF z

(* idle_cleanup keeps the invariant, and its assertion holds. *)
LEMMA CleanupStep ==
  ASSUME Inv(Now), idle_cleanup
  PROVE  /\ Inv(Now')
         /\ halt' \in {halt, "spin"}
         /\ halt' = "spin" => halt = "spin" \/ \E p \in DOMAIN process_table' : process_table'[p].own
<1> USE DEF Processes, State, Own, Parent, Children, ThreadsOf, Count, Waiting,
            Threads, Status, Home, Joiners
<1> DEFINE k == Now
           z == Now'
           killed == {p \in Pids : process_table[p].state = "killed"}
           stuck == {p \in killed : process_table[p].own}
           dead == {p \in killed : \A q \in stuck : p < q}
           f == [u \in Threads(k) |-> IF Home(k, u) \in dead
                                      THEN [k.t[u] EXCEPT !.state = "deleted"] ELSE k.t[u]]
           g == [p \in Processes(k) |-> IF p \in dead
                                      THEN [k.p[p] EXCEPT !.state = "deleted"] ELSE k.p[p]]
<1>1. /\ k.p = process_table /\ k.t = thread_table /\ k.r = released
      /\ z.p = process_table' /\ z.t = thread_table' /\ z.r = released'
  BY NowIs, Zenon
<1>2. k \in Kernel /\ Inv(k)
  BY Zenon DEF Inv
<1>3. z.p = g /\ z.t = f /\ z.r = k.r
  BY <1>1, Zenon DEF idle_cleanup, Deleted, Tids, Pids
<1>4. halt' = IF Unexited(dead) THEN "assert" ELSE IF stuck # {} THEN "spin" ELSE halt
  BY Zenon DEF idle_cleanup
<1>5. /\ Processes(k) \subseteq Nat
      /\ \A v \in Threads(k) : k.t[v] \in ThreadRec
      /\ \A v \in Processes(k) : k.p[v] \in ProcessRec
      /\ k.r \in Seq(Nat)
  BY <1>2, KernelTables
<1>6. dead \in SUBSET Processes(k) /\ \A p \in dead : State(k, p) = "killed" /\ ~Own(k, p)
  BY <1>1, <1>5 DEF Pids
<1>7. stuck \subseteq Processes(k) /\ \A p \in stuck : Own(k, p)
  BY <1>1, Zenon DEF Pids
<1>8. Unexited(dead) => \E u \in Threads(k) : Home(k, u) \in dead /\ Status(k, u) # "exited"
  BY <1>1, Zenon DEF Unexited, Tids
<1> HIDE DEF k, z, dead, stuck
<1>9. f \in [Threads(k) -> ThreadRec] /\ g \in [Processes(k) -> ProcessRec]
  <2>1. f \in [Threads(k) -> ThreadRec]
    BY <1>5, Zenon DEF ThreadRec
  <2>2. g \in [Processes(k) -> ProcessRec]
    BY <1>5, Zenon DEF ProcessRec
  <2> QED
    BY <2>1, <2>2, Zenon
<1>10. f \in Seq(ThreadRec) /\ DOMAIN f = Threads(k) /\ g \in Seq(ProcessRec) /\ DOMAIN g = Processes(k)
  BY <1>2, <1>9, KernelTables, TableType, Zenon
<1>11. \A u \in Threads(k) :
         /\ f[u].process = Home(k, u)
         /\ f[u].wait_exited_queue = Joiners(k, u)
         /\ Home(k, u) \notin dead => f[u].state = Status(k, u)
         /\ Home(k, u) \in dead => f[u].state = "deleted"
  BY <1>5, Zenon DEF ThreadRec
<1>12. \A q \in Processes(k) :
         /\ q \notin dead => g[q].state = State(k, q)
         /\ q \in dead => g[q].state = "deleted"
         /\ (g[q].own <=> Own(k, q))
         /\ g[q].parent = Parent(k, q) /\ g[q].children = Children(k, q)
         /\ g[q].threads = ThreadsOf(k, q)
         /\ g[q].active_thread_cnt = Count(k, q)
         /\ g[q].wait_kill_queue = Waiting(k, q)
  BY <1>5, Zenon DEF ProcessRec
<1> HIDE DEF f, g
<1>13. z \in Kernel
  BY <1>1, <1>3, <1>5, <1>10, NowIs, Zenon DEF z
<1>14. Cleaned(k, dead, z)
  BY <1>3, <1>10, <1>11, <1>12, Zenon DEF Cleaned
<1>15. Inv(z) /\ \A u \in Threads(k) : Home(k, u) \in dead => Status(k, u) = "exited"
  BY <1>2, <1>6, <1>13, <1>14, CleanedKeeps, Zenon
<1>16. ~Unexited(dead)
  BY <1>8, <1>15, Zenon
<1>17. \A p \in stuck : p \in DOMAIN process_table' /\ process_table'[p].own
  BY <1>1, <1>3, <1>7, <1>10, <1>12, Zenon
<1>18. Inv(Now')
  BY <1>15, Zenon DEF z
<1> QED
  BY <1>4, <1>16, <1>17, <1>18, Zenon

(* The next tables, when they are those of a k. *)
LEMMA ThenIs ==
  ASSUME NEW k \in Kernel, Then(k)
  PROVE  Now' = k
BY Zenon DEF Then, Now, Kernel

(* A system call that ends in given tables. *)
LEMMA ThenKeeps ==
  ASSUME NEW k, Inv(k), Then(k)
  PROVE  Inv(Now')
<1>1. k \in Kernel
  BY Zenon DEF Inv
<1>2. Now' = k
  BY <1>1, ThenIs, Zenon
<1> QED
  BY <1>2, Zenon

(* The tables stay as they are. *)
LEMMA StutterStep ==
  ASSUME Inv(Now), UNCHANGED <<process_table, thread_table, released>>
  PROVE  Inv(Now')
<1>1. Now' = Now
  BY Zenon DEF Now
<1> QED
  BY <1>1, Zenon

(* A system call keeps the invariant, and stops the kernel only by going on *)
(* with an object that does not exist.                                      *)
LEMMA CallStep ==
  ASSUME Counting, Inv(Now), NEW t \in Tids,
         \/ sys_exec(t) \/ sys_create_thread(t) \/ sys_exit_thread(t)
         \/ \E u \in Tids : sys_kill_thread(t, u) \/ sys_wait_thread(t, u)
         \/ \E p \in Pids : sys_kill(t, p) \/ sys_waitpid(t, p)
  PROVE  Inv(Now') /\ halt = "no" /\ halt' \in {"no", "null"}
<1>0. Now.t = thread_table /\ Now.p = process_table /\ Threads(Now) = Tids /\ Processes(Now) = Pids
  BY NowIs, Zenon DEF Tids, Pids, Threads, Processes
<1>1. CASE sys_exec(t)
  <2>1. Inv(Now')
    BY <1>1, ExecStep, Zenon
  <2> QED
    BY <1>1, <2>1, Zenon DEF sys_exec, Current
<1>2. CASE sys_create_thread(t)
  <2>1. Inv(Now')
    BY <1>2, CreateStep, Zenon
  <2> QED
    BY <1>2, <2>1, Zenon DEF sys_create_thread, Current
<1>3. CASE sys_exit_thread(t)
  <2>1. /\ halt = "no" /\ halt' = halt /\ Then(exit(Now, t, t))
        /\ t \in Threads(Now) /\ Status(Now, t) \in {"ready", "blocked"}
    BY <1>0, <1>3, Zenon DEF sys_exit_thread, Current, Status
  <2>2. Inv(exit(Now, t, t))
    BY <2>1, ExitKeeps, Zenon
  <2> QED
    BY <2>1, <2>2, ThenKeeps, Zenon
<1>4. ASSUME Deref, Current(t) PROVE Inv(Now') /\ halt = "no" /\ halt' \in {"no", "null"}
  <2>1. Inv(Now')
    BY <1>4, StutterStep, Zenon DEF Deref
  <2> QED
    BY <1>4, <2>1, Zenon DEF Deref, Current
<1>5. ASSUME NEW u \in Tids, sys_kill_thread(t, u)
      PROVE  Inv(Now') /\ halt = "no" /\ halt' \in {"no", "null"}
  <2>1. CASE get_thread(u) = "deleted" /\ Deref
    BY <1>4, <1>5, <2>1, Zenon DEF sys_kill_thread
  <2>2. CASE get_thread(u) \in {"ready", "blocked"} /\ Then(exit(Now, u, t)) /\ halt' = halt
    <3>1. u \in Threads(Now) /\ Status(Now, u) \in {"ready", "blocked"}
      BY <1>0, <2>2, Zenon DEF get_thread, Status
    <3>2. Inv(exit(Now, u, t))
      BY <3>1, ExitKeeps, Zenon
    <3>3. Inv(Now')
      BY <2>2, <3>2, ThenKeeps, Zenon
    <3> QED
      BY <1>5, <2>2, <3>3, Zenon DEF sys_kill_thread, Current
  <2> QED
    BY <1>5, <2>1, <2>2, Zenon DEF sys_kill_thread
<1>6. ASSUME NEW u \in Tids, sys_wait_thread(t, u)
      PROVE  Inv(Now') /\ halt = "no" /\ halt' \in {"no", "null"}
  <2>1. CASE get_thread(u) = "deleted" /\ Deref
    BY <1>4, <1>6, <2>1, Zenon DEF sys_wait_thread
  <2>2. CASE ~(get_thread(u) = "deleted" /\ Deref)
    <3>1. Inv(Now')
      BY <1>6, <2>2, WaitThreadStep, Zenon DEF sys_wait_thread, WaitsFor
    <3> QED
      BY <1>6, <2>2, <3>1, Zenon DEF sys_wait_thread, Current
  <2> QED
    BY <2>1, <2>2, Zenon
<1>7. ASSUME NEW p \in Pids, sys_kill(t, p)
      PROVE  Inv(Now') /\ halt = "no" /\ halt' \in {"no", "null"}
  <2>1. CASE get_process(p) = "deleted" /\ Deref
    BY <1>4, <1>7, <2>1, Zenon DEF sys_kill
  <2>2. CASE get_process(p) = "live" /\ Then(kill(Now, p, t)) /\ halt' = halt
    <3>1. Now \in Kernel /\ p \in Processes(Now) /\ State(Now, p) = "live"
      BY <1>0, <2>2, Zenon DEF get_process, Inv, State
    <3>2. Almost(Now, p)
      BY <3>1, InvIsAlmost, Zenon
    <3>3. Inv(kill(Now, p, t))
      BY <3>1, <3>2, KillKeeps, Zenon
    <3>4. Inv(Now')
      BY <2>2, <3>3, ThenKeeps, Zenon
    <3> QED
      BY <1>7, <2>2, <3>4, Zenon DEF sys_kill, Current
  <2> QED
    BY <1>7, <2>1, <2>2, Zenon DEF sys_kill
<1>8. ASSUME NEW p \in Pids, sys_waitpid(t, p)
      PROVE  Inv(Now') /\ halt = "no" /\ halt' \in {"no", "null"}
  <2>1. CASE get_process(p) = "deleted" /\ Deref
    BY <1>4, <1>8, <2>1, Zenon DEF sys_waitpid
  <2>2. CASE ~(get_process(p) = "deleted" /\ Deref)
    <3>1. Inv(Now')
      BY <1>8, <2>2, WaitpidStep, Zenon DEF sys_waitpid
    <3> QED
      BY <1>8, <2>2, <3>1, Zenon DEF sys_waitpid, Current
  <2> QED
    BY <2>1, <2>2, Zenon
<1> QED
  BY <1>1, <1>2, <1>3, <1>5, <1>6, <1>7, <1>8, Zenon

(* IInv is inductive. *)
LEMMA Step ==
  ASSUME Counting, IInv, [Next]_vars
  PROVE  IInv'
<1>1. Inv(Now) /\ halt \in {"no", "null", "spin"}
  BY Zenon DEF IInv
<1>2. ASSUME Inv(Now'), halt' \in {"no", "null", "spin"},
             halt' = "spin" => \E p \in DOMAIN process_table' : process_table'[p].own
      PROVE  IInv'
  BY <1>2, Zenon DEF IInv, Pids
<1>3. ASSUME NEW t \in Tids,
             \/ sys_exec(t) \/ sys_create_thread(t) \/ sys_exit_thread(t)
             \/ \E u \in Tids : sys_kill_thread(t, u) \/ sys_wait_thread(t, u)
             \/ \E p \in Pids : sys_kill(t, p) \/ sys_waitpid(t, p)
      PROVE  IInv'
  <2>1. Inv(Now') /\ halt' \in {"no", "null"}
    BY <1>1, <1>3, CallStep, Zenon
  <2> QED
    BY <1>2, <2>1, Zenon
<1>6. ASSUME NEW t \in Tids, SpinOnOwnLock(t)
      PROVE  IInv'
  <2>1. Inv(Now')
    BY <1>1, <1>6, StutterStep, Zenon DEF SpinOnOwnLock
  <2>2. thread_table[t].process \in DOMAIN process_table
    <3>1. Current(t)
      BY <1>6, Zenon DEF SpinOnOwnLock
    <3> QED
      BY <1>1, <3>1, CallerIs, NowIs, Zenon DEF Links, Home, Processes
  <2>3. \E p \in DOMAIN process_table' : process_table'[p].own
    BY <1>6, <2>2, Zenon DEF SpinOnOwnLock
  <2> QED
    BY <1>2, <1>6, <2>1, <2>3, Zenon DEF SpinOnOwnLock
<1>4. CASE idle_cleanup
  <2>1. /\ Inv(Now') /\ halt' \in {halt, "spin"}
        /\ halt' = "spin" => halt = "spin" \/ \E p \in DOMAIN process_table' : process_table'[p].own
    BY <1>1, <1>4, CleanupStep, Zenon
  <2>2. halt = "no"
    BY <1>4, Zenon DEF idle_cleanup
  <2> QED
    BY <1>2, <2>1, <2>2, Zenon
<1>5. CASE UNCHANGED vars
  <2>1. Inv(Now')
    BY <1>1, <1>5, StutterStep, Zenon DEF vars
  <2> QED
    BY <1>2, <1>5, <2>1, Zenon DEF IInv, vars, Pids
<1> QED
  BY <1>3, <1>4, <1>5, <1>6, Zenon DEF Next

-----------------------------------------------------------------------------
INSTANCE FiniteSetTheorems

(* The library proves what the counts rest on. *)
LEMMA CountingHolds == Counting
<1>1. \A n \in Nat : IsFiniteSet(1..n)
  BY FS_Interval
<1>2. \A S : IsFiniteSet(S) => \A T \in SUBSET S : IsFiniteSet(T)
  BY FS_Subset, Zenon
<1>3. \A S : IsFiniteSet(S) => Cardinality(S) \in Nat /\ (Cardinality(S) = 0 <=> S = {})
  BY FS_CardinalityType, FS_EmptySet, Zenon
<1>4. (\A x : Cardinality({x}) = 1) /\ Cardinality({}) = 0
  BY FS_Singleton, FS_EmptySet, Zenon
<1>5. \A S, x : IsFiniteSet(S) /\ x \notin S => Cardinality(S \cup {x}) = Cardinality(S) + 1
  BY FS_AddElement, Zenon
<1>6. \A S, T : IsFiniteSet(S) => Cardinality(S \ T) = Cardinality(S) - Cardinality(S \cap T)
  BY FS_Difference, Zenon
<1> QED
  BY <1>1, <1>2, <1>3, <1>4, <1>5, <1>6, Zenon DEF Counting

(* IInv holds throughout. *)
LEMMA Always == Spec => []IInv
<1>1. Init => IInv
  BY Start, CountingHolds, Zenon
<1>2. IInv /\ [Next]_vars => IInv'
  BY Step, CountingHolds, Zenon
<1> QED
  BY <1>1, <1>2, PTL DEF Spec

-----------------------------------------------------------------------------
(* Process::kill hands the children that live on to the parent: in tables   *)
(* of any size, a live process is always listed by a live parent, unless it *)
(* hangs below the idle process or below one that killed itself.            *)
THEOREM OrphansFindParents == Spec => []OrphansAreAdopted
<1>1. IInv => OrphansAreAdopted
  BY NowIs DEF IInv, Inv, Family, OrphansAreAdopted, Pids,
               Processes, State, Own, Parent, Children
<1> QED
  BY <1>1, Always, PTL

(* Nobody waits in the queue of a process or thread that has ended: kill    *)
(* and exit wake their waiters, and waitpid and wait_thread join only the   *)
(* queues of the living.                                                    *)
THEOREM NobodyWaitsForTheDead == Spec => []WaitersWaitForTheLiving
<1>1. IInv => WaitersWaitForTheLiving
  BY NowIs DEF IInv, Inv, Waiters, WaitersWaitForTheLiving, Pids, Tids,
               Processes, State, Waiting, Threads, Status, Joiners
<1> QED
  BY <1>1, Always, PTL

(* active_thread_cnt is exact, the last thread takes its process with it,   *)
(* the assertion of ~Process that threads have exited never fails, and a    *)
(* killed process is released exactly once unless it killed itself.         *)
THEOREM CleanupStaysSafe == Spec => []CleanupIsSafe
<1>1. ASSUME IInv PROVE CleanupIsSafe
  <2> DEFINE k == Now
  <2>1. k.p = process_table /\ k.t = thread_table /\ k.r = released
    BY NowIs, Zenon
  <2>2. /\ k \in Kernel /\ Links(k) /\ Counted(k) /\ Ends(k) /\ Released(k)
        /\ halt \in {"no", "null", "spin"}
        /\ halt = "spin" => \E p \in Pids : process_table[p].own
    BY <1>1, Zenon DEF IInv, Inv
  <2> HIDE DEF k
  <2>3. /\ \A p \in Processes(k) : k.p[p] \in ProcessRec
        /\ \A u \in Threads(k) : k.t[u] \in ThreadRec
    BY <2>2, KernelTables, Zenon
  <2>4. ASSUME NEW p \in Processes(k)
        PROVE  /\ State(k, p) \in {"live", "killed", "deleted"}
               /\ Parent(k, p) \in Processes(k) \cup {IdleProcess}
               /\ Children(k, p) \subseteq Processes(k)
               /\ Count(k, p) \in Nat
               /\ Waiting(k, p) \subseteq Threads(k)
    <3>1. Parent(k, p) \in Processes(k) \cup {IdleProcess}
      BY <2>2, ParentIsThere, Zenon
    <3>2. Count(k, p) \in Nat
      BY <2>2, AliveFinite, CountingHolds, Zenon DEF Counted
    <3> QED
      BY <2>2, <2>3, <3>1, <3>2, Zenon DEF ProcessRec, Links, State, Children, Waiting
  <2>5. ASSUME NEW u \in Threads(k)
        PROVE  /\ Status(k, u) \in {"ready", "blocked", "exited", "deleted"}
               /\ Home(k, u) \in Processes(k)
               /\ Joiners(k, u) \subseteq Threads(k)
    BY <2>2, <2>3, Zenon DEF ThreadRec, Links, Status
  <2>6. TypeOK
    BY <2>1, <2>2, <2>4, <2>5 DEF TypeOK, Pids, Tids, Processes, State, Own, Parent, Children, ThreadsOf, Count, Waiting,
                                   Threads, Status, Home, Joiners
  <2>7. ThreadsEndWithProcess
    BY <2>1, <2>2 DEF ThreadsEndWithProcess, Counted, Ends, EndsAt, Alive, Pids, Tids,
                         Processes, State, Own, Count, Threads, Status, Home
  <2>8. \A p \in Pids :
          Cardinality({i \in DOMAIN released : released[i] = p}) =
            (IF process_table[p].state # "live" /\ ~ process_table[p].own THEN 1 ELSE 0)
    BY <2>1, <2>2, Zenon DEF Released, Times, Pids, Processes, State, Own
  <2> QED
    BY <2>2, <2>6, <2>7, <2>8, Zenon DEF CleanupIsSafe
<1> QED
  BY <1>1, Always, PTL
=============================================================================
