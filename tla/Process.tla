------------------------------- MODULE Process -------------------------------
(***************************************************************************)
(* The life of processes and threads (process.cpp, thread.cpp): exec,      *)
(* create_thread, the two exits, the two kills, the two waits and          *)
(* idle_cleanup.  A system call runs on one CPU without preemption, up to  *)
(* the point where it gives up the CPU; the idle loop cleans up between    *)
(* them.  What a kill does to kernel objects is in KernelObjects, when a   *)
(* ready thread runs in Scheduler.                                         *)
(*                                                                         *)
(* process_table and thread_table only grow, so a pid or tid is an index.  *)
(* Entry 0 of both, of the idle process, is left out: it is a parent and   *)
(* nothing else.  The code does not refuse sys_kill(0), which would end    *)
(* the idle threads; no process of the model calls it.  A null entry is a  *)
(* process or thread that is "deleted".                                    *)
(***************************************************************************)
EXTENDS Integers, Sequences, FiniteSets

CONSTANTS MaxProcs, MaxThreads   \* bounds on the two tables

IdleProcess == 0

VARIABLES process_table, thread_table,
          released,       \* processes pushed to process_to_release
          halt            \* "no", or how the kernel came to a stop

vars == <<process_table, thread_table, released, halt>>

Pids == DOMAIN process_table
Tids == DOMAIN thread_table

\* The constructors.  own is process_own_lock, seen between system calls.
NewProcess(parent, tid) ==
    [state |-> "live", parent |-> parent, children |-> {}, threads |-> <<tid>>,
     active_thread_cnt |-> 1, wait_kill_queue |-> {}, own |-> FALSE]
NewThread(pid) == [state |-> "ready", process |-> pid, wait_exited_queue |-> {}]

\* main has started the shell.
Init ==
    /\ process_table = <<NewProcess(IdleProcess, 1)>>
    /\ thread_table = <<NewThread(1)>>
    /\ released = <<>>
    /\ halt = "no"
-----------------------------------------------------------------------------
\* The operators work on k = [p |-> process_table, t |-> thread_table,
\* r |-> released].
Now == [p |-> process_table, t |-> thread_table, r |-> released]
Then(k) == process_table' = k.p /\ thread_table' = k.t /\ released' = k.r
Current(t) == halt = "no" /\ t \in Tids /\ thread_table[t].state = "ready"

\* WaitQueue::wakeup_all and Thread::wakeup: a thread that has exited meanwhile
\* is not made ready.
Woken(k, queue) ==
    [k EXCEPT !.t = [u \in DOMAIN k.t |->
        IF u \in queue /\ k.t[u].state = "blocked" THEN [k.t[u] EXCEPT !.state = "ready"]
        ELSE k.t[u]]]

\* Thread::exit of the threads us of process p, up to its last lines.
Exited(k, p, us) ==
    LET gone == {u \in us : k.t[u].state \in {"ready", "blocked"}}
        w == Woken(k, UNION {k.t[u].wait_exited_queue : u \in gone})
    IN  [w EXCEPT !.t = [u \in DOMAIN k.t |->
                           IF u \in gone THEN [w.t[u] EXCEPT !.state = "exited",
                                                             !.wait_exited_queue = {}]
                           ELSE w.t[u]],
                  !.p[p].active_thread_cnt = @ - Cardinality(gone)]

\* Mutant of Adopted: the new parent does not list the orphans as children.
M_Adopted(k, p) ==
    LET up == k.p[p].parent
        orphans == {c \in k.p[p].children : k.p[c].state = "live"}
    IN  [k EXCEPT !.p = [q \in DOMAIN k.p |->
            IF q \in orphans THEN [k.p[q] EXCEPT !.parent = up] ELSE k.p[q]]]

\* The children that live on go to the parent.
Adopted(k, p) ==
    LET up == k.p[p].parent
        orphans == {c \in k.p[p].children : k.p[c].state = "live"}
    IN  [k EXCEPT !.p = [q \in DOMAIN k.p |->
            IF q = up THEN [k.p[q] EXCEPT !.children = @ \cup orphans]
            ELSE IF q \in orphans THEN [k.p[q] EXCEPT !.parent = up]
            ELSE k.p[q]]]

\* Process::kill, called by thread t.  When the loop over the threads comes to
\* t itself, exit() calls do_scheduler and does not return: the lock stays
\* taken, and neither the threads after t nor the children are reached.
kill(k, p, t) ==
    LET ths == k.p[p].threads
        self == {i \in DOMAIN ths : ths[i] = t /\ k.t[t].state = "ready"}
        reached == {ths[i] : i \in {j \in DOMAIN ths : \A s \in self : j <= s}}
        woken == Woken(k, k.p[p].wait_kill_queue)
        marked == [woken EXCEPT !.p[p].state = "killed", !.p[p].wait_kill_queue = {}]
        out == Exited(marked, p, reached)
    IN  IF k.p[p].state # "live" THEN k
        ELSE IF self # {} THEN [out EXCEPT !.p[p].own = TRUE]
        ELSE [Adopted(out, p) EXCEPT !.r = Append(@, p)]

\* Thread::exit, called by thread t for thread u
exit(k, u, t) ==
    LET p == k.t[u].process
        out == Exited(k, p, {u})
    IN  IF out.p[p].active_thread_cnt = 0 THEN kill(out, p, t) ELSE out
-----------------------------------------------------------------------------
sys_exec(t) ==
    LET parent == thread_table[t].process
        pid == Len(process_table) + 1
        tid == Len(thread_table) + 1
    IN  /\ Current(t) /\ ~ process_table[parent].own
        /\ Len(process_table) < MaxProcs /\ Len(thread_table) < MaxThreads
        /\ process_table' = Append([process_table EXCEPT ![parent].children = @ \cup {pid}],
                                   NewProcess(parent, tid))
        /\ thread_table' = Append(thread_table, NewThread(pid))
        /\ UNCHANGED <<released, halt>>

\* sys_create_thread, Process::create_thread
sys_create_thread(t) ==
    LET p == thread_table[t].process
        tid == Len(thread_table) + 1
    IN  /\ Current(t) /\ ~ process_table[p].own
        /\ Len(thread_table) < MaxThreads
        /\ process_table' = [process_table EXCEPT ![p].threads = Append(@, tid),
                                                  ![p].active_thread_cnt = @ + 1]
        /\ thread_table' = Append(thread_table, NewThread(p))
        /\ UNCHANGED <<released, halt>>

\* A thread that outlived the kill() of its own process calls one of the two: the lock it
\* asks for is never released, and its CPU spins.  Nothing is said of the other CPUs after.
SpinOnOwnLock(t) ==
    /\ Current(t) /\ process_table[thread_table[t].process].own
    /\ halt' = "spin"
    /\ UNCHANGED <<process_table, thread_table, released>>

sys_exit_thread(t) ==
    /\ Current(t)
    /\ Then(exit(Now, t, t))
    /\ halt' = halt

\* get_process and get_thread answer nullptr for what has ended.  A null entry is itself
\* read through: the page fault handler maps a page there, and the caller gets nullptr and
\* returns, or, where the compiler has dropped its test for nullptr, goes on with an object
\* that does not exist.  Nothing is said of what follows then.
get_process(pid) == process_table[pid].state
get_thread(tid) == thread_table[tid].state

Deref == halt' \in {halt, "null"} /\ UNCHANGED <<process_table, thread_table, released>>

sys_kill_thread(t, u) ==
    /\ Current(t)
    /\ \/ get_thread(u) = "deleted" /\ Deref
       \/ get_thread(u) \in {"ready", "blocked"} /\ Then(exit(Now, u, t)) /\ halt' = halt

sys_wait_thread(t, u) ==
    /\ Current(t)
    /\ \/ get_thread(u) = "deleted" /\ Deref
       \/ /\ get_thread(u) \in {"ready", "blocked"}
          /\ thread_table' = [v \in Tids |->
               [thread_table[v] EXCEPT !.wait_exited_queue = IF v = u THEN @ \cup {t} ELSE @,
                                       !.state = IF v = t THEN "blocked" ELSE @]]
          /\ UNCHANGED <<process_table, released, halt>>

\* sys_kill, and sys_exit for the process of t
sys_kill(t, p) ==
    /\ Current(t)
    /\ \/ get_process(p) = "deleted" /\ Deref
       \/ get_process(p) = "live" /\ Then(kill(Now, p, t)) /\ halt' = halt

\* Mutant of sys_waitpid: is_killed is not tested.
M_sys_waitpid(t, p) ==
    /\ Current(t)
    /\ get_process(p) # "deleted"
    /\ process_table' = [process_table EXCEPT ![p].wait_kill_queue = @ \cup {t}]
    /\ thread_table' = [thread_table EXCEPT ![t].state = "blocked"]
    /\ UNCHANGED <<released, halt>>

sys_waitpid(t, p) ==
    /\ Current(t)
    /\ \/ get_process(p) = "deleted" /\ Deref
       \/ /\ get_process(p) = "live"
          /\ process_table' = [process_table EXCEPT ![p].wait_kill_queue = @ \cup {t}]
          /\ thread_table' = [thread_table EXCEPT ![t].state = "blocked"]
          /\ UNCHANGED <<released, halt>>

\* Mutant of idle_cleanup: the lock of the process is not taken.
M_idle_cleanup ==
    LET killed == {p \in Pids : process_table[p].state = "killed"}
        theirs == {u \in Tids : thread_table[u].process \in killed}
    IN  /\ halt = "no"
        /\ killed # {}
        /\ process_table' = [p \in Pids |-> IF p \in killed
                               THEN [process_table[p] EXCEPT !.state = "deleted"]
                               ELSE process_table[p]]
        /\ thread_table' = [u \in Tids |-> IF u \in theirs
                               THEN [thread_table[u] EXCEPT !.state = "deleted"]
                               ELSE thread_table[u]]
        /\ halt' = IF \E u \in theirs : thread_table[u].state # "exited" THEN "assert" ELSE halt
        /\ released' = released

\* ~Process, for each of some processes: its threads are deleted.  It asserts that they have
\* exited; Unexited is when that fails.
Deleted(dead) == [u \in Tids |-> IF thread_table[u].process \in dead
                                  THEN [thread_table[u] EXCEPT !.state = "deleted"]
                                  ELSE thread_table[u]]
Unexited(dead) == \E u \in Tids : thread_table[u].process \in dead /\ thread_table[u].state # "exited"

\* idle_cleanup walks the table.  It takes the lock of each killed process, and
\* spins, with process_global_lock, on the first it does not get.
idle_cleanup ==
    LET killed == {p \in Pids : process_table[p].state = "killed"}
        stuck == {p \in killed : process_table[p].own}
        dead == {p \in killed : \A q \in stuck : p < q}
    IN  /\ halt = "no"
        /\ killed # {}
        /\ process_table' = [p \in Pids |-> IF p \in dead
                               THEN [process_table[p] EXCEPT !.state = "deleted"]
                               ELSE process_table[p]]
        /\ thread_table' = Deleted(dead)
        /\ halt' = IF Unexited(dead) THEN "assert"
                   ELSE IF stuck # {} THEN "spin" ELSE halt
        /\ released' = released

Next ==
    \/ \E t \in Tids :
         \/ sys_exec(t) \/ sys_create_thread(t) \/ SpinOnOwnLock(t) \/ sys_exit_thread(t)
         \/ \E u \in Tids : sys_kill_thread(t, u) \/ sys_wait_thread(t, u)
         \/ \E p \in Pids : sys_kill(t, p) \/ sys_waitpid(t, p)
    \/ idle_cleanup

Spec == Init /\ [][Next]_vars
-----------------------------------------------------------------------------
\* The shape of the state.
TypeOK ==
    /\ \A p \in Pids :
         /\ process_table[p].state \in {"live", "killed", "deleted"}
         /\ process_table[p].parent \in Pids \cup {IdleProcess}
         /\ process_table[p].children \subseteq Pids
         /\ process_table[p].active_thread_cnt \in Nat
         /\ process_table[p].wait_kill_queue \subseteq Tids
    /\ \A u \in Tids :
         /\ thread_table[u].state \in {"ready", "blocked", "exited", "deleted"}
         /\ thread_table[u].process \in Pids
         /\ thread_table[u].wait_exited_queue \subseteq Tids
    /\ halt \in {"no", "null", "spin", "assert"}

\* A live process has a live parent that lists it as a child, however the
\* processes between it and its ancestors ended; the exception is a parent that
\* called sys_exit or killed itself, whose kill() does not get that far.
OrphansAreAdopted ==
    \A p \in Pids : process_table[p].state = "live" =>
        LET up == process_table[p].parent
        IN  \/ up = IdleProcess
            \/ process_table[up].state = "live" /\ p \in process_table[up].children
            \/ process_table[up].own

\* The last thread takes its process with it (Thread::exit): active_thread_cnt counts the
\* threads that have not exited, a live process has one, and a killed process
\* has none unless it killed itself.
ThreadsEndWithProcess ==
    \A p \in Pids :
        LET alive == {u \in Tids : /\ thread_table[u].process = p
                                   /\ thread_table[u].state \in {"ready", "blocked"}}
        IN  /\ process_table[p].active_thread_cnt = Cardinality(alive)
            /\ process_table[p].state = "live" => alive # {}
            /\ process_table[p].state # "live" => alive = {} \/ process_table[p].own

\* Nobody waits for what has ended: a blocked thread is in the wait queue of a
\* live process or of a thread that has not exited.
WaitersWaitForTheLiving ==
    \A t \in Tids : thread_table[t].state = "blocked" =>
        \/ \E p \in Pids : process_table[p].state = "live" /\ t \in process_table[p].wait_kill_queue
        \/ \E u \in Tids : /\ thread_table[u].state \in {"ready", "blocked"}
                           /\ t \in thread_table[u].wait_exited_queue

\* The tables are well formed, threads end with their process, the assertions of ~Process
\* hold, the kernel spins only on the lock of a process that killed itself, and each other
\* killed process is released once.
CleanupIsSafe ==
    /\ TypeOK
    /\ ThreadsEndWithProcess
    /\ halt # "assert"
    /\ halt = "spin" => \E p \in Pids : process_table[p].own
    /\ \A p \in Pids :
         Cardinality({i \in DOMAIN released : released[i] = p}) =
             (IF process_table[p].state # "live" /\ ~ process_table[p].own THEN 1 ELSE 0)
=============================================================================
