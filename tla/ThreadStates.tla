---------------------------- MODULE ThreadStates ----------------------------
(***************************************************************************)
(* What the scheduler promises to the rest of the kernel on one CPU: the   *)
(* life of a thread, seen through Thread::status().  At most one thread    *)
(* runs; only the running thread blocks; a blocked thread becomes ready,   *)
(* never running at once; an exited thread changes no more; and a ready    *)
(* thread is not passed over for ever, unless sys_task_set keeps it off    *)
(* every CPU.                                                              *)
(***************************************************************************)
CONSTANT Threads

VARIABLES st,      \* Thread::status() of each thread
          barred   \* threads whose mask names no CPU: set from outside

States == {"NEW", "READY", "RUNNING", "BLOCKED", "EXITED"}

Init == \E t \in Threads : st = [u \in Threads |-> IF u = t THEN "READY" ELSE "NEW"]

Move(t, from, to) == st[t] = from /\ st' = [st EXCEPT ![t] = to]

Start(t) == Move(t, "NEW", "READY")
Dispatch(t) == Move(t, "READY", "RUNNING") /\ \A u \in Threads : st[u] # "RUNNING"
Preempt(t) == Move(t, "RUNNING", "READY")
Block(t) == Move(t, "RUNNING", "BLOCKED")
Wake(t) == Move(t, "BLOCKED", "READY")
Exit(t) == \E from \in {"READY", "RUNNING", "BLOCKED"} : Move(t, from, "EXITED")

Next == \E t \in Threads :
  Start(t) \/ Dispatch(t) \/ Preempt(t) \/ Block(t) \/ Wake(t) \/ Exit(t)

(* The changes of status that a thread goes through *)
Life == Init /\ [][Next]_st

Spec ==
  /\ Life
  /\ \A t \in Threads : <>[](t \notin barred) => SF_st(Dispatch(t))
=============================================================================
