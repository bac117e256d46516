------------------------------ MODULE MCMutex ------------------------------
EXTENDS Mutex, TLC

CONSTANTS t1, t2, t3, p1, p2

TwoAndOne == (t1 :> p1) @@ (t2 :> p1) @@ (t3 :> p2)
Cases == {[cpus |-> 1, reacquire |-> FALSE], [cpus |-> 2, reacquire |-> TRUE]}
=============================================================================
