-------------------------------- MODULE Queues --------------------------------
(***************************************************************************)
(* A wait queue (WaitQueue of container.hpp) seen as a sequence of threads: *)
(* the terms in which the proofs speak of it.                               *)
(***************************************************************************)
EXTENDS Integers, Sequences

(* No thread waits twice. *)
Distinct(q) == \A i, j \in DOMAIN q : q[i] = q[j] => i = j

Members(q) == {q[i] : i \in DOMAIN q}
==============================================================================
