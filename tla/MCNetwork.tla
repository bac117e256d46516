------------------------------ MODULE MCNetwork ------------------------------
EXTENDS Network

CONSTANTS s1, s2, r1

\* Two senders on one CPU and on two, a sender among packets that arrive on two,
\* and a receiver on one CPU and on two.
Machine(cpus, threads, traffic) == [cpus |-> cpus, threads |-> threads, traffic |-> traffic]
Cases ==
    {Machine(1, {s1, s2}, TRUE), Machine(2, {s1, s2}, FALSE), Machine(2, {s1}, TRUE),
     Machine(1, {r1}, TRUE), Machine(2, {r1}, TRUE)}
=============================================================================
