---------------------------- MODULE MCScheduler ----------------------------
EXTENDS Scheduler, TLC

CONSTANTS c1, c2, t1, t2, t3

ThreadSymmetry == Permutations(Threads)
=============================================================================
