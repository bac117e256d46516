----------------------------- MODULE MCBarrier -----------------------------
EXTENDS Barrier, TLC

CONSTANTS t1, t2, t3, t4
=============================================================================
