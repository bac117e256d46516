----------------------------- MODULE MCMailbox -----------------------------
EXTENDS Mailbox, TLC

CONSTANTS s1, s2, r1, r2
=============================================================================
