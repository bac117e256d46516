----------------------------- MODULE MCBlockCache -----------------------------
\* Instance of BlockCache for TLC.
EXTENDS BlockCache
===============================================================================
