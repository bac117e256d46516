---------------------------- MODULE MCKernelObjects ----------------------------
\* Instance of KernelObjects for TLC: the keys take in 0, which lives at the root.
EXTENDS KernelObjects

MCKeys == {0, 2}
===============================================================================
