------------------------------- MODULE MCMemory -------------------------------
EXTENDS Memory

CONSTANTS p1, p2, p3, k1

\* Two threads of a process fault, share a page, move the bound and are killed; two move
\* the bound above the shared pages; two processes share a page and one is killed; three
\* are loaded, two at a time, until memory runs out; a process uses its heap of 8 batches
\* until that runs out.
Cases ==
    {[procs |-> {p1}, images |-> {2}, bounds |-> {1, 4}, keys |-> {k1}, attach |-> 2,
      pages |-> {2, SharedStart}, detached |-> {SharedStart}, mallocs |-> {}, killed |-> {p1}],
     [procs |-> {p1}, images |-> {1}, bounds |-> {5}, keys |-> {k1}, attach |-> 2,
      pages |-> {SharedStart}, detached |-> {}, mallocs |-> {}, killed |-> {}],
     [procs |-> {p1, p2}, images |-> {1}, bounds |-> {}, keys |-> {k1}, attach |-> 1,
      pages |-> {}, detached |-> {SharedStart}, mallocs |-> {}, killed |-> {p2}],
     [procs |-> {p1, p2, p3}, images |-> {5}, bounds |-> {}, keys |-> {k1}, attach |-> 1,
      pages |-> {}, detached |-> {}, mallocs |-> {}, killed |-> {}],
     [procs |-> {p1}, images |-> {1}, bounds |-> {}, keys |-> {}, attach |-> 0,
      pages |-> {}, detached |-> {}, mallocs |-> {0, 3, 8}, killed |-> {}]}

=============================================================================
