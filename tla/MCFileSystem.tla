---------------------------- MODULE MCFileSystem ----------------------------
EXTENDS FileSystem, TLC

One == {<<{p}, {x}>> : p \in Procs, x \in Names}        \* one process and one name
Two == {<<{p}, Names>> : p \in Procs}                   \* ... and two names

\* A workload without power failures inside operations, under write-through.
Case(who, calls, offsets, lengths, data) ==
    [procs |-> who[1], names |-> who[2], calls |-> calls, offsets |-> offsets, lengths |-> lengths,
     data |-> data, torn |-> 0, policies |-> {}]
Torn(S) == {[w EXCEPT !.torn = 1] : w \in S}
BothPolicies(S) == {[w EXCEPT !.policies = BOOLEAN] : w \in S}

\* Two processes in a tree of directories, with links when they use one name; one process
\* with two names; one with files in nested directories.
Trees == {Case(<<Procs, Names>>, {"mkfs", "dir"}, {}, {}, {})}
           \cup {Case(w, {"mkfs", "dir", "link"}, {}, {}, {}) : w \in Two \cup {<<Procs, {x}>> : x \in Names}}
           \cup {Case(w, {"dir", "link", "open"}, {0}, {2}, {7}) : w \in One}

\* A file that is linked, read and written over; writes of one and two words from any place
\* of a file; two files side by side, with writes across the end of a block.
Contents == {Case(w, {"mkfs", "link", "open"}, {0}, {2}, {7}) : w \in One}
              \cup {Case(w, {"open"}, {0, 1}, {1, 2}, {7, 8}) : w \in One}
              \cup {Case(w, {"open"}, {1}, {2}, {7}) : w \in Two}
              \cup {Case(w, {"open"}, {}, {2}, {7, 8}) : w \in Two}

\* Power fails in an operation: on links, on directories, on files.
Failures == Torn({Case(w, {"link"}, {}, {}, {}) : w \in Two}
                   \cup {Case(w, {"dir", "link"}, {}, {}, {}) : w \in One}
                   \cup {Case(w, {"open", "read"}, {1}, {2}, {7}) : w \in One})

\* The cache changes between write-through and write-back.
WriteBack == BothPolicies({Case(w, {c}, {}, {2}, {7}) : w \in One, c \in {"dir", "open"}}
                            \cup {Case(w, {"link"}, {}, {}, {}) : w \in Two})

Cases == Trees \cup Contents \cup Failures \cup WriteBack

\* One file, which may need an index block.
OneFile == {Case(w, {"open", "read"}, {0, 4}, {4}, {7}) : w \in Two}

\* After a call that may break the volume nothing is claimed, and nothing explored.
Sound == spoiled = {}

\* While part of what is dirty has been written nothing is claimed of the card, and what it
\* has of the other dirty units is not read before they are written: states that differ only
\* there behave alike.
Card == IF partial THEN Tidy(Put(d, m, dirty), m.map) ELSE d
Seen == <<use, m, Card, cwd, files, writethrough, dirty, hung, histories>>

Symmetry == Permutations(Names) \cup Permutations(Procs)
=============================================================================
