------------------------------ MODULE TrieLookup ------------------------------
(***************************************************************************)
(* TrieLookup of container.hpp: a map from unsigned keys to pointers, kept  *)
(* as a binary trie over the bits of the key, lowest bit first.  A trie is  *)
(* the sequence of its nodes; a node is named, as in the code, by its index *)
(* in the vector, so the node with index i is nodes[i + 1].  Index 0 is the *)
(* root and, as a child, means "none".  The operators are pure: one that    *)
(* changes the trie returns the new one.                                    *)
(***************************************************************************)
EXTENDS Integers, Sequences

CONSTANT Null   \* nullptr

\* Item{}: no value, no children.
Item == [val |-> Null, ch |-> [x \in 0 .. 1 |-> 0]]

\* The constructor: a root and nothing else.
EmptyTrie == <<Item>>

\* The number of turns of the loop "while (key) { ...; key >>= 1; }".
Bits(key) == CHOOSE n \in 0 .. key : key < 2 ^ n /\ (n = 0 \/ key >= 2 ^ (n - 1))

\* "key & 1" on the n-th turn of that loop.
Bit(key, n) == (key \div 2 ^ (n - 1)) % 2

\* The index the loop of lookup and of remove reaches, -1 when a child is missing.
Descend(nodes, key) ==
    LET walk[n \in 0 .. Bits(key)] ==
            IF n = 0 THEN 0
            ELSE LET i == walk[n - 1]
                     c == IF i = -1 THEN 0 ELSE nodes[i + 1].ch[Bit(key, n)]
                 IN  IF c = 0 THEN -1 ELSE c
    IN  walk[Bits(key)]

lookup(nodes, key) ==
    LET i == Descend(nodes, key) IN IF i = -1 THEN Null ELSE nodes[i + 1].val

\* One turn of the loop of insert: the child is created when it is missing.
GrowStep(s, x) ==
    LET c == s.nodes[s.index + 1].ch[x]
    IN  IF c # 0 THEN [s EXCEPT !.index = c]
        ELSE [nodes |-> Append([s.nodes EXCEPT ![s.index + 1].ch[x] = Len(s.nodes)], Item),
              index |-> Len(s.nodes)]

\* The loop of insert: the trie with the missing nodes, and the index reached.
Grow(nodes, key) ==
    LET step[n \in 0 .. Bits(key)] ==
            IF n = 0 THEN [nodes |-> nodes, index |-> 0]
            ELSE GrowStep(step[n - 1], Bit(key, n))
    IN  step[Bits(key)]

\* insert: "0: key already exists, otherwise: index of the new node".  The root,
\* where key 0 lives, has index 0 and so always answers "exists".
insert(nodes, key, val) ==
    LET g == Grow(nodes, key)
    IN  [nodes |-> [g.nodes EXCEPT ![g.index + 1].val = val],
         idx   |-> IF g.nodes[g.index + 1].val = Null THEN g.index ELSE 0]

\* remove answers true whenever the path exists, with or without a value at its end.
remove(nodes, key) ==
    LET i == Descend(nodes, key)
    IN  [nodes |-> IF i = -1 THEN nodes ELSE [nodes EXCEPT ![i + 1].val = Null],
         found |-> i # -1]

remove_by_idx(nodes, idx) ==
    IF idx < Len(nodes) THEN [nodes EXCEPT ![idx + 1].val = Null] ELSE nodes

\* foreach: the values in the order of their nodes.
Values(nodes) ==
    LET vals == [i \in DOMAIN nodes |-> nodes[i].val]
    IN  SelectSeq(vals, LAMBDA v : v # Null)
===============================================================================
