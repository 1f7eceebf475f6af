------------------------------ MODULE RadixTree ------------------------------
(***************************************************************************)
(* The tree in which an address space keeps what was written to it.  An    *)
(* address is a sequence of tokens; a node is the sequence of the labels   *)
(* that lead to it, a label a nonempty sequence of tokens; a tree is a     *)
(* function from its nodes to their values.  The children of a node are a  *)
(* Go map: every operation is the set of its outcomes over the orders in   *)
(* which that map may be visited.                                          *)
(***************************************************************************)
EXTENDS Integers, Sequences, FiniteSets, SequencesExt

CONSTANTS Nothing,  \* the value of a node that holds none
          NilNode,  \* a child that is a nil pointer
          Panic     \* what is had from a nil pointer that is dereferenced

Dot == <<".">>
EmptyTree == [n \in {<<>>} |-> Nothing]

\* The labels of a node, joined; nothing is joined to an empty beginning.
Joined(node, sep) ==
    LET joined[i \in 0..Len(node)] ==
          IF i = 0 THEN <<>>
          ELSE IF joined[i - 1] = <<>> THEN node[i] ELSE joined[i - 1] \o sep \o node[i]
    IN  joined[Len(node)]

Flat(node) == Joined(node, <<>>)
Rest(path, k) == SubSeq(path, Len(k) + 1, Len(path))

Children(tree, node) == {n \in DOMAIN tree : Len(n) = Len(node) + 1 /\ IsPrefix(node, n)}
Labels(tree, node) == {Last(n) : n \in Children(tree, node)}
Below(tree, node) == {n \in DOMAIN tree : IsPrefix(node, n)}
Missing(tree, node) == node \notin DOMAIN tree \/ tree[node] = NilNode

\* The orders in which a set may be visited.
Orders(S) == {f \in [1..Cardinality(S) -> S] : \A x \in S : \E i \in DOMAIN f : f[i] = x}

\* What an operation leaves behind; a panic leaves the tree as it was.
Ok(tree) == [ok |-> TRUE, tree |-> tree]
Panics(tree) == [ok |-> FALSE, tree |-> tree]

Put(tree, node, v) ==
    LET kept == DOMAIN tree \ Below(tree, node)
    IN  [n \in kept \cup {node} |-> IF n = node THEN v ELSE tree[n]]

SetValue(tree, node, v) == [tree EXCEPT ![node] = v]

\* A longer label gives way to a node for the path, which takes its subtree
\* below it; where the current node has no such child, a nil one is hung in.
Split(tree, node, path, k, v) ==
    LET new   == Append(node, path)
        old   == Append(node, k)
        rest  == Append(new, Rest(k, path))
        clear == Put(tree, new, v)
        moved == Below(clear, old)
        to(n) == rest \o SubSeq(n, Len(old) + 1, Len(n))
        kept  == DOMAIN clear \ moved
    IN  [n \in kept \cup (IF moved = {} THEN {rest} ELSE {to(m) : m \in moved}) |->
            IF n \in kept THEN clear[n]
            ELSE IF moved = {} THEN NilNode ELSE clear[CHOOSE m \in moved : to(m) = n]]

\* Mutant: a node that is there keeps its value.
TurnKeepsFirst(v, st, k) ==
    IF st.state = "open" /\ IsPrefix(k, st.path) /\ ~st.nil THEN [st EXCEPT !.state = "done"]
    ELSE IF st.state = "open" /\ IsPrefix(st.path, k) /\ ~st.nil
         THEN [st EXCEPT !.state = "done", !.tree = Split(@, st.node, st.path, k, v)]
    ELSE st

\* One turn of Insert's loop over the children of the root: the loop goes on
\* over them even when a child was entered.
Turn(v, st, k) ==
    LET child == Append(st.node, k) IN
    IF st.state # "open" THEN st
    ELSE IF IsPrefix(k, st.path)
         THEN IF st.nil \/ (Rest(st.path, k) = <<>> /\ Missing(st.tree, child))
              THEN [st EXCEPT !.state = "panic"]
              ELSE IF Rest(st.path, k) = <<>>
              THEN [st EXCEPT !.state = "done", !.tree = SetValue(@, child, v)]
              ELSE [st EXCEPT !.node = child, !.nil = Missing(st.tree, child), !.path = Rest(@, k)]
    ELSE IF IsPrefix(st.path, k)
         THEN IF st.nil THEN [st EXCEPT !.state = "panic"]
              ELSE [st EXCEPT !.state = "done", !.tree = Split(@, st.node, st.path, k, v)]
    ELSE st

\* The loop over the children in the given order, and what comes after it.
Inserted(tree, path, v, order) ==
    LET after[i \in 0..Len(order)] ==
          IF i = 0 THEN [state |-> "open", node |-> <<>>, path |-> path, nil |-> FALSE, tree |-> tree]
          ELSE Turn(v, after[i - 1], order[i])
        st == after[Len(order)]
    IN  CASE st.state = "done" -> Ok(st.tree)
          [] st.state = "open" /\ ~st.nil -> Ok(Put(tree, Append(st.node, st.path), v))
          [] OTHER -> Panics(tree)

Insert(tree, path, v) ==
    IF path = <<>> THEN {Ok(SetValue(tree, <<>>, v))}
    ELSE {Inserted(tree, path, v, order) : order \in Orders(Labels(tree, <<>>))}

\* The nodes at which a descent along the path may end: any child whose label
\* is a prefix of what is left is entered, and none is ever left again.
DescentEnds(tree, path) ==
    {n \in DOMAIN tree : IsPrefix(Flat(n), path)
                          /\ \A c \in Children(tree, n) : ~IsPrefix(Flat(c), path)}

Find(tree, path) ==
    {IF tree[n] = NilNode THEN Panic ELSE IF Flat(n) = path THEN tree[n] ELSE Nothing :
        n \in DescentEnds(tree, path)}

Delete(tree, path) ==
    {IF tree[n] = NilNode THEN Panics(tree)
     ELSE IF Flat(n) # path THEN Ok(tree)
     ELSE IF n # <<>> /\ Children(tree, n) = {} THEN Ok([m \in DOMAIN tree \ {n} |-> tree[m]])
     ELSE Ok(SetValue(tree, n, Nothing)) : n \in DescentEnds(tree, path)}

\* traverse: the labels on the way are joined with dots; a nil node panics.
FlatKey(node) == Joined(node, Dot)
Untraversable(tree) == \E n \in DOMAIN tree : tree[n] = NilNode

Held(tree, prefix) ==
    {n \in DOMAIN tree : /\ tree[n] # Nothing
                         /\ FlatKey(n) = prefix \/ IsPrefix(prefix \o Dot, FlatKey(n))}

\* Mutant: the prefix stays on.
ToFlatMapWhole(tree, prefix) == {<<FlatKey(n), tree[n]>> : n \in Held(tree, prefix)}

\* ToFlatMap under a prefix, the prefix and its dot taken off.
ToFlatMap(tree, prefix) == {<<Rest(FlatKey(n), prefix \o Dot), tree[n]>> : n \in Held(tree, prefix)}

=============================================================================
