----------------------------- MODULE RadixTree -----------------------------
(***************************************************************************)
(* The radix tree that holds the entries of a stream                       *)
(* (pkg/keyval/radix_tree.go), as operators on a tree value.               *)
(*                                                                         *)
(* A node is named by its path, the bytes of all prefixes from the root to *)
(* it: a tree is a function from paths to nodes, and the path of a leaf is *)
(* the ID of its entries.  The children of a node are kept in the order    *)
(* they were added: so do Node4 and Node16, and the bytes of an ID (ten    *)
(* digits and "-") never need more than eleven children.                   *)
(***************************************************************************)
EXTENDS Integers, SequencesExt

\* NewRadixNode.
Node(leaf, es, cs) == [isLeaf |-> leaf, entries |-> es, children |-> cs]

NewRadixTree == [p \in {<<>>} |-> Node(FALSE, <<>>, <<>>)]

\* Byte-wise comparison of strings, as by Go's < and bytes.Compare.
LessStr(a, b) ==
    \E n \in 0 .. Len(a) :
      /\ n < Len(b)
      /\ \A i \in 1 .. n : a[i] = b[i]
      /\ IF n = Len(a) THEN TRUE ELSE a[n + 1] < b[n + 1]

\* The entries of a tree.
Contents(t) ==
    UNION {{t[p].entries[i] : i \in 1 .. Len(t[p].entries)} : p \in DOMAIN t}

(***************************************************************************)
(* AddEntry.                                                               *)
(***************************************************************************)
\* The node where the walk down along s ends.
Deepest(t, s) ==
    CHOOSE p \in DOMAIN t :
      IsPrefix(p, s) /\ \A q \in DOMAIN t : IsPrefix(q, s) => Len(q) <= Len(p)

\* The children of n that s continues with: at most one.
findChild(t, n, s) ==
    {c \in ToSet(t[n].children) : c[Len(n) + 1] = s[Len(n) + 1]}

\* The node of s exists: it becomes a leaf, or gets one more entry.
AddTo(t, s, e) == [t EXCEPT ![s] = Node(TRUE, Append(@.entries, e), @.children)]

\* addChild: a new leaf, the last of the children of n.
addChild(t, n, s, e) ==
    [p \in DOMAIN t \cup {s} |->
       IF p = s THEN Node(TRUE, <<e>>, <<>>)
       ELSE IF p = n THEN [t[n] EXCEPT !.children = Append(@, s)] ELSE t[p]]

\* Mutant: the node split off starts empty.
splitForgets(t, n, c, q) ==
    [p \in DOMAIN t \cup {q} |->
       IF p = q THEN Node(FALSE, <<>>, <<c>>)
       ELSE IF p = n THEN [t[n] EXCEPT !.children = ReplaceAll(@, c, q)]
       ELSE IF p = c THEN Node(FALSE, <<>>, t[c].children) ELSE t[p]]

\* split: the child c of n is cut after the path q, and takes its place below.
split(t, n, c, q) ==
    [p \in DOMAIN t \cup {q} |->
       IF p = q THEN Node(FALSE, <<>>, <<c>>)
       ELSE IF p = n THEN [t[n] EXCEPT !.children = ReplaceAll(@, c, q)] ELSE t[p]]

AddEntry(t, s, e) ==
    LET n == Deepest(t, s)
    IN  IF n = s THEN AddTo(t, s, e)
        ELSE IF findChild(t, n, s) = {} THEN addChild(t, n, s, e)
        ELSE LET c == CHOOSE c \in findChild(t, n, s) : TRUE
                 q == LongestCommonPrefix({c, s})
                 u == split(t, n, c, q)
             IN  IF q = s THEN AddTo(u, s, e) ELSE addChild(u, q, s, e)

(***************************************************************************)
(* Walking the tree: a node before what is below it, and its children in   *)
(* the order they are kept in.                                             *)
(***************************************************************************)
Before(t, p, q) ==
    IF IsPrefix(p, q) \/ IsPrefix(q, p) THEN Len(p) < Len(q)
    ELSE LET cs == t[LongestCommonPrefix({p, q})].children
         IN  \E i, j \in DOMAIN cs : i < j /\ IsPrefix(cs[i], p) /\ IsPrefix(cs[j], q)

Leaves(t) == {p \in DOMAIN t : t[p].isLeaf}

\* The paths ps in the order of the walk: at each place the one before which
\* come as many as there are places before it.
InOrder(t, ps) ==
    [i \in 1 .. Cardinality(ps) |->
       CHOOSE p \in ps : Cardinality({q \in ps : Before(t, q, p)}) = i - 1]

Entries(t, ps) ==
    FlattenSeq([i \in 1 .. Len(ps) |-> t[ps[i]].entries])

\* Mutant: the end is exclusive.
TreeRangeExclusive(t, start, end, count) ==
    LET within == {p \in Leaves(t) : ~LessStr(p, start) /\ LessStr(p, end)}
        all == Entries(t, InOrder(t, within))
    IN  IF count = 0 \/ count >= Len(all) THEN all ELSE SubSeq(all, 1, count)

\* The entries with IDs from start to end, at most count of them if count is
\* not zero.  Exclusive bounds are left out: ValidateID lets none come here.
TreeRange(t, start, end, count) ==
    LET within == {p \in Leaves(t) : ~LessStr(p, start) /\ ~LessStr(end, p)}
        all == Entries(t, InOrder(t, within))
    IN  IF count = 0 \/ count >= Len(all) THEN all ELSE SubSeq(all, 1, count)

(***************************************************************************)
(* Trimming.  The walk does not go below a leaf, and a leaf stays one when *)
(* its last entry is gone.                                                 *)
(***************************************************************************)
TopLeaves(t) == {p \in Leaves(t) : \A q \in Leaves(t) : ~IsStrictPrefix(q, p)}

\* The entries that the walk over the leaves ps reaches before p.
Visited(t, ps, p) == UNION {ToSet(t[q].entries) : q \in {q \in ps : Before(t, q, p)}}

\* A node without its first n entries.
Drop(node, n) ==
    [node EXCEPT !.entries = IF n > 0 THEN SubSeq(@, n + 1, Len(@)) ELSE @]

\* Mutant: the loop also runs when the size is right.
TrimBySizeOneMore(t, size, max) ==
    LET ps == TopLeaves(t)
    IN  [p \in DOMAIN t |->
           IF size > max /\ p \in ps
           THEN Drop(t[p], size + 1 - max - Cardinality(Visited(t, ps, p))) ELSE t[p]]

\* TrimBySize: each leaf loses its first entries while more than max are left.
TrimBySize(t, size, max) ==
    LET ps == TopLeaves(t)
    IN  [p \in DOMAIN t |->
           IF p \in ps THEN Drop(t[p], size - max - Cardinality(Visited(t, ps, p))) ELSE t[p]]

\* TrimByMinID: leaf by leaf, up to the first one with an entry from min on.
TrimByMinID(t, min) ==
    LET ps == TopLeaves(t)
        stops == {p \in ps : t[p].entries # <<>> /\ ~LessStr(p, min)}
    IN  [p \in DOMAIN t |->
           IF p \in ps /\ \A q \in stops : Before(t, p, q)
           THEN Drop(t[p], Len(t[p].entries)) ELSE t[p]]

=============================================================================
