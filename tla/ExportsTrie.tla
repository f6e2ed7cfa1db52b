---------------------------- MODULE ExportsTrie ----------------------------
(***************************************************************************)
(* The trie of exported symbols of a Mach-O output (trie.rs): its shape,   *)
(* which only depends on the names, the offsets of its nodes, which depend *)
(* on the sizes of the offsets themselves, and its bytes.                  *)
(*                                                                         *)
(* A name is a sequence of bytes.  The links between siblings are a        *)
(* sequence of children.  The address that stands for u64::MAX while       *)
(* sizes are reserved is Unknown; its encoding takes ten bytes.            *)
(***************************************************************************)
EXTENDS Integers, Sequences, SequencesExt

Unknown == -1
NoSymbol == 0

\* The number of bytes of an unsigned LEB128, and the bytes.
UlebSize(n) ==
    CASE n = Unknown     -> 10
      [] n \in 0..127     -> 1
      [] n \in 128..16383 -> 2
      [] OTHER            -> 3
Uleb(n) ==
    [k \in 1..UlebSize(n) |->
        LET low == (n \div (128 ^ (k - 1))) % 128 IN
        IF k < UlebSize(n) THEN low + 128 ELSE low]

CommonPrefix(a, b) ==
    CHOOSE n \in 0..Len(a) :
        /\ n <= Len(b)
        /\ \A k \in 1..n : a[k] = b[k]
        /\ (n < Len(a) /\ n < Len(b)) => a[n + 1] # b[n + 1]

(***************************************************************************)
(* The shape.  Names are added in order; path holds the nodes on the way   *)
(* to the last name.  A name that leaves the last edge in its middle       *)
(* splits it with a branch, which takes over the last child of its parent. *)
(***************************************************************************)
Node(symbol, representative, depth, children) ==
    [symbol |-> symbol, representative |-> representative, depth |-> depth,
     children |-> children]

SplitLastEdge(t, i, parent, prefix) ==
    LET branch == Len(t.nodes) + 1
        children == t.nodes[parent].children
    IN IF t.nodes[parent].depth < prefix
         THEN [nodes |-> Append([t.nodes EXCEPT ![parent].children =
                                    Append(Front(children), branch)],
                                Node(NoSymbol, i - 1, prefix, <<Last(children)>>)),
               path  |-> Append(t.path, branch)]
         ELSE t

AppendSymbol(t, i, name) ==
    LET parent == Last(t.path)
        child == Len(t.nodes) + 1
    IN IF t.nodes[parent].depth = Len(name)
         THEN [t EXCEPT !.nodes[parent].symbol = i]
         ELSE [nodes |-> Append([t.nodes EXCEPT ![parent].children = Append(@, child)],
                                Node(i, i, Len(name), <<>>)),
               path  |-> Append(t.path, child)]

AddName(names, t, i) ==
    LET previous == IF i = 1 THEN <<>> ELSE names[i - 1]
        prefix == CommonPrefix(previous, names[i])
        path == SelectSeq(t.path, LAMBDA n : t.nodes[n].depth <= prefix)
    IN AppendSymbol(SplitLastEdge([t EXCEPT !.path = path], i, Last(path), prefix),
                    i, names[i])

Topology(names) ==
    FoldLeft(LAMBDA t, i : AddName(names, t, i),
             [nodes |-> <<Node(NoSymbol, 1, 0, <<>>)>>, path |-> <<1>>],
             [i \in 1..Len(names) |-> i]).nodes

(***************************************************************************)
(* The nodes with their exports (flags and address) and labelled edges.    *)
(* symbols is in the order of names.                                       *)
(***************************************************************************)
BuildNodes(symbols, topology) ==
    [n \in 1..Len(topology) |->
        LET source == topology[n] IN
        [export |-> IF source.symbol = NoSymbol THEN <<>>
                    ELSE <<symbols[source.symbol].flags, symbols[source.symbol].address>>,
         edges  |-> [e \in 1..Len(source.children) |->
             LET child == topology[source.children[e]] IN
             [label |-> SubSeq(symbols[child.representative].name,
                               source.depth + 1, child.depth),
              child |-> source.children[e]]]]]

RegularExportSize(export) ==
    IF export = <<>> THEN 0 ELSE UlebSize(export[1]) + UlebSize(export[2])

NodeSize(node, offsetSize) ==
    LET terminal == RegularExportSize(node.export) IN
    UlebSize(terminal) + terminal + 1
    + FoldLeft(LAMBDA sum, e : sum + Len(e.label) + 1 + offsetSize[e.child],
               0, node.edges)

Offsets(nodes, offsetSize) ==
    FoldLeft(LAMBDA offsets, node :
                 Append(offsets, Last(offsets) + NodeSize(node, offsetSize)),
             <<0>>, nodes)

\* Every node has one parent, so the size of an edge's offset is kept with
\* its child.  The last offset is the size of the trie.
RECURSIVE LayoutUntilStable(_, _)
LayoutUntilStable(nodes, offsetSize) ==
    LET offsets == Offsets(nodes, offsetSize)
        sizes == [n \in DOMAIN nodes |-> UlebSize(offsets[n])]
    IN IF sizes = offsetSize THEN offsets ELSE LayoutUntilStable(nodes, sizes)

StableOffsets(nodes) == LayoutUntilStable(nodes, [n \in DOMAIN nodes |-> 1])

SizeWithTopology(symbols, topology) ==
    IF symbols = <<>> THEN 0 ELSE Last(StableOffsets(BuildNodes(symbols, topology)))

Encode(nodes, offsets) ==
    FlattenSeq([n \in 1..Len(nodes) |->
        Uleb(RegularExportSize(nodes[n].export))
        \o FlattenSeq([k \in 1..Len(nodes[n].export) |-> Uleb(nodes[n].export[k])])
        \o <<Len(nodes[n].edges)>>
        \o FlattenSeq([e \in 1..Len(nodes[n].edges) |->
               nodes[n].edges[e].label \o <<0>> \o Uleb(offsets[nodes[n].edges[e].child])])])

BuildWithTopology(symbols, topology) ==
    IF symbols = <<>> THEN <<>>
    ELSE LET nodes == BuildNodes(symbols, topology) IN
         Encode(nodes, StableOffsets(nodes))

(***************************************************************************)
(* What the dynamic loader reads: all names that can be spelled from the   *)
(* root, with their flags and addresses.  A reader of the format, not code *)
(* of the linker.                                                          *)
(***************************************************************************)
RECURSIVE ReadUleb(_, _)
ReadUleb(bytes, at) ==
    IF bytes[at] < 128 THEN [value |-> bytes[at], next |-> at + 1]
    ELSE LET rest == ReadUleb(bytes, at + 1) IN
         [value |-> bytes[at] - 128 + 128 * rest.value, next |-> rest.next]

RECURSIVE ReadNode(_, _, _), ReadEdges(_, _, _, _)
ReadNode(bytes, offset, prefix) ==
    LET terminal == ReadUleb(bytes, offset + 1)
        flags == ReadUleb(bytes, terminal.next)
        edges == terminal.next + terminal.value
    IN (IF terminal.value = 0 THEN {}
        ELSE {[name |-> prefix, flags |-> flags.value,
               address |-> ReadUleb(bytes, flags.next).value]})
       \cup ReadEdges(bytes, edges + 1, bytes[edges], prefix)
ReadEdges(bytes, at, count, prefix) ==
    IF count = 0 THEN {}
    ELSE LET end == CHOOSE e \in at..Len(bytes) :
                        bytes[e] = 0 /\ \A k \in at..(e - 1) : bytes[k] # 0
             child == ReadUleb(bytes, end + 1)
         IN ReadNode(bytes, child.value, prefix \o SubSeq(bytes, at, end - 1))
            \cup ReadEdges(bytes, child.next, count - 1, prefix)

ReadTrie(bytes) == IF bytes = <<>> THEN {} ELSE ReadNode(bytes, 0, <<>>)
=============================================================================
