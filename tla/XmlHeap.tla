------------------------------ MODULE XmlHeap ------------------------------
(* The nodes of an XMLDocument (tinyxml2.cpp, tinyxml2.h): their parent,    *)
(* child and sibling pointers, the attributes of elements, and the memory   *)
(* pools with the two counters their debug checks compare.                  *)
(*                                                                          *)
(* A document is a record d:                                                *)
(*   node[0]     the XMLDocument itself, node[1..N] the chunks of the       *)
(*               pools, kind "free" when a chunk is on a free list          *)
(*   cur, untr   CurrentAllocs() and Untracked() of the four pools          *)
(*   err         _errorID                                                   *)
(*   bom         _writeBOM: the byte-order mark is written                  *)
(*   collapse    _whitespace = COLLAPSE_WHITESPACE                          *)
(*   ok          no null pointer has been followed; the program ends there, *)
(*               and what it leaves of the document nobody reads            *)
(* Null pointers are Nil.  Attributes are a sequence of names and values    *)
(* in list order.                                                           *)
EXTENDS Integers, Sequences, FiniteSets

CONSTANT N      \* chunks the pools may hand out

Nil == -1

Ids == 1..N

Pools == {"element", "attribute", "text", "comment"}

\* XMLDeclaration and XMLUnknown share the comments' pool.
PoolOf(kind) ==
    CASE kind = "element" -> "element"
      [] kind \in {"text", "cdata"} -> "text"
      [] OTHER -> "comment"

Blank(kind, value) ==
    [kind |-> kind, value |-> value, attrs |-> <<>>, parent |-> Nil,
     first |-> Nil, last |-> Nil, prev |-> Nil, next |-> Nil]

NewDocument(collapse) ==
    [node |-> [i \in 0..N |-> Blank(IF i = 0 THEN "document" ELSE "free", <<>>)],
     cur |-> [k \in Pools |-> 0], untr |-> [k \in Pools |-> 0],
     err |-> "none", bom |-> FALSE, collapse |-> collapse, ok |-> TRUE]

FreeIds(d) == {i \in Ids : d.node[i].kind = "free"}

Live(d) == {i \in Ids : d.node[i].kind # "free"}

\* The chunk the next Alloc returns.
Fresh(d) == CHOOSE i \in FreeIds(d) : \A j \in FreeIds(d) : i <= j

SetError(d, e) == [d EXCEPT !.err = e]

SetTracked(d, pool) == [d EXCEPT !.untr[pool] = @ - 1]

\* new (pool.Alloc()) with the constructor of the kind: NewElement, NewText,
\* NewComment, NewDeclaration, NewUnknown, and Identify.
Alloc(d, kind, value) ==
    [d EXCEPT !.node[Fresh(d)] = Blank(kind, value),
              !.cur[PoolOf(kind)] = @ + 1, !.untr[PoolOf(kind)] = @ + 1]

Free(d, x) ==
    [d EXCEPT !.cur[PoolOf(d.node[x].kind)] = @ - 1,
              !.node[x] = Blank("free", <<>>)]

\* MemPoolT::Clear of all four pools: every chunk is given up.
ClearPools(d) ==
    [d EXCEPT !.node = [i \in 0..N |-> IF i = 0 THEN @[0] ELSE Blank("free", <<>>)],
              !.cur = [k \in Pools |-> 0], !.untr = [k \in Pools |-> 0]]

-----------------------------------------------------------------------------
(* The attribute list of an element.                                        *)

HasAttribute(d, x, name) ==
    \E i \in 1..Len(d.node[x].attrs) : d.node[x].attrs[i][1] = name

\* A new attribute is tracked when it is created, at the end of the list.
AddAttribute(d, x, name, value) ==
    SetTracked([d EXCEPT !.node[x].attrs = Append(@, <<name, value>>),
                         !.cur["attribute"] = @ + 1, !.untr["attribute"] = @ + 1],
               "attribute")

SetAttribute(d, x, name, value) ==
    IF HasAttribute(d, x, name)
    THEN [d EXCEPT !.node[x].attrs =
            [i \in DOMAIN @ |-> IF @[i][1] = name THEN <<name, value>> ELSE @[i]]]
    ELSE AddAttribute(d, x, name, value)

DeleteAttribute(d, x, name) ==
    [d EXCEPT !.node[x].attrs = SelectSeq(@, LAMBDA a : a[1] # name),
              !.cur["attribute"] = @ - 1]

\* The attributes of an element that goes away (~XMLElement).
DropAttributes(d, x) ==
    [d EXCEPT !.node[x].attrs = <<>>, !.cur["attribute"] = @ - Len(d.node[x].attrs)]

-----------------------------------------------------------------------------
(* Linking and unlinking.                                                   *)

\* Sets one pointer field of a node; a null node is left alone.
Point(d, x, field, to) ==
    IF x = Nil THEN d ELSE [d EXCEPT !.node[x][field] = to]

\* XMLNode::Unlink.  The child keeps its own sibling pointers.
Unlink(d, c) ==
    LET n == d.node
        p == n[c].parent
        u == [d EXCEPT !.node[p].first = IF @ = c THEN n[c].next ELSE @,
                       !.node[p].last = IF @ = c THEN n[c].prev ELSE @]
    IN  Point(Point(Point(u, n[c].prev, "next", n[c].next),
                    n[c].next, "prev", n[c].prev),
              c, "parent", Nil)

InsertChildPreamble(d, x) ==
    IF d.node[x].parent # Nil THEN Unlink(d, x)
    ELSE SetTracked(d, PoolOf(d.node[x].kind))

InsertEndChild(d, p, x) ==
    LET e == InsertChildPreamble(d, x)
        last == e.node[p].last
        linked == Point(Point(e, last, "next", x), x, "prev", last)
    IN  [linked EXCEPT !.node[p].last = x,
                       !.node[p].first = IF last = Nil THEN x ELSE @,
                       !.node[x].next = Nil, !.node[x].parent = p]

InsertFirstChild(d, p, x) ==
    LET e == InsertChildPreamble(d, x)
        first == e.node[p].first
        linked == Point(Point(e, first, "prev", x), x, "next", first)
    IN  [linked EXCEPT !.node[p].first = x,
                       !.node[p].last = IF first = Nil THEN x ELSE @,
                       !.node[x].prev = Nil, !.node[x].parent = p]

\* mutant: the follower's back pointer is not set to the new node
InsertAfterChildOneWay(d, p, after, x) ==
    IF d.node[after].next = Nil THEN InsertEndChild(d, p, x)
    ELSE LET e == InsertChildPreamble(d, x)
             nxt == e.node[after].next
         IN  IF nxt = Nil THEN [d EXCEPT !.ok = FALSE]
             ELSE [e EXCEPT !.node[x].prev = after, !.node[x].next = nxt,
                            !.node[after].next = x, !.node[x].parent = p]

\* mutant: whether after is the last child is looked at when x is unlinked, but x
\* then goes to the front
InsertAfterChildFront(d, p, after, x) ==
    IF InsertChildPreamble(d, x).node[after].next = Nil THEN InsertEndChild(d, p, x)
    ELSE InsertFirstChild(d, p, x)

\* The follower of after is looked at before x is unlinked, and used afterwards:
\* when it was x itself, the last child, there is none any more.
InsertAfterChild(d, p, after, x) ==
    IF d.node[after].next = Nil THEN InsertEndChild(d, p, x)
    ELSE LET e == InsertChildPreamble(d, x)
             nxt == e.node[after].next
         IN  IF nxt = Nil THEN [d EXCEPT !.ok = FALSE]
             ELSE [e EXCEPT !.node[x].prev = after, !.node[x].next = nxt,
                            !.node[nxt].prev = x,
                            !.node[after].next = x, !.node[x].parent = p]

RECURSIVE DeleteChildren(_, _), DeleteNode(_, _)

DeleteChildren(d, p) ==
    IF d.node[p].first = Nil THEN [d EXCEPT !.node[p].last = Nil]
    ELSE LET x == d.node[p].first IN DeleteChildren(DeleteNode(Unlink(d, x), x), p)

\* XMLNode::DeleteNode: the destructors of the node, then its chunk.
DeleteNode(d, x) ==
    LET e == DeleteChildren(DropAttributes(d, x), x)
    IN  Free(IF e.node[x].parent # Nil THEN Unlink(e, x) ELSE e, x)

\* XMLDocument::DeleteNode: a node that was never inserted is tracked first.
DocumentDeleteNode(d, x) ==
    DeleteNode(IF d.node[x].parent # Nil THEN d
               ELSE SetTracked(d, PoolOf(d.node[x].kind)), x)

\* XMLDocument::Clear.
Clear(d) == SetError(DeleteChildren(d, 0), "none")

\* ShallowClone: a node of the same kind, value and attributes.
RECURSIVE CopyAttributes(_, _, _)
CopyAttributes(d, x, as) ==
    IF as = <<>> THEN d
    ELSE CopyAttributes(SetAttribute(d, x, as[1][1], as[1][2]), x, Tail(as))

ShallowClone(d, x) ==
    CopyAttributes(Alloc(d, d.node[x].kind, d.node[x].value), Fresh(d), d.node[x].attrs)

\* SetText: the first child takes the text if it is a text node.
SetText(d, x, text) ==
    LET f == d.node[x].first
    IN  IF f # Nil /\ d.node[f].kind \in {"text", "cdata"}
        THEN [d EXCEPT !.node[f].value = text]
        ELSE InsertFirstChild(Alloc(d, "text", text), x, Fresh(d))

-----------------------------------------------------------------------------
(* Walking the tree.                                                        *)

RECURSIVE Walk(_, _, _)
Walk(d, x, field) ==
    IF x = Nil THEN <<>> ELSE <<x>> \o Walk(d, d.node[x][field], field)

Children(d, p) == Walk(d, d.node[p].first, "next")

IsElement(d, x) == d.node[x].kind = "element"

\* What the nodes below p say: kinds, values, attributes, in document order.
RECURSIVE Tree(_, _)
Tree(d, p) ==
    [i \in 1..Len(Children(d, p)) |->
        LET x == Children(d, p)[i]
        IN  <<d.node[x].kind, d.node[x].value, d.node[x].attrs, Tree(d, x)>>]

RECURSIVE Under(_, _)
\* x and the nodes below it.
Under(d, x) == {x} \cup UNION {Under(d, c) : c \in {i \in Ids : d.node[i].parent = x}}
=============================================================================
