------------------------------ MODULE TinyXml ------------------------------
(* An application that works on one XMLDocument of tinyxml2: it types a     *)
(* text, parses or loads it, builds and moves nodes through the API, edits  *)
(* attributes and text, and saves the document.                             *)
(*                                                                          *)
(* text       the characters of the buffer or file, as tokens               *)
(* pieces     pieces typed so far                                           *)
(* doc        the document (XmlHeap)                                        *)
(* calls      calls of the API so far                                       *)
(* badLoad    a LoadFile failed since the pools were last emptied           *)
EXTENDS XmlText, SequencesExt, FiniteSetsExt

CONSTANTS Pieces,    \* what the typed texts are put together from
          MaxPieces, \* pieces typed
          EditTexts, \* the typed texts whose documents are edited
          MaxCalls   \* calls of the API

VARIABLES text, pieces, doc, calls, badLoad

vars == <<text, pieces, doc, calls, badLoad>>

\* Values of text nodes the application creates.
TextValues == {<<"c">>, <<"a", "lt">>}

Kinds == {"element", "text", "comment", "declaration"}

Init ==
    /\ text = <<>>
    /\ pieces = 0
    /\ doc \in {NewDocument(c) : c \in BOOLEAN}
    /\ calls = 0
    /\ badLoad = FALSE

-----------------------------------------------------------------------------
(* The text.                                                                *)

\* A leaf that is not terminated is the last thing typed.
Terminated(s) == Len(s) > 0 => \A k \in DOMAIN Unclosed : Last(s) # Unclosed[k]

\* The application writes a text.  Bound: MaxPieces pieces, or one of EditTexts.
Type(piece) ==
    /\ calls = 0
    /\ Terminated(text)
    /\ pieces < MaxPieces
    /\ pieces' = IF piece \in EditTexts THEN MaxPieces ELSE pieces + 1
    /\ text' = text \o piece
    /\ UNCHANGED <<doc, calls, badLoad>>

\* A call of the API; the documents of the other typed texts are not edited.
Call(d) ==
    /\ doc.ok
    /\ calls < MaxCalls
    /\ calls > 0 \/ text \in EditTexts \cup {<<>>}
    /\ calls' = calls + 1
    /\ doc' = d
    /\ pieces' = MaxPieces

\* Detached nodes: created and not inserted, for the application to use.
Held(d) == {x \in Live(d) : d.node[x].parent = Nil}

\* The text fits the model's chunks: every tag starts at most one node and
\* ends at most one text.
RoomFor(d, s) ==
    Cardinality(UNION {Under(d, x) : x \in Held(d)})
        + 2 * Cardinality({i \in DOMAIN s : s[i] \in Tags \ {"</"}}) < N

ParseText ==
    /\ RoomFor(doc, text)
    /\ Call(Parse(doc, text))
    /\ badLoad' = (badLoad /\ (doc'.err = "none" \/ text = <<>>))
    /\ UNCHANGED text

LoadText ==
    /\ RoomFor(doc, text)
    /\ Call(LoadFile(doc, text))
    /\ badLoad' = (badLoad \/ doc'.err # "none")
    /\ UNCHANGED text

\* SaveFile clears the error and writes the text.
SaveText(compact) ==
    /\ Call(SetError(doc, "none"))
    /\ text' = PrintDocument(doc, compact)
    /\ UNCHANGED badLoad

-----------------------------------------------------------------------------
(* Nodes.                                                                   *)

Edit(d) == Call(d) /\ UNCHANGED <<text, badLoad>>

NewNode(kind) ==
    /\ FreeIds(doc) # {}
    /\ Cardinality(Held(doc)) < 2
    /\ Edit(Alloc(doc, kind, IF kind = "element" THEN <<"b">> ELSE <<"c">>))

\* Only documents and elements have children, and no node goes below itself.
MayHold(d, p, x) ==
    /\ p = 0 \/ d.node[p].kind = "element"
    /\ p \notin Under(d, x)

InsertEnd(p, x) == MayHold(doc, p, x) /\ Edit(InsertEndChild(doc, p, x))

InsertFirst(p, x) == MayHold(doc, p, x) /\ Edit(InsertFirstChild(doc, p, x))

\* The caller does not put a node behind itself: the code would take it out of
\* the list and link it to itself.
InsertAfter(a, x) ==
    /\ doc.node[a].parent # Nil
    /\ MayHold(doc, doc.node[a].parent, x)
    /\ x # a
    /\ Edit(InsertAfterChild(doc, doc.node[a].parent, a, x))

Delete(x) == Edit(DocumentDeleteNode(doc, x))

DeleteBelow(p) ==
    /\ doc.node[p].first # Nil
    /\ Edit(DeleteChildren(doc, p))

ClearDocument == Edit(Clear(doc))

SetBOM(b) == Edit([doc EXCEPT !.bom = b])

Clone(x) ==
    /\ FreeIds(doc) # {}
    /\ Cardinality(Held(doc)) < 2
    /\ Edit(ShallowClone(doc, x))

PutText(x, v) ==
    /\ doc.node[x].kind = "element"
    /\ FreeIds(doc) # {}
    /\ LET f == doc.node[x].first
       IN  f # Nil /\ doc.node[f].kind = "cdata" => v = <<"c">>
    /\ Edit(SetText(doc, x, v))

PutAttribute(x, name) ==
    /\ doc.node[x].kind = "element"
    /\ Edit(SetAttribute(doc, x, name, <<"v">>))

RemoveAttribute(x, name) ==
    /\ HasAttribute(doc, x, name)
    /\ Edit(DeleteAttribute(doc, x, name))

Next ==
    \/ \E p \in Pieces : Type(p)
    \/ \E p \in EditTexts : text = <<>> /\ Type(p)
    \/ ParseText
    \/ LoadText
    \/ \E c \in BOOLEAN : SaveText(c)
    \/ \E k \in Kinds : NewNode(k)
    \/ \E x \in Live(doc), p \in Live(doc) \cup {0} : InsertEnd(p, x)
    \/ \E x \in Live(doc), p \in Live(doc) \cup {0} : InsertFirst(p, x)
    \/ \E x, a \in Live(doc) : InsertAfter(a, x)
    \/ \E x \in Live(doc) : Delete(x)
    \/ \E p \in Live(doc) \cup {0} : DeleteBelow(p)
    \/ ClearDocument
    \/ \E b \in BOOLEAN : SetBOM(b)
    \/ \E x \in Live(doc) : Clone(x)
    \/ \E x \in Live(doc), v \in TextValues : PutText(x, v)
    \/ \E x \in Live(doc) : PutAttribute(x, <<"a">>)
    \/ \E x \in Live(doc) : RemoveAttribute(x, <<"a">>)

Spec == Init /\ [][Next]_vars

-----------------------------------------------------------------------------
(* Properties.                                                              *)

\* A walk of at most N steps along a pointer.
RECURSIVE BoundedWalk(_, _, _, _)
BoundedWalk(d, x, field, n) ==
    IF x = Nil \/ n = 0 THEN <<>>
    ELSE <<x>> \o BoundedWalk(d, d.node[x][field], field, n - 1)

Siblings(d, p) == BoundedWalk(d, d.node[p].first, "next", N + 1)

\* The pointers of the document are one tree: the children of a node are the
\* same read from the first and from the last, name it as their parent, and
\* every node handed out is below the document or below exactly one detached
\* node (InsertEndChild, InsertFirstChild, InsertAfterChild, Unlink, DeleteNode).
TreeSound ==
    /\ \A p \in Live(doc) \cup {0} :
          LET kids == Siblings(doc, p)
          IN  /\ kids = Reverse(BoundedWalk(doc, doc.node[p].last, "prev", N + 1))
              /\ IsInjective(kids)
              /\ ToSet(kids) = {x \in Live(doc) : doc.node[x].parent = p}
    /\ \A x \in Live(doc) :
          \E r \in Held(doc) \cup {0} : x \in Under(doc, r)

\* InsertAfterChild puts the node behind the child it was given, wherever it was
\* before: "If the child node is already part of the document, it is moved from
\* its old location to the new location" (tinyxml2.h), and the other children keep
\* their order.  The one call that ends the program instead, through a null pointer,
\* is to move the last child behind the child it already follows (tinyxml2.cpp:859).
Landed(p, a, x) ==
    LET kids == SelectSeq(Siblings(doc, p), LAMBDA y : y # x)
    IN  \E i \in DOMAIN kids : kids[i] = a /\ Siblings(doc', p) = InsertAt(kids, i + 1, x)
MovesLand ==
    [][\A a, x \in Live(doc) : InsertAfter(a, x) =>
         IF doc.node[a].next = x /\ doc.node[x].next = Nil THEN ~ doc'.ok
         ELSE doc'.ok /\ Landed(doc.node[a].parent, a, x)]_vars

\* What the debug build asserts in Clear: a pool's untracked chunks are the
\* nodes the application holds and has never inserted.  A failed LoadFile
\* leaves the count wrong, since only Parse empties the pools.
PoolsTracked ==
    ~badLoad =>
        /\ \A k \in Pools \ {"attribute"} :
              /\ doc.untr[k] = Cardinality({x \in Held(doc) : PoolOf(doc.node[x].kind) = k})
              /\ doc.cur[k] = Cardinality({x \in Live(doc) : PoolOf(doc.node[x].kind) = k})
        /\ doc.untr["attribute"] = 0
        /\ doc.cur["attribute"] =
              MapThenSumSet(LAMBDA x : Len(doc.node[x].attrs), Live(doc))

IsText(d, x) == d.node[x].kind = "text"

\* What a file can hold: something, no text outside of elements, no two texts
\* side by side, declarations nowhere but in the first child.
Storable(d) ==
    LET top == Siblings(d, 0)
    IN  /\ top # <<>>
        /\ \A x \in ToSet(top) : ~IsText(d, x)
        /\ \A x \in Live(d) :
              d.node[x].next # Nil => ~(IsText(d, x) /\ IsText(d, d.node[x].next))
        /\ \A i \in 2..Len(top) : \A x \in Under(d, top[i]) :
              d.node[x].kind # "declaration"

SameTree(d, e) == e.err = "none" /\ e.bom = d.bom /\ Tree(e, 0) = Tree(d, 0)

\* Printing the document and parsing the result gives the same document.
Reprints(d, compact) ==
    SameTree(d, ParseBuffer(NewDocument(d.collapse), PrintDocument(d, compact)))

\* A text with an element right behind it: the printer indents the element
\* and the blanks become part of the text, unless they are collapsed.
Mixed(d) ==
    \E x \in Live(d) :
        IsText(d, x) /\ d.node[x].next # Nil /\ IsElement(d, d.node[x].next)

\* The document at hand: before the first call, the one the text parses to.
Current == IF calls = 0 THEN ParseBuffer(doc, text) ELSE doc

Survives(d) ==
    (calls > 0 \/ d.err = "none") /\ Storable(d) =>
        \A compact \in BOOLEAN :
            compact \/ d.collapse \/ ~Mixed(d) => Reprints(d, compact)

Chars == INSTANCE XmlChars

\* Bytes of text: markup, quotes, the parts of references, a line feed, and a
\* byte of a longer character.
Samples == UNION {[1..n -> {10, 34, 38, 60, 62, 97, 195}] : n \in 0..4}
References == UNION {[1..n -> {Chars!Hash, Chars!LetterX, Chars!Semicolon, 49, 108, 116}] : n \in 0..5}
\* Code points on both sides of each length, and their numerals.
Points == {u + i : u \in {1, 127, 2047, 65535, 1114110}, i \in {0, 1}}

RECURSIVE Spell(_, _)
Spell(u, base) ==
    (IF u < base THEN <<>> ELSE Spell(u \div base, base))
        \o <<(u % base) + (IF u % base < 10 THEN 48 ELSE 87)>>

Reference(u, base) ==
    <<38, Chars!Hash>> \o (IF base = 16 THEN <<Chars!LetterX>> ELSE <<>>)
        \o Spell(u, base) \o <<Chars!Semicolon>>

\* What UTF-8 means: the bits of the first byte below its mark, then six more
\* of each byte.
CodePoint(b) ==
    LET n == Len(b)
        mask == <<128, 32, 16, 8>>
    IN  FoldLeft(LAMBDA u, c : (u * 64) + (c % 64), b[1] % mask[n], Tail(b))

\* A printed string has no byte that would end the text or the value it stands
\* in, and comes back as it was; a reference to a code point gives its UTF-8
\* form; in-place decoding never writes over what it has still to read.
CharactersReturn ==
    /\ \A s \in Samples, restricted \in BOOLEAN :
          LET P == Chars!PrintString(s, restricted)
          IN  /\ (IF restricted THEN 60 ELSE 34) \notin ToSet(P)
              /\ Chars!GetStr(P, TRUE) = [out |-> s, overrun |-> FALSE]
    /\ \A u \in Points, base \in {10, 16} :
          LET P == Chars!GetStr(Reference(u, base), TRUE)
          IN  ~P.overrun /\ CodePoint(P.out) = u
    /\ \A t \in References : ~Chars!GetStr(<<97, 38>> \o t, TRUE).overrun

\* What was read from any text the parser accepts, and any document built with
\* the API that a file can hold, survives SaveFile and LoadFile, compact or
\* not, byte-order mark included (XMLPrinter, ParseDeep, ReadBOM), and so do
\* their characters (PrintString, GetStr, GetCharacterRef); mixed content is kept
\* when it is printed compactly or when white space is collapsed.
SavedIsLoaded == CharactersReturn /\ Survives(Current)

=============================================================================
