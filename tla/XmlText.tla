------------------------------ MODULE XmlText ------------------------------
(* The parser and the printer of tinyxml2.cpp over texts that are sequences *)
(* of tokens.  A token stands for the characters it shows; a comment, CDATA *)
(* section, declaration or unknown tag is one token, and the token of its   *)
(* header alone stands for one that is never terminated.  "WS" is blanks,   *)
(* "NL" a line feed, "CR" a carriage return, "BOM" the byte-order mark.     *)
EXTENDS XmlHeap

\* The characters of names (all bytes above 127 are), and white space.
NameTokens == {"a", "b", "k", "BOM"}
Blanks == {"WS", "NL", "CR"}

\* Leaves of one token: kind and text.
Closed == [comment |-> "<!--c-->", cdata |-> "<![CDATA[c]]>",
           declaration |-> "<?c?>", unknown |-> "<!c>"]
Unclosed == [comment |-> "<!--", cdata |-> "<![CDATA[",
             declaration |-> "<?", unknown |-> "<!"]

Tags == {"<", "</"} \cup {Closed[k] : k \in DOMAIN Closed}
                    \cup {Unclosed[k] : k \in DOMAIN Unclosed}

AtEnd(s, p) == p > Len(s)

RECURSIVE SkipWhiteSpace(_, _)
SkipWhiteSpace(s, p) ==
    IF AtEnd(s, p) \/ s[p] \notin Blanks THEN p ELSE SkipWhiteSpace(s, p + 1)

RECURSIVE SkipName(_, _)
SkipName(s, p) ==
    IF AtEnd(s, p) \/ s[p] \notin NameTokens THEN p ELSE SkipName(s, p + 1)

RECURSIVE FindTag(_, _)
\* The next "<" at or after p, or past the end.
FindTag(s, p) == IF AtEnd(s, p) \/ s[p] \in Tags THEN p ELSE FindTag(s, p + 1)

-----------------------------------------------------------------------------
(* StrPair::GetStr: entities, line ends, and the collapse of white space.   *)

RECURSIVE Unescape(_)
Unescape(v) ==
    IF v = <<>> THEN <<>>
    ELSE LET pair == Len(v) > 1 /\ {v[1], v[2]} = {"CR", "NL"}
         IN  CASE v[1] \in {"CR", "NL"} ->
                    <<"NL">> \o Unescape(SubSeq(v, IF pair THEN 3 ELSE 2, Len(v)))
               [] v[1] = "&lt;" -> <<"lt">> \o Unescape(Tail(v))
               [] v[1] \in {"&gt;", ">"} -> <<"gt">> \o Unescape(Tail(v))
               [] v[1] = "/>" -> <<"/", "gt">> \o Unescape(Tail(v))
               [] OTHER -> <<v[1]>> \o Unescape(Tail(v))

RECURSIVE Squeeze(_)
\* The loop of CollapseWhitespace: runs of white space become one blank, at
\* the end nothing.
Squeeze(v) ==
    IF v = <<>> THEN <<>>
    ELSE LET q == SkipWhiteSpace(v, 1)
         IN  IF q = 1 THEN <<v[1]>> \o Squeeze(Tail(v))
             ELSE IF AtEnd(v, q) THEN <<>>
             ELSE <<"WS", v[q]>> \o Squeeze(SubSeq(v, q + 1, Len(v)))

CollapseWhitespace(v) == Squeeze(SubSeq(v, SkipWhiteSpace(v, 1), Len(v)))

GetStr(d, v) == IF d.collapse THEN CollapseWhitespace(Unescape(v)) ELSE Unescape(v)

-----------------------------------------------------------------------------
(* Parsing.  A parser returns the document, the position after what it read *)
(* (Nil where the code returns a null pointer), the end tag it hands to its *)
(* caller and, for elements, the closing type.                              *)

Result(d, p, end, closing) == [d |-> d, p |-> p, end |-> end, closing |-> closing]

Fail(d, e) == Result(SetError(d, e), Nil, <<>>, "open")

LeafError == [comment |-> "PARSING_COMMENT", cdata |-> "PARSING_CDATA",
              declaration |-> "PARSING_DECLARATION", unknown |-> "PARSING_UNKNOWN"]

\* XMLText, XMLComment, XMLDeclaration and XMLUnknown::ParseDeep; the node is
\* x, its first token is at p.
ParseLeaf(d, s, p, x) ==
    LET kind == d.node[x].kind
        q == FindTag(s, p)
    IN  IF kind = "text"
        THEN CASE AtEnd(s, q) -> Fail(d, "PARSING_TEXT")
               [] q = Len(s) /\ s[q] = "<" -> Result(d, Nil, <<>>, "open")
               [] OTHER -> Result([d EXCEPT !.node[x].value = GetStr(d, SubSeq(s, p, q - 1))],
                                  q, <<>>, "open")
        ELSE IF s[p] = Closed[kind]
        THEN Result([d EXCEPT !.node[x].value = <<"c">>], p + 1, <<>>, "open")
        ELSE Fail(d, LeafError[kind])

\* XMLAttribute::ParseDeep: <<name, position>>, Nil for no attribute.
ParseAttribute(s, p) ==
    LET n == SkipName(s, p)
        e == SkipWhiteSpace(s, n)
        v == SkipWhiteSpace(s, e + 1)
    IN  IF ~AtEnd(s, n) /\ ~AtEnd(s, e) /\ s[e] = "=" /\ ~AtEnd(s, v) /\ s[v] = "'v'"
        THEN <<SubSeq(s, p, n - 1), v + 1>>
        ELSE <<<<>>, Nil>>

RECURSIVE ParseAttributes(_, _, _, _, _)
ParseAttributes(d, s, p0, x, closing) ==
    LET p == SkipWhiteSpace(s, p0)
    IN  CASE AtEnd(s, p) -> Fail(d, "PARSING_ELEMENT")
          [] ~AtEnd(s, p) /\ s[p] \in NameTokens ->
                LET a == ParseAttribute(s, p)
                IN  IF a[2] = Nil \/ HasAttribute(d, x, a[1])
                    THEN Fail(d, "PARSING_ATTRIBUTE")
                    ELSE ParseAttributes(AddAttribute(d, x, a[1], <<"v">>), s, a[2], x, closing)
          [] ~AtEnd(s, p) /\ s[p] = ">" -> Result(d, p + 1, <<>>, closing)
          [] ~AtEnd(s, p) /\ s[p] = "/>" -> Result(d, p + 1, <<>>, "closed")
          [] OTHER -> Fail(d, "PARSING_ELEMENT")

\* Identify: the kind of the node that starts at token q.
Identify(s, q) ==
    CASE s[q] \in {"<", "</"} -> "element"
      [] \E k \in DOMAIN Closed : s[q] \in {Closed[k], Unclosed[k]} ->
            CHOOSE k \in DOMAIN Closed : s[q] \in {Closed[k], Unclosed[k]}
      [] OTHER -> "text"

RECURSIVE ParseDeep(_, _, _, _)

\* The children follow a start tag whose attributes gave r.
ParseContent(r, s, x) ==
    IF r.p = Nil \/ AtEnd(s, r.p) \/ r.closing # "open" THEN r ELSE ParseDeep(r.d, s, r.p, x)

\* The name between n and q, and the attributes behind it.
ParseTag(d, s, n, q, x, closing) ==
    IF q = n THEN Result(d, Nil, <<>>, closing)
    ELSE ParseContent(ParseAttributes([d EXCEPT !.node[x].value = SubSeq(s, n, q - 1)],
                                      s, q, x, closing), s, x)

ParseName(d, s, n, x, closing) == ParseTag(d, s, n, SkipName(s, n), x, closing)

\* XMLElement::ParseDeep, behind the "<" or "</" at p.
ParseElement(d, s, p, x) ==
    IF s[p] = "</" THEN ParseName(d, s, p + 1, x, "closing")
    ELSE ParseName(d, s, SkipWhiteSpace(s, p + 1), x, "open")

\* mutant: the end tag's node is deleted without being tracked
CloseTagUntracked(r, x) == Result(DeleteNode(r.d, x), r.p, r.d.node[x].value, "open")

\* An end tag's node gives its name to the caller and is gone.
CloseTag(r, x) ==
    Result(DeleteNode(SetTracked(r.d, "element"), x), r.p, r.d.node[x].value, "open")

\* The errors an end tag can make at the level of its element.
Mismatch(r, x) ==
    \/ r.end = <<>> /\ r.closing = "open"
    \/ r.end # <<>> /\ r.closing # "open"
    \/ r.end # <<>> /\ r.end # r.d.node[x].value

\* A node that cannot stay; the document keeps the error.
Drop(r, x, e) == Result(DeleteNode(SetError(r.d, e), x), Nil, <<>>, "open")

\* What the parser of the new node x left: x is dropped, is an end tag, or
\* becomes a child of x0 and the next node is read.
ParsedNode(r, s, kind, x, x0) ==
    CASE r.p = Nil -> Drop(r, x, IF r.d.err = "none" THEN "PARSING" ELSE r.d.err)
      [] r.p # Nil /\ kind = "declaration" /\ r.d.node[0].first # Nil ->
            Drop(r, x, "PARSING_DECLARATION")
      [] r.p # Nil /\ kind = "element" /\ r.closing = "closing" -> CloseTag(r, x)
      [] r.p # Nil /\ kind = "element" /\ r.closing # "closing" /\ Mismatch(r, x) ->
            Drop(r, x, "MISMATCHED_ELEMENT")
      [] OTHER -> ParseDeep(InsertEndChild(r.d, x0, x), s, r.p, x0)

\* The new node x of d, which starts at q behind the blanks at p.
ParseNode(d, s, p, q, kind, x, x0) ==
    ParsedNode(IF kind = "element" THEN ParseElement(d, s, q, x)
               ELSE ParseLeaf(d, s, IF kind = "text" THEN p ELSE q, x), s, kind, x, x0)

ParseKind(d, s, p, q, kind, x0) ==
    ParseNode(Alloc(d, kind, <<>>), s, p, q, kind, Fresh(d), x0)

ParseAt(d, s, p, q, x0) ==
    IF AtEnd(s, p) \/ AtEnd(s, q) THEN Result(d, Nil, <<>>, "open")
    ELSE ParseKind(d, s, p, q, Identify(s, q), x0)

\* XMLNode::ParseDeep: the nodes behind p become children of x0.
ParseDeep(d, s, p, x0) == ParseAt(d, s, p, SkipWhiteSpace(s, p), x0)

\* ReadBOM: the mark at p is skipped, and the document will write one again.
HasMark(s, p) == ~AtEnd(s, p) /\ s[p] = "BOM"

ReadBOM(d, s, p) == [d EXCEPT !.bom = HasMark(s, p)]

SkipMark(s, p) == IF HasMark(s, p) THEN p + 1 ELSE p

\* What is behind the mark.
ParseMarked(d, s, p) == IF AtEnd(s, p) THEN SetError(d, "EMPTY_DOCUMENT") ELSE ParseDeep(d, s, p, 0).d

\* XMLDocument::Parse(): the text of _charBuffer, behind its first blanks.
ParseFrom(d, s, p) == ParseMarked(ReadBOM(d, s, p), s, SkipMark(s, p))

ParseBuffer(d, s) == ParseFrom(d, s, SkipWhiteSpace(s, 1))

\* After an error the pools are emptied.
PoolsAfter(d) == IF d.err = "none" THEN d ELSE ClearPools(DeleteChildren(d, 0))

\* XMLDocument::Parse(p, len).
Parse(d, s) ==
    IF s = <<>> THEN SetError(Clear(d), "EMPTY_DOCUMENT") ELSE PoolsAfter(ParseBuffer(Clear(d), s))

\* XMLDocument::LoadFile: the same text, but what a failed parse built stays.
LoadFile(d, s) ==
    IF s = <<>> THEN SetError(Clear(d), "EMPTY_DOCUMENT") ELSE ParseBuffer(Clear(d), s)

-----------------------------------------------------------------------------
(* Printing: XMLPrinter's state is a record.                                *)

Printer(compact) ==
    [out |-> <<>>, just |-> FALSE, first |-> TRUE, depth |-> 0, textDepth |-> -1,
     compact |-> compact]

Put(w, toks) == [w EXCEPT !.out = @ \o toks]

PrintSpace(w) == Put(w, [i \in 1..w.depth |-> "WS"])

SealElementIfJustOpened(w) == IF w.just THEN Put([w EXCEPT !.just = FALSE], <<">">>) ELSE w

\* mutant: tags start a line in the middle of text too
BreaksAlways(w) == ~w.first /\ ~w.compact

\* A tag starts a line unless it is the first or text surrounds it.
Breaks(w) == w.textDepth < 0 /\ ~w.first /\ ~w.compact

OpenElement(w0, name) ==
    LET w == SealElementIfJustOpened(w0)
        l == IF Breaks(w) THEN Put(w, <<"NL">>) ELSE w
        i == IF l.compact THEN l ELSE PrintSpace(l)
    IN  [Put(i, <<"<">> \o name) EXCEPT !.just = TRUE, !.first = FALSE, !.depth = @ + 1]

RECURSIVE PushAttributes(_, _)
PushAttributes(w, as) ==
    IF as = <<>> THEN w
    ELSE PushAttributes(Put(w, <<"WS">> \o as[1][1] \o <<"=", "'v'">>), Tail(as))

CloseElement(w0, name) ==
    LET w == [w0 EXCEPT !.depth = @ - 1]
        e == IF w.just THEN Put(w, <<"/>">>)
             ELSE Put(IF w.textDepth < 0 /\ ~w.compact THEN PrintSpace(Put(w, <<"NL">>)) ELSE w,
                      <<"</">> \o name \o <<">">>)
        f == [e EXCEPT !.textDepth = IF @ = w.depth THEN -1 ELSE @, !.just = FALSE]
    IN  IF f.depth = 0 /\ ~f.compact THEN Put(f, <<"NL">>) ELSE f

\* PrintString with the restricted entities.
PrintString(v) ==
    [i \in DOMAIN v |-> CASE v[i] = "lt" -> "&lt;" [] v[i] = "gt" -> "&gt;" [] OTHER -> v[i]]

PushText(w, kind, v) ==
    Put(SealElementIfJustOpened([w EXCEPT !.textDepth = w.depth - 1]),
        IF kind = "cdata" THEN <<Closed["cdata"]>> ELSE PrintString(v))

\* PushComment, PushDeclaration, PushUnknown.
PushTag(w0, kind) ==
    LET w == SealElementIfJustOpened(w0)
        l == IF Breaks(w) THEN PrintSpace(Put(w, <<"NL">>)) ELSE w
    IN  Put([l EXCEPT !.first = FALSE], <<Closed[kind]>>)

RECURSIVE Accept(_, _, _)
\* Accept with the printer as visitor, over a list of siblings.
Accept(d, w, xs) ==
    IF xs = <<>> THEN w
    ELSE LET n == d.node[xs[1]]
             one == CASE n.kind = "element" ->
                            CloseElement(Accept(d, PushAttributes(OpenElement(w, n.value), n.attrs),
                                                Children(d, xs[1])), n.value)
                      [] n.kind \in {"text", "cdata"} -> PushText(w, n.kind, n.value)
                      [] OTHER -> PushTag(w, n.kind)
         IN  Accept(d, one, Tail(xs))

\* VisitEnter of the document, with PushHeader.
PushHeader(d, w) == IF d.bom THEN Put(w, <<"BOM">>) ELSE w

\* XMLDocument::Print.
PrintDocument(d, compact) == Accept(d, PushHeader(d, Printer(compact)), Children(d, 0)).out
=============================================================================
