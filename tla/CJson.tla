------------------------------- MODULE CJson -------------------------------
(***************************************************************************)
(* cJSON (src/components/cJSON): items linked into lists of children, the  *)
(* calls that build and take apart these lists, the parser that builds     *)
(* them from text and the printers that measure and write the text.        *)
(*                                                                         *)
(* A routine is an operator from a heap H to a heap: H.it are the items,   *)
(* H.used the allocated blocks (items and strings), H.ret the item that is *)
(* returned (0 is NULL), H.pos the place in the text a parse routine       *)
(* returns (0 is NULL).  An allocation fails when Mem blocks are in use.   *)
(* Text is a sequence of tokens: punctuation, "ws" for white space, a      *)
(* literal or number, or a string, named by its content.                   *)
(***************************************************************************)
EXTENDS Integers, Sequences, SequencesExt, FiniteSets, JsonText

CONSTANTS NItems,   \* items are 1..NItems
          Mem,      \* blocks the allocator has
          Keys,     \* names of members
          Strs,     \* contents of strings
          Numbers,  \* the numbers that are stored: "zero", "int" or "flt"
          Texts,    \* what is parsed
          Content,  \* the bytes of the names and strings
          Spelling, \* other spellings of strings, as sequences of bytes
          MaxBytes, \* strings that are tried one by one are at most this long
          MaxCalls, \* bound on the calls
          Prebuffers \* sizes of cJSON_PrintBuffered's first buffer

ASSUME SizesAssumption == NItems \in Nat \ {0} /\ Mem \in Nat \ {0} /\ Prebuffers \subseteq Nat \ {0}
ASSUME ContentAssumption == /\ DOMAIN Content = Keys \cup Strs
                            /\ \A v, w \in Keys \cup Strs : v # w => Content[v] # Content[w]

Items == 1..NItems
Literals == {"null", "true", "false"}
Containers == {"arr", "obj"}
Words == Keys \cup Strs
\* The strings as they are written, and what their texts stand for.
Printed == [w \in Words |-> print_string_ptr(Content[w])]
Spelled == [w \in Words \cup DOMAIN Spelling |-> IF w \in Words THEN Printed[w].text ELSE Spelling[w]]
WordOf(b) == IF \E w \in Words : Content[w] = b THEN CHOOSE w \in Words : Content[w] = b ELSE "unknown"
Read == [t \in DOMAIN Spelled |-> WordOf(parse_string(Spelled[t], 1).out)]

\* "flt" is a number that sprintf rounds, "rnd" the number its text stands for:
\* 0, -120 and 3.333333e-08, with their values.
Digit(n) == 48 + n
NumberTexts == [zero |-> << Digit(0) >>, int |-> << 45, Digit(1), Digit(2), Digit(0) >>,
                flt |-> << Digit(3), 46, Digit(3), Digit(3), Digit(3), Digit(3), Digit(3), Digit(3), 101, 45, Digit(0), Digit(8) >>]
NumberValues == [zero |-> [neg |-> FALSE, n |-> 0, exp |-> 0], int |-> [neg |-> TRUE, n |-> 120, exp |-> 0],
                 rnd |-> [neg |-> FALSE, n |-> 3333333, exp |-> -14]]
NumberTypes == DOMAIN NumberTexts \cup DOMAIN NumberValues
NumberAs(P, end) ==
    LET same == {t \in DOMAIN NumberValues : NumberValues[t] = [neg |-> P.neg, n |-> P.n, exp |-> P.exp]}
    IN  IF same = {} \/ P.end # end THEN "unknown" ELSE CHOOSE t \in same : TRUE
NumberOf(s) == NumberAs(parse_number(s, 1), Len(s) + 1)
\* print_number writes a rounded number as it was read.
ReadNumber == [t \in NumberTypes |-> NumberOf(NumberTexts[IF t = "rnd" THEN "flt" ELSE t])]

VARIABLES h,      \* the heap
          calls,  \* calls so far, at most MaxCalls
          roots   \* the items the application holds, not children of any item
vars == << h, calls, roots >>
-----------------------------------------------------------------------------
(* Items.                                                                  *)

\* A struct cJSON: what it is, its links, and the strings it points to ("" is
\* NULL); cst: the name is not on the heap; ref: the item that child and str
\* belong to (cJSON_IsReference), 0: they are its own.
Cleared == [live |-> TRUE, next |-> 0, prev |-> 0, child |-> 0, type |-> "false",
            ref |-> 0, cst |-> FALSE, str |-> "", key |-> ""]
Freed == [Cleared EXCEPT !.live = FALSE]

Free(H) == {i \in DOMAIN H.it : ~ H.it[i].live}

\* cJSON_New_Item.
New_Item(H) ==
    LET i == CHOOSE x \in Free(H) : \A y \in Free(H) : x <= y
    IN  IF H.used >= Mem \/ Free(H) = {} THEN [H EXCEPT !.ret = 0]
        ELSE [H EXCEPT !.it[i] = Cleared, !.used = @ + 1, !.ret = i]

\* cJSON_strdup into the name or the value of an item; NULL if there is no room.
StrdupKey(H, i, k) ==
    IF H.used >= Mem THEN [H EXCEPT !.it[i].key = ""]
    ELSE [H EXCEPT !.it[i].key = k, !.used = @ + 1]
StrdupValue(H, i, s) ==
    IF H.used >= Mem THEN [H EXCEPT !.it[i].str = ""]
    ELSE [H EXCEPT !.it[i].str = s, !.used = @ + 1]

One(b) == IF b THEN 1 ELSE 0
OwnStrings(x) == One(x.ref = 0 /\ x.str # "") + One(~ x.cst /\ x.key # "")

\* cJSON_Delete: the item, what it owns, and the items behind it in its list.
RECURSIVE Delete(_, _)
Delete(H, c) ==
    IF c = 0 THEN H
    ELSE LET x == H.it[c]
             A == IF x.ref = 0 /\ x.child # 0 THEN Delete(H, x.child) ELSE H
         IN  Delete([A EXCEPT !.it[c] = Freed, !.used = @ - 1 - OwnStrings(x)], x.next)

\* The items of a list, in order.
RECURSIVE ChainFrom(_, _)
ChainFrom(H, c) == IF c = 0 THEN << >> ELSE << c >> \o ChainFrom(H, H.it[c].next)
Chain(H, a) == ChainFrom(H, H.it[a].child)

\* The walk of all list routines: item n of the list, or NULL.
ItemAt(H, a, n) == IF n < Len(Chain(H, a)) THEN Chain(H, a)[n + 1] ELSE 0

\* cJSON_strcasecmp: a missing name is equal to none.
Lower(k) == IF k = "A" THEN "a" ELSE k
SameKey(k, m) == k # "" /\ m # "" /\ Lower(k) = Lower(m)
\* cJSON_GetObjectItem and the loops that count up to it.
IndexOf(H, o, k) == SelectInSeq(Chain(H, o), LAMBDA c : SameKey(H.it[c].key, k)) - 1
-----------------------------------------------------------------------------
(* Lists.                                                                  *)

Suffix(H, p, i) == [H EXCEPT !.it[p].next = i, !.it[i].prev = p]

\* cJSON_AddItemToArray.
Add(H, a, i) ==
    IF i = 0 THEN H
    ELSE IF H.it[a].child = 0 THEN [H EXCEPT !.it[a].child = i]
    ELSE Suffix(H, Last(Chain(H, a)), i)

\* cJSON_AddItemToObject: the item's former name is freed.
AddNamed(H, o, k, i) ==
    IF i = 0 THEN H
    ELSE Add(StrdupKey([H EXCEPT !.used = @ - One(H.it[i].key # "")], i, k), o, i)

\* cJSON_AddItemToObjectCS: the name is the caller's.
AddConst(H, o, k, i) ==
    Add([H EXCEPT !.used = @ - One(~ H.it[i].cst /\ H.it[i].key # ""),
                  !.it[i].key = k, !.it[i].cst = TRUE], o, i)

\* create_reference: child and value are shared with the item.
Reference(H, i) ==
    LET R == New_Item(H)
    IN  IF R.ret = 0 THEN R
        ELSE [R EXCEPT !.it[R.ret] = [H.it[i] EXCEPT !.key = "", !.ref = i, !.next = 0, !.prev = 0]]

\* cJSON_DetachItemFromArray.
Detach(H, a, n) ==
    LET c == ItemAt(H, a, n)
        x == H.it[c]
        A == IF x.prev # 0 THEN [H EXCEPT !.it[x.prev].next = x.next] ELSE H
        B == IF x.next # 0 THEN [A EXCEPT !.it[x.next].prev = x.prev] ELSE A
        C == IF B.it[a].child = c THEN [B EXCEPT !.it[a].child = x.next] ELSE B
    IN  IF c = 0 THEN [H EXCEPT !.ret = 0]
        ELSE [C EXCEPT !.it[c].prev = 0, !.it[c].next = 0, !.ret = c]

\* cJSON_InsertItemInArray.
Insert(H, a, n, i) ==
    LET c == ItemAt(H, a, n)
        first == H.it[a].child = c
        A == [H EXCEPT !.it[i].next = c, !.it[i].prev = H.it[c].prev, !.it[c].prev = i]
    IN  IF c = 0 THEN Add(H, a, i)
        ELSE IF first THEN [A EXCEPT !.it[a].child = i]
        ELSE [A EXCEPT !.it[A.it[i].prev].next = i]

\* mutant: the new item goes to the end of the list
ReplaceAtEnd(H, a, n, i) ==
    LET D == Detach(H, a, n) IN IF D.ret = 0 THEN H ELSE Add(Delete(D, D.ret), a, i)

\* cJSON_ReplaceItemInArray.
Replace(H, a, n, i) ==
    LET c == ItemAt(H, a, n)
        x == H.it[c]
        A == [H EXCEPT !.it[i].next = x.next, !.it[i].prev = x.prev]
        B == IF x.next # 0 THEN [A EXCEPT !.it[x.next].prev = i] ELSE A
        C == IF B.it[a].child = c THEN [B EXCEPT !.it[a].child = i]
             ELSE [B EXCEPT !.it[x.prev].next = i]
    IN  IF c = 0 THEN H ELSE Delete([C EXCEPT !.it[c].next = 0, !.it[c].prev = 0], c)

\* cJSON_Duplicate: the copies of a reference's children are its own.
RECURSIVE Duplicate(_, _, _), CopyStrings(_, _, _), CopyName(_, _, _, _), CopyChildren(_, _, _, _), CopyNext(_, _, _, _)
Gone(H, n) == [Delete(H, n) EXCEPT !.ret = 0]
Duplicate(H, i, recurse) == CopyStrings(New_Item(H), H.it[i], recurse)
CopyStrings(N, x, recurse) ==
    LET n == N.ret
        A == [N EXCEPT !.it[n].type = x.type, !.it[n].cst = x.cst]
    IN  IF n = 0 THEN N
        ELSE CopyName(IF x.str # "" THEN StrdupValue(A, n, x.str) ELSE A, n, x, recurse)
CopyName(H, n, x, recurse) ==
    IF H.it[n].str # x.str THEN Gone(H, n)
    ELSE LET C == IF x.key # "" THEN StrdupKey(H, n, x.key) ELSE H
         IN  IF C.it[n].key # x.key THEN Gone(C, n)
             ELSE IF recurse THEN CopyChildren(C, n, x.child, 0)
             ELSE C
CopyChildren(H, n, c, last) ==
    IF c = 0 THEN [H EXCEPT !.ret = n] ELSE CopyNext(Duplicate(H, c, TRUE), n, H.it[c].next, last)
\* mutant: a copy that cannot be finished is not deleted
CopyKept(D, n, next, last) ==
    IF D.ret = 0 THEN D
    ELSE CopyChildren(IF last = 0 THEN [D EXCEPT !.it[n].child = D.ret] ELSE Suffix(D, last, D.ret), n, next, D.ret)

CopyNext(D, n, next, last) ==
    IF D.ret = 0 THEN Gone(D, n)
    ELSE CopyChildren(IF last = 0 THEN [D EXCEPT !.it[n].child = D.ret] ELSE Suffix(D, last, D.ret), n, next, D.ret)
-----------------------------------------------------------------------------
(* Parsing.                                                                *)

Tok(t, p) == IF p > Len(t) THEN "nul" ELSE t[p]
RECURSIVE Skip(_, _)
Skip(t, p) == IF Tok(t, p) = "ws" THEN Skip(t, p + 1) ELSE p

At(H, p) == [H EXCEPT !.pos = p]
\* The text is wrong at p (ep), or memory is short: NULL either way.
Wrong(H, p) == [H EXCEPT !.pos = 0, !.ep = p]
Short(H) == [H EXCEPT !.pos = 0]

\* parse_string.
StringIn(H, S, i, p) == IF S.it[i].str = "" THEN Short(H) ELSE At([S EXCEPT !.it[i].type = "str"], p + 1)
ParseString(H, i, t, p) ==
    IF Tok(t, p) \notin DOMAIN Spelled THEN Wrong(H, p)
    ELSE StringIn(H, StrdupValue(H, i, Read[t[p]]), i, p)

\* parse_value, and the loop that parse_array and parse_object share: the
\* child i, at p, of a list that ends with close.
RECURSIVE ParseValue(_, _, _, _), ParseList(_, _, _, _, _), FirstChild(_, _, _, _, _), ParseChild(_, _, _, _, _),
          ParseName(_, _, _), ParseMember(_, _, _, _), ParseRest(_, _, _, _), AfterValue(_, _, _, _, _), NextChild(_, _, _, _, _)
ParseValue(H, i, t, p) ==
    CASE Tok(t, p) \in Literals -> At([H EXCEPT !.it[i].type = t[p]], p + 1)
      [] Tok(t, p) \in DOMAIN Spelled -> ParseString(H, i, t, p)
      [] Tok(t, p) \in NumberTypes -> At([H EXCEPT !.it[i].type = ReadNumber[t[p]]], p + 1)
      [] Tok(t, p) \in {"[", "{"} ->
           ParseList([H EXCEPT !.it[i].type = IF t[p] = "[" THEN "arr" ELSE "obj"], i, t, Skip(t, p + 1),
                     IF t[p] = "[" THEN "]" ELSE "}")
      [] OTHER -> Wrong(H, p)
ParseList(H, i, t, p, close) ==
    IF Tok(t, p) = close THEN At(H, p + 1) ELSE FirstChild(New_Item(H), i, t, p, close)
FirstChild(N, i, t, p, close) ==
    IF N.ret = 0 THEN Short(N) ELSE ParseChild([N EXCEPT !.it[i].child = N.ret], N.ret, t, p, close)
ParseChild(H, i, t, p, close) ==
    IF close = "]" THEN ParseRest(ParseValue(H, i, t, p), i, t, close)
    ELSE ParseName(ParseString(H, i, t, p), i, t)
\* The string that was parsed is the child's name.
ParseName(K, i, t) ==
    IF K.pos = 0 THEN K
    ELSE ParseMember([K EXCEPT !.it[i].key = K.it[i].str, !.it[i].str = ""], i, t, Skip(t, K.pos))
ParseMember(K, i, t, p) ==
    IF Tok(t, p) # ":" THEN Wrong(K, p)
    ELSE ParseRest(ParseValue(K, i, t, Skip(t, p + 1)), i, t, "}")
ParseRest(V, i, t, close) == IF V.pos = 0 THEN V ELSE AfterValue(V, i, t, Skip(t, V.pos), close)
AfterValue(V, i, t, p, close) ==
    IF Tok(t, p) = close THEN At(V, p + 1)
    ELSE IF Tok(t, p) # "," THEN Wrong(V, p)
    ELSE NextChild(New_Item(V), i, t, p, close)
NextChild(N, i, t, p, close) ==
    IF N.ret = 0 THEN Short(N) ELSE ParseChild(Suffix(N, i, N.ret), N.ret, t, Skip(t, p + 1), close)

\* cJSON_ParseWithOpts: a text that cannot be parsed leaves nothing behind.
Ended(V, root, t, all) ==
    LET end == Skip(t, V.pos)
    IN  IF V.pos = 0 THEN Gone(V, root)
        ELSE IF all /\ Tok(t, end) # "nul" THEN [Gone(V, root) EXCEPT !.ep = end]
        ELSE [V EXCEPT !.ret = root]
ParseRoot(N, t, all) == IF N.ret = 0 THEN N ELSE Ended(ParseValue(N, N.ret, t, Skip(t, 1)), N.ret, t, all)
Parse(H, t, all) == ParseRoot(New_Item([H EXCEPT !.ep = 0]), t, all)
-----------------------------------------------------------------------------
(* Printing.                                                               *)

\* What the printers see of an item.
RECURSIVE Tree(_, _)
Tree(H, i) ==
    LET x == H.it[i]
    IN  [type |-> x.type, str |-> x.str, key |-> x.key,
         kids |-> [n \in 1..Len(Chain(H, i)) |-> Tree(H, Chain(H, i)[n])]]

Ws(fmt) == IF fmt THEN << "ws" >> ELSE << >>

\* print_value, print_array, print_object: the text.
RECURSIVE Text(_, _), TextOfKids(_, _, _)
Text(T, fmt) ==
    CASE T.type = "str" -> << T.str >>
      [] T.type = "arr" -> << "[" >> \o TextOfKids(T, 1, fmt) \o << "]" >>
      [] T.type = "obj" -> << "{" >> \o Ws(fmt) \o TextOfKids(T, 1, fmt) \o Ws(fmt) \o << "}" >>
      [] OTHER -> << T.type >>
\* mutant: the separator follows the last value too
TextOfKidsTrailing(T, n, fmt) ==
    LET kid == T.kids[n]
        member == << kid.key, ":" >> \o Ws(fmt) \o Text(kid, fmt)
    IN  IF n > Len(T.kids) THEN << >>
        ELSE (IF T.type = "obj" THEN member ELSE Text(kid, fmt)) \o << "," >> \o TextOfKids(T, n + 1, fmt)

TextOfKids(T, n, fmt) ==
    LET kid == T.kids[n]
        member == << kid.key, ":" >> \o Ws(fmt) \o Text(kid, fmt)
        comma == IF n < Len(T.kids) THEN << "," >> \o Ws(fmt) ELSE << >>
    IN  IF n > Len(T.kids) THEN << >>
        ELSE (IF T.type = "obj" THEN member ELSE Text(kid, fmt)) \o comma \o TextOfKids(T, n + 1, fmt)

\* Characters of what a leaf prints, at most, and the block it is given.
LeafLen(T) == CASE T.type \in {"null", "true"} -> 4
                [] T.type = "false" -> 5
                [] T.type = "zero" -> 1
                [] T.type = "int" -> 11
                [] T.type \in {"flt", "rnd"} -> 62
                [] T.type = "str" -> Len(Printed[T.str].text)
LeafBlock(T) == CASE T.type \in {"null", "true"} -> 5
                  [] T.type = "false" -> 6
                  [] T.type = "zero" -> 2
                  [] T.type = "int" -> 21
                  [] T.type \in {"flt", "rnd"} -> 64
                  [] T.type = "str" -> Printed[T.str].block
NameLen(kid) == Len(Printed[kid.key].text)

SumOver(n, F(_)) == FoldLeftDomain(LAMBDA acc, k : acc + F(k), 0, [k \in 1..n |-> k])

\* Without a buffer every value is printed into a block of its own, whose size
\* is added up before.
RECURSIVE PrintLen(_, _, _), PrintFits(_, _, _)
PrintLen(T, depth, fmt) ==
    LET n == Len(T.kids)
        f == One(fmt)
        Kid(k) == PrintLen(T.kids[k], depth + 1, fmt)
        members == SumOver(n, LAMBDA k : f * (depth + 1) + NameLen(T.kids[k]) + 1 + f + Kid(k) + f)
    IN  CASE T.type \notin Containers -> LeafLen(T)
          [] T.type = "arr" /\ n = 0 -> 2
          [] T.type = "obj" /\ n = 0 -> 2 + f + (IF depth > 1 THEN f * (depth - 1) ELSE 0)
          [] T.type = "arr" /\ n > 0 -> 1 + SumOver(n, Kid) + (n - 1) * (1 + f) + 1
          [] T.type = "obj" /\ n > 0 -> 1 + f + members + (n - 1) + f * depth + 1

\* mutant: the tabs in front of the names are not counted
PrintBlockShort(T, depth, fmt) ==
    LET n == Len(T.kids)
        f == One(fmt)
        Kid(k) == PrintLen(T.kids[k], depth + 1, fmt)
    IN  CASE T.type \notin Containers -> LeafBlock(T)
          [] T.type = "arr" /\ n = 0 -> 3
          [] T.type = "obj" /\ n = 0 -> IF fmt THEN depth + 4 ELSE 3
          [] T.type = "arr" /\ n > 0 -> 5 + SumOver(n, LAMBDA k : Kid(k) + 2 + f)
          [] T.type = "obj" /\ n > 0 -> 7 + SumOver(n, LAMBDA k : Kid(k) + NameLen(T.kids[k]) + 2 + f * 2)

PrintBlock(T, depth, fmt) ==
    LET n == Len(T.kids)
        f == One(fmt)
        Kid(k) == PrintLen(T.kids[k], depth + 1, fmt)
    IN  CASE T.type \notin Containers -> LeafBlock(T)
          [] T.type = "arr" /\ n = 0 -> 3
          [] T.type = "obj" /\ n = 0 -> IF fmt THEN depth + 4 ELSE 3
          [] T.type = "arr" /\ n > 0 -> 5 + SumOver(n, LAMBDA k : Kid(k) + 2 + f)
          [] T.type = "obj" /\ n > 0 ->
               7 + f * (depth + 1) + SumOver(n, LAMBDA k : Kid(k) + NameLen(T.kids[k]) + 2 + f * (3 + depth))
PrintFits(T, depth, fmt) ==
    /\ PrintLen(T, depth, fmt) + 1 <= PrintBlock(T, depth, fmt)
    /\ \A k \in DOMAIN T.kids : PrintFits(T.kids[k], depth + 1, fmt)
\* cJSON_PrintBuffered: one buffer that grows.  P.pend are the characters at the
\* offset that update has not passed yet.
RECURSIVE Pow2(_, _)
Pow2(p, x) == IF p >= x THEN p ELSE Pow2(2 * p, x)
Ensure(P, n) == IF P.off + n <= P.length THEN P ELSE [P EXCEPT !.length = Pow2(1, P.off + n)]
\* n characters are asked for, w written.
Put(P, n, w) == LET E == Ensure(P, n) IN [E EXCEPT !.ok = @ /\ E.off + w <= E.length]
PutOn(P, n, w, k) == [Put(P, n, w) EXCEPT !.off = @ + k]
Pend(P, n, w) == [Put(P, n, w) EXCEPT !.pend = w - 1]
Update(P) == [P EXCEPT !.off = @ + P.pend, !.pend = 0]

RECURSIVE Buffered(_, _, _, _), BufferedKids(_, _, _, _, _)
Buffered(T, depth, fmt, P) ==
    LET n == Len(T.kids)
        f == One(fmt)
    IN  CASE T.type \notin Containers -> Pend(P, LeafBlock(T), LeafLen(T) + 1)
          [] T.type \in Containers /\ n = 0 ->
               Pend(P, PrintBlock(T, depth, fmt), PrintLen(T, depth, fmt) + 1)
          [] T.type = "arr" /\ n > 0 -> Pend(BufferedKids(T, 1, depth + 1, fmt, PutOn(P, 1, 1, 1)), 2, 2)
          [] T.type = "obj" /\ n > 0 ->
               Pend(BufferedKids(T, 1, depth + 1, fmt, PutOn(P, 2 + f, 2 + f, 1 + f)),
                    2 + f * depth, f * depth + 2)
BufferedKids(T, k, depth, fmt, P) ==
    LET f == One(fmt)
        more == One(k < Len(T.kids))
        tabs == IF fmt THEN PutOn(P, depth, depth, depth) ELSE P
        name == PutOn(Update(Pend(tabs, Printed[T.kids[k].key].block, NameLen(T.kids[k]) + 1)), 1 + f, 1 + f, 1 + f)
        value == Update(Buffered(T.kids[k], depth, fmt, IF T.type = "obj" THEN name ELSE P))
        sep == IF T.type = "obj" THEN PutOn(value, f + more + 1, f + more + 1, f + more)
               ELSE IF more = 1 THEN PutOn(value, f + 2, f + 2, f + 1) ELSE value
    IN  IF k > Len(T.kids) THEN P ELSE BufferedKids(T, k + 1, depth, fmt, sep)
-----------------------------------------------------------------------------
(* The application.  It keeps to what cJSON.h asks for: an item is in one  *)
(* list at a time; what a reference was made of is neither changed nor     *)
(* deleted before the reference; a name that is not on the heap stays with *)
(* its item.                                                               *)

Live == {i \in Items : h.it[i].live}
RECURSIVE Within(_, _)
Within(H, i) == {i} \cup (IF H.it[i].ref # 0 THEN {}
                          ELSE UNION {Within(H, Chain(H, i)[n]) : n \in 1..Len(Chain(H, i))})
RECURSIVE Reaches(_, _)
Reaches(H, i) ==
    {i} \cup (IF H.it[i].ref # 0 THEN Reaches(H, H.it[i].ref) ELSE {})
        \cup UNION {Reaches(H, Chain(H, i)[n]) : n \in 1..Len(Chain(H, i))}
Pinned(i) == \E y \in Live : h.it[y].ref = i
\* A list that may be changed, and a tree that may be deleted.
Changeable(a) == a \in Live /\ h.it[a].ref = 0 /\ ~ Pinned(a)
Arrays == {a \in Live : Changeable(a) /\ h.it[a].type = "arr"}
Objects == {a \in Live : Changeable(a) /\ h.it[a].type = "obj"}
Deletable(i) == \A x \in Within(h, i), y \in Live \ Within(h, i) : h.it[y].ref # x
MayHold(a, i) == a \notin Reaches(h, i)

\* The results of a call are gone after it.
Leaves(H, r) ==
    /\ calls < MaxCalls /\ calls' = calls + 1
    /\ h' = [H EXCEPT !.ret = 0, !.pos = 0, !.ep = 0] /\ roots' = r
Gives(H) == Leaves(H, IF H.ret = 0 THEN roots ELSE roots \cup {H.ret})

\* cJSON_CreateNull, _True, _False, _Number, _Array, _Object.
Create(type) == LET N == New_Item(h) IN Gives(IF N.ret = 0 THEN N ELSE [N EXCEPT !.it[N.ret].type = type])
CreateString(s) ==
    LET N == New_Item(h)
    IN  Gives(IF N.ret = 0 THEN N ELSE StrdupValue([N EXCEPT !.it[N.ret].type = "str"], N.ret, s))
\* cJSON_CreateIntArray and its like: there is memory for all of it.
CreateIntArray(n) ==
    LET A == New_Item(h)
        Grow(H, k) == LET N == New_Item(H)
                      IN  Add([N EXCEPT !.it[N.ret].type = "int"], A.ret, N.ret)
    IN  /\ Mem - h.used > n /\ Cardinality(Free(h)) > n
        /\ Gives([FoldLeft(Grow, [A EXCEPT !.it[A.ret].type = "arr"], [k \in 1..n |-> k]) EXCEPT !.ret = A.ret])

AddItemToArray(a, i) == MayHold(a, i) /\ Leaves(Add(h, a, i), roots \ {i})
AddItemToObject(o, k, i) == MayHold(o, i) /\ ~ h.it[i].cst /\ Leaves(AddNamed(h, o, k, i), roots \ {i})
AddItemToObjectCS(o, k, i) == MayHold(o, i) /\ Leaves(AddConst(h, o, k, i), roots \ {i})
AddItemReferenceToArray(a, i) ==
    LET R == Reference(h, i) IN a \notin Reaches(h, i) /\ Leaves(Add(R, a, R.ret), roots)
AddItemReferenceToObject(o, k, i) ==
    LET R == Reference(h, i) IN o \notin Reaches(h, i) /\ ~ h.it[i].cst /\ Leaves(AddNamed(R, o, k, R.ret), roots)

DetachItemFromArray(a, n) == Gives(Detach(h, a, n))
DetachItemFromObject(o, k) ==
    Gives(IF IndexOf(h, o, k) < 0 THEN h ELSE Detach(h, o, IndexOf(h, o, k)))
DeleteDetached(D) == (D.ret # 0 => Deletable(D.ret)) /\ Leaves(Delete(D, D.ret), roots)
DeleteItemFromArray(a, n) == DeleteDetached(Detach(h, a, n))
DeleteItemFromObject(o, k) ==
    DeleteDetached(IF IndexOf(h, o, k) < 0 THEN h ELSE Detach(h, o, IndexOf(h, o, k)))

InsertItemInArray(a, n, i) == MayHold(a, i) /\ Leaves(Insert(h, a, n, i), roots \ {i})
\* An item that replaces none stays with the caller.
ReplaceItemInArray(a, n, i) ==
    LET c == ItemAt(h, a, n)
    IN  /\ MayHold(a, i) /\ (c # 0 => Deletable(c) /\ h.it[i].ref \notin Within(h, c))
        /\ Leaves(Replace(h, a, n, i), IF c = 0 THEN roots ELSE roots \ {i})
\* The new item has no name yet: a name it had would not be freed.
ReplaceItemInObject(o, k, i) ==
    LET n == IndexOf(h, o, k)
        c == ItemAt(h, o, n)
    IN  /\ MayHold(o, i) /\ h.it[i].key = "" /\ ~ h.it[i].cst
        /\ (n >= 0 => Deletable(c) /\ h.it[i].ref \notin Within(h, c))
        /\ IF n < 0 THEN Leaves(h, roots) ELSE Leaves(Replace(StrdupKey(h, i, k), o, n, i), roots \ {i})

\* The copy of a name that is not on the heap would not be freed.
DuplicateItem(i, recurse) ==
    /\ \A x \in Reaches(h, i) : ~ h.it[x].cst
    /\ Gives(Duplicate(h, i, recurse))
ParseWithOpts(t, all) == Gives(Parse(h, t, all))
DeleteItem(i) == Deletable(i) /\ Leaves(Delete(h, i), roots \ {i})

Init == h = [it |-> [i \in Items |-> Freed], used |-> 0, ret |-> 0, pos |-> 0, ep |-> 0] /\ roots = {} /\ calls = 0

Next ==
    \/ \E type \in {"null"} \cup Numbers \cup Containers : Create(type)
    \/ \E s \in Strs : CreateString(s)
    \/ CreateIntArray(2)
    \/ \E a \in Arrays, i \in roots : AddItemToArray(a, i) \/ (\E n \in 0..1 : InsertItemInArray(a, n, i) \/ ReplaceItemInArray(a, n, i))
    \/ \E a \in Arrays, i \in Live : AddItemReferenceToArray(a, i)
    \/ \E a \in Arrays, n \in 0..2 : DetachItemFromArray(a, n) \/ DeleteItemFromArray(a, n)
    \/ \E o \in Objects, k \in Keys :
          \/ \E i \in roots : AddItemToObject(o, k, i) \/ AddItemToObjectCS(o, k, i) \/ ReplaceItemInObject(o, k, i)
          \/ \E i \in Live : AddItemReferenceToObject(o, k, i)
          \/ DetachItemFromObject(o, k) \/ DeleteItemFromObject(o, k)
    \/ \E i \in Live, recurse \in BOOLEAN : DuplicateItem(i, recurse)
    \/ \E t \in Texts, all \in BOOLEAN : ParseWithOpts(t, all)
    \/ \E i \in roots : DeleteItem(i)

Spec == Init /\ [][Next]_vars
-----------------------------------------------------------------------------
(* Properties.                                                             *)

\* Every item is in one list at most, linked both ways, and belongs to one item
\* the application holds; every block that is allocated can be reached from
\* there, also after a call that ran out of memory half-way (cJSON.h:138).
NothingLost ==
    /\ \A i \in Live : LET x == h.it[i] IN
         /\ x.next # 0 => (h.it[x.next].live /\ h.it[x.next].prev = i)
         /\ x.child # 0 /\ x.ref = 0 => h.it[x.child].prev = 0
    /\ \A r \in roots : h.it[r].next = 0 /\ h.it[r].prev = 0
    /\ UNION {Within(h, r) : r \in roots} = Live
    /\ \A r, q \in roots : r # q => Within(h, r) \cap Within(h, q) = {}
    /\ h.used = FoldLeftDomain(LAMBDA acc, i : acc + One(h.it[i].live) * (1 + OwnStrings(h.it[i])), 0, h.it)

\* The list calls do what they say to the sequences of children.
Lists == INSTANCE JsonLists WITH live <- Live,
             kids <- [i \in Items |-> IF i \in Live /\ h.it[i].ref = 0 THEN Chain(h, i) ELSE << >>]
ImplementsLists == Lists!Spec

\* An item whose members all have a name, and what its text stands for.
RECURSIVE Printable(_), Meaning(_)
Printable(T) == /\ T.type = "str" => T.str # ""
                /\ \A n \in DOMAIN T.kids : (T.type = "obj" => T.kids[n].key # "") /\ Printable(T.kids[n])
Meaning(T) ==
    LET num == IF T.type = "flt" THEN "rnd" ELSE T.type
    IN  [type |-> num, str |-> T.str,
         kids |-> [n \in DOMAIN T.kids |-> << IF T.type = "obj" THEN T.kids[n].key ELSE "", Meaning(T.kids[n]) >>]]
\* A heap with room enough for any tree of the model.
EmptyHeap == [it |-> [i \in 1..(NItems * NItems) |-> Freed], used |-> Mem - 3 * NItems * NItems, ret |-> 0, pos |-> 0, ep |-> 0]

\* Every string of a few bytes, and every text in which escapes, pairs, single
\* halves of pairs and short escapes follow each other, that parse_string is tried
\* with.  More text comes behind them.
Samples == UNION {[1..n -> {Quote, Backslash, LetterU, Slash, Star, 9, 31, 195, 255}] : n \in 0..MaxBytes}
Escapes == {<< Backslash, LetterU, a, b, Digit(0), 102 >> : a \in {Digit(0), 68}, b \in {Digit(0), Digit(8), 99}}
             \cup {<< Backslash, 110 >>, << Backslash, Quote >>, << 65 >>, << 195, 169 >>}
ShortEscapes == {<< Backslash, LetterU >>, << Backslash, LetterU, 68, 99 >>, << Backslash, LetterU, Digit(0), Digit(0), 102 >>}
Behind == << 44, 65, 65, 65, 65, 65 >>
EscapedTexts == {<< Quote >> \o a \o b \o c \o << Quote >> \o Behind : a, b, c \in Escapes \cup ShortEscapes}
\* Each \u of t, a string, is followed by four bytes of the string that are its own.
Complete(t, close) ==
    \A p \in 3..(close - 1) : t[p] = LetterU /\ t[p - 1] = Backslash =>
        p + 4 < close /\ \A q \in (p + 1)..(p + 4) : t[q] \notin {Quote, Backslash}
\* Unescaping stops at the quote the block was measured up to, and inside the block.
StaysInside(P) == P.end = P.close + 1 /\ Len(P.out) < P.block
\* A string between blanks and comments that have a quote in them.
Padded(t) == << 32, Slash, Star, Quote, Star, Slash >> \o t \o << 9, Slash, Slash, Quote, LineFeed >> \o t \o << 13, LineFeed >>
StringsReturn ==
    /\ \A s \in Samples : LET P == print_string_ptr(s) IN
         /\ Len(P.text) < P.block /\ parse_string(P.text, 1).out = s
         /\ Minify(Padded(P.text), 1) = P.text \o P.text
    /\ \A t \in EscapedTexts : LET P == parse_string(t, 1) IN Complete(t, P.close) => StaysInside(P)
    /\ \A w \in DOMAIN Spelled : Read[w] \in Words

SameTree(B, T) == B.ret # 0 /\ Meaning(Tree(B, B.ret)) = Meaning(T)

\* Parsing what was printed gives the same tree, references and all, but for
\* the digits sprintf drops; strings come back byte for byte; unescaping stays
\* inside the block that was measured and stops at the closing quote, provided that
\* four bytes of the string follow each \u (with fewer the code may step over the
\* quote into the text behind, cJSON.c:435); cJSON_Minify takes away what is between
\* strings and nothing in them (print_value, parse_value, print_string_ptr, parse_string).
PrintedParses ==
  /\ StringsReturn
  /\ \A r \in roots, fmt \in BOOLEAN :
       LET T == Tree(h, r)
       IN  Printable(T) => SameTree(Parse(EmptyHeap, Text(T, fmt), TRUE), T)

\* The blocks that the printers ask for are large enough, nested and formatted
\* or not, and both printers write the same (print_array, print_object, ensure).
PrintersFit ==
    \A r \in roots, fmt \in BOOLEAN :
      LET T == Tree(h, r)
      IN  Printable(T) =>
          /\ PrintFits(T, 0, fmt)
          /\ \A size \in Prebuffers :
               LET P == Buffered(T, 0, fmt, [length |-> size, off |-> 0, pend |-> 0, ok |-> TRUE])
               IN  P.ok /\ P.off + P.pend = PrintLen(T, 0, fmt)
=============================================================================
