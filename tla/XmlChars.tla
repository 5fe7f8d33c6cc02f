------------------------------ MODULE XmlChars ------------------------------
(* The characters of tinyxml2's texts and attribute values: how GetStr      *)
(* decodes entities, character references and line ends in place, and how   *)
(* PrintString encodes them.  A text is a sequence of bytes; past its end   *)
(* is the NUL that GetStr puts there.  Numerals have at most seven digits,  *)
(* so that the 32-bit multiplier does not wrap (the debug build asserts it).*)
EXTENDS Integers, Sequences

Byte(s, p) == IF p > Len(s) THEN 0 ELSE s[p]

LF == 10
CR == 13
Ampersand == 38
Hash == 35
Semicolon == 59
LetterX == 120

\* The entity table: quot, amp, apos, lt, gt.
Entities ==
    << [pattern |-> <<113, 117, 111, 116>>, value |-> 34],
       [pattern |-> <<97, 109, 112>>,       value |-> 38],
       [pattern |-> <<97, 112, 111, 115>>,  value |-> 39],
       [pattern |-> <<108, 116>>,           value |-> 60],
       [pattern |-> <<103, 116>>,           value |-> 62] >>

-----------------------------------------------------------------------------
(* XMLUtil.                                                                 *)

\* Bytes of a code point; 0: none that this code can write.
Utf8Length(u) ==
    CASE u < 128 -> 1
      [] u \in 128..2047 -> 2
      [] u \in 2048..65535 -> 3
      [] u \in 65536..2097151 -> 4
      [] OTHER -> 0

FirstByteMark == <<0, 192, 224, 240>>

\* The last byte is written first, six bits at a time.
ConvertUTF32ToUTF8(u) ==
    LET n == Utf8Length(u)
    IN  [i \in 1..n |-> IF i = 1 THEN FirstByteMark[n] + u \div 64^(n - 1)
                        ELSE 128 + ((u \div 64^(n - i)) % 64)]

DigitOf(c, base) ==
    CASE c \in 48..57 -> c - 48
      [] base = 16 /\ c \in 97..102 -> c - 87
      [] base = 16 /\ c \in 65..70 -> c - 55
      [] OTHER -> -1

\* The numeral that ends at q, read backwards to its mark; -1: not a digit.
RECURSIVE Numeral(_, _, _, _)
Numeral(s, q, mark, base) ==
    IF s[q] = mark THEN 0
    ELSE LET rest == Numeral(s, q - 1, mark, base)
         IN  IF DigitOf(s[q], base) < 0 \/ rest < 0 THEN -1
             ELSE rest * base + DigitOf(s[q], base)

NoRef == [next |-> 0, out |-> <<>>]

\* The semicolons at or behind p (strchr).
Semicolons(s, p) == {i \in p..Len(s) : s[i] = Semicolon}

Referred(u, q) == IF u < 0 THEN NoRef ELSE [next |-> q + 1, out |-> ConvertUTF32ToUTF8(u)]

ReadRef(s, from, mark, base) ==
    IF Semicolons(s, from) = {} THEN NoRef
    ELSE LET q == CHOOSE i \in Semicolons(s, from) : \A j \in Semicolons(s, from) : i <= j
         IN  Referred(Numeral(s, q - 1, mark, base), q)

\* The reference whose ampersand is at p: where the text goes on (0: it is no
\* reference) and the bytes it stands for.
GetCharacterRef(s, p) ==
    CASE Byte(s, p + 1) # Hash \/ Byte(s, p + 2) = 0 -> [next |-> p + 1, out |-> <<>>]
      [] Byte(s, p + 1) = Hash /\ Byte(s, p + 2) = LetterX -> ReadRef(s, p + 3, LetterX, 16)
      [] OTHER -> ReadRef(s, p + 2, Hash, 10)

-----------------------------------------------------------------------------
(* StrPair::GetStr: p reads and q writes in the same buffer.                *)

\* The entities whose pattern and semicolon follow the ampersand at p.
Matches(s, p) ==
    {i \in DOMAIN Entities :
        LET pattern == Entities[i].pattern
        IN  /\ \A k \in DOMAIN pattern : Byte(s, p + k) = pattern[k]
            /\ Byte(s, p + Len(pattern) + 1) = Semicolon}

\* Bytes out are written and the reader goes on at next; overrun: bytes that
\* are not read yet would be overwritten.
Wrote(B, out, next) ==
    [buf |-> [i \in DOMAIN B.buf |->
                IF i \in B.q..(B.q + Len(out) - 1) THEN out[i - B.q + 1] ELSE B.buf[i]],
     p |-> next, q |-> B.q + Len(out),
     overrun |-> B.overrun \/ B.q + Len(out) > next]

LineEnd(B, other) == Wrote(B, <<LF>>, IF Byte(B.buf, B.p + 1) = other THEN B.p + 2 ELSE B.p + 1)

CharacterRef(B, r) == IF r.next = 0 THEN Wrote(B, <<B.buf[B.p]>>, B.p + 1) ELSE Wrote(B, r.out, r.next)

\* An ampersand without an entity: both pointers advance and nothing is
\* written, so the byte that is left at q is what was there.
NamedEntity(B, found) ==
    IF found = {} THEN [B EXCEPT !.p = @ + 1, !.q = @ + 1]
    ELSE LET e == Entities[CHOOSE i \in found : TRUE]
         IN  Wrote(B, <<e.value>>, B.p + Len(e.pattern) + 2)

Decoded(B, entities) ==
    LET c == B.buf[B.p]
    IN  CASE c = CR -> LineEnd(B, LF)
          [] c = LF -> LineEnd(B, CR)
          [] entities /\ c = Ampersand /\ Byte(B.buf, B.p + 1) = Hash ->
                CharacterRef(B, GetCharacterRef(B.buf, B.p))
          [] entities /\ c = Ampersand /\ Byte(B.buf, B.p + 1) # Hash ->
                NamedEntity(B, Matches(B.buf, B.p))
          [] OTHER -> Wrote(B, <<c>>, B.p + 1)

RECURSIVE DecodeAll(_, _)
DecodeAll(B, entities) ==
    IF B.p > Len(B.buf) THEN B ELSE DecodeAll(Decoded(B, entities), entities)

\* TEXT_ELEMENT and ATTRIBUTE_VALUE with entities, the _LEAVE_ENTITIES flags
\* and COMMENT without.
GetStr(s, entities) ==
    LET B == DecodeAll([buf |-> s, p |-> 1, q |-> 1, overrun |-> FALSE], entities)
    IN  [out |-> SubSeq(B.buf, 1, B.q - 1), overrun |-> B.overrun]

-----------------------------------------------------------------------------
(* XMLPrinter::PrintString: text is restricted, attribute values are not.   *)

Flagged(c, restricted) ==
    IF restricted THEN c \in {38, 60, 62} ELSE \E i \in DOMAIN Entities : Entities[i].value = c

Encoded(c, restricted) ==
    IF ~Flagged(c, restricted) THEN <<c>>
    ELSE LET i == CHOOSE k \in DOMAIN Entities : Entities[k].value = c
         IN  <<Ampersand>> \o Entities[i].pattern \o <<Semicolon>>

RECURSIVE PrintString(_, _)
PrintString(s, restricted) ==
    IF s = <<>> THEN <<>>
    ELSE Encoded(Head(s), restricted) \o PrintString(Tail(s), restricted)
=============================================================================
