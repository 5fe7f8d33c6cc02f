------------------------------ MODULE JsonText ------------------------------
(***************************************************************************)
(* The characters of cJSON's strings and numbers: how a string is measured *)
(* and unescaped, how it is measured and escaped, and how a number is      *)
(* read.  A text is a sequence of bytes.  Past its end is the NUL.  A      *)
(* backslash is not the last byte.                                         *)
(***************************************************************************)
EXTENDS Integers, Sequences, TLC

Byte(s, p) == IF p > Len(s) THEN 0 ELSE s[p]

Quote == 34
Backslash == 92
LetterU == 117
\* The letters of the one-character escapes, and what they stand for.
Letter == [b |-> 98, f |-> 102, n |-> 110, r |-> 114, t |-> 116]
Control == [b |-> 8, f |-> 12, n |-> 10, r |-> 13, t |-> 9]
Escapable == {Quote, Backslash} \cup {Control[k] : k \in DOMAIN Control}
IsDigit(c) == c \in 48..57
-----------------------------------------------------------------------------
(* parse_string.                                                           *)

HexDigit(c) == CASE IsDigit(c) -> c - 48
                 [] c \in 65..70 -> c - 55
                 [] c \in 97..102 -> c - 87
                 [] OTHER -> -1
\* The four digits at p; 0 if one of them is none.
Hex4(d) == IF \E k \in 0..3 : d[k] < 0 THEN 0 ELSE ((d[0] * 16 + d[1]) * 16 + d[2]) * 16 + d[3]
parse_hex4(s, p) == Hex4([k \in 0..3 |-> HexDigit(Byte(s, p + k))])

IsLow(u) == u \in 56320..57343
IsHigh(u) == u \in 55296..56319

\* One code point in UTF-8, written from its last byte to its first.
Utf8(u) ==
    LET tail(k) == 128 + ((u \div k) % 64)
    IN  CASE u < 128 -> << u >>
          [] u \in 128..2047 -> << 192 + u \div 64, tail(1) >>
          [] u \in 2048..65535 -> << 224 + u \div 4096, tail(64), tail(1) >>
          [] OTHER -> << 240 + u \div 262144, tail(4096), tail(64), tail(1) >>

\* The escape whose letter is at p: what it writes, and where its last byte is.
\* Halves of a surrogate pair that do not belong together write nothing.
Pair(p, high, low) ==
    [out |-> IF IsLow(low) THEN Utf8(65536 + (high % 1024) * 1024 + (low % 1024)) ELSE << >>, last |-> p + 10]
Transcoded(s, p, u) ==
    IF u = 0 \/ IsLow(u) THEN [out |-> << >>, last |-> p + 4]
    ELSE IF ~ IsHigh(u) THEN [out |-> Utf8(u), last |-> p + 4]
    ELSE IF Byte(s, p + 5) # Backslash \/ Byte(s, p + 6) # LetterU THEN [out |-> << >>, last |-> p + 4]
    ELSE Pair(p, u, parse_hex4(s, p + 7))
Unicode(s, p) == Transcoded(s, p, parse_hex4(s, p + 1))
Escape(s, p) ==
    LET c == Byte(s, p)
        known == {k \in DOMAIN Letter : Letter[k] = c}
    IN  IF c = LetterU THEN Unicode(s, p)
        ELSE [out |-> IF known = {} THEN << c >> ELSE << Control[CHOOSE k \in known : TRUE] >>, last |-> p]

\* The first pass: what is between the quotes, an escape's letter not counted.
RECURSIVE Measure(_, _)
Measure(s, p) ==
    IF Byte(s, p) \in {Quote, 0} THEN 0
    ELSE 1 + Measure(s, p + (IF s[p] = Backslash THEN 2 ELSE 1))

\* Where it stops.
RECURSIVE Close(_, _)
Close(s, p) == IF Byte(s, p) \in {Quote, 0} THEN p ELSE Close(s, p + (IF s[p] = Backslash THEN 2 ELSE 1))

\* The second pass looks for the closing quote by itself.  After \u it skips four
\* bytes whatever they are: the closing quote, and the NUL behind the text, may be
\* among them (what is read past the NUL is not known: the pass is cut off there).
RECURSIVE Unescape(_, _, _), Unescaped(_, _, _)
Unescape(s, p, out) ==
    CASE Byte(s, p) = Quote -> [out |-> out, end |-> p + 1]
      [] Byte(s, p) = 0 -> [out |-> out, end |-> p]
      [] Byte(s, p) = Backslash -> Unescaped(s, Escape(s, p + 1), out)
      [] OTHER -> Unescape(s, p + 1, Append(out, s[p]))
Unescaped(s, E, out) == Unescape(s, E.last + 1, out \o E.out)

\* The string whose opening quote is at p, the byte behind it, the block it gets
\* and the closing quote the block was measured up to.
parse_string(s, p) == Unescape(s, p + 1, << >>) @@ [block |-> Measure(s, p + 1) + 1, close |-> Close(s, p + 1)]
-----------------------------------------------------------------------------
(* print_string_ptr.                                                       *)

HexLetter(d) == IF d < 10 THEN 48 + d ELSE 87 + d
Escaped(c) ==
    LET known == {k \in DOMAIN Control : Control[k] = c}
    IN  IF c > 31 /\ c \notin Escapable THEN << c >>
        ELSE IF c \in {Quote, Backslash} THEN << Backslash, c >>
        ELSE IF known # {} THEN << Backslash, Letter[CHOOSE k \in known : TRUE] >>
        ELSE << Backslash, LetterU, 48, 48, HexLetter(c \div 16), HexLetter(c % 16) >>

RECURSIVE EscapeAll(_), EscapedLen(_)
EscapeAll(s) == IF s = << >> THEN << >> ELSE Escaped(Head(s)) \o EscapeAll(Tail(s))
\* The length pass.
EscapedLen(s) ==
    IF s = << >> THEN 0
    ELSE EscapedLen(Tail(s)) + (IF Head(s) \in Escapable THEN 2 ELSE IF Head(s) < 32 THEN 6 ELSE 1)

\* A string without anything to escape is copied as it is.
print_string_ptr(s) ==
    LET flag == \E n \in DOMAIN s : s[n] < 32 \/ s[n] \in {Quote, Backslash}
    IN  [text |-> << Quote >> \o (IF flag THEN EscapeAll(s) ELSE s) \o << Quote >>,
         block |-> (IF flag THEN EscapedLen(s) ELSE Len(s)) + 3]
-----------------------------------------------------------------------------
(* parse_number.                                                           *)

\* The digits from p on, behind those in n: their value and where they end.
RECURSIVE Digits(_, _, _)
Digits(s, p, n) == IF IsDigit(Byte(s, p)) THEN Digits(s, p + 1, n * 10 + s[p] - 48) ELSE [n |-> n, end |-> p]

\* The number at p, n * 10^exp, and the byte behind it, part by part: the sign
\* and one zero, the digits, a fraction, an exponent.
Signed(s, p) == [neg |-> Byte(s, p) = 45, n |-> 0, exp |-> 0, end |-> IF Byte(s, p) = 45 THEN p + 1 ELSE p]
Zero(s, N) == IF Byte(s, N.end) = 48 THEN [N EXCEPT !.end = @ + 1] ELSE N
Whole(s, N) == IF Byte(s, N.end) \in 49..57 THEN Digits(s, N.end, 0) @@ N ELSE N
\* D are the digits behind the point.
Shifted(N, D) == [N EXCEPT !.n = D.n, !.exp = N.end + 1 - D.end, !.end = D.end]
Fraction(s, N) ==
    IF Byte(s, N.end) # 46 \/ ~ IsDigit(Byte(s, N.end + 1)) THEN N
    ELSE Shifted(N, Digits(s, N.end + 1, N.n))
Scaled(N, D, minus) == [N EXCEPT !.exp = @ + (IF minus THEN - D.n ELSE D.n), !.end = D.end]
Exponent(s, N) ==
    LET sign == Byte(s, N.end + 1)
    IN  IF Byte(s, N.end) \notin {69, 101} THEN N
        ELSE Scaled(N, Digits(s, N.end + (IF sign \in {43, 45} THEN 2 ELSE 1), 0), sign = 45)
parse_number(s, p) == Exponent(s, Fraction(s, Whole(s, Zero(s, Signed(s, p)))))
-----------------------------------------------------------------------------
(* cJSON_Minify: strings and comments are terminated.                      *)

LineFeed == 10
Slash == 47
Star == 42
Blanks == {32, 9, 13, LineFeed}

FirstOf(places) == CHOOSE i \in places : \A j \in places : i <= j
\* Where a comment that begins at p ends: its line, or the first star and slash.
LineEnd(s, p) == FirstOf({i \in p..Len(s) : s[i] = LineFeed} \cup {Len(s) + 1})
CommentEnd(s, p) == FirstOf({i \in p..Len(s) : s[i] = Star /\ Byte(s, i + 1) = Slash}) + 2

RECURSIVE Minify(_, _), MinifyString(_, _)
\* What is left of s from p on, outside and inside of a string.
Minify(s, p) ==
    LET c == Byte(s, p)
        d == Byte(s, p + 1)
    IN  CASE c = 0 -> << >>
          [] c \in Blanks -> Minify(s, p + 1)
          [] c = Slash /\ d = Slash -> Minify(s, LineEnd(s, p))
          [] c = Slash /\ d = Star -> Minify(s, CommentEnd(s, p))
          [] c = Quote -> << c >> \o MinifyString(s, p + 1)
          [] OTHER -> << c >> \o Minify(s, p + 1)
MinifyString(s, p) ==
    CASE s[p] = Quote -> << Quote >> \o Minify(s, p + 1)
      [] s[p] = Backslash -> << Backslash, s[p + 1] >> \o MinifyString(s, p + 2)
      [] OTHER -> << s[p] >> \o MinifyString(s, p + 1)
=============================================================================
