----------------------------- MODULE MangoWire -----------------------------
(***************************************************************************)
(* What mango puts on the wire and reads from it, byte for byte where a    *)
(* byte matters: numerals (mangoHelper.c), the header look-up, base64      *)
(* credentials and masked websocket frames (mangoWS.c).                    *)
(*                                                                         *)
(* The code's widths follow from one constant, the base of a hexadecimal   *)
(* digit: a byte is two digits and a word is eight of them.  With Hex = 16 *)
(* they are the code's; a smaller Hex scales all limits together.          *)
(***************************************************************************)
EXTENDS Integers, Sequences, SequencesExt

CONSTANTS Hex,        \* 16 in the code
          DecDigits   \* digits of the largest word: 10 in the code

ASSUME WidthAssumption == Hex \in Nat /\ Hex > 3 /\ Hex % 2 = 0

Byte == Hex * Hex     \* uint8_t
Half == Byte * Byte   \* uint16_t
Word == Half * Half   \* uint32_t

(***************************************************************************)
(* Numerals.  A character is its digit, or one of the three below.         *)
(***************************************************************************)
X == -1
Blank == -2
Other == -3
Bad == -1             \* the conversion's error

Place(n, base, i) == (n \div base ^ i) % base

\* n after k divisions: the loops that write a numeral take its digits so
Quot(n, base, k) == LET q[i \in 0 .. k] == IF i = 0 THEN n ELSE q[i - 1] \div base
                    IN q[k]

\* a zero never meets the loop that skips leading zeros with a digit to stop
\* it: the loop leaves the array, and nothing is written (mangoHelper.c:210)
mangoHelper_dec2hexstr(n) ==
    LET hex == [i \in 1 .. 8 |-> Quot(n, Hex, 8 - i) % Hex]
        S == {i \in 1 .. 8 : hex[i] # 0}
    IN IF S = {} THEN << >>
       ELSE SubSeq(hex, CHOOSE i \in S : \A j \in S : i <= j, 8)

mangoHelper_dec2decstr(n) ==
    LET w == CHOOSE k \in 1 .. DecDigits :
               Quot(n, 10, k) = 0 /\ (k = 1 \/ Quot(n, 10, k - 1) # 0)
    IN [i \in 1 .. w |-> Quot(n, 10, w - i) % 10]

ASSUME DigitsAssumption == DecDigits \in 1 .. 10 /\ Quot(Word - 1, 10, DecDigits) = 0

\* how many digits a string begins with, and what the first k are worth
Leading(s, base) ==
    CHOOSE k \in 0 .. Len(s) : /\ \A i \in 1 .. k : s[i] \in 0 .. base - 1
                               /\ k = Len(s) \/ s[k + 1] \notin 0 .. base - 1
Value(s, k, base) == LET v[i \in 0 .. k] == IF i = 0 THEN 0 ELSE (v[i - 1] * base + s[i]) % Word
                     IN v[k]

\* mutant: hexstr2dec counts eight digits where it may take eight
HexstrShort(s) ==
    LET t == IF Len(s) > 1 /\ s[1] = 0 /\ s[2] = X THEN SubSeq(s, 3, Len(s)) ELSE s
        k == Leading(t, Hex)
    IN IF k \in 1 .. 7 THEN Value(t, k, Hex) ELSE Bad

mangoHelper_hexstr2dec(s) ==
    LET t == IF Len(s) > 1 /\ s[1] = 0 /\ s[2] = X THEN SubSeq(s, 3, Len(s)) ELSE s
        k == Leading(t, Hex)
    IN IF k \in 1 .. 8 THEN Value(t, k, Hex) ELSE Bad

\* a numeral as long as the longest word is taken, whatever its value
mangoHelper_decstr2dec(s) ==
    LET k == Leading(s, 10)
    IN IF k \in 1 .. DecDigits THEN Value(s, k, 10) ELSE Bad

(***************************************************************************)
(* The header look-up: the first line that starts with the name counts,    *)
(* and it is given up there when the name goes on.                         *)
(***************************************************************************)
NoHeader == [found |-> -1, val |-> << >>]

Trimmed(v) ==
    LET S == {i \in 1 .. Len(v) : v[i] # Blank}
    IN IF S = {} THEN << >>
       ELSE SubSeq(v, 1, CHOOSE i \in S : \A j \in S : j <= i)

Begins(name, l) == Len(name) <= Len(l) /\ \A j \in 1 .. Len(name) : l[j] = name[j]

mangoHelper_httpHeaderGet(lines, name, size) ==
    LET S == {i \in 1 .. Len(lines) : Begins(name, lines[i].name)}
        l == lines[CHOOSE i \in S : \A j \in S : i <= j]
    IN IF S = {} \/ l.name # name THEN NoHeader
       ELSE IF Len(l.val) >= size THEN [found |-> 0, val |-> << >>]
       ELSE [found |-> 1, val |-> Trimmed(l.val)]

(***************************************************************************)
(* base64 (mangoCrypto_base64.c): 64 stands for the padding character.     *)
(* The terminating NUL needs room too.                                     *)
(***************************************************************************)
Pad == 64

\* the four sextets of three bytes; bytes that are missing count as zeros
Sextet(d, j) ==
    LET x == 3 * ((j - 1) \div 4)
        At(i) == IF i <= Len(d) THEN d[i] ELSE 0
        n == At(x + 1) * 65536 + At(x + 2) * 256 + At(x + 3)
        shift == <<262144, 4096, 64, 1>>
    IN (n \div shift[((j - 1) % 4) + 1]) % 64

\* a group has a character more than it has bytes
mangoCrypto_base64Encode(d, size) ==
    LET body == [j \in 1 .. Len(d) + (Len(d) + 2) \div 3 |-> Sextet(d, j)]
        pads == IF Len(d) % 3 = 0 THEN 0 ELSE 3 - (Len(d) % 3)
    IN IF Len(body) + pads >= size THEN << >>
       ELSE body \o [i \in 1 .. pads |-> Pad]

\* what a server makes of it (RFC 4648, section 4)
Base64Decode(e) ==
    LET n == CHOOSE k \in 0 .. Len(e) : /\ \A i \in 1 .. k : e[i] # Pad
                                        /\ \A i \in k + 1 .. Len(e) : e[i] = Pad
        At(i) == IF i <= n THEN e[i] ELSE 0
        Bits(g) == ((At(g) * 64 + At(g + 1)) * 64 + At(g + 2)) * 64 + At(g + 3)
        shift == <<65536, 256, 1>>
    IN [i \in 1 .. (n * 3) \div 4 |->
          (Bits(4 * ((i - 1) \div 3) + 1) \div shift[((i - 1) % 3) + 1]) % 256]

(***************************************************************************)
(* Websocket frames.  The masking key is four unknown bytes, so a payload  *)
(* byte is the byte's index and the key byte it is combined with.          *)
(***************************************************************************)
LenMax7 == Byte \div 2 - 3     \* 125
LenMax16 == Half - 1           \* 0xffff
HeaderRoom == 14               \* "max frame header size"

HdrByte(v) == [v |-> v, key |-> -1]
KeyByte(j) == [v |-> -1, key |-> j]

PayloadLen(n) ==
    IF n <= LenMax7 THEN <<n>>
    ELSE IF n <= LenMax16 THEN <<LenMax7 + 1, (n \div Byte) % Byte, n % Byte>>
    ELSE <<LenMax7 + 2, 0, 0, 0, 0>> \o [i \in 1 .. 4 |-> Place(n, Byte, 4 - i)]

\* eight bytes at a time, then the rest one by one
Masked(n) ==
    LET whole == 8 * (n \div 8)
    IN [i \in 1 .. n |-> [v |-> i - 1,
                          key |-> IF i <= whole THEN ((i - 1) % 8) % 4 ELSE (i - 1) % 4]]

Frame(type, n) ==
    <<HdrByte(type)>> \o [i \in 1 .. Len(PayloadLen(n)) |-> HdrByte(PayloadLen(n)[i])]
      \o [j \in 1 .. 4 |-> KeyByte(j - 1)] \o Masked(n)

\* framelen of the code: computed beside the bytes it stands for
FrameLen(n) == n + (IF n <= LenMax7 THEN 6 ELSE IF n <= LenMax16 THEN 8 ELSE HeaderRoom)

\* what a server makes of the bytes (RFC 6455, section 5.2)
ExtBytes(f) == IF f[2].v <= LenMax7 THEN 0 ELSE IF f[2].v = LenMax7 + 1 THEN 2 ELSE 8
LongLen(f) == FoldLeft(LAMBDA v, b : v * Byte + b.v, 0, SubSeq(f, 3, 10))
Announced(f) ==
    CASE ExtBytes(f) = 0 -> f[2].v
      [] ExtBytes(f) = 2 -> f[3].v * Byte + f[4].v
      [] ExtBytes(f) = 8 -> LongLen(f)
Unmasks(f, ext, n) ==
    LET body == SubSeq(f, 2 + ext + 5, Len(f))
    IN /\ Len(body) = n
       /\ \A j \in 1 .. 4 : f[2 + ext + j] = KeyByte(j - 1)
       /\ \A i \in 1 .. n : body[i] = [v |-> i - 1, key |-> (i - 1) % 4]
Unframe(f) == [type |-> f[1].v, len |-> Announced(f),
               ok |-> Unmasks(f, ExtBytes(f), Announced(f))]

(***************************************************************************)
(* The 32-bit millisecond clock.                                           *)
(***************************************************************************)
\* mutant: the wrap of the clock is forgotten
ElapsedNoWrap(start, now) == IF now >= start THEN now - start ELSE 0

mangoHelper_elapsedTime(start, now) ==
    IF now >= start THEN now - start ELSE now + (Word - 1 - start)
=============================================================================
