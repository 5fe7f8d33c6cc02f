-------------------------- MODULE MangoWireProofs --------------------------
(***************************************************************************)
(* What the two sides make of each other's bytes, for any widths, files,   *)
(* buffers, credentials and sizes: numerals and base64 are read as they    *)
(* were meant, a request stays whole while its headers are added, and an   *)
(* upload arrives as long as it was announced.                             *)
(***************************************************************************)
EXTENDS MangoAppsProofs, WellFoundedInduction

-----------------------------------------------------------------------------
(***************************************************************************)
(* Recursion over an interval.                                             *)
(***************************************************************************)

\* A non-empty set of numbers has a smallest one.
LEMMA Smallest ==
  ASSUME NEW T, T \subseteq Nat, T # {}
  PROVE  \E n \in T : \A m \in T : n <= m
<1> DEFINE R == OpToRel(<, Nat)
<1>1. IsWellFoundedOn(R, Nat) BY NatLessThanWellFounded
<1> HIDE DEF R
<1>2. PICK n \in T : \A m \in T : ~(<<m, n>> \in R) BY <1>1, WFMin
<1>3. ASSUME NEW m \in T PROVE n <= m
  <2>1. ~(<<m, n>> \in R) BY <1>2
  <2>2. m \in Nat /\ n \in Nat OBVIOUS
  <2>3. ~(m < n) BY <2>1, <2>2 DEF R, OpToRel
  <2> QED BY <2>2, <2>3
<1> QED BY <1>3

\* Induction, for a set of numbers.
LEMMA Induct ==
  ASSUME NEW T, 0 \in T, \A k \in Nat : k \in T => k + 1 \in T
  PROVE  \A k \in Nat : k \in T
<1> DEFINE U == {k \in Nat : k \notin T}
<1>1. ASSUME U # {} PROVE FALSE
  <2>1. PICK n \in U : \A h \in U : n <= h BY <1>1, Smallest
  <2>2. n \in Nat /\ n # 0 /\ n \notin T BY <2>1
  <2>3. n - 1 \in Nat /\ (n - 1) + 1 = n /\ n - 1 < n BY <2>2
  <2>4. n - 1 \in T BY <2>1, <2>3
  <2> QED BY <2>2, <2>3, <2>4
<1> QED BY <1>1

\* f starts at a and goes on as step says, as far as m.
Follows(f, S, a, step, m) ==
    f \in [0 .. m -> S] /\ f[0] = a /\ \A i \in 1 .. m : f[i] = step[<<i, f[i - 1]>>]

\* There is such a function.
LEMMA Recursion ==
  ASSUME NEW S, NEW a \in S, NEW m \in Nat, NEW step \in [(1 .. m) \X S -> S]
  PROVE  \E f : Follows(f, S, a, step, m)
<1> DEFINE T == {n \in 0 .. m : ~\E f : Follows(f, S, a, step, n)}
<1>1. ASSUME T # {} PROVE FALSE
  <2>1. T \subseteq Nat OBVIOUS
  <2>2. PICK n \in T : \A h \in T : n <= h BY <1>1, <2>1, Smallest
  <2>3. n \in Nat /\ n <= m BY <2>2
  <2>4. CASE n = 0
    <3> DEFINE f == [i \in 0 .. 0 |-> a]
    <3>1. Follows(f, S, a, step, 0) BY DEF Follows
    <3> QED BY <2>2, <2>4, <3>1
  <2>5. CASE n # 0
    <3>1. n - 1 \in 0 .. m /\ n - 1 < n /\ n - 1 \in Nat BY <2>3, <2>5
    <3>2. n - 1 \notin T BY <2>2, <3>1
    <3>3. PICK f : Follows(f, S, a, step, n - 1) BY <3>1, <3>2
    <3>4. f \in [0 .. n - 1 -> S] /\ f[0] = a BY <3>3 DEF Follows
    <3>5. PICK e \in S : e = step[<<n, f[n - 1]>>]
      <4>1. f[n - 1] \in S /\ n \in 1 .. m BY <2>3, <2>5, <3>1, <3>4
      <4> QED BY <4>1
    <3> DEFINE g == [i \in 0 .. n |-> IF i < n THEN f[i] ELSE e]
    <3>6. ASSUME NEW i \in 0 .. n, i < n PROVE g[i] = f[i] /\ f[i] \in S
      <4>1. i \in 0 .. n - 1 BY <2>3, <3>6
      <4> QED BY <3>4, <3>6, <4>1
    <3>7. g[n] = e BY <2>3
    <3>8. g \in [0 .. n -> S] BY <3>6
    <3>9. ASSUME NEW i \in 1 .. n PROVE g[i] = step[<<i, g[i - 1]>>]
      <4>1. i - 1 \in 0 .. n /\ i - 1 < n /\ i \in 0 .. n BY <2>3
      <4>2. g[i - 1] = f[i - 1] BY <3>6, <4>1
      <4>3. CASE i < n
        <5>1. i \in 1 .. n - 1 BY <2>3, <4>3
        <5>2. f[i] = step[<<i, f[i - 1]>>] BY <3>3, <5>1 DEF Follows
        <5>3. g[i] = f[i] BY <3>6, <4>1, <4>3
        <5> HIDE DEF g
        <5> QED BY <4>2, <5>2, <5>3
      <4>4. CASE i = n
        <5> HIDE DEF g
        <5> QED BY <3>5, <3>7, <4>2, <4>4
      <4> QED BY <2>3, <4>3, <4>4
    <3>10. g[0] = a BY <2>3, <2>5, <3>4
    <3> HIDE DEF g
    <3>11. Follows(g, S, a, step, n) BY <3>8, <3>9, <3>10 DEF Follows
    <3> QED BY <2>2, <3>11
  <2> QED BY <2>4, <2>5
<1>2. m \in 0 .. m OBVIOUS
<1> QED BY <1>1, <1>2

\* Functions that agree at 0, and at i if they do before it, agree.
LEMMA Agree ==
  ASSUME NEW k \in Nat, NEW f, NEW g, f[0] = g[0],
         \A i \in 1 .. k : f[i - 1] = g[i - 1] => f[i] = g[i]
  PROVE  \A i \in 0 .. k : f[i] = g[i]
<1> DEFINE T == {i \in 0 .. k : f[i] # g[i]}
<1>1. ASSUME T # {} PROVE FALSE
  <2>1. T \subseteq Nat OBVIOUS
  <2>2. PICK n \in T : \A h \in T : n <= h BY <1>1, <2>1, Smallest
  <2>3. n \in 0 .. k /\ f[n] # g[n] BY <2>2
  <2>4. n \in 1 .. k /\ n - 1 \in 0 .. k /\ n - 1 < n BY <2>3
  <2>5. f[n - 1] = g[n - 1] BY <2>2, <2>4
  <2> QED BY <2>3, <2>4, <2>5
<1> QED BY <1>1

-----------------------------------------------------------------------------
(***************************************************************************)
(* Numerals.                                                               *)
(***************************************************************************)

\* One division, and the function that makes k of them.
Division(base, k) == [p \in (1 .. k) \X Nat |-> p[2] \div base]

\* Quot is the value such a function ends with: k divisions by the base.
LEMMA QuotIs ==
  ASSUME NEW n \in Nat, NEW base \in Nat, base > 0, NEW k \in Nat
  PROVE  \E f : Follows(f, Nat, n, Division(base, k), k) /\ Quot(n, base, k) = f[k]
<1> DEFINE step == Division(base, k)
           Def(g) == [i \in 0 .. k |-> IF i = 0 THEN n ELSE g[i - 1] \div base]
           q == CHOOSE g : g = Def(g)
<1>1. step \in [(1 .. k) \X Nat -> Nat]
      /\ \A i \in 1 .. k : \A x \in Nat : step[<<i, x>>] = x \div base
  <2>1. \A x \in Nat : x \div base \in Nat OBVIOUS
  <2> QED BY <2>1 DEF Division
<1> HIDE DEF step
<1>2. PICK f : Follows(f, Nat, n, step, k) BY <1>1, Recursion
<1>3. f = Def(f)
  <2>1. ASSUME NEW i \in 0 .. k PROVE f[i] = IF i = 0 THEN n ELSE f[i - 1] \div base
    <3>1. CASE i = 0 BY <1>2, <3>1 DEF Follows
    <3>2. CASE i # 0
      <4>1. i \in 1 .. k /\ i - 1 \in 0 .. k BY <3>2
      <4>2. f[i] = step[<<i, f[i - 1]>>] /\ f[i - 1] \in Nat BY <1>2, <4>1 DEF Follows
      <4> QED BY <1>1, <3>2, <4>1, <4>2
    <3> QED BY <3>1, <3>2
  <2>2. f \in [0 .. k -> Nat] BY <1>2 DEF Follows
  <2> QED BY <2>1, <2>2
<1>4. q = Def(q) BY <1>3
<1>5. Quot(n, base, k) = q[k] BY DEF Quot
<1> HIDE DEF q
<1>6. \A i \in 0 .. k : q[i] = IF i = 0 THEN n ELSE q[i - 1] \div base BY <1>4
<1> HIDE DEF Def
<1>7. q[0] = f[0] BY <1>2, <1>6 DEF Follows
<1>8. ASSUME NEW i \in 1 .. k, q[i - 1] = f[i - 1] PROVE q[i] = f[i]
  <2>1. i \in 0 .. k /\ i # 0 /\ i - 1 \in 0 .. k OBVIOUS
  <2>2. f[i] = step[<<i, f[i - 1]>>] /\ f[i - 1] \in Nat BY <1>2, <2>1 DEF Follows
  <2>3. q[i] = q[i - 1] \div base BY <1>6, <2>1
  <2> QED BY <1>1, <1>8, <2>2, <2>3
<1>9. \A i \in 0 .. k : q[i] = f[i] BY <1>7, <1>8, Agree
<1> QED BY <1>2, <1>5, <1>9 DEF step

\* The quotients, one after the other.
LEMMA QuotNext ==
  ASSUME NEW n \in Nat, NEW base \in Nat, base > 0
  PROVE  /\ Quot(n, base, 0) = n
         /\ \A k \in Nat : /\ Quot(n, base, k) \in Nat
                           /\ Quot(n, base, k + 1) = Quot(n, base, k) \div base
<1>1. Quot(n, base, 0) = n
  <2>1. PICK f : Follows(f, Nat, n, Division(base, 0), 0) /\ Quot(n, base, 0) = f[0]
    BY QuotIs
  <2> QED BY <2>1 DEF Follows
<1>2. ASSUME NEW k \in Nat
      PROVE  /\ Quot(n, base, k) \in Nat
             /\ Quot(n, base, k + 1) = Quot(n, base, k) \div base
  <2>1. PICK f : Follows(f, Nat, n, Division(base, k), k) /\ Quot(n, base, k) = f[k]
    BY QuotIs
  <2>2. PICK g : Follows(g, Nat, n, Division(base, k + 1), k + 1)
                 /\ Quot(n, base, k + 1) = g[k + 1]
    <3>1. k + 1 \in Nat OBVIOUS
    <3> QED BY <3>1, QuotIs
  <2>3. k + 1 \in 1 .. k + 1 /\ (k + 1) - 1 = k /\ k \in 0 .. k /\ k \in 0 .. k + 1
        /\ k + 1 \in Nat
    OBVIOUS
  <2>4. ASSUME NEW i \in 1 .. k, g[i - 1] = f[i - 1] PROVE g[i] = f[i]
    <3>1. i \in 1 .. k + 1 /\ i - 1 \in 0 .. k OBVIOUS
    <3>2. /\ f[i] = Division(base, k)[<<i, f[i - 1]>>] /\ f[i - 1] \in Nat
          /\ g[i] = Division(base, k + 1)[<<i, g[i - 1]>>]
      BY <2>1, <2>2, <3>1 DEF Follows
    <3> QED BY <2>4, <3>1, <3>2 DEF Division
  <2>5. \A i \in 0 .. k : g[i] = f[i]
    <3>1. g[0] = f[0] BY <2>1, <2>2 DEF Follows
    <3> QED BY <2>4, <3>1, Agree
  <2>6. g[k + 1] = Division(base, k + 1)[<<k + 1, g[k]>>] /\ f[k] \in Nat
    BY <2>1, <2>2, <2>3 DEF Follows
  <2>7. g[k] = f[k] BY <2>3, <2>5
  <2>8. g[k + 1] = f[k] \div base BY <2>3, <2>6, <2>7 DEF Division
  <2> QED BY <2>1, <2>2, <2>6, <2>8
<1> QED BY <1>1, <1>2

\* A quotient and a remainder.
LEMMA Divides ==
  ASSUME NEW b \in Nat, b > 0, NEW n \in Nat
  PROVE  /\ n \div b \in Nat /\ n % b \in 0 .. b - 1 /\ n = (n \div b) * b + (n % b)
         /\ n \div b <= n
         /\ \A m \in Nat : n <= m => n \div b <= m \div b
         /\ \A c \in Nat : n < b * c => n \div b < c
<1>1. PICK q \in Int : q = n \div b OBVIOUS
<1>2. PICK r \in Int : r = n % b OBVIOUS
<1>3. n = b * q + r /\ r \in 0 .. b - 1 BY <1>1, <1>2
<1>4. q \in Nat BY <1>1
<1>5. q <= n BY <1>3, <1>4
<1>6. ASSUME NEW m \in Nat, n <= m PROVE n \div b <= m \div b
  BY <1>6
<1>7. ASSUME NEW c \in Nat, n < b * c PROVE n \div b < c
  BY <1>7
<1>8. b * q = q * b BY <1>4
<1>9. n = (n \div b) * b + (n % b) BY <1>1, <1>2, <1>3, <1>8
<1>10. n \div b \in Nat /\ n % b \in 0 .. b - 1 /\ n \div b <= n BY <1>1, <1>2, <1>3, <1>4, <1>5
<1> QED BY <1>6, <1>7, <1>9, <1>10

\* Dividing makes nothing larger, keeps the order and leaves a zero a zero.
LEMMA QuotBounds ==
  ASSUME NEW n \in Nat, NEW base \in Nat, base > 0
  PROVE  /\ \A k \in Nat : Quot(n, base, k) <= n
         /\ \A m \in Nat : n <= m => \A k \in Nat : Quot(n, base, k) <= Quot(m, base, k)
         /\ \A k, j \in Nat : Quot(n, base, k) = 0 => Quot(n, base, k + j) = 0
<1>1. Quot(n, base, 0) = n
      /\ \A k \in Nat : /\ Quot(n, base, k) \in Nat
                        /\ Quot(n, base, k + 1) = Quot(n, base, k) \div base
  BY QuotNext
<1>2. \A k \in Nat : Quot(n, base, k) <= n
  <2> DEFINE T == {k \in Nat : Quot(n, base, k) <= n}
  <2>1. 0 \in T BY <1>1
  <2>2. ASSUME NEW k \in Nat, k \in T PROVE k + 1 \in T
    <3>1. PICK x \in Nat : x = Quot(n, base, k) BY <1>1
    <3>2. x \div base \in Nat /\ x \div base <= x BY Divides
    <3>3. Quot(n, base, k + 1) = x \div base BY <1>1, <3>1
    <3>4. x <= n BY <2>2, <3>1
    <3> QED BY <3>2, <3>3, <3>4
  <2>3. \A k \in Nat : k \in T
    <3> HIDE DEF T
    <3> QED BY <2>1, <2>2, Induct
  <2> QED BY <2>3
<1>3. ASSUME NEW m \in Nat, n <= m PROVE \A k \in Nat : Quot(n, base, k) <= Quot(m, base, k)
  <2> DEFINE T == {k \in Nat : Quot(n, base, k) <= Quot(m, base, k)}
  <2>0. Quot(m, base, 0) = m
        /\ \A k \in Nat : /\ Quot(m, base, k) \in Nat
                          /\ Quot(m, base, k + 1) = Quot(m, base, k) \div base
    BY QuotNext
  <2>1. 0 \in T BY <1>1, <1>3, <2>0
  <2>2. ASSUME NEW k \in Nat, k \in T PROVE k + 1 \in T
    <3>1. PICK x \in Nat : x = Quot(n, base, k) BY <1>1
    <3>2. PICK y \in Nat : y = Quot(m, base, k) BY <2>0
    <3>3. x <= y BY <2>2, <3>1, <3>2
    <3>4. x \div base <= y \div base BY <3>3, Divides
    <3>5. Quot(n, base, k + 1) = x \div base /\ Quot(m, base, k + 1) = y \div base
      BY <1>1, <2>0, <3>1, <3>2
    <3> QED BY <3>4, <3>5
  <2>3. \A k \in Nat : k \in T
    <3> HIDE DEF T
    <3> QED BY <2>1, <2>2, Induct
  <2> QED BY <2>3
<1>4. ASSUME NEW k \in Nat, Quot(n, base, k) = 0 PROVE \A j \in Nat : Quot(n, base, k + j) = 0
  <2> DEFINE T == {j \in Nat : Quot(n, base, k + j) = 0}
  <2>1. 0 \in T BY <1>4
  <2>2. ASSUME NEW j \in Nat, j \in T PROVE j + 1 \in T
    <3>1. Quot(n, base, (k + j) + 1) = Quot(n, base, k + j) \div base BY <1>1
    <3>2. Quot(n, base, k + j) = 0 /\ 0 \div base = 0 BY <2>2
    <3>3. (k + j) + 1 = k + (j + 1) OBVIOUS
    <3> QED BY <3>1, <3>2, <3>3
  <2>3. \A j \in Nat : j \in T
    <3> HIDE DEF T
    <3> QED BY <2>1, <2>2, Induct
  <2> QED BY <2>3
<1> QED BY <1>2, <1>3, <1>4

\* One digit more, and the function that reads k of them.
Reading(s, base, k) == [p \in (1 .. k) \X Nat |-> (p[2] * base + s[p[1]]) % Word]

\* Value is what such a function ends with: the 32 bit total after k digits.
LEMMA ValueIs ==
  ASSUME NEW base \in Nat, base > 0, NEW k \in Nat, NEW s, \A i \in 1 .. k : s[i] \in Nat
  PROVE  \E f : Follows(f, Nat, 0, Reading(s, base, k), k) /\ Value(s, k, base) = f[k]
<1> DEFINE step == Reading(s, base, k)
           Def(g) == [i \in 0 .. k |-> IF i = 0 THEN 0 ELSE (g[i - 1] * base + s[i]) % Word]
           v == CHOOSE g : g = Def(g)
<1>1. step \in [(1 .. k) \X Nat -> Nat]
      /\ \A i \in 1 .. k : \A x \in Nat : step[<<i, x>>] = (x * base + s[i]) % Word
  <2>1. ASSUME NEW i \in 1 .. k, NEW x \in Nat PROVE (x * base + s[i]) % Word \in Nat
    <3>1. PICK w \in Nat : w = Word /\ w > 0 BY Widths
    <3>2. PICK y \in Nat : y = x * base + s[i]
      <4>1. x * base \in Nat OBVIOUS
      <4> QED BY <4>1
    <3>3. y % w \in Nat BY <3>1
    <3> QED BY <3>1, <3>2, <3>3
  <2> QED BY <2>1 DEF Reading
<1> HIDE DEF step
<1>2. PICK f : Follows(f, Nat, 0, step, k) BY <1>1, Recursion
<1>3. f = Def(f)
  <2>1. ASSUME NEW i \in 0 .. k PROVE f[i] = IF i = 0 THEN 0 ELSE (f[i - 1] * base + s[i]) % Word
    <3>1. CASE i = 0 BY <1>2, <3>1 DEF Follows
    <3>2. CASE i # 0
      <4>1. i \in 1 .. k /\ i - 1 \in 0 .. k BY <3>2
      <4>2. f[i] = step[<<i, f[i - 1]>>] /\ f[i - 1] \in Nat BY <1>2, <4>1 DEF Follows
      <4> QED BY <1>1, <3>2, <4>1, <4>2
    <3> QED BY <3>1, <3>2
  <2>2. f \in [0 .. k -> Nat] BY <1>2 DEF Follows
  <2> QED BY <2>1, <2>2
<1>4. v = Def(v) BY <1>3
<1>5. Value(s, k, base) = v[k] BY DEF Value
<1> HIDE DEF v
<1>6. \A i \in 0 .. k : v[i] = IF i = 0 THEN 0 ELSE (v[i - 1] * base + s[i]) % Word BY <1>4
<1> HIDE DEF Def
<1>7. v[0] = f[0] BY <1>2, <1>6 DEF Follows
<1>8. ASSUME NEW i \in 1 .. k, v[i - 1] = f[i - 1] PROVE v[i] = f[i]
  <2>1. i \in 0 .. k /\ i # 0 /\ i - 1 \in 0 .. k OBVIOUS
  <2>2. f[i] = step[<<i, f[i - 1]>>] /\ f[i - 1] \in Nat BY <1>2, <2>1 DEF Follows
  <2>3. v[i] = (v[i - 1] * base + s[i]) % Word BY <1>6, <2>1
  <2> QED BY <1>1, <1>8, <2>2, <2>3
<1>9. \A i \in 0 .. k : v[i] = f[i] BY <1>7, <1>8, Agree
<1> QED BY <1>2, <1>5, <1>9 DEF step

\* A string of w digits that n leaves when it is divided, the last one first.
Spells(s, n, base, w) ==
    w \in Nat /\ (\A i \in 1 .. w : s[i] = Quot(n, base, w - i) % base) /\ Quot(n, base, w) = 0

\* The digits of a word are read as that word.
LEMMA SpellsValue ==
  ASSUME NEW base \in Nat, base > 0, NEW n \in Nat, n < Word, NEW s, NEW w, Spells(s, n, base, w)
  PROVE  Value(s, w, base) = n /\ \A i \in 1 .. w : s[i] \in 0 .. base - 1
<1>0. w \in Nat /\ Quot(n, base, w) = 0 BY DEF Spells
<1>1. /\ Quot(n, base, 0) = n /\ \A k \in Nat : Quot(n, base, k) \in Nat
      /\ \A k \in Nat : Quot(n, base, k + 1) = Quot(n, base, k) \div base
  BY QuotNext
<1>2. ASSUME NEW i \in 1 .. w
      PROVE  /\ w - i \in Nat /\ s[i] = Quot(n, base, w - i) % base /\ s[i] \in 0 .. base - 1
             /\ Quot(n, base, w - i) = Quot(n, base, w - (i - 1)) * base + s[i]
  <2>1. w - i \in Nat /\ (w - i) + 1 = w - (i - 1) BY <1>0
  <2>2. PICK x \in Nat : x = Quot(n, base, w - i) BY <1>1, <2>1
  <2>3. x % base \in 0 .. base - 1 /\ x = (x \div base) * base + (x % base) BY Divides
  <2>4. Quot(n, base, w - (i - 1)) = x \div base BY <1>1, <2>1, <2>2
  <2>5. s[i] = x % base BY <2>2 DEF Spells
  <2> QED BY <2>1, <2>2, <2>3, <2>4, <2>5
<1>3. \A i \in 1 .. w : s[i] \in Nat BY <1>2
<1>4. PICK f : Follows(f, Nat, 0, Reading(s, base, w), w) /\ Value(s, w, base) = f[w]
  BY <1>0, <1>3, ValueIs
<1> DEFINE g == [i \in 0 .. w |-> Quot(n, base, w - i)]
<1>5. f[0] = g[0] BY <1>0, <1>4 DEF Follows
<1>6. ASSUME NEW i \in 1 .. w, f[i - 1] = g[i - 1] PROVE f[i] = g[i]
  <2>1. i - 1 \in 0 .. w /\ i \in 0 .. w /\ w - i \in Nat BY <1>0
  <2>2. f[i] = Reading(s, base, w)[<<i, f[i - 1]>>] /\ f[i - 1] \in Nat BY <1>4, <2>1 DEF Follows
  <2>3. f[i] = (f[i - 1] * base + s[i]) % Word BY <2>2 DEF Reading
  <2>4. g[i - 1] = Quot(n, base, w - (i - 1)) /\ g[i] = Quot(n, base, w - i) BY <2>1
  <2>5. f[i] = Quot(n, base, w - i) % Word BY <1>2, <1>6, <2>3, <2>4
  <2>6. PICK x \in Nat : x = Quot(n, base, w - i) BY <1>1, <2>1
  <2>7. x <= n BY <2>1, <2>6, QuotBounds
  <2>8. PICK m \in Nat : m = Word /\ m > 0 BY Widths
  <2>9. x < m /\ x % m = x BY <2>7, <2>8
  <2> QED BY <2>4, <2>5, <2>6, <2>8, <2>9
<1>7. \A i \in 0 .. w : f[i] = g[i]
  <2> HIDE DEF g
  <2> QED BY <1>0, <1>5, <1>6, Agree
<1>8. f[w] = n BY <1>0, <1>1, <1>7
<1> QED BY <1>2, <1>4, <1>8

\* mangoHelper_dec2decstr: as many digits as n has, at least one.
LEMMA DecSpells ==
  ASSUME NEW n \in Nat, n < Word
  PROVE  \E w \in 1 .. DecDigits :
           LET s == mangoHelper_dec2decstr(n)
           IN s \in Seq(Int) /\ Len(s) = w /\ Spells(s, n, 10, w)
<1> DEFINE P(k) == Quot(n, 10, k) = 0 /\ (k = 1 \/ Quot(n, 10, k - 1) # 0)
           w == CHOOSE k \in 1 .. DecDigits : P(k)
           s == mangoHelper_dec2decstr(n)
<1>0. DecDigits \in Nat /\ DecDigits >= 1 BY DigitsAssumption
<1>1. Quot(n, 10, DecDigits) = 0
  <2>1. PICK m \in Nat : m = Word - 1 /\ n <= m BY Widths
  <2>2. Quot(n, 10, DecDigits) <= Quot(m, 10, DecDigits) BY <1>0, <2>1, QuotBounds
  <2>3. Quot(m, 10, DecDigits) = 0 BY <2>1, DigitsAssumption
  <2>4. Quot(n, 10, DecDigits) \in Nat BY <1>0, QuotNext
  <2> QED BY <2>2, <2>3, <2>4
<1>2. \E k \in 1 .. DecDigits : P(k)
  <2> DEFINE T == {k \in 1 .. DecDigits : Quot(n, 10, k) = 0}
  <2>1. T \subseteq Nat /\ T # {} BY <1>0, <1>1
  <2>2. PICK k \in T : \A h \in T : k <= h BY <2>1, Smallest
  <2>3. k = 1 \/ k - 1 \in 1 .. DecDigits BY <1>0, <2>2
  <2>4. k = 1 \/ k - 1 \notin T BY <1>0, <2>2
  <2> QED BY <2>2, <2>3, <2>4
<1>3. w \in 1 .. DecDigits /\ P(w) BY <1>2
<1>4. s = [i \in 1 .. w |-> Quot(n, 10, w - i) % 10] BY DEF mangoHelper_dec2decstr
<1> HIDE DEF w, s
<1>5. w \in Nat BY <1>3
<1>6. ASSUME NEW i \in 1 .. w PROVE Quot(n, 10, w - i) % 10 \in Int
  <2>1. w - i \in Nat BY <1>5
  <2>2. PICK x \in Nat : x = Quot(n, 10, w - i) BY <2>1, QuotNext
  <2>3. x % 10 \in Int OBVIOUS
  <2> QED BY <2>2, <2>3
<1>7. s \in Seq(Int) /\ Len(s) = w BY <1>4, <1>5, <1>6
<1>8. Spells(s, n, 10, w) BY <1>3, <1>4, <1>5 DEF Spells
<1> QED BY <1>3, <1>7, <1>8 DEF s

\* A word has eight hexadecimal digits.
LEMMA HexZero ==
  ASSUME NEW n \in Nat, n < Word
  PROVE  Quot(n, Hex, 8) = 0
<1>0. Hex \in Nat /\ Hex > 0 BY WidthAssumption
<1>1. /\ Quot(n, Hex, 0) = n /\ \A k \in Nat : Quot(n, Hex, k) \in Nat
      /\ \A k \in Nat : Quot(n, Hex, k + 1) = Quot(n, Hex, k) \div Hex
  BY <1>0, QuotNext
<1>2. ASSUME NEW k \in Nat, NEW c \in Nat, Quot(n, Hex, k) < Hex * c
      PROVE  Quot(n, Hex, k + 1) < c
  <2>1. PICK x \in Nat : x = Quot(n, Hex, k) BY <1>1
  <2>2. x \div Hex < c BY <1>0, <1>2, <2>1, Divides
  <2> QED BY <1>1, <2>1, <2>2
<1> DEFINE c2 == Hex * Hex
           c3 == Hex * c2
           c4 == Hex * c3
           c5 == Hex * c4
           c6 == Hex * c5
           c7 == Hex * c6
<1>3. Word = Hex * c7
  <2>1. ASSUME NEW h \in Nat
        PROVE  ((h * h) * (h * h)) * ((h * h) * (h * h))
                 = h * (h * (h * (h * (h * (h * (h * h))))))
    OBVIOUS
  <2> QED BY <1>0, <2>1 DEF Word, Half, Byte
<1>4. c2 \in Nat BY <1>0
<1> HIDE DEF c2
<1>5. c3 \in Nat BY <1>0, <1>4
<1> HIDE DEF c3
<1>6. c4 \in Nat BY <1>0, <1>5
<1> HIDE DEF c4
<1>7. c5 \in Nat BY <1>0, <1>6
<1> HIDE DEF c5
<1>8. c6 \in Nat BY <1>0, <1>7
<1> HIDE DEF c6
<1>9. c7 \in Nat BY <1>0, <1>8
<1> HIDE DEF c7
<1>10. Quot(n, Hex, 0 + 1) < c7 BY <1>1, <1>2, <1>3, <1>9
<1>11. Quot(n, Hex, 1 + 1) < c6 BY <1>2, <1>8, <1>10 DEF c7
<1>12. Quot(n, Hex, 2 + 1) < c5 BY <1>2, <1>7, <1>11 DEF c6
<1>13. Quot(n, Hex, 3 + 1) < c4 BY <1>2, <1>6, <1>12 DEF c5
<1>14. Quot(n, Hex, 4 + 1) < c3 BY <1>2, <1>5, <1>13 DEF c4
<1>15. Quot(n, Hex, 5 + 1) < c2 BY <1>2, <1>4, <1>14 DEF c3
<1>16. Quot(n, Hex, 6 + 1) < Hex BY <1>0, <1>2, <1>15 DEF c2
<1>17. Quot(n, Hex, 7 + 1) < 1
  <2>1. Hex * 1 = Hex BY <1>0
  <2> QED BY <1>2, <1>16, <2>1
<1>18. Quot(n, Hex, 8) \in Nat BY <1>1
<1> QED BY <1>17, <1>18

\* mangoHelper_dec2hexstr: what it writes for a number that is not zero.
LEMMA HexSpells ==
  ASSUME NEW n \in Nat, n > 0, n < Word
  PROVE  \E w \in 1 .. 8 :
           LET s == mangoHelper_dec2hexstr(n)
           IN s \in Seq(Int) /\ Len(s) = w /\ Spells(s, n, Hex, w)
<1> DEFINE hex == [i \in 1 .. 8 |-> Quot(n, Hex, 8 - i) % Hex]
           S == {i \in 1 .. 8 : hex[i] # 0}
           f == CHOOSE i \in S : \A j \in S : i <= j
           s == SubSeq(hex, f, 8)
<1>0. Hex \in Nat /\ Hex > 0 BY WidthAssumption
<1>1. /\ Quot(n, Hex, 0) = n /\ \A k \in Nat : Quot(n, Hex, k) \in Nat
      /\ \A k \in Nat : Quot(n, Hex, k + 1) = Quot(n, Hex, k) \div Hex
  BY <1>0, QuotNext
<1>2. ASSUME NEW i \in 1 .. 8
      PROVE  hex[i] \in Nat /\ 8 - i \in Nat /\ hex[i] = Quot(n, Hex, 8 - i) % Hex
             /\ Quot(n, Hex, 8 - i) = Quot(n, Hex, 8 - (i - 1)) * Hex + hex[i]
  <2>1. 8 - i \in Nat /\ (8 - i) + 1 = 8 - (i - 1) OBVIOUS
  <2>2. PICK x \in Nat : x = Quot(n, Hex, 8 - i) BY <1>1, <2>1
  <2>3. x % Hex \in 0 .. Hex - 1 /\ x = (x \div Hex) * Hex + (x % Hex) BY <1>0, Divides
  <2>4. Quot(n, Hex, 8 - (i - 1)) = x \div Hex BY <1>1, <2>1, <2>2
  <2>5. hex[i] = x % Hex BY <2>2
  <2> HIDE DEF hex
  <2> QED BY <1>0, <2>1, <2>2, <2>3, <2>4, <2>5
<1>3. hex \in Seq(Int) /\ Len(hex) = 8
  <2>1. \A i \in 1 .. 8 : Quot(n, Hex, 8 - i) % Hex \in Int BY <1>2
  <2> QED BY <2>1
<1> HIDE DEF hex
<1>4. ASSUME NEW j \in 0 .. 8, \A i \in 1 .. j : hex[i] = 0 PROVE Quot(n, Hex, 8 - j) = 0
  <2> DEFINE a == [i \in 0 .. j |-> Quot(n, Hex, 8 - i)]
             z == [i \in 0 .. j |-> 0]
  <2>1. a[0] = z[0] BY HexZero
  <2>2. ASSUME NEW i \in 1 .. j, a[i - 1] = z[i - 1] PROVE a[i] = z[i]
    <3>1. i \in 1 .. 8 /\ i - 1 \in 0 .. j /\ i \in 0 .. j OBVIOUS
    <3>2. Quot(n, Hex, 8 - (i - 1)) = 0 /\ hex[i] = 0 BY <1>4, <2>2, <3>1
    <3>3. Quot(n, Hex, 8 - i) = 0 * Hex + 0 BY <1>2, <3>1, <3>2
    <3> QED BY <1>0, <3>1, <3>3
  <2>3. \A i \in 0 .. j : a[i] = z[i]
    <3> HIDE DEF a, z
    <3>1. j \in Nat OBVIOUS
    <3> QED BY <2>1, <2>2, <3>1, Agree
  <2> QED BY <2>3
<1>5. S # {}
  <2>1. S = {} => \A i \in 1 .. 8 : hex[i] = 0 OBVIOUS
  <2>2. S = {} => Quot(n, Hex, 8 - 8) = 0 BY <1>4, <2>1
  <2> QED BY <1>1, <2>2
<1>6. f \in S /\ \A j \in S : f <= j
  <2>1. S \subseteq Nat OBVIOUS
  <2>2. \E i \in S : \A j \in S : i <= j BY <1>5, <2>1, Smallest
  <2> HIDE DEF S
  <2> QED BY <2>2
<1>7. mangoHelper_dec2hexstr(n) = s BY <1>5 DEF mangoHelper_dec2hexstr, hex
<1> HIDE DEF f
<1>8. f \in 1 .. 8 /\ \A i \in 1 .. f - 1 : hex[i] = 0 BY <1>6
<1> DEFINE w == 9 - f
<1>9. w \in 1 .. 8 /\ w = 8 - f + 1 BY <1>8
<1>10. s \in Seq(Int) /\ Len(s) = w /\ \A i \in 1 .. w : s[i] = hex[f + i - 1]
  <2>1. \A i \in f .. 8 : hex[i] \in Int BY <1>2, <1>8
  <2>2. f \in Int /\ 8 \in Int /\ f <= 8 + 1 BY <1>8
  <2> QED BY <1>3, <1>8, <1>9, <2>1, <2>2, SubSeqProperties
<1> HIDE DEF s
<1>11. Spells(s, n, Hex, w)
  <2>1. ASSUME NEW i \in 1 .. w PROVE s[i] = Quot(n, Hex, w - i) % Hex
    <3>1. f + i - 1 \in 1 .. 8 /\ 8 - (f + i - 1) = w - i BY <1>8
    <3>2. hex[f + i - 1] = Quot(n, Hex, 8 - (f + i - 1)) % Hex BY <1>2, <3>1
    <3> QED BY <1>10, <3>1, <3>2
  <2>2. Quot(n, Hex, w) = 0
    <3>1. f - 1 \in 0 .. 8 /\ 8 - (f - 1) = w BY <1>8
    <3>2. Quot(n, Hex, 8 - (f - 1)) = 0 BY <1>4, <1>8, <3>1
    <3> QED BY <3>1, <3>2
  <2>3. w \in Nat BY <1>9
  <2> QED BY <2>1, <2>2, <2>3 DEF Spells
<1> HIDE DEF w
<1> QED BY <1>7, <1>9, <1>10, <1>11

\* A string that n is written in: its digits, then blanks.
Numeral(v, n, base, w) ==
    /\ v \in Seq(Int) /\ w \in 1 .. Len(v) /\ Spells(v, n, base, w)
    /\ \A i \in w + 1 .. Len(v) : v[i] = Blank

\* Its digits are counted and read.
LEMMA NumeralRead ==
  ASSUME NEW base \in Nat, base > 0, NEW n \in Nat, n < Word, NEW v, NEW w,
         Numeral(v, n, base, w)
  PROVE  /\ Leading(v, base) = w /\ Value(v, w, base) = n
         /\ \A i \in 1 .. w : v[i] \in 0 .. base - 1
<1>1. v \in Seq(Int) /\ Len(v) \in Nat /\ w \in 1 .. Len(v) /\ Spells(v, n, base, w)
      /\ \A i \in w + 1 .. Len(v) : v[i] = Blank
  <2>1. v \in Seq(Int) BY DEF Numeral
  <2> QED BY <2>1 DEF Numeral
<1>2. Value(v, w, base) = n /\ \A i \in 1 .. w : v[i] \in 0 .. base - 1 BY <1>1, SpellsValue
<1> DEFINE P(k) == /\ \A i \in 1 .. k : v[i] \in 0 .. base - 1
                   /\ k = Len(v) \/ v[k + 1] \notin 0 .. base - 1
<1>3. w \in 0 .. Len(v) /\ P(w)
  <2>1. w = Len(v) \/ w + 1 \in w + 1 .. Len(v) BY <1>1
  <2>2. Blank \notin 0 .. base - 1 BY DEF Blank
  <2> QED BY <1>1, <1>2, <2>1, <2>2
<1>4. ASSUME NEW k \in 0 .. Len(v), P(k) PROVE k = w
  <2>1. ~(k < w)
    <3>1. k < w => k + 1 \in 1 .. w /\ k # Len(v) BY <1>1
    <3> QED BY <1>2, <1>4, <3>1
  <2>2. ~(w < k)
    <3>1. w < k => w + 1 \in 1 .. k /\ w # Len(v) BY <1>1
    <3> QED BY <1>3, <1>4, <3>1
  <2> QED BY <1>1, <2>1, <2>2
<1>5. Leading(v, base) = CHOOSE k \in 0 .. Len(v) : P(k) BY DEF Leading
<1> HIDE DEF P
<1>6. Leading(v, base) = w BY <1>3, <1>4, <1>5
<1> QED BY <1>2, <1>6

\* mangoHelper_httpHeaderGet cuts the blanks off.
LEMMA NumeralTrimmed ==
  ASSUME NEW base \in Nat, base > 0, NEW n \in Nat, n < Word, NEW v, NEW w,
         Numeral(v, n, base, w)
  PROVE  Numeral(Trimmed(v), n, base, w)
<1> DEFINE S == {i \in 1 .. Len(v) : v[i] # Blank}
           m == CHOOSE i \in S : \A j \in S : j <= i
           t == SubSeq(v, 1, w)
<1>1. v \in Seq(Int) /\ Len(v) \in Nat /\ w \in 1 .. Len(v) /\ Spells(v, n, base, w)
      /\ \A i \in w + 1 .. Len(v) : v[i] = Blank
  <2>1. v \in Seq(Int) BY DEF Numeral
  <2> QED BY <2>1 DEF Numeral
<1>2. \A i \in 1 .. w : v[i] \in 0 .. base - 1 BY NumeralRead
<1>3. \A i \in 1 .. Len(v) : i \in S <=> i <= w
  <2>1. ASSUME NEW i \in 1 .. Len(v), i <= w PROVE v[i] # Blank
    <3>1. i \in 1 .. w BY <1>1, <2>1
    <3> QED BY <1>2, <3>1 DEF Blank
  <2>2. ASSUME NEW i \in 1 .. Len(v), ~(i <= w) PROVE v[i] = Blank
    <3>1. i \in w + 1 .. Len(v) BY <1>1, <2>2
    <3> QED BY <1>1, <3>1
  <2> QED BY <2>1, <2>2
<1>4. w \in S /\ \A j \in S : j <= w /\ j \in Nat BY <1>1, <1>3
<1>5. m = w
  <2> HIDE DEF S
  <2>1. m \in S /\ \A j \in S : j <= m BY <1>4
  <2> HIDE DEF m
  <2>2. m <= w /\ w <= m /\ m \in Nat /\ w \in Nat BY <1>4, <2>1
  <2> QED BY <2>2
<1>6. Trimmed(v) = t BY <1>4, <1>5 DEF Trimmed
<1>7. t \in Seq(Int) /\ Len(t) = w /\ \A i \in 1 .. w : t[i] = v[i]
  <2>1. \A i \in 1 .. w : v[i] \in Int BY <1>1
  <2>2. w \in Nat BY <1>1
  <2>3. /\ t \in Seq(Int) /\ Len(t) = w - 1 + 1
        /\ \A i \in 1 .. w - 1 + 1 : t[i] = v[1 + i - 1]
    BY <1>1, <2>1, <2>2, SubSeqProperties
  <2>4. w - 1 + 1 = w /\ \A i \in 1 .. w : 1 + i - 1 = i BY <2>2
  <2> HIDE DEF t
  <2> QED BY <2>3, <2>4
<1> HIDE DEF t
<1>8. Spells(t, n, base, w) BY <1>1, <1>7 DEF Spells
<1>9. w \in 1 .. w /\ w + 1 .. w = {} BY <1>1
<1> QED BY <1>6, <1>7, <1>8, <1>9 DEF Numeral

\* Zeros in front and blanks behind leave it a numeral.
LEMMA NumeralSpelling ==
  ASSUME NEW base \in Nat, base > 0, NEW n \in Nat, NEW ds \in Seq(Int), NEW w \in Nat,
         Len(ds) = w, w > 0, Spells(ds, n, base, w), NEW v \in Spellings(ds)
  PROVE  \E u : Numeral(v, n, base, u) /\ Len(v) <= u + 1
<1>0. ASSUME NEW j \in Nat PROVE Quot(n, base, w + j) = 0
  <2>1. Quot(n, base, w) = 0 BY DEF Spells
  <2>2. \A k, i \in Nat : Quot(n, base, k) = 0 => Quot(n, base, k + i) = 0 BY QuotBounds
  <2> QED BY <2>1, <2>2
<1>1. PICK z \in {0, 1}, b \in {0, 1} :
        v = [i \in 1 .. z |-> 0] \o ds \o [i \in 1 .. b |-> Blank]
  BY DEF Spellings
<1> DEFINE p == [i \in 1 .. z |-> 0]
           q == [i \in 1 .. b |-> Blank]
           pd == p \o ds
           u == z + w
<1>2. /\ p \in Seq(Int) /\ Len(p) = z /\ \A i \in 1 .. z : p[i] = 0
      /\ q \in Seq(Int) /\ Len(q) = b /\ \A i \in 1 .. b : q[i] = Blank
      /\ z \in Nat /\ b \in Nat /\ z <= 1 /\ b <= 1
  BY DEF Blank
<1>3. v = pd \o q BY <1>1
<1> HIDE DEF p, q
<1>4. /\ pd \in Seq(Int) /\ Len(pd) = u /\ u \in Nat
      /\ \A i \in 1 .. z : pd[i] = p[i]
      /\ \A j \in 1 .. w : pd[z + j] = ds[j]
  <2>1. PICK x \in Seq(Int), y \in Seq(Int) : x = p /\ y = ds BY <1>2
  <2>2. /\ x \o y \in Seq(Int) /\ Len(x \o y) = Len(x) + Len(y)
        /\ \A i \in 1 .. Len(x) : (x \o y)[i] = x[i]
        /\ \A i \in 1 .. Len(y) : (x \o y)[Len(x) + i] = y[i]
    BY TwoParts
  <2>3. pd = x \o y BY <2>1
  <2> HIDE DEF pd
  <2>4. Len(x) = z /\ Len(y) = w BY <1>2, <2>1
  <2>5. pd \in Seq(Int) /\ Len(pd) = u BY <2>2, <2>3, <2>4
  <2>6. \A i \in 1 .. z : pd[i] = p[i] BY <2>1, <2>2, <2>3, <2>4
  <2>7. \A j \in 1 .. w : pd[z + j] = ds[j] BY <2>1, <2>2, <2>3, <2>4
  <2>8. u \in Nat BY <1>2
  <2> QED BY <2>5, <2>6, <2>7, <2>8
<1>5. /\ v \in Seq(Int) /\ Len(v) = u + b
      /\ \A i \in 1 .. u : v[i] = pd[i]
      /\ \A j \in 1 .. b : v[u + j] = q[j]
  <2> HIDE DEF pd, u
  <2>1. PICK x \in Seq(Int), y \in Seq(Int) : x = pd /\ y = q BY <1>2, <1>4
  <2>2. /\ x \o y \in Seq(Int) /\ Len(x \o y) = Len(x) + Len(y)
        /\ \A i \in 1 .. Len(x) : (x \o y)[i] = x[i]
        /\ \A i \in 1 .. Len(y) : (x \o y)[Len(x) + i] = y[i]
    BY TwoParts
  <2>3. /\ pd \o q \in Seq(Int) /\ Len(pd \o q) = Len(pd) + Len(q)
        /\ \A i \in 1 .. Len(pd) : (pd \o q)[i] = pd[i]
        /\ \A i \in 1 .. Len(q) : (pd \o q)[Len(pd) + i] = q[i]
    BY <2>1, <2>2
  <2> QED BY <1>2, <1>3, <1>4, <2>3
<1> HIDE DEF pd
<1>6. ASSUME NEW i \in 1 .. z PROVE v[i] = 0
  <2>1. i \in 1 .. u BY <1>2
  <2>2. pd[i] = p[i] /\ p[i] = 0 BY <1>2, <1>4
  <2> QED BY <1>5, <2>1, <2>2
<1>7. ASSUME NEW j \in 1 .. w PROVE v[z + j] = ds[j]
  <2>1. z + j \in 1 .. u BY <1>2
  <2>2. pd[z + j] = ds[j] BY <1>4
  <2> QED BY <1>5, <2>1, <2>2
<1>8. \A j \in 1 .. b : v[u + j] = Blank BY <1>2, <1>5, SMTT(60)
<1>9. ASSUME NEW i \in 1 .. u PROVE v[i] = Quot(n, base, u - i) % base
  <2>1. CASE i <= z
    <3>1. i \in 1 .. z BY <1>2, <2>1
    <3>2. z - i \in Nat /\ w + (z - i) = u - i BY <1>2, <3>1
    <3>4. Quot(n, base, w + (z - i)) = 0 BY <1>0, <3>2
    <3>5. 0 % base = 0 OBVIOUS
    <3> QED BY <1>6, <3>1, <3>2, <3>4, <3>5
  <2>2. CASE ~(i <= z)
    <3>1. i - z \in 1 .. w /\ z + (i - z) = i /\ w - (i - z) = u - i BY <1>2, <2>2
    <3>2. v[z + (i - z)] = ds[i - z] BY <1>7, <3>1
    <3>3. ds[i - z] = Quot(n, base, w - (i - z)) % base BY <3>1 DEF Spells
    <3> QED BY <3>1, <3>2, <3>3
  <2> QED BY <2>1, <2>2
<1>10. Quot(n, base, u) = 0
  <2>1. Quot(n, base, w + z) = 0 BY <1>0, <1>2
  <2>2. w + z = u BY <1>2
  <2> QED BY <2>1, <2>2
<1>11. Spells(v, n, base, u) BY <1>4, <1>9, <1>10 DEF Spells
<1>12. ASSUME NEW i \in u + 1 .. Len(v) PROVE v[i] = Blank
  <2>1. i - u \in 1 .. b /\ u + (i - u) = i BY <1>2, <1>4, <1>5
  <2> QED BY <1>8, <2>1
<1>13. u \in 1 .. Len(v) /\ Len(v) <= u + 1 BY <1>2, <1>4, <1>5
<1> QED BY <1>5, <1>11, <1>12, <1>13 DEF Numeral

\* mangoHelper_hexstr2dec and mangoHelper_decstr2dec.
LEMMA HexRead ==
  ASSUME NEW n \in Nat, n < Word, NEW v, NEW w, Numeral(v, n, Hex, w), w <= 8
  PROVE  Leading(v, Hex) = w /\ mangoHelper_hexstr2dec(v) = n
<1>0. Hex \in Nat /\ Hex > 0 BY WidthAssumption
<1>1. /\ Leading(v, Hex) = w /\ Value(v, w, Hex) = n
      /\ \A i \in 1 .. w : v[i] \in 0 .. Hex - 1
  BY <1>0, NumeralRead
<1>2. w \in 1 .. Len(v) /\ Len(v) \in Nat /\ \A i \in w + 1 .. Len(v) : v[i] = Blank
  <2>1. v \in Seq(Int) BY DEF Numeral
  <2> QED BY <2>1 DEF Numeral
<1>3. ~(Len(v) > 1 /\ v[1] = 0 /\ v[2] = X)
  <2>1. ASSUME Len(v) > 1 PROVE v[2] # X
    <3>1. 2 \in 1 .. w \/ 2 \in w + 1 .. Len(v) BY <1>2, <2>1
    <3> QED BY <1>1, <1>2, <3>1 DEF X, Blank
  <2> QED BY <2>1
<1>4. w \in 1 .. 8 BY <1>2
<1> QED BY <1>1, <1>3, <1>4 DEF mangoHelper_hexstr2dec

\* mangoHelper_decstr2dec reads a decimal numeral of a 32 bit number back.
LEMMA DecRead ==
  ASSUME NEW n \in Nat, n < Word, NEW v, NEW w, Numeral(v, n, 10, w), w <= DecDigits
  PROVE  Leading(v, 10) = w /\ mangoHelper_decstr2dec(v) = n
<1>1. Leading(v, 10) = w /\ Value(v, w, 10) = n BY NumeralRead
<1>2. w \in 1 .. DecDigits
  <2>1. v \in Seq(Int) BY DEF Numeral
  <2>2. w \in 1 .. Len(v) BY DEF Numeral
  <2> QED BY <2>1, <2>2, DigitsAssumption
<1> QED BY <1>1, <1>2 DEF mangoHelper_decstr2dec

\* mangoHelper_httpHeaderGet finds the header no other one hides.
LEMMA HeaderFound ==
  ASSUME NEW lines, Len(lines) \in Nat, NEW name, Len(name) \in Nat, NEW room, NEW i \in 1 .. Len(lines),
         lines[i].name = name, ~(Len(lines[i].val) >= room),
         \A j \in 1 .. i - 1 : ~Begins(name, lines[j].name)
  PROVE  mangoHelper_httpHeaderGet(lines, name, room)
           = [found |-> 1, val |-> Trimmed(lines[i].val)]
<1> DEFINE S == {j \in 1 .. Len(lines) : Begins(name, lines[j].name)}
           f == CHOOSE j \in S : \A h \in S : j <= h
<1>1. i \in S BY DEF Begins
<1>2. \A h \in S : h \in Nat /\ i <= h
  <2>1. ASSUME NEW h \in S, h < i PROVE FALSE
    <3>1. h \in 1 .. i - 1 BY <2>1
    <3> QED BY <2>1, <3>1
  <2> QED BY <2>1
<1>3. f = i
  <2>1. i \in Nat OBVIOUS
  <2> HIDE DEF S
  <2>2. f \in S /\ \A h \in S : f <= h BY <1>1, <1>2
  <2> HIDE DEF f
  <2>3. f <= i /\ i <= f /\ f \in Nat BY <1>1, <1>2, <2>2
  <2> QED BY <2>1, <2>3
<1>4. S # {} BY <1>1
<1> QED BY <1>3, <1>4 DEF mangoHelper_httpHeaderGet

\* A Content-Length the server wrote, and the size of a chunk.
SizeClear == size.clear => size.read = size.meant

\* The client reads the Content-Length the server wrote.
LEMMA LengthRead == AnnouncesLength => SizeClear'
<1> SUFFICES ASSUME AnnouncesLength, size'.clear PROVE size'.read = size'.meant
  BY DEF SizeClear
<1>1. PICK n \in Sizes, before \in Others :
        \E v \in Spellings(mangoHelper_dec2decstr(n)) :
          size' = [meant |-> n,
                   clear |-> n < Word /\ Leading(v, 10) <= DecDigits /\ ~Hides(before),
                   read |-> LengthOf(Append(before, [name |-> CONTENT_LENGTH, val |-> v]))]
  BY DEF AnnouncesLength
<1>2. PICK v \in Spellings(mangoHelper_dec2decstr(n)) :
          size' = [meant |-> n,
                   clear |-> n < Word /\ Leading(v, 10) <= DecDigits /\ ~Hides(before),
                   read |-> LengthOf(Append(before, [name |-> CONTENT_LENGTH, val |-> v]))]
  BY <1>1
<1>3. n < Word /\ Leading(v, 10) <= DecDigits /\ ~Hides(before)
  <2>1. size'.clear = (n < Word /\ Leading(v, 10) <= DecDigits /\ ~Hides(before)) BY <1>2
  <2> QED BY <2>1
<1>4. n \in Nat BY AppsAssumption
<1> DEFINE line == [name |-> CONTENT_LENGTH, val |-> v]
           lines == Append(before, line)
           i == Len(before) + 1
<1>5. PICK u : Numeral(v, n, 10, u) /\ Len(v) <= u + 1
  <2>1. PICK w \in 1 .. DecDigits :
          LET s == mangoHelper_dec2decstr(n)
          IN s \in Seq(Int) /\ Len(s) = w /\ Spells(s, n, 10, w)
    BY <1>3, <1>4, DecSpells
  <2>2. PICK ds \in Seq(Int) : ds = mangoHelper_dec2decstr(n) BY <2>1
  <2>3. w \in Nat /\ w > 0 /\ Len(ds) = w /\ Spells(ds, n, 10, w) BY <2>1, <2>2, DigitsAssumption
  <2>4. v \in Spellings(ds) BY <2>2
  <2> QED BY <1>4, <2>3, <2>4, NumeralSpelling
<1>6. u <= DecDigits
  <2>1. Leading(v, 10) = u BY <1>3, <1>4, <1>5, NumeralRead
  <2> QED BY <1>3, <2>1
<1>7. v \in Seq(Int) /\ Len(v) \in Nat /\ ~(Len(v) >= ValueBuf)
  <2>1. v \in Seq(Int) BY <1>5 DEF Numeral
  <2>2. u \in 1 .. Len(v) BY <1>5 DEF Numeral
  <2>3. Len(v) <= 11 BY <1>5, <1>6, <2>1, <2>2, DigitsAssumption
  <2> QED BY <2>1, <2>3 DEF ValueBuf
<1>8. /\ Len(before) \in Nat /\ Len(lines) = i /\ lines[i] = line
      /\ \A j \in 1 .. i - 1 : lines[j] = before[j]
  <2>1. PICK S : before \in Seq(S) /\ line \in S
    <3>1. PICK x, y : x = Short(<<3>>) /\ y = Short(<<3, 4, 1>>) OBVIOUS
    <3>2. before \in {<< >>, <<x>>, <<y>>} BY <3>1 DEF Others
    <3>3. PICK T : x \in T /\ y \in T /\ line \in T
      <4>1. PICK z : z = line OBVIOUS
      <4>2. x \in {x, y, z} /\ y \in {x, y, z} /\ z \in {x, y, z} OBVIOUS
      <4> QED BY <4>1, <4>2
    <3>4. << >> \in Seq(T) /\ <<x>> \in Seq(T) /\ <<y>> \in Seq(T) BY <3>3
    <3> QED BY <3>2, <3>3, <3>4
  <2> HIDE DEF line
  <2> QED BY <2>1
<1> HIDE DEF lines, line
<1>9. mangoHelper_httpHeaderGet(lines, CONTENT_LENGTH, ValueBuf)
        = [found |-> 1, val |-> Trimmed(lines[i].val)]
  <2>1. i \in 1 .. Len(lines) /\ Len(lines) \in Nat BY <1>8
  <2>2. lines[i].name = CONTENT_LENGTH /\ lines[i].val = v BY <1>8 DEF line
  <2>3. \A j \in 1 .. i - 1 : ~Begins(CONTENT_LENGTH, lines[j].name)
    <3>1. i - 1 = Len(before) BY <1>8
    <3> QED BY <1>3, <1>8, <3>1 DEF Hides
  <2>4. Len(CONTENT_LENGTH) \in Nat BY DEF CONTENT_LENGTH
  <2> QED BY <1>7, <2>1, <2>2, <2>3, <2>4, HeaderFound
<1>10. lines[i].val = v BY <1>8 DEF line
<1>11. mangoHelper_decstr2dec(Trimmed(v)) = n
  <2>1. Numeral(Trimmed(v), n, 10, u) BY <1>3, <1>4, <1>5, NumeralTrimmed
  <2> QED BY <1>3, <1>4, <1>6, <2>1, DecRead
<1>12. LengthOf(lines) = n BY <1>9, <1>10, <1>11 DEF LengthOf
<1> QED BY <1>2, <1>12 DEF lines, line

\* The size of a chunk, as a server writes it.
LEMMA ChunkRead == AnnouncesChunk => SizeClear'
<1> SUFFICES ASSUME AnnouncesChunk, size'.clear PROVE size'.read = size'.meant
  BY DEF SizeClear
<1>0. Hex \in Nat /\ Hex > 0 BY WidthAssumption
<1>1. PICK n \in {m \in Sizes : m < Word} : \E v \in Spellings(ServerHex(n)) :
        size' = [meant |-> n, clear |-> Leading(v, Hex) <= 8, read |-> mangoHelper_hexstr2dec(v)]
  BY DEF AnnouncesChunk
<1>2. PICK v \in Spellings(ServerHex(n)) :
        size' = [meant |-> n, clear |-> Leading(v, Hex) <= 8, read |-> mangoHelper_hexstr2dec(v)]
  BY <1>1
<1>3. n \in Nat /\ n < Word BY AppsAssumption
<1>4. PICK ds \in Seq(Int), w \in Nat :
        ds = ServerHex(n) /\ w > 0 /\ Len(ds) = w /\ Spells(ds, n, Hex, w)
  <2>1. CASE n = 0
    <3>1. Quot(0, Hex, 0) = 0 /\ Quot(0, Hex, 0 + 1) = Quot(0, Hex, 0) \div Hex
      BY <1>0, QuotNext
    <3>2. 0 \div Hex = 0 /\ 0 % Hex = 0 /\ 0 + 1 = 1 BY <1>0
    <3>3. Quot(0, Hex, 1) = 0 BY <3>1, <3>2
    <3> DEFINE z == <<0>>
    <3>4. z \in Seq(Int) /\ Len(z) = 1 /\ z[1] = 0 OBVIOUS
    <3> HIDE DEF z
    <3>5. \A i \in 1 .. 1 : i = 1 /\ 1 - i = 0 OBVIOUS
    <3>6. Spells(z, 0, Hex, 1) BY <3>1, <3>2, <3>3, <3>4, <3>5 DEF Spells
    <3>7. ServerHex(n) = z BY <2>1 DEF ServerHex, z
    <3>8. Spells(z, n, Hex, 1) /\ 1 \in Nat /\ 1 > 0 BY <2>1, <3>6
    <3> QED BY <3>4, <3>7, <3>8
  <2>2. CASE n # 0
    <3>1. n > 0 BY <1>3, <2>2
    <3>2. PICK u \in 1 .. 8 : LET s == mangoHelper_dec2hexstr(n)
                              IN s \in Seq(Int) /\ Len(s) = u /\ Spells(s, n, Hex, u)
      BY <1>3, <3>1, HexSpells
    <3>3. ServerHex(n) = mangoHelper_dec2hexstr(n) BY <2>2 DEF ServerHex
    <3>4. u \in Nat /\ u > 0 OBVIOUS
    <3> QED BY <3>2, <3>3, <3>4
  <2> QED BY <2>1, <2>2
<1>5. PICK u : Numeral(v, n, Hex, u)
  <2>1. v \in Spellings(ds) BY <1>4
  <2> QED BY <1>0, <1>3, <1>4, <2>1, NumeralSpelling
<1>6. Leading(v, Hex) = u BY <1>0, <1>3, <1>5, NumeralRead
<1>7. u <= 8
  <2>1. size'.clear = (Leading(v, Hex) <= 8) BY <1>2
  <2> QED BY <1>6, <2>1
<1>8. mangoHelper_hexstr2dec(v) = n BY <1>3, <1>5, <1>7, HexRead
<1> QED BY <1>2, <1>8

\* A server reads the numeral of a chunk as its length, the empty one of a
\* chunk without data too.
LEMMA ChunkValueIs ==
  ASSUME NEW n \in Nat, n < Word
  PROVE  ChunkValue(n) = n /\ Len(mangoHelper_dec2hexstr(n)) \in Nat
<1>0. Hex \in Nat /\ Hex > 0 BY WidthAssumption
<1>1. CASE n > 0
  <2>1. PICK w \in 1 .. 8 : LET s == mangoHelper_dec2hexstr(n)
                            IN s \in Seq(Int) /\ Len(s) = w /\ Spells(s, n, Hex, w)
    BY <1>1, HexSpells
  <2>2. Value(mangoHelper_dec2hexstr(n), w, Hex) = n BY <1>0, <2>1, SpellsValue
  <2> QED BY <2>1, <2>2 DEF ChunkValue
<1>2. CASE n = 0
  <2>1. /\ Quot(n, Hex, 0) = n /\ \A k \in Nat : Quot(n, Hex, k) \in Nat
    BY <1>0, QuotNext
  <2>2. \A k \in Nat : Quot(n, Hex, k) <= n BY <1>0, QuotBounds
  <2>3. ASSUME NEW i \in 1 .. 8 PROVE Quot(n, Hex, 8 - i) % Hex = 0
    <3>1. 8 - i \in Nat OBVIOUS
    <3>2. Quot(n, Hex, 8 - i) = 0 BY <1>2, <2>1, <2>2, <3>1
    <3> QED BY <1>0, <3>2
  <2>4. {i \in 1 .. 8 : [j \in 1 .. 8 |-> Quot(n, Hex, 8 - j) % Hex][i] # 0} = {}
    BY <2>3
  <2>5. mangoHelper_dec2hexstr(n) = << >> BY <2>4 DEF mangoHelper_dec2hexstr
  <2>6. Len(<< >>) = 0 OBVIOUS
  <2>7. Spells(<< >>, n, Hex, 0)
    <3>1. 1 .. 0 = {} OBVIOUS
    <3> QED BY <1>2, <2>1, <3>1 DEF Spells
  <2>8. Value(<< >>, 0, Hex) = n BY <1>0, <2>7, SpellsValue
  <2> QED BY <2>5, <2>6, <2>8 DEF ChunkValue
<1> QED BY <1>1, <1>2

-----------------------------------------------------------------------------
(***************************************************************************)
(* Credentials.                                                            *)
(***************************************************************************)

\* Three bytes as one number: four sextets and back.
Bits24(a, b, c) == a * 65536 + b * 256 + c
Splits(n, a, b, c) ==
    /\ n \in Nat
    /\ (n \div 65536) % 256 = a /\ (n \div 256) % 256 = b /\ (n \div 1) % 256 = c
SixBits(n, b, c, s, t, u, v) ==
    /\ s \in 0 .. 63 /\ t \in 0 .. 63 /\ u \in 0 .. 63 /\ v \in 0 .. 63
    /\ ((s * 64 + t) * 64 + u) * 64 + v = n
    /\ c = 0 => v = 0
    /\ (b = 0 /\ c = 0) => u = 0

\* The q-th group of three bytes, with zeros for the ones that are missing.
ByteAt(d, i) == IF i <= Len(d) THEN d[i] ELSE 0
Three(d, q) == Bits24(ByteAt(d, 3 * q + 1), ByteAt(d, 3 * q + 2), ByteAt(d, 3 * q + 3))

\* Its four sextets.
Six1(n) == (n \div 262144) % 64
Six2(n) == (n \div 4096) % 64
Six3(n) == (n \div 64) % 64
Six4(n) == (n \div 1) % 64

\* Sextet finds them.
LEMMA SextetIs ==
  ASSUME NEW d, NEW q \in Nat
  PROVE  /\ Sextet(d, 4 * q + 1) = Six1(Three(d, q)) /\ Sextet(d, 4 * q + 2) = Six2(Three(d, q))
         /\ Sextet(d, 4 * q + 3) = Six3(Three(d, q)) /\ Sextet(d, 4 * q + 4) = Six4(Three(d, q))
<1> DEFINE shift == <<262144, 4096, 64, 1>>
           S(j) == (Three(d, (j - 1) \div 4) \div shift[((j - 1) % 4) + 1]) % 64
<1>1. ASSUME NEW j PROVE Sextet(d, j) = S(j) BY SMT DEF Sextet, Three, Bits24, ByteAt
<1>2. PICK a, b, c, e : a = 262144 /\ b = 4096 /\ c = 64 /\ e = 1 OBVIOUS
<1>3. shift[0 + 1] = a /\ shift[1 + 1] = b /\ shift[2 + 1] = c /\ shift[3 + 1] = e BY <1>2, SMT
<1> HIDE DEF shift
<1>4. ((4 * q + 1) - 1) \div 4 = q /\ ((4 * q + 1) - 1) % 4 = 0 OBVIOUS
<1>5. ((4 * q + 2) - 1) \div 4 = q /\ ((4 * q + 2) - 1) % 4 = 1 OBVIOUS
<1>6. ((4 * q + 3) - 1) \div 4 = q /\ ((4 * q + 3) - 1) % 4 = 2 OBVIOUS
<1>7. ((4 * q + 4) - 1) \div 4 = q /\ ((4 * q + 4) - 1) % 4 = 3 OBVIOUS
<1>8. S(4 * q + 1) = (Three(d, q) \div a) % 64 BY <1>3, <1>4, SMT
<1>9. S(4 * q + 2) = (Three(d, q) \div b) % 64 BY <1>3, <1>5, SMT
<1>10. S(4 * q + 3) = (Three(d, q) \div c) % 64 BY <1>3, <1>6, SMT
<1>11. S(4 * q + 4) = (Three(d, q) \div e) % 64 BY <1>3, <1>7, SMT
<1> HIDE DEF S
<1>12. /\ (Three(d, q) \div a) % 64 = Six1(Three(d, q)) /\ (Three(d, q) \div b) % 64 = Six2(Three(d, q))
       /\ (Three(d, q) \div c) % 64 = Six3(Three(d, q)) /\ (Three(d, q) \div e) % 64 = Six4(Three(d, q))
  BY <1>2, SMT DEF Six1, Six2, Six3, Six4
<1> QED BY <1>1, <1>8, <1>9, <1>10, <1>11, <1>12, SMT

\* A string of bytes.
Octets(d) == d \in Seq(Int) /\ \A i \in 1 .. Len(d) : d[i] \in 0 .. 255

\* How a group reads.
GroupOK(d, q) ==
    /\ Splits(Three(d, q), ByteAt(d, 3 * q + 1), ByteAt(d, 3 * q + 2), ByteAt(d, 3 * q + 3))
    /\ SixBits(Three(d, q), ByteAt(d, 3 * q + 2), ByteAt(d, 3 * q + 3),
               Sextet(d, 4 * q + 1), Sextet(d, 4 * q + 2),
               Sextet(d, 4 * q + 3), Sextet(d, 4 * q + 4))

\* Every group does.
LEMMA GroupReads ==
  ASSUME NEW d, Octets(d), NEW q \in Nat
  PROVE  GroupOK(d, q)
<1>1. ASSUME NEW i \in Nat, i >= 1 PROVE ByteAt(d, i) \in 0 .. 255
  <2>1. i <= Len(d) => i \in 1 .. Len(d) BY <1>1 DEF Octets
  <2>2. \A k \in 1 .. Len(d) : d[k] \in 0 .. 255 BY DEF Octets
  <2>3. CASE i <= Len(d) BY <2>1, <2>2, <2>3 DEF ByteAt
  <2>4. CASE ~(i <= Len(d)) BY <2>4, SMTT(60) DEF ByteAt
  <2> QED BY <2>3, <2>4
<1>2. PICK a \in 0 .. 255, b \in 0 .. 255, c \in 0 .. 255 :
        a = ByteAt(d, 3 * q + 1) /\ b = ByteAt(d, 3 * q + 2) /\ c = ByteAt(d, 3 * q + 3)
  <2>1. /\ ByteAt(d, 3 * q + 1) \in 0 .. 255 /\ ByteAt(d, 3 * q + 2) \in 0 .. 255
        /\ ByteAt(d, 3 * q + 3) \in 0 .. 255
    BY <1>1
  <2> QED BY <2>1, Zenon
<1>3. PICK n \in Nat : n = Three(d, q) /\ n = a * 65536 + b * 256 + c
  <2>1. Three(d, q) = a * 65536 + b * 256 + c BY <1>2 DEF Three, Bits24
  <2> QED BY <2>1
<1>4. PICK s, t, u, v : /\ s = Sextet(d, 4 * q + 1) /\ t = Sextet(d, 4 * q + 2)
                        /\ u = Sextet(d, 4 * q + 3) /\ v = Sextet(d, 4 * q + 4)
  OBVIOUS
<1>5. /\ s = (n \div 262144) % 64 /\ t = (n \div 4096) % 64
      /\ u = (n \div 64) % 64 /\ v = (n \div 1) % 64
  <2>1. s = Six1(n) /\ t = Six2(n) /\ u = Six3(n) /\ v = Six4(n)
    <3>1. /\ Sextet(d, 4 * q + 1) = Six1(Three(d, q)) /\ Sextet(d, 4 * q + 2) = Six2(Three(d, q))
          /\ Sextet(d, 4 * q + 3) = Six3(Three(d, q)) /\ Sextet(d, 4 * q + 4) = Six4(Three(d, q))
      BY SextetIs
    <3> QED BY <1>3, <1>4, <3>1
  <2>2. /\ Six1(n) = (n \div 262144) % 64 /\ Six2(n) = (n \div 4096) % 64
        /\ Six3(n) = (n \div 64) % 64 /\ Six4(n) = (n \div 1) % 64
    BY SMT DEF Six1, Six2, Six3, Six4
  <2> QED BY <2>1, <2>2, SMT
<1>6. n \div 65536 = a /\ n \div 256 = a * 256 + b /\ n \div 1 = n BY <1>3
<1>7. a % 256 = a /\ (a * 256 + b) % 256 = b /\ n % 256 = c BY <1>3
<1>8. PICK x, y, z \in Int : x = n \div 262144 /\ y = n \div 4096 /\ z = n \div 64 OBVIOUS
<1>9. x \in 0 .. 63 /\ y - 64 * x \in 0 .. 63 /\ z - 64 * y \in 0 .. 63 /\ n - 64 * z \in 0 .. 63
  BY <1>3, <1>8
<1>10. s = x BY <1>5, <1>8, <1>9
<1>11. t = y - 64 * x BY <1>5, <1>8, <1>9
<1>12. u = z - 64 * y BY <1>5, <1>8, <1>9
<1>13. v = n - 64 * z
  <2>1. v = (n \div 1) % 64 BY <1>5
  <2>2. v = n % 64 BY <1>6, <2>1
  <2>3. n = (n \div 64) * 64 + (n % 64) BY Divides
  <2>4. n % 64 \in Int OBVIOUS
  <2> QED BY <1>8, <2>2, <2>3, <2>4
<1>14. s \in 0 .. 63 /\ t \in 0 .. 63 /\ u \in 0 .. 63 /\ v \in 0 .. 63
  BY <1>9, <1>10, <1>11, <1>12, <1>13
<1>15. ((s * 64 + t) * 64 + u) * 64 + v = n BY <1>8, <1>10, <1>11, <1>12, <1>13
<1>16. c = 0 => v = 0
  <2>1. c = 0 => n = 64 * (1024 * a + 4 * b) BY <1>3
  <2> QED BY <1>8, <1>13, <2>1
<1>17. (b = 0 /\ c = 0) => u = 0
  <2>1. (b = 0 /\ c = 0) => n = 65536 * a BY <1>3
  <2> QED BY <1>8, <1>12, <2>1
<1>18. SixBits(n, b, c, s, t, u, v) BY <1>14, <1>15, <1>16, <1>17 DEF SixBits
<1>19. Splits(n, a, b, c) BY <1>6, <1>7 DEF Splits
<1> QED BY <1>2, <1>3, <1>4, <1>18, <1>19 DEF GroupOK

\* What mangoCrypto_base64Encode makes of it, where there is room.
Coded(d) == [j \in 1 .. Len(d) + (Len(d) + 2) \div 3 |-> Sextet(d, j)]
              \o [i \in 1 .. IF Len(d) % 3 = 0 THEN 0 ELSE 3 - (Len(d) % 3) |-> Pad]

\* A server gets it back, whatever its length.
LEMMA CodedDecodes ==
  ASSUME NEW d, Octets(d)
  PROVE  Coded(d) \in Seq(Int) /\ Base64Decode(Coded(d)) = d
<1> DEFINE L == Len(d)
           m == L + (L + 2) \div 3
           pads == IF L % 3 = 0 THEN 0 ELSE 3 - (L % 3)
           body == [j \in 1 .. m |-> Sextet(d, j)]
           tail == [i \in 1 .. pads |-> Pad]
           e == body \o tail
<1>0. Coded(d) = e BY DEF Coded
<1>1. L \in Nat /\ m \in Nat /\ pads \in Nat /\ (m * 3) \div 4 = L
  <2>1. L \in Nat BY DEF Octets
  <2> HIDE DEF L
  <2> QED BY <2>1
<1>2. ASSUME NEW q \in Nat, 3 * q + 1 <= L
      PROVE  /\ 4 * q + 2 <= m
             /\ 3 * q + 2 <= L => 4 * q + 3 <= m
             /\ 3 * q + 3 <= L => 4 * q + 4 <= m
  <2>1. PICK k \in Int : k = (L + 2) \div 3 OBVIOUS
  <2>2. 3 * k <= L + 2 /\ L + 2 <= 3 * k + 2 BY <1>1, <2>1
  <2>3. m = L + k BY <2>1
  <2> HIDE DEF m
  <2> QED BY <1>1, <1>2, <2>2, <2>3
<1>4. ASSUME NEW q \in Nat
      PROVE  GroupOK(d, q)
  BY GroupReads
<1>5. ASSUME NEW j \in 1 .. m PROVE Sextet(d, j) \in 0 .. 63
  <2>1. PICK q \in Nat, h \in 1 .. 4 : j = 4 * q + h
    <3>1. (j - 1) \div 4 \in Nat /\ j - 4 * ((j - 1) \div 4) \in 1 .. 4 BY <1>1
    <3>2. j = 4 * ((j - 1) \div 4) + (j - 4 * ((j - 1) \div 4)) BY <1>1, <3>1
    <3> QED BY <3>1, <3>2
  <2>2. j \in {4 * q + 1, 4 * q + 2, 4 * q + 3, 4 * q + 4} BY <2>1
  <2>3. \A k \in {4 * q + 1, 4 * q + 2, 4 * q + 3, 4 * q + 4} : Sextet(d, k) \in 0 .. 63
    <3>1. GroupOK(d, q) BY <1>4
    <3> QED BY <3>1 DEF GroupOK, SixBits
  <2> QED BY <2>2, <2>3
<1>6. /\ e \in Seq(Int) /\ Len(e) = m + pads
      /\ \A j \in 1 .. m : e[j] = Sextet(d, j)
      /\ \A i \in 1 .. pads : e[m + i] = Pad
  <2>1. body \in Seq(Int) /\ Len(body) = m /\ \A j \in 1 .. m : body[j] = Sextet(d, j)
    <3> HIDE DEF m
    <3>1. ASSUME NEW j \in 1 .. m PROVE Sextet(d, j) \in Int
      <4>1. Sextet(d, j) \in 0 .. 63 BY <1>5
      <4> QED BY <4>1
    <3> QED BY <1>1, <3>1
  <2>2. tail \in Seq(Int) /\ Len(tail) = pads /\ \A i \in 1 .. pads : tail[i] = Pad
    <3> HIDE DEF pads
    <3> QED BY <1>1 DEF Pad
  <2> HIDE DEF body, tail, m, pads
  <2>3. PICK x \in Seq(Int), y \in Seq(Int) : x = body /\ y = tail BY <2>1, <2>2
  <2>4. /\ x \o y \in Seq(Int) /\ Len(x \o y) = Len(x) + Len(y)
        /\ \A i \in 1 .. Len(x) : (x \o y)[i] = x[i]
        /\ \A i \in 1 .. Len(y) : (x \o y)[Len(x) + i] = y[i]
    BY TwoParts
  <2>5. e = x \o y BY <2>3
  <2> HIDE DEF e
  <2> QED BY <2>1, <2>2, <2>3, <2>4, <2>5
<1> HIDE DEF e, body, tail, pads
<1> DEFINE P(k) == /\ \A i \in 1 .. k : e[i] # Pad
                   /\ \A i \in k + 1 .. Len(e) : e[i] = Pad
<1>7. (CHOOSE k \in 0 .. Len(e) : P(k)) = m
  <2> HIDE DEF m
  <2>1. m \in 0 .. Len(e) BY <1>1, <1>6
  <2>2. ASSUME NEW i \in 1 .. m PROVE e[i] # Pad
    <3>1. e[i] = Sextet(d, i) /\ Sextet(d, i) \in 0 .. 63 BY <1>5, <1>6
    <3> QED BY <3>1 DEF Pad
  <2>3. ASSUME NEW i \in m + 1 .. Len(e) PROVE e[i] = Pad
    <3>1. i - m \in 1 .. pads /\ m + (i - m) = i BY <1>1, <1>6
    <3> QED BY <1>6, <3>1
  <2>4. P(m) BY <2>2, <2>3
  <2>5. ASSUME NEW k \in 0 .. Len(e), P(k) PROVE k = m
    <3>1. ~(k < m)
      <4>1. k < m => k + 1 \in 1 .. m /\ k + 1 \in k + 1 .. Len(e) BY <1>1, <1>6
      <4> QED BY <2>2, <2>5, <4>1
    <3>2. ~(m < k)
      <4>1. m < k => m + 1 \in 1 .. k /\ m + 1 \in m + 1 .. Len(e) BY <1>1, <1>6
      <4> QED BY <2>3, <2>5, <4>1
    <3> QED BY <1>1, <3>1, <3>2
  <2> HIDE DEF P
  <2> QED BY <2>1, <2>4, <2>5
<1> DEFINE At(i) == IF i <= m THEN e[i] ELSE 0
           Bits(g) == ((At(g) * 64 + At(g + 1)) * 64 + At(g + 2)) * 64 + At(g + 3)
           Out(i) == (Bits(4 * ((i - 1) \div 3) + 1) \div <<65536, 256, 1>>[((i - 1) % 3) + 1]) % 256
<1>8. Base64Decode(e) = [i \in 1 .. L |-> Out(i)]
  <2> DEFINE n == CHOOSE k \in 0 .. Len(e) : P(k)
             At1(i) == IF i <= n THEN e[i] ELSE 0
             Bits1(g) == ((At1(g) * 64 + At1(g + 1)) * 64 + At1(g + 2)) * 64 + At1(g + 3)
             Out1(i) == (Bits1(4 * ((i - 1) \div 3) + 1) \div <<65536, 256, 1>>[((i - 1) % 3) + 1]) % 256
  <2>1. Base64Decode(e) = [i \in 1 .. (n * 3) \div 4 |-> Out1(i)] BY DEF Base64Decode
  <2>2. n = m BY <1>7
  <2> HIDE DEF m, n
  <2>3. ASSUME NEW i PROVE Out1(i) = Out(i) BY <2>2
  <2> HIDE DEF Out1, Out
  <2> QED BY <1>1, <2>1, <2>2, <2>3
<1>9. ASSUME NEW q \in Nat, 3 * q + 1 <= L PROVE Bits(4 * q + 1) = Three(d, q)
  <2> HIDE DEF m
  <2>0. /\ 4 * q + 2 <= m
        /\ 3 * q + 2 <= L => 4 * q + 3 <= m
        /\ 3 * q + 3 <= L => 4 * q + 4 <= m
    BY <1>2, <1>9
  <2>7. GroupOK(d, q) BY <1>4
  <2>1. 4 * q + 1 \in 1 .. m /\ 4 * q + 2 \in 1 .. m BY <1>1, <2>0
  <2>2. At(4 * q + 1) = Sextet(d, 4 * q + 1) /\ At(4 * q + 2) = Sextet(d, 4 * q + 2)
    BY <1>6, <2>1
  <2>3. At(4 * q + 3) = Sextet(d, 4 * q + 3)
    <3>1. CASE 4 * q + 3 <= m
      <4>1. 4 * q + 3 \in 1 .. m BY <1>1, <3>1
      <4> QED BY <1>6, <4>1
    <3>2. CASE ~(4 * q + 3 <= m)
      <4>1. ~(3 * q + 2 <= L) /\ ~(3 * q + 3 <= L) BY <1>1, <2>0, <3>2
      <4>2. ByteAt(d, 3 * q + 2) = 0 /\ ByteAt(d, 3 * q + 3) = 0 BY <4>1 DEF ByteAt
      <4>3. Sextet(d, 4 * q + 3) = 0 BY <2>7, <4>2 DEF GroupOK, SixBits
      <4> QED BY <3>2, <4>3
    <3> QED BY <3>1, <3>2
  <2>4. At(4 * q + 4) = Sextet(d, 4 * q + 4)
    <3>1. CASE 4 * q + 4 <= m
      <4>1. 4 * q + 4 \in 1 .. m BY <1>1, <3>1
      <4> QED BY <1>6, <4>1
    <3>2. CASE ~(4 * q + 4 <= m)
      <4>1. ~(3 * q + 3 <= L) BY <1>1, <2>0, <3>2
      <4>2. ByteAt(d, 3 * q + 3) = 0 BY <4>1 DEF ByteAt
      <4>3. Sextet(d, 4 * q + 4) = 0 BY <2>7, <4>2 DEF GroupOK, SixBits
      <4> QED BY <3>2, <4>3
    <3> QED BY <3>1, <3>2
  <2>5. (4 * q + 1) + 1 = 4 * q + 2 /\ (4 * q + 1) + 2 = 4 * q + 3 /\ (4 * q + 1) + 3 = 4 * q + 4
    OBVIOUS
  <2> HIDE DEF At
  <2>6. Bits(4 * q + 1) = ((Sextet(d, 4 * q + 1) * 64 + Sextet(d, 4 * q + 2)) * 64
                   + Sextet(d, 4 * q + 3)) * 64 + Sextet(d, 4 * q + 4)
    BY <2>2, <2>3, <2>4, <2>5
  <2> HIDE DEF Bits
  <2> QED BY <2>6, <2>7 DEF GroupOK, SixBits
<1> HIDE DEF m, At, Bits
<1>10. ASSUME NEW i \in 1 .. L PROVE Out(i) = d[i]
  <2>1. PICK q \in Nat, r \in 0 .. 2 : /\ q = (i - 1) \div 3 /\ r = (i - 1) % 3
                                       /\ i = 3 * q + r + 1
    <3>1. (i - 1) \div 3 \in Nat /\ (i - 1) % 3 \in 0 .. 2 BY <1>1
    <3>2. i - 1 = ((i - 1) \div 3) * 3 + ((i - 1) % 3)
      <4>1. i - 1 \in Nat BY <1>1
      <4> QED BY <4>1, Divides
    <3>3. i = 3 * ((i - 1) \div 3) + ((i - 1) % 3) + 1 BY <3>1, <3>2
    <3> QED BY <3>1, <3>3
  <2>2. Bits(4 * q + 1) = Three(d, q) BY <1>1, <1>9, <2>1
  <2>3. PICK a, b, c : a = 65536 /\ b = 256 /\ c = 1 OBVIOUS
  <2>4. <<65536, 256, 1>>[r + 1] = IF r = 0 THEN a ELSE IF r = 1 THEN b ELSE c BY <2>3
  <2>5. Out(i) = (Three(d, q) \div (IF r = 0 THEN a ELSE IF r = 1 THEN b ELSE c)) % 256
    <3> HIDE <2>3
    <3> QED BY <2>1, <2>2, <2>4
  <2> HIDE DEF Out
  <2>6. d[i] = ByteAt(d, i) BY DEF ByteAt
  <2>10. /\ (Three(d, q) \div 65536) % 256 = ByteAt(d, 3 * q + 1)
        /\ (Three(d, q) \div 256) % 256 = ByteAt(d, 3 * q + 2)
        /\ (Three(d, q) \div 1) % 256 = ByteAt(d, 3 * q + 3)
    <3>1. GroupOK(d, q) BY <1>4
    <3> QED BY <3>1 DEF GroupOK, Splits
  <2>7. CASE r = 0
    <3>1. i = 3 * q + 1 BY <2>1, <2>7
    <3>2. Out(i) = (Three(d, q) \div 65536) % 256 BY <2>3, <2>5, <2>7
    <3> QED BY <2>6, <2>10, <3>1, <3>2
  <2>8. CASE r = 1
    <3>1. i = 3 * q + 2 BY <2>1, <2>8
    <3>2. Out(i) = (Three(d, q) \div 256) % 256 BY <2>3, <2>5, <2>8
    <3> QED BY <2>6, <2>10, <3>1, <3>2
  <2>9. CASE r = 2
    <3>1. i = 3 * q + 3 BY <2>1, <2>9
    <3>2. Out(i) = (Three(d, q) \div c) % 256 BY <2>5, <2>9
    <3>3. Out(i) = (Three(d, q) \div 1) % 256 BY <2>3, <3>2
    <3> QED BY <2>6, <2>10, <3>1, <3>3
  <2> QED BY <2>7, <2>8, <2>9
<1> HIDE DEF Out
<1>11. Base64Decode(e) = [i \in 1 .. L |-> d[i]] BY <1>8, <1>10
<1>12. d = [i \in 1 .. L |-> d[i]] BY DEF Octets
<1> QED BY <1>0, <1>6, <1>11, <1>12

\* So it is with the credentials of httpAuthSet.
LEMMA Base64RoundTrip ==
  ASSUME NEW d, Octets(d), NEW room, mangoCrypto_base64Encode(d, room) # << >>
  PROVE  LET e == mangoCrypto_base64Encode(d, room)
         IN e \in Seq(Int) /\ Base64Decode(e) = d
<1>1. mangoCrypto_base64Encode(d, room) = Coded(d) BY DEF mangoCrypto_base64Encode, Coded
<1> QED BY <1>1, CodedDecodes

-----------------------------------------------------------------------------
(***************************************************************************)
(* The request.                                                            *)
(***************************************************************************)

\* What the working buffer holds, and a header a program sets.
Piece == [k : {"crlf", "line", "hdr", "auth"}, name : Seq(Int), val : Seq(Int)]
Header == [name : Seq(Int), val : Seq(Int)]

\* The strengthening that makes HeadComplete inductive: where a header may
\* still be set there is a request, and it holds the headers of the script
\* that were set so far, behind the credentials when there are some.
HeadInv ==
    /\ prog \in Programs /\ wb \in WBSizes
    /\ head \in Seq(Piece) /\ given \in Seq(Header)
    /\ HeadComplete
    /\ pc \in {"auth", "headers"} => head # << >>
    /\ pc = "auth" => given = << >> /\ Script.auth
    /\ (pc = "headers" /\ Script.auth) => Len(given) > 0

\* The programs that upload set no credentials.
Posts == {"post", "chunkedPost"}
GivenInv ==
    prog \in Posts =>
      /\ \A i \in 1 .. Len(given) : given[i] = Script.headers[i]
      /\ pc \in {"sending", "reading", "upload", "packet", "ending"} =>
           head # << >> /\ Len(given) = Len(Script.headers)

\* The strengthening that makes SizesUnderstood inductive: the server has got
\* what was sent of the buffers before and of this one, and the upload is over
\* when the file is.
UploadInv ==
    /\ upload = [sent |-> upload.sent, part |-> upload.part, got |-> upload.got]
    /\ upload.sent \in 0 .. FileSz /\ upload.part \in Nat
    /\ upload.got = upload.sent + upload.part
    /\ upload.part = 0 \/ upload.part < SendNow
    /\ prog = "post" => upload.part = 0
    /\ prog \notin Posts => upload = NoUpload
    /\ pc \in {"upload", "packet", "ending"} => prog \in Posts
    /\ pc = "packet" => upload.sent < FileSz
    /\ pc = "ending" => upload.sent = FileSz
    /\ pc = "reading" => upload = NoUpload \/ upload.sent = FileSz
    /\ pc \in {"load", "connect", "new", "auth", "headers", "sending"} => upload = NoUpload

\* A piece takes some room.
LEMMA PieceLenIs ==
  ASSUME NEW p \in Piece
  PROVE  PieceLen(p) \in Nat
<1>1. p.k \in {"crlf", "line", "hdr", "auth"} /\ p.name \in Seq(Int) /\ p.val \in Seq(Int)
  BY DEF Piece
<1>2. PICK m \in Nat, n \in Nat : m = Len(p.name) /\ n = Len(p.val)
  <2>1. PICK s \in Seq(Int), t \in Seq(Int) : s = p.name /\ t = p.val BY <1>1
  <2> QED BY <2>1
<1>3. CASE p.k = "crlf" BY <1>3 DEF PieceLen
<1>4. CASE p.k = "line" BY <1>4, AppsAssumption DEF PieceLen
<1>5. CASE p.k = "hdr"
  <2>1. PieceLen(p) = m + 2 + n BY <1>2, <1>5, Zenon DEF PieceLen
  <2> QED BY <2>1
<1>6. CASE p.k = "auth"
  <2>1. PieceLen(p) = m + 8 + n BY <1>2, <1>6, Zenon DEF PieceLen
  <2> QED BY <2>1
<1> QED BY <1>1, <1>3, <1>4, <1>5, <1>6

\* One piece more.
Adding(h) == [p \in (1 .. Len(h)) \X Nat |-> p[2] + PieceLen(h[p[1]])]

\* The function that adds the pieces up.
LEMMA SizeIs ==
  ASSUME NEW h \in Seq(Piece)
  PROVE  \E f : /\ f \in [0 .. Len(h) -> Nat] /\ f[0] = 0 /\ Size(h) = f[Len(h)]
                /\ \A i \in 1 .. Len(h) : f[i] = f[i - 1] + PieceLen(h[i])
<1>0. PICK k \in Nat : k = Len(h) OBVIOUS
<1> DEFINE step == Adding(h)
           Def(g) == [i \in 0 .. Len(h) |-> IF i = 0 THEN 0 ELSE g[i - 1] + PieceLen(h[i])]
           v == CHOOSE g : g = Def(g)
<1>1. step \in [(1 .. k) \X Nat -> Nat]
      /\ \A i \in 1 .. k : \A x \in Nat : step[<<i, x>>] = x + PieceLen(h[i])
  <2>1. ASSUME NEW i \in 1 .. k, NEW x \in Nat PROVE x + PieceLen(h[i]) \in Nat
    <3>1. h[i] \in Piece BY <1>0
    <3>2. PieceLen(h[i]) \in Nat BY <3>1, PieceLenIs
    <3> QED BY <3>2
  <2> QED BY <1>0, <2>1 DEF Adding
<1> HIDE DEF step
<1>2. PICK f : Follows(f, Nat, 0, step, k) BY <1>1, Recursion
<1>3. f \in [0 .. k -> Nat] /\ f[0] = 0 /\ \A i \in 1 .. k : f[i] = f[i - 1] + PieceLen(h[i])
  <2>1. f \in [0 .. k -> Nat] /\ f[0] = 0 BY <1>2 DEF Follows
  <2>2. ASSUME NEW i \in 1 .. k PROVE f[i] = f[i - 1] + PieceLen(h[i])
    <3>1. i - 1 \in 0 .. k OBVIOUS
    <3>2. f[i] = step[<<i, f[i - 1]>>] /\ f[i - 1] \in Nat BY <1>2, <2>1, <3>1 DEF Follows
    <3> QED BY <1>1, <3>2
  <2> QED BY <2>1, <2>2
<1>4. f = Def(f)
  <2>1. ASSUME NEW i \in 0 .. k PROVE f[i] = IF i = 0 THEN 0 ELSE f[i - 1] + PieceLen(h[i])
    <3>1. i = 0 \/ i \in 1 .. k OBVIOUS
    <3> QED BY <1>3, <3>1
  <2> QED BY <1>0, <1>3, <2>1
<1>5. v = Def(v) BY <1>4
<1>6. Size(h) = v[k] BY <1>0 DEF Size
<1> HIDE DEF v
<1>7. \A i \in 0 .. k : v[i] = IF i = 0 THEN 0 ELSE v[i - 1] + PieceLen(h[i]) BY <1>0, <1>5
<1> HIDE DEF Def
<1>8. v[0] = f[0] BY <1>3, <1>7
<1>9. ASSUME NEW i \in 1 .. k, v[i - 1] = f[i - 1] PROVE v[i] = f[i]
  <2>1. i \in 0 .. k /\ i # 0 OBVIOUS
  <2> QED BY <1>3, <1>7, <1>9, <2>1
<1>10. \A i \in 0 .. k : v[i] = f[i] BY <1>8, <1>9, Agree, ZenonT(60)
<1> QED BY <1>0, <1>3, <1>6, <1>10

\* The pieces every request has.
LEMMA FixedPieces ==
  /\ Line \in Piece /\ CRLF \in Piece /\ PieceLen(Line) = LineLen /\ PieceLen(CRLF) = 2
<1>1. << >> \in Seq(Int) OBVIOUS
<1>2. PICK e \in Seq(Int) : e = << >> BY <1>1
<1>3. Line = [k |-> "line", name |-> e, val |-> e] /\ CRLF = [k |-> "crlf", name |-> e, val |-> e]
  BY <1>2 DEF Line, CRLF
<1>4. Line \in Piece /\ CRLF \in Piece BY <1>3 DEF Piece
<1>5. Line.k = "line" /\ CRLF.k = "crlf" BY DEF Line, CRLF
<1>6. PieceLen(Line) = LineLen /\ PieceLen(CRLF) = 2 BY <1>5 DEF PieceLen
<1> QED BY <1>4, <1>6

\* mango_httpRequestNew leaves the request line and two line ends.
LEMMA SizeStart ==
  <<Line, CRLF, CRLF>> \in Seq(Piece) /\ Size(<<Line, CRLF, CRLF>>) = LineLen + 4
<1>1. PICK l \in Piece, c \in Piece : l = Line /\ c = CRLF BY FixedPieces
<1> DEFINE h == <<l, c, c>>
<1>2. h \in Seq(Piece) /\ Len(h) = 3 /\ h[1] = l /\ h[2] = c /\ h[3] = c OBVIOUS
<1> HIDE DEF h
<1>3. PICK f : /\ f \in [0 .. Len(h) -> Nat] /\ f[0] = 0 /\ Size(h) = f[Len(h)]
               /\ \A i \in 1 .. Len(h) : f[i] = f[i - 1] + PieceLen(h[i])
  BY <1>2, SizeIs
<1>4. 1 \in 1 .. Len(h) /\ 2 \in 1 .. Len(h) /\ 3 \in 1 .. Len(h) BY <1>2
<1>5. f[1] = f[1 - 1] + PieceLen(h[1]) /\ f[2] = f[2 - 1] + PieceLen(h[2])
      /\ f[3] = f[3 - 1] + PieceLen(h[3])
  BY <1>3, <1>4
<1>6. PieceLen(h[1]) = LineLen /\ PieceLen(h[2]) = 2 /\ PieceLen(h[3]) = 2
  BY <1>1, <1>2, FixedPieces
<1>7. f[3] = LineLen + 4
  <2>1. 1 - 1 = 0 /\ 2 - 1 = 1 /\ 3 - 1 = 2 OBVIOUS
  <2>2. LineLen \in Nat BY AppsAssumption
  <2> QED BY <1>3, <1>5, <1>6, <2>1, <2>2
<1> QED BY <1>1, <1>2, <1>3, <1>7 DEF h

\* A request with four headers is no smaller than ExtraChunkSz.
LEMMA SizeOfFour ==
  ASSUME NEW h \in Seq(Piece), Len(h) = 11, h[1] = Line,
         \A i \in {2, 4, 6, 8, 10, 11} : h[i] = CRLF
  PROVE  Size(h) >= ExtraChunkSz /\ Size(h) \in Nat
<1>1. PICK f : /\ f \in [0 .. 11 -> Nat] /\ f[0] = 0 /\ Size(h) = f[11]
               /\ \A i \in 1 .. 11 : f[i] = f[i - 1] + PieceLen(h[i])
  <2>1. \E f : /\ f \in [0 .. Len(h) -> Nat] /\ f[0] = 0 /\ Size(h) = f[Len(h)]
               /\ \A i \in 1 .. Len(h) : f[i] = f[i - 1] + PieceLen(h[i])
    BY SizeIs
  <2> QED BY <2>1
<1>2. \A i \in 1 .. 11 : PieceLen(h[i]) \in Nat
  <2>1. \A i \in 1 .. Len(h) : h[i] \in Piece BY ElementOfSeq
  <2> QED BY <2>1, PieceLenIs
<1>3. PieceLen(h[1]) >= 1 /\ \A i \in {2, 4, 6, 8, 10, 11} : PieceLen(h[i]) = 2
  <2>1. LineLen \in Nat /\ LineLen >= 1 BY AppsAssumption
  <2> QED BY <2>1, FixedPieces
<1>4. \A i \in 0 .. 11 : f[i] \in Nat BY <1>1
<1>5. ASSUME NEW i \in 1 .. 11 PROVE f[i] >= f[i - 1]
  <2>1. f[i] = f[i - 1] + PieceLen(h[i]) BY <1>1
  <2>2. PICK n \in Nat : n = PieceLen(h[i]) BY <1>2
  <2>3. i - 1 \in 0 .. 11 OBVIOUS
  <2>4. f[i - 1] \in Nat BY <1>4, <2>3
  <2> QED BY <2>1, <2>2, <2>4
<1>6. ASSUME NEW i \in {2, 4, 6, 8, 10, 11} PROVE f[i] = f[i - 1] + 2
  <2>1. i \in 1 .. 11 OBVIOUS
  <2>2. f[i] = f[i - 1] + PieceLen(h[i]) BY <1>1, <2>1
  <2> QED BY <1>3, <2>2
<1>7. f[1] >= 1
  <2>1. f[1] = f[1 - 1] + PieceLen(h[1]) /\ 1 - 1 = 0 BY <1>1
  <2> QED BY <1>1, <1>2, <1>3, <2>1
<1>8. f[2] >= 3 /\ f[3] >= f[2]
  <2>1. f[2] = f[2 - 1] + 2 /\ f[3] >= f[3 - 1] /\ 2 - 1 = 1 /\ 3 - 1 = 2 BY <1>5, <1>6
  <2> QED BY <1>4, <1>7, <2>1
<1>9. f[4] >= 5 /\ f[5] >= f[4]
  <2>1. f[4] = f[4 - 1] + 2 /\ f[5] >= f[5 - 1] /\ 4 - 1 = 3 /\ 5 - 1 = 4 BY <1>5, <1>6
  <2> QED BY <1>4, <1>8, <2>1
<1>10. f[6] >= 7 /\ f[7] >= f[6]
  <2>1. f[6] = f[6 - 1] + 2 /\ f[7] >= f[7 - 1] /\ 6 - 1 = 5 /\ 7 - 1 = 6 BY <1>5, <1>6
  <2> QED BY <1>4, <1>9, <2>1
<1>11. f[8] >= 9 /\ f[9] >= f[8]
  <2>1. f[8] = f[8 - 1] + 2 /\ f[9] >= f[9 - 1] /\ 8 - 1 = 7 /\ 9 - 1 = 8 BY <1>5, <1>6
  <2> QED BY <1>4, <1>10, <2>1
<1>12. f[10] >= 11 /\ f[11] = f[10] + 2
  <2>1. f[10] = f[10 - 1] + 2 /\ f[11] = f[11 - 1] + 2 /\ 10 - 1 = 9 /\ 11 - 1 = 10 BY <1>6
  <2> QED BY <1>4, <1>11, <2>1, SMTT(60)
<1>13. f[11] >= 13 /\ f[11] \in Nat BY <1>4, <1>12
<1> QED BY <1>1, <1>13 DEF ExtraChunkSz

\* A request that carries the headers of g.
Complete(h, g) ==
    /\ Len(h) = 2 * Len(g) + 3
    /\ h[1] = Line /\ h[2] = CRLF /\ h[Len(h)] = CRLF
    /\ \A i \in 1 .. Len(g) : Plain(h[2 * i + 1]) = g[i] /\ h[2 * i + 2] = CRLF

\* HeadComplete in its terms.
LEMMA HeadCompleteIs ==
  HeadComplete <=> (head # << >> => Size(head) <= wb /\ Complete(head, given))
  BY DEF HeadComplete, Complete, Last

\* The blank line is taken back, and put back where the header does not fit;
\* a header that fits leaves a request with one header more.
LEMMA HeaderAdded ==
  ASSUME NEW h \in Seq(Piece), NEW g \in Seq(Header), Complete(h, g),
         NEW p \in Piece, NEW x \in Header, Plain(p) = x
  PROVE  LET k == SubSeq(h, 1, Len(h) - 1)
             new == k \o <<p, CRLF, CRLF>>
         IN /\ Append(k, CRLF) = h
            /\ new \in Seq(Piece) /\ Len(new) > 0 /\ Complete(new, Append(g, x))
<1> DEFINE k == SubSeq(h, 1, Len(h) - 1)
           t == <<p, CRLF, CRLF>>
           new == k \o t
           L == Len(g)
           g1 == Append(g, x)
<1>0. PICK c \in Piece : c = CRLF BY FixedPieces
<1>1. L \in Nat /\ Len(h) = 2 * L + 3 /\ Len(h) - 1 = 2 * L + 2 BY DEF Complete
<1>2. /\ k \in Seq(Piece) /\ Len(k) = 2 * L + 2
      /\ \A i \in 1 .. 2 * L + 2 : k[i] = h[i]
  <2>1. \A i \in 1 .. Len(h) - 1 : h[i] \in Piece
    <3>1. \A i \in 1 .. Len(h) : h[i] \in Piece BY ElementOfSeq
    <3> QED BY <1>1, <3>1
  <2>2. PICK m \in Int : m = Len(h) - 1 /\ m = 2 * L + 2 /\ 1 <= m + 1 BY <1>1
  <2>3. /\ SubSeq(h, 1, m) \in Seq(Piece) /\ Len(SubSeq(h, 1, m)) = m - 1 + 1
        /\ \A i \in 1 .. m - 1 + 1 : SubSeq(h, 1, m)[i] = h[1 + i - 1]
    <3>1. 1 \in Int /\ \A i \in 1 .. m : h[i] \in Piece BY <2>1, <2>2
    <3> QED BY <1>1, <2>2, <3>1, SubSeqProperties
  <2>4. m - 1 + 1 = m /\ \A i \in 1 .. m : 1 + i - 1 = i BY <2>2
  <2>5. k = SubSeq(h, 1, m) BY <2>2
  <2> HIDE DEF k
  <2> QED BY <2>2, <2>3, <2>4, <2>5
<1>3. t \in Seq(Piece) /\ Len(t) = 3 /\ t[1] = p /\ t[2] = CRLF /\ t[3] = CRLF
  <2>1. <<p, c, c>> \in Seq(Piece) /\ Len(<<p, c, c>>) = 3 /\ <<p, c, c>>[1] = p
        /\ <<p, c, c>>[2] = c /\ <<p, c, c>>[3] = c
    OBVIOUS
  <2> QED BY <1>0, <2>1
<1> HIDE DEF k, t
<1>4. /\ new \in Seq(Piece) /\ Len(new) = 2 * L + 5
      /\ \A i \in 1 .. 2 * L + 2 : new[i] = h[i]
      /\ new[2 * L + 3] = p /\ new[2 * L + 4] = CRLF /\ new[2 * L + 5] = CRLF
  <2>1. /\ new \in Seq(Piece) /\ Len(new) = Len(k) + Len(t)
        /\ \A i \in 1 .. Len(k) : new[i] = k[i]
        /\ \A i \in 1 .. Len(t) : new[Len(k) + i] = t[i]
    <3>1. PICK a \in Seq(Piece), b \in Seq(Piece) : a = k /\ b = t BY <1>2, <1>3
    <3>2. /\ a \o b \in Seq(Piece) /\ Len(a \o b) = Len(a) + Len(b)
          /\ \A i \in 1 .. Len(a) : (a \o b)[i] = a[i]
          /\ \A i \in 1 .. Len(b) : (a \o b)[Len(a) + i] = b[i]
      BY TwoParts
    <3> QED BY <3>1, <3>2
  <2> HIDE DEF new
  <2>2. Len(new) = 2 * L + 5 BY <1>1, <1>2, <1>3, <2>1
  <2>3. \A i \in 1 .. 2 * L + 2 : new[i] = h[i] BY <1>2, <2>1
  <2>4. \A i \in 1 .. 3 : new[2 * L + 2 + i] = t[i] BY <1>2, <1>3, <2>1
  <2>5. 1 \in 1 .. 3 /\ 2 \in 1 .. 3 /\ 3 \in 1 .. 3 /\ 2 * L + 2 + 1 = 2 * L + 3
        /\ 2 * L + 2 + 2 = 2 * L + 4 /\ 2 * L + 2 + 3 = 2 * L + 5
    BY <1>1
  <2>6. new[2 * L + 3] = p /\ new[2 * L + 4] = CRLF /\ new[2 * L + 5] = CRLF
    BY <1>3, <2>4, <2>5
  <2> QED BY <2>1, <2>2, <2>3, <2>6
<1> HIDE DEF new
<1>5. Len(g1) = L + 1 /\ g1[L + 1] = x /\ \A i \in 1 .. L : g1[i] = g[i]
  BY AppendProperties
<1> HIDE DEF g1
<1>6. Complete(new, g1)
  <2>1. Len(new) = 2 * Len(g1) + 3 BY <1>1, <1>4, <1>5
  <2>2. new[1] = Line /\ new[2] = CRLF
    <3>1. 1 \in 1 .. 2 * L + 2 /\ 2 \in 1 .. 2 * L + 2 BY <1>1
    <3> QED BY <1>4, <3>1 DEF Complete
  <2>3. new[Len(new)] = CRLF BY <1>4
  <2>4. ASSUME NEW i \in 1 .. Len(g1) PROVE Plain(new[2 * i + 1]) = g1[i] /\ new[2 * i + 2] = CRLF
    <3>1. CASE i = L + 1
      <4>1. 2 * i + 1 = 2 * L + 3 /\ 2 * i + 2 = 2 * L + 4 BY <1>1, <3>1
      <4> QED BY <1>4, <1>5, <3>1, <4>1
    <3>2. CASE i # L + 1
      <4>1. i \in 1 .. L BY <1>1, <1>5, <3>2
      <4>2. 2 * i + 1 \in 1 .. 2 * L + 2 /\ 2 * i + 2 \in 1 .. 2 * L + 2 BY <1>1, <4>1
      <4>3. Plain(h[2 * i + 1]) = g[i] /\ h[2 * i + 2] = CRLF BY <4>1 DEF Complete
      <4> QED BY <1>4, <1>5, <4>1, <4>2, <4>3
    <3> QED BY <3>1, <3>2
  <2> QED BY <2>1, <2>2, <2>3, <2>4 DEF Complete
<1>7. Append(k, CRLF) = h
  <2>1. /\ Append(k, c) \in Seq(Piece) /\ Len(Append(k, c)) = Len(k) + 1
        /\ \A i \in 1 .. Len(k) : Append(k, c)[i] = k[i] /\ Append(k, c)[Len(k) + 1] = c
    <3>1. PICK a \in Seq(Piece) : a = k BY <1>2
    <3>2. /\ Append(a, c) \in Seq(Piece) /\ Len(Append(a, c)) = Len(a) + 1
          /\ \A i \in 1 .. Len(a) : Append(a, c)[i] = a[i]
          /\ Append(a, c)[Len(a) + 1] = c
      BY AppendProperties
    <3> QED BY <3>1, <3>2
  <2>2. h[2 * L + 3] = c BY <1>0, <1>1 DEF Complete
  <2>3. PICK a : a = Append(k, c) OBVIOUS
  <2>4. a \in Seq(Piece) /\ Len(a) = Len(h) BY <1>1, <1>2, <2>1, <2>3
  <2>5. ASSUME NEW i \in 1 .. Len(a) PROVE a[i] = h[i]
    <3>1. i \in 1 .. 2 * L + 2 \/ i = 2 * L + 3 BY <1>1, <2>4
    <3>2. i = 2 * L + 3 => i = Len(k) + 1 BY <1>1, <1>2
    <3>3. CASE i \in 1 .. 2 * L + 2 BY <1>2, <2>1, <2>3, <3>3
    <3>4. CASE i = 2 * L + 3
      <4>1. Len(a) = Len(k) + 1 /\ i = Len(k) + 1 BY <1>1, <1>2, <2>4, <3>2, <3>4
      <4>2. 1 \in 1 .. Len(k) BY <1>1, <1>2
      <4>3. Append(k, c)[Len(k) + 1] = c BY <2>1, <4>2
      <4> QED BY <2>2, <2>3, <3>4, <4>1, <4>3
    <3> QED BY <3>1, <3>3, <3>4
  <2>6. a = h BY <2>4, <2>5, SeqEqual
  <2> QED BY <1>0, <2>3, <2>6
<1>8. Len(new) > 0 BY <1>1, <1>4
<1> QED BY <1>4, <1>6, <1>7, <1>8 DEF k, t, new, g1

\* A header with a short value.
LEMMA ShortIs ==
  ASSUME NEW n \in Seq(Int)
  PROVE  Short(n) \in Header /\ Short(n).name = n
<1>1. <<Other>> \in Seq(Int)
  <2>1. PICK o \in Int : o = Other BY DEF Other
  <2>2. <<o>> \in Seq(Int) OBVIOUS
  <2> QED BY <2>1, <2>2
<1>2. PICK v \in Seq(Int) : v = <<Other>> BY <1>1
<1>3. Short(n) = [name |-> n, val |-> v] BY <1>2 DEF Short
<1> QED BY <1>3 DEF Header

\* A header becomes a piece that says the same.
LEMMA HdrIs ==
  ASSUME NEW h \in Header
  PROVE  Hdr(h) \in Piece /\ Plain(Hdr(h)) = h
<1>1. h.name \in Seq(Int) /\ h.val \in Seq(Int) /\ h = [name |-> h.name, val |-> h.val]
  BY DEF Header
<1>2. PICK n \in Seq(Int), v \in Seq(Int) : n = h.name /\ v = h.val BY <1>1
<1>3. h = [name |-> n, val |-> v] /\ Hdr(h) = [k |-> "hdr", name |-> n, val |-> v]
  BY <1>1, <1>2 DEF Hdr
<1>4. Hdr(h) \in Piece BY <1>3 DEF Piece
<1>5. Plain(Hdr(h)) = [name |-> n, val |-> v] BY <1>3 DEF Plain
<1> QED BY <1>3, <1>4, <1>5

\* The Content-Length an upload announces.
LEMMA AnnouncedIs ==
  [name |-> CONTENT_LENGTH, val |-> mangoHelper_dec2decstr(FileSz)] \in Header
<1>1. FileSz \in Nat /\ FileSz < Word BY Widths, AppsAssumption
<1>2. PICK w \in 1 .. DecDigits :
        LET s == mangoHelper_dec2decstr(FileSz)
        IN s \in Seq(Int) /\ Len(s) = w /\ Spells(s, FileSz, 10, w)
  BY <1>1, DecSpells
<1>3. PICK n \in Seq(Int), v \in Seq(Int) : n = CONTENT_LENGTH /\ v = mangoHelper_dec2decstr(FileSz)
  <2>1. CONTENT_LENGTH \in Seq(Int) BY DEF CONTENT_LENGTH
  <2> QED BY <1>2, <2>1
<1>4. [name |-> n, val |-> v] \in Header BY DEF Header
<1> QED BY <1>3, <1>4

\* The headers of httpGet, httpPost and testWebsocket.
LEMMA GetHeaders ==
  httpGet \in Seq(Header) /\ Len(httpGet) = 2
  /\ httpGet[1] = Short(HOST) /\ httpGet[2] = Short(CONNECTION)
<1>1. HOST \in Seq(Int) /\ CONNECTION \in Seq(Int) BY DEF HOST, CONNECTION
<1>2. PICK a \in Header, b \in Header : a = Short(HOST) /\ b = Short(CONNECTION)
  BY <1>1, ShortIs
<1>3. <<a, b>> \in Seq(Header) /\ Len(<<a, b>>) = 2 /\ <<a, b>>[1] = a /\ <<a, b>>[2] = b OBVIOUS
<1> QED BY <1>2, <1>3 DEF httpGet

\* The third announces the body, in one of two ways.
LEMMA PostHeaders ==
  ASSUME NEW chunked \in BOOLEAN
  PROVE  LET s == httpPost(chunked)
         IN /\ s \in Seq(Header) /\ Len(s) = 4
            /\ s[1] = Short(HOST) /\ s[2] = Short(CONNECTION)
            /\ ~chunked => s[3] = [name |-> CONTENT_LENGTH, val |-> mangoHelper_dec2decstr(FileSz)]
<1>1. TRANSFER_ENCODING \in Seq(Int) /\ EXPECT \in Seq(Int) BY DEF TRANSFER_ENCODING, EXPECT
<1> DEFINE third == IF chunked THEN Short(TRANSFER_ENCODING)
                    ELSE [name |-> CONTENT_LENGTH, val |-> mangoHelper_dec2decstr(FileSz)]
<1>2. PICK a \in Header, b \in Header : a = third /\ b = Short(EXPECT)
  BY <1>1, ShortIs, AnnouncedIs
<1>3. PICK g \in Seq(Header) : g = httpGet BY GetHeaders
<1>4. PICK t \in Seq(Header) : t = <<a, b>> /\ Len(t) = 2 /\ t[1] = a /\ t[2] = b
  <2>1. <<a, b>> \in Seq(Header) /\ Len(<<a, b>>) = 2 /\ <<a, b>>[1] = a /\ <<a, b>>[2] = b OBVIOUS
  <2> QED BY <2>1
<1>5. /\ g \o t \in Seq(Header) /\ Len(g \o t) = Len(g) + Len(t)
      /\ \A i \in 1 .. Len(g) : (g \o t)[i] = g[i]
      /\ \A i \in 1 .. Len(t) : (g \o t)[Len(g) + i] = t[i]
  BY TwoParts
<1>6. Len(g) = 2 /\ g[1] = Short(HOST) /\ g[2] = Short(CONNECTION) BY <1>3, GetHeaders
<1>7. httpPost(chunked) = g \o t BY <1>2, <1>3, <1>4 DEF httpPost
<1>8. 1 \in 1 .. 2 /\ 2 \in 1 .. 2 /\ 2 + 1 = 3 /\ 2 + 2 = 4 OBVIOUS
<1>9. Len(g \o t) = 4 /\ (g \o t)[1] = g[1] /\ (g \o t)[2] = g[2] /\ (g \o t)[3] = a
  BY <1>4, <1>5, <1>6, <1>8
<1>10. ~chunked => a = [name |-> CONTENT_LENGTH, val |-> mangoHelper_dec2decstr(FileSz)] BY <1>2
<1> HIDE DEF third
<1> QED BY <1>5, <1>6, <1>7, <1>9, <1>10

\* Seven of them.
LEMMA WebsocketHeaders == testWebsocket \in Seq(Header)
<1>1. /\ HOST \in Seq(Int) /\ CONNECTION \in Seq(Int) /\ UPGRADE \in Seq(Int)
      /\ \A i \in {1, 2, 3, 4} : WEB_SOCKET(i) \in Seq(Int)
  BY DEF HOST, CONNECTION, UPGRADE, WEB_SOCKET
<1>2. PICK a \in Header, b \in Header, c \in Header, d \in Header, e \in Header, f \in Header, g \in Header :
        /\ a = Short(HOST) /\ b = Short(WEB_SOCKET(1)) /\ c = Short(WEB_SOCKET(2))
        /\ d = Short(CONNECTION) /\ e = Short(WEB_SOCKET(3)) /\ f = Short(WEB_SOCKET(4))
        /\ g = Short(UPGRADE)
  BY <1>1, ShortIs
<1>3. <<a, b, c, d, e, f, g>> \in Seq(Header) OBVIOUS
<1> QED BY <1>2, <1>3 DEF testWebsocket

\* What a program's script is.
LEMMA ScriptIs ==
  ASSUME prog \in Programs
  PROVE  /\ Script.headers \in Seq(Header)
         /\ prog = "post" => Script.headers = httpPost(FALSE)
         /\ prog \in Posts =>
              ~Script.auth /\ ~Script.loops /\ Len(Script.headers) = 4
<1>1. PICK g \in Seq(Header), w \in Seq(Header), p \in Seq(Header), q \in Seq(Header) :
        /\ g = httpGet /\ w = testWebsocket /\ p = httpPost(FALSE) /\ q = httpPost(TRUE)
        /\ Len(p) = 4 /\ Len(q) = 4
  BY GetHeaders, PostHeaders, WebsocketHeaders
<1>2. /\ prog = "post" => Script = [secure |-> FALSE, auth |-> FALSE, headers |-> p, loops |-> FALSE]
      /\ prog = "chunkedPost" =>
           Script = [secure |-> FALSE, auth |-> FALSE, headers |-> q, loops |-> FALSE]
  BY <1>1 DEF Script, post_test, get_test
<1>3. prog = "websockets" => Script = [secure |-> FALSE, auth |-> FALSE, headers |-> w, loops |-> FALSE]
  BY <1>1 DEF Script, websockets_test, get_test
<1>4. prog \notin {"post", "chunkedPost", "websockets"} => Script.headers = g
  <2>1. /\ get_test.headers = g /\ sslget_test.headers = g
        /\ basicAuth_test.headers = g /\ persistent_test.headers = g
    BY <1>1 DEF get_test, sslget_test, basicAuth_test, persistent_test
  <2>2. prog \in {"get", "sslget", "sslmem", "basicAuth", "persistent", "shoutcast",
                  "post", "chunkedPost", "websockets"}
    BY AppsAssumption
  <2>3. prog \notin {"post", "chunkedPost", "websockets"} =>
          Script \in {get_test, sslget_test, basicAuth_test, persistent_test}
    BY <2>2 DEF Script, shoutcast_test
  <2> QED BY <2>1, <2>3
<1> HIDE DEF Script
<1>5. CASE prog = "post"
  <2>1. Script.headers = p /\ Script.auth = FALSE /\ Script.loops = FALSE BY <1>2, <1>5
  <2> QED BY <1>1, <1>5, <2>1 DEF Posts
<1>6. CASE prog = "chunkedPost"
  <2>1. Script.headers = q /\ Script.auth = FALSE /\ Script.loops = FALSE BY <1>2, <1>6
  <2> QED BY <1>1, <1>6, <2>1 DEF Posts
<1>7. CASE prog = "websockets"
  <2>1. Script.headers = w /\ Script.auth = FALSE /\ Script.loops = FALSE BY <1>3, <1>7
  <2> QED BY <1>1, <1>7, <2>1 DEF Posts
<1>8. CASE prog \notin {"post", "chunkedPost", "websockets"}
  <2>1. Script.headers = g BY <1>4, <1>8
  <2> QED BY <1>1, <1>8, <2>1 DEF Posts
<1> QED BY <1>5, <1>6, <1>7, <1>8

\* A string over a set of bytes.
LEMMA OctetsIs ==
  ASSUME NEW S, S = 0 .. 255, NEW d \in Seq(S)
  PROVE  Octets(d)
<1>1. \A i \in 1 .. Len(d) : d[i] \in S BY ElementOfSeq
<1>2. S \subseteq Int BY SMT
<1>3. d \in Seq(Int) BY <1>1, <1>2, SeqMonotonic
<1> QED BY <1>1, <1>3 DEF Octets

\* The credentials, as the program gave them and as the request carries them.
LEMMA AuthIs ==
  ASSUME NEW c \in Creds, Auth(c).ok
  PROVE  LET x == [name |-> AUTHORIZATION, val |-> c.user \o <<58>> \o c.pass]
         IN Auth(c).piece \in Piece /\ x \in Header /\ Plain(Auth(c).piece) = x
<1> DEFINE plain == c.user \o <<58>> \o c.pass
           code == mangoCrypto_base64Encode(plain, wb - Size(Kept) - Len(AUTHORIZATION) - 8)
<1>1. Auth(c) = [ok |-> Len(plain) + 1 <= TmpBuf /\ code # << >>,
                 piece |-> [k |-> "auth", name |-> AUTHORIZATION, val |-> code]]
  BY DEF Auth
<1>0. code # << >> BY DEF Auth
<1>2. PICK S : S = 0 .. 255 /\ 58 \in S
  <2>1. 58 \in 0 .. 255 OBVIOUS
  <2> QED BY <2>1
<1>3. PICK u \in Seq(S), p \in Seq(S) : u = c.user /\ p = c.pass
  <2>1. c \in [user : Seq(S), pass : Seq(S)] BY <1>2, AppsAssumption
  <2> QED BY <2>1
<1>4. PICK m \in Seq(S) : m = <<58>>
  <2>1. PICK b \in S : b = 58 BY <1>2
  <2>2. <<b>> \in Seq(S) OBVIOUS
  <2> QED BY <2>1, <2>2
<1>5. PICK um \in Seq(S) : um = u \o m BY ConcatProperties
<1>6. um \o p \in Seq(S) BY ConcatProperties
<1>7. plain = um \o p BY <1>3, <1>4, <1>5
<1>8. Octets(plain) BY <1>2, <1>6, <1>7, OctetsIs
<1> HIDE DEF plain
<1>10. code \in Seq(Int) /\ Base64Decode(code) = plain BY <1>8, <1>0, Base64RoundTrip
<1> HIDE DEF code
<1>11. plain \in Seq(Int) BY <1>8 DEF Octets
<1>12. AUTHORIZATION \in Seq(Int) BY DEF AUTHORIZATION
<1>13. PICK n \in Seq(Int), e \in Seq(Int), d \in Seq(Int) :
         n = AUTHORIZATION /\ e = code /\ d = plain
  BY <1>10, <1>11, <1>12
<1>14. Auth(c).piece = [k |-> "auth", name |-> n, val |-> e] BY <1>1, <1>13
<1>15. Auth(c).piece \in Piece BY <1>14 DEF Piece
<1>16. [name |-> n, val |-> d] \in Header BY DEF Header
<1>17. Plain(Auth(c).piece) = [name |-> n, val |-> d] BY <1>10, <1>13, <1>14 DEF Plain
<1> QED BY <1>13, <1>15, <1>16, <1>17 DEF plain

\* Steps that leave the request alone, and do not go where it is built.
LEMMA HeadQuiet ==
  ASSUME HeadInv, UNCHANGED <<prog, wb, head, given>>,
         pc' = pc \/ pc' \notin {"auth", "headers"}
  PROVE  HeadInv'
<1>1. Script' = Script BY DEF Script
<1>2. HeadComplete' BY DEF HeadInv, HeadComplete
<1> QED BY <1>1, <1>2 DEF HeadInv

\* The blank line a header is put before, and put back.
LEMMA HeaderSetIs ==
  ASSUME HeadInv, head # << >>, NEW p \in Piece, NEW x \in Header, Plain(p) = x
  PROVE  LET new == Kept \o <<p, CRLF, CRLF>>
         IN /\ HeaderSet(p, TRUE) = IF Size(new) <= wb THEN new ELSE head
            /\ new \in Seq(Piece) /\ new # << >> /\ Complete(new, Append(given, x))
<1>1. PICK h \in Seq(Piece), g \in Seq(Header) : h = head /\ g = given BY DEF HeadInv
<1>2. Complete(h, g) BY <1>1, HeadCompleteIs DEF HeadInv
<1> DEFINE k == SubSeq(h, 1, Len(h) - 1)
           new == k \o <<p, CRLF, CRLF>>
<1>3. /\ Append(k, CRLF) = h
      /\ new \in Seq(Piece) /\ Len(new) > 0 /\ Complete(new, Append(g, x))
  BY <1>2, HeaderAdded
<1>4. Kept = k BY <1>1 DEF Kept
<1> HIDE DEF k
<1>5. HeaderSet(p, TRUE) = IF Size(new) <= wb THEN new ELSE Append(k, CRLF)
  BY <1>4 DEF HeaderSet
<1>6. new # << >> BY <1>3
<1> HIDE DEF new
<1> QED BY <1>1, <1>3, <1>4, <1>5, <1>6 DEF new

\* It is put back where the header could not be formed, too.
LEMMA HeaderNotSet ==
  ASSUME HeadInv, head # << >>, NEW p
  PROVE  HeaderSet(p, FALSE) = head
<1>1. PICK h \in Seq(Piece), g \in Seq(Header) : h = head /\ g = given BY DEF HeadInv
<1>2. Complete(h, g) BY <1>1, HeadCompleteIs DEF HeadInv
<1>3. PICK q \in Piece, x \in Header : Plain(q) = x
  <2>1. HOST \in Seq(Int) BY DEF HOST
  <2> QED BY <2>1, ShortIs, HdrIs
<1>4. Append(SubSeq(h, 1, Len(h) - 1), CRLF) = h BY <1>2, <1>3, HeaderAdded
<1> QED BY <1>1, <1>4 DEF HeaderSet, Kept

\* A step that leaves a request in the buffer.
LEMMA HeadStands ==
  ASSUME HeadInv, UNCHANGED <<prog, wb>>, head' # << >>, head' \in Seq(Piece),
         given' \in Seq(Header), Size(head') <= wb, Complete(head', given'),
         pc' # "auth", (pc' = "headers" /\ Script.auth) => Len(given') > 0
  PROVE  HeadInv'
<1>1. Script' = Script BY DEF Script
<1>2. HeadComplete' BY HeadCompleteIs DEF HeadComplete, Complete, Last
<1> QED BY <1>1, <1>2 DEF HeadInv

\* mango_httpRequestNew.
LEMMA RequestNewHead == HeadInv /\ RequestNew => HeadInv'
<1> SUFFICES ASSUME HeadInv, RequestNew PROVE HeadInv' OBVIOUS
<1>1. UNCHANGED <<prog, wb>> /\ Script' = Script /\ given' = << >> /\ pc = "new"
  BY DEF RequestNew, appVars, Script
<1>2. << >> \in Seq(Header) /\ Len(<< >>) = 0 /\ << >> \in Seq(Piece) OBVIOUS
<1>3. CASE LineLen + 4 <= wb
  <2>1. head' = <<Line, CRLF, CRLF>> /\ pc' = IF Script.auth THEN "auth" ELSE "headers"
    BY <1>3 DEF RequestNew
  <2>2. head' \in Seq(Piece) /\ Size(head') <= wb BY <1>3, <2>1, SizeStart
  <2>3. head' # << >> /\ Len(head') = 3 /\ head'[1] = Line /\ head'[2] = CRLF /\ head'[3] = CRLF
    BY <2>1
  <2>4. HeadComplete'
    <3>1. 1 .. 0 = {} OBVIOUS
    <3> QED BY <1>1, <1>2, <2>2, <2>3, <3>1 DEF HeadComplete, Last
  <2> QED BY <1>1, <1>2, <2>1, <2>2, <2>3, <2>4 DEF HeadInv
<1>4. CASE ~(LineLen + 4 <= wb)
  <2>1. head' = << >> /\ pc' = "disconnect" BY <1>4 DEF RequestNew
  <2>2. HeadComplete' BY <2>1 DEF HeadComplete
  <2> QED BY <1>1, <1>2, <2>1, <2>2 DEF HeadInv
<1> QED BY <1>3, <1>4

\* httpAuthSet.
LEMMA AuthSetHead == HeadInv /\ AuthSet => HeadInv'
<1> SUFFICES ASSUME HeadInv, AuthSet PROVE HeadInv' OBVIOUS
<1>1. UNCHANGED <<prog, wb>> /\ head # << >> /\ given = << >> BY DEF AuthSet, appVars, HeadInv
<1>2. PICK c \in Creds :
         LET a == Auth(c)
             ok == a.ok /\ Size(Kept \o <<a.piece, CRLF, CRLF>>) <= wb
         IN /\ head' = HeaderSet(a.piece, a.ok)
            /\ given' = IF ok THEN <<[name |-> AUTHORIZATION,
                                      val |-> c.user \o <<58>> \o c.pass]>> ELSE << >>
            /\ pc' = IF ok THEN "headers" ELSE "disconnect"
  BY DEF AuthSet
<1> DEFINE p == Auth(c).piece
           new == Kept \o <<p, CRLF, CRLF>>
           x == [name |-> AUTHORIZATION, val |-> c.user \o <<58>> \o c.pass]
<1>3. CASE Auth(c).ok /\ Size(new) <= wb
  <2>1. p \in Piece /\ x \in Header /\ Plain(p) = x BY <1>3, AuthIs
  <2>2. given' = <<x>> /\ pc' = "headers" BY <1>2, <1>3
  <2>3. head' = HeaderSet(p, TRUE) BY <1>2, <1>3 DEF HeaderSet
  <2> HIDE DEF p, x
  <2>4. /\ HeaderSet(p, TRUE) = IF Size(new) <= wb THEN new ELSE head
        /\ new \in Seq(Piece) /\ new # << >> /\ Complete(new, Append(given, x))
    BY <1>1, <2>1, HeaderSetIs
  <2> HIDE DEF new
  <2>5. head' = new BY <1>3, <2>3, <2>4
  <2>6. Append(given, x) = <<x>> /\ <<x>> \in Seq(Header) /\ Len(<<x>>) > 0 BY <1>1, <2>1
  <2> QED BY <1>1, <1>3, <2>2, <2>4, <2>5, <2>6, HeadStands
<1>4. CASE ~(Auth(c).ok /\ Size(new) <= wb)
  <2>1. given' = << >> /\ pc' = "disconnect" BY <1>2, <1>4
  <2>2. head' = HeaderSet(p, FALSE) BY <1>2, <1>4 DEF HeaderSet
  <2>3. head' = head BY <1>1, <2>2, HeaderNotSet
  <2> QED BY <1>1, <2>1, <2>3, HeadQuiet
<1> QED BY <1>3, <1>4

\* mango_httpHeaderSet.
LEMMA SetHeaderHead == HeadInv /\ SetHeader => HeadInv'
<1> SUFFICES ASSUME HeadInv, SetHeader PROVE HeadInv' OBVIOUS
<1> DEFINE d == Done + 1
           x == Script.headers[d]
           p == Hdr(x)
           new == Kept \o <<p, CRLF, CRLF>>
<1>1. /\ UNCHANGED <<prog, wb>> /\ pc = "headers" /\ head # << >> /\ given \in Seq(Header)
      /\ Done < Len(Script.headers) /\ head' = HeaderSet(p, TRUE)
      /\ given' = IF Size(new) <= wb THEN Append(given, x) ELSE given
      /\ pc' = IF Size(new) <= wb THEN pc ELSE "disconnect"
  BY DEF SetHeader, appVars, HeadInv
<1>2. x \in Header
  <2>1. PICK hs \in Seq(Header) : hs = Script.headers BY ScriptIs DEF HeadInv
  <2>2. Done \in Nat
    <3>1. Len(given) \in Nat BY <1>1
    <3>2. Script.auth => Len(given) > 0 BY <1>1 DEF HeadInv
    <3> QED BY <3>1, <3>2 DEF Done
  <2>3. d \in 1 .. Len(hs) BY <1>1, <2>1, <2>2
  <2> HIDE DEF d
  <2> QED BY <2>1, <2>3, ElementOfSeq
<1> HIDE DEF d, x
<1>3. p \in Piece /\ Plain(p) = x BY <1>2, HdrIs
<1> HIDE DEF p
<1>4. /\ HeaderSet(p, TRUE) = IF Size(new) <= wb THEN new ELSE head
      /\ new \in Seq(Piece) /\ new # << >> /\ Complete(new, Append(given, x))
  BY <1>1, <1>2, <1>3, HeaderSetIs
<1> HIDE DEF new
<1>5. CASE Size(new) <= wb
  <2>1. head' = new /\ given' = Append(given, x) /\ pc' = "headers" BY <1>1, <1>4, <1>5
  <2>2. Append(given, x) \in Seq(Header) /\ Len(Append(given, x)) > 0
    BY <1>1, <1>2
  <2> QED BY <1>1, <1>4, <1>5, <2>1, <2>2, HeadStands
<1>6. CASE ~(Size(new) <= wb)
  <2>1. head' = head /\ given' = given /\ pc' = "disconnect" BY <1>1, <1>4, <1>6
  <2> QED BY <1>1, <2>1, HeadQuiet
<1> QED BY <1>5, <1>6

\* The request is built by three actions, and sent by the programs that left
\* the building of it by Process.
Building == RequestNew \/ AuthSet \/ SetHeader
Asked == {"sending", "reading", "upload", "packet", "ending"}

\* What the other steps leave alone.
LEMMA OtherSteps ==
  ASSUME [Next]_vars, ~Building
  PROVE  /\ UNCHANGED <<prog, wb, head, given>>
         /\ pc' = pc \/ pc' \notin {"auth", "headers"}
         /\ pc' \in Asked => pc \in Asked \/ Process
<1> USE DEF appVars, headVars, Asked
<1>1. CASE InPort(Port) \/ InPort(Peer) BY <1>1 DEF InPort
<1>2. CASE UNCHANGED vars BY <1>2 DEF vars
<1>3. CASE Load BY <1>3 DEF Load
<1>4. CASE Unload BY <1>4 DEF Unload
<1>5. CASE Connect BY <1>5 DEF Connect
<1>6. CASE Disconnect BY <1>6 DEF Disconnect
<1>7. CASE Process BY <1>7 DEF Process
<1>8. CASE HeadSent BY <1>8 DEF HeadSent
<1>9. CASE Answered
  <2>1. Again \in {"new", "disconnect"} BY DEF Again
  <2> QED BY <1>9, <2>1 DEF Answered
<1>10. CASE DataSend BY <1>10 DEF DataSend
<1>11. CASE PacketSent BY <1>11 DEF PacketSent
<1>12. CASE DataEnd BY <1>12 DEF DataEnd
<1>13. CASE EndSent BY <1>13 DEF EndSent
<1>14. CASE Poll BY <1>14 DEF Poll
<1>15. CASE Polled BY <1>15 DEF Polled, Answer
<1>16. CASE AnswerSent BY <1>16 DEF AnswerSent
<1>17. CASE FrameSend BY <1>17 DEF FrameSend, NextOf, Sent
<1>18. CASE FrameSent BY <1>18 DEF FrameSent
<1> QED BY <1>1, <1>2, <1>3, <1>4, <1>5, <1>6, <1>7, <1>8, <1>9, <1>10, <1>11, <1>12,
           <1>13, <1>14, <1>15, <1>16, <1>17, <1>18 DEF Next, Program, Building

\* The request stays whole.
LEMMA HeadStep == HeadInv /\ [Next]_vars => HeadInv'
<1> SUFFICES ASSUME HeadInv, [Next]_vars PROVE HeadInv' OBVIOUS
<1>1. CASE Building BY <1>1, RequestNewHead, AuthSetHead, SetHeaderHead DEF Building
<1>2. CASE ~Building BY <1>2, OtherSteps, HeadQuiet
<1> QED BY <1>1, <1>2

\* It carries what the script says.
LEMMA GivenStep == HeadInv /\ GivenInv /\ [Next]_vars => GivenInv'
<1> SUFFICES ASSUME HeadInv, GivenInv, [Next]_vars, prog' \in Posts
             PROVE  /\ \A i \in 1 .. Len(given') : given'[i] = Script'.headers[i]
                    /\ pc' \in Asked => head' # << >> /\ Len(given') = Len(Script'.headers)
  BY DEF GivenInv, Asked
<1>1. UNCHANGED prog /\ Script' = Script
  <2>1. UNCHANGED prog
    BY OtherSteps DEF Building, RequestNew, AuthSet, SetHeader, appVars
  <2> QED BY <2>1 DEF Script
<1>2. ~Script.auth /\ prog \in Posts BY <1>1, ScriptIs DEF HeadInv
<1>3. /\ \A i \in 1 .. Len(given) : given[i] = Script.headers[i]
      /\ pc \in Asked => head # << >> /\ Len(given) = Len(Script.headers)
  BY <1>2 DEF GivenInv, Asked
<1>4. CASE RequestNew
  <2>1. given' = << >> /\ pc' \notin Asked BY <1>4 DEF RequestNew, Asked
  <2>2. 1 .. Len(given') = {} BY <2>1
  <2> QED BY <2>1, <2>2
<1>5. CASE AuthSet BY <1>2, <1>5 DEF AuthSet, HeadInv
<1>6. CASE SetHeader
  <2> DEFINE d == Done + 1
             x == Script.headers[d]
  <2>1. given' \in {given, Append(given, x)} /\ pc' \notin Asked
    BY <1>6 DEF SetHeader, Asked
  <2>2. Done = Len(given) BY <1>2 DEF Done
  <2>3. PICK g \in Seq(Header) : g = given BY DEF HeadInv
  <2>4. x \in Header
    <3>1. PICK hs \in Seq(Header) : hs = Script.headers BY ScriptIs DEF HeadInv
    <3>2. Done < Len(Script.headers) BY <1>6 DEF SetHeader
    <3>3. d \in 1 .. Len(hs) BY <2>2, <2>3, <3>1, <3>2
    <3> HIDE DEF d
    <3> QED BY <3>1, <3>3, ElementOfSeq
  <2> HIDE DEF x
  <2>5. Len(Append(g, x)) = Len(g) + 1 /\ Append(g, x)[Len(g) + 1] = x
        /\ \A i \in 1 .. Len(g) : Append(g, x)[i] = g[i]
    BY <2>4, AppendProperties
  <2>6. ASSUME NEW i \in 1 .. Len(Append(g, x)) PROVE Append(g, x)[i] = Script.headers[i]
    <3>1. CASE i = Len(g) + 1 BY <2>2, <2>3, <2>5, <3>1 DEF x
    <3>2. CASE i # Len(g) + 1
      <4>1. i \in 1 .. Len(g) BY <2>5, <3>2
      <4> QED BY <1>3, <2>3, <2>5, <4>1
    <3> QED BY <3>1, <3>2
  <2> QED BY <1>1, <1>3, <2>1, <2>3, <2>6
<1>7. CASE ~Building
  <2>1. UNCHANGED <<head, given>> /\ (pc' \in Asked => pc \in Asked \/ Process)
    BY <1>7, OtherSteps
  <2>2. Process => head # << >> /\ Len(given) = Len(Script.headers)
    BY <1>2 DEF Process, HeadInv, Done
  <2> QED BY <1>1, <1>3, <2>1, <2>2
<1> QED BY <1>4, <1>5, <1>6, <1>7 DEF Building

\* At the start there is no request.
LEMMA InitHead == Init => HeadInv /\ GivenInv
<1> SUFFICES ASSUME Init PROVE HeadInv /\ GivenInv OBVIOUS
<1>1. /\ prog \in Programs /\ wb \in WBSizes /\ pc \in {"load", "connect"}
      /\ head = << >> /\ given = << >>
  BY DEF Init
<1>2. << >> \in Seq(Piece) /\ << >> \in Seq(Header) OBVIOUS
<1>3. HeadComplete BY <1>1 DEF HeadComplete
<1>4. 1 .. Len(given) = {} BY <1>1
<1> QED BY <1>1, <1>2, <1>3, <1>4 DEF HeadInv, GivenInv

-----------------------------------------------------------------------------
(***************************************************************************)
(* The upload.                                                             *)
(***************************************************************************)

\* A request that was sent leaves room for the frame of a chunk.
LEMMA ChunkRoom ==
  ASSUME HeadInv, GivenInv, prog \in Posts, pc \in Asked
  PROVE  wb \in Nat /\ wb >= ExtraChunkSz
<1>1. Len(given) = 4 /\ head # << >> /\ head \in Seq(Piece)
  BY ScriptIs DEF HeadInv, GivenInv, Asked
<1>2. Complete(head, given) /\ Size(head) <= wb BY <1>1, HeadCompleteIs DEF HeadInv
<1>3. wb \in Nat BY AppsAssumption DEF HeadInv
<1>4. PICK h \in Seq(Piece) : h = head BY <1>1
<1>5. Len(h) = 11 /\ h[1] = Line /\ h[2] = CRLF /\ h[11] = CRLF
  BY <1>1, <1>2, <1>4 DEF Complete
<1>6. \A i \in 1 .. 4 : h[2 * i + 2] = CRLF BY <1>1, <1>2, <1>4 DEF Complete
<1>7. h[4] = CRLF /\ h[6] = CRLF /\ h[8] = CRLF /\ h[10] = CRLF
  <2>1. h[2 * 1 + 2] = CRLF /\ h[2 * 2 + 2] = CRLF /\ h[2 * 3 + 2] = CRLF /\ h[2 * 4 + 2] = CRLF
    BY <1>6
  <2> QED BY <2>1
<1>8. \A i \in {2, 4, 6, 8, 10, 11} : h[i] = CRLF BY <1>5, <1>7
<1>9. Size(h) >= ExtraChunkSz /\ Size(h) \in Nat BY <1>5, <1>8, SizeOfFour
<1>10. PICK n \in Nat : n = Size(h) BY <1>9
<1> QED BY <1>2, <1>3, <1>4, <1>9, <1>10 DEF ExtraChunkSz

\* What is known of the upload where the program is.
UploadAt(p) ==
    /\ p \in {"upload", "packet", "ending"} => prog \in Posts
    /\ p = "packet" => upload.sent < FileSz
    /\ p = "ending" => upload.sent = FileSz
    /\ p = "reading" => upload = NoUpload \/ upload.sent = FileSz
    /\ p \in {"load", "connect", "new", "auth", "headers", "sending"} => upload = NoUpload

\* The program moves on.
LEMMA UploadQuiet ==
  ASSUME UploadInv, UNCHANGED <<prog, upload>>, UploadAt(pc')
  PROVE  UploadInv'
<1>1. SendNow' = SendNow BY DEF SendNow
<1> QED BY <1>1 DEF UploadInv, UploadAt

\* Every program does so, but for the one that has sent a packet.
LEMMA UploadMoves ==
  ASSUME HeadInv, UploadInv, [Next]_vars, ~PacketSent
  PROVE  UNCHANGED <<prog, upload>> /\ UploadAt(pc')
<1>1. UploadAt(pc) BY DEF UploadInv, UploadAt
<1>2. prog \notin Posts => upload = NoUpload BY DEF UploadInv
<1> USE DEF appVars, msgVars
<1>3. CASE InPort(Port) \/ InPort(Peer) BY <1>1, <1>3 DEF InPort
<1>4. CASE UNCHANGED vars BY <1>1, <1>4 DEF vars
<1> USE <1>1 DEF UploadAt
<1>5. CASE Load BY <1>5 DEF Load
<1>6. CASE Unload BY <1>6 DEF Unload
<1>7. CASE Connect BY <1>7 DEF Connect
<1>8. CASE Disconnect BY <1>8 DEF Disconnect
<1>9. CASE RequestNew BY <1>9 DEF RequestNew
<1>10. CASE AuthSet
  <2>1. pc' \in {"headers", "disconnect"} BY <1>10 DEF AuthSet
  <2> QED BY <1>10, <2>1 DEF AuthSet
<1>11. CASE SetHeader
  <2>1. pc' \in {"headers", "disconnect"} BY <1>11 DEF SetHeader
  <2> QED BY <1>11, <2>1 DEF SetHeader
<1>12. CASE Process BY <1>12 DEF Process
<1>13. CASE HeadSent BY <1>13 DEF HeadSent
<1>14. CASE Answered
  <2>1. Again = "disconnect" \/ (Again = "new" /\ prog \notin Posts)
    BY ScriptIs DEF Again, HeadInv
  <2> QED BY <1>2, <1>14, <2>1 DEF Answered, Posts
<1>15. CASE DataSend BY <1>15 DEF DataSend
<1>16. CASE DataEnd BY <1>16 DEF DataEnd
<1>17. CASE EndSent BY <1>17 DEF EndSent
<1>18. CASE Poll BY <1>18 DEF Poll
<1>19. CASE Polled BY <1>19 DEF Polled, Answer
<1>20. CASE AnswerSent BY <1>20 DEF AnswerSent
<1>21. CASE FrameSend BY <1>21 DEF FrameSend, NextOf, Sent
<1>22. CASE FrameSent BY <1>22 DEF FrameSent
<1> QED BY <1>3, <1>4, <1>5, <1>6, <1>7, <1>8, <1>9, <1>10, <1>11, <1>12, <1>13, <1>14,
           <1>15, <1>16, <1>17, <1>18, <1>19, <1>20, <1>21, <1>22 DEF Next, Program

\* mango_httpDataPut: the server has got what was put, in one packet or in
\* chunks.
LEMMA PacketUpload ==
  ASSUME HeadInv, GivenInv, UploadInv, PacketSent
  PROVE  UploadInv'
<1>1. /\ UNCHANGED prog /\ pc = "packet" /\ pc' \in {"upload", "disconnect"}
  BY DEF PacketSent, appVars
<1>2. prog \in Posts /\ upload.sent < FileSz BY <1>1 DEF UploadInv
<1>3. CASE UNCHANGED upload
  <2>1. UploadAt(pc') BY <1>1, <1>2 DEF UploadAt
  <2> QED BY <1>1, <1>3, <2>1, UploadQuiet
<1>4. CASE ~(UNCHANGED upload)
  <2>1. PICK s \in Nat, p \in Nat, g \in Nat :
          /\ s = upload.sent /\ p = upload.part /\ g = upload.got
          /\ upload = [sent |-> s, part |-> p, got |-> g] /\ g = s + p
    BY Widths, AppsAssumption DEF UploadInv
  <2>2. FileSz \in Nat /\ FileSz < Word /\ BufSz \in Nat /\ BufSz > 0 /\ s < FileSz
    BY <1>2, <2>1, Widths, AppsAssumption
  <2>3. PICK now0 \in Nat : now0 = SendNow /\ now0 <= FileSz - s /\ now0 > 0 /\ now0 <= BufSz
    BY <2>1, <2>2 DEF SendNow, Least
  <2>4. (p = 0 \/ p < now0) /\ (prog = "post" => p = 0) BY <2>1, <2>3 DEF UploadInv
  <2>5. PICK n \in Nat : /\ n = IF prog = "post" THEN SendNow ELSE SendSz
                         /\ p + n <= now0 /\ (prog = "post" => p + n = now0) /\ n < Word
    <3>1. CASE prog = "post" BY <2>2, <2>3, <2>4, <3>1, Widths
    <3>2. CASE prog # "post"
      <4>1. PICK w \in Nat : w = wb /\ w >= 13
        <5>1. pc \in Asked BY <1>1 DEF Asked
        <5> QED BY <1>2, <5>1, ChunkRoom DEF ExtraChunkSz
      <4>2. SendSz = Least(now0 - p, w - 13) BY <2>1, <2>3, <4>1 DEF SendSz, ExtraChunkSz
      <4>3. SendSz \in Nat /\ p + SendSz <= now0 /\ SendSz < Word
        BY <2>2, <2>3, <2>4, <4>1, <4>2, Widths DEF Least
      <4> QED BY <3>2, <4>3
    <3> QED BY <3>1, <3>2
  <2>6. (IF prog = "post" THEN n ELSE ChunkValue(n)) = n BY <2>5, ChunkValueIs
  <2>7. /\ pc' = "upload"
        /\ upload' = IF p + n = now0
                     THEN [sent |-> s + now0, part |-> 0, got |-> g + n]
                     ELSE [upload EXCEPT !.part = p + n, !.got = g + n]
    BY <1>4, <2>1, <2>3, <2>5, <2>6 DEF PacketSent
  <2>8. CASE p + n = now0
    <3>1. upload' = [sent |-> s + now0, part |-> 0, got |-> g + n] BY <2>7, <2>8
    <3>2. upload'.sent = s + now0 /\ upload'.part = 0 /\ upload'.got = g + n BY <3>1
    <3>3. s + now0 \in 0 .. FileSz /\ g + n = s + now0 BY <2>1, <2>2, <2>3, <2>8
    <3> QED BY <1>1, <1>2, <2>7, <3>1, <3>2, <3>3 DEF UploadInv
  <2>9. CASE p + n # now0
    <3>1. upload' = [sent |-> s, part |-> p + n, got |-> g + n] BY <2>1, <2>7, <2>9
    <3>2. upload'.sent = s /\ upload'.part = p + n /\ upload'.got = g + n BY <3>1
    <3>3. SendNow' = now0 BY <2>1, <2>3, <3>2 DEF SendNow
    <3>4. p + n < now0 /\ prog # "post" /\ s \in 0 .. FileSz /\ g + n = s + (p + n)
      BY <2>1, <2>2, <2>3, <2>5, <2>9
    <3> QED BY <1>1, <1>2, <2>7, <3>1, <3>2, <3>3, <3>4 DEF UploadInv
  <2> QED BY <2>8, <2>9
<1> QED BY <1>3, <1>4

\* The upload keeps step with what was put.
LEMMA UploadStep == HeadInv /\ GivenInv /\ UploadInv /\ [Next]_vars => UploadInv'
<1> SUFFICES ASSUME HeadInv, GivenInv, UploadInv, [Next]_vars PROVE UploadInv' OBVIOUS
<1>1. CASE PacketSent BY <1>1, PacketUpload
<1>2. CASE ~PacketSent BY <1>2, UploadMoves, UploadQuiet
<1> QED BY <1>1, <1>2

\* A size is announced in an answer, and read there.
LEMMA SizeStep == SizeClear /\ [Next]_vars => SizeClear'
<1> SUFFICES ASSUME SizeClear, [Next]_vars PROVE SizeClear' OBVIOUS
<1>1. CASE UNCHANGED size BY <1>1 DEF SizeClear
<1>2. CASE AnnouncesLength \/ AnnouncesChunk BY <1>2, LengthRead, ChunkRead
<1>3. UNCHANGED size \/ AnnouncesLength \/ AnnouncesChunk
  <2> USE DEF msgVars
  <2>1. CASE Answered BY <2>1 DEF Answered
  <2>2. CASE Load \/ Unload \/ Connect \/ Disconnect
    BY <2>2 DEF Load, Unload, Connect, Disconnect
  <2>3. CASE RequestNew \/ AuthSet \/ SetHeader \/ Process \/ HeadSent
    BY <2>3 DEF RequestNew, AuthSet, SetHeader, Process, HeadSent
  <2>4. CASE DataSend \/ PacketSent \/ DataEnd \/ EndSent
    BY <2>4 DEF DataSend, PacketSent, DataEnd, EndSent
  <2>5. CASE Poll \/ Polled \/ AnswerSent \/ FrameSend \/ FrameSent
    BY <2>5 DEF Poll, Polled, AnswerSent, FrameSend, FrameSent
  <2>6. CASE InPort(Port) \/ InPort(Peer) BY <2>6 DEF InPort
  <2>7. CASE UNCHANGED vars BY <2>7 DEF vars
  <2> QED BY <2>1, <2>2, <2>3, <2>4, <2>5, <2>6, <2>7 DEF Next, Program
<1> QED BY <1>1, <1>2, <1>3

\* The server finds the Content-Length of an upload behind the headers that
\* stand before it, and reads the length of the file.
LEMMA PostLength ==
  ASSUME HeadInv, GivenInv, prog = "post", pc = "upload"
  PROVE  LET g == mangoHelper_httpHeaderGet(given, CONTENT_LENGTH, 11)
         IN g.found = 1 /\ mangoHelper_decstr2dec(g.val) = FileSz
<1>1. FileSz \in Nat /\ FileSz < Word BY Widths, AppsAssumption
<1>2. PICK w \in 1 .. DecDigits :
        LET s == mangoHelper_dec2decstr(FileSz)
        IN s \in Seq(Int) /\ Len(s) = w /\ Spells(s, FileSz, 10, w)
  BY <1>1, DecSpells
<1>3. PICK v \in Seq(Int) : v = mangoHelper_dec2decstr(FileSz) BY <1>2
<1>4. Len(v) = w /\ w \in 1 .. 10 /\ Spells(v, FileSz, 10, w) /\ w <= DecDigits
  BY <1>2, <1>3, DigitsAssumption
<1>5. Numeral(v, FileSz, 10, w)
  <2>1. w \in 1 .. w /\ w + 1 .. w = {} BY <1>4
  <2> QED BY <1>4, <2>1 DEF Numeral
<1>6. mangoHelper_decstr2dec(Trimmed(v)) = FileSz
  <2>1. Numeral(Trimmed(v), FileSz, 10, w) BY <1>1, <1>5, NumeralTrimmed
  <2> QED BY <1>1, <1>4, <2>1, DecRead
<1>7. prog \in Posts /\ Len(given) = 4 /\ \A i \in 1 .. 4 : given[i] = httpPost(FALSE)[i]
  <2>1. prog \in Posts BY DEF Posts
  <2>2. Script.headers = httpPost(FALSE) /\ Len(Script.headers) = 4
    BY <2>1, ScriptIs DEF HeadInv
  <2> QED BY <2>1, <2>2 DEF GivenInv
<1>8. /\ given[1] = Short(HOST) /\ given[2] = Short(CONNECTION)
      /\ given[3] = [name |-> CONTENT_LENGTH, val |-> v]
  <2>1. /\ httpPost(FALSE)[1] = Short(HOST) /\ httpPost(FALSE)[2] = Short(CONNECTION)
        /\ httpPost(FALSE)[3] = [name |-> CONTENT_LENGTH, val |-> v]
    BY <1>3, PostHeaders
  <2>2. 1 \in 1 .. 4 /\ 2 \in 1 .. 4 /\ 3 \in 1 .. 4 OBVIOUS
  <2> QED BY <1>7, <2>1, <2>2
<1>9. ASSUME NEW j \in 1 .. 3 - 1 PROVE ~Begins(CONTENT_LENGTH, given[j].name)
  <2>1. given[1].name = <<1>> /\ given[2].name = <<2>> BY <1>8 DEF Short, HOST, CONNECTION
  <2>2. Len(CONTENT_LENGTH) = 2 /\ Len(<<1>>) = 1 /\ Len(<<2>>) = 1 BY DEF CONTENT_LENGTH
  <2>3. j = 1 \/ j = 2 OBVIOUS
  <2> QED BY <2>1, <2>2, <2>3 DEF Begins
<1>10. mangoHelper_httpHeaderGet(given, CONTENT_LENGTH, 11) = [found |-> 1, val |-> Trimmed(v)]
  <2>1. given[3].name = CONTENT_LENGTH /\ given[3].val = v BY <1>8
  <2>2. ~(Len(given[3].val) >= 11) BY <1>4, <2>1
  <2>3. Len(CONTENT_LENGTH) \in Nat BY DEF CONTENT_LENGTH
  <2>4. 3 \in 1 .. Len(given) /\ Len(given) \in Nat BY <1>7
  <2> QED BY <1>9, <2>1, <2>2, <2>3, <2>4, HeaderFound
<1> QED BY <1>6, <1>10

\* Nothing is sent at the start.
LEMMA InitUpload == Init => UploadInv /\ SizeClear
<1> SUFFICES ASSUME Init PROVE UploadInv /\ SizeClear OBVIOUS
<1>1. /\ upload = [sent |-> 0, part |-> 0, got |-> 0] /\ pc \in {"load", "connect"}
      /\ upload = NoUpload /\ size = NoSize
  BY DEF Init, NoUpload
<1>2. 0 \in 0 .. FileSz BY AppsAssumption, Widths
<1>3. UploadInv BY <1>1, <1>2 DEF UploadInv
<1>4. SizeClear BY <1>1 DEF SizeClear, NoSize
<1> QED BY <1>3, <1>4

-----------------------------------------------------------------------------
(***************************************************************************)
(* The theorems.                                                           *)
(***************************************************************************)

\* Whatever the size of the working buffer, the headers and the credentials,
\* and wherever setting one of them fails, the request is its line, the headers
\* mango_httpHeaderSet and httpAuthSet accepted, in that order, and one blank
\* line, and a server decodes the credentials it carries to the ones given.
THEOREM HeadsAlwaysComplete == Spec => []HeadComplete
<1>1. Init => HeadInv BY InitHead
<1>2. HeadInv => HeadComplete BY DEF HeadInv
<1> QED BY <1>1, <1>2, HeadStep, PTL DEF Spec

\* For any file, buffer, working buffer and word size, the server gets as many
\* bytes as Content-Length or the chunks announce, and mango reads the size the
\* server wrote as it was meant whenever it is one that mango can be expected
\* to read.
THEOREM SizesAlwaysUnderstood == Spec => []SizesUnderstood
<1> DEFINE Inv == HeadInv /\ GivenInv /\ UploadInv /\ SizeClear
<1>1. Init => Inv BY InitHead, InitUpload
<1>2. Inv /\ [Next]_vars => Inv' BY HeadStep, GivenStep, UploadStep, SizeStep
<1>3. Inv => SizesUnderstood
  <2> SUFFICES ASSUME Inv PROVE SizesUnderstood OBVIOUS
  <2>1. (prog = "post" /\ pc = "upload") =>
          LET g == mangoHelper_httpHeaderGet(given, CONTENT_LENGTH, 11)
          IN g.found = 1 /\ mangoHelper_decstr2dec(g.val) = FileSz
    BY PostLength
  <2>2. (pc = "ending" \/ (pc = "reading" /\ upload # NoUpload)) => upload.got = FileSz
    <3>1. FileSz \in Nat /\ BufSz \in Nat /\ BufSz > 0 BY Widths, AppsAssumption
    <3>2. upload.sent = FileSz => SendNow = 0 BY <3>1 DEF SendNow, Least
    <3>3. upload.sent = FileSz => upload.part = 0 BY <3>2 DEF UploadInv
    <3>4. upload.sent = FileSz => upload.got = FileSz BY <3>1, <3>3 DEF UploadInv
    <3> QED BY <3>4 DEF UploadInv
  <2> QED BY <2>1, <2>2 DEF SizesUnderstood, SizeClear
<1> QED BY <1>1, <1>2, <1>3, PTL DEF Spec
=============================================================================
