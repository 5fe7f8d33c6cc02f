-------------------------- MODULE SpiffsRefinement --------------------------
(***************************************************************************)
(* SpiffsFiles implements FileApi, for careful callers, a flash that does  *)
(* not fill and any number of files, descriptors and cache pages.  The     *)
(* lemmas say what each function of the code does to the files as their    *)
(* readers see them (View); SpiffsProofs says what it keeps.               *)
(***************************************************************************)
EXTENDS SpiffsProofs

(***************************************************************************)
(* What the refinement rests on besides Invariant: an object with a name   *)
(* is live; a slot that is closed has no id and no position; a cached      *)
(* write begins within the data on the flash; and no position lies behind  *)
(* the end that readers see, so spiffs_hydro_write never moves an offset.  *)
(***************************************************************************)
Live(s)   == \A i \in Ids : s.obj[i].live <=> s.obj[i].name # NoName
Reset(s)  == \A h \in Fds : ~s.fd[h].open => s.fd[h].id = NoId /\ s.fd[h].off = 0
Placed(s) == \A p \in CPages : s.cp[p].id # NoId => s.cp[p].off <= Len(s.obj[s.cp[p].id].data)
Inside(s) == \A h \in Fds : s.fd[h].open => s.fd[h].off <= Len(View(s, s.fd[h].id))
Tidy(s)   == Live(s) /\ Reset(s) /\ Placed(s) /\ Inside(s)
Whole(s)  == Good(s) /\ Cached(s) /\ Tidy(s)

(* No object but i, and no page of another object, changes.                *)
Only(s, t, i) ==
    \A j \in Ids \ {i} : /\ t.obj[j] = s.obj[j]
                         /\ PagesOf(t, j) = PagesOf(s, j)
                         /\ \A p \in PagesOf(s, j) : t.cp[p] = s.cp[p]
-----------------------------------------------------------------------------
(* What an overlay holds, cell by cell.                                    *)
LEMMA OverlayAt ==
  ASSUME NEW d \in Seq(Cells), NEW b \in Seq(Cells), NEW at \in Nat, at <= Len(d)
  PROVE  /\ Overlay(d, at, b) \in Seq(Cells)
         /\ Len(Overlay(d, at, b)) = Greater(Len(d), at + Len(b))
         /\ \A k \in 1 .. Greater(Len(d), at + Len(b)) :
               Overlay(d, at, b)[k] = IF k \in at + 1 .. at + Len(b) THEN b[k - at] ELSE d[k]
<1>1. /\ Overlay(d, at, b) \in Seq(Cells)
      /\ Len(Overlay(d, at, b)) = Greater(Len(d), at + Len(b))
  BY OverlayType
<1>2. \A k \in 1 .. Greater(Len(d), at + Len(b)) :
         Overlay(d, at, b)[k] = IF k \in at + 1 .. at + Len(b) THEN b[k - at] ELSE d[k]
  BY DEF Overlay
<1> QED BY <1>1, <1>2

(* Two sequences of one length with the same cells.                        *)
LEMMA SameCells ==
  ASSUME NEW c \in Seq(Cells), NEW e \in Seq(Cells), NEW n \in Nat, Len(c) = n, Len(e) = n,
         \A k \in 1 .. n : c[k] = e[k]
  PROVE  c = e
  OBVIOUS

(* The same, with the lengths named.                                       *)
Laid(c, d, at, b, l, n) ==
    /\ c \in Seq(Cells) /\ Len(c) = n /\ n \in Nat
    /\ \A k \in 1 .. n : c[k] = IF k \in at + 1 .. at + l THEN b[k - at] ELSE d[k]

(* Overlay says so.                                                        *)
LEMMA OverlayIs ==
  ASSUME NEW d \in Seq(Cells), NEW b \in Seq(Cells), NEW at \in Nat, at <= Len(d),
         NEW l, l = Len(b), NEW n, n = Greater(Len(d), at + l), NEW c, c = Overlay(d, at, b)
  PROVE  Laid(c, d, at, b, l, n)
<1>1. n \in Nat BY DEF Greater
<1>2. c \in Seq(Cells) /\ Len(c) = n BY OverlayType
<1>3. ASSUME NEW k \in 1 .. n
      PROVE  c[k] = IF k \in at + 1 .. at + l THEN b[k - at] ELSE d[k]
  <2>1. k \in 1 .. Greater(Len(d), at + Len(b)) OBVIOUS
  <2>2. Overlay(d, at, b)[k] = IF k \in at + 1 .. at + Len(b) THEN b[k - at] ELSE d[k]
    BY <2>1 DEF Overlay
  <2> QED BY <2>2
<1> QED BY <1>1, <1>2, <1>3 DEF Laid

(* Nothing laid over, and something laid over nothing.                     *)
LEMMA OverlayNothing ==
  ASSUME NEW d \in Seq(Cells), NEW at \in Nat, at <= Len(d)
  PROVE  Overlay(d, at, <<>>) = d
<1> DEFINE c == Overlay(d, at, <<>>)
<1>1. <<>> \in Seq(Cells) /\ Len(<<>>) = 0 OBVIOUS
<1>2. Greater(Len(d), at + 0) = Len(d) BY DEF Greater
<1>3. /\ c \in Seq(Cells) /\ Len(c) = Len(d)
      /\ \A k \in 1 .. Len(d) : c[k] = IF k \in at + 1 .. at + 0 THEN <<>>[k - at] ELSE d[k]
  <2> DEFINE b == <<>>
  <2>1. b \in Seq(Cells) /\ Len(b) = 0 OBVIOUS
  <2> HIDE DEF b
  <2>2. /\ Overlay(d, at, b) \in Seq(Cells)
        /\ Len(Overlay(d, at, b)) = Greater(Len(d), at + Len(b))
        /\ \A k \in 1 .. Greater(Len(d), at + Len(b)) : Overlay(d, at, b)[k]
              = IF k \in at + 1 .. at + Len(b) THEN b[k - at] ELSE d[k]
    <3>1. \A k \in 1 .. Greater(Len(d), at + Len(b)) : Overlay(d, at, b)[k]
              = IF k \in at + 1 .. at + Len(b) THEN b[k - at] ELSE d[k]
      BY DEF Overlay
    <3> QED BY <2>1, <3>1, OverlayType
  <2>3. Greater(Len(d), at + Len(b)) = Len(d) BY <1>2, <2>1
  <2> QED BY <2>1, <2>2, <2>3 DEF b
<1> HIDE DEF c
<1>4. \A k \in 1 .. Len(d) : c[k] = d[k] BY <1>3
<1> QED BY <1>3, <1>4, SameCells DEF c

(* A buffer laid over an empty file is the file.                           *)
LEMMA OverlayOnNothing ==
  ASSUME NEW b \in Seq(Cells)
  PROVE  Overlay(<<>>, 0, b) = b
<1> DEFINE c == Overlay(<<>>, 0, b)
<1>1. <<>> \in Seq(Cells) /\ Len(<<>>) = 0 /\ Len(b) \in Nat OBVIOUS
<1>2. Greater(0, 0 + Len(b)) = Len(b) BY <1>1 DEF Greater
<1>3. /\ c \in Seq(Cells) /\ Len(c) = Len(b)
      /\ \A k \in 1 .. Len(b) : c[k] = IF k \in 0 + 1 .. 0 + Len(b) THEN b[k - 0] ELSE <<>>[k]
  <2> DEFINE d == <<>>
             l == Len(b)
  <2>1. d \in Seq(Cells) /\ Len(d) = 0 OBVIOUS
  <2>2. c = Overlay(d, 0, b) OBVIOUS
  <2> HIDE DEF d, c, l
  <2>3. l = Len(b) /\ l = Greater(Len(d), 0 + l) /\ 0 \in Nat /\ 0 <= Len(d)
    BY <1>1, <1>2, <2>1 DEF l
  <2>4. /\ c \in Seq(Cells) /\ Len(c) = l
        /\ \A k \in 1 .. l : c[k] = IF k \in 0 + 1 .. 0 + l THEN b[k - 0] ELSE d[k]
    <3>1. Laid(c, d, 0, b, l, l) BY <2>1, <2>2, <2>3, OverlayIs
    <3> QED BY <3>1 DEF Laid
  <2> QED BY <2>4 DEF d, l
<1> HIDE DEF c
<1>4. \A k \in 1 .. Len(b) : c[k] = b[k] BY <1>1, <1>3
<1> QED BY <1>1, <1>3, <1>4, SameCells DEF c

(* A buffer laid over in two parts, at the end of the file or before it.   *)
LEMMA OverlayParts ==
  ASSUME NEW d \in Seq(Cells), NEW b \in Seq(Cells), NEW at \in Nat, at <= Len(d),
         NEW m \in 0 .. Len(b), at + m = Len(d)
  PROVE  Overlay(Overlay(d, at, SubSeq(b, 1, m)), at + m, SubSeq(b, m + 1, Len(b)))
           = Overlay(d, at, b)
<1> DEFINE x == SubSeq(b, 1, m)
           y == SubSeq(b, m + 1, Len(b))
           e == Overlay(d, at, x)
           c == Overlay(e, at + m, y)
           r == Overlay(d, at, b)
           n == at + Len(b)
<1>1. /\ x \in Seq(Cells) /\ Len(x) = m /\ \A k \in 1 .. m : x[k] = b[k]
      /\ y \in Seq(Cells) /\ Len(y) = Len(b) - m
      /\ \A k \in 1 .. Len(b) - m : y[k] = b[m + k]
      /\ Len(b) \in Nat /\ m \in Nat /\ Len(d) = at + m
  BY SMTT(60)
<1> HIDE DEF x, y
<1>2. Greater(Len(d), at + Len(x)) = Len(d) BY <1>1 DEF Greater
<1>3. /\ e \in Seq(Cells) /\ Len(e) = at + m
      /\ \A k \in 1 .. at + m : e[k] = IF k \in at + 1 .. at + m THEN x[k - at] ELSE d[k]
  <2>1. m = Len(x) /\ at + m = Greater(Len(d), at + m) /\ e = Overlay(d, at, x) BY <1>1, <1>2
  <2> HIDE DEF e
  <2>2. Laid(e, d, at, x, m, at + m) BY <1>1, <2>1, OverlayIs
  <2> QED BY <2>2 DEF Laid
<1> HIDE DEF e
<1>4. Greater(Len(e), at + m + Len(y)) = n /\ Greater(Len(d), at + Len(b)) = n /\ n \in Nat
  BY <1>1, <1>3 DEF Greater
<1>5. at + m \in Nat /\ at + m <= Len(e) BY <1>1, <1>3
<1>6. /\ c \in Seq(Cells) /\ Len(c) = n
      /\ \A k \in 1 .. n : c[k] = IF k \in at + m + 1 .. at + m + Len(y) THEN y[k - (at + m)]
                                  ELSE e[k]
  <2> DEFINE a == at + m
             l == Len(y)
  <2>1. a \in Nat /\ a <= Len(e) /\ l = Len(y) /\ n = Greater(Len(e), a + l) BY <1>4, <1>5
  <2>2. c = Overlay(e, a, y) OBVIOUS
  <2> HIDE DEF c, a, l, n
  <2>3. /\ c \in Seq(Cells) /\ Len(c) = n
        /\ \A k \in 1 .. n : c[k] = IF k \in a + 1 .. a + l THEN y[k - a] ELSE e[k]
    <3>1. Laid(c, e, a, y, l, n) BY <1>1, <1>3, <2>1, <2>2, OverlayIs
    <3> QED BY <3>1 DEF Laid
  <2> QED BY <2>3 DEF a, l
<1>7. /\ r \in Seq(Cells) /\ Len(r) = n
      /\ \A k \in 1 .. n : r[k] = IF k \in at + 1 .. at + Len(b) THEN b[k - at] ELSE d[k]
  <2>1. r = Overlay(d, at, b) /\ n = Greater(Len(d), at + Len(b)) BY <1>4
  <2> HIDE DEF r, n
  <2>2. Laid(r, d, at, b, Len(b), n) BY <2>1, OverlayIs
  <2> QED BY <2>2 DEF Laid
<1> HIDE DEF c, r
<1>8. ASSUME NEW k \in 1 .. n PROVE c[k] = r[k]
  <2>1. CASE k > at + m
    <3>1. k - (at + m) \in 1 .. Len(b) - m /\ m + (k - (at + m)) = k - at BY <1>1, <2>1
    <3>2. c[k] = y[k - (at + m)] BY <1>1, <1>6, <2>1
    <3>3. r[k] = b[k - at]
      <4>1. k \in at + 1 .. at + Len(b) BY <1>1, <2>1
      <4> QED BY <1>7, <4>1
    <3>4. y[k - (at + m)] = b[m + (k - (at + m))] BY <1>1, <3>1
    <3> QED BY <3>1, <3>2, <3>3, <3>4
  <2>2. CASE k <= at + m /\ k > at
    <3>1. c[k] = e[k] /\ k \in 1 .. at + m BY <1>1, <1>6, <2>2
    <3>2. e[k] = x[k - at] /\ k - at \in 1 .. m BY <1>1, <1>3, <2>2, <3>1
    <3>3. r[k] = b[k - at]
      <4>1. k \in at + 1 .. at + Len(b) BY <1>1, <2>2
      <4> QED BY <1>7, <4>1
    <3> QED BY <1>1, <3>1, <3>2, <3>3
  <2>3. CASE k <= at
    <3>1. c[k] = e[k] /\ k \in 1 .. at + m BY SMTT(30), <1>1, <1>6, <2>3
    <3>2. e[k] = d[k] BY <1>3, <2>3, <3>1
    <3>3. r[k] = d[k] BY <1>7, <2>3
    <3> QED BY <3>1, <3>2, <3>3
  <2> QED BY <1>1, <2>1, <2>2, <2>3
<1> HIDE DEF n
<1>9. c = r BY <1>4, <1>6, <1>7, <1>8, SameCells
<1> QED BY <1>9 DEF c, r, e, x, y

(* A buffer laid over twice at one place.                                  *)
LEMMA OverlayTwice ==
  ASSUME NEW d \in Seq(Cells), NEW b \in Seq(Cells), NEW at \in Nat, at <= Len(d)
  PROVE  Overlay(Overlay(d, at, b), at, b) = Overlay(d, at, b)
<1> DEFINE e == Overlay(d, at, b)
           c == Overlay(e, at, b)
           n == Greater(Len(d), at + Len(b))
<1>1. Len(b) \in Nat /\ Len(d) \in Nat OBVIOUS
<1>2. n \in Nat /\ n >= at + Len(b) /\ n >= Len(d) BY <1>1 DEF Greater
<1>3. /\ e \in Seq(Cells) /\ Len(e) = n
      /\ \A k \in 1 .. n : e[k] = IF k \in at + 1 .. at + Len(b) THEN b[k - at] ELSE d[k]
  BY OverlayAt
<1> HIDE DEF e, n
<1>4. Greater(Len(e), at + Len(b)) = n BY <1>1, <1>2, <1>3 DEF Greater
<1>5. at <= Len(e) BY <1>1, <1>2, <1>3
<1>6. /\ c \in Seq(Cells) /\ Len(c) = n
      /\ \A k \in 1 .. n : c[k] = IF k \in at + 1 .. at + Len(b) THEN b[k - at] ELSE e[k]
  <2>1. c = Overlay(e, at, b) /\ n = Greater(Len(e), at + Len(b)) BY <1>4
  <2> HIDE DEF c
  <2>2. Laid(c, e, at, b, Len(b), n) BY <1>3, <1>5, <2>1, OverlayIs
  <2> QED BY <2>2 DEF Laid
<1> HIDE DEF c
<1>7. \A k \in 1 .. n : c[k] = e[k] BY <1>3, <1>6
<1>8. c = e BY <1>2, <1>3, <1>6, <1>7, SameCells
<1> QED BY <1>8 DEF c, e

(* A write that is put in a cache page that is laid over the file.         *)
LEMMA OverlayNested ==
  ASSUME NEW d \in Seq(Cells), NEW b \in Seq(Cells), NEW c \in Seq(Cells),
         NEW at \in Nat, at <= Len(d), NEW off \in Nat, at <= off, off <= at + Len(c)
  PROVE  Overlay(d, at, Overlay(c, off - at, b)) = Overlay(Overlay(d, at, c), off, b)
<1> DEFINE e == Overlay(c, off - at, b)
           f == Overlay(d, at, c)
           x == Overlay(d, at, e)
           y == Overlay(f, off, b)
           le == Greater(Len(c), off - at + Len(b))
           lf == Greater(Len(d), at + Len(c))
           n == Greater(lf, off + Len(b))
<1>1. Len(b) \in Nat /\ Len(c) \in Nat /\ Len(d) \in Nat /\ off - at \in Nat
      /\ off - at <= Len(c)
  OBVIOUS
<1>2. /\ le \in Nat /\ lf \in Nat /\ n \in Nat /\ le >= Len(c) /\ le >= off - at + Len(b)
      /\ lf >= Len(d) /\ lf >= at + Len(c) /\ n >= lf /\ n >= off + Len(b)
      /\ Greater(Len(d), at + le) = n
      /\ (n = Len(d) \/ n = at + le) /\ (n = lf \/ n = off + Len(b))
      /\ (le = Len(c) \/ le = off - at + Len(b)) /\ (lf = Len(d) \/ lf = at + Len(c))
  BY <1>1 DEF Greater
<1>3. /\ e \in Seq(Cells) /\ Len(e) = le
      /\ \A k \in 1 .. le : e[k] = IF k \in off - at + 1 .. off - at + Len(b)
                                   THEN b[k - (off - at)] ELSE c[k]
  <2> DEFINE a == off - at
             l == Len(b)
  <2>1. a \in Nat /\ a <= Len(c) /\ l = Len(b) /\ le = Greater(Len(c), a + l) BY <1>1
  <2>2. e = Overlay(c, a, b) OBVIOUS
  <2> HIDE DEF e, a, l, le
  <2>3. /\ e \in Seq(Cells) /\ Len(e) = le
        /\ \A k \in 1 .. le : e[k] = IF k \in a + 1 .. a + l THEN b[k - a] ELSE c[k]
    <3>1. Laid(e, c, a, b, l, le) BY <2>1, <2>2, OverlayIs
    <3> QED BY <3>1 DEF Laid
  <2> QED BY <2>3 DEF a, l
<1>4. /\ f \in Seq(Cells) /\ Len(f) = lf
      /\ \A k \in 1 .. lf : f[k] = IF k \in at + 1 .. at + Len(c) THEN c[k - at] ELSE d[k]
  BY OverlayAt
<1> HIDE DEF e, f, le, lf, n
<1>5. /\ x \in Seq(Cells) /\ Len(x) = n
      /\ \A k \in 1 .. n : x[k] = IF k \in at + 1 .. at + le THEN e[k - at] ELSE d[k]
  <2>1. x = Overlay(d, at, e) /\ n = Greater(Len(d), at + le) BY <1>2
  <2> HIDE DEF x
  <2>2. Laid(x, d, at, e, le, n) BY <1>3, <2>1, OverlayIs
  <2> QED BY <2>2 DEF Laid
<1>6. off <= Len(f) BY <1>1, <1>2, <1>4
<1>7. /\ y \in Seq(Cells) /\ Len(y) = n
      /\ \A k \in 1 .. n : y[k] = IF k \in off + 1 .. off + Len(b) THEN b[k - off] ELSE f[k]
  <2>1. y = Overlay(f, off, b) /\ n = Greater(Len(f), off + Len(b)) BY <1>4 DEF n
  <2> HIDE DEF y
  <2>2. Laid(y, f, off, b, Len(b), n) BY <1>4, <1>6, <2>1, OverlayIs
  <2> QED BY <2>2 DEF Laid
<1> HIDE DEF x, y
<1>8. ASSUME NEW k \in 1 .. n PROVE x[k] = y[k]
  <2>1. CASE k \in off + 1 .. off + Len(b)
    <3>1. k \in at + 1 .. at + le /\ k - at \in 1 .. le
          /\ k - at \in off - at + 1 .. off - at + Len(b) /\ (k - at) - (off - at) = k - off
      BY <1>1, <1>2, <2>1
    <3>2. x[k] = e[k - at] BY <1>5, <3>1
    <3>3. e[k - at] = b[(k - at) - (off - at)] BY <1>3, <3>1
    <3>4. y[k] = b[k - off] BY <1>7, <2>1
    <3> QED BY <3>1, <3>2, <3>3, <3>4
  <2>2. CASE k \notin off + 1 .. off + Len(b) /\ k \in at + 1 .. at + Len(c)
    <3>1. k \in at + 1 .. at + le /\ k - at \in 1 .. le /\ k \in 1 .. lf
          /\ k - at \notin off - at + 1 .. off - at + Len(b)
      BY <1>1, <1>2, <2>2
    <3>2. x[k] = e[k - at] BY <1>5, <3>1
    <3>3. e[k - at] = c[k - at] BY <1>3, <3>1
    <3>4. y[k] = f[k] BY <1>7, <2>2
    <3>5. f[k] = c[k - at] BY <1>4, <2>2, <3>1
    <3> QED BY <3>2, <3>3, <3>4, <3>5
  <2>3. CASE k \notin off + 1 .. off + Len(b) /\ k \notin at + 1 .. at + Len(c)
    <3>1. k \notin at + 1 .. at + le /\ k \in 1 .. lf BY <1>1, <1>2, <2>3
    <3>2. x[k] = d[k] BY <1>5, <3>1
    <3>3. y[k] = f[k] BY <1>7, <2>3
    <3>4. f[k] = d[k] BY <1>4, <2>3, <3>1
    <3> QED BY <3>2, <3>3, <3>4
  <2> QED BY <2>1, <2>2, <2>3
<1>9. x = y BY <1>2, <1>5, <1>7, <1>8, SameCells
<1> QED BY <1>9 DEF x, y, e, f
-----------------------------------------------------------------------------
(* What readers see of a file: its data, if none of its writes is cached.  *)
LEMMA ViewFlash ==
  ASSUME NEW s, NEW i, NoPageOf(s, i)
  PROVE  View(s, i) = s.obj[i].data
<1>1. PagesOf(s, i) = {} BY DEF PagesOf, NoPageOf
<1> QED BY <1>1 DEF View

(* Else its data with the cached write over it.                            *)
LEMMA ViewCached ==
  ASSUME NEW s, Good(s), Single(s), NEW p \in CPages, NEW i \in Ids, s.cp[p].id = i,
         s.cp[p].off <= Len(s.obj[i].data)
  PROVE  View(s, i) = Overlay(s.obj[i].data, s.cp[p].off, s.cp[p].data)
<1> DEFINE P == PagesOf(s, i)
           c == s.cp[p]
           d == s.obj[i].data
<1>1. P = {p} BY NamesAssumption DEF PagesOf, Single
<1>2. (CHOOSE q \in P : TRUE) = p BY <1>1
<1>3. View(s, i) = Overlay(d, Lesser(c.off, Len(d)), c.data) BY <1>1, <1>2 DEF View
<1>4. c.off \in Nat /\ d \in Seq(Cells)
  <2>1. s \in Fs BY DEF Good
  <2>2. c \in CpRecs /\ s.obj[i] \in Objs BY <2>1, Parts
  <2> QED BY <2>2 DEF CpRecs, Objs
<1>5. c.off <= Len(d) OBVIOUS
<1>6. Lesser(c.off, Len(d)) = c.off
  <2> DEFINE a == c.off
             l == Len(d)
  <2>1. a \in Nat /\ l \in Nat /\ a <= l BY <1>4, <1>5
  <2> HIDE DEF a, l
  <2>2. Lesser(a, l) = a BY <2>1 DEF Lesser
  <2> QED BY <2>2 DEF a, l
<1> QED BY <1>3, <1>6

(* Either way it is a sequence of cells that reaches as far as the flash.  *)
LEMMA ViewType ==
  ASSUME NEW s, Good(s), Single(s), Placed(s), NEW i \in Ids
  PROVE  /\ View(s, i) \in Seq(Cells) /\ Len(View(s, i)) \in Nat
         /\ s.obj[i].data \in Seq(Cells) /\ Len(s.obj[i].data) \in Nat
         /\ Len(s.obj[i].data) <= Len(View(s, i))
<1> DEFINE d == s.obj[i].data
<1>1. s \in Fs BY DEF Good
<1>2. d \in Seq(Cells)
  <2>1. s.obj[i] \in Objs BY <1>1, Parts
  <2> QED BY <2>1 DEF Objs
<1>3. CASE NoPageOf(s, i)
  <2>1. View(s, i) = d BY <1>3, ViewFlash
  <2> HIDE DEF d
  <2>2. Len(d) \in Nat /\ Len(d) <= Len(d) BY <1>2
  <2> QED BY <1>2, <2>1, <2>2 DEF d
<1>4. CASE ~NoPageOf(s, i)
  <2>1. PICK p \in CPages : s.cp[p].id = i BY <1>4 DEF NoPageOf
  <2>2. s.cp[p] \in CpRecs BY <1>1, Parts
  <2> DEFINE a == s.cp[p].off
             b == s.cp[p].data
  <2>3. a \in Nat /\ b \in Seq(Cells) BY <2>2 DEF CpRecs
  <2>4. a <= Len(d) BY <2>1, NamesAssumption DEF Placed
  <2>5. View(s, i) = Overlay(d, a, b) BY <2>1, <2>4, ViewCached
  <2> HIDE DEF a, b, d
  <2>6. Overlay(d, a, b) \in Seq(Cells) /\ Len(Overlay(d, a, b)) = Greater(Len(d), a + Len(b))
    BY <1>2, <2>3, <2>4, OverlayType
  <2>7. Len(d) \in Nat /\ Len(b) \in Nat BY <1>2, <2>3
  <2>8. Greater(Len(d), a + Len(b)) \in Nat /\ Len(d) <= Greater(Len(d), a + Len(b))
    BY <2>3, <2>7 DEF Greater
  <2> QED BY <1>2, <2>5, <2>6, <2>7, <2>8 DEF d
<1> QED BY <1>3, <1>4

(* A file whose object and pages are the same is seen the same.            *)
LEMMA OnlyView ==
  ASSUME NEW s, NEW t, NEW i, Only(s, t, i), NEW j \in Ids \ {i}
  PROVE  View(t, j) = View(s, j)
<1> DEFINE P == PagesOf(s, j)
           p == CHOOSE q \in P : TRUE
<1>1. t.obj[j] = s.obj[j] /\ PagesOf(t, j) = P /\ \A q \in P : t.cp[q] = s.cp[q] BY DEF Only
<1>2. CASE P = {} BY <1>1, <1>2 DEF View
<1>3. CASE P # {}
  <2>1. p \in P BY <1>3
  <2>2. t.cp[p] = s.cp[p] BY <1>1, <2>1
  <2> QED BY <1>1, <1>3, <2>2 DEF View
<1> QED BY <1>2, <1>3
-----------------------------------------------------------------------------
(* What the object operations store.                                       *)
Rewritten(s, t, i, data) ==
    /\ t.obj[i] = [s.obj[i] EXCEPT !.data = data]
    /\ \A j \in Ids \ {i} : t.obj[j] = s.obj[j]

(* spiffs_object_modify and spiffs_object_append store the data they have. *)
LEMMA StoredObj ==
  ASSUME NEW s, Good(s), NEW i \in Ids, NEW data \in Seq(Cells)
  PROVE  Rewritten(s, Stored(s, i, data), i, data)
<1> DEFINE o == [s.obj[i] EXCEPT !.data = data]
           u == [s EXCEPT !.obj[i].data = data, !.work = Header(s.obj[i])]
<1>1. s \in Fs /\ s.obj \in [Ids -> Objs] BY Parts DEF Good
<1>2. u.obj[i] = o /\ \A j \in Ids \ {i} : u.obj[j] = s.obj[j] BY <1>1 DEF Fs
<1>3. Stored(s, i, data).obj = u.obj BY <1>1 DEF Stored, EventUpd, Fs
<1> QED BY <1>2, <1>3 DEF Rewritten

(* Storing the data an object has changes no object.                       *)
LEMMA RewrittenSame ==
  ASSUME NEW s, Good(s), NEW i \in Ids
  PROVE  Rewritten(s, s, i, s.obj[i].data)
<1>1. s.obj[i] \in Objs BY Parts DEF Good
<1>2. s.obj[i] = [s.obj[i] EXCEPT !.data = s.obj[i].data] BY <1>1 DEF Objs
<1> QED BY <1>2 DEF Rewritten

(* Of two stores to one object the second counts.                          *)
LEMMA RewrittenTwice ==
  ASSUME NEW s, Good(s), NEW t, NEW u, NEW i \in Ids, NEW d \in Seq(Cells), NEW e \in Seq(Cells),
         Rewritten(s, t, i, d), Rewritten(t, u, i, e)
  PROVE  Rewritten(s, u, i, e)
<1>1. s.obj[i] \in Objs BY Parts DEF Good
<1>2. [[s.obj[i] EXCEPT !.data = d] EXCEPT !.data = e] = [s.obj[i] EXCEPT !.data = e]
  BY <1>1 DEF Objs
<1> QED BY <1>2 DEF Rewritten

(* A store keeps the name and the mark of the header.                      *)
LEMMA RewrittenData ==
  ASSUME NEW s, Good(s), NEW t, NEW i \in Ids, NEW d \in Seq(Cells), Rewritten(s, t, i, d)
  PROVE  t.obj[i].data = d /\ t.obj[i].name = s.obj[i].name /\ t.obj[i].live = s.obj[i].live
<1>1. s.obj[i] \in Objs BY Parts DEF Good
<1> QED BY <1>1 DEF Rewritten, Objs

(* While the flash is never full a descriptor has the size its file has.   *)
LEMMA FitsExactly ==
  ASSUME ~MayFill, NEW s, Good(s), NEW h \in Fds, s.fd[h].open,
         NEW i, i = s.fd[h].id, NEW d, d = s.obj[i].data
  PROVE  /\ d \in Seq(Cells) /\ Len(d) \in Nat
         /\ (s.fd[h].size = Undef /\ Len(d) = 0) \/ s.fd[h].size = Len(d)
<1>1. s \in Fs /\ i \in Ids /\ Fits(s.fd[h], s.obj[i]) BY DEF Good, Opened
<1>2. d \in Seq(Cells) BY <1>1, Parts, ObjFacts
<1>3. HdrSize(s.obj[i]) = IF d = <<>> THEN Undef ELSE Len(d) BY DEF HdrSize
<1>4. s.fd[h].size = HdrSize(s.obj[i]) \/ (d = <<>> /\ s.fd[h].size = 0) BY <1>1 DEF Fits
<1>5. d = <<>> => Len(d) = 0 OBVIOUS
<1> QED BY <1>2, <1>3, <1>4, <1>5

(* Inside the data a modify lays the cells over them.                      *)
LEMMA PatchIs ==
  ASSUME NEW d \in Seq(Cells), NEW b \in Seq(Cells), NEW at \in Nat, at + Len(b) <= Len(d)
  PROVE  Patch(d, at, b) = Overlay(d, at, b)
<1>1. Greater(Len(d), at + Len(b)) = Len(d) BY DEF Greater
<1> QED BY <1>1 DEF Patch, Overlay

(* At the end of the data an append adds the cells to them.                *)
LEMMA AppendIs ==
  ASSUME ~MayFill, NEW s, Good(s), NEW h \in Fds, s.fd[h].open, NEW b \in Seq(Cells),
         NEW off, off = Len(s.obj[s.fd[h].id].data), NEW o \in ObjectAppend(s, h, off, b)
  PROVE  o = Outcome(Stored(s, s.fd[h].id, Overlay(s.obj[s.fd[h].id].data, off, b)), TRUE)
<1> DEFINE i  == s.fd[h].id
           d  == s.obj[i].data
           at == IF s.fd[h].size = Undef THEN off ELSE Lesser(off, s.fd[h].size)
           upTo(v) == {Stored(s, i, Overlay(d \o u, at, SubSeq(b, 1, v))) :
                          u \in Unsized(at - Len(d))}
           w == [s EXCEPT !.work = Header(s.obj[i])]
<1>1. /\ d \in Seq(Cells) /\ Len(d) \in Nat
      /\ (s.fd[h].size = Undef /\ Len(d) = 0) \/ s.fd[h].size = Len(d)
  BY FitsExactly
<1>2. o \in {Outcome(t, TRUE) : t \in upTo(Len(b))}
             \cup (IF at > Len(d) THEN {Outcome(w, FALSE)} ELSE {})
  <2> DEFINE sized(t, v) == [t EXCEPT !.fd[h].size = Greater(at + v, Len(t.obj[i].data))]
             saved == (IF at = 0 THEN {} ELSE {s}) \cup UNION {upTo(v) : v \in 1 .. Len(b) - 1}
             stops == UNION {{Outcome(sized(t, v), FALSE) : t \in saved} : v \in 1 .. Len(b)}
             done  == {Outcome(t, TRUE) : t \in upTo(Len(b))}
  <2>1. ObjectAppend(s, h, off, b) =
          done \cup (IF at > Len(d) THEN {Outcome(w, FALSE)} ELSE {})
               \cup (IF MayFill THEN {Outcome(s, FALSE)} \cup stops ELSE {})
    BY Zenon DEF ObjectAppend
  <2> HIDE DEF done, stops, at, w
  <2>2. o \in done \cup (IF at > Len(d) THEN {Outcome(w, FALSE)} ELSE {}) BY <2>1
  <2> QED BY <2>2 DEF done
<1>3. at = off /\ ~(at > Len(d)) /\ at - Len(d) = 0 BY <1>1 DEF Lesser
<1> HIDE DEF at, w
<1>4. PICK t \in upTo(Len(b)) : o = Outcome(t, TRUE)
  <2> HIDE DEF upTo
  <2> QED BY <1>2, <1>3
<1>5. PICK u \in Unsized(0) : t = Stored(s, i, Overlay(d \o u, off, SubSeq(b, 1, Len(b))))
  BY <1>3
<1>6. d \o u = d
  <2>1. u \in [1 .. 0 -> Cells] BY DEF Unsized
  <2>2. u \in Seq(Cells) /\ Len(u) = 0 BY <2>1
  <2>3. u = <<>> BY <2>2
  <2> QED BY <1>1, <2>3
<1>7. SubSeq(b, 1, Len(b)) = b OBVIOUS
<1> QED BY <1>4, <1>5, <1>6, <1>7

(* spiffs_hydro_write at a position the file reaches lays the buffer over  *)
(* the file's data, whether it modifies, appends or does both.             *)
LEMMA HydroIs ==
  ASSUME ~MayFill, NEW s, Good(s), NEW h \in Fds, s.fd[h].open, NEW off \in Nat,
         NEW buf \in Seq(Cells), off <= Len(s.obj[s.fd[h].id].data),
         NEW o \in HydroWrite(s, h, off, buf)
  PROVE  o.ok /\ Rewritten(s, o.fs, s.fd[h].id, Overlay(s.obj[s.fd[h].id].data, off, buf))
<1> DEFINE i    == s.fd[h].id
           size == s.fd[h].size
           d    == s.obj[i].data
           m    == IF size # Undef /\ off < size THEN Lesser(size - off, Len(buf)) ELSE 0
           rest == SubSeq(buf, m + 1, Len(buf))
           b    == SubSeq(buf, 1, m)
           new  == Overlay(d, off, b)
           mod  == IF m = 0 THEN s ELSE Stored(s, i, new)
           mods == IF m = 0 THEN {Outcome(s, TRUE)} ELSE ObjectModify(s, h, off, b)
           all  == Overlay(d, off, buf)
<1>0. PICK q \in mods :
        o \in IF q.ok /\ rest # <<>> THEN ObjectAppend(q.fs, h, off + m, rest) ELSE {q}
  BY DEF HydroWrite
<1>1. s \in Fs /\ i \in Ids BY DEF Good, Opened
<1>3. /\ d \in Seq(Cells) /\ Len(d) \in Nat /\ Len(buf) \in Nat /\ off <= Len(d)
      /\ (size = Undef /\ Len(d) = 0) \/ size = Len(d)
  BY FitsExactly
<1>a. mods = IF m = 0 THEN {Outcome(s, TRUE)} ELSE {Outcome(Stored(s, i, Patch(d, off, b)), TRUE)}
  BY Zenon DEF ObjectModify
<1> HIDE DEF size, d, mods
<1>6. /\ m \in 0 .. Len(buf) /\ m \in Nat
      /\ m # 0 => off + m <= Len(d)
      /\ m # Len(buf) => off + m = Len(d)
  BY <1>3 DEF Lesser, Undef
<1> HIDE DEF m
<1>7. /\ b \in Seq(Cells) /\ rest \in Seq(Cells) /\ Len(b) = m /\ Len(rest) = Len(buf) - m
      /\ rest = <<>> <=> m = Len(buf)
      /\ m = Len(buf) => b = buf
      /\ m = 0 => b = <<>>
  <2>1. b \in Seq(Cells) /\ rest \in Seq(Cells) /\ Len(b) = m /\ Len(rest) = Len(buf) - m
    BY <1>3, <1>6
  <2>2. m = Len(buf) => b = buf BY <1>3
  <2> HIDE DEF b, rest
  <2>3. (rest = <<>> <=> m = Len(buf)) /\ (m = 0 => b = <<>>) BY <2>1, <1>3, <1>6
  <2> QED BY <2>1, <2>2, <2>3
<1>8. new \in Seq(Cells) /\ all \in Seq(Cells) /\ (m # 0 => Len(new) = Len(d))
  <2>1. new \in Seq(Cells) /\ all \in Seq(Cells) /\ Len(new) = Greater(Len(d), off + Len(b))
    BY <1>3, <1>7, OverlayType
  <2> HIDE DEF new, all
  <2> QED BY <1>3, <1>6, <1>7, <2>1 DEF Greater
<1>9. m = 0 => new = d BY <1>3, <1>7, OverlayNothing
<1>4. m # 0 => Patch(d, off, b) = new BY <1>3, <1>6, <1>7, PatchIs
<1> HIDE DEF b, rest, new
<1>b. q = Outcome(mod, TRUE) BY <1>0, <1>4, <1>a
<1>c. q.ok /\ q.fs = mod
  <2> HIDE DEF mod
  <2> QED BY <1>b DEF Outcome
<1>10. Good(mod) /\ Same(s, mod) /\ Rewritten(s, mod, i, new)
  <2>1. CASE m = 0
    <3>1. Rewritten(s, s, i, d) BY <1>1, RewrittenSame DEF d
    <3>2. Same(s, s) BY DEF Same, SameFd, SameNames
    <3> QED BY <2>1, <3>1, <3>2, <1>9
  <2>2. CASE m # 0 BY <2>2, <1>1, <1>8, StoredGood, StoredObj
  <2> QED BY <2>1, <2>2
<1> HIDE DEF mod
<1>11. mod.obj[i].data = new BY <1>1, <1>8, <1>10, RewrittenData
<1>d. mod.fd[h].open /\ mod.fd[h].id = i BY <1>10 DEF Same, SameFd
<1> HIDE DEF all
<1>12. CASE m = Len(buf)
  <2>1. o = q BY <1>0, <1>7, <1>12
  <2>2. new = all BY <1>7, <1>12 DEF new, all
  <2> QED BY <2>1, <2>2, <1>c, <1>10 DEF all, d
<1>13. CASE m # Len(buf)
  <2> DEFINE fin == Stored(mod, i, Overlay(new, off + m, rest))
  <2>0. Len(new) = off + m BY <1>3, <1>6, <1>8, <1>9, <1>13
  <2>a. o \in ObjectAppend(mod, h, off + m, rest) BY <1>0, <1>7, <1>c, <1>13
  <2>1. o = Outcome(fin, TRUE)
    <3>1. off + m = Len(new) /\ rest \in Seq(Cells) /\ Good(mod) BY <1>7, <1>10, <2>0
    <3> QED BY <1>11, <1>d, <2>a, <3>1, AppendIs, Zenon
  <2>2. Overlay(new, off + m, rest) = all
    <3>1. Overlay(Overlay(d, off, SubSeq(buf, 1, m)), off + m, SubSeq(buf, m + 1, Len(buf)))
            = Overlay(d, off, buf)
      BY <1>3, <1>6, <1>13, OverlayParts
    <3> QED BY <3>1 DEF new, b, rest, all
  <2>3. Rewritten(mod, fin, i, all) BY <1>1, <1>8, <1>10, <2>2, StoredObj
  <2> HIDE DEF fin
  <2>4. Rewritten(s, fin, i, all) BY <1>1, <1>8, <1>10, <2>3, RewrittenTwice
  <2> QED BY <2>1, <2>4 DEF Outcome, all, d
<1> QED BY <1>12, <1>13
-----------------------------------------------------------------------------
(* The write cache.  A page that belongs, or belonged, to i or to no file  *)
(* is no part of what is seen of another file.                             *)
LEMMA OnlyPage ==
  ASSUME NEW s, NEW t, NEW i \in Ids, NEW p, \A j \in Ids \ {i} : t.obj[j] = s.obj[j],
         s.cp[p].id \in {i, NoId}, t.cp[p].id \in {i, NoId},
         \A q \in CPages \ {p} : t.cp[q] = s.cp[q]
  PROVE  Only(s, t, i)
<1> SUFFICES ASSUME NEW j \in Ids \ {i}
             PROVE  PagesOf(t, j) = PagesOf(s, j) /\ \A q \in PagesOf(s, j) : t.cp[q] = s.cp[q]
  BY DEF Only
<1>1. j # NoId BY NamesAssumption
<1>2. \A q \in CPages : s.cp[q].id = j \/ t.cp[q].id = j => t.cp[q] = s.cp[q] BY <1>1
<1> QED BY <1>2 DEF PagesOf

(* A call that changes one object and no page.                             *)
LEMMA OnlyObj ==
  ASSUME NEW s, NEW t, NEW i \in Ids, \A j \in Ids \ {i} : t.obj[j] = s.obj[j], t.cp = s.cp
  PROVE  Only(s, t, i)
  BY DEF Only, PagesOf

(* Two calls that change one file change no other.                         *)
LEMMA OnlyTwice ==
  ASSUME NEW s, NEW t, NEW u, NEW i, Only(s, t, i), Only(t, u, i)
  PROVE  Only(s, u, i)
  BY DEF Only

(* spiffs_cache_fd_release changes one page.                               *)
LEMMA ReleasePages ==
  ASSUME NEW s, Good(s), NEW p \in CPages
  PROVE  \A q \in CPages \ {p} : Release(s, p).cp[q] = s.cp[q]
<1>1. s \in Fs /\ s.cp \in [CPages -> CpRecs] BY Parts DEF Good
<1> DEFINE F == [h \in Fds |-> IF s.fd[h].open /\ s.fd[h].cp = p
                               THEN [s.fd[h] EXCEPT !.cp = NoPage] ELSE s.fd[h]]
           c == IF \E h \in Fds : F[h].cp = p THEN [s.cp[p] EXCEPT !.id = NoId] ELSE BlankPage
           C == [s.cp EXCEPT ![p] = c]
<1>2. [s EXCEPT !.fd = F, !.cp[p] = c] = [s EXCEPT !.fd = F, !.cp = C] BY <1>1 DEF Fs
<1>3. Release(s, p) = [s EXCEPT !.fd = F, !.cp = C] BY <1>2 DEF Release
<1> HIDE DEF F, c
<1>4. Release(s, p).cp = C BY <1>1, <1>3 DEF Fs
<1>5. \A q \in CPages \ {p} : C[q] = s.cp[q] BY <1>1
<1> QED BY <1>4, <1>5

(* What is pending of file i, and nothing else, has been written back.     *)
Flushed(s, t, i) == /\ Only(s, t, i) /\ NoPageOf(t, i)
                    /\ Rewritten(s, t, i, View(s, i))

(* The cached write is laid over the file's data.                          *)
LEMMA WriteBackIs ==
  ASSUME ~MayFill, NEW s, Good(s), Cached(s), Placed(s), NEW h \in Fds, s.fd[h].open,
         s.fd[h].cp # NoPage, NEW o \in WriteBack(s, h)
  PROVE  o.ok /\ Flushed(s, o.fs, s.fd[h].id)
<1> DEFINE p == s.fd[h].cp
           i == s.fd[h].id
           d == s.obj[i].data
<1>1. s \in Fs /\ s.fd[h] \in FdRecs /\ i \in Ids BY Parts DEF Good, Opened
<1>2. p \in CPages BY <1>1, FdFacts
<1>3. s.cp[p].off \in Nat /\ s.cp[p].data \in Seq(Cells)
  <2>1. s.cp[p] \in CpRecs BY <1>1, <1>2, Parts
  <2> QED BY <2>1 DEF CpRecs
<1>4. PICK w \in HydroWrite(s, h, s.cp[p].off, s.cp[p].data) :
         o = Outcome(Release(w.fs, p), w.ok)
  BY DEF WriteBack
<1>5. s.cp[p].id = i /\ i # NoId BY <1>1, NamesAssumption DEF Cached, Owned
<1>6. s.cp[p].off <= Len(d) BY <1>2, <1>5 DEF Placed
<1>7. View(s, i) = Overlay(d, s.cp[p].off, s.cp[p].data)
  BY <1>1, <1>2, <1>5, <1>6, ViewCached, SMTT(60) DEF Cached
<1>8. w.ok /\ Rewritten(s, w.fs, i, View(s, i)) BY <1>3, <1>4, <1>6, <1>7, HydroIs
<1>9. Good(w.fs) /\ w.fs.cp = s.cp BY <1>3, <1>4, HydroWriteGood DEF Same
<1> DEFINE t == Release(w.fs, p)
<1>10. o.fs = t /\ o.ok BY <1>4, <1>8 DEF Outcome
<1>11. /\ t.obj = w.fs.obj /\ t.cp[p].id = NoId
       /\ \A q \in CPages \ {p} : t.cp[q] = s.cp[q]
  BY <1>2, <1>9, ReleaseGood, ReleasePages
<1> HIDE DEF t
<1>12. Rewritten(s, t, i, View(s, i)) BY <1>8, <1>11 DEF Rewritten
<1>13. Only(s, t, i) BY <1>1, <1>5, <1>11, <1>12, OnlyPage DEF Rewritten
<1>14. NoPageOf(t, i) BY <1>10, WriteBackGood
<1> QED BY <1>10, <1>12, <1>13, <1>14 DEF Flushed

(* spiffs_fflush_cache, whether the descriptor has the page, finds it or   *)
(* there is none.                                                          *)
LEMMA FlushIs ==
  ASSUME ~MayFill, NEW s, Good(s), Cached(s), Placed(s), NEW h \in Fds, s.fd[h].open,
         NEW o \in FlushCache(s, h)
  PROVE  o.ok /\ Flushed(s, o.fs, s.fd[h].id)
<1> DEFINE i == s.fd[h].id
<1>1. i \in Ids BY DEF Good, Opened
<1>2. ASSUME NEW t, t.obj = s.obj, t.cp = s.cp, NoPageOf(s, i) PROVE Flushed(s, t, i)
  <2>1. View(s, i) = s.obj[i].data BY <1>2, ViewFlash
  <2>2. Rewritten(s, s, i, s.obj[i].data) BY <1>1, RewrittenSame
  <2>3. Only(s, t, i) BY <1>1, <1>2, OnlyObj
  <2> QED BY <1>2, <2>1, <2>2, <2>3 DEF Flushed, Rewritten, NoPageOf
<1>3. CASE "DIRECT" \in s.fd[h].flags
  <2>1. o = Outcome(s, TRUE) BY <1>3 DEF FlushCache
  <2>2. NoPageOf(s, i) BY <1>3 DEF Cached, Direct, IsDirect, NoPageOf
  <2>3. Flushed(s, s, i) BY <1>2, <2>2
  <2> QED BY <2>1, <2>3 DEF Outcome
<1>4. CASE "DIRECT" \notin s.fd[h].flags
  <2>1. PICK t \in Attached(s, h) :
          o \in IF t.fd[h].cp = NoPage THEN {Outcome(t, TRUE)} ELSE WriteBack(t, h)
    BY <1>4 DEF FlushCache
  <2>2. /\ Good(t) /\ Alike(s, t) /\ t.cp = s.cp /\ t.obj = s.obj
        /\ Cached(t) /\ (t.fd[h].cp = NoPage => NoPageOf(t, t.fd[h].id))
    BY <2>1, AttachedGood
  <2>3. t.fd[h].open /\ t.fd[h].id = i BY <2>2 DEF Alike
  <2>4. View(t, i) = View(s, i) BY <2>2 DEF View, PagesOf
  <2>5. CASE t.fd[h].cp = NoPage
    <3>1. o = Outcome(t, TRUE) BY <2>1, <2>5
    <3>2. NoPageOf(s, i) BY <2>2, <2>3, <2>5 DEF NoPageOf
    <3>3. Flushed(s, t, i) BY <1>2, <2>2, <3>2
    <3> QED BY <3>1, <3>3 DEF Outcome
  <2>6. CASE t.fd[h].cp # NoPage
    <3>1. o \in WriteBack(t, h) BY <2>1, <2>6
    <3>2. Placed(t) BY <2>2 DEF Placed
    <3>3. o.ok /\ Flushed(t, o.fs, i) BY <2>2, <2>3, <2>6, <3>1, <3>2, WriteBackIs
    <3>4. Flushed(s, o.fs, i) BY <2>2, <2>4, <3>3 DEF Flushed, Rewritten, Only, PagesOf
    <3> QED BY <3>3, <3>4
  <2> QED BY <2>5, <2>6
<1> QED BY <1>3, <1>4

(* A flush changes nothing that readers see.                               *)
LEMMA FlushedWhole ==
  ASSUME NEW s, Whole(s), NEW t, Good(t), Cached(t), Alike(s, t), NEW i \in Ids, Flushed(s, t, i)
  PROVE  /\ Whole(t) /\ t.obj[i].data = View(s, i)
         /\ \A j \in Ids : View(t, j) = View(s, j) /\ t.obj[j].name = s.obj[j].name
         /\ \A j \in Ids \ {i} : t.obj[j] = s.obj[j]
<1> USE DEF Whole, Tidy
<1>1. View(s, i) \in Seq(Cells) BY ViewType DEF Cached
<1>2. t.obj[i].data = View(s, i) /\ t.obj[i].name = s.obj[i].name /\ t.obj[i].live = s.obj[i].live
  BY <1>1, RewrittenData DEF Flushed
<1>3. \A j \in Ids \ {i} : t.obj[j] = s.obj[j] BY DEF Flushed, Rewritten
<1>4. View(t, i) = View(s, i) BY <1>2, ViewFlash DEF Flushed
<1>5. \A j \in Ids \ {i} : View(t, j) = View(s, j) BY OnlyView DEF Flushed
<1>6. Live(t) BY <1>2, <1>3 DEF Live
<1>7. Reset(t) BY DEF Reset, Alike
<1>8. Placed(t)
  <2> SUFFICES ASSUME NEW p \in CPages, t.cp[p].id # NoId
               PROVE  t.cp[p].off <= Len(t.obj[t.cp[p].id].data)
    BY DEF Placed
  <2> DEFINE j == t.cp[p].id
  <2>1. j \in Ids \ {i}
    <3>1. t \in Fs BY DEF Good
    <3>2. t.cp[p] \in CpRecs BY <3>1, Parts
    <3>3. j \in Ids BY <3>2 DEF CpRecs
    <3>4. j # i BY DEF Flushed, NoPageOf
    <3> QED BY <3>3, <3>4
  <2>2. p \in PagesOf(t, j) BY DEF PagesOf
  <2>3. PagesOf(t, j) = PagesOf(s, j) /\ \A q \in PagesOf(s, j) : t.cp[q] = s.cp[q]
    BY <2>1 DEF Flushed, Only
  <2>4. t.cp[p] = s.cp[p] BY <2>2, <2>3
  <2>5. t.obj[j] = s.obj[j] BY <1>3, <2>1
  <2> QED BY <2>4, <2>5 DEF Placed
<1>9. Inside(t)
  <2> SUFFICES ASSUME NEW h \in Fds, t.fd[h].open
               PROVE  t.fd[h].off <= Len(View(t, t.fd[h].id))
    BY DEF Inside
  <2>1. s.fd[h].open /\ s.fd[h].id = t.fd[h].id /\ s.fd[h].off = t.fd[h].off BY DEF Alike
  <2>2. s.fd[h].id \in Ids BY <2>1 DEF Good, Opened
  <2>3. s.fd[h].off <= Len(View(s, s.fd[h].id)) BY <2>1 DEF Inside
  <2> QED BY <1>4, <1>5, <2>1, <2>2, <2>3
<1> QED BY <1>2, <1>3, <1>4, <1>5, <1>6, <1>7, <1>8, <1>9
-----------------------------------------------------------------------------
(* SPIFFS_write.  Descriptor h, and no other, has moved on by n.           *)
Moved(s, t, h, n) ==
    \A g \in Fds : /\ t.fd[g].open = s.fd[g].open /\ t.fd[g].id = s.fd[g].id
                  /\ t.fd[g].off = IF g = h THEN s.fd[g].off + n ELSE s.fd[g].off

(* Readers of i see the buffer over what they saw; on the flash is what    *)
(* was there, or all that was pending, or the buffer too.                  *)
Written(s, t, i, off, buf) ==
    /\ Only(s, t, i)
    /\ View(t, i) = Overlay(View(s, i), off, buf)
    /\ \E d \in {s.obj[i].data, View(s, i), View(t, i)} : Rewritten(s, t, i, d)
    /\ \A p \in PagesOf(t, i) : t.cp[p].off <= Len(t.obj[i].data)

(* What was pending of i may have been written back; readers see no change. *)
Ready(s, u, i) ==
    /\ Only(s, u, i) /\ View(u, i) = View(s, i)
    /\ \E d \in {s.obj[i].data, View(s, i)} : Rewritten(s, u, i, d)

(* A write after a write-back of the same file.                            *)
LEMMA WrittenAfter ==
  ASSUME NEW s, Good(s), NEW u, NEW t, NEW i \in Ids, NEW off \in Nat, NEW buf \in Seq(Cells),
         View(s, i) \in Seq(Cells), off <= Len(View(s, i)), Ready(s, u, i),
         Written(u, t, i, off, buf)
  PROVE  Written(s, t, i, off, buf)
<1>1. s.obj[i].data \in Seq(Cells)
  <2>1. s.obj[i] \in Objs BY Parts DEF Good
  <2> QED BY <2>1 DEF Objs
<1>2. View(t, i) = Overlay(View(s, i), off, buf) BY DEF Ready, Written
<1>3. View(t, i) \in Seq(Cells) BY <1>2, OverlayType
<1>4. Only(s, t, i) BY OnlyTwice DEF Ready, Written
<1>5. PICK d \in {s.obj[i].data, View(s, i)} : Rewritten(s, u, i, d) BY DEF Ready
<1>6. PICK e \in {u.obj[i].data, View(u, i), View(t, i)} : Rewritten(u, t, i, e) BY DEF Written
<1>7. d \in Seq(Cells) BY <1>1, <1>5
<1>8. u.obj[i].data = d BY <1>5, <1>7, RewrittenData
<1>9. e \in {s.obj[i].data, View(s, i), View(t, i)} BY <1>5, <1>6, <1>8 DEF Ready
<1>10. e \in Seq(Cells) BY <1>1, <1>3, <1>9
<1>11. Rewritten(s, t, i, e) BY <1>5, <1>6, <1>7, <1>10, RewrittenTwice
<1> QED BY <1>2, <1>4, <1>9, <1>11 DEF Written

(* After a write-back the file is ready for the next write.                *)
LEMMA FlushedReady ==
  ASSUME NEW s, Good(s), Single(s), Placed(s), NEW u, NEW i \in Ids, Flushed(s, u, i)
  PROVE  Ready(s, u, i)
<1>1. View(s, i) \in Seq(Cells) BY ViewType
<1>2. View(u, i) = View(s, i) BY <1>1, RewrittenData, ViewFlash DEF Flushed
<1> QED BY <1>2 DEF Flushed, Ready

(* Moving a descriptor.                                                    *)
LEMMA AdvancedIs ==
  ASSUME NEW s, Good(s), NEW h \in Fds, NEW n \in Nat
  PROVE  LET t == Advanced(s, h, n)
         IN  t.obj = s.obj /\ t.cp = s.cp /\ Moved(s, t, h, n)
<1> DEFINE f == [s.fd[h] EXCEPT !.off = s.fd[h].off + n]
           t == [s EXCEPT !.fd[h] = f]
<1>1. s \in Fs /\ s.fd \in [Fds -> FdRecs] BY Parts DEF Good
<1>2. s.fd[h] \in FdRecs BY <1>1
<1>3. s.fd[h].off + n \in Nat
  <2>1. s.fd[h].off \in Nat BY <1>2, FdFacts
  <2> QED BY <2>1
<1>4. f \in FdRecs /\ SameFd(s.fd[h], f) /\ f.off = s.fd[h].off + n BY <1>2, <1>3, FdFacts
<1>5. Advanced(s, h, n) = t BY <1>1 DEF Advanced, Fs, FdRecs
<1> HIDE DEF f
<1>6. /\ t.obj = s.obj /\ t.cp = s.cp
      /\ t.fd[h] = f /\ \A g \in Fds \ {h} : t.fd[g] = s.fd[g]
  BY <1>1, <1>4, PutOneFd
<1> HIDE DEF t
<1>7. Moved(s, t, h, n) BY <1>4, <1>6, SMTT(60) DEF Moved, SameFd
<1> QED BY <1>5, <1>6, <1>7

(* A write that goes to the flash of a file with nothing cached.           *)
LEMMA UncachedIs ==
  ASSUME ~MayFill, NEW s, Good(s), NEW h \in Fds, s.fd[h].open, NEW i, i = s.fd[h].id,
         NoPageOf(s, i), NEW off \in Nat, NEW buf \in Seq(Cells),
         off <= Len(s.obj[i].data), NEW o \in Uncached(s, h, off, buf)
  PROVE  /\ o.ok /\ Written(s, o.fs, i, off, buf) /\ Moved(s, o.fs, h, Len(buf))
         /\ Rewritten(s, o.fs, i, Overlay(s.obj[i].data, off, buf))
<1> DEFINE d == s.obj[i].data
<1>1. i \in Ids BY DEF Good, Opened
<1>2. d \in Seq(Cells)
  <2>1. s.obj[i] \in Objs BY <1>1, Parts DEF Good
  <2> QED BY <2>1 DEF Objs
<1>3. PICK w \in HydroWrite(s, h, off, buf) :
        o = IF w.ok THEN Outcome(Advanced(w.fs, h, Len(buf)), TRUE) ELSE w
  BY DEF Uncached
<1>4. w.ok /\ Rewritten(s, w.fs, i, Overlay(d, off, buf)) BY <1>3, HydroIs
<1>5. Good(w.fs) /\ Same(s, w.fs) /\ \A g \in Fds : w.fs.fd[g].off = s.fd[g].off
  BY <1>3, HydroWriteGood, ZenonT(60)
<1> DEFINE t == Advanced(w.fs, h, Len(buf))
<1>6. o.ok /\ o.fs = t BY <1>3, <1>4 DEF Outcome
<1>7. t.obj = w.fs.obj /\ t.cp = w.fs.cp /\ Moved(w.fs, t, h, Len(buf))
  BY <1>5, AdvancedIs
<1> HIDE DEF t
<1>8. Moved(s, t, h, Len(buf)) BY <1>5, <1>7 DEF Moved, Same, SameFd
<1>9. t.cp = s.cp BY <1>5, <1>7 DEF Same
<1>10. Rewritten(s, t, i, Overlay(d, off, buf)) BY <1>4, <1>7 DEF Rewritten
<1>11. Overlay(d, off, buf) \in Seq(Cells) BY <1>2, OverlayType
<1>12. NoPageOf(t, i) BY <1>9 DEF NoPageOf
<1>13. View(s, i) = d /\ View(t, i) = Overlay(d, off, buf)
  <2>1. t.obj[i].data = Overlay(d, off, buf) BY <1>1, <1>10, <1>11, RewrittenData
  <2> QED BY <1>12, <2>1, ViewFlash
<1>14. Only(s, t, i) BY <1>1, <1>9, <1>10, OnlyObj DEF Rewritten
<1>15. PagesOf(t, i) = {} BY <1>12 DEF NoPageOf, PagesOf
<1> QED BY <1>6, <1>8, <1>10, <1>13, <1>14, <1>15 DEF Written

(* A write into the page that the descriptor has: the page is laid over    *)
(* the file, and so is what is laid over the page.                         *)
LEMMA StoreInPageIs ==
  ASSUME NEW s, Good(s), Single(s), NEW h \in Fds, NEW p \in CPages, p = s.fd[h].cp,
         NEW i \in Ids, s.cp[p].id = i, NEW off \in Nat, NEW buf \in Seq(Cells),
         s.cp[p].off <= Len(s.obj[i].data), s.cp[p].off <= off,
         off <= s.cp[p].off + Len(s.cp[p].data)
  PROVE  LET t == StoreInPage(s, h, off, buf)
         IN  Written(s, t, i, off, buf) /\ Moved(s, t, h, Len(buf))
<1> DEFINE a == s.cp[p].off
           b == s.cp[p].data
           d == s.obj[i].data
           e == Overlay(b, off - a, buf)
           c == [s.cp[p] EXCEPT !.data = e]
           u == [s EXCEPT !.cp[p] = c]
           t == StoreInPage(s, h, off, buf)
<1>1. s \in Fs /\ s.cp \in [CPages -> CpRecs] /\ s.obj[i] \in Objs BY Parts DEF Good
<1>2. s.cp[p] \in CpRecs BY <1>1
<1>3. a \in Nat /\ b \in Seq(Cells) /\ d \in Seq(Cells) BY <1>1, <1>2 DEF CpRecs, Objs
<1>4. a <= Len(d) /\ a <= off /\ off <= a + Len(b) OBVIOUS
<1>5. e \in Seq(Cells)
  <2> HIDE DEF a, b
  <2>1. Len(b) \in Nat BY <1>3
  <2>2. off - a \in Nat /\ off - a <= Len(b) BY <1>3, <1>4, <2>1
  <2> QED BY <1>3, <2>2, OverlayType
<1>6. [s EXCEPT !.cp[p].data = Overlay(@, off - s.cp[p].off, buf)] = u
  BY <1>1 DEF Fs, CpRecs
<1>7. t = Advanced(u, h, Len(buf)) BY <1>6 DEF StoreInPage
<1> HIDE DEF e
<1>8. c \in CpRecs /\ c.id = i /\ c.off = a /\ c.data = e BY <1>2, <1>5 DEF CpRecs
<1> HIDE DEF c
<1>9. /\ Good(u) /\ u.fd = s.fd /\ u.obj = s.obj
      /\ u.cp[p] = c /\ \A q \in CPages \ {p} : u.cp[q] = s.cp[q]
  BY <1>8, PutOnePage
<1> HIDE DEF u, t
<1>10. Len(buf) \in Nat OBVIOUS
<1>11. t.obj = u.obj /\ t.cp = u.cp /\ Moved(u, t, h, Len(buf)) BY <1>7, <1>9, <1>10, AdvancedIs
<1>12. Moved(s, t, h, Len(buf)) BY <1>9, <1>11 DEF Moved
<1>13. Single(u) BY SMTT(30), <1>8, <1>9 DEF Single
<1>14. View(u, i) = Overlay(d, a, e) BY <1>4, <1>8, <1>9, <1>13, ViewCached
<1>15. View(s, i) = Overlay(d, a, b) BY <1>4, ViewCached
<1>16. Overlay(d, a, e) = Overlay(Overlay(d, a, b), off, buf)
  <2> HIDE DEF a, b, d
  <2> QED BY <1>3, <1>4, OverlayNested DEF e
<1>17. View(t, i) = View(u, i) BY <1>11 DEF View, PagesOf
<1>18. Only(s, t, i) BY <1>8, <1>9, <1>11, OnlyPage
<1>19. Rewritten(s, t, i, d)
  <2>1. Rewritten(s, s, i, d) BY RewrittenSame
  <2> QED BY <2>1, <1>9, <1>11 DEF Rewritten
<1>20. ASSUME NEW q \in PagesOf(t, i) PROVE t.cp[q].off <= Len(t.obj[i].data)
  <2>1. q \in CPages /\ u.cp[q].id = i BY <1>11, <1>20 DEF PagesOf
  <2>2. q = p BY <2>1, <1>8, <1>9, <1>13, NamesAssumption, SMTT(60) DEF Single
  <2> QED BY <2>2, <1>4, <1>8, <1>9, <1>11
<1>21. Written(s, t, i, off, buf)
  BY <1>14, <1>15, <1>16, <1>17, <1>18, <1>19, <1>20, Zenon DEF Written
<1> QED BY <1>12, <1>21 DEF t

(* A page is taken for a file that has none, or none can be had.           *)
LEMMA AllocatedIs ==
  ASSUME NEW s, Good(s), Single(s), NEW h \in Fds, s.fd[h].open, NEW i, i = s.fd[h].id,
         NoPageOf(s, i), NEW off \in Nat, off <= Len(s.obj[i].data),
         NEW u \in Allocated(s, h, off)
  PROVE  /\ Ready(s, u, i) /\ u.obj = s.obj /\ Single(u)
         /\ u.fd[h].cp = NoPage => NoPageOf(u, i)
         /\ u.fd[h].cp # NoPage => /\ u.fd[h].cp \in CPages /\ u.cp[u.fd[h].cp].id = i
                                   /\ u.cp[u.fd[h].cp].off = off
<1> DEFINE free == CPages \ WritePages(s)
           p    == CHOOSE q \in free : TRUE
           c    == [id |-> i, off |-> off, data |-> <<>>]
           x    == [s EXCEPT !.cp[p] = c]
           v    == [x EXCEPT !.fd[h].cp = p]
           n    == [s EXCEPT !.fd[h].cp = NoPage]
           d    == s.obj[i].data
<1>1. s \in Fs /\ i \in Ids /\ i # NoId BY NamesAssumption DEF Good, Opened
<1>2. c \in CpRecs /\ c.id = i /\ c.off = off /\ c.data = <<>>
  <2>1. <<>> \in Seq(Cells) OBVIOUS
  <2> QED BY <2>1, <1>1 DEF CpRecs
<1>3. [s EXCEPT !.cp[p] = c, !.fd[h].cp = p] = v BY <1>1 DEF Fs
<1>4. (u = v /\ free # {}) \/ u = n BY <1>3 DEF Allocated
<1>5. View(s, i) = d BY ViewFlash
<1>6. Rewritten(s, s, i, d) BY <1>1, RewrittenSame
<1>7. d \in Seq(Cells)
  <2>1. s.obj[i] \in Objs BY <1>1, Parts, SMTT(60)
  <2> QED BY <2>1 DEF Objs
<1> HIDE DEF c
<1>8. CASE u = n
  <2>1. u.obj = s.obj /\ u.cp = s.cp /\ u.fd[h].cp = NoPage BY <1>8, PutFdCp, SMTT(60)
  <2>2. NoPageOf(u, i) /\ Single(u) BY <2>1 DEF NoPageOf, Single
  <2>3. View(u, i) = d BY <2>1, <2>2, ViewFlash
  <2>4. Only(s, u, i) BY <1>1, <2>1, OnlyObj
  <2>5. Rewritten(s, u, i, d) BY <1>6, <2>1, SMTT(60) DEF Rewritten
  <2> QED BY <1>5, <2>1, <2>2, <2>3, <2>4, <2>5 DEF Ready
<1>9. CASE u = v /\ free # {}
  <2>1. p \in CPages /\ s.cp[p].id = NoId
    <3>1. p \in free BY <1>9
    <3> QED BY <3>1 DEF WritePages
  <2> HIDE DEF p
  <2>2. /\ Good(x) /\ x.obj = s.obj /\ x.fd = s.fd
        /\ x.cp[p] = c /\ \A q \in CPages \ {p} : x.cp[q] = s.cp[q]
    BY <1>2, <2>1, PutOnePage
  <2> HIDE DEF x
  <2>3. Good(u) /\ u.obj = x.obj /\ u.cp = x.cp /\ u.fd[h].cp = p BY <1>9, <2>1, <2>2, PutFdCp
  <2> HIDE DEF v
  <2>4. u.fd[h].cp # NoPage BY <2>1, <2>3, NamesAssumption
  <2>5. Only(s, u, i) BY <1>1, <1>2, <2>1, <2>2, <2>3, OnlyPage
  <2>6. Single(u)
    <3>1. \A q \in CPages \ {p} : u.cp[q].id = s.cp[q].id /\ u.cp[q].id # i
      BY <2>2, <2>3 DEF NoPageOf
    <3> QED BY <1>2, <2>2, <2>3, <3>1 DEF Single
  <2>7. View(u, i) = Overlay(d, off, <<>>)
    <3>1. /\ Good(u) /\ u.cp[p].id = i /\ u.cp[p].off = off /\ u.cp[p].data = <<>>
          /\ u.obj[i].data = d
      BY <1>2, <2>2, <2>3
    <3>2. View(u, i) = Overlay(u.obj[i].data, u.cp[p].off, u.cp[p].data)
      BY <1>1, <2>1, <2>6, <3>1, ViewCached
    <3> QED BY <3>1, <3>2
  <2>8. Overlay(d, off, <<>>) = d BY <1>7, OverlayNothing
  <2>9. Rewritten(s, u, i, d) BY <1>6, <2>2, <2>3 DEF Rewritten
  <2> QED BY <1>2, <1>5, <2>1, <2>2, <2>3, <2>4, <2>5, <2>6, <2>7, <2>8, <2>9 DEF Ready
<1> QED BY <1>4, <1>8, <1>9

(* The buffer goes into a new page, or to the flash.                       *)
LEMMA FreshIs ==
  ASSUME ~MayFill, NEW s, Good(s), Single(s), NEW h \in Fds, s.fd[h].open, NEW i, i = s.fd[h].id,
         NoPageOf(s, i), NEW off \in Nat, NEW buf \in Seq(Cells), off <= Len(s.obj[i].data),
         NEW u \in Allocated(s, h, off), NEW o,
         \/ u.fd[h].cp # NoPage /\ o = Outcome(StoreInPage(u, h, off, buf), TRUE)
         \/ u.fd[h].cp = NoPage /\ o \in Uncached(u, h, off, buf)
  PROVE  o.ok /\ Written(s, o.fs, i, off, buf) /\ Moved(s, o.fs, h, Len(buf))
<1> DEFINE p == u.fd[h].cp
<1>1. Good(u) /\ Alike(s, u) /\ (p # NoPage => u.cp[p].data = <<>>) BY AllocatedGood
<1>2. /\ Ready(s, u, i) /\ u.obj = s.obj /\ Single(u) /\ (p = NoPage => NoPageOf(u, i))
      /\ p # NoPage => p \in CPages /\ u.cp[p].id = i /\ u.cp[p].off = off
  BY AllocatedIs
<1>3. i \in Ids /\ u.fd[h].open /\ u.fd[h].id = i BY <1>1 DEF Good, Opened, Alike
<1>4. o.ok /\ Written(u, o.fs, i, off, buf) /\ Moved(u, o.fs, h, Len(buf))
  <2>1. CASE p # NoPage
    <3>1. o.ok /\ o.fs = StoreInPage(u, h, off, buf) BY <2>1 DEF Outcome
    <3>2. u.cp[p].off <= Len(u.obj[i].data) /\ u.cp[p].off <= off
          /\ off <= u.cp[p].off + Len(u.cp[p].data)
      <4>1. u.cp[p].off = off /\ Len(u.cp[p].data) = 0 BY <1>1, <1>2, <2>1
      <4> QED BY <4>1, <1>2
    <3> QED BY <1>1, <1>2, <1>3, <2>1, <3>1, <3>2, StoreInPageIs
  <2>2. CASE p = NoPage
    <3>1. o \in Uncached(u, h, off, buf) BY <2>2
    <3> QED BY <1>1, <1>2, <1>3, <2>2, <3>1, UncachedIs
  <2> QED BY <2>1, <2>2
<1>5. Moved(s, o.fs, h, Len(buf)) BY <1>1, <1>4 DEF Moved, Alike
<1>6. View(s, i) = s.obj[i].data BY ViewFlash
<1>7. s.obj[i].data \in Seq(Cells)
  <2>1. s.obj[i] \in Objs BY <1>3, Parts DEF Good
  <2> QED BY <2>1 DEF Objs
<1>8. Written(s, o.fs, i, off, buf) BY <1>2, <1>3, <1>4, <1>6, <1>7, WrittenAfter
<1> QED BY <1>4, <1>5, <1>8

(* A write smaller than a page.                                            *)
LEMMA SmallWriteIs ==
  ASSUME ~MayFill, NEW s, Good(s), Cached(s), Placed(s), NEW h \in Fds, s.fd[h].open,
         NEW i, i = s.fd[h].id, s.fd[h].cp = NoPage => NoPageOf(s, i),
         NEW off \in Nat, NEW buf \in Seq(Cells), off <= Len(View(s, i)),
         NEW o \in SmallWrite(s, h, off, buf)
  PROVE  o.ok /\ Written(s, o.fs, i, off, buf) /\ Moved(s, o.fs, h, Len(buf))
<1> DEFINE put(u)   == IF u.fd[h].cp # NoPage THEN {Outcome(StoreInPage(u, h, off, buf), TRUE)}
                       ELSE Uncached(u, h, off, buf)
           fresh(t) == UNION {put(u) : u \in Allocated(t, h, off)}
           back(w)  == IF w.ok THEN fresh(w.fs) ELSE {w}
           p        == s.fd[h].cp
<1>1. SmallWrite(s, h, off, buf) =
        IF p = NoPage THEN fresh(s)
        ELSE IF Within(s, h, off, Len(buf)) THEN {Outcome(StoreInPage(s, h, off, buf), TRUE)}
        ELSE UNION {back(w) : w \in WriteBack(s, h)}
  BY DEF SmallWrite
<1>2. i \in Ids /\ i # NoId /\ Single(s) BY NamesAssumption DEF Good, Opened, Cached
<1>3. View(s, i) \in Seq(Cells) BY <1>2, ViewType
<1>4. \A u : put(u) = IF u.fd[h].cp # NoPage THEN {Outcome(StoreInPage(u, h, off, buf), TRUE)}
                      ELSE Uncached(u, h, off, buf)
  OBVIOUS
<1> HIDE DEF put
<1>5. CASE p = NoPage
  <2>1. PICK u \in Allocated(s, h, off) : o \in put(u) BY <1>1, <1>5
  <2>2. \/ u.fd[h].cp # NoPage /\ o = Outcome(StoreInPage(u, h, off, buf), TRUE)
        \/ u.fd[h].cp = NoPage /\ o \in Uncached(u, h, off, buf)
    BY <2>1, <1>4
  <2>3. NoPageOf(s, i) /\ View(s, i) = s.obj[i].data BY <1>5, ViewFlash
  <2> QED BY <1>2, <2>1, <2>2, <2>3, FreshIs
<1>6. CASE p # NoPage /\ Within(s, h, off, Len(buf))
  <2>1. o = Outcome(StoreInPage(s, h, off, buf), TRUE) BY <1>1, <1>6
  <2>2. o.ok /\ o.fs = StoreInPage(s, h, off, buf) BY <2>1 DEF Outcome
  <2>3. s.fd[h] \in FdRecs /\ s \in Fs BY Parts DEF Good
  <2>4. p \in CPages BY <1>6, <2>3, FdFacts
  <2>5. s.cp[p].id = i BY <1>6 DEF Cached, Owned
  <2>6. s.cp[p].off \in Nat
    <3>1. s.cp[p] \in CpRecs BY <2>3, <2>4, Parts
    <3> QED BY <3>1 DEF CpRecs
  <2>7. s.cp[p].off <= off /\ off <= s.cp[p].off + Len(s.cp[p].data)
    <3>1. off >= s.cp[p].off /\ off <= s.cp[p].off + Len(s.cp[p].data) BY <1>6 DEF Within
    <3> QED BY <2>6, <3>1
  <2>8. s.cp[p].off <= Len(s.obj[i].data) BY <1>2, <2>4, <2>5 DEF Placed
  <2> HIDE DEF p
  <2>9. p = s.fd[h].cp BY DEF p
  <2> QED BY <1>2, <2>2, <2>4, <2>5, <2>7, <2>8, <2>9, StoreInPageIs
<1>7. CASE p # NoPage /\ ~Within(s, h, off, Len(buf))
  <2> HIDE DEF fresh
  <2>1. PICK w \in WriteBack(s, h) : o \in back(w) BY <1>1, <1>7
  <2>2. Good(w.fs) /\ Alike(s, w.fs) /\ Cached(w.fs) BY <1>7, <2>1, WriteBackGood
  <2>3. w.ok /\ Flushed(s, w.fs, i) BY <1>7, <2>1, WriteBackIs
  <2>4. PICK u \in Allocated(w.fs, h, off) : o \in put(u) BY <2>1, <2>3 DEF fresh
  <2>5. \/ u.fd[h].cp # NoPage /\ o = Outcome(StoreInPage(u, h, off, buf), TRUE)
        \/ u.fd[h].cp = NoPage /\ o \in Uncached(u, h, off, buf)
    BY <2>4, <1>4
  <2>6. w.fs.fd[h].open /\ w.fs.fd[h].id = i BY <2>2 DEF Alike
  <2>7. NoPageOf(w.fs, i) /\ w.fs.obj[i].data = View(s, i)
    BY <1>2, <1>3, <2>3, RewrittenData DEF Flushed
  <2>8. Single(w.fs) /\ off <= Len(w.fs.obj[i].data) BY <2>2, <2>7 DEF Cached
  <2>9. o.ok /\ Written(w.fs, o.fs, i, off, buf) /\ Moved(w.fs, o.fs, h, Len(buf))
    BY <2>2, <2>4, <2>5, <2>6, <2>7, <2>8, FreshIs
  <2>10. Ready(s, w.fs, i) BY <1>2, <2>3, FlushedReady
  <2>11. Written(s, o.fs, i, off, buf) BY <1>2, <1>3, <2>9, <2>10, WrittenAfter
  <2>12. Moved(s, o.fs, h, Len(buf)) BY <2>2, <2>9 DEF Moved, Alike
  <2> QED BY <2>9, <2>11, <2>12
<1> QED BY <1>5, <1>6, <1>7

(* A write of a page or more; writing it twice does what once would.       *)
LEMMA BigWriteIs ==
  ASSUME ~MayFill, NEW s, Good(s), Cached(s), Placed(s), NEW h \in Fds, s.fd[h].open,
         NEW i, i = s.fd[h].id, s.fd[h].cp = NoPage => NoPageOf(s, i),
         NEW off \in Nat, NEW buf \in Seq(Cells), off <= Len(View(s, i)),
         NEW o \in BigWrite(s, h, off, buf)
  PROVE  o.ok /\ Written(s, o.fs, i, off, buf) /\ Moved(s, o.fs, h, Len(buf))
<1> DEFINE once(w)  == IF w.ok THEN HydroWrite(w.fs, h, off, buf) ELSE {w}
           twice(q) == IF q.ok THEN Uncached(q.fs, h, off, buf) ELSE {q}
<1>1. i \in Ids /\ i # NoId /\ Single(s) BY NamesAssumption DEF Good, Opened, Cached
<1>2. View(s, i) \in Seq(Cells) BY <1>1, ViewType
<1>3. CASE s.fd[h].cp = NoPage
  <2>1. o \in Uncached(s, h, off, buf) BY <1>3 DEF BigWrite
  <2>2. NoPageOf(s, i) /\ View(s, i) = s.obj[i].data BY <1>3, ViewFlash
  <2> QED BY <2>1, <2>2, UncachedIs
<1>4. CASE s.fd[h].cp # NoPage
  <2>1. BigWrite(s, h, off, buf) = UNION {UNION {twice(q) : q \in once(w)} : w \in WriteBack(s, h)}
    BY <1>4 DEF BigWrite
  <2> HIDE DEF once, twice
  <2>2. PICK w \in WriteBack(s, h) : \E q \in once(w) : o \in twice(q) BY <2>1
  <2>3. PICK q \in once(w) : o \in twice(q) BY <2>2
  <2>4. Good(w.fs) /\ Alike(s, w.fs) /\ Cached(w.fs) BY <1>4, <2>2, WriteBackGood
  <2>5. w.ok /\ Flushed(s, w.fs, i) BY <1>4, <2>2, WriteBackIs
  <2>6. w.fs.fd[h].open /\ w.fs.fd[h].id = i BY <2>4 DEF Alike
  <2> DEFINE d == View(s, i)
             e == Overlay(d, off, buf)
  <2>7. NoPageOf(w.fs, i) /\ w.fs.obj[i].data = d
    BY <1>1, <1>2, <2>5, RewrittenData DEF Flushed
  <2>8. q \in HydroWrite(w.fs, h, off, buf) BY <2>3, <2>5, SMTT(60) DEF once
  <2>9. q.ok /\ Rewritten(w.fs, q.fs, i, e) BY <2>4, <2>6, <2>7, <2>8, HydroIs
  <2>10. /\ Good(q.fs) /\ Same(w.fs, q.fs)
         /\ \A g \in Fds : q.fs.fd[g].off = w.fs.fd[g].off
    BY <2>4, <2>6, <2>8, HydroWriteGood
  <2>11. q.fs.fd[h].open /\ q.fs.fd[h].id = i /\ NoPageOf(q.fs, i) /\ q.fs.cp = w.fs.cp
    BY <2>6, <2>7, <2>10 DEF Same, SameFd, NoPageOf
  <2>12. e \in Seq(Cells) /\ Len(e) = Greater(Len(d), off + Len(buf)) BY <1>2, OverlayType
  <2>13. off <= Len(e)
    <3> HIDE DEF d, e
    <3>1. Len(d) \in Nat /\ Len(buf) \in Nat BY <1>2 DEF d
    <3> QED BY <2>12, <3>1 DEF Greater
  <2>14. q.fs.obj[i].data = e BY <1>1, <2>4, <2>9, <2>12, RewrittenData
  <2>15. o \in Uncached(q.fs, h, off, buf) BY <2>3, <2>9 DEF twice
  <2>16. /\ o.ok /\ Written(q.fs, o.fs, i, off, buf) /\ Moved(q.fs, o.fs, h, Len(buf))
         /\ Rewritten(q.fs, o.fs, i, Overlay(e, off, buf))
    BY <2>10, <2>11, <2>13, <2>14, <2>15, UncachedIs
  <2>17. Overlay(e, off, buf) = e BY <1>2, OverlayTwice
  <2> HIDE DEF e
  <2>18. Rewritten(w.fs, o.fs, i, e) BY <1>1, <2>4, <2>9, <2>12, <2>16, <2>17, RewrittenTwice
  <2>19. View(q.fs, i) = e /\ View(w.fs, i) = d BY <2>7, <2>11, <2>14, ViewFlash, SMTT(60)
  <2>20. View(o.fs, i) = e BY <2>16, <2>17, <2>19 DEF Written
  <2>21. Only(w.fs, q.fs, i) BY <1>1, <2>9, <2>11, OnlyObj, SMTT(60) DEF Rewritten
  <2>22. Only(w.fs, o.fs, i) BY <2>16, <2>21, OnlyTwice, SMTT(60) DEF Written
  <2>23. Written(w.fs, o.fs, i, off, buf)
    BY <2>16, <2>18, <2>19, <2>20, <2>22, Zenon DEF Written, e
  <2>24. Ready(s, w.fs, i) BY <1>1, <2>5, FlushedReady
  <2>25. Written(s, o.fs, i, off, buf) BY <1>1, <1>2, <2>23, <2>24, WrittenAfter
  <2>26. Moved(s, o.fs, h, Len(buf))
    BY <2>4, <2>10, <2>16 DEF Moved, Alike, Same, SameFd
  <2> QED BY <2>16, <2>25, <2>26
<1> QED BY <1>3, <1>4

(* A write starts at the descriptor's position or at the end that readers  *)
(* see, which may be in the cache.                                         *)
LEMMA WriteOffsetIs ==
  ASSUME ~MayFill, NEW s, Good(s), Cached(s), Placed(s), Inside(s), NEW h \in Fds, s.fd[h].open,
         NEW i, i = s.fd[h].id, s.fd[h].cp = NoPage => NoPageOf(s, i)
  PROVE  /\ WriteOffset(s, h) \in {s.fd[h].off, Len(View(s, i))}
         /\ WriteOffset(s, h) <= Len(View(s, i)) /\ s.fd[h].off <= WriteOffset(s, h)
<1> DEFINE f   == s.fd[h]
           d   == s.obj[i].data
           end == IF f.size = Undef THEN 0 ELSE f.size
           p   == f.cp
<1>1. s \in Fs /\ f \in FdRecs /\ i \in Ids /\ i # NoId /\ Fits(f, s.obj[i])
  BY NamesAssumption, Parts DEF Good, Opened
<1>2. /\ d \in Seq(Cells) /\ Len(d) \in Nat /\ Len(View(s, i)) \in Nat
  BY <1>1, ViewType DEF Cached
<1>3. f.off \in Nat /\ f.off <= Len(View(s, i)) BY <1>1, FdFacts DEF Inside
<1>4. end = Len(d)
  <2>1. HdrSize(s.obj[i]) = IF d = <<>> THEN Undef ELSE Len(d) BY DEF HdrSize
  <2>2. f.size = HdrSize(s.obj[i]) \/ (d = <<>> /\ f.size = 0) BY <1>1 DEF Fits
  <2>3. d = <<>> => Len(d) = 0 OBVIOUS
  <2> QED BY SMTT(30), <1>2, <2>1, <2>2, <2>3 DEF Undef
<1>5. WriteOffset(s, h) = IF "APPEND" \notin f.flags THEN f.off
                          ELSE IF p = NoPage THEN end
                          ELSE Greater(end, s.cp[p].off + Len(s.cp[p].data))
  BY DEF WriteOffset
<1>6. p # NoPage => Greater(Len(d), s.cp[p].off + Len(s.cp[p].data)) = Len(View(s, i))
  <2> SUFFICES ASSUME p # NoPage
               PROVE  Greater(Len(d), s.cp[p].off + Len(s.cp[p].data)) = Len(View(s, i))
    OBVIOUS
  <2>1. p \in CPages BY <1>1, FdFacts
  <2>2. s.cp[p] \in CpRecs BY <1>1, <2>1, Parts
  <2>3. s.cp[p].off \in Nat /\ s.cp[p].data \in Seq(Cells) BY <2>2 DEF CpRecs
  <2>4. s.cp[p].id = i BY DEF Cached, Owned
  <2>5. s.cp[p].off <= Len(d) BY <1>1, <2>1, <2>4 DEF Placed
  <2>6. View(s, i) = Overlay(d, s.cp[p].off, s.cp[p].data)
    BY <1>1, <2>1, <2>4, <2>5, ViewCached DEF Cached
  <2> DEFINE a == s.cp[p].off
             b == s.cp[p].data
  <2> HIDE DEF a, b, d
  <2>7. a \in Nat /\ b \in Seq(Cells) /\ a <= Len(d) /\ View(s, i) = Overlay(d, a, b)
    BY <2>3, <2>5, <2>6 DEF a, b
  <2>8. Len(Overlay(d, a, b)) = Greater(Len(d), a + Len(b)) BY <1>2, <2>7, OverlayType
  <2> QED BY <2>7, <2>8 DEF a, b
<1>7. p = NoPage => View(s, i) = d BY ViewFlash
<1> HIDE DEF end, d, f, p
<1>8. CASE "APPEND" \notin f.flags BY <1>3, <1>5, <1>8 DEF f
<1>9. CASE "APPEND" \in f.flags
  <2>1. WriteOffset(s, h) = Len(View(s, i)) BY <1>4, <1>5, <1>6, <1>7, <1>9
  <2> QED BY <1>2, <1>3, <2>1 DEF f
<1> QED BY <1>8, <1>9

(* After a write the file reaches at least to where the descriptor is.     *)
LEMMA WrittenWhole ==
  ASSUME NEW s, Whole(s), NEW t, Good(t), Cached(t), NEW h \in Fds, s.fd[h].open,
         NEW i, i = s.fd[h].id, NEW off \in Nat, NEW buf \in Seq(Cells),
         off <= Len(View(s, i)), s.fd[h].off <= off,
         Written(s, t, i, off, buf), Moved(s, t, h, Len(buf))
  PROVE  /\ Whole(t)
         /\ t.obj[i].data \in {s.obj[i].data, View(s, i), View(t, i)}
         /\ t.obj[i].name = s.obj[i].name
         /\ \A j \in Ids \ {i} : t.obj[j] = s.obj[j] /\ View(t, j) = View(s, j)
<1> USE DEF Whole, Tidy
<1>1. i \in Ids BY DEF Good, Opened
<1>2. /\ View(s, i) \in Seq(Cells) /\ Len(View(s, i)) \in Nat
      /\ s.obj[i].data \in Seq(Cells)
  BY <1>1, ViewType DEF Cached
<1>3. View(t, i) = Overlay(View(s, i), off, buf) /\ Only(s, t, i) BY DEF Written
<1>4. View(t, i) \in Seq(Cells) /\ Len(View(t, i)) = Greater(Len(View(s, i)), off + Len(buf))
  BY <1>2, <1>3, OverlayType
<1>5. Len(buf) \in Nat OBVIOUS
<1>6. Len(View(s, i)) <= Len(View(t, i)) /\ off + Len(buf) <= Len(View(t, i))
  BY <1>2, <1>4, <1>5 DEF Greater
<1>7. PICK d \in {s.obj[i].data, View(s, i), View(t, i)} : Rewritten(s, t, i, d) BY DEF Written
<1>8. d \in Seq(Cells) BY <1>2, <1>4, <1>7
<1>9. t.obj[i].data = d /\ t.obj[i].name = s.obj[i].name /\ t.obj[i].live = s.obj[i].live
  BY <1>1, <1>7, <1>8, RewrittenData
<1>10. \A j \in Ids \ {i} : t.obj[j] = s.obj[j] /\ View(t, j) = View(s, j)
  <2>1. \A j \in Ids \ {i} : t.obj[j] = s.obj[j] BY <1>3 DEF Only
  <2>2. \A j \in Ids \ {i} : View(t, j) = View(s, j) BY <1>3, OnlyView
  <2> QED BY <2>1, <2>2
<1>11. Live(t) BY <1>9, <1>10 DEF Live
<1>12. Reset(t)
  <2> SUFFICES ASSUME NEW g \in Fds, ~t.fd[g].open PROVE t.fd[g].id = NoId /\ t.fd[g].off = 0
    BY DEF Reset
  <2>1. ~s.fd[g].open /\ g # h /\ t.fd[g].id = s.fd[g].id /\ t.fd[g].off = s.fd[g].off
    BY DEF Moved
  <2> QED BY <2>1 DEF Reset
<1>13. Placed(t)
  <2> SUFFICES ASSUME NEW p \in CPages, t.cp[p].id # NoId
               PROVE  t.cp[p].off <= Len(t.obj[t.cp[p].id].data)
    BY DEF Placed
  <2> DEFINE j == t.cp[p].id
  <2>1. j \in Ids
    <3>1. t.cp[p] \in CpRecs BY Parts DEF Good
    <3> QED BY <3>1 DEF CpRecs
  <2>2. p \in PagesOf(t, j) BY DEF PagesOf
  <2>3. CASE j = i BY <2>2, <2>3 DEF Written
  <2>4. CASE j # i
    <3>1. PagesOf(t, j) = PagesOf(s, j) /\ \A q \in PagesOf(s, j) : t.cp[q] = s.cp[q]
      BY <1>3, <2>1, <2>4 DEF Only
    <3>2. t.cp[p] = s.cp[p] BY <2>2, <3>1
    <3>3. t.obj[j] = s.obj[j] BY <1>10, <2>1, <2>4
    <3> QED BY <3>2, <3>3 DEF Placed
  <2> QED BY <2>3, <2>4
<1>14. Inside(t)
  <2> SUFFICES ASSUME NEW g \in Fds, t.fd[g].open
               PROVE  t.fd[g].off <= Len(View(t, t.fd[g].id))
    BY DEF Inside
  <2>1. s.fd[g].open /\ t.fd[g].id = s.fd[g].id BY DEF Moved
  <2>2. s.fd[g].id \in Ids /\ s.fd[g].off <= Len(View(s, s.fd[g].id))
    BY <2>1 DEF Good, Opened, Inside
  <2>3. s.fd[g].off \in Nat
    <3>1. s.fd[g] \in FdRecs BY Parts DEF Good
    <3> QED BY <3>1, FdFacts
  <2>4. CASE g = h
    <3>1. t.fd[g].off = s.fd[g].off + Len(buf) BY <2>4 DEF Moved
    <3>2. s.fd[g].off + Len(buf) <= Len(View(t, i))
      <4>1. s.fd[g].off <= off BY <2>4
      <4>2. Len(View(t, i)) \in Nat BY <1>4
      <4> QED BY <1>5, <1>6, <2>3, <4>1, <4>2
    <3> QED BY <2>1, <2>4, <3>1, <3>2
  <2>5. CASE g # h
    <3>1. t.fd[g].off = s.fd[g].off BY <2>5 DEF Moved
    <3>2. CASE s.fd[g].id = i
      <4>1. Len(View(t, i)) \in Nat BY <1>4
      <4>2. s.fd[g].off <= Len(View(t, i)) BY <1>2, <1>6, <2>2, <2>3, <3>2, <4>1
      <4> QED BY <2>1, <3>1, <3>2, <4>2
    <3>3. CASE s.fd[g].id # i
      <4>1. View(t, s.fd[g].id) = View(s, s.fd[g].id) BY <1>10, <2>2, <3>3
      <4> QED BY <2>1, <2>2, <3>1, <4>1
    <3> QED BY <3>2, <3>3
  <2> QED BY <2>4, <2>5
<1> QED BY <1>7, <1>9, <1>10, <1>11, <1>12, <1>13, <1>14
-----------------------------------------------------------------------------
(* The calls.  Put of FileApi is Overlay.                                  *)
LEMMA PutIs ==
  ASSUME NEW d \in Seq(Cells), NEW b \in Seq(Cells), NEW at \in Nat
  PROVE  Api!Put(d, at, b) = Overlay(d, at, b)
<1> DEFINE n == IF at + Len(b) > Len(d) THEN at + Len(b) ELSE Len(d)
<1>1. Len(d) \in Nat /\ Len(b) \in Nat OBVIOUS
<1>2. n = Greater(Len(d), at + Len(b)) BY <1>1 DEF Greater
<1>3. Api!Put(d, at, b) = [k \in 1 .. n |-> IF k \in at + 1 .. at + Len(b) THEN b[k - at] ELSE d[k]]
  BY DEF Api!Put
<1> HIDE DEF n
<1> QED BY <1>2, <1>3 DEF Overlay

(* The files and the descriptors of the abstract state.                    *)
LEMMA FilesAt ==
  ASSUME NEW s, NEW i \in Ids
  PROVE  /\ Files(s)[i].name = s.obj[i].name /\ Files(s)[i].data = View(s, i)
         /\ Files(s)[i].safe = s.obj[i].data
         /\ Files(s)[i] = [name |-> s.obj[i].name, data |-> View(s, i), safe |-> s.obj[i].data]
  BY DEF Files

(* A descriptor as FileApi sees it.                                        *)
LEMMA HandlesAt ==
  ASSUME NEW s, NEW h \in Fds
  PROVE  /\ Handles(s)[h].id = s.fd[h].id /\ Handles(s)[h].pos = s.fd[h].off
         /\ Handles(s)[h] = [id |-> s.fd[h].id, pos |-> s.fd[h].off]
  BY DEF Handles

Advance(H, h, n) == [H EXCEPT ![h].pos = @ + n]

(* Only the position of the descriptor written through advances.           *)
LEMMA MovedHandles ==
  ASSUME NEW s, NEW t, NEW h \in Fds, NEW n, Moved(s, t, h, n)
  PROVE  Handles(t) = Advance(Handles(s), h, n)
<1> DEFINE A == Handles(s)
           H == [A EXCEPT ![h].pos = @ + n]
<1>1. A = [g \in Fds |-> A[g]] /\ A[h] = [id |-> s.fd[h].id, pos |-> s.fd[h].off]
      /\ \A g \in Fds : A[g] = [id |-> s.fd[g].id, pos |-> s.fd[g].off]
  BY DEF Handles
<1> HIDE DEF A
<1>2. [A[h] EXCEPT !.pos = A[h].pos + n] = [id |-> s.fd[h].id, pos |-> s.fd[h].off + n] BY <1>1
<1>3. H = [g \in Fds |-> IF g = h THEN [A[h] EXCEPT !.pos = A[h].pos + n] ELSE A[g]] BY <1>1
<1>4. \A g \in Fds : [id |-> t.fd[g].id, pos |-> t.fd[g].off] = H[g] BY <1>1, <1>2, <1>3 DEF Moved
<1> HIDE DEF H
<1>5. Handles(t) = [g \in Fds |-> H[g]] BY <1>4 DEF Handles
<1>6. H = [g \in Fds |-> H[g]] BY <1>3
<1> QED BY <1>5, <1>6 DEF H, A, Advance

(* What a write does to the abstract state.                                *)
LEMMA WrittenFiles ==
  ASSUME NEW s, NEW t, NEW h \in Fds, NEW i \in Ids, NEW off \in Nat, NEW buf \in Seq(Cells),
         View(s, i) \in Seq(Cells), View(t, i) = Overlay(View(s, i), off, buf),
         t.obj[i].data \in {s.obj[i].data, View(s, i), View(t, i)},
         t.obj[i].name = s.obj[i].name,
         \A j \in Ids \ {i} : t.obj[j] = s.obj[j] /\ View(t, j) = View(s, j)
  PROVE  LET f == Files(s)[i]
             g == Files(t)[i]
         IN  /\ \A j \in Ids \ {i} : Files(t)[j] = Files(s)[j]
             /\ g.name = f.name
             /\ g.data = Api!Put(f.data, off, buf)
             /\ g.safe \in {f.safe, f.data, g.data}
<1>1. ASSUME NEW j \in Ids \ {i} PROVE Files(t)[j] = Files(s)[j]
  <2>1. Files(t)[j] = [name |-> t.obj[j].name, data |-> View(t, j), safe |-> t.obj[j].data]
    BY FilesAt
  <2>2. Files(s)[j] = [name |-> s.obj[j].name, data |-> View(s, j), safe |-> s.obj[j].data]
    BY FilesAt
  <2> QED BY <2>1, <2>2
<1>2. /\ Files(s)[i].name = s.obj[i].name /\ Files(s)[i].data = View(s, i)
      /\ Files(s)[i].safe = s.obj[i].data
  BY FilesAt
<1>3. /\ Files(t)[i].name = t.obj[i].name /\ Files(t)[i].data = View(t, i)
      /\ Files(t)[i].safe = t.obj[i].data
  BY FilesAt
<1>4. Api!Put(View(s, i), off, buf) = View(t, i) BY PutIs
<1> QED BY <1>1, <1>2, <1>3, <1>4

(* A write, whichever way the buffer goes.                                 *)
LEMMA WriteImplements ==
  ASSUME ~MayFill, Careful, Whole(fs), NEW h \in Fds, NEW buf \in Bufs, SPIFFS_write(h, buf)
  PROVE  Api!Write(h, buf) /\ Whole(fs')
<1> DEFINE i == fs.fd[h].id
<1>1. /\ Good(fs) /\ Cached(fs) /\ Tidy(fs) /\ fs.fd[h].open /\ buf \in Seq(Cells)
      /\ i \in Ids /\ i # NoId
  BY CallsAssumption, NamesAssumption DEF Whole, SPIFFS_write, Good, Opened
<1>2. PICK s \in Attached(fs, h) :
         LET off == WriteOffset(s, h) IN
         \E o \in IF "DIRECT" \in fs.fd[h].flags THEN Uncached(s, h, off, buf)
                  ELSE IF Len(buf) < LogPage THEN SmallWrite(s, h, off, buf)
                  ELSE BigWrite(s, h, off, buf) :
              /\ fs' = o.fs
              /\ IF o.ok THEN Returns("write", TRUE, Len(buf), <<>>) ELSE Fails("write")
  BY DEF SPIFFS_write
<1> DEFINE off == WriteOffset(s, h)
<1>3. PICK o \in IF "DIRECT" \in fs.fd[h].flags THEN Uncached(s, h, off, buf)
                 ELSE IF Len(buf) < LogPage THEN SmallWrite(s, h, off, buf)
                 ELSE BigWrite(s, h, off, buf) :
         /\ fs' = o.fs
         /\ IF o.ok THEN Returns("write", TRUE, Len(buf), <<>>) ELSE Fails("write")
  BY <1>2
<1>4. /\ Good(s) /\ Alike(fs, s) /\ s.cp = fs.cp /\ s.obj = fs.obj
      /\ Cached(s) /\ (s.fd[h].cp = NoPage => NoPageOf(s, s.fd[h].id))
  BY <1>1, <1>2, AttachedGood
<1>5. /\ s.fd[h].open /\ s.fd[h].id = i /\ s.fd[h].flags = fs.fd[h].flags
      /\ \A g \in Fds : s.fd[g].open = fs.fd[g].open /\ s.fd[g].id = fs.fd[g].id
                        /\ s.fd[g].off = fs.fd[g].off
  BY <1>1, <1>4 DEF Alike
<1>6. \A j : View(s, j) = View(fs, j) BY <1>4 DEF View, PagesOf
<1>7. Whole(s)
  <2>1. Live(s) /\ Placed(s) BY <1>1, <1>4 DEF Tidy, Live, Placed
  <2>2. Reset(s) /\ Inside(s) BY <1>1, <1>5, <1>6 DEF Tidy, Reset, Inside
  <2> QED BY <1>4, <2>1, <2>2 DEF Whole, Tidy
<1>8. off \in Nat BY <1>4, WriteOffsetNat
<1>9. off \in {s.fd[h].off, Len(View(s, i))} /\ off <= Len(View(s, i)) /\ s.fd[h].off <= off
  BY <1>4, <1>5, <1>7, WriteOffsetIs DEF Whole, Tidy
<1> HIDE DEF off
<1>10. o.ok /\ Written(s, o.fs, i, off, buf) /\ Moved(s, o.fs, h, Len(buf))
  <2>0. s.fd[h].cp = NoPage => NoPageOf(s, i) BY <1>4, <1>5
  <2>1. CASE "DIRECT" \in fs.fd[h].flags
    <3>1. o \in Uncached(s, h, off, buf) BY <1>3, <2>1
    <3>2. NoPageOf(s, i) BY <1>4, <1>5, <2>1 DEF Cached, Direct, IsDirect, NoPageOf
    <3>3. View(s, i) = s.obj[i].data BY <3>2, ViewFlash
    <3> QED BY <1>1, <1>4, <1>5, <1>8, <1>9, <3>1, <3>2, <3>3, UncachedIs
  <2>2. CASE "DIRECT" \notin fs.fd[h].flags /\ Len(buf) < LogPage
    <3>1. o \in SmallWrite(s, h, off, buf) BY <1>3, <2>2
    <3> QED BY <1>1, <1>4, <1>5, <1>7, <1>8, <1>9, <2>0, <3>1, SmallWriteIs DEF Whole, Tidy
  <2>3. CASE "DIRECT" \notin fs.fd[h].flags /\ ~(Len(buf) < LogPage)
    <3>1. o \in BigWrite(s, h, off, buf) BY <1>3, <2>3
    <3> QED BY <1>1, <1>4, <1>5, <1>7, <1>8, <1>9, <2>0, <3>1, BigWriteIs DEF Whole, Tidy
  <2> QED BY <2>1, <2>2, <2>3
<1>11. Good(fs') /\ Cached(fs') BY <1>1, WriteKeeps DEF Invariant
<1> DEFINE t == o.fs
<1>12. fs' = t /\ Returns("write", TRUE, Len(buf), <<>>) BY <1>3, <1>10
<1> HIDE DEF t
<1>13. Written(s, t, i, off, buf) /\ Moved(s, t, h, Len(buf)) BY <1>10 DEF t
<1>14. /\ Whole(t)
       /\ t.obj[i].data \in {s.obj[i].data, View(s, i), View(t, i)}
       /\ t.obj[i].name = s.obj[i].name
       /\ \A j \in Ids \ {i} : t.obj[j] = s.obj[j] /\ View(t, j) = View(s, j)
  BY SMTT(30), <1>1, <1>5, <1>7, <1>8, <1>9, <1>11, <1>12, <1>13, WrittenWhole
<1>15. View(t, i) = Overlay(View(s, i), off, buf) BY <1>13 DEF Written
<1>16. Moved(fs, t, h, Len(buf)) BY <1>5, <1>13 DEF Moved
<1>17. Handles(t) = Advance(Handles(fs), h, Len(buf)) BY <1>16, MovedHandles
<1>18. View(fs, i) \in Seq(Cells) BY <1>1, ViewType DEF Tidy, Cached
<1>19. /\ View(t, i) = Overlay(View(fs, i), off, buf)
       /\ t.obj[i].data \in {fs.obj[i].data, View(fs, i), View(t, i)}
       /\ t.obj[i].name = fs.obj[i].name
       /\ \A j \in Ids \ {i} : t.obj[j] = fs.obj[j] /\ View(t, j) = View(fs, j)
  BY <1>4, <1>6, <1>14, <1>15
<1>20. off \in {fs.fd[h].off, Len(View(fs, i))} /\ off <= Len(View(fs, i)) BY <1>5, <1>6, <1>9
<1> HIDE DEF i
<1>21. LET f == Files(fs)[i]
           g == Files(t)[i]
       IN  /\ \A j \in Ids \ {i} : Files(t)[j] = Files(fs)[j]
           /\ g.name = f.name
           /\ g.data = Api!Put(f.data, off, buf)
           /\ g.safe \in {f.safe, f.data, g.data}
  BY <1>1, <1>8, <1>18, <1>19, WrittenFiles
<1>22. off \in {Handles(fs)[h].pos, Len(Files(fs)[i].data)} /\ off <= Len(Files(fs)[i].data)
  <2>1. Handles(fs)[h].pos = fs.fd[h].off BY HandlesAt
  <2>2. Files(fs)[i].data = View(fs, i) BY <1>1, FilesAt
  <2> QED BY <1>20, <2>1, <2>2
<1>23. Handles(fs)[h].id = i BY HandlesAt DEF i
<1>24. Files(fs)' = Files(t) /\ Handles(fs)' = Handles(t) BY <1>12
<1>25. Api!Write(h, buf)
  <2>1. Api!Returns("write", TRUE, Len(buf), <<>>) BY <1>12 DEF Api!Returns, Returns
  <2>2. Api!IsOpen(h) BY <1>1, <1>23 DEF Api!IsOpen
  <2> QED BY <1>17, <1>21, <1>22, <1>23, <1>24, <2>1, <2>2 DEF Api!Write, Advance
<1> QED BY <1>12, <1>14, <1>25
-----------------------------------------------------------------------------
(* The calls that flush.  Files are their objects and cache pages.         *)
LEMMA SameFiles ==
  ASSUME NEW s, NEW t, t.obj = s.obj, t.cp = s.cp
  PROVE  Files(t) = Files(s) /\ \A j : View(t, j) = View(s, j)
<1>1. \A j : View(t, j) = View(s, j) BY DEF View, PagesOf
<1> QED BY <1>1 DEF Files

(* Opening, closing and moving descriptors within their files.             *)
LEMMA SameWhole ==
  ASSUME NEW s, Whole(s), NEW t, Good(t), Cached(t), t.obj = s.obj, t.cp = s.cp, Reset(t),
         \A g \in Fds : t.fd[g].open => t.fd[g].off <= Len(View(s, t.fd[g].id))
  PROVE  Whole(t)
<1>1. Live(t) /\ Placed(t) BY DEF Whole, Tidy, Live, Placed
<1>2. \A j : View(t, j) = View(s, j) BY SameFiles
<1>3. Inside(t) BY <1>2 DEF Inside
<1> QED BY <1>1, <1>3 DEF Whole, Tidy

(* The files of the abstract state after a flush.                          *)
FilesBack(s, t, i) ==
    /\ \A j \in Ids \ {i} : Files(t)[j] = Files(s)[j]
    /\ Files(t)[i] = [Files(s)[i] EXCEPT !.safe = Files(s)[i].data]

(* A file whose flash data is what readers saw is saved.                   *)
LEMMA BackFiles ==
  ASSUME NEW s, NEW t, NEW i \in Ids, t.obj[i].data = View(s, i),
         \A j \in Ids : View(t, j) = View(s, j) /\ t.obj[j].name = s.obj[j].name,
         \A j \in Ids \ {i} : t.obj[j] = s.obj[j]
  PROVE  FilesBack(s, t, i)
<1>1. ASSUME NEW j \in Ids \ {i} PROVE Files(t)[j] = Files(s)[j]
  <2>1. Files(t)[j] = [name |-> t.obj[j].name, data |-> View(t, j), safe |-> t.obj[j].data]
    BY FilesAt
  <2>2. Files(s)[j] = [name |-> s.obj[j].name, data |-> View(s, j), safe |-> s.obj[j].data]
    BY FilesAt
  <2> QED BY <2>1, <2>2
<1>2. Files(t)[i] = [name |-> s.obj[i].name, data |-> View(s, i), safe |-> View(s, i)]
  BY FilesAt
<1>3. Files(s)[i] = [name |-> s.obj[i].name, data |-> View(s, i), safe |-> s.obj[i].data]
  BY FilesAt
<1>4. [Files(s)[i] EXCEPT !.safe = Files(s)[i].data]
        = [name |-> s.obj[i].name, data |-> View(s, i), safe |-> View(s, i)]
  BY <1>3
<1> QED BY <1>1, <1>2, <1>4 DEF FilesBack

(* What spiffs_fflush_cache does, for every call that flushes first.       *)
LEMMA FlushFacts ==
  ASSUME ~MayFill, NEW s, Whole(s), NEW h \in Fds, s.fd[h].open, NEW o \in FlushCache(s, h)
  PROVE  LET i == s.fd[h].id
             t == o.fs
         IN  /\ o.ok /\ i \in Ids /\ i # NoId /\ Whole(t) /\ FilesBack(s, t, i)
             /\ Handles(t) = Handles(s)
             /\ t.fd[h].open /\ t.fd[h].id = i /\ t.fd[h].off = s.fd[h].off
             /\ t.obj[i].data = View(t, i) /\ View(t, i) = View(s, i)
             /\ View(t, i) \in Seq(Cells) /\ t.fd[h].off \in Nat
             /\ \/ t.fd[h].size = Undef /\ Len(View(t, i)) = 0
                \/ t.fd[h].size = Len(View(t, i))
<1> DEFINE i == s.fd[h].id
           t == o.fs
<1>1. Good(s) /\ Cached(s) /\ Placed(s) /\ i \in Ids /\ i # NoId
  BY NamesAssumption DEF Whole, Tidy, Good, Opened
<1>2. Good(t) /\ Alike(s, t) /\ Cached(t) BY <1>1, FlushCacheGood
<1>3. o.ok /\ Flushed(s, t, i) BY <1>1, FlushIs
<1>4. /\ Whole(t) /\ t.obj[i].data = View(s, i)
      /\ \A j \in Ids : View(t, j) = View(s, j) /\ t.obj[j].name = s.obj[j].name
      /\ \A j \in Ids \ {i} : t.obj[j] = s.obj[j]
  BY <1>1, <1>2, <1>3, FlushedWhole
<1>5. FilesBack(s, t, i) BY <1>1, <1>4, BackFiles
<1>6. \A g \in Fds : t.fd[g].open = s.fd[g].open /\ t.fd[g].id = s.fd[g].id
                     /\ t.fd[g].off = s.fd[g].off
  BY <1>2 DEF Alike
<1>7. Handles(t) = Handles(s) BY <1>6 DEF Handles
<1>8. View(t, i) \in Seq(Cells) BY <1>1, <1>4, ViewType DEF Whole, Tidy, Cached
<1>9. t.fd[h] \in FdRecs /\ Fits(t.fd[h], t.obj[i]) BY <1>2, <1>6, Parts DEF Good, Opened
<1>10. t.fd[h].off \in Nat BY <1>9, FdFacts
<1>11. (t.fd[h].size = Undef /\ Len(View(t, i)) = 0) \/ t.fd[h].size = Len(View(t, i))
  <2> DEFINE d == t.obj[i].data
  <2>1. HdrSize(t.obj[i]) = IF d = <<>> THEN Undef ELSE Len(d) BY DEF HdrSize
  <2>2. t.fd[h].size = HdrSize(t.obj[i]) \/ (d = <<>> /\ t.fd[h].size = 0) BY <1>9 DEF Fits
  <2>3. d = <<>> => Len(d) = 0 OBVIOUS
  <2>4. d = View(t, i) BY <1>1, <1>4
  <2> HIDE DEF d
  <2> QED BY <2>1, <2>2, <2>3, <2>4
<1> QED BY <1>1, <1>3, <1>4, <1>5, <1>6, <1>7, <1>8, <1>10, <1>11

(* FilesBack is what FileApi calls WrittenBack.                            *)
LEMMA BackIs ==
  ASSUME NEW h \in Fds, fs.fd[h].id # NoId, NEW t, FilesBack(fs, t, fs.fd[h].id),
         Files(fs)' = Files(t)
  PROVE  Api!WrittenBack(h)
<1>1. Handles(fs)[h].id = fs.fd[h].id BY HandlesAt
<1>2. Api!IsOpen(h) BY <1>1 DEF Api!IsOpen
<1> QED BY <1>1, <1>2 DEF FilesBack, Api!WrittenBack

(* SPIFFS_fflush and SPIFFS_fstat.                                         *)
LEMMA FlushImplements ==
  ASSUME ~MayFill, Careful, Whole(fs), NEW h \in Fds, SPIFFS_fflush(h)
  PROVE  Api!Flush(h) /\ Whole(fs')
<1>1. PICK o \in FlushCache(fs, h) :
        fs' = o.fs /\ IF o.ok THEN Returns("fflush", TRUE, 0, <<>>) ELSE Fails("fflush")
  BY DEF SPIFFS_fflush
<1>2. fs.fd[h].open BY DEF SPIFFS_fflush
<1> DEFINE t == o.fs
<1>3. /\ o.ok /\ fs.fd[h].id # NoId /\ Whole(t) /\ FilesBack(fs, t, fs.fd[h].id)
      /\ Handles(t) = Handles(fs)
  BY <1>2, FlushFacts
<1> HIDE DEF t
<1>4. fs' = t /\ Returns("fflush", TRUE, 0, <<>>) BY <1>1, <1>3 DEF t
<1>5. Files(fs)' = Files(t) /\ Handles(fs)' = Handles(t) BY <1>4
<1>6. Api!WrittenBack(h) BY <1>3, <1>5, BackIs
<1>7. Api!Returns("fflush", TRUE, 0, <<>>) BY <1>4 DEF Returns, Api!Returns
<1> QED BY <1>3, <1>4, <1>5, <1>6, <1>7 DEF Api!Flush

(* SPIFFS_fstat reports the size readers see.                              *)
LEMMA StatImplements ==
  ASSUME ~MayFill, Careful, Whole(fs), NEW h \in Fds, SPIFFS_fstat(h)
  PROVE  Api!Stat(h) /\ Whole(fs')
<1>1. PICK o \in FlushCache(fs, h) :
        fs' = o.fs /\ Returns("fstat", TRUE, Len(o.fs.obj[o.fs.fd[h].id].data), <<>>)
  BY DEF SPIFFS_fstat
<1>2. fs.fd[h].open BY DEF SPIFFS_fstat
<1> DEFINE t == o.fs
           i == fs.fd[h].id
<1>3. /\ i \in Ids /\ i # NoId /\ Whole(t) /\ FilesBack(fs, t, i)
      /\ Handles(t) = Handles(fs) /\ t.fd[h].id = i /\ t.obj[i].data = View(t, i)
  BY <1>2, FlushFacts
<1>4. fs' = t /\ Returns("fstat", TRUE, Len(View(t, i)), <<>>) BY <1>1, <1>3
<1> HIDE DEF t, i
<1>5. Files(fs)' = Files(t) /\ Handles(fs)' = Handles(t) BY <1>4
<1>6. Api!WrittenBack(h) BY <1>3, <1>5, BackIs DEF i
<1>7. Handles(fs)[h].id = i /\ Files(t)[i].data = View(t, i)
  <2>1. Handles(fs)[h].id = i BY HandlesAt DEF i
  <2>2. Files(t)[i].data = View(t, i) BY <1>3, FilesAt
  <2> QED BY <2>1, <2>2
<1>8. Api!Returns("fstat", TRUE, Len(View(t, i)), <<>>) /\ ret'.call = "fstat"
  BY <1>4 DEF Returns, Api!Returns
<1>9. Api!Stat(h)
  <2>1. Api!Returns("fstat", TRUE, Len(Files(fs)'[Handles(fs)[h].id].data), <<>>)
    BY <1>5, <1>7, <1>8
  <2> QED BY <1>3, <1>5, <1>6, <1>8, <2>1 DEF Api!Stat
<1> QED BY <1>3, <1>4, <1>9

(* A descriptor is moved, and the work buffer may have been used.          *)
At(H, h, n) == [H EXCEPT ![h].pos = n]
MovedTo(s, h, n)    == [s EXCEPT !.fd[h].off = n]
ReadTo(s, h, n, w)  == [s EXCEPT !.fd[h].off = n, !.work = w]
Standing(s, t, h, n) ==
    /\ t.obj = s.obj /\ t.cp = s.cp /\ Handles(t) = At(Handles(s), h, n)
    /\ \A g \in Fds : /\ t.fd[g].open = s.fd[g].open /\ t.fd[g].id = s.fd[g].id
                      /\ t.fd[g].off = IF g = h THEN n ELSE s.fd[g].off

(* Only the position of one descriptor changes.                            *)
LEMMA PutPos ==
  ASSUME NEW s \in Fs, NEW h \in Fds, NEW n \in Nat, NEW w, NEW t,
         t = MovedTo(s, h, n) \/ t = ReadTo(s, h, n, w)
  PROVE  Standing(s, t, h, n)
<1> DEFINE f == [s.fd[h] EXCEPT !.off = n]
           F == [s.fd EXCEPT ![h] = f]
<1>1. s.fd \in [Fds -> FdRecs] /\ s.fd[h] \in FdRecs BY Parts
<1>2. SameFd(s.fd[h], f) /\ f.off = n BY <1>1, FdFacts
<1>3. t.obj = s.obj /\ t.cp = s.cp /\ t.fd = F BY <1>1 DEF Fs, MovedTo, ReadTo
<1> HIDE DEF f
<1>4. F[h] = f /\ \A g \in Fds \ {h} : F[g] = s.fd[g] BY <1>1
<1> HIDE DEF F
<1>5. \A g \in Fds : /\ t.fd[g].open = s.fd[g].open /\ t.fd[g].id = s.fd[g].id
                     /\ t.fd[g].off = IF g = h THEN n ELSE s.fd[g].off
  BY <1>2, <1>3, <1>4 DEF SameFd
<1>6. Handles(t) = At(Handles(s), h, n)
  <2> DEFINE A == Handles(s)
             H == At(A, h, n)
  <2>1. A = [g \in Fds |-> A[g]] /\ A[h] = [id |-> s.fd[h].id, pos |-> s.fd[h].off]
        /\ \A g \in Fds : A[g] = [id |-> s.fd[g].id, pos |-> s.fd[g].off]
    BY DEF Handles
  <2> HIDE DEF A
  <2>2. [A[h] EXCEPT !.pos = n] = [id |-> s.fd[h].id, pos |-> n] BY <2>1
  <2>3. H = [g \in Fds |-> IF g = h THEN [A[h] EXCEPT !.pos = n] ELSE A[g]] BY <2>1 DEF At
  <2>4. \A g \in Fds : [id |-> t.fd[g].id, pos |-> t.fd[g].off] = H[g]
    BY <1>5, <2>1, <2>2, <2>3
  <2> HIDE DEF H
  <2>5. Handles(t) = [g \in Fds |-> H[g]] BY <2>4 DEF Handles
  <2>6. H = [g \in Fds |-> H[g]] BY <2>3
  <2> QED BY <2>5, <2>6 DEF H, A
<1> QED BY <1>3, <1>5, <1>6 DEF Standing

(* Below the end of the data nothing is unknown.                           *)
LEMMA ReadBelow ==
  ASSUME NEW c \in Seq(Cells), NEW e \in Nat, e <= Len(c), NEW u \in Unsized(e - Len(c)),
         NEW p \in Nat
  PROVE  SubSeq(c \o u, p + 1, e) = SubSeq(c, p + 1, e)
<1>1. Len(c) \in Nat OBVIOUS
<1>3. 1 .. (e - Len(c)) = 1 .. 0 BY <1>1
<1>4. u \in [1 .. 0 -> Cells] BY <1>3 DEF Unsized
<1>5. u \in Seq(Cells) /\ Len(u) = 0 BY <1>4
<1>6. u = <<>> BY <1>5
<1>7. c \o u = c BY <1>6
<1> QED BY <1>7

(* SPIFFS_read returns what readers see, up to the end of the file.        *)
LEMMA ReadImplements ==
  ASSUME ~MayFill, Careful, Whole(fs), NEW h \in Fds, NEW len \in Lens, SPIFFS_read(h, len)
  PROVE  Api!Read(h, len) /\ Whole(fs')
<1>1. PICK o \in FlushCache(fs, h) :
         LET f    == o.fs.fd[h]
             data == o.fs.obj[f.id].data
             end  == IF f.off + len >= f.size THEN f.size ELSE f.off + len
         IN  IF f.size = Undef \/ f.off >= f.size
             THEN fs' = [o.fs EXCEPT !.work = IF f.size = Undef THEN Header(o.fs.obj[f.id])
                                              ELSE @] /\ Fails("read")
             ELSE \/ /\ fs' = [o.fs EXCEPT !.fd[h].off = end, !.work = Header(o.fs.obj[f.id])]
                     /\ \E u \in Unsized(end - Len(data)) :
                          Returns("read", TRUE, end - f.off, SubSeq(data \o u, f.off + 1, end))
                  \/ end > Len(data)
  BY Zenon DEF SPIFFS_read
<1>2. fs.fd[h].open BY DEF SPIFFS_read
<1> DEFINE t == o.fs
           i == fs.fd[h].id
           c == View(t, i)
           p == fs.fd[h].off
           n == t.fd[h].size
           q == IF p + len > Len(c) THEN Len(c) ELSE p + len
           e == IF p + len >= n THEN n ELSE p + len
           w == Header(t.obj[i])
           v == IF n = Undef THEN w ELSE t.work
<1>3. /\ i \in Ids /\ i # NoId /\ Whole(t) /\ FilesBack(fs, t, i)
      /\ Handles(t) = Handles(fs) /\ t.fd[h].open /\ t.fd[h].id = i /\ t.fd[h].off = p
      /\ t.obj[i].data = c /\ c \in Seq(Cells) /\ p \in Nat
      /\ (n = Undef /\ Len(c) = 0) \/ n = Len(c)
  BY <1>2, FlushFacts
<1>4. IF n = Undef \/ p >= n
      THEN fs' = [t EXCEPT !.work = v] /\ Fails("read")
      ELSE \/ /\ fs' = [t EXCEPT !.fd[h].off = e, !.work = w]
              /\ \E u \in Unsized(e - Len(c)) :
                   Returns("read", TRUE, e - p, SubSeq(c \o u, p + 1, e))
           \/ e > Len(c)
  BY <1>1, <1>3
<1>5. Good(fs') /\ Cached(fs') BY ReadKeeps DEF Invariant, Whole
<1>6. t \in Fs /\ len \in Nat BY <1>3, CallsAssumption DEF Whole, Good
<1> HIDE DEF t, i, c, p, n, w, v
<1>7. Len(c) \in Nat BY <1>3
<1>8. Handles(fs)[h].id = i /\ Handles(fs)[h].pos = p /\ Files(t)[i].data = c
  <2>1. Handles(fs)[h].id = i /\ Handles(fs)[h].pos = p BY HandlesAt DEF i, p
  <2>2. Files(t)[i].data = c BY <1>3, FilesAt, ZenonT(60) DEF c
  <2> QED BY <2>1, <2>2
<1>9. CASE p >= Len(c)
  <2>1. n = Undef \/ p >= n BY <1>3, <1>9
  <2>2. fs' = [t EXCEPT !.work = v] /\ Fails("read") BY <1>4, <2>1
  <2>3. fs'.obj = t.obj /\ fs'.cp = t.cp /\ fs'.fd = t.fd BY <1>6, <2>2 DEF Fs
  <2>4. Files(fs') = Files(t) BY <2>3, SameFiles
  <2>5. Files(fs)' = Files(t) /\ Handles(fs)' = Handles(fs) BY <1>3, <2>3, <2>4 DEF Handles
  <2>6. Whole(fs')
    <3>1. Reset(fs') /\ \A g \in Fds : fs'.fd[g].open => fs'.fd[g].off <= Len(View(t, fs'.fd[g].id))
      BY <1>3, <2>3 DEF Whole, Tidy, Reset, Inside
    <3> QED BY <1>3, <1>5, <2>3, <3>1, SameWhole
  <2>7. Api!WrittenBack(h) /\ Api!IsOpen(h) BY <1>3, <2>5, BackIs DEF Api!WrittenBack, i
  <2>8. Api!Fails("read") /\ ret'.call = "read"
    BY <2>2 DEF Fails, Returns, Api!Fails, Api!Returns
  <2>9. Files(fs)'[Handles(fs)[h].id].data = c BY <1>8, <2>5
  <2>10. Handles(fs)[h].pos >= Len(Files(fs)'[Handles(fs)[h].id].data) BY <1>8, <1>9, <2>9
  <2> QED BY <2>5, <2>6, <2>7, <2>8, <2>10 DEF Api!Read
<1>10. CASE ~(p >= Len(c))
  <2>1. n = Len(c) /\ ~(p >= n) /\ n # Undef BY <1>3, <1>7, <1>10 DEF Undef
  <2>2. e = q /\ e \in Nat /\ e <= Len(c) BY <1>3, <1>6, <1>7, <1>10, <2>1
  <2> HIDE DEF e, q
  <2>b. ~(e > Len(c)) BY <1>7, <2>2
  <2>3. fs' = [t EXCEPT !.fd[h].off = e, !.work = w]
        /\ Returns("read", TRUE, e - p, SubSeq(c, p + 1, e))
    <3>1. fs' = [t EXCEPT !.fd[h].off = e, !.work = w] BY <1>4, <2>1, <2>b
    <3>2. PICK u \in Unsized(e - Len(c)) : Returns("read", TRUE, e - p, SubSeq(c \o u, p + 1, e))
      BY <1>4, <2>1, <2>b
    <3>3. SubSeq(c \o u, p + 1, e) = SubSeq(c, p + 1, e)
      BY <1>3, <1>7, <1>10, <2>2, <3>2, ReadBelow
    <3> QED BY <3>1, <3>2, <3>3
  <2>4. /\ fs'.obj = t.obj /\ fs'.cp = t.cp /\ Handles(fs') = At(Handles(t), h, e)
        /\ \A g \in Fds : /\ fs'.fd[g].open = t.fd[g].open /\ fs'.fd[g].id = t.fd[g].id
                          /\ fs'.fd[g].off = IF g = h THEN e ELSE t.fd[g].off
    <3>1. fs' = ReadTo(t, h, e, w) BY <2>3 DEF ReadTo
    <3>2. Standing(t, fs', h, e) BY <1>6, <2>2, <3>1, PutPos
    <3> QED BY <3>2 DEF Standing
  <2>5. Files(fs') = Files(t) BY <2>4, SameFiles
  <2>6. Files(fs)' = Files(t) /\ Handles(fs)' = At(Handles(fs), h, q) BY <1>3, <2>2, <2>4, <2>5
  <2>7. Whole(fs')
    <3>1. Reset(fs') BY <1>3, <2>4 DEF Whole, Tidy, Reset
    <3>2. \A g \in Fds : fs'.fd[g].open => fs'.fd[g].off <= Len(View(t, fs'.fd[g].id))
      <4>1. \A g \in Fds : t.fd[g].open => t.fd[g].off <= Len(View(t, t.fd[g].id))
        BY <1>3 DEF Whole, Tidy, Inside
      <4>2. e <= Len(View(t, t.fd[h].id)) BY <1>3, <2>2 DEF c
      <4> QED BY <2>4, <4>1, <4>2
    <3> QED BY <1>3, <1>5, <2>4, <3>1, <3>2, SameWhole
  <2>8. Api!WrittenBack(h) /\ Api!IsOpen(h) BY <1>3, <2>6, BackIs DEF Api!WrittenBack, i
  <2>9. Api!Returns("read", TRUE, q - p, SubSeq(c, p + 1, q)) /\ ret'.call = "read"
    BY <2>2, <2>3 DEF Returns, Api!Returns
  <2>10. Files(fs)'[Handles(fs)[h].id].data = c BY <1>8, <2>6
  <2>11. Api!Read(h, len)
    BY <1>8, <1>10, <2>6, <2>8, <2>9, <2>10 DEF Api!Read, At, q
  <2> QED BY <2>7, <2>11
<1> QED BY <1>9, <1>10, SMTT(60)

(* SPIFFS_lseek moves within the file, and refuses to leave it.            *)
LEMMA SeekImplements ==
  ASSUME ~MayFill, Careful, Whole(fs), NEW h \in Fds, NEW offs \in 0 .. MaxLen,
         SPIFFS_lseek(h, offs)
  PROVE  Api!Seek(h, offs) /\ Whole(fs')
<1>1. PICK o \in FlushCache(fs, h) :
         LET size == o.fs.fd[h].size
             len  == Len(o.fs.obj[o.fs.fd[h].id].data)
         IN  \/ /\ offs > size \/ offs > len \/ (offs = len /\ offs \in IxStarts)
                /\ fs' = o.fs /\ Fails("lseek")
             \/ /\ offs <= size
                /\ fs' = [o.fs EXCEPT !.fd[h].off = offs]
                /\ Returns("lseek", TRUE, offs, <<>>)
  BY DEF SPIFFS_lseek
<1>2. fs.fd[h].open BY DEF SPIFFS_lseek
<1> DEFINE t == o.fs
           i == fs.fd[h].id
           c == View(t, i)
           n == t.fd[h].size
<1>3. /\ i \in Ids /\ i # NoId /\ Whole(t) /\ FilesBack(fs, t, i)
      /\ Handles(t) = Handles(fs) /\ t.fd[h].open /\ t.fd[h].id = i
      /\ t.obj[i].data = c /\ c \in Seq(Cells)
      /\ (n = Undef /\ Len(c) = 0) \/ n = Len(c)
  BY <1>2, FlushFacts
<1>4. \/ (offs > n \/ offs > Len(c) \/ offs = Len(c)) /\ fs' = t /\ Fails("lseek")
      \/ offs <= n /\ fs' = MovedTo(t, h, offs) /\ Returns("lseek", TRUE, offs, <<>>)
  BY <1>1, <1>3 DEF MovedTo
<1>5. Good(fs') /\ Cached(fs') BY LseekKeeps DEF Invariant, Whole
<1>6. t \in Fs /\ offs \in Nat BY <1>3, SizesAssumption DEF Whole, Good
<1> HIDE DEF t, i, c, n
<1>7. Len(c) \in Nat BY <1>3
<1>8. Handles(fs)[h].id = i /\ Files(t)[i].data = c
  <2>1. Handles(fs)[h].id = i BY HandlesAt DEF i
  <2>2. Files(t)[i].data = c BY <1>3, FilesAt DEF c
  <2> QED BY <2>1, <2>2
<1>9. CASE (offs > n \/ offs > Len(c) \/ offs = Len(c)) /\ fs' = t /\ Fails("lseek")
  <2>1. fs' = t /\ Fails("lseek") BY <1>9
  <2>2. Files(fs)' = Files(t) /\ Handles(fs)' = Handles(fs) BY <1>3, <2>1
  <2>3. Api!WrittenBack(h) /\ Api!IsOpen(h) BY <1>3, <2>2, BackIs DEF Api!WrittenBack, i
  <2>4. Api!Fails("lseek") /\ ret'.ok = FALSE
    BY <2>1 DEF Fails, Returns, Api!Fails, Api!Returns
  <2>5. Files(fs)'[Handles(fs)[h].id].data = c BY <1>8, <2>2
  <2>6. offs >= Len(c) BY <1>3, <1>6, <1>7, <1>9
  <2>7. Api!Seek(h, offs) BY <2>2, <2>3, <2>4, <2>5, <2>6 DEF Api!Seek
  <2> QED BY <1>3, <2>1, <2>7
<1>10. CASE offs <= n /\ fs' = MovedTo(t, h, offs) /\ Returns("lseek", TRUE, offs, <<>>)
  <2>1. offs <= Len(c) BY <1>3, <1>6, <1>7, <1>10 DEF Undef
  <2>2. fs' = MovedTo(t, h, offs) /\ Returns("lseek", TRUE, offs, <<>>) BY <1>10
  <2>3. Standing(t, fs', h, offs) BY <1>6, <2>2, PutPos
  <2>4. /\ fs'.obj = t.obj /\ fs'.cp = t.cp /\ Handles(fs') = At(Handles(t), h, offs)
        /\ \A g \in Fds : /\ fs'.fd[g].open = t.fd[g].open /\ fs'.fd[g].id = t.fd[g].id
                          /\ fs'.fd[g].off = IF g = h THEN offs ELSE t.fd[g].off
    BY <2>3 DEF Standing
  <2>5. Files(fs') = Files(t) BY <2>4, SameFiles
  <2>6. Files(fs)' = Files(t) /\ Handles(fs)' = At(Handles(fs), h, offs) BY <1>3, <2>4, <2>5
  <2>7. Whole(fs')
    <3>1. Reset(fs') BY <1>3, <2>4 DEF Whole, Tidy, Reset
    <3>2. \A g \in Fds : fs'.fd[g].open => fs'.fd[g].off <= Len(View(t, fs'.fd[g].id))
      <4>1. \A g \in Fds : t.fd[g].open => t.fd[g].off <= Len(View(t, t.fd[g].id))
        BY <1>3 DEF Whole, Tidy, Inside
      <4>2. offs <= Len(View(t, t.fd[h].id)) BY <1>3, <2>1 DEF c
      <4> QED BY <2>4, <4>1, <4>2
    <3> QED BY <1>3, <1>5, <2>4, <3>1, <3>2, SameWhole
  <2>8. Api!WrittenBack(h) /\ Api!IsOpen(h) BY <1>3, <2>6, BackIs DEF Api!WrittenBack, i
  <2>9. Api!Returns("lseek", TRUE, offs, <<>>) /\ ret'.ok = TRUE
    BY <2>2 DEF Returns, Api!Returns
  <2>10. Files(fs)'[Handles(fs)[h].id].data = c BY <1>8, <2>6
  <2>11. Api!Seek(h, offs) BY <2>1, <2>6, <2>8, <2>9, <2>10 DEF Api!Seek, At
  <2> QED BY <2>7, <2>11
<1> QED BY <1>4, <1>9, <1>10

(* One slot is opened or closed.                                           *)
Slot(H, h, i) == [H EXCEPT ![h] = [id |-> i, pos |-> 0]]

SlotIs(s, t, h, i) ==
    /\ t.fd[h].id = i /\ t.fd[h].off = 0
    /\ \A g \in Fds \ {h} : t.fd[g].id = s.fd[g].id /\ t.fd[g].off = s.fd[g].off

(* Only that slot changes.                                                 *)
LEMMA SlotHandles ==
  ASSUME NEW s, NEW t, NEW h \in Fds, NEW i, SlotIs(s, t, h, i)
  PROVE  Handles(t) = Slot(Handles(s), h, i)
<1> DEFINE A == Handles(s)
           H == Slot(A, h, i)
<1>1. A = [g \in Fds |-> A[g]]
      /\ \A g \in Fds : A[g] = [id |-> s.fd[g].id, pos |-> s.fd[g].off]
  BY DEF Handles
<1> HIDE DEF A
<1>2. H = [g \in Fds |-> IF g = h THEN [id |-> i, pos |-> 0] ELSE A[g]] BY <1>1 DEF Slot
<1>3. \A g \in Fds : [id |-> t.fd[g].id, pos |-> t.fd[g].off] = H[g] BY <1>1, <1>2 DEF SlotIs
<1> HIDE DEF H
<1>4. Handles(t) = [g \in Fds |-> H[g]] BY <1>3 DEF Handles
<1>5. H = [g \in Fds |-> H[g]] BY <1>2
<1> QED BY <1>4, <1>5 DEF H, A

(* spiffs_fd_return clears all but cache_page.                             *)
Shut(s, t, h) ==
    /\ t.obj = s.obj /\ t.cp = s.cp /\ Handles(t) = Slot(Handles(s), h, NoId)
    /\ t.fd[h].open = FALSE /\ t.fd[h].id = NoId /\ t.fd[h].off = 0
    /\ \A g \in Fds \ {h} : t.fd[g] = s.fd[g]

(* No object and no page changes.                                          *)
LEMMA CloseFdIs ==
  ASSUME NEW s \in Fs, NEW h \in Fds
  PROVE  Shut(s, CloseFd(s, h), h)
<1> DEFINE f == ClosedFd(s.fd[h].cp)
           t == CloseFd(s, h)
<1>1. s.fd[h] \in FdRecs BY Parts
<1>2. f \in FdRecs /\ f.open = FALSE /\ f.id = NoId /\ f.off = 0
  BY <1>1, FdFacts, ClosedFdFacts DEF ClosedFd
<1>3. t = [s EXCEPT !.fd[h] = f] BY DEF CloseFd
<1> HIDE DEF f, t
<1>4. /\ t.obj = s.obj /\ t.cp = s.cp
      /\ t.fd[h] = f /\ \A g \in Fds \ {h} : t.fd[g] = s.fd[g]
  BY <1>2, <1>3, PutOneFd
<1>5. t.fd[h].open = FALSE /\ t.fd[h].id = NoId /\ t.fd[h].off = 0 BY <1>2, <1>4
<1>6. SlotIs(s, t, h, NoId) BY <1>4, <1>5 DEF SlotIs
<1>7. Handles(t) = Slot(Handles(s), h, NoId) BY <1>6, SlotHandles
<1> QED BY <1>4, <1>5, <1>7 DEF t, Shut

(* A descriptor that is flushed and closed.                                *)
LEMMA ShutWhole ==
  ASSUME NEW s, Whole(s), NEW t, Good(t), Cached(t), NEW h \in Fds, Shut(s, t, h)
  PROVE  Whole(t) /\ Files(t) = Files(s) /\ \A j : View(t, j) = View(s, j)
<1>1. t.obj = s.obj /\ t.cp = s.cp BY DEF Shut
<1>2. Reset(t) BY DEF Shut, Whole, Tidy, Reset
<1>3. \A g \in Fds : t.fd[g].open => t.fd[g].off <= Len(View(s, t.fd[g].id))
  BY DEF Shut, Whole, Tidy, Inside
<1>4. Whole(t) BY <1>1, <1>2, <1>3, SameWhole
<1>5. Files(t) = Files(s) /\ \A j : View(t, j) = View(s, j) BY <1>1, SameFiles
<1> QED BY <1>4, <1>5

(* SPIFFS_close leaves nothing unsaved.                                    *)
LEMMA CloseImplements ==
  ASSUME ~MayFill, Careful, Whole(fs), NEW h \in Fds, SPIFFS_close(h)
  PROVE  Api!Close(h) /\ Whole(fs')
<1>1. PICK o \in FlushCache(fs, h) : fs' = CloseFd(o.fs, h) BY DEF SPIFFS_close
<1>2. fs.fd[h].open /\ Returns("close", TRUE, 0, <<>>) BY DEF SPIFFS_close
<1> DEFINE t == o.fs
           i == fs.fd[h].id
<1>3. i \in Ids /\ i # NoId /\ Whole(t) /\ FilesBack(fs, t, i) /\ Handles(t) = Handles(fs)
  BY <1>2, FlushFacts
<1>4. Good(fs') /\ Cached(fs') BY CloseKeeps DEF Invariant, Whole
<1>5. t \in Fs BY <1>3 DEF Whole, Good
<1>6. Shut(t, fs', h) BY <1>1, <1>5, CloseFdIs
<1> HIDE DEF t, i
<1>7. Whole(fs') /\ Files(fs') = Files(t) BY <1>3, <1>4, <1>6, ShutWhole
<1>8. Files(fs)' = Files(t) /\ Handles(fs)' = Slot(Handles(fs), h, NoId)
  BY <1>3, <1>6, <1>7 DEF Shut
<1>9. Api!WrittenBack(h) BY <1>3, <1>8, BackIs DEF i
<1>10. Api!Returns("close", TRUE, 0, <<>>) BY <1>2 DEF Returns, Api!Returns
<1>11. Api!Close(h) BY <1>8, <1>9, <1>10 DEF Api!Close, Api!Closed, Slot
<1> QED BY <1>7, <1>11
-----------------------------------------------------------------------------
(* The calls that make, empty and remove files.  One file is replaced.     *)
Filed(F, i, n, d) == [F EXCEPT ![i] = [name |-> n, data |-> d, safe |-> d]]

(* Only that file changes, and nothing of it is cached.                    *)
LEMMA FiledIs ==
  ASSUME NEW s, NEW t, NEW i \in Ids, Only(s, t, i), NoPageOf(t, i)
  PROVE  Files(t) = Filed(Files(s), i, t.obj[i].name, t.obj[i].data)
<1> DEFINE A == Files(s)
           F == Filed(A, i, t.obj[i].name, t.obj[i].data)
           r(u, j) == [name |-> u.obj[j].name, data |-> View(u, j), safe |-> u.obj[j].data]
<1>1. A = [j \in Ids |-> A[j]] /\ \A j \in Ids : A[j] = r(s, j) BY DEF Files
<1>2. View(t, i) = t.obj[i].data BY ViewFlash
<1>3. \A j \in Ids \ {i} : t.obj[j] = s.obj[j] /\ View(t, j) = View(s, j)
  <2>1. \A j \in Ids \ {i} : View(t, j) = View(s, j) BY OnlyView
  <2> QED BY <2>1 DEF Only
<1> HIDE DEF A
<1>4. F = [j \in Ids |-> IF j = i THEN [name |-> t.obj[i].name, data |-> t.obj[i].data,
                                       safe |-> t.obj[i].data] ELSE A[j]]
  BY <1>1 DEF Filed
<1>5. ASSUME NEW j \in Ids PROVE r(t, j) = F[j]
  <2>1. CASE j = i BY <1>2, <1>4, <2>1
  <2>2. CASE j # i BY <1>1, <1>3, <1>4, <2>2
  <2> QED BY <2>1, <2>2
<1>6. Files(t) = [j \in Ids |-> r(t, j)] BY DEF Files
<1> HIDE DEF F, r
<1>7. Files(t) = [j \in Ids |-> F[j]] BY <1>5, <1>6
<1>8. F = [j \in Ids |-> F[j]] BY <1>4
<1> QED BY <1>7, <1>8 DEF F, A

(* The replaced file has nothing cached; every other descriptor stays.     *)
LEMMA FiledWhole ==
  ASSUME NEW s, Whole(s), NEW t, Good(t), Cached(t), NEW i \in Ids, Only(s, t, i),
         NoPageOf(t, i), t.obj[i].live <=> t.obj[i].name # NoName, Reset(t),
         \A g \in Fds : t.fd[g].open =>
            \/ t.fd[g].id = i /\ t.fd[g].off = 0
            \/ /\ t.fd[g].id # i /\ s.fd[g].open
               /\ s.fd[g].id = t.fd[g].id /\ s.fd[g].off = t.fd[g].off
  PROVE  Whole(t) /\ Files(t) = Filed(Files(s), i, t.obj[i].name, t.obj[i].data)
<1>1. Files(t) = Filed(Files(s), i, t.obj[i].name, t.obj[i].data) BY FiledIs
<1>2. Live(t) BY DEF Only, Whole, Tidy, Live
<1>3. Placed(t)
  <2> SUFFICES ASSUME NEW p \in CPages, t.cp[p].id # NoId
               PROVE  t.cp[p].off <= Len(t.obj[t.cp[p].id].data)
    BY DEF Placed
  <2> DEFINE j == t.cp[p].id
  <2>1. j \in Ids \ {i}
    <3>1. t \in Fs BY DEF Good
    <3>2. t.cp[p] \in CpRecs BY <3>1, Parts
    <3>3. j \in Ids BY <3>2 DEF CpRecs
    <3>4. j # i BY DEF NoPageOf
    <3> QED BY <3>3, <3>4
  <2>2. p \in PagesOf(t, j) BY DEF PagesOf
  <2>3. /\ PagesOf(t, j) = PagesOf(s, j) /\ \A q \in PagesOf(s, j) : t.cp[q] = s.cp[q]
        /\ t.obj[j] = s.obj[j]
    BY <2>1 DEF Only
  <2>4. t.cp[p] = s.cp[p] BY <2>2, <2>3
  <2> QED BY <2>3, <2>4 DEF Whole, Tidy, Placed
<1>4. Inside(t)
  <2> SUFFICES ASSUME NEW h \in Fds, t.fd[h].open
               PROVE  t.fd[h].off <= Len(View(t, t.fd[h].id))
    BY DEF Inside
  <2>1. CASE t.fd[h].id = i /\ t.fd[h].off = 0
    <3>1. View(t, i) = t.obj[i].data BY ViewFlash
    <3>2. t.obj[i] \in Objs BY Parts DEF Good
    <3>3. t.obj[i].data \in Seq(Cells) BY <3>2, ObjFacts
    <3>4. Len(t.obj[i].data) \in Nat BY <3>3
    <3> QED BY <2>1, <3>1, <3>4
  <2>2. CASE /\ t.fd[h].id # i /\ s.fd[h].open
             /\ s.fd[h].id = t.fd[h].id /\ s.fd[h].off = t.fd[h].off
    <3>1. t.fd[h].id \in Ids \ {i} BY <2>2 DEF Good, Opened
    <3>2. View(t, t.fd[h].id) = View(s, t.fd[h].id) BY <3>1, OnlyView
    <3>3. s.fd[h].off <= Len(View(s, s.fd[h].id)) BY <2>2 DEF Whole, Tidy, Inside
    <3> QED BY <2>2, <3>2, <3>3
  <2> QED BY <2>1, <2>2
<1> QED BY <1>1, <1>2, <1>3, <1>4 DEF Whole, Tidy

(* A name finds the file that has it.                                      *)
LEMMA NamedIs ==
  ASSUME Whole(fs), NEW n \in Names
  PROVE  Api!Named(n) = FindByName(fs, n)
<1>1. \A i \in Ids : Files(fs)[i].name = fs.obj[i].name BY FilesAt
<1>2. n # NoName BY NamesAssumption
<1>3. \A i \in Ids : fs.obj[i].name = n => fs.obj[i].live BY <1>2 DEF Whole, Tidy, Live
<1> QED BY <1>1, <1>3 DEF Api!Named, FindByName

(* A free id has no object, no descriptor and no page.                     *)
LEMMA FreeFile ==
  ASSUME NEW s, Whole(s), NEW i \in FreeIds(s)
  PROVE  /\ i \in Ids /\ s.obj[i] = NoObj /\ NoPageOf(s, i) /\ Files(s)[i] = Api!NoFile
         /\ \A g \in Fds : s.fd[g].open => s.fd[g].id # i
<1>1. i \in Ids /\ s.obj[i] = NoObj BY DEF FreeIds
<1>2. s.obj[i].name = NoName /\ s.obj[i].data = <<>> BY <1>1 DEF NoObj
<1>3. \A g \in Fds : s.fd[g].open => s.fd[g].id # i BY <1>2 DEF Whole, Cached, Named
<1>4. NoPageOf(s, i) BY <1>1, <1>3, NamesAssumption DEF NoPageOf, Whole, Cached, InUse
<1>5. View(s, i) = <<>> BY <1>2, <1>4, ViewFlash
<1>6. Files(s)[i] = [name |-> NoName, data |-> <<>>, safe |-> <<>>] BY <1>1, <1>2, <1>5, FilesAt
<1> QED BY <1>1, <1>3, <1>4, <1>6 DEF Api!NoFile

(* spiffs_object_create makes an empty file.                               *)
LEMMA CreatedIs ==
  ASSUME NEW s, Whole(s), NEW i \in FreeIds(s), NEW n \in Names
  PROVE  LET t == Created(s, i, n)
         IN  /\ Whole(t) /\ Files(t) = Filed(Files(s), i, n, <<>>) /\ t.fd = s.fd
             /\ Handles(t) = Handles(s)
<1> DEFINE o == [name |-> n, data |-> <<>>, live |-> TRUE]
           O == [s.obj EXCEPT ![i] = o]
           t == Created(s, i, n)
<1>1. /\ i \in Ids /\ NoPageOf(s, i) /\ Good(s) /\ Cached(s)
      /\ \A g \in Fds : s.fd[g].open => s.fd[g].id # i
  BY FreeFile DEF Whole
<1>2. Good(t) /\ Cached(t) /\ t.fd = s.fd /\ t.cp = s.cp BY <1>1, CreatedGood
<1>3. s \in Fs /\ s.obj \in [Ids -> Objs] BY <1>1, Parts DEF Good
<1>4. t.obj = O BY <1>1, <1>3 DEF Created, Fs
<1>5. o.name = n /\ o.data = <<>> /\ o.live = TRUE OBVIOUS
<1> HIDE DEF t, o
<1>6. t.obj[i] = o /\ \A j \in Ids \ {i} : t.obj[j] = s.obj[j] BY <1>1, <1>3, <1>4
<1>7. Only(s, t, i) BY <1>1, <1>2, <1>6, OnlyObj
<1>8. NoPageOf(t, i) BY <1>1, <1>2 DEF NoPageOf
<1>9. t.obj[i].live <=> t.obj[i].name # NoName BY <1>5, <1>6, NamesAssumption
<1>10. Reset(t) BY <1>2 DEF Whole, Tidy, Reset
<1>11. \A g \in Fds : t.fd[g].open =>
            \/ t.fd[g].id = i /\ t.fd[g].off = 0
            \/ /\ t.fd[g].id # i /\ s.fd[g].open
               /\ s.fd[g].id = t.fd[g].id /\ s.fd[g].off = t.fd[g].off
  BY <1>1, <1>2
<1>12. Whole(t) /\ Files(t) = Filed(Files(s), i, t.obj[i].name, t.obj[i].data)
  BY <1>1, <1>2, <1>7, <1>8, <1>9, <1>10, <1>11, FiledWhole
<1>13. Files(t) = Filed(Files(s), i, n, <<>>) BY <1>5, <1>6, <1>12
<1>14. Handles(t) = Handles(s) BY <1>2 DEF Handles
<1> QED BY <1>2, <1>12, <1>13, <1>14 DEF t

(* SPIFFS_creat.                                                           *)
LEMMA CreateImplements ==
  ASSUME ~MayFill, Careful, Whole(fs), NEW n \in Names, SPIFFS_creat(n)
  PROVE  Api!Create(n) /\ Whole(fs')
<1>1. PICK i \in FreeIds(fs) : fs' = Created(fs, i, n) /\ Returns("creat", TRUE, 0, <<>>)
  BY DEF SPIFFS_creat
<1>2. FindByName(fs, n) = {} BY DEF SPIFFS_creat
<1> DEFINE t == Created(fs, i, n)
<1>3. Whole(t) /\ Files(t) = Filed(Files(fs), i, n, <<>>) /\ Handles(t) = Handles(fs)
  BY CreatedIs
<1>4. i \in Ids /\ Files(fs)[i] = Api!NoFile BY FreeFile
<1>5. fs' = t BY <1>1
<1> HIDE DEF t
<1>6. Files(fs)' = Filed(Files(fs), i, n, <<>>) /\ Handles(fs)' = Handles(fs) BY <1>3, <1>5
<1>7. Filed(Files(fs), i, n, <<>>) = [Files(fs) EXCEPT ![i].name = n]
  <2> DEFINE F == Files(fs)
  <2>1. F[i] = [name |-> NoName, data |-> <<>>, safe |-> <<>>] BY <1>4 DEF Api!NoFile
  <2>2. [F[i] EXCEPT !.name = n] = [name |-> n, data |-> <<>>, safe |-> <<>>] BY <2>1
  <2> HIDE DEF F
  <2>3. [F EXCEPT ![i].name = n] = [F EXCEPT ![i] = [F[i] EXCEPT !.name = n]] OBVIOUS
  <2> QED BY <2>2, <2>3 DEF F, Filed
<1>8. Api!Named(n) = {} BY <1>2, NamedIs
<1>9. Api!Returns("creat", TRUE, 0, <<>>) BY <1>1 DEF Returns, Api!Returns
<1>10. Api!Create(n) BY <1>4, <1>6, <1>7, <1>8, <1>9 DEF Api!Create
<1> QED BY <1>3, <1>5, <1>10

(* spiffs_object_open_by_page puts a descriptor at the beginning.          *)
LEMMA OpenFdIs ==
  ASSUME NEW s, Whole(s), NEW h \in Fds, ~s.fd[h].open, NEW i \in Ids, NEW flags \in SUBSET Flags,
         NEW t, t = OpenFd(s, h, i, flags)
  PROVE  /\ t.obj = s.obj /\ t.cp = s.cp /\ SlotIs(s, t, h, i)
         /\ Handles(t) = Slot(Handles(s), h, i) /\ Files(t) = Files(s)
         /\ t.fd[h].open /\ t.fd[h].id = i /\ t.fd[h].off = 0
         /\ \A g \in Fds \ {h} : t.fd[g] = s.fd[g]
         /\ Reset(t) /\ (Cached(t) => Whole(t))
<1>1. Good(s) BY DEF Whole
<1>2. /\ Good(t) /\ t.obj = s.obj /\ t.cp = s.cp
      /\ t.fd[h].open /\ t.fd[h].id = i
      /\ \A g \in Fds \ {h} : t.fd[g] = s.fd[g]
  BY <1>1, OpenFdGood
<1>3. t.fd[h].off = 0
  <2> DEFINE f == [open |-> TRUE, id |-> i, size |-> HdrSize(s.obj[i]), off |-> 0,
                   flags |-> flags, cp |-> s.fd[h].cp]
  <2>1. s.fd \in [Fds -> FdRecs] /\ s \in Fs BY <1>1, Parts DEF Good
  <2>2. f.off = 0 /\ t = [s EXCEPT !.fd[h] = f] BY DEF OpenFd
  <2> HIDE DEF f
  <2>3. t.fd[h] = f BY <2>1, <2>2 DEF Fs
  <2> QED BY <2>2, <2>3
<1>4. SlotIs(s, t, h, i) BY <1>2, <1>3 DEF SlotIs
<1>5. Handles(t) = Slot(Handles(s), h, i) BY <1>4, SlotHandles
<1>6. Files(t) = Files(s) BY <1>2, SameFiles
<1>7. Reset(t) BY <1>2 DEF Whole, Tidy, Reset
<1>8. ASSUME Cached(t) PROVE Whole(t)
  <2>1. View(s, i) \in Seq(Cells) /\ Len(View(s, i)) \in Nat
    BY ViewType DEF Whole, Tidy, Cached
  <2>2. \A g \in Fds : t.fd[g].open => t.fd[g].off <= Len(View(s, t.fd[g].id))
    BY <1>2, <1>3, <2>1 DEF Whole, Tidy, Inside
  <2> QED BY <1>2, <1>7, <1>8, <2>2, SameWhole
<1> QED BY <1>2, <1>3, <1>4, <1>5, <1>6, <1>7, <1>8

(* SPIFFS_open of a new file.                                              *)
LEMMA OpenNewImplements ==
  ASSUME ~MayFill, Careful, Whole(fs), NEW n \in Names, NEW flags \in Modes,
         NEW trunc \in BOOLEAN, OpenNew(n, flags)
  PROVE  (\E h \in Fds : Api!Open(h, n, trunc)) /\ Whole(fs')
<1>1. PICK h \in FindNew(fs), i \in FreeIds(fs) :
         fs' = OpenFd(Created(fs, i, n), h, i, flags) /\ Returns("open", TRUE, h, <<>>)
  BY DEF OpenNew
<1>2. FindByName(fs, n) = {} BY DEF OpenNew
<1>3. h \in Fds /\ ~fs.fd[h].open /\ flags \in SUBSET Flags BY FindNewClosed, FlagsAssumption
<1>4. i \in Ids /\ Files(fs)[i] = Api!NoFile BY FreeFile
<1> DEFINE s == Created(fs, i, n)
<1>5. /\ Whole(s) /\ Files(s) = Filed(Files(fs), i, n, <<>>) /\ s.fd = fs.fd
      /\ Handles(s) = Handles(fs)
  BY CreatedIs
<1>6. Good(fs') /\ Cached(fs') BY OpenNewKeeps DEF Invariant, Whole
<1>7. fs' = OpenFd(s, h, i, flags) BY <1>1
<1> HIDE DEF s
<1>8. /\ Handles(fs') = Slot(Handles(s), h, i) /\ Files(fs') = Files(s)
      /\ (Cached(fs') => Whole(fs'))
  BY <1>3, <1>4, <1>5, <1>7, OpenFdIs
<1>9. Files(fs)' = Filed(Files(fs), i, n, <<>>) /\ Handles(fs)' = Slot(Handles(fs), h, i)
  BY <1>5, <1>8
<1>10. Api!Named(n) = {} BY <1>2, NamedIs
<1>11. Api!Returns("open", TRUE, h, <<>>) BY <1>1 DEF Returns, Api!Returns
<1>12. ~Api!IsOpen(h)
  <2>1. Handles(fs)[h].id = NoId BY <1>3, HandlesAt DEF Whole, Tidy, Reset
  <2> QED BY <2>1 DEF Api!IsOpen
<1>13. Files(fs)' = [Files(fs) EXCEPT ![i] =
                        IF trunc \/ i \notin Api!Named(n)
                        THEN [name |-> n, data |-> <<>>, safe |-> <<>>] ELSE @]
  BY <1>9, <1>10 DEF Filed
<1>14. Handles(fs)' = [Handles(fs) EXCEPT ![h] = [id |-> i, pos |-> 0]] BY <1>9 DEF Slot
<1>15. Api!Open(h, n, trunc)
  BY <1>4, <1>10, <1>11, <1>12, <1>13, <1>14 DEF Api!Open
<1> QED BY <1>3, <1>6, <1>8, <1>15

(* spiffs_object_truncate to zero, with the object's own header.           *)
LEMMA EmptiedIs ==
  ASSUME NEW s, Good(s), NEW h \in Fds, s.fd[h].open, NEW i, i = s.fd[h].id,
         NEW t, t = Emptied(s, h, Header(s.obj[i]))
  PROVE  /\ Good(t) /\ Same(s, t) /\ \A g \in Fds : t.fd[g].off = s.fd[g].off
         /\ t.obj[i].name = s.obj[i].name /\ t.obj[i].data = <<>>
         /\ t.obj[i].live = s.obj[i].live
         /\ \A j \in Ids \ {i} : t.obj[j] = s.obj[j]
<1> DEFINE hdr == Header(s.obj[i])
           o == [name |-> hdr.name, data |-> <<>>, live |-> hdr.live]
           O == [s.obj EXCEPT ![i] = o]
           u == [s EXCEPT !.obj = O, !.work = hdr]
           v == EventUpd(u, i, Undef)
           f == [v.fd[h] EXCEPT !.size = 0]
<1>1. s \in Fs /\ s.obj \in [Ids -> Objs] /\ i \in Ids BY Parts DEF Good, Opened
<1>2. hdr \in Headers /\ hdr.name = s.obj[i].name /\ hdr.live = s.obj[i].live
  BY <1>1, ObjFacts DEF Header
<1>3. Good(t) /\ Same(s, t) BY <1>2, EmptiedGood
<1> HIDE DEF hdr
<1>4. o \in Objs /\ o.data = <<>> /\ o.name = s.obj[i].name /\ o.live = s.obj[i].live
  <2>1. <<>> \in Seq(Cells) OBVIOUS
  <2> QED BY <1>2, <2>1 DEF Objs, Headers
<1>5. [s EXCEPT !.obj[i] = o, !.work = hdr] = u BY <1>1, SMTT(60) DEF Fs
<1>6. t = [v EXCEPT !.fd[h].size = 0] BY <1>5, Zenon DEF Emptied, hdr
<1> HIDE DEF o
<1>7. O \in [Ids -> Objs] /\ O[i] = o /\ \A j \in Ids \ {i} : O[j] = s.obj[j] BY <1>1, <1>4
<1> HIDE DEF O
<1>8. u \in Fs /\ u.obj = O /\ u.fd = s.fd BY ONLY <1>1, <1>2, <1>7 DEF Fs
<1> HIDE DEF u
<1>9. v \in Fs /\ v.obj = O /\ \A g \in Fds : v.fd[g].off = s.fd[g].off
  BY <1>8, EventUpdFacts DEF Sizes, Undef
<1> HIDE DEF v
<1>10. v.fd[h] \in FdRecs /\ v.fd \in [Fds -> FdRecs] BY <1>9, Parts
<1>11. f \in FdRecs /\ f.off = v.fd[h].off BY <1>10, FdFacts DEF Sizes
<1>12. t = [v EXCEPT !.fd[h] = f] BY <1>6, <1>9, <1>10 DEF Fs
<1> HIDE DEF f
<1>13. t.obj = O /\ t.fd[h] = f /\ \A g \in Fds \ {h} : t.fd[g] = v.fd[g]
  BY <1>9, <1>11, <1>12, PutOneFd
<1>14. \A g \in Fds : t.fd[g].off = s.fd[g].off BY <1>9, <1>11, <1>13
<1> QED BY <1>3, <1>4, <1>7, <1>13, <1>14, Zenon

(* SPIFFS_open of a file that is there, emptied or not.                    *)
LEMMA OpenExistingImplements ==
  ASSUME ~MayFill, Careful, Whole(fs), NEW n \in Names, NEW flags \in Modes,
         NEW trunc \in BOOLEAN, OpenExisting(n, flags, trunc)
  PROVE  (\E h \in Fds : Api!Open(h, n, trunc)) /\ Whole(fs')
<1>1. PICK h \in FindNew(fs), i \in FindByName(fs, n) :
         LET s == OpenFd(fs, h, i, flags) IN
         /\ trunc => MayTruncate(i)
         /\ \E o \in IF trunc THEN Truncate(s, h) ELSE {Outcome(s, TRUE)} :
              \/ o.ok /\ fs' = o.fs /\ Returns("open", TRUE, h, <<>>)
              \/ ~o.ok /\ fs' = CloseFd(o.fs, h) /\ Fails("open")
  BY DEF OpenExisting
<1> DEFINE s == OpenFd(fs, h, i, flags)
<1>2. PICK o \in IF trunc THEN Truncate(s, h) ELSE {Outcome(s, TRUE)} :
              \/ o.ok /\ fs' = o.fs /\ Returns("open", TRUE, h, <<>>)
              \/ ~o.ok /\ fs' = CloseFd(o.fs, h) /\ Fails("open")
  BY <1>1
<1>3. /\ h \in Fds /\ ~fs.fd[h].open /\ flags \in SUBSET Flags
      /\ i \in Ids /\ fs.obj[i].name = n /\ fs.obj[i].live
  BY FindNewClosed, FlagsAssumption DEF FindByName
<1>4. /\ s.obj = fs.obj /\ s.cp = fs.cp /\ SlotIs(fs, s, h, i)
      /\ Handles(s) = Slot(Handles(fs), h, i) /\ Files(s) = Files(fs)
      /\ s.fd[h].open /\ s.fd[h].id = i /\ s.fd[h].off = 0
      /\ \A g \in Fds \ {h} : s.fd[g] = fs.fd[g]
      /\ Reset(s) /\ (Cached(s) => Whole(s))
  BY <1>3, OpenFdIs
<1>5. Good(s) BY <1>3, OpenFdGood DEF Whole
<1>6. Good(fs') /\ Cached(fs') BY OpenExistingKeeps DEF Invariant, Whole
<1> HIDE DEF s
<1>7. i \in Api!Named(n) BY NamedIs
<1>8. ~Api!IsOpen(h)
  <2>1. Handles(fs)[h].id = NoId BY <1>3, HandlesAt DEF Whole, Tidy, Reset
  <2> QED BY <2>1 DEF Api!IsOpen
<1>9. CASE trunc
  <2>1. fs.obj[i].data # <<>> /\ OfObject(fs, i) = {} BY <1>1, <1>9 DEF MayTruncate
  <2> DEFINE t == Emptied(s, h, Header(s.obj[i]))
  <2>2. o = Outcome(t, TRUE)
    <3>1. o \in Truncate(s, h) BY <1>2, <1>9
    <3>2. Truncate(s, h) = {} \cup {Outcome(t, TRUE)} BY <1>4, <2>1 DEF Truncate
    <3> HIDE DEF t
    <3> QED BY <3>1, <3>2
  <2> HIDE DEF t
  <2>3. o.ok /\ o.fs = t BY <2>2 DEF Outcome
  <2>4. fs' = t /\ Returns("open", TRUE, h, <<>>) BY <1>2, <2>3
  <2>5. /\ Same(s, t) /\ \A g \in Fds : t.fd[g].off = s.fd[g].off
        /\ t.obj[i].name = n /\ t.obj[i].data = <<>> /\ t.obj[i].live
        /\ \A j \in Ids \ {i} : t.obj[j] = fs.obj[j]
    BY <1>3, <1>4, <1>5, EmptiedIs DEF t
  <2>6. t.cp = fs.cp /\ \A g \in Fds : t.fd[g].open = s.fd[g].open /\ t.fd[g].id = s.fd[g].id
    BY <1>4, <2>5 DEF Same, SameFd
  <2>7. Only(fs, t, i) BY <1>3, <2>5, <2>6, OnlyObj
  <2>8. \A g \in Fds : fs.fd[g].open => fs.fd[g].id # i BY <2>1 DEF OfObject
  <2>9. NoPageOf(t, i)
    <3>1. NoPageOf(fs, i) BY <1>3, <2>8, NamesAssumption DEF NoPageOf, Whole, Cached, InUse
    <3> QED BY <2>6, <3>1 DEF NoPageOf
  <2>10. Reset(t) BY <1>4, <2>5, <2>6 DEF Reset
  <2>11. \A g \in Fds : t.fd[g].open =>
            \/ t.fd[g].id = i /\ t.fd[g].off = 0
            \/ /\ t.fd[g].id # i /\ fs.fd[g].open
               /\ fs.fd[g].id = t.fd[g].id /\ fs.fd[g].off = t.fd[g].off
    BY <1>4, <2>5, <2>6, <2>8
  <2>12. t.obj[i].live <=> t.obj[i].name # NoName BY <2>5, NamesAssumption
  <2>13. Whole(t) /\ Files(t) = Filed(Files(fs), i, t.obj[i].name, t.obj[i].data)
    BY <1>3, <1>6, <2>4, <2>7, <2>9, <2>10, <2>11, <2>12, FiledWhole
  <2>14. Handles(t) = Slot(Handles(fs), h, i)
    <3>1. SlotIs(fs, t, h, i) BY <1>3, <1>4, <2>5, <2>6 DEF SlotIs
    <3> QED BY <1>3, <3>1, SlotHandles
  <2>15. Files(fs)' = Filed(Files(fs), i, n, <<>>) /\ Handles(fs)' = Slot(Handles(fs), h, i)
    BY <2>4, <2>5, <2>13, <2>14
  <2>16. Files(fs)' = [Files(fs) EXCEPT ![i] =
                        IF trunc \/ i \notin Api!Named(n)
                        THEN [name |-> n, data |-> <<>>, safe |-> <<>>] ELSE @]
    BY <1>9, <2>15 DEF Filed
  <2>17. Handles(fs)' = [Handles(fs) EXCEPT ![h] = [id |-> i, pos |-> 0]] BY <2>15 DEF Slot
  <2>18. Api!Returns("open", TRUE, h, <<>>) BY <2>4 DEF Returns, Api!Returns
  <2>19. Api!Open(h, n, trunc)
    BY <1>3, <1>7, <1>8, <2>16, <2>17, <2>18 DEF Api!Open
  <2> QED BY <1>3, <2>4, <2>13, <2>19
<1>10. CASE ~trunc
  <2>1. o = Outcome(s, TRUE) BY <1>2, <1>10
  <2>2. o.ok /\ o.fs = s BY <2>1 DEF Outcome
  <2>3. fs' = s /\ Returns("open", TRUE, h, <<>>) BY <1>2, <2>2
  <2>4. Whole(s) BY <1>4, <1>6, <2>3
  <2>5. Files(fs)' = Files(fs) /\ Handles(fs)' = Slot(Handles(fs), h, i) BY <1>4, <2>3
  <2>6. Files(fs)' = [Files(fs) EXCEPT ![i] =
                        IF trunc \/ i \notin Api!Named(n)
                        THEN [name |-> n, data |-> <<>>, safe |-> <<>>] ELSE @]
    <3> DEFINE F == Files(fs)
    <3>1. F = [j \in Ids |-> F[j]] BY DEF Files
    <3> HIDE DEF F
    <3>2. F = [F EXCEPT ![i] = F[i]] BY <1>3, <3>1
    <3> QED BY <1>7, <1>10, <2>5, <3>2 DEF F
  <2>7. Handles(fs)' = [Handles(fs) EXCEPT ![h] = [id |-> i, pos |-> 0]] BY <2>5 DEF Slot
  <2>8. Api!Returns("open", TRUE, h, <<>>) BY <2>3 DEF Returns, Api!Returns
  <2>9. Api!Open(h, n, trunc)
    BY <1>3, <1>7, <1>8, <2>6, <2>7, <2>8 DEF Api!Open
  <2> QED BY <1>3, <2>3, <2>4, <2>9
<1> QED BY <1>9, <1>10

(* A removal and its IX_DEL event: the object goes, its descriptors close. *)
Ousted(H, i) == [g \in Fds |-> IF H[g].id = i THEN Api!Closed ELSE H[g]]

(* The object is gone, and so are the descriptors on it.                   *)
LEMMA RemovedIs ==
  ASSUME NEW s, Good(s), NEW i \in Ids, NEW t, t = Removed(s, i)
  PROVE  /\ t.obj[i] = NoObj /\ t.cp = s.cp /\ \A j \in Ids \ {i} : t.obj[j] = s.obj[j]
         /\ \A g \in Fds : t.fd[g] = IF s.fd[g].open /\ s.fd[g].id = i THEN ClosedFd(s.fd[g].cp)
                                     ELSE s.fd[g]
<1> DEFINE w == IF s.obj[i].data = <<>> THEN s.work ELSE [name |-> s.obj[i].name, live |-> FALSE]
           O == [s.obj EXCEPT ![i] = NoObj]
           u == [s EXCEPT !.obj = O, !.work = w]
           F == [h \in Fds |-> IF h \in OfObject(u, i) THEN ClosedFd(u.fd[h].cp) ELSE u.fd[h]]
<1>1. s \in Fs /\ s.obj \in [Ids -> Objs] BY Parts DEF Good
<1>2. [s EXCEPT !.obj[i] = NoObj,
                !.work = IF s.obj[i].data = <<>> THEN @
                         ELSE [name |-> s.obj[i].name, live |-> FALSE]] = u
  BY <1>1 DEF Fs
<1>3. O[i] = NoObj /\ \A j \in Ids \ {i} : O[j] = s.obj[j] BY <1>1
<1>4. t = [u EXCEPT !.fd = F] BY <1>2 DEF Removed, EventDel
<1> HIDE DEF O, w
<1>5. u.obj = O /\ u.fd = s.fd /\ u.cp = s.cp /\ DOMAIN u = {"obj", "fd", "cp", "work"}
  BY ONLY <1>1 DEF Fs
<1> HIDE DEF u
<1>6. \A h \in Fds : F[h] = IF s.fd[h].open /\ s.fd[h].id = i THEN ClosedFd(s.fd[h].cp)
                            ELSE s.fd[h]
  BY <1>5 DEF OfObject
<1> HIDE DEF F
<1>7. t.obj = O /\ t.cp = s.cp /\ t.fd = F BY <1>4, <1>5
<1> QED BY <1>3, <1>6, <1>7

(* The two removals: u is the state in which the object is removed.        *)
LEMMA GoneIs ==
  ASSUME NEW s, Whole(s), NEW u, Good(u), NEW i \in Ids, Only(s, u, i), NoPageOf(u, i),
         NEW t, t = Removed(u, i), Good(t), Cached(t),
         \A g \in Fds : \/ /\ u.fd[g].open /\ u.fd[g].id = i
                           /\ s.fd[g].open => s.fd[g].id = i
                        \/ /\ u.fd[g].open = s.fd[g].open /\ u.fd[g].id = s.fd[g].id
                           /\ u.fd[g].off = s.fd[g].off
  PROVE  /\ Whole(t) /\ Files(t) = Filed(Files(s), i, NoName, <<>>)
         /\ Handles(t) = Ousted(Handles(s), i)
<1>1. /\ t.obj[i] = NoObj /\ t.cp = u.cp /\ \A j \in Ids \ {i} : t.obj[j] = u.obj[j]
      /\ \A g \in Fds : t.fd[g] = IF u.fd[g].open /\ u.fd[g].id = i THEN ClosedFd(u.fd[g].cp)
                                  ELSE u.fd[g]
  BY RemovedIs
<1>2. Only(s, t, i)
  <2>1. Only(u, t, i) BY <1>1, OnlyObj
  <2> QED BY <2>1, OnlyTwice
<1>3. NoPageOf(t, i) BY <1>1 DEF NoPageOf
<1>4. t.obj[i].name = NoName /\ t.obj[i].live = FALSE /\ t.obj[i].data = <<>> BY <1>1 DEF NoObj
<1>5. \A g \in Fds : ~s.fd[g].open => s.fd[g].id = NoId /\ s.fd[g].off = 0
  BY DEF Whole, Tidy, Reset
<1>6. i # NoId BY NamesAssumption
<1>7. \A p : ClosedFd(p).open = FALSE /\ ClosedFd(p).id = NoId /\ ClosedFd(p).off = 0
  BY DEF ClosedFd
<1>8. ASSUME NEW g \in Fds
      PROVE  \/ /\ t.fd[g].open = FALSE /\ t.fd[g].id = NoId /\ t.fd[g].off = 0
                /\ s.fd[g].id # i => s.fd[g].id = NoId /\ s.fd[g].off = 0
             \/ /\ t.fd[g].open = s.fd[g].open /\ t.fd[g].id = s.fd[g].id
                /\ t.fd[g].off = s.fd[g].off /\ s.fd[g].id # i
  <2>1. CASE u.fd[g].open /\ u.fd[g].id = i
    <3>1. t.fd[g] = ClosedFd(u.fd[g].cp) BY <1>1, <2>1
    <3>2. t.fd[g].open = FALSE /\ t.fd[g].id = NoId /\ t.fd[g].off = 0 BY <1>7, <3>1
    <3>3. s.fd[g].id = i \/ (s.fd[g].id = NoId /\ s.fd[g].off = 0) BY <1>5, <2>1
    <3> QED BY <3>2, <3>3
  <2>2. CASE ~(u.fd[g].open /\ u.fd[g].id = i)
    <3>1. t.fd[g] = u.fd[g] BY <1>1, <2>2
    <3>2. u.fd[g].open = s.fd[g].open /\ u.fd[g].id = s.fd[g].id /\ u.fd[g].off = s.fd[g].off
      BY <2>2
    <3>3. s.fd[g].id # i BY <1>5, <1>6, <2>2, <3>2
    <3> QED BY <3>1, <3>2, <3>3
  <2> QED BY <2>1, <2>2
<1>9. Reset(t) BY <1>5, <1>8 DEF Reset
<1>10. \A g \in Fds : t.fd[g].open =>
            \/ t.fd[g].id = i /\ t.fd[g].off = 0
            \/ /\ t.fd[g].id # i /\ s.fd[g].open
               /\ s.fd[g].id = t.fd[g].id /\ s.fd[g].off = t.fd[g].off
  BY <1>8
<1>11. Whole(t) /\ Files(t) = Filed(Files(s), i, t.obj[i].name, t.obj[i].data)
  BY <1>2, <1>3, <1>4, <1>9, <1>10, FiledWhole
<1>12. Handles(t) = Ousted(Handles(s), i)
  <2> DEFINE H == Handles(s)
  <2>1. \A g \in Fds : H[g] = [id |-> s.fd[g].id, pos |-> s.fd[g].off] BY HandlesAt
  <2>2. \A g \in Fds : H[g].id = s.fd[g].id BY HandlesAt
  <2> HIDE DEF H
  <2>3. ASSUME NEW g \in Fds
        PROVE  [id |-> t.fd[g].id, pos |-> t.fd[g].off] = IF H[g].id = i THEN Api!Closed ELSE H[g]
    <3>1. CASE s.fd[g].id = i BY <1>6, <1>8, <2>2, <3>1 DEF Api!Closed
    <3>2. CASE s.fd[g].id # i
      <4>1. t.fd[g].id = s.fd[g].id /\ t.fd[g].off = s.fd[g].off BY <1>6, <1>8, <3>2
      <4> QED BY <2>1, <2>2, <3>2, <4>1
    <3> QED BY <3>1, <3>2
  <2>4. Handles(t) = [g \in Fds |-> IF H[g].id = i THEN Api!Closed ELSE H[g]]
    BY <2>3 DEF Handles
  <2> QED BY <2>4 DEF Ousted, H
<1> QED BY <1>4, <1>11, <1>12

(* What FileApi's Remove asks of the files and descriptors.                *)
LEMMA RemoveApi ==
  ASSUME NEW i \in Ids, fs.obj[i].name # NoName, Returns("remove", TRUE, 0, <<>>), NEW t, fs' = t,
         Files(t) = Filed(Files(fs), i, NoName, <<>>), Handles(t) = Ousted(Handles(fs), i)
  PROVE  Api!Remove(i)
<1>1. Files(fs)' = Filed(Files(fs), i, NoName, <<>>) /\ Handles(fs)' = Ousted(Handles(fs), i)
  OBVIOUS
<1>2. Files(fs)[i] # Api!NoFile
  <2>1. Files(fs)[i].name # NoName BY FilesAt
  <2> QED BY <2>1 DEF Api!NoFile
<1>3. Api!Returns("remove", TRUE, 0, <<>>) BY DEF Returns, Api!Returns
<1> QED BY <1>1, <1>2, <1>3 DEF Api!Remove, Api!NoFile, Filed, Ousted

(* SPIFFS_remove.                                                          *)
LEMMA RemoveImplements ==
  ASSUME ~MayFill, Careful, Whole(fs), NEW n \in Names, SPIFFS_remove(n)
  PROVE  (\E i \in Ids : Api!Remove(i)) /\ Whole(fs')
<1>1. PICK h \in FindNew(fs), i \in FindByName(fs, n) :
         /\ MayRemove(i)
         /\ fs' = Removed(OpenFd(fs, h, i, {}), i) /\ Returns("remove", TRUE, 0, <<>>)
  BY DEF SPIFFS_remove
<1> DEFINE u == OpenFd(fs, h, i, {})
           t == Removed(u, i)
<1>2. /\ h \in Fds /\ ~fs.fd[h].open /\ {} \in SUBSET Flags
      /\ i \in Ids /\ fs.obj[i].name # NoName
  BY FindNewClosed, NamesAssumption DEF FindByName
<1>3. /\ u.obj = fs.obj /\ u.cp = fs.cp
      /\ u.fd[h].open /\ u.fd[h].id = i /\ \A g \in Fds \ {h} : u.fd[g] = fs.fd[g]
  BY <1>2, OpenFdIs
<1>4. Good(u) BY <1>2, OpenFdGood DEF Whole
<1>5. Good(fs') /\ Cached(fs') BY RemoveKeeps DEF Invariant, Whole
<1>6. fs' = t BY <1>1
<1> HIDE DEF u
<1>7. t = Removed(u, i) OBVIOUS
<1> HIDE DEF t
<1>8. Only(fs, u, i) BY <1>2, <1>3, OnlyObj
<1>9. NoPageOf(u, i) BY <1>1, <1>3 DEF MayRemove, PagesOf, NoPageOf
<1>10. \A g \in Fds : \/ /\ u.fd[g].open /\ u.fd[g].id = i
                         /\ fs.fd[g].open => fs.fd[g].id = i
                      \/ /\ u.fd[g].open = fs.fd[g].open /\ u.fd[g].id = fs.fd[g].id
                         /\ u.fd[g].off = fs.fd[g].off
  BY <1>2, <1>3
<1>11. /\ Whole(t) /\ Files(t) = Filed(Files(fs), i, NoName, <<>>)
       /\ Handles(t) = Ousted(Handles(fs), i)
  BY <1>2, <1>4, <1>5, <1>6, <1>7, <1>8, <1>9, <1>10, GoneIs
<1>12. Api!Remove(i) BY <1>1, <1>2, <1>6, <1>11, RemoveApi
<1> QED BY <1>2, <1>6, <1>11, <1>12

(* SPIFFS_fremove drops the descriptor's own cached write.                 *)
LEMMA FremoveImplements ==
  ASSUME ~MayFill, Careful, Whole(fs), NEW h \in Fds, SPIFFS_fremove(h)
  PROVE  (\E i \in Ids : Api!Remove(i)) /\ Whole(fs')
<1> DEFINE i == fs.fd[h].id
           p == fs.fd[h].cp
           u == IF p = NoPage THEN fs ELSE Release(fs, p)
           t == Removed(u, i)
<1>1. /\ fs.fd[h].open /\ MayFremove(h)
      /\ fs' = Removed(u, i) /\ Returns("remove", TRUE, 0, <<>>)
  BY DEF SPIFFS_fremove
<1>2. Good(fs) /\ Cached(fs) /\ i \in Ids /\ p \in CPages \cup {NoPage}
  <2>1. Good(fs) /\ Cached(fs) /\ fs.fd[h] \in FdRecs BY Parts DEF Whole, Good
  <2> QED BY <1>1, <2>1, FdFacts DEF Good, Opened
<1>3. \A q \in CPages : fs.cp[q].id = i => q = p BY <1>1 DEF MayFremove, PagesOf
<1>4. i # NoId /\ fs.obj[i].name # NoName BY <1>1, <1>2, NamesAssumption DEF Cached, Named
<1>5. Good(fs') /\ Cached(fs') BY FremoveKeeps DEF Invariant, Whole
<1> HIDE DEF i, p
<1>6. Good(u) /\ Only(fs, u, i) /\ NoPageOf(u, i) /\ Alike(fs, u)
  <2>1. CASE p = NoPage
    <3>1. NoPageOf(fs, i) BY <1>3, <2>1, NamesAssumption DEF NoPageOf
    <3>2. Alike(fs, fs) /\ Only(fs, fs, i) BY DEF Alike, SameNames, Only
    <3> QED BY <1>2, <2>1, <3>1, <3>2
  <2>2. CASE p # NoPage
    <3>1. p \in CPages BY <1>2, <2>2
    <3> DEFINE r == Release(fs, p)
    <3>2. /\ Good(r) /\ Alike(fs, r) /\ r.obj = fs.obj
          /\ \A q \in CPages : r.cp[q].id = IF q = p THEN NoId ELSE fs.cp[q].id
      BY <1>2, <3>1, ReleaseGood
    <3>3. \A q \in CPages \ {p} : r.cp[q] = fs.cp[q] BY <1>2, <3>1, ReleasePages
    <3> HIDE DEF r
    <3>4. fs.cp[p].id = i BY <1>2, <2>2 DEF Cached, Owned, i, p
    <3>5. r.cp[p].id = NoId BY <3>1, <3>2
    <3>6. Only(fs, r, i) BY <1>2, <3>2, <3>3, <3>4, <3>5, OnlyPage
    <3>7. NoPageOf(r, i) BY <1>3, <1>4, <3>2 DEF NoPageOf
    <3> QED BY <2>2, <3>2, <3>6, <3>7 DEF r
  <2> QED BY <2>1, <2>2
<1>7. fs' = t BY <1>1
<1> HIDE DEF u
<1>8. t = Removed(u, i) OBVIOUS
<1> HIDE DEF t
<1>9. \A g \in Fds : \/ /\ u.fd[g].open /\ u.fd[g].id = i
                        /\ fs.fd[g].open => fs.fd[g].id = i
                     \/ /\ u.fd[g].open = fs.fd[g].open /\ u.fd[g].id = fs.fd[g].id
                        /\ u.fd[g].off = fs.fd[g].off
  BY <1>6 DEF Alike
<1>10. /\ Whole(t) /\ Files(t) = Filed(Files(fs), i, NoName, <<>>)
       /\ Handles(t) = Ousted(Handles(fs), i)
  BY <1>2, <1>5, <1>6, <1>7, <1>8, <1>9, GoneIs
<1>11. Api!Remove(i) BY <1>1, <1>2, <1>4, <1>7, <1>10, RemoveApi
<1> QED BY <1>2, <1>7, <1>10, <1>11

(* SPIFFS_rename changes a name and what no reader sees.                   *)
LEMMA RenameImplements ==
  ASSUME ~MayFill, Careful, Whole(fs), NEW old \in Names, NEW new \in Names,
         SPIFFS_rename(old, new)
  PROVE  (\E i \in Ids : Api!Rename(i, new)) /\ Whole(fs')
<1> DEFINE hdr == [name |-> new, live |-> TRUE]
<1>1. PICK i \in FindByName(fs, old) :
         /\ FindByName(fs, new) = {}
         /\ fs' = EventUpd([fs EXCEPT !.obj[i].name = new, !.work = hdr], i, HdrSize(fs.obj[i]))
         /\ Returns("rename", TRUE, 0, <<>>)
  BY DEF SPIFFS_rename
<1> DEFINE o == [fs.obj[i] EXCEPT !.name = new]
           O == [fs.obj EXCEPT ![i] = o]
           u == [fs EXCEPT !.obj = O, !.work = hdr]
           t == EventUpd(u, i, HdrSize(fs.obj[i]))
<1>2. /\ i \in Ids /\ fs.obj[i].name = old /\ fs.obj[i].live
      /\ old # NoName /\ new # NoName
  BY NamesAssumption DEF FindByName
<1>3. Good(fs) /\ fs \in Fs /\ fs.obj \in [Ids -> Objs] /\ hdr \in Headers \cup {NoHdr}
  BY Parts DEF Whole, Good, Headers
<1>4. [fs EXCEPT !.obj[i].name = new, !.work = hdr] = u BY <1>2, <1>3 DEF Fs
<1>5. o \in Objs /\ o.name = new /\ o.data = fs.obj[i].data /\ o.live = fs.obj[i].live
  BY <1>2, <1>3 DEF Objs
<1>6. HdrSize(fs.obj[i]) \in Sizes BY <1>2, <1>3, ObjFacts
<1>7. fs' = t BY <1>1, <1>4
<1> HIDE DEF o
<1>8. O \in [Ids -> Objs] /\ O[i] = o /\ \A j \in Ids \ {i} : O[j] = fs.obj[j]
  BY <1>2, <1>3, <1>5
<1> HIDE DEF O, hdr
<1>9. u \in Fs /\ u.obj = O /\ u.fd = fs.fd /\ u.cp = fs.cp BY ONLY <1>3, <1>8 DEF Fs
<1> HIDE DEF u
<1>10. t.obj = O /\ Same(u, t) /\ \A g \in Fds : t.fd[g].off = u.fd[g].off
  BY <1>6, <1>9, EventUpdFacts
<1>11. Good(fs') /\ Cached(fs') BY RenameKeeps DEF Invariant, Whole
<1> HIDE DEF t
<1>12. /\ t.cp = fs.cp
       /\ \A g \in Fds : /\ t.fd[g].open = fs.fd[g].open /\ t.fd[g].id = fs.fd[g].id
                         /\ t.fd[g].off = fs.fd[g].off
  BY <1>9, <1>10 DEF Same, SameFd
<1>13. \A j \in Ids : t.obj[j].data = fs.obj[j].data /\ t.obj[j].live = fs.obj[j].live
  BY <1>5, <1>8, <1>10
<1>14. \A j \in Ids : View(t, j) = View(fs, j) BY <1>12, <1>13 DEF View, PagesOf
<1>15. Whole(t)
  <2>1. Live(t) BY <1>2, <1>5, <1>8, <1>10 DEF Whole, Tidy, Live
  <2>2. Reset(t) BY <1>12 DEF Whole, Tidy, Reset
  <2>3. Placed(t)
    <3> SUFFICES ASSUME NEW p \in CPages, t.cp[p].id # NoId
                 PROVE  t.cp[p].off <= Len(t.obj[t.cp[p].id].data)
      BY DEF Placed
    <3>1. fs.cp[p] \in CpRecs BY <1>3, Parts
    <3>2. t.cp[p].id \in Ids BY <1>12, <3>1 DEF CpRecs
    <3> QED BY <1>12, <1>13, <3>2 DEF Whole, Tidy, Placed
  <2>4. Inside(t)
    <3> SUFFICES ASSUME NEW g \in Fds, t.fd[g].open
                 PROVE  t.fd[g].off <= Len(View(t, t.fd[g].id))
      BY DEF Inside
    <3>1. fs.fd[g].id \in Ids BY <1>3, <1>12 DEF Good, Opened
    <3> QED BY <1>12, <1>14, <3>1 DEF Whole, Tidy, Inside
  <2> QED BY <1>7, <1>11, <2>1, <2>2, <2>3, <2>4 DEF Whole, Tidy
<1>16. Handles(t) = Handles(fs) BY <1>12 DEF Handles
<1>17. Files(t) = [Files(fs) EXCEPT ![i].name = new]
  <2> DEFINE F == Files(fs)
             r(s, j) == [name |-> s.obj[j].name, data |-> View(s, j), safe |-> s.obj[j].data]
             e == [F[i] EXCEPT !.name = new]
  <2>1. F = [j \in Ids |-> F[j]] /\ \A j \in Ids : F[j] = r(fs, j) BY DEF Files
  <2> HIDE DEF F
  <2>2. e = r(t, i) BY <1>2, <1>5, <1>8, <1>10, <1>14, <2>1
  <2>3. \A j \in Ids \ {i} : F[j] = r(t, j) BY <1>8, <1>10, <1>14, <2>1
  <2>4. [F EXCEPT ![i].name = new] = [j \in Ids |-> IF j = i THEN e ELSE F[j]] BY <2>1
  <2>5. Files(t) = [j \in Ids |-> r(t, j)] BY DEF Files
  <2> HIDE DEF r, e
  <2>6. [j \in Ids |-> r(t, j)] = [j \in Ids |-> IF j = i THEN e ELSE F[j]] BY <2>2, <2>3
  <2> QED BY <2>4, <2>5, <2>6 DEF F
<1>18. Files(fs)' = [Files(fs) EXCEPT ![i].name = new] /\ Handles(fs)' = Handles(fs)
  BY <1>7, <1>16, <1>17
<1>19. Files(fs)[i] # Api!NoFile
  <2>1. Files(fs)[i].name # NoName BY <1>2, FilesAt
  <2> QED BY <2>1 DEF Api!NoFile
<1>20. Api!Named(new) = {} BY <1>1, NamedIs
<1>21. Api!Returns("rename", TRUE, 0, <<>>) BY <1>1 DEF Returns, Api!Returns
<1>22. Api!Rename(i, new) BY <1>18, <1>19, <1>20, <1>21 DEF Api!Rename
<1> QED BY <1>2, <1>7, <1>15, <1>22
-----------------------------------------------------------------------------
(* A mount.  Readers see what is on the flash, and no file is open.        *)
LEMMA MountedIs ==
  ASSUME NEW O \in [Ids -> Objs], \A i \in Ids : O[i].live <=> O[i].name # NoName,
         NEW t, t = Mounted(O)
  PROVE  /\ Whole(t) /\ Handles(t) = [h \in Fds |-> Api!Closed]
         /\ Files(t) = [i \in Ids |-> [name |-> O[i].name, data |-> O[i].data, safe |-> O[i].data]]
<1>1. Good(t) BY MountedKeeps DEF Invariant
<1>2. /\ t.obj = O /\ t.fd = [h \in Fds |-> ClosedFd(NoPage)]
      /\ t.cp = [p \in CPages |-> BlankPage]
  BY DEF Mounted
<1>3. \A h \in Fds : /\ t.fd[h].open = FALSE /\ t.fd[h].id = NoId /\ t.fd[h].off = 0
                     /\ t.fd[h].cp = NoPage
  BY <1>2 DEF ClosedFd
<1>4. \A p \in CPages : t.cp[p].id = NoId BY <1>2 DEF BlankPage
<1>5. Cached(t)
  <2>1. Owned(t) /\ Single(t) /\ InUse(t) BY <1>3, <1>4 DEF Owned, Single, InUse
  <2>2. Direct(t) /\ Agree(t) /\ Named(t) BY <1>3 DEF Direct, Agree, Named
  <2> QED BY <2>1, <2>2 DEF Cached
<1>6. Live(t) BY <1>2 DEF Live
<1>7. Reset(t) /\ Placed(t) /\ Inside(t) BY <1>3, <1>4 DEF Reset, Placed, Inside
<1>8. \A i \in Ids : NoPageOf(t, i) BY <1>4, NamesAssumption DEF NoPageOf
<1>9. \A i \in Ids : View(t, i) = O[i].data BY <1>2, <1>8, ViewFlash
<1>10. Files(t) = [i \in Ids |-> [name |-> O[i].name, data |-> O[i].data, safe |-> O[i].data]]
  BY <1>2, <1>9 DEF Files
<1>11. Handles(t) = [h \in Fds |-> Api!Closed] BY <1>3 DEF Handles, Api!Closed
<1> QED BY <1>1, <1>5, <1>6, <1>7, <1>10, <1>11 DEF Whole, Tidy

(* A power cut takes what has not been written back, and nothing else.     *)
LEMMA PowerCutImplements ==
  ASSUME Whole(fs), PowerCut
  PROVE  Api!PowerCut /\ Whole(fs')
<1> DEFINE t == Mounted(fs.obj)
<1>1. fs' = t /\ Returns("mount", TRUE, 0, <<>>) BY DEF PowerCut
<1>2. fs.obj \in [Ids -> Objs] /\ \A i \in Ids : fs.obj[i].live <=> fs.obj[i].name # NoName
  BY Parts DEF Whole, Good, Tidy, Live
<1>3. /\ Whole(t) /\ Handles(t) = [h \in Fds |-> Api!Closed]
      /\ Files(t) = [i \in Ids |-> [name |-> fs.obj[i].name, data |-> fs.obj[i].data,
                                   safe |-> fs.obj[i].data]]
  BY <1>2, MountedIs
<1> HIDE DEF t
<1>4. \A i \in Ids : [Files(fs)[i] EXCEPT !.data = Files(fs)[i].safe]
                       = [name |-> fs.obj[i].name, data |-> fs.obj[i].data,
                          safe |-> fs.obj[i].data]
  <2> SUFFICES ASSUME NEW i \in Ids
               PROVE  [Files(fs)[i] EXCEPT !.data = Files(fs)[i].safe]
                        = [name |-> fs.obj[i].name, data |-> fs.obj[i].data,
                           safe |-> fs.obj[i].data]
    OBVIOUS
  <2>1. Files(fs)[i] = [name |-> fs.obj[i].name, data |-> View(fs, i), safe |-> fs.obj[i].data]
    BY FilesAt
  <2> QED BY <2>1
<1>5. Files(fs)' = [i \in Ids |-> [Files(fs)[i] EXCEPT !.data = Files(fs)[i].safe]]
      /\ Handles(fs)' = [h \in Fds |-> Api!Closed]
  BY <1>1, <1>3, <1>4
<1>6. Api!Returns("mount", TRUE, 0, <<>>) BY <1>1 DEF Returns, Api!Returns
<1>7. Api!PowerCut BY <1>5, <1>6 DEF Api!PowerCut
<1> QED BY <1>1, <1>3, <1>7

(* The first k descriptors have been flushed and returned.                 *)
Drained(s, t, k) ==
    /\ Whole(t)
    /\ \A j \in Ids : View(t, j) = View(s, j) /\ t.obj[j].name = s.obj[j].name
    /\ \A g \in Fds : g <= k => t.fd[g].open = FALSE

(* Flushing and returning the next descriptor.                             *)
LEMMA DrainOne ==
  ASSUME ~MayFill, NEW s, NEW t, NEW k \in Nat, k + 1 \in Fds, Drained(s, t, k),
         t.fd[k + 1].open, NEW o \in FlushCache(t, k + 1), NEW u, u = CloseFd(o.fs, k + 1)
  PROVE  Drained(s, u, k + 1)
<1> DEFINE h == k + 1
           i == t.fd[h].id
           v == o.fs
<1>1. Whole(t) /\ h \in Fds /\ t.fd[h].open BY DEF Drained
<1>2. Good(t) /\ Cached(t) /\ Placed(t) /\ i \in Ids BY <1>1 DEF Whole, Tidy, Good, Opened
<1> HIDE DEF h, i
<1>3. o \in FlushCache(t, h) /\ u = CloseFd(v, h) BY DEF h
<1>4. Good(v) /\ Alike(t, v) /\ Cached(v) /\ v.fd[h].cp = NoPage /\ NoPageOf(v, i)
  BY <1>1, <1>2, <1>3, FlushCacheGood DEF i
<1>5. Flushed(t, v, i) BY <1>1, <1>2, <1>3, FlushIs DEF i
<1> HIDE DEF v
<1>6. Whole(v) /\ \A j \in Ids : View(v, j) = View(t, j) /\ v.obj[j].name = t.obj[j].name
  BY <1>1, <1>2, <1>4, <1>5, FlushedWhole
<1>7. v.fd[h].id = i /\ \A g \in Fds : v.fd[g].open = t.fd[g].open BY <1>1, <1>4 DEF Alike, i
<1>8. Good(u) /\ u.obj = v.obj BY <1>1, <1>3, <1>4, CloseFdGood
<1>9. Cached(u) BY <1>1, <1>3, <1>4, <1>7, FlushedClose
<1>10. Shut(v, u, h)
  <2>1. v \in Fs BY <1>4 DEF Good
  <2> QED BY <1>1, <1>3, <2>1, CloseFdIs
<1>11. Whole(u) /\ \A j : View(u, j) = View(v, j) BY <1>1, <1>6, <1>8, <1>9, <1>10, ShutWhole
<1>12. \A j \in Ids : View(u, j) = View(s, j) /\ u.obj[j].name = s.obj[j].name
  BY <1>6, <1>8, <1>11 DEF Drained
<1>13. \A g \in Fds : g <= h => u.fd[g].open = FALSE
  <2> SUFFICES ASSUME NEW g \in Fds, g <= h PROVE u.fd[g].open = FALSE OBVIOUS
  <2>1. CASE g = h BY <1>10, <2>1 DEF Shut
  <2>2. CASE g # h
    <3>1. g <= k BY <2>2 DEF h, Fds
    <3>2. u.fd[g] = v.fd[g] BY <1>10, <2>2 DEF Shut
    <3> QED BY <1>7, <3>1, <3>2 DEF Drained
  <2> QED BY <2>1, <2>2
<1> QED BY <1>11, <1>12, <1>13 DEF Drained, h

(* SPIFFS_unmount closes every descriptor and keeps what readers see.      *)
LEMMA UnmountUpToIs ==
  ASSUME ~MayFill, Whole(fs)
  PROVE  \A t \in UnmountUpTo[NumFds] : Drained(fs, t, NumFds)
<1> DEFINE Bad == {k \in 0 .. NumFds : \E t \in UnmountUpTo[k] : ~Drained(fs, t, k)}
<1> USE SizesAssumption
<1>1. \A k \in 0 .. NumFds :
         UnmountUpTo[k] = IF k = 0 THEN {fs} ELSE Returned(UnmountUpTo[k - 1], k)
  BY UnmountUpToDef
<1>2. Bad = {}
  <2> SUFFICES ASSUME Bad # {} PROVE FALSE OBVIOUS
  <2>1. Bad \subseteq Nat OBVIOUS
  <2>2. PICK n \in Bad : \A m \in Bad : n <= m
    <3> HIDE DEF Bad
    <3> QED BY <2>1, LeastNat
  <2>3. n \in 0 .. NumFds OBVIOUS
  <2>4. n # 0
    <3>1. Drained(fs, fs, 0) BY DEF Drained, Fds
    <3> QED BY <1>1, <2>2, <3>1
  <2>5. n - 1 \in 0 .. NumFds /\ n - 1 \notin Bad BY <2>2, <2>3, <2>4
  <2> DEFINE k == n - 1
  <2>6. \A t \in UnmountUpTo[k] : Drained(fs, t, k) BY <2>5
  <2>7. k \in Nat /\ k + 1 = n /\ n \in Fds BY <2>3, <2>4 DEF Fds
  <2>8. PICK u \in Returned(UnmountUpTo[k], n) : ~Drained(fs, u, n) BY <1>1, <2>2, <2>4
  <2>9. PICK t \in UnmountUpTo[k] :
          u \in IF t.fd[n].open THEN {CloseFd(o.fs, n) : o \in FlushCache(t, n)} ELSE {t}
    BY <2>8 DEF Returned
  <2> HIDE DEF k
  <2>10. Drained(fs, t, k) BY <2>6
  <2>11. CASE t.fd[n].open
    <3>1. PICK o \in FlushCache(t, n) : u = CloseFd(o.fs, n) BY <2>9, <2>11
    <3>2. Drained(fs, u, k + 1) BY <2>7, <2>10, <2>11, <3>1, DrainOne
    <3> QED BY <2>7, <2>8, <3>2
  <2>12. CASE ~t.fd[n].open
    <3>1. u = t BY <2>9, <2>12
    <3>2. t.fd[n].open = FALSE
      <4>1. t.fd[n] \in FdRecs BY <2>7, <2>10, Parts DEF Drained, Whole, Good
      <4> QED BY <2>12, <4>1 DEF FdRecs
    <3>3. \A g \in Fds : g <= n => g <= k \/ g = n BY <2>7 DEF Fds
    <3> QED BY <2>8, <2>10, <3>1, <3>2, <3>3 DEF Drained
  <2> QED BY <2>11, <2>12
<1> QED BY <1>2

(* SPIFFS_unmount saves every file.                                        *)
LEMMA UnmountImplements ==
  ASSUME ~MayFill, Careful, Whole(fs), SPIFFS_unmount
  PROVE  Api!Unmount /\ Whole(fs')
<1>1. PICK s \in UnmountUpTo[NumFds] : fs' = Mounted(s.obj) BY DEF SPIFFS_unmount
<1>2. Returns("unmount", TRUE, 0, <<>>) BY DEF SPIFFS_unmount
<1> DEFINE t == Mounted(s.obj)
<1>3. Drained(fs, s, NumFds) BY UnmountUpToIs
<1>4. \A g \in Fds : s.fd[g].open = FALSE BY <1>3, SizesAssumption DEF Drained, Fds
<1>5. Whole(s) /\ \A j \in Ids : View(s, j) = View(fs, j) /\ s.obj[j].name = fs.obj[j].name
  BY <1>3 DEF Drained
<1>6. \A j \in Ids : NoPageOf(s, j)
  BY <1>4, <1>5, NamesAssumption DEF NoPageOf, Whole, Cached, InUse
<1>7. \A j \in Ids : s.obj[j].data = View(fs, j) BY <1>5, <1>6, ViewFlash
<1>8. s.obj \in [Ids -> Objs] /\ \A i \in Ids : s.obj[i].live <=> s.obj[i].name # NoName
  BY <1>5, Parts DEF Whole, Good, Tidy, Live
<1>9. /\ Whole(t) /\ Handles(t) = [h \in Fds |-> Api!Closed]
      /\ Files(t) = [i \in Ids |-> [name |-> s.obj[i].name, data |-> s.obj[i].data,
                                   safe |-> s.obj[i].data]]
  BY <1>8, MountedIs
<1>10. fs' = t BY <1>1
<1> HIDE DEF t
<1>11. ASSUME NEW i \in Ids
       PROVE  [Files(fs)[i] EXCEPT !.safe = Files(fs)[i].data]
                = [name |-> s.obj[i].name, data |-> s.obj[i].data, safe |-> s.obj[i].data]
  <2>1. Files(fs)[i] = [name |-> fs.obj[i].name, data |-> View(fs, i), safe |-> fs.obj[i].data]
    BY FilesAt
  <2> QED BY <1>5, <1>7, <2>1
<1>12. Files(fs)' = [i \in Ids |-> [Files(fs)[i] EXCEPT !.safe = Files(fs)[i].data]]
       /\ Handles(fs)' = [h \in Fds |-> Api!Closed]
  BY <1>9, <1>10, <1>11
<1>13. Api!Returns("unmount", TRUE, 0, <<>>) BY <1>2 DEF Returns, Api!Returns
<1>14. Api!Unmount BY <1>12, <1>13 DEF Api!Unmount
<1> QED BY <1>9, <1>10, <1>14
-----------------------------------------------------------------------------
(* SpiffsFiles implements FileApi: with careful callers and a flash that   *)
(* does not fill, every call of the API, with all that the write cache,    *)
(* the double write and the size events do, is one step of the abstract    *)
(* files, for any number of files, names, descriptors and cache pages, any *)
(* page size, and buffers of any length and contents.                      *)
THEOREM FileApiImplemented ==
  ASSUME ~MayFill, Careful
  PROVE  Spec => ImplementsFileApi
<1>1. Init => Whole(fs) /\ Api!Init
  <2> SUFFICES ASSUME Init PROVE Whole(fs) /\ Api!Init OBVIOUS
  <2> DEFINE O == [i \in Ids |-> NoObj]
  <2>1. NoObj \in Objs
    <3>1. <<>> \in Seq(Cells) OBVIOUS
    <3> QED BY <3>1 DEF NoObj, Objs
  <2>2. O \in [Ids -> Objs] /\ \A i \in Ids : O[i] = NoObj BY <2>1
  <2>3. fs = Mounted(O) BY DEF Init
  <2> HIDE DEF O
  <2>4. NoObj.live = FALSE /\ NoObj.name = NoName /\ NoObj.data = <<>> BY DEF NoObj
  <2>5. \A i \in Ids : O[i].live <=> O[i].name # NoName BY <2>2, <2>4
  <2>6. /\ Whole(fs) /\ Handles(fs) = [h \in Fds |-> Api!Closed]
        /\ Files(fs) = [i \in Ids |-> [name |-> O[i].name, data |-> O[i].data, safe |-> O[i].data]]
    BY <2>2, <2>3, <2>5, MountedIs
  <2>7. Files(fs) = [i \in Ids |-> Api!NoFile] BY <2>2, <2>4, <2>6 DEF Api!NoFile
  <2> QED BY <2>6, <2>7 DEF Init, Api!Init
<1>2. Whole(fs) /\ [Next]_vars => Whole(fs)' /\ [Api!Next]_<<Files(fs), Handles(fs), ret>>
  <2> SUFFICES ASSUME Whole(fs), [Next]_vars
               PROVE  Whole(fs') /\ [Api!Next]_<<Files(fs), Handles(fs), ret>>
    OBVIOUS
  <2>1. CASE UNCHANGED vars BY <2>1 DEF vars
  <2>2. ASSUME NEW n \in Names, SPIFFS_creat(n) PROVE Whole(fs') /\ Api!Next
    BY <2>2, CreateImplements DEF Api!Next
  <2>3. ASSUME NEW n \in Names, SPIFFS_remove(n) PROVE Whole(fs') /\ Api!Next
    BY <2>3, RemoveImplements DEF Api!Next
  <2>4. ASSUME NEW n \in Names, NEW flags \in Modes, NEW creat \in BOOLEAN,
               NEW trunc \in BOOLEAN, SPIFFS_open(n, flags, creat, trunc)
        PROVE  Whole(fs') /\ Api!Next
    <3>1. OpenExisting(n, flags, trunc) \/ OpenNew(n, flags) BY <2>4 DEF SPIFFS_open
    <3>2. Whole(fs') /\ \E h \in Fds : Api!Open(h, n, trunc)
      BY <3>1, OpenExistingImplements, OpenNewImplements
    <3> QED BY <3>2 DEF Api!Next
  <2>5. ASSUME NEW h \in Fds, NEW len \in Lens, SPIFFS_read(h, len)
        PROVE  Whole(fs') /\ Api!Next
    BY <2>5, ReadImplements DEF Api!Next
  <2>6. ASSUME NEW h \in Fds, NEW buf \in Bufs, SPIFFS_write(h, buf)
        PROVE  Whole(fs') /\ Api!Next
    BY <2>6, WriteImplements DEF Api!Next
  <2>7. ASSUME NEW h \in Fds, NEW offs \in 0 .. MaxLen, SPIFFS_lseek(h, offs)
        PROVE  Whole(fs') /\ Api!Next
    BY <2>7, SeekImplements DEF Api!Next
  <2>8. ASSUME NEW h \in Fds, SPIFFS_fstat(h) PROVE Whole(fs') /\ Api!Next
    BY <2>8, StatImplements DEF Api!Next
  <2>9. ASSUME NEW h \in Fds, SPIFFS_fflush(h) PROVE Whole(fs') /\ Api!Next
    BY <2>9, FlushImplements DEF Api!Next
  <2>10. ASSUME NEW h \in Fds, SPIFFS_close(h) PROVE Whole(fs') /\ Api!Next
    BY <2>10, CloseImplements DEF Api!Next
  <2>11. ASSUME NEW h \in Fds, SPIFFS_fremove(h) PROVE Whole(fs') /\ Api!Next
    BY <2>11, FremoveImplements DEF Api!Next
  <2>12. ASSUME NEW old \in Names, NEW new \in Names, SPIFFS_rename(old, new)
         PROVE  Whole(fs') /\ Api!Next
    BY <2>12, RenameImplements DEF Api!Next
  <2>13. CASE SPIFFS_unmount BY <2>13, UnmountImplements DEF Api!Next
  <2>14. CASE PowerCut BY <2>14, PowerCutImplements DEF Api!Next
  <2>15. CASE Next
    BY <2>15, <2>2, <2>3, <2>4, <2>5, <2>6, <2>7, <2>8, <2>9, <2>10, <2>11, <2>12, <2>13, <2>14
    DEF Next
  <2> QED BY <2>1, <2>15
<1> QED BY <1>1, <1>2, PTL DEF Spec, ImplementsFileApi, Api!Spec
=============================================================================
