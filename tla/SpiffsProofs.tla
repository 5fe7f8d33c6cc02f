---------------------------- MODULE SpiffsProofs ----------------------------
(***************************************************************************)
(* Theorems about the file layer of SPIFFS, for any number of files,       *)
(* descriptors and cache pages, with a flash that may run full at any      *)
(* write.  The lemmas follow the functions of the code from the inside     *)
(* out: each keeps Good (types, and the descriptors' sizes) for any        *)
(* callers, and Cached (who owns the write pages) for careful ones.        *)
(***************************************************************************)
EXTENDS SpiffsFiles, FiniteSetTheorems, WellFoundedInduction, TLAPS

Sizes == Nat \cup {Undef}

(* The size in an open descriptor fits the object it refers to.            *)
(* An append that a full flash stopped may have left it ahead.             *)
Fits(f, o) == \/ f.size = HdrSize(o)
              \/ o.data = <<>> /\ f.size = 0
              \/ MayFill /\ f.size \in Nat /\ f.size > Len(o.data)

Opened(s) ==
    \A h \in Fds : s.fd[h].open => s.fd[h].id \in Ids /\ Fits(s.fd[h], s.obj[s.fd[h].id])

Good(s) == s \in Fs /\ Opened(s)

(* Of descriptors, pages and names, only sizes and positions may differ.   *)
SameFd(f, g) == f.open = g.open /\ f.id = g.id /\ f.flags = g.flags /\ f.cp = g.cp
SameNames(s, t) == \A i \in Ids : t.obj[i].name = s.obj[i].name
Same(s, t) == t.cp = s.cp /\ (\A h \in Fds : SameFd(s.fd[h], t.fd[h])) /\ SameNames(s, t)

(* Of descriptors and names, only sizes and cache pages may differ.        *)
Alike(s, t) ==
    /\ \A h \in Fds : LET f == s.fd[h]  g == t.fd[h]
                      IN  f.open = g.open /\ f.id = g.id /\ f.flags = g.flags /\ f.off = g.off
    /\ SameNames(s, t)

(***************************************************************************)
(* The write cache, in the form that is inductive for careful callers.     *)
(* Direct and Agree say why a descriptor that skips the flush has nothing  *)
(* to flush; Named, that no open descriptor has an id that may be given to *)
(* the next object.                                                        *)
(***************************************************************************)
IsDirect(f) == "DIRECT" \in f.flags
Owned(s)  == \A h \in Fds : s.fd[h].cp # NoPage =>
                s.fd[h].open /\ s.cp[s.fd[h].cp].id = s.fd[h].id
Single(s) == \A p, q \in CPages : s.cp[p].id # NoId /\ s.cp[p].id = s.cp[q].id => p = q
InUse(s)  == \A p \in CPages : s.cp[p].id # NoId =>
                \E h \in Fds : s.fd[h].open /\ s.fd[h].id = s.cp[p].id
Direct(s) == \A h \in Fds, p \in CPages :
                s.fd[h].open /\ IsDirect(s.fd[h]) => s.cp[p].id # s.fd[h].id
Agree(s)  == \A g, h \in Fds : s.fd[g].open /\ s.fd[h].open /\ s.fd[g].id = s.fd[h].id
                => (IsDirect(s.fd[g]) <=> IsDirect(s.fd[h]))
Named(s)  == \A h \in Fds : s.fd[h].open =>
                s.fd[h].id \in Ids /\ s.obj[s.fd[h].id].name # NoName
Cached(s) == Owned(s) /\ Single(s) /\ InUse(s) /\ Direct(s) /\ Agree(s) /\ Named(s)

(* The same, with descriptors of object i free to disagree.                *)
AgreeBut(s, i)  == \A g, h \in Fds :
    s.fd[g].open /\ s.fd[h].open /\ s.fd[g].id = s.fd[h].id /\ s.fd[g].id # i
      => (IsDirect(s.fd[g]) <=> IsDirect(s.fd[h]))
CachedBut(s, i) ==
    Owned(s) /\ Single(s) /\ InUse(s) /\ Direct(s) /\ AgreeBut(s, i) /\ Named(s)

(* No write page is of object i.                                           *)
NoPageOf(s, i) == \A p \in CPages : s.cp[p].id # i
-----------------------------------------------------------------------------
(* Replacing one part of the record.                                       *)
LEMMA PutFd ==
  ASSUME NEW s \in Fs, NEW F \in [Fds -> FdRecs]
  PROVE  LET t == [s EXCEPT !.fd = F]
         IN  t \in Fs /\ t.obj = s.obj /\ t.fd = F /\ t.cp = s.cp /\ t.work = s.work
  BY DEF Fs

(* Replacing the objects and the work buffer.                              *)
LEMMA PutObj ==
  ASSUME NEW s \in Fs, NEW O \in [Ids -> Objs], NEW w \in Headers \cup {NoHdr},
         NEW t, t = [s EXCEPT !.obj = O, !.work = w]
  PROVE  t \in Fs /\ t.obj = O /\ t.fd = s.fd /\ t.cp = s.cp /\ t.work = w
  BY DEF Fs

(* The work buffer is no part of the invariant.                            *)
LEMMA PutWork ==
  ASSUME NEW s, Good(s), NEW w \in Headers \cup {NoHdr}
  PROVE  LET t == [s EXCEPT !.work = w]
         IN  Good(t) /\ Same(s, t) /\ t.fd = s.fd /\ t.obj = s.obj
  BY DEF Fs, Good, Opened, Same, SameFd, SameNames

(* The types of the four parts of fs.                                      *)
LEMMA Parts ==
  ASSUME NEW s \in Fs
  PROVE  /\ s.obj \in [Ids -> Objs] /\ s.fd \in [Fds -> FdRecs]
         /\ s.cp \in [CPages -> CpRecs] /\ s.work \in Headers \cup {NoHdr}
  BY DEF Fs

(* The size field a header has is never 0, and undefined when empty.       *)
LEMMA ObjFacts ==
  ASSUME NEW o \in Objs
  PROVE  /\ HdrSize(o) \in Sizes /\ HdrSize(o) # 0
         /\ o.data = <<>> <=> HdrSize(o) = Undef
         /\ o.data # <<>> => HdrSize(o) = Len(o.data)
         /\ Header(o) \in Headers
         /\ o.data \in Seq(Cells)
<1>1. o.data \in Seq(Cells) /\ Len(o.data) \in Nat BY DEF Objs
<1>2. o.data # <<>> => Len(o.data) # 0 BY <1>1
<1>3. Header(o) \in Headers BY DEF Header, Headers, Objs
<1> QED BY <1>1, <1>2, <1>3 DEF HdrSize, Sizes, Undef

(* The state in an outcome.                                                *)
LEMMA OutcomeFs ==
  ASSUME NEW o, NEW t, o = Outcome(t, TRUE) \/ o = Outcome(t, FALSE)
  PROVE  o.fs = t
  BY DEF Outcome

(* The fields of a descriptor.                                             *)
LEMMA FdFacts ==
  ASSUME NEW f \in FdRecs
  PROVE  /\ \A n \in Sizes : LET g == [f EXCEPT !.size = n]
                             IN  g \in FdRecs /\ SameFd(f, g) /\ g.size = n /\ g.off = f.off
         /\ \A n \in Nat : LET g == [f EXCEPT !.off = n]
                           IN  g \in FdRecs /\ SameFd(f, g) /\ g.size = f.size /\ g.off = n
         /\ \A p \in CPages \cup {NoPage} :
               LET g == [f EXCEPT !.cp = p]
               IN  g \in FdRecs /\ g.open = f.open /\ g.id = f.id /\ g.flags = f.flags
                   /\ g.size = f.size /\ g.off = f.off /\ g.cp = p
         /\ SameFd(f, f) /\ f.size \in Sizes /\ f.off \in Nat /\ f.open \in BOOLEAN
         /\ f.cp \in CPages \cup {NoPage} /\ f.id \in Ids \cup {NoId} /\ f.flags \subseteq Flags
  BY DEF FdRecs, SameFd, Sizes

(* spiffs_cb_object_event with a new size changes sizes and nothing else.  *)
LEMMA EventUpdFacts ==
  ASSUME NEW s \in Fs, NEW i, NEW n \in Sizes
  PROVE  LET t == EventUpd(s, i, n)
         IN  /\ t \in Fs /\ t.obj = s.obj /\ t.work = s.work /\ Same(s, t)
             /\ \A h \in Fds : t.fd[h].size = (IF h \in OfObject(s, i) /\ n # 0 THEN n
                                               ELSE s.fd[h].size)
             /\ \A h \in Fds : t.fd[h].off = s.fd[h].off
<1> DEFINE F == [h \in Fds |-> IF h \in OfObject(s, i) /\ n # 0
                               THEN [s.fd[h] EXCEPT !.size = n] ELSE s.fd[h]]
<1>1. \A h \in Fds : s.fd[h] \in FdRecs BY Parts
<1>2. F \in [Fds -> FdRecs] BY <1>1, FdFacts
<1>3. EventUpd(s, i, n) = [s EXCEPT !.fd = F] BY DEF EventUpd
<1>4. \A h \in Fds : /\ SameFd(s.fd[h], F[h])
                     /\ F[h].size = (IF h \in OfObject(s, i) /\ n # 0 THEN n ELSE s.fd[h].size)
                     /\ F[h].off = s.fd[h].off
  BY <1>1, FdFacts
<1> HIDE DEF F
<1> QED BY <1>2, <1>3, <1>4, PutFd DEF Same, SameNames

(* What Good(s) says depends on sizes and objects only.                    *)
LEMMA StoredGood ==
  ASSUME NEW s, Good(s), NEW i \in Ids, NEW data \in Seq(Cells)
  PROVE  LET t == Stored(s, i, data)
         IN  /\ Good(t) /\ Same(s, t) /\ t.obj[i].data = data
             /\ \A h \in Fds : t.fd[h].off = s.fd[h].off
             /\ \A h \in OfObject(s, i) : t.fd[h].size = HdrSize(t.obj[i])
<1> s \in Fs BY DEF Good
<1> DEFINE o == [s.obj[i] EXCEPT !.data = data]
           O == [s.obj EXCEPT ![i] = o]
           u == [s EXCEPT !.obj = O, !.work = Header(s.obj[i])]
           t == EventUpd(u, i, HdrSize(o))
<1>1. s.obj \in [Ids -> Objs] /\ s.fd \in [Fds -> FdRecs] BY Parts
<1>2. o \in Objs /\ o.data = data /\ o.name = s.obj[i].name BY <1>1 DEF Objs
<1>3. O \in [Ids -> Objs] /\ O[i] = o /\ \A j \in Ids \ {i} : O[j] = s.obj[j]
  BY <1>1, <1>2
<1>4. Header(s.obj[i]) \in Headers BY <1>1, ObjFacts
<1>6. [s EXCEPT !.obj[i].data = data, !.work = Header(s.obj[i])] = u
  BY DEF Fs
<1> HIDE DEF O, o
<1>5. u \in Fs /\ u.obj = O /\ u.fd = s.fd /\ u.cp = s.cp
  <2> HIDE DEF u
  <2>1. u = [s EXCEPT !.obj = O, !.work = Header(s.obj[i])] BY DEF u
  <2>2. Header(s.obj[i]) \in Headers \cup {NoHdr} BY <1>4
  <2> QED BY ONLY <1>3, <2>1, <2>2, s \in Fs DEF Fs
<1>7. Stored(s, i, data) = t BY <1>3, <1>5, <1>6 DEF Stored
<1>8. HdrSize(o) \in Sizes /\ HdrSize(o) # 0 BY <1>2, ObjFacts
<1>9. OfObject(u, i) = OfObject(s, i) BY <1>5 DEF OfObject
<1> HIDE DEF u
<1>10. /\ t \in Fs /\ t.obj = O /\ Same(u, t)
       /\ \A h \in Fds : t.fd[h].size = (IF h \in OfObject(s, i) THEN HdrSize(o)
                                         ELSE s.fd[h].size)
       /\ \A h \in Fds : t.fd[h].off = s.fd[h].off
  BY <1>5, <1>8, <1>9, EventUpdFacts
<1> HIDE DEF t
<1>11. Same(s, t) BY <1>2, <1>3, <1>5, <1>10 DEF Same, SameNames
<1>12. ASSUME NEW h \in Fds, t.fd[h].open
       PROVE  t.fd[h].id \in Ids /\ Fits(t.fd[h], t.obj[t.fd[h].id])
  <2>1. s.fd[h].open /\ s.fd[h].id = t.fd[h].id BY <1>11, <1>12 DEF Same, SameFd, SameNames
  <2>2. s.fd[h].id \in Ids /\ Fits(s.fd[h], s.obj[s.fd[h].id])
    BY <2>1 DEF Good, Opened
  <2>3. CASE s.fd[h].id = i
    <3>1. h \in OfObject(s, i) BY <2>1, <2>3 DEF OfObject
    <3> QED BY <2>1, <2>3, <3>1, <1>3, <1>10 DEF Fits
  <2>4. CASE s.fd[h].id # i
    <3>1. h \notin OfObject(s, i) BY <2>4 DEF OfObject
    <3>2. t.fd[h].size = s.fd[h].size BY <3>1, <1>10
    <3>3. t.obj[t.fd[h].id] = s.obj[s.fd[h].id] BY <2>1, <2>2, <2>4, <1>3, <1>10
    <3> QED BY <2>1, <2>2, <3>2, <3>3 DEF Fits
  <2> QED BY <2>3, <2>4
<1>13. \A h \in OfObject(s, i) : h \in Fds BY DEF OfObject
<1> QED BY <1>2, <1>3, <1>7, <1>10, <1>11, <1>12, <1>13 DEF Good, Opened

(* Laying cells over data that reaches up to them gives data.              *)
LEMMA OverlayType ==
  ASSUME NEW d \in Seq(Cells), NEW b \in Seq(Cells), NEW at \in Nat, at <= Len(d)
  PROVE  /\ Overlay(d, at, b) \in Seq(Cells)
         /\ Len(Overlay(d, at, b)) = Greater(Len(d), at + Len(b))
<1> DEFINE n == Greater(Len(d), at + Len(b))
<1>1. n \in Nat /\ n >= Len(d) /\ n >= at + Len(b) BY DEF Greater
<1>2. n = Len(d) \/ n = at + Len(b) BY DEF Greater
<1>3. ASSUME NEW k \in 1 .. n
      PROVE  (IF k \in at + 1 .. at + Len(b) THEN b[k - at] ELSE d[k]) \in Cells
  <2>1. CASE k \in at + 1 .. at + Len(b)
    <3>1. k - at \in 1 .. Len(b) BY <2>1
    <3> QED BY <2>1, <3>1
  <2>2. CASE k \notin at + 1 .. at + Len(b)
    <3>1. k \in 1 .. Len(d) BY <2>2, <1>2
    <3> QED BY <2>2, <3>1
  <2> QED BY <2>1, <2>2
<1>4. Overlay(d, at, b) = [k \in 1 .. n |-> IF k \in at + 1 .. at + Len(b)
                                            THEN b[k - at] ELSE d[k]]
  BY DEF Overlay
<1> HIDE DEF n
<1>5. Overlay(d, at, b) \in [1 .. n -> Cells] BY <1>3, <1>4
<1>6. Overlay(d, at, b) \in Seq(Cells) /\ Len(Overlay(d, at, b)) = n BY <1>1, <1>5
<1> QED BY <1>6 DEF n

(* What spiffs_object_modify makes of the data is as long as the data.     *)
LEMMA PatchType ==
  ASSUME NEW d \in Seq(Cells), NEW b \in Seq(Cells), NEW at \in Nat
  PROVE  Patch(d, at, b) \in Seq(Cells) /\ Len(Patch(d, at, b)) = Len(d)
<1>1. ASSUME NEW k \in 1 .. Len(d)
      PROVE  (IF k \in at + 1 .. at + Len(b) THEN b[k - at] ELSE d[k]) \in Cells
  <2>1. CASE k \in at + 1 .. at + Len(b)
    <3>1. k - at \in 1 .. Len(b) BY <2>1
    <3> QED BY <2>1, <3>1
  <2> QED BY <2>1
<1>2. Patch(d, at, b) \in [1 .. Len(d) -> Cells] BY <1>1 DEF Patch
<1> QED BY <1>2

(* The cells up to at, known or not.                                       *)
LEMMA UnsizedType ==
  ASSUME NEW d \in Seq(Cells), NEW at \in Nat, NEW u \in Unsized(at - Len(d))
  PROVE  d \o u \in Seq(Cells) /\ at <= Len(d \o u)
<1>1. Len(d) \in Nat OBVIOUS
<1>2. CASE at <= Len(d)
  <2>1. 1 .. (at - Len(d)) = 1 .. 0 BY <1>1, <1>2
  <2>2. u \in [1 .. 0 -> Cells] BY <2>1 DEF Unsized
  <2>3. u \in Seq(Cells) /\ Len(u) = 0 BY <2>2
  <2> QED BY <1>1, <1>2, <2>3
<1>3. CASE at > Len(d)
  <2> DEFINE n == at - Len(d)
  <2>1. n \in Nat /\ at = Len(d) + n BY <1>1, <1>3
  <2>2. u \in [1 .. n -> Cells] BY DEF Unsized
  <2> HIDE DEF n
  <2>3. u \in Seq(Cells) /\ Len(u) = n BY <2>1, <2>2
  <2> QED BY <1>1, <2>1, <2>3
<1> QED BY <1>1, <1>2, <1>3

(* Of sizes, positions, descriptors, pages and names, only sizes differ.   *)
Kept(s, t) == Good(t) /\ Same(s, t) /\ \A g \in Fds : t.fd[g].off = s.fd[g].off

LEMMA KeptSame ==
  ASSUME NEW s, Good(s)
  PROVE  Kept(s, s)
  BY DEF Kept, Same, SameFd, SameNames

LEMMA KeptTwice ==
  ASSUME NEW s, NEW t, NEW u, Kept(s, t), Kept(t, u)
  PROVE  Kept(s, u)
  BY DEF Kept, Same, SameFd, SameNames

LEMMA StoredKept ==
  ASSUME NEW s, Good(s), NEW i \in Ids, NEW data \in Seq(Cells)
  PROVE  Kept(s, Stored(s, i, data)) /\ Stored(s, i, data).obj[i].data = data
  BY StoredGood, Zenon DEF Kept

(* A descriptor that is ahead of its file.                                 *)
LEMMA AheadKept ==
  ASSUME MayFill, NEW s, Good(s), NEW h \in Fds, s.fd[h].open, NEW n \in Nat,
         n >= Len(s.obj[s.fd[h].id].data)
  PROVE  Kept(s, [s EXCEPT !.fd[h].size = n])
<1> DEFINE f == [s.fd[h] EXCEPT !.size = n]
           F == [s.fd EXCEPT ![h] = f]
           t == [s EXCEPT !.fd = F]
           o == s.obj[s.fd[h].id]
<1>1. s \in Fs /\ s.fd \in [Fds -> FdRecs] /\ s.fd[h].id \in Ids BY Parts DEF Good, Opened
<1>2. o \in Objs BY <1>1, Parts
<1>3. f \in FdRecs /\ SameFd(s.fd[h], f) /\ f.size = n /\ f.off = s.fd[h].off
  BY <1>1, FdFacts DEF Sizes
<1>4. F \in [Fds -> FdRecs] /\ F[h] = f /\ \A g \in Fds \ {h} : F[g] = s.fd[g]
  BY <1>1, <1>3
<1>5. [s EXCEPT !.fd[h].size = n] = t BY <1>1 DEF Fs
<1>6. Fits(f, o)
  <2>1. o.data \in Seq(Cells) /\ Len(o.data) \in Nat /\ (o.data = <<>> => Len(o.data) = 0)
    BY <1>2 DEF Objs
  <2>2. CASE n > Len(o.data) BY <1>3, <2>2 DEF Fits
  <2>3. CASE n = Len(o.data) BY <1>3, <2>1, <2>3 DEF Fits, HdrSize
  <2> QED BY <2>1, <2>2, <2>3
<1> HIDE DEF F, f
<1>7. t \in Fs /\ t.obj = s.obj /\ t.fd = F /\ t.cp = s.cp BY <1>1, <1>4, PutFd
<1> HIDE DEF t
<1>8. \A g \in Fds : SameFd(s.fd[g], F[g]) /\ F[g].off = s.fd[g].off
  BY <1>3, <1>4 DEF SameFd
<1>9. ASSUME NEW g \in Fds, t.fd[g].open
      PROVE  t.fd[g].id \in Ids /\ Fits(t.fd[g], t.obj[t.fd[g].id])
  <2>1. CASE g = h BY <1>1, <1>3, <1>4, <1>6, <1>7, <2>1 DEF SameFd
  <2>2. CASE g # h BY <1>4, <1>7, <1>9, <2>2 DEF Good, Opened
  <2> QED BY <2>1, <2>2
<1> QED BY <1>5, <1>7, <1>8, <1>9 DEF Kept, Good, Opened, Same, SameNames

(* spiffs_object_modify, whether it succeeds or fails.                     *)
LEMMA ObjectModifyKept ==
  ASSUME NEW s, Good(s), NEW h \in Fds, s.fd[h].open, NEW off \in Nat,
         NEW b \in Seq(Cells), NEW o \in ObjectModify(s, h, off, b)
  PROVE  Kept(s, o.fs)
<1> DEFINE i == s.fd[h].id
           d == s.obj[i].data
           t == Stored(s, i, Patch(d, off, b))
<1>1. s \in Fs /\ i \in Ids BY DEF Good, Opened
<1>2. d \in Seq(Cells) BY <1>1, Parts, ObjFacts
<1>3. Kept(s, t) BY <1>1, <1>2, PatchType, StoredKept
<1> HIDE DEF d, t
<1>4. o = Outcome(t, TRUE) \/ o = Outcome(s, FALSE) BY DEF ObjectModify, t, d
<1> QED BY <1>3, <1>4, KeptSame, OutcomeFs

(* spiffs_object_append, whether it succeeds, fails, or stops half-way.    *)
LEMMA ObjectAppendKept ==
  ASSUME NEW s, Good(s), NEW h \in Fds, s.fd[h].open, NEW off \in Nat,
         NEW b \in Seq(Cells), NEW o \in ObjectAppend(s, h, off, b)
  PROVE  Kept(s, o.fs)
<1> DEFINE i    == s.fd[h].id
           d    == s.obj[i].data
           at   == IF s.fd[h].size = Undef THEN off ELSE Lesser(off, s.fd[h].size)
           upTo(v) == {Stored(s, i, Overlay(d \o u, at, SubSeq(b, 1, v))) :
                          u \in Unsized(at - Len(d))}
           saved == (IF at = 0 THEN {} ELSE {s}) \cup UNION {upTo(v) : v \in 1 .. Len(b) - 1}
           w     == [s EXCEPT !.work = Header(s.obj[i])]
<1>1. s \in Fs /\ i \in Ids BY DEF Good, Opened
<1>2. s.obj[i] \in Objs /\ d \in Seq(Cells) /\ s.fd[h] \in FdRecs BY <1>1, Parts, ObjFacts
<1>3. at \in Nat
  <2>1. s.fd[h].size \in Nat \cup {Undef} BY <1>2, FdFacts DEF Sizes
  <2> QED BY <2>1 DEF Lesser
<1>4. \/ o \in {Outcome(t, TRUE) : t \in upTo(Len(b))}
      \/ o = Outcome(w, FALSE)
      \/ o = Outcome(s, FALSE)
      \/ MayFill /\ \E t \in saved, n \in 1 .. Len(b) :
           o = Outcome([t EXCEPT !.fd[h].size = Greater(at + n, Len(t.obj[i].data))], FALSE)
  <2> DEFINE done  == {Outcome(t, TRUE) : t \in upTo(Len(b))}
             sized(t, n) == [t EXCEPT !.fd[h].size = Greater(at + n, Len(t.obj[i].data))]
             stops == UNION {{Outcome(sized(t, n), FALSE) : t \in saved} : n \in 1 .. Len(b)}
  <2>1. ObjectAppend(s, h, off, b) =
          done \cup (IF at > Len(d) THEN {Outcome(w, FALSE)} ELSE {})
               \cup (IF MayFill THEN {Outcome(s, FALSE)} \cup stops ELSE {})
    BY Zenon DEF ObjectAppend
  <2>2. o \in stops => \E t \in saved, n \in 1 .. Len(b) :
           o = Outcome([t EXCEPT !.fd[h].size = Greater(at + n, Len(t.obj[i].data))], FALSE)
    <3> HIDE DEF sized, saved
    <3>1. o \in stops => \E n \in 1 .. Len(b) : \E t \in saved : o = Outcome(sized(t, n), FALSE)
      OBVIOUS
    <3> QED BY <3>1 DEF sized
  <2> HIDE DEF done, stops, upTo, saved, w, at, d
  <2>3. o \in done \/ o = Outcome(w, FALSE) \/ o = Outcome(s, FALSE) \/ (MayFill /\ o \in stops)
    BY <2>1
  <2> QED BY <2>2, <2>3, Zenon DEF done
<1> HIDE DEF at, d
<1>5. ASSUME NEW v \in 0 .. Len(b), NEW t \in upTo(v)
      PROVE  Kept(s, t)
  <2>1. PICK u \in Unsized(at - Len(d)) : t = Stored(s, i, Overlay(d \o u, at, SubSeq(b, 1, v)))
    BY <1>5
  <2>2. d \o u \in Seq(Cells) /\ at <= Len(d \o u) BY <1>2, <1>3, UnsizedType
  <2>3. SubSeq(b, 1, v) \in Seq(Cells) BY <1>5
  <2>4. Overlay(d \o u, at, SubSeq(b, 1, v)) \in Seq(Cells) BY <1>3, <2>2, <2>3, OverlayType
  <2> QED BY <1>1, <2>1, <2>4, StoredKept
<1>6. Kept(s, w)
  <2>1. Header(s.obj[i]) \in Headers \cup {NoHdr} BY <1>2, ObjFacts
  <2> QED BY <2>1, PutWork DEF Kept
<1>7. Len(b) \in 0 .. Len(b) /\ 1 .. Len(b) - 1 \subseteq 0 .. Len(b) OBVIOUS
<1>8. ASSUME NEW t \in saved PROVE Kept(s, t)
  <2>1. t = s \/ \E v \in 1 .. Len(b) - 1 : t \in upTo(v) BY <1>8
  <2> HIDE DEF upTo
  <2> QED BY <1>5, <1>7, <2>1, KeptSame
<1> HIDE DEF upTo, saved, w
<1>9. CASE o \in {Outcome(t, TRUE) : t \in upTo(Len(b))} BY <1>5, <1>7, <1>9, OutcomeFs
<1>10. ASSUME MayFill, NEW t \in saved, NEW n \in 1 .. Len(b),
              o = Outcome([t EXCEPT !.fd[h].size = Greater(at + n, Len(t.obj[i].data))], FALSE)
       PROVE  Kept(s, o.fs)
  <2> DEFINE e == t.obj[i].data
             z == Greater(at + n, Len(e))
  <2>1. Kept(s, t) BY <1>8
  <2>2. Good(t) /\ t.fd[h].open /\ t.fd[h].id = i BY <2>1 DEF Kept, Same, SameFd
  <2>3. e \in Seq(Cells) BY <1>1, <2>2, Parts, ObjFacts DEF Good
  <2> HIDE DEF e
  <2>4. z \in Nat /\ z >= Len(e)
    <3>1. Len(e) \in Nat BY <2>3
    <3>2. n \in Nat BY <1>10
    <3> QED BY <1>3, <3>1, <3>2 DEF Greater
  <2> HIDE DEF z
  <2>5. Kept(t, [t EXCEPT !.fd[h].size = z]) BY <1>10, <2>2, <2>4, AheadKept DEF e
  <2>6. o.fs = [t EXCEPT !.fd[h].size = z] BY <1>10 DEF Outcome, z, e
  <2> QED BY <2>1, <2>5, <2>6, KeptTwice
<1> QED BY <1>4, <1>6, <1>9, <1>10, KeptSame, OutcomeFs

(* spiffs_hydro_write, whether it succeeds, fails, or fails half-way.      *)
LEMMA HydroWriteGood ==
  ASSUME NEW s, Good(s), NEW h \in Fds, s.fd[h].open, NEW off \in Nat,
         NEW buf \in Seq(Cells), NEW o \in HydroWrite(s, h, off, buf)
  PROVE  /\ Good(o.fs) /\ Same(s, o.fs)
         /\ \A g \in Fds : o.fs.fd[g].off = s.fd[g].off
<1> DEFINE size == s.fd[h].size
           m    == IF size # Undef /\ off < size THEN Lesser(size - off, Len(buf)) ELSE 0
           rest == SubSeq(buf, m + 1, Len(buf))
           b    == SubSeq(buf, 1, m)
           mods == IF m = 0 THEN {Outcome(s, TRUE)} ELSE ObjectModify(s, h, off, b)
<1>1. PICK q \in mods :
        o \in IF q.ok /\ rest # <<>> THEN ObjectAppend(q.fs, h, off + m, rest) ELSE {q}
  BY DEF HydroWrite
<1>2. size \in Nat \cup {Undef} BY Parts, FdFacts DEF Good, Sizes
<1> HIDE DEF size
<1>3. m \in 0 .. Len(buf)
  <2>1. Len(buf) \in Nat OBVIOUS
  <2>2. CASE size # Undef /\ off < size
    <3>1. size \in Nat /\ size - off \in Nat BY <1>2, <2>2
    <3> QED BY <2>1, <2>2, <3>1 DEF Lesser
  <2> QED BY <2>1, <2>2
<1> HIDE DEF m
<1>4. b \in Seq(Cells) /\ rest \in Seq(Cells) /\ off + m \in Nat BY <1>3
<1> HIDE DEF b, rest
<1>5. Kept(s, q.fs)
  <2>1. CASE m = 0 BY <1>1, <2>1, KeptSame, OutcomeFs
  <2>2. CASE m # 0 BY <1>1, <1>4, <2>2, ObjectModifyKept
  <2> QED BY <2>1, <2>2
<1>6. Good(q.fs) /\ q.fs.fd[h].open BY <1>5 DEF Kept, Same, SameFd
<1>7. Kept(s, o.fs)
  <2>1. CASE o = q BY <1>5, <2>1
  <2>2. CASE o \in ObjectAppend(q.fs, h, off + m, rest)
    <3>1. Kept(q.fs, o.fs) BY <1>4, <1>6, <2>2, ObjectAppendKept
    <3> QED BY <1>5, <3>1, KeptTwice
  <2> QED BY <1>1, <2>1, <2>2
<1> QED BY <1>7 DEF Kept
-----------------------------------------------------------------------------
(* The write cache.                                                        *)
LEMMA CachedSame ==
  ASSUME NEW s, NEW t, Cached(s), Same(s, t)
  PROVE  Cached(t)
<1> USE DEF Cached, Same, SameFd, SameNames
<1>1. Owned(t) BY DEF Owned
<1>2. Single(t) BY DEF Single
<1>3. InUse(t) BY DEF InUse
<1>4. Direct(t) BY DEF Direct, IsDirect
<1>5. Agree(t) BY DEF Agree, IsDirect
<1>6. Named(t) BY DEF Named
<1> QED BY <1>1, <1>2, <1>3, <1>4, <1>5, <1>6

(* Giving one descriptor another cache page.                               *)
LEMMA PutFdCp ==
  ASSUME NEW s, Good(s), NEW h \in Fds, NEW p \in CPages \cup {NoPage}
  PROVE  LET t == [s EXCEPT !.fd[h].cp = p]
         IN  /\ Good(t) /\ Alike(s, t) /\ t.obj = s.obj /\ t.cp = s.cp
             /\ \A g \in Fds : t.fd[g].cp = IF g = h THEN p ELSE s.fd[g].cp
<1> DEFINE f == [s.fd[h] EXCEPT !.cp = p]
           F == [s.fd EXCEPT ![h] = f]
           t == [s EXCEPT !.fd = F]
<1>1. s \in Fs /\ s.fd \in [Fds -> FdRecs] BY Parts DEF Good
<1>2. [s EXCEPT !.fd[h].cp = p] = t BY <1>1 DEF Fs
<1>3. /\ f \in FdRecs /\ f.open = s.fd[h].open /\ f.id = s.fd[h].id
      /\ f.flags = s.fd[h].flags /\ f.size = s.fd[h].size /\ f.off = s.fd[h].off /\ f.cp = p
  BY <1>1, FdFacts
<1> HIDE DEF f
<1>4. F \in [Fds -> FdRecs] /\ F[h] = f /\ \A g \in Fds \ {h} : F[g] = s.fd[g]
  BY <1>1, <1>3
<1> HIDE DEF F
<1>5. t \in Fs /\ t.obj = s.obj /\ t.fd = F /\ t.cp = s.cp BY <1>1, <1>4, PutFd
<1> HIDE DEF t
<1>6. Opened(t) BY <1>3, <1>4, <1>5 DEF Good, Opened, Fits
<1>7. Alike(s, t) BY <1>3, <1>4, <1>5 DEF Alike, SameNames
<1>8. \A g \in Fds : t.fd[g].cp = IF g = h THEN p ELSE s.fd[g].cp BY <1>3, <1>4, <1>5
<1> QED BY <1>2, <1>5, <1>6, <1>7, <1>8 DEF Good

(* A descriptor without a page is given the page its file has, if any.     *)
LEMMA AttachedGood ==
  ASSUME NEW s, Good(s), NEW h \in Fds, s.fd[h].open, NEW t \in Attached(s, h)
  PROVE  /\ Good(t) /\ Alike(s, t) /\ t.cp = s.cp /\ t.obj = s.obj
         /\ Cached(s) => Cached(t) /\ (t.fd[h].cp = NoPage => NoPageOf(t, t.fd[h].id))
<1> DEFINE i == s.fd[h].id
<1>1. s \in Fs /\ i \in Ids BY DEF Good, Opened
<1>2. CASE s.fd[h].cp # NoPage
  BY <1>2 DEF Attached, Alike, SameNames
<1>3. CASE s.fd[h].cp = NoPage
  <2>1. PICK p \in GetByFd(s, h) : t = [s EXCEPT !.fd[h].cp = p] BY <1>3 DEF Attached
  <2>2. \/ p = NoPage /\ NoPageOf(s, i)
        \/ p \in CPages /\ s.cp[p].id = i
    BY <2>1 DEF GetByFd, PagesOf, NoPageOf
  <2>3. /\ Good(t) /\ Alike(s, t) /\ t.obj = s.obj /\ t.cp = s.cp
        /\ \A g \in Fds : t.fd[g].cp = IF g = h THEN p ELSE s.fd[g].cp
    BY <2>1, <2>2, PutFdCp
  <2>4. t.fd[h].id = i /\ t.fd[h].open BY <2>3 DEF Alike, SameNames
  <2>5. ASSUME Cached(s) PROVE Cached(t)
    <3> USE <2>5, <2>3 DEF Cached, Alike, SameNames
    <3>1. Owned(t) BY <2>2, <2>4 DEF Owned
    <3>2. Single(t) BY DEF Single
    <3>3. InUse(t) BY DEF InUse
    <3>4. Direct(t) BY DEF Direct, IsDirect
    <3>5. Agree(t) BY DEF Agree, IsDirect
    <3>6. Named(t) BY DEF Named
    <3> QED BY <3>1, <3>2, <3>3, <3>4, <3>5, <3>6
  <2>6. t.fd[h].cp = NoPage => NoPageOf(t, i)
    BY <2>2, <2>3, NamesAssumption DEF NoPageOf
  <2> QED BY <2>3, <2>4, <2>5, <2>6
<1> QED BY <1>2, <1>3

(* spiffs_cache_fd_release: no descriptor keeps the page.                  *)
LEMMA ReleaseGood ==
  ASSUME NEW s, Good(s), NEW p \in CPages
  PROVE  LET t == Release(s, p)
         IN  /\ Good(t) /\ Alike(s, t) /\ t.obj = s.obj
             /\ \A q \in CPages : t.cp[q].id = IF q = p THEN NoId ELSE s.cp[q].id
             /\ \A h \in Fds : t.fd[h].cp = IF s.fd[h].open /\ s.fd[h].cp = p THEN NoPage
                                            ELSE s.fd[h].cp
             /\ Cached(s) => Cached(t)
<1> DEFINE F == [h \in Fds |-> IF s.fd[h].open /\ s.fd[h].cp = p
                               THEN [s.fd[h] EXCEPT !.cp = NoPage] ELSE s.fd[h]]
           c == IF \E h \in Fds : F[h].cp = p THEN [s.cp[p] EXCEPT !.id = NoId] ELSE BlankPage
           C == [s.cp EXCEPT ![p] = c]
           t == [s EXCEPT !.fd = F, !.cp = C]
<1>1. /\ s \in Fs /\ s.fd \in [Fds -> FdRecs] /\ s.cp \in [CPages -> CpRecs]
  BY Parts DEF Good
<1>2. [s EXCEPT !.fd = F, !.cp[p] = c] = t BY <1>1 DEF Fs
<1>3. Release(s, p) = t BY <1>2 DEF Release
<1>4. F \in [Fds -> FdRecs] BY <1>1, FdFacts
<1>5. \A h \in Fds : /\ F[h].open = s.fd[h].open /\ F[h].id = s.fd[h].id
                     /\ F[h].flags = s.fd[h].flags /\ F[h].off = s.fd[h].off
                     /\ F[h].size = s.fd[h].size
                     /\ F[h].cp = IF s.fd[h].open /\ s.fd[h].cp = p THEN NoPage
                                  ELSE s.fd[h].cp
  BY <1>1, FdFacts
<1> HIDE DEF F
<1>6. c \in CpRecs /\ c.id = NoId
  <2>1. BlankPage \in CpRecs /\ BlankPage.id = NoId BY DEF BlankPage, CpRecs
  <2>2. [s.cp[p] EXCEPT !.id = NoId] \in CpRecs /\ [s.cp[p] EXCEPT !.id = NoId].id = NoId
    BY <1>1 DEF CpRecs
  <2> QED BY <2>1, <2>2
<1> HIDE DEF c
<1>7. C \in [CPages -> CpRecs] /\ \A q \in CPages : C[q].id = IF q = p THEN NoId ELSE s.cp[q].id
  BY <1>1, <1>6
<1> HIDE DEF C
<1>8. t \in Fs /\ t.obj = s.obj /\ t.fd = F /\ t.cp = C BY <1>1, <1>4, <1>7 DEF Fs
<1> HIDE DEF t
<1>9. Opened(t) BY <1>5, <1>8 DEF Good, Opened, Fits
<1>10. Alike(s, t) BY <1>5, <1>8 DEF Alike, SameNames
<1>11. ASSUME Cached(s) PROVE Cached(t)
  <2> USE <1>11, <1>5, <1>7, <1>8 DEF Cached
  <2>1. Owned(t)
    <3> SUFFICES ASSUME NEW h \in Fds, t.fd[h].cp # NoPage
                 PROVE  t.fd[h].open /\ t.cp[t.fd[h].cp].id = t.fd[h].id
      BY DEF Owned
    <3>1. s.fd[h].cp # NoPage /\ t.fd[h].cp = s.fd[h].cp OBVIOUS
    <3>2. s.fd[h].open /\ s.cp[s.fd[h].cp].id = s.fd[h].id BY <3>1 DEF Owned
    <3>3. s.fd[h].cp # p BY <3>1, <3>2
    <3>4. s.fd[h].cp \in CPages BY <3>1, <1>1, FdFacts
    <3> QED BY <3>1, <3>2, <3>3, <3>4
  <2>2. Single(t) BY DEF Single
  <2>3. InUse(t) BY DEF InUse
  <2>4. Direct(t)
    <3> SUFFICES ASSUME NEW h \in Fds, NEW q \in CPages, t.fd[h].open, IsDirect(t.fd[h])
                 PROVE  t.cp[q].id # t.fd[h].id
      BY DEF Direct
    <3>1. t.fd[h].id \in Ids BY DEF Good, Opened
    <3>2. s.cp[q].id # s.fd[h].id BY DEF Direct, IsDirect
    <3> QED BY <3>1, <3>2, NamesAssumption
  <2>5. Agree(t) BY DEF Agree, IsDirect
  <2>6. Named(t) BY DEF Named
  <2> QED BY <2>1, <2>2, <2>3, <2>4, <2>5, <2>6
<1>12. \A h \in Fds : t.fd[h].cp = IF s.fd[h].open /\ s.fd[h].cp = p THEN NoPage
                                   ELSE s.fd[h].cp
  BY <1>5, <1>8
<1>13. \A q \in CPages : t.cp[q].id = IF q = p THEN NoId ELSE s.cp[q].id BY <1>7, <1>8
<1> QED BY <1>3, <1>8, <1>9, <1>10, <1>11, <1>12, <1>13 DEF Good

(* A cached write that is written back, or lost on a full flash, leaves no *)
(* write page of its file.                                                 *)
LEMMA WriteBackGood ==
  ASSUME NEW s, Good(s), NEW h \in Fds, s.fd[h].open, s.fd[h].cp # NoPage,
         NEW o \in WriteBack(s, h)
  PROVE  /\ Good(o.fs) /\ Alike(s, o.fs) /\ o.fs.fd[h].cp = NoPage
         /\ Cached(s) => Cached(o.fs) /\ NoPageOf(o.fs, s.fd[h].id)
<1> DEFINE p == s.fd[h].cp
           i == s.fd[h].id
<1>1. s \in Fs /\ s.fd[h] \in FdRecs /\ i \in Ids BY Parts DEF Good, Opened
<1>2. p \in CPages BY <1>1, FdFacts
<1>3. s.cp[p].off \in Nat /\ s.cp[p].data \in Seq(Cells)
  <2>1. s.cp[p] \in CpRecs BY <1>1, <1>2, Parts
  <2> QED BY <2>1 DEF CpRecs
<1>4. PICK w \in HydroWrite(s, h, s.cp[p].off, s.cp[p].data) :
         o = Outcome(Release(w.fs, p), w.ok)
  BY DEF WriteBack
<1>5. Good(w.fs) /\ Same(s, w.fs) /\ \A g \in Fds : w.fs.fd[g].off = s.fd[g].off
  BY <1>3, <1>4, HydroWriteGood
<1>6. o.fs = Release(w.fs, p) BY <1>4 DEF Outcome
<1>7. w.fs.fd[h].open /\ w.fs.fd[h].cp = p /\ w.fs.cp = s.cp BY <1>5, SMTT(60) DEF Same, SameFd, SameNames
<1>8. /\ Good(o.fs) /\ Alike(w.fs, o.fs) /\ o.fs.fd[h].cp = NoPage
      /\ Cached(w.fs) => Cached(o.fs)
      /\ \A q \in CPages : o.fs.cp[q].id = IF q = p THEN NoId ELSE s.cp[q].id
  BY <1>2, <1>5, <1>6, <1>7, ReleaseGood, SMTT(60)
<1>9. Alike(s, o.fs) BY <1>5, <1>8 DEF Alike, Same, SameFd, SameNames
<1>10. ASSUME Cached(s) PROVE Cached(o.fs) /\ NoPageOf(o.fs, i)
  <2>1. Cached(o.fs) BY <1>10, <1>5, <1>8, CachedSame
  <2>2. s.cp[p].id = i /\ i # NoId BY <1>10, <1>1, NamesAssumption DEF Cached, Owned
  <2>3. \A q \in CPages : s.cp[q].id = i => q = p BY <2>2, <1>2, <1>10 DEF Cached, Single
  <2> QED BY <2>1, <2>2, <2>3, <1>8 DEF NoPageOf
<1> QED BY <1>8, <1>9, <1>10

(* spiffs_fflush_cache.  A SPIFFS_DIRECT descriptor skips it, and its file *)
(* has no write page if callers are careful.                               *)
LEMMA FlushCacheGood ==
  ASSUME NEW s, Good(s), NEW h \in Fds, s.fd[h].open, NEW o \in FlushCache(s, h)
  PROVE  /\ Good(o.fs) /\ Alike(s, o.fs)
         /\ Cached(s) => /\ Cached(o.fs) /\ o.fs.fd[h].cp = NoPage
                         /\ NoPageOf(o.fs, s.fd[h].id)
<1>0. Alike(s, s) BY DEF Alike, SameNames
<1>1. CASE "DIRECT" \in s.fd[h].flags
  <2>1. o.fs = s BY <1>1 DEF FlushCache, Outcome
  <2>2. ASSUME Cached(s) PROVE NoPageOf(s, s.fd[h].id)
    BY <1>1, <2>2 DEF Cached, Direct, IsDirect, NoPageOf
  <2>3. ASSUME Cached(s) PROVE s.fd[h].cp = NoPage
    <3>1. s.fd[h] \in FdRecs BY Parts DEF Good
    <3>2. s.fd[h].cp \in CPages \cup {NoPage} BY <3>1, FdFacts
    <3> QED BY <2>2, <2>3, <3>2 DEF Cached, Owned, NoPageOf
  <2> QED BY <1>0, <2>1, <2>2, <2>3
<1>2. CASE "DIRECT" \notin s.fd[h].flags
  <2>1. PICK t \in Attached(s, h) :
          o \in IF t.fd[h].cp = NoPage THEN {Outcome(t, TRUE)} ELSE WriteBack(t, h)
    BY <1>2 DEF FlushCache
  <2>2. /\ Good(t) /\ Alike(s, t)
        /\ Cached(s) => Cached(t) /\ (t.fd[h].cp = NoPage => NoPageOf(t, t.fd[h].id))
    BY <2>1, AttachedGood
  <2>3. t.fd[h].open /\ t.fd[h].id = s.fd[h].id BY <2>2 DEF Alike, SameNames
  <2>4. CASE t.fd[h].cp = NoPage
    <3>1. o = Outcome(t, TRUE) BY <2>1, <2>4
    <3>2. o.fs = t BY <3>1, OutcomeFs
    <3> QED BY <2>2, <2>3, <2>4, <3>2
  <2>5. CASE t.fd[h].cp # NoPage
    <3>1. o \in WriteBack(t, h) BY <2>1, <2>5
    <3>2. /\ Good(o.fs) /\ Alike(t, o.fs) /\ o.fs.fd[h].cp = NoPage
          /\ Cached(t) => Cached(o.fs) /\ NoPageOf(o.fs, t.fd[h].id)
      BY <2>2, <2>3, <2>5, <3>1, WriteBackGood
    <3>3. Alike(s, o.fs) BY <2>2, <3>2 DEF Alike, SameNames
    <3> QED BY <2>2, <2>3, <3>2, <3>3
  <2> QED BY <2>4, <2>5
<1> QED BY <1>1, <1>2
-----------------------------------------------------------------------------
(* Opening, closing, truncating, removing and creating.                    *)

(* Replacing one descriptor.                                               *)
LEMMA PutOneFd ==
  ASSUME NEW s \in Fs, NEW h \in Fds, NEW f \in FdRecs
  PROVE  LET t == [s EXCEPT !.fd[h] = f]
         IN  /\ t \in Fs /\ t.obj = s.obj /\ t.cp = s.cp
             /\ t.fd[h] = f /\ \A g \in Fds \ {h} : t.fd[g] = s.fd[g]
<1> DEFINE F == [s.fd EXCEPT ![h] = f]
           t == [s EXCEPT !.fd = F]
<1>1. s.fd \in [Fds -> FdRecs] BY Parts
<1>2. F \in [Fds -> FdRecs] /\ F[h] = f /\ \A g \in Fds \ {h} : F[g] = s.fd[g] BY <1>1
<1>3. [s EXCEPT !.fd[h] = f] = t BY <1>1 DEF Fs
<1> HIDE DEF F
<1>4. t \in Fs /\ t.obj = s.obj /\ t.fd = F /\ t.cp = s.cp BY <1>2, PutFd
<1> HIDE DEF t
<1> QED BY <1>2, <1>3, <1>4

(* A closed slot is opened: its cache_page must already be none.           *)
LEMMA OpenFdGood ==
  ASSUME NEW s, Good(s), NEW h \in Fds, ~s.fd[h].open, NEW i \in Ids, NEW flags \in SUBSET Flags
  PROVE  LET t == OpenFd(s, h, i, flags)
         IN  /\ Good(t) /\ t.obj = s.obj /\ t.cp = s.cp
             /\ t.fd[h].open /\ t.fd[h].id = i /\ t.fd[h].cp = s.fd[h].cp
             /\ \A g \in Fds \ {h} : t.fd[g] = s.fd[g]
             /\ Cached(s) /\ s.obj[i].name # NoName
                /\ (\A g \in OfObject(s, i) :
                       ("DIRECT" \in s.fd[g].flags) <=> ("DIRECT" \in flags))
                  => Cached(t)
<1> DEFINE f == [open |-> TRUE, id |-> i, size |-> HdrSize(s.obj[i]), off |-> 0,
                 flags |-> flags, cp |-> s.fd[h].cp]
           t == OpenFd(s, h, i, flags)
<1>1. s \in Fs /\ s.obj[i] \in Objs /\ s.fd[h] \in FdRecs BY Parts DEF Good
<1>2. HdrSize(s.obj[i]) \in Sizes /\ s.fd[h].cp \in CPages \cup {NoPage}
  BY <1>1, ObjFacts, FdFacts
<1>3. /\ f \in FdRecs /\ f.open /\ f.id = i /\ f.size = HdrSize(s.obj[i])
      /\ f.flags = flags /\ f.cp = s.fd[h].cp
  BY <1>2 DEF FdRecs, Sizes
<1>4. t = [s EXCEPT !.fd[h] = f] BY DEF OpenFd
<1> HIDE DEF f, t
<1>5. /\ t \in Fs /\ t.obj = s.obj /\ t.cp = s.cp
      /\ t.fd[h] = f /\ \A g \in Fds \ {h} : t.fd[g] = s.fd[g]
  BY <1>1, <1>3, <1>4, PutOneFd
<1>6. Opened(t) BY <1>3, <1>5 DEF Good, Opened, Fits
<1>7. ASSUME Cached(s), s.obj[i].name # NoName,
             \A g \in OfObject(s, i) :
                           ("DIRECT" \in s.fd[g].flags) <=> ("DIRECT" \in flags)
      PROVE  Cached(t)
  <2> USE <1>3, <1>5, <1>7 DEF Cached
  <2>0. s.fd[h].cp = NoPage BY DEF Owned
  <2>1. Owned(t) BY <2>0 DEF Owned
  <2>2. Single(t) BY DEF Single
  <2>3. InUse(t)
    <3> SUFFICES ASSUME NEW p \in CPages, t.cp[p].id # NoId
                 PROVE  \E g \in Fds : t.fd[g].open /\ t.fd[g].id = t.cp[p].id
      BY DEF InUse
    <3>1. PICK g \in Fds : s.fd[g].open /\ s.fd[g].id = s.cp[p].id BY DEF InUse
    <3>2. g # h BY <3>1
    <3> QED BY <3>1, <3>2
  <2>4. Direct(t)
    <3> SUFFICES ASSUME NEW g \in Fds, NEW p \in CPages, t.fd[g].open, IsDirect(t.fd[g]),
                        t.cp[p].id = t.fd[g].id
                 PROVE  FALSE
      BY DEF Direct
    <3>1. CASE g # h BY <3>1 DEF Direct
    <3>2. CASE g = h
      <4>1. s.cp[p].id = i /\ i # NoId /\ "DIRECT" \in flags
        BY <3>2, NamesAssumption DEF IsDirect
      <4>2. PICK k \in Fds : s.fd[k].open /\ s.fd[k].id = i BY <4>1 DEF InUse
      <4>3. IsDirect(s.fd[k]) BY <4>1, <4>2 DEF OfObject, IsDirect
      <4> QED BY <4>1, <4>2, <4>3 DEF Direct
    <3> QED BY <3>1, <3>2
  <2>5. Agree(t)
    <3> SUFFICES ASSUME NEW g \in Fds, NEW k \in Fds, t.fd[g].open, t.fd[k].open,
                        t.fd[g].id = t.fd[k].id
                 PROVE  IsDirect(t.fd[g]) <=> IsDirect(t.fd[k])
      BY DEF Agree
    <3>1. CASE g # h /\ k # h BY <3>1 DEF Agree
    <3>2. CASE g = h /\ k # h BY <3>2 DEF OfObject, IsDirect
    <3>3. CASE g # h /\ k = h BY <3>3 DEF OfObject, IsDirect
    <3> QED BY <3>1, <3>2, <3>3
  <2>6. Named(t) BY DEF Named
  <2> QED BY <2>1, <2>2, <2>3, <2>4, <2>5, <2>6
<1>8. t.fd[h].open /\ t.fd[h].id = i /\ t.fd[h].cp = s.fd[h].cp BY <1>3, <1>5
<1> QED BY <1>5, <1>6, <1>7, <1>8 DEF t, Good

(* A returned slot is closed and keeps its cache_page.                     *)
LEMMA ClosedFdFacts ==
  ASSUME NEW p \in CPages \cup {NoPage}
  PROVE  ClosedFd(p) \in FdRecs /\ ~ClosedFd(p).open /\ ClosedFd(p).cp = p
  BY DEF ClosedFd, FdRecs

(* A descriptor may be closed when it has no page and every write page has *)
(* another descriptor.                                                     *)
LEMMA CloseFdGood ==
  ASSUME NEW s, Good(s), NEW h \in Fds
  PROVE  LET t == CloseFd(s, h)
         IN  /\ Good(t) /\ t.obj = s.obj
             /\ Cached(s) /\ s.fd[h].cp = NoPage
                /\ (\A p \in CPages : s.cp[p].id # NoId => \E g \in Fds \ {h} :
                       s.fd[g].open /\ s.fd[g].id = s.cp[p].id)
                  => Cached(t)
<1> DEFINE f == ClosedFd(s.fd[h].cp)
           t == CloseFd(s, h)
<1>1. s \in Fs /\ s.fd[h] \in FdRecs BY Parts DEF Good
<1>2. f \in FdRecs /\ ~f.open /\ f.cp = s.fd[h].cp BY <1>1, FdFacts, ClosedFdFacts
<1>3. t = [s EXCEPT !.fd[h] = f] BY DEF CloseFd
<1> HIDE DEF f, t
<1>4. /\ t \in Fs /\ t.obj = s.obj /\ t.cp = s.cp
      /\ t.fd[h] = f /\ \A g \in Fds \ {h} : t.fd[g] = s.fd[g]
  BY <1>1, <1>2, <1>3, PutOneFd
<1>5. Opened(t) BY <1>2, <1>4 DEF Good, Opened
<1>6. ASSUME Cached(s), s.fd[h].cp = NoPage,
             \A p \in CPages : s.cp[p].id # NoId => \E g \in Fds \ {h} :
                s.fd[g].open /\ s.fd[g].id = s.cp[p].id
      PROVE  Cached(t)
  <2> USE <1>2, <1>4, <1>6 DEF Cached
  <2>1. Owned(t) BY DEF Owned
  <2>2. Single(t) BY DEF Single
  <2>3. InUse(t) BY DEF InUse
  <2>4. Direct(t) BY DEF Direct
  <2>5. Agree(t) BY DEF Agree
  <2>6. Named(t) BY DEF Named
  <2> QED BY <2>1, <2>2, <2>3, <2>4, <2>5, <2>6
<1> QED BY <1>4, <1>5, <1>6 DEF t, Good

(* Nor does a flushed descriptor leave a write page without an owner.      *)
LEMMA FlushedClose ==
  ASSUME NEW s, Good(s), NEW h \in Fds, Cached(s), s.fd[h].cp = NoPage, NoPageOf(s, s.fd[h].id)
  PROVE  Cached(CloseFd(s, h))
<1>1. ASSUME NEW p \in CPages, s.cp[p].id # NoId
      PROVE  \E g \in Fds \ {h} : s.fd[g].open /\ s.fd[g].id = s.cp[p].id
  <2>1. PICK g \in Fds : s.fd[g].open /\ s.fd[g].id = s.cp[p].id BY <1>1 DEF Cached, InUse
  <2>2. g # h BY <2>1 DEF NoPageOf
  <2> QED BY <2>1, <2>2
<1> QED BY <1>1, CloseFdGood

(* spiffs_object_truncate to zero: whatever header is written, the object  *)
(* is empty and its descriptors know.                                      *)
LEMMA EmptiedGood ==
  ASSUME NEW s, Good(s), NEW h \in Fds, s.fd[h].open, NEW hdr \in Headers
  PROVE  /\ Good(Emptied(s, h, hdr))
         /\ hdr.name = s.obj[s.fd[h].id].name => Same(s, Emptied(s, h, hdr))
<1> DEFINE i == s.fd[h].id
           o == [name |-> hdr.name, data |-> <<>>, live |-> hdr.live]
           O == [s.obj EXCEPT ![i] = o]
           u == [s EXCEPT !.obj = O, !.work = hdr]
           v == EventUpd(u, i, Undef)
           f == [v.fd[h] EXCEPT !.size = 0]
           t == [v EXCEPT !.fd[h] = f]
<1>1. s \in Fs /\ s.obj \in [Ids -> Objs] /\ i \in Ids BY Parts DEF Good, Opened
<1>2. o \in Objs /\ o.data = <<>> /\ HdrSize(o) = Undef /\ o.name = hdr.name
  <2>1. <<>> \in Seq(Cells) OBVIOUS
  <2>2. o \in Objs /\ o.data = <<>> /\ o.name = hdr.name BY <2>1 DEF Objs, Headers
  <2> QED BY <2>2 DEF HdrSize
<1>3. [s EXCEPT !.obj[i] = o, !.work = hdr] = u BY <1>1 DEF Fs
<1> HIDE DEF o
<1>4. O \in [Ids -> Objs] /\ O[i] = o /\ \A j \in Ids \ {i} : O[j] = s.obj[j] BY <1>1, <1>2
<1> HIDE DEF O
<1>5. hdr \in Headers \cup {NoHdr} OBVIOUS
<1>6. u \in Fs /\ u.obj = O /\ u.fd = s.fd /\ u.cp = s.cp BY ONLY <1>1, <1>4, <1>5 DEF Fs
<1>7. Emptied(s, h, hdr) = [v EXCEPT !.fd[h].size = 0] BY <1>3 DEF Emptied, o
<1> HIDE DEF u
<1>8. OfObject(u, i) = OfObject(s, i) BY <1>6 DEF OfObject
<1>9. /\ v \in Fs /\ v.obj = O /\ Same(u, v)
      /\ \A g \in Fds : v.fd[g].size = IF g \in OfObject(s, i) THEN Undef ELSE s.fd[g].size
  BY <1>6, <1>8, EventUpdFacts DEF Sizes, Undef
<1> HIDE DEF v
<1>10. v.fd[h] \in FdRecs /\ v.fd \in [Fds -> FdRecs] BY <1>9, Parts
<1>11. f \in FdRecs /\ SameFd(v.fd[h], f) /\ f.size = 0 BY <1>10, FdFacts, SMTT(60) DEF Sizes
<1>12. Emptied(s, h, hdr) = t BY <1>7, <1>9, <1>10 DEF Fs
<1> HIDE DEF f
<1>13. /\ t \in Fs /\ t.obj = O /\ t.cp = v.cp
       /\ t.fd[h] = f /\ \A g \in Fds \ {h} : t.fd[g] = v.fd[g]
  BY <1>9, <1>11, PutOneFd
<1> HIDE DEF t
<1>14. /\ \A g \in Fds : SameFd(s.fd[g], t.fd[g])
       /\ hdr.name = s.obj[i].name => Same(s, t)
  <2>1. t.cp = s.cp /\ \A g \in Fds : SameFd(s.fd[g], t.fd[g])
    BY <1>6, <1>9, <1>11, <1>13 DEF Same, SameFd
  <2>2. hdr.name = s.obj[i].name => SameNames(s, t) BY <1>2, <1>4, <1>13 DEF SameNames
  <2> QED BY <2>1, <2>2 DEF Same
<1>15. ASSUME NEW g \in Fds, t.fd[g].open
       PROVE  t.fd[g].id \in Ids /\ Fits(t.fd[g], t.obj[t.fd[g].id])
  <2>1. s.fd[g].open /\ s.fd[g].id = t.fd[g].id BY <1>14, <1>15 DEF SameFd
  <2>2. s.fd[g].id \in Ids /\ Fits(s.fd[g], s.obj[s.fd[g].id]) BY <2>1 DEF Good, Opened
  <2>3. CASE g = h
    <3>1. t.fd[g].size = 0 BY <2>3, <1>11, <1>13
    <3>2. t.obj[t.fd[g].id] = o BY <2>1, <2>3, <1>4, <1>13
    <3> QED BY <2>1, <2>2, <3>1, <3>2, <1>2 DEF Fits
  <2>4. CASE g # h /\ s.fd[g].id = i
    <3>1. g \in OfObject(s, i) BY <2>1, <2>4 DEF OfObject
    <3>2. t.fd[g].size = Undef BY <2>4, <3>1, <1>9, <1>13
    <3>3. t.obj[t.fd[g].id] = o BY <2>1, <2>4, <1>4, <1>13
    <3> QED BY <2>1, <2>2, <3>2, <3>3, <1>2 DEF Fits
  <2>5. CASE g # h /\ s.fd[g].id # i
    <3>1. g \notin OfObject(s, i) BY <2>5 DEF OfObject
    <3>2. t.fd[g].size = s.fd[g].size BY <2>5, <3>1, <1>9, <1>13
    <3>3. t.obj[t.fd[g].id] = s.obj[s.fd[g].id] BY <2>1, <2>2, <2>5, <1>4, <1>13, SMTT(60)
    <3> QED BY <2>1, <2>2, <3>2, <3>3 DEF Fits
  <2> QED BY <2>3, <2>4, <2>5
<1> QED BY <1>12, <1>13, <1>14, <1>15 DEF Good, Opened

(* spiffs_object_truncate; a file with data keeps its own header.          *)
LEMMA TruncateGood ==
  ASSUME NEW s, Good(s), NEW h \in Fds, s.fd[h].open, NEW o \in Truncate(s, h)
  PROVE  Good(o.fs) /\ (s.obj[s.fd[h].id].data # <<>> => Same(s, o.fs))
<1> DEFINE i == s.fd[h].id
<1>1. s \in Fs /\ i \in Ids BY DEF Good, Opened
<1>2. s.obj[i] \in Objs /\ s.work \in Headers \cup {NoHdr} BY <1>1, Parts
<1>3. Header(s.obj[i]) \in Headers /\ Header(s.obj[i]).name = s.obj[i].name
  BY <1>2, ObjFacts DEF Header
<1>4. Same(s, s) BY DEF Same, SameFd, SameNames
<1>5. Good([s EXCEPT !.work = NoHdr]) /\ Same(s, [s EXCEPT !.work = NoHdr]) BY PutWork
<1>6. \/ o = Outcome(s, FALSE) \/ o = Outcome(Emptied(s, h, Header(s.obj[i])), TRUE)
      \/ o = Outcome([s EXCEPT !.work = NoHdr], FALSE)
      \/ (s.work # NoHdr /\ s.obj[i].data = <<>> /\ o = Outcome(Emptied(s, h, s.work), TRUE))
  <2> DEFINE full == IF MayFill THEN {Outcome(s, FALSE)} ELSE {}
             tried(w) == IF w = NoHdr THEN Outcome([s EXCEPT !.work = NoHdr], FALSE)
                         ELSE Outcome(Emptied(s, h, w), TRUE)
  <2>1. \A x \in full : x = Outcome(s, FALSE) OBVIOUS
  <2>2. Truncate(s, h) = IF s.obj[i].data # <<>>
                         THEN full \cup {Outcome(Emptied(s, h, Header(s.obj[i])), TRUE)}
                         ELSE full \cup {tried(w) : w \in {s.work, NoHdr}}
    BY DEF Truncate
  <2> HIDE DEF full
  <2>3. CASE s.obj[i].data # <<>> BY <2>1, <2>2, <2>3
  <2>4. CASE s.obj[i].data = <<>>
    <3>1. o \in full \/ \E w \in {s.work, NoHdr} : o = tried(w) BY <2>2, <2>4
    <3> QED BY <2>1, <2>4, <3>1
  <2> QED BY <2>3, <2>4
<1>7. o.fs = s \/ o.fs = Emptied(s, h, Header(s.obj[i])) \/ o.fs = [s EXCEPT !.work = NoHdr]
      \/ (s.work \in Headers /\ s.obj[i].data = <<>> /\ o.fs = Emptied(s, h, s.work))
  BY <1>2, <1>6, OutcomeFs
<1> QED BY <1>3, <1>4, <1>5, <1>7, EmptiedGood

(* Removing an object that has no write page.  The slot SPIFFS_remove has  *)
(* taken for it need not agree with the object's other descriptors.        *)
LEMMA RemovedGood ==
  ASSUME NEW s, Good(s), NEW i \in Ids
  PROVE  /\ Good(Removed(s, i))
         /\ CachedBut(s, i) /\ NoPageOf(s, i) => Cached(Removed(s, i))
<1> DEFINE w == IF s.obj[i].data = <<>> THEN s.work ELSE [name |-> s.obj[i].name, live |-> FALSE]
           O == [s.obj EXCEPT ![i] = NoObj]
           u == [s EXCEPT !.obj = O, !.work = w]
           F == [h \in Fds |-> IF h \in OfObject(u, i) THEN ClosedFd(u.fd[h].cp) ELSE u.fd[h]]
           t == [u EXCEPT !.fd = F]
<1>1. /\ s \in Fs /\ s.obj \in [Ids -> Objs] /\ s.fd \in [Fds -> FdRecs]
      /\ s.work \in Headers \cup {NoHdr}
  BY Parts DEF Good
<1>2. NoObj \in Objs
  <2>1. <<>> \in Seq(Cells) OBVIOUS
  <2> QED BY <2>1 DEF NoObj, Objs
<1>3. w \in Headers \cup {NoHdr} BY <1>1 DEF Objs, Headers
<1>4. [s EXCEPT !.obj[i] = NoObj,
                !.work = IF s.obj[i].data = <<>> THEN @
                         ELSE [name |-> s.obj[i].name, live |-> FALSE]] = u
  BY <1>1 DEF Fs
<1>5. O \in [Ids -> Objs] /\ \A j \in Ids \ {i} : O[j] = s.obj[j] BY <1>1, <1>2
<1>6. Removed(s, i) = t BY <1>4 DEF Removed, EventDel
<1> HIDE DEF O, w
<1>7. u \in Fs /\ u.obj = O /\ u.fd = s.fd /\ u.cp = s.cp BY ONLY <1>1, <1>3, <1>5 DEF Fs
<1> HIDE DEF u
<1>8. OfObject(u, i) = OfObject(s, i) BY <1>7 DEF OfObject
<1>9. \A h \in Fds : s.fd[h] \in FdRecs /\ s.fd[h].cp \in CPages \cup {NoPage}
  BY <1>1, FdFacts
<1>10. \A h \in Fds : /\ F[h] \in FdRecs /\ F[h].cp = s.fd[h].cp
                      /\ F[h].open => F[h] = s.fd[h] /\ h \notin OfObject(s, i)
                      /\ h \notin OfObject(s, i) => F[h] = s.fd[h]
  BY <1>7, <1>8, <1>9, ClosedFdFacts
<1>11. F \in [Fds -> FdRecs] BY <1>10
<1> HIDE DEF F
<1>12. t \in Fs /\ t.obj = O /\ t.fd = F /\ t.cp = s.cp BY <1>7, <1>11, PutFd
<1> HIDE DEF t
<1>13. Opened(t)
  <2> SUFFICES ASSUME NEW h \in Fds, t.fd[h].open
               PROVE  t.fd[h].id \in Ids /\ Fits(t.fd[h], t.obj[t.fd[h].id])
    BY DEF Opened
  <2>1. t.fd[h] = s.fd[h] /\ s.fd[h].open /\ s.fd[h].id # i
    BY <1>10, <1>12 DEF OfObject
  <2>2. s.fd[h].id \in Ids /\ Fits(s.fd[h], s.obj[s.fd[h].id]) BY <2>1 DEF Good, Opened
  <2> QED BY <2>1, <2>2, <1>5, <1>12
<1>14. ASSUME CachedBut(s, i), NoPageOf(s, i) PROVE Cached(t)
  <2> USE <1>10, <1>12, <1>14 DEF Cached, CachedBut
  <2>1. Owned(t)
    <3> SUFFICES ASSUME NEW h \in Fds, t.fd[h].cp # NoPage
                 PROVE  t.fd[h].open /\ t.cp[t.fd[h].cp].id = t.fd[h].id
      BY DEF Owned
    <3>1. s.fd[h].open /\ s.cp[s.fd[h].cp].id = s.fd[h].id BY DEF Owned
    <3>2. s.fd[h].id # i BY <3>1, <1>9 DEF NoPageOf
    <3>3. t.fd[h] = s.fd[h] BY <3>2 DEF OfObject
    <3> QED BY <3>1, <3>3
  <2>2. Single(t) BY DEF Single
  <2>3. InUse(t) BY DEF InUse, OfObject, NoPageOf
  <2>4. Direct(t) BY DEF Direct
  <2>5. Agree(t)
    <3> SUFFICES ASSUME NEW g \in Fds, NEW h \in Fds, t.fd[g].open, t.fd[h].open,
                        t.fd[g].id = t.fd[h].id
                 PROVE  IsDirect(t.fd[g]) <=> IsDirect(t.fd[h])
      BY DEF Agree
    <3>1. t.fd[g] = s.fd[g] /\ t.fd[h] = s.fd[h] /\ g \notin OfObject(s, i) OBVIOUS
    <3>2. s.fd[g].id # i BY <3>1 DEF OfObject
    <3> QED BY <3>1, <3>2 DEF AgreeBut
  <2>6. Named(t)
    <3> SUFFICES ASSUME NEW h \in Fds, t.fd[h].open
                 PROVE  t.fd[h].id \in Ids /\ t.obj[t.fd[h].id].name # NoName
      BY DEF Named
    <3>1. t.fd[h] = s.fd[h] /\ s.fd[h].open /\ s.fd[h].id # i BY DEF OfObject
    <3> QED BY <3>1, <1>5 DEF Named
  <2> QED BY <2>1, <2>2, <2>3, <2>4, <2>5, <2>6
<1> QED BY <1>6, <1>12, <1>13, <1>14 DEF Good

(* A new object under an id that no object has.                            *)
LEMMA CreatedGood ==
  ASSUME NEW s, Good(s), NEW i \in FreeIds(s), NEW n \in Names
  PROVE  LET t == Created(s, i, n)
         IN  /\ Good(t) /\ t.fd = s.fd /\ t.cp = s.cp /\ t.obj[i].name = n
             /\ Cached(s) => Cached(t)
<1> DEFINE o == [name |-> n, data |-> <<>>, live |-> TRUE]
           O == [s.obj EXCEPT ![i] = o]
           t == [s EXCEPT !.obj = O, !.work = NoHdr]
<1>1. s \in Fs /\ s.obj \in [Ids -> Objs] /\ i \in Ids /\ s.obj[i] = NoObj
  BY Parts DEF Good, FreeIds
<1>2. o \in Objs /\ o.data = <<>> /\ o.name = n
  <2>1. <<>> \in Seq(Cells) OBVIOUS
  <2> QED BY <2>1 DEF Objs
<1>3. NoObj.data = <<>> /\ HdrSize(NoObj) = HdrSize(o) BY <1>2 DEF NoObj, HdrSize
<1>4. Created(s, i, n) = t BY <1>1 DEF Created, Fs
<1> HIDE DEF o
<1>5. O \in [Ids -> Objs] /\ O[i] = o /\ \A j \in Ids \ {i} : O[j] = s.obj[j] BY <1>1, <1>2
<1> HIDE DEF O
<1>6. t \in Fs /\ t.obj = O /\ t.fd = s.fd /\ t.cp = s.cp BY ONLY <1>1, <1>5 DEF Fs
<1> HIDE DEF t
<1>8. Opened(t)
  <2> SUFFICES ASSUME NEW h \in Fds, t.fd[h].open
               PROVE  t.fd[h].id \in Ids /\ Fits(t.fd[h], t.obj[t.fd[h].id])
    BY DEF Opened
  <2>1. s.fd[h].id \in Ids /\ Fits(s.fd[h], s.obj[s.fd[h].id]) BY <1>6 DEF Good, Opened
  <2>2. CASE s.fd[h].id = i BY <2>1, <2>2, <1>1, <1>2, <1>3, <1>5, <1>6 DEF Fits
  <2>3. CASE s.fd[h].id # i BY <2>1, <2>3, <1>5, <1>6
  <2> QED BY <2>2, <2>3
<1>9. ASSUME Cached(s) PROVE Cached(t)
  <2> USE <1>6, <1>9 DEF Cached
  <2>1. Owned(t) BY DEF Owned
  <2>2. Single(t) BY DEF Single
  <2>3. InUse(t) BY DEF InUse
  <2>4. Direct(t) BY DEF Direct
  <2>5. Agree(t) BY DEF Agree
  <2>6. Named(t) BY <1>2, <1>5, NamesAssumption DEF Named
  <2> QED BY <2>1, <2>2, <2>3, <2>4, <2>5, <2>6
<1>10. t.obj[i].name = n BY <1>2, <1>5, <1>6
<1> QED BY <1>4, <1>6, <1>8, <1>9, <1>10 DEF Good
-----------------------------------------------------------------------------
(* SPIFFS_write.                                                           *)
(* Moving a descriptor's position changes nothing else.                    *)
LEMMA AdvancedGood ==
  ASSUME NEW s, Good(s), NEW h \in Fds, NEW n \in Nat
  PROVE  LET t == [s EXCEPT !.fd[h].off = n]
         IN  Good(t) /\ Same(s, t) /\ t.obj = s.obj
<1> DEFINE f == [s.fd[h] EXCEPT !.off = n]
           t == [s EXCEPT !.fd[h] = f]
<1>1. s \in Fs /\ s.fd \in [Fds -> FdRecs] BY Parts DEF Good
<1>2. f \in FdRecs /\ SameFd(s.fd[h], f) /\ f.size = s.fd[h].size BY <1>1, FdFacts
<1>3. [s EXCEPT !.fd[h].off = n] = t BY <1>1 DEF Fs
<1> HIDE DEF f
<1>4. /\ t \in Fs /\ t.obj = s.obj /\ t.cp = s.cp
      /\ t.fd[h] = f /\ \A g \in Fds \ {h} : t.fd[g] = s.fd[g]
  BY <1>1, <1>2, PutOneFd
<1> HIDE DEF t
<1>5. Same(s, t) BY <1>2, <1>4 DEF Same, SameFd, SameNames
<1>6. Opened(t) BY <1>2, <1>4 DEF Good, Opened, Fits, SameFd
<1> QED BY <1>3, <1>4, <1>5, <1>6 DEF Good

(* A write that goes to the flash, whether it succeeds or not.             *)
LEMMA UncachedGood ==
  ASSUME NEW s, Good(s), NEW h \in Fds, s.fd[h].open, NEW off \in Nat,
         NEW buf \in Seq(Cells), NEW o \in Uncached(s, h, off, buf)
  PROVE  Good(o.fs) /\ Same(s, o.fs)
<1>1. PICK w \in HydroWrite(s, h, off, buf) :
        o = IF w.ok THEN Outcome(Advanced(w.fs, h, Len(buf)), TRUE) ELSE w
  BY DEF Uncached
<1>2. Good(w.fs) /\ Same(s, w.fs) BY <1>1, HydroWriteGood
<1>3. o.fs = w.fs \/ o.fs = Advanced(w.fs, h, Len(buf)) BY <1>1, OutcomeFs
<1>4. w.fs.fd[h].off \in Nat
  <2>1. w.fs.fd[h] \in FdRecs BY <1>2, Parts DEF Good
  <2> QED BY <2>1, FdFacts
<1>5. w.fs.fd \in [Fds -> FdRecs] /\ w.fs \in Fs BY <1>2, Parts DEF Good
<1>6. Advanced(w.fs, h, Len(buf)) = [w.fs EXCEPT !.fd[h].off = w.fs.fd[h].off + Len(buf)]
  BY <1>5 DEF Advanced, Fs, FdRecs
<1>7. w.fs.fd[h].off + Len(buf) \in Nat BY <1>4
<1>8. Good(Advanced(w.fs, h, Len(buf))) /\ Same(w.fs, Advanced(w.fs, h, Len(buf)))
  BY <1>2, <1>6, <1>7, AdvancedGood
<1>9. Same(s, Advanced(w.fs, h, Len(buf))) BY <1>2, <1>8 DEF Same, SameFd, SameNames
<1> QED BY <1>2, <1>3, <1>8, <1>9

(* Replacing one cache page.                                               *)
LEMMA PutOnePage ==
  ASSUME NEW s, Good(s), NEW p \in CPages, NEW c \in CpRecs
  PROVE  LET t == [s EXCEPT !.cp[p] = c]
         IN  /\ Good(t) /\ t.obj = s.obj /\ t.fd = s.fd
             /\ t.cp[p] = c /\ \A q \in CPages \ {p} : t.cp[q] = s.cp[q]
<1> DEFINE C == [s.cp EXCEPT ![p] = c]
           t == [s EXCEPT !.cp = C]
<1>1. s \in Fs /\ s.cp \in [CPages -> CpRecs] BY Parts DEF Good
<1>2. C \in [CPages -> CpRecs] /\ C[p] = c /\ \A q \in CPages \ {p} : C[q] = s.cp[q] BY <1>1
<1>3. [s EXCEPT !.cp[p] = c] = t BY <1>1 DEF Fs
<1> HIDE DEF C
<1>4. t \in Fs /\ t.obj = s.obj /\ t.fd = s.fd /\ t.cp = C BY ONLY <1>1, <1>2 DEF Fs
<1> HIDE DEF t
<1>5. Opened(t) BY <1>4 DEF Good, Opened
<1> QED BY <1>2, <1>3, <1>4, <1>5 DEF Good

(* A page that is not a write page becomes the file's only one.            *)
LEMMA AllocatedGood ==
  ASSUME NEW s, Good(s), NEW h \in Fds, s.fd[h].open, NEW off \in Nat,
         NEW t \in Allocated(s, h, off)
  PROVE  /\ Good(t) /\ Alike(s, t)
         /\ t.fd[h].cp # NoPage => /\ t.cp[t.fd[h].cp].off = off
                                   /\ t.cp[t.fd[h].cp].data = <<>>
         /\ Cached(s) /\ NoPageOf(s, s.fd[h].id) /\ ~IsDirect(s.fd[h]) => Cached(t)
<1> DEFINE free == CPages \ WritePages(s)
           p    == CHOOSE q \in free : TRUE
           i    == s.fd[h].id
           c    == [id |-> i, off |-> off, data |-> <<>>]
           u    == [s EXCEPT !.cp[p] = c]
           v    == [u EXCEPT !.fd[h].cp = p]
           n    == [s EXCEPT !.fd[h].cp = NoPage]
<1>1. s \in Fs /\ i \in Ids /\ i # NoId BY NamesAssumption DEF Good, Opened
<1>2. c \in CpRecs /\ c.id = i /\ c.off = off /\ c.data = <<>>
  <2>1. <<>> \in Seq(Cells) OBVIOUS
  <2> QED BY <2>1, <1>1 DEF CpRecs
<1>3. [s EXCEPT !.cp[p] = c, !.fd[h].cp = p] = v BY <1>1 DEF Fs
<1>4. (t = v /\ free # {}) \/ t = n BY <1>3 DEF Allocated
<1>5. CASE t = n
  <2>1. /\ Good(t) /\ Alike(s, t) /\ t.cp = s.cp
        /\ \A g \in Fds : t.fd[g].cp = IF g = h THEN NoPage ELSE s.fd[g].cp
    BY <1>5, PutFdCp
  <2>2. ASSUME Cached(s) PROVE Cached(t)
    <3> USE <2>1, <2>2 DEF Cached, Alike, SameNames
    <3>1. Owned(t) BY DEF Owned
    <3>2. Single(t) BY DEF Single
    <3>3. InUse(t) BY DEF InUse
    <3>4. Direct(t) BY DEF Direct, IsDirect
    <3>5. Agree(t) BY DEF Agree, IsDirect
    <3>6. Named(t) BY DEF Named
    <3> QED BY <3>1, <3>2, <3>3, <3>4, <3>5, <3>6
  <2> QED BY <2>1, <2>2
<1>6. CASE t = v /\ free # {}
  <2>1. p \in CPages /\ s.cp[p].id = NoId
    <3>1. p \in free BY <1>6
    <3> QED BY <3>1 DEF WritePages
  <2> HIDE DEF p, c
  <2>2. /\ Good(u) /\ u.obj = s.obj /\ u.fd = s.fd
        /\ u.cp[p] = c /\ \A q \in CPages \ {p} : u.cp[q] = s.cp[q]
    BY <1>2, <2>1, PutOnePage
  <2> HIDE DEF u
  <2>3. /\ Good(v) /\ Alike(u, v) /\ v.cp = u.cp
        /\ \A g \in Fds : v.fd[g].cp = IF g = h THEN p ELSE u.fd[g].cp
    BY <2>1, <2>2, PutFdCp
  <2>4. Alike(s, t) /\ t.cp[p] = c /\ t.fd[h].cp = p BY <1>6, <2>2, <2>3 DEF Alike, SameNames
  <2>5. /\ \A q \in CPages \ {p} : t.cp[q] = s.cp[q]
        /\ \A g \in Fds \ {h} : t.fd[g].cp = s.fd[g].cp
    BY <1>6, <2>2, <2>3
  <2> HIDE DEF v
  <2>6. ASSUME Cached(s), NoPageOf(s, i), ~IsDirect(s.fd[h]) PROVE Cached(t)
    <3> USE <2>1, <2>4, <2>5, <2>6, <1>1, <1>2 DEF Cached, Alike, SameNames
    <3>1. Owned(t)
      <4> SUFFICES ASSUME NEW g \in Fds, t.fd[g].cp # NoPage
                   PROVE  t.fd[g].open /\ t.cp[t.fd[g].cp].id = t.fd[g].id
        BY DEF Owned
      <4>1. CASE g = h BY <4>1
      <4>2. CASE g # h
        <5>1. t.fd[g].cp = s.fd[g].cp /\ s.fd[g].open /\ s.cp[s.fd[g].cp].id = s.fd[g].id
          BY <4>2 DEF Owned
        <5>2. s.fd[g].id \in Ids BY <5>1 DEF Good, Opened
        <5>3. s.fd[g] \in FdRecs BY Parts
        <5>4. s.fd[g].cp \in CPages BY <5>1, <5>3, FdFacts
        <5>5. s.fd[g].cp # p BY <5>1, <5>2, NamesAssumption
        <5> QED BY <5>1, <5>4, <5>5
      <4> QED BY <4>1, <4>2
    <3>2. Single(t) BY DEF Single, NoPageOf
    <3>3. InUse(t) BY DEF InUse
    <3>4. Direct(t)
      <4> SUFFICES ASSUME NEW g \in Fds, NEW q \in CPages, t.fd[g].open, IsDirect(t.fd[g])
                   PROVE  t.cp[q].id # t.fd[g].id
        BY DEF Direct
      <4>1. s.fd[g].open /\ IsDirect(s.fd[g]) /\ s.fd[g].id = t.fd[g].id BY DEF IsDirect
      <4>2. s.fd[g].id # i BY <4>1 DEF Agree
      <4> QED BY <4>1, <4>2 DEF Direct
    <3>5. Agree(t) BY DEF Agree, IsDirect
    <3>6. Named(t) BY DEF Named
    <3> QED BY <3>1, <3>2, <3>3, <3>4, <3>5, <3>6
  <2>7. Good(t) BY <1>6, <2>3
  <2> QED BY <1>2, <2>4, <2>6, <2>7
<1> QED BY <1>4, <1>5, <1>6

(* The buffer goes into the page, inside or right behind what it holds.    *)
LEMMA StoreInPageGood ==
  ASSUME NEW s, Good(s), NEW h \in Fds, s.fd[h].cp # NoPage, NEW off \in Nat,
         NEW buf \in Seq(Cells),
         s.cp[s.fd[h].cp].off <= off,
         off <= s.cp[s.fd[h].cp].off + Len(s.cp[s.fd[h].cp].data)
  PROVE  /\ Good(StoreInPage(s, h, off, buf))
         /\ Cached(s) => Cached(StoreInPage(s, h, off, buf))
<1> DEFINE p == s.fd[h].cp
           d == Overlay(s.cp[p].data, off - s.cp[p].off, buf)
           c == [s.cp[p] EXCEPT !.data = d]
           u == [s EXCEPT !.cp[p] = c]
           t == StoreInPage(s, h, off, buf)
<1>1. s \in Fs /\ s.fd[h] \in FdRecs /\ s.cp \in [CPages -> CpRecs] BY Parts DEF Good
<1>2. p \in CPages /\ s.fd[h].off \in Nat BY <1>1, FdFacts
<1>3. s.cp[p] \in CpRecs BY <1>1, <1>2
<1>4. s.cp[p].off \in Nat /\ s.cp[p].data \in Seq(Cells) BY <1>3 DEF CpRecs
<1>5. d \in Seq(Cells)
  <2> DEFINE a == s.cp[p].off
             l == Len(s.cp[p].data)
  <2>1. a <= off /\ off <= a + l OBVIOUS
  <2>2. a \in Nat BY <1>4
  <2>4. l \in Nat
    <3> DEFINE e == s.cp[p].data
    <3>1. e \in Seq(Cells) BY <1>4
    <3> HIDE DEF e
    <3>2. Len(e) \in Nat BY <3>1
    <3> QED BY <3>2 DEF e
  <2>3. off - a \in Nat /\ off - a <= l
    <3> HIDE DEF a, l
    <3> QED BY <2>1, <2>2, <2>4
  <2> QED BY <2>3, <1>4, OverlayType
<1>6. [s EXCEPT !.cp[p].data = Overlay(@, off - s.cp[p].off, buf)] = u
  BY <1>1, <1>2 DEF Fs, CpRecs
<1> HIDE DEF d
<1>7. c \in CpRecs /\ c.id = s.cp[p].id BY <1>3, <1>5 DEF CpRecs
<1> HIDE DEF c
<1>8. t = Advanced(u, h, Len(buf)) BY <1>6 DEF StoreInPage, d, c
<1>9. /\ Good(u) /\ u.fd = s.fd /\ u.obj = s.obj
      /\ u.cp[p] = c /\ \A q \in CPages \ {p} : u.cp[q] = s.cp[q]
  BY <1>2, <1>7, PutOnePage
<1> HIDE DEF u, t
<1>10. u \in Fs /\ u.fd \in [Fds -> FdRecs] BY <1>9, Parts DEF Good
<1>11. t = [u EXCEPT !.fd[h].off = u.fd[h].off + Len(buf)]
  BY <1>8, <1>10 DEF Advanced, Fs, FdRecs
<1>12. Good(t) /\ Same(u, t)
  <2>1. u.fd[h].off + Len(buf) \in Nat BY <1>2, <1>9
  <2> QED BY <2>1, <1>9, <1>11, AdvancedGood
<1>13. ASSUME Cached(s) PROVE Cached(u)
  <2>0. \A q \in CPages : u.cp[q].id = s.cp[q].id BY <1>7, <1>9
  <2> HIDE DEF p
  <2> USE <2>0, <1>9, <1>13 DEF Cached
  <2>1. Owned(u)
    <3>1. \A g \in Fds : s.fd[g].cp \in CPages \cup {NoPage}
      <4>1. \A g \in Fds : s.fd[g] \in FdRecs BY <1>1, Parts
      <4> QED BY <4>1, FdFacts
    <3> QED BY <3>1 DEF Owned
  <2>2. Single(u) BY DEF Single
  <2>3. InUse(u) BY DEF InUse
  <2>4. Direct(u) BY DEF Direct
  <2>5. Agree(u) BY DEF Agree
  <2>6. Named(u) BY DEF Named
  <2> QED BY <2>1, <2>2, <2>3, <2>4, <2>5, <2>6
<1> QED BY <1>12, <1>13, CachedSame DEF t

(* A page is taken for the buffer, or, if there is none, the buffer goes   *)
(* to the flash.                                                           *)
LEMMA FreshGood ==
  ASSUME NEW s, Good(s), NEW h \in Fds, s.fd[h].open, NEW off \in Nat, NEW buf \in Seq(Cells),
         NEW u \in Allocated(s, h, off), NEW o,
         \/ u.fd[h].cp # NoPage /\ o = Outcome(StoreInPage(u, h, off, buf), TRUE)
         \/ u.fd[h].cp = NoPage /\ o \in Uncached(u, h, off, buf)
  PROVE  /\ Good(o.fs)
         /\ Cached(s) /\ NoPageOf(s, s.fd[h].id) /\ ~IsDirect(s.fd[h]) => Cached(o.fs)
<1>1. /\ Good(u) /\ Alike(s, u)
      /\ u.fd[h].cp # NoPage => u.cp[u.fd[h].cp].off = off /\ u.cp[u.fd[h].cp].data = <<>>
      /\ Cached(s) /\ NoPageOf(s, s.fd[h].id) /\ ~IsDirect(s.fd[h]) => Cached(u)
  BY AllocatedGood
<1>2. u.fd[h].open BY <1>1 DEF Alike, SameNames
<1>3. CASE u.fd[h].cp # NoPage
  <2>1. o.fs = StoreInPage(u, h, off, buf) BY <1>3, OutcomeFs
  <2>2. /\ u.cp[u.fd[h].cp].off <= off
        /\ off <= u.cp[u.fd[h].cp].off + Len(u.cp[u.fd[h].cp].data)
    <3>1. u.cp[u.fd[h].cp].off = off /\ Len(u.cp[u.fd[h].cp].data) = 0 BY <1>1, <1>3
    <3> QED BY <3>1
  <2>3. Good(o.fs) /\ (Cached(u) => Cached(o.fs))
    BY <1>1, <1>3, <2>1, <2>2, StoreInPageGood
  <2> QED BY <1>1, <2>3
<1>4. CASE u.fd[h].cp = NoPage
  <2>1. Good(o.fs) /\ Same(u, o.fs) BY <1>1, <1>2, <1>4, UncachedGood
  <2> QED BY <1>1, <2>1, CachedSame
<1> QED BY <1>3, <1>4

(* A write smaller than a page: into the page, or the page is written back *)
(* and another taken.                                                      *)
LEMMA SmallWriteGood ==
  ASSUME NEW s, Good(s), NEW h \in Fds, s.fd[h].open, NEW off \in Nat, NEW buf \in Seq(Cells),
         NEW o \in SmallWrite(s, h, off, buf)
  PROVE  /\ Good(o.fs)
         /\ Cached(s) /\ ~IsDirect(s.fd[h]) /\ (s.fd[h].cp = NoPage => NoPageOf(s, s.fd[h].id))
              => Cached(o.fs)
<1> DEFINE put(u)   == IF u.fd[h].cp # NoPage THEN {Outcome(StoreInPage(u, h, off, buf), TRUE)}
                       ELSE Uncached(u, h, off, buf)
           fresh(t) == UNION {put(u) : u \in Allocated(t, h, off)}
           back(w)  == IF w.ok THEN fresh(w.fs) ELSE {w}
<1>1. SmallWrite(s, h, off, buf) =
        IF s.fd[h].cp = NoPage THEN fresh(s)
        ELSE IF Within(s, h, off, Len(buf)) THEN {Outcome(StoreInPage(s, h, off, buf), TRUE)}
        ELSE UNION {back(w) : w \in WriteBack(s, h)}
  BY DEF SmallWrite
<1>2. CASE s.fd[h].cp = NoPage
  <2> HIDE DEF put
  <2>1. PICK u \in Allocated(s, h, off) : o \in put(u) BY <1>1, <1>2
  <2>2. \/ u.fd[h].cp # NoPage /\ o = Outcome(StoreInPage(u, h, off, buf), TRUE)
        \/ u.fd[h].cp = NoPage /\ o \in Uncached(u, h, off, buf)
    BY <2>1 DEF put
  <2> QED BY <1>2, <2>1, <2>2, FreshGood
<1>3. CASE s.fd[h].cp # NoPage /\ Within(s, h, off, Len(buf))
  <2>1. o = Outcome(StoreInPage(s, h, off, buf), TRUE) BY <1>1, <1>3
  <2>2. o.fs = StoreInPage(s, h, off, buf) BY <2>1, OutcomeFs
  <2>3. s.fd[h] \in FdRecs /\ s \in Fs BY Parts DEF Good
  <2>4. s.fd[h].cp \in CPages BY <1>3, <2>3, FdFacts
  <2>5. s.cp[s.fd[h].cp].off \in Nat
    <3>1. s.cp[s.fd[h].cp] \in CpRecs BY <2>3, <2>4, Parts
    <3> QED BY <3>1 DEF CpRecs
  <2>6. s.cp[s.fd[h].cp].off <= off BY <1>3, <2>5 DEF Within
  <2>7. off <= s.cp[s.fd[h].cp].off + Len(s.cp[s.fd[h].cp].data) BY <1>3 DEF Within
  <2> QED BY <1>3, <2>2, <2>6, <2>7, StoreInPageGood
<1>4. CASE s.fd[h].cp # NoPage /\ ~Within(s, h, off, Len(buf))
  <2> HIDE DEF fresh
  <2>1. PICK w \in WriteBack(s, h) : o \in back(w) BY <1>1, <1>4
  <2>2. /\ Good(w.fs) /\ Alike(s, w.fs) /\ w.fs.fd[h].cp = NoPage
        /\ Cached(s) => Cached(w.fs) /\ NoPageOf(w.fs, s.fd[h].id)
    BY <1>4, <2>1, WriteBackGood
  <2>3. /\ w.fs.fd[h].open /\ w.fs.fd[h].id = s.fd[h].id
        /\ IsDirect(w.fs.fd[h]) <=> IsDirect(s.fd[h])
    BY <2>2 DEF Alike, IsDirect, SameNames
  <2>4. CASE w.ok
    <3> HIDE DEF put
    <3>1. PICK u \in Allocated(w.fs, h, off) : o \in put(u) BY <2>1, <2>4 DEF fresh
    <3>2. /\ Good(o.fs)
          /\ Cached(w.fs) /\ NoPageOf(w.fs, w.fs.fd[h].id) /\ ~IsDirect(w.fs.fd[h])
               => Cached(o.fs)
      <4>1. \/ u.fd[h].cp # NoPage /\ o = Outcome(StoreInPage(u, h, off, buf), TRUE)
            \/ u.fd[h].cp = NoPage /\ o \in Uncached(u, h, off, buf)
        BY <3>1 DEF put
      <4> QED BY <2>2, <2>3, <3>1, <4>1, FreshGood
    <3> QED BY <2>2, <2>3, <3>2
  <2>5. CASE ~w.ok BY <2>1, <2>2, <2>5
  <2> QED BY <2>4, <2>5
<1> QED BY <1>2, <1>3, <1>4

(* A write of a page or more: the cached write first, then the buffer.     *)
LEMMA BigWriteGood ==
  ASSUME NEW s, Good(s), NEW h \in Fds, s.fd[h].open, NEW off \in Nat, NEW buf \in Seq(Cells),
         NEW o \in BigWrite(s, h, off, buf)
  PROVE  Good(o.fs) /\ (Cached(s) => Cached(o.fs))
<1> DEFINE once(w)  == IF w.ok THEN HydroWrite(w.fs, h, off, buf) ELSE {w}
           twice(q) == IF q.ok THEN Uncached(q.fs, h, off, buf) ELSE {q}
<1>1. CASE s.fd[h].cp = NoPage
  <2>1. o \in Uncached(s, h, off, buf) BY <1>1 DEF BigWrite
  <2>2. Good(o.fs) /\ Same(s, o.fs) BY <2>1, UncachedGood
  <2> QED BY <2>2, CachedSame
<1>2. CASE s.fd[h].cp # NoPage
  <2>1. BigWrite(s, h, off, buf) = UNION {UNION {twice(q) : q \in once(w)} : w \in WriteBack(s, h)}
    BY <1>2 DEF BigWrite
  <2> HIDE DEF once, twice
  <2>2. PICK w \in WriteBack(s, h) : \E q \in once(w) : o \in twice(q) BY <2>1
  <2>3. PICK q \in once(w) : o \in twice(q) BY <2>2
  <2>4. Good(w.fs) /\ Alike(s, w.fs) /\ (Cached(s) => Cached(w.fs))
    BY <1>2, <2>2, WriteBackGood
  <2>5. w.fs.fd[h].open BY <2>4 DEF Alike, SameNames
  <2>6. Good(q.fs) /\ Same(w.fs, q.fs)
    <3>1. CASE w.ok BY <2>3, <2>4, <2>5, <3>1, HydroWriteGood DEF once
    <3>2. CASE ~w.ok
      <4>1. q = w BY <2>3, <3>2 DEF once
      <4> QED BY <2>4, <4>1 DEF Same, SameFd, SameNames
    <3> QED BY <3>1, <3>2
  <2>7. q.fs.fd[h].open BY <2>5, <2>6 DEF Same, SameFd, SameNames
  <2>8. Good(o.fs) /\ Same(q.fs, o.fs)
    <3>1. CASE q.ok BY <2>3, <2>6, <2>7, <3>1, UncachedGood DEF twice
    <3>2. CASE ~q.ok
      <4>1. o = q BY <2>3, <3>2 DEF twice
      <4> QED BY <2>6, <4>1 DEF Same, SameFd, SameNames
    <3> QED BY <3>1, <3>2
  <2> QED BY <2>4, <2>6, <2>8, CachedSame
<1> QED BY <1>1, <1>2

(* A write never starts at the undefined length.                           *)
LEMMA WriteOffsetNat ==
  ASSUME NEW s, Good(s), NEW h \in Fds
  PROVE  WriteOffset(s, h) \in Nat
<1> DEFINE f   == s.fd[h]
           end == IF f.size = Undef THEN 0 ELSE f.size
<1>1. s \in Fs /\ f \in FdRecs BY Parts DEF Good
<1>2. f.off \in Nat /\ end \in Nat /\ f.cp \in CPages \cup {NoPage}
  BY <1>1, FdFacts DEF Sizes
<1>3. ASSUME f.cp # NoPage
      PROVE  Greater(end, s.cp[f.cp].off + Len(s.cp[f.cp].data)) \in Nat
  <2>1. f.cp \in CPages BY <1>2, <1>3
  <2>2. s.cp[f.cp] \in CpRecs BY <1>1, <2>1, Parts
  <2>3. s.cp[f.cp].off \in Nat /\ s.cp[f.cp].data \in Seq(Cells) BY <2>2 DEF CpRecs
  <2> DEFINE a == s.cp[f.cp].off
             d == s.cp[f.cp].data
  <2> HIDE DEF a, d, end
  <2>4. a \in Nat /\ d \in Seq(Cells) BY <2>3 DEF a, d
  <2>5. Len(d) \in Nat BY <2>4
  <2>6. Greater(end, a + Len(d)) \in Nat BY <2>4, <2>5, <1>2 DEF Greater
  <2> QED BY <2>6 DEF a, d
<1>4. WriteOffset(s, h) = IF "APPEND" \notin f.flags THEN f.off
                          ELSE IF f.cp = NoPage THEN end
                          ELSE Greater(end, s.cp[f.cp].off + Len(s.cp[f.cp].data))
  BY DEF WriteOffset
<1> HIDE DEF end
<1> QED BY <1>2, <1>3, <1>4
-----------------------------------------------------------------------------
(***************************************************************************)
(* The calls keep the invariant.  The cache part is claimed for careful    *)
(* callers only: FdCacheOwned is false of the code for others.             *)
(***************************************************************************)
Invariant(s) == Good(s) /\ (Careful => Cached(s))

(* A step that leaves descriptors and pages as they are keeps it.          *)
LEMMA SameKeeps ==
  ASSUME NEW s, NEW t, Invariant(s), Good(t), Same(s, t)
  PROVE  Invariant(t)
  BY CachedSame DEF Invariant

(* SPIFFS_creat keeps the invariant.                                       *)
LEMMA CreatKeeps ==
  ASSUME Invariant(fs), NEW n \in Names, SPIFFS_creat(n)
  PROVE  Invariant(fs')
<1>1. PICK i \in FreeIds(fs) : fs' = Created(fs, i, n) \/ fs' = [fs EXCEPT !.work = NoHdr]
  BY DEF SPIFFS_creat
<1>2. Good(fs) BY DEF Invariant
<1>3. CASE fs' = Created(fs, i, n) BY <1>2, <1>3, CreatedGood DEF Invariant
<1>4. CASE fs' = [fs EXCEPT !.work = NoHdr] BY <1>2, <1>4, PutWork, SameKeeps
<1> QED BY <1>1, <1>3, <1>4

(* A slot that FindNew gives is closed.                                    *)
LEMMA FindNewClosed ==
  ASSUME NEW s, NEW h \in FindNew(s)
  PROVE  h \in Fds /\ ~s.fd[h].open
  BY DEF FindNew

(* SPIFFS_open of an existing file, truncated or not, keeps it.            *)
LEMMA OpenExistingKeeps ==
  ASSUME Invariant(fs), NEW n \in Names, NEW flags \in Modes, NEW trunc \in BOOLEAN,
         OpenExisting(n, flags, trunc)
  PROVE  Invariant(fs')
<1>1. PICK h \in FindNew(fs), i \in FindByName(fs, n) :
         LET s == OpenFd(fs, h, i, flags) IN
         /\ MayShare(i, flags)
         /\ trunc => MayTruncate(i)
         /\ \E o \in IF trunc THEN Truncate(s, h) ELSE {Outcome(s, TRUE)} :
              (o.ok /\ fs' = o.fs) \/ (~o.ok /\ fs' = CloseFd(o.fs, h))
  BY DEF OpenExisting
<1> DEFINE s == OpenFd(fs, h, i, flags)
<1>2. PICK o \in IF trunc THEN Truncate(s, h) ELSE {Outcome(s, TRUE)} :
         (o.ok /\ fs' = o.fs) \/ (~o.ok /\ fs' = CloseFd(o.fs, h))
  BY <1>1
<1>3. Good(fs) /\ h \in Fds /\ ~fs.fd[h].open /\ i \in Ids /\ flags \in SUBSET Flags
  BY FindNewClosed, FlagsAssumption DEF Invariant, FindByName
<1>10. fs.obj[i].name # NoName BY NamesAssumption DEF FindByName
<1>4. /\ Good(s) /\ s.cp = fs.cp /\ s.obj = fs.obj /\ s.fd[h].open /\ s.fd[h].id = i
      /\ s.fd[h].cp = fs.fd[h].cp
      /\ \A g \in Fds \ {h} : s.fd[g] = fs.fd[g]
      /\ Cached(fs) /\ (\A g \in OfObject(fs, i) :
                           ("DIRECT" \in fs.fd[g].flags) <=> ("DIRECT" \in flags))
           => Cached(s)
  BY <1>3, <1>10, OpenFdGood
<1>5. Careful => Cached(fs) /\ Cached(s) BY <1>1, <1>4 DEF MayShare, Invariant
<1> HIDE DEF s
<1>6. Good(o.fs) /\ (Careful => Same(s, o.fs))
  <2>1. CASE trunc
    <3>1. o \in Truncate(s, h) BY <1>2, <2>1
    <3>2. Careful => s.obj[s.fd[h].id].data # <<>> BY <1>1, <1>4, <2>1 DEF MayTruncate
    <3> QED BY <1>3, <1>4, <3>1, <3>2, TruncateGood
  <2>2. CASE ~trunc
    <3>1. o = Outcome(s, TRUE) BY <1>2, <2>2
    <3>2. o.fs = s BY <3>1, OutcomeFs
    <3> QED BY <1>4, <3>2 DEF Same, SameFd, SameNames
  <2> QED BY <2>1, <2>2
<1>7. Careful => Cached(o.fs) BY <1>5, <1>6, CachedSame
<1>8. CASE fs' = o.fs BY <1>6, <1>7, <1>8 DEF Invariant
<1>9. CASE fs' = CloseFd(o.fs, h)
  <2>1. Good(fs') BY <1>3, <1>6, <1>9, CloseFdGood
  <2>2. ASSUME Careful PROVE Cached(CloseFd(o.fs, h))
    <3>1. o.fs.cp = fs.cp /\ o.fs.fd[h].cp = fs.fd[h].cp
      BY <2>2, <1>3, <1>4, <1>6 DEF Same, SameFd
    <3>2. o.fs.fd[h].cp = NoPage BY <2>2, <3>1, <1>3, <1>5 DEF Cached, Owned
    <3>3. ASSUME NEW p \in CPages, o.fs.cp[p].id # NoId
          PROVE  \E g \in Fds \ {h} : o.fs.fd[g].open /\ o.fs.fd[g].id = o.fs.cp[p].id
      <4>1. PICK g \in Fds : fs.fd[g].open /\ fs.fd[g].id = fs.cp[p].id
        BY <2>2, <3>1, <3>3, <1>5 DEF Cached, InUse
      <4>2. g # h BY <1>3, <4>1
      <4>3. o.fs.fd[g].open /\ o.fs.fd[g].id = fs.fd[g].id
        BY <2>2, <4>1, <4>2, <1>4, <1>6 DEF Same, SameFd
      <4> QED BY <3>1, <4>1, <4>2, <4>3
    <3> QED BY <2>2, <3>2, <3>3, <1>3, <1>6, <1>7, CloseFdGood
  <2> QED BY <1>9, <2>1, <2>2 DEF Invariant
<1> QED BY <1>2, <1>8, <1>9

(* SPIFFS_open of a new file keeps it: its id has no descriptors.          *)
LEMMA OpenNewKeeps ==
  ASSUME Invariant(fs), NEW n \in Names, NEW flags \in Modes, OpenNew(n, flags)
  PROVE  Invariant(fs')
<1>1. PICK h \in FindNew(fs), i \in FreeIds(fs) :
         fs' = OpenFd(Created(fs, i, n), h, i, flags) \/ fs' = [fs EXCEPT !.work = NoHdr]
  BY DEF OpenNew
<1>2. Good(fs) BY DEF Invariant
<1>3. CASE fs' = [fs EXCEPT !.work = NoHdr] BY <1>2, <1>3, PutWork, SameKeeps
<1>4. CASE fs' = OpenFd(Created(fs, i, n), h, i, flags)
  <2> DEFINE s == Created(fs, i, n)
  <2>1. h \in Fds /\ ~fs.fd[h].open /\ i \in Ids /\ fs.obj[i] = NoObj /\ flags \in SUBSET Flags
    BY FindNewClosed, FlagsAssumption DEF FreeIds
  <2>2. /\ Good(s) /\ s.fd = fs.fd /\ s.cp = fs.cp /\ s.obj[i].name = n
        /\ Cached(fs) => Cached(s)
    BY <1>2, CreatedGood
  <2> HIDE DEF s
  <2>3. s.obj[i].name # NoName BY <2>2, NamesAssumption
  <2>4. /\ Good(fs')
        /\ Cached(s) /\ (\A g \in OfObject(s, i) :
                            ("DIRECT" \in s.fd[g].flags) <=> ("DIRECT" \in flags))
             => Cached(fs')
    BY <1>4, <2>1, <2>2, <2>3, OpenFdGood DEF s
  <2>5. ASSUME Careful PROVE OfObject(s, i) = {}
    <3>1. \A g \in Fds : fs.fd[g].open => fs.obj[fs.fd[g].id].name # NoName
      BY <2>5 DEF Invariant, Cached, Named
    <3>2. fs.obj[i].name = NoName BY <2>1 DEF NoObj
    <3> QED BY <2>2, <3>1, <3>2 DEF OfObject
  <2> QED BY <2>2, <2>4, <2>5 DEF Invariant
<1> QED BY <1>1, <1>3, <1>4

(* Every call below flushes first.                                         *)
LEMMA FlushKeeps ==
  ASSUME Invariant(fs), NEW h \in Fds, fs.fd[h].open, NEW o \in FlushCache(fs, h)
  PROVE  /\ Invariant(o.fs) /\ o.fs.fd[h].open /\ o.fs.fd[h].id = fs.fd[h].id
         /\ Careful => o.fs.fd[h].cp = NoPage /\ NoPageOf(o.fs, o.fs.fd[h].id)
<1>1. /\ Good(o.fs) /\ Alike(fs, o.fs)
      /\ Cached(fs) => /\ Cached(o.fs) /\ o.fs.fd[h].cp = NoPage
                       /\ NoPageOf(o.fs, fs.fd[h].id)
  BY FlushCacheGood DEF Invariant
<1>2. o.fs.fd[h].open /\ o.fs.fd[h].id = fs.fd[h].id BY <1>1 DEF Alike
<1> QED BY <1>1, <1>2 DEF Invariant

(* SPIFFS_read keeps the invariant.                                        *)
LEMMA ReadKeeps ==
  ASSUME Invariant(fs), NEW h \in Fds, NEW len \in Lens, SPIFFS_read(h, len)
  PROVE  Invariant(fs')
<1>1. PICK o \in FlushCache(fs, h) :
         LET f    == o.fs.fd[h]
             end  == IF f.off + len >= f.size THEN f.size ELSE f.off + len
         IN  IF f.size = Undef \/ f.off >= f.size
             THEN fs' = [o.fs EXCEPT !.work = IF f.size = Undef THEN Header(o.fs.obj[f.id])
                                              ELSE @]
             ELSE \/ fs' = [o.fs EXCEPT !.fd[h].off = end, !.work = Header(o.fs.obj[f.id])]
                  \/ fs' = [o.fs EXCEPT !.work = Header(o.fs.obj[f.id])]
  BY Zenon DEF SPIFFS_read
<1> DEFINE s   == o.fs
           f   == s.fd[h]
           end == IF f.off + len >= f.size THEN f.size ELSE f.off + len
           hdr == Header(s.obj[f.id])
<1>2. Invariant(s) /\ f.open BY FlushKeeps DEF SPIFFS_read
<1>3. Good(s) /\ s \in Fs /\ f.id \in Ids /\ f \in FdRecs BY <1>2, Parts DEF Invariant, Good, Opened
<1>4. hdr \in Headers \cup {NoHdr} /\ s.work \in Headers \cup {NoHdr}
  <2>1. s.obj[f.id] \in Objs BY <1>3, Parts
  <2> QED BY <2>1, <1>3, ObjFacts, Parts
<1>5. f.size \in Nat \cup {Undef} /\ f.off \in Nat /\ len \in Nat
  BY <1>3, FdFacts, CallsAssumption DEF Sizes
<1>6. fs' = [s EXCEPT !.work = hdr] \/ fs' = [s EXCEPT !.work = s.work]
      \/ (f.size # Undef /\ fs' = [s EXCEPT !.fd[h].off = end, !.work = hdr])
  BY <1>1
<1>7. f.size # Undef => end \in Nat BY <1>5
<1> HIDE DEF end, hdr, f, s
<1>8. CASE fs' = [s EXCEPT !.work = hdr] \/ fs' = [s EXCEPT !.work = s.work]
  BY <1>2, <1>3, <1>4, <1>8, PutWork, SameKeeps
<1>9. CASE f.size # Undef /\ fs' = [s EXCEPT !.fd[h].off = end, !.work = hdr]
  <2> DEFINE t == [s EXCEPT !.fd[h].off = end]
  <2>1. fs' = [t EXCEPT !.work = hdr] BY <1>3, <1>9 DEF Fs
  <2>2. Good(t) /\ Same(s, t) BY <1>3, <1>7, <1>9, AdvancedGood
  <2> HIDE DEF t
  <2>3. Invariant(t) BY <1>2, <2>2, SameKeeps
  <2>4. Good(fs') /\ Same(t, fs') BY <1>4, <2>1, <2>2, PutWork
  <2> QED BY <2>3, <2>4, SameKeeps
<1> QED BY <1>6, <1>8, <1>9, SMTT(60)

(* SPIFFS_write keeps the invariant, whichever way the buffer goes.        *)
LEMMA WriteKeeps ==
  ASSUME Invariant(fs), NEW h \in Fds, NEW buf \in Bufs, SPIFFS_write(h, buf)
  PROVE  Invariant(fs')
<1>1. PICK s \in Attached(fs, h) :
         \E o \in IF "DIRECT" \in fs.fd[h].flags THEN Uncached(s, h, WriteOffset(s, h), buf)
                  ELSE IF Len(buf) < LogPage THEN SmallWrite(s, h, WriteOffset(s, h), buf)
                  ELSE BigWrite(s, h, WriteOffset(s, h), buf) : fs' = o.fs
  BY DEF SPIFFS_write
<1> DEFINE off == WriteOffset(s, h)
<1>2. PICK o \in IF "DIRECT" \in fs.fd[h].flags THEN Uncached(s, h, off, buf)
                 ELSE IF Len(buf) < LogPage THEN SmallWrite(s, h, off, buf)
                 ELSE BigWrite(s, h, off, buf) : fs' = o.fs
  BY <1>1
<1>3. Good(fs) /\ fs.fd[h].open /\ buf \in Seq(Cells)
  BY CallsAssumption DEF Invariant, SPIFFS_write
<1>4. /\ Good(s) /\ Alike(fs, s)
      /\ Cached(fs) => Cached(s) /\ (s.fd[h].cp = NoPage => NoPageOf(s, s.fd[h].id))
  BY <1>1, <1>3, AttachedGood
<1>5. s.fd[h].open /\ s.fd[h].flags = fs.fd[h].flags BY <1>3, <1>4 DEF Alike
<1>6. off \in Nat BY <1>4, WriteOffsetNat
<1> HIDE DEF off
<1>7. Careful => Cached(s) /\ (s.fd[h].cp = NoPage => NoPageOf(s, s.fd[h].id))
  BY <1>4 DEF Invariant
<1>8. CASE o \in Uncached(s, h, off, buf)
  <2>1. Good(o.fs) /\ Same(s, o.fs) BY <1>3, <1>4, <1>5, <1>6, <1>8, UncachedGood
  <2> QED BY <1>2, <1>7, <2>1, CachedSame DEF Invariant
<1>9. CASE "DIRECT" \notin fs.fd[h].flags /\ o \in SmallWrite(s, h, off, buf)
  <2>1. ~IsDirect(s.fd[h]) BY <1>5, <1>9 DEF IsDirect
  <2>2. /\ Good(o.fs)
        /\ Cached(s) /\ ~IsDirect(s.fd[h])
             /\ (s.fd[h].cp = NoPage => NoPageOf(s, s.fd[h].id)) => Cached(o.fs)
    BY <1>3, <1>4, <1>5, <1>6, <1>9, SmallWriteGood
  <2> QED BY <1>2, <1>7, <2>1, <2>2 DEF Invariant
<1>10. CASE o \in BigWrite(s, h, off, buf)
  <2>1. Good(o.fs) /\ (Cached(s) => Cached(o.fs))
    BY <1>3, <1>4, <1>5, <1>6, <1>10, BigWriteGood
  <2> QED BY <1>2, <1>7, <2>1 DEF Invariant
<1> QED BY <1>2, <1>8, <1>9, <1>10

(* SPIFFS_lseek keeps the invariant.                                       *)
LEMMA LseekKeeps ==
  ASSUME Invariant(fs), NEW h \in Fds, NEW offs \in 0 .. MaxLen, SPIFFS_lseek(h, offs)
  PROVE  Invariant(fs')
<1>1. PICK o \in FlushCache(fs, h) : fs' = o.fs \/ fs' = [o.fs EXCEPT !.fd[h].off = offs]
  BY DEF SPIFFS_lseek
<1>2. Invariant(o.fs) BY FlushKeeps DEF SPIFFS_lseek
<1>3. offs \in Nat BY SizesAssumption
<1>4. CASE fs' = [o.fs EXCEPT !.fd[h].off = offs]
  <2>1. Good(fs') /\ Same(o.fs, fs') BY <1>2, <1>3, <1>4, AdvancedGood DEF Invariant
  <2> QED BY <1>2, <2>1, SameKeeps
<1> QED BY <1>1, <1>2, <1>4

(* SPIFFS_fstat and SPIFFS_fflush keep the invariant.                      *)
LEMMA FlushCallsKeep ==
  ASSUME Invariant(fs), NEW h \in Fds, SPIFFS_fstat(h) \/ SPIFFS_fflush(h)
  PROVE  Invariant(fs')
<1>1. fs.fd[h].open /\ \E o \in FlushCache(fs, h) : fs' = o.fs BY DEF SPIFFS_fstat, SPIFFS_fflush
<1> QED BY <1>1, FlushKeeps

(* SPIFFS_close keeps the invariant, even if its flush failed.             *)
LEMMA CloseKeeps ==
  ASSUME Invariant(fs), NEW h \in Fds, SPIFFS_close(h)
  PROVE  Invariant(fs')
<1>1. PICK o \in FlushCache(fs, h) : fs' = CloseFd(o.fs, h) BY DEF SPIFFS_close
<1>2. /\ Invariant(o.fs)
      /\ Careful => o.fs.fd[h].cp = NoPage /\ NoPageOf(o.fs, o.fs.fd[h].id)
  BY FlushKeeps DEF SPIFFS_close
<1>3. Good(fs') BY <1>1, <1>2, CloseFdGood DEF Invariant
<1>4. Careful => Cached(fs') BY <1>1, <1>2, FlushedClose DEF Invariant
<1> QED BY <1>3, <1>4 DEF Invariant

(* The slot taken for a removal disturbs nothing but Agree.                *)
LEMMA TakenCached ==
  ASSUME NEW s, Good(s), Cached(s), NEW h \in Fds, ~s.fd[h].open, NEW i \in Ids,
         NoPageOf(s, i), s.obj[i].name # NoName
  PROVE  CachedBut(OpenFd(s, h, i, {}), i) /\ NoPageOf(OpenFd(s, h, i, {}), i)
<1> DEFINE t == OpenFd(s, h, i, {})
<1>1. {} \in SUBSET Flags OBVIOUS
<1>2. /\ t.obj = s.obj /\ t.cp = s.cp
      /\ t.fd[h].open /\ t.fd[h].id = i /\ t.fd[h].cp = s.fd[h].cp
      /\ \A g \in Fds \ {h} : t.fd[g] = s.fd[g]
  BY <1>1, OpenFdGood
<1> HIDE DEF t
<1> USE <1>2 DEF Cached
<1>3. s.fd[h].cp = NoPage BY DEF Owned
<1>4. Owned(t) BY <1>3 DEF Owned
<1>5. Single(t) BY DEF Single
<1>6. InUse(t)
  <2> SUFFICES ASSUME NEW p \in CPages, t.cp[p].id # NoId
               PROVE  \E g \in Fds : t.fd[g].open /\ t.fd[g].id = t.cp[p].id
    BY DEF InUse
  <2>1. PICK g \in Fds : s.fd[g].open /\ s.fd[g].id = s.cp[p].id BY DEF InUse
  <2>2. g # h BY <2>1
  <2> QED BY <2>1, <2>2
<1>7. Direct(t) BY DEF Direct, NoPageOf
<1>8. AgreeBut(t, i)
  <2> SUFFICES ASSUME NEW g \in Fds, NEW k \in Fds, t.fd[g].open, t.fd[k].open,
                      t.fd[g].id = t.fd[k].id, t.fd[g].id # i
               PROVE  IsDirect(t.fd[g]) <=> IsDirect(t.fd[k])
    BY DEF AgreeBut
  <2>1. t.fd[g] = s.fd[g] /\ t.fd[k] = s.fd[k] OBVIOUS
  <2> QED BY <2>1 DEF Agree
<1>9. Named(t) BY DEF Named
<1>10. NoPageOf(t, i) BY DEF NoPageOf
<1> QED BY <1>4, <1>5, <1>6, <1>7, <1>8, <1>9, <1>10 DEF CachedBut, t

(* SPIFFS_remove keeps the invariant.                                      *)
LEMMA RemoveKeeps ==
  ASSUME Invariant(fs), NEW n \in Names, SPIFFS_remove(n)
  PROVE  Invariant(fs')
<1>1. PICK h \in FindNew(fs), i \in FindByName(fs, n) :
         MayRemove(i) /\ (fs' = Removed(OpenFd(fs, h, i, {}), i) \/ fs' = fs)
  BY DEF SPIFFS_remove
<1> DEFINE s == OpenFd(fs, h, i, {})
<1>2. /\ Good(fs) /\ h \in Fds /\ ~fs.fd[h].open /\ i \in Ids
      /\ {} \in SUBSET Flags /\ fs.obj[i].name # NoName
  BY FindNewClosed, NamesAssumption DEF Invariant, FindByName
<1>3. CASE fs' = fs BY <1>3
<1>4. CASE fs' = Removed(s, i)
  <2>1. Good(s) BY <1>2, OpenFdGood
  <2>2. ASSUME Careful PROVE CachedBut(s, i) /\ NoPageOf(s, i)
    <3>1. NoPageOf(fs, i) BY <1>1, <2>2 DEF MayRemove, PagesOf, NoPageOf
    <3> QED BY <1>2, <2>2, <3>1, TakenCached DEF Invariant
  <2> HIDE DEF s
  <2> QED BY <1>2, <1>4, <2>1, <2>2, RemovedGood DEF Invariant
<1> QED BY <1>1, <1>3, <1>4

(* SPIFFS_fremove keeps the invariant.                                     *)
LEMMA FremoveKeeps ==
  ASSUME Invariant(fs), NEW h \in Fds, SPIFFS_fremove(h)
  PROVE  Invariant(fs')
<1> DEFINE i == fs.fd[h].id
           p == fs.fd[h].cp
           s == IF p = NoPage THEN fs ELSE Release(fs, p)
<1>1. fs.fd[h].open /\ MayFremove(h) /\ (fs' = Removed(s, i) \/ fs' = s)
  BY DEF SPIFFS_fremove
<1>2. Good(fs) /\ i \in Ids /\ p \in CPages \cup {NoPage}
  <2>1. Good(fs) /\ fs.fd[h] \in FdRecs BY Parts DEF Invariant, Good
  <2> QED BY <1>1, <2>1, FdFacts DEF Good, Opened
<1>3. Careful => \A q \in CPages : fs.cp[q].id = i => q = p
  BY <1>1 DEF MayFremove, PagesOf
<1>4. Invariant(s) /\ (Careful => NoPageOf(s, i))
  <2>1. CASE p = NoPage
    <3>1. Careful => NoPageOf(fs, i) BY <1>3, <2>1, NamesAssumption DEF NoPageOf
    <3> QED BY <2>1, <3>1
  <2>2. CASE p # NoPage
    <3>1. p \in CPages BY <1>2, <2>2
    <3> HIDE DEF p
    <3>2. /\ Good(Release(fs, p)) /\ (Cached(fs) => Cached(Release(fs, p)))
          /\ \A q \in CPages : Release(fs, p).cp[q].id = IF q = p THEN NoId ELSE fs.cp[q].id
      BY <1>2, <3>1, ReleaseGood
    <3>3. s = Release(fs, p) BY <2>2
    <3>4. Careful => NoPageOf(s, i) BY <1>2, <1>3, <3>2, <3>3, NamesAssumption DEF NoPageOf
    <3> QED BY <3>2, <3>3, <3>4 DEF Invariant
  <2> QED BY <2>1, <2>2
<1> HIDE DEF s
<1>5. Cached(s) => CachedBut(s, i) BY DEF Cached, CachedBut, Agree, AgreeBut
<1>6. CASE fs' = s BY <1>4, <1>6
<1>7. CASE fs' = Removed(s, i) BY <1>2, <1>4, <1>5, <1>7, RemovedGood DEF Invariant
<1> QED BY <1>1, <1>6, <1>7

(* SPIFFS_rename keeps the invariant.                                      *)
LEMMA RenameKeeps ==
  ASSUME Invariant(fs), NEW old \in Names, NEW new \in Names, SPIFFS_rename(old, new)
  PROVE  Invariant(fs')
<1> DEFINE hdr  == [name |-> new, live |-> TRUE]
           o(i) == [fs.obj[i] EXCEPT !.name = new]
           O(i) == [fs.obj EXCEPT ![i] = o(i)]
           s(i) == [fs EXCEPT !.obj = O(i), !.work = hdr]
<1>1. Good(fs) /\ fs \in Fs /\ fs.obj \in [Ids -> Objs] /\ hdr \in Headers \cup {NoHdr}
  BY Parts DEF Invariant, Good, Headers
<1>2. PICK i \in Ids : \/ fs' = EventUpd([fs EXCEPT !.obj[i].name = new, !.work = hdr], i,
                                         HdrSize(fs.obj[i]))
                       \/ fs' = [fs EXCEPT !.work = hdr]
  BY DEF SPIFFS_rename, FindByName
<1>3. CASE fs' = [fs EXCEPT !.work = hdr]
  <2> HIDE DEF hdr
  <2> QED BY <1>1, <1>3, PutWork, SameKeeps
<1>4. CASE fs' = EventUpd([fs EXCEPT !.obj[i].name = new, !.work = hdr], i, HdrSize(fs.obj[i]))
  <2> DEFINE u == s(i)
             t == EventUpd(u, i, HdrSize(fs.obj[i]))
  <2>1. [fs EXCEPT !.obj[i].name = new, !.work = hdr] = u BY <1>1 DEF Fs
  <2>2. o(i) \in Objs /\ o(i).name = new /\ o(i).data = fs.obj[i].data BY <1>1 DEF Objs
  <2>3. HdrSize(o(i)) = HdrSize(fs.obj[i]) BY <2>2 DEF HdrSize
  <2>4. HdrSize(fs.obj[i]) \in Sizes /\ HdrSize(fs.obj[i]) # 0 BY <1>1, ObjFacts
  <2> HIDE DEF o
  <2>5. O(i) \in [Ids -> Objs] /\ O(i)[i] = o(i) /\ \A j \in Ids \ {i} : O(i)[j] = fs.obj[j]
    BY <1>1, <2>2
  <2> HIDE DEF O, hdr
  <2>6. u \in Fs /\ u.obj = O(i) /\ u.fd = fs.fd /\ u.cp = fs.cp
    BY ONLY <1>1, <2>5 DEF Fs
  <2>7. fs' = t BY <1>4, <2>1
  <2> HIDE DEF s, u
  <2>8. /\ t \in Fs /\ t.obj = O(i) /\ Same(u, t)
        /\ \A g \in Fds : t.fd[g].size = (IF g \in OfObject(u, i) THEN HdrSize(fs.obj[i])
                                          ELSE u.fd[g].size)
    BY <2>4, <2>6, EventUpdFacts
  <2> HIDE DEF t
  <2>9. t.cp = fs.cp /\ \A g \in Fds : SameFd(fs.fd[g], t.fd[g]) BY <2>6, <2>8 DEF Same
  <2>10. ASSUME NEW g \in Fds, t.fd[g].open
         PROVE  t.fd[g].id \in Ids /\ Fits(t.fd[g], t.obj[t.fd[g].id])
    <3>1. fs.fd[g].open /\ fs.fd[g].id = t.fd[g].id BY <2>9, <2>10 DEF SameFd
    <3>2. fs.fd[g].id \in Ids /\ Fits(fs.fd[g], fs.obj[fs.fd[g].id])
      BY <1>1, <3>1 DEF Good, Opened
    <3>3. CASE fs.fd[g].id = i
      <4>1. g \in OfObject(u, i) BY <2>6, <3>1, <3>3 DEF OfObject
      <4>2. t.fd[g].size = HdrSize(o(i)) BY <2>3, <2>8, <4>1
      <4>3. t.obj[t.fd[g].id] = o(i) BY <2>5, <2>8, <3>1, <3>3
      <4> QED BY <3>1, <3>2, <4>2, <4>3 DEF Fits
    <3>4. CASE fs.fd[g].id # i
      <4>1. t.fd[g].size = fs.fd[g].size BY <2>6, <2>8, <3>4 DEF OfObject
      <4>2. t.obj[t.fd[g].id] = fs.obj[fs.fd[g].id] BY <2>5, <2>8, <3>1, <3>2, <3>4
      <4> QED BY <3>1, <3>2, <4>1, <4>2 DEF Fits
    <3> QED BY <3>3, <3>4
  <2>11. ASSUME Cached(fs) PROVE Cached(t)
    <3> USE <2>9, <2>11 DEF Cached, SameFd
    <3>1. Owned(t) BY DEF Owned
    <3>2. Single(t) BY DEF Single
    <3>3. InUse(t) BY DEF InUse
    <3>4. Direct(t) BY DEF Direct, IsDirect
    <3>5. Agree(t) BY DEF Agree, IsDirect
    <3>6. Named(t) BY <2>2, <2>5, <2>8, NamesAssumption DEF Named
    <3> QED BY <3>1, <3>2, <3>3, <3>4, <3>5, <3>6
  <2> QED BY <2>7, <2>8, <2>10, <2>11 DEF Invariant, Good, Opened
<1> QED BY <1>2, <1>3, <1>4
-----------------------------------------------------------------------------
(* SPIFFS_unmount goes through the descriptors one by one; the induction   *)
(* over them takes the least descriptor that could go wrong.               *)
LEMMA LeastNat ==
  ASSUME NEW T, T \subseteq Nat, T # {}
  PROVE  \E n \in T : \A m \in T : n <= m
<1> DEFINE R == OpToRel(<, Nat)
<1>1. IsWellFoundedOn(R, Nat) BY NatLessThanWellFounded
<1>2. \A m, n \in Nat : m < n => <<m, n>> \in R BY DEF OpToRel
<1> HIDE DEF R
<1>3. PICK n \in T : \A m \in T : ~(<<m, n>> \in R) BY <1>1, WFMin
<1>4. \A m \in T : ~(m < n) BY <1>2, <1>3
<1>5. \A m \in T : n <= m BY <1>4
<1> QED BY <1>5

(* The recursive definition defines a function.                            *)
LEMMA UnmountUpToDef ==
  UnmountUpTo = [k \in 0 .. NumFds |->
                   IF k = 0 THEN {fs} ELSE Returned(UnmountUpTo[k - 1], k)]
<1> DEFINE Body(g, n) == [k \in 0 .. n |-> IF k = 0 THEN {fs} ELSE Returned(g[k - 1], k)]
           Bad == {n \in 0 .. NumFds : \A g : g # Body(g, n)}
<1> USE SizesAssumption
<1>1. Bad = {}
  <2> SUFFICES ASSUME Bad # {} PROVE FALSE OBVIOUS
  <2>1. Bad \subseteq Nat OBVIOUS
  <2>2. PICK n \in Bad : \A m \in Bad : n <= m
    <3> HIDE DEF Bad
    <3> QED BY <2>1, LeastNat
  <2>3. n \in Nat /\ n <= NumFds OBVIOUS
  <2>4. CASE n = 0
    <3> DEFINE g == [k \in 0 .. 0 |-> {fs}]
    <3>1. g = Body(g, 0) OBVIOUS
    <3> QED BY <3>1, <2>4
  <2>5. CASE n # 0
    <3>1. n - 1 \in 0 .. NumFds /\ n - 1 \notin Bad
      <4> HIDE DEF Bad
      <4>1. n - 1 \in 0 .. NumFds /\ ~(n <= n - 1) BY <2>3, <2>5
      <4> QED BY <2>2, <4>1
    <3>2. PICK g : g = Body(g, n - 1) BY <3>1
    <3> DEFINE e == [k \in 0 .. n |-> IF k = n THEN Returned(g[n - 1], n) ELSE g[k]]
    <3>3. \A k \in 0 .. n : e[k] = IF k = n THEN Returned(g[n - 1], n) ELSE g[k] OBVIOUS
    <3>4. ASSUME NEW k \in 0 .. n
          PROVE  e[k] = IF k = 0 THEN {fs} ELSE Returned(e[k - 1], k)
      <4> HIDE DEF e
      <4>1. CASE k = n
        <5>1. n - 1 \in 0 .. n /\ n - 1 # n BY <2>3, <2>5
        <5>2. e[n - 1] = g[n - 1] BY <5>1, <3>3
        <5> QED BY <5>2, <4>1, <2>5, <3>3
      <4>2. CASE k # n
        <5>1. k \in 0 .. n - 1 BY <4>2, <2>3
        <5>2. e[k] = g[k] BY <3>3, <4>2
        <5>3. g[k] = IF k = 0 THEN {fs} ELSE Returned(g[k - 1], k) BY <3>2, <5>1
        <5>4. k # 0 => k - 1 \in 0 .. n /\ k - 1 # n BY <2>3, <5>1
        <5>5. k # 0 => e[k - 1] = g[k - 1] BY <3>3, <5>4
        <5> QED BY <5>2, <5>3, <5>5
      <4> QED BY <4>1, <4>2
    <3>5. e = Body(e, n) BY <3>4
    <3> QED BY <3>5, <2>2
  <2> QED BY <2>4, <2>5
<1>2. \E g : g = Body(g, NumFds)
  <2>1. NumFds \in 0 .. NumFds OBVIOUS
  <2> QED BY <1>1, <2>1, ZenonT(60)
<1>3. UnmountUpTo = CHOOSE g : g = Body(g, NumFds) BY DEF UnmountUpTo
<1> HIDE DEF Body
<1>4. UnmountUpTo = Body(UnmountUpTo, NumFds) BY <1>2, <1>3
<1> QED BY <1>4 DEF Body

(* However many descriptors have been flushed and returned.                *)
LEMMA UnmountUpToGood ==
  ASSUME Good(fs)
  PROVE  \A s \in UnmountUpTo[NumFds] : Good(s)
<1> DEFINE Bad == {k \in 0 .. NumFds : \E s \in UnmountUpTo[k] : ~Good(s)}
<1> USE SizesAssumption
<1>1. \A k \in 0 .. NumFds :
         UnmountUpTo[k] = IF k = 0 THEN {fs} ELSE Returned(UnmountUpTo[k - 1], k)
  BY UnmountUpToDef
<1>2. Bad = {}
  <2> SUFFICES ASSUME Bad # {} PROVE FALSE OBVIOUS
  <2>1. Bad \subseteq Nat OBVIOUS
  <2>2. PICK n \in Bad : \A m \in Bad : n <= m
    <3> HIDE DEF Bad
    <3> QED BY <2>1, LeastNat
  <2>3. n \in 0 .. NumFds OBVIOUS
  <2>4. n # 0 BY <1>1, <2>2
  <2>5. n - 1 \in 0 .. NumFds /\ n - 1 \notin Bad BY <2>2, <2>3, <2>4
  <2>6. \A s \in UnmountUpTo[n - 1] : Good(s) BY <2>5
  <2>7. PICK s \in Returned(UnmountUpTo[n - 1], n) : ~Good(s) BY <1>1, <2>2, <2>4
  <2>8. PICK t \in UnmountUpTo[n - 1] :
          s \in IF t.fd[n].open THEN {CloseFd(o.fs, n) : o \in FlushCache(t, n)} ELSE {t}
    BY <2>7 DEF Returned
  <2>9. Good(t) /\ n \in Fds BY <2>3, <2>4, <2>6 DEF Fds
  <2>10. CASE t.fd[n].open
    <3>1. PICK o \in FlushCache(t, n) : s = CloseFd(o.fs, n) BY <2>8, <2>10
    <3>2. Good(o.fs) BY <2>9, <2>10, FlushCacheGood
    <3> QED BY <2>7, <2>9, <3>1, <3>2, CloseFdGood
  <2>11. CASE ~t.fd[n].open BY <2>7, <2>8, <2>9, <2>11
  <2> QED BY <2>10, <2>11
<1> QED BY <1>2

(* After a mount no slot is open and no page is a write page.              *)
LEMMA MountedKeeps ==
  ASSUME NEW O \in [Ids -> Objs]
  PROVE  Invariant(Mounted(O))
<1> DEFINE s == Mounted(O)
<1>1. ClosedFd(NoPage) \in FdRecs /\ ~ClosedFd(NoPage).open /\ ClosedFd(NoPage).cp = NoPage
  BY ClosedFdFacts
<1>2. BlankPage \in CpRecs /\ BlankPage.id = NoId
  <2>1. <<>> \in Seq(Cells) OBVIOUS
  <2> QED BY <2>1 DEF BlankPage, CpRecs
<1>3. s \in Fs BY <1>1, <1>2 DEF Mounted, Fs
<1>4. /\ \A h \in Fds : ~s.fd[h].open /\ s.fd[h].cp = NoPage
      /\ \A p \in CPages : s.cp[p].id = NoId
  BY <1>1, <1>2 DEF Mounted
<1> HIDE DEF s
<1>5. Opened(s) BY <1>4 DEF Opened
<1>6. Owned(s) /\ Single(s) /\ InUse(s) BY <1>4 DEF Owned, Single, InUse
<1>7. Direct(s) /\ Agree(s) /\ Named(s) BY <1>4 DEF Direct, Agree, Named
<1> QED BY <1>3, <1>5, <1>6, <1>7 DEF Invariant, Good, Cached, s

(* SPIFFS_unmount and a power cut keep the invariant.                      *)
LEMMA MountCallsKeep ==
  ASSUME Invariant(fs), SPIFFS_unmount \/ PowerCut
  PROVE  Invariant(fs')
<1>1. PICK s : Good(s) /\ fs' = Mounted(s.obj)
  <2>1. CASE SPIFFS_unmount
    <3>1. PICK s \in UnmountUpTo[NumFds] : fs' = Mounted(s.obj) BY <2>1 DEF SPIFFS_unmount
    <3>2. Good(s) BY <3>1, UnmountUpToGood DEF Invariant
    <3> QED BY <3>1, <3>2
  <2>2. CASE PowerCut BY <2>2 DEF PowerCut, Invariant
  <2> QED BY <2>1, <2>2
<1>2. s.obj \in [Ids -> Objs] BY <1>1, Parts DEF Good
<1> QED BY <1>1, <1>2, MountedKeeps
-----------------------------------------------------------------------------
(* The inductive invariant: sizes and types whoever calls, and the cache's *)
(* ownership of pages if callers are careful.                              *)
THEOREM Inductive == Spec => []Invariant(fs)
<1>1. Init => Invariant(fs)
  <2> SUFFICES ASSUME Init PROVE Invariant(fs) OBVIOUS
  <2>1. NoObj \in Objs
    <3>1. <<>> \in Seq(Cells) OBVIOUS
    <3> QED BY <3>1 DEF NoObj, Objs
  <2>2. [i \in Ids |-> NoObj] \in [Ids -> Objs] BY <2>1
  <2> QED BY <2>2, MountedKeeps DEF Init
<1>2. Invariant(fs) /\ [Next]_vars => Invariant(fs)'
  <2> SUFFICES ASSUME Invariant(fs), [Next]_vars PROVE Invariant(fs') OBVIOUS
  <2>1. CASE UNCHANGED vars BY <2>1 DEF vars
  <2>2. ASSUME NEW n \in Names, SPIFFS_creat(n) PROVE Invariant(fs') BY <2>2, CreatKeeps
  <2>3. ASSUME NEW n \in Names, SPIFFS_remove(n) PROVE Invariant(fs') BY <2>3, RemoveKeeps
  <2>4. ASSUME NEW n \in Names, NEW flags \in Modes, NEW creat \in BOOLEAN,
               NEW trunc \in BOOLEAN, SPIFFS_open(n, flags, creat, trunc)
        PROVE  Invariant(fs')
    <3>1. OpenExisting(n, flags, trunc) \/ OpenNew(n, flags) BY <2>4 DEF SPIFFS_open
    <3> QED BY <3>1, OpenExistingKeeps, OpenNewKeeps
  <2>5. ASSUME NEW h \in Fds, NEW len \in Lens, SPIFFS_read(h, len) PROVE Invariant(fs')
    BY <2>5, ReadKeeps
  <2>6. ASSUME NEW h \in Fds, NEW buf \in Bufs, SPIFFS_write(h, buf) PROVE Invariant(fs')
    BY <2>6, WriteKeeps
  <2>7. ASSUME NEW h \in Fds, NEW offs \in 0 .. MaxLen, SPIFFS_lseek(h, offs)
        PROVE  Invariant(fs')
    BY <2>7, LseekKeeps
  <2>8. ASSUME NEW h \in Fds, SPIFFS_fstat(h) \/ SPIFFS_fflush(h) PROVE Invariant(fs')
    BY <2>8, FlushCallsKeep
  <2>9. ASSUME NEW h \in Fds, SPIFFS_close(h) PROVE Invariant(fs') BY <2>9, CloseKeeps
  <2>10. ASSUME NEW h \in Fds, SPIFFS_fremove(h) PROVE Invariant(fs') BY <2>10, FremoveKeeps
  <2>11. ASSUME NEW old \in Names, NEW new \in Names, SPIFFS_rename(old, new)
         PROVE  Invariant(fs')
    BY <2>11, RenameKeeps
  <2>12. CASE SPIFFS_unmount \/ PowerCut BY <2>12, MountCallsKeep
  <2> QED
    BY <2>1, <2>2, <2>3, <2>4, <2>5, <2>6, <2>7, <2>8, <2>9, <2>10, <2>11, <2>12 DEF Next
<1> QED BY <1>1, <1>2, PTL DEF Spec

(* Types hold however the calls are made.                                  *)
THEOREM TypeCorrect == Spec => []TypeOK
<1>1. Invariant(fs) => TypeOK BY DEF Invariant, Good, TypeOK
<1> QED BY <1>1, Inductive, PTL

(* For any callers no open descriptor's size falls behind its file's,      *)
(* whoever changed it and however far writes that failed got; without a    *)
(* full flash the two are always equal.                                    *)
THEOREM SizesNeverBehind == Spec => []NoSizeBehind
<1>1. ASSUME Invariant(fs) PROVE NoSizeBehind
  <2> SUFFICES ASSUME NEW h \in Fds, fs.fd[h].open
               PROVE  LET len  == Len(fs.obj[fs.fd[h].id].data)
                          size == fs.fd[h].size
                      IN  size = len \/ (len = 0 /\ size = Undef) \/ (MayFill /\ len < size)
    BY DEF NoSizeBehind
  <2> DEFINE o == fs.obj[fs.fd[h].id]
  <2>1. fs.fd[h].id \in Ids /\ Fits(fs.fd[h], o) /\ fs \in Fs
    BY <1>1 DEF Invariant, Good, Opened
  <2>2. o \in Objs BY <2>1, Parts
  <2> HIDE DEF o
  <2>3. Len(<<>>) = 0 OBVIOUS
  <2> QED BY <2>1, <2>2, <2>3, ObjFacts DEF Fits, o
<1> QED BY <1>1, Inductive, PTL

(* With careful callers no descriptor, open or closed, ever refers to      *)
(* another file's cached write.                                            *)
THEOREM CachePagesOwned ==
  ASSUME Careful
  PROVE  Spec => []FdCacheOwned
<1>1. Invariant(fs) => FdCacheOwned BY DEF Invariant, Cached, Owned, FdCacheOwned
<1> QED BY <1>1, Inductive, PTL

(* With careful callers a file has at most one cached write, and is open   *)
(* while it has one.                                                       *)
THEOREM OnePageAlways ==
  ASSUME Careful
  PROVE  Spec => []OnePagePerFile
<1>1. ASSUME Invariant(fs) PROVE OnePagePerFile
  <2> SUFFICES ASSUME NEW p \in CPages, fs.cp[p].id # NoId
               PROVE  PagesOf(fs, fs.cp[p].id) = {p} /\ OfObject(fs, fs.cp[p].id) # {}
    BY DEF OnePagePerFile, WritePages
  <2>1. PagesOf(fs, fs.cp[p].id) = {p} BY <1>1 DEF Invariant, Cached, Single, PagesOf
  <2>2. OfObject(fs, fs.cp[p].id) # {} BY <1>1 DEF Invariant, Cached, InUse, OfObject
  <2> QED BY <2>1, <2>2
<1> QED BY <1>1, Inductive, PTL

(* With careful callers two cache pages are always left for reading, for   *)
(* any number of descriptors: write pages have different files, and those  *)
(* have different descriptors.                                             *)
THEOREM ReadPagesAlways ==
  ASSUME Careful
  PROVE  Spec => []ReadPagesLeft
<1>1. ASSUME Invariant(fs) PROVE ReadPagesLeft
  <2> DEFINE W == WritePages(fs)
             f == [p \in W |-> CHOOSE h \in Fds : fs.fd[h].open /\ fs.fd[h].id = fs.cp[p].id]
  <2>1. \A p \in W : p \in CPages /\ fs.cp[p].id # NoId BY DEF WritePages
  <2>2. \A p \in W : \E h \in Fds : fs.fd[h].open /\ fs.fd[h].id = fs.cp[p].id
    BY <1>1, <2>1 DEF Invariant, Cached, InUse
  <2>3. \A p \in W : f[p] \in Fds /\ fs.fd[f[p]].id = fs.cp[p].id BY <2>2
  <2>4. f \in [W -> Fds] BY <2>3
  <2>5. \A p, q \in W : f[p] = f[q] => p = q
    <3> HIDE DEF f
    <3>1. \A p, q \in W : f[p] = f[q] => fs.cp[p].id = fs.cp[q].id BY <2>3
    <3> QED BY <1>1, <2>1, <3>1 DEF Invariant, Cached, Single
  <2> HIDE DEF f
  <2>6. IsFiniteSet(Fds) /\ Cardinality(Fds) = NumFds
    BY SizesAssumption, FS_Interval DEF Fds
  <2>7. W \in SUBSET CPages BY <2>1
  <2>8. IsFiniteSet(W) BY <2>7, SizesAssumption, FS_Subset
  <2> HIDE DEF W
  <2>9. ~(Cardinality(Fds) < Cardinality(W)) BY <2>4, <2>5, <2>6, <2>8, FS_PigeonHole
  <2>10. Cardinality(CPages \ W) = Cardinality(CPages) - Cardinality(CPages \cap W)
    BY SizesAssumption, FS_Difference
  <2>11. CPages \cap W = W BY <2>7
  <2>12. Cardinality(W) \in Nat /\ Cardinality(CPages) \in Nat
    BY <2>8, SizesAssumption, FS_CardinalityType
  <2>13. Cardinality(CPages \ W) >= 2
    BY <2>6, <2>9, <2>10, <2>11, <2>12, SizesAssumption
  <2> QED BY <2>13 DEF ReadPagesLeft, W
<1> QED BY <1>1, Inductive, PTL
=============================================================================
