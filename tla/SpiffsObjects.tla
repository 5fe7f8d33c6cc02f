---------------------------- MODULE SpiffsObjects ----------------------------
(***************************************************************************)
(* Objects as chains of pages (spiffs_nucleus.c: create, open, append,     *)
(* modify, truncate, read) and the mount (spiffs_hydrogen.c).  S.l holds   *)
(* the locals of the routine that is running: the index page in fs->work   *)
(* (work), its page (cur) and span (prev), what is written so far (wr),    *)
(* the data span (spx) and the offset in its page (po).                    *)
(***************************************************************************)
EXTENDS SpiffsGc

Low(a, b) == IF a < b THEN a ELSE b

\* spiffs_object_create.
ObjectCreate(S, id, name) ==
    LET new == [BlankPage EXCEPT !.id = Ix(id), !.span = 0, !.name = name,
                                 !.fl = {"FINAL", "INDEX", "USED"}]
    IN  Do(GcCheck(S, DataSize), LAMBDA t :
           Do(FindFree(t), LAMBDA u :
              Event(WrPage([WrLookup(u, u.pix, Ix(id)) EXCEPT !.al = @ + 1], u.pix, new),
                    "NEW", id, 0, u.pix, Blank)))

\* spiffs_object_open_by_page.
OpenByPage(S, d, p) ==
    LET pg == S.f.pg[p]
        fd == [open |-> TRUE, id |-> S.f.lu[p], size |-> pg.size, hdr |-> p, cpix |-> p, cspan |-> 0]
    IN  Do(Fail(S, ValidateObjix(pg, S.f.lu[p], 0)), LAMBDA t : [t EXCEPT !.fds[d] = fd])
-----------------------------------------------------------------------------
(* Index pages while an object is written.                                 *)

\* The index page of span cs is brought into fs->work: the header always
\* exists, another index page is at the descriptor's cursor or is searched.
LoadAt(S, d, cs, p) ==
    Do(Fail(S, ValidateObjix(S.f.pg[p], S.fds[d].id, cs)), LAMBDA t :
       [t EXCEPT !.l.work = t.f.pg[p], !.l.cur = p])
LoadIndex(S, d, cs) ==
    IF cs = 0 THEN LoadAt(S, d, cs, S.l.cur)
    ELSE IF S.fds[d].cspan = cs THEN LoadAt(S, d, cs, S.fds[d].cpix)
    ELSE Do(FindIdAndSpan(S, Ix(S.fds[d].id), cs, 0), LAMBDA t : LoadAt(t, d, cs, t.pix))

\* A new index page: allocated and finalised empty, filled later in place.
NewIndexOf(S, d, cs, hdr) ==
    Do(AllocateData(S, hdr.id, hdr, BlankPage, TRUE), LAMBDA t :
       [Event(t, "NEW", hdr.id, cs, t.pix, 0)
         EXCEPT !.l.work = [hdr EXCEPT !.fl = @ \cup {"USED"}], !.l.cur = t.pix])
NewIndex(S, d, cs) ==
    NewIndexOf(S, d, cs, [BlankPage EXCEPT !.id = Ix(S.fds[d].id), !.span = cs,
                                           !.fl = {"FINAL", "INDEX"}])

\* The index page in fs->work is written over the page it came from.
StoreInPlace(S, d, span, size) ==
    Do(Fail(S, IndexCheck(S, d, S.l.cur, span)), LAMBDA t :
       Event(WrPage(t, t.l.cur, t.l.work), "UPD", t.fds[d].id, span, t.l.cur, size))

\* Storing the index page an append has filled; the header records the size.
\* The header of an empty object is updated in place, its size was blank.
StoreHeader(S, d, off, last, size) ==
    IF off # 0 THEN UpdateIndexHdr(S, d, S.fds[d].id, S.fds[d].hdr, TRUE, S.l.work, 0, size)
    ELSE IF last THEN StoreInPlace(S, d, 0, size)
    ELSE Do(Fail(S, IndexCheck(S, d, S.l.cur, 0)), LAMBDA t : WrPage(t, t.l.cur, t.l.work))
StoreSpan(S, d, size) ==
    Do(StoreInPlace(S, d, S.l.prev, 0), LAMBDA t :
       UpdateIndexHdr(t, d, t.fds[d].id, t.fds[d].hdr, FALSE, BlankPage, 0, size))
StoreAppended(S, d, off, last) ==
    IF S.l.prev = 0
    THEN StoreHeader([S EXCEPT !.l.work.size = off + S.l.wr], d, off, last, off + S.l.wr)
    ELSE StoreSpan(S, d, off + S.l.wr)

SetFd(S, d, size, cpix, cspan) ==
    [S EXCEPT !.fds[d].size = size, !.fds[d].cpix = cpix, !.fds[d].cspan = cspan]

\* An append reaches another index page: the previous one is stored, the next
\* one created or loaded.
StoreReached(S, d, size, off) ==
    IF S.l.wr = 0 THEN S
    ELSE Do(StoreAppended(S, d, off, FALSE), LAMBDA t : [t EXCEPT !.fds[d].size = size])
LastSpan(S, d) == IxSpan((S.fds[d].size - 1) \div DataSize)
EnterIndex(S, d, cs) ==
    IF cs # 0 /\ (S.l.wr > 0 \/ cs > LastSpan(S, d)) THEN NewIndex(S, d, cs)
    ELSE LoadIndex(S, d, cs)
CursorAt(S, d, size, cs) == IF cs = 0 THEN S ELSE SetFd(S, d, size, S.l.cur, cs)
AppendIndex(S, d, off, cs) ==
    Do(Do(StoreReached(S, d, off + S.l.wr, off), LAMBDA t : EnterIndex(t, d, cs)),
       LAMBDA t : [CursorAt(t, d, off + S.l.wr, cs) EXCEPT !.l.prev = cs])

\* mutant: everything behind the offset is overwritten
FilledOver(dat, from, n, v) == [i \in 0..(DataSize - 1) |-> IF i >= from THEN v ELSE dat[i]]

Filled(dat, from, n, v) ==
    [i \in 0..(DataSize - 1) |-> IF i >= from /\ i < from + n THEN v ELSE dat[i]]

DataHeader(S, d) == [BlankPage EXCEPT !.id = Plain(S.fds[d].id), !.span = S.l.spx]

\* The index in fs->work names the page n units were written to.
Advance(S, n) ==
    [S EXCEPT !.l.work.ix[IxEntry(S.l.spx)] = S.pix, !.l.po = 0, !.l.spx = @ + 1, !.l.wr = @ + n]
\* Only a failed allocation ends a loop with the index still to be stored (brk).
AdvanceOrBreak(S, n) ==
    IF S.res = "OK" THEN Advance(S, n) ELSE [Fail(S, "OK") EXCEPT !.l.brk = S.res]

AppendAt(S, d, p, body, n) ==
    Do(Fail(S, DataCheck(S, d, p, S.l.spx)), LAMBDA t :
       Advance([WrPage(t, p, body) EXCEPT !.pix = p], n))
AppendUnits(S, d, body, n) ==
    IF S.l.po = 0
    THEN AdvanceOrBreak(AllocateData(S, Plain(S.fds[d].id),
                                     [DataHeader(S, d) EXCEPT !.fl = {"FINAL"}], body, TRUE), n)
    ELSE AppendAt(S, d, S.l.work.ix[IxEntry(S.l.spx)], body, n)

\* What of len units is left for the page at hand.
UnitsOfPage(S, len) == Low(len - S.l.wr, DataSize - S.l.po)
NewData(S, n, v) == [BlankPage EXCEPT !.dat = Filled(@, S.l.po, n, v)]

\* One data page of an append: a new page, finalised at once, or the free end
\* of the last page.
AppendPage(S, d, v, len) ==
    AppendUnits(S, d, NewData(S, UnitsOfPage(S, len), v), UnitsOfPage(S, len))

RECURSIVE AppendLoop(_, _, _, _, _)
AppendLoop(S, d, off, v, len) ==
    IF S.res # "OK" \/ S.l.brk # "OK" \/ S.l.wr >= len THEN S
    ELSE AppendLoop(Do(IF IxSpan(S.l.spx) = S.l.prev THEN S ELSE AppendIndex(S, d, off, IxSpan(S.l.spx)),
                       LAMBDA t : AppendPage(t, d, v, len)), d, off, v, len)

Locals(S, d, off) ==
    [S EXCEPT !.l = [NoLocals EXCEPT !.cur = S.fds[d].hdr, !.spx = off \div DataSize,
                                     !.po = off % DataSize]]

\* The result of the loop counts once the index is stored.
Broken(S) == Do(S, LAMBDA t : Fail(t, t.l.brk))

\* spiffs_object_append.
ObjectAppend(S, d, offset, v, len) ==
    LET off == Low(offset, S.fds[d].size)
    IN  Do(GcCheck(S, len + DataSize), LAMBDA t :
           Do(AppendLoop(Locals(t, d, off), d, off, v, len), LAMBDA u :
              Broken(StoreAppended(SetFd(u, d, off + u.l.wr, u.l.cur, u.l.prev), d, off, TRUE))))
-----------------------------------------------------------------------------
(* spiffs_object_modify: every page that is written is replaced.           *)

\* An index page that is modified is moved, not written in place.
StoreModified(S, d) ==
    IF S.l.prev = 0 THEN UpdateIndexHdr(S, d, S.fds[d].id, S.fds[d].hdr, TRUE, S.l.work, 0, 0)
    ELSE Do(Fail(S, IndexCheck(S, d, S.l.cur, S.l.prev)), LAMBDA t :
            Do(PageMove(t, TRUE, t.l.work, t.fds[d].id, t.l.cur), LAMBDA u :
               Event([u EXCEPT !.fds[d].cpix = u.pix], "UPD", u.fds[d].id, u.l.prev, u.pix, 0)))

ModifyIndex(S, d, cs) ==
    Do(Do(IF S.l.wr = 0 THEN S ELSE StoreModified(S, d), LAMBDA t : LoadIndex(t, d, cs)), LAMBDA t :
       [SetFd(t, d, t.fds[d].size, t.l.cur, cs) EXCEPT !.l.prev = cs])

\* A part of the original's data is copied to the page at S.pix.
CopyPart(S, dat, from, to) ==
    IF from >= to THEN S
    ELSE WrPage(S, S.pix, [BlankPage EXCEPT !.dat =
                             [i \in DOMAIN @ |-> IF i >= from /\ i < to THEN dat[i] ELSE Blank]])

AllocateFull(S, d, n, v) ==
    AllocateData(S, Plain(S.fds[d].id), DataHeader(S, d), NewData(S, n, v), TRUE)
AllocatePartial(S, d, n, v, dat) ==
    Do(AllocateData(S, Plain(S.fds[d].id), DataHeader(S, d), BlankPage, FALSE), LAMBDA t :
       WrFlags(WrPage(CopyPart(CopyPart(t, dat, 0, S.l.po), dat, S.l.po + n, DataSize),
                      t.pix, NewData(S, n, v)), t.pix, {"FINAL"}))

\* mutant: the original page is not deleted
ReplaceKept(S, orig, n) == AdvanceOrBreak(S, n)

\* The original is deleted while the index on flash still names it.
Replace(S, orig, n) == AdvanceOrBreak(Do(S, LAMBDA t : PageDelete(t, orig)), n)

\* One data page: a full page is allocated with its data, a partial one is
\* allocated, gets the unmodified data copied, the new data, and is finalised.
ModifyUnits(S, d, v, n, orig) ==
    IF n = DataSize THEN Replace(AllocateFull(S, d, n, v), orig, n)
    ELSE Do(Fail(S, DataCheck(S, d, orig, S.l.spx)), LAMBDA t :
            Replace(AllocatePartial(t, d, n, v, t.f.pg[orig].dat), orig, n))
ModifyPage(S, d, v, len) ==
    ModifyUnits(S, d, v, UnitsOfPage(S, len), S.l.work.ix[IxEntry(S.l.spx)])

RECURSIVE ModifyLoop(_, _, _, _)
ModifyLoop(S, d, v, len) ==
    IF S.res # "OK" \/ S.l.brk # "OK" \/ S.l.wr >= len THEN S
    ELSE ModifyLoop(Do(IF IxSpan(S.l.spx) = S.l.prev THEN S ELSE ModifyIndex(S, d, IxSpan(S.l.spx)),
                       LAMBDA t : ModifyPage(t, d, v, len)), d, v, len)

ObjectModify(S, d, off, v, len) ==
    Do(GcCheck(S, len + DataSize), LAMBDA t :
       Do(ModifyLoop(Locals(t, d, off), d, v, len), LAMBDA u :
          Broken(StoreModified(SetFd(u, d, u.fds[d].size, u.l.cur, u.l.prev), d))))

\* How many of len units at off lie inside an object of this size.
Inside(size, off, len) == IF size = Blank \/ off >= size THEN 0 ELSE Low(size - off, len)
AppendRest(S, d, off, v, len) ==
    IF len = 0 THEN S ELSE Do(S, LAMBDA t : ObjectAppend(t, d, off, v, len))
WriteParts(S, d, off, v, len, m) ==
    AppendRest(IF m = 0 THEN S ELSE ObjectModify(S, d, off, v, m), d, off + m, v, len - m)

\* spiffs_hydro_write: what lies inside the object is modified, the rest appended.
HydroWrite(S, d, off, v, len) ==
    WriteParts(S, d, off, v, len, Inside(S.fds[d].size, off, len))
-----------------------------------------------------------------------------
(* spiffs_object_truncate to size 0 (its only callers: O_TRUNC and remove). *)

\* Leaving an index page behind: it is deleted, the header gets the size.
DropIndex(S, d, size) ==
    Do(Fail(S, IndexCheck(S, d, S.l.cur, S.l.prev)), LAMBDA t :
       Do(UpdateIndexHdr(Event(PageDelete(t, t.l.cur), "DEL", t.fds[d].id, t.l.prev, t.l.cur, 0),
                         d, t.fds[d].id, t.fds[d].hdr, FALSE, BlankPage, 0, size),
          LAMBDA u : [u EXCEPT !.fds[d].size = size]))

\* The index page of span cs, whose header is known, at S.pix.
FindSpan(S, d, cs) ==
    IF cs = 0 THEN [S EXCEPT !.pix = S.fds[d].hdr] ELSE FindIdAndSpan(S, Ix(S.fds[d].id), cs, 0)
\* It is brought into fs->work and becomes the descriptor's cursor.
LoadSpan(S, d, cs) ==
    Do(FindSpan(S, d, cs), LAMBDA t :
       Do(Fail(t, ValidateObjix(t.f.pg[t.pix], t.fds[d].id, cs)), LAMBDA u :
          [SetFd(u, d, u.fds[d].size, u.pix, cs)
            EXCEPT !.l.work = u.f.pg[u.pix], !.l.cur = u.pix, !.l.prev = cs]))

TruncateIndex(S, d, size, cs) ==
    Do(IF S.l.prev = Blank THEN S ELSE DropIndex(S, d, size), LAMBDA t : LoadSpan(t, d, cs))

\* One page, the last, is deleted; a page that is gone already is skipped.
SizeBefore(size) == IF size % DataSize = 0 THEN size - DataSize ELSE size - (size % DataSize)
Forget(S) == [S EXCEPT !.l.work.ix[IxEntry(S.l.spx)] = Blank]
TruncateAt(S, d, p, chk, left) ==
    IF chk \notin {"OK", "DELETED", "REF_FREE"} THEN [Forget(S) EXCEPT !.l.brk = chk]
    ELSE [Forget(IF chk = "OK" THEN PageDelete(S, p) ELSE S)
           EXCEPT !.fds[d].size = left, !.l.spx = @ - 1, !.l.wr = left]
TruncatePage(S, d, size) ==
    LET p == S.l.work.ix[IxEntry(S.l.spx)]
    IN  TruncateAt(S, d, p, DataCheck(S, d, p, S.l.spx), SizeBefore(size))

RECURSIVE TruncateLoop(_, _)
TruncateLoop(S, d) ==
    IF S.res # "OK" \/ S.l.brk # "OK" \/ S.l.wr = 0 THEN S
    ELSE TruncateLoop(Do(IF IxSpan(S.l.spx) = S.l.prev THEN S
                         ELSE TruncateIndex(S, d, S.l.wr, IxSpan(S.l.spx)),
                         LAMBDA t : TruncatePage(t, d, S.l.wr)), d)

\* The header of an object that is emptied is reset, of one that is removed
\* deleted; the descriptors on it are closed.
TruncateEnd(S, d, remove) ==
    LET id == S.fds[d].id
        p == S.l.cur
        size == S.l.wr
        blank == [S.l.work EXCEPT !.ix = [i \in IxSlots |-> Blank]]
    IN  IF S.l.prev # 0 /\ S.l.prev # Blank
        THEN Do(Fail(S, IndexCheck(S, d, p, S.l.prev)), LAMBDA t :
                Do(PageMove(t, TRUE, t.l.work, id, p), LAMBDA u :
                   UpdateIndexHdr(Event([u EXCEPT !.fds[d].cpix = u.pix], "UPD", id, u.l.prev, u.pix, 0),
                                  d, id, u.fds[d].hdr, FALSE, BlankPage, 0, size)))
        ELSE IF size = 0 /\ remove
        THEN Do(Fail(S, IndexCheck(S, d, p, 0)), LAMBDA t :
                Event(PageDelete(t, p), "DEL", id, 0, p, 0))
        ELSE IF size = 0 THEN UpdateIndexHdr(S, d, id, p, TRUE, blank, 0, Blank)
        ELSE UpdateIndexHdr(S, d, id, p, TRUE, S.l.work, 0, size)

ObjectTruncate(S, d, remove) ==
    LET size == IF S.fds[d].size = Blank THEN 0 ELSE S.fds[d].size
        Mark(t) == IF remove THEN WrFlags(t, t.fds[d].hdr, {"USED", "INDEX", "FINAL", "IXDELE"}) ELSE t
        Begin(t) == [t EXCEPT !.l = [NoLocals EXCEPT !.cur = t.fds[d].hdr, !.wr = size,
                                       !.spx = IF size = 0 THEN 0 ELSE (size - 1) \div DataSize]]
        Done(t) == [t EXCEPT !.fds[d].size = t.l.wr]
    IN  Do(GcCheck(S, IF remove THEN 0 ELSE DataSize), LAMBDA t :
           Do(TruncateLoop(Begin(Mark(t)), d), LAMBDA u :
              Do(TruncateEnd(u, d, remove), Done)))
-----------------------------------------------------------------------------
(* Reading.  S.l.got is what has been read so far.                         *)

ReadUnits(S, d, p, spx, po, n) ==
    IF n <= 0 THEN Fail(S, "END_OF_OBJECT")
    ELSE Do(Fail(S, DataCheck(S, d, p, spx)), LAMBDA t :
            [t EXCEPT !.l.wr = @ + n,
                      !.l.got = @ \o [i \in 1..n |-> t.f.pg[p].dat[po + i - 1]]])
ReadPage(S, d, end, spx, po) ==
    ReadUnits(S, d, S.l.work.ix[IxEntry(spx)], spx, po,
              Low(Low(end - S.l.wr, DataSize - po), S.fds[d].size))

\* spiffs_object_read from the offset S.l.wr up to end.
RECURSIVE ReadLoop(_, _, _)
ReadLoop(S, d, end) ==
    LET spx == S.l.wr \div DataSize
        po == S.l.wr % DataSize
    IN  IF S.res # "OK" \/ S.l.wr >= end THEN S
        ELSE ReadLoop(Do(IF IxSpan(spx) = S.l.prev THEN S ELSE LoadSpan(S, d, IxSpan(spx)),
                         LAMBDA t : ReadPage(t, d, end, spx, po)), d, end)

ObjectRead(S, d, off, len) == ReadLoop([S EXCEPT !.l = [NoLocals EXCEPT !.wr = off]], d, off + len)

\* SPIFFS_lseek moves the index cursor; the index page must exist.
Seek(S, d, off) ==
    LET cs == IxSpan(off \div DataSize)
    IN  IF S.fds[d].cspan = cs THEN S
        ELSE Do(FindIdAndSpan(S, Ix(S.fds[d].id), cs, 0), LAMBDA t :
                SetFd(t, d, t.fds[d].size, t.pix, cs))
=============================================================================
