---------------------------- MODULE SpiffsPages ----------------------------
(***************************************************************************)
(* SPIFFS calls on flash pages: every call of the file API with what it    *)
(* writes, a power cut between any two writes of a call, the mount and the *)
(* consistency check that follow.  The write cache is above this model     *)
(* (SpiffsFiles); descriptors here write through (SPIFFS_DIRECT).          *)
(***************************************************************************)
EXTENDS SpiffsCheck

CONSTANTS Names, Values, MaxSize, MaxCalls, NoFile, MayCut, QuickFree

VARIABLES fs,      \* struct spiffs and the flash
          calls,   \* calls so far, at most MaxCalls
          ok,      \* the last call returned no error
          phase,   \* "run", "cut" (mounted after a power cut), "checked"
          files,   \* history: the files, as they are read from the flash
          cut      \* history: the files before the call that was cut, and had it ended

vars == << fs, calls, ok, phase, files, cut >>
-----------------------------------------------------------------------------
\* What a call leaves in memory: its locals are gone.
Settled(S) == [S EXCEPT !.log = << >>, !.l = NoLocals, !.res = "OK", !.pix = 0,
                        !.lub = [e \in 0..(Entries - 1) |-> Blank],
                        !.fds = [d \in 1..FdCount |-> IF S.fds[d].open THEN S.fds[d] ELSE ClosedFd]]

\* A file of a flash image, read through its header and index pages.
Headers(f, n) == {p \in Pages : IsNamed(f, p, n)}
IndexPages(f, id, span) == {p \in Pages : f.lu[p] = Ix(id) /\ LiveSpan(f.pg[p], Ix(id), span)}
EntryIn(f, ixs, spx) == IF ixs = {} THEN Blank ELSE f.pg[CHOOSE p \in ixs : TRUE].ix[IxEntry(spx)]
CellIn(f, id, spx, i, p) ==
    IF /\ p \in Pages /\ f.pg[p].id = Plain(id)
       /\ Validate(f.pg[p], Plain(id), spx, FALSE) = "OK"
    THEN f.pg[p].dat[i] ELSE Blank
CellOf(f, id, spx, i) ==
    CellIn(f, id, spx, i, EntryIn(f, IndexPages(f, id, IxSpan(spx)), spx))
SizeOf(f, p) == IF f.pg[p].size = Blank THEN 0 ELSE f.pg[p].size
ContentAt(f, p) ==
    [i \in 1..SizeOf(f, p) |-> CellOf(f, f.pg[p].id, (i - 1) \div DataSize, (i - 1) % DataSize)]
FileAt(f, hdrs) == IF hdrs = {} THEN NoFile ELSE ContentAt(f, CHOOSE p \in hdrs : TRUE)
FileOf(f, n) == FileAt(f, Headers(f, n))
FilesOf(f) == [n \in Names |-> FileOf(f, n)]
-----------------------------------------------------------------------------
\* spiffs_fd_find_new.
FreeFds == {d \in 1..FdCount : ~ fs.fds[d].open}
FindNew == CHOOSE d \in FreeFds : \A c \in FreeFds : d <= c
Return(S, d) == [S EXCEPT !.fds[d] = ClosedFd]
\* A call that fails gives back the descriptor it took.
OrReturn(S, d) == IF S.res = "OK" THEN S ELSE Return(S, d)

\* spiffs_obj_lu_find_free_obj_id: the ids fit the bitmap in work memory.
FreeId(f) ==
    LET used == {Plain(f.lu[p]) : p \in {q \in Pages : IsBusy(f.lu[q])}}
    IN  CHOOSE id \in 1..(Cardinality(used) + 1) :
            id \notin used /\ \A x \in 1..(id - 1) : x \in used

\* A call that ends, or that a power cut interrupts after some of its writes.
Ends(S) ==
    /\ fs' = Settled(S) /\ files' = FilesOf(S.f)
    /\ ok' = (S.res = "OK") /\ UNCHANGED << phase, cut >>
Cut(S) ==
    /\ MayCut
    /\ \E i \in DOMAIN S.log : fs' = Settled(Mounted(S.log[i])) /\ files' = FilesOf(S.log[i])
    /\ phase' = "cut" /\ cut' = << files, FilesOf(S.f) >> /\ UNCHANGED ok
Call(S) ==
    /\ phase = "run" /\ calls < MaxCalls /\ calls' = calls + 1
    /\ Ends(S) \/ Cut(S)

OrCreate(S, n) ==
    IF S.res = "NOT_FOUND" THEN ObjectCreate(Fail(S, "OK"), FreeId(S.f), n) ELSE S
OpenFound(S, d) == Do(S, LAMBDA t : OpenByPage(t, d, t.pix))

SPIFFS_open(n) ==
    /\ FreeFds # {}
    /\ Call(OrReturn(OpenFound(OrCreate(FindName(fs, n), n), FindNew), FindNew))

TruncateOpened(S, d, remove) ==
    /\ S.res = "OK" /\ (S.fds[d].size = Blank => remove)
    /\ Call(OrReturn(ObjectTruncate(S, d, remove), d))

\* O_TRUNC of a file that is not empty.
SPIFFS_open_trunc(n) ==
    FreeFds # {} /\ TruncateOpened(OpenFound(FindName(fs, n), FindNew), FindNew, FALSE)

\* A caller whose write failed closes the descriptor: its size may be ahead of
\* the header's.
SPIFFS_write(d, off, v, len) ==
    /\ fs.fds[d].open
    /\ off <= (IF fs.fds[d].size = Blank THEN 0 ELSE fs.fds[d].size) /\ off + len <= MaxSize
    /\ Call(OrReturn(HydroWrite(fs, d, off, v, len), d))

SPIFFS_read(d, off, len) ==
    /\ fs.fds[d].open /\ off + len <= fs.fds[d].size /\ fs.fds[d].size # Blank
    /\ Call(ObjectRead(fs, d, off, len))

SPIFFS_lseek(d, off) ==
    /\ fs.fds[d].open /\ off <= (IF fs.fds[d].size = Blank THEN 0 ELSE fs.fds[d].size)
    /\ Call(Seek(fs, d, off))

SPIFFS_close(d) == fs.fds[d].open /\ Call(Return(fs, d))

SPIFFS_remove(n) ==
    FreeFds # {} /\ TruncateOpened(OpenFound(FindName(fs, n), FindNew), FindNew, TRUE)

RenameHdr(S, d, m) ==
    Do(S, LAMBDA t : UpdateIndexHdr(t, d, t.fds[d].id, t.fds[d].hdr, FALSE, BlankPage, m, 0))
RenameUnused(S, d, m, hdr) ==
    /\ S.res = "NOT_FOUND"
    /\ Call(Return(RenameHdr(OpenByPage(Fail(S, "OK"), d, hdr), d, m), d))
RenameFound(S, m) == S.res = "OK" /\ RenameUnused(FindName(S, m), FindNew, m, S.pix)

SPIFFS_rename(n, m) == FreeFds # {} /\ RenameFound(FindName(fs, n), m)

SPIFFS_gc(len) == Call(GcCheck(fs, len))
SPIFFS_gc_quick(free) == Call(GcQuick(fs, free))

\* SPIFFS_check after the mount that follows a power cut.
Checks(S) ==
    /\ fs' = [Settled(S) EXCEPT !.res = S.l.brk] /\ files' = FilesOf(S.f)
    /\ ok' = (S.l.brk = "OK") /\ UNCHANGED << calls, cut >>
SPIFFS_check == phase = "cut" /\ phase' = "checked" /\ Checks(CheckAll(fs))

\* A formatted flash.
Formatted ==
    [lu |-> [p \in Pages |-> Blank], pg |-> [p \in Pages |-> BlankPage], ec |-> [b \in Blocks |-> b + 1]]

Init ==
    /\ fs = Settled(Mounted(Formatted)) /\ calls = 0 /\ ok = TRUE /\ phase = "run"
    /\ files = [n \in Names |-> NoFile] /\ cut = << files, files >>

Next ==
    \/ \E n \in Names : SPIFFS_open(n) \/ SPIFFS_open_trunc(n) \/ SPIFFS_remove(n)
    \/ \E n, m \in Names : SPIFFS_rename(n, m)
    \/ \E d \in 1..FdCount, v \in Values, off \in 0..(MaxSize - 1), len \in 1..MaxSize :
          SPIFFS_write(d, off, v, len)
    \/ \E d \in 1..FdCount, off \in 0..(MaxSize - 1) : SPIFFS_read(d, off, 1) \/ SPIFFS_lseek(d, off)
    \/ \E d \in 1..FdCount : SPIFFS_close(d)
    \/ \E len \in 0..MaxSize : SPIFFS_gc(len)
    \/ \E free \in QuickFree : SPIFFS_gc_quick(free)
    \/ SPIFFS_check

Spec == Init /\ [][Next]_vars
-----------------------------------------------------------------------------
\* SPIFFS_opendir and SPIFFS_readdir: the headers in the order of the lookup
\* tables.  A listing goes on behind the entry it found last, without wrapping
\* around, and as every search leaves out the last entry of a block it would
\* start at.
IsHeader(f, p) == IsNamed(f, p, f.pg[p].name)
StartListing(b, e) == IF e >= Entries - 1 THEN (b + 1) * Entries ELSE b * Entries + e

\* mutant: the search goes on one entry too far
RECURSIVE ListingSkips(_, _, _)
ListingSkips(f, b, e) ==
    LET found == {k \in (b * Entries + e)..(BlockCount * Entries - 1) :
                    IsHeader(f, PageAt(k \div Entries, k % Entries))}
        k == Min(found)
    IN  IF found = {} THEN << >>
        ELSE << PageAt(k \div Entries, k % Entries) >> \o ListingSkips(f, k \div Entries, (k % Entries) + 2)

RECURSIVE Listing(_, _, _)
ListAt(f, b, e) == << PageAt(b, e) >> \o Listing(f, b, e + 1)
ListFirst(f, found) ==
    IF found = {} THEN << >> ELSE ListAt(f, Min(found) \div Entries, Min(found) % Entries)
Listing(f, b, e) ==
    ListFirst(f, {k \in StartListing(b, e)..(BlockCount * Entries - 1) :
                    IsHeader(f, PageAt(k \div Entries, k % Entries))})
-----------------------------------------------------------------------------
(* Properties.                                                             *)

Running == phase = "run"
Mended == phase = "checked" /\ ok

\* The index entries of files that refer to a page.
OfFile(f, id) == \E h \in Pages : IsHeader(f, h) /\ Plain(f.lu[h]) = Plain(id)
References(f, p) ==
    {<< q, i >> \in Pages \X IxSlots :
        /\ IsIx(f.lu[q]) /\ OfFile(f, f.lu[q]) /\ LiveIndex(f.pg[q]) /\ i < SlotsOf(f.pg[q])
        /\ f.pg[q].ix[i] = p}
\* The page is a data page of a file, in the right place.
ReferredOnce(f, p) ==
    \E q \in Pages, i \in IxSlots :
        /\ References(f, p) = {<< q, i >>}
        /\ Plain(f.lu[q]) = f.lu[p] /\ SpanOf(f.pg[q], i) = f.pg[p].span

\* The counters of struct spiffs, on which the collector decides whether there
\* is room, are the numbers of pages and free blocks on the flash, whatever
\* moved, failed or was collected (spiffs.h:196-205).
Counted ==
    Running =>
    /\ fs.al = Cardinality({p \in Pages : IsBusy(fs.f.lu[p])})
    /\ fs.de = Cardinality({p \in Pages : IsDeleted(fs.f.lu[p])})
    /\ fs.fb = Cardinality({b \in Blocks : \A p \in PagesOfBlock(b) : IsBlank(fs.f.lu[p])})

\* No call leaks a page: every data page is referred to by exactly one entry,
\* the right one, of the indices of its object (spiffs_check.c:488).
NoPageLeaked == Running => \A p \in Pages : IsPlain(fs.f.lu[p]) => ReferredOnce(fs.f, p)

Follows(fd) ==
    /\ fs.f.lu[fd.hdr] = fd.id /\ LiveSpan(fs.f.pg[fd.hdr], fd.id, 0)
    /\ fd.size \in {fs.f.pg[fd.hdr].size, SizeOf(fs.f, fd.hdr)}
    /\ (fd.cspan # 0 /\ fd.cpix # 0)
          => (fs.f.lu[fd.cpix] = fd.id /\ LiveSpan(fs.f.pg[fd.cpix], fd.id, fd.cspan))
ReadsAs(S, content) == S.res = "OK" /\ S.l.got = content

\* Every descriptor follows its object while the collector and other
\* descriptors move the pages under it: header and index cursor are live pages
\* of the object, and what can be read through it is the file
\* (spiffs_cb_object_event).
DescriptorsFollow ==
    Running => \A d \in 1..FdCount : fs.fds[d].open =>
        /\ Follows(fs.fds[d])
        /\ ReadsAs(ObjectRead(fs, d, 0, SizeOf(fs.f, fs.fds[d].hdr)),
                   files[fs.f.pg[fs.fds[d].hdr].name])

\* Until the power is cut the calls do to the files what ObjectStore says;
\* collecting garbage is not visible.
Store == INSTANCE ObjectStore WITH store <- files
ImplementsObjectStore == Store!Init /\ [][phase' = "run" => Store!Next]_<< files, ok >>

AllListed(list) ==
    /\ IsInjective(list)
    /\ \A p \in Pages : (IsHeader(fs.f, p) /\ p \notin ToSet(list))
          => (EntryFor(p) = Entries - 1 /\ p - 1 \in ToSet(list))

\* A listing shows every file once; it misses at most a file whose header is in
\* the last entry of a block, right behind another header (SPIFFS_readdir).
ListingComplete == Running => AllListed(Listing(fs.f, 0, 0))

\* The check that follows a power cut at any write of any call ends, and never
\* takes the branch that decides on uninitialised locals (spiffs_check.c:282).
\* After a check without error every data page of a file is referred to exactly
\* once, at its place (spiffs_check.c:488).  Pages of objects whose header the
\* check itself has marked for deletion stay until the next check.
CheckMends ==
    /\ fs.res \notin {"UNDECIDED", "ENDLESS"}
    /\ Mended => \A p \in Pages :
        (IsPlain(fs.f.lu[p]) /\ OfFile(fs.f, fs.f.lu[p])) => ReferredOnce(fs.f, p)

\* "In worst case (repeated powerlosses in mending or gc) you might have to
\* delete some files" (spiffs.h:456): a single cut, and the check, cost no file
\* that exists before the call and after it.
OneCutKeepsFiles ==
    phase = "checked" => \A n \in Names :
        (cut[1][n] # NoFile /\ cut[2][n] # NoFile) => files[n] # NoFile
=============================================================================
