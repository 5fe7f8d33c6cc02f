---------------------------- MODULE SpiffsFiles ----------------------------
(***************************************************************************)
(* The file layer of SPIFFS: the calls of spiffs_hydrogen.c, the write     *)
(* cache of spiffs_cache.c and the file descriptors and object operations  *)
(* of spiffs_nucleus.c.  An object is kept as its header (name) and its    *)
(* data; how the data is laid out in pages, and the garbage collector that *)
(* moves pages, change neither and are left to the page layer.             *)
(*                                                                         *)
(* fs.obj   objects on the flash: name, data, and live = FALSE once the    *)
(*          header carries the IXDELE mark.  A header's size field is      *)
(*          SPIFFS_UNDEFINED_LEN exactly while data is empty.              *)
(* fs.fd    fd_space: file_nbr # 0 (open), obj_id, size, fdoffset, flags   *)
(*          and cache_page (NoPage = none).  A slot that is closed keeps only   *)
(*          its cache_page: opening overwrites everything else.            *)
(* fs.cp    cache pages: obj_id of a write page (NoId = a free or a read page), *)
(*          offset and contents.  A page that no descriptor refers to is   *)
(*          blank once it is not a write page.                             *)
(* fs.work  the shared work buffer: the object header it holds, or NoHdr.  *)
(***************************************************************************)
EXTENDS Integers, Sequences, FiniteSets

CONSTANTS Names, NoName,   \* file names, and the name of no object
          NoHdr,           \* the work buffer holds no object header
          Ids, NoId,       \* object ids, SPIFFS_OBJ_ID_DELETED
          CPages, NoPage,  \* cache pages, the null pointer
          NumFds,          \* fd_count
          LogPage,         \* SPIFFS_CFG_LOG_PAGE_SZ, in cells
          IxStarts,        \* offsets at which a new index page begins
          MaxLen,          \* bound: on the length of a file and on fdoffset
          Bufs,            \* what a call may write: sequences of cells
          Lens,            \* how much a call may read
          Modes,           \* open modes: sets of RD, WR, APPEND, DIRECT
          MayFill,         \* TRUE if the flash may run full
          Careful          \* TRUE if callers keep to the rules below

ASSUME SizesAssumption ==
    /\ NumFds \in Nat /\ LogPage \in Nat \ {0} /\ MaxLen \in Nat
    /\ IsFiniteSet(CPages) /\ NumFds + 2 <= Cardinality(CPages)
Cells == UNION {{buf[k] : k \in 1 .. Len(buf)} : buf \in Bufs}
Flags == {"RD", "WR", "APPEND", "DIRECT"}

ASSUME CallsAssumption ==
    /\ Bufs \subseteq Seq(Cells) /\ <<>> \notin Bufs   \* no caller writes nothing
    /\ Lens \subseteq Nat /\ IxStarts \subseteq Nat \ {0}
ASSUME NamesAssumption == NoName \notin Names /\ NoId \notin Ids /\ NoPage \notin CPages
ASSUME FlagsAssumption ==
    /\ MayFill \in BOOLEAN /\ Careful \in BOOLEAN
    /\ Modes \subseteq SUBSET Flags

VARIABLES fs, ret
vars == <<fs, ret>>

Fds   == 1 .. NumFds
Undef == -1                                  \* SPIFFS_UNDEFINED_LEN

NoObj     == [name |-> NoName, data |-> <<>>, live |-> FALSE]
ClosedFd(p) == [open |-> FALSE, id |-> NoId, size |-> 0, off |-> 0, flags |-> {}, cp |-> p]
BlankPage == [id |-> NoId, off |-> 0, data |-> <<>>]

Lesser(a, b)  == IF a < b THEN a ELSE b
Greater(a, b) == IF a > b THEN a ELSE b

(* d with b over its cells from at on.                                     *)
Overlay(d, at, b) ==
    [k \in 1 .. Greater(Len(d), at + Len(b)) |->
        IF k \in at + 1 .. at + Len(b) THEN b[k - at] ELSE d[k]]

HdrSize(o) == IF o.data = <<>> THEN Undef ELSE Len(o.data)
Header(o)  == [name |-> o.name, live |-> o.live]

(* spiffs_object_find_object_index_header_by_name: the search starts where *)
(* the last one ended, so of two headers with one name either is found.    *)
FindByName(s, n) == {i \in Ids : s.obj[i].name = n /\ s.obj[i].live}

(* spiffs_obj_lu_find_free_obj_id                                          *)
FreeIds(s) == {i \in Ids : s.obj[i] = NoObj}

(* spiffs_fd_find_new: the first closed slot                               *)
FindNew(s) == {h \in Fds : ~s.fd[h].open /\ \A g \in 1 .. h - 1 : s.fd[g].open}

(***************************************************************************)
(* spiffs_cb_object_event: every descriptor of the object learns its new   *)
(* size, or is closed without a look at its cache_page.                    *)
(***************************************************************************)
OfObject(s, i) == {h \in Fds : s.fd[h].open /\ s.fd[h].id = i}

(* Mutant: only the first descriptor of the object is told.                *)
EventUpdFirst(s, i, size) ==
    [s EXCEPT !.fd = [h \in Fds |->
        IF h \in OfObject(s, i) /\ (\A g \in OfObject(s, i) : h <= g)
        THEN [s.fd[h] EXCEPT !.size = size] ELSE s.fd[h]]]

EventUpd(s, i, size) ==
    [s EXCEPT !.fd = [h \in Fds |->
        IF h \in OfObject(s, i) /\ size # 0 THEN [s.fd[h] EXCEPT !.size = size] ELSE s.fd[h]]]

EventDel(s, i) ==
    [s EXCEPT !.fd = [h \in Fds |->
        IF h \in OfObject(s, i) THEN ClosedFd(s.fd[h].cp) ELSE s.fd[h]]]

(***************************************************************************)
(* Outcomes of an internal function: [fs, ok].                             *)
(***************************************************************************)
Outcome(s, ok) == [fs |-> s, ok |-> ok]

(* The object's data after spiffs_object_modify or spiffs_object_append:   *)
(* its header has been through the work buffer, descriptors are told.      *)
Stored(s, i, data) ==
    LET t == [s EXCEPT !.obj[i].data = data, !.work = Header(s.obj[i])]
    IN  EventUpd(t, i, HdrSize(t.obj[i]))

(* d, no longer than it is, with b over its cells from at on.              *)
Patch(d, at, b) ==
    [k \in 1 .. Len(d) |-> IF k \in at + 1 .. at + Len(b) THEN b[k - at] ELSE d[k]]

(* What n cells hold that are in pages but not below the header's size.    *)
Unsized(n) == [1 .. n -> Cells]

(* spiffs_object_modify.  (What it leaves of pages when it stops half-way  *)
(* is the page layer's.)                                                   *)
ObjectModify(s, h, off, b) ==
    LET i == s.fd[h].id
    IN  {Outcome(Stored(s, i, Patch(s.obj[i].data, off, b)), TRUE)}
        \cup (IF MayFill THEN {Outcome(s, FALSE)} ELSE {})

(***************************************************************************)
(* spiffs_object_append.  An offset past the size of the descriptor is     *)
(* moved back to it, unless the size is undefined.  Past the size of the   *)
(* header the page may not be in the index: then the append fails.  On a   *)
(* full flash it fails at once, or stops: some of b is below the size the  *)
(* header has by then, and the descriptor's own size, set before the       *)
(* header is written, may be ahead of it.  (At offset 0 the header is      *)
(* written in place, which a full flash does not prevent.)                 *)
(***************************************************************************)
ObjectAppend(s, h, off, b) ==
    LET i    == s.fd[h].id
        d    == s.obj[i].data
        at   == IF s.fd[h].size = Undef THEN off ELSE Lesser(off, s.fd[h].size)
        upTo(v) == {Stored(s, i, Overlay(d \o u, at, SubSeq(b, 1, v))) : u \in Unsized(at - Len(d))}
        saved == (IF at = 0 THEN {} ELSE {s}) \cup UNION {upTo(v) : v \in 1 .. Len(b) - 1}
        sized(t, w) == [t EXCEPT !.fd[h].size = Greater(at + w, Len(t.obj[i].data))]
        stops == UNION {{Outcome(sized(t, w), FALSE) : t \in saved} : w \in 1 .. Len(b)}
    IN  {Outcome(t, TRUE) : t \in upTo(Len(b))}
        \cup (IF at > Len(d) THEN {Outcome([s EXCEPT !.work = Header(s.obj[i])], FALSE)} ELSE {})
        \cup (IF MayFill THEN {Outcome(s, FALSE)} \cup stops ELSE {})

(* spiffs_hydro_write: modify what the file has, append the rest.          *)
HydroWrite(s, h, off, buf) ==
    LET size == s.fd[h].size
        m    == IF size # Undef /\ off < size THEN Lesser(size - off, Len(buf)) ELSE 0
        rest == SubSeq(buf, m + 1, Len(buf))
        mods == IF m = 0 THEN {Outcome(s, TRUE)} ELSE ObjectModify(s, h, off, SubSeq(buf, 1, m))
    IN  UNION {IF o.ok /\ rest # <<>> THEN ObjectAppend(o.fs, h, off + m, rest) ELSE {o} : o \in mods}

(***************************************************************************)
(* The write cache.                                                        *)
(***************************************************************************)
WritePages(s)   == {p \in CPages : s.cp[p].id # NoId}
PagesOf(s, i)   == {p \in CPages : s.cp[p].id = i}

(* Mutant: the pages other descriptors of the file have are not looked at. *)
GetByFdNone(s, h) == {NoPage}

(* spiffs_cache_page_get_by_fd: a write page of the object                 *)
GetByFd(s, h) ==
    LET P == PagesOf(s, s.fd[h].id)
    IN  IF P = {} THEN {NoPage} ELSE P

Attached(s, h) ==
    IF s.fd[h].cp # NoPage THEN {s}
    ELSE {[s EXCEPT !.fd[h].cp = p] : p \in GetByFd(s, h)}

(* Mutants: the descriptors keep the page; the page stays a write page.    *)
ReleaseKeepsFds(s, p) == [s EXCEPT !.cp[p].id = NoId]
ReleaseLeaks(s, p) ==
    [s EXCEPT !.fd = [h \in Fds |-> IF s.fd[h].cp = p THEN [s.fd[h] EXCEPT !.cp = NoPage]
                                    ELSE s.fd[h]]]

(* spiffs_cache_fd_release: open descriptors drop the page, it is no write *)
(* page any more; what it held stays readable through a slot that still    *)
(* points to it.                                                           *)
Release(s, p) ==
    LET F == [h \in Fds |-> IF s.fd[h].open /\ s.fd[h].cp = p
                            THEN [s.fd[h] EXCEPT !.cp = NoPage] ELSE s.fd[h]]
    IN  [s EXCEPT !.fd = F,
                  !.cp[p] = IF \E h \in Fds : F[h].cp = p THEN [@ EXCEPT !.id = NoId]
                            ELSE BlankPage]

(* spiffs_cache_page_allocate_by_fd, and the offset and size SPIFFS_write  *)
(* gives the page: the page is one that is not a write page (pages differ  *)
(* in nothing but their index); the last such page may be the one accessed *)
(* last, which remove_oldest cannot evict.                                 *)
Allocated(s, h, off) ==
    LET free == CPages \ WritePages(s)
        p    == CHOOSE q \in free : TRUE
    IN  (IF free = {} THEN {}
         ELSE {[s EXCEPT !.cp[p] = [id |-> s.fd[h].id, off |-> off, data |-> <<>>],
                         !.fd[h].cp = p]})
        \cup (IF Cardinality(free) <= 1 THEN {[s EXCEPT !.fd[h].cp = NoPage]} ELSE {})

(* Write the descriptor's cache page back and release it.                  *)
WriteBack(s, h) ==
    LET p == s.fd[h].cp
    IN  {Outcome(Release(o.fs, p), o.ok) :
            o \in HydroWrite(s, h, s.cp[p].off, s.cp[p].data)}

(* spiffs_fflush_cache                                                     *)
FlushCache(s, h) ==
    IF "DIRECT" \in s.fd[h].flags THEN {Outcome(s, TRUE)}
    ELSE UNION {IF t.fd[h].cp = NoPage THEN {Outcome(t, TRUE)} ELSE WriteBack(t, h) :
                   t \in Attached(s, h)}

(***************************************************************************)
(* spiffs_object_open_by_page: everything is set except cache_page.        *)
(***************************************************************************)
OpenFd(s, h, i, flags) ==
    [s EXCEPT !.fd[h] = [open |-> TRUE, id |-> i, size |-> HdrSize(s.obj[i]),
                         off |-> 0, flags |-> flags, cp |-> s.fd[h].cp]]

(* spiffs_fd_return                                                        *)
CloseFd(s, h) == [s EXCEPT !.fd[h] = ClosedFd(s.fd[h].cp)]

(***************************************************************************)
(* spiffs_object_truncate(fd, 0, remove).  The header is loaded into the   *)
(* work buffer while data pages are deleted; a file without data pages is  *)
(* given whatever header the work buffer holds (none, if the garbage       *)
(* collector has just used the buffer).                                    *)
(***************************************************************************)
Emptied(s, h, hdr) ==
    LET i == s.fd[h].id
        t == [s EXCEPT !.obj[i] = [name |-> hdr.name, data |-> <<>>, live |-> hdr.live],
                       !.work = hdr]
    IN  [EventUpd(t, i, Undef) EXCEPT !.fd[h].size = 0]

Truncate(s, h) ==
    LET o    == s.obj[s.fd[h].id]
        full == IF MayFill THEN {Outcome(s, FALSE)} ELSE {}
    IN  IF o.data # <<>> THEN full \cup {Outcome(Emptied(s, h, Header(o)), TRUE)}
        ELSE full \cup {IF w = NoHdr THEN Outcome([s EXCEPT !.work = NoHdr], FALSE)
                        ELSE Outcome(Emptied(s, h, w), TRUE) : w \in {s.work, NoHdr}}

Removed(s, i) ==
    EventDel([s EXCEPT !.obj[i] = NoObj,
                       !.work = IF s.obj[i].data = <<>> THEN @
                                ELSE [name |-> s.obj[i].name, live |-> FALSE]], i)

(* spiffs_object_create, with the id search's bitmap in the work buffer    *)
Created(s, i, n) ==
    [s EXCEPT !.obj[i] = [name |-> n, data |-> <<>>, live |-> TRUE], !.work = NoHdr]

(***************************************************************************)
(* The callers.  The repository's own (flash_spiffs.c, tools/mkspiffs) use *)
(* one descriptor at a time and close it before anything else.  Careful    *)
(* callers may have several open, even on one file, and keep to this:      *)
(*   - a file is not removed or truncated while another descriptor has a   *)
(*     write to it in the cache, nor truncated while one is open on it;    *)
(*   - a file is not truncated when it is empty already;                   *)
(*   - a file is not open with and without SPIFFS_DIRECT at once.          *)
(***************************************************************************)
MayRemove(i)   == Careful => PagesOf(fs, i) = {}
MayFremove(h)  == Careful => PagesOf(fs, fs.fd[h].id) \subseteq {fs.fd[h].cp}
MayTruncate(i) == Careful => OfObject(fs, i) = {} /\ fs.obj[i].data # <<>>
MayShare(i, flags) ==
    Careful => \A h \in OfObject(fs, i) :
                  ("DIRECT" \in fs.fd[h].flags) <=> ("DIRECT" \in flags)

Returns(call, ok, n, data) ==
    ret' = [call |-> call, ok |-> ok, n |-> n, data |-> data]
Fails(call) == Returns(call, FALSE, 0, <<>>)

(***************************************************************************)
(* The API calls.  Calls on a closed descriptor, on a name that is not     *)
(* there or without the mode for it return an error and change nothing.    *)
(***************************************************************************)
SPIFFS_creat(n) ==
    /\ FindByName(fs, n) = {}
    /\ \E i \in FreeIds(fs) :
         \/ fs' = Created(fs, i, n) /\ Returns("creat", TRUE, 0, <<>>)
         \/ MayFill /\ fs' = [fs EXCEPT !.work = NoHdr] /\ Fails("creat")

(* SPIFFS_open of a file that exists                                       *)
OpenExisting(n, flags, trunc) ==
    \E h \in FindNew(fs), i \in FindByName(fs, n) :
        LET s == OpenFd(fs, h, i, flags) IN
        /\ MayShare(i, flags)
        /\ trunc => MayTruncate(i)
        /\ \E o \in IF trunc THEN Truncate(s, h) ELSE {Outcome(s, TRUE)} :
             \/ o.ok /\ fs' = o.fs /\ Returns("open", TRUE, h, <<>>)
             \/ ~o.ok /\ fs' = CloseFd(o.fs, h) /\ Fails("open")

(* SPIFFS_open with SPIFFS_CREAT of a file that does not                   *)
OpenNew(n, flags) ==
    /\ FindByName(fs, n) = {}
    /\ \E h \in FindNew(fs), i \in FreeIds(fs) :
         \/ fs' = OpenFd(Created(fs, i, n), h, i, flags) /\ Returns("open", TRUE, h, <<>>)
         \/ MayFill /\ fs' = [fs EXCEPT !.work = NoHdr] /\ Fails("open")

SPIFFS_open(n, flags, creat, trunc) ==
    \/ OpenExisting(n, flags, trunc)
    \/ creat /\ OpenNew(n, flags)

(* The result of the flush is ignored.                                     *)
SPIFFS_read(h, len) ==
    /\ fs.fd[h].open
    /\ "RD" \in fs.fd[h].flags
    /\ \E o \in FlushCache(fs, h) :
         LET f    == o.fs.fd[h]
             data == o.fs.obj[f.id].data
             end  == IF f.off + len >= f.size THEN f.size ELSE f.off + len
         IN  IF f.size = Undef \/ f.off >= f.size
             THEN fs' = [o.fs EXCEPT !.work = IF f.size = Undef THEN Header(o.fs.obj[f.id])
                                              ELSE @] /\ Fails("read")
             ELSE \/ /\ fs' = [o.fs EXCEPT !.fd[h].off = end, !.work = Header(o.fs.obj[f.id])]
                     /\ \E u \in Unsized(end - Len(data)) :
                          Returns("read", TRUE, end - f.off, SubSeq(data \o u, f.off + 1, end))
                  \/ /\ end > Len(data)     \* a page that is not in the index
                     /\ fs' = [o.fs EXCEPT !.work = Header(o.fs.obj[f.id])] /\ Fails("read")

(* Mutant: the cached write is not looked at.                              *)
WriteOffsetFlash(s, h) ==
    LET f == s.fd[h]
    IN  IF "APPEND" \notin f.flags THEN f.off ELSE IF f.size = Undef THEN 0 ELSE f.size

(* Where SPIFFS_write writes                                               *)
WriteOffset(s, h) ==
    LET f   == s.fd[h]
        end == IF f.size = Undef THEN 0 ELSE f.size
    IN  IF "APPEND" \notin f.flags THEN f.off
        ELSE IF f.cp = NoPage THEN end
        ELSE Greater(end, s.cp[f.cp].off + Len(s.cp[f.cp].data))

Within(s, h, off, len) ==
    LET c == s.cp[s.fd[h].cp]
    IN  /\ off >= c.off
        /\ off <= c.off + Len(c.data)
        /\ off + len <= c.off + LogPage

Advanced(s, h, len) == [s EXCEPT !.fd[h].off = @ + len]

StoreInPage(s, h, off, buf) ==
    LET p == s.fd[h].cp
    IN  Advanced([s EXCEPT !.cp[p].data = Overlay(@, off - s.cp[p].off, buf)], h, Len(buf))

Uncached(s, h, off, buf) ==
    {IF o.ok THEN Outcome(Advanced(o.fs, h, Len(buf)), TRUE) ELSE o :
        o \in HydroWrite(s, h, off, buf)}

SmallWrite(s, h, off, buf) ==
    LET fresh(t) == UNION {IF u.fd[h].cp # NoPage THEN {Outcome(StoreInPage(u, h, off, buf), TRUE)}
                           ELSE Uncached(u, h, off, buf) : u \in Allocated(t, h, off)}
    IN  IF s.fd[h].cp = NoPage THEN fresh(s)
        ELSE IF Within(s, h, off, Len(buf)) THEN {Outcome(StoreInPage(s, h, off, buf), TRUE)}
        ELSE UNION {IF o.ok THEN fresh(o.fs) ELSE {o} : o \in WriteBack(s, h)}

(* With a page in the cache the buffer is written twice.                   *)
BigWrite(s, h, off, buf) ==
    IF s.fd[h].cp = NoPage THEN Uncached(s, h, off, buf)
    ELSE LET once(o)  == IF o.ok THEN HydroWrite(o.fs, h, off, buf) ELSE {o}
             twice(o) == IF o.ok THEN Uncached(o.fs, h, off, buf) ELSE {o}
         IN  UNION {UNION {twice(q) : q \in once(o)} : o \in WriteBack(s, h)}

SPIFFS_write(h, buf) ==
    /\ fs.fd[h].open
    /\ "WR" \in fs.fd[h].flags
    /\ \E s \in Attached(fs, h) :
         LET off == WriteOffset(s, h) IN
         /\ Greater(off, fs.fd[h].off) + Len(buf) <= MaxLen
         /\ \E o \in IF "DIRECT" \in fs.fd[h].flags THEN Uncached(s, h, off, buf)
                     ELSE IF Len(buf) < LogPage THEN SmallWrite(s, h, off, buf)
                     ELSE BigWrite(s, h, off, buf) :
              /\ fs' = o.fs
              /\ IF o.ok THEN Returns("write", TRUE, Len(buf), <<>>) ELSE Fails("write")

(* offs is the position the call asks for, whatever its whence.  The index *)
(* page of offs is looked up; the one that would begin at the end of the   *)
(* file is not there, nor need one be of an append that stopped.           *)
SPIFFS_lseek(h, offs) ==
    /\ fs.fd[h].open
    /\ \E o \in FlushCache(fs, h) :
         LET size == o.fs.fd[h].size
             len  == Len(o.fs.obj[o.fs.fd[h].id].data)
         IN  \/ /\ offs > size \/ offs > len \/ (offs = len /\ offs \in IxStarts)
                /\ fs' = o.fs /\ Fails("lseek")
             \/ /\ offs <= size /\ (offs < len \/ offs \notin IxStarts \/ MayFill)
                /\ fs' = [o.fs EXCEPT !.fd[h].off = offs]
                /\ Returns("lseek", TRUE, offs, <<>>)

SPIFFS_fstat(h) ==
    /\ fs.fd[h].open
    /\ \E o \in FlushCache(fs, h) :
         fs' = o.fs /\ Returns("fstat", TRUE, Len(o.fs.obj[o.fs.fd[h].id].data), <<>>)

SPIFFS_fflush(h) ==
    /\ fs.fd[h].open
    /\ \E o \in FlushCache(fs, h) :
         fs' = o.fs /\ IF o.ok THEN Returns("fflush", TRUE, 0, <<>>) ELSE Fails("fflush")

SPIFFS_close(h) ==
    /\ fs.fd[h].open
    /\ \E o \in FlushCache(fs, h) : fs' = CloseFd(o.fs, h)
    /\ Returns("close", TRUE, 0, <<>>)

(* A slot is taken for the removal and closed by its own IX_DEL event.     *)
SPIFFS_remove(n) ==
    \E h \in FindNew(fs), i \in FindByName(fs, n) :
        /\ MayRemove(i)
        /\ \/ fs' = Removed(OpenFd(fs, h, i, {}), i) /\ Returns("remove", TRUE, 0, <<>>)
           \/ MayFill /\ UNCHANGED fs /\ Fails("remove")

SPIFFS_fremove(h) ==
    LET i == fs.fd[h].id
        s == IF fs.fd[h].cp = NoPage THEN fs ELSE Release(fs, fs.fd[h].cp)
    IN  /\ fs.fd[h].open
        /\ "WR" \in fs.fd[h].flags
        /\ MayFremove(h)
        /\ \/ fs' = Removed(s, i) /\ Returns("remove", TRUE, 0, <<>>)
           \/ MayFill /\ fs' = s /\ Fails("remove")

(* The header is loaded, renamed in the work buffer and written.           *)
SPIFFS_rename(old, new) ==
    \E h \in FindNew(fs), i \in FindByName(fs, old) :
        LET hdr == [name |-> new, live |-> TRUE]
            s   == [fs EXCEPT !.obj[i].name = new, !.work = hdr] IN
        /\ FindByName(fs, new) = {}
        /\ \/ fs' = EventUpd(s, i, HdrSize(fs.obj[i])) /\ Returns("rename", TRUE, 0, <<>>)
           \/ MayFill /\ fs' = [fs EXCEPT !.work = hdr] /\ Fails("rename")

(***************************************************************************)
(* SPIFFS_mount clears the descriptors and the cache; platform_spiffs_exit *)
(* frees the work buffer.                                                  *)
(***************************************************************************)
Mounted(obj) == [obj |-> obj, fd |-> [h \in Fds |-> ClosedFd(NoPage)],
                 cp |-> [p \in CPages |-> BlankPage], work |-> NoHdr]

(* SPIFFS_unmount flushes and returns the descriptors one after the other. *)
Returned(S, k) ==
    UNION {IF s.fd[k].open THEN {CloseFd(o.fs, k) : o \in FlushCache(s, k)} ELSE {s} : s \in S}

UnmountUpTo[k \in 0 .. NumFds] ==
    IF k = 0 THEN {fs} ELSE Returned(UnmountUpTo[k - 1], k)

SPIFFS_unmount == /\ \E s \in UnmountUpTo[NumFds] : fs' = Mounted(s.obj)
                  /\ Returns("unmount", TRUE, 0, <<>>)

(* The power fails between two calls; the next start mounts the flash.     *)
PowerCut == fs' = Mounted(fs.obj) /\ Returns("mount", TRUE, 0, <<>>)

Init == /\ fs = Mounted([i \in Ids |-> NoObj])
        /\ ret = [call |-> "mount", ok |-> TRUE, n |-> 0, data |-> <<>>]

Next == \/ \E n \in Names : SPIFFS_creat(n) \/ SPIFFS_remove(n)
        \/ \E n \in Names, flags \in Modes, creat, trunc \in BOOLEAN :
              SPIFFS_open(n, flags, creat, trunc)
        \/ \E h \in Fds, len \in Lens : SPIFFS_read(h, len)
        \/ \E h \in Fds, buf \in Bufs : SPIFFS_write(h, buf)
        \/ \E h \in Fds, offs \in 0 .. MaxLen : SPIFFS_lseek(h, offs)
        \/ \E h \in Fds : \/ SPIFFS_fstat(h)
                          \/ SPIFFS_fflush(h)
                          \/ SPIFFS_close(h)
                          \/ SPIFFS_fremove(h)
        \/ \E old, new \in Names : SPIFFS_rename(old, new)
        \/ SPIFFS_unmount
        \/ PowerCut

Spec == Init /\ [][Next]_vars
-----------------------------------------------------------------------------
Headers == [name : Names \cup {NoName}, live : BOOLEAN]
Objs    == [name : Names \cup {NoName}, data : Seq(Cells), live : BOOLEAN]
FdRecs  == [open : BOOLEAN, id : Ids \cup {NoId}, size : Nat \cup {Undef}, off : Nat,
            flags : SUBSET Flags, cp : CPages \cup {NoPage}]
CpRecs  == [id : Ids \cup {NoId}, off : Nat, data : Seq(Cells)]
Fs      == [obj : [Ids -> Objs], fd : [Fds -> FdRecs], cp : [CPages -> CpRecs],
            work : Headers \cup {NoHdr}]

(* Every field of the descriptors, cache pages, object headers and the     *)
(* work buffer has a value of its C type.                                  *)
TypeOK == fs \in Fs

(***************************************************************************)
(* No descriptor refers to a page that is not a write page of its own      *)
(* file, and a closed slot refers to none: cache_page is never cleared by  *)
(* an open, so a slot that kept a page would write one file's data into    *)
(* the next file opened through it.                                        *)
(***************************************************************************)
FdCacheOwned ==
    \A h \in Fds : fs.fd[h].cp # NoPage =>
        fs.fd[h].open /\ fs.cp[fs.fd[h].cp].id = fs.fd[h].id

(***************************************************************************)
(* spiffs_cache_page_allocate_by_fd relies on there being no page with the *)
(* same object id, and a write page whose file has no open descriptor      *)
(* would never be written back: a file has at most one write page, and a   *)
(* file with one is open.                                                  *)
(***************************************************************************)
OnePagePerFile ==
    \A p \in WritePages(fs) : /\ PagesOf(fs, fs.cp[p].id) = {p}
                              /\ OfObject(fs, fs.cp[p].id) # {}

(***************************************************************************)
(* spiffs_phys_rd dereferences the page it gets without a test: the write  *)
(* pages leave at least two pages for reading, one of them evictable.      *)
(***************************************************************************)
ReadPagesLeft == Cardinality(CPages \ WritePages(fs)) >= 2

(***************************************************************************)
(* No open descriptor's size falls behind the length that the header has   *)
(* on the flash (0 and undefined both mean empty), whichever descriptor    *)
(* changed it and however far its write got: a write would be laid over    *)
(* the end of the file, a read would miss it.  While the flash is never    *)
(* full the two are equal; an append that a full flash stops may leave the *)
(* descriptor ahead.                                                       *)
(***************************************************************************)
NoSizeBehind ==
    \A h \in Fds : fs.fd[h].open =>
        LET len  == Len(fs.obj[fs.fd[h].id].data)
            size == fs.fd[h].size
        IN  \/ size = len
            \/ len = 0 /\ size = Undef
            \/ MayFill /\ len < size

(***************************************************************************)
(* The refinement: readers see the flash with the cached write over it.    *)
(***************************************************************************)
View(s, i) ==
    LET P == PagesOf(s, i) IN
    IF P = {} THEN s.obj[i].data
    ELSE LET c == s.cp[CHOOSE p \in P : TRUE]
         IN  Overlay(s.obj[i].data, Lesser(c.off, Len(s.obj[i].data)), c.data)

Files(s)   == [i \in Ids |-> [name |-> s.obj[i].name, data |-> View(s, i),
                              safe |-> s.obj[i].data]]
Handles(s) == [h \in Fds |-> [id |-> s.fd[h].id, pos |-> s.fd[h].off]]

Api == INSTANCE FileApi WITH
    Poss <- 0 .. MaxLen, file <- Files(fs), handle <- Handles(fs)

(***************************************************************************)
(* Through any mix of descriptors, cached, uncached and double writes,     *)
(* write-backs, renames, remounts and power cuts, every call does to the   *)
(* files what FileApi says: a read returns what was written last, a flush  *)
(* that reports success leaves nothing unsaved, and no other file changes. *)
(***************************************************************************)
ImplementsFileApi == Api!Spec
=============================================================================
