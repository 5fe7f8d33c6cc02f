--------------------------- MODULE SpiffsNucleus ---------------------------
(***************************************************************************)
(* The page level of SPIFFS (spiffs_nucleus.c, spiffs_gc.c): what every    *)
(* routine writes to the flash, in the order it writes it.                 *)
(*                                                                         *)
(* A routine is an operator from a file system S to a file system: S.f is  *)
(* the flash (the lookup tables, the pages, the erase counts), S.log the   *)
(* flash after each write of the call so far, S.res the result code, S.pix *)
(* the page an out parameter names, the other fields the members of struct *)
(* spiffs.  A power cut in the middle of a call leaves the flash as one of *)
(* S.log.  NOR flash only clears bits: a write is a bitwise AND with what  *)
(* the page holds, an erase sets the block to ones (Blank).                *)
(*                                                                         *)
(* Sizes and offsets are in units of which a data page holds DataSize.     *)
(***************************************************************************)
EXTENDS Integers, Sequences, SequencesExt, FiniteSets, Bitwise

CONSTANTS
    BlockCount,   \* fs->block_count
    Entries,      \* SPIFFS_OBJ_LOOKUP_MAX_ENTRIES: pages of a block behind its lookup page
    DataSize,     \* SPIFFS_DATA_PAGE_SIZE
    HdrIxLen,     \* SPIFFS_OBJ_HDR_IX_LEN
    IxLen,        \* SPIFFS_OBJ_IX_LEN
    FdCount       \* fs->fd_count

ASSUME SizesAssumption ==
    /\ BlockCount \in 3..6 /\ Entries \in 2..6
    /\ DataSize \in Nat \ {0} /\ HdrIxLen \in Nat \ {0} /\ IxLen \in Nat \ {0}
    /\ FdCount \in Nat \ {0}

\* Object ids, page indices and spans are words: all ones is erased flash
\* (SPIFFS_OBJ_ID_FREE, SPIFFS_UNDEFINED_LEN, a free index entry), zero a
\* deleted lookup entry, the top bit marks the pages of an index.
Blank == 63
Deleted == 0
IxFlag == 32

Ix(id) == IF id >= IxFlag THEN id ELSE id + IxFlag
Plain(id) == IF id >= IxFlag THEN id - IxFlag ELSE id
IsIx(id) == id # Blank /\ id # Deleted /\ id >= IxFlag
IsPlain(id) == id # Blank /\ id # Deleted /\ id < IxFlag

\* A block is one lookup page followed by Entries pages.
PerBlock == Entries + 1
Blocks == 0..(BlockCount - 1)
PageAt(b, e) == b * PerBlock + 1 + e
PagesOfBlock(b) == {PageAt(b, e) : e \in 0..(Entries - 1)}
Pages == UNION {PagesOfBlock(b) : b \in Blocks}
BlockFor(p) == p \div PerBlock
EntryFor(p) == (p % PerBlock) - 1
IsLookup(p) == p % PerBlock = 0
MaxPages == BlockCount * PerBlock

\* Which index page, and which entry of it, refers to a data span.
IxSpan(spx) == IF spx < HdrIxLen THEN 0 ELSE 1 + (spx - HdrIxLen) \div IxLen
IxEntry(spx) == IF spx < HdrIxLen THEN spx ELSE (spx - HdrIxLen) % IxLen
IxSlots == 0..((IF HdrIxLen > IxLen THEN HdrIxLen ELSE IxLen) - 1)

\* A page: its header (fl are the flag bits that are cleared, that is, set)
\* and what follows it, the object's name and size, an index, or data.
BlankPage == [id |-> Blank, span |-> Blank, fl |-> {}, name |-> Blank, size |-> Blank,
              ix |-> [i \in IxSlots |-> Blank], dat |-> [i \in 0..(DataSize - 1) |-> Blank]]

ClosedFd == [open |-> FALSE, id |-> 0, size |-> 0, hdr |-> 0, cpix |-> 0, cspan |-> 0]

NoLocals == [work |-> BlankPage, cur |-> 0, prev |-> Blank, wr |-> 0, spx |-> 0, po |-> 0,
             brk |-> "OK", got |-> << >>]
-----------------------------------------------------------------------------
(* Flash access.                                                           *)

Land(x, y) == IF x = Blank \/ x = y THEN y ELSE IF y = Blank THEN x ELSE x & y

LandPage(o, n) ==
    [id |-> Land(o.id, n.id), span |-> Land(o.span, n.span), fl |-> o.fl \cup n.fl,
     name |-> Land(o.name, n.name), size |-> Land(o.size, n.size),
     ix |-> [i \in IxSlots |-> Land(o.ix[i], n.ix[i])],
     dat |-> [i \in 0..(DataSize - 1) |-> Land(o.dat[i], n.dat[i])]]

Wr(S, f) == [S EXCEPT !.f = f, !.log = Append(@, f)]
WrLookup(S, p, id) == Wr(S, [S.f EXCEPT !.lu[p] = Land(@, id)])
WrPage(S, p, pg) == Wr(S, [S.f EXCEPT !.pg[p] = LandPage(@, pg)])
WrFlags(S, p, fl) == Wr(S, [S.f EXCEPT !.pg[p].fl = @ \cup fl])

HeaderOf(pg) == [BlankPage EXCEPT !.id = pg.id, !.span = pg.span, !.fl = pg.fl]
BodyOf(pg) == [pg EXCEPT !.id = Blank, !.span = Blank, !.fl = {}]

Fail(S, err) == [S EXCEPT !.res = err]
\* SPIFFS_CHECK_RES: what follows a failed call is not executed.
Do(S, F(_)) == IF S.res = "OK" THEN F(S) ELSE S

\* spiffs_phys_cpy: a page is copied in chunks, its header in the first.
PhysCpy(S, dst, src) ==
    WrPage(WrPage(S, dst, HeaderOf(S.f.pg[src])), dst, S.f.pg[src])

\* SPIFFS_VALIDATE_OBJIX and SPIFFS_VALIDATE_DATA.
Validate(pg, id, span, index) ==
    IF "USED" \notin pg.fl THEN "IS_FREE"
    ELSE IF "DELET" \in pg.fl THEN "DELETED"
    ELSE IF "FINAL" \notin pg.fl THEN "NOT_FINALIZED"
    ELSE IF ("INDEX" \in pg.fl) # index THEN "INDEX_MISMATCH"
    ELSE IF (id >= IxFlag) # index THEN "INDEX_MISMATCH"
    ELSE IF pg.span # span THEN "SPAN_MISMATCH"
    ELSE "OK"

ValidateObjix(pg, id, span) == Validate(pg, id, span, TRUE)

PageCheck(S, p, id, span, index) ==
    IF p = Blank THEN "REF_FREE"
    ELSE IF IsLookup(p) THEN "REF_LU"
    ELSE IF p > MaxPages THEN "REF_INVALID"
    ELSE Validate(S.f.pg[p], id, span, index)

\* spiffs_page_data_check, spiffs_page_index_check.
DataCheck(S, d, p, spx) == PageCheck(S, p, Plain(S.fds[d].id), spx, FALSE)
IndexCheck(S, d, p, span) == PageCheck(S, p, S.fds[d].id, span, TRUE)
-----------------------------------------------------------------------------
(* Searching the lookup tables.                                            *)

\* spiffs_obj_lu_find_entry_visitor: the pages in the order the search visits
\* them from a cursor, wrapping around once; a cursor on the last entry of a
\* block starts with the next block.
StartBlock(b, e) == IF e >= Entries - 1 THEN (b + 1) % BlockCount ELSE b
StartEntry(e) == IF e >= Entries - 1 THEN 0 ELSE e

VisitOrder(b, e) ==
    LET first == StartBlock(b, e) * Entries + StartEntry(e)
        all == BlockCount * Entries
    IN  [i \in 1..all |-> LET k == (first + i - 1) % all IN PageAt(k \div Entries, k % Entries)]

AllPages == VisitOrder(0, 0)

\* The search leaves the lookup page it read last in fs->lu_work.
LastRead(b, e) == IF StartEntry(e) > 0 THEN StartBlock(b, e)
                  ELSE (StartBlock(b, e) + BlockCount - 1) % BlockCount
LookupOf(f, b) == [e \in 0..(Entries - 1) |-> f.lu[PageAt(b, e)]]
Reload(S, b) == [S EXCEPT !.lub = LookupOf(S.f, b)]

\* The search ends at the i-th page of its order, or nowhere.
FoundAt(S, order, i, last) ==
    IF i = 0 THEN Fail(Reload(S, last), "NOT_FOUND")
    ELSE Reload([S EXCEPT !.pix = order[i]], BlockFor(order[i]))

SearchIn(S, order, last, Test(_)) == FoundAt(S, order, SelectInSeq(order, Test), last)
Search(S, b, e, Test(_)) == SearchIn(S, VisitOrder(b, e), LastRead(b, e), Test)

\* The cursor the next search starts from.
AtCursor(S) == [S EXCEPT !.cb = BlockFor(S.pix), !.ce = EntryFor(S.pix)]

LiveSpan(pg, id, span) ==
    /\ pg.id = id /\ pg.span = span
    /\ {"FINAL", "USED"} \subseteq pg.fl /\ "DELET" \notin pg.fl
    /\ ~ (id >= IxFlag /\ "IXDELE" \in pg.fl /\ pg.span = 0)

\* spiffs_obj_lu_find_id_and_span (not = 0: no page is excluded).
FindIdAndSpan(S, id, span, not) ==
    Do(Search(S, S.cb, S.ce,
              LAMBDA p: S.f.lu[p] = id /\ LiveSpan(S.f.pg[p], id, span) /\ p # not),
       AtCursor)

\* spiffs_obj_lu_find_id_and_span_by_phdr: the lookup is not trusted.
FindByHeader(S, id, span) ==
    Do(Search(S, S.cb, S.ce, LAMBDA p: LiveSpan(S.f.pg[p], id, span)), AtCursor)

IsNamed(f, p, name) ==
    /\ IsIx(f.lu[p]) /\ f.pg[p].span = 0
    /\ "FINAL" \in f.pg[p].fl /\ f.pg[p].fl \cap {"DELET", "IXDELE"} = {}
    /\ f.pg[p].name = name

\* spiffs_object_find_object_index_header_by_name.
FindName(S, name) ==
    Do(Search(S, S.cb, S.ce, LAMBDA p: IsNamed(S.f, p, name)), AtCursor)
-----------------------------------------------------------------------------
(* Blocks.                                                                 *)

NextEraseCount(n) == IF n + 1 = IxFlag THEN 0 ELSE n + 1

Erased(f, b) ==
    [f EXCEPT !.lu = [p \in Pages |-> IF BlockFor(p) = b THEN Blank ELSE f.lu[p]],
              !.pg = [p \in Pages |-> IF BlockFor(p) = b THEN BlankPage ELSE f.pg[p]],
              !.ec[b] = Blank]

WrEraseCount(S, b) ==
    [Wr(S, [S.f EXCEPT !.ec[b] = S.mec]) EXCEPT !.mec = NextEraseCount(@)]

\* spiffs_erase_block: the erase, then the count behind the lookup.
EraseBlock(S, b) == WrEraseCount(Wr([S EXCEPT !.fb = @ + 1], Erased(S.f, b)), b)

CountIn(f, b, Test(_)) == Cardinality({p \in PagesOfBlock(b) : Test(f.lu[p])})
IsDeleted(id) == id = Deleted
IsBlank(id) == id = Blank
IsBusy(id) == id # Deleted /\ id # Blank

EraseQuick(S, b) ==
    EraseBlock([Reload(S, b) EXCEPT !.de = @ - CountIn(S.f, b, IsDeleted)], b)

EraseFirst(S, empty) ==
    IF empty = {} THEN Fail(Reload(S, BlockCount - 1), "NO_DELETED_BLOCKS")
    ELSE EraseQuick(S, Min(empty))

\* spiffs_gc_quick: the first block without a busy page and with at most
\* maxFree free ones is erased.
GcQuick(S, maxFree) ==
    EraseFirst(S, {b \in Blocks : /\ CountIn(S.f, b, IsBusy) = 0
                                  /\ CountIn(S.f, b, IsBlank) <= maxFree})

TakeFree(S) == [S EXCEPT !.fcb = BlockFor(S.pix), !.fce = EntryFor(S.pix),
                         !.fb = IF EntryFor(S.pix) = 0 THEN @ - 1 ELSE @]
SearchFree(S) == Do(Search(S, S.fcb, S.fce, LAMBDA p: S.f.lu[p] = Blank), TakeFree)
SearchIfRoom(S) == IF S.fb < 2 THEN Fail(S, "FULL") ELSE SearchFree(S)
NoneDeletedIsOk(S) == IF S.res = "NO_DELETED_BLOCKS" THEN Fail(S, "OK") ELSE S

\* spiffs_obj_lu_find_free.
FindFree(S) ==
    IF S.cleaning \/ S.fb >= 2 THEN SearchFree(S)
    ELSE Do(NoneDeletedIsOk(GcQuick(S, 0)), SearchIfRoom)
-----------------------------------------------------------------------------
(* Pages.                                                                  *)

\* spiffs_page_delete: the lookup entry first, then the page.
PageDelete(S, p) ==
    WrFlags([WrLookup(S, p, Deleted) EXCEPT !.de = @ + 1, !.al = @ - 1], p, {"DELET", "USED"})

WrBody(S, body) == IF body = BlankPage THEN S ELSE WrPage(S, S.pix, BodyOf(body))
Finalize(S, unfinal, fl) == IF unfinal THEN WrFlags(S, S.pix, fl) ELSE S
Allocated(S, id) == [WrLookup(S, S.pix, id) EXCEPT !.al = @ + 1]

\* spiffs_page_allocate_data: the lookup entry, the header, the data, and the
\* finalisation are separate writes.  body = BlankPage: only the header.
AllocateData(S, id, hdr, body, finalize) ==
    Do(FindFree(S), LAMBDA t :
       Finalize(WrBody(WrPage(Allocated(t, id), t.pix,
                              [HeaderOf(hdr) EXCEPT !.fl = @ \cup {"USED"}]), body),
                finalize /\ "FINAL" \notin hdr.fl, {"FINAL"}))

Copied(S, given, page, src) ==
    IF given THEN WrPage(S, S.pix, [page EXCEPT !.fl = (@ \ {"FINAL"}) \cup {"USED"}])
    ELSE PhysCpy(S, S.pix, src)

\* spiffs_page_move: the page is written (or copied) to a free page before the
\* lookup names it, and finalised before its original is deleted.
PageMove(S, given, page, id, src) ==
    Do(FindFree(S), LAMBDA t :
       PageDelete(Finalize(Allocated(Copied(t, given, page, src), id),
                           given /\ "FINAL" \in page.fl, {"FINAL", "USED"}), src))

\* mutant: only the caller's own descriptor would follow
EventUnseen(S, ev, id, span, p, size) == S

\* spiffs_cb_object_event: the descriptors that are open on the object follow
\* the move of an index page, or are closed when its header is deleted.
Event(S, ev, id, span, p, size) ==
    LET Seen(d) == d.open /\ Plain(d.id) = Plain(id)
        AtHeader(d) == IF span # 0 THEN d
                       ELSE IF ev = "DEL" THEN [d EXCEPT !.open = FALSE, !.id = Deleted]
                       ELSE [d EXCEPT !.hdr = p, !.size = IF size = 0 THEN @ ELSE size]
        AtSpan(d) == IF d.cspan = span THEN [d EXCEPT !.cpix = IF ev = "DEL" THEN 0 ELSE p] ELSE d
    IN  [S EXCEPT !.fds = [i \in DOMAIN S.fds |-> IF Seen(S.fds[i]) THEN AtSpan(AtHeader(S.fds[i]))
                                                                   ELSE S.fds[i]]]

Renewed(old, name, size) == [old EXCEPT !.name = IF name = 0 THEN @ ELSE name,
                                        !.size = IF size = 0 THEN @ ELSE size]

HdrMoved(S, d, id, new) ==
    [Event(S, "UPD", id, new.span, S.pix, new.size)
      EXCEPT !.fds = IF d = 0 THEN @ ELSE [@ EXCEPT ![d].hdr = S.pix]]

MoveHdr(S, d, id, hdr, new) ==
    Do(Fail(S, ValidateObjix(new, Ix(id), 0)), LAMBDA t :
       Do(PageMove(t, TRUE, new, Ix(id), hdr), LAMBDA u : HdrMoved(u, d, id, new)))

\* spiffs_object_update_index_hdr (d = 0: no descriptor; name or size 0: kept).
UpdateIndexHdr(S, d, id, hdr, given, page, name, size) ==
    MoveHdr(S, d, id, hdr, Renewed(IF given THEN page ELSE S.f.pg[hdr], name, size))
=============================================================================
