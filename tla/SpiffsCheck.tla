----------------------------- MODULE SpiffsCheck -----------------------------
(***************************************************************************)
(* Consistency check and mount (spiffs_check.c, SPIFFS_check, SPIFFS_mount).*)
(* The check reads lookup tables and page headers, compares them with what *)
(* the indices refer to and mends the flash with the routines of           *)
(* SpiffsNucleus; its three scans run one after the other.                 *)
(***************************************************************************)
EXTENDS SpiffsObjects

CONSTANT MaxRestarts      \* bound on the rescans of the page check
ASSUME RestartsAssumption == MaxRestarts \in Nat \ {0}

NotFoundIs0(S) == IF S.res = "NOT_FOUND" THEN [Fail(S, "OK") EXCEPT !.pix = 0] ELSE S

\* spiffs_obj_lu_scan: the counters of struct spiffs are those of the lookups.
LuScan(S) ==
    LET counts == {S.f.ec[b] : b \in Blocks} \ {Blank}
        lo == CHOOSE x \in counts : \A y \in counts : x <= y
        hi == CHOOSE x \in counts : \A y \in counts : x >= y
        Sum(Test(_)) == Cardinality({p \in Pages : Test(S.f.lu[p])})
    IN  [S EXCEPT !.mec = IF counts = {} THEN 1
                          ELSE IF hi - lo > Blank \div 2 THEN lo + 1 ELSE hi + 1,
                  !.fb = Cardinality({b \in Blocks : S.f.lu[PageAt(b, 0)] = Blank}),
                  !.al = Sum(IsBusy), !.de = Sum(IsDeleted),
                  !.lub = LookupOf(S.f, BlockCount - 1)]

\* SPIFFS_mount: everything but the flash starts afresh.
Mounted(f) ==
    LuScan([f |-> f, al |-> 0, de |-> 0, fb |-> 0, fcb |-> 0, fce |-> 0, cb |-> 0, ce |-> 0,
            mec |-> 0, cleaning |-> FALSE, fds |-> [d \in 1..FdCount |-> ClosedFd],
            res |-> "OK", pix |-> 0, log |-> << >>, l |-> NoLocals,
            lub |-> [e \in 0..(Entries - 1) |-> Blank]])
-----------------------------------------------------------------------------
(* Repairs.                                                                *)

\* spiffs_object_get_data_page_index_reference: the index page (S.pix) that
\* should refer to a data span; RefIn is the page it does refer to.
FindIndexOf(S, id, spx) == FindIdAndSpan(S, Ix(id), IxSpan(spx), 0)
RefIn(S, spx) == S.f.pg[S.pix].ix[IxEntry(spx)]

\* spiffs_rewrite_page: a fresh page with the given header and the old body.
RewritePage(S, p, hdr) ==
    Do(AllocateData(S, hdr.id, hdr, BlankPage, FALSE), LAMBDA t :
       WrPage(t, t.pix, BodyOf(t.f.pg[p])))

\* spiffs_rewrite_index: a copy of the index page with one entry redirected.
\* CHECK_BAD stands for the errors that mean the object cannot be mended.
RewriteAs(S, p, id, span, old, new, objix) ==
    IF \/ old.id # Ix(id) \/ old.span # span
       \/ ~ ({"USED", "INDEX", "FINAL"} \subseteq old.fl)
       \/ old.fl \cap {"IXDELE", "DELET"} # {}
    THEN Fail(PageDelete(S, p), "CHECK_BAD")
    ELSE PageDelete(WrLookup(WrPage(S, p, new), p, Ix(id)), objix)
RewriteIndex(S, id, spx, to, objix) ==
    Do(FindFree(S), LAMBDA t :
       RewriteAs(t, t.pix, id, IxSpan(spx), t.f.pg[objix],
                 [t.f.pg[objix] EXCEPT !.ix[IxEntry(spx)] = to], objix))

\* spiffs_delete_obj_lazy, for the id as the caller has it.
DeleteAt(S) == IF S.res = "NOT_FOUND" THEN Fail(S, "OK")
               ELSE Do(S, LAMBDA t : WrFlags(t, t.pix, {"IXDELE"}))
DeleteObjLazy(S, id) == DeleteAt(FindIdAndSpan(S, id, 0, 0))

\* After RewriteIndex: an index that is bad as well costs the object.
MendedOrLost(S, new, id) ==
    IF S.res = "CHECK_BAD" THEN DeleteObjLazy(PageDelete(Fail(S, "OK"), new), id) ELSE S
-----------------------------------------------------------------------------
(* Lookup consistency.                                                     *)

\* A repair: the file system after it, whether the page itself goes too
\* (delete_page) and whether the scan's buffer is read again (reload_lu).
Repair(S, del) == [s |-> S, del |-> del, reload |-> FALSE]
Reloading(R) == [R EXCEPT !.reload = TRUE]
OrFail(S, R) == IF S.res # "OK" THEN Repair(S, FALSE) ELSE R

Removing(S) == OrFail(S, Repair(S, TRUE))

\* A data page that only its index still knows gets a new page and the index
\* is redirected to it.
MendOf(S, new, hdr) ==
    [Removing(MendedOrLost(S, new, hdr.id)) EXCEPT !.reload = S.res = "CHECK_BAD"]
MendIndex(S, hdr, objix) ==
    OrFail(S, MendOf(RewriteIndex(S, hdr.id, hdr.span, S.pix, objix), S.pix, hdr))
Mend(S, p, hdr, objix) == MendIndex(RewritePage(S, p, hdr), hdr, objix)

\* The data page is removed unless its index refers to it.
UnlessReferredBy(S, p, hdr) ==
    IF S.res = "NOT_FOUND" THEN Repair(Fail(S, "OK"), TRUE)
    ELSE IF S.res = "OK" /\ RefIn(S, hdr.span) = p THEN Mend(S, p, hdr, S.pix)
    ELSE Removing(S)
UnlessReferred(S, p, hdr) == UnlessReferredBy(FindIndexOf(S, hdr.id, hdr.span), p, hdr)

\* Deleted or free in the lookup, but in use according to the page.
LostHeader(S, p, hdr) ==
    IF S.res # "OK" THEN Repair(Fail(S, "OK"), TRUE) ELSE Removing(RewritePage(S, p, hdr))
LostIndex(S, p, hdr) ==
    IF S.res # "NOT_FOUND" THEN Removing(S)
    ELSE LostHeader(FindByHeader(Fail(S, "OK"), Ix(hdr.id), 0), p, hdr)
LostInLookup(S, p, hdr) ==
    IF "INDEX" \notin hdr.fl THEN UnlessReferred(S, p, hdr)
    ELSE LostIndex(FindIdAndSpan(S, Ix(hdr.id), hdr.span, p), p, hdr)

\* An index page of which lookup and page name different objects: it is taken
\* for the one that has data but no such index page.  UNDECIDED: the code then
\* tests data_pix_lu or data_pix_ph, which only a successful search sets.
OtherIndex(S, p, id, hdr) ==
    LET Look(t, i, span) == NotFoundIs0(FindIdAndSpan(t, i, span, 0))
        ixLu == Look(S, Ix(id), hdr.span)
        ixPh == Look(ixLu, Ix(hdr.id), hdr.span)
        dataLu == Look(ixPh, Plain(id), 0)
        dataPh == Look(dataLu, Plain(hdr.id), 0)
        RewriteFor(i) == Reloading(Removing(RewritePage(dataPh, p,
            [HeaderOf(hdr) EXCEPT !.id = Ix(i), !.fl = {"USED", "INDEX", "FINAL"}])))
    IN  IF ixLu.pix # 0 /\ ixPh.pix # 0 THEN Removing(ixPh)
        ELSE IF dataPh.pix # 0 /\ ixPh.pix = 0 THEN RewriteFor(hdr.id)
        ELSE IF dataPh.pix # 0 /\ dataLu.pix # 0 THEN RewriteFor(id)
        ELSE Removing(Fail(dataPh, "UNDECIDED"))

\* Lookup and page name different objects.
OtherObject(S, p, id, hdr) ==
    IF "DELET" \in hdr.fl \/ "FINAL" \notin hdr.fl \/ {"INDEX", "IXDELE"} \subseteq hdr.fl
    THEN Repair(S, TRUE)
    ELSE IF "INDEX" \notin hdr.fl THEN UnlessReferred(S, p, hdr)
    ELSE OtherIndex(S, p, id, hdr)

\* Lookup and page disagree on whether this is an index page.
KindOf(S, p, hdr, id, data) ==
    IF data = (S.pix # 0) THEN Removing(S)
    ELSE Removing(RewritePage(S, p,
            [HeaderOf(hdr) EXCEPT !.id = IF data THEN Ix(id) ELSE Plain(id),
                                  !.fl = {"USED", "FINAL"} \cup (IF data THEN {"INDEX"} ELSE {})]))
KindBeside(S, p, hdr, id) ==
    KindOf(NotFoundIs0(FindIdAndSpan(S, Ix(id), hdr.span, p)), p, hdr, id, S.pix # 0)
OtherKind(S, p, hdr, id) ==
    KindBeside(NotFoundIs0(FindIdAndSpan(S, Plain(id), hdr.span, p)), p, hdr, id)

\* Busy, not deleted, but never finalised.
FinalIfReferred(S, p, hdr) ==
    IF S.res = "NOT_FOUND" THEN Repair(Fail(S, "OK"), TRUE)
    ELSE OrFail(S, IF RefIn(S, hdr.span) # p THEN Repair(S, TRUE)
                   ELSE Repair(WrFlags(S, p, {"FINAL"}), FALSE))
NotFinal(S, p, hdr, id) == FinalIfReferred(FindIndexOf(S, Plain(id), hdr.span), p, hdr)

\* The page goes if the repair says so; the scan's buffer is read again if the
\* repair asks for it (SPIFFS_VIS_COUNTINUE_RELOAD).
Discard(R, p) ==
    LET S == IF R.s.res = "OK" /\ R.del THEN PageDelete(R.s, p) ELSE R.s
    IN  IF R.reload THEN Reload(S, BlockFor(p)) ELSE S

Lost(hdr, id) ==
    \/ id = Deleted /\ "DELET" \notin hdr.fl
    \/ id = Blank /\ "USED" \in hdr.fl

\* spiffs_lookup_check_validate for the lookup value id the scan has in its
\* buffer, and the header of the page.
ValidateBusy(S, p, id, hdr) ==
    IF Ix(hdr.id) # Ix(id) THEN Discard(OtherObject(S, p, id, hdr), p)
    ELSE IF (id >= IxFlag) # ("INDEX" \in hdr.fl) THEN Discard(OtherKind(S, p, hdr, id), p)
    ELSE IF "DELET" \in hdr.fl THEN PageDelete(S, p)
    ELSE IF "FINAL" \notin hdr.fl THEN Discard(Reloading(NotFinal(S, p, hdr, id)), p)
    ELSE S
LookupValidate(S, p, id, hdr) ==
    IF IsBusy(id) THEN ValidateBusy(S, p, id, hdr)
    ELSE IF Lost(hdr, id) THEN Discard(Reloading(LostInLookup(S, p, hdr)), p)
    ELSE S

\* At the first entry of a block its lookup page is read.
AtBlock(S, p) == IF EntryFor(p) = 0 THEN Reload(S, BlockFor(p)) ELSE S

LookupAt(S, p) == LookupValidate(S, p, S.lub[EntryFor(p)], HeaderOf(S.f.pg[p]))

RECURSIVE LookupScan(_, _)
LookupScan(S, i) ==
    IF i > Len(AllPages) \/ S.res # "OK" THEN S
    ELSE LookupScan(LookupAt(AtBlock(S, AllPages[i]), AllPages[i]), i + 1)
-----------------------------------------------------------------------------
(* Object index consistency: index pages without a header are deleted, and *)
(* headers of objects whose removal was interrupted.                       *)

\* The scan's buffer of lookup values is not read again after a deletion, so
\* a page sees the value the lookup had when its block was read; reach is the
\* temporary index of ids and whether their header was found.
DeadHeader(pg) == /\ pg.span = 0 /\ {"INDEX", "FINAL", "IXDELE"} \subseteq pg.fl
                  /\ "DELET" \notin pg.fl
GoodIndex(pg) == {"INDEX", "FINAL"} \subseteq pg.fl /\ pg.fl \cap {"DELET", "IXDELE"} = {}

\* No header of the page's object is known yet: it is searched, in S.
ReachHeader(R, S, p, id) ==
    [s |-> IF S.res = "OK" THEN Reload(S, BlockFor(p))
           ELSE PageDelete(Reload(Fail(S, "OK"), BlockFor(p)), p),
     reach |-> R.reach \cup {[id |-> Plain(id), ok |-> S.res = "OK"]}]
Reach(R, p, id, span, known) ==
    IF span = 0
    THEN [R EXCEPT !.reach = IF known # {} THEN @ ELSE @ \cup {[id |-> Plain(id), ok |-> TRUE]}]
    ELSE IF known = {} THEN ReachHeader(R, FindIdAndSpan(R.s, Ix(id), 0, 0), p, id)
    ELSE IF \E x \in known : ~ x.ok THEN [R EXCEPT !.s = PageDelete(@, p)] ELSE R
IndexValidate(R, p, id, pg) ==
    CASE ~ IsIx(id) -> R
      [] IsIx(id) /\ DeadHeader(pg) -> [R EXCEPT !.s = PageDelete(@, p)]
      [] IsIx(id) /\ ~ DeadHeader(pg) /\ GoodIndex(pg) -> R
      [] OTHER -> Reach(R, p, id, pg.span, {x \in R.reach : x.id = Plain(id)})

IndexAt(R, p) == IndexValidate(R, p, R.s.lub[EntryFor(p)], R.s.f.pg[p])

RECURSIVE IndexScan(_, _)
IndexScan(R, i) ==
    IF i > Len(AllPages) \/ R.s.res # "OK" THEN R
    ELSE IndexScan(IndexAt([R EXCEPT !.s = AtBlock(@, AllPages[i])], AllPages[i]), i + 1)
-----------------------------------------------------------------------------
(* Page consistency: every live index refers to live data pages of its     *)
(* object, each page is referred to once, and every data page is referred  *)
(* to.  A repair makes the scan start again.                               *)

\* The scan: refd are the pages referred to so far.
LiveIndex(pg) == /\ {"INDEX", "USED"} \subseteq pg.fl /\ pg.fl \cap {"DELET", "IXDELE"} = {}
SpanOf(pg, i) == IF pg.span = 0 THEN i ELSE HdrIxLen + IxLen * (pg.span - 1) + i
SlotsOf(pg) == IF pg.span = 0 THEN HdrIxLen ELSE IxLen

BadRef(to) == (to # Blank /\ to > MaxPages) \/ (to < MaxPages /\ IsLookup(to))
GoodData(f, to, id, spx) ==
    LET pg == f.pg[to]
    IN  /\ pg.id = Plain(id) /\ pg.span = spx
        /\ "USED" \in pg.fl /\ pg.fl \cap {"DELET", "INDEX"} = {}

\* A repair that makes the scan start again.
Restart(R, S) == [R EXCEPT !.s = S, !.restart = TRUE]

\* A live data page with this span other than the page not; 0 for none, and
\* then a new, empty one.
OtherData(S, id, spx, not) == NotFoundIs0(FindIdAndSpan(S, Plain(id), spx, not))
OrEmptyData(S, id, spx) ==
    IF S.res # "OK" \/ S.pix # 0 THEN S
    ELSE AllocateData(S, Plain(id), [BlankPage EXCEPT !.id = Plain(id), !.span = spx,
                                                      !.fl = {"USED", "FINAL"}], BlankPage, TRUE)

\* The entry is redirected to S.pix; an index that is bad is deleted, or costs
\* the object.
Remap(S, p, id, spx) == Do(S, LAMBDA t : RewriteIndex(t, id, spx, t.pix, p))
OrIndexLost(S, p) == IF S.res = "CHECK_BAD" THEN PageDelete(Fail(S, "OK"), p) ELSE S
OrObjectLost(S, id) == IF S.res = "CHECK_BAD" THEN DeleteObjLazy(Fail(S, "OK"), id) ELSE S

\* The entry refers to a page that is no data page of the object; S.pix is
\* another one that is.
BadData(R, S, p, id, spx) ==
    IF S.pix = 0 THEN [R EXCEPT !.s = DeleteObjLazy(S, id), !.skip = TRUE]
    ELSE Restart(R, OrObjectLost(Remap(S, p, id, spx), id))

\* One entry i of the index page at p: it refers to the page to.
RefValidateTo(R, p, id, spx, to) ==
    CASE BadRef(to) ->
           Restart(R, OrIndexLost(Remap(OrEmptyData(OtherData(R.s, id, spx, 0), id, spx),
                                        p, id, spx), p))
      [] to = Blank -> R
      [] OTHER ->
           IF ~ GoodData(R.s.f, to, id, spx) THEN BadData(R, OtherData(R.s, id, spx, to), p, id, spx)
           ELSE IF to \in R.refd
           THEN Restart(R, Do(DeleteObjLazy(R.s, id), LAMBDA t : PageDelete(t, p)))
           ELSE [R EXCEPT !.refd = @ \cup {to}]
RefValidate(R, p, i, pg) == RefValidateTo(R, p, pg.id, SpanOf(pg, i), pg.ix[i])

RECURSIVE RefScan(_, _, _)
RefScan(R, p, i) ==
    IF R.restart \/ R.skip \/ R.s.res # "OK" \/ i = SlotsOf(R.s.f.pg[p]) THEN [R EXCEPT !.skip = FALSE]
    ELSE RefScan(RefValidate(R, p, i, R.s.f.pg[p]), p, i + 1)

MapPage(R, p, pg) ==
    IF LiveIndex(pg) THEN RefScan([R EXCEPT !.index = @ \cup {p}], p, 0) ELSE R
MapUsed(R, p, pg) ==
    IF "USED" \in pg.fl /\ "DELET" \notin pg.fl THEN [R EXCEPT !.used = @ \cup {p}] ELSE R
MapAt(R, p, pg) == MapPage(MapUsed(R, p, pg), p, pg)

RECURSIVE MapScan(_, _)
MapScan(R, k) ==
    IF R.restart \/ R.s.res # "OK" \/ k > Len(AllPages) THEN R
    ELSE MapScan(MapAt(R, AllPages[k], R.s.f.pg[AllPages[k]]), k + 1)

\* mutant: a page that its index does not refer to is kept
OrphanKept(R, p) == R

LiveData(pg, id) == /\ pg.id = Plain(id)
                    /\ {"USED", "FINAL"} \subseteq pg.fl /\ pg.fl \cap {"INDEX", "DELET"} = {}

\* Its index, at S.pix, refers to the page to.
OrphanOf(R, S, p, pg, to) ==
    CASE to = Blank \/ BadRef(to) \/ (to # p /\ ~ LiveData(S.f.pg[to], pg.id)) ->
           Restart(R, MendedOrLost(RewriteIndex(S, pg.id, pg.span, p, S.pix), p, pg.id))
      [] OTHER -> [R EXCEPT !.s = IF LiveData(S.f.pg[to], pg.id) THEN PageDelete(S, p) ELSE S]
OrphanIn(R, S, p, pg) ==
    IF S.res = "NOT_FOUND" THEN [R EXCEPT !.s = PageDelete(Fail(S, "OK"), p)]
    ELSE OrphanOf(R, S, p, pg, RefIn(S, pg.span))
OrphanWith(R, p, pg) == OrphanIn(R, FindIndexOf(R.s, Plain(pg.id), pg.span), p, pg)

\* A page in use that no index refers to: its index is redirected to it when
\* the page it refers to is no data page of the object, else the page goes.
Orphan(R, p) == OrphanWith(R, p, R.s.f.pg[p])

RECURSIVE OrphanScan(_, _)
OrphanScan(R, k) ==
    IF R.restart \/ R.s.res # "OK" \/ k > Len(AllPages) THEN R
    ELSE LET p == AllPages[k]
         IN  OrphanScan(IF p \in R.used /\ p \notin R.refd /\ p \notin R.index THEN Orphan(R, p) ELSE R,
                        k + 1)

\* spiffs_page_consistency_check_i, all pages in one range.
RECURSIVE PageScan(_, _)
Rescan(R, n) == IF R.s.res = "OK" /\ R.restart THEN PageScan(R.s, n) ELSE R.s
PageScan(S, n) ==
    IF n = 0 THEN Fail(S, "ENDLESS")
    ELSE Rescan(OrphanScan(MapScan([s |-> S, refd |-> {}, used |-> {}, index |-> {},
                                    restart |-> FALSE, skip |-> FALSE], 1), 1), n - 1)

\* SPIFFS_check: a scan that fails does not stop the next one; its result
\* (here in l.brk) is dropped.
CheckResult(S, failed) ==
    [LuScan(Fail(S, "OK")) EXCEPT !.l.brk = IF failed = {} THEN "OK" ELSE CHOOSE r \in failed : TRUE]
CheckEnd(S, failed) == CheckResult(S, (failed \cup {S.res}) \ {"OK"})
CheckPages(S, failed) == CheckEnd(PageScan(Fail(S, "OK"), MaxRestarts), failed \cup {S.res})
CheckIndices(S) == CheckPages(IndexScan([s |-> Fail(S, "OK"), reach |-> {}], 1).s, {S.res})
CheckAll(S) == CheckIndices(LookupScan(S, 1))
=============================================================================
