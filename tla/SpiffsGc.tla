------------------------------ MODULE SpiffsGc ------------------------------
(***************************************************************************)
(* The garbage collector (spiffs_gc.c): a block with deleted pages is      *)
(* emptied by moving its live pages elsewhere, then erased.  It runs       *)
(* inside the calls that need room, so it moves pages of objects that the  *)
(* caller never named.                                                     *)
(***************************************************************************)
EXTENDS SpiffsNucleus

CONSTANT GcMaxRuns        \* SPIFFS_GC_MAX_RUNS
ASSUME GcRunsAssumption == GcMaxRuns \in Nat \ {0}

\* Pages that may still be given to objects: two blocks are kept spare.
FreePages(S) == Entries * (BlockCount - 2) - S.al - S.de

\* The scan of a block ends at its first free entry.
Scanned(f, b) == {e \in 0..(Entries - 1) : \A k \in 0..e : f.lu[PageAt(b, k)] # Blank}
DeletedIn(f, b) == Cardinality({e \in Scanned(f, b) : f.lu[PageAt(b, e)] = Deleted})
UsedIn(f, b) == Cardinality({e \in Scanned(f, b) : f.lu[PageAt(b, e)] # Deleted})

EraseAge(S, b) == IF S.mec > S.f.ec[b] THEN S.mec - S.f.ec[b] ELSE Blank - (S.f.ec[b] - S.mec)

\* SPIFFS_GC_HEUR_W_DELET, _W_USED, _W_ERASE_AGE.
Score(S, b, crammed) ==
    5 * DeletedIn(S.f, b) - UsedIn(S.f, b) + (IF crammed THEN 0 ELSE 50 * EraseAge(S, b))

\* spiffs_gc_find_candidate: the best score first, the lower block of equals.
Candidates(S) == {b \in Blocks : DeletedIn(S.f, b) > 0}
Candidate(S, crammed) ==
    CHOOSE b \in Candidates(S) : \A c \in Candidates(S) :
        \/ Score(S, b, crammed) > Score(S, c, crammed)
        \/ Score(S, b, crammed) = Score(S, c, crammed) /\ b <= c

\* mutant: the buffer is not read again
MoveAwayStale(S, id, p) == PageMove(S, FALSE, BlankPage, id, p)

\* The scans of spiffs_gc_clean take the ids of the block from fs->lu_work, and
\* spiffs_page_move, which looks for a free page, leaves another block's ids in
\* it: "move wipes obj_lu, reload it".
MoveAway(S, id, p) ==
    Do(PageMove(S, FALSE, BlankPage, id, p), LAMBDA t : Reload(t, BlockFor(p)))

\* MOVE_OBJ_DATA at one entry of the block: a data page of the object that the
\* loaded index page (S.l.work) refers to is moved and the index, in memory,
\* is redirected to its copy.
MoveDataAt(S, p, id, span) ==
    LET pg == S.f.pg[p]
        Redirect(t, to) == [t EXCEPT !.l.work.ix[IxEntry(pg.span)] = to]
    IN  IF S.lub[EntryFor(p)] # id \/ IxSpan(pg.span) # span THEN S
        ELSE IF "DELET" \in pg.fl THEN Redirect(PageDelete(S, p), Blank)
        ELSE Do(MoveAway(S, id, p), LAMBDA t : Redirect(t, t.pix))

RECURSIVE MoveData(_, _, _, _, _)
MoveData(S, b, e, id, span) ==
    IF e = Entries \/ S.res # "OK" THEN S
    ELSE MoveData(MoveDataAt(S, PageAt(b, e), id, span), b, e + 1, id, span)

\* The state change after MOVE_OBJ_DATA: the redirected index page is stored.
StoreIndex(S, id, span, objix) ==
    IF span = 0 THEN UpdateIndexHdr(S, 0, Ix(id), objix, TRUE, S.l.work, 0, 0)
    ELSE Do(PageMove(S, TRUE, S.l.work, Ix(id), objix), LAMBDA t :
            Event(t, "UPD", id, span, t.pix, 0))

CleanWith(S, b, id, span, objix) ==
    Do(Fail([S EXCEPT !.l.work = S.f.pg[objix]], ValidateObjix(S.f.pg[objix], Ix(id), span)),
       LAMBDA t : Do(MoveData(Reload(t, b), b, 0, id, span), LAMBDA u : StoreIndex(u, id, span, objix)))

CleanObject(S, b, id, span) ==
    Do(FindIdAndSpan(S, Ix(id), span, 0), LAMBDA t : CleanWith(t, b, id, span, t.pix))

\* FIND_OBJ_DATA finds the next data page; MOVE_OBJ_DATA moves it together
\* with all data pages of the block that the same index page refers to.
RECURSIVE CleanData(_, _, _)
CleanFrom(S, b, found) ==
    IF S.res # "OK" \/ found = {} THEN S
    ELSE CleanData(CleanObject(S, b, S.lub[Min(found)],
                               IxSpan(S.f.pg[PageAt(b, Min(found))].span)), b, Min(found) + 1)
CleanData(S, b, from) ==
    LET t == Reload(S, b)
    IN  CleanFrom(t, b, {e \in from..(Entries - 1) : IsPlain(t.lub[e])})

\* MOVE_OBJ_IX: the index pages that are left are moved as they are.
MoveIndex(S, p, id, pg) ==
    IF ~ IsIx(id) THEN S
    ELSE IF "DELET" \in pg.fl THEN Event(PageDelete(S, p), "DEL", id, pg.span, p, 0)
    ELSE Do(MoveAway(S, id, p), LAMBDA t : Event(t, "UPD", id, pg.span, t.pix, 0))

RECURSIVE CleanIndex(_, _, _)
CleanIndex(S, b, e) ==
    IF e = Entries \/ S.res # "OK" THEN S
    ELSE CleanIndex(MoveIndex(S, PageAt(b, e), S.lub[e], S.f.pg[PageAt(b, e)]), b, e + 1)

\* spiffs_gc_clean: free pages of the block itself must not be used.
OffBlock(S, b) ==
    IF S.fcb = b THEN [S EXCEPT !.fcb = (b + 1) % BlockCount, !.fce = 0] ELSE S

Clean(S, b) == Do(CleanData(OffBlock(S, b), b, 0), LAMBDA t : CleanIndex(Reload(t, b), b, 0))

\* spiffs_gc_erase_page_stats, spiffs_gc_erase_block.
EraseCleaned(S, b) ==
    EraseBlock([Reload(S, b) EXCEPT !.al = @ - CountIn(S.f, b, IsBusy),
                                    !.de = @ - CountIn(S.f, b, IsDeleted)], b)

Collect(S, b) ==
    Do([Clean([S EXCEPT !.cleaning = TRUE], b) EXCEPT !.cleaning = FALSE],
       LAMBDA t : EraseCleaned(t, b))

Fits(S, len) == len <= FreePages(S) * DataSize
NeededPages(len) == (len + DataSize - 1) \div DataSize

\* The do-while of spiffs_gc_check: free is the number of free pages before
\* the block was collected, a crammed flash on which it did not grow ends it.
RECURSIVE GcRuns(_, _, _)
GcAgain(S, len, tries, free) ==
    IF S.res # "OK" THEN S
    ELSE IF /\ tries + 1 < GcMaxRuns
            /\ S.fb <= 2 \/ ~ Fits(S, len)
            /\ free > 0 \/ FreePages(S) # free
    THEN GcRuns(S, len, tries + 1)
    ELSE Fail(S, IF Fits(S, len) THEN "OK" ELSE "FULL")
GcRuns(S, len, tries) ==
    IF Candidates(S) = {}
    THEN Fail(Reload(S, BlockCount - 1), IF NeededPages(len) < FreePages(S) THEN "OK" ELSE "FULL")
    ELSE GcAgain(Collect(Reload(S, BlockCount - 1), Candidate(S, FreePages(S) <= 0)),
                 len, tries, FreePages(S))

\* spiffs_gc_check: room for len units, or FULL.
GcCheck(S, len) ==
    IF S.fb > 3 /\ len < FreePages(S) * DataSize THEN S
    ELSE IF NeededPages(len) > FreePages(S) + S.de THEN Fail(S, "FULL")
    ELSE GcRuns(S, len, 0)
=============================================================================
