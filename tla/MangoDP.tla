------------------------------ MODULE MangoDP ------------------------------
(***************************************************************************)
(* The data processors of mangoDP.c.  An input processor is called with    *)
(* the used range of the working buffer and consumes it in a loop; every   *)
(* iteration is an action (pc = "idp"), because the application's callback *)
(* runs in it and may abort.  Return(...) is what the calling handler does *)
(* with the processor's result, still in the same event.                   *)
(***************************************************************************)
EXTENDS Mango

Rest == Drop(workingBuffer, left + processed)   \* buf[0 .. buflen)
MinOf(a, b) == IF a < b THEN a ELSE b

(***************************************************************************)
(* The tail of EVENT_PROCESS in HTTP_RECVING_DATA and in WS_POLLING.       *)
(***************************************************************************)
MoreDataNeeded ==
    \/ FreeSz = 0 /\ Enter("ABORTED", "WORKBUFSMALL")
    \/ /\ FreeSz > 0
       /\ subscribedEvent' = "READ" /\ pc' = "loop"
       /\ UNCHANGED <<curState, smExitError, timed, expired, wbVars>>

Failed(err) ==
    CASE curState = "WS_POLLING" /\ err = "WEBSOCKETCLOSED" -> Enter("DISCONNECTED", err)
      [] OTHER -> Enter("ABORTED", err)

Consumed(n) ==
    /\ Shrink(left + n)
    /\ subscribedEvent' = IF Used = n THEN "READ" ELSE subscribedEvent
    /\ pc' = "loop"
    /\ UNCHANGED <<curState, smExitError, timed, expired>>

Completed == Enter("HTTP_CONNECTED", httpResponseStatusCode)

Return(err, n) ==
    /\ processed' = 0
    /\ CASE err = "OK" -> Consumed(n)
         [] err = "COMPLETED" -> Completed
         [] err = "MOREDATANEEDED" -> MoreDataNeeded
         [] OTHER -> Failed(err)

\* the RETURN() macro, *completed being 0
ReturnSoFar ==
    /\ Return(IF processed > 0 THEN "OK" ELSE "MOREDATANEEDED", processed)
    /\ UNCHANGED <<dpVars, got>>

\* the MOVETO(state, n) macro: go on with the loop, n tokens further
MoveOn(n) ==
    /\ processed' = processed + n
    /\ UNCHANGED <<smVars, wbVars, pc>>

(***************************************************************************)
(* mangoIDP_raw: all that is there goes to the application.                *)
(***************************************************************************)
RawCounts(n) == IDPArgsRaw' = [IDPArgsRaw EXCEPT !.done = @ + n]

mangoIDP_raw ==
    /\ pc = "idp" /\ inputDataProcessor = "raw"
    /\ \/ /\ IDPArgsRaw.fileSz = 0
          /\ Return("COMPLETED", 0) /\ UNCHANGED <<dpVars, got>>
       \/ /\ IDPArgsRaw.fileSz # 0 /\ Rest = << >>
          /\ Return("MOREDATANEEDED", 0) /\ UNCHANGED <<dpVars, got>>
       \/ /\ IDPArgsRaw.fileSz # 0 /\ Rest # << >>
          /\ RawCounts(Len(Rest))
          /\ got' = got \o Rest
          /\ UNCHANGED <<inputDataProcessor, IDPArgsChunked, IDPArgsWebsocket,
                         outVars, dataProcessorArgs>>
          /\ \/ Return(IF IDPArgsRaw'.done = IDPArgsRaw.fileSz
                       THEN "COMPLETED" ELSE "OK", Len(Rest))
             \/ Return("APPABORTED", Len(Rest))
    /\ UNCHANGED <<reqVars, srvVars, appVars, resp>>

(***************************************************************************)
(* mangoIDP_chunked: state 1 a size line, 2 the data, 3 the CRLF after it, *)
(* 4 the trailer.                                                          *)
(***************************************************************************)
ChunkOnly == UNCHANGED <<inputDataProcessor, IDPArgsRaw, IDPArgsWebsocket,
                         outVars, dataProcessorArgs>>
IsNewline(t) == t.k \in {"nl", "lf"}
HasLine(s) == \E j \in 1 .. Len(s) : IsNewline(s[j])
LineLen(s) == CHOOSE j \in 1 .. Len(s) :
                 IsNewline(s[j]) /\ \A h \in 1 .. j - 1 : ~IsNewline(s[h])
IsCRLF(s) == Len(s) = 2 /\ s[1].k = "cr" /\ s[2].k = "lf"
EndsBlank(s) == /\ Len(s) > 3
                /\ IsCRLF(SubSeq(s, Len(s) - 3, Len(s) - 2))
                /\ IsCRLF(SubSeq(s, Len(s) - 1, Len(s)))

\* case 1: hexstr2dec refuses a line that starts with no size
ChunkSize ==
    /\ IDPArgsChunked.state = 1 /\ Rest # << >>
    /\ UNCHANGED got
    /\ \/ ~HasLine(Rest) /\ ReturnSoFar
       \/ /\ HasLine(Rest) /\ Rest[1].k # "size"
          /\ Return("DATAPROCESSING", processed) /\ UNCHANGED dpVars
       \/ /\ HasLine(Rest) /\ Rest[1].k = "size"
          /\ IDPArgsChunked' = [state |-> IF Rest[1].n > 0 THEN 2 ELSE 4,
                                sz |-> Rest[1].n, done |-> 0]
          /\ MoveOn(LineLen(Rest)) /\ ChunkOnly

\* the CRLF after the data is forgotten
ChunkDataNoCRLF ==
    /\ IDPArgsChunked.state = 2 /\ Rest # << >>
    /\ LET n == MinOf(Len(Rest), IDPArgsChunked.sz - IDPArgsChunked.done) IN
       /\ got' = got \o Take(Rest, n)
       /\ IDPArgsChunked' =
            [IDPArgsChunked EXCEPT
               !.done = @ + n,
               !.state = IF IDPArgsChunked.sz = IDPArgsChunked.done + n
                         THEN 1 ELSE 2]
       /\ MoveOn(n) /\ ChunkOnly

\* case 2: n > 0, or MANGO_ENSURE(0) is reached
ChunkData ==
    /\ IDPArgsChunked.state = 2 /\ Rest # << >>
    /\ LET n == MinOf(Len(Rest), IDPArgsChunked.sz - IDPArgsChunked.done) IN
       /\ got' = got \o Take(Rest, n)
       /\ \/ /\ IDPArgsChunked' =
                  [IDPArgsChunked EXCEPT
                     !.done = @ + n,
                     !.state = IF IDPArgsChunked.sz = IDPArgsChunked.done + n
                               THEN 3 ELSE 2]
             /\ MoveOn(n) /\ ChunkOnly
          \/ Return("APPABORTED", processed) /\ UNCHANGED dpVars

\* case 3
ChunkCRLF ==
    /\ IDPArgsChunked.state = 3 /\ Rest # << >>
    /\ UNCHANGED got
    /\ \/ Len(Rest) < 2 /\ ReturnSoFar
       \/ /\ Len(Rest) >= 2 /\ IsCRLF(Take(Rest, 2))
          /\ IDPArgsChunked' = [IDPArgsChunked EXCEPT !.state = 1]
          /\ MoveOn(2) /\ ChunkOnly
       \/ /\ Len(Rest) >= 2 /\ ~IsCRLF(Take(Rest, 2))
          /\ Return("DATAPROCESSING", processed) /\ UNCHANGED dpVars

\* case 4: nothing of the trailer is consumed before its blank line is there
ChunkTrailer ==
    /\ IDPArgsChunked.state = 4 /\ Rest # << >>
    /\ UNCHANGED got
    /\ \/ /\ IsCRLF(Rest) \/ EndsBlank(Rest)
          /\ Return("COMPLETED", processed) /\ UNCHANGED dpVars
       \/ ~IsCRLF(Rest) /\ ~EndsBlank(Rest) /\ ReturnSoFar

mangoIDP_chunked ==
    /\ pc = "idp" /\ inputDataProcessor = "chunked"
    /\ \/ Rest = << >> /\ ReturnSoFar
       \/ ChunkSize \/ ChunkData \/ ChunkCRLF \/ ChunkTrailer
    /\ UNCHANGED <<reqVars, srvVars, appVars, resp>>

(***************************************************************************)
(* mangoIDP_websocket: state 1 a frame header, 2 its payload.  A payload   *)
(* that fits the WB is buffered whole; a longer one is passed on in pieces.*)
(* The answers to close and ping go out through mangoWS_close and          *)
(* mangoWS_pong, whose results nobody looks at.                            *)
(***************************************************************************)
WsOnly == UNCHANGED <<inputDataProcessor, IDPArgsRaw, IDPArgsChunked,
                      outVars, dataProcessorArgs>>
WsAbort(err) == Return(err, processed) /\ UNCHANGED dpVars
UINT8 == 256

\* What the first tokens say: the header's length in tokens, 0 when more is
\* needed, -1 when it is refused (a masked or a huge frame).
HeaderLen(s) ==
    IF Len(s) < 2 THEN 0
    ELSE IF s[1].k # "f1" \/ s[2].k # "f2" \/ s[2].mask THEN -1
    ELSE IF s[2].n >= 0 THEN 2
    ELSE IF Len(s) < 3 THEN 0
    ELSE IF s[3].k # "fx" \/ s[3].n = Infinite THEN -1
    ELSE 3

WsHeader ==
    /\ IDPArgsWebsocket.state = 1 /\ Rest # << >>
    /\ UNCHANGED got
    /\ LET h == HeaderLen(Rest) IN
       \/ h = 0 /\ ReturnSoFar
       \/ h = -1 /\ WsAbort("DATAPROCESSING")
       \/ /\ h > 0
          /\ IDPArgsWebsocket' =
               [IDPArgsWebsocket EXCEPT
                  !.state = 2, !.done = 0, !.sz = Rest[h].n,
                  !.op = Rest[1].op, !.fin = Rest[1].fin]
          /\ MoveOn(h) /\ WsOnly

\* what was passed on before is not taken into account
PieceLenWhole ==
    IF IDPArgsWebsocket.sz <= WB_TOT THEN IDPArgsWebsocket.sz
    ELSE MinOf(Len(Rest), IDPArgsWebsocket.sz)

PieceLen ==
    IF IDPArgsWebsocket.sz <= WB_TOT THEN IDPArgsWebsocket.sz
    ELSE MinOf(Len(Rest), IDPArgsWebsocket.sz - IDPArgsWebsocket.done)

\* a frame ID counts frames instead of messages
WsNextNoFin(n) ==
    LET a == IDPArgsWebsocket IN
    [a EXCEPT !.done = @ + n,
              !.state = IF a.done + n = a.sz THEN 1 ELSE 2,
              !.frameID = IF a.done + n = a.sz THEN (@ + 1) % UINT8 ELSE @]

WsNext(n) ==
    LET a == IDPArgsWebsocket IN
    [a EXCEPT !.done = @ + n,
              !.state = IF a.done + n = a.sz THEN 1 ELSE 2,
              !.frameID = IF a.done + n = a.sz /\ a.fin /\ a.op \notin Control
                          THEN (@ + 1) % UINT8 ELSE @]

WsPayload ==
    /\ IDPArgsWebsocket.state = 2 /\ Rest # << >>
    /\ \/ /\ PieceLen > Len(Rest)
          /\ UNCHANGED got /\ ReturnSoFar
       \/ /\ PieceLen <= Len(Rest) /\ IDPArgsWebsocket.op \notin Control
          /\ got' = got \o [j \in 1 .. PieceLen |->
                              [v |-> Rest[j], id |-> IDPArgsWebsocket.frameID]]
          /\ IDPArgsWebsocket' = WsNext(PieceLen)
          /\ MoveOn(PieceLen) /\ WsOnly
       \/ /\ PieceLen <= Len(Rest) /\ IDPArgsWebsocket.op = "ping"
          /\ UNCHANGED got
          /\ IDPArgsWebsocket' = WsNext(PieceLen)
          /\ MoveOn(PieceLen) /\ WsOnly
       \/ /\ PieceLen <= Len(Rest) /\ IDPArgsWebsocket.op = "close"
          /\ UNCHANGED got /\ WsAbort("WEBSOCKETCLOSED")
       \/ /\ PieceLen <= Len(Rest) /\ IDPArgsWebsocket.op = "pong"
          /\ UNCHANGED got /\ WsAbort("DATAPROCESSING")

mangoIDP_websocket ==
    /\ pc = "idp" /\ inputDataProcessor = "websocket"
    /\ \/ Rest = << >> /\ ReturnSoFar
       \/ WsHeader \/ WsPayload
    /\ UNCHANGED <<reqVars, srvVars, appVars, resp>>

InputProcessors == mangoIDP_raw \/ mangoIDP_chunked \/ mangoIDP_websocket

=============================================================================
