------------------------------ MODULE MangoSM ------------------------------
(***************************************************************************)
(* The state machine of mangoSM.c, driven by the calls of mango.c on one   *)
(* side and by the server on the other.  An API call throws its event and  *)
(* mangoSM_PROCESS keeps throwing the subscribed one until a state         *)
(* subscribes to nothing.                                                  *)
(*                                                                         *)
(* Socket calls follow the port's contract (mangoPort.c): a read fails,    *)
(* times out or returns a non-empty prefix of what the server sent, a      *)
(* write fails or takes any number of tokens.                              *)
(***************************************************************************)
EXTENDS MangoDP

HasHeader(name) == \E j \in 1 .. Len(workingBuffer) :
                      workingBuffer[j].k = "hdr" /\ workingBuffer[j].name = name
\* the first one counts
HeaderGet(name) ==
    IF ~HasHeader(name) THEN NotFound
    ELSE LET S == {j \in 1 .. Len(workingBuffer) :
                     workingBuffer[j].k = "hdr" /\ workingBuffer[j].name = name}
         IN workingBuffer[CHOOSE j \in S : \A h \in S : j <= h].val

Init ==
    /\ curState = "HTTP_CONNECTED" /\ subscribedEvent = "NONE"
    /\ smExitError = "OK" /\ timed = FALSE /\ expired = FALSE
    /\ workingBuffer = << >> /\ left = 0
    /\ httpMethod = NULL /\ httpResponseStatusCode = NULL
    /\ smAPICallArgs = NoCall
    /\ inputDataProcessor = NULL /\ outputDataProcessor = NULL
    /\ dataProcessorArgs = NULL
    /\ IDPArgsRaw = [fileSz |-> 0, done |-> 0]
    /\ IDPArgsChunked = [state |-> 1, sz |-> 0, done |-> 0]
    /\ IDPArgsWebsocket = [state |-> 1, sz |-> 0, done |-> 0, op |-> "text",
                           fin |-> TRUE, frameID |-> 0]
    /\ ODPArgsRaw = [fileSz |-> 0, done |-> 0]
    /\ pc = "app" /\ processed = 0
    /\ wire = << >> /\ owes = "nothing" /\ sent = << >>
    /\ serving = [rid |-> 0, method |-> NULL] /\ msg = [no |-> 0, open |-> FALSE]
    /\ requests = 0 /\ calls = 0 /\ frames = 0
    /\ resp = NoReply /\ got = << >>

(***************************************************************************)
(* mango.c: building a request.  The application builds one only where it  *)
(* can be processed, with no exchange under way (the code does not check). *)
(***************************************************************************)
Building == pc = "app" /\ curState = "HTTP_CONNECTED"
HasRequest == Len(workingBuffer) > 0 /\ workingBuffer[1].k = "line"

mango_httpRequestNew ==
    /\ Building /\ requests < MaxRequests
    /\ requests' = requests + 1
    /\ \E m \in Methods, n \in LineSizes :
         /\ httpMethod' = m
         /\ left' = 0
         /\ workingBuffer' = IF m \in Bodiless \cup Uploads /\ n <= WB_TOT
                             THEN [j \in 1 .. n |-> [k |-> "line"]] ELSE << >>
    /\ UNCHANGED <<smVars, httpResponseStatusCode, smAPICallArgs, dpVars, pc,
                   processed, srvVars, calls, histVars>>

\* a header that does not fit leaves the request as it was
mango_httpHeaderSet ==
    /\ Building /\ HasRequest
    /\ \E h \in ReqHeaders :
         /\ ~HasHeader(h.name)
         /\ Len(workingBuffer) < WB_TOT
         /\ workingBuffer' = Append(workingBuffer,
                               [k |-> "hdr", name |-> h.name, val |-> h.val])
    /\ UNCHANGED <<smVars, left, reqVars, dpVars, pc, processed, srvVars,
                   appVars, histVars>>

(***************************************************************************)
(* The calls that reach the state machine.  A state answers the calls it   *)
(* does not take with an error and stays where it is.                      *)
(***************************************************************************)
Accepts(s) ==
    CASE s = "HTTP_CONNECTED" -> {"httpRequestProcess"}
      [] s = "SENDING_DATA" -> {"httpDataSend"}
      [] s = "WS_CONNECTED" -> {"wsPoll", "wsFrameSend", "wsClose"}
      [] OTHER -> {}

Refusal(s) ==
    CASE s = "ABORTED" -> "ABORTED"
      [] s = "DISCONNECTED" -> "CONNECTION"
      [] OTHER -> "APICALLNOTSUPPORTED"

Target(name) ==
    CASE name = "httpRequestProcess" -> "SENDING_HEADERS"
      [] name = "httpDataSend" -> "SENDING_PACKET"
      [] name = "wsPoll" -> "WS_POLLING"
      [] name = "wsFrameSend" -> "WS_SENDING_FRAME"
      [] name = "wsClose" -> "WS_CLOSING"

Call(name, n) ==
    /\ pc = "app"
    /\ smAPICallArgs' = [name |-> name, n |-> n]
    /\ \/ /\ name \in Accepts(curState)
          /\ EnterFor(Target(name), "OK", IF name = "wsPoll" THEN n ELSE Infinite)
       \/ /\ name \notin Accepts(curState)
          /\ smExitError' = Refusal(curState)
          /\ UNCHANGED <<curState, subscribedEvent, timed, expired, wbVars, pc>>
    /\ UNCHANGED <<httpMethod, httpResponseStatusCode, dpVars, processed,
                   srvVars, requests, histVars>>

\* needs a built request when the client is connected: MANGO_ENSURE otherwise
mango_httpRequestProcess ==
    /\ curState = "HTTP_CONNECTED" => HasRequest
    /\ calls < MaxCalls /\ calls' = calls + 1
    /\ Call("httpRequestProcess", 0)

mango_httpDataSend ==
    /\ calls < MaxCalls /\ calls' = calls + 1
    /\ \E n \in DataSizes : Call("httpDataSend", n)

mango_wsPoll ==
    /\ calls < MaxCalls /\ calls' = calls + 1
    /\ \E n \in PollTimeouts : Call("wsPoll", n)

mango_wsFrameSend ==
    /\ calls < MaxCalls /\ calls' = calls + 1
    /\ Call("wsFrameSend", 0)

mango_wsClose ==
    /\ calls < MaxCalls /\ calls' = calls + 1
    /\ Call("wsClose", 0)

(***************************************************************************)
(* mangoSM_PROCESS: a due timeout goes first, else the subscribed event.   *)
(***************************************************************************)
Throws(s, event) ==
    /\ pc = "loop" /\ ~(timed /\ expired)
    /\ curState = s /\ subscribedEvent = event

Stay(event) ==
    /\ subscribedEvent' = event
    /\ UNCHANGED <<curState, smExitError, timed, expired, pc>>

\* a timed-out request leaves the connection open for the next one
TimeoutReconnected ==
    /\ pc = "loop" /\ timed /\ expired
    /\ \/ /\ curState \in {"RECVING_HEADERS", "RECVING_DATA"}
          /\ Enter("HTTP_CONNECTED", "RESPTIMEOUT")
       \/ curState = "WS_POLLING" /\ Enter("WS_CONNECTED", smExitError)
    /\ UNCHANGED <<reqVars, dpVars, processed, srvVars, appVars, histVars>>

\* a body that does not come is waited for again
TimeoutRetried ==
    /\ pc = "loop" /\ timed /\ expired
    /\ \/ curState = "RECVING_HEADERS" /\ Enter("ABORTED", "RESPTIMEOUT")
       \/ /\ curState = "RECVING_DATA" /\ expired' = FALSE
          /\ UNCHANGED <<curState, subscribedEvent, smExitError, timed, wbVars, pc>>
       \/ curState = "WS_POLLING" /\ Enter("WS_CONNECTED", smExitError)
    /\ UNCHANGED <<reqVars, dpVars, processed, srvVars, appVars, histVars>>

Timeout ==
    /\ pc = "loop" /\ timed /\ expired
    /\ \/ /\ curState \in {"RECVING_HEADERS", "RECVING_DATA"}
          /\ Enter("ABORTED", "RESPTIMEOUT")
       \/ curState = "WS_POLLING" /\ Enter("WS_CONNECTED", smExitError)
    /\ UNCHANGED <<reqVars, dpVars, processed, srvVars, appVars, histVars>>

\* the clock
Tick ==
    /\ timed /\ ~expired /\ expired' = TRUE
    /\ UNCHANGED <<curState, subscribedEvent, smExitError, timed, wbVars,
                   reqVars, dpVars, pc, processed, srvVars, appVars, histVars>>

(***************************************************************************)
(* HTTP_SENDING_HEADERS                                                    *)
(***************************************************************************)
\* The server has the whole head: it answers, or waits for the data first.
\* One that has upgraded the connection takes no more requests.
HeadArrives ==
    \/ owes \in {"frames", "closed"} /\ UNCHANGED <<owes, serving>>
    \/ /\ owes \notin {"frames", "closed"}
       /\ serving' = [rid |-> requests, method |-> httpMethod]
       /\ owes' = IF httpMethod \in Bodiless \/ HeaderGet("cl") = 0 THEN "reply"
                  ELSE IF HasHeader("expect") THEN "expect" ELSE "data"

SendHeaders ==
    /\ Throws("SENDING_HEADERS", "WRITE")
    /\ \/ Enter("DISCONNECTED", "CONNECTION") /\ UNCHANGED <<owes, serving>>
       \/ \E n \in 0 .. Used :
            /\ left' = left + n
            /\ IF n = Used THEN Stay("PROCESS") /\ HeadArrives
                           ELSE Stay("WRITE") /\ UNCHANGED <<owes, serving>>
            /\ UNCHANGED workingBuffer
    /\ UNCHANGED <<reqVars, dpVars, processed, wire, msg, frames, sent, appVars, histVars>>

\* Content-Length attaches the raw ODP, Transfer-Encoding the chunked one;
\* both, neither or an unreadable length abort the request.  A length too long
\* for headerValueBuf counts as found: val is what decstr2dec makes of the
\* eleven bytes that fit, a refusal when all of them are digits.
AttachODP ==
    LET cl == HeaderGet("cl")
        te == HasHeader("te")
        Attach(odp, args) == outputDataProcessor' = odp /\ dataProcessorArgs' = args
        Continue == IF HasHeader("expect") THEN Enter("RECVING_HEADERS", smExitError)
                                           ELSE Enter("SENDING_DATA", "100")
    IN \/ /\ cl = Malformed
          /\ Attach("raw", NULL) /\ UNCHANGED ODPArgsRaw
          /\ Enter("ABORTED", "INVALIDREQHEADERS")
       \/ /\ cl >= 0
          /\ Attach("raw", "ODPArgsRaw") /\ ODPArgsRaw' = [fileSz |-> cl, done |-> 0]
          /\ IF cl = 0 THEN Enter("RECVING_HEADERS", smExitError)
             ELSE IF te THEN Enter("ABORTED", "INVALIDREQHEADERS") ELSE Continue
       \/ /\ cl = NotFound /\ te
          /\ Attach("chunked", "ODPArgsChunked") /\ UNCHANGED ODPArgsRaw
          /\ Continue
       \/ /\ cl = NotFound /\ ~te
          /\ Attach(NULL, NULL) /\ UNCHANGED ODPArgsRaw
          /\ Enter("ABORTED", "INVALIDREQHEADERS")

HeadersSent ==
    /\ Throws("SENDING_HEADERS", "PROCESS")
    /\ \/ /\ httpMethod \in Bodiless
          /\ Enter("RECVING_HEADERS", smExitError)
          /\ UNCHANGED <<outVars, dataProcessorArgs>>
       \/ httpMethod \in Uploads /\ AttachODP
    /\ UNCHANGED <<reqVars, inVars, processed, srvVars, appVars, histVars>>

(***************************************************************************)
(* HTTP_RECVING_HEADERS                                                    *)
(***************************************************************************)
\* mangoHelper_httpReponseVerify: the head is there once its blank line is
HeadEnd(s) == {j \in 1 .. Len(s) : s[j].k = "end"}
HeadLen(s) == CHOOSE j \in HeadEnd(s) : \A h \in HeadEnd(s) : j <= h
HeadValid(s) == s[1].k = "start" /\ s[HeadLen(s)].reply.status # "bad"

Receive(n) ==
    /\ workingBuffer' = workingBuffer \o Take(wire, n)
    /\ wire' = Drop(wire, n)
Readable == 1 .. MinOf(FreeSz, Len(wire))

ReadFails == Enter("DISCONNECTED", "CONNECTION") /\ UNCHANGED <<wire, httpResponseStatusCode>>
ReadNothing == Stay("READ") /\ UNCHANGED <<wbVars, wire, httpResponseStatusCode>>

\* the client gives up with the unread response in its buffer
Refuse(err) ==
    EnterSM("ABORTED", err, Infinite) /\ UNCHANGED <<left, httpResponseStatusCode>>

ReadHeaders ==
    /\ Throws("RECVING_HEADERS", "READ")
    /\ \/ ReadFails
       \/ ReadNothing
       \/ \E n \in Readable :
            LET s == workingBuffer \o Take(wire, n) IN
            /\ Receive(n)
            /\ \/ /\ HeadEnd(s) = {} /\ Len(s) < WB_TOT
                  /\ Stay("READ") /\ UNCHANGED <<left, httpResponseStatusCode>>
               \/ /\ HeadEnd(s) = {} /\ Len(s) = WB_TOT
                  /\ Refuse("WORKBUFSMALL")
               \/ /\ HeadEnd(s) # {} /\ ~HeadValid(s)
                  /\ Refuse("RESPFORMAT")
               \/ /\ HeadEnd(s) # {} /\ HeadValid(s)
                  /\ httpResponseStatusCode' = s[HeadLen(s)].reply.status
                  /\ left' = HeadLen(s)
                  /\ Stay("PROCESS")
    /\ UNCHANGED <<httpMethod, smAPICallArgs, dpVars, processed, owes, serving,
                   msg, frames, sent, appVars, histVars>>

(***************************************************************************)
(* EVENT_PROCESS: the head goes to the application, then the first rule    *)
(* that applies decides how the body is framed.                            *)
(***************************************************************************)
Parsed == workingBuffer[left].reply

Raw(n) ==
    /\ inputDataProcessor' = "raw" /\ dataProcessorArgs' = "IDPArgsRaw"
    /\ IDPArgsRaw' = [fileSz |-> n, done |-> 0]
    /\ UNCHANGED <<IDPArgsChunked, IDPArgsWebsocket>>

Chunked ==
    /\ inputDataProcessor' = "chunked" /\ dataProcessorArgs' = "IDPArgsChunked"
    /\ IDPArgsChunked' = [state |-> 1, sz |-> 0, done |-> 0]
    /\ UNCHANGED <<IDPArgsRaw, IDPArgsWebsocket>>

Upgraded ==
    /\ inputDataProcessor' = "websocket" /\ dataProcessorArgs' = "IDPArgsWebsocket"
    /\ IDPArgsWebsocket' = [IDPArgsWebsocket EXCEPT !.state = 1, !.frameID = 0]
    /\ UNCHANGED <<IDPArgsRaw, IDPArgsChunked>>

SameDP == UNCHANGED <<inVars, dataProcessorArgs>>

FrameByLength(r) ==
    \/ r.cl = TooLong /\ SameDP /\ Enter("ABORTED", "TEMPBUFSMALL")
    \/ /\ r.cl # TooLong /\ httpMethod = "HEAD"
       /\ SameDP /\ Enter("HTTP_CONNECTED", httpResponseStatusCode)
    \/ /\ r.cl = Malformed /\ httpMethod # "HEAD"
       /\ inputDataProcessor' = "raw"
       /\ UNCHANGED <<IDPArgsRaw, IDPArgsChunked, IDPArgsWebsocket, dataProcessorArgs>>
       /\ Enter("ABORTED", "RESPFORMAT")
    \/ /\ r.cl >= 0 /\ httpMethod # "HEAD"
       /\ Raw(r.cl) /\ Enter("RECVING_DATA", smExitError)

FrameByChunks(r) ==
    \/ r.te = TooLong /\ SameDP /\ Enter("ABORTED", "TEMPBUFSMALL")
    \/ /\ r.te # TooLong /\ httpMethod = "HEAD"
       /\ SameDP /\ Enter("HTTP_CONNECTED", httpResponseStatusCode)
    \/ /\ r.te # TooLong /\ httpMethod # "HEAD"
       /\ Chunked /\ Enter("RECVING_DATA", smExitError)

\* the default processor is attached before the status is looked at
FrameByStatusEager(r) ==
    LET icy == r.status = "200" /\ r.icy
        continue == r.status = "100" /\ httpMethod \in Uploads
    IN \/ icy /\ Raw(Infinite) /\ Enter("RECVING_DATA", smExitError)
       \/ r.status = "101" /\ Upgraded /\ Enter("WS_CONNECTED", "101")
       \/ continue /\ Raw(0) /\ Enter("SENDING_DATA", "100")
       \/ /\ ~icy /\ ~continue /\ r.status # "101"
          /\ Raw(0) /\ Enter("RECVING_DATA", smExitError)

FrameByStatus(r) ==
    LET icy == r.status = "200" /\ r.icy
        continue == r.status = "100" /\ httpMethod \in Uploads
    IN \/ icy /\ Raw(Infinite) /\ Enter("RECVING_DATA", smExitError)
       \/ r.status = "101" /\ Upgraded /\ Enter("WS_CONNECTED", "101")
       \/ continue /\ SameDP /\ Enter("SENDING_DATA", "100")
       \/ /\ ~icy /\ ~continue /\ r.status # "101"
          /\ Raw(0) /\ Enter("RECVING_DATA", smExitError)

ProcessResponse ==
    /\ Throws("RECVING_HEADERS", "PROCESS")
    /\ resp' = [status |-> Parsed.status, rid |-> workingBuffer[left].rid,
                want |-> IF httpMethod = "HEAD" THEN << >> ELSE Payload(Parsed.body)]
    /\ got' = << >>
    /\ \/ Parsed.cl # NotFound /\ FrameByLength(Parsed)
       \/ Parsed.cl = NotFound /\ Parsed.te # NotFound /\ FrameByChunks(Parsed)
       \/ Parsed.cl = NotFound /\ Parsed.te = NotFound /\ FrameByStatus(Parsed)
    /\ UNCHANGED <<reqVars, outVars, processed, srvVars, appVars>>

(***************************************************************************)
(* HTTP_RECVING_DATA and WS_POLLING; their EVENT_PROCESS runs the input    *)
(* processor.  New data restart the response timeout, not the poll's.      *)
(***************************************************************************)
ReadData ==
    /\ curState \in {"RECVING_DATA", "WS_POLLING"} /\ Throws(curState, "READ")
    /\ \/ ReadFails
       \/ ReadNothing
       \/ \E n \in Readable :
            /\ Receive(n)
            /\ subscribedEvent' = "PROCESS"
            /\ expired' = IF curState = "RECVING_DATA" THEN FALSE ELSE expired
            /\ UNCHANGED <<curState, smExitError, timed, pc, left, httpResponseStatusCode>>
    /\ UNCHANGED <<httpMethod, smAPICallArgs, dpVars, processed, owes, serving,
                   msg, frames, sent, appVars, histVars>>

ProcessData ==
    /\ curState \in {"RECVING_DATA", "WS_POLLING"} /\ Throws(curState, "PROCESS")
    /\ pc' = "idp"
    /\ UNCHANGED <<smVars, wbVars, reqVars, dpVars, processed, srvVars, appVars, histVars>>

(***************************************************************************)
(* HTTP_SENDING_PACKET: mangoODP_raw and mangoODP_chunked.  Neither retries*)
(* a short write.  The chunks are built in the working buffer.             *)
(***************************************************************************)
ODPDone == owes' = (IF owes = "data" THEN "reply" ELSE owes) /\ Enter("RECVING_HEADERS", smExitError)

mangoODP_raw ==
    LET n == smAPICallArgs.n IN
    /\ outputDataProcessor = "raw"
    /\ \/ n = 0 /\ ODPArgsRaw.done + n <= ODPArgsRaw.fileSz /\ ODPDone /\ UNCHANGED ODPArgsRaw
       \/ /\ ODPArgsRaw.done + n > ODPArgsRaw.fileSz
          /\ Enter("ABORTED", "CONTENTLENGTH") /\ UNCHANGED <<ODPArgsRaw, owes>>
       \/ /\ n > 0 /\ ODPArgsRaw.done + n <= ODPArgsRaw.fileSz
          /\ \/ /\ ODPArgsRaw' = [ODPArgsRaw EXCEPT !.done = @ + n]
                /\ Enter("SENDING_DATA", smExitError)
             \/ Enter("ABORTED", "WRITETIMEOUT") /\ UNCHANGED ODPArgsRaw
          /\ UNCHANGED owes

mangoODP_chunked ==
    LET n == smAPICallArgs.n
        fits == IF n = 0 THEN LastChunkSz <= WB_TOT ELSE ChunkOverhead < WB_TOT
    IN
    /\ outputDataProcessor = "chunked"
    /\ UNCHANGED ODPArgsRaw
    /\ \/ fits /\ n = 0 /\ ODPDone
       \/ fits /\ n > 0 /\ Enter("SENDING_DATA", smExitError) /\ UNCHANGED owes
       \/ fits /\ Enter("ABORTED", "WRITETIMEOUT") /\ UNCHANGED owes
       \/ ~fits /\ Enter("ABORTED", "WORKBUFSMALL") /\ UNCHANGED owes

SendPacket ==
    /\ Throws("SENDING_PACKET", "WRITE")
    /\ mangoODP_raw \/ mangoODP_chunked
    /\ UNCHANGED <<reqVars, inVars, outputDataProcessor, dataProcessorArgs,
                   processed, wire, serving, msg, frames, sent, appVars, histVars>>

(***************************************************************************)
(* WS_SENDING_FRAME and WS_CLOSING: mangoWS_frameSend succeeds or fails.   *)
(***************************************************************************)
SendFrame ==
    /\ \/ /\ Throws("WS_SENDING_FRAME", "WRITE")
          /\ Enter("WS_CONNECTED", smExitError) \/ Enter("ABORTED", smExitError)
       \/ /\ Throws("WS_CLOSING", "WRITE")
          /\ Enter("DISCONNECTED", smExitError) \/ Enter("ABORTED", smExitError)
    /\ UNCHANGED <<reqVars, dpVars, processed, srvVars, appVars, histVars>>

(***************************************************************************)
(* The server.  It answers every request once, after an interim 100 when   *)
(* the request expects one (or, with Interims, unasked).                   *)
(***************************************************************************)
Answer(r) ==
    wire' = wire \o <<[k |-> "start"], [k |-> "end", reply |-> r, rid |-> serving.rid]>>
                 \o IF serving.method = "HEAD" THEN << >> ELSE r.body

ServerReply ==
    /\ owes \in {"reply", "expect"}
    /\ \E r \in Replies :
         /\ r.status # "100" /\ Answer(r)
         /\ owes' = IF r.status = "101" THEN "frames" ELSE "nothing"
    /\ UNCHANGED <<smVars, wbVars, reqVars, dpVars, pc, processed, serving, msg,
                   frames, sent, appVars, histVars>>

ServerContinue ==
    /\ \/ owes = "expect" /\ owes' = "data" /\ UNCHANGED frames
       \/ /\ Interims /\ owes \in {"reply", "data"} /\ frames < MaxFrames
          /\ frames' = frames + 1 /\ UNCHANGED owes
    /\ \E r \in Replies : r.status = "100" /\ Answer(r)
    /\ UNCHANGED <<smVars, wbVars, reqVars, dpVars, pc, processed, serving, msg,
                   sent, appVars, histVars>>

\* A message is one frame, or several of which the last has fin; control
\* frames may come in between.
ServerFrame ==
    /\ owes = "frames" /\ frames < MaxFrames
    /\ frames' = frames + 1
    /\ \E f \in Frames :
         LET control == f.op \in Control
             size == CASE f.form = "short" -> << >>
                       [] f.form = "ext" -> <<[k |-> "fx", n |-> f.n]>>
                       [] f.form = "huge" -> <<[k |-> "fx", n |-> Infinite]>>
             payload == [j \in 1 .. f.n |-> [k |-> "data", v |-> msg.no]]
         IN /\ control \/ f.op = (IF msg.open THEN "cont" ELSE "text")
            /\ wire' = wire \o <<[k |-> "f1", op |-> f.op, fin |-> f.fin],
                                 [k |-> "f2", mask |-> f.mask,
                                  n |-> IF f.form = "short" THEN f.n ELSE -1]>>
                            \o size \o payload
            /\ sent' = IF control THEN sent ELSE sent \o payload
            /\ msg' = IF control THEN msg
                      ELSE IF f.fin THEN [no |-> msg.no + 1, open |-> FALSE]
                      ELSE [msg EXCEPT !.open = TRUE]
            /\ owes' = IF f.op = "close" THEN "closed" ELSE owes
    /\ UNCHANGED <<smVars, wbVars, reqVars, dpVars, pc, processed, serving,
                   appVars, histVars>>

(***************************************************************************)
(* The specification.                                                      *)
(***************************************************************************)
Handlers ==
    \/ Timeout \/ SendHeaders \/ HeadersSent \/ ReadHeaders \/ ProcessResponse
    \/ ReadData \/ ProcessData \/ SendPacket \/ SendFrame

Client == Handlers \/ InputProcessors

Application ==
    \/ mango_httpRequestNew \/ mango_httpHeaderSet \/ mango_httpRequestProcess
    \/ mango_httpDataSend \/ mango_wsPoll \/ mango_wsFrameSend \/ mango_wsClose

Server == ServerReply \/ ServerContinue \/ ServerFrame

Next == Client \/ Application \/ Server \/ Tick

Spec == Init /\ [][Next]_vars

\* A call that has been made runs on, and time passes: the server says a
\* bounded number of things, so the timeout is restarted only so often.
FairSpec == Spec /\ WF_vars(Client) /\ WF_vars(Tick)

(***************************************************************************)
(* Properties.                                                             *)
(***************************************************************************)
ExitCodes == Status \cup {"OK", "CONNECTION", "ABORTED", "APICALLNOTSUPPORTED",
    "INVALIDREQHEADERS", "RESPTIMEOUT", "RESPFORMAT", "DATAPROCESSING",
    "WORKBUFSMALL", "CONTENTLENGTH", "WRITETIMEOUT", "TEMPBUFSMALL",
    "APPABORTED", "WEBSOCKETCLOSED"}

CallNames == {NULL, "httpRequestProcess", "httpDataSend", "wsPoll",
              "wsFrameSend", "wsClose"}

ControlOK ==
    /\ curState \in CStates /\ smExitError \in ExitCodes
    /\ subscribedEvent \in {"NONE", "READ", "WRITE", "PROCESS"}
    /\ timed \in BOOLEAN /\ expired \in BOOLEAN
    /\ pc \in {"app", "loop", "idp"}

RequestOK ==
    /\ httpMethod \in Methods \cup {NULL}
    /\ httpResponseStatusCode \in Status \cup {NULL}
    /\ smAPICallArgs \in [name : CallNames, n : Nat]

BufferOK ==
    /\ workingBuffer \in Seq(Token) /\ left \in 0 .. Len(workingBuffer)
    /\ processed \in 0 .. Len(workingBuffer)

WebsocketArgs == [state : {1, 2}, sz : Nat, done : Nat, op : Opcodes,
                  fin : BOOLEAN, frameID : 0 .. UINT8 - 1]

ArgsOK ==
    /\ inputDataProcessor \in {NULL, "raw", "chunked", "websocket"}
    /\ outputDataProcessor \in {NULL, "raw", "chunked"}
    /\ IDPArgsRaw \in [fileSz : Nat, done : Nat]
    /\ IDPArgsChunked \in [state : 1 .. 4, sz : Nat, done : Nat]
    /\ IDPArgsWebsocket \in WebsocketArgs
    /\ ODPArgsRaw \in [fileSz : Nat, done : Nat]

ServerOK ==
    /\ wire \in Seq(Token)
    /\ serving \in [rid : Nat, method : Methods \cup {NULL}]
    /\ msg \in [no : Nat, open : BOOLEAN]
    /\ requests \in Nat

\* Every field has its type, and a running input processor never counts more
\* than the working buffer holds.
TypeOK == ControlOK /\ RequestOK /\ BufferOK /\ ArgsOK /\ ServerOK

\* The events each handler has a case for.
Handled(s) ==
    CASE s = "SENDING_HEADERS" -> {"WRITE", "PROCESS"}
      [] s \in {"RECVING_HEADERS", "RECVING_DATA", "WS_POLLING"} -> {"READ", "PROCESS"}
      [] s \in {"SENDING_PACKET", "WS_SENDING_FRAME", "WS_CLOSING"} -> {"WRITE"}
      [] OTHER -> {}

\* No MANGO_ENSURE ever fails (it would hang the program): mangoSM_PROCESS
\* returns only in a state that takes API calls and never throws an event the
\* current state has no case for; the indices stay inside the working buffer;
\* the chunked processor has data to expect in state 2; and no read is asked
\* for without room in the buffer, where recv's 0 would look like a timeout.
EnsuresHold ==
    /\ pc = "app" => curState \in Idle /\ subscribedEvent = "NONE" /\ ~timed
    /\ pc # "app" => subscribedEvent \in Handled(curState)
    /\ timed => curState \in {"RECVING_HEADERS", "RECVING_DATA", "WS_POLLING"}
    /\ left <= Len(workingBuffer) /\ Len(workingBuffer) <= WB_TOT
    /\ curState = "SENDING_HEADERS" => Len(workingBuffer) > 0
    /\ inputDataProcessor = "chunked" /\ IDPArgsChunked.state = 2
         => IDPArgsChunked.done < IDPArgsChunked.sz
    /\ subscribedEvent = "READ" => FreeSz > 0

\* dataProcessorArgs is one untyped pointer for both directions: whenever a
\* processor can be called it points to that processor's own arguments.
ArgsMatch ==
    /\ curState \in {"SENDING_DATA", "SENDING_PACKET"} =>
         <<outputDataProcessor, dataProcessorArgs>> \in
            {<<"raw", "ODPArgsRaw">>, <<"chunked", "ODPArgsChunked">>}
    /\ curState = "RECVING_DATA" =>
         <<inputDataProcessor, dataProcessorArgs>> \in
            {<<"raw", "IDPArgsRaw">>, <<"chunked", "IDPArgsChunked">>}
    /\ curState \in {"WS_CONNECTED", "WS_POLLING", "WS_SENDING_FRAME", "WS_CLOSING"} =>
         <<inputDataProcessor, dataProcessorArgs>> = <<"websocket", "IDPArgsWebsocket">>

(***************************************************************************)
(* The strengthenings that make EnsuresHold and ArgsMatch inductive.       *)
(***************************************************************************)
\* where mangoSM_PROCESS is and what it will throw
FlowInv ==
    /\ pc = "app" => curState \in Idle /\ subscribedEvent = "NONE" /\ ~timed
    /\ pc # "app" => subscribedEvent \in Handled(curState)
    /\ timed => curState \in {"RECVING_HEADERS", "RECVING_DATA", "WS_POLLING"}
    /\ pc = "idp" => curState \in {"RECVING_DATA", "WS_POLLING"}
                     /\ subscribedEvent = "PROCESS"

\* a parsed head has left its status behind
StatusInv ==
    curState = "RECVING_DATA"
    \/ (curState = "RECVING_HEADERS" /\ subscribedEvent = "PROCESS")
      => httpResponseStatusCode \in Status

\* the indices of the working buffer
BufferInv ==
    /\ Len(workingBuffer) <= WB_TOT
    /\ left + processed <= Len(workingBuffer)
    /\ pc # "idp" => processed = 0
    /\ curState = "SENDING_HEADERS" => Len(workingBuffer) > 0
    /\ subscribedEvent = "READ" => FreeSz > 0
    /\ curState = "RECVING_HEADERS" /\ subscribedEvent = "PROCESS" =>
         left > 0 /\ workingBuffer[left].k = "end"

\* how far a chunk or a frame has been passed on
PieceInv ==
    /\ IDPArgsChunked.state = 2 => IDPArgsChunked.done < IDPArgsChunked.sz
    /\ IDPArgsWebsocket.state = 2 =>
         /\ IDPArgsWebsocket.done <= IDPArgsWebsocket.sz
         /\ IDPArgsWebsocket.sz <= WB_TOT => IDPArgsWebsocket.done = 0

\* a response to an upload may be a 100 that goes back to sending data: until
\* another one is parsed the pointer stays the output processor's
PointerInv ==
    /\ ArgsMatch
    /\ curState = "RECVING_HEADERS" /\ httpMethod \in Uploads =>
         <<outputDataProcessor, dataProcessorArgs>> \in
            {<<"raw", "ODPArgsRaw">>, <<"chunked", "ODPArgsChunked">>}

IndInv ==
    TypeOK /\ FlowInv /\ StatusInv /\ BufferInv /\ PieceInv /\ PointerInv

(***************************************************************************)
(* A server that keeps to HTTP: it answers what it is asked, and its       *)
(* bodies are framed the way their heads say.  "bad" stands where a size   *)
(* or a CRLF should: the client refuses it.                                *)
(***************************************************************************)
AllData(b) == \A j \in 1 .. Len(b) : b[j].k = "data"

SizeAt(b, p) == p <= Len(b) /\ b[p].k \in {"size", "bad"}

\* the blank line of a trailer that starts at p is the end of the body
TrailerAt(b, p) ==
    /\ p <= Len(b) /\ b[p].k \in {"cr", "text", "bad"}
    /\ \A e \in p .. Len(b) : b[e].k # "data"
    /\ \A e \in p + 1 .. Len(b) - 1 :
         ~(b[e].k = "lf" /\ b[e - 1].k = "cr" /\ (e = p + 1 \/ b[e - 2].k = "lf"))

ChunkAt(b, p, n) ==
    LET e == p + n + 2 IN
    /\ e <= Len(b)
    /\ \A j \in p + 2 .. e - 1 : b[j].k = "data"
    /\ \/ b[e].k = "bad"
       \/ b[e].k = "cr" /\ e < Len(b) /\ b[e + 1].k = "lf" /\ SizeAt(b, e + 2)

ChunkedBody(b) ==
    /\ SizeAt(b, 1)
    /\ \A p \in 1 .. Len(b) : b[p].k = "size" =>
         /\ p < Len(b) /\ b[p + 1].k = "nl"
         /\ IF b[p].n > 0 THEN ChunkAt(b, p, b[p].n) ELSE TrailerAt(b, p + 2)

\* a body with a length may fall short of it: the client waits
Proper(r) ==
    /\ r.status \in {"100", "101"} => r.cl = NotFound /\ r.te = NotFound
    /\ r.cl >= 0 => AllData(r.body) /\ Len(r.body) <= r.cl
    /\ r.cl = NotFound /\ r.te = Present => ChunkedBody(r.body)
    /\ r.cl = NotFound /\ r.te = NotFound =>
         IF r.status = "200" /\ r.icy THEN AllData(r.body) /\ Len(r.body) <= Infinite
         ELSE r.body = << >>

WellBehaved == ~Interims /\ \A r \in Replies : Proper(r)

\* However the stream is cut into reads, a processor resumes where it stopped:
\* what it looks at next is what its state says it is, unless the server sent
\* something that fits no rule.
InStep ==
    (pc = "idp" /\ Rest # << >> /\ Rest[1].k # "bad") =>
      /\ inputDataProcessor = "raw" /\ IDPArgsRaw.fileSz > 0 =>
           \A j \in 1 .. Len(Rest) : Rest[j].k = "data"
      /\ inputDataProcessor = "chunked" =>
           CASE IDPArgsChunked.state = 1 -> Rest[1].k = "size"
             [] IDPArgsChunked.state = 2 -> Rest[1].k = "data"
             [] IDPArgsChunked.state = 3 -> Rest[1].k = "cr"
             [] IDPArgsChunked.state = 4 -> Rest[1].k \in {"cr", "text"}
      /\ inputDataProcessor = "websocket" =>
           CASE IDPArgsWebsocket.state = 1 -> Rest[1].k = "f1"
             [] IDPArgsWebsocket.state = 2 ->
                  Rest[1].k = IF IDPArgsWebsocket.sz > 0 THEN "data" ELSE "f1"

Final == {"200", "204", "304", "404"}

\* When a call returns a final status, the application has got exactly the
\* body the server sent with it, once and in order, and the response is the
\* one to this request: the late answer of an earlier request that timed out
\* is never taken for it.
AnswerComplete ==
    pc = "app" /\ smExitError \in Final =>
      /\ curState = "HTTP_CONNECTED"
      /\ got = resp.want /\ resp.rid = serving.rid

\* Websocket data reach the application in the order sent, nothing lost or
\* repeated, and every piece carries the frame ID of its message, however the
\* message is fragmented and whatever control frames come in between.
MessagesInOrder ==
    inputDataProcessor = "websocket" =>
      /\ Len(got) <= Len(sent)
      /\ \A j \in 1 .. Len(got) :
           got[j].v = sent[j] /\ got[j].id = got[j].v.v % UINT8

\* A call that waits with a timeout returns once the server stops sending,
\* wherever in a head or a body that is: no state goes on reading what will
\* not come.  (New data restart the timeout of HTTP_RECVING_DATA, so a server
\* that never stops keeps the call: nothing in the code bounds that, and the
\* server of this model sends finitely much.)
WaitsEnd == (pc # "app" /\ timed) ~> pc = "app"

=============================================================================
