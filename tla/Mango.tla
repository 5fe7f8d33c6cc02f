------------------------------- MODULE Mango -------------------------------
(***************************************************************************)
(* The state of one mango HTTP/WebSocket client (components/mango) and the *)
(* two things every handler of its state machine is built from: entering a *)
(* state (mangoSM_ENTER and the loop of mangoSM_THROW) and the working     *)
(* buffer (WB) with its left and right index.                              *)
(*                                                                         *)
(* Bytes are abstracted to tokens, one per syntactic unit the client tells *)
(* apart (a status line, the end of a head, a chunk size, a byte of data,  *)
(* half a frame header); a token takes one place of the WB, so that a read *)
(* may still stop between any two of them.                                 *)
(***************************************************************************)
EXTENDS Integers, Sequences

CONSTANTS
    WB_TOT,         \* MANGO_WB_TOT_SZ: tokens the working buffer holds
    ChunkOverhead,  \* extraChunkSz: tokens of a chunk that are no data
    LastChunkSz,    \* tokens of the chunk that ends an upload
    Methods,        \* the methods the application uses
    LineSizes,      \* tokens of the request line (URI included)
    ReqHeaders,     \* the headers the application may add to a request
    DataSizes,      \* buffer lengths passed to mango_httpDataSend
    PollTimeouts,   \* timeouts passed to mango_wsPoll
    Replies,        \* the responses the server gives
    Frames,         \* the frames the server sends once upgraded
    Interims,       \* TRUE: the server may send 100 to any request
    MaxRequests,    \* bound: requests the application builds
    MaxCalls,       \* bound: calls that reach the state machine
    MaxFrames       \* bound: frames the server sends

NotFound == -1      \* mangoHelper_httpHeaderGet < 0
Malformed == -2     \* a value mangoHelper_decstr2dec refuses
TooLong == -3       \* a value that does not fit headerValueBuf
Present == 0        \* a value the client does not look at
Infinite == 1000    \* MANGO_FILE_SZ_INFINITE, MANGO_TIMEOUT_INFINITE

Bodiless == {"GET", "HEAD"}
Uploads == {"POST", "PUT"}

(***************************************************************************)
(* What the server may say.  A reply is its status and the headers the     *)
(* client looks at, followed by the tokens of its body; "bad" stands for a *)
(* status line, or for bytes of a body, that fit no rule.                  *)
(***************************************************************************)
Mark == [k : {"start", "text", "nl", "cr", "lf", "bad"}]
Data == [k : {"data"}, v : Nat]
Size == [k : {"size"}, n : Nat]
Body == Mark \cup Data \cup Size
Status == {"100", "101", "200", "204", "304", "404", "bad"}
Reply == [status : Status, cl : Int, te : {NotFound, Present, TooLong},
          icy : BOOLEAN, body : Seq(Body)]
Opcodes == {"text", "cont", "close", "ping", "pong"}
Control == {"close", "ping", "pong"}
Frame == [op : Opcodes, fin : BOOLEAN, mask : BOOLEAN, n : Nat,
          form : {"short", "ext", "huge"}]

ASSUME MangoAssumption ==
    /\ WB_TOT \in Nat \ {0}
    /\ ChunkOverhead \in Nat /\ LastChunkSz \in Nat
    /\ Methods \subseteq Bodiless \cup Uploads \cup {"POST_CHUNKED"}
    /\ LineSizes \subseteq Nat \ {0}
    /\ DataSizes \subseteq Nat
    /\ PollTimeouts \subseteq Nat
    /\ ReqHeaders \subseteq [name : {"cl", "te", "expect"}, val : Int]
    /\ Replies \subseteq Reply
    /\ Frames \subseteq Frame
    /\ Interims \in BOOLEAN
    /\ MaxRequests \in Nat /\ MaxCalls \in Nat /\ MaxFrames \in Nat

HeadToken == [k : {"end"}, reply : Replies, rid : Nat]
FrameToken == [k : {"f1"}, op : Opcodes, fin : BOOLEAN]
              \cup [k : {"f2"}, n : Int, mask : BOOLEAN]
              \cup [k : {"fx"}, n : Nat]
ReqToken == [k : {"line"}]
            \cup [k : {"hdr"}, name : {"cl", "te", "expect"}, val : Int]
Token == Body \cup HeadToken \cup FrameToken \cup ReqToken

CStates == {"ABORTED", "DISCONNECTED", "HTTP_CONNECTED", "SENDING_HEADERS",
            "RECVING_HEADERS", "RECVING_DATA", "SENDING_DATA",
            "SENDING_PACKET", "WS_CONNECTED", "WS_POLLING",
            "WS_SENDING_FRAME", "WS_CLOSING"}
\* the states whose ENTRY subscribes to nothing: mangoSM_PROCESS returns
Idle == {"ABORTED", "DISCONNECTED", "HTTP_CONNECTED", "SENDING_DATA",
         "WS_CONNECTED"}

VARIABLES
    \* mangoHttpClient_t
    curState, subscribedEvent, smExitError,
    timed,                  \* smTimeout # MANGO_TIMEOUT_INFINITE
    expired,                \* elapsedTime >= smTimeout
    workingBuffer,          \* the tokens of [0, workingBufferIndexRight)
    left,                   \* workingBufferIndexLeft
    httpMethod, httpResponseStatusCode,
    smAPICallArgs,          \* the call in progress and its argument
    inputDataProcessor, outputDataProcessor, dataProcessorArgs,
    IDPArgsRaw, IDPArgsChunked, IDPArgsWebsocket, ODPArgsRaw,
    \* control
    pc,                     \* "app", "loop" (mangoSM_PROCESS) or "idp"
    processed,              \* tokens the running input processor consumed
    \* the server and the connection
    wire,                   \* tokens sent by the server and not yet read
    owes,                   \* what the server does next
    serving,                \* the request it has: [rid, method]
    msg,                    \* the websocket message it sends: [no, open]
    requests, calls, frames,
    \* history
    resp,                   \* the reply last handed to the application
    got,                    \* the data handed to it since
    sent                    \* the websocket payload the server sent

smVars == <<curState, subscribedEvent, smExitError, timed, expired>>
wbVars == <<workingBuffer, left>>
reqVars == <<httpMethod, httpResponseStatusCode, smAPICallArgs>>
inVars == <<inputDataProcessor, IDPArgsRaw, IDPArgsChunked, IDPArgsWebsocket>>
outVars == <<outputDataProcessor, ODPArgsRaw>>
dpVars == <<inVars, outVars, dataProcessorArgs>>
srvVars == <<wire, owes, serving, msg, frames, sent>>
appVars == <<requests, calls>>
histVars == <<resp, got>>
vars == <<smVars, wbVars, reqVars, dpVars, pc, processed, srvVars, appVars,
          histVars>>

NULL == "NULL"
NoReply == [status |-> "none", rid |-> 0, want |-> << >>]
NoCall == [name |-> NULL, n |-> 0]

Used == Len(workingBuffer) - left               \* MANGO_WB_USED_SZ
\* no place is kept for the terminating NUL
FreeSzNoNul == WB_TOT + 1 - Len(workingBuffer)
FreeSz == WB_TOT - Len(workingBuffer)           \* MANGO_WB_FREE_SZ
Drop(s, n) == SubSeq(s, n + 1, Len(s))
Take(s, n) == SubSeq(s, 1, n)
\* the data among the tokens
Payload(s) ==
    LET data[i \in 0 .. Len(s)] ==
          IF i = 0 THEN << >>
          ELSE IF s[i].k = "data" THEN Append(data[i - 1], s[i]) ELSE data[i - 1]
    IN  data[Len(s)]

(***************************************************************************)
(* The ENTRY handlers.  THROW resets the subscription and the timeout      *)
(* before each of them.                                                    *)
(***************************************************************************)
\* the subscription of the old state survives
EntryEventStale(s) ==
    CASE s \in {"SENDING_HEADERS", "SENDING_PACKET", "WS_SENDING_FRAME",
                "WS_CLOSING"} -> "WRITE"
      [] s = "RECVING_HEADERS" -> "READ"
      [] s \in {"RECVING_DATA", "WS_POLLING"} -> "PROCESS"
      [] OTHER -> subscribedEvent

EntryEvent(s) ==
    CASE s \in {"SENDING_HEADERS", "SENDING_PACKET", "WS_SENDING_FRAME",
                "WS_CLOSING"} -> "WRITE"
      [] s = "RECVING_HEADERS" -> "READ"
      [] s \in {"RECVING_DATA", "WS_POLLING"} -> "PROCESS"
      [] OTHER -> "NONE"

\* the timeout in force after the ENTRY; only WS_POLLING's is the caller's
EntryTimeout(s) == IF s \in {"RECVING_HEADERS", "RECVING_DATA"} THEN 1 ELSE Infinite

\* mangoWB_shrink: what is left of the used range moves to the front
Shrink(n) == workingBuffer' = Drop(workingBuffer, n) /\ left' = 0

EntryWB(s) ==
    CASE s \in {"HTTP_CONNECTED", "RECVING_HEADERS", "SENDING_DATA"} ->
            workingBuffer' = << >> /\ left' = 0
      [] s \in {"RECVING_DATA", "WS_CONNECTED"} -> Shrink(left)
      [] OTHER -> UNCHANGED wbVars

(***************************************************************************)
(* mangoSM_EXITERR(err) and mangoSM_ENTER(s): the state changes, its ENTRY *)
(* runs, and mangoSM_PROCESS goes on or, with nothing subscribed, returns. *)
(* WS_POLLING's ENTRY falls through to PROCESS and runs the data processor *)
(* before mangoSM_PROCESS looks at the timeout.                            *)
(***************************************************************************)
EnterSM(s, err, timeout) ==
    /\ curState' = s
    /\ subscribedEvent' = EntryEvent(s)
    /\ timed' = (timeout # Infinite)
    /\ expired' = (timeout = 0)
    /\ smExitError' = err
    /\ pc' = IF EntryEvent(s) = "NONE" THEN "app"
             ELSE IF s = "WS_POLLING" THEN "idp" ELSE "loop"

EnterFor(s, err, timeout) == EnterSM(s, err, timeout) /\ EntryWB(s)
Enter(s, err) == EnterFor(s, err, EntryTimeout(s))

=============================================================================
