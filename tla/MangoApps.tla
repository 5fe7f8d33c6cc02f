----------------------------- MODULE MangoApps -----------------------------
(***************************************************************************)
(* The programs of apps/sample_fcmd/mango_httpc_test on top of the port    *)
(* layer: each connects, builds a request, has it processed, uploads a     *)
(* file or exchanges frames, and disconnects, leaving by the same door     *)
(* whatever fails.  "sslmem" is sslget_test with certificates loaded by    *)
(* sslcert_load in place of certificate files.                             *)
(*                                                                         *)
(* The state machine between the calls and the socket is MangoSM; here a   *)
(* call is the port calls it makes: a request is written, its response is  *)
(* read, and what is read first is the whole head.                         *)
(***************************************************************************)
EXTENDS MangoPort

CONSTANTS Programs, WBSizes, LineLen, Creds, FileSz, BufSz, Payloads, Sizes,
          MaxRounds, MaxTries

ASSUME PayloadAssumption == Payloads \subseteq Nat
ASSUME AppsAssumption ==
    /\ Programs \subseteq {"get", "sslget", "sslmem", "basicAuth", "persistent", "shoutcast",
                           "post", "chunkedPost", "websockets"}
    /\ WBSizes \subseteq Nat /\ LineLen \in Nat \ {0}
    /\ Creds \subseteq [user : Seq(0 .. 255), pass : Seq(0 .. 255)]
    /\ FileSz \in 0 .. Word - 1 /\ BufSz \in Nat \ {0} /\ Sizes \subseteq Nat

VARIABLES prog, pc,
          wb,       \* MANGO_WB_TOT_SZ
          head,     \* the request in the working buffer
          given,    \* the headers mango accepted
          round,    \* requests or exchanges of a program that loops
          tries,    \* writes of one message so far
          left,     \* bytes of it still to write
          upload,   \* [sent |-> by the program, part |-> of this call, got |-> by the server]
          size,     \* a size the server announced, and what mango took it for
          frame,    \* the frame sent last, as the program meant it
          aborted,  \* the connection is in mangoSM__ABORTED
          seen,     \* the frame the server decoded last
          torn      \* whether one was cut short

appVars == <<prog, wb>>
headVars == <<head, given>>
vars == <<resVars, portVars, prog, pc, wb, head, given, round, tries, left, upload,
          size, frame, aborted, seen, torn>>

(***************************************************************************)
(* Requests.                                                               *)
(***************************************************************************)
CRLF == [k |-> "crlf", name |-> << >>, val |-> << >>]
Line == [k |-> "line", name |-> << >>, val |-> << >>]
Hdr(h) == [k |-> "hdr", name |-> h.name, val |-> h.val]

PieceLen(p) == CASE p.k = "crlf" -> 2
                 [] p.k = "line" -> LineLen
                 [] p.k = "hdr" -> Len(p.name) + 2 + Len(p.val)
                 [] p.k = "auth" -> Len(p.name) + 8 + Len(p.val)
Size(h) == LET n[i \in 0 .. Len(h)] == IF i = 0 THEN 0 ELSE n[i - 1] + PieceLen(h[i])
           IN n[Len(h)]

\* header names, spelled as far as one starts like another
HOST == <<1>>
CONNECTION == <<2>>
CONTENT_LENGTH == <<3, 4>>
TRANSFER_ENCODING == <<5>>
EXPECT == <<6>>
AUTHORIZATION == <<7>>
UPGRADE == <<8>>
WEB_SOCKET(i) == <<9, i>>

Short(n) == [name |-> n, val |-> <<Other>>]

(***************************************************************************)
(* The programs: whether the connection is secure, whether credentials are *)
(* set, which headers follow and whether the request is made again.        *)
(***************************************************************************)
httpGet == <<Short(HOST), Short(CONNECTION)>>
httpPost(chunked) ==
    httpGet \o <<IF chunked THEN Short(TRANSFER_ENCODING)
               ELSE [name |-> CONTENT_LENGTH, val |-> mangoHelper_dec2decstr(FileSz)],
               Short(EXPECT)>>
testWebsocket == <<Short(HOST), Short(WEB_SOCKET(1)), Short(WEB_SOCKET(2)),
                   Short(CONNECTION), Short(WEB_SOCKET(3)), Short(WEB_SOCKET(4)),
                   Short(UPGRADE)>>

get_test == [secure |-> FALSE, auth |-> FALSE, headers |-> httpGet, loops |-> FALSE]
sslget_test == [get_test EXCEPT !.secure = TRUE]
basicAuth_test == [get_test EXCEPT !.auth = TRUE]
persistent_test == [get_test EXCEPT !.loops = TRUE]
shoutcast_test == get_test
post_test(chunked) == [get_test EXCEPT !.headers = httpPost(chunked)]
websockets_test == [get_test EXCEPT !.headers = testWebsocket]

Script == CASE prog = "get" -> get_test
            [] prog \in {"sslget", "sslmem"} -> sslget_test
            [] prog = "basicAuth" -> basicAuth_test
            [] prog = "persistent" -> persistent_test
            [] prog = "shoutcast" -> shoutcast_test
            [] prog = "post" -> post_test(FALSE)
            [] prog = "chunkedPost" -> post_test(TRUE)
            [] prog = "websockets" -> websockets_test

TmpBuf == 32

\* the blank line's CRLF is taken back, the header and a new blank line follow
Kept == SubSeq(head, 1, Len(head) - 1)

\* mutant: the error path does not put the blank line back
HeaderSetTorn(p, ok) ==
    LET new == Kept \o <<p, CRLF, CRLF>>
    IN IF ok /\ Size(new) <= wb THEN new ELSE Kept

\* a header that does not fit leaves the request as it was
HeaderSet(p, ok) ==
    LET new == Kept \o <<p, CRLF, CRLF>>
    IN IF ok /\ Size(new) <= wb THEN new ELSE Append(Kept, CRLF)

Auth(c) ==
    LET plain == c.user \o <<58>> \o c.pass
        code == mangoCrypto_base64Encode(plain, wb - Size(Kept) - Len(AUTHORIZATION) - 8)
    IN [ok |-> Len(plain) + 1 <= TmpBuf /\ code # << >>,
        piece |-> [k |-> "auth", name |-> AUTHORIZATION, val |-> code]]

(***************************************************************************)
(* Starting and ending a program.                                          *)
(***************************************************************************)
NoUpload == [sent |-> 0, part |-> 0, got |-> 0]
NoSize == [meant |-> 0, read |-> 0, clear |-> TRUE]
NoFrame == [type |-> 0, len |-> 0, ok |-> TRUE]

Init ==
    /\ held = {} /\ misuse = FALSE /\ certs = NoCerts /\ moved = FALSE
    /\ now = 0 /\ call = Idle /\ ret = NoRet /\ peer = Connected
    /\ prog \in Programs /\ wb \in WBSizes
    /\ pc = IF prog = "sslmem" THEN "load" ELSE "connect"
    /\ head = << >> /\ given = << >> /\ round = 0 /\ tries = 0 /\ left = 0
    /\ upload = NoUpload /\ size = NoSize /\ frame = NoFrame /\ aborted = FALSE
    /\ seen = NoFrame /\ torn = "no"

msgVars == <<tries, left, upload, size, frame, aborted, seen, torn>>

Load ==
    /\ pc = "load"
    /\ \E files \in SUBSET {"cacrt", "cert", "key"} : sslcert_load(files)
    /\ pc' = IF certs' = NoCerts THEN "end" ELSE "connect"
    /\ UNCHANGED <<moved, portVars, appVars, headVars, round, msgVars>>

\* certificates are given back only where the pointer to them still stands
Unload ==
    /\ pc = "unload"
    /\ \/ certs # NoCerts /\ ~moved /\ sslcert_free
       \/ (certs = NoCerts \/ moved) /\ UNCHANGED <<held, misuse, certs>>
    /\ pc' = "end"
    /\ UNCHANGED <<moved, portVars, appVars, headVars, round, msgVars>>

Connect ==
    /\ pc = "connect"
    /\ \/ /\ IF Script.secure THEN SslConnects ELSE Connects
          /\ pc' = "new"
       \/ /\ IF Script.secure THEN SslConnectFails ELSE ConnectFails
          /\ pc' = "unload"
    /\ UNCHANGED <<certs, portVars, appVars, headVars, round, msgVars>>

\* every failure of a program ends here
Disconnect ==
    /\ pc = "disconnect" /\ call = Idle
    /\ IF Script.secure THEN mango_ssldisconnect ELSE mango_disconnect
    /\ pc' = "unload"
    /\ UNCHANGED <<certs, moved, portVars, appVars, headVars, round, msgVars>>

(***************************************************************************)
(* Building the request: httpGet, httpPost, httpHead, testWebsocket.       *)
(***************************************************************************)
RequestNew ==
    /\ pc = "new" /\ round < MaxRounds
    /\ IF LineLen + 4 <= wb
       THEN head' = <<Line, CRLF, CRLF>> /\ pc' = IF Script.auth THEN "auth" ELSE "headers"
       ELSE head' = << >> /\ pc' = "disconnect"
    /\ given' = << >>
    /\ UNCHANGED <<resVars, portVars, appVars, round, msgVars>>

AuthSet ==
    /\ pc = "auth"
    /\ \E c \in Creds :
         LET a == Auth(c)
             ok == a.ok /\ Size(Kept \o <<a.piece, CRLF, CRLF>>) <= wb
         IN /\ head' = HeaderSet(a.piece, a.ok)
            /\ given' = IF ok THEN <<[name |-> AUTHORIZATION,
                                      val |-> c.user \o <<58>> \o c.pass]>> ELSE << >>
            /\ pc' = IF ok THEN "headers" ELSE "disconnect"
    /\ UNCHANGED <<resVars, portVars, appVars, round, msgVars>>

\* the headers already set, without the one httpAuthSet added
Done == IF Script.auth THEN Len(given) - 1 ELSE Len(given)

SetHeader ==
    /\ pc = "headers" /\ Done < Len(Script.headers)
    /\ LET h == Script.headers[Done + 1]
           ok == Size(Kept \o <<Hdr(h), CRLF, CRLF>>) <= wb
       IN /\ head' = HeaderSet(Hdr(h), TRUE)
          /\ given' = IF ok THEN Append(given, h) ELSE given
          /\ pc' = IF ok THEN pc ELSE "disconnect"
    /\ UNCHANGED <<resVars, portVars, appVars, round, msgVars>>

(***************************************************************************)
(* Messages: BeginWrite hands n bytes to mangoPort_write.  A peer that has *)
(* taken a message in pieces MaxTries times takes the rest at once.        *)
(***************************************************************************)
BeginWrite(n) == Begin("write", n, IF tries < MaxTries THEN 0 ELSE MaxParts)
BeginRead == Begin("read", ReadLen, 0)

Process ==
    /\ pc = "headers" /\ Done = Len(Script.headers)
    /\ left' = Size(head) /\ tries' = 0
    /\ BeginWrite(Size(head)) /\ pc' = "sending"
    /\ UNCHANGED <<resVars, appVars, headVars, round, upload, size, frame,
                   aborted, seen, torn>>

\* what the port took is not sent again
HeadSent ==
    /\ pc = "sending" /\ call = Idle
    /\ \/ ret.n < 0 /\ pc' = "disconnect" /\ left' = 0 /\ tries' = 0 /\ UNCHANGED portVars
       \/ /\ ret.n >= 0 /\ left' = left - ret.n
          /\ IF left' > 0 THEN /\ tries' = tries + 1 /\ BeginWrite(left') /\ pc' = pc
             ELSE BeginRead /\ pc' = "reading" /\ tries' = 0
    /\ UNCHANGED <<resVars, appVars, headVars, round, upload, size, frame,
                   aborted, seen, torn>>

(***************************************************************************)
(* The response.  Its Content-Length, or its first chunk's size, is what   *)
(* the client frames the body by.                                          *)
(***************************************************************************)
Spellings(ds) == {[i \in 1 .. z |-> 0] \o ds \o [i \in 1 .. b |-> Blank] :
                    z \in {0, 1}, b \in {0, 1}}

\* the look-up's buffer is headerValueBuf of mangoSM__HTTP_RECVING_HEADERS
ValueBuf == 32
Others == {<< >>, <<Short(<<3>>)>>, <<Short(<<3, 4, 1>>)>>}

LengthOf(lines) ==
    LET g == mangoHelper_httpHeaderGet(lines, CONTENT_LENGTH, ValueBuf)
    IN IF g.found = 1 THEN mangoHelper_decstr2dec(g.val) ELSE Bad

Hides(lines) == \E i \in 1 .. Len(lines) : Begins(CONTENT_LENGTH, lines[i].name)

AnnouncesLength ==
    \E n \in Sizes, before \in Others :
      \E v \in Spellings(mangoHelper_dec2decstr(n)) :
        size' = [meant |-> n,
                 clear |-> n < Word /\ Leading(v, 10) <= DecDigits /\ ~Hides(before),
                 read |-> LengthOf(Append(before, [name |-> CONTENT_LENGTH, val |-> v]))]

\* a server writes a chunk's size in hexadecimal, zeros in front or not
ServerHex(n) == IF n = 0 THEN <<0>> ELSE mangoHelper_dec2hexstr(n)
AnnouncesChunk ==
    \E n \in {m \in Sizes : m < Word} : \E v \in Spellings(ServerHex(n)) :
      size' = [meant |-> n, clear |-> Leading(v, Hex) <= 8, read |-> mangoHelper_hexstr2dec(v)]

\* persistent_test never leaves its loop of its own accord; RequestNew bounds it
Again == IF Script.loops THEN "new" ELSE "disconnect"

Answered ==
    /\ pc = "reading" /\ call = Idle
    /\ \/ /\ ret.n <= 0 /\ pc' = "disconnect"            \* closed, or timed out
          /\ UNCHANGED <<size, round>>
       \/ /\ ret.n > 0 /\ AnnouncesLength
          /\ round' = round + 1 /\ pc' = Again
       \/ /\ ret.n > 0 /\ AnnouncesChunk
          /\ round' = round + 1 /\ pc' = Again
       \/ /\ ret.n > 0 /\ prog \in {"post", "chunkedPost"} /\ upload = NoUpload
          /\ pc' = "upload" /\ UNCHANGED <<size, round>>                     \* 100
       \/ /\ ret.n > 0 /\ prog = "websockets"
          /\ pc' = "poll" /\ UNCHANGED <<size, round>>                       \* 101
    /\ UNCHANGED <<resVars, portVars, appVars, headVars, tries, left, upload,
                   frame, aborted, seen, torn>>

(***************************************************************************)
(* httpPost: the file in buffers of BufSz, then the end of the data.       *)
(***************************************************************************)
SendNow == Least(FileSz - upload.sent, BufSz)
ExtraChunkSz == 13
SendSz == Least(SendNow - upload.part, wb - ExtraChunkSz)

\* the server reads the chunk's own numeral
ChunkValue(n) == Value(mangoHelper_dec2hexstr(n), Len(mangoHelper_dec2hexstr(n)), Hex)

PacketLen == IF prog = "post" THEN SendNow
             ELSE Len(mangoHelper_dec2hexstr(SendSz)) + 2 + SendSz + 2

DataSend ==
    /\ pc = "upload" /\ upload.sent < FileSz
    /\ left' = PacketLen
    /\ BeginWrite(PacketLen) /\ pc' = "packet"
    /\ UNCHANGED <<resVars, appVars, headVars, round, tries, upload, size, frame,
                   aborted, seen, torn>>

\* a packet or a chunk that is not taken whole ends the upload
PacketSent ==
    /\ pc = "packet" /\ call = Idle
    /\ \/ ret.n # left /\ pc' = "disconnect" /\ UNCHANGED upload
       \/ /\ ret.n = left /\ pc' = "upload"
          /\ LET n == IF prog = "post" THEN SendNow ELSE SendSz
                 got == upload.got + (IF prog = "post" THEN n ELSE ChunkValue(n))
             IN upload' = IF upload.part + n = SendNow
                          THEN [sent |-> upload.sent + SendNow, part |-> 0, got |-> got]
                          ELSE [upload EXCEPT !.part = @ + n, !.got = got]
    /\ UNCHANGED <<resVars, portVars, appVars, headVars, round, tries, left, size,
                   frame, aborted, seen, torn>>

\* the last chunk, or nothing for an upload of known length
DataEnd ==
    /\ pc = "upload" /\ upload.sent = FileSz
    /\ \/ prog = "chunkedPost" /\ left' = 5 /\ BeginWrite(5) /\ pc' = "ending"
       \/ prog = "post" /\ BeginRead /\ pc' = "reading" /\ left' = 0
    /\ UNCHANGED <<resVars, appVars, headVars, round, tries, upload, size, frame,
                   aborted, seen, torn>>

EndSent ==
    /\ pc = "ending" /\ call = Idle
    /\ \/ ret.n # left /\ pc' = "disconnect" /\ UNCHANGED portVars
       \/ ret.n = left /\ BeginRead /\ pc' = "reading"
    /\ UNCHANGED <<resVars, appVars, headVars, round, tries, left, upload, size,
                   frame, aborted, seen, torn>>
(***************************************************************************)
(* testWebsocket: poll, then two frames, for ever.  A frame that cannot be *)
(* allocated, or sent, is answered with MANGO_OK all the same; the second  *)
(* leaves the state machine in ABORTED, which refuses the next call.       *)
(***************************************************************************)
TEXT == 1
CLOSE == 8
PONG == 10

Poll ==
    /\ pc = "poll"
    /\ \/ aborted /\ pc' = "disconnect" /\ UNCHANGED portVars
       \/ ~aborted /\ BeginRead /\ pc' = "polling"
    /\ UNCHANGED <<resVars, appVars, headVars, round, msgVars>>

\* a frame on the stack, for an answer that mango gives by itself
Answer(type, n) ==
    /\ frame' = [type |-> type, len |-> n, ok |-> TRUE]
    /\ BeginWrite(FrameLen(n)) /\ pc' = "answering"

Polled ==
    /\ pc = "polling" /\ call = Idle
    /\ \/ /\ ret.n < 0 /\ pc' = "disconnect"
          /\ UNCHANGED <<portVars, frame>>
       \/ /\ ret.n >= 0 /\ pc' = "frame1"                 \* nothing, or data
          /\ UNCHANGED <<portVars, frame>>
       \/ ret.n > 0 /\ Answer(PONG, 0)
       \/ ret.n > 0 /\ Answer(CLOSE, 2)
    /\ seen' = NoFrame
    /\ UNCHANGED <<resVars, appVars, headVars, round, tries, left, upload, size,
                   aborted, torn>>

\* the bytes that reached the server after a frame was written as far as done
Delivered(whole, done) ==
    /\ seen' = IF whole THEN Unframe(Frame(frame.type, frame.len)) ELSE NoFrame
    /\ torn' = IF done > 0 /\ torn = "frame" THEN "mixed"
               ELSE IF done > 0 /\ ~whole
               THEN IF frame.type = TEXT THEN "frame" ELSE "control"
               ELSE torn

\* mangoIDP_websocket does not look at what mangoWS_pong or mangoWS_close said
AnswerSent ==
    /\ pc = "answering" /\ call = Idle
    /\ Delivered(ret.n = FrameLen(frame.len), ret.done)
    /\ pc' = IF frame.type = PONG THEN "frame1" ELSE "disconnect"
    /\ UNCHANGED <<resVars, portVars, appVars, headVars, round, tries, left, upload,
                   size, frame, aborted>>

NextOf(p) == IF p = "frame1" THEN "frame2" ELSE "poll"
Sent(p) == IF p = "frame1" THEN "sent1" ELSE "sent2"

FrameSend ==
    /\ pc \in {"frame1", "frame2"}
    /\ pc = "frame1" => round < MaxRounds
    /\ \/ /\ aborted /\ pc' = "disconnect"
          /\ UNCHANGED <<held, misuse, portVars, frame>>
       \/ /\ ~aborted /\ pc' = NextOf(pc)                 \* malloc failed
          /\ UNCHANGED <<held, misuse, portVars, frame>>
       \/ /\ ~aborted /\ Acquire({"frame"}, {})
          /\ \E n \in Payloads :
               /\ frame' = [type |-> TEXT, len |-> n, ok |-> TRUE]
               /\ BeginWrite(FrameLen(n))
          /\ pc' = Sent(pc)
    /\ seen' = NoFrame
    /\ UNCHANGED <<certs, moved, appVars, headVars, round, tries, left, upload, size,
                   aborted, torn>>

\* mutant: a frame counts as sent when the port took what it was given
FrameWholePort(n) == ret.n >= 0

\* the code's test of mangoPort_write's result
FrameWhole(n) == ret.n = FrameLen(n)

FrameSent ==
    /\ pc \in {"sent1", "sent2"} /\ call = Idle
    /\ Acquire({}, {"frame"})
    /\ Delivered(ret.n = FrameLen(frame.len), ret.done)
    /\ aborted' = ~FrameWhole(frame.len)
    /\ pc' = IF pc = "sent1" THEN "frame2" ELSE "poll"
    /\ round' = IF pc = "sent2" THEN round + 1 ELSE round
    /\ UNCHANGED <<certs, moved, portVars, appVars, headVars, tries, left, upload,
                   size, frame>>

(***************************************************************************)
(* The specification.  The client and the clock keep moving; the peer need *)
(* not.                                                                    *)
(***************************************************************************)
Port == Select \/ SelectTimesOut \/ SelectFails \/ Recv \/ Send \/ Tick
Peer == PeerSends \/ PeerStalls \/ PeerDrains \/ PeerLeaves

Program == \/ Load \/ Unload \/ Connect \/ Disconnect
           \/ RequestNew \/ AuthSet \/ SetHeader \/ Process \/ HeadSent \/ Answered
           \/ DataSend \/ PacketSent \/ DataEnd \/ EndSent
           \/ Poll \/ Polled \/ AnswerSent \/ FrameSend \/ FrameSent

InPort(A) == A /\ UNCHANGED <<resVars, appVars, pc, headVars, round, msgVars>>

Next == Program \/ InPort(Port) \/ InPort(Peer)

Spec == /\ Init /\ [][Next]_vars
        /\ WF_vars(Program)
        /\ WF_vars(InPort(Select \/ SelectTimesOut \/ Recv \/ Send))
        /\ WF_vars(InPort(Tick))

(***************************************************************************)
(* Properties.                                                             *)
(***************************************************************************)
\* A program that has ended, by whatever way, has given back all it took, and
\* nothing was given back twice on the way.  A CA certificate in memory is the
\* exception: mango_sslconnect loses the parsed certificate and the pointer.
Released ==
    /\ ~misuse
    /\ pc = "end" => held = IF moved THEN {"x509", "file"} \cup certs ELSE {}

\* A request is a line, the headers whose call was answered MANGO_OK in that
\* order, and one blank line, within the working buffer; a server decodes the
\* credentials it carries to the ones given to httpAuthSet.
Plain(p) == IF p.k = "auth" THEN [name |-> p.name, val |-> Base64Decode(p.val)]
            ELSE [name |-> p.name, val |-> p.val]
HeadComplete ==
    head # << >> =>
      /\ Size(head) <= wb
      /\ Len(head) = 2 * Len(given) + 3
      /\ head[1] = Line /\ head[2] = CRLF /\ Last(head) = CRLF
      /\ \A i \in 1 .. Len(given) :
           Plain(head[2 * i + 1]) = given[i] /\ head[2 * i + 2] = CRLF

\* What one side announces is what the other takes it for: the server gets as
\* many bytes as the request's Content-Length or the chunks' numerals say, and
\* mango reads the size the server wrote, whatever stands around it, when it
\* fits a word, has no more digits than one and no header before it has a name
\* that begins with Content-Length.
SizesUnderstood ==
    /\ (pc = "ending" \/ (pc = "reading" /\ upload # NoUpload)) => upload.got = FileSz
    /\ (prog = "post" /\ pc = "upload") =>
         LET g == mangoHelper_httpHeaderGet(given, CONTENT_LENGTH, 11)
         IN g.found = 1 /\ mangoHelper_decstr2dec(g.val) = FileSz
    /\ size.clear => size.read = size.meant

\* The server decodes exactly the frames that were sent whole, each with its
\* payload unmasked, and no byte follows a data frame that was cut short.
FramesWhole == seen \in {NoFrame, frame} /\ torn # "mixed"

\* A transfer goes round its loop again only while the time allowed is not
\* over, one millisecond more across the wrap of the clock (how long one recv or
\* send takes is CallsReturn's), and a write gives up with part of the bytes only
\* when it is.
Punctual ==
    call.phase = "loop" =>
      /\ (call'.phase = "loop" /\ call'.done # call.done) => call.age <= Timeout
      /\ (call.kind = "write" /\ call' = Idle /\ ret'.n >= 0 /\ ret'.n < call.len)
           => call.age >= Timeout
GivesUpOnTime == [][Punctual]_vars

(***************************************************************************)
(* The strengthenings that make Released, FramesWhole and GivesUpOnTime    *)
(* inductive.                                                              *)
(***************************************************************************)
\* what a program holds in each of its phases
Loaded == IF certs = NoCerts THEN {} ELSE {"file"} \cup certs
Lost == IF moved THEN {"x509"} ELSE {}
Connection == IF Script.secure THEN {"hc", "ctx", "fd", "ssl"} ELSE {"hc", "fd"}

HeldInv ==
    /\ ~misuse
    /\ certs = NoCerts \/ certs \subseteq {"cacrt", "cert", "key"}
    /\ moved \in BOOLEAN /\ (moved => "cacrt" \in certs)
    /\ pc \in {"load", "connect"} => ~moved
    /\ pc = "load" => certs = NoCerts
    /\ held = CASE pc = "end" -> IF moved THEN {"x509", "file"} \cup certs ELSE {}
                [] pc \in {"load", "connect", "unload"} -> Loaded \cup Lost
                [] pc \in {"sent1", "sent2"} -> Loaded \cup Lost \cup Connection \cup {"frame"}
                [] OTHER -> Loaded \cup Lost \cup Connection

\* a port call is under way only where a program waits for one
InCall == {"sending", "reading", "packet", "ending", "polling", "answering",
           "sent1", "sent2"}

CallInv ==
    /\ call = [kind |-> call.kind, len |-> call.len, start |-> call.start,
               done |-> call.done, phase |-> call.phase, age |-> call.age,
               parts |-> call.parts]
    /\ call.kind = "none" => call.phase = "out"
    /\ call.kind # "none" =>
         /\ pc \in InCall
         /\ call.start \in 0 .. Word - 1 /\ call.age \in 0 .. Timeout + 2
         /\ now = (call.start + call.age) % Word

\* the write of a frame: it takes fewer bytes than a 16-bit length has
FrameInv ==
    pc \in {"answering", "sent1", "sent2"} =>
      /\ frame = [type |-> frame.type, len |-> frame.len, ok |-> TRUE]
      /\ frame.len \in Nat /\ (frame.type = TEXT <=> pc # "answering")
      /\ call.kind # "read"
      /\ call.len \in 0 .. Half - 1 /\ call.done \in 0 .. call.len
      /\ ret.n \in Int /\ ret.n < Half

\* after a data frame that was cut short nothing is written any more
TornInv ==
    /\ seen \in {NoFrame, frame}
    /\ torn # "mixed"
    /\ torn = "frame" => aborted /\ pc \in {"frame2", "poll", "disconnect", "unload", "end"}

\* Every call of the port returns, as mangoPort.c documents: a read waits until at
\* least 1 byte has been read or the "timeout" expires, and returns on the first
\* read that succeeds (112), a write waits until all data have been sent or it
\* expires (163).
CallsReturn == call.kind # "none" ~> call.kind = "none"
=============================================================================
