---------------------------- MODULE MangoProofs ----------------------------
(***************************************************************************)
(* What holds of the HTTP/WebSocket client for any size of the working     *)
(* buffer, any requests of the application and anything the server sends.  *)
(***************************************************************************)
EXTENDS MangoSM, SequenceTheorems, WellFoundedInduction, TLAPS

-----------------------------------------------------------------------------
(***************************************************************************)
(* Sequences, and the tokens they hold.                                    *)
(***************************************************************************)

\* A non-empty set of numbers has a smallest one.
LEMMA Smallest ==
  ASSUME NEW T, T \subseteq Nat, T # {}
  PROVE  \E n \in T : \A m \in T : n <= m
<1> DEFINE R == OpToRel(<, Nat)
<1>1. IsWellFoundedOn(R, Nat) BY NatLessThanWellFounded
<1> HIDE DEF R
<1>2. PICK n \in T : \A m \in T : ~(<<m, n>> \in R) BY <1>1, WFMin
<1>3. ASSUME NEW m \in T PROVE n <= m
  <2>1. ~(<<m, n>> \in R) BY <1>2
  <2>2. m \in Nat /\ n \in Nat OBVIOUS
  <2>3. ~(m < n) BY <2>1, <2>2 DEF R, OpToRel
  <2> QED BY <2>2, <2>3
<1> QED BY <1>3

\* A function on 1 .. n is a sequence of length n.
LEMMA SeqOfLen ==
  ASSUME NEW S, NEW n \in Nat, NEW f \in [1 .. n -> S]
  PROVE  f \in Seq(S) /\ Len(f) = n
<1>1. f \in Seq(S) BY SeqDef
<1> QED BY <1>1

\* Dropping the first tokens of a sequence.
LEMMA DropSeq ==
  ASSUME NEW S, NEW s \in Seq(S), NEW n \in Nat
  PROVE  /\ Drop(s, n) \in Seq(S)
         /\ Len(Drop(s, n)) = IF n <= Len(s) THEN Len(s) - n ELSE 0
         /\ \A j \in 1 .. Len(Drop(s, n)) : Drop(s, n)[j] = s[n + j]
<1>1. Len(s) \in Nat OBVIOUS
<1>2. \A j \in n + 1 .. Len(s) : s[j] \in S BY <1>1
<1>3. /\ SubSeq(s, n + 1, Len(s)) \in Seq(S)
      /\ Len(SubSeq(s, n + 1, Len(s))) =
           IF n + 1 <= Len(s) THEN Len(s) - (n + 1) + 1 ELSE 0
      /\ \A j \in 1 .. Len(s) - (n + 1) + 1 :
           SubSeq(s, n + 1, Len(s))[j] = s[n + 1 + j - 1]
  BY <1>1, <1>2, SubSeqProperties
<1> QED BY <1>1, <1>3 DEF Drop

\* Taking the first tokens of a sequence.
LEMMA TakeSeq ==
  ASSUME NEW S, NEW s \in Seq(S), NEW n \in 0 .. Len(s)
  PROVE  /\ Take(s, n) \in Seq(S)
         /\ Len(Take(s, n)) = n
         /\ \A j \in 1 .. n : Take(s, n)[j] = s[j]
<1>1. Len(s) \in Nat OBVIOUS
<1>2. \A j \in 1 .. n : s[j] \in S BY <1>1
<1>3. /\ SubSeq(s, 1, n) \in Seq(S)
      /\ Len(SubSeq(s, 1, n)) = IF 1 <= n THEN n - 1 + 1 ELSE 0
      /\ \A j \in 1 .. n - 1 + 1 : SubSeq(s, 1, n)[j] = s[1 + j - 1]
  BY <1>1, <1>2, SubSeqProperties
<1> QED BY <1>1, <1>3 DEF Take

\* What a token's kind says about its fields.
LEMMA TokenFields ==
  ASSUME NEW t \in Token
  PROVE  /\ t.k = "size" => t.n \in Nat
         /\ t.k = "end" => t.reply \in Reply
         /\ t.k = "f1" => t.op \in Opcodes /\ t.fin \in BOOLEAN
         /\ t.k = "f2" => t.n \in Int
         /\ t.k = "fx" => t.n \in Nat
         /\ t.k = "hdr" => t.val \in Int
<1>1. CASE t \in Mark BY <1>1 DEF Mark
<1>2. CASE t \in Data BY <1>2 DEF Data
<1>3. CASE t \in Size BY <1>3 DEF Size
<1>4. CASE t \in HeadToken BY <1>4, MangoAssumption DEF HeadToken
<1>5. CASE t \in FrameToken BY <1>5 DEF FrameToken
<1>6. CASE t \in ReqToken BY <1>6 DEF ReqToken
<1> QED BY <1>1, <1>2, <1>3, <1>4, <1>5, <1>6 DEF Token, Body

\* The head a response starts with ends at one of its tokens.
LEMMA HeadLenIn ==
  ASSUME NEW s \in Seq(Token), HeadEnd(s) # {}
  PROVE  HeadLen(s) \in 1 .. Len(s) /\ s[HeadLen(s)].k = "end"
<1>1. HeadEnd(s) \subseteq Nat BY DEF HeadEnd
<1>2. \E j \in HeadEnd(s) : \A h \in HeadEnd(s) : j <= h BY <1>1, Smallest
<1>3. HeadLen(s) \in HeadEnd(s) BY <1>2 DEF HeadLen
<1> QED BY <1>3 DEF HeadEnd

\* The first line of a chunked body ends at one of its tokens.
LEMMA LineLenIn ==
  ASSUME NEW s \in Seq(Token), HasLine(s)
  PROVE  LineLen(s) \in 1 .. Len(s)
<1> DEFINE T == {j \in 1 .. Len(s) : IsNewline(s[j])}
<1>1. T \subseteq Nat /\ T # {} BY DEF HasLine
<1>2. PICK j \in T : \A h \in T : j <= h BY <1>1, Smallest
<1>3. \A h \in 1 .. j - 1 : ~IsNewline(s[h])
  <2>1. j \in Nat /\ Len(s) \in Nat /\ j <= Len(s) OBVIOUS
  <2> QED BY <1>2, <2>1
<1> QED BY <1>2, <1>3 DEF LineLen

\* A header's value is a number, one of the error codes if there is none.
LEMMA HeaderGetInt ==
  ASSUME workingBuffer \in Seq(Token), NEW name
  PROVE  HeaderGet(name) \in Int
<1> DEFINE S == {j \in 1 .. Len(workingBuffer) :
                   workingBuffer[j].k = "hdr" /\ workingBuffer[j].name = name}
<1>1. CASE ~HasHeader(name) BY <1>1 DEF HeaderGet, NotFound
<1>2. CASE HasHeader(name)
  <2>1. S \subseteq Nat /\ S # {} BY <1>2 DEF HasHeader
  <2>2. \E j \in S : \A h \in S : j <= h BY <2>1, Smallest
  <2> DEFINE c == CHOOSE j \in S : \A h \in S : j <= h
  <2>3. c \in S BY <2>2
  <2>4. HeaderGet(name) = workingBuffer[c].val BY <1>2 DEF HeaderGet
  <2> HIDE DEF c
  <2>5. workingBuffer[c] \in Token /\ workingBuffer[c].k = "hdr" BY <2>3
  <2> QED BY <2>4, <2>5, TokenFields
<1> QED BY <1>1, <1>2

-----------------------------------------------------------------------------
(***************************************************************************)
(* Entering a state.                                                       *)
(***************************************************************************)
Waiting == {"RECVING_HEADERS", "RECVING_DATA", "WS_POLLING"}

\* The ENTRY of a state subscribes to an event the state handles, or to none
\* where API calls are taken.
LEMMA EnterControl ==
  ASSUME NEW s \in CStates, NEW err \in ExitCodes, NEW timeout \in Nat,
         EnterSM(s, err, timeout),
         timeout # Infinite => s \in Waiting
  PROVE  /\ ControlOK' /\ FlowInv'
         /\ curState' = s /\ subscribedEvent' = EntryEvent(s)
         /\ pc' = "idp" => s = "WS_POLLING"
<1>1. /\ curState' = s /\ smExitError' = err
      /\ subscribedEvent' = EntryEvent(s)
      /\ timed' = (timeout # Infinite) /\ expired' = (timeout = 0)
      /\ pc' = IF EntryEvent(s) = "NONE" THEN "app"
               ELSE IF s = "WS_POLLING" THEN "idp" ELSE "loop"
  BY DEF EnterSM
<1>2. /\ EntryEvent(s) \in {"NONE", "READ", "WRITE", "PROCESS"}
      /\ EntryEvent(s) = "NONE" <=> s \in Idle
      /\ s \notin Idle => EntryEvent(s) \in Handled(s)
      /\ s = "WS_POLLING" => EntryEvent(s) = "PROCESS"
      /\ s \in Waiting => s \notin Idle
  BY DEF EntryEvent, CStates, Idle, Handled, Waiting
<1>3. timed' \in BOOLEAN /\ expired' \in BOOLEAN BY <1>1
<1>4. ControlOK' BY <1>1, <1>2, <1>3 DEF ControlOK
<1>5. timed' => s \in Waiting BY <1>1
<1>6. pc' = "app" => s \in Idle /\ EntryEvent(s) = "NONE" /\ ~timed'
  BY <1>1, <1>2, <1>5
<1>7. pc' # "app" => EntryEvent(s) \in Handled(s) BY <1>1, <1>2
<1>8. pc' = "idp" => s = "WS_POLLING" BY <1>1
<1>9. FlowInv'
  BY <1>1, <1>2, <1>5, <1>6, <1>7, <1>8 DEF FlowInv, Waiting
<1> QED BY <1>1, <1>4, <1>8, <1>9

\* What an ENTRY does to the working buffer keeps its indices in order: it
\* empties it, moves what is unread to the front, or leaves it alone.
LEMMA EnterBuffer ==
  ASSUME BufferOK, Len(workingBuffer) <= WB_TOT,
         NEW s \in CStates, EntryWB(s), processed' = 0,
         s = "SENDING_HEADERS" => Len(workingBuffer) > 0,
         curState' = s, subscribedEvent' = EntryEvent(s)
  PROVE  BufferOK' /\ BufferInv'
<1>0. WB_TOT \in Nat /\ WB_TOT > 0 BY MangoAssumption
<1>1. workingBuffer \in Seq(Token) /\ left \in Nat /\ left <= Len(workingBuffer)
  BY DEF BufferOK
<1>2. /\ workingBuffer' \in Seq(Token) /\ left' \in Nat
      /\ left' <= Len(workingBuffer') /\ Len(workingBuffer') <= Len(workingBuffer)
      /\ s = "RECVING_HEADERS" => workingBuffer' = << >>
      /\ s = "SENDING_HEADERS" => workingBuffer' = workingBuffer
  <2>1. CASE s \in {"HTTP_CONNECTED", "RECVING_HEADERS", "SENDING_DATA"}
    <3>1. workingBuffer' = << >> /\ left' = 0 BY <2>1 DEF EntryWB
    <3> QED BY <1>1, <2>1, <3>1
  <2>2. CASE s \in {"RECVING_DATA", "WS_CONNECTED"}
    <3>1. workingBuffer' = Drop(workingBuffer, left) /\ left' = 0
      BY <2>2 DEF EntryWB, Shrink
    <3> QED BY <1>1, <2>2, <3>1, DropSeq
  <2>3. CASE s \notin {"HTTP_CONNECTED", "RECVING_HEADERS", "SENDING_DATA",
                       "RECVING_DATA", "WS_CONNECTED"}
    <3>1. UNCHANGED <<workingBuffer, left>> BY <2>3 DEF EntryWB, wbVars
    <3> QED BY <1>1, <2>3, <3>1
  <2> QED BY <2>1, <2>2, <2>3
<1>3. BufferOK' BY <1>2 DEF BufferOK
<1>4. /\ EntryEvent(s) = "READ" => s = "RECVING_HEADERS"
      /\ s = "RECVING_HEADERS" => EntryEvent(s) = "READ"
  BY DEF EntryEvent, CStates
<1>5. Len(workingBuffer') \in Nat /\ Len(workingBuffer) \in Nat
  BY <1>1, <1>2
<1>6. Len(workingBuffer') <= WB_TOT BY <1>0, <1>2, <1>5
<1>7. s = "RECVING_HEADERS" => Len(workingBuffer') = 0 BY <1>2
<1>8. subscribedEvent' = "READ" => FreeSz' > 0
  BY <1>0, <1>4, <1>5, <1>7 DEF FreeSz
<1>9. s = "SENDING_HEADERS" => Len(workingBuffer') > 0 BY <1>2
<1> QED BY <1>2, <1>3, <1>4, <1>5, <1>6, <1>8, <1>9 DEF BufferInv

\* The states a handler can enter without a call of the application: the
\* control, the working buffer and the pointers are in order afterwards.
LEMMA Entered ==
  ASSUME IndInv, NEW s \in CStates \ {"SENDING_HEADERS", "WS_POLLING"},
         NEW err \in ExitCodes, Enter(s, err), processed' = 0
  PROVE  /\ ControlOK' /\ FlowInv' /\ BufferOK' /\ BufferInv'
         /\ curState' = s /\ subscribedEvent' = EntryEvent(s)
         /\ s # "RECVING_DATA" => StatusInv'
<1>1. EnterSM(s, err, EntryTimeout(s)) /\ EntryWB(s) BY DEF Enter, EnterFor
<1>2. /\ EntryTimeout(s) \in Nat
      /\ EntryTimeout(s) # Infinite => s \in Waiting
  BY DEF EntryTimeout, Infinite, Waiting
<1>3. /\ ControlOK' /\ FlowInv'
      /\ curState' = s /\ subscribedEvent' = EntryEvent(s)
  BY <1>1, <1>2, EnterControl
<1>4. BufferOK /\ Len(workingBuffer) <= WB_TOT
  BY DEF IndInv, TypeOK, BufferInv
<1>5. BufferOK' /\ BufferInv' BY <1>1, <1>3, <1>4, EnterBuffer
<1>6. s # "RECVING_DATA" => StatusInv'
  BY <1>3 DEF StatusInv, EntryEvent
<1> QED BY <1>3, <1>5, <1>6

\* The pointer to a processor's arguments is as good as before when nobody
\* moves it and the state stays or is one that calls no processor.
LEMMA PointerKept ==
  ASSUME PointerInv,
         UNCHANGED <<httpMethod, inputDataProcessor, outputDataProcessor,
                     dataProcessorArgs>>,
         curState' = curState
           \/ curState' \in {"ABORTED", "DISCONNECTED", "HTTP_CONNECTED",
                             "SENDING_HEADERS"}
  PROVE  PointerInv'
  BY DEF PointerInv, ArgsMatch

\* What is left alone keeps its type.
LEMMA Kept ==
  ASSUME IndInv
  PROVE  /\ UNCHANGED reqVars => RequestOK'
         /\ UNCHANGED dpVars => ArgsOK' /\ PieceInv'
         /\ UNCHANGED <<srvVars, requests>> => ServerOK'
         /\ UNCHANGED <<smVars, pc>> => ControlOK' /\ FlowInv'
         /\ UNCHANGED <<wbVars, processed>> => BufferOK'
         /\ UNCHANGED <<smVars, reqVars>> => StatusInv'
         /\ UNCHANGED <<smVars, wbVars, pc, processed>> => BufferInv'
<1> USE DEF IndInv, TypeOK
<1>1. UNCHANGED reqVars => RequestOK' BY DEF reqVars, RequestOK
<1>2. UNCHANGED dpVars => ArgsOK' /\ PieceInv'
  BY DEF dpVars, inVars, outVars, ArgsOK, PieceInv
<1>3. UNCHANGED <<srvVars, requests>> => ServerOK' BY DEF srvVars, ServerOK
<1>4. UNCHANGED <<smVars, pc>> => ControlOK' /\ FlowInv'
  BY DEF smVars, ControlOK, FlowInv
<1>5. UNCHANGED <<wbVars, processed>> => BufferOK' BY DEF wbVars, BufferOK
<1>6. UNCHANGED <<smVars, reqVars>> => StatusInv' BY DEF smVars, reqVars, StatusInv
<1>7. UNCHANGED <<smVars, wbVars, pc, processed>> => BufferInv'
  BY DEF smVars, wbVars, BufferInv, FreeSz
<1> QED BY <1>1, <1>2, <1>3, <1>4, <1>5, <1>6, <1>7

-----------------------------------------------------------------------------
(***************************************************************************)
(* The application's calls.                                                *)
(***************************************************************************)

\* Building a request: the working buffer holds it or nothing.
LEMMA RequestNewStep == IndInv /\ mango_httpRequestNew => IndInv'
<1> SUFFICES ASSUME IndInv, mango_httpRequestNew PROVE IndInv' OBVIOUS
<1>0. WB_TOT \in Nat /\ WB_TOT > 0 /\ LineSizes \subseteq Nat BY MangoAssumption
<1>1. pc = "app" /\ curState = "HTTP_CONNECTED" /\ subscribedEvent = "NONE"
  BY DEF mango_httpRequestNew, Building, IndInv, FlowInv
<1>2. processed = 0 /\ processed' = 0
  BY <1>1 DEF mango_httpRequestNew, IndInv, BufferInv
<1>s. UNCHANGED <<curState, subscribedEvent, pc>>
  BY DEF mango_httpRequestNew, smVars
<1>3. UNCHANGED <<smVars, pc, processed, httpResponseStatusCode, smAPICallArgs, dpVars, srvVars>>
      /\ requests' = requests + 1
  BY DEF mango_httpRequestNew
<1>4. PICK m \in Methods, n \in LineSizes :
         /\ httpMethod' = m
         /\ left' = 0
         /\ workingBuffer' = IF m \in Bodiless \cup Uploads /\ n <= WB_TOT
                             THEN [j \in 1 .. n |-> [k |-> "line"]] ELSE << >>
  BY DEF mango_httpRequestNew
<1>5. workingBuffer' \in Seq(Token) /\ Len(workingBuffer') <= WB_TOT
  <2>1. CASE m \in Bodiless \cup Uploads /\ n <= WB_TOT
    <3>1. workingBuffer' = [j \in 1 .. n |-> [k |-> "line"]] BY <1>4, <2>1
    <3>2. [k |-> "line"] \in Token BY DEF Token, ReqToken
    <3>3. workingBuffer' \in [1 .. n -> Token] /\ n \in Nat BY <1>0, <3>1, <3>2
    <3>4. workingBuffer' \in Seq(Token) /\ Len(workingBuffer') = n
      BY <3>3, SeqOfLen
    <3> QED BY <2>1, <3>4
  <2>2. CASE ~(m \in Bodiless \cup Uploads /\ n <= WB_TOT)
    <3>1. workingBuffer' = << >> BY <1>4, <2>2
    <3> QED BY <1>0, <3>1
  <2> QED BY <2>1, <2>2
<1>l. Len(workingBuffer') \in Nat BY <1>5
<1>z. left' = 0 BY <1>4
<1>6. BufferOK' BY <1>2, <1>5, <1>l, <1>z DEF BufferOK
<1>7. BufferInv'
  BY <1>1, <1>2, <1>s, <1>5, <1>l, <1>z DEF BufferInv
<1>8. RequestOK' BY <1>3, <1>4 DEF RequestOK, IndInv, TypeOK
<1>9. ServerOK'
  <2>1. requests' \in Nat BY <1>3 DEF IndInv, TypeOK, ServerOK
  <2> QED BY <1>3, <2>1 DEF ServerOK, srvVars, IndInv, TypeOK
<1>10. PointerInv'
  BY <1>1, <1>3 DEF PointerInv, ArgsMatch, smVars
<1>11. StatusInv' BY <1>1, <1>3 DEF StatusInv, smVars
<1>12. ControlOK' /\ FlowInv' /\ ArgsOK' /\ PieceInv' BY <1>3, Kept
<1> QED BY <1>6, <1>7, <1>8, <1>9, <1>10, <1>11, <1>12 DEF IndInv, TypeOK

\* Adding a header to it.
LEMMA HeaderSetStep == IndInv /\ mango_httpHeaderSet => IndInv'
<1> SUFFICES ASSUME IndInv, mango_httpHeaderSet PROVE IndInv' OBVIOUS
<1>1. pc = "app" /\ curState = "HTTP_CONNECTED" /\ subscribedEvent = "NONE"
  BY DEF mango_httpHeaderSet, Building, IndInv, FlowInv
<1>2. UNCHANGED <<smVars, left, reqVars, dpVars, pc, processed, srvVars, requests>>
  BY DEF mango_httpHeaderSet, appVars
<1>3. PICK h \in ReqHeaders :
         /\ Len(workingBuffer) < WB_TOT
         /\ workingBuffer' = Append(workingBuffer,
                               [k |-> "hdr", name |-> h.name, val |-> h.val])
  BY DEF mango_httpHeaderSet
<1> DEFINE t == [k |-> "hdr", name |-> h.name, val |-> h.val]
<1>4. t \in Token
  <2>1. h \in [name : {"cl", "te", "expect"}, val : Int] BY MangoAssumption
  <2>2. h.name \in {"cl", "te", "expect"} /\ h.val \in Int BY <2>1
  <2> QED BY <2>2 DEF Token, ReqToken
<1>5. workingBuffer \in Seq(Token) /\ left \in Nat /\ left <= Len(workingBuffer)
      /\ processed = 0
  BY <1>1 DEF IndInv, TypeOK, BufferOK, BufferInv
<1> HIDE DEF t
<1>6. workingBuffer' \in Seq(Token) /\ Len(workingBuffer') = Len(workingBuffer) + 1
  BY <1>3, <1>4, <1>5 DEF t
<1>7. WB_TOT \in Nat BY MangoAssumption
<1>8. BufferOK' BY <1>2, <1>5, <1>6 DEF BufferOK
<1>9. BufferInv'
  BY <1>1, <1>2, <1>3, <1>5, <1>6, <1>7 DEF BufferInv, smVars
<1>10. RequestOK' /\ ArgsOK' /\ PieceInv' /\ ServerOK' /\ ControlOK' /\ FlowInv'
       /\ StatusInv'
  BY <1>2, Kept
<1>11. PointerInv'
  BY <1>2, PointerKept DEF IndInv, smVars, reqVars, dpVars, inVars, outVars
<1> QED BY <1>8, <1>9, <1>10, <1>11 DEF IndInv, TypeOK

\* A call of the state machine, taken or refused.
LEMMA CallStep ==
  ASSUME IndInv, NEW name \in CallNames \ {NULL}, NEW n \in Nat, Call(name, n),
         curState = "HTTP_CONNECTED" /\ name = "httpRequestProcess" => HasRequest
  PROVE  IndInv'
<1> USE DEF Call
<1>0. WB_TOT \in Nat /\ WB_TOT > 0 BY MangoAssumption
<1>1. pc = "app" /\ curState \in Idle /\ subscribedEvent = "NONE"
  BY DEF IndInv, FlowInv
<1>2. processed = 0 /\ processed' = 0 BY <1>1 DEF IndInv, BufferInv
<1>3. UNCHANGED <<httpMethod, httpResponseStatusCode, dpVars, srvVars, requests>>
  OBVIOUS
<1>4. RequestOK' BY <1>3 DEF RequestOK, IndInv, TypeOK
<1>5. ArgsOK' /\ PieceInv' /\ ServerOK' BY <1>3, Kept
<1>6. CASE name \in Accepts(curState)
  <2> DEFINE timeout == IF name = "wsPoll" THEN n ELSE Infinite
             s == Target(name)
  <2>1. EnterSM(s, "OK", timeout) /\ EntryWB(s) BY <1>6 DEF EnterFor
  <2>2. /\ s \in {"SENDING_HEADERS", "SENDING_PACKET", "WS_POLLING",
                  "WS_SENDING_FRAME", "WS_CLOSING"}
        /\ s = "WS_POLLING" <=> name = "wsPoll"
        /\ s = "SENDING_HEADERS" =>
             curState = "HTTP_CONNECTED" /\ name = "httpRequestProcess"
        /\ s = "SENDING_PACKET" => curState = "SENDING_DATA"
        /\ s \in {"WS_POLLING", "WS_SENDING_FRAME", "WS_CLOSING"} =>
             curState = "WS_CONNECTED"
    BY <1>6 DEF Target, Accepts, CallNames
  <2>3. s \in CStates /\ timeout \in Nat /\ "OK" \in ExitCodes
    BY <2>2 DEF CStates, Infinite, ExitCodes
  <2>4. timeout # Infinite => s \in Waiting BY <2>2 DEF Waiting
  <2> HIDE DEF s, timeout
  <2>5. /\ ControlOK' /\ FlowInv'
        /\ curState' = s /\ subscribedEvent' = EntryEvent(s)
    BY <2>1, <2>3, <2>4, EnterControl
  <2>6. s = "SENDING_HEADERS" => Len(workingBuffer) > 0
    BY <2>2 DEF HasRequest
  <2>7. BufferOK' /\ BufferInv'
    BY <1>2, <2>1, <2>3, <2>5, <2>6, EnterBuffer DEF IndInv, TypeOK, BufferInv
  <2>8. StatusInv' BY <2>2, <2>5 DEF StatusInv
  <2>9. PointerInv'
    BY <1>3, <2>2, <2>5 DEF IndInv, PointerInv, ArgsMatch, dpVars, inVars, outVars
  <2> QED BY <1>4, <1>5, <2>5, <2>7, <2>8, <2>9 DEF IndInv, TypeOK
<1>7. CASE name \notin Accepts(curState)
  <2>1. /\ smExitError' = Refusal(curState)
        /\ UNCHANGED <<curState, subscribedEvent, timed, expired, wbVars, pc>>
    BY <1>7
  <2>2. Refusal(curState) \in ExitCodes BY DEF Refusal, ExitCodes
  <2>3. ControlOK' BY <2>1, <2>2 DEF ControlOK, IndInv, TypeOK
  <2>4. FlowInv' /\ StatusInv' BY <1>3, <2>1 DEF FlowInv, StatusInv, IndInv
  <2>5. BufferOK' BY <1>2, <2>1, Kept
  <2>6. BufferInv' BY <1>2, <2>1 DEF BufferInv, FreeSz, IndInv, wbVars
  <2>7. PointerInv'
    BY <1>3, <2>1, PointerKept DEF IndInv, dpVars, inVars, outVars
  <2> QED BY <1>4, <1>5, <2>3, <2>4, <2>5, <2>6, <2>7 DEF IndInv, TypeOK
<1> QED BY <1>6, <1>7

\* Every call of the application keeps the invariant.
LEMMA ApplicationStep == IndInv /\ Application => IndInv'
<1> SUFFICES ASSUME IndInv, Application PROVE IndInv' OBVIOUS
<1>1. DataSizes \subseteq Nat /\ PollTimeouts \subseteq Nat BY MangoAssumption
<1>2. CASE mango_httpRequestProcess
  BY <1>2, CallStep DEF mango_httpRequestProcess, CallNames, NULL
<1>3. CASE mango_httpDataSend
  BY <1>1, <1>3, CallStep DEF mango_httpDataSend, CallNames, NULL
<1>4. CASE mango_wsPoll
  BY <1>1, <1>4, CallStep DEF mango_wsPoll, CallNames, NULL
<1>5. CASE mango_wsFrameSend
  BY <1>5, CallStep DEF mango_wsFrameSend, CallNames, NULL
<1>6. CASE mango_wsClose
  BY <1>6, CallStep DEF mango_wsClose, CallNames, NULL
<1> QED
  BY <1>2, <1>3, <1>4, <1>5, <1>6, RequestNewStep, HeaderSetStep DEF Application

-----------------------------------------------------------------------------
(***************************************************************************)
(* The handlers of mangoSM_PROCESS.                                        *)
(***************************************************************************)

\* Between two events of mangoSM_PROCESS no processor is under way.
LEMMA InLoop ==
  ASSUME IndInv, pc = "loop"
  PROVE  /\ processed = 0 /\ smExitError \in ExitCodes /\ curState \in CStates
         /\ subscribedEvent \in Handled(curState)
         /\ workingBuffer \in Seq(Token) /\ Len(workingBuffer) \in Nat
         /\ left \in Nat /\ left <= Len(workingBuffer)
         /\ Len(workingBuffer) <= WB_TOT /\ WB_TOT \in Nat /\ WB_TOT > 0
<1>1. processed = 0 BY DEF IndInv, BufferInv
<1>2. smExitError \in ExitCodes /\ curState \in CStates
  BY DEF IndInv, TypeOK, ControlOK
<1>3. subscribedEvent \in Handled(curState) BY DEF IndInv, FlowInv
<1>4. workingBuffer \in Seq(Token) /\ left \in 0 .. Len(workingBuffer)
  BY DEF IndInv, TypeOK, BufferOK
<1>5. Len(workingBuffer) <= WB_TOT BY DEF IndInv, BufferInv
<1>6. WB_TOT \in Nat /\ WB_TOT > 0 BY MangoAssumption
<1>7. Len(workingBuffer) \in Nat BY <1>4
<1> QED BY <1>1, <1>2, <1>3, <1>4, <1>5, <1>6, <1>7

\* A due timeout gives up the response, or ends the poll.
LEMMA TimeoutStep == IndInv /\ Timeout => IndInv'
<1> SUFFICES ASSUME IndInv, Timeout PROVE IndInv' OBVIOUS
<1>1. /\ pc = "loop"
      /\ UNCHANGED <<reqVars, dpVars, processed, srvVars, requests>>
  BY DEF Timeout, appVars
<1>2. RequestOK' /\ ArgsOK' /\ PieceInv' /\ ServerOK' BY <1>1, Kept
<1>3. processed' = 0 BY <1>1, InLoop
<1>4. CASE Enter("ABORTED", "RESPTIMEOUT")
  <2>1. /\ ControlOK' /\ FlowInv' /\ BufferOK' /\ BufferInv' /\ StatusInv'
        /\ curState' = "ABORTED"
    BY <1>3, <1>4, Entered DEF CStates, ExitCodes
  <2>2. PointerInv'
    BY <1>1, <2>1, PointerKept DEF IndInv, reqVars, dpVars, inVars, outVars
  <2> QED BY <1>2, <2>1, <2>2 DEF IndInv, TypeOK
<1>5. CASE curState = "WS_POLLING" /\ Enter("WS_CONNECTED", smExitError)
  <2>1. /\ ControlOK' /\ FlowInv' /\ BufferOK' /\ BufferInv' /\ StatusInv'
        /\ curState' = "WS_CONNECTED"
    BY <1>1, <1>3, <1>5, Entered, InLoop DEF CStates
  <2>2. PointerInv'
    BY <1>1, <1>5, <2>1
    DEF IndInv, PointerInv, ArgsMatch, reqVars, dpVars, inVars, outVars
  <2> QED BY <1>2, <2>1, <2>2 DEF IndInv, TypeOK
<1> QED BY <1>4, <1>5 DEF Timeout

\* Time passes.
LEMMA TickStep == IndInv /\ Tick => IndInv'
<1> SUFFICES ASSUME IndInv, Tick PROVE IndInv' OBVIOUS
<1>1. /\ expired' = TRUE
      /\ UNCHANGED <<curState, subscribedEvent, smExitError, timed, pc>>
      /\ UNCHANGED <<wbVars, reqVars, dpVars, processed, srvVars, requests>>
  BY DEF Tick, appVars
<1>2. RequestOK' /\ ArgsOK' /\ PieceInv' /\ ServerOK' /\ BufferOK' BY <1>1, Kept
<1>3. ControlOK' BY <1>1 DEF ControlOK, IndInv, TypeOK
<1>4. FlowInv' BY <1>1 DEF FlowInv, IndInv
<1>5. StatusInv' BY <1>1 DEF StatusInv, IndInv, reqVars
<1>6. BufferInv' BY <1>1 DEF BufferInv, FreeSz, IndInv, wbVars
<1>7. PointerInv'
  BY <1>1, PointerKept DEF IndInv, reqVars, dpVars, inVars, outVars
<1> QED BY <1>2, <1>3, <1>4, <1>5, <1>6, <1>7 DEF IndInv, TypeOK

\* Writing the request's head, in as many pieces as the socket takes.
LEMMA SendHeadersStep == IndInv /\ SendHeaders => IndInv'
<1> SUFFICES ASSUME IndInv, SendHeaders PROVE IndInv' OBVIOUS
<1>1. /\ pc = "loop" /\ curState = "SENDING_HEADERS"
      /\ UNCHANGED <<reqVars, dpVars, processed>>
      /\ UNCHANGED <<wire, msg, requests>>
  BY DEF SendHeaders, Throws, appVars
<1>2. RequestOK' /\ ArgsOK' /\ PieceInv' BY <1>1, Kept
<1>3. processed = 0 /\ processed' = 0 BY <1>1, InLoop
<1>4. CASE Enter("DISCONNECTED", "CONNECTION") /\ UNCHANGED <<owes, serving>>
  <2>1. /\ ControlOK' /\ FlowInv' /\ BufferOK' /\ BufferInv' /\ StatusInv'
        /\ curState' = "DISCONNECTED"
    BY <1>3, <1>4, Entered DEF CStates, ExitCodes
  <2>2. PointerInv'
    BY <1>1, <2>1, PointerKept DEF IndInv, reqVars, dpVars, inVars, outVars
  <2>3. ServerOK' BY <1>1, <1>4 DEF ServerOK, IndInv, TypeOK
  <2> QED BY <1>2, <2>1, <2>2, <2>3 DEF IndInv, TypeOK
<1>5. ASSUME NEW n \in 0 .. Used, left' = left + n,
             IF n = Used THEN Stay("PROCESS") /\ HeadArrives
                         ELSE Stay("WRITE") /\ UNCHANGED <<owes, serving>>,
             UNCHANGED workingBuffer
      PROVE  IndInv'
  <2>1. /\ subscribedEvent' \in {"PROCESS", "WRITE"}
        /\ UNCHANGED <<curState, smExitError, timed, expired, pc>>
    BY <1>5 DEF Stay
  <2>2. serving' = serving \/ serving' = [rid |-> requests, method |-> httpMethod]
    BY <1>5 DEF HeadArrives
  <2>3. ServerOK'
    <3>1. serving' \in [rid : Nat, method : Methods \cup {NULL}]
      BY <2>2 DEF ServerOK, RequestOK, IndInv, TypeOK
    <3> QED BY <1>1, <3>1 DEF ServerOK, IndInv, TypeOK
  <2>4. ControlOK' BY <2>1 DEF ControlOK, IndInv, TypeOK
  <2>5. FlowInv' BY <1>1, <2>1 DEF FlowInv, Handled, IndInv
  <2>6. StatusInv' BY <1>1, <2>1 DEF StatusInv
  <2>7. left' \in Nat /\ left' <= Len(workingBuffer) BY <1>1, <1>5, InLoop DEF Used
  <2>8. BufferOK' BY <1>1, <1>3, <1>5, <2>7, InLoop DEF BufferOK
  <2>9. BufferInv'
    BY <1>1, <1>3, <1>5, <2>1, <2>7 DEF BufferInv, IndInv
  <2>10. PointerInv'
    BY <1>1, <2>1, PointerKept DEF IndInv, reqVars, dpVars, inVars, outVars
  <2> QED
    BY <1>2, <2>3, <2>4, <2>5, <2>6, <2>8, <2>9, <2>10 DEF IndInv, TypeOK
<1> QED BY <1>4, <1>5 DEF SendHeaders

OutMatch ==
    <<outputDataProcessor, dataProcessorArgs>> \in
       {<<"raw", "ODPArgsRaw">>, <<"chunked", "ODPArgsChunked">>}

\* The head is out: a request without a body waits for its response, one with
\* a body gets the output processor its headers ask for.
LEMMA HeadersSentStep == IndInv /\ HeadersSent => IndInv'
<1> SUFFICES ASSUME IndInv, HeadersSent PROVE IndInv' OBVIOUS
<1>1. /\ pc = "loop" /\ curState = "SENDING_HEADERS"
      /\ UNCHANGED <<reqVars, inVars, processed, srvVars, requests>>
  BY DEF HeadersSent, Throws, appVars
<1>2. RequestOK' /\ ServerOK' BY <1>1, Kept
<1>3. processed = 0 /\ processed' = 0 BY <1>1, InLoop
<1>4. PieceInv' BY <1>1 DEF PieceInv, IndInv, inVars
<1>5. ASSUME NEW s \in {"RECVING_HEADERS", "SENDING_DATA", "ABORTED"},
             NEW err \in ExitCodes, Enter(s, err),
             s = "SENDING_DATA" => OutMatch',
             s = "RECVING_HEADERS" /\ httpMethod \in Uploads => OutMatch',
             outputDataProcessor' \in {NULL, "raw", "chunked"},
             ODPArgsRaw' \in [fileSz : Nat, done : Nat]
      PROVE  IndInv'
  <2>1. /\ ControlOK' /\ FlowInv' /\ BufferOK' /\ BufferInv' /\ StatusInv'
        /\ curState' = s
    BY <1>3, <1>5, Entered DEF CStates
  <2>2. ArgsOK' BY <1>1, <1>5 DEF ArgsOK, IndInv, TypeOK, inVars
  <2>3. PointerInv'
    BY <1>1, <1>5, <2>1 DEF PointerInv, ArgsMatch, OutMatch, reqVars
  <2> QED BY <1>2, <1>4, <2>1, <2>2, <2>3 DEF IndInv, TypeOK
<1>6. CASE httpMethod \in Bodiless
  <2>1. Enter("RECVING_HEADERS", smExitError) /\ UNCHANGED <<outVars, dataProcessorArgs>>
    BY <1>6 DEF HeadersSent, Bodiless, Uploads
  <2>2. httpMethod \notin Uploads BY <1>6 DEF Bodiless, Uploads
  <2>3. /\ outputDataProcessor' \in {NULL, "raw", "chunked"}
        /\ ODPArgsRaw' \in [fileSz : Nat, done : Nat]
    BY <2>1 DEF IndInv, TypeOK, ArgsOK, outVars
  <2> QED BY <1>1, <1>5, <2>1, <2>2, <2>3, InLoop
<1>7. CASE AttachODP
  <2> DEFINE cl == HeaderGet("cl")
             te == HasHeader("te")
             ex == HasHeader("expect")
  <2>1. cl \in Int BY <1>1, InLoop, HeaderGetInt
  <2>2. ODPArgsRaw \in [fileSz : Nat, done : Nat] BY DEF IndInv, TypeOK, ArgsOK
  <2>3. PICK err \in ExitCodes, s \in {"RECVING_HEADERS", "SENDING_DATA", "ABORTED"} :
          /\ Enter(s, err)
          /\ \/ /\ s = "ABORTED" /\ outputDataProcessor' \in {NULL, "raw"}
                /\ ODPArgsRaw' = ODPArgsRaw \/ (cl >= 0 /\ ODPArgsRaw' = [fileSz |-> cl, done |-> 0])
             \/ /\ cl >= 0 /\ ODPArgsRaw' = [fileSz |-> cl, done |-> 0]
                /\ outputDataProcessor' = "raw" /\ dataProcessorArgs' = "ODPArgsRaw"
             \/ /\ UNCHANGED ODPArgsRaw
                /\ outputDataProcessor' = "chunked" /\ dataProcessorArgs' = "ODPArgsChunked"
    <3>0. /\ smExitError \in ExitCodes /\ "100" \in ExitCodes
          /\ "INVALIDREQHEADERS" \in ExitCodes
      BY <1>1, InLoop DEF ExitCodes, Status
    <3>1. CASE cl = Malformed BY <1>7, <3>0, <3>1 DEF AttachODP, Malformed, NotFound
    <3>2. CASE cl >= 0 BY <1>7, <2>1, <3>0, <3>2 DEF AttachODP, Malformed, NotFound
    <3>3. CASE cl = NotFound /\ te BY <1>7, <3>0, <3>3 DEF AttachODP, Malformed, NotFound
    <3>4. CASE cl = NotFound /\ ~te BY <1>7, <3>0, <3>4 DEF AttachODP, Malformed, NotFound
    <3> QED BY <1>7, <3>1, <3>2, <3>3, <3>4 DEF AttachODP
  <2> HIDE DEF cl, te, ex
  <2>4. ODPArgsRaw' \in [fileSz : Nat, done : Nat] BY <2>1, <2>2, <2>3
  <2>5. s # "ABORTED" => OutMatch' BY <2>3 DEF OutMatch
  <2>6. outputDataProcessor' \in {NULL, "raw", "chunked"} BY <2>3
  <2> QED BY <1>5, <2>3, <2>4, <2>5, <2>6
<1> QED BY <1>6, <1>7 DEF HeadersSent

\* A read appends what fits.
LEMMA ReceiveBuffer ==
  ASSUME IndInv, pc = "loop", NEW n \in Readable, Receive(n)
  PROVE  /\ workingBuffer' \in Seq(Token)
         /\ workingBuffer' = workingBuffer \o SubSeq(wire, 1, n)
         /\ Len(workingBuffer') \in Nat
         /\ Len(workingBuffer) <= Len(workingBuffer')
         /\ Len(workingBuffer') <= WB_TOT
         /\ wire' \in Seq(Token)
<1>1. wire \in Seq(Token) BY DEF IndInv, TypeOK, ServerOK
<1>2. Len(wire) \in Nat BY <1>1
<1>3. /\ workingBuffer \in Seq(Token) /\ Len(workingBuffer) \in Nat
      /\ Len(workingBuffer) <= WB_TOT /\ WB_TOT \in Nat
  BY InLoop
<1>4. n \in 1 .. Len(wire) /\ Len(workingBuffer) + n <= WB_TOT
  BY <1>2, <1>3 DEF Readable, MinOf, FreeSz
<1>5. n \in 0 .. Len(wire) /\ n \in Nat BY <1>2, <1>4
<1>6. Take(wire, n) \in Seq(Token) /\ Len(Take(wire, n)) = n BY <1>1, <1>5, TakeSeq
<1>7. Drop(wire, n) \in Seq(Token) BY <1>1, <1>5, DropSeq
<1> DEFINE t == Take(wire, n)
<1>8. t \in Seq(Token) /\ Len(t) = n BY <1>6
<1>9. workingBuffer' = workingBuffer \o t /\ wire' = Drop(wire, n) BY DEF Receive
<1> HIDE DEF t
<1>10. workingBuffer \o t \in Seq(Token)
       /\ Len(workingBuffer \o t) = Len(workingBuffer) + n
  BY <1>3, <1>8, ConcatProperties
<1>11. Len(workingBuffer') = Len(workingBuffer) + n /\ workingBuffer' \in Seq(Token)
  BY <1>9, <1>10
<1> QED BY <1>3, <1>4, <1>5, <1>7, <1>9, <1>11 DEF t, Take

\* A read that fails or brings nothing.
LEMMA NoRead ==
  ASSUME IndInv, pc = "loop", subscribedEvent = "READ",
         ReadFails \/ ReadNothing,
         UNCHANGED <<httpMethod, smAPICallArgs, dpVars, processed, serving, msg, requests>>
  PROVE  IndInv'
<1>1. processed = 0 /\ processed' = 0 BY InLoop
<1>2. UNCHANGED <<wire, httpResponseStatusCode>> BY DEF ReadFails, ReadNothing
<1>3. RequestOK' BY <1>2 DEF RequestOK, IndInv, TypeOK
<1>4. ServerOK' BY <1>2 DEF ServerOK, IndInv, TypeOK
<1>5. ArgsOK' /\ PieceInv' BY Kept
<1>6. CASE Enter("DISCONNECTED", "CONNECTION")
  <2>1. /\ ControlOK' /\ FlowInv' /\ BufferOK' /\ BufferInv' /\ StatusInv'
        /\ curState' = "DISCONNECTED"
    BY <1>1, <1>6, Entered DEF CStates, ExitCodes
  <2>2. PointerInv'
    BY <2>1, PointerKept DEF IndInv, dpVars, inVars, outVars
  <2> QED BY <1>3, <1>4, <1>5, <2>1, <2>2 DEF IndInv, TypeOK
<1>7. CASE Stay("READ") /\ UNCHANGED wbVars
  <2>1. UNCHANGED <<curState, subscribedEvent, smExitError, timed, expired, pc>>
    BY <1>7 DEF Stay
  <2>2. UNCHANGED smVars BY <2>1 DEF smVars
  <2>3. ControlOK' /\ FlowInv' /\ BufferOK' /\ BufferInv'
    BY <1>7, <2>1, <2>2, Kept
  <2>4. StatusInv' BY <1>2, <2>1 DEF StatusInv, IndInv
  <2>5. PointerInv'
    BY <2>1, PointerKept DEF IndInv, dpVars, inVars, outVars
  <2> QED BY <1>3, <1>4, <1>5, <2>3, <2>4, <2>5 DEF IndInv, TypeOK
<1> QED BY <1>6, <1>7 DEF ReadFails, ReadNothing

\* Reading a response's head: it is waited for, refused, or found whole.
LEMMA ReadHeadersStep == IndInv /\ ReadHeaders => IndInv'
<1> SUFFICES ASSUME IndInv, ReadHeaders PROVE IndInv' OBVIOUS
<1>1. /\ pc = "loop" /\ curState = "RECVING_HEADERS" /\ subscribedEvent = "READ"
      /\ UNCHANGED <<httpMethod, smAPICallArgs, dpVars, processed, serving, msg, requests>>
  BY DEF ReadHeaders, Throws, appVars
<1>2. CASE ReadFails \/ ReadNothing BY <1>1, <1>2, NoRead
<1>3. ASSUME NEW n \in Readable, Receive(n),
        LET s == workingBuffer \o Take(wire, n) IN
        \/ /\ HeadEnd(s) = {} /\ Len(s) < WB_TOT
           /\ Stay("READ") /\ UNCHANGED <<left, httpResponseStatusCode>>
        \/ /\ HeadEnd(s) = {} /\ Len(s) = WB_TOT
           /\ Refuse("WORKBUFSMALL")
        \/ /\ HeadEnd(s) # {} /\ ~HeadValid(s)
           /\ Refuse("RESPFORMAT")
        \/ /\ HeadEnd(s) # {} /\ HeadValid(s)
           /\ httpResponseStatusCode' = s[HeadLen(s)].reply.status
           /\ left' = HeadLen(s)
           /\ Stay("PROCESS")
      PROVE IndInv'
  <2> DEFINE s == workingBuffer \o Take(wire, n)
  <2>1. /\ s = workingBuffer' /\ s \in Seq(Token) /\ Len(s) \in Nat
        /\ Len(workingBuffer) <= Len(s) /\ Len(s) <= WB_TOT
        /\ wire' \in Seq(Token)
    BY <1>1, <1>3, ReceiveBuffer DEF Receive
  <2>2. processed = 0 /\ processed' = 0 BY <1>1, InLoop
  <2>3. ServerOK' BY <1>1, <2>1 DEF ServerOK, IndInv, TypeOK
  <2>4. ArgsOK' /\ PieceInv' BY <1>1, Kept
  <2>5. left \in Nat /\ left <= Len(workingBuffer) /\ Len(workingBuffer) \in Nat
        /\ WB_TOT \in Nat
    BY <1>1, InLoop
  <2>6. CASE /\ Len(s) < WB_TOT
             /\ Stay("READ") /\ UNCHANGED <<left, httpResponseStatusCode>>
    <3>1. UNCHANGED <<curState, subscribedEvent, smExitError, timed, expired, pc>>
      BY <1>1, <2>6 DEF Stay
    <3>2. ControlOK' /\ FlowInv' BY <3>1, Kept DEF smVars
    <3>3. StatusInv' BY <2>6, <3>1 DEF StatusInv, IndInv
    <3>4. RequestOK' BY <1>1, <2>6 DEF RequestOK, IndInv, TypeOK
    <3>5. left' = left BY <2>6
    <3>6. left' <= Len(workingBuffer') BY <2>1, <2>5, <3>5
    <3>7. BufferOK' BY <2>1, <2>2, <2>5, <3>5, <3>6 DEF BufferOK
    <3>8. BufferInv'
      <4>1. FreeSz' > 0 BY <2>1, <2>5, <2>6 DEF FreeSz
      <4> HIDE DEF s
      <4> QED BY <1>1, <2>1, <2>2, <2>5, <3>1, <3>5, <3>6, <4>1 DEF BufferInv
    <3>9. PointerInv' BY <1>1, <3>1, PointerKept DEF IndInv, dpVars, inVars, outVars
    <3> QED BY <2>3, <2>4, <3>2, <3>3, <3>4, <3>7, <3>8, <3>9 DEF IndInv, TypeOK
  <2>7. CASE Refuse("WORKBUFSMALL") \/ Refuse("RESPFORMAT")
    <3>1. PICK err \in {"WORKBUFSMALL", "RESPFORMAT"} :
             /\ EnterSM("ABORTED", err, Infinite)
             /\ UNCHANGED <<left, httpResponseStatusCode>>
      BY <2>7 DEF Refuse
    <3>2. err \in ExitCodes /\ Infinite \in Nat /\ "ABORTED" \in CStates
      BY DEF ExitCodes, Infinite, CStates
    <3>3. ControlOK' /\ FlowInv' /\ curState' = "ABORTED" /\ subscribedEvent' = EntryEvent("ABORTED")
      BY <3>1, <3>2, EnterControl
    <3>4. subscribedEvent' = "NONE" BY <3>3 DEF EntryEvent
    <3>5. StatusInv' BY <3>3 DEF StatusInv
    <3>6. RequestOK' BY <1>1, <3>1 DEF RequestOK, IndInv, TypeOK
    <3>7. left' <= Len(workingBuffer') BY <2>1, <2>5, <3>1
    <3>8. BufferOK' BY <2>1, <2>2, <2>5, <3>1, <3>7 DEF BufferOK
    <3>9. BufferInv'
      <4> HIDE DEF s
      <4> QED BY <2>1, <2>2, <2>5, <3>1, <3>3, <3>4, <3>7 DEF BufferInv
    <3>10. PointerInv' BY <1>1, <3>3, PointerKept DEF IndInv, dpVars, inVars, outVars
    <3> QED BY <2>3, <2>4, <3>3, <3>5, <3>6, <3>8, <3>9, <3>10 DEF IndInv, TypeOK
  <2>8. CASE /\ HeadEnd(s) # {}
             /\ httpResponseStatusCode' = s[HeadLen(s)].reply.status
             /\ left' = HeadLen(s)
             /\ Stay("PROCESS")
    <3> HIDE DEF s
    <3>1. HeadLen(s) \in 1 .. Len(s) /\ s[HeadLen(s)].k = "end" BY <2>1, <2>8, HeadLenIn
    <3>2. s[HeadLen(s)] \in Token BY <2>1, <3>1
    <3>3. s[HeadLen(s)].reply \in Reply BY <3>1, <3>2, TokenFields
    <3>4. httpResponseStatusCode' \in Status BY <2>8, <3>3 DEF Reply
    <3>5. /\ subscribedEvent' = "PROCESS"
          /\ UNCHANGED <<curState, smExitError, timed, expired, pc>>
      BY <2>8 DEF Stay
    <3>6. ControlOK' BY <3>5 DEF ControlOK, IndInv, TypeOK
    <3>7. FlowInv' BY <1>1, <3>5 DEF FlowInv, IndInv, Handled
    <3>8. StatusInv' BY <3>4 DEF StatusInv
    <3>9. RequestOK' BY <1>1, <3>4 DEF RequestOK, IndInv, TypeOK
    <3>10. left' \in 1 .. Len(workingBuffer') /\ workingBuffer'[left'].k = "end"
      BY <2>1, <2>8, <3>1
    <3>11. BufferOK' BY <2>1, <2>2, <3>10 DEF BufferOK
    <3>12. BufferInv'
      BY <1>1, <2>1, <2>2, <2>5, <3>5, <3>10 DEF BufferInv
    <3>13. PointerInv' BY <1>1, <3>5, PointerKept DEF IndInv, dpVars, inVars, outVars
    <3> QED
      BY <2>3, <2>4, <3>6, <3>7, <3>8, <3>9, <3>11, <3>12, <3>13 DEF IndInv, TypeOK
  <2> HIDE DEF s
  <2>9. \/ /\ HeadEnd(s) = {} /\ Len(s) < WB_TOT
           /\ Stay("READ") /\ UNCHANGED <<left, httpResponseStatusCode>>
        \/ Refuse("WORKBUFSMALL") \/ Refuse("RESPFORMAT")
        \/ /\ HeadEnd(s) # {}
           /\ httpResponseStatusCode' = s[HeadLen(s)].reply.status
           /\ left' = HeadLen(s)
           /\ Stay("PROCESS")
    BY <1>3 DEF s
  <2> QED BY <2>6, <2>7, <2>8, <2>9
<1> QED BY <1>2, <1>3 DEF ReadHeaders

InMatch ==
    <<inputDataProcessor, dataProcessorArgs>> \in
       {<<"raw", "IDPArgsRaw">>, <<"chunked", "IDPArgsChunked">>}

WsMatch == <<inputDataProcessor, dataProcessorArgs>> = <<"websocket", "IDPArgsWebsocket">>

\* A frame processor that is attached anew has arguments of its type.
LEMMA WsRestart ==
  ASSUME NEW a \in WebsocketArgs
  PROVE  /\ [a EXCEPT !.state = 1, !.frameID = 0] \in WebsocketArgs
         /\ [a EXCEPT !.state = 1, !.frameID = 0].state = 1
<1>1. 0 \in 0 .. UINT8 - 1 BY DEF UINT8
<1> QED BY <1>1 DEF WebsocketArgs

\* The processors a response can attach are well-formed and at their start.
LEMMA Attached ==
  ASSUME IndInv, UNCHANGED outVars,
         \/ SameDP
         \/ \E n \in Nat : Raw(n)
         \/ Chunked
         \/ Upgraded
         \/ /\ inputDataProcessor' = "raw"
            /\ UNCHANGED <<IDPArgsRaw, IDPArgsChunked, IDPArgsWebsocket, dataProcessorArgs>>
  PROVE  ArgsOK' /\ PieceInv'
<1> USE DEF IndInv, TypeOK, ArgsOK, PieceInv, outVars
<1>1. CASE SameDP BY <1>1 DEF SameDP, inVars
<1>2. ASSUME NEW n \in Nat, Raw(n) PROVE ArgsOK' /\ PieceInv' BY <1>2 DEF Raw
<1>3. CASE Chunked BY <1>3 DEF Chunked
<1>4. CASE Upgraded
  <2>1. IDPArgsWebsocket' = [IDPArgsWebsocket EXCEPT !.state = 1, !.frameID = 0]
    BY <1>4 DEF Upgraded
  <2>2. IDPArgsWebsocket' \in WebsocketArgs /\ IDPArgsWebsocket'.state = 1
    BY <2>1, WsRestart
  <2> QED BY <1>4, <2>2 DEF Upgraded
<1>5. CASE /\ inputDataProcessor' = "raw"
           /\ UNCHANGED <<IDPArgsRaw, IDPArgsChunked, IDPArgsWebsocket, dataProcessorArgs>>
  BY <1>5
<1> QED BY <1>1, <1>2, <1>3, <1>4, <1>5

\* What each rule for the framing of a body does: the state it enters and
\* the processor it attaches.
Framed(s, err) ==
    /\ Enter(s, err)
    /\ \/ SameDP
       \/ \E n \in Nat : Raw(n)
       \/ Chunked
       \/ Upgraded
       \/ /\ inputDataProcessor' = "raw"
          /\ UNCHANGED <<IDPArgsRaw, IDPArgsChunked, IDPArgsWebsocket, dataProcessorArgs>>
    /\ s = "RECVING_DATA" => InMatch'
    /\ s = "WS_CONNECTED" => WsMatch'
    /\ s = "SENDING_DATA" => SameDP /\ httpMethod \in Uploads

\* A response's head decides what happens next, and the pointer to the
\* processors' arguments follows the decision.
LEMMA ProcessResponseStep == IndInv /\ ProcessResponse => IndInv'
<1> SUFFICES ASSUME IndInv, ProcessResponse PROVE IndInv' OBVIOUS
<1>1. /\ pc = "loop" /\ curState = "RECVING_HEADERS" /\ subscribedEvent = "PROCESS"
      /\ UNCHANGED <<reqVars, outVars, processed, srvVars, requests>>
  BY DEF ProcessResponse, Throws, appVars
<1>2. RequestOK' /\ ServerOK' BY <1>1, Kept
<1>3. processed = 0 /\ processed' = 0 BY <1>1, InLoop
<1>4. Parsed \in Reply
  <2>1. left > 0 /\ workingBuffer[left].k = "end" BY <1>1 DEF IndInv, BufferInv
  <2>2. left \in 1 .. Len(workingBuffer) BY <1>1, <2>1, InLoop
  <2>3. workingBuffer[left] \in Token BY <1>1, <2>2, InLoop
  <2> QED BY <2>1, <2>3, TokenFields DEF Parsed
<1>5. httpResponseStatusCode \in Status BY <1>1 DEF IndInv, StatusInv
<1>6. Parsed.cl \in Int BY <1>4 DEF Reply
<1>e. /\ httpResponseStatusCode \in ExitCodes /\ smExitError \in ExitCodes
      /\ "TEMPBUFSMALL" \in ExitCodes /\ "RESPFORMAT" \in ExitCodes
      /\ "100" \in ExitCodes /\ "101" \in ExitCodes
  BY <1>1, <1>5, InLoop DEF ExitCodes, Status
<1>7. \E s \in {"ABORTED", "HTTP_CONNECTED", "RECVING_DATA", "WS_CONNECTED", "SENDING_DATA"},
         err \in ExitCodes : Framed(s, err)
  <2>a. \A n \in Nat : Raw(n) => InMatch' BY DEF Raw, InMatch
  <2>b. Chunked => InMatch' BY DEF Chunked, InMatch
  <2>c. Upgraded => WsMatch' BY DEF Upgraded, WsMatch
  <2>d. 0 \in Nat /\ Infinite \in Nat BY DEF Infinite
  <2>1. CASE Parsed.cl # NotFound /\ FrameByLength(Parsed)
    <3>1. CASE SameDP /\ Enter("ABORTED", "TEMPBUFSMALL") BY <1>e, <3>1 DEF Framed
    <3>2. CASE SameDP /\ Enter("HTTP_CONNECTED", httpResponseStatusCode)
      BY <1>e, <3>2 DEF Framed
    <3>3. CASE /\ inputDataProcessor' = "raw"
               /\ UNCHANGED <<IDPArgsRaw, IDPArgsChunked, IDPArgsWebsocket, dataProcessorArgs>>
               /\ Enter("ABORTED", "RESPFORMAT")
      BY <1>e, <3>3 DEF Framed
    <3>4. CASE Parsed.cl >= 0 /\ Raw(Parsed.cl) /\ Enter("RECVING_DATA", smExitError)
      <4>1. Parsed.cl \in Nat BY <1>6, <3>4
      <4> QED BY <1>e, <2>a, <3>4, <4>1 DEF Framed
    <3> QED BY <2>1, <3>1, <3>2, <3>3, <3>4 DEF FrameByLength
  <2>2. CASE FrameByChunks(Parsed)
    <3>1. CASE SameDP /\ Enter("HTTP_CONNECTED", httpResponseStatusCode)
      BY <1>e, <3>1 DEF Framed
    <3>2. CASE Chunked /\ Enter("RECVING_DATA", smExitError)
      BY <1>e, <2>b, <3>2 DEF Framed
    <3>3. CASE SameDP /\ Enter("ABORTED", "TEMPBUFSMALL") BY <1>e, <3>3 DEF Framed
    <3> QED BY <2>2, <3>1, <3>2, <3>3 DEF FrameByChunks
  <2>3. CASE FrameByStatus(Parsed)
    <3>1. CASE (Raw(Infinite) \/ Raw(0)) /\ Enter("RECVING_DATA", smExitError)
      BY <1>e, <2>a, <2>d, <3>1 DEF Framed
    <3>2. CASE Upgraded /\ Enter("WS_CONNECTED", "101")
      BY <1>e, <2>c, <3>2 DEF Framed
    <3>3. CASE httpMethod \in Uploads /\ SameDP /\ Enter("SENDING_DATA", "100")
      BY <1>e, <3>3 DEF Framed
    <3> QED BY <2>3, <3>1, <3>2, <3>3 DEF FrameByStatus
  <2> QED BY <2>1, <2>2, <2>3 DEF ProcessResponse
<1>8. PICK s \in {"ABORTED", "HTTP_CONNECTED", "RECVING_DATA", "WS_CONNECTED", "SENDING_DATA"},
          err \in ExitCodes : Framed(s, err)
  BY <1>7
<1>9. /\ ControlOK' /\ FlowInv' /\ BufferOK' /\ BufferInv'
      /\ curState' = s /\ (s # "RECVING_DATA" => StatusInv')
  BY <1>3, <1>8, Entered DEF Framed, CStates
<1>10. StatusInv' BY <1>1, <1>5, <1>9 DEF StatusInv, reqVars
<1>11. ArgsOK' /\ PieceInv' BY <1>1, <1>8, Attached DEF Framed
<1>12. s = "SENDING_DATA" => OutMatch'
  <2>1. s = "SENDING_DATA" => OutMatch
    BY <1>1, <1>8 DEF Framed, OutMatch, IndInv, PointerInv
  <2>2. s = "SENDING_DATA" => UNCHANGED <<outputDataProcessor, dataProcessorArgs>>
    BY <1>1, <1>8 DEF Framed, SameDP, outVars
  <2> QED BY <2>1, <2>2 DEF OutMatch
<1>13. PointerInv'
  BY <1>8, <1>9, <1>12
  DEF PointerInv, ArgsMatch, Framed, InMatch, WsMatch, OutMatch
<1> QED BY <1>2, <1>9, <1>10, <1>11, <1>13 DEF IndInv, TypeOK

\* Reading a body or frames.
LEMMA ReadDataStep == IndInv /\ ReadData => IndInv'
<1> SUFFICES ASSUME IndInv, ReadData PROVE IndInv' OBVIOUS
<1>1. /\ pc = "loop" /\ curState \in {"RECVING_DATA", "WS_POLLING"}
      /\ subscribedEvent = "READ"
      /\ UNCHANGED <<httpMethod, smAPICallArgs, dpVars, processed, serving, msg, requests>>
  BY DEF ReadData, Throws, appVars
<1>2. CASE ReadFails \/ ReadNothing BY <1>1, <1>2, NoRead
<1>3. ASSUME NEW n \in Readable, Receive(n), subscribedEvent' = "PROCESS",
             expired' = IF curState = "RECVING_DATA" THEN FALSE ELSE expired,
             UNCHANGED <<curState, smExitError, timed, pc, left, httpResponseStatusCode>>
      PROVE  IndInv'
  <2>1. /\ workingBuffer' \in Seq(Token) /\ Len(workingBuffer') \in Nat
        /\ Len(workingBuffer) <= Len(workingBuffer')
        /\ Len(workingBuffer') <= WB_TOT /\ wire' \in Seq(Token)
    BY <1>1, <1>3, ReceiveBuffer
  <2>2. processed = 0 /\ processed' = 0 BY <1>1, InLoop
  <2>3. left \in Nat /\ left <= Len(workingBuffer) /\ Len(workingBuffer) \in Nat
    BY <1>1, InLoop
  <2>4. ServerOK' BY <1>1, <2>1 DEF ServerOK, IndInv, TypeOK
  <2>5. ArgsOK' /\ PieceInv' BY <1>1, Kept
  <2>6. ControlOK' BY <1>3 DEF ControlOK, IndInv, TypeOK
  <2>7. FlowInv' BY <1>1, <1>3 DEF FlowInv, IndInv, Handled
  <2>8. StatusInv' BY <1>1, <1>3 DEF StatusInv, IndInv
  <2>9. RequestOK' BY <1>1, <1>3 DEF RequestOK, IndInv, TypeOK
  <2>10. BufferOK' BY <1>3, <2>1, <2>2, <2>3 DEF BufferOK
  <2>11. BufferInv' BY <1>1, <1>3, <2>1, <2>2, <2>3 DEF BufferInv
  <2>12. PointerInv' BY <1>1, <1>3, PointerKept DEF IndInv, dpVars, inVars, outVars
  <2> QED
    BY <2>4, <2>5, <2>6, <2>7, <2>8, <2>9, <2>10, <2>11, <2>12 DEF IndInv, TypeOK
<1> QED BY <1>2, <1>3 DEF ReadData

\* Handing the buffer to the input processor.
LEMMA ProcessDataStep == IndInv /\ ProcessData => IndInv'
<1> SUFFICES ASSUME IndInv, ProcessData PROVE IndInv' OBVIOUS
<1>1. /\ pc = "loop" /\ curState \in {"RECVING_DATA", "WS_POLLING"}
      /\ subscribedEvent = "PROCESS" /\ pc' = "idp"
      /\ UNCHANGED <<smVars, wbVars, reqVars, dpVars, processed, srvVars, requests>>
  BY DEF ProcessData, Throws, appVars
<1>2. RequestOK' /\ ServerOK' /\ ArgsOK' /\ PieceInv' /\ BufferOK' /\ StatusInv'
  BY <1>1, Kept
<1>3. UNCHANGED <<curState, subscribedEvent, smExitError, timed, expired>>
  BY <1>1 DEF smVars
<1>4. ControlOK' BY <1>1, <1>3 DEF ControlOK, IndInv, TypeOK
<1>5. FlowInv' BY <1>1, <1>3 DEF FlowInv, IndInv
<1>6. BufferInv' BY <1>1, <1>3 DEF BufferInv, FreeSz, IndInv, wbVars
<1>7. PointerInv'
  BY <1>1, <1>3, PointerKept DEF IndInv, reqVars, dpVars, inVars, outVars
<1> QED BY <1>2, <1>4, <1>5, <1>6, <1>7 DEF IndInv, TypeOK

\* Sending a piece of the request's body.
LEMMA SendPacketStep == IndInv /\ SendPacket => IndInv'
<1> SUFFICES ASSUME IndInv, SendPacket PROVE IndInv' OBVIOUS
<1>1. /\ pc = "loop" /\ curState = "SENDING_PACKET"
      /\ UNCHANGED <<reqVars, inVars, outputDataProcessor, dataProcessorArgs, processed>>
      /\ UNCHANGED <<wire, serving, msg, requests>>
  BY DEF SendPacket, Throws, appVars
<1>2. RequestOK' BY <1>1, Kept
<1>3. processed = 0 /\ processed' = 0 BY <1>1, InLoop
<1>4. ServerOK' BY <1>1 DEF ServerOK, IndInv, TypeOK
<1>5. PieceInv' BY <1>1 DEF PieceInv, IndInv, inVars
<1>6. smAPICallArgs.n \in Nat /\ ODPArgsRaw \in [fileSz : Nat, done : Nat]
  BY DEF IndInv, TypeOK, RequestOK, ArgsOK
<1>7. PICK s \in {"RECVING_HEADERS", "SENDING_DATA", "ABORTED"}, err \in ExitCodes :
         /\ Enter(s, err)
         /\ ODPArgsRaw' = ODPArgsRaw
            \/ ODPArgsRaw' = [ODPArgsRaw EXCEPT !.done = @ + smAPICallArgs.n]
  <2>1. /\ smExitError \in ExitCodes /\ "CONTENTLENGTH" \in ExitCodes
        /\ "WRITETIMEOUT" \in ExitCodes /\ "WORKBUFSMALL" \in ExitCodes
    BY <1>1, InLoop DEF ExitCodes
  <2>2. CASE mangoODP_raw BY <2>1, <2>2 DEF mangoODP_raw, ODPDone
  <2>3. CASE mangoODP_chunked BY <2>1, <2>3 DEF mangoODP_chunked, ODPDone
  <2> QED BY <2>2, <2>3 DEF SendPacket
<1>8. ODPArgsRaw' \in [fileSz : Nat, done : Nat] BY <1>6, <1>7
<1>9. ArgsOK' BY <1>1, <1>8 DEF ArgsOK, IndInv, TypeOK, inVars
<1>10. /\ ControlOK' /\ FlowInv' /\ BufferOK' /\ BufferInv' /\ StatusInv'
       /\ curState' = s
  BY <1>3, <1>7, Entered DEF CStates
<1>11. PointerInv'
  BY <1>1, <1>10 DEF IndInv, PointerInv, ArgsMatch, inVars
<1> QED BY <1>2, <1>4, <1>5, <1>9, <1>10, <1>11 DEF IndInv, TypeOK

\* Sending a frame, or the closing one.
LEMMA SendFrameStep == IndInv /\ SendFrame => IndInv'
<1> SUFFICES ASSUME IndInv, SendFrame PROVE IndInv' OBVIOUS
<1>1. /\ pc = "loop" /\ curState \in {"WS_SENDING_FRAME", "WS_CLOSING"}
      /\ UNCHANGED <<reqVars, dpVars, processed, srvVars, requests>>
  BY DEF SendFrame, Throws, appVars
<1>2. RequestOK' /\ ArgsOK' /\ PieceInv' /\ ServerOK' BY <1>1, Kept
<1>3. processed' = 0 /\ smExitError \in ExitCodes BY <1>1, InLoop
<1>4. PICK s \in {"WS_CONNECTED", "ABORTED", "DISCONNECTED"} : Enter(s, smExitError)
  BY DEF SendFrame
<1>5. /\ ControlOK' /\ FlowInv' /\ BufferOK' /\ BufferInv' /\ StatusInv'
      /\ curState' = s
  BY <1>3, <1>4, Entered DEF CStates
<1>6. PointerInv'
  BY <1>1, <1>5 DEF IndInv, PointerInv, ArgsMatch, dpVars, inVars, outVars
<1> QED BY <1>2, <1>5, <1>6 DEF IndInv, TypeOK

-----------------------------------------------------------------------------
(***************************************************************************)
(* The input processors.                                                   *)
(***************************************************************************)

\* What the running processor has still to look at.
LEMMA RestSeq ==
  ASSUME IndInv
  PROVE  /\ Rest \in Seq(Token) /\ Len(Rest) \in Nat
         /\ Len(Rest) = Len(workingBuffer) - (left + processed)
         /\ left \in Nat /\ processed \in Nat /\ Len(workingBuffer) \in Nat
         /\ \A j \in 1 .. Len(Rest) : Rest[j] \in Token
<1>1. workingBuffer \in Seq(Token) /\ left \in 0 .. Len(workingBuffer)
      /\ processed \in 0 .. Len(workingBuffer)
  BY DEF IndInv, TypeOK, BufferOK
<1>2. left + processed <= Len(workingBuffer) BY DEF IndInv, BufferInv
<1>3. Len(workingBuffer) \in Nat BY <1>1
<1>4. left \in Nat /\ processed \in Nat /\ left + processed \in Nat BY <1>1, <1>3
<1>5. Rest \in Seq(Token) /\ Len(Rest) = Len(workingBuffer) - (left + processed)
  BY <1>1, <1>2, <1>4, DropSeq DEF Rest
<1>6. \A j \in 1 .. Len(Rest) : Rest[j] \in Token BY <1>5
<1> QED BY <1>2, <1>3, <1>4, <1>5, <1>6

\* the control and the buffer after a step of a processor
Settled ==
    /\ ControlOK' /\ FlowInv' /\ StatusInv' /\ BufferOK' /\ BufferInv'
    /\ curState' = curState
       \/ curState' \in {"ABORTED", "DISCONNECTED", "HTTP_CONNECTED"}

\* Whatever a processor returns, the calling handler leaves the control and
\* the working buffer in order.
LEMMA ReturnSettles ==
  ASSUME IndInv, pc = "idp", NEW n \in Nat, left + n <= Len(workingBuffer),
         NEW err \in {"OK", "COMPLETED", "MOREDATANEEDED", "APPABORTED",
                      "DATAPROCESSING", "WEBSOCKETCLOSED"},
         err = "COMPLETED" => curState = "RECVING_DATA",
         Return(err, n), UNCHANGED reqVars
  PROVE  Settled
<1>0. processed' = 0 BY DEF Return
<1>1. /\ curState \in {"RECVING_DATA", "WS_POLLING"} /\ subscribedEvent = "PROCESS"
      /\ curState \in CStates
  BY DEF IndInv, FlowInv, CStates
<1>2. /\ workingBuffer \in Seq(Token) /\ left \in Nat /\ Len(workingBuffer) \in Nat
      /\ left <= Len(workingBuffer) /\ Len(workingBuffer) <= WB_TOT
      /\ WB_TOT \in Nat /\ WB_TOT > 0
  <2>1. workingBuffer \in Seq(Token) /\ left \in 0 .. Len(workingBuffer)
    BY DEF IndInv, TypeOK, BufferOK
  <2>2. Len(workingBuffer) <= WB_TOT BY DEF IndInv, BufferInv
  <2>3. Len(workingBuffer) \in Nat BY <2>1
  <2> QED BY <2>1, <2>2, <2>3, MangoAssumption
<1>3. ASSUME NEW s \in {"ABORTED", "DISCONNECTED", "HTTP_CONNECTED"},
             NEW code \in ExitCodes, Enter(s, code)
      PROVE  Settled
  BY <1>0, <1>3, Entered DEF CStates, Settled
<1>4. CASE err = "OK"
  <2>1. /\ workingBuffer' = Drop(workingBuffer, left + n) /\ left' = 0
        /\ subscribedEvent' = IF Used = n THEN "READ" ELSE subscribedEvent
        /\ pc' = "loop"
        /\ UNCHANGED <<curState, smExitError, timed, expired>>
    BY <1>4 DEF Return, Consumed, Shrink
  <2>2. left + n \in Nat BY <1>2
  <2>3. /\ workingBuffer' \in Seq(Token)
        /\ Len(workingBuffer') = Len(workingBuffer) - (left + n)
    BY <1>2, <2>1, <2>2, DropSeq
  <2>4. Len(workingBuffer') \in Nat /\ Len(workingBuffer') <= WB_TOT
    BY <1>2, <2>3
  <2>5. subscribedEvent' \in {"READ", "PROCESS"} BY <1>1, <2>1
  <2>6. subscribedEvent' = "READ" => FreeSz' > 0
    BY <1>1, <1>2, <2>1, <2>3 DEF FreeSz, Used
  <2>l. left' = 0 /\ pc' = "loop" /\ UNCHANGED <<curState, smExitError, timed, expired>>
    BY <2>1
  <2>7. ControlOK' BY <2>5, <2>l DEF ControlOK, IndInv, TypeOK
  <2>8. FlowInv' BY <1>1, <2>5, <2>l DEF FlowInv, IndInv, Handled
  <2>9. StatusInv' BY <1>1, <2>l DEF StatusInv, IndInv, reqVars
  <2>10. BufferOK' BY <1>0, <2>3, <2>4, <2>l DEF BufferOK
  <2>11. BufferInv' BY <1>0, <1>1, <2>4, <2>5, <2>6, <2>l DEF BufferInv
  <2> QED BY <2>l, <2>7, <2>8, <2>9, <2>10, <2>11 DEF Settled
<1>5. CASE err = "COMPLETED"
  <2>1. Enter("HTTP_CONNECTED", httpResponseStatusCode)
    BY <1>5 DEF Return, Completed
  <2>2. httpResponseStatusCode \in ExitCodes
    BY <1>5 DEF IndInv, StatusInv, ExitCodes
  <2> QED BY <1>3, <2>1, <2>2
<1>6. CASE err = "MOREDATANEEDED"
  <2>1. CASE Enter("ABORTED", "WORKBUFSMALL") BY <1>3, <2>1 DEF ExitCodes
  <2>2. CASE /\ FreeSz > 0
             /\ subscribedEvent' = "READ" /\ pc' = "loop"
             /\ UNCHANGED <<curState, smExitError, timed, expired, wbVars>>
    <3>l. UNCHANGED <<workingBuffer, left>> BY <2>2 DEF wbVars
    <3>1. ControlOK' BY <2>2 DEF ControlOK, IndInv, TypeOK
    <3>2. FlowInv' BY <1>1, <2>2 DEF FlowInv, IndInv, Handled
    <3>3. StatusInv' BY <1>1, <2>2 DEF StatusInv, IndInv, reqVars
    <3>4. BufferOK' BY <1>0, <1>2, <3>l DEF BufferOK
    <3>5. BufferInv' BY <1>0, <1>1, <1>2, <2>2, <3>l DEF BufferInv, FreeSz
    <3> QED BY <2>2, <3>1, <3>2, <3>3, <3>4, <3>5 DEF Settled
  <2> QED BY <1>6, <2>1, <2>2 DEF Return, MoreDataNeeded
<1>7. CASE err \in {"APPABORTED", "DATAPROCESSING", "WEBSOCKETCLOSED"}
  <2>1. Failed(err) BY <1>7 DEF Return
  <2>2. err \in ExitCodes BY <1>7 DEF ExitCodes
  <2>3. Enter("DISCONNECTED", err) \/ Enter("ABORTED", err) BY <2>1 DEF Failed
  <2> QED BY <1>3, <2>2, <2>3
<1> QED BY <1>4, <1>5, <1>6, <1>7

\* Going on with the loop.
LEMMA MoveOnSettles ==
  ASSUME IndInv, pc = "idp", NEW n \in 0 .. Len(Rest), MoveOn(n), UNCHANGED reqVars
  PROVE  Settled
<1>1. /\ processed' = processed + n /\ UNCHANGED <<smVars, wbVars, pc>>
      /\ UNCHANGED <<workingBuffer, left, pc>>
      /\ UNCHANGED <<curState, subscribedEvent>>
  BY DEF MoveOn, smVars, wbVars
<1>2. ControlOK' /\ FlowInv' /\ StatusInv' BY <1>1, Kept
<1>3. workingBuffer \in Seq(Token) /\ left \in 0 .. Len(workingBuffer)
  BY DEF IndInv, TypeOK, BufferOK
<1>4. processed' \in Nat /\ left + processed' <= Len(workingBuffer)
  BY <1>1, RestSeq
<1>5. BufferOK' BY <1>1, <1>3, <1>4, RestSeq DEF BufferOK
<1>6. BufferInv' BY <1>1, <1>4 DEF BufferInv, FreeSz, IndInv
<1> QED BY <1>1, <1>2, <1>5, <1>6 DEF Settled

\* A step of a processor that settles and keeps its arguments in order keeps
\* the invariant.
LEMMA ProcessorStep ==
  ASSUME IndInv, Settled, ArgsOK', PieceInv',
         UNCHANGED <<inputDataProcessor, outputDataProcessor, dataProcessorArgs>>,
         UNCHANGED <<reqVars, srvVars, requests>>
  PROVE  IndInv'
<1>1. RequestOK' /\ ServerOK' BY Kept
<1>2. PointerInv' BY PointerKept DEF Settled, IndInv, reqVars
<1> QED BY <1>1, <1>2 DEF Settled, IndInv, TypeOK

\* What the RETURN() macro hands back.
LEMMA ReturnSoFarSettles ==
  ASSUME IndInv, pc = "idp", ReturnSoFar, UNCHANGED reqVars
  PROVE  /\ Settled /\ ArgsOK' /\ PieceInv'
         /\ UNCHANGED <<inputDataProcessor, outputDataProcessor, dataProcessorArgs>>
<1>1. Return(IF processed > 0 THEN "OK" ELSE "MOREDATANEEDED", processed)
      /\ UNCHANGED dpVars
  BY DEF ReturnSoFar
<1>2. processed \in Nat /\ left + processed <= Len(workingBuffer)
  BY RestSeq DEF IndInv, BufferInv
<1>3. Settled
  <2>1. CASE processed > 0
    <3>1. Return("OK", processed) BY <1>1, <2>1
    <3> QED BY <1>2, <3>1, ReturnSettles
  <2>2. CASE ~(processed > 0)
    <3>1. Return("MOREDATANEEDED", processed) BY <1>1, <2>2
    <3> QED BY <1>2, <3>1, ReturnSettles
  <2> QED BY <2>1, <2>2
<1> QED BY <1>1, <1>3, Kept DEF dpVars, inVars, outVars

\* What a processor that gives up hands back.
LEMMA AbortSettles ==
  ASSUME IndInv, pc = "idp", UNCHANGED reqVars, UNCHANGED dpVars,
         NEW err \in {"APPABORTED", "DATAPROCESSING", "WEBSOCKETCLOSED"},
         Return(err, processed)
  PROVE  /\ Settled /\ ArgsOK' /\ PieceInv'
         /\ UNCHANGED <<inputDataProcessor, outputDataProcessor, dataProcessorArgs>>
<1>1. processed \in Nat /\ left + processed <= Len(workingBuffer)
  BY RestSeq DEF IndInv, BufferInv
<1>2. Settled BY <1>1, ReturnSettles
<1> QED BY <1>2, Kept DEF dpVars, inVars, outVars

\* The raw processor passes on all there is.
LEMMA RawStep == IndInv /\ mangoIDP_raw => IndInv'
<1> SUFFICES ASSUME IndInv, mangoIDP_raw PROVE IndInv' OBVIOUS
<1>1. /\ pc = "idp" /\ inputDataProcessor = "raw"
      /\ UNCHANGED <<reqVars, srvVars, requests>>
  BY DEF mangoIDP_raw, appVars
<1>2. curState = "RECVING_DATA"
  BY <1>1 DEF IndInv, FlowInv, PointerInv, ArgsMatch
<1>3. /\ left \in Nat /\ processed \in Nat /\ Len(Rest) \in Nat
      /\ left + Len(Rest) <= Len(workingBuffer) /\ left + 0 <= Len(workingBuffer)
  <2>1. left + processed <= Len(workingBuffer) BY DEF IndInv, BufferInv
  <2> QED BY <2>1, RestSeq
<1>4. ASSUME UNCHANGED dpVars,
             Return("COMPLETED", 0) \/ Return("MOREDATANEEDED", 0)
      PROVE  IndInv'
  <2>1. Settled BY <1>1, <1>2, <1>3, <1>4, ReturnSettles
  <2> QED BY <1>1, <1>4, <2>1, Kept, ProcessorStep DEF dpVars, inVars, outVars
<1>5. ASSUME RawCounts(Len(Rest)),
             UNCHANGED <<inputDataProcessor, IDPArgsChunked, IDPArgsWebsocket,
                         outVars, dataProcessorArgs>>,
             NEW err \in {"COMPLETED", "OK", "APPABORTED"}, Return(err, Len(Rest))
      PROVE  IndInv'
  <2>1. Settled BY <1>1, <1>2, <1>3, <1>5, ReturnSettles
  <2>2. IDPArgsRaw' \in [fileSz : Nat, done : Nat]
    <3>1. IDPArgsRaw \in [fileSz : Nat, done : Nat] BY DEF IndInv, TypeOK, ArgsOK
    <3> QED BY <1>3, <1>5, <3>1 DEF RawCounts
  <2>3. ArgsOK' BY <1>5, <2>2 DEF ArgsOK, IndInv, TypeOK, outVars
  <2>4. PieceInv' BY <1>5 DEF PieceInv, IndInv
  <2> QED BY <1>1, <1>5, <2>1, <2>3, <2>4, ProcessorStep DEF outVars
<1>6. CASE Return("COMPLETED", 0) /\ UNCHANGED <<dpVars, got>> BY <1>4, <1>6
<1>7. CASE Return("MOREDATANEEDED", 0) /\ UNCHANGED <<dpVars, got>> BY <1>4, <1>7
<1>8. CASE /\ RawCounts(Len(Rest))
           /\ UNCHANGED <<inputDataProcessor, IDPArgsChunked, IDPArgsWebsocket,
                         outVars, dataProcessorArgs>>
           /\ \/ Return(IF IDPArgsRaw'.done = IDPArgsRaw.fileSz
                        THEN "COMPLETED" ELSE "OK", Len(Rest))
              \/ Return("APPABORTED", Len(Rest))
  <2>1. \E err \in {"COMPLETED", "OK", "APPABORTED"} : Return(err, Len(Rest))
    BY <1>8
  <2> QED BY <1>5, <1>8, <2>1
<1> QED BY <1>6, <1>7, <1>8 DEF mangoIDP_raw

ChunkArgs == [state : 1 .. 4, sz : Nat, done : Nat]

\* A step of the chunked processor that goes on.
LEMMA ChunkMoves ==
  ASSUME IndInv, pc = "idp", NEW n \in 0 .. Len(Rest), MoveOn(n), ChunkOnly,
         UNCHANGED <<reqVars, srvVars, requests>>,
         IDPArgsChunked' \in ChunkArgs,
         IDPArgsChunked'.state = 2 => IDPArgsChunked'.done < IDPArgsChunked'.sz
  PROVE  IndInv'
<1>1. Settled BY MoveOnSettles
<1>2. ArgsOK' BY DEF ArgsOK, ChunkArgs, ChunkOnly, IndInv, TypeOK, outVars
<1>3. PieceInv' BY DEF PieceInv, ChunkOnly, IndInv
<1> QED BY <1>1, <1>2, <1>3, ProcessorStep DEF ChunkOnly, outVars

\* The chunked processor never runs out of a chunk it is in the middle of.
LEMMA ChunkedStep == IndInv /\ mangoIDP_chunked => IndInv'
<1> SUFFICES ASSUME IndInv, mangoIDP_chunked PROVE IndInv' OBVIOUS
<1>1. /\ pc = "idp" /\ inputDataProcessor = "chunked"
      /\ UNCHANGED <<reqVars, srvVars, requests>>
  BY DEF mangoIDP_chunked, appVars
<1>2. curState = "RECVING_DATA"
  BY <1>1 DEF IndInv, FlowInv, PointerInv, ArgsMatch
<1>3. IDPArgsChunked \in ChunkArgs BY DEF IndInv, TypeOK, ArgsOK, ChunkArgs
<1>4. CASE ReturnSoFar BY <1>1, <1>4, ReturnSoFarSettles, ProcessorStep
<1>5. ASSUME NEW err \in {"APPABORTED", "DATAPROCESSING", "WEBSOCKETCLOSED"},
             Return(err, processed), UNCHANGED dpVars
      PROVE  IndInv'
  BY <1>1, <1>5, AbortSettles, ProcessorStep
<1>r. Rest # << >> => Len(Rest) > 0 BY RestSeq
<1>6. CASE ChunkSize
  <2>1. CASE /\ HasLine(Rest) /\ Rest[1].k = "size" /\ Rest # << >>
             /\ IDPArgsChunked' = [state |-> IF Rest[1].n > 0 THEN 2 ELSE 4,
                                   sz |-> Rest[1].n, done |-> 0]
             /\ MoveOn(LineLen(Rest)) /\ ChunkOnly
    <3>1. Rest[1] \in Token BY <1>r, <2>1, RestSeq
    <3>2. Rest[1].n \in Nat BY <2>1, <3>1, TokenFields
    <3>3. LineLen(Rest) \in 0 .. Len(Rest) BY <2>1, RestSeq, LineLenIn
    <3>4. IDPArgsChunked' \in ChunkArgs BY <2>1, <3>2 DEF ChunkArgs
    <3>5. IDPArgsChunked'.state = 2 => IDPArgsChunked'.done < IDPArgsChunked'.sz
      BY <2>1, <3>2
    <3> QED BY <1>1, <2>1, <3>3, <3>4, <3>5, ChunkMoves
  <2> QED BY <1>4, <1>5, <1>6, <2>1 DEF ChunkSize
<1>7. CASE ChunkData
  <2> DEFINE a == IDPArgsChunked
             n == MinOf(Len(Rest), a.sz - a.done)
  <2>1. a.sz \in Nat /\ a.done \in Nat /\ a.done < a.sz
    BY <1>3, <1>7 DEF ChunkArgs, ChunkData, IndInv, PieceInv
  <2>2. n \in 0 .. Len(Rest) /\ a.done + n <= a.sz /\ a.done + n \in Nat
    BY <2>1, RestSeq, SMTT(60) DEF MinOf
  <2>3. CASE /\ IDPArgsChunked' =
                  [IDPArgsChunked EXCEPT
                     !.done = @ + n,
                     !.state = IF a.sz = a.done + n THEN 3 ELSE 2]
             /\ MoveOn(n) /\ ChunkOnly
    <3> HIDE DEF n
    <3>0. \E st \in 1 .. 4 :
            /\ IDPArgsChunked' = [IDPArgsChunked EXCEPT !.done = @ + n, !.state = st]
            /\ st = 2 => a.sz # a.done + n
      <4> DEFINE st == IF a.sz = a.done + n THEN 3 ELSE 2
      <4>1. st \in 1 .. 4 /\ (st = 2 => a.sz # a.done + n) OBVIOUS
      <4>2. IDPArgsChunked' = [IDPArgsChunked EXCEPT !.done = @ + n, !.state = st]
        BY <2>3
      <4> HIDE DEF st, a
      <4> QED BY <4>1, <4>2
    <3>1. IDPArgsChunked' \in ChunkArgs BY <1>3, <2>2, <3>0 DEF ChunkArgs
    <3>2. IDPArgsChunked'.state = 2 => IDPArgsChunked'.done < IDPArgsChunked'.sz
      BY <1>3, <2>1, <2>2, <3>0 DEF ChunkArgs
    <3> QED BY <1>1, <2>2, <2>3, <3>1, <3>2, ChunkMoves
  <2>4. \/ /\ IDPArgsChunked' =
                  [IDPArgsChunked EXCEPT
                     !.done = @ + n,
                     !.state = IF a.sz = a.done + n THEN 3 ELSE 2]
           /\ MoveOn(n) /\ ChunkOnly
        \/ Return("APPABORTED", processed) /\ UNCHANGED dpVars
    BY <1>7 DEF ChunkData
  <2> HIDE DEF n, a
  <2> QED BY <1>5, <2>3, <2>4
<1>8. CASE ChunkCRLF
  <2>1. CASE /\ Len(Rest) >= 2
             /\ IDPArgsChunked' = [IDPArgsChunked EXCEPT !.state = 1]
             /\ MoveOn(2) /\ ChunkOnly
    <3>1. 2 \in 0 .. Len(Rest) BY <2>1, RestSeq
    <3>2. IDPArgsChunked' \in ChunkArgs /\ IDPArgsChunked'.state = 1
      BY <1>3, <2>1 DEF ChunkArgs
    <3> QED BY <1>1, <2>1, <3>1, <3>2, ChunkMoves
  <2> QED BY <1>4, <1>5, <1>8, <2>1 DEF ChunkCRLF
<1>9. CASE ChunkTrailer
  <2>1. CASE Return("COMPLETED", processed) /\ UNCHANGED dpVars
    <3>1. processed \in Nat /\ left + processed <= Len(workingBuffer)
      BY RestSeq DEF IndInv, BufferInv
    <3>2. Settled BY <1>1, <1>2, <2>1, <3>1, ReturnSettles
    <3> QED BY <1>1, <2>1, <3>2, Kept, ProcessorStep DEF dpVars, inVars, outVars
  <2> QED BY <1>4, <1>9, <2>1 DEF ChunkTrailer
<1> QED BY <1>4, <1>6, <1>7, <1>8, <1>9 DEF mangoIDP_chunked

\* A step of the frame processor that goes on.
LEMMA WsMoves ==
  ASSUME IndInv, pc = "idp", NEW n \in 0 .. Len(Rest), MoveOn(n), WsOnly,
         UNCHANGED <<reqVars, srvVars, requests>>,
         IDPArgsWebsocket' \in WebsocketArgs,
         IDPArgsWebsocket'.state = 2 =>
           /\ IDPArgsWebsocket'.done <= IDPArgsWebsocket'.sz
           /\ IDPArgsWebsocket'.sz <= WB_TOT => IDPArgsWebsocket'.done = 0
  PROVE  IndInv'
<1>1. Settled BY MoveOnSettles
<1>2. ArgsOK' BY DEF ArgsOK, WsOnly, IndInv, TypeOK, outVars
<1>3. PieceInv' BY DEF PieceInv, WsOnly, IndInv
<1> QED BY <1>1, <1>2, <1>3, ProcessorStep DEF WsOnly, outVars

\* The frame processor keeps count of the frame it is in.
LEMMA WebsocketStep == IndInv /\ mangoIDP_websocket => IndInv'
<1> SUFFICES ASSUME IndInv, mangoIDP_websocket PROVE IndInv' OBVIOUS
<1>1. /\ pc = "idp" /\ UNCHANGED <<reqVars, srvVars, requests>>
  BY DEF mangoIDP_websocket, appVars
<1>2. IDPArgsWebsocket \in WebsocketArgs BY DEF IndInv, TypeOK, ArgsOK
<1>3. CASE ReturnSoFar BY <1>1, <1>3, ReturnSoFarSettles, ProcessorStep
<1>4. ASSUME NEW err \in {"DATAPROCESSING", "WEBSOCKETCLOSED"}, WsAbort(err)
      PROVE  IndInv'
  BY <1>1, <1>4, AbortSettles, ProcessorStep DEF WsAbort
<1>w. WB_TOT \in Nat BY MangoAssumption
<1>5. CASE WsHeader
  <2> DEFINE h == HeaderLen(Rest)
  <2>1. CASE /\ h > 0
             /\ IDPArgsWebsocket' =
                  [IDPArgsWebsocket EXCEPT
                     !.state = 2, !.done = 0, !.sz = Rest[h].n,
                     !.op = Rest[1].op, !.fin = Rest[1].fin]
             /\ MoveOn(h) /\ WsOnly
    <3>1. /\ h \in {2, 3} /\ Len(Rest) >= h /\ Rest[1].k = "f1"
          /\ \/ Rest[h].k = "f2" /\ Rest[h].n >= 0
             \/ Rest[h].k = "fx"
      BY <2>1, RestSeq DEF HeaderLen
    <3> HIDE DEF h
    <3>2. Rest[1] \in Token /\ Rest[h] \in Token /\ h \in 0 .. Len(Rest)
      BY <3>1, RestSeq
    <3>3. Rest[h].n \in Nat BY <3>1, <3>2, TokenFields
    <3>4. Rest[1].op \in Opcodes /\ Rest[1].fin \in BOOLEAN
      BY <3>1, <3>2, TokenFields
    <3>5. IDPArgsWebsocket' \in WebsocketArgs
      BY <1>2, <2>1, <3>3, <3>4 DEF WebsocketArgs
    <3>6. IDPArgsWebsocket'.done = 0 /\ IDPArgsWebsocket'.sz \in Nat
      BY <1>2, <2>1, <3>3 DEF WebsocketArgs
    <3> QED BY <1>1, <2>1, <3>2, <3>5, <3>6, WsMoves
  <2>2. \/ ReturnSoFar \/ WsAbort("DATAPROCESSING")
        \/ /\ h > 0
           /\ IDPArgsWebsocket' =
                  [IDPArgsWebsocket EXCEPT
                     !.state = 2, !.done = 0, !.sz = Rest[h].n,
                     !.op = Rest[1].op, !.fin = Rest[1].fin]
           /\ MoveOn(h) /\ WsOnly
    BY <1>5 DEF WsHeader
  <2> HIDE DEF h
  <2> QED BY <1>3, <1>4, <2>1, <2>2
<1>6. CASE WsPayload
  <2> DEFINE a == IDPArgsWebsocket
  <2>1. /\ a.sz \in Nat /\ a.done \in Nat /\ a.done <= a.sz
        /\ a.sz <= WB_TOT => a.done = 0
    BY <1>2, <1>6 DEF WebsocketArgs, WsPayload, IndInv, PieceInv
  <2>2. CASE PieceLen <= Len(Rest) /\ IDPArgsWebsocket' = WsNext(PieceLen)
             /\ MoveOn(PieceLen) /\ WsOnly
    <3>1. /\ PieceLen \in Nat /\ a.done + PieceLen <= a.sz
          /\ a.sz <= WB_TOT => a.done + PieceLen = a.sz
      BY <1>w, <2>1, RestSeq DEF PieceLen, MinOf
    <3> DEFINE n == PieceLen
               b == WsNext(n)
    <3>2. n \in Nat /\ a.done + n <= a.sz /\ (a.sz <= WB_TOT => a.done + n = a.sz)
          /\ n \in 0 .. Len(Rest)
      BY <2>2, <3>1, RestSeq
    <3> HIDE DEF n
    <3>3. (a.frameID + 1) % UINT8 \in 0 .. UINT8 - 1 /\ a.frameID \in 0 .. UINT8 - 1
      BY <1>2 DEF WebsocketArgs, UINT8
    <3>4. /\ b.done = a.done + n /\ b.sz = a.sz
          /\ b.state = IF a.done + n = a.sz THEN 1 ELSE 2
          /\ b \in WebsocketArgs
      <4>1. \E f \in 0 .. UINT8 - 1 :
              b = [a EXCEPT !.done = @ + n,
                            !.state = IF a.done + n = a.sz THEN 1 ELSE 2,
                            !.frameID = f]
        BY <3>3 DEF WsNext
      <4>2. a.done + n \in Nat BY <2>1, <3>2
      <4> QED BY <1>2, <4>1, <4>2 DEF WebsocketArgs
    <3>5. IDPArgsWebsocket' = b /\ MoveOn(n) BY <2>2 DEF n
    <3> HIDE DEF b, a
    <3>6. b.state = 2 => b.done <= b.sz /\ (b.sz <= WB_TOT => b.done = 0)
      BY <1>w, <2>1, <3>2, <3>4
    <3> QED BY <1>1, <2>2, <3>2, <3>4, <3>5, <3>6, WsMoves
  <2> QED BY <1>3, <1>4, <1>6, <2>2 DEF WsPayload
<1> QED BY <1>3, <1>5, <1>6 DEF mangoIDP_websocket

-----------------------------------------------------------------------------
(***************************************************************************)
(* The server.                                                             *)
(***************************************************************************)

\* A step of the server touches nothing of the client.
LEMMA ServerOnly ==
  ASSUME IndInv, UNCHANGED <<smVars, wbVars, reqVars, dpVars, pc, processed>>,
         ServerOK'
  PROVE  IndInv'
<1>1. /\ RequestOK' /\ ArgsOK' /\ PieceInv' /\ ControlOK' /\ FlowInv'
      /\ BufferOK' /\ StatusInv' /\ BufferInv'
  BY Kept
<1>2. PointerInv'
  BY PointerKept DEF IndInv, smVars, reqVars, dpVars, inVars, outVars
<1> QED BY <1>1, <1>2 DEF IndInv, TypeOK

\* What the server sends is made of tokens.
LEMMA ServerTokens ==
  /\ [k |-> "start"] \in Token
  /\ \A m \in Nat : [k |-> "data", v |-> m] \in Token
  /\ \A r \in Replies, i \in Nat : [k |-> "end", reply |-> r, rid |-> i] \in Token
  /\ \A o \in Opcodes, b \in BOOLEAN : [k |-> "f1", op |-> o, fin |-> b] \in Token
  /\ \A n \in Int, b \in BOOLEAN : [k |-> "f2", mask |-> b, n |-> n] \in Token
  /\ \A n \in Nat : [k |-> "fx", n |-> n] \in Token
<1>1. [k |-> "start"] \in Token BY DEF Token, Body, Mark
<1>2. ASSUME NEW m \in Nat PROVE [k |-> "data", v |-> m] \in Token
  BY DEF Token, Body, Data
<1>3. ASSUME NEW r \in Replies, NEW i \in Nat
      PROVE  [k |-> "end", reply |-> r, rid |-> i] \in Token
  BY DEF Token, HeadToken
<1>4. ASSUME NEW o \in Opcodes, NEW b \in BOOLEAN
      PROVE  [k |-> "f1", op |-> o, fin |-> b] \in Token
  BY DEF Token, FrameToken
<1>5. ASSUME NEW n \in Int, NEW b \in BOOLEAN
      PROVE  [k |-> "f2", mask |-> b, n |-> n] \in Token
  BY DEF Token, FrameToken
<1>6. ASSUME NEW n \in Nat PROVE [k |-> "fx", n |-> n] \in Token
  BY DEF Token, FrameToken
<1> QED BY <1>1, <1>2, <1>3, <1>4, <1>5, <1>6

\* A response leaves a stream of tokens on the wire.
LEMMA AnswerTokens ==
  ASSUME ServerOK, NEW r \in Replies, Answer(r)
  PROVE  wire' \in Seq(Token)
<1> DEFINE head == <<[k |-> "start"], [k |-> "end", reply |-> r, rid |-> serving.rid]>>
           body == IF serving.method = "HEAD" THEN << >> ELSE r.body
<1>1. serving.rid \in Nat /\ wire \in Seq(Token) BY DEF ServerOK
<1>2. head \in Seq(Token)
  <2>1. [k |-> "start"] \in Token BY ServerTokens
  <2>2. [k |-> "end", reply |-> r, rid |-> serving.rid] \in Token
    BY <1>1, ServerTokens
  <2> QED BY <2>1, <2>2
<1>3. body \in Seq(Token)
  <2>1. r.body \in Seq(Body) BY MangoAssumption DEF Reply
  <2>2. Body \subseteq Token BY DEF Token
  <2>3. r.body \in Seq(Token) BY <2>1, <2>2, SeqMonotonic
  <2> QED BY <2>3
<1>4. wire' = wire \o head \o body BY DEF Answer
<1> HIDE DEF head, body
<1>5. wire \o head \in Seq(Token) BY <1>1, <1>2, ConcatProperties
<1> QED BY <1>3, <1>4, <1>5, ConcatProperties

\* The server's steps.
LEMMA ServerStep == IndInv /\ Server => IndInv'
<1> SUFFICES ASSUME IndInv, Server PROVE IndInv' OBVIOUS
<1>1. /\ ServerOK /\ wire \in Seq(Token) /\ msg \in [no : Nat, open : BOOLEAN]
      /\ msg.no \in Nat
  BY DEF IndInv, TypeOK, ServerOK
<1>2. CASE ServerReply
  <2>1. PICK r \in Replies : Answer(r) BY <1>2 DEF ServerReply
  <2>2. wire' \in Seq(Token) BY <1>1, <2>1, AnswerTokens
  <2>3. UNCHANGED <<serving, msg, requests>> BY <1>2 DEF ServerReply, appVars
  <2>4. ServerOK' BY <1>1, <2>2, <2>3 DEF ServerOK
  <2> QED BY <1>2, <2>4, ServerOnly DEF ServerReply
<1>3. CASE ServerContinue
  <2>1. PICK r \in Replies : Answer(r) BY <1>3 DEF ServerContinue
  <2>2. wire' \in Seq(Token) BY <1>1, <2>1, AnswerTokens
  <2>3. UNCHANGED <<serving, msg, requests>> BY <1>3 DEF ServerContinue, appVars
  <2>4. ServerOK' BY <1>1, <2>2, <2>3 DEF ServerOK
  <2> QED BY <1>3, <2>4, ServerOnly DEF ServerContinue
<1>4. CASE ServerFrame
  <2> DEFINE Ext(f) == CASE f.form = "short" -> << >>
                         [] f.form = "ext" -> <<[k |-> "fx", n |-> f.n]>>
                         [] f.form = "huge" -> <<[k |-> "fx", n |-> Infinite]>>
             Hdr(f) == <<[k |-> "f1", op |-> f.op, fin |-> f.fin],
                         [k |-> "f2", mask |-> f.mask,
                          n |-> IF f.form = "short" THEN f.n ELSE -1]>>
             Pay(f) == [j \in 1 .. f.n |-> [k |-> "data", v |-> msg.no]]
  <2>1. PICK f \in Frames :
          /\ wire' = wire \o Hdr(f) \o Ext(f) \o Pay(f)
          /\ msg' = IF f.op \in Control THEN msg
                    ELSE IF f.fin THEN [no |-> msg.no + 1, open |-> FALSE]
                    ELSE [msg EXCEPT !.open = TRUE]
    BY <1>4 DEF ServerFrame
  <2>2. /\ f.op \in Opcodes /\ f.fin \in BOOLEAN /\ f.mask \in BOOLEAN
        /\ f.n \in Nat /\ f.form \in {"short", "ext", "huge"}
    BY MangoAssumption DEF Frame
  <2>3. Hdr(f) \in Seq(Token)
    <3> DEFINE n == IF f.form = "short" THEN f.n ELSE -1
    <3>1. n \in Int BY <2>2
    <3> HIDE DEF n
    <3>2. [k |-> "f2", mask |-> f.mask, n |-> n] \in Token
      BY <2>2, <3>1, ServerTokens
    <3>3. [k |-> "f1", op |-> f.op, fin |-> f.fin] \in Token BY <2>2, ServerTokens
    <3>4. <<[k |-> "f1", op |-> f.op, fin |-> f.fin],
            [k |-> "f2", mask |-> f.mask, n |-> n]>> \in Seq(Token)
      BY <3>2, <3>3
    <3> QED BY <3>4 DEF n
  <2>4. Ext(f) \in Seq(Token)
    <3>1. [k |-> "fx", n |-> f.n] \in Token BY <2>2, ServerTokens
    <3>2. [k |-> "fx", n |-> Infinite] \in Token
      <4>1. Infinite \in Nat BY DEF Infinite
      <4> QED BY <4>1, ServerTokens
    <3> QED BY <2>2, <3>1, <3>2
  <2>5. Pay(f) \in Seq(Token)
    <3>1. [k |-> "data", v |-> msg.no] \in Token BY <1>1, ServerTokens
    <3>2. Pay(f) \in [1 .. f.n -> Token] BY <3>1
    <3> QED BY <2>2, <3>2, SeqOfLen
  <2>6. wire' \in Seq(Token)
    <3> HIDE DEF Hdr, Ext, Pay
    <3>1. wire \o Hdr(f) \in Seq(Token) BY <1>1, <2>3, ConcatProperties
    <3>2. wire \o Hdr(f) \o Ext(f) \in Seq(Token)
      BY <2>4, <3>1, ConcatProperties
    <3>3. wire \o Hdr(f) \o Ext(f) \o Pay(f) \in Seq(Token)
      BY <2>5, <3>2, ConcatProperties
    <3> QED BY <2>1, <3>3
  <2>7. msg' \in [no : Nat, open : BOOLEAN]
    <3>1. CASE f.op \in Control BY <1>1, <2>1, <3>1
    <3>2. CASE f.op \notin Control /\ f.fin
      <4>1. msg' = [no |-> msg.no + 1, open |-> FALSE] BY <2>1, <3>2
      <4> QED BY <1>1, <4>1
    <3>3. CASE f.op \notin Control /\ ~f.fin
      <4>1. msg' = [msg EXCEPT !.open = TRUE] BY <2>1, <3>3
      <4> QED BY <1>1, <4>1
    <3> QED BY <3>1, <3>2, <3>3
  <2>8. UNCHANGED <<serving, requests>> BY <1>4 DEF ServerFrame, appVars
  <2>9. ServerOK' BY <1>1, <2>6, <2>7, <2>8 DEF ServerOK
  <2> QED BY <1>4, <2>9, ServerOnly, SMTT(60) DEF ServerFrame
<1> QED BY <1>2, <1>3, <1>4 DEF Server

-----------------------------------------------------------------------------
(***************************************************************************)
(* The theorems.                                                           *)
(***************************************************************************)

\* A client that has just connected.
LEMMA InitHolds == Init => IndInv
<1> SUFFICES ASSUME Init PROVE IndInv OBVIOUS
<1>1. workingBuffer = << >> /\ left = 0 /\ processed = 0 /\ wire = << >>
  BY DEF Init
<1>2. WB_TOT \in Nat \ {0} BY MangoAssumption
<1>3. ControlOK BY DEF Init, ControlOK, CStates, ExitCodes
<1>4. RequestOK BY DEF Init, RequestOK, NoCall, CallNames
<1>5. BufferOK /\ Len(workingBuffer) = 0 BY <1>1 DEF BufferOK
<1>6. ArgsOK
  <2>1. IDPArgsWebsocket \in WebsocketArgs
    BY DEF Init, WebsocketArgs, Opcodes, UINT8
  <2> QED BY <2>1 DEF Init, ArgsOK
<1>7. ServerOK BY DEF Init, ServerOK
<1>8. FlowInv /\ StatusInv BY DEF Init, FlowInv, StatusInv, Idle
<1>9. BufferInv BY <1>1, <1>2, <1>5 DEF Init, BufferInv
<1>10. PieceInv
  <2>1. IDPArgsChunked.state = 1 /\ IDPArgsWebsocket.state = 1 BY DEF Init
  <2> QED BY <2>1 DEF PieceInv
<1>11. PointerInv BY DEF Init, PointerInv, ArgsMatch
<1> QED BY <1>3, <1>4, <1>5, <1>6, <1>7, <1>8, <1>9, <1>10, <1>11 DEF IndInv, TypeOK

\* Every step of the application, the client, the server and the clock keeps
\* the inductive invariant.
LEMMA IndInvStep == IndInv /\ [Next]_vars => IndInv'
<1> SUFFICES ASSUME IndInv, [Next]_vars PROVE IndInv' OBVIOUS
<1>1. CASE Handlers
  BY <1>1, TimeoutStep, SendHeadersStep, HeadersSentStep, ReadHeadersStep,
     ProcessResponseStep, ReadDataStep, ProcessDataStep, SendPacketStep,
     SendFrameStep DEF Handlers
<1>2. CASE InputProcessors
  BY <1>2, RawStep, ChunkedStep, WebsocketStep DEF InputProcessors
<1>3. CASE Application BY <1>3, ApplicationStep
<1>4. CASE Server BY <1>4, ServerStep
<1>5. CASE Tick BY <1>5, TickStep
<1>6. CASE UNCHANGED vars
  <2>1. UNCHANGED <<smVars, wbVars, reqVars, dpVars, pc, processed>>
    BY <1>6 DEF vars
  <2>2. UNCHANGED <<srvVars, requests>> BY <1>6 DEF vars, appVars
  <2>3. ServerOK' BY <2>2, Kept
  <2> QED BY <2>1, <2>3, ServerOnly
<1> QED BY <1>1, <1>2, <1>3, <1>4, <1>5, <1>6 DEF Next, Client

\* The inductive invariant holds throughout.
LEMMA IndInvHolds == Spec => []IndInv
<1>1. Init => IndInv BY InitHolds
<1>2. IndInv /\ [Next]_vars => IndInv' BY IndInvStep
<1> QED BY <1>1, <1>2, PTL DEF Spec

\* The fields of mangoHttpClient_t keep their types whatever the server sends
\* and however it is cut into reads: a processor's progress is never more than
\* the working buffer holds, the counters of a chunk or a frame are never
\* negative, the frame ID stays a byte.
THEOREM ClientTypes == Spec => []TypeOK
<1>1. IndInv => TypeOK BY DEF IndInv
<1> QED BY <1>1, IndInvHolds, PTL

\* No MANGO_ENSURE of mangoSM.c and mangoDP.c fails, for any size of the
\* working buffer, any requests and any replies and frames: no event without
\* a case, no index out of the buffer, no read without room for it.
THEOREM EnsuresAlwaysHold == Spec => []EnsuresHold
<1>1. IndInv => EnsuresHold
  <2> SUFFICES ASSUME IndInv PROVE EnsuresHold OBVIOUS
  <2>1. left <= Len(workingBuffer) BY DEF IndInv, TypeOK, BufferOK
  <2> QED BY <2>1 DEF IndInv, FlowInv, BufferInv, PieceInv, EnsuresHold
<1> QED BY <1>1, IndInvHolds, PTL

\* Whenever a data processor can be called, the untyped dataProcessorArgs
\* points to its own arguments: an interim 100 that returns to sending data
\* finds the output processor's still there.
THEOREM ArgsAlwaysMatch == Spec => []ArgsMatch
<1>1. IndInv => ArgsMatch BY DEF IndInv, PointerInv
<1> QED BY <1>1, IndInvHolds, PTL
=============================================================================
