-------------------------- MODULE MangoAppsProofs --------------------------
(***************************************************************************)
(* What holds of the port layer and of the programs on it for any          *)
(* timeouts, clock values, buffers, payloads and behaviour of the peer.    *)
(***************************************************************************)
EXTENDS MangoApps, SequenceTheorems, TLAPS

-----------------------------------------------------------------------------
(***************************************************************************)
(* Resources.                                                              *)
(***************************************************************************)

\* Where a program is connected and no frame is being written.
Quiet == {"new", "auth", "headers", "sending", "reading", "upload", "packet",
          "ending", "poll", "polling", "answering", "frame1", "frame2",
          "disconnect"}

\* What a program that has its certificates, or none, may hold.
CertsOK ==
    /\ certs = NoCerts \/ certs \subseteq {"cacrt", "cert", "key"}
    /\ moved \in BOOLEAN /\ (moved => "cacrt" \in certs)

\* What HeldInv says of a state, one fact a conjunct.
LEMMA HeldIs ==
  HeldInv =>
    /\ ~misuse /\ CertsOK
    /\ pc \in {"load", "connect"} => ~moved
    /\ pc = "load" => certs = NoCerts
    /\ pc = "end" => held = IF moved THEN {"x509", "file"} \cup certs ELSE {}
    /\ pc \in {"load", "connect", "unload"} => held = Loaded \cup Lost
    /\ pc \in {"sent1", "sent2"} => held = Loaded \cup Lost \cup Connection \cup {"frame"}
    /\ pc \in Quiet => held = Loaded \cup Lost \cup Connection
  BY DEF HeldInv, CertsOK, Quiet

\* What is enough for HeldInv after a step.
LEMMA HeldNext ==
  ASSUME ~misuse', CertsOK',
         \/ pc' \in Quiet /\ held' = Loaded' \cup Lost' \cup Connection'
         \/ pc' \in {"sent1", "sent2"}
            /\ held' = Loaded' \cup Lost' \cup Connection' \cup {"frame"}
         \/ pc' = "unload" /\ held' = Loaded' \cup Lost'
         \/ pc' = "connect" /\ held' = Loaded' \cup Lost' /\ ~moved'
  PROVE  HeldInv'
  BY DEF HeldInv, CertsOK, Quiet

\* A step that leaves the certificates and the program alone owes what it owed.
LEMMA SameParts ==
  ASSUME UNCHANGED <<certs, moved, prog>>
  PROVE  Loaded' = Loaded /\ Lost' = Lost /\ Connection' = Connection
         /\ (CertsOK => CertsOK')
<1>1. Script' = Script BY DEF Script
<1> QED BY <1>1 DEF Loaded, Lost, Connection, CertsOK

\* Steps that give nothing out and take nothing back.
LEMMA QuietStep ==
  ASSUME HeldInv, UNCHANGED <<resVars, prog>>, pc \in Quiet, pc' \in Quiet
  PROVE  HeldInv'
<1>1. UNCHANGED <<held, misuse, certs, moved>> BY DEF resVars
<1>2. ~misuse' /\ held' = Loaded' \cup Lost' \cup Connection' /\ CertsOK'
  BY <1>1, HeldIs, SameParts
<1> QED BY <1>2, HeldNext

\* sslcert_load gives back what it read before the step that failed.
LEMMA LoadStep == HeldInv /\ Load => HeldInv'
<1> SUFFICES ASSUME HeldInv, Load PROVE HeldInv' OBVIOUS
<1>1. /\ ~misuse /\ moved = FALSE /\ certs = NoCerts /\ held = {} /\ moved' = FALSE
      /\ pc' = IF certs' = NoCerts THEN "end" ELSE "connect"
  BY HeldIs DEF Load, Loaded, Lost, CertsOK
<1>2. PICK files \in SUBSET {"cacrt", "cert", "key"} : sslcert_load(files)
  BY DEF Load
<1>3. ASSUME held' = {}, ~misuse', UNCHANGED certs PROVE HeldInv'
  BY <1>1, <1>3 DEF HeldInv, NoCerts
<1>4. CASE held' = held /\ UNCHANGED <<misuse, certs>> BY <1>1, <1>3, <1>4
<1>5. ASSUME NEW f \in files, NEW fd \in {{}, {"certfd"}},
             Acquire({"file"} \cup Before(f, files) \cup fd,
                     fd \cup (Cleanup(f) \cap ({"file"} \cup Before(f, files)))),
             UNCHANGED certs
      PROVE  HeldInv'
  <2>1. Before(f, files) \subseteq Cleanup(f) /\ "file" \in Cleanup(f)
    <3>1. Order[1] = "cacrt" /\ Order[2] = "cert" /\ Order[3] = "key" BY DEF Order
    <3>2. f \in {"cacrt", "cert", "key"} OBVIOUS
    <3>3. ASSUME NEW x \in Before(f, files) PROVE x \in Cleanup(f)
      <4>1. PICK j \in 1 .. 3, k \in 1 .. 3 : x = Order[j] /\ Order[k] = f /\ j < k
        BY <3>3 DEF Before
      <4>2. (j = 1 /\ k \in {2, 3}) \/ (j = 2 /\ k = 3) BY <4>1
      <4> QED BY <3>1, <4>1, <4>2 DEF Cleanup
    <3> QED BY <3>2, <3>3 DEF Cleanup
  <2> QED BY <1>1, <1>3, <1>5, <2>1 DEF Acquire
<1>6. CASE Acquire({"file"} \cup files, {}) /\ certs' = files
  <2>1. held' = {"file"} \cup files /\ ~misuse' BY <1>1, <1>6 DEF Acquire
  <2>2. certs' # NoCerts /\ CertsOK' BY <1>1, <1>6 DEF CertsOK, NoCerts
  <2>3. held' = Loaded' \cup Lost' /\ ~moved'
    BY <1>1, <1>6, <2>1, <2>2 DEF Loaded, Lost
  <2> QED BY <1>1, <2>1, <2>2, <2>3, HeldNext
<1> QED BY <1>2, <1>4, <1>5, <1>6 DEF sslcert_load

\* Certificates whose pointer still stands go back whole.
LEMMA UnloadStep == HeldInv /\ Unload => HeldInv'
<1> SUFFICES ASSUME HeldInv, Unload PROVE HeldInv' OBVIOUS
<1>1. /\ ~misuse /\ CertsOK /\ held = Loaded \cup Lost /\ UNCHANGED moved
      /\ pc' = "end"
  BY HeldIs DEF Unload
<1>2. CASE certs # NoCerts /\ ~moved /\ sslcert_free
  <2>1. /\ held' = held \ ({"file"} \cup certs) /\ certs' = NoCerts
        /\ misuse' = ~({"file"} \cup certs \subseteq held)
    BY <1>1, <1>2 DEF sslcert_free, Acquire
  <2>2. held = {"file"} \cup certs BY <1>1, <1>2 DEF Loaded, Lost
  <2>3. held' = {} /\ ~misuse' BY <2>1, <2>2
  <2> QED BY <1>1, <1>2, <2>1, <2>3 DEF HeldInv
<1>3. CASE (certs = NoCerts \/ moved) /\ UNCHANGED <<held, misuse, certs>>
  <2>1. moved => certs # NoCerts BY <1>1 DEF CertsOK, NoCerts
  <2>2. held' = IF moved THEN {"x509", "file"} \cup certs ELSE {}
    BY <1>1, <1>3, <2>1 DEF Loaded, Lost
  <2> QED BY <1>1, <1>3, <2>2 DEF HeldInv, CertsOK
<1> QED BY <1>2, <1>3 DEF Unload

\* A connection that fails gives back what was opened for it; only the parsed
\* CA certificate is lost.
LEMMA ConnectStep == HeldInv /\ Connect => HeldInv'
<1> SUFFICES ASSUME HeldInv, Connect PROVE HeldInv' OBVIOUS
<1>1. /\ ~misuse /\ CertsOK /\ moved = FALSE /\ held = Loaded
      /\ UNCHANGED <<certs, prog>>
  BY HeldIs DEF Connect, Lost, appVars, CertsOK
<1>2. /\ held \subseteq {"file", "cacrt", "cert", "key"}
      /\ Loaded' = Loaded /\ Script' = Script
  BY <1>1 DEF Loaded, CertsOK, Script
<1>3. /\ TakesCA("done") => "cacrt" \in certs
      /\ \A step : TakesCA(step) => "cacrt" \in certs
  BY DEF TakesCA
<1>4. CASE Script.secure /\ SslConnects /\ pc' = "new"
  <2>1. /\ held' = held \cup {"hc", "ctx", "fd", "ssl"} \cup X509("done")
        /\ ~misuse' /\ moved' = TakesCA("done")
    <3> DEFINE all == {"hc", "ctx", "fd", "ssl"} \cup X509("done")
    <3>1. all \subseteq {"hc", "ctx", "fd", "ssl", "x509"} BY DEF X509
    <3>2. all \cap held = {} BY <1>2, <3>1
    <3>3. held' = held \cup all BY <1>4 DEF SslConnects, Acquire
    <3>4. misuse' = (misuse \/ all \cap held # {} \/ ~({} \subseteq held \cup all))
      BY <1>4 DEF SslConnects, Acquire
    <3>5. moved' = TakesCA("done") BY <1>1, <1>4 DEF SslConnects, TakesCA
    <3> HIDE DEF all
    <3>6. ~misuse' BY <1>1, <3>2, <3>4
    <3> QED BY <3>3, <3>5, <3>6 DEF all
  <2>2. X509("done") = Lost' BY <2>1 DEF X509, Lost
  <2>3. CertsOK' BY <1>1, <1>3, <2>1 DEF CertsOK, TakesCA
  <2>4. Connection' = {"hc", "ctx", "fd", "ssl"} BY <1>2, <1>4 DEF Connection
  <2> QED BY <1>1, <1>2, <1>4, <2>1, <2>2, <2>3, <2>4, HeldNext DEF Quiet
<1>5. CASE ~Script.secure /\ Connects /\ pc' = "new"
  <2>1. /\ held' = held \cup {"hc", "fd"} /\ ~misuse' /\ moved' = FALSE
    BY <1>1, <1>2, <1>5 DEF Connects, Acquire
  <2>2. CertsOK' BY <1>1, <2>1 DEF CertsOK
  <2>3. Connection' = {"hc", "fd"} BY <1>2, <1>5 DEF Connection
  <2> QED BY <1>1, <1>2, <1>5, <2>1, <2>2, <2>3, HeldNext DEF Quiet, Lost
<1>6. ASSUME held' = held \cup Lost', ~misuse', CertsOK', pc' = "unload"
      PROVE  HeldInv'
  BY <1>1, <1>2, <1>6, HeldNext
<1>7. CASE ~Script.secure /\ ConnectFails /\ pc' = "unload"
  <2>1. held' = held /\ ~misuse' /\ moved' = FALSE
    BY <1>1, <1>2, <1>7 DEF ConnectFails, Acquire
  <2>2. CertsOK' BY <1>1, <2>1 DEF CertsOK
  <2> QED BY <1>6, <1>7, <2>1, <2>2 DEF Lost
<1>8. CASE Script.secure /\ SslConnectFails /\ pc' = "unload"
  <2>1. CASE UNCHANGED <<held, misuse, moved>>
    BY <1>1, <1>6, <1>8, <2>1 DEF CertsOK, Lost
  <2>2. ASSUME NEW step \in Steps,
               Acquire(Opened(step) \cup X509(step),
                       Undo(Label(step)) \ (IF step = "connect" THEN {"fd"} ELSE {})),
               moved' = (moved \/ TakesCA(step))
        PROVE  HeldInv'
    <3> DEFINE back == Undo(Label(step)) \ (IF step = "connect" THEN {"fd"} ELSE {})
    <3>1. step \in {"SSL_CTX_new", "d2i_X509", "certificate", "connect", "SSL_new",
                    "SSL_connect"}
      BY DEF Steps
    <3>2. back = Opened(step) /\ Opened(step) \subseteq {"hc", "ctx", "fd", "ssl"}
      BY <3>1 DEF Undo, Label, Opened
    <3>3. X509(step) = Lost' /\ Lost' \subseteq {"x509"} BY <1>1, <2>2 DEF X509, Lost
    <3>4. /\ held' = (held \cup Opened(step) \cup X509(step)) \ Opened(step)
          /\ misuse' = (misuse \/ (Opened(step) \cup X509(step)) \cap held # {}
                         \/ ~(Opened(step) \subseteq held \cup (Opened(step) \cup X509(step))))
      BY <2>2, <3>2 DEF Acquire
    <3>5. held' = held \cup Lost' /\ ~misuse' BY <1>1, <1>2, <3>2, <3>3, <3>4
    <3>6. CertsOK' BY <1>1, <1>3, <2>2 DEF CertsOK
    <3> QED BY <1>6, <1>8, <3>5, <3>6
  <2> QED BY <1>8, <2>1, <2>2 DEF SslConnectFails
<1> QED BY <1>4, <1>5, <1>7, <1>8 DEF Connect

\* Disconnecting gives back the connection and nothing else.
LEMMA DisconnectStep == HeldInv /\ Disconnect => HeldInv'
<1> SUFFICES ASSUME HeldInv, Disconnect PROVE HeldInv' OBVIOUS
<1>1. /\ ~misuse /\ CertsOK /\ held = Loaded \cup Lost \cup Connection
      /\ UNCHANGED <<certs, moved, prog>> /\ pc' = "unload"
  BY HeldIs DEF Disconnect, Quiet, appVars
<1>2. Acquire({}, Connection)
  <2>1. CASE Script.secure
    BY <2>1 DEF Disconnect, mango_ssldisconnect, Connection, Acquire
  <2>2. CASE ~Script.secure
    BY <2>2 DEF Disconnect, mango_disconnect, Connection, Acquire
  <2> QED BY <2>1, <2>2
<1>3. Loaded \cup Lost \subseteq {"file", "cacrt", "cert", "key", "x509"}
  BY <1>1 DEF Loaded, Lost, CertsOK
<1>4. Connection \subseteq {"hc", "ctx", "fd", "ssl"} BY DEF Connection
<1>5. held' = Loaded \cup Lost /\ ~misuse' BY <1>1, <1>2, <1>3, <1>4 DEF Acquire
<1> QED BY <1>1, <1>5, SameParts, HeldNext

\* A frame's memory is held exactly while it is written.
LEMMA FrameSendHeld == HeldInv /\ FrameSend => HeldInv'
<1> SUFFICES ASSUME HeldInv, FrameSend PROVE HeldInv' OBVIOUS
<1>1. /\ pc \in {"frame1", "frame2"} /\ UNCHANGED <<certs, moved, prog>>
      /\ pc \in Quiet
  BY DEF FrameSend, appVars, Quiet
<1>2. ~misuse /\ CertsOK /\ held = Loaded \cup Lost \cup Connection BY <1>1, HeldIs
<1>3. CASE UNCHANGED <<held, misuse>> /\ pc' \in {"disconnect", "frame2", "poll"}
  BY <1>1, <1>3, QuietStep DEF resVars, Quiet
<1>4. CASE Acquire({"frame"}, {}) /\ pc' = Sent(pc)
  <2>1. "frame" \notin held BY <1>2 DEF Loaded, Lost, CertsOK, Connection, NoCerts
  <2>2. held' = held \cup {"frame"} /\ ~misuse' BY <1>2, <1>4, <2>1 DEF Acquire
  <2>3. pc' \in {"sent1", "sent2"} BY <1>4 DEF Sent
  <2> QED BY <1>1, <1>2, <2>2, <2>3, SameParts, HeldNext
<1> QED BY <1>3, <1>4 DEF FrameSend, NextOf

\* Once the frame is written its buffer is given back.
LEMMA FrameSentHeld == HeldInv /\ FrameSent => HeldInv'
<1> SUFFICES ASSUME HeldInv, FrameSent PROVE HeldInv' OBVIOUS
<1>1. /\ pc \in {"sent1", "sent2"} /\ UNCHANGED <<certs, moved, prog>>
      /\ Acquire({}, {"frame"}) /\ pc' \in Quiet
  BY DEF FrameSent, appVars, Quiet
<1>2. /\ ~misuse /\ CertsOK
      /\ held = Loaded \cup Lost \cup Connection \cup {"frame"}
  BY <1>1, HeldIs
<1>3. "frame" \notin Loaded \cup Lost \cup Connection
  BY <1>2 DEF Loaded, Lost, CertsOK, Connection, NoCerts
<1>4. held' = Loaded \cup Lost \cup Connection /\ ~misuse'
  BY <1>1, <1>2, <1>3 DEF Acquire
<1> QED BY <1>1, <1>2, <1>4, SameParts, HeldNext

\* Everything else a program does.
LEMMA ProgramHeld == HeldInv /\ Program => HeldInv'
<1> SUFFICES ASSUME HeldInv, Program PROVE HeldInv' OBVIOUS
<1> USE DEF appVars, Quiet
<1>1. CASE RequestNew BY <1>1, QuietStep DEF RequestNew
<1>2. CASE AuthSet
  <2>1. pc' \in {"headers", "disconnect"} BY <1>2 DEF AuthSet
  <2> QED BY <1>2, <2>1, QuietStep DEF AuthSet
<1>3. CASE SetHeader
  <2>1. pc' \in {"headers", "disconnect"} BY <1>3 DEF SetHeader
  <2> QED BY <1>3, <2>1, QuietStep DEF SetHeader
<1>4. CASE Process BY <1>4, QuietStep DEF Process
<1>5. CASE HeadSent
  <2>1. pc' \in {"sending", "reading", "disconnect"} BY <1>5 DEF HeadSent
  <2> QED BY <1>5, <2>1, QuietStep DEF HeadSent
<1>6. CASE Answered
  <2>1. Again \in {"new", "disconnect"} BY DEF Again
  <2>2. pc' \in {"new", "disconnect", "upload", "poll"} BY <1>6, <2>1 DEF Answered
  <2> QED BY <1>6, <2>2, QuietStep DEF Answered
<1>7. CASE DataSend BY <1>7, QuietStep DEF DataSend
<1>8. CASE PacketSent BY <1>8, QuietStep DEF PacketSent
<1>9. CASE DataEnd BY <1>9, QuietStep DEF DataEnd
<1>10. CASE EndSent BY <1>10, QuietStep DEF EndSent
<1>11. CASE Poll BY <1>11, QuietStep DEF Poll
<1>12. CASE Polled BY <1>12, QuietStep DEF Polled, Answer
<1>13. CASE AnswerSent BY <1>13, QuietStep DEF AnswerSent
<1> QED BY <1>1, <1>2, <1>3, <1>4, <1>5, <1>6, <1>7, <1>8, <1>9, <1>10, <1>11,
           <1>12, <1>13, LoadStep, UnloadStep, ConnectStep, DisconnectStep,
           FrameSendHeld, FrameSentHeld DEF Program

\* HeldInv is inductive.
LEMMA HeldStep == HeldInv /\ [Next]_vars => HeldInv'
<1> SUFFICES ASSUME HeldInv, [Next]_vars PROVE HeldInv' OBVIOUS
<1>1. CASE Program BY <1>1, ProgramHeld
<1>2. CASE UNCHANGED <<resVars, prog, pc>>
  <2>1. UNCHANGED <<held, misuse, certs, moved, pc>> BY <1>2 DEF resVars
  <2>2. Loaded' = Loaded /\ Lost' = Lost /\ Connection' = Connection
    BY <1>2, <2>1, SameParts
  <2> QED BY <2>1, <2>2 DEF HeldInv
<1>3. Program \/ UNCHANGED <<resVars, prog, pc>>
  BY DEF Next, InPort, vars, appVars
<1> QED BY <1>1, <1>2, <1>3

-----------------------------------------------------------------------------
(***************************************************************************)
(* Port calls and their clock.                                             *)
(***************************************************************************)

\* Bytes, 16-bit and 32-bit words, as wide as Hex makes them.
LEMMA Widths ==
  /\ Byte \in Nat /\ Byte >= 16 /\ Half \in Nat /\ Half >= 256
  /\ Word \in Nat /\ Word > 0
<1>1. Hex \in Nat /\ Hex >= 4 BY WidthAssumption
<1>2. Byte \in Nat /\ Byte >= 16 BY <1>1 DEF Byte
<1>3. Half \in Nat /\ Half >= 256
  <2> HIDE DEF Byte
  <2> QED BY <1>2 DEF Half
<1>4. Word \in Nat /\ Word > 0
  <2> HIDE DEF Half
  <2> QED BY <1>3 DEF Word
<1> QED BY <1>2, <1>3, <1>4

\* The clock one tick later.
LEMMA ClockTicks ==
  ASSUME NEW w \in Nat, w > 0, NEW s \in 0 .. w - 1, NEW a \in Nat, a + 1 < w
  PROVE  (((s + a) % w) + 1) % w = (s + (a + 1)) % w
<1>1. CASE s + a < w
  <2>1. (s + a) % w = s + a BY <1>1
  <2> QED BY <2>1
<1>2. CASE s + a >= w
  <2>1. (s + a) % w = s + a - w BY <1>2
  <2>2. (s + a - w + 1) % w = s + a - w + 1 BY <1>2
  <2>3. (s + (a + 1)) % w = s + (a + 1) - w BY <1>2
  <2> QED BY <2>1, <2>2, <2>3
<1> QED BY <1>1, <1>2

\* mangoHelper_elapsedTime never runs ahead of the true time and is at most
\* one millisecond behind it, across the wrap of the clock.
LEMMA ElapsedIsAge ==
  ASSUME NEW s \in 0 .. Word - 1, NEW a \in 0 .. Timeout + 2
  PROVE  LET e == mangoHelper_elapsedTime(s, (s + a) % Word)
         IN e \in Int /\ e <= a /\ a <= e + 1
<1>1. Word \in Nat /\ Word > 0 BY Widths
<1>2. a \in Nat /\ a < Word BY <1>1, PortAssumption
<1>3. CASE s + a < Word
  <2>1. (s + a) % Word = s + a BY <1>1, <1>2, <1>3
  <2> QED BY <1>1, <1>2, <2>1 DEF mangoHelper_elapsedTime
<1>4. CASE s + a >= Word
  <2>1. (s + a) % Word = s + a - Word BY <1>1, <1>2, <1>4
  <2> QED BY <1>1, <1>2, <2>1 DEF mangoHelper_elapsedTime
<1> QED BY <1>1, <1>2, <1>3, <1>4

\* A program makes a step only between two port calls, and starts at most one.
LEMMA ProgramPort ==
  ASSUME CallInv, Program
  PROVE  /\ call.kind = "none"
         /\ \/ UNCHANGED portVars
            \/ pc' \in InCall /\ \E k \in {"read", "write"} : \E n, p : Begin(k, n, p)
<1>1. pc \notin InCall \/ call = Idle => call.kind = "none" BY DEF CallInv, Idle
<1> USE DEF InCall
<1>2. CASE Load BY <1>1, <1>2 DEF Load
<1>3. CASE Unload BY <1>1, <1>3 DEF Unload
<1>4. CASE Connect BY <1>1, <1>4 DEF Connect
<1>5. CASE Disconnect BY <1>1, <1>5 DEF Disconnect
<1>6. CASE RequestNew BY <1>1, <1>6 DEF RequestNew
<1>7. CASE AuthSet BY <1>1, <1>7 DEF AuthSet
<1>8. CASE SetHeader BY <1>1, <1>8 DEF SetHeader
<1>9. CASE Process BY <1>1, <1>9 DEF Process, BeginWrite
<1>10. CASE HeadSent BY <1>1, <1>10 DEF HeadSent, BeginWrite, BeginRead
<1>11. CASE Answered BY <1>1, <1>11 DEF Answered
<1>12. CASE DataSend BY <1>1, <1>12 DEF DataSend, BeginWrite
<1>13. CASE PacketSent BY <1>1, <1>13 DEF PacketSent
<1>14. CASE DataEnd BY <1>1, <1>14 DEF DataEnd, BeginWrite, BeginRead
<1>15. CASE EndSent BY <1>1, <1>15 DEF EndSent, BeginRead
<1>16. CASE Poll BY <1>1, <1>16 DEF Poll, BeginRead
<1>17. CASE Polled BY <1>1, <1>17 DEF Polled, Answer, BeginWrite
<1>18. CASE AnswerSent BY <1>1, <1>18 DEF AnswerSent
<1>19. CASE FrameSend BY <1>1, <1>19 DEF FrameSend, BeginWrite, Sent
<1>20. CASE FrameSent BY <1>1, <1>20 DEF FrameSent
<1> QED BY <1>2, <1>3, <1>4, <1>5, <1>6, <1>7, <1>8, <1>9, <1>10, <1>11, <1>12,
           <1>13, <1>14, <1>15, <1>16, <1>17, <1>18, <1>19, <1>20 DEF Program

\* A call that begins.
LEMMA BeginCall ==
  ASSUME NEW k \in {"read", "write"}, NEW n, NEW p, Begin(k, n, p)
  PROVE  /\ call' = [kind |-> k, len |-> n % Half, start |-> now', done |-> 0,
                     phase |-> "select", age |-> 0, parts |-> p]
         /\ now' \in Starts /\ ret' = NoRet
  BY DEF Begin, Idle

\* A step of the loop goes round again or returns what it has.
LEMMA LoopedIs ==
  ASSUME NEW d, NEW part, Looped(d, part)
  PROVE  \/ /\ d < call.len
            /\ mangoHelper_elapsedTime(call.start, now) < Timeout
            /\ call' = [call EXCEPT !.done = d, !.parts = @ + part]
            /\ UNCHANGED <<now, ret>>
         \/ /\ ~(d < call.len /\ mangoHelper_elapsedTime(call.start, now) < Timeout)
            /\ Return(d, d)
  BY DEF Looped

\* What a step of the port or of the peer does to the call.
LEMMA PortSteps ==
  ASSUME CallInv, InPort(Port) \/ InPort(Peer)
  PROVE  \/ /\ call.kind # "none" /\ UNCHANGED <<now, ret>>
            /\ \E ph \in {"loop", "spin"} :
                 call.phase = "select" /\ call' = [call EXCEPT !.phase = ph]
         \/ /\ call.phase = "select" /\ call.kind = "read" /\ Return(0, 0)
         \/ /\ call.phase = "loop"
            /\ \E d, part : Looped(d, part)
         \/ /\ call.phase = "loop" /\ Return(-1, call.done)
         \/ /\ call.kind # "none" /\ call.age < Timeout + 2
            /\ now' = (now + 1) % Word /\ call' = [call EXCEPT !.age = @ + 1]
            /\ UNCHANGED ret
         \/ UNCHANGED <<now, call, ret>>
<1>1. call.phase # "out" => call.kind # "none" BY DEF CallInv
<1>2. CASE Select BY <1>1, <1>2 DEF Select
<1>3. CASE SelectTimesOut \/ SelectFails BY <1>1, <1>3 DEF SelectTimesOut, SelectFails
<1>4. CASE Recv BY <1>4 DEF Recv
<1>5. CASE Send BY <1>5 DEF Send
<1>6. CASE Tick BY <1>6 DEF Tick
<1>7. CASE Peer
  BY <1>7 DEF Peer, PeerSends, PeerStalls, PeerDrains, PeerLeaves
<1> QED BY <1>2, <1>3, <1>4, <1>5, <1>6, <1>7 DEF InPort, Port

\* A call and its clock stay in step.
LEMMA CallStep == CallInv /\ [Next]_vars => CallInv'
<1> SUFFICES ASSUME CallInv, [Next]_vars PROVE CallInv' OBVIOUS
<1>1. Word \in Nat /\ Word > 0 /\ Timeout \in Nat /\ Timeout + 2 < Word
      /\ Starts \subseteq 0 .. Word - 1
  BY Widths, PortAssumption
<1>2. ASSUME call' = Idle PROVE CallInv' BY <1>2 DEF CallInv, Idle
<1>3. ASSUME UNCHANGED <<now, call>>, call.kind = "none" \/ pc' \in InCall
      PROVE  CallInv'
  BY <1>3 DEF CallInv
<1>4. CASE Program
  <2>1. CASE UNCHANGED portVars BY <1>3, <1>4, <2>1, ProgramPort DEF portVars
  <2>2. ASSUME NEW k \in {"read", "write"}, NEW n, NEW p, Begin(k, n, p), pc' \in InCall
        PROVE  CallInv'
    <3>1. /\ call' = [kind |-> k, len |-> n % Half, start |-> now', done |-> 0,
                      phase |-> "select", age |-> 0, parts |-> p]
          /\ now' \in 0 .. Word - 1
      BY <1>1, <2>2, BeginCall
    <3>2. now' = (now' + 0) % Word
      <4>1. \A s \in 0 .. Word - 1 : s = (s + 0) % Word BY <1>1
      <4> QED BY <3>1, <4>1
    <3>3. call'.kind = k /\ call'.start = now' /\ call'.age = 0 BY <3>1
    <3>4. call' = [kind |-> call'.kind, len |-> call'.len, start |-> call'.start,
                   done |-> call'.done, phase |-> call'.phase, age |-> call'.age,
                   parts |-> call'.parts]
      <4> DEFINE m == n % Half
      <4>1. call' = [kind |-> k, len |-> m, start |-> now', done |-> 0,
                     phase |-> "select", age |-> 0, parts |-> p]
        BY <3>1
      <4> HIDE DEF m
      <4> QED BY <4>1
    <3>5. 0 \in 0 .. Timeout + 2 BY <1>1
    <3> QED BY <2>2, <3>1, <3>2, <3>3, <3>4, <3>5 DEF CallInv
  <2> QED BY <1>4, <2>1, <2>2, ProgramPort
<1>5. CASE InPort(Port) \/ InPort(Peer)
  <2>1. pc' = pc BY <1>5 DEF InPort
  <2>2. CASE call.kind # "none" /\ UNCHANGED now
             /\ \E ph \in {"loop", "spin"} : call' = [call EXCEPT !.phase = ph]
    BY <2>1, <2>2 DEF CallInv
  <2>3. ASSUME NEW n, NEW d, Return(n, d) PROVE CallInv' BY <1>2, <2>3 DEF Return
  <2>4. ASSUME NEW d, NEW part, Looped(d, part), call.phase = "loop" PROVE CallInv'
    <3>1. CASE call' = [call EXCEPT !.done = d, !.parts = @ + part] /\ UNCHANGED now
      <4>1. call.kind # "none" BY <2>4 DEF CallInv
      <4> QED BY <2>1, <3>1, <4>1 DEF CallInv
    <3> QED BY <2>3, <2>4, <3>1, LoopedIs
  <2>5. CASE /\ call.kind # "none" /\ call.age < Timeout + 2
             /\ now' = (now + 1) % Word /\ call' = [call EXCEPT !.age = @ + 1]
    <3>1. /\ call.start \in 0 .. Word - 1 /\ call.age \in 0 .. Timeout + 2
          /\ now = (call.start + call.age) % Word /\ pc \in InCall
      BY <2>5 DEF CallInv
    <3>2. call.age \in Nat /\ call.age + 1 < Word /\ call.age + 1 \in 0 .. Timeout + 2
      BY <1>1, <2>5, <3>1
    <3>3. now' = (call.start + (call.age + 1)) % Word
      BY <1>1, <2>5, <3>1, <3>2, ClockTicks
    <3>4. /\ call' = [kind |-> call.kind, len |-> call.len, start |-> call.start,
                      done |-> call.done, phase |-> call.phase,
                      age |-> call.age + 1, parts |-> call.parts]
      BY <2>5 DEF CallInv
    <3>5. call'.start = call.start /\ call'.age = call.age + 1 /\ call'.kind = call.kind
      BY <3>4
    <3>6. call' = [kind |-> call'.kind, len |-> call'.len, start |-> call'.start,
                   done |-> call'.done, phase |-> call'.phase, age |-> call'.age,
                   parts |-> call'.parts]
      BY <3>4
    <3> QED BY <2>1, <2>5, <3>1, <3>2, <3>3, <3>5, <3>6 DEF CallInv
  <2>6. CASE UNCHANGED <<now, call>> BY <2>1, <2>6 DEF CallInv
  <2> QED BY <1>5, <2>2, <2>3, <2>4, <2>5, <2>6, PortSteps
<1>6. CASE UNCHANGED vars
  <2>1. UNCHANGED <<now, call, pc>> BY <1>6 DEF vars, portVars
  <2> QED BY <2>1 DEF CallInv
<1> QED BY <1>4, <1>5, <1>6 DEF Next

\* A transfer keeps to its time.
LEMMA PunctualStep == CallInv /\ [Next]_vars => Punctual
<1> SUFFICES ASSUME CallInv, [Next]_vars, call.phase = "loop"
             PROVE  /\ (call'.phase = "loop" /\ call'.done # call.done) => call.age <= Timeout
                    /\ (call.kind = "write" /\ call' = Idle /\ ret'.n >= 0 /\ ret'.n < call.len)
                         => call.age >= Timeout
  BY DEF Punctual
<1>1. /\ call.kind # "none" /\ call.start \in 0 .. Word - 1
      /\ call.age \in 0 .. Timeout + 2 /\ now = (call.start + call.age) % Word
  BY DEF CallInv
<1>2. ~Program BY <1>1, ProgramPort
<1> DEFINE e == mangoHelper_elapsedTime(call.start, now)
<1>3. e \in Int /\ e <= call.age /\ call.age <= e + 1
  BY <1>1, ElapsedIsAge
<1>4. Timeout \in Nat BY PortAssumption
<1> HIDE DEF e
<1>5. ASSUME call'.done = call.done, call'.phase = "loop"
      PROVE  /\ (call'.phase = "loop" /\ call'.done # call.done) => call.age <= Timeout
             /\ (call.kind = "write" /\ call' = Idle /\ ret'.n >= 0 /\ ret'.n < call.len)
                  => call.age >= Timeout
  BY <1>5 DEF Idle
<1>6. CASE UNCHANGED call BY <1>5, <1>6
<1>7. CASE call' = [call EXCEPT !.age = @ + 1] BY <1>5, <1>7 DEF CallInv
<1>8. ASSUME NEW n, NEW d, Return(n, d), ~(n >= 0 /\ n < call.len)
      PROVE  /\ (call'.phase = "loop" /\ call'.done # call.done) => call.age <= Timeout
             /\ (call.kind = "write" /\ call' = Idle /\ ret'.n >= 0 /\ ret'.n < call.len)
                  => call.age >= Timeout
  BY <1>8 DEF Return, Idle
<1>9. ASSUME NEW d, NEW part, Looped(d, part)
      PROVE  /\ (call'.phase = "loop" /\ call'.done # call.done) => call.age <= Timeout
             /\ (call.kind = "write" /\ call' = Idle /\ ret'.n >= 0 /\ ret'.n < call.len)
                  => call.age >= Timeout
  <2>1. CASE d < call.len /\ e < Timeout /\ call' = [call EXCEPT !.done = d, !.parts = @ + part]
    <3>1. call'.phase = "loop" BY <2>1 DEF CallInv
    <3>2. call.age <= Timeout BY <1>1, <1>3, <1>4, <2>1
    <3> QED BY <3>1, <3>2 DEF Idle
  <2>2. CASE ~(d < call.len /\ e < Timeout) /\ Return(d, d)
    <3>1. CASE ~(d < call.len) BY <1>8, <2>2, <3>1
    <3>2. CASE ~(e < Timeout)
      <4>1. call.age >= Timeout BY <1>1, <1>3, <1>4, <3>2
      <4> QED BY <2>2, <4>1 DEF Return, Idle
    <3> QED BY <2>2, <3>1, <3>2
  <2> QED BY <1>9, <2>1, <2>2, LoopedIs DEF e
<1>10. CASE InPort(Port) \/ InPort(Peer)
  <2>1. ~(-1 >= 0) OBVIOUS
  <2>2. CASE Return(-1, call.done) BY <1>8, <2>1, <2>2
  <2> QED BY <1>6, <1>7, <1>9, <1>10, <2>2, PortSteps
<1> QED BY <1>2, <1>6, <1>10 DEF Next, vars, portVars

-----------------------------------------------------------------------------
(***************************************************************************)
(* Websocket frames.                                                       *)
(***************************************************************************)

\* The elements of a sequence made of two, and of one made of four.
LEMMA TwoParts ==
  ASSUME NEW S, NEW a \in Seq(S), NEW b \in Seq(S)
  PROVE  /\ a \o b \in Seq(S) /\ Len(a \o b) = Len(a) + Len(b)
         /\ \A i \in 1 .. Len(a) : (a \o b)[i] = a[i]
         /\ \A i \in 1 .. Len(b) : (a \o b)[Len(a) + i] = b[i]
  OBVIOUS

Joined(f, a, b, c, d) ==
    /\ Len(f) = Len(a) + Len(b) + Len(c) + Len(d)
    /\ \A i \in 1 .. Len(a) : f[i] = a[i]
    /\ \A i \in 1 .. Len(b) : f[Len(a) + i] = b[i]
    /\ \A i \in 1 .. Len(c) : f[Len(a) + Len(b) + i] = c[i]
    /\ \A i \in 1 .. Len(d) : f[Len(a) + Len(b) + Len(c) + i] = d[i]

\* Four sequences appended: where each of them lies in the result.
LEMMA FourParts ==
  ASSUME NEW S, NEW a \in Seq(S), NEW b \in Seq(S), NEW c \in Seq(S), NEW d \in Seq(S)
  PROVE  a \o b \o c \o d \in Seq(S) /\ Joined(a \o b \o c \o d, a, b, c, d)
<1> DEFINE ab == a \o b
           abc == ab \o c
           f == abc \o d
<1>1. /\ ab \in Seq(S) /\ Len(ab) = Len(a) + Len(b)
      /\ \A i \in 1 .. Len(a) : ab[i] = a[i]
      /\ \A i \in 1 .. Len(b) : ab[Len(a) + i] = b[i]
  BY TwoParts
<1>3. f = abc \o d OBVIOUS
<1> SUFFICES f \in Seq(S) /\ Joined(f, a, b, c, d) OBVIOUS
<1> HIDE DEF f, ab
<1>2. /\ abc \in Seq(S) /\ Len(abc) = Len(ab) + Len(c)
      /\ \A i \in 1 .. Len(ab) : abc[i] = ab[i]
      /\ \A i \in 1 .. Len(c) : abc[Len(ab) + i] = c[i]
  <2>1. ab \in Seq(S) BY <1>1
  <2> QED BY <2>1, TwoParts
<1> HIDE DEF abc
<1>4. /\ f \in Seq(S) /\ Len(f) = Len(abc) + Len(d)
      /\ \A i \in 1 .. Len(abc) : f[i] = abc[i]
      /\ \A i \in 1 .. Len(d) : f[Len(abc) + i] = d[i]
  <2>1. abc \in Seq(S) BY <1>2
  <2>2. /\ abc \o d \in Seq(S) /\ Len(abc \o d) = Len(abc) + Len(d)
        /\ \A i \in 1 .. Len(abc) : (abc \o d)[i] = abc[i]
        /\ \A i \in 1 .. Len(d) : (abc \o d)[Len(abc) + i] = d[i]
    BY <2>1, TwoParts
  <2> QED BY <1>3, <2>2
<1>5. Len(a) \in Nat /\ Len(b) \in Nat /\ Len(c) \in Nat /\ Len(d) \in Nat OBVIOUS
<1>6. \A i \in 1 .. Len(a) : f[i] = a[i] BY <1>1, <1>2, <1>4, <1>5
<1>7. \A i \in 1 .. Len(b) : f[Len(a) + i] = b[i]
  <2> SUFFICES ASSUME NEW i \in 1 .. Len(b) PROVE f[Len(a) + i] = b[i] OBVIOUS
  <2>1. Len(a) + i \in 1 .. Len(ab) /\ Len(a) + i \in 1 .. Len(abc)
    BY <1>1, <1>2, <1>5
  <2>2. f[Len(a) + i] = abc[Len(a) + i] BY <1>4, <2>1
  <2>3. abc[Len(a) + i] = ab[Len(a) + i] BY <1>2, <2>1
  <2> QED BY <1>1, <2>2, <2>3
<1>8. \A i \in 1 .. Len(c) : f[Len(a) + Len(b) + i] = c[i]
  <2> SUFFICES ASSUME NEW i \in 1 .. Len(c) PROVE f[Len(a) + Len(b) + i] = c[i]
    OBVIOUS
  <2>1. Len(a) + Len(b) + i \in 1 .. Len(abc) BY <1>1, <1>2, <1>5
  <2>2. f[Len(a) + Len(b) + i] = abc[Len(a) + Len(b) + i] BY <1>4, <2>1
  <2>3. Len(a) + Len(b) + i = Len(ab) + i BY <1>1
  <2>4. abc[Len(ab) + i] = c[i] BY <1>2
  <2> QED BY <2>2, <2>3, <2>4
<1>9. Len(abc) = Len(a) + Len(b) + Len(c) BY <1>1, <1>2, <1>5
<1>10. \A i \in 1 .. Len(d) : f[Len(a) + Len(b) + Len(c) + i] = d[i] BY <1>4, <1>9
<1>11. Len(f) = Len(a) + Len(b) + Len(c) + Len(d) BY <1>4, <1>9
<1>12. f \in Seq(S) BY <1>4
<1> QED BY <1>6, <1>7, <1>8, <1>10, <1>11, <1>12, Zenon DEF Joined

\* A 16-bit number is its two bytes.
LEMMA TwoBytes ==
  ASSUME NEW w \in Nat, w > 0, NEW n \in Nat, n < w * w
  PROVE  ((n \div w) % w) * w + (n % w) = n
<1>1. PICK q \in Int : q = n \div w OBVIOUS
<1>2. PICK r \in Int : r = n % w OBVIOUS
<1>3. n = w * q + r BY <1>1, <1>2
<1>4. q \in 0 .. w - 1 BY <1>1
<1>5. q % w = q BY <1>4
<1>6. w * q = q * w BY <1>4
<1> QED BY <1>1, <1>2, <1>3, <1>5, <1>6

\* Masking eight bytes at a time uses the key byte RFC 6455 asks for.
LEMMA MaskedIs ==
  ASSUME NEW n \in Nat
  PROVE  Masked(n) = [i \in 1 .. n |-> [v |-> i - 1, key |-> (i - 1) % 4]]
<1>1. \A i \in 1 .. n : ((i - 1) % 8) % 4 = (i - 1) % 4 OBVIOUS
<1> QED BY <1>1 DEF Masked

\* A server decodes what mangoWS_frameSend builds for a payload of up to
\* 65535 bytes: its type, its length and every byte under its key.
LEMMA FrameDecodes ==
  ASSUME NEW t, NEW n \in Nat, n <= LenMax16
  PROVE  Unframe(Frame(t, n)) = [type |-> t, len |-> n, ok |-> TRUE]
<1> DEFINE p == PayloadLen(n)
           m == Len(p)
           a == <<HdrByte(t)>>
           b == [i \in 1 .. m |-> HdrByte(p[i])]
           c == [j \in 1 .. 4 |-> KeyByte(j - 1)]
           d == Masked(n)
           f == Frame(t, n)
           S == {HdrByte(t)} \cup {HdrByte(p[i]) : i \in 1 .. m}
                  \cup {KeyByte(j - 1) : j \in 1 .. 4} \cup {d[i] : i \in 1 .. n}
<1>1. Byte \in Nat /\ Byte >= 16 /\ Half = Byte * Byte /\ LenMax7 \in Nat
  BY Widths DEF Half, LenMax7
<1>2. n < Byte * Byte BY <1>1, Widths DEF LenMax16
<1>3. \/ n <= LenMax7 /\ p = <<n>>
      \/ n > LenMax7 /\ p = <<LenMax7 + 1, (n \div Byte) % Byte, n % Byte>>
  BY <1>1 DEF PayloadLen
<1>4. m \in {1, 3} BY <1>3
<1>5. f = a \o b \o c \o d BY DEF Frame
<1>6. d \in [1 .. n -> S] BY MaskedIs
<1>7. /\ a \in Seq(S) /\ Len(a) = 1 /\ a[1] = HdrByte(t)
      /\ b \in Seq(S) /\ Len(b) = m /\ c \in Seq(S) /\ Len(c) = 4
  BY <1>4
<1>8. d \in Seq(S) /\ Len(d) = n BY <1>6
<1>9. /\ \A i \in 1 .. m : b[i] = HdrByte(p[i])
      /\ \A j \in 1 .. 4 : c[j] = KeyByte(j - 1)
      /\ \A i \in 1 .. n : d[i] = [v |-> i - 1, key |-> (i - 1) % 4]
  BY MaskedIs
<1> HIDE DEF p, m, a, b, c, d, f, S
<1>10. /\ f \in Seq(S) /\ Len(f) = 5 + m + n
       /\ f[1] = HdrByte(t)
       /\ \A i \in 1 .. m : f[1 + i] = HdrByte(p[i])
       /\ \A j \in 1 .. 4 : f[1 + m + j] = KeyByte(j - 1)
       /\ \A i \in 1 .. n : f[5 + m + i] = [v |-> i - 1, key |-> (i - 1) % 4]
  <2>1. /\ f \in Seq(S) /\ Len(f) = Len(a) + Len(b) + Len(c) + Len(d)
        /\ \A i \in 1 .. Len(a) : f[i] = a[i]
        /\ \A i \in 1 .. Len(b) : f[Len(a) + i] = b[i]
        /\ \A i \in 1 .. Len(c) : f[Len(a) + Len(b) + i] = c[i]
        /\ \A i \in 1 .. Len(d) : f[Len(a) + Len(b) + Len(c) + i] = d[i]
    <3>1. a \in Seq(S) /\ b \in Seq(S) /\ c \in Seq(S) /\ d \in Seq(S) BY <1>7, <1>8
    <3>2. f \in Seq(S) /\ Joined(f, a, b, c, d) BY <1>5, <3>1, FourParts
    <3> QED BY <3>2 DEF Joined
  <2>2. m \in Nat BY <1>4
  <2>3. Len(f) = 5 + m + n BY <1>7, <1>8, <2>1, <2>2
  <2>4. f[1] = HdrByte(t) BY <1>7, <2>1
  <2>5. ASSUME NEW i \in 1 .. m PROVE f[1 + i] = HdrByte(p[i])
    <3>1. f[1 + i] = b[i] BY <1>7, <2>1
    <3> QED BY <1>9, <3>1
  <2>6. ASSUME NEW j \in 1 .. 4 PROVE f[1 + m + j] = KeyByte(j - 1)
    <3>1. f[1 + m + j] = c[j] BY <1>7, <2>1
    <3> QED BY <1>9, <3>1
  <2>7. ASSUME NEW i \in 1 .. n PROVE f[5 + m + i] = [v |-> i - 1, key |-> (i - 1) % 4]
    <3>1. f[1 + m + 4 + i] = d[i] BY <1>7, <1>8, <2>1
    <3>2. 1 + m + 4 + i = 5 + m + i BY <2>2
    <3> QED BY <1>9, <3>1, <3>2
  <2> QED BY <2>1, <2>3, <2>4, <2>5, <2>6, <2>7

<1>11. /\ HdrByte(t).v = t
       /\ \A x : HdrByte(x).v = x
  BY DEF HdrByte
<1> DEFINE body == SubSeq(f, m + 6, Len(f))
<1>12. /\ Len(body) = n
       /\ \A i \in 1 .. n : body[i] = [v |-> i - 1, key |-> (i - 1) % 4]
  <2>1. body \in Seq(S) /\ Len(body) = n
    BY <1>4, <1>10
  <2>2. ASSUME NEW i \in 1 .. n PROVE body[i] = [v |-> i - 1, key |-> (i - 1) % 4]
    <3>3. f \in Seq(S) /\ m + 6 \in Nat /\ i \in 1 .. Len(f) + 1 - (m + 6) BY <1>4, <1>10
    <3>1. body[i] = f[(m + 6) + i - 1] BY <3>3
    <3>2. (m + 6) + i - 1 = 5 + m + i BY <1>4
    <3> QED BY <1>10, <3>1, <3>2
  <2> QED BY <2>1, <2>2
<1>13. Unmasks(f, m - 1, n)
  <2>1. 2 + (m - 1) + 5 = m + 6 BY <1>4
  <2>2. ASSUME NEW j \in 1 .. 4 PROVE f[2 + (m - 1) + j] = KeyByte(j - 1)
    <3>1. 2 + (m - 1) + j = 1 + m + j BY <1>4
    <3> QED BY <1>10, <3>1
  <2> QED BY <1>12, <2>1, <2>2 DEF Unmasks
<1>14. f[1].v = t BY <1>10, <1>11
<1>15. ExtBytes(f) = m - 1 /\ Announced(f) = n
  <2>1. CASE n <= LenMax7 /\ p = <<n>>
    <3>1. m = 1 /\ p[1] = n BY <2>1 DEF m
    <3>2. f[1 + 1] = HdrByte(p[1]) BY <1>10, <3>1
    <3>3. f[2].v = n BY <1>11, <3>1, <3>2
    <3>4. ExtBytes(f) = 0 BY <2>1, <3>3 DEF ExtBytes
    <3>5. Announced(f) = f[2].v BY <3>4 DEF Announced
    <3>6. m - 1 = 0 BY <3>1
    <3> QED BY <3>3, <3>4, <3>5, <3>6
  <2>2. CASE n > LenMax7 /\ p = <<LenMax7 + 1, (n \div Byte) % Byte, n % Byte>>
    <3>1. m = 3 /\ p[1] = LenMax7 + 1 /\ p[2] = (n \div Byte) % Byte /\ p[3] = n % Byte
      BY <2>2 DEF m
    <3>2. f[1 + 1] = HdrByte(p[1]) /\ f[1 + 2] = HdrByte(p[2]) /\ f[1 + 3] = HdrByte(p[3])
      BY <1>10, <3>1
    <3>3. f[2].v = LenMax7 + 1 BY <1>11, <3>1, <3>2
    <3>4. f[3].v = (n \div Byte) % Byte /\ f[4].v = n % Byte BY <1>11, <3>1, <3>2
    <3>5. f[3].v * Byte + f[4].v = n BY <1>1, <1>2, <3>4, TwoBytes
    <3>6. ExtBytes(f) = 2
      <4>1. ~(f[2].v <= LenMax7) BY <1>1, <3>3
      <4> QED BY <3>3, <4>1 DEF ExtBytes
    <3>7. Announced(f) = f[3].v * Byte + f[4].v BY <3>6 DEF Announced
    <3>8. m - 1 = 2 BY <3>1
    <3> QED BY <3>5, <3>6, <3>7, <3>8
  <2> QED BY <1>3, <2>1, <2>2
<1>16. Unmasks(f, m - 1, n) = TRUE BY <1>13 DEF Unmasks
<1> QED BY <1>14, <1>15, <1>16 DEF Unframe, f

-----------------------------------------------------------------------------
(***************************************************************************)
(* Frames on their way to the server.                                      *)
(***************************************************************************)

Writing == {"answering", "sent1", "sent2"}

\* A frame that is handed to mangoPort_write.
LEMMA FrameBegins ==
  ASSUME NEW t, NEW n \in Nat, NEW p, Begin("write", FrameLen(n), p),
         frame' = [type |-> t, len |-> n, ok |-> TRUE],
         t = TEXT <=> pc' # "answering"
  PROVE  FrameInv'
<1>1. Half \in Nat /\ Half >= 256 BY Widths
<1>2. FrameLen(n) \in Nat BY DEF FrameLen, HeaderRoom
<1>3. FrameLen(n) % Half \in 0 .. Half - 1 BY <1>1, <1>2
<1>4. /\ call' = [kind |-> "write", len |-> FrameLen(n) % Half, start |-> now', done |-> 0,
                  phase |-> "select", age |-> 0, parts |-> p]
      /\ ret' = NoRet
  BY BeginCall
<1>5. call'.kind = "write" /\ call'.done = 0 /\ call'.len = FrameLen(n) % Half BY <1>4
<1>6. ret'.n = 0 BY <1>4 DEF NoRet
<1>7. frame'.type = t /\ frame'.len = n OBVIOUS
<1>8. frame' = [type |-> frame'.type, len |-> frame'.len, ok |-> TRUE] BY <1>7
<1>9. 0 \in 0 .. FrameLen(n) % Half BY <1>3
<1> QED BY <1>1, <1>3, <1>5, <1>6, <1>7, <1>8, <1>9 DEF FrameInv

\* A step of a program hands over a frame, or is not writing one afterwards.
LEMMA ProgramFrame ==
  ASSUME Program
  PROVE  FrameInv'
<1>1. ASSUME pc' \notin Writing PROVE FrameInv' BY <1>1 DEF FrameInv, Writing
<1> USE DEF Writing
<1>2. CASE Load BY <1>1, <1>2 DEF Load
<1>3. CASE Unload BY <1>1, <1>3 DEF Unload
<1>4. CASE Connect BY <1>1, <1>4 DEF Connect
<1>5. CASE Disconnect BY <1>1, <1>5 DEF Disconnect
<1>6. CASE RequestNew BY <1>1, <1>6 DEF RequestNew
<1>7. CASE AuthSet BY <1>1, <1>7 DEF AuthSet
<1>8. CASE SetHeader BY <1>1, <1>8 DEF SetHeader
<1>9. CASE Process BY <1>1, <1>9 DEF Process
<1>10. CASE HeadSent BY <1>1, <1>10 DEF HeadSent
<1>11. CASE Answered BY <1>1, <1>11 DEF Answered, Again
<1>12. CASE DataSend BY <1>1, <1>12 DEF DataSend
<1>13. CASE PacketSent BY <1>1, <1>13 DEF PacketSent
<1>14. CASE DataEnd BY <1>1, <1>14 DEF DataEnd
<1>15. CASE EndSent BY <1>1, <1>15 DEF EndSent
<1>16. CASE Poll BY <1>1, <1>16 DEF Poll
<1>17. CASE Polled
  <2>1. ASSUME NEW t \in {PONG, CLOSE}, NEW n \in {0, 2}, Answer(t, n) PROVE FrameInv'
    <3>1. t # TEXT BY DEF PONG, CLOSE, TEXT
    <3> QED BY <2>1, <3>1, FrameBegins DEF Answer, BeginWrite
  <2> QED BY <1>1, <1>17, <2>1 DEF Polled
<1>18. CASE AnswerSent BY <1>1, <1>18 DEF AnswerSent
<1>19. CASE FrameSend
  <2>1. CASE pc' \in {"disconnect", NextOf(pc)} BY <1>1, <2>1 DEF NextOf
  <2>2. ASSUME NEW n \in Payloads, frame' = [type |-> TEXT, len |-> n, ok |-> TRUE],
               BeginWrite(FrameLen(n)), pc' = Sent(pc)
        PROVE  FrameInv'
    <3>1. n \in Nat /\ pc' # "answering" BY <2>2, PayloadAssumption DEF Sent
    <3> QED BY <2>2, <3>1, FrameBegins DEF BeginWrite
  <2> QED BY <1>19, <2>1, <2>2 DEF FrameSend
<1>20. CASE FrameSent BY <1>1, <1>20 DEF FrameSent
<1> QED BY <1>2, <1>3, <1>4, <1>5, <1>6, <1>7, <1>8, <1>9, <1>10, <1>11, <1>12,
           <1>13, <1>14, <1>15, <1>16, <1>17, <1>18, <1>19, <1>20 DEF Program

\* The port takes no more of a frame than it was given.
LEMMA FrameStep == CallInv /\ FrameInv /\ [Next]_vars => FrameInv'
<1> SUFFICES ASSUME CallInv, FrameInv, [Next]_vars PROVE FrameInv' OBVIOUS
<1>1. CASE UNCHANGED <<call, ret, frame, pc>>
  BY <1>1 DEF FrameInv
<1>2. CASE InPort(Port) \/ InPort(Peer)
  <2>1. pc' = pc /\ frame' = frame BY <1>2 DEF InPort, msgVars
  <2> SUFFICES ASSUME pc \in Writing
               PROVE  /\ call'.kind # "read"
                      /\ call'.len \in 0 .. Half - 1 /\ call'.done \in 0 .. call'.len
                      /\ ret'.n \in Int /\ ret'.n < Half
    BY <2>1 DEF FrameInv, Writing
  <2>2. /\ call.kind # "read"
        /\ call.len \in 0 .. Half - 1 /\ call.done \in 0 .. call.len
        /\ ret.n \in Int /\ ret.n < Half
    BY DEF FrameInv, Writing
  <2>3. Half \in Nat /\ Half >= 256 BY Widths
  <2>4. ASSUME NEW n \in Int, n < Half, NEW d, Return(n, d)
        PROVE  /\ call'.kind # "read"
               /\ call'.len \in 0 .. Half - 1 /\ call'.done \in 0 .. call'.len
               /\ ret'.n \in Int /\ ret'.n < Half
    BY <2>3, <2>4 DEF Return, Idle
  <2>5. ASSUME NEW d \in 0 .. call.len, NEW part, Looped(d, part)
        PROVE  /\ call'.kind # "read"
               /\ call'.len \in 0 .. Half - 1 /\ call'.done \in 0 .. call'.len
               /\ ret'.n \in Int /\ ret'.n < Half
    <3>1. CASE Return(d, d) BY <2>2, <2>3, <2>4, <3>1
    <3>2. CASE call' = [call EXCEPT !.done = d, !.parts = @ + part] /\ ret' = ret
      BY <2>2, <3>2 DEF CallInv
    <3> QED BY <2>5, <3>1, <3>2, LoopedIs
  <2>6. CASE Select BY <2>2, <2>6 DEF Select, CallInv
  <2>7. CASE SelectTimesOut \/ SelectFails
    BY <2>2, <2>7 DEF SelectTimesOut, SelectFails, CallInv
  <2>8. CASE Send
    <3>1. CASE Return(-1, call.done) BY <2>3, <2>4, <3>1
    <3>2. ASSUME NEW k \in Amounts(call.len - call.done), Looped(call.done + k, 1)
          PROVE  /\ call'.kind # "read"
                 /\ call'.len \in 0 .. Half - 1 /\ call'.done \in 0 .. call'.len
                 /\ ret'.n \in Int /\ ret'.n < Half
      <4>1. k \in Int /\ k > 0 /\ k <= call.len - call.done BY <2>2 DEF Amounts
      <4>2. call.done + k \in 0 .. call.len BY <2>2, <4>1
      <4> QED BY <2>5, <3>2, <4>2
    <3>3. CASE Looped(call.done, 0) BY <2>2, <2>5, <3>3
    <3> QED BY <2>8, <3>1, <3>2, <3>3 DEF Send
  <2>9. CASE Recv BY <2>2, <2>9 DEF Recv
  <2>10. CASE Tick BY <2>2, <2>10 DEF Tick, CallInv
  <2>11. CASE Peer
    BY <2>2, <2>11 DEF Peer, PeerSends, PeerStalls, PeerDrains, PeerLeaves
  <2> QED BY <1>2, <2>6, <2>7, <2>8, <2>9, <2>10, <2>11 DEF InPort, Port
<1> QED BY <1>1, <1>2, ProgramFrame DEF Next, vars, portVars

\* What the server has after the write of a frame: the frame when the port
\* took all of it, and nothing else.
LEMMA DeliveredSeen ==
  ASSUME FrameInv, pc \in Writing, Delivered(ret.n = FrameLen(frame.len), ret.done)
  PROVE  seen' \in {NoFrame, frame}
<1>1. /\ frame = [type |-> frame.type, len |-> frame.len, ok |-> TRUE]
      /\ frame.len \in Nat /\ ret.n \in Int /\ ret.n < Half
  BY DEF FrameInv, Writing
<1>2. ASSUME ret.n = FrameLen(frame.len) PROVE frame.len <= LenMax16
  <2>1. Half \in Nat /\ Half >= 256 BY Widths
  <2>2. frame.len <= FrameLen(frame.len) BY <1>1 DEF FrameLen, HeaderRoom
  <2>3. FrameLen(frame.len) < Half BY <1>1, <1>2
  <2>4. FrameLen(frame.len) \in Int BY <1>1, <1>2
  <2> QED BY <1>1, <2>1, <2>2, <2>3, <2>4 DEF LenMax16
<1>3. CASE ret.n = FrameLen(frame.len)
  <2>1. seen' = Unframe(Frame(frame.type, frame.len)) BY <1>3 DEF Delivered
  <2>2. Unframe(Frame(frame.type, frame.len))
          = [type |-> frame.type, len |-> frame.len, ok |-> TRUE]
    BY <1>1, <1>2, <1>3, FrameDecodes
  <2> QED BY <1>1, <2>1, <2>2
<1>4. CASE ret.n # FrameLen(frame.len) BY <1>4 DEF Delivered
<1> QED BY <1>3, <1>4

\* A step that leaves the frame, the server and the verdict alone keeps
\* TornInv where it does not start to write.
LEMMA TornQuiet ==
  ASSUME TornInv, UNCHANGED <<torn, aborted>>, seen' = NoFrame \/ UNCHANGED <<seen, frame>>,
         torn = "frame" => pc' \in {"frame2", "poll", "disconnect", "unload", "end"}
  PROVE  TornInv'
  BY DEF TornInv

\* A torn answer to a control frame is never taken for a torn text frame.
LEMMA AnswerSentTorn ==
  ASSUME FrameInv, TornInv, AnswerSent
  PROVE  TornInv'
<1>1. torn # "frame" /\ frame.type # TEXT BY DEF TornInv, FrameInv, AnswerSent
<1>2. seen' \in {NoFrame, frame'}
  BY DeliveredSeen DEF AnswerSent, Writing
<1>3. torn' \in {torn, "control"}
  BY <1>1 DEF AnswerSent, Delivered
<1> QED BY <1>1, <1>2, <1>3 DEF TornInv

\* A text frame that went out torn leaves aborted set.
LEMMA FrameSentTorn ==
  ASSUME FrameInv, TornInv, FrameSent
  PROVE  TornInv'
<1>1. torn # "frame" BY DEF TornInv, FrameSent
<1>2. seen' \in {NoFrame, frame'}
  BY DeliveredSeen DEF FrameSent, Writing
<1>3. aborted' = ~(ret.n = FrameLen(frame.len)) BY DEF FrameSent, FrameWhole
<1>4. CASE ret.n = FrameLen(frame.len)
  <2>1. torn' = torn BY <1>1, <1>4 DEF FrameSent, Delivered
  <2> QED BY <1>1, <1>2, <2>1 DEF TornInv
<1>5. CASE ret.n # FrameLen(frame.len)
  <2>1. torn' \in {torn, "frame", "control"} BY <1>1 DEF FrameSent, Delivered
  <2>2. pc' \in {"frame2", "poll"} BY DEF FrameSent
  <2>3. aborted' BY <1>3, <1>5
  <2> QED BY <1>2, <2>1, <2>2, <2>3 DEF TornInv
<1> QED BY <1>4, <1>5

\* After a data frame that was cut short a program only leaves.
LEMMA ProgramTorn ==
  ASSUME FrameInv, TornInv, Program
  PROVE  TornInv'
<1>1. torn = "frame" => aborted /\ pc \in {"frame2", "poll", "disconnect", "unload", "end"}
  BY DEF TornInv
<1> USE DEF msgVars
<1>2. CASE Load BY <1>1, <1>2, TornQuiet DEF Load
<1>3. CASE Unload BY <1>1, <1>3, TornQuiet DEF Unload
<1>4. CASE Connect BY <1>1, <1>4, TornQuiet DEF Connect
<1>5. CASE Disconnect BY <1>1, <1>5, TornQuiet DEF Disconnect
<1>6. CASE RequestNew BY <1>1, <1>6, TornQuiet DEF RequestNew
<1>7. CASE AuthSet BY <1>1, <1>7, TornQuiet DEF AuthSet
<1>8. CASE SetHeader BY <1>1, <1>8, TornQuiet DEF SetHeader
<1>9. CASE Process BY <1>1, <1>9, TornQuiet DEF Process
<1>10. CASE HeadSent BY <1>1, <1>10, TornQuiet DEF HeadSent
<1>11. CASE Answered BY <1>1, <1>11, TornQuiet DEF Answered
<1>12. CASE DataSend BY <1>1, <1>12, TornQuiet DEF DataSend
<1>13. CASE PacketSent BY <1>1, <1>13, TornQuiet DEF PacketSent
<1>14. CASE DataEnd BY <1>1, <1>14, TornQuiet DEF DataEnd
<1>15. CASE EndSent BY <1>1, <1>15, TornQuiet DEF EndSent
<1>16. CASE Poll BY <1>1, <1>16, TornQuiet DEF Poll
<1>17. CASE Polled BY <1>1, <1>17, TornQuiet DEF Polled
<1>18. CASE FrameSend BY <1>1, <1>18, TornQuiet DEF FrameSend, NextOf
<1> QED BY <1>2, <1>3, <1>4, <1>5, <1>6, <1>7, <1>8, <1>9, <1>10, <1>11, <1>12,
           <1>13, <1>14, <1>15, <1>16, <1>17, <1>18, AnswerSentTorn, FrameSentTorn
        DEF Program

\* TornInv is inductive, relative to FrameInv.
LEMMA TornStep == FrameInv /\ TornInv /\ [Next]_vars => TornInv'
<1> SUFFICES ASSUME FrameInv, TornInv, [Next]_vars PROVE TornInv' OBVIOUS
<1>1. CASE UNCHANGED <<pc, torn, aborted, seen, frame>> BY <1>1 DEF TornInv
<1> QED BY <1>1, ProgramTorn DEF Next, InPort, msgVars, vars

-----------------------------------------------------------------------------
(***************************************************************************)
(* The theorems.                                                           *)
(***************************************************************************)

\* HeldInv holds in the initial states.
LEMMA InitHeld == Init => HeldInv
<1> SUFFICES ASSUME Init PROVE HeldInv OBVIOUS
<1>1. /\ held = {} /\ misuse = FALSE /\ certs = NoCerts /\ moved = FALSE
      /\ pc \in {"load", "connect"}
  BY DEF Init
<1>2. Loaded = {} /\ Lost = {} BY <1>1 DEF Loaded, Lost
<1>3. Loaded \cup Lost = {} BY <1>2
<1> QED BY <1>1, <1>3 DEF HeldInv

\* So do the invariants of the calls and the frames.
LEMMA InitCall == Init => CallInv /\ FrameInv /\ TornInv
<1> SUFFICES ASSUME Init PROVE CallInv /\ FrameInv /\ TornInv OBVIOUS
<1>1. CallInv BY DEF Init, Idle, CallInv
<1>2. FrameInv BY DEF Init, FrameInv
<1>3. TornInv BY DEF Init, TornInv
<1> QED BY <1>1, <1>2, <1>3

\* Whatever fails on the way (an allocation, a certificate, the connection, the
\* handshake, a write or a read), a program that has ended has given back all
\* that mango_connect, mango_sslconnect, sslcert_load and mangoWS_frameSend
\* took, but for the CA certificate mango_sslconnect loses, and nothing was
\* given back twice.
THEOREM ReleasedAlways == Spec => []Released
<1>1. HeldInv => Released BY HeldIs DEF Released
<1> QED BY <1>1, InitHeld, HeldStep, PTL DEF Spec

\* mangoPort_read and mangoPort_write go on only within their timeout, and a write
\* gives up only after it, at any clock value a call may begin at, the wrap of the
\* 32-bit clock included.
THEOREM TransfersPunctual == Spec => GivesUpOnTime
<1>1. Init => CallInv BY InitCall
<1> QED BY <1>1, CallStep, PunctualStep, PTL DEF Spec, GivesUpOnTime

\* Of payloads of any length (one whose frame passes the port's 16-bit length
\* included) the server never decodes anything but the frame that
\* mangoWS_frameSend, mangoWS_pong or mangoWS_close was to send, and a
\* connection on which a data frame was cut short carries nothing more.
THEOREM FramesAlwaysWhole == Spec => []FramesWhole
<1>1. CallInv /\ FrameInv /\ TornInv /\ [Next]_vars => (CallInv /\ FrameInv /\ TornInv)'
  BY CallStep, FrameStep, TornStep
<1>2. TornInv => FramesWhole BY DEF TornInv, FramesWhole
<1> QED BY <1>1, <1>2, InitCall, PTL DEF Spec
=============================================================================
