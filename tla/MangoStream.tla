---------------------------- MODULE MangoStream ----------------------------
(***************************************************************************)
(* What the client makes of the stream once the connection is upgraded,    *)
(* for any frames and however they are cut into reads.                     *)
(*                                                                         *)
(* The stream is described by slots: one for every frame the server sent,  *)
(* with its place among the tokens since the upgrade, the data sent before *)
(* it and the number of its message, and one more for the next frame.      *)
(***************************************************************************)
EXTENDS MangoProofs

\* What the server owes once it has sent a 101.
Upgrades == {"frames", "closed"}
\* A frame, its place in the stream, the data sent before it, its message.
Slot == [f : Frame, at : Nat, cum : Nat, no : Nat]

\* The tokens of a frame's header and of the whole frame, the data it carries
\* and the messages it ends.
HdrLen(f) == IF f.form = "short" THEN 2 ELSE 3
FrameLen(f) == HdrLen(f) + f.n
Bulk(f) == IF f.op \in Control THEN 0 ELSE f.n
Turn(f) == IF f.op \notin Control /\ f.fin THEN 1 ELSE 0

\* Token j of a frame that belongs to message no.
DataToken(no) == [k |-> "data", v |-> no]
TokenOf(f, no, j) ==
    IF j = 1 THEN [k |-> "f1", op |-> f.op, fin |-> f.fin]
    ELSE IF j = 2 THEN [k |-> "f2", mask |-> f.mask, n |-> IF f.form = "short" THEN f.n ELSE -1]
    ELSE IF j <= HdrLen(f) THEN [k |-> "fx", n |-> IF f.form = "huge" THEN Infinite ELSE f.n]
    ELSE DataToken(no)

\* Slot i and the next; the tokens t that are left after the first z; the data s.
Linked(q, i) == /\ q[i + 1].at = q[i].at + FrameLen(q[i].f)
                /\ q[i + 1].cum = q[i].cum + Bulk(q[i].f)
                /\ q[i + 1].no = q[i].no + Turn(q[i].f)
Placed(q, i, z, t) ==
    /\ q[i].at + FrameLen(q[i].f) <= z + Len(t)
    /\ \A j \in 1 .. FrameLen(q[i].f) : q[i].at + j > z =>
         t[q[i].at + j - z] = TokenOf(q[i].f, q[i].no, j)
Carried(q, i, s) ==
    /\ q[i].cum + Bulk(q[i].f) <= Len(s)
    /\ \A j \in 1 .. Bulk(q[i].f) : s[q[i].cum + j] = DataToken(q[i].no)
Laid(q, z, t, s, no) ==
    /\ q \in Seq(Slot) /\ Len(q) >= 1
    /\ q[Len(q)].at = z + Len(t) /\ q[Len(q)].cum = Len(s) /\ q[Len(q)].no = no
    /\ \A i \in 1 .. Len(q) - 1 : Linked(q, i) /\ Placed(q, i, z, t) /\ Carried(q, i, s)

\* The frame processor has passed on g data and stands in frame c.
Stands(q, z, c, a, g) ==
    /\ c \in 1 .. Len(q)
    /\ a.frameID = q[c].no % UINT8
    /\ a.state = 1 => z = q[c].at /\ g = q[c].cum
    /\ a.state = 2 =>
         /\ c < Len(q) /\ z = q[c].at + HdrLen(q[c].f) + a.done
         /\ a.sz = q[c].f.n /\ a.op = q[c].f.op /\ a.fin = q[c].f.fin
         /\ a.sz = 0 \/ a.done < a.sz
         /\ g = q[c].cum + (IF a.op \in Control THEN 0 ELSE a.done)

\* A body behind a 101, where none belongs: the processor refuses it.
Unframed == \E r \in Replies : ~Proper(r)
Stuck(t) == Unframed /\ t # << >> /\ t[1].k # "f1"
\* The stream right behind the head of the 101.
Fresh(t, s, no) == \/ Stuck(t)
                   \/ \E q : /\ Laid(q, 0, t, s, no)
                             /\ q[1].at = 0 /\ q[1].cum = 0 /\ q[1].no = 0
Opening(t) == t.k = "end" /\ t.reply.status = "101"

\* What is read next: the heads of responses are looked for here.
Source == IF curState = "RECVING_HEADERS" THEN workingBuffer \o wire ELSE wire
Stream == Rest \o wire
WsStates == {"WS_CONNECTED", "WS_POLLING", "WS_SENDING_FRAME", "WS_CLOSING"}

\* Before the upgrade there are no frames.
NotYet == owes \notin Upgrades => sent = << >> /\ msg = [no |-> 0, open |-> FALSE]
\* Behind the head of a 101 that is still to be read come the frames.
HeadsInv == \A p \in 1 .. Len(Source) :
              Opening(Source[p]) => owes \in Upgrades /\ Fresh(Drop(Source, p), sent, msg.no)
\* What was passed on is what was sent, in order, each under its frame ID.
InOrder == /\ Len(got) <= Len(sent)
           /\ \A j \in 1 .. Len(got) : got[j].v = sent[j] /\ got[j].id = got[j].v.v % UINT8
\* The processor stands in one of the frames, and its arguments say where.
WsInv ==
    inputDataProcessor = "websocket" =>
      /\ owes \in Upgrades /\ InOrder
      /\ curState \in WsStates \cup {"ABORTED", "DISCONNECTED"}
      /\ curState \in WsStates =>
           \/ Stuck(Stream) /\ IDPArgsWebsocket.state = 1
           \/ \E q, z, c : /\ z \in Nat /\ Laid(q, z, Stream, sent, msg.no)
                           /\ Stands(q, z, c, IDPArgsWebsocket, Len(got))
Piece == [v : Token, id : Nat] \cup Token
HistOK == sent \in Seq(Data) /\ got \in Seq(Piece)
StreamInv == HistOK /\ NotYet /\ HeadsInv /\ WsInv
-----------------------------------------------------------------------------
(***************************************************************************)
(* Sequences.                                                              *)
(***************************************************************************)

\* Putting two sequences of tokens one behind the other.
LEMMA Joined ==
  ASSUME NEW S, NEW s \in Seq(S), NEW t \in Seq(S)
  PROVE  /\ s \o t \in Seq(S) /\ Len(s \o t) = Len(s) + Len(t)
         /\ \A j \in 1 .. Len(s) : (s \o t)[j] = s[j]
         /\ \A j \in 1 .. Len(t) : (s \o t)[Len(s) + j] = t[j]
<1>1. Len(s) \in Nat /\ Len(t) \in Nat /\ s \o t \in Seq(S) /\ Len(s \o t) = Len(s) + Len(t)
  OBVIOUS
<1>2. ASSUME NEW j \in 1 .. Len(s) PROVE (s \o t)[j] = s[j] BY <1>1
<1>3. ASSUME NEW j \in 1 .. Len(t) PROVE (s \o t)[Len(s) + j] = t[j] BY <1>1
<1> QED BY <1>1, <1>2, <1>3

\* What is dropped first and what is dropped then.
LEMMA DropDrop ==
  ASSUME NEW S, NEW s \in Seq(S), NEW m \in Nat, NEW n \in Nat, m + n <= Len(s)
  PROVE  Drop(Drop(s, m), n) = Drop(s, m + n)
<1> DEFINE a == Drop(s, m)
           b == Drop(a, n)
           c == Drop(s, m + n)
<1>0. Len(s) \in Nat /\ m + n \in Nat OBVIOUS
<1>1. a \in Seq(S) /\ Len(a) = Len(s) - m /\ \A j \in 1 .. Len(a) : a[j] = s[m + j]
  BY <1>0, DropSeq
<1>3. c \in Seq(S) /\ Len(c) = Len(s) - (m + n) /\ \A j \in 1 .. Len(c) : c[j] = s[m + n + j]
  BY <1>0, DropSeq
<1> HIDE DEF a
<1>a. n <= Len(a) BY <1>0, <1>1
<1>2. b \in Seq(S) /\ Len(b) = Len(a) - n /\ \A j \in 1 .. Len(b) : b[j] = a[n + j]
  BY <1>a, <1>1, DropSeq
<1> HIDE DEF b, c
<1>4. Len(b) = Len(c) BY <1>0, <1>1, <1>2, <1>3
<1>5. ASSUME NEW j \in 1 .. Len(b) PROVE b[j] = c[j]
  <2>1. n + j \in 1 .. Len(a) BY <1>0, <1>1, <1>2
  <2>2. b[j] = s[m + (n + j)] BY <1>1, <1>2, <2>1
  <2>3. c[j] = s[m + n + j] BY <1>3, <1>4
  <2>4. m + (n + j) = m + n + j BY <1>0
  <2> QED BY <2>2, <2>3, <2>4
<1>6. b = c BY <1>2, <1>3, <1>4, <1>5, SeqEqual
<1> QED BY <1>6 DEF a, b, c

\* Dropping from the first of two sequences.
LEMMA DropJoined ==
  ASSUME NEW S, NEW s \in Seq(S), NEW t \in Seq(S), NEW n \in 0 .. Len(s)
  PROVE  Drop(s \o t, n) = Drop(s, n) \o t
<1> DEFINE a == s \o t
           b == Drop(a, n)
           c == Drop(s, n)
           d == c \o t
<1>0. Len(s) \in Nat /\ Len(t) \in Nat /\ n \in Nat /\ n <= Len(s) OBVIOUS
<1>1. /\ a \in Seq(S) /\ Len(a) = Len(s) + Len(t)
      /\ \A j \in 1 .. Len(s) : a[j] = s[j]
      /\ \A j \in 1 .. Len(t) : a[Len(s) + j] = t[j]
  BY Joined
<1>2. c \in Seq(S) /\ Len(c) = Len(s) - n /\ \A j \in 1 .. Len(c) : c[j] = s[n + j]
  BY <1>0, DropSeq
<1> HIDE DEF a, c
<1>a. n <= Len(a) BY <1>0, <1>1
<1>3. b \in Seq(S) /\ Len(b) = Len(a) - n /\ \A j \in 1 .. Len(b) : b[j] = a[n + j]
  BY <1>0, <1>a, <1>1, DropSeq
<1>4. /\ d \in Seq(S) /\ Len(d) = Len(c) + Len(t)
      /\ \A j \in 1 .. Len(c) : d[j] = c[j]
      /\ \A j \in 1 .. Len(t) : d[Len(c) + j] = t[j]
  <2>1. c \in Seq(S) BY <1>2
  <2> QED BY <2>1, Joined
<1> HIDE DEF b, d
<1>5. Len(b) = Len(d) BY <1>0, <1>1, <1>2, <1>3, <1>4
<1>6. ASSUME NEW j \in 1 .. Len(b) PROVE b[j] = d[j]
  <2>1. b[j] = a[n + j] BY <1>3
  <2>2. CASE j <= Len(c)
    <3>1. n + j \in 1 .. Len(s) /\ j \in 1 .. Len(c) BY <1>0, <1>2, <2>2
    <3> QED BY <1>1, <1>2, <1>4, <2>1, <3>1
  <2>3. CASE j > Len(c)
    <3>1. /\ j - Len(c) \in 1 .. Len(t)
          /\ n + j = Len(s) + (j - Len(c)) /\ j = Len(c) + (j - Len(c))
      BY <1>0, <1>1, <1>2, <1>3, <2>3
    <3>2. a[n + j] = t[j - Len(c)] BY <1>1, <3>1
    <3>3. d[j] = t[j - Len(c)] BY <1>4, <3>1
    <3> QED BY <2>1, <3>2, <3>3
  <2>4. Len(c) \in Nat BY <1>2
  <2> QED BY <2>2, <2>3, <2>4
<1>7. b = d BY <1>3, <1>4, <1>5, <1>6, SeqEqual
<1> QED BY <1>7 DEF a, b, c, d

\* Nothing is left of a sequence of which all is dropped.
LEMMA DropAll ==
  ASSUME NEW S, NEW s \in Seq(S)
  PROVE  Drop(s, Len(s)) = << >>  /\ Drop(s, 0) = s
<1>1. Len(s) \in Nat OBVIOUS
<1>2. Drop(s, Len(s)) \in Seq(S) /\ Len(Drop(s, Len(s))) = 0 BY <1>1, DropSeq
<1>3. Drop(s, Len(s)) = << >> BY <1>2, EmptySeq
<1>4. /\ Drop(s, 0) \in Seq(S) /\ Len(Drop(s, 0)) = Len(s)
      /\ \A j \in 1 .. Len(Drop(s, 0)) : Drop(s, 0)[j] = s[0 + j]
  BY <1>1, DropSeq
<1> DEFINE d == Drop(s, 0)
<1> HIDE DEF d
<1>5. ASSUME NEW j \in 1 .. Len(d) PROVE d[j] = s[j]
  <2>1. 0 + j = j BY <1>1
  <2> QED BY <1>4, <2>1 DEF d
<1>6. d \in Seq(S) /\ Len(d) = Len(s) BY <1>4 DEF d
<1>7. d = s BY <1>5, <1>6, SeqEqual
<1> QED BY <1>3, <1>7 DEF d

\* The first tokens and the others are all of them.
LEMMA TakeDrop ==
  ASSUME NEW S, NEW s \in Seq(S), NEW n \in 0 .. Len(s)
  PROVE  Take(s, n) \o Drop(s, n) = s
<1> DEFINE a == Take(s, n)
           b == Drop(s, n)
           d == a \o b
<1>0. Len(s) \in Nat /\ n \in Nat /\ n <= Len(s) OBVIOUS
<1>1. a \in Seq(S) /\ Len(a) = n /\ \A j \in 1 .. n : a[j] = s[j] BY TakeSeq
<1>2. b \in Seq(S) /\ Len(b) = Len(s) - n /\ \A j \in 1 .. Len(b) : b[j] = s[n + j]
  BY <1>0, DropSeq
<1> HIDE DEF a, b
<1>3. /\ d \in Seq(S) /\ Len(d) = Len(a) + Len(b)
      /\ \A j \in 1 .. Len(a) : d[j] = a[j]
      /\ \A j \in 1 .. Len(b) : d[Len(a) + j] = b[j]
  BY <1>1, <1>2, Joined
<1> HIDE DEF d
<1>4. Len(d) = Len(s) BY <1>0, <1>1, <1>2, <1>3
<1>5. ASSUME NEW j \in 1 .. Len(d) PROVE d[j] = s[j]
  <2>1. CASE j <= n BY <1>0, <1>1, <1>3, <2>1
  <2>2. CASE j > n
    <3>1. j - n \in 1 .. Len(b) /\ j = n + (j - n) BY <1>0, <1>2, <1>4, <2>2
    <3>2. d[Len(a) + (j - n)] = b[j - n] BY <1>3, <3>1
    <3>3. b[j - n] = s[n + (j - n)] BY <1>2, <3>1
    <3> QED BY <1>1, <3>1, <3>2, <3>3
  <2> QED BY <1>0, <2>1, <2>2
<1>6. d = s BY <1>3, <1>4, <1>5, SeqEqual
<1> QED BY <1>6 DEF a, b, d

\* Three sequences one behind the other.
LEMMA JoinThree ==
  ASSUME NEW S, NEW s \in Seq(S), NEW t \in Seq(S), NEW u \in Seq(S)
  PROVE  (s \o t) \o u = s \o (t \o u)
BY ConcatAssociative

\* The same of what is on its way.
LEMMA JoinTokens == \A s, t, u \in Seq(Token) : (s \o t) \o u = s \o (t \o u)
BY JoinThree, SMTT(60)

-----------------------------------------------------------------------------
(***************************************************************************)
(* Frames in the stream.                                                   *)
(***************************************************************************)

\* The lengths of a frame's parts.
LEMMA FrameSizes ==
  ASSUME NEW f \in Frame
  PROVE  /\ HdrLen(f) \in {2, 3} /\ f.n \in Nat /\ FrameLen(f) \in Nat
         /\ FrameLen(f) = HdrLen(f) + f.n /\ Bulk(f) \in Nat /\ Turn(f) \in {0, 1}
<1>1. f.n \in Nat BY DEF Frame
<1> QED BY <1>1 DEF HdrLen, FrameLen, Bulk, Turn

\* What a slot holds.
LEMMA SlotFields ==
  ASSUME NEW q \in Seq(Slot), NEW i \in 1 .. Len(q)
  PROVE  /\ q[i] \in Slot /\ q[i].f \in Frame
         /\ q[i].at \in Nat /\ q[i].cum \in Nat /\ q[i].no \in Nat
<1>1. q[i] \in Slot OBVIOUS
<1> QED BY <1>1 DEF Slot

\* Reading on in the stream leaves the frames where they are.
LEMMA LaidAdvance ==
  ASSUME NEW q, NEW z \in Nat, NEW t \in Seq(Token), NEW s, NEW no,
         Laid(q, z, t, s, no), NEW n \in 0 .. Len(t)
  PROVE  Laid(q, z + n, Drop(t, n), s, no)
<1> DEFINE u == Drop(t, n)
<1>0. n \in Nat /\ Len(t) \in Nat /\ n <= Len(t) OBVIOUS
<1>1. u \in Seq(Token) /\ Len(u) = Len(t) - n /\ \A j \in 1 .. Len(u) : u[j] = t[n + j]
  BY <1>0, DropSeq
<1> HIDE DEF u
<1>u. Len(u) \in Nat /\ Len(u) = Len(t) - n BY <1>0, <1>1
<1>2. q \in Seq(Slot) /\ Len(q) >= 1 /\ Len(q) \in Nat BY DEF Laid
<1>3. /\ q[Len(q)].at = z + n + Len(u) /\ q[Len(q)].cum = Len(s)
      /\ q[Len(q)].no = no
  BY <1>0, <1>1 DEF Laid
<1>4. ASSUME NEW i \in 1 .. Len(q) - 1
      PROVE  Linked(q, i) /\ Placed(q, i, z + n, u) /\ Carried(q, i, s)
  <2>1. Linked(q, i) /\ Placed(q, i, z, t) /\ Carried(q, i, s) BY DEF Laid
  <2>2. i \in 1 .. Len(q) BY <1>2
  <2>3. q[i].at \in Nat /\ q[i].f \in Frame BY <1>2, <2>2, SlotFields
  <2>4. FrameLen(q[i].f) \in Nat BY <2>3, FrameSizes
  <2> DEFINE a == q[i].at
             l == FrameLen(q[i].f)
  <2>a. a + l <= z + Len(t) BY <2>1 DEF Placed
  <2>5. \A j \in 1 .. l : a + j > z => t[a + j - z] = TokenOf(q[i].f, q[i].no, j)
    BY <2>1 DEF Placed
  <2>6. a \in Nat /\ l \in Nat BY <2>3, <2>4
  <2> HIDE DEF a, l
  <2>7. a + l <= z + n + Len(u) BY <1>0, <1>u, <2>a, <2>6
  <2>8. ASSUME NEW j \in 1 .. l, a + j > z + n
        PROVE  u[a + j - (z + n)] = TokenOf(q[i].f, q[i].no, j)
    <3>1. a + j - (z + n) \in 1 .. Len(u) /\ n + (a + j - (z + n)) = a + j - z /\ a + j > z
      BY <1>0, <1>u, <2>7, <2>6, <2>8
    <3>2. u[a + j - (z + n)] = t[a + j - z] BY <1>1, <3>1
    <3> QED BY <2>5, <3>1, <3>2
  <2>9. Placed(q, i, z + n, u) BY <2>7, <2>8 DEF Placed, a, l
  <2> QED BY <2>1, <2>9
<1>5. Laid(q, z + n, u, s, no) BY <1>2, <1>3, <1>4 DEF Laid
<1> QED BY <1>5 DEF u

\* Frame f, sent as the tokens u with the data w, takes the last slot of q.
WithFrame(q, f, z, t, s, no) ==
    [i \in 1 .. Len(q) + 1 |->
       IF i < Len(q) THEN q[i]
       ELSE IF i = Len(q) THEN [f |-> f, at |-> q[i].at, cum |-> q[i].cum, no |-> q[i].no]
       ELSE [f |-> f, at |-> z + Len(t) + FrameLen(f), cum |-> Len(s) + Bulk(f),
             no |-> no + Turn(f)]]

Written(u, f, no) == /\ u \in Seq(Token) /\ Len(u) = FrameLen(f)
                     /\ \A j \in 1 .. FrameLen(f) : u[j] = TokenOf(f, no, j)
Given(w, f, no) == /\ w \in Seq(Data) /\ Len(w) = Bulk(f)
                   /\ \A j \in 1 .. Bulk(f) : w[j] = DataToken(no)

\* The slots q2 are those of q and one more; only q's last frame may differ.
Longer(q2, q) ==
    /\ Len(q2) = Len(q) + 1
    /\ \A i \in 1 .. Len(q) :
         q2[i].at = q[i].at /\ q2[i].cum = q[i].cum /\ q2[i].no = q[i].no
    /\ \A i \in 1 .. Len(q) - 1 : q2[i] = q[i]

\* One frame more: the tokens it is sent as fill the last slot, its data goes
\* behind the data sent before, and a new slot stands behind it.
LEMMA LaidAppend ==
  ASSUME NEW q, NEW z \in Nat, NEW t \in Seq(Token), NEW s \in Seq(Data),
         NEW no \in Nat, Laid(q, z, t, s, no), NEW f \in Frame,
         NEW u, Written(u, f, no), NEW w, Given(w, f, no)
  PROVE  \E q2 : Laid(q2, z, t \o u, s \o w, no + Turn(f)) /\ Longer(q2, q)
<1>L. PICK L \in Nat : L = Len(q) BY DEF Laid
<1> DEFINE q2 == WithFrame(q, f, z, t, s, no)
           tt == t \o u
           ss == s \o w
<1>1. q \in Seq(Slot) /\ L >= 1 /\ L \in Nat BY <1>L DEF Laid
<1>2. FrameLen(f) \in Nat /\ Bulk(f) \in Nat /\ Turn(f) \in Nat BY FrameSizes
<1>3. Len(t) \in Nat /\ Len(s) \in Nat OBVIOUS
<1>4. /\ tt \in Seq(Token) /\ Len(tt) = Len(t) + FrameLen(f)
      /\ \A j \in 1 .. Len(t) : tt[j] = t[j]
      /\ \A j \in 1 .. FrameLen(f) : tt[Len(t) + j] = u[j]
  <2>1. Len(u) = FrameLen(f) BY DEF Written
  <2>0. u \in Seq(Token) BY DEF Written
  <2>2. /\ tt \in Seq(Token) /\ Len(tt) = Len(t) + Len(u)
        /\ \A j \in 1 .. Len(t) : tt[j] = t[j]
        /\ \A j \in 1 .. Len(u) : tt[Len(t) + j] = u[j]
    BY <2>0, Joined
  <2> QED BY <2>1, <2>2
<1>t. Len(tt) = Len(t) + FrameLen(f) BY <1>4
<1>5. /\ ss \in Seq(Data) /\ Len(ss) = Len(s) + Bulk(f)
      /\ \A j \in 1 .. Len(s) : ss[j] = s[j]
      /\ \A j \in 1 .. Bulk(f) : ss[Len(s) + j] = w[j]
  <2>1. Len(w) = Bulk(f) BY DEF Given
  <2>0. w \in Seq(Data) BY DEF Given
  <2>2. /\ ss \in Seq(Data) /\ Len(ss) = Len(s) + Len(w)
        /\ \A j \in 1 .. Len(s) : ss[j] = s[j]
        /\ \A j \in 1 .. Len(w) : ss[Len(s) + j] = w[j]
    BY <2>0, Joined
  <2> QED BY <2>1, <2>2
<1>s. Len(ss) = Len(s) + Bulk(f) BY <1>5
<1> HIDE DEF tt, ss
<1>6. /\ \A i \in 1 .. L - 1 : q2[i] = q[i]
      /\ q2[L] = [f |-> f, at |-> q[L].at, cum |-> q[L].cum, no |-> q[L].no]
      /\ q2[L + 1] = [f |-> f, at |-> z + Len(t) + FrameLen(f), cum |-> Len(s) + Bulk(f),
                      no |-> no + Turn(f)]
  <2>1. q2 = [i \in 1 .. L + 1 |->
       IF i < L THEN q[i]
       ELSE IF i = L THEN [f |-> f, at |-> q[i].at, cum |-> q[i].cum, no |-> q[i].no]
       ELSE [f |-> f, at |-> z + Len(t) + FrameLen(f), cum |-> Len(s) + Bulk(f),
             no |-> no + Turn(f)]]
    BY <1>L DEF WithFrame
  <2> HIDE DEF q2
  <2>2. ASSUME NEW i \in 1 .. L - 1 PROVE q2[i] = q[i]
    <3>1. i \in 1 .. L + 1 /\ i < L BY <1>1
    <3> QED BY <2>1, <3>1
  <2>3. L \in 1 .. L + 1 /\ ~(L < L) /\ L + 1 \in 1 .. L + 1 /\ ~(L + 1 < L) /\ L + 1 # L
    BY <1>1
  <2> QED BY <2>1, <2>2, <2>3
<1>d. DOMAIN q2 = 1 .. L + 1 /\ \A g : (\A i \in 1 .. L + 1 : q2[i] \in g) => q2 \in [1 .. L + 1 -> g]
  BY <1>L DEF WithFrame
<1> HIDE DEF q2
<1>7. q2 \in Seq(Slot) /\ Len(q2) = L + 1
  <2>1. ASSUME NEW i \in 1 .. L + 1 PROVE q2[i] \in Slot
    <3>1. CASE i < L
      <4>1. i \in 1 .. L - 1 /\ i \in 1 .. Len(q) BY <1>1, <1>L, <3>1
      <4> QED BY <1>1, <1>6, <4>1, SMTT(60)
    <3>2. CASE i = L
      <4>1. L \in 1 .. Len(q) BY <1>1, <1>L
      <4>2. q[L].at \in Nat /\ q[L].cum \in Nat /\ q[L].no \in Nat BY <1>1, <4>1, SlotFields
      <4> QED BY <1>6, <3>2, <4>2, SMTT(60) DEF Slot
    <3>3. CASE i = L + 1
      <4>1. z + Len(t) + FrameLen(f) \in Nat /\ Len(s) + Bulk(f) \in Nat /\ no + Turn(f) \in Nat
        BY <1>2, <1>3
      <4> QED BY <1>6, <3>3, <4>1 DEF Slot
    <3> QED BY <1>1, <3>1, <3>2, <3>3
  <2>2. q2 \in [1 .. L + 1 -> Slot] BY <1>d, <2>1
  <2>3. L + 1 \in Nat BY <1>1
  <2> QED BY <2>2, <2>3, SeqOfLen
<1>8. ASSUME NEW i \in 1 .. L
      PROVE  q2[i].at = q[i].at /\ q2[i].cum = q[i].cum /\ q2[i].no = q[i].no
  <2>1. CASE i = L BY <1>6, <2>1
  <2>2. CASE i # L
    <3>1. i \in 1 .. L - 1 BY <1>1, <2>2
    <3> QED BY <1>6, <3>1
  <2> QED BY <2>1, <2>2
<1>9. q[L].at = z + Len(t) /\ q[L].cum = Len(s) /\ q[L].no = no BY <1>L DEF Laid
<1>10. ASSUME NEW i \in 1 .. Len(q2) - 1
       PROVE  Linked(q2, i) /\ Placed(q2, i, z, tt) /\ Carried(q2, i, ss)
  <2>0. i \in 1 .. L BY <1>1, <1>7
  <2>1. CASE i < L
    <3>1. i \in 1 .. L - 1 /\ i + 1 \in 1 .. L BY <1>1, <2>1
    <3>2. Linked(q, i) /\ Placed(q, i, z, t) /\ Carried(q, i, s) BY <1>L, <3>1 DEF Laid
    <3>3. q2[i] = q[i] BY <1>6, <3>1
    <3>4. Linked(q2, i) BY <1>8, <3>1, <3>2, <3>3 DEF Linked
    <3>5. q[i].f \in Frame /\ q[i].at \in Nat /\ q[i].cum \in Nat BY <1>1, <1>L, <2>0, SlotFields
    <3>6. FrameLen(q[i].f) \in Nat /\ Bulk(q[i].f) \in Nat BY <3>5, FrameSizes
    <3>7. Placed(q, i, z, tt)
      <4> DEFINE a == q[i].at
                 l == FrameLen(q[i].f)
      <4>0. a + l <= z + Len(t) BY <3>2 DEF Placed
      <4>1. \A j \in 1 .. l : a + j > z => t[a + j - z] = TokenOf(q[i].f, q[i].no, j)
        BY <3>2 DEF Placed
      <4>2. a \in Nat /\ l \in Nat BY <3>5, <3>6
      <4> HIDE DEF a, l
      <4>3. a + l <= z + Len(tt) BY <1>2, <1>3, <1>t, <4>0, <4>2, SMTT(60)
      <4>4. ASSUME NEW j \in 1 .. l, a + j > z
            PROVE  tt[a + j - z] = TokenOf(q[i].f, q[i].no, j)
        <5>1. a + j - z \in 1 .. Len(t) BY <1>3, <4>0, <4>2, <4>4
        <5> QED BY <1>4, <4>1, <4>4, <5>1
      <4> QED BY <4>3, <4>4 DEF Placed, a, l
    <3>8. Carried(q, i, ss)
      <4> DEFINE c == q[i].cum
                 b == Bulk(q[i].f)
      <4>0. c + b <= Len(s) BY <3>2 DEF Carried
      <4>1. \A j \in 1 .. b : s[c + j] = DataToken(q[i].no)
        BY <3>2 DEF Carried
      <4>2. c \in Nat /\ b \in Nat BY <3>5, <3>6
      <4> HIDE DEF c, b
      <4>3. c + b <= Len(ss) BY <1>2, <1>3, <1>s, <4>0, <4>2
      <4>4. ASSUME NEW j \in 1 .. b PROVE ss[c + j] = DataToken(q[i].no)
        <5>1. c + j \in 1 .. Len(s) BY <1>3, <4>0, <4>2
        <5> QED BY <1>5, <4>1, <5>1
      <4> QED BY <4>3, <4>4 DEF Carried, c, b
    <3> QED BY <3>3, <3>4, <3>7, <3>8 DEF Placed, Carried
  <2>2. CASE i = L
    <3>1. /\ q2[i].f = f /\ q2[i].at = z + Len(t) /\ q2[i].cum = Len(s) /\ q2[i].no = no
          /\ q2[i + 1].at = z + Len(t) + FrameLen(f) /\ q2[i + 1].cum = Len(s) + Bulk(f)
          /\ q2[i + 1].no = no + Turn(f)
      BY <1>6, <1>9, <2>2
    <3>2. Linked(q2, i) BY <3>1 DEF Linked
    <3>3. ASSUME NEW j \in 1 .. FrameLen(f), z + Len(t) + j > z
          PROVE  tt[z + Len(t) + j - z] = TokenOf(f, no, j)
      <4>1. z + Len(t) + j - z = Len(t) + j BY <1>2, <1>3
      <4> QED BY <1>4, <4>1 DEF Written
    <3>4. z + Len(t) + FrameLen(f) <= z + Len(tt) BY <1>2, <1>3, <1>t
    <3>5. Placed(q2, i, z, tt) BY <3>1, <3>3, <3>4 DEF Placed
    <3>6. ASSUME NEW j \in 1 .. Bulk(f) PROVE ss[Len(s) + j] = DataToken(no) BY <1>5 DEF Given
    <3>7. Len(s) + Bulk(f) <= Len(ss) BY <1>2, <1>3, <1>s
    <3>8. Carried(q2, i, ss) BY <3>1, <3>6, <3>7 DEF Carried
    <3> QED BY <3>2, <3>5, <3>8
  <2> QED BY <1>1, <2>0, <2>1, <2>2
<1>11. Laid(q2, z, tt, ss, no + Turn(f))
  <2>1. q2[L + 1].at = z + Len(tt) /\ q2[L + 1].cum = Len(ss) /\ q2[L + 1].no = no + Turn(f)
    BY <1>2, <1>3, <1>t, <1>s, <1>6
  <2>2. Len(q2) = L + 1 /\ Len(q2) >= 1 BY <1>1, <1>7
  <2> QED BY <1>7, <1>10, <2>1, <2>2 DEF Laid
<1>12. Longer(q2, q) BY <1>6, <1>7, <1>8, <1>L DEF Longer
<1> QED BY <1>11, <1>12 DEF tt, ss

-----------------------------------------------------------------------------
(***************************************************************************)
(* How a step may move the stream.                                         *)
(***************************************************************************)

\* The tokens the client still has to look at are tokens.
LEMMA StreamSeq ==
  ASSUME IndInv
  PROVE  /\ Source \in Seq(Token) /\ Stream \in Seq(Token) /\ wire \in Seq(Token)
         /\ workingBuffer \in Seq(Token) /\ Rest \in Seq(Token)
<1>1. wire \in Seq(Token) /\ workingBuffer \in Seq(Token)
  BY DEF IndInv, TypeOK, ServerOK, BufferOK
<1>2. Rest \in Seq(Token) BY RestSeq
<1>3. workingBuffer \o wire \in Seq(Token) /\ Rest \o wire \in Seq(Token)
  BY <1>1, <1>2, Joined
<1> QED BY <1>1, <1>2, <1>3 DEF Source, Stream

\* A step that leaves the frame processor and its stream alone.
LEMMA WsKept ==
  ASSUME WsInv,
         UNCHANGED <<inputDataProcessor, IDPArgsWebsocket, got, sent, msg>>,
         owes \in Upgrades => owes' \in Upgrades,
         inputDataProcessor = "websocket" =>
           /\ curState' \in WsStates \cup {"ABORTED", "DISCONNECTED"}
           /\ curState' \in WsStates => curState \in WsStates /\ Stream' = Stream
  PROVE  WsInv'
<1> SUFFICES ASSUME inputDataProcessor = "websocket" PROVE WsInv' BY DEF WsInv
<1>1. owes' \in Upgrades /\ InOrder BY DEF WsInv
<1>2. InOrder' BY <1>1 DEF InOrder
<1>3. ASSUME curState' \in WsStates
      PROVE  \/ Stuck(Stream') /\ IDPArgsWebsocket'.state = 1
             \/ \E q, z, c : /\ z \in Nat /\ Laid(q, z, Stream', sent', msg'.no)
                             /\ Stands(q, z, c, IDPArgsWebsocket', Len(got'))
  <2>1. /\ Stream' = Stream /\ curState \in WsStates
        /\ UNCHANGED <<IDPArgsWebsocket, got, sent, msg>> BY <1>3
  <2>2. CASE Stuck(Stream) /\ IDPArgsWebsocket.state = 1 BY <2>1, <2>2
  <2>3. CASE ~(Stuck(Stream) /\ IDPArgsWebsocket.state = 1)
    <3>1. PICK q, z, c : /\ z \in Nat /\ Laid(q, z, Stream, sent, msg.no)
                         /\ Stands(q, z, c, IDPArgsWebsocket, Len(got))
      BY <2>1, <2>3 DEF WsInv
    <3> QED BY <2>1, <3>1
  <2> QED BY <2>2, <2>3
<1> QED BY <1>1, <1>2, <1>3 DEF WsInv

\* The heads of responses are where they were, or behind what was read.
LEMMA HeadsKept ==
  ASSUME IndInv, HeadsInv, UNCHANGED <<sent, msg>>,
         owes \in Upgrades => owes' \in Upgrades,
         NEW n \in 0 .. Len(Source), Source' = Drop(Source, n)
  PROVE  HeadsInv'
<1>1. Source \in Seq(Token) /\ Len(Source) \in Nat /\ n \in Nat /\ n <= Len(Source)
  BY StreamSeq
<1>2. Len(Source') = Len(Source) - n /\ \A j \in 1 .. Len(Source') : Source'[j] = Source[n + j]
  BY <1>1, DropSeq
<1>3. ASSUME NEW p \in 1 .. Len(Source'), Opening(Source'[p])
      PROVE  owes' \in Upgrades /\ Fresh(Drop(Source', p), sent', msg'.no)
  <2>1. n + p \in 1 .. Len(Source) /\ n + p \in Nat /\ p \in Nat BY <1>1, <1>2
  <2>2. Opening(Source[n + p]) BY <1>2, <1>3
  <2>3. owes \in Upgrades /\ Fresh(Drop(Source, n + p), sent, msg.no)
    BY <2>1, <2>2 DEF HeadsInv
  <2>4. Drop(Source', p) = Drop(Source, n + p) BY <1>1, <2>1, DropDrop
  <2> QED BY <2>3, <2>4
<1> QED BY <1>3 DEF HeadsInv

\* What a step reads it takes from the front of the source.
LEMMA SourceMoves ==
  ASSUME IndInv, NEW n \in 0 .. Len(wire), wire' = Drop(wire, n),
         curState' = "RECVING_HEADERS" =>
           \/ workingBuffer' = << >>
           \/ curState = "RECVING_HEADERS" /\ workingBuffer' = workingBuffer \o Take(wire, n)
  PROVE  \E m \in 0 .. Len(Source) : Source' = Drop(Source, m)
<1>1. wire \in Seq(Token) /\ workingBuffer \in Seq(Token) /\ Len(wire) \in Nat
      /\ Len(workingBuffer) \in Nat /\ n \in Nat /\ n <= Len(wire)
  BY StreamSeq
<1>2. Drop(wire, n) \in Seq(Token) /\ Take(wire, n) \in Seq(Token) BY <1>1, DropSeq, TakeSeq
<1>3. CASE curState' # "RECVING_HEADERS" \/ workingBuffer' = << >>
  <2>1. Source' = Drop(wire, n)
    <3>1. << >> \o Drop(wire, n) = Drop(wire, n) BY <1>2
    <3> QED BY <1>3, <3>1 DEF Source
  <2>2. CASE curState # "RECVING_HEADERS" BY <2>1, <2>2 DEF Source
  <2>3. CASE curState = "RECVING_HEADERS"
    <3> DEFINE l == Len(workingBuffer)
    <3>1. Source = workingBuffer \o wire BY <2>3 DEF Source
    <3>2. Source \in Seq(Token) /\ Len(Source) = l + Len(wire) BY <1>1, <3>1, Joined
    <3>3. Drop(Source, l) = wire
      <4>0. l \in 0 .. Len(workingBuffer) BY <1>1
      <4>1. Drop(workingBuffer \o wire, l) = Drop(workingBuffer, l) \o wire
        BY <1>1, <4>0, DropJoined
      <4>2. Drop(workingBuffer, l) = << >> BY <1>1, DropAll
      <4> QED BY <1>1, <3>1, <4>1, <4>2
    <3>4. l + n <= Len(Source) /\ l + n \in Nat /\ l \in Nat BY <1>1, <3>2
    <3>5. Drop(Source, l + n) = Drop(wire, n) BY <1>1, <3>2, <3>3, <3>4, DropDrop
    <3>6. l + n \in 0 .. Len(Source) BY <1>1, <3>2, <3>4
    <3> HIDE DEF l
    <3> QED BY <2>1, <3>5, <3>6
  <2> QED BY <2>2, <2>3
<1>4. CASE ~(curState' # "RECVING_HEADERS" \/ workingBuffer' = << >>)
  <2>1. Source' = (workingBuffer \o Take(wire, n)) \o Drop(wire, n)
        /\ Source = workingBuffer \o wire
    BY <1>4 DEF Source
  <2>2. Source' = workingBuffer \o (Take(wire, n) \o Drop(wire, n))
    <3> DEFINE a == Take(wire, n)
               b == Drop(wire, n)
    <3>1. a \in Seq(Token) /\ b \in Seq(Token) BY <1>2
    <3> HIDE DEF a, b
    <3>2. (workingBuffer \o a) \o b = workingBuffer \o (a \o b) BY <1>1, <3>1, JoinTokens, Zenon
    <3> QED BY <2>1, <3>2 DEF a, b
  <2>3. Take(wire, n) \o Drop(wire, n) = wire BY <1>1, TakeDrop
  <2>4. Source' = Source BY <2>1, <2>2, <2>3
  <2>5. Source = Drop(Source, 0) BY StreamSeq, DropAll
  <2>6. Len(Source) \in Nat BY StreamSeq
  <2>7. 0 \in 0 .. Len(Source) BY <2>6
  <2> QED BY <2>4, <2>5, <2>7
<1> QED BY <1>3, <1>4

\* A step of the client that reads n tokens and passes no frame on.
LEMMA StreamKept ==
  ASSUME IndInv, StreamInv, UNCHANGED <<sent, msg>>, got' \in Seq(Piece),
         owes \in Upgrades => owes' \in Upgrades,
         NEW n \in 0 .. Len(wire), wire' = Drop(wire, n),
         curState' = "RECVING_HEADERS" =>
           \/ workingBuffer' = << >>
           \/ curState = "RECVING_HEADERS" /\ workingBuffer' = workingBuffer \o Take(wire, n),
         inputDataProcessor' = "websocket" =>
           /\ UNCHANGED <<inputDataProcessor, IDPArgsWebsocket, got>>
           /\ curState' \in WsStates \cup {"ABORTED", "DISCONNECTED"}
           /\ curState' \in WsStates => curState \in WsStates /\ Stream' = Stream
  PROVE  StreamInv'
<1>1. HistOK' BY DEF StreamInv, HistOK
<1>2. NotYet' BY DEF StreamInv, NotYet
<1>3. HeadsInv' BY SourceMoves, HeadsKept DEF StreamInv
<1>4. WsInv'
  <2>1. CASE inputDataProcessor' # "websocket" BY <2>1 DEF WsInv
  <2>2. CASE inputDataProcessor' = "websocket" BY <2>2, WsKept DEF StreamInv
  <2> QED BY <2>1, <2>2
<1> QED BY <1>1, <1>2, <1>3, <1>4 DEF StreamInv

\* A step of the client that reads nothing.
LEMMA StreamQuiet ==
  ASSUME IndInv, StreamInv, UNCHANGED <<wire, sent, msg>>, got' \in Seq(Piece),
         owes \in Upgrades => owes' \in Upgrades,
         curState' = "RECVING_HEADERS" =>
           \/ workingBuffer' = << >>
           \/ curState = "RECVING_HEADERS" /\ workingBuffer' = workingBuffer,
         inputDataProcessor' = "websocket" =>
           /\ UNCHANGED <<inputDataProcessor, IDPArgsWebsocket, got>>
           /\ curState' \in WsStates \cup {"ABORTED", "DISCONNECTED"}
           /\ curState' \in WsStates => curState \in WsStates /\ Stream' = Stream
  PROVE  StreamInv'
<1>1. wire \in Seq(Token) /\ workingBuffer \in Seq(Token) /\ Len(wire) \in Nat BY StreamSeq
<1>2. 0 \in 0 .. Len(wire) /\ wire' = Drop(wire, 0) BY <1>1, DropAll
<1>3. workingBuffer = workingBuffer \o Take(wire, 0)
  <2>1. Take(wire, 0) \in Seq(Token) /\ Len(Take(wire, 0)) = 0 BY <1>1, <1>2, TakeSeq
  <2>2. Take(wire, 0) = << >> BY <2>1, EmptySeq
  <2> QED BY <1>1, <2>2
<1>4. curState' = "RECVING_HEADERS" =>
        \/ workingBuffer' = << >>
        \/ curState = "RECVING_HEADERS" /\ workingBuffer' = workingBuffer \o Take(wire, 0)
  BY <1>3
<1>5. inputDataProcessor' = "websocket" =>
        /\ UNCHANGED <<inputDataProcessor, IDPArgsWebsocket, got>>
        /\ curState' \in WsStates \cup {"ABORTED", "DISCONNECTED"}
        /\ curState' \in WsStates => curState \in WsStates /\ Stream' = Stream
  OBVIOUS
<1> QED BY <1>2, <1>4, <1>5, StreamKept

\* Moving the unread tokens to the front of the working buffer, or adding to
\* them what is read, does not change the stream.
LEMMA StreamSame ==
  ASSUME IndInv, NEW k \in Nat, k = left + processed, wire' = wire,
         \/ UNCHANGED <<workingBuffer, left, processed>>
         \/ workingBuffer' = Drop(workingBuffer, k) /\ left' = 0 /\ processed' = 0
  PROVE  Stream' = Stream
<1>1. workingBuffer \in Seq(Token) /\ Rest \in Seq(Token) BY StreamSeq
<1>2. CASE UNCHANGED <<workingBuffer, left, processed>> BY <1>2 DEF Stream, Rest
<1>3. CASE workingBuffer' = Drop(workingBuffer, k) /\ left' = 0 /\ processed' = 0
  <2>1. Rest = workingBuffer' BY <1>3 DEF Rest
  <2>2. Rest' = Drop(workingBuffer', 0) BY <1>3 DEF Rest
  <2>3. Rest' = Rest BY <1>1, <2>1, <2>2, DropAll
  <2> QED BY <2>3 DEF Stream
<1> QED BY <1>2, <1>3

\* The states a websocket connection is in.
LEMMA WsWhere ==
  ASSUME IndInv, StreamInv
  PROVE  /\ inputDataProcessor = "websocket" => curState \in WsStates \cup {"ABORTED", "DISCONNECTED"}
         /\ curState \in WsStates => inputDataProcessor = "websocket"
         /\ got \in Seq(Piece)
<1>1. curState \in WsStates => inputDataProcessor = "websocket"
  BY DEF IndInv, PointerInv, ArgsMatch, WsStates
<1> QED BY <1>1 DEF StreamInv, WsInv, HistOK

\* Entering a state from mangoSM_PROCESS with no frame under way: the stream
\* stays as it is when the connection is upgraded.
LEMMA EnterStream ==
  ASSUME IndInv, StreamInv, processed = 0, processed' = 0, NEW s, NEW err, NEW timeout,
         EnterFor(s, err, timeout), UNCHANGED <<wire, sent, msg>>,
         owes \in Upgrades => owes' \in Upgrades,
         UNCHANGED <<inputDataProcessor, IDPArgsWebsocket, got>>,
         inputDataProcessor = "websocket" =>
           \/ s \in {"ABORTED", "DISCONNECTED"}
           \/ s \in WsStates /\ curState \in WsStates
  PROVE  StreamInv'
<1>1. curState' = s /\ EntryWB(s) BY DEF EnterFor, EnterSM
<1>2. s = "RECVING_HEADERS" => workingBuffer' = << >> BY <1>1 DEF EntryWB
<1>3. s \in WsStates => Stream' = Stream
  <2>0. left \in Nat BY DEF IndInv, TypeOK, BufferOK
  <2>1. left + processed \in Nat /\ left + processed = left BY <2>0
  <2>2. CASE s = "WS_CONNECTED"
    <3>1. workingBuffer' = Drop(workingBuffer, left) /\ left' = 0
      BY <1>1, <2>2 DEF EntryWB, Shrink
    <3> QED BY <2>1, <3>1, StreamSame
  <2>3. CASE s \in WsStates \ {"WS_CONNECTED"}
    <3>1. UNCHANGED <<workingBuffer, left>> BY <1>1, <2>3 DEF EntryWB, wbVars, WsStates
    <3> QED BY <2>1, <3>1, StreamSame
  <2> QED BY <2>2, <2>3
<1>4. got' \in Seq(Piece) BY WsWhere
<1>5. inputDataProcessor' = "websocket" =>
           /\ UNCHANGED <<inputDataProcessor, IDPArgsWebsocket, got>>
           /\ curState' \in WsStates \cup {"ABORTED", "DISCONNECTED"}
           /\ curState' \in WsStates => curState \in WsStates /\ Stream' = Stream
  BY <1>1, <1>3 DEF WsStates
<1> QED BY <1>1, <1>2, <1>4, <1>5, StreamQuiet

\* The application's calls.
LEMMA CallStream ==
  ASSUME IndInv, StreamInv, NEW name \in CallNames \ {NULL}, NEW n \in Nat, Call(name, n)
  PROVE  StreamInv'
<1>1. /\ pc = "app" /\ UNCHANGED <<dpVars, processed, srvVars, histVars>> BY DEF Call
<1>2. /\ UNCHANGED <<wire, sent, msg, owes, got, processed>>
      /\ UNCHANGED <<inputDataProcessor, IDPArgsWebsocket>>
  BY <1>1 DEF srvVars, histVars, dpVars, inVars
<1>3. processed = 0 /\ processed' = 0 BY <1>1, <1>2 DEF IndInv, BufferInv
<1>4. CASE name \in Accepts(curState)
  <2>1. EnterFor(Target(name), "OK", IF name = "wsPoll" THEN n ELSE Infinite)
    BY <1>4 DEF Call
  <2>2. curState \in WsStates \cup {"ABORTED", "DISCONNECTED"} =>
          Target(name) \in WsStates /\ curState \in WsStates
    BY <1>4 DEF Accepts, Target, WsStates, CallNames
  <2>3. inputDataProcessor = "websocket" => Target(name) \in WsStates /\ curState \in WsStates
    BY <2>2, WsWhere
  <2> QED BY <1>2, <1>3, <2>1, <2>3, EnterStream
<1>5. CASE name \notin Accepts(curState)
  <2>1. UNCHANGED <<curState, workingBuffer, left>> BY <1>5 DEF Call, wbVars
  <2>2. left + processed \in Nat BY RestSeq
  <2>3. Stream' = Stream BY <1>2, <2>1, <2>2, StreamSame
  <2> QED BY <1>2, <2>1, <2>3, WsWhere, StreamQuiet
<1> QED BY <1>4, <1>5

\* The calls of the application neither read nor pass anything on.
LEMMA ApplicationStream ==
  ASSUME IndInv, StreamInv, Application
  PROVE  StreamInv'
<1>1. DataSizes \subseteq Nat /\ PollTimeouts \subseteq Nat BY MangoAssumption
<1>2. CASE mango_httpRequestProcess
  BY <1>2, CallStream DEF mango_httpRequestProcess, CallNames, NULL
<1>3. CASE mango_httpDataSend
  BY <1>1, <1>3, CallStream DEF mango_httpDataSend, CallNames, NULL
<1>4. CASE mango_wsPoll
  BY <1>1, <1>4, CallStream DEF mango_wsPoll, CallNames, NULL
<1>5. CASE mango_wsFrameSend
  BY <1>5, CallStream DEF mango_wsFrameSend, CallNames, NULL
<1>6. CASE mango_wsClose
  BY <1>6, CallStream DEF mango_wsClose, CallNames, NULL
<1>7. CASE mango_httpRequestNew \/ mango_httpHeaderSet
  <2>1. /\ curState = "HTTP_CONNECTED"
        /\ UNCHANGED <<smVars, dpVars, srvVars, histVars>>
    BY <1>7 DEF mango_httpRequestNew, mango_httpHeaderSet, Building
  <2>2. /\ UNCHANGED <<curState, wire, sent, msg, owes, got>>
        /\ UNCHANGED <<inputDataProcessor, IDPArgsWebsocket>>
    BY <2>1 DEF smVars, srvVars, histVars, dpVars, inVars
  <2>3. inputDataProcessor # "websocket" BY <2>1, WsWhere DEF WsStates
  <2> QED BY <2>1, <2>2, <2>3, WsWhere, StreamQuiet
<1> QED BY <1>2, <1>3, <1>4, <1>5, <1>6, <1>7 DEF Application

\* The handlers that read nothing and hand no response over.
LEMMA TimeoutStream ==
  ASSUME IndInv, StreamInv, Timeout
  PROVE  StreamInv'
<1>1. /\ pc = "loop" /\ UNCHANGED <<dpVars, processed, srvVars, histVars>> BY DEF Timeout
<1>2. /\ UNCHANGED <<wire, sent, msg, owes, got, processed>>
      /\ UNCHANGED <<inputDataProcessor, IDPArgsWebsocket>>
  BY <1>1 DEF srvVars, histVars, dpVars, inVars
<1>3. processed = 0 /\ processed' = 0 BY <1>1, <1>2, InLoop
<1>4. PICK s, err : Enter(s, err) /\ (s = "ABORTED" \/ (s = "WS_CONNECTED" /\ curState = "WS_POLLING"))
  BY DEF Timeout
<1>5. EnterFor(s, err, EntryTimeout(s)) BY <1>4 DEF Enter
<1> QED BY <1>2, <1>3, <1>4, <1>5, EnterStream DEF WsStates

\* The handlers that send leave what was received alone.
LEMMA SendStream ==
  ASSUME IndInv, StreamInv, SendHeaders \/ HeadersSent \/ SendPacket \/ SendFrame
  PROVE  StreamInv'
<1>1. pc = "loop" BY DEF SendHeaders, HeadersSent, SendPacket, SendFrame, Throws
<1>2. /\ UNCHANGED <<wire, sent, msg, got, processed>>
      /\ UNCHANGED <<inputDataProcessor, IDPArgsWebsocket>>
  BY DEF SendHeaders, HeadersSent, SendPacket, SendFrame, srvVars, histVars, dpVars, inVars
<1>3. processed = 0 /\ processed' = 0 BY <1>1, <1>2, InLoop
<1>4. owes \in Upgrades => owes' \in Upgrades
  <2>1. CASE SendHeaders BY <2>1 DEF SendHeaders, HeadArrives, Upgrades
  <2>2. CASE HeadersSent \/ SendFrame BY <2>2 DEF HeadersSent, SendFrame, srvVars
  <2>3. CASE SendPacket
    BY <2>3 DEF SendPacket, mangoODP_raw, mangoODP_chunked, ODPDone, Upgrades
  <2> QED BY <2>1, <2>2, <2>3
<1>5. curState \in WsStates => curState \in {"WS_SENDING_FRAME", "WS_CLOSING"}
  BY DEF SendHeaders, HeadersSent, SendPacket, SendFrame, Throws, WsStates
<1>6. inputDataProcessor = "websocket" => curState \in {"WS_SENDING_FRAME", "WS_CLOSING"}
  BY <1>5, WsWhere DEF SendHeaders, HeadersSent, SendPacket, SendFrame, Throws
<1>7. ASSUME NEW s, NEW err, Enter(s, err),
             curState \in {"WS_SENDING_FRAME", "WS_CLOSING"} =>
               s \in {"WS_CONNECTED", "ABORTED", "DISCONNECTED"}
      PROVE  StreamInv'
  <2>1. EnterFor(s, err, EntryTimeout(s)) BY <1>7 DEF Enter
  <2>2. inputDataProcessor = "websocket" =>
           \/ s \in {"ABORTED", "DISCONNECTED"}
           \/ s \in WsStates /\ curState \in WsStates
    BY <1>6, <1>7 DEF WsStates
  <2> QED BY <1>2, <1>3, <1>4, <2>1, <2>2, EnterStream
<1>8. CASE SendFrame
  <2>1. \E s \in {"WS_CONNECTED", "ABORTED", "DISCONNECTED"} : Enter(s, smExitError)
    BY <1>8 DEF SendFrame
  <2> QED BY <1>7, <2>1
<1>9. CASE HeadersSent
  <2>1. \E s, err : Enter(s, err) BY <1>9 DEF HeadersSent, AttachODP
  <2>2. curState = "SENDING_HEADERS" BY <1>9 DEF HeadersSent, Throws
  <2> QED BY <1>7, <2>1, <2>2
<1>10. CASE SendPacket
  <2>1. \E s, err : Enter(s, err)
    BY <1>10 DEF SendPacket, mangoODP_raw, mangoODP_chunked, ODPDone
  <2>2. curState = "SENDING_PACKET" BY <1>10 DEF SendPacket, Throws
  <2> QED BY <1>7, <2>1, <2>2
<1>11. CASE SendHeaders
  <2>1. curState = "SENDING_HEADERS" BY <1>11 DEF SendHeaders, Throws
  <2>2. CASE Enter("DISCONNECTED", "CONNECTION") BY <1>7, <2>1, <2>2
  <2>3. CASE ~Enter("DISCONNECTED", "CONNECTION")
    <3>1. curState' = curState BY <1>11, <2>3 DEF SendHeaders, Stay
    <3>2. inputDataProcessor # "websocket" BY <1>6, <2>1
    <3> QED BY <1>2, <1>4, <2>1, <3>1, <3>2, WsWhere, StreamQuiet
  <2> QED BY <2>2, <2>3
<1> QED BY <1>8, <1>9, <1>10, <1>11

\* Handing the working buffer to a data processor changes neither.
LEMMA ProcessDataStream ==
  ASSUME IndInv, StreamInv, ProcessData \/ Tick
  PROVE  StreamInv'
<1>2. /\ UNCHANGED <<wire, sent, msg, owes, got, processed>>
      /\ UNCHANGED <<inputDataProcessor, IDPArgsWebsocket>>
      /\ UNCHANGED <<curState, workingBuffer, left>>
  BY DEF ProcessData, Tick, smVars, wbVars, srvVars, histVars, dpVars, inVars
<1>3. left + processed \in Nat BY RestSeq
<1>4. Stream' = Stream BY <1>2, <1>3, StreamSame
<1> QED BY <1>2, <1>4, WsWhere, StreamQuiet

\* Reading: what comes goes behind what is there.
LEMMA ReadHeadersStream ==
  ASSUME IndInv, StreamInv, ReadHeaders
  PROVE  StreamInv'
<1>1. pc = "loop" /\ curState = "RECVING_HEADERS" BY DEF ReadHeaders, Throws
<1>2. /\ UNCHANGED <<sent, msg, owes, got, processed>>
      /\ UNCHANGED <<inputDataProcessor, IDPArgsWebsocket>>
  BY DEF ReadHeaders, histVars, dpVars, inVars
<1>3. inputDataProcessor # "websocket" BY <1>1, WsWhere DEF WsStates
<1>4. got' \in Seq(Piece) BY <1>2, WsWhere
<1>5. CASE ReadFails \/ ReadNothing
  <2>1. wire' = wire BY <1>5 DEF ReadFails, ReadNothing
  <2>2. curState' = "RECVING_HEADERS" => workingBuffer' = workingBuffer
    BY <1>5 DEF ReadFails, ReadNothing, Enter, EnterFor, EnterSM, wbVars
  <2> QED BY <1>1, <1>2, <1>3, <1>4, <2>1, <2>2, StreamQuiet
<1>6. CASE ~(ReadFails \/ ReadNothing)
  <2>1. PICK n \in Readable : Receive(n) BY <1>6 DEF ReadHeaders
  <2>2. n \in 0 .. Len(wire)
    <3>1. Len(wire) \in Nat /\ FreeSz \in Int BY <1>1, StreamSeq, InLoop DEF FreeSz
    <3> QED BY <3>1 DEF Readable, MinOf
  <2>3. workingBuffer' = workingBuffer \o Take(wire, n) /\ wire' = Drop(wire, n)
    BY <2>1 DEF Receive
  <2> QED BY <1>1, <1>2, <1>3, <1>4, <2>2, <2>3, StreamKept
<1> QED BY <1>5, <1>6

\* What is read moves from the wire into the working buffer: the stream stays.
LEMMA ReceiveStream ==
  ASSUME IndInv, NEW n \in 0 .. Len(wire), Receive(n), UNCHANGED <<left, processed>>
  PROVE  Stream' = Stream
<1> DEFINE a == Take(wire, n)
           b == Drop(wire, n)
<1>1. /\ wire \in Seq(Token) /\ workingBuffer \in Seq(Token) /\ Rest \in Seq(Token)
      /\ left + processed \in 0 .. Len(workingBuffer)
  BY StreamSeq, RestSeq DEF IndInv, BufferInv
<1>0. n \in Nat /\ wire \in Seq(Token) BY <1>1
<1>a. a \in Seq(Token) BY <1>0, TakeSeq
<1>2. a \in Seq(Token) /\ b \in Seq(Token) BY <1>a, <1>0, DropSeq
<1>3. a \o b = wire BY <1>1, TakeDrop
<1>4. workingBuffer' = workingBuffer \o a /\ wire' = b BY DEF Receive
<1> HIDE DEF a, b
<1>5. Rest' = Rest \o a
  <2>1. Rest' = Drop(workingBuffer \o a, left + processed) BY <1>4 DEF Rest
  <2>2. Drop(workingBuffer \o a, left + processed) = Drop(workingBuffer, left + processed) \o a
    BY <1>1, <1>2, DropJoined
  <2> QED BY <2>1, <2>2 DEF Rest
<1>r. Rest \in Seq(Token) BY <1>1
<1>6. (Rest \o a) \o b = Rest \o (a \o b) BY <1>r, <1>2, JoinTokens, Zenon
<1> QED BY <1>3, <1>4, <1>5, <1>6 DEF Stream

\* A read of body or frames moves tokens from the wire into the working buffer.
LEMMA ReadDataStream ==
  ASSUME IndInv, StreamInv, ReadData
  PROVE  StreamInv'
<1>1. pc = "loop" /\ curState \in {"RECVING_DATA", "WS_POLLING"} BY DEF ReadData, Throws
<1>2. /\ UNCHANGED <<sent, msg, owes, got, processed>>
      /\ UNCHANGED <<inputDataProcessor, IDPArgsWebsocket>>
  BY DEF ReadData, histVars, dpVars, inVars
<1>3. got' \in Seq(Piece) BY <1>2, WsWhere
<1>4. processed = 0 /\ processed' = 0 BY <1>1, <1>2, InLoop
<1>5. CASE ReadFails
  <2>1. wire' = wire /\ EnterFor("DISCONNECTED", "CONNECTION", EntryTimeout("DISCONNECTED"))
    BY <1>5 DEF ReadFails, Enter
  <2> QED BY <1>2, <1>4, <2>1, EnterStream
<1>6. CASE ReadNothing
  <2>1. UNCHANGED <<wire, curState, workingBuffer, left>> BY <1>6 DEF ReadNothing, Stay, wbVars
  <2>2. left + processed \in Nat BY RestSeq
  <2>3. Stream' = Stream BY <1>2, <2>1, <2>2, StreamSame
  <2> QED BY <1>1, <1>2, <1>3, <2>1, <2>3, WsWhere, StreamQuiet
<1>7. CASE ~(ReadFails \/ ReadNothing)
  <2>1. PICK n \in Readable : Receive(n) /\ UNCHANGED <<curState, left>>
    BY <1>7 DEF ReadData
  <2>2. n \in 0 .. Len(wire)
    <3>1. Len(wire) \in Nat /\ FreeSz \in Int BY <1>1, StreamSeq, InLoop DEF FreeSz
    <3> QED BY <3>1 DEF Readable, MinOf
  <2>3. workingBuffer' = workingBuffer \o Take(wire, n) /\ wire' = Drop(wire, n)
    BY <2>1 DEF Receive
  <2>4. Stream' = Stream BY <1>2, <2>1, <2>2, ReceiveStream
  <2>5. inputDataProcessor' = "websocket" =>
           /\ UNCHANGED <<inputDataProcessor, IDPArgsWebsocket, got>>
           /\ curState' \in WsStates \cup {"ABORTED", "DISCONNECTED"}
           /\ curState' \in WsStates => curState \in WsStates /\ Stream' = Stream
    BY <1>2, <2>1, <2>4, WsWhere
  <2>6. curState' # "RECVING_HEADERS" BY <1>1, <2>1
  <2> QED BY <1>2, <1>3, <2>2, <2>3, <2>5, <2>6, StreamKept
<1> QED BY <1>5, <1>6, <1>7

\* The response is handed over.  A 101 attaches the frame processor at the
\* first token behind its head, with no data passed on yet.
LEMMA UpgradeStream ==
  ASSUME IndInv, StreamInv, curState = "RECVING_HEADERS", subscribedEvent = "PROCESS",
         processed = 0, Parsed.status = "101", got' = << >>,
         UNCHANGED <<wire, sent, msg, owes, processed>>,
         Upgraded, Enter("WS_CONNECTED", "101")
  PROVE  StreamInv'
<1>1. /\ inputDataProcessor' = "websocket"
      /\ IDPArgsWebsocket' = [IDPArgsWebsocket EXCEPT !.state = 1, !.frameID = 0]
  BY DEF Upgraded
<1>2. curState' = "WS_CONNECTED" /\ workingBuffer' = Drop(workingBuffer, left) /\ left' = 0
  BY DEF Enter, EnterFor, EnterSM, EntryWB, Shrink
<1>3. /\ workingBuffer \in Seq(Token) /\ wire \in Seq(Token) /\ left \in Nat
      /\ left \in 1 .. Len(workingBuffer) /\ workingBuffer[left].k = "end"
      /\ Len(workingBuffer) \in Nat /\ Len(wire) \in Nat
  BY StreamSeq DEF IndInv, TypeOK, BufferOK, BufferInv
<1>4. Source = workingBuffer \o wire BY DEF Source
<1>5. left \in 1 .. Len(Source) /\ Source[left] = workingBuffer[left]
  BY <1>3, <1>4, Joined
<1>6. Opening(Source[left]) BY <1>3, <1>5 DEF Opening, Parsed
<1>7. owes \in Upgrades /\ Fresh(Drop(Source, left), sent, msg.no)
  BY <1>5, <1>6 DEF StreamInv, HeadsInv
<1>8. Stream' = Drop(Source, left)
  <2>0. left \in 0 .. Len(workingBuffer) BY <1>3
  <2>1. Drop(workingBuffer \o wire, left) = Drop(workingBuffer, left) \o wire
    BY <1>3, <2>0, DropJoined
  <2>2. Drop(workingBuffer, left) \in Seq(Token) BY <1>3, DropSeq
  <2>3. Rest' = Drop(Drop(workingBuffer, left), 0) BY <1>2 DEF Rest
  <2>4. Rest' = Drop(workingBuffer, left) BY <2>2, <2>3, DropAll
  <2> QED BY <1>4, <2>1, <2>4 DEF Stream
<1>9. IDPArgsWebsocket'.state = 1 /\ IDPArgsWebsocket'.frameID = 0
  BY <1>1 DEF IndInv, TypeOK, ArgsOK, WebsocketArgs
<1>10. HistOK' /\ NotYet' /\ InOrder'
  <2>1. << >> \in Seq(Piece) /\ Len(<< >>) = 0 OBVIOUS
  <2>2. Len(sent) \in Nat BY DEF StreamInv, HistOK
  <2> QED BY <2>1, <2>2 DEF StreamInv, HistOK, NotYet, InOrder
<1>11. HeadsInv'
  <2>1. 0 \in 0 .. Len(wire) /\ wire' = Drop(wire, 0) BY <1>3, DropAll
  <2>2. curState' # "RECVING_HEADERS" BY <1>2
  <2> QED BY <2>1, <2>2, SourceMoves, HeadsKept DEF StreamInv
<1>12. \/ Stuck(Stream') /\ IDPArgsWebsocket'.state = 1
       \/ \E q, z, c : /\ z \in Nat /\ Laid(q, z, Stream', sent', msg'.no)
                       /\ Stands(q, z, c, IDPArgsWebsocket', Len(got'))
  <2>1. CASE Stuck(Drop(Source, left)) BY <1>8, <1>9, <2>1
  <2>2. CASE ~Stuck(Drop(Source, left))
    <3>1. PICK q : /\ Laid(q, 0, Drop(Source, left), sent, msg.no)
                   /\ q[1].at = 0 /\ q[1].cum = 0 /\ q[1].no = 0
      BY <1>7, <2>2 DEF Fresh
    <3>2. Laid(q, 0, Stream', sent', msg'.no) BY <1>8, <3>1
    <3>3. 1 \in 1 .. Len(q) BY <3>1 DEF Laid
    <3>4. 0 = 0 % UINT8 /\ Len(got') = 0 BY DEF UINT8
    <3>5. Stands(q, 0, 1, IDPArgsWebsocket', Len(got'))
      BY <1>9, <3>1, <3>3, <3>4 DEF Stands
    <3> QED BY <3>2, <3>5
  <2> QED BY <2>1, <2>2
<1>13. WsInv' BY <1>2, <1>7, <1>10, <1>12 DEF WsInv, WsStates
<1> QED BY <1>10, <1>11, <1>13 DEF StreamInv

\* The end of a response head: the connection goes on, is upgraded or is ended.
LEMMA ProcessResponseStream ==
  ASSUME IndInv, StreamInv, ProcessResponse
  PROVE  StreamInv'
<1>1. /\ pc = "loop" /\ curState = "RECVING_HEADERS" /\ subscribedEvent = "PROCESS"
      /\ got' = << >> /\ UNCHANGED <<wire, sent, msg, owes, processed>>
  BY DEF ProcessResponse, Throws, srvVars
<1>2. processed = 0 /\ got' \in Seq(Piece) BY <1>1, InLoop
<1>3. inputDataProcessor # "websocket" BY <1>1, WsWhere DEF WsStates
<1>4. CASE Parsed.status = "101" /\ Upgraded /\ Enter("WS_CONNECTED", "101")
  BY <1>1, <1>2, <1>4, UpgradeStream
<1>5. CASE ~(Parsed.status = "101" /\ Upgraded /\ Enter("WS_CONNECTED", "101"))
  <2>1. inputDataProcessor' # "websocket" /\ curState' # "RECVING_HEADERS"
    <3>1. CASE Parsed.cl # NotFound /\ FrameByLength(Parsed)
      BY <1>3, <3>1 DEF FrameByLength, SameDP, Raw, Enter, EnterFor, EnterSM, inVars
    <3>2. CASE FrameByChunks(Parsed)
      BY <1>3, <3>2 DEF FrameByChunks, SameDP, Chunked, Enter, EnterFor, EnterSM, inVars
    <3>3. CASE FrameByStatus(Parsed)
      BY <1>3, <1>5, <3>3 DEF FrameByStatus, SameDP, Raw, Enter, EnterFor, EnterSM, inVars
    <3> QED BY <3>1, <3>2, <3>3 DEF ProcessResponse
  <2> QED BY <1>1, <1>2, <2>1, StreamQuiet
<1> QED BY <1>4, <1>5

\* The processors of HTTP bodies.
LEMMA BodyStream ==
  ASSUME IndInv, StreamInv, mangoIDP_raw \/ mangoIDP_chunked
  PROVE  StreamInv'
<1>1. /\ pc = "idp" /\ inputDataProcessor \in {"raw", "chunked"}
      /\ UNCHANGED <<wire, sent, msg, owes>>
  BY DEF mangoIDP_raw, mangoIDP_chunked, srvVars
<1>2. curState = "RECVING_DATA"
  BY <1>1 DEF IndInv, FlowInv, PointerInv, ArgsMatch
<1>3. inputDataProcessor' = inputDataProcessor
  BY DEF mangoIDP_raw, mangoIDP_chunked, ReturnSoFar, ChunkSize, ChunkData, ChunkCRLF,
         ChunkTrailer, ChunkOnly, dpVars, inVars
<1>4. got' \in Seq(Piece)
  <2>1. got \in Seq(Piece) BY WsWhere
  <2>2. ASSUME NEW s \in Seq(Token) PROVE got \o s \in Seq(Piece)
    <3>1. s \in Seq(Piece) BY DEF Piece
    <3> QED BY <2>1, <3>1, Joined
  <2>3. Rest \in Seq(Token) /\ Len(Rest) \in Nat BY RestSeq
  <2>4. \/ got' = got \/ got' = got \o Rest
        \/ /\ ChunkData
           /\ got' = got \o Take(Rest, MinOf(Len(Rest), IDPArgsChunked.sz - IDPArgsChunked.done))
    BY DEF mangoIDP_raw, mangoIDP_chunked, ReturnSoFar, ChunkSize, ChunkData, ChunkCRLF,
           ChunkTrailer
  <2>5. ASSUME ChunkData
        PROVE  Take(Rest, MinOf(Len(Rest), IDPArgsChunked.sz - IDPArgsChunked.done)) \in Seq(Token)
    <3>1. /\ IDPArgsChunked.sz \in Nat /\ IDPArgsChunked.done \in Nat
          /\ IDPArgsChunked.done < IDPArgsChunked.sz
      BY <2>5 DEF ChunkData, IndInv, TypeOK, ArgsOK, PieceInv
    <3>2. MinOf(Len(Rest), IDPArgsChunked.sz - IDPArgsChunked.done) \in 0 .. Len(Rest)
      BY <2>3, <3>1 DEF MinOf
    <3> QED BY <2>3, <3>2, TakeSeq
  <2> QED BY <2>1, <2>2, <2>3, <2>4, <2>5
<1>5. curState' # "RECVING_HEADERS"
  <2>1. ASSUME NEW err, NEW n, Return(err, n) PROVE curState' # "RECVING_HEADERS"
    BY <1>2, <2>1 DEF Return, Consumed, Completed, MoreDataNeeded, Failed, Enter, EnterFor, EnterSM
  <2>2. ASSUME NEW n, MoveOn(n) PROVE curState' # "RECVING_HEADERS"
    BY <1>2, <2>2 DEF MoveOn, smVars
  <2>3. CASE mangoIDP_raw BY <2>1, <2>3 DEF mangoIDP_raw
  <2>4. CASE mangoIDP_chunked
    BY <2>1, <2>2, <2>4 DEF mangoIDP_chunked, ReturnSoFar, ChunkSize, ChunkData, ChunkCRLF,
       ChunkTrailer
  <2> QED BY <2>3, <2>4
<1>6. inputDataProcessor' # "websocket" BY <1>1, <1>3
<1> QED BY <1>1, <1>4, <1>5, <1>6, StreamQuiet

-----------------------------------------------------------------------------
(***************************************************************************)
(* The frame processor.                                                    *)
(***************************************************************************)

\* What the arguments of the frame processor hold.
LEMMA WsFields ==
  ASSUME NEW a \in WebsocketArgs
  PROVE  /\ a.state \in {1, 2} /\ a.sz \in Nat /\ a.done \in Nat /\ a.op \in Opcodes
         /\ a.fin \in BOOLEAN /\ a.frameID \in Nat
<1>1. a.frameID \in 0 .. UINT8 - 1 BY DEF WebsocketArgs
<1>2. a.frameID \in Nat BY <1>1 DEF UINT8
<1> QED BY <1>2 DEF WebsocketArgs

\* The header that is read is the one of the frame the processor stands at.
LEMMA AfterHeader ==
  ASSUME NEW q, NEW z \in Nat, NEW t \in Seq(Token), NEW s, NEW no, NEW c, NEW g,
         NEW a \in WebsocketArgs, Laid(q, z, t, s, no), Stands(q, z, c, a, g), a.state = 1,
         NEW r \in Seq(Token), Len(r) <= Len(t), r[1] = t[1], r[2] = t[2],
         Len(r) >= 3 => r[3] = t[3], HeaderLen(r) > 0, g \in Nat
  PROVE  /\ HeaderLen(r) \in {2, 3} /\ HeaderLen(r) <= Len(r)
         /\ Stands(q, z + HeaderLen(r), c,
                   [a EXCEPT !.state = 2, !.done = 0, !.sz = r[HeaderLen(r)].n,
                             !.op = r[1].op, !.fin = r[1].fin], g)
<1>1. Len(r) \in Nat /\ Len(t) \in Nat OBVIOUS
<1>2. HeaderLen(r) \in {2, 3} /\ HeaderLen(r) <= Len(r) /\ Len(r) >= 2 BY <1>1 DEF HeaderLen
<1>3. q \in Seq(Slot) /\ Len(q) \in Nat /\ c \in 1 .. Len(q) BY DEF Laid, Stands
<1>4. z = q[c].at /\ g = q[c].cum /\ a.frameID = q[c].no % UINT8 BY DEF Stands
<1>5. c < Len(q)
  <2>1. q[Len(q)].at = z + Len(t) BY DEF Laid
  <2>2. z + Len(t) # z BY <1>1, <1>2
  <2>3. c # Len(q) BY <1>4, <2>1, <2>2
  <2> QED BY <1>3, <2>3
<1> DEFINE f == q[c].f
<1>6. f \in Frame BY <1>3, SlotFields
<1>7. Placed(q, c, z, t)
  <2>1. c \in 1 .. Len(q) - 1 BY <1>3, <1>5
  <2> QED BY <2>1 DEF Laid
<1>8. ASSUME NEW j \in 1 .. FrameLen(f) PROVE t[j] = TokenOf(f, q[c].no, j)
  <2>1. q[c].at + j > z /\ q[c].at + j - z = j
    <3>1. FrameLen(f) \in Nat BY <1>6, FrameSizes
    <3> QED BY <1>4, <3>1
  <2> QED BY <1>7, <2>1 DEF Placed
<1> HIDE DEF f
<1>9. /\ HdrLen(f) \in {2, 3} /\ FrameLen(f) = HdrLen(f) + f.n /\ f.n \in Nat
      /\ f.form \in {"short", "ext", "huge"} /\ f.op \in Opcodes
  BY <1>6, FrameSizes DEF Frame
<1>10. 1 \in 1 .. FrameLen(f) /\ 2 \in 1 .. FrameLen(f) /\ (HdrLen(f) = 3 => 3 \in 1 .. FrameLen(f))
  BY <1>9
<1>11. r[1] = [k |-> "f1", op |-> f.op, fin |-> f.fin] BY <1>8, <1>10 DEF TokenOf
<1>12. r[2] = [k |-> "f2", mask |-> f.mask, n |-> IF f.form = "short" THEN f.n ELSE -1]
  BY <1>8, <1>10 DEF TokenOf
<1>13. HeaderLen(r) = HdrLen(f) /\ r[HeaderLen(r)].n = f.n
  <2>1. CASE f.form = "short"
    <3>1. HdrLen(f) = 2 /\ r[2].n = f.n BY <1>12, <2>1 DEF HdrLen
    <3>2. HeaderLen(r) = 2 BY <1>2, <1>9, <3>1 DEF HeaderLen
    <3> QED BY <3>1, <3>2
  <2>2. CASE f.form # "short"
    <3>1. HdrLen(f) = 3 /\ r[2].n = -1 BY <1>12, <2>2 DEF HdrLen
    <3>2. HeaderLen(r) = 3 /\ Len(r) >= 3 /\ r[3].n # Infinite BY <1>2, <3>1 DEF HeaderLen
    <3>3. t[3] = [k |-> "fx", n |-> IF f.form = "huge" THEN Infinite ELSE f.n]
      BY <1>8, <1>10, <3>1 DEF TokenOf
    <3> QED BY <3>1, <3>2, <3>3
  <2> QED BY <2>1, <2>2
<1>14. r[1].op = f.op /\ r[1].fin = f.fin BY <1>11
<1> DEFINE a2 == [a EXCEPT !.state = 2, !.done = 0, !.sz = r[HeaderLen(r)].n,
                           !.op = r[1].op, !.fin = r[1].fin]
<1>15. /\ a2.state = 2 /\ a2.done = 0 /\ a2.sz = f.n /\ a2.op = f.op /\ a2.fin = f.fin
       /\ a2.frameID = a.frameID
  BY <1>13, <1>14 DEF WebsocketArgs
<1> HIDE DEF a2
<1>16. z + HeaderLen(r) = q[c].at + HdrLen(f) + a2.done /\ g = q[c].cum + 0
  BY <1>4, <1>9, <1>13, <1>15
<1>17. g = q[c].cum + (IF a2.op \in Control THEN 0 ELSE a2.done) BY <1>15, <1>16
<1>18. a2.sz = 0 \/ a2.done < a2.sz BY <1>9, <1>15
<1>19. Stands(q, z + HeaderLen(r), c, a2, g)
  BY <1>3, <1>4, <1>5, <1>15, <1>16, <1>17, <1>18 DEF Stands, f
<1> QED BY <1>2, <1>19 DEF a2

\* The frame ID of the next message.
LEMMA NextID ==
  ASSUME NEW x \in Nat, NEW y \in Nat, x = y % UINT8
  PROVE  (x + 1) % UINT8 = (y + 1) % UINT8
BY DEF UINT8

\* What the arguments become when n more tokens of a payload are passed on.
Further(a, n) ==
    [a EXCEPT !.done = @ + n,
              !.state = IF a.done + n = a.sz THEN 1 ELSE 2,
              !.frameID = IF a.done + n = a.sz /\ a.fin /\ a.op \notin Control
                          THEN (@ + 1) % UINT8 ELSE @]

\* The tokens that are passed on are the next ones of the message that was
\* sent, and behind the last of them stands the next frame.
LEMMA AfterPiece ==
  ASSUME NEW q, NEW z \in Nat, NEW t \in Seq(Token), NEW s, NEW no, NEW c, NEW g \in Nat,
         NEW a \in WebsocketArgs, Laid(q, z, t, s, no), Stands(q, z, c, a, g), a.state = 2,
         NEW n \in Nat, n <= Len(t), a.done + n <= a.sz
  PROVE  /\ \A j \in 1 .. n : t[j] = DataToken(q[c].no)
         /\ a.op \notin Control =>
              g + n <= Len(s) /\ \A j \in 1 .. n : s[g + j] = DataToken(q[c].no)
         /\ q[c].no \in Nat /\ a.frameID = q[c].no % UINT8
         /\ \E c2 : Stands(q, z + n, c2, Further(a, n), g + (IF a.op \in Control THEN 0 ELSE n))
<1>1. q \in Seq(Slot) /\ Len(q) \in Nat /\ c \in 1 .. Len(q) /\ c \in 1 .. Len(q) - 1
  BY DEF Laid, Stands
<1> DEFINE f == q[c].f
<1>2. f \in Frame /\ q[c].at \in Nat /\ q[c].cum \in Nat /\ q[c].no \in Nat
  BY <1>1, SlotFields
<1>3. Linked(q, c) /\ Placed(q, c, z, t) /\ Carried(q, c, s) BY <1>1 DEF Laid
<1>4. /\ z = q[c].at + HdrLen(f) + a.done /\ a.sz = f.n /\ a.op = f.op /\ a.fin = f.fin
      /\ g = q[c].cum + (IF a.op \in Control THEN 0 ELSE a.done)
      /\ a.frameID = q[c].no % UINT8
  BY DEF Stands
<1>z. z = q[c].at + HdrLen(f) + a.done /\ a.sz = f.n BY <1>4
<1>5. \A j \in 1 .. FrameLen(f) : q[c].at + j > z =>
        t[q[c].at + j - z] = TokenOf(f, q[c].no, j)
  BY <1>3 DEF Placed
<1>6. /\ q[c].cum + Bulk(f) <= Len(s)
      /\ \A j \in 1 .. Bulk(f) : s[q[c].cum + j] = DataToken(q[c].no)
  BY <1>3 DEF Carried
<1>7. /\ q[c + 1].at = q[c].at + FrameLen(f) /\ q[c + 1].cum = q[c].cum + Bulk(f)
      /\ q[c + 1].no = q[c].no + Turn(f)
  BY <1>3 DEF Linked
<1> HIDE DEF f
<1>8. /\ HdrLen(f) \in {2, 3} /\ f.n \in Nat /\ FrameLen(f) = HdrLen(f) + f.n
      /\ Bulk(f) = (IF f.op \in Control THEN 0 ELSE f.n) /\ f.fin \in BOOLEAN
  BY <1>2, FrameSizes DEF Bulk, Frame
<1>h. HdrLen(f) \in Nat /\ HdrLen(f) >= 2 /\ FrameLen(f) = HdrLen(f) + f.n BY <1>8
<1>d. a.done \in Nat /\ a.sz \in Nat /\ f.n \in Nat BY <1>8, WsFields
<1>p. PICK x \in Nat, h \in Nat, d \in Nat, m \in Nat, y \in Nat :
        x = q[c].at /\ h = HdrLen(f) /\ d = a.done /\ m = f.n /\ y = q[c].cum
  BY <1>2, <1>h, <1>d
<1>q. z = x + h + d /\ a.sz = m /\ d + n <= m /\ h >= 2 /\ FrameLen(f) = h + m
  BY <1>z, <1>h, <1>p
<1>9. a.done \in Nat /\ a.sz \in Nat /\ a.frameID \in Nat /\ a.fin \in BOOLEAN BY WsFields
<1>10. ASSUME NEW j \in 1 .. n PROVE t[j] = DataToken(q[c].no)
  <2> DEFINE i == h + d + j
  <2>0. i \in 1 .. h + m /\ x + i > z /\ x + i - z = j /\ i > h /\ i # 1 /\ i # 2
    BY <1>q
  <2> HIDE DEF i
  <2>1. /\ i \in 1 .. FrameLen(f) /\ q[c].at + i > z /\ q[c].at + i - z = j
        /\ i > HdrLen(f) /\ i # 1 /\ i # 2
    BY <2>0, <1>p, <1>q
  <2>2. t[j] = TokenOf(f, q[c].no, i) BY <1>5, <2>1
  <2>3. ~(i <= HdrLen(f)) BY <1>p, <2>0
  <2> QED BY <2>1, <2>2, <2>3 DEF TokenOf
<1>11. ASSUME a.op \notin Control
       PROVE  g + n <= Len(s) /\ \A j \in 1 .. n : s[g + j] = DataToken(q[c].no)
  <2>1. Bulk(f) = f.n /\ g = q[c].cum + a.done BY <1>4, <1>8, <1>11
  <2>0. Len(s) >= q[c].cum + f.n BY <1>6, <2>1
  <2>2. g + n <= Len(s)
    <3>1. g + n <= q[c].cum + f.n BY <1>2, <1>z, <1>d, <2>1, SMTT(60)
    <3>2. q[Len(q)].cum = Len(s) /\ Len(q) \in 1 .. Len(q) BY <1>1 DEF Laid
    <3>3. Len(s) \in Nat BY <1>1, <3>2, SlotFields
    <3> QED BY <1>2, <1>8, <2>0, <3>1, <3>3
  <2>3. ASSUME NEW j \in 1 .. n PROVE s[g + j] = DataToken(q[c].no)
    <3>1. a.done + j \in 1 .. Bulk(f) /\ g + j = q[c].cum + (a.done + j)
      <4>1. d + j \in 1 .. m /\ y + d + j = y + (d + j) BY <1>q
      <4> QED BY <1>p, <2>1, <4>1
    <3> QED BY <1>6, <3>1
  <2> QED BY <2>2, <2>3
<1> DEFINE a2 == Further(a, n)
           g2 == g + (IF a.op \in Control THEN 0 ELSE n)
<1>12. /\ a2.done = a.done + n /\ a2.sz = a.sz /\ a2.op = a.op /\ a2.fin = a.fin
       /\ a2.state = (IF a.done + n = a.sz THEN 1 ELSE 2)
       /\ a2.frameID = (IF a.done + n = a.sz /\ a.fin /\ a.op \notin Control
                        THEN (a.frameID + 1) % UINT8 ELSE a.frameID)
  BY DEF Further, WebsocketArgs
<1> HIDE DEF a2
<1>13. CASE a.done + n = a.sz
  <2>1. a2.state = 1 BY <1>12, <1>13
  <2>2. c + 1 \in 1 .. Len(q) BY <1>1
  <2>3. z + n = q[c + 1].at
    <3>0. d + n = m BY <1>p, <1>q, <1>13
    <3>1. z + n = x + (h + m)
      <4>1. z = x + h + d BY <1>q
      <4> QED BY <3>0, <4>1
    <3> QED BY <1>7, <1>p, <1>q, <3>1
  <2>4. g2 = q[c + 1].cum
    <3>1. CASE a.op \in Control BY <1>2, <1>4, <1>7, <1>8, <3>1
    <3>2. CASE a.op \notin Control
      <4>1. g = q[c].cum + a.done /\ q[c + 1].cum = q[c].cum + f.n /\ g2 = g + n
        BY <1>4, <1>7, <1>8, <3>2
      <4> QED BY <1>2, <1>z, <1>d, <1>13, <4>1
    <3> QED BY <3>1, <3>2
  <2>5. a2.frameID = q[c + 1].no % UINT8
    <3>1. CASE a.fin /\ a.op \notin Control
      <4>1. Turn(f) = 1 BY <1>4, <3>1 DEF Turn
      <4>2. a2.frameID = (a.frameID + 1) % UINT8 BY <1>12, <1>13, <3>1
      <4>3. (a.frameID + 1) % UINT8 = (q[c].no + 1) % UINT8 BY <1>2, <1>4, <1>9, NextID
      <4> QED BY <1>7, <4>1, <4>2, <4>3
    <3>2. CASE ~(a.fin /\ a.op \notin Control)
      <4>1. Turn(f) = 0 BY <1>4, <3>2 DEF Turn
      <4>2. a2.frameID = a.frameID BY <1>12, <3>2
      <4>3. q[c + 1].no = q[c].no BY <1>2, <1>7, <4>1
      <4> QED BY <1>4, <4>2, <4>3
    <3> QED BY <3>1, <3>2
  <2> HIDE DEF g2
  <2>6. Stands(q, z + n, c + 1, a2, g2) BY <2>1, <2>2, <2>3, <2>4, <2>5 DEF Stands
  <2> QED BY <1>2, <1>4, <1>10, <1>11, <2>6 DEF a2, g2
<1>14. CASE a.done + n # a.sz
  <2>1. a2.state = 2 /\ a2.frameID = q[c].no % UINT8 BY <1>4, <1>12, <1>14
  <2>2. z + n = q[c].at + HdrLen(f) + a2.done
    <3>1. a2.done = a.done + n BY <1>12
    <3>2. z + n = x + h + (d + n) BY <1>q
    <3> QED BY <1>p, <3>1, <3>2
  <2>3. g2 = q[c].cum + (IF a2.op \in Control THEN 0 ELSE a2.done)
    <3>1. CASE a.op \in Control BY <1>2, <1>4, <1>12, <3>1
    <3>2. CASE a.op \notin Control
      <4>1. g = q[c].cum + a.done /\ g2 = g + n BY <1>4, <3>2
      <4> QED BY <1>2, <1>9, <1>12, <3>2, <4>1, SMTT(60)
    <3> QED BY <3>1, <3>2
  <2>4. c < Len(q) /\ a2.done < a2.sz
    <3>1. a2.done = a.done + n /\ a2.sz = a.sz BY <1>12
    <3>2. a.done \in Nat /\ a.sz \in Nat BY DEF WebsocketArgs
    <3>3. a.done + n < a.sz BY <1>14, <3>2
    <3> QED BY <1>1, <3>1, <3>3
  <2> HIDE DEF g2
  <2>5. Stands(q, z + n, c, a2, g2) BY <1>1, <1>4, <1>12, <2>1, <2>2, <2>3, <2>4 DEF Stands, f
  <2> QED BY <1>2, <1>4, <1>10, <1>11, <2>5 DEF a2, g2
<1> QED BY <1>13, <1>14

\* Going on with the loop reads on in the stream.
LEMMA MoveOnStream ==
  ASSUME IndInv, NEW n \in 0 .. Len(Rest), MoveOn(n), wire' = wire
  PROVE  /\ Stream' = Drop(Stream, n) /\ n \in 0 .. Len(Stream) /\ curState' = curState
         /\ \A j \in 1 .. Len(Rest) : Rest[j] = Stream[j]
<1>1. /\ Rest \in Seq(Token) /\ wire \in Seq(Token) /\ workingBuffer \in Seq(Token)
      /\ Len(Rest) \in Nat /\ n \in Nat /\ left + processed \in Nat
      /\ Len(Rest) = Len(workingBuffer) - (left + processed) /\ Len(workingBuffer) \in Nat
      /\ left \in Nat /\ processed \in Nat
  BY StreamSeq, RestSeq
<1>2. processed' = processed + n /\ UNCHANGED <<workingBuffer, left, curState>>
  BY DEF MoveOn, smVars, wbVars
<1>3. Rest' = Drop(Rest, n)
  <2>1. left + (processed + n) = (left + processed) + n
        /\ (left + processed) + n <= Len(workingBuffer)
    BY <1>1
  <2>2. Rest' = Drop(workingBuffer, (left + processed) + n) BY <1>2, <2>1 DEF Rest
  <2>3. Drop(Drop(workingBuffer, left + processed), n) = Drop(workingBuffer, (left + processed) + n)
    BY <1>1, <2>1, DropDrop
  <2> QED BY <2>2, <2>3 DEF Rest
<1>4. Drop(Rest \o wire, n) = Drop(Rest, n) \o wire BY <1>1, DropJoined
<1>5. /\ Len(Rest \o wire) = Len(Rest) + Len(wire)
      /\ \A j \in 1 .. Len(Rest) : (Rest \o wire)[j] = Rest[j]
  BY <1>1, Joined
<1>6. Len(wire) \in Nat BY <1>1
<1>7. n \in 0 .. Len(Rest \o wire)
  <2>1. Len(Rest \o wire) = Len(Rest) + Len(wire) BY <1>5
  <2> QED BY <1>1, <1>6, <2>1
<1> QED BY <1>2, <1>3, <1>4, <1>5, <1>7 DEF Stream

\* A processor that returns without passing anything on leaves the stream to
\* the next call, or ends the connection.
LEMMA ReturnStream ==
  ASSUME IndInv, StreamInv, pc = "idp", inputDataProcessor = "websocket",
         UNCHANGED <<wire, sent, msg, owes, got>>, UNCHANGED dpVars,
         \/ ReturnSoFar
         \/ \E err \in {"DATAPROCESSING", "WEBSOCKETCLOSED"} : Return(err, processed)
  PROVE  StreamInv'
<1>1. UNCHANGED <<inputDataProcessor, IDPArgsWebsocket>> BY DEF dpVars, inVars
<1>2. curState = "WS_POLLING"
  BY DEF IndInv, FlowInv, PointerInv, ArgsMatch
<1>3. left + processed \in Nat BY RestSeq
<1>4. \/ curState' \in {"ABORTED", "DISCONNECTED"}
      \/ curState' = curState /\ Stream' = Stream
  <2>0. processed' = 0 /\ processed \in Nat BY RestSeq DEF ReturnSoFar, Return
  <2>1. CASE ReturnSoFar /\ processed > 0
    <3>1. Consumed(processed) BY <2>1 DEF ReturnSoFar, Return
    <3>2. workingBuffer' = Drop(workingBuffer, left + processed) /\ left' = 0 /\ curState' = curState
      BY <3>1 DEF Consumed, Shrink
    <3> QED BY <1>3, <2>0, <3>2, StreamSame
  <2>2. CASE ReturnSoFar /\ ~(processed > 0)
    <3>1. MoreDataNeeded BY <2>2 DEF ReturnSoFar, Return
    <3>2. processed = 0 BY <2>0, <2>2
    <3>3. CASE Enter("ABORTED", "WORKBUFSMALL") BY <3>3 DEF Enter, EnterFor, EnterSM
    <3>4. CASE UNCHANGED <<curState, workingBuffer, left>>
      BY <1>3, <2>0, <3>2, <3>4, StreamSame
    <3> QED BY <3>1, <3>3, <3>4 DEF MoreDataNeeded, wbVars
  <2>3. CASE \E err \in {"DATAPROCESSING", "WEBSOCKETCLOSED"} : Return(err, processed)
    <3>1. PICK err \in {"DATAPROCESSING", "WEBSOCKETCLOSED"} : Return(err, processed) BY <2>3
    <3>2. Failed(err) BY <3>1 DEF Return
    <3> QED BY <3>2 DEF Failed, Enter, EnterFor, EnterSM
  <2> QED BY <2>1, <2>2, <2>3
<1>5. inputDataProcessor' = "websocket" =>
           /\ UNCHANGED <<inputDataProcessor, IDPArgsWebsocket, got>>
           /\ curState' \in WsStates \cup {"ABORTED", "DISCONNECTED"}
           /\ curState' \in WsStates => curState \in WsStates /\ Stream' = Stream
  BY <1>1, <1>2, <1>4 DEF WsStates
<1>6. curState' # "RECVING_HEADERS" BY <1>2, <1>4
<1> QED BY <1>5, <1>6, WsWhere, StreamQuiet

\* A step of the frame processor that goes on n tokens and stands in frame c.
LEMMA MovedStream ==
  ASSUME IndInv, StreamInv, pc = "idp", inputDataProcessor = "websocket",
         UNCHANGED <<wire, sent, msg, owes>>, WsOnly,
         NEW n \in 0 .. Len(Rest), MoveOn(n), NEW q, NEW z \in Nat, NEW c,
         Laid(q, z, Stream, sent, msg.no), Stands(q, z + n, c, IDPArgsWebsocket', Len(got')),
         got' \in Seq(Piece), InOrder'
  PROVE  StreamInv'
<1>1. inputDataProcessor' = "websocket" BY DEF WsOnly
<1>2. curState = "WS_POLLING" BY DEF IndInv, FlowInv, PointerInv, ArgsMatch
<1>3. Stream' = Drop(Stream, n) /\ n \in 0 .. Len(Stream) /\ curState' = curState
  BY MoveOnStream
<1>4. Laid(q, z + n, Stream', sent', msg'.no)
  <2>1. Stream \in Seq(Token) BY StreamSeq
  <2>2. Laid(q, z + n, Drop(Stream, n), sent, msg.no) BY <1>3, <2>1, LaidAdvance
  <2> QED BY <1>3, <2>2
<1>5. owes' \in Upgrades BY DEF StreamInv, WsInv
<1>6. z + n \in Nat BY <1>3, RestSeq
<1>7. WsInv' BY <1>1, <1>2, <1>3, <1>4, <1>5, <1>6 DEF WsInv, WsStates
<1>8. HistOK' /\ NotYet' BY DEF StreamInv, HistOK, NotYet
<1>9. HeadsInv'
  <2>1. wire \in Seq(Token) /\ Len(wire) \in Nat BY StreamSeq
  <2>2. 0 \in 0 .. Len(wire) /\ wire' = Drop(wire, 0) BY <2>1, DropAll
  <2>3. curState' # "RECVING_HEADERS" BY <1>2, <1>3
  <2> QED BY <2>2, <2>3, SourceMoves, HeadsKept DEF StreamInv
<1> QED BY <1>7, <1>8, <1>9 DEF StreamInv

\* A frame header.
LEMMA WsHeaderStream ==
  ASSUME IndInv, StreamInv, pc = "idp", inputDataProcessor = "websocket",
         UNCHANGED <<wire, sent, msg, owes>>, WsHeader
  PROVE  StreamInv'
<1> DEFINE h == HeaderLen(Rest)
<1>1. CASE ReturnSoFar BY <1>1, ReturnStream DEF WsHeader, ReturnSoFar
<1>2. CASE WsAbort("DATAPROCESSING") BY <1>2, ReturnStream DEF WsHeader, WsAbort
<1>3. CASE /\ h > 0 /\ MoveOn(h) /\ WsOnly
           /\ IDPArgsWebsocket' =
               [IDPArgsWebsocket EXCEPT
                  !.state = 2, !.done = 0, !.sz = Rest[h].n,
                  !.op = Rest[1].op, !.fin = Rest[1].fin]
  <2>1. IDPArgsWebsocket.state = 1 /\ got' = got BY DEF WsHeader
  <2>2. /\ Rest \in Seq(Token) /\ wire \in Seq(Token) /\ Stream \in Seq(Token)
        /\ Len(Rest) \in Nat /\ Len(wire) \in Nat
    BY StreamSeq, RestSeq
  <2>3. h \in {2, 3} /\ h <= Len(Rest) /\ Len(Rest) >= 2 /\ Rest[1].k = "f1"
    BY <1>3, <2>2 DEF HeaderLen
  <2>4. Len(Stream) = Len(Rest) + Len(wire) /\ \A j \in 1 .. Len(Rest) : Stream[j] = Rest[j]
    BY <2>2, Joined DEF Stream
  <2>5. /\ Len(Rest) <= Len(Stream) /\ Rest[1] = Stream[1] /\ Rest[2] = Stream[2]
        /\ Len(Rest) >= 3 => Rest[3] = Stream[3]
    BY <2>2, <2>3, <2>4
  <2>6. curState = "WS_POLLING" BY DEF IndInv, FlowInv, PointerInv, ArgsMatch
  <2>7. ~Stuck(Stream) BY <2>3, <2>5 DEF Stuck
  <2>8. PICK q, z, c : /\ z \in Nat /\ Laid(q, z, Stream, sent, msg.no)
                       /\ Stands(q, z, c, IDPArgsWebsocket, Len(got))
    BY <2>6, <2>7 DEF StreamInv, WsInv, WsStates
  <2>9. IDPArgsWebsocket \in WebsocketArgs /\ Len(got) \in Nat /\ got \in Seq(Piece)
    BY DEF IndInv, TypeOK, ArgsOK, StreamInv, HistOK
  <2>10. Stands(q, z + h, c, IDPArgsWebsocket', Len(got))
    BY <1>3, <2>1, <2>2, <2>5, <2>8, <2>9, AfterHeader
  <2>11. InOrder' BY <2>1 DEF StreamInv, WsInv, InOrder
  <2>12. h \in 0 .. Len(Rest) BY <2>2, <2>3
  <2> HIDE DEF h
  <2> QED BY <1>3, <2>1, <2>8, <2>9, <2>10, <2>11, <2>12, MovedStream
<1> QED BY <1>1, <1>2, <1>3 DEF WsHeader

\* A payload or a piece of one.
LEMMA WsPayloadStream ==
  ASSUME IndInv, StreamInv, pc = "idp", inputDataProcessor = "websocket",
         UNCHANGED <<wire, sent, msg, owes>>, WsPayload
  PROVE  StreamInv'
<1> DEFINE a == IDPArgsWebsocket
           n == PieceLen
<1>1. CASE ReturnSoFar /\ got' = got BY <1>1, ReturnStream DEF ReturnSoFar
<1>2. CASE got' = got /\ \E err \in {"DATAPROCESSING", "WEBSOCKETCLOSED"} : WsAbort(err)
  BY <1>2, ReturnStream DEF WsAbort
<1>3. CASE /\ n <= Len(Rest) /\ a' = WsNext(n) /\ MoveOn(n) /\ WsOnly
           /\ \/ a.op \in Control /\ got' = got
              \/ a.op \notin Control
                 /\ got' = got \o [j \in 1 .. n |-> [v |-> Rest[j], id |-> a.frameID]]
  <2>1. a.state = 2 BY DEF WsPayload
  <2>2. a \in WebsocketArgs BY DEF IndInv, TypeOK, ArgsOK
  <2>3. a.sz \in Nat /\ a.done \in Nat /\ a.frameID \in Nat BY <2>2, WsFields
  <2>4. a.done <= a.sz /\ (a.sz <= WB_TOT => a.done = 0) BY <2>1 DEF IndInv, PieceInv
  <2>5. /\ Rest \in Seq(Token) /\ wire \in Seq(Token) /\ Stream \in Seq(Token)
        /\ Len(Rest) \in Nat /\ Len(wire) \in Nat /\ WB_TOT \in Nat
    BY StreamSeq, RestSeq, MangoAssumption
  <2>6. n \in Nat /\ a.done + n <= a.sz BY <2>3, <2>4, <2>5 DEF PieceLen, MinOf
  <2>7. Len(Stream) = Len(Rest) + Len(wire) /\ \A j \in 1 .. Len(Rest) : Stream[j] = Rest[j]
    BY <2>5, Joined DEF Stream
  <2>8. curState = "WS_POLLING" BY DEF IndInv, FlowInv, PointerInv, ArgsMatch
  <2>9. PICK q, z, c : /\ z \in Nat /\ Laid(q, z, Stream, sent, msg.no)
                       /\ Stands(q, z, c, a, Len(got))
    BY <2>1, <2>8 DEF StreamInv, WsInv, WsStates
  <2>10. Len(got) \in Nat /\ got \in Seq(Piece) BY DEF StreamInv, HistOK
  <2> DEFINE g == Len(got)
             g2 == g + (IF a.op \in Control THEN 0 ELSE n)
             m == q[c].no
  <2>11. a' = Further(a, n) BY <1>3 DEF WsNext, Further
  <2> HIDE DEF n
  <2>12. n <= Len(Rest) /\ n <= Len(Stream) /\ n \in 0 .. Len(Rest)
    <3>1. Len(Stream) = Len(Rest) + Len(wire) BY <2>7
    <3>2. n <= Len(Rest) BY <1>3
    <3> QED BY <2>5, <2>6, <3>1, <3>2
  <2>13. /\ \A j \in 1 .. n : Stream[j] = DataToken(m)
         /\ a.op \notin Control =>
              g + n <= Len(sent) /\ \A j \in 1 .. n : sent[g + j] = DataToken(m)
         /\ m \in Nat /\ a.frameID = m % UINT8
         /\ \E c2 : Stands(q, z + n, c2, Further(a, n), g2)
    BY <2>1, <2>2, <2>5, <2>6, <2>9, <2>10, <2>12, AfterPiece
  <2>14. PICK c2 : Stands(q, z + n, c2, a', g2) BY <2>11, <2>13
  <2>15. InOrder BY DEF StreamInv, WsInv
  <2>16. CASE a.op \in Control
    <3>1. got' = got /\ g2 = g BY <1>3, <2>10, <2>16
    <3>2. InOrder' BY <2>15, <3>1 DEF InOrder
    <3>3. Stands(q, z + n, c2, IDPArgsWebsocket', Len(got')) BY <2>14, <3>1
    <3>4. got' \in Seq(Piece) BY <2>10, <3>1
    <3> HIDE DEF g, g2, m, a
    <3> QED BY <1>3, <2>9, <2>12, <3>2, <3>3, <3>4, MovedStream
  <2>17. CASE a.op \notin Control
    <3> DEFINE e == [j \in 1 .. n |-> [v |-> Rest[j], id |-> a.frameID]]
    <3>1. got' = got \o e /\ g2 = g + n BY <1>3, <2>17
    <3>2. ASSUME NEW j \in 1 .. n PROVE e[j] = [v |-> DataToken(m), id |-> m % UINT8] /\ e[j] \in Piece
      <4>1. j \in 1 .. Len(Rest) BY <2>5, <2>6, <2>12
      <4>2. Rest[j] = DataToken(m) /\ Rest[j] \in Token BY <2>5, <2>7, <2>13, <4>1
      <4> QED BY <2>3, <2>13, <4>2 DEF Piece
    <3>3. e \in Seq(Piece) /\ Len(e) = n
      <4>1. e \in [1 .. n -> Piece] BY <3>2
      <4> HIDE DEF e
      <4> QED BY <2>6, <4>1, SeqOfLen
    <3> HIDE DEF e
    <3>4. /\ got' \in Seq(Piece) /\ Len(got') = g + n
          /\ \A j \in 1 .. g : got'[j] = got[j]
          /\ \A j \in 1 .. n : got'[g + j] = e[j]
      <4>1. /\ got \o e \in Seq(Piece) /\ Len(got \o e) = Len(got) + Len(e)
            /\ \A j \in 1 .. Len(got) : (got \o e)[j] = got[j]
            /\ \A j \in 1 .. Len(e) : (got \o e)[Len(got) + j] = e[j]
        <5>1. got \in Seq(Piece) /\ e \in Seq(Piece) BY <2>10, <3>3
        <5> QED BY <5>1, Joined
      <4> QED BY <3>1, <3>3, <4>1
    <3>5. InOrder'
      <4>1. Len(got') <= Len(sent') BY <2>13, <2>17, <3>4
      <4>2. ASSUME NEW j \in 1 .. Len(got')
            PROVE  got'[j].v = sent'[j] /\ got'[j].id = got'[j].v.v % UINT8
        <5>0. g \in Nat /\ j \in 1 .. g + n BY <2>10, <3>4
        <5> HIDE DEF g, m
        <5>1. CASE j <= g
          <6>1. j \in 1 .. g BY <5>0, <5>1
          <6>2. got'[j] = got[j] BY <3>4, <6>1
          <6> QED BY <2>15, <6>1, <6>2 DEF InOrder, g
        <5>2. CASE j > g
          <6>1. j - g \in 1 .. n /\ g + (j - g) = j BY <2>6, <5>0, <5>2
          <6>2. got'[g + (j - g)] = e[j - g]
            BY <3>4, <6>1
          <6>3. got'[j] = [v |-> DataToken(m), id |-> m % UINT8] BY <3>2, <6>1, <6>2
          <6>4. sent[g + (j - g)] = DataToken(m) BY <2>13, <2>17, <6>1
          <6>5. DataToken(m).v = m BY DEF DataToken
          <6> QED BY <6>1, <6>3, <6>4, <6>5
        <5> QED BY <5>0, <5>1, <5>2
      <4> QED BY <4>1, <4>2 DEF InOrder
    <3>6. Stands(q, z + n, c2, IDPArgsWebsocket', Len(got')) BY <2>14, <3>1, <3>4
    <3>7. got' \in Seq(Piece) BY <3>4
    <3> HIDE DEF g, g2, m, a
    <3> QED BY <1>3, <2>9, <2>12, <3>5, <3>6, <3>7, MovedStream
  <2> QED BY <2>16, <2>17
<1> QED BY <1>1, <1>2, <1>3 DEF WsPayload, Control

\* The whole of mangoIDP_websocket: headers and payloads.
LEMMA WebsocketStream ==
  ASSUME IndInv, StreamInv, mangoIDP_websocket
  PROVE  StreamInv'
<1>1. /\ pc = "idp" /\ inputDataProcessor = "websocket" /\ UNCHANGED <<wire, sent, msg, owes>>
  BY DEF mangoIDP_websocket, srvVars
<1>2. CASE ReturnSoFar BY <1>1, <1>2, ReturnStream DEF ReturnSoFar
<1>3. CASE WsHeader BY <1>1, <1>3, WsHeaderStream
<1>4. CASE WsPayload BY <1>1, <1>4, WsPayloadStream
<1> QED BY <1>2, <1>3, <1>4 DEF mangoIDP_websocket

-----------------------------------------------------------------------------
(***************************************************************************)
(* The server.                                                             *)
(***************************************************************************)

\* What the server sends goes behind what is there.
LEMMA ServerAppends ==
  ASSUME IndInv, NEW u \in Seq(Token), wire' = wire \o u,
         UNCHANGED <<curState, workingBuffer, left, processed>>
  PROVE  Source' = Source \o u /\ Stream' = Stream \o u
<1>1. wire \in Seq(Token) /\ workingBuffer \in Seq(Token) BY StreamSeq
<1>2. Rest \in Seq(Token) /\ Rest' = Rest BY StreamSeq DEF Rest
<1>3. (workingBuffer \o wire) \o u = workingBuffer \o (wire \o u) BY <1>1, JoinTokens, Zenon
<1>4. (Rest \o wire) \o u = Rest \o (wire \o u)
  <2>1. Rest \in Seq(Token) BY <1>2
  <2> QED BY <1>1, <2>1, JoinTokens, Zenon
<1> QED BY <1>2, <1>3, <1>4 DEF Source, Stream

\* A response: only a 101 starts a stream of frames, with nothing sent yet.
LEMMA AnswerStream ==
  ASSUME IndInv, StreamInv, owes \notin Upgrades, NEW r \in Replies, Answer(r),
         r.status = "101" => owes' \in Upgrades,
         UNCHANGED <<sent, msg, got, curState, workingBuffer, left, processed>>,
         UNCHANGED <<inputDataProcessor, IDPArgsWebsocket>>
  PROVE  StreamInv'
<1> DEFINE head == <<[k |-> "start"], [k |-> "end", reply |-> r, rid |-> serving.rid]>>
           body == IF serving.method = "HEAD" THEN << >> ELSE r.body
           u == head \o body
<1>1. wire' = wire \o head \o body BY DEF Answer
<1>2. /\ wire \in Seq(Token) /\ serving.rid \in Nat /\ Source \in Seq(Token)
      /\ Len(Source) \in Nat
  BY StreamSeq DEF IndInv, TypeOK, ServerOK
<1>3. head \in Seq(Token) /\ Len(head) = 2
  <2>1. [k |-> "start"] \in Token BY ServerTokens
  <2>2. [k |-> "end", reply |-> r, rid |-> serving.rid] \in Token BY <1>2, ServerTokens
  <2> QED BY <2>1, <2>2
<1>4. body \in Seq(Body)
  <2>1. r \in Reply BY MangoAssumption
  <2>2. r.body \in Seq(Body) BY <2>1 DEF Reply
  <2> QED BY <2>2
<1>5. body \in Seq(Token) BY <1>4 DEF Token
<1>6. ASSUME NEW j \in 1 .. Len(body) PROVE body[j].k \notin {"end", "f1"}
  <2> HIDE DEF body
  <2>1. body[j] \in Body BY <1>4
  <2> QED BY <2>1 DEF Body, Mark, Data, Size
<1>7. head[1].k = "start" /\ head[2].k = "end" /\ head[2].reply = r OBVIOUS
<1> HIDE DEF head, body
<1>8. /\ u \in Seq(Token) /\ Len(u) = 2 + Len(body) /\ Len(body) \in Nat
      /\ u[1] = head[1] /\ u[2] = head[2]
      /\ \A j \in 1 .. Len(body) : u[2 + j] = body[j]
  <2>1. /\ u \in Seq(Token) /\ Len(u) = Len(head) + Len(body)
        /\ \A j \in 1 .. Len(head) : u[j] = head[j]
        /\ \A j \in 1 .. Len(body) : u[Len(head) + j] = body[j]
    <3>1. head \in Seq(Token) /\ body \in Seq(Token) BY <1>3, <1>5
    <3> QED BY <3>1, Joined
  <2>2. 1 \in 1 .. Len(head) /\ 2 \in 1 .. Len(head) BY <1>3
  <2>3. Len(body) \in Nat BY <1>5
  <2> QED BY <1>3, <2>1, <2>2, <2>3
<1>9. wire' = wire \o u
  <2>1. wire \in Seq(Token) /\ head \in Seq(Token) /\ body \in Seq(Token) BY <1>2, <1>3, <1>5
  <2>2. (wire \o head) \o body = wire \o (head \o body) BY <2>1, JoinTokens, Zenon
  <2> QED BY <1>1, <2>2
<1>10. Drop(u, 2) = body
  <2>1. Drop(head \o body, 2) = Drop(head, 2) \o body
    <3>1. 2 \in 0 .. Len(head) BY <1>3
    <3> QED BY <1>3, <1>5, <3>1, DropJoined
  <2>2. Drop(head, 2) = << >> BY <1>3, DropAll
  <2> QED BY <1>5, <2>1, <2>2
<1> HIDE DEF u
<1>11. Source' = Source \o u BY <1>8, <1>9, ServerAppends
<1>12. sent = << >> /\ msg.no = 0 BY DEF StreamInv, NotYet
<1>13. ASSUME r.status = "101" PROVE Fresh(body, sent, msg.no)
  <2>1. CASE body # << >>
    <3>1. 1 \in 1 .. Len(body) BY <1>5, <1>8, <2>1, EmptySeq
    <3>2. Unframed BY <1>13, <2>1 DEF Unframed, Proper, body
    <3> QED BY <1>6, <2>1, <3>1, <3>2 DEF Fresh, Stuck
  <2>2. CASE body = << >>
    <3> DEFINE f == [op |-> "text", fin |-> TRUE, mask |-> FALSE, n |-> 0, form |-> "short"]
               q == <<[f |-> f, at |-> 0, cum |-> 0, no |-> 0]>>
    <3>1. f \in Frame BY DEF Frame, Opcodes
    <3> HIDE DEF f
    <3>2. q \in Seq(Slot) /\ Len(q) = 1 /\ q[1].at = 0 /\ q[1].cum = 0 /\ q[1].no = 0
      BY <3>1 DEF Slot
    <3> HIDE DEF q
    <3>3. Len(body) = 0 /\ Len(sent) = 0 BY <1>12, <2>2
    <3>4. Laid(q, 0, body, sent, msg.no) BY <1>12, <3>2, <3>3 DEF Laid
    <3> QED BY <3>2, <3>4 DEF Fresh
  <2> QED BY <2>1, <2>2
<1>14. HeadsInv'
  <2>1. /\ Len(Source') = Len(Source) + Len(u)
        /\ \A j \in 1 .. Len(Source) : Source'[j] = Source[j]
        /\ \A j \in 1 .. Len(u) : Source'[Len(Source) + j] = u[j]
    BY <1>2, <1>8, <1>11, Joined
  <2>2. ASSUME NEW p \in 1 .. Len(Source'), Opening(Source'[p])
        PROVE  owes' \in Upgrades /\ Fresh(Drop(Source', p), sent', msg'.no)
    <3>0. p \in Nat /\ p <= Len(Source) + Len(u) /\ Len(u) \in Nat
      <4>1. Len(Source') = Len(Source) + Len(u) /\ Len(u) \in Nat BY <1>8, <2>1
      <4> QED BY <1>2, <4>1
    <3>1. p > Len(Source)
      <4>1. ASSUME p <= Len(Source) PROVE FALSE
        <5>1. p \in 1 .. Len(Source) BY <1>2, <3>0, <4>1
        <5>2. Opening(Source[p]) BY <2>1, <2>2, <5>1
        <5> QED BY <5>1, <5>2 DEF StreamInv, HeadsInv
      <4> QED BY <1>2, <3>0, <4>1
    <3> DEFINE j == p - Len(Source)
    <3>2. j \in 1 .. Len(u) /\ p = Len(Source) + j BY <1>2, <3>0, <3>1
    <3> HIDE DEF j
    <3>3. u[j].k = "end" /\ u[j].reply.status = "101" BY <2>1, <2>2, <3>2 DEF Opening
    <3>4. j = 2
      <4>1. j # 1 BY <1>7, <1>8, <3>3
      <4>2. ASSUME j > 2 PROVE FALSE
        <5>1. j - 2 \in 1 .. Len(body) /\ 2 + (j - 2) = j
          <6>1. Len(u) = 2 + Len(body) /\ Len(body) \in Nat BY <1>8
          <6> QED BY <3>2, <4>2, <6>1
        <5>2. u[j] = body[j - 2] BY <1>8, <5>1
        <5> QED BY <1>6, <3>3, <5>1, <5>2
      <4> QED BY <3>0, <3>2, <4>1, <4>2
    <3>5. r.status = "101" BY <1>7, <1>8, <3>3, <3>4
    <3>6. Drop(Source', p) = body
      <4>1. Len(Source) \in 0 .. Len(Source) BY <1>2
      <4>2. Drop(Source \o u, Len(Source)) = Drop(Source, Len(Source)) \o u
        BY <1>2, <1>8, <4>1, DropJoined
      <4>3. Drop(Source, Len(Source)) = << >> BY <1>2, DropAll
      <4>4. Drop(Source', Len(Source)) = u BY <1>8, <1>11, <4>2, <4>3
      <4>5. Source' \in Seq(Token) BY <1>2, <1>8, <1>11, Joined
      <4>6. Len(Source) + 2 <= Len(Source')
        <5>1. Len(u) = 2 + Len(body) /\ Len(body) \in Nat BY <1>8
        <5>2. Len(Source') = Len(Source) + Len(u) BY <2>1
        <5> QED BY <1>2, <5>1, <5>2
      <4>7. Drop(Drop(Source', Len(Source)), 2) = Drop(Source', Len(Source) + 2)
        BY <1>2, <4>5, <4>6, DropDrop
      <4> QED BY <1>10, <3>2, <3>4, <4>4, <4>7
    <3> QED BY <1>13, <3>5, <3>6
  <2> QED BY <2>2 DEF HeadsInv
<1>15. inputDataProcessor # "websocket" BY DEF StreamInv, WsInv
<1>16. WsInv' BY <1>15 DEF WsInv
<1>17. HistOK' /\ NotYet' BY DEF StreamInv, HistOK, NotYet
<1> QED BY <1>14, <1>16, <1>17 DEF StreamInv

\* The tokens of a frame: its two halves of a header, the extended length and
\* the payload.
Parts(head, size, payload, f, no) ==
    /\ head \in Seq(Token) /\ Len(head) = 2
    /\ head[1] = TokenOf(f, no, 1) /\ head[2] = TokenOf(f, no, 2)
    /\ size \in Seq(Token) /\ 2 + Len(size) = HdrLen(f)
    /\ \A j \in 1 .. Len(size) : size[j] = TokenOf(f, no, 2 + j)
    /\ payload \in Seq(Token) /\ payload \in Seq(Data) /\ Len(payload) = f.n
    /\ \A j \in 1 .. f.n : payload[j] = DataToken(no)

HeadTokens(f) == <<[k |-> "f1", op |-> f.op, fin |-> f.fin],
                   [k |-> "f2", mask |-> f.mask, n |-> IF f.form = "short" THEN f.n ELSE -1]>>
SizeTokens(f) == CASE f.form = "short" -> << >>
                   [] f.form = "ext" -> <<[k |-> "fx", n |-> f.n]>>
                   [] f.form = "huge" -> <<[k |-> "fx", n |-> Infinite]>>
PayloadTokens(f, no) == [j \in 1 .. f.n |-> [k |-> "data", v |-> no]]

\* The tokens ServerFrame sends are those of the frame, part by part.
LEMMA FrameParts ==
  ASSUME NEW f \in Frame, NEW no \in Nat
  PROVE  Parts(HeadTokens(f), SizeTokens(f), PayloadTokens(f, no), f, no)
<1> DEFINE head == HeadTokens(f)
           size == SizeTokens(f)
           payload == PayloadTokens(f, no)
<1>1. /\ f.op \in Opcodes /\ f.fin \in BOOLEAN /\ f.mask \in BOOLEAN /\ f.n \in Nat
      /\ f.form \in {"short", "ext", "huge"}
  BY DEF Frame
<1>2. head \in Seq(Token) /\ Len(head) = 2
      /\ head[1] = TokenOf(f, no, 1) /\ head[2] = TokenOf(f, no, 2)
  <2> DEFINE m == IF f.form = "short" THEN f.n ELSE -1
             x == [k |-> "f1", op |-> f.op, fin |-> f.fin]
             y == [k |-> "f2", mask |-> f.mask, n |-> m]
  <2>0. m \in Int BY <1>1
  <2>1. x \in Token BY <1>1, ServerTokens
  <2>2. y \in Token
    <3> HIDE DEF m
    <3> QED BY <1>1, <2>0, ServerTokens
  <2>3. head = <<x, y>> BY DEF HeadTokens
  <2>4. TokenOf(f, no, 1) = x /\ TokenOf(f, no, 2) = y BY DEF TokenOf
  <2> HIDE DEF x, y
  <2> QED BY <2>1, <2>2, <2>3, <2>4
<1>3. /\ size \in Seq(Token) /\ 2 + Len(size) = HdrLen(f) /\ Len(size) \in Nat
      /\ \A j \in 1 .. Len(size) : size[j] = TokenOf(f, no, 2 + j)
  <2>1. CASE f.form = "short"
    <3>1. size = << >> BY <2>1 DEF SizeTokens
    <3> QED BY <2>1, <3>1 DEF HdrLen
  <2>2. CASE f.form # "short"
    <3> DEFINE x == [k |-> "fx", n |-> IF f.form = "huge" THEN Infinite ELSE f.n]
    <3>1. size = <<x>> BY <1>1, <2>2 DEF SizeTokens
    <3>2. x \in Token BY <1>1, ServerTokens DEF Infinite
    <3>3. HdrLen(f) = 3 BY <2>2 DEF HdrLen
    <3>4. TokenOf(f, no, 3) = x BY <3>3 DEF TokenOf
    <3> HIDE DEF x, size
    <3>5. Len(size) = 1 /\ size[1] = x /\ size \in Seq(Token) BY <3>1, <3>2
    <3>6. ASSUME NEW j \in 1 .. Len(size) PROVE size[j] = TokenOf(f, no, 2 + j)
      <4>1. j = 1 /\ 2 + j = 3 BY <3>5
      <4> QED BY <3>4, <3>5, <4>1
    <3> QED BY <3>3, <3>5, <3>6
  <2> QED BY <2>1, <2>2
<1>4. /\ payload \in Seq(Data) /\ Len(payload) = f.n
      /\ \A j \in 1 .. f.n : payload[j] = DataToken(no)
  <2>1. [k |-> "data", v |-> no] \in Data BY DEF Data
  <2>2. payload \in [1 .. f.n -> Data] BY <2>1 DEF PayloadTokens
  <2>3. payload \in Seq(Data) /\ Len(payload) = f.n BY <1>1, <2>2, SeqOfLen
  <2> QED BY <2>3 DEF DataToken, PayloadTokens
<1>5. payload \in Seq(Token) BY <1>4 DEF Token, Body
<1> QED BY <1>2, <1>3, <1>4, <1>5 DEF Parts

\* Its parts one behind the other are the tokens of the whole frame.
LEMMA FrameWritten ==
  ASSUME NEW f \in Frame, NEW no \in Nat, NEW size, NEW payload, NEW head,
         Parts(head, size, payload, f, no)
  PROVE  Written((head \o size) \o payload, f, no)
<1>1. f.n \in Nat BY DEF Frame
<1>2. head \in Seq(Token) /\ Len(head) = 2
      /\ head[1] = TokenOf(f, no, 1) /\ head[2] = TokenOf(f, no, 2)
  BY DEF Parts
<1>3. /\ size \in Seq(Token) /\ 2 + Len(size) = HdrLen(f) /\ Len(size) \in Nat
      /\ \A j \in 1 .. Len(size) : size[j] = TokenOf(f, no, 2 + j)
  BY DEF Parts
<1>4. payload \in Seq(Token) /\ Len(payload) = f.n
      /\ \A j \in 1 .. f.n : payload[j] = DataToken(no)
  BY DEF Parts
<1> DEFINE a == head \o size
           u == a \o payload
<1>6. /\ a \in Seq(Token) /\ Len(a) = HdrLen(f)
      /\ \A j \in 1 .. HdrLen(f) : a[j] = TokenOf(f, no, j)
  <2>1. head \in Seq(Token) /\ size \in Seq(Token) BY <1>2, <1>3
  <2>2. /\ a \in Seq(Token) /\ Len(a) = Len(head) + Len(size)
        /\ \A j \in 1 .. Len(head) : a[j] = head[j]
        /\ \A j \in 1 .. Len(size) : a[Len(head) + j] = size[j]
    BY <2>1, Joined
  <2> HIDE DEF a
  <2>3. Len(a) = HdrLen(f) BY <1>2, <1>3, <2>2
  <2>4. ASSUME NEW j \in 1 .. HdrLen(f) PROVE a[j] = TokenOf(f, no, j)
    <3>0. HdrLen(f) = 2 + Len(size) /\ Len(size) \in Nat BY <1>3
    <3>1. CASE j = 1 BY <1>2, <2>2, <3>1
    <3>2. CASE j = 2 BY <1>2, <2>2, <3>2
    <3>3. CASE j > 2
      <4>1. j - 2 \in 1 .. Len(size) /\ 2 + (j - 2) = j BY <3>0, <3>3
      <4>2. a[2 + (j - 2)] = size[j - 2] BY <1>2, <2>2, <4>1
      <4> QED BY <1>3, <4>1, <4>2
    <3> QED BY <3>0, <3>1, <3>2, <3>3
  <2> QED BY <2>2, <2>3, <2>4
<1>7. Written(u, f, no)
  <2>1. a \in Seq(Token) /\ payload \in Seq(Token) BY <1>4, <1>6
  <2> HIDE DEF a
  <2>2. /\ u \in Seq(Token) /\ Len(u) = Len(a) + Len(payload)
        /\ \A j \in 1 .. Len(a) : u[j] = a[j]
        /\ \A j \in 1 .. Len(payload) : u[Len(a) + j] = payload[j]
    BY <2>1, Joined
  <2> HIDE DEF u
  <2>3. HdrLen(f) \in {2, 3} /\ FrameLen(f) = HdrLen(f) + f.n BY FrameSizes
  <2>4. Len(u) = FrameLen(f) BY <1>4, <1>6, <2>2, <2>3
  <2>5. ASSUME NEW j \in 1 .. FrameLen(f) PROVE u[j] = TokenOf(f, no, j)
    <3>1. CASE j <= HdrLen(f)
      <4>1. j \in 1 .. HdrLen(f) BY <2>3, <3>1
      <4> QED BY <1>6, <2>2, <4>1
    <3>2. CASE j > HdrLen(f)
      <4>1. j - HdrLen(f) \in 1 .. f.n /\ HdrLen(f) + (j - HdrLen(f)) = j /\ j # 1 /\ j # 2
            /\ ~(j <= HdrLen(f))
        BY <1>1, <2>3, <3>2
      <4>2. u[j] = payload[j - HdrLen(f)]
        <5>1. Len(a) = HdrLen(f) /\ Len(payload) = f.n BY <1>4, <1>6
        <5> QED BY <2>2, <4>1, <5>1
      <4>3. payload[j - HdrLen(f)] = DataToken(no) BY <1>4, <4>1
      <4> QED BY <4>1, <4>2, <4>3 DEF TokenOf
    <3> QED BY <2>3, <3>1, <3>2
  <2> QED BY <2>2, <2>4, <2>5 DEF Written
<1> QED BY <1>7 DEF u, a

\* A frame more changes neither what a body that is refused starts with, nor
\* where the frames before it are.
LEMMA FreshAppend ==
  ASSUME NEW t \in Seq(Token), NEW s \in Seq(Data), NEW no \in Nat, Fresh(t, s, no),
         NEW f \in Frame, NEW u, Written(u, f, no), NEW w, Given(w, f, no)
  PROVE  Fresh(t \o u, s \o w, no + Turn(f))
<1>1. CASE Stuck(t)
  <2>1. u \in Seq(Token) BY DEF Written
  <2>2. 1 \in 1 .. Len(t) BY <1>1, EmptySeq DEF Stuck
  <2>3. (t \o u)[1] = t[1] /\ Len(t \o u) >= 1 /\ t \o u \in Seq(Token)
    <3>1. /\ t \o u \in Seq(Token) /\ Len(t \o u) = Len(t) + Len(u)
          /\ \A j \in 1 .. Len(t) : (t \o u)[j] = t[j]
      BY <2>1, Joined
    <3>2. Len(u) \in Nat /\ Len(t) \in Nat BY <2>1
    <3> QED BY <2>2, <3>1, <3>2
  <2> QED BY <1>1, <2>3 DEF Stuck, Fresh
<1>2. CASE ~Stuck(t)
  <2>1. PICK q : Laid(q, 0, t, s, no) /\ q[1].at = 0 /\ q[1].cum = 0 /\ q[1].no = 0
    BY <1>2 DEF Fresh
  <2>2. PICK q2 : Laid(q2, 0, t \o u, s \o w, no + Turn(f)) /\ Longer(q2, q)
    BY <2>1, LaidAppend
  <2>3. 1 \in 1 .. Len(q) BY <2>1 DEF Laid
  <2>4. q2[1].at = 0 /\ q2[1].cum = 0 /\ q2[1].no = 0 BY <2>1, <2>2, <2>3 DEF Longer
  <2> QED BY <2>2, <2>4 DEF Fresh
<1> QED BY <1>1, <1>2

\* A frame more leaves the frame the processor stands in where it is.
LEMMA StandsAppend ==
  ASSUME NEW q, NEW z \in Nat, NEW t \in Seq(Token), NEW s \in Seq(Data), NEW no \in Nat,
         NEW c, NEW a, NEW g, Laid(q, z, t, s, no), Stands(q, z, c, a, g),
         NEW f \in Frame, NEW u, Written(u, f, no), NEW w, Given(w, f, no)
  PROVE  \E q2 : Laid(q2, z, t \o u, s \o w, no + Turn(f)) /\ Stands(q2, z, c, a, g)
<1>0. PICK q2 : Laid(q2, z, t \o u, s \o w, no + Turn(f)) /\ Longer(q2, q) BY LaidAppend
<1>1. /\ Laid(q2, z, t \o u, s \o w, no + Turn(f))
      /\ Len(q2) = Len(q) + 1
      /\ \A i \in 1 .. Len(q) :
           q2[i].at = q[i].at /\ q2[i].cum = q[i].cum /\ q2[i].no = q[i].no
      /\ \A i \in 1 .. Len(q) - 1 : q2[i] = q[i]
  BY <1>0 DEF Longer
<1>2. c \in 1 .. Len(q) /\ Len(q) \in Nat /\ a.frameID = q[c].no % UINT8
  BY DEF Stands, Laid
<1>3. c \in 1 .. Len(q2) BY <1>1, <1>2
<1>4. q2[c].at = q[c].at /\ q2[c].cum = q[c].cum /\ q2[c].no = q[c].no BY <1>1, <1>2
<1>5. CASE a.state = 2
  <2>1. c < Len(q) BY <1>5 DEF Stands
  <2>2. c \in 1 .. Len(q) - 1 /\ c < Len(q2) BY <1>1, <1>2, <2>1
  <2>3. q2[c] = q[c] BY <1>1, <2>2
  <2>4. Stands(q2, z, c, a, g) BY <1>3, <1>5, <2>2, <2>3 DEF Stands
  <2> QED BY <1>1, <2>4
<1>6. CASE a.state # 2
  <2>1. Stands(q2, z, c, a, g) BY <1>2, <1>3, <1>4, <1>6 DEF Stands
  <2> QED BY <1>1, <2>1
<1> QED BY <1>5, <1>6

\* A frame goes behind the others, in the stream and in what was sent.
LEMMA FrameStream ==
  ASSUME IndInv, StreamInv, owes \in Upgrades, owes' \in Upgrades,
         NEW f \in Frame, NEW u, Written(u, f, msg.no), NEW w, Given(w, f, msg.no),
         wire' = wire \o u, sent' = sent \o w, msg'.no = msg.no + Turn(f),
         UNCHANGED <<got, curState, workingBuffer, left, processed>>,
         UNCHANGED <<inputDataProcessor, IDPArgsWebsocket>>
  PROVE  StreamInv'
<1>1. u \in Seq(Token) /\ Len(u) \in Nat BY DEF Written
<1>2. w \in Seq(Data) /\ Len(w) \in Nat BY DEF Given
<1>3. sent \in Seq(Data) /\ got \in Seq(Piece) BY DEF StreamInv, HistOK
<1>4. msg.no \in Nat BY DEF IndInv, TypeOK, ServerOK
<1>5. Source \in Seq(Token) /\ Stream \in Seq(Token) /\ Len(Source) \in Nat BY StreamSeq
<1>6. Source' = Source \o u /\ Stream' = Stream \o u BY <1>1, ServerAppends
<1>7. /\ sent' \in Seq(Data) /\ Len(sent') = Len(sent) + Len(w)
      /\ \A j \in 1 .. Len(sent) : sent'[j] = sent[j]
  <2>1. w \in Seq(Data) BY <1>2
  <2> QED BY <1>3, <2>1, Joined
<1>8. HistOK' BY <1>3, <1>7 DEF HistOK
<1>9. NotYet' BY DEF NotYet
<1>10. HeadsInv'
  <2>0. u \in Seq(Token) BY <1>1
  <2>1. /\ Len(Source') = Len(Source) + Len(u)
        /\ \A j \in 1 .. Len(Source) : Source'[j] = Source[j]
        /\ \A j \in 1 .. Len(u) : Source'[Len(Source) + j] = u[j]
    BY <1>5, <2>0, <1>6, Joined
  <2>2. ASSUME NEW p \in 1 .. Len(Source'), Opening(Source'[p])
        PROVE  Fresh(Drop(Source', p), sent', msg'.no)
    <3>0. p \in Nat /\ p >= 1 /\ p <= Len(Source) + Len(u)
      <4>1. Len(Source') = Len(Source) + Len(u) BY <2>1
      <4> QED BY <1>1, <1>5, <4>1
    <3>1. CASE p <= Len(Source)
      <4>1. p \in 1 .. Len(Source) /\ p \in 0 .. Len(Source) BY <1>5, <3>0, <3>1
      <4>2. Opening(Source[p]) BY <2>1, <2>2, <4>1
      <4>3. Fresh(Drop(Source, p), sent, msg.no) BY <4>1, <4>2 DEF StreamInv, HeadsInv
      <4>4. Drop(Source', p) = Drop(Source, p) \o u BY <1>5, <1>6, <2>0, <4>1, DropJoined
      <4>5. Drop(Source, p) \in Seq(Token) BY <1>5, <3>0, DropSeq
      <4>6. Fresh(Drop(Source, p) \o u, sent \o w, msg.no + Turn(f))
        BY <1>3, <1>4, <4>3, <4>5, FreshAppend
      <4> QED BY <4>4, <4>6
    <3>2. CASE p > Len(Source)
      <4> DEFINE j == p - Len(Source)
      <4>1. j \in 1 .. Len(u) /\ p = Len(Source) + j BY <1>1, <1>5, <3>0, <3>2
      <4> HIDE DEF j
      <4>2. u[j].k = "end" BY <2>1, <2>2, <4>1 DEF Opening
      <4>3. u[j] = TokenOf(f, msg.no, j) BY <4>1 DEF Written
      <4> QED BY <4>2, <4>3 DEF TokenOf, DataToken
    <3> QED BY <1>5, <3>0, <3>1, <3>2
  <2> QED BY <2>2 DEF HeadsInv
<1>11. WsInv'
  <2> SUFFICES ASSUME inputDataProcessor = "websocket" PROVE WsInv' BY DEF WsInv
  <2>1. curState' \in WsStates \cup {"ABORTED", "DISCONNECTED"} BY WsWhere
  <2>2. InOrder'
    <3>1. InOrder BY DEF StreamInv, WsInv
    <3>2. Len(got) \in Nat /\ Len(sent) \in Nat BY <1>3
    <3>3. Len(got') <= Len(sent') BY <1>2, <1>7, <3>1, <3>2 DEF InOrder
    <3>4. ASSUME NEW j \in 1 .. Len(got')
          PROVE  got'[j].v = sent'[j] /\ got'[j].id = got'[j].v.v % UINT8
      <4>1. j \in 1 .. Len(sent) /\ j \in 1 .. Len(got) BY <3>1, <3>2 DEF InOrder
      <4>2. sent'[j] = sent[j] BY <1>7, <4>1
      <4> QED BY <3>1, <4>1, <4>2 DEF InOrder
    <3> QED BY <3>3, <3>4 DEF InOrder
  <2>3. ASSUME curState' \in WsStates
        PROVE  \/ Stuck(Stream') /\ IDPArgsWebsocket'.state = 1
               \/ \E q, z, c : /\ z \in Nat /\ Laid(q, z, Stream', sent', msg'.no)
                               /\ Stands(q, z, c, IDPArgsWebsocket', Len(got'))
    <3>0. UNCHANGED <<IDPArgsWebsocket, got, curState>> OBVIOUS
    <3>1. CASE Stuck(Stream) /\ IDPArgsWebsocket.state = 1
      <4>0. u \in Seq(Token) BY <1>1
      <4>1. 1 \in 1 .. Len(Stream) BY <1>5, <3>1, EmptySeq DEF Stuck
      <4>2. /\ Len(Stream \o u) = Len(Stream) + Len(u)
            /\ \A j \in 1 .. Len(Stream) : (Stream \o u)[j] = Stream[j]
        BY <1>5, <4>0, Joined
      <4>3. Stream'[1] = Stream[1] BY <1>6, <4>1, <4>2
      <4>4. Len(Stream') > 0 BY <1>1, <1>5, <1>6, <4>1, <4>2
      <4>5. Stream' # << >> BY <4>4
      <4>6. Stuck(Stream') BY <3>1, <4>3, <4>5 DEF Stuck
      <4> QED BY <3>0, <3>1, <4>6
    <3>2. CASE ~(Stuck(Stream) /\ IDPArgsWebsocket.state = 1)
      <4>1. PICK q, z, c : /\ z \in Nat /\ Laid(q, z, Stream, sent, msg.no)
                           /\ Stands(q, z, c, IDPArgsWebsocket, Len(got))
        BY <2>3, <3>2 DEF StreamInv, WsInv
      <4>2. PICK q2 : /\ Laid(q2, z, Stream \o u, sent \o w, msg.no + Turn(f))
                      /\ Stands(q2, z, c, IDPArgsWebsocket, Len(got))
        BY <1>3, <1>4, <1>5, <4>1, StandsAppend
      <4>3. Laid(q2, z, Stream', sent', msg'.no) BY <1>6, <4>2
      <4> QED BY <3>0, <4>1, <4>2, <4>3
    <3> QED BY <3>1, <3>2
  <2> QED BY <2>1, <2>2, <2>3 DEF WsInv
<1> QED BY <1>8, <1>9, <1>10, <1>11 DEF StreamInv

\* What ServerFrame sends is the tokens of one frame.
LEMMA FrameSent ==
  ASSUME wire \in Seq(Token), NEW f \in Frame, msg.no \in Nat,
         wire' = wire \o HeadTokens(f) \o SizeTokens(f) \o PayloadTokens(f, msg.no)
  PROVE  LET u == (HeadTokens(f) \o SizeTokens(f)) \o PayloadTokens(f, msg.no) IN
         /\ Parts(HeadTokens(f), SizeTokens(f), PayloadTokens(f, msg.no), f, msg.no)
         /\ Written(u, f, msg.no) /\ wire' = wire \o u
<1> DEFINE head == HeadTokens(f)
           size == SizeTokens(f)
           payload == PayloadTokens(f, msg.no)
<1>1. Parts(head, size, payload, f, msg.no) BY FrameParts
<1>2. wire' = wire \o head \o size \o payload OBVIOUS
<1> HIDE DEF head, size, payload
<1>3. Written((head \o size) \o payload, f, msg.no) BY <1>1, FrameWritten
<1>4. head \in Seq(Token) /\ size \in Seq(Token) /\ payload \in Seq(Token)
  BY <1>1 DEF Parts
<1>5. head \o size \in Seq(Token) BY <1>4, Joined
<1>6. (wire \o head) \o size = wire \o (head \o size) BY <1>4, JoinTokens, Zenon
<1>7. (wire \o (head \o size)) \o payload = wire \o ((head \o size) \o payload)
  <2> DEFINE hs == head \o size
  <2>1. wire \in Seq(Token) /\ hs \in Seq(Token) /\ payload \in Seq(Token) BY <1>4, <1>5
  <2> HIDE DEF hs
  <2>2. (wire \o hs) \o payload = wire \o (hs \o payload) BY <2>1, JoinTokens, Zenon
  <2> QED BY <2>2 DEF hs
<1>8. wire' = wire \o ((head \o size) \o payload) BY <1>2, <1>6, <1>7
<1> QED BY <1>1, <1>3, <1>8 DEF head, size, payload

\* Whatever the server sends goes behind what it sent, in its place.
LEMMA ServerStream ==
  ASSUME IndInv, StreamInv, Server
  PROVE  StreamInv'
<1>1. /\ UNCHANGED <<got, curState, workingBuffer, left, processed>>
      /\ UNCHANGED <<inputDataProcessor, IDPArgsWebsocket>>
  BY DEF Server, ServerReply, ServerContinue, ServerFrame, smVars, wbVars, dpVars, inVars,
         histVars
<1>2. CASE ServerReply
  <2>1. PICK r \in Replies : /\ Answer(r)
                             /\ owes' = IF r.status = "101" THEN "frames" ELSE "nothing"
    BY <1>2 DEF ServerReply
  <2>2. UNCHANGED <<sent, msg>> /\ owes \notin Upgrades BY <1>2 DEF ServerReply, Upgrades
  <2>3. r.status = "101" => owes' \in Upgrades BY <2>1 DEF Upgrades
  <2> QED BY <1>1, <2>1, <2>2, <2>3, AnswerStream
<1>3. CASE ServerContinue
  <2>1. PICK r \in Replies : Answer(r) /\ r.status = "100" BY <1>3 DEF ServerContinue
  <2>2. UNCHANGED <<sent, msg>> /\ owes \notin Upgrades BY <1>3 DEF ServerContinue, Upgrades
  <2>3. r.status # "101" BY <2>1
  <2> QED BY <1>1, <2>1, <2>2, <2>3, AnswerStream
<1>4. CASE ServerFrame
  <2>1. PICK f \in Frames :
         LET control == f.op \in Control
             size == CASE f.form = "short" -> << >>
                       [] f.form = "ext" -> <<[k |-> "fx", n |-> f.n]>>
                       [] f.form = "huge" -> <<[k |-> "fx", n |-> Infinite]>>
             payload == [j \in 1 .. f.n |-> [k |-> "data", v |-> msg.no]]
         IN /\ wire' = wire \o <<[k |-> "f1", op |-> f.op, fin |-> f.fin],
                                 [k |-> "f2", mask |-> f.mask,
                                  n |-> IF f.form = "short" THEN f.n ELSE -1]>>
                            \o size \o payload
            /\ sent' = IF control THEN sent ELSE sent \o payload
            /\ msg' = IF control THEN msg
                      ELSE IF f.fin THEN [no |-> msg.no + 1, open |-> FALSE]
                      ELSE [msg EXCEPT !.open = TRUE]
            /\ owes' = IF f.op = "close" THEN "closed" ELSE owes
    BY <1>4 DEF ServerFrame
  <2> DEFINE head == HeadTokens(f)
             size == SizeTokens(f)
             payload == PayloadTokens(f, msg.no)
             u == (head \o size) \o payload
             w == IF f.op \in Control THEN << >> ELSE payload
  <2>2. /\ wire' = wire \o head \o size \o payload
        /\ sent' = IF f.op \in Control THEN sent ELSE sent \o payload
    BY <2>1 DEF HeadTokens, SizeTokens, PayloadTokens
  <2>3. /\ msg' = IF f.op \in Control THEN msg
                  ELSE IF f.fin THEN [no |-> msg.no + 1, open |-> FALSE]
                  ELSE [msg EXCEPT !.open = TRUE]
        /\ owes' = IF f.op = "close" THEN "closed" ELSE owes
    BY <2>1
  <2>4. owes \in Upgrades /\ owes' \in Upgrades BY <1>4, <2>3 DEF ServerFrame, Upgrades
  <2>5. f \in Frame /\ f.fin \in BOOLEAN BY MangoAssumption DEF Frame
  <2>6. msg \in [no : Nat, open : BOOLEAN] /\ msg.no \in Nat /\ wire \in Seq(Token)
        /\ sent \in Seq(Data)
    BY DEF IndInv, TypeOK, ServerOK, StreamInv, HistOK
  <2>7. /\ Parts(head, size, payload, f, msg.no) /\ Written(u, f, msg.no)
        /\ wire' = wire \o u
    BY <2>2, <2>5, <2>6, FrameSent
  <2> HIDE DEF head, size, payload
  <2>9. Given(w, f, msg.no)
    <3>1. CASE f.op \in Control BY <3>1 DEF Given, Bulk
    <3>2. CASE f.op \notin Control BY <2>7, <3>2 DEF Given, Bulk, Parts
    <3> QED BY <3>1, <3>2
  <2>11. sent' = sent \o w BY <2>2, <2>6
  <2>12. msg'.no = msg.no + Turn(f)
    <3>1. CASE f.op \in Control
      <4>1. msg' = msg BY <2>3, <3>1
      <4>2. Turn(f) = 0 BY <3>1 DEF Turn
      <4>3. msg.no + 0 = msg.no BY <2>6
      <4> QED BY <4>1, <4>2, <4>3
    <3>2. CASE f.op \notin Control /\ f.fin BY <2>3, <2>6, <3>2 DEF Turn
    <3>3. CASE f.op \notin Control /\ ~f.fin BY <2>3, <2>6, <3>3 DEF Turn
    <3> QED BY <2>5, <3>1, <3>2, <3>3
  <2> HIDE DEF u, w
  <2> QED BY <1>1, <2>4, <2>5, <2>7, <2>9, <2>11, <2>12, FrameStream, SMTT(60)
<1> QED BY <1>2, <1>3, <1>4 DEF Server

-----------------------------------------------------------------------------
(***************************************************************************)
(* The invariant and the theorem.                                          *)
(***************************************************************************)

\* Nothing has been sent and no processor is attached.
LEMMA StreamInit == Init => StreamInv
<1> SUFFICES ASSUME Init PROVE StreamInv OBVIOUS
<1>1. /\ curState = "HTTP_CONNECTED" /\ wire = << >> /\ sent = << >> /\ got = << >>
      /\ inputDataProcessor = NULL /\ msg = [no |-> 0, open |-> FALSE]
  BY DEF Init
<1>2. HistOK /\ NotYet BY <1>1 DEF HistOK, NotYet
<1>3. Source = << >> BY <1>1 DEF Source
<1>4. HeadsInv BY <1>3 DEF HeadsInv
<1>5. WsInv BY <1>1 DEF WsInv, NULL
<1> QED BY <1>2, <1>4, <1>5 DEF StreamInv

\* Every step keeps the frames in their places.
LEMMA StreamStep == IndInv /\ StreamInv /\ [Next]_vars => StreamInv'
<1> SUFFICES ASSUME IndInv, StreamInv, [Next]_vars PROVE StreamInv' OBVIOUS
<1>1. CASE Handlers
  BY <1>1, TimeoutStream, SendStream, ReadHeadersStream, ProcessResponseStream,
     ReadDataStream, ProcessDataStream DEF Handlers
<1>2. CASE InputProcessors BY <1>2, BodyStream, WebsocketStream DEF InputProcessors
<1>3. CASE Application BY <1>3, ApplicationStream
<1>4. CASE Server BY <1>4, ServerStream
<1>5. CASE Tick BY <1>5, ProcessDataStream
<1>6. CASE UNCHANGED vars
  <2>1. /\ UNCHANGED <<wire, sent, msg, owes, got, processed>>
        /\ UNCHANGED <<inputDataProcessor, IDPArgsWebsocket>>
        /\ UNCHANGED <<curState, workingBuffer, left>>
    BY <1>6 DEF vars, smVars, wbVars, srvVars, histVars, dpVars, inVars
  <2>2. left + processed \in Nat BY RestSeq
  <2>3. Stream' = Stream BY <2>1, <2>2, StreamSame
  <2> QED BY <2>1, <2>3, WsWhere, StreamQuiet
<1> QED BY <1>1, <1>2, <1>3, <1>4, <1>5, <1>6 DEF Next, Client

\* The invariant holds of every reachable state.
LEMMA StreamInvHolds == Spec => []StreamInv
<1>1. Init => StreamInv BY StreamInit
<1>2. IndInv /\ StreamInv /\ [Next]_vars => StreamInv' BY StreamStep
<1> QED BY <1>1, <1>2, IndInvHolds, PTL DEF Spec

\* For any frames, any size of the working buffer and any cut of the stream
\* into reads, mangoIDP_websocket passes the data on in the order sent, every
\* token once, and under the frame ID of its message: fragments of a message
\* share it, control frames in between do not change it, and it wraps after 256.
THEOREM MessagesAlwaysInOrder == Spec => []MessagesInOrder
<1>1. StreamInv => MessagesInOrder BY DEF StreamInv, WsInv, InOrder, MessagesInOrder
<1> QED BY <1>1, StreamInvHolds, PTL
=============================================================================
