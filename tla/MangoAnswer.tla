---------------------------- MODULE MangoAnswer ----------------------------
(***************************************************************************)
(* A server that keeps to HTTP, whatever it says and however it is cut     *)
(* into reads: the processors of bodies stay in step with the stream, and  *)
(* a request that ends with a final status has got the whole body of its   *)
(* own response.                                                           *)
(***************************************************************************)
EXTENDS MangoStream

\* The head of a response and what follows it.
HeadOf(r, rid) == <<[k |-> "start"], [k |-> "end", reply |-> r, rid |-> rid]>>
BodyFor(r, m) == IF m = "HEAD" THEN << >> ELSE r.body

\* The client has sent a request and has read nothing of the response yet.
Asked == \/ curState = "RECVING_HEADERS"
         \/ curState = "SENDING_HEADERS" /\ subscribedEvent = "PROCESS"
Offering == curState \in {"SENDING_DATA", "SENDING_PACKET"}

\* Between requests nothing is under way.
ReadyInv ==
    curState = "HTTP_CONNECTED" \/ (curState = "SENDING_HEADERS" /\ subscribedEvent = "WRITE")
      => wire = << >> /\ owes = "nothing"

\* What comes is the interim 100, the one response or the upgrade.
Coming ==
    \/ Source = << >> /\ owes \in {"reply", "expect", "data"}
    \/ \E r \in Replies : /\ r.status = "100" /\ Source = HeadOf(r, serving.rid)
                          /\ owes = "data" /\ httpMethod \notin Bodiless
    \/ \E r \in Replies : /\ r.status \notin {"100", "101"} /\ owes = "nothing"
                          /\ Source = HeadOf(r, serving.rid) \o BodyFor(r, httpMethod)
    \/ \E r \in Replies : /\ r.status = "101" /\ owes \in Upgrades
                          /\ Len(Source) >= 2 /\ Take(Source, 2) = HeadOf(r, serving.rid)

AskedInv ==
    Asked =>
      /\ serving.method = httpMethod /\ Coming
      /\ owes = "expect" => httpMethod \notin Bodiless

\* The server waits for the data of an upload that it was not asked to expect.
UploadInv ==
    /\ Offering => /\ httpMethod \in Uploads /\ serving.method = httpMethod
                   /\ owes = "data" /\ wire = << >>
    /\ curState = "SENDING_HEADERS" /\ subscribedEvent = "PROCESS"
         => \/ httpMethod \in Bodiless \/ HeaderGet("cl") = 0 \/ HasHeader("expect")
            \/ owes = "data" /\ wire = << >>
    /\ curState = "RECVING_HEADERS" => httpMethod \in Bodiless \cup Uploads
    /\ curState = "RECVING_HEADERS" /\ subscribedEvent = "PROCESS" => left = 2

\* z tokens of the body b are behind: how far the processor is.
RawAt(b, z) == /\ AllData(b) /\ Len(b) <= IDPArgsRaw.fileSz
               /\ IDPArgsRaw.done = z /\ processed = 0
ChunkedAt(b, z) ==
    LET a == IDPArgsChunked IN
    /\ ChunkedBody(b)
    /\ a.state = 1 => SizeAt(b, z + 1)
    /\ a.state \in {2, 3} =>
         LET p == z - 1 - a.done IN
         /\ p \in 1 .. Len(b) /\ b[p].k = "size" /\ b[p].n = a.sz /\ a.sz > 0
         /\ a.state = 3 => a.done = a.sz
    /\ a.state = 4 => z > 1 /\ b[z - 1].k = "size" /\ b[z - 1].n = 0

\* The rest of the stream is the rest of the body, and what was consumed of it
\* has been handed over.
Reading(b, z) ==
    /\ z \in 0 .. Len(b) /\ Stream = Drop(b, z)
    /\ resp.want = Payload(b) /\ got = Payload(Take(b, z))
    /\ inputDataProcessor = "raw" => RawAt(b, z)
    /\ inputDataProcessor = "chunked" => ChunkedAt(b, z)

Bodies == {r.body : r \in Replies} \cup {<< >>}
BodyInv ==
    curState = "RECVING_DATA" =>
      /\ owes = "nothing" /\ resp.rid = serving.rid
      /\ \E b \in Bodies : \E z \in 0 .. Len(b) : Reading(b, z)

\* A final status is returned with the whole body.
DoneInv ==
    smExitError \in Final =>
      curState = "HTTP_CONNECTED" /\ got = resp.want /\ resp.rid = serving.rid

Answers == ReadyInv /\ AskedInv /\ UploadInv /\ BodyInv /\ DoneInv
AnswerInv == WellBehaved => Answers

-----------------------------------------------------------------------------
(***************************************************************************)
(* The data of a body.                                                     *)
(***************************************************************************)

\* g[i] is the data among the first i tokens of s, for i up to n.
Collects(g, s, n) ==
    /\ g \in [0 .. n -> Seq(Body)] /\ g[0] = << >>
    /\ \A i \in 1 .. n :
         g[i] = IF s[i].k = "data" THEN Append(g[i - 1], s[i]) ELSE g[i - 1]

\* There is such a function for every body.
LEMMA CollectsExists ==
  ASSUME NEW s \in Seq(Body), NEW m \in 0 .. Len(s)
  PROVE  \E g : Collects(g, s, m)
<1> DEFINE T == {n \in 0 .. Len(s) : ~\E g : Collects(g, s, n)}
<1>0. Len(s) \in Nat OBVIOUS
<1>1. T \subseteq Nat BY <1>0
<1>2. ASSUME T # {} PROVE FALSE
  <2>1. PICK n \in T : \A h \in T : n <= h BY <1>1, <1>2, Smallest
  <2>2. n \in Nat /\ n <= Len(s) BY <1>0, <2>1
  <2>3. CASE n = 0
    <3> DEFINE g == [i \in 0 .. 0 |-> << >>]
    <3>1. g \in [0 .. 0 -> Seq(Body)] /\ g[0] = << >> OBVIOUS
    <3>2. Collects(g, s, 0) BY <3>1 DEF Collects
    <3> QED BY <2>1, <2>3, <3>2
  <2>4. CASE n # 0
    <3>1. n - 1 \in 0 .. Len(s) /\ n - 1 \in Nat /\ n - 1 < n BY <1>0, <2>2, <2>4
    <3>2. n - 1 \notin T BY <2>1, <3>1
    <3>3. PICK g : Collects(g, s, n - 1) BY <3>1, <3>2
    <3> DEFINE e == IF s[n].k = "data" THEN Append(g[n - 1], s[n]) ELSE g[n - 1]
               h == [i \in 0 .. n |-> IF i < n THEN g[i] ELSE e]
    <3>4. g \in [0 .. n - 1 -> Seq(Body)] /\ g[0] = << >> BY <3>3 DEF Collects
    <3>5. s[n] \in Body /\ g[n - 1] \in Seq(Body)
      <4>1. n \in 1 .. Len(s) BY <2>2, <2>4
      <4>2. n - 1 \in 0 .. n - 1 BY <3>1
      <4> QED BY <3>4, <4>1, <4>2
    <3>6. e \in Seq(Body) BY <3>5
    <3> HIDE DEF e
    <3>7. h \in [0 .. n -> Seq(Body)]
      <4>1. ASSUME NEW i \in 0 .. n PROVE (IF i < n THEN g[i] ELSE e) \in Seq(Body)
        <5>1. CASE i < n
          <6>1. i \in 0 .. n - 1 BY <2>2, <5>1
          <6> QED BY <3>4, <5>1, <6>1
        <5>2. CASE ~(i < n) BY <3>6, <5>2
        <5> QED BY <5>1, <5>2
      <4> QED BY <4>1
    <3>8. h[0] = << >> BY <2>2, <2>4, <3>4
    <3>9. ASSUME NEW i \in 1 .. n
          PROVE  h[i] = IF s[i].k = "data" THEN Append(h[i - 1], s[i]) ELSE h[i - 1]
      <4>1. i \in Nat /\ i - 1 \in 0 .. n /\ i \in 0 .. n /\ i - 1 < n BY <2>2
      <4>2. h[i - 1] = g[i - 1] BY <4>1
      <4>3. CASE i < n
        <5>1. i \in 1 .. n - 1 BY <2>2, <4>1, <4>3
        <5>2. h[i] = g[i] BY <4>1, <4>3
        <5> HIDE DEF h
        <5> QED BY <3>3, <4>2, <5>1, <5>2 DEF Collects
      <4>4. CASE ~(i < n)
        <5>1. i = n BY <2>2, <4>1, <4>4
        <5>2. h[i] = e BY <4>1, <4>4
        <5> HIDE DEF h
        <5> QED BY <4>2, <5>1, <5>2 DEF e
      <4> QED BY <4>3, <4>4
    <3> HIDE DEF h
    <3>10. Collects(h, s, n) BY <3>7, <3>8, <3>9 DEF Collects
    <3> QED BY <2>1, <3>10
  <2> QED BY <2>3, <2>4
<1> QED BY <1>2

\* It is the same for bodies that start with the same tokens.
LEMMA CollectsSame ==
  ASSUME NEW g, NEW h, NEW s, NEW t, NEW n \in Nat, NEW m \in Nat, n <= m,
         Collects(g, s, n), Collects(h, t, m), \A i \in 1 .. n : s[i] = t[i]
  PROVE  \A i \in 0 .. n : g[i] = h[i]
<1> DEFINE T == {i \in 0 .. n : g[i] # h[i]}
<1>1. T \subseteq Nat OBVIOUS
<1>2. ASSUME T # {} PROVE FALSE
  <2>1. PICK i \in T : \A j \in T : i <= j BY <1>1, <1>2, Smallest
  <2>2. i \in 0 .. n /\ g[i] # h[i] BY <2>1
  <2>3. i # 0 BY <2>2 DEF Collects
  <2>4. i \in 1 .. n /\ i \in 1 .. m /\ i - 1 \in 0 .. n /\ i - 1 < i BY <2>2, <2>3
  <2>5. g[i - 1] = h[i - 1] BY <2>1, <2>4
  <2>6. g[i] = h[i] BY <2>4, <2>5 DEF Collects
  <2> QED BY <2>2, <2>6
<1> QED BY <1>2

\* Payload takes what this function has at the end.
LEMMA PayloadIs ==
  ASSUME NEW s \in Seq(Body), NEW g, Collects(g, s, Len(s))
  PROVE  Payload(s) = g[Len(s)]
<1> DEFINE F(f) == [i \in 0 .. Len(s) |->
                      IF i = 0 THEN << >>
                      ELSE IF s[i].k = "data" THEN Append(f[i - 1], s[i]) ELSE f[i - 1]]
           d == CHOOSE f : f = F(f)
<1>0. Len(s) \in Nat OBVIOUS
<1>1. Payload(s) = d[Len(s)] BY DEF Payload
<1>2. g = F(g)
  <2>1. g \in [0 .. Len(s) -> Seq(Body)] BY DEF Collects
  <2>2. ASSUME NEW i \in 0 .. Len(s) PROVE g[i] = F(g)[i]
    <3>1. CASE i = 0 BY <3>1 DEF Collects
    <3>2. CASE i # 0
      <4>1. i \in 1 .. Len(s) BY <1>0, <3>2
      <4> QED BY <3>2, <4>1, Zenon DEF Collects
    <3> QED BY <3>1, <3>2
  <2> QED BY <2>1, <2>2
<1>3. d = F(d) BY <1>2, Zenon
<1> HIDE DEF d
<1> DEFINE T == {i \in 0 .. Len(s) : d[i] # g[i]}
<1>4. T \subseteq Nat BY <1>0
<1>5. ASSUME T # {} PROVE FALSE
  <2>1. PICK i \in T : \A j \in T : i <= j BY <1>4, <1>5, Smallest
  <2>2. i \in 0 .. Len(s) /\ d[i] # g[i] BY <2>1
  <2>3. d[i] = IF i = 0 THEN << >>
               ELSE IF s[i].k = "data" THEN Append(d[i - 1], s[i]) ELSE d[i - 1]
    BY <1>3, <2>2
  <2>4. i # 0 BY <2>2, <2>3 DEF Collects
  <2>5. i \in 1 .. Len(s) /\ i - 1 \in 0 .. Len(s) /\ i - 1 < i BY <1>0, <2>2, <2>4
  <2>6. d[i - 1] = g[i - 1] BY <2>1, <2>5
  <2>7. g[i] = IF s[i].k = "data" THEN Append(g[i - 1], s[i]) ELSE g[i - 1]
    BY <2>5 DEF Collects
  <2> QED BY <2>2, <2>3, <2>4, <2>6, <2>7
<1>6. Len(s) \in 0 .. Len(s) BY <1>0
<1> QED BY <1>1, <1>5, <1>6

\* The data of the first n tokens.
LEMMA PayloadTake ==
  ASSUME NEW s \in Seq(Body), NEW g, Collects(g, s, Len(s)), NEW n \in 0 .. Len(s)
  PROVE  Payload(Take(s, n)) = g[n]
<1> DEFINE t == Take(s, n)
<1>0. Len(s) \in Nat /\ n \in Nat /\ n <= Len(s) OBVIOUS
<1>1. t \in Seq(Body) /\ Len(t) = n /\ \A j \in 1 .. n : t[j] = s[j] BY TakeSeq
<1> HIDE DEF t
<1>2. Len(t) \in 0 .. Len(t) BY <1>0, <1>1
<1>3. PICK h : Collects(h, t, Len(t)) BY <1>1, <1>2, CollectsExists
<1>4. Payload(t) = h[n] BY <1>1, <1>3, PayloadIs
<1>5. \A i \in 0 .. n : h[i] = g[i] BY <1>0, <1>1, <1>3, CollectsSame
<1>6. n \in 0 .. n BY <1>0
<1> QED BY <1>4, <1>5, <1>6 DEF t

\* The data of the whole is the data of all its tokens.
LEMMA PayloadAll ==
  ASSUME NEW s \in Seq(Body)
  PROVE  Payload(Take(s, Len(s))) = Payload(s) /\ Payload(Take(s, 0)) = << >>
<1>0. Len(s) \in 0 .. Len(s) /\ 0 \in 0 .. Len(s) OBVIOUS
<1>1. PICK g : Collects(g, s, Len(s)) BY <1>0, CollectsExists
<1>2. Payload(Take(s, Len(s))) = g[Len(s)] /\ Payload(Take(s, 0)) = g[0]
  BY <1>0, <1>1, PayloadTake
<1>3. Payload(s) = g[Len(s)] BY <1>1, PayloadIs
<1> QED BY <1>1, <1>2, <1>3 DEF Collects

\* Taking one token more.
LEMMA TakeMore ==
  ASSUME NEW S, NEW s \in Seq(S), NEW n \in 1 .. Len(s)
  PROVE  Take(s, n) = Append(Take(s, n - 1), s[n])
<1>0. Len(s) \in Nat /\ n \in Nat /\ n - 1 \in Nat /\ n - 1 \in 0 .. Len(s) /\ n \in 0 .. Len(s)
      /\ s[n] \in S
  OBVIOUS
<1> DEFINE a == Take(s, n)
           b == Take(s, n - 1)
<1>1. a \in Seq(S) /\ Len(a) = n /\ \A j \in 1 .. n : a[j] = s[j] BY <1>0, TakeSeq
<1>2. b \in Seq(S) /\ Len(b) = n - 1 /\ \A j \in 1 .. n - 1 : b[j] = s[j] BY <1>0, TakeSeq
<1> HIDE DEF a, b
<1> DEFINE c == Append(b, s[n])
<1>3. c \in Seq(S) /\ Len(c) = n /\ c[n] = s[n] /\ \A j \in 1 .. n - 1 : c[j] = b[j]
  <2>1. c \in Seq(S) /\ Len(c) = Len(b) + 1 /\ c[Len(b) + 1] = s[n]
        /\ \A j \in 1 .. Len(b) : c[j] = b[j]
    BY <1>0, <1>2, AppendProperties
  <2> HIDE DEF c
  <2>2. Len(b) = n - 1 /\ Len(b) + 1 = n BY <1>0, <1>2
  <2> QED BY <2>1, <2>2
<1> HIDE DEF c
<1>4. ASSUME NEW j \in 1 .. n PROVE a[j] = c[j]
  <2>1. CASE j = n BY <1>1, <1>3, <2>1
  <2>2. CASE j # n
    <3>1. j \in 1 .. n - 1 BY <1>0, <2>2
    <3> QED BY <1>1, <1>2, <1>3, <3>1
  <2> QED BY <2>1, <2>2
<1>5. a = c BY <1>1, <1>3, <1>4, SeqEqual
<1> QED BY <1>5 DEF a, b, c

\* A run of data goes behind the data before it.
LEMMA PayloadData ==
  ASSUME NEW s \in Seq(Body), NEW z \in Nat, NEW n \in Nat, z + n <= Len(s),
         \A j \in 1 .. n : s[z + j].k = "data"
  PROVE  Payload(Take(s, z + n)) = Payload(Take(s, z)) \o Take(Drop(s, z), n)
<1>0. Len(s) \in Nat /\ Len(s) \in 0 .. Len(s) /\ z \in 0 .. Len(s) /\ z + n \in 0 .. Len(s)
      /\ z <= Len(s)
  OBVIOUS
<1>1. PICK g : Collects(g, s, Len(s)) BY <1>0, CollectsExists
<1>2. g \in [0 .. Len(s) -> Seq(Body)] BY <1>1 DEF Collects
<1> DEFINE d == Drop(s, z)
<1>3. d \in Seq(Body) /\ Len(d) = Len(s) - z /\ \A j \in 1 .. Len(d) : d[j] = s[z + j]
  BY <1>0, DropSeq
<1> HIDE DEF d
<1>4. n <= Len(d) /\ Len(d) \in Nat BY <1>0, <1>3
<1> DEFINE T == {i \in 0 .. n : g[z + i] # g[z] \o Take(d, i)}
<1>5. T \subseteq Nat OBVIOUS
<1> HIDE DEF T
<1>6. ASSUME T # {} PROVE FALSE
  <2>1. PICK i \in Nat : i \in T /\ \A j \in T : i <= j BY <1>5, <1>6, Smallest
  <2>2. i \in 0 .. n /\ i \in Nat /\ g[z + i] # g[z] \o Take(d, i) BY <2>1 DEF T
  <2>3. g[z] \in Seq(Body) BY <1>0, <1>2
  <2>4. i # 0
    <3>1. Take(d, 0) \in Seq(Body) /\ Len(Take(d, 0)) = 0
      <4>1. 0 \in 0 .. Len(d) BY <1>4
      <4> QED BY <1>3, <4>1, TakeSeq
    <3>2. Take(d, 0) = << >> BY <3>1, EmptySeq
    <3>3. g[z] \o << >> = g[z] /\ z + 0 = z BY <2>3
    <3> QED BY <2>2, <3>2, <3>3
  <2>5. /\ i - 1 \in 0 .. n /\ i - 1 < i /\ i \in 1 .. Len(d) /\ i - 1 \in 0 .. Len(d)
        /\ z + i \in 1 .. Len(s) /\ (z + i) - 1 = z + (i - 1) /\ i \in 1 .. n
    BY <1>0, <1>3, <1>4, <2>2, <2>4
  <2>6. g[z + (i - 1)] = g[z] \o Take(d, i - 1)
    <3>1. i - 1 \notin T BY <2>1, <2>2, <2>5
    <3> QED BY <2>5, <3>1 DEF T
  <2>7. g[z + i] = Append(g[z + (i - 1)], s[z + i]) BY <1>1, <2>5 DEF Collects
  <2>8. d[i] = s[z + i] /\ d[i] \in Body
    <3>1. i \in 1 .. Len(d) BY <2>5
    <3> QED BY <1>3, <3>1, SMTT(60)
  <2>9. Take(d, i) = Append(Take(d, i - 1), d[i]) BY <1>3, <2>5, TakeMore
  <2>10. Take(d, i - 1) \in Seq(Body) BY <1>3, <2>5, TakeSeq
  <2>11. Append(g[z] \o Take(d, i - 1), d[i]) = g[z] \o Append(Take(d, i - 1), d[i])
    <3> DEFINE x == g[z]
               y == Take(d, i - 1)
               e == d[i]
    <3>1. x \in Seq(Body) /\ y \in Seq(Body) /\ e \in Body BY <2>3, <2>8, <2>10
    <3> HIDE DEF x, y, e
    <3>2. x \o y \in Seq(Body) BY <3>1, Joined
    <3>3. <<e>> \in Seq(Body) BY <3>1
    <3>4. (x \o y) \o <<e>> = x \o (y \o <<e>>)
      <4>1. \A s1, s2, s3 \in Seq(Body) : (s1 \o s2) \o s3 = s1 \o (s2 \o s3) BY JoinThree
      <4> QED BY <3>1, <3>3, <4>1, ZenonT(60)
    <3>5. Append(x \o y, e) = (x \o y) \o <<e>> BY <3>1, <3>2, AppendProperties
    <3>6. Append(y, e) = y \o <<e>> BY <3>1, AppendProperties
    <3> QED BY <3>4, <3>5, <3>6 DEF x, y, e
  <2> QED BY <2>2, <2>6, <2>7, <2>8, <2>9, <2>11
<1>7. n \in 0 .. n OBVIOUS
<1>8. g[z + n] = g[z] \o Take(d, n) BY <1>6, <1>7 DEF T
<1>9. Payload(Take(s, z + n)) = g[z + n] /\ Payload(Take(s, z)) = g[z]
  BY <1>0, <1>1, PayloadTake
<1> QED BY <1>8, <1>9 DEF d

\* Other tokens add nothing to it.
LEMMA PayloadSkip ==
  ASSUME NEW s \in Seq(Body), NEW z \in Nat, NEW n \in Nat, z + n <= Len(s),
         \A j \in 1 .. n : s[z + j].k # "data"
  PROVE  Payload(Take(s, z + n)) = Payload(Take(s, z))
<1>0. Len(s) \in Nat /\ Len(s) \in 0 .. Len(s) /\ z \in 0 .. Len(s) /\ z + n \in 0 .. Len(s)
  OBVIOUS
<1>1. PICK g : Collects(g, s, Len(s)) BY <1>0, CollectsExists
<1> DEFINE T == {i \in 0 .. n : g[z + i] # g[z]}
<1>2. T \subseteq Nat OBVIOUS
<1>3. ASSUME T # {} PROVE FALSE
  <2>1. PICK i \in T : \A j \in T : i <= j BY <1>2, <1>3, Smallest
  <2>2. i \in 0 .. n /\ i \in Nat /\ g[z + i] # g[z] BY <2>1
  <2>3. i # 0
    <3>1. z + 0 = z OBVIOUS
    <3> QED BY <2>2, <3>1
  <2>4. /\ i - 1 \in 0 .. n /\ i - 1 < i /\ z + i \in 1 .. Len(s)
        /\ (z + i) - 1 = z + (i - 1) /\ i \in 1 .. n
    BY <1>0, <2>2, <2>3
  <2>5. g[z + (i - 1)] = g[z] BY <2>1, <2>4
  <2>6. g[z + i] = g[z + (i - 1)] BY <1>1, <2>4 DEF Collects
  <2> QED BY <2>2, <2>5, <2>6
<1>4. n \in 0 .. n OBVIOUS
<1>5. g[z + n] = g[z] BY <1>3, <1>4
<1>6. Payload(Take(s, z + n)) = g[z + n] /\ Payload(Take(s, z)) = g[z]
  BY <1>0, <1>1, PayloadTake
<1> QED BY <1>5, <1>6

-----------------------------------------------------------------------------
(***************************************************************************)
(* Where a step may leave the client.                                      *)
(***************************************************************************)
Far == WsStates \cup {"ABORTED", "DISCONNECTED"}

\* What entering a state sets.
LEMMA Enters ==
  ASSUME NEW s, NEW err, Enter(s, err)
  PROVE  /\ curState' = s /\ smExitError' = err /\ subscribedEvent' = EntryEvent(s)
         /\ EntryWB(s)
BY DEF Enter, EnterFor, EnterSM

\* The connection is upgraded or given up.
LEMMA Elsewhere ==
  ASSUME curState' \in Far, smExitError' \notin Final
  PROVE  Answers'
BY DEF Answers, ReadyInv, AskedInv, Asked, UploadInv, Offering, BodyInv, DoneInv, Far, WsStates

\* The connection is given up with an error.
LEMMA GivenUp ==
  ASSUME NEW s \in Far, NEW err, Enter(s, err), err \notin Final
  PROVE  Answers'
BY Enters, Elsewhere

\* No exchange is under way.
LEMMA ReadyAgain ==
  ASSUME \/ curState' = "HTTP_CONNECTED"
         \/ curState' = "SENDING_HEADERS" /\ subscribedEvent' = "WRITE",
         wire' = << >>, owes' = "nothing", DoneInv'
  PROVE  Answers'
BY DEF Answers, ReadyInv, AskedInv, Asked, UploadInv, Offering, BodyInv

\* The client waits for a response, or is about to.
LEMMA AskedAgain ==
  ASSUME Asked', AskedInv', UploadInv', smExitError' \notin Final
  PROVE  Answers'
BY DEF Answers, ReadyInv, Asked, BodyInv, DoneInv

\* The client has data to send.
LEMMA OffersAgain ==
  ASSUME curState' \in {"SENDING_DATA", "SENDING_PACKET"}, httpMethod' \in Uploads,
         serving'.method = httpMethod', owes' = "data", wire' = << >>,
         smExitError' \notin Final
  PROVE  Answers'
BY DEF Answers, ReadyInv, AskedInv, Asked, UploadInv, Offering, BodyInv, DoneInv

\* The client reads the body b.
LEMMA ReadsOn ==
  ASSUME curState' = "RECVING_DATA", owes' = "nothing", resp'.rid = serving'.rid,
         NEW b \in Bodies, NEW z \in 0 .. Len(b), Reading(b, z)', smExitError' \notin Final
  PROVE  Answers'
BY DEF Answers, ReadyInv, AskedInv, Asked, UploadInv, Offering, BodyInv, DoneInv

\* Nothing that is spoken of here changes.
LEMMA AnswersKept ==
  ASSUME Answers, UNCHANGED <<curState, subscribedEvent, smExitError, wire, owes, serving>>,
         UNCHANGED <<httpMethod, resp, got, workingBuffer, left, processed>>,
         UNCHANGED <<inputDataProcessor, IDPArgsRaw, IDPArgsChunked>>
  PROVE  Answers'
<1>1. Source' = Source /\ Stream' = Stream BY DEF Source, Stream, Rest
<1>2. ReadyInv' BY DEF Answers, ReadyInv
<1>3. AskedInv' BY <1>1 DEF Answers, AskedInv, Asked, Coming
<1>4. UploadInv' BY DEF Answers, UploadInv, Offering, HeaderGet, HasHeader
<1>5. BodyInv' BY <1>1 DEF Answers, BodyInv, Reading, RawAt, ChunkedAt
<1>6. DoneInv' BY DEF Answers, DoneInv
<1> QED BY <1>2, <1>3, <1>4, <1>5, <1>6 DEF Answers

-----------------------------------------------------------------------------
(***************************************************************************)
(* Asking.                                                                 *)
(***************************************************************************)

\* A call of the application that reaches the state machine.
LEMMA CallAnswers ==
  ASSUME IndInv, Answers, NEW name \in CallNames \ {NULL}, NEW n \in Nat, Call(name, n)
  PROVE  Answers'
<1>1. /\ pc = "app" /\ UNCHANGED <<wire, owes, serving, httpMethod, resp, got>>
  BY DEF Call, srvVars, histVars
<1>2. curState \in Idle BY <1>1 DEF IndInv, FlowInv
<1>3. CASE name \in Accepts(curState)
  <2>1. /\ curState' = Target(name) /\ smExitError' = "OK"
        /\ subscribedEvent' = EntryEvent(Target(name))
    BY <1>3 DEF Call, EnterFor, EnterSM
  <2>2. smExitError' \notin Final /\ DoneInv' BY <2>1 DEF Final, DoneInv
  <2>3. CASE curState = "HTTP_CONNECTED"
    <3>1. curState' = "SENDING_HEADERS" /\ subscribedEvent' = "WRITE"
      BY <1>3, <2>1, <2>3 DEF Accepts, Target, EntryEvent
    <3>2. wire' = << >> /\ owes' = "nothing" BY <1>1, <2>3 DEF Answers, ReadyInv
    <3> QED BY <2>2, <3>1, <3>2, ReadyAgain
  <2>4. CASE curState = "SENDING_DATA"
    <3>1. curState' = "SENDING_PACKET" BY <1>3, <2>1, <2>4 DEF Accepts, Target
    <3>2. httpMethod \in Uploads /\ serving.method = httpMethod /\ owes = "data" /\ wire = << >>
      BY <2>4 DEF Answers, UploadInv, Offering
    <3> QED BY <1>1, <2>2, <3>1, <3>2, OffersAgain
  <2>5. CASE curState \notin {"HTTP_CONNECTED", "SENDING_DATA"}
    <3>1. curState' \in Far
      BY <1>2, <1>3, <2>1, <2>5 DEF Accepts, Target, Far, WsStates, Idle
    <3> QED BY <2>2, <3>1, Elsewhere
  <2> QED BY <2>3, <2>4, <2>5
<1>4. CASE name \notin Accepts(curState)
  <2>1. UNCHANGED <<curState, subscribedEvent>> /\ smExitError' = Refusal(curState)
    BY <1>4 DEF Call
  <2>2. smExitError' \notin Final /\ DoneInv' BY <2>1 DEF Final, DoneInv, Refusal
  <2>3. CASE curState = "HTTP_CONNECTED"
    <3>1. wire' = << >> /\ owes' = "nothing" BY <1>1, <2>3 DEF Answers, ReadyInv
    <3> QED BY <2>1, <2>2, <2>3, <3>1, ReadyAgain
  <2>4. CASE curState = "SENDING_DATA"
    <3>1. httpMethod \in Uploads /\ serving.method = httpMethod /\ owes = "data" /\ wire = << >>
      BY <2>4 DEF Answers, UploadInv, Offering
    <3> QED BY <1>1, <2>1, <2>2, <2>4, <3>1, OffersAgain
  <2>5. CASE curState \notin {"HTTP_CONNECTED", "SENDING_DATA"}
    <3>1. curState' \in Far BY <1>2, <2>1, <2>5 DEF Far, WsStates, Idle
    <3> QED BY <2>2, <3>1, Elsewhere
  <2> QED BY <2>3, <2>4, <2>5
<1> QED BY <1>3, <1>4

\* The application.
LEMMA ApplicationAnswers ==
  ASSUME IndInv, Answers, Application
  PROVE  Answers'
<1>1. DataSizes \subseteq Nat /\ PollTimeouts \subseteq Nat BY MangoAssumption
<1>2. CASE mango_httpRequestProcess
  BY <1>2, CallAnswers DEF mango_httpRequestProcess, CallNames, NULL
<1>3. CASE mango_httpDataSend
  BY <1>1, <1>3, CallAnswers DEF mango_httpDataSend, CallNames, NULL
<1>4. CASE mango_wsPoll
  BY <1>1, <1>4, CallAnswers DEF mango_wsPoll, CallNames, NULL
<1>5. CASE mango_wsFrameSend
  BY <1>5, CallAnswers DEF mango_wsFrameSend, CallNames, NULL
<1>6. CASE mango_wsClose
  BY <1>6, CallAnswers DEF mango_wsClose, CallNames, NULL
<1>7. CASE mango_httpRequestNew \/ mango_httpHeaderSet
  <2>1. /\ curState = "HTTP_CONNECTED" /\ UNCHANGED <<curState, smExitError>>
        /\ UNCHANGED <<wire, owes, serving, resp, got>>
    BY <1>7 DEF mango_httpRequestNew, mango_httpHeaderSet, Building, smVars, srvVars, histVars
  <2>2. wire = << >> /\ owes = "nothing" BY <2>1 DEF Answers, ReadyInv
  <2>3. DoneInv' BY <2>1 DEF Answers, DoneInv
  <2> QED BY <2>1, <2>2, <2>3, ReadyAgain
<1> QED BY <1>2, <1>3, <1>4, <1>5, <1>6, <1>7 DEF Application

\* A final status is only ever there between requests.
LEMMA NotFinal ==
  ASSUME Answers, curState # "HTTP_CONNECTED"
  PROVE  smExitError \notin Final
BY DEF Answers, DoneInv

\* Timeouts, and what only starts a processor.
LEMMA TimesAnswers ==
  ASSUME IndInv, Answers, Timeout \/ Tick \/ ProcessData \/ SendFrame
  PROVE  Answers'
<1>1. CASE Tick \/ ProcessData
  BY <1>1, AnswersKept DEF Tick, ProcessData, smVars, wbVars, reqVars, srvVars, histVars, dpVars, inVars
<1>2. CASE Timeout \/ SendFrame
  <2>1. curState # "HTTP_CONNECTED" BY <1>2 DEF Timeout, SendFrame, Throws
  <2>2. smExitError \notin Final /\ "RESPTIMEOUT" \notin Final BY <2>1, NotFinal DEF Final
  <2>3. \E s \in Far, err \in {smExitError, "RESPTIMEOUT"} : Enter(s, err)
    BY <1>2 DEF Timeout, SendFrame, Far, WsStates
  <2> QED BY <2>2, <2>3, GivenUp
<1> QED BY <1>1, <1>2

\* The head of the request goes out.
LEMMA SendHeadersAnswers ==
  ASSUME IndInv, Answers, SendHeaders
  PROVE  Answers'
<1>1. /\ curState = "SENDING_HEADERS" /\ subscribedEvent = "WRITE"
      /\ UNCHANGED <<wire, httpMethod>>
  BY DEF SendHeaders, Throws, reqVars
<1>2. wire = << >> /\ owes = "nothing" BY <1>1 DEF Answers, ReadyInv
<1>3. smExitError \notin Final BY <1>1, NotFinal
<1>4. CASE Enter("DISCONNECTED", "CONNECTION") BY <1>4, GivenUp DEF Far, Final
<1>5. CASE ~Enter("DISCONNECTED", "CONNECTION")
  <2>1. /\ UNCHANGED workingBuffer
        /\ \/ Stay("PROCESS") /\ HeadArrives
           \/ Stay("WRITE") /\ UNCHANGED <<owes, serving>>
    BY <1>5 DEF SendHeaders
  <2>2. UNCHANGED <<curState, smExitError>> BY <2>1 DEF Stay
  <2>3. CASE Stay("WRITE") /\ UNCHANGED <<owes, serving>>
    <3>1. subscribedEvent' = "WRITE" BY <2>3 DEF Stay
    <3>2. DoneInv' BY <1>3, <2>2 DEF DoneInv
    <3> QED BY <1>1, <1>2, <2>2, <2>3, <3>1, <3>2, ReadyAgain
  <2>4. CASE Stay("PROCESS") /\ HeadArrives
    <3>1. subscribedEvent' = "PROCESS" BY <2>4 DEF Stay
    <3>2. /\ serving' = [rid |-> requests, method |-> httpMethod]
          /\ owes' = IF httpMethod \in Bodiless \/ HeaderGet("cl") = 0 THEN "reply"
                     ELSE IF HasHeader("expect") THEN "expect" ELSE "data"
      BY <1>2, <2>4 DEF HeadArrives
    <3>3. HeaderGet("cl")' = HeaderGet("cl") /\ HasHeader("expect")' = HasHeader("expect")
      BY <2>1 DEF HeaderGet, HasHeader
    <3>4. serving'.method = httpMethod' BY <1>1, <3>2
    <3>5. Source' = << >> BY <1>1, <1>2, <2>2 DEF Source
    <3>6. /\ owes' \in {"reply", "expect", "data"}
          /\ owes' = "expect" => httpMethod \notin Bodiless
          /\ \/ httpMethod \in Bodiless \/ HeaderGet("cl") = 0 \/ HasHeader("expect")
             \/ owes' = "data"
      BY <3>2
    <3>7. Asked' BY <1>1, <2>2, <3>1 DEF Asked
    <3>8. Coming' BY <3>5, <3>6 DEF Coming
    <3>9. AskedInv' BY <1>1, <3>4, <3>6, <3>8 DEF AskedInv
    <3>10. UploadInv' BY <1>1, <1>2, <2>2, <3>3, <3>6 DEF UploadInv, Offering
    <3> QED BY <1>3, <2>2, <3>7, <3>9, <3>10, AskedAgain
  <2> QED BY <2>1, <2>3, <2>4
<1> QED BY <1>4, <1>5

\* Waiting for the response after the head, or after the data.
LEMMA WaitsForHead ==
  ASSUME Enter("RECVING_HEADERS", smExitError), smExitError \notin Final, wire' \in Seq(Token),
         httpMethod' \in Bodiless \cup Uploads, serving'.method = httpMethod',
         wire' = Source' => Coming', owes' = "expect" => httpMethod' \notin Bodiless
  PROVE  Answers'
<1>1. /\ curState' = "RECVING_HEADERS" /\ smExitError' = smExitError
      /\ subscribedEvent' = "READ" /\ workingBuffer' = << >>
  BY Enters DEF EntryEvent, EntryWB
<1>2. Source' = wire'
  <2>1. << >> \o wire' = wire' OBVIOUS
  <2> QED BY <1>1, <2>1 DEF Source
<1>3. Asked' /\ AskedInv' BY <1>1, <1>2 DEF Asked, AskedInv
<1>4. UploadInv' BY <1>1 DEF UploadInv, Offering
<1> QED BY <1>1, <1>3, <1>4, AskedAgain

\* The head is out: the client reads, or offers the data the server waits for.
LEMMA HeadersSentAnswers ==
  ASSUME IndInv, Answers, HeadersSent
  PROVE  Answers'
<1>1. /\ curState = "SENDING_HEADERS" /\ subscribedEvent = "PROCESS"
      /\ UNCHANGED <<wire, owes, serving, httpMethod>>
  BY DEF HeadersSent, Throws, reqVars, srvVars
<1>2. wire \in Seq(Token) /\ smExitError \notin Final BY <1>1, StreamSeq, NotFinal
<1>3. /\ serving.method = httpMethod /\ Coming /\ Source = wire
      /\ owes = "expect" => httpMethod \notin Bodiless
  BY <1>1 DEF Answers, AskedInv, Asked, Source
<1>4. httpMethod \in Bodiless \cup Uploads BY DEF HeadersSent
<1>5. CASE Enter("RECVING_HEADERS", smExitError)
  <2>1. wire' = Source' => Coming' BY <1>1, <1>3 DEF Coming
  <2> QED BY <1>1, <1>2, <1>3, <1>4, <1>5, <2>1, WaitsForHead
<1>6. CASE Enter("ABORTED", "INVALIDREQHEADERS") BY <1>6, GivenUp DEF Far, Final
<1>7. CASE ~Enter("RECVING_HEADERS", smExitError) /\ ~Enter("ABORTED", "INVALIDREQHEADERS")
  <2>1. httpMethod \in Uploads /\ AttachODP BY <1>7 DEF HeadersSent
  <2>2. Enter("SENDING_DATA", "100") /\ HeaderGet("cl") # 0 /\ ~HasHeader("expect")
    BY <1>7, <2>1 DEF AttachODP, NotFound, Malformed
  <2>3. owes = "data" /\ wire = << >>
    BY <1>1, <2>1, <2>2 DEF Answers, UploadInv, Uploads, Bodiless
  <2>4. curState' = "SENDING_DATA" /\ smExitError' = "100" BY <2>2, Enters
  <2> QED BY <1>1, <1>3, <2>1, <2>3, <2>4, OffersAgain DEF Final
<1> QED BY <1>5, <1>6, <1>7

\* The data go out; with the last of them the server owes its reply.
LEMMA SendPacketAnswers ==
  ASSUME IndInv, Answers, SendPacket
  PROVE  Answers'
<1>1. curState = "SENDING_PACKET" /\ UNCHANGED <<wire, serving, httpMethod>>
  BY DEF SendPacket, Throws, reqVars
<1>2. wire \in Seq(Token) /\ smExitError \notin Final BY <1>1, StreamSeq, NotFinal
<1>3. httpMethod \in Uploads /\ serving.method = httpMethod /\ owes = "data" /\ wire = << >>
  BY <1>1 DEF Answers, UploadInv, Offering
<1>4. CASE ODPDone
  <2>1. Enter("RECVING_HEADERS", smExitError) /\ owes' = "reply" BY <1>3, <1>4 DEF ODPDone
  <2>2. wire' = Source' => Coming' BY <1>1, <1>3, <2>1 DEF Coming
  <2> QED BY <1>1, <1>2, <1>3, <2>1, <2>2, WaitsForHead
<1>5. CASE Enter("SENDING_DATA", smExitError) /\ UNCHANGED owes
  <2>1. curState' = "SENDING_DATA" /\ smExitError' = smExitError BY <1>5, Enters
  <2> QED BY <1>1, <1>2, <1>3, <1>5, <2>1, OffersAgain
<1>6. CASE \/ Enter("ABORTED", "CONTENTLENGTH") \/ Enter("ABORTED", "WRITETIMEOUT")
           \/ Enter("ABORTED", "WORKBUFSMALL")
  BY <1>6, GivenUp DEF Far, Final
<1>7. \/ ODPDone
      \/ Enter("SENDING_DATA", smExitError) /\ UNCHANGED owes
      \/ Enter("ABORTED", "CONTENTLENGTH") \/ Enter("ABORTED", "WRITETIMEOUT")
      \/ Enter("ABORTED", "WORKBUFSMALL")
  <2>1. CASE mangoODP_raw BY <2>1 DEF mangoODP_raw
  <2>2. CASE mangoODP_chunked BY <2>2 DEF mangoODP_chunked
  <2> QED BY <2>1, <2>2 DEF SendPacket
<1> QED BY <1>4, <1>5, <1>6, <1>7

-----------------------------------------------------------------------------
(***************************************************************************)
(* The head of the response.                                               *)
(***************************************************************************)

\* What a head is made of.
LEMMA HeadTokensOf ==
  ASSUME NEW r \in Replies, NEW rid \in Nat
  PROVE  /\ HeadOf(r, rid) \in Seq(Token) /\ Len(HeadOf(r, rid)) = 2
         /\ HeadOf(r, rid)[1] = [k |-> "start"]
         /\ HeadOf(r, rid)[2] = [k |-> "end", reply |-> r, rid |-> rid]
<1>1. [k |-> "start"] \in Token /\ [k |-> "end", reply |-> r, rid |-> rid] \in Token
  BY ServerTokens
<1> QED BY <1>1 DEF HeadOf

\* A body is tokens, and none of them ends a head.
LEMMA BodyTokens ==
  ASSUME NEW b \in Bodies
  PROVE  b \in Seq(Body) /\ b \in Seq(Token) /\ \A j \in 1 .. Len(b) : b[j].k # "end"
<1>1. b \in Seq(Body)
  <2>1. CASE b = << >> BY <2>1
  <2>2. ASSUME NEW r \in Replies PROVE r.body \in Seq(Body)
    <3>1. r \in Reply BY MangoAssumption
    <3> QED BY <3>1 DEF Reply
  <2> QED BY <2>1, <2>2 DEF Bodies
<1>2. b \in Seq(Token) BY <1>1 DEF Token
<1>3. ASSUME NEW t \in Body PROVE t.k # "end" BY DEF Body, Mark, Data, Size
<1> QED BY <1>1, <1>2, <1>3

\* What follows the head is a body.
LEMMA BodyForIn ==
  ASSUME NEW r \in Replies, NEW m
  PROVE  BodyFor(r, m) \in Bodies
BY DEF BodyFor, Bodies

\* Two sequences one behind the other, taken apart at the first n.
LEMMA Front ==
  ASSUME NEW S, NEW s \in Seq(S), NEW t \in Seq(S)
  PROVE  Drop(s \o t, Len(s)) = t
<1>1. Len(s) \in 0 .. Len(s) OBVIOUS
<1>2. Drop(s \o t, Len(s)) = Drop(s, Len(s)) \o t BY <1>1, DropJoined
<1>3. Drop(s, Len(s)) = << >> BY DropAll
<1> QED BY <1>2, <1>3

\* What comes starts with a head, and behind it comes what its status says.
LEMMA ComingHead ==
  ASSUME IndInv, Coming, Source # << >>
  PROVE  \E r \in Replies :
           /\ Len(Source) >= 2 /\ Source[1] = [k |-> "start"]
           /\ Source[2] = [k |-> "end", reply |-> r, rid |-> serving.rid]
           /\ \/ /\ r.status = "100" /\ owes = "data" /\ httpMethod \notin Bodiless
                 /\ Drop(Source, 2) = << >>
              \/ /\ r.status \notin {"100", "101"} /\ owes = "nothing"
                 /\ Drop(Source, 2) = BodyFor(r, httpMethod)
              \/ r.status = "101" /\ owes \in Upgrades
<1>1. serving.rid \in Nat BY DEF IndInv, TypeOK, ServerOK
<1>2. Source \in Seq(Token) /\ Len(Source) \in Nat BY StreamSeq
<1>3. CASE \E r \in Replies : /\ r.status = "100" /\ Source = HeadOf(r, serving.rid)
                              /\ owes = "data" /\ httpMethod \notin Bodiless
  <2>1. PICK r \in Replies : /\ r.status = "100" /\ Source = HeadOf(r, serving.rid)
                             /\ owes = "data" /\ httpMethod \notin Bodiless
    BY <1>3
  <2>2. Len(Source) = 2 BY <1>1, <2>1, HeadTokensOf
  <2>3. Drop(Source, 2) = << >> BY <1>2, <2>2, DropAll
  <2> QED BY <1>1, <2>1, <2>2, <2>3, HeadTokensOf
<1>4. CASE \E r \in Replies : /\ r.status \notin {"100", "101"} /\ owes = "nothing"
                              /\ Source = HeadOf(r, serving.rid) \o BodyFor(r, httpMethod)
  <2>1. PICK r \in Replies : /\ r.status \notin {"100", "101"} /\ owes = "nothing"
                             /\ Source = HeadOf(r, serving.rid) \o BodyFor(r, httpMethod)
    BY <1>4
  <2> DEFINE h == HeadOf(r, serving.rid)
             b == BodyFor(r, httpMethod)
  <2>2. h \in Seq(Token) /\ Len(h) = 2 /\ h[1] = [k |-> "start"]
        /\ h[2] = [k |-> "end", reply |-> r, rid |-> serving.rid]
    BY <1>1, HeadTokensOf
  <2>3. b \in Seq(Token) BY BodyForIn, BodyTokens
  <2>4. Source = h \o b BY <2>1
  <2> HIDE DEF h, b
  <2>5. Len(b) \in Nat BY <2>3
  <2>6. Len(Source) = Len(h) + Len(b) /\ \A j \in 1 .. Len(h) : Source[j] = h[j]
    <3>1. h \in Seq(Token) /\ b \in Seq(Token) BY <2>2, <2>3
    <3>2. Len(h \o b) = Len(h) + Len(b) /\ \A j \in 1 .. Len(h) : (h \o b)[j] = h[j]
      BY <3>1, Joined
    <3> QED BY <2>4, <3>2
  <2>7. 1 \in 1 .. Len(h) /\ 2 \in 1 .. Len(h) BY <2>2
  <2>8. Drop(Source, 2) = b BY <2>2, <2>3, <2>4, Front
  <2> QED BY <2>1, <2>2, <2>5, <2>6, <2>7, <2>8 DEF b
<1>5. CASE \E r \in Replies : /\ r.status = "101" /\ owes \in Upgrades
                              /\ Len(Source) >= 2 /\ Take(Source, 2) = HeadOf(r, serving.rid)
  <2>1. PICK r \in Replies : /\ r.status = "101" /\ owes \in Upgrades
                             /\ Len(Source) >= 2 /\ Take(Source, 2) = HeadOf(r, serving.rid)
    BY <1>5
  <2>2. 2 \in 0 .. Len(Source) /\ 1 \in 1 .. 2 /\ 2 \in 1 .. 2 BY <1>2, <2>1
  <2>3. \A j \in 1 .. 2 : Source[j] = HeadOf(r, serving.rid)[j]
    BY <1>2, <2>1, <2>2, TakeSeq
  <2> QED BY <1>1, <2>1, <2>2, <2>3, HeadTokensOf
<1> QED BY <1>3, <1>4, <1>5 DEF Coming

\* The head is read.
LEMMA ReadHeadersAnswers ==
  ASSUME IndInv, Answers, ReadHeaders
  PROVE  Answers'
<1>1. /\ curState = "RECVING_HEADERS" /\ subscribedEvent = "READ" /\ pc = "loop"
      /\ UNCHANGED <<owes, serving, httpMethod, resp, got, processed>>
      /\ UNCHANGED <<inputDataProcessor, IDPArgsRaw, IDPArgsChunked>>
  BY DEF ReadHeaders, Throws, histVars, dpVars, inVars
<1>2. smExitError \notin Final BY <1>1, NotFinal
<1>3. /\ serving.method = httpMethod /\ Coming /\ httpMethod \in Bodiless \cup Uploads
      /\ owes = "expect" => httpMethod \notin Bodiless
  BY <1>1 DEF Answers, AskedInv, Asked, UploadInv
<1>4. CASE ReadFails BY <1>4, GivenUp DEF ReadFails, Far, Final
<1>5. CASE ReadNothing BY <1>1, <1>5, AnswersKept DEF ReadNothing, Stay, wbVars
<1>6. CASE ~(ReadFails \/ ReadNothing)
  <2> DEFINE s(n) == workingBuffer \o Take(wire, n)
  <2>1. PICK n \in Readable :
          /\ Receive(n)
          /\ \/ /\ HeadEnd(s(n)) = {} /\ Len(s(n)) < WB_TOT
                /\ Stay("READ") /\ UNCHANGED <<left, httpResponseStatusCode>>
             \/ /\ HeadEnd(s(n)) = {} /\ Len(s(n)) = WB_TOT
                /\ Refuse("WORKBUFSMALL")
             \/ /\ HeadEnd(s(n)) # {} /\ ~HeadValid(s(n))
                /\ Refuse("RESPFORMAT")
             \/ /\ HeadEnd(s(n)) # {} /\ HeadValid(s(n))
                /\ httpResponseStatusCode' = s(n)[HeadLen(s(n))].reply.status
                /\ left' = HeadLen(s(n))
                /\ Stay("PROCESS")
    BY <1>6 DEF ReadHeaders
  <2>2. n \in 0 .. Len(wire)
    <3>1. Len(wire) \in Nat /\ FreeSz \in Int BY <1>1, StreamSeq, InLoop DEF FreeSz
    <3> QED BY <3>1 DEF Readable, MinOf
  <2>3. CASE Refuse("WORKBUFSMALL") \/ Refuse("RESPFORMAT")
    BY <2>3, Elsewhere DEF Refuse, EnterSM, Far, Final
  <2>4. CASE Stay("READ") \/ (HeadEnd(s(n)) # {} /\ left' = HeadLen(s(n)) /\ Stay("PROCESS"))
    <3> DEFINE a == Take(wire, n)
               d == Drop(wire, n)
    <3>1. wire \in Seq(Token) /\ workingBuffer \in Seq(Token) /\ n \in Nat BY <2>2, StreamSeq
    <3>2. a \in Seq(Token) BY <2>2, <3>1, TakeSeq
    <3>3. d \in Seq(Token) BY <3>1, DropSeq
    <3>4. a \o d = wire BY <2>2, <3>1, TakeDrop
    <3>5. workingBuffer' = workingBuffer \o a /\ wire' = d /\ s(n) = workingBuffer \o a
      BY <2>1 DEF Receive
    <3>6. UNCHANGED <<curState, smExitError>> BY <2>4 DEF Stay
    <3> HIDE DEF a, d, s
    <3>7. (workingBuffer \o a) \o d = workingBuffer \o (a \o d) BY <3>1, <3>2, <3>3, JoinTokens, ZenonT(60)
    <3>8. Source' = Source BY <1>1, <3>4, <3>5, <3>6, <3>7 DEF Source
    <3>9. Asked' /\ AskedInv' BY <1>1, <1>3, <3>6, <3>8 DEF Asked, AskedInv, Coming
    <3>10. ASSUME HeadEnd(s(n)) # {} PROVE HeadLen(s(n)) = 2
      <4> DEFINE t == workingBuffer \o a
      <4>0. t = s(n) BY <3>5
      <4>1. t \in Seq(Token) /\ Len(t) \in Nat BY <3>1, <3>2, Joined
      <4>2. Source = t \o d BY <1>1, <3>4, <3>7 DEF Source
      <4> HIDE DEF t
      <4>3. Len(Source) = Len(t) + Len(d) /\ \A j \in 1 .. Len(t) : Source[j] = t[j]
        BY <3>3, <4>1, <4>2, Joined
      <4>4. HeadLen(t) \in 1 .. Len(t) /\ t[HeadLen(t)].k = "end"
        BY <3>10, <4>0, <4>1, HeadLenIn
      <4>5. Source # << >>
        <5>1. Len(Source) > 0
          <6>1. Len(d) \in Nat BY <3>3
          <6> QED BY <4>1, <4>3, <4>4, <6>1
        <5> QED BY <5>1
      <4>6. Source[1].k = "start" /\ Source[2].k = "end"
        <5>1. PICK r \in Replies :
                /\ Source[1] = [k |-> "start"]
                /\ Source[2] = [k |-> "end", reply |-> r, rid |-> serving.rid]
          BY <1>3, <4>5, ComingHead
        <5> QED BY <5>1
      <4>7. HeadLen(t) # 1 BY <4>3, <4>4, <4>6
      <4>8. 2 \in 1 .. Len(t) BY <4>1, <4>4, <4>7
      <4>9. 2 \in HeadEnd(t) BY <4>3, <4>6, <4>8 DEF HeadEnd
      <4>10. \E j \in HeadEnd(t) : \A h \in HeadEnd(t) : j <= h
        <5>1. HeadEnd(t) \subseteq Nat BY DEF HeadEnd
        <5> QED BY <4>9, <5>1, Smallest
      <4>11. HeadLen(t) <= 2 BY <4>9, <4>10 DEF HeadLen
      <4> QED BY <4>0, <4>1, <4>4, <4>7, <4>11
    <3>11. subscribedEvent' = "PROCESS" => left' = 2 BY <2>4, <3>10 DEF Stay
    <3>12. UploadInv' BY <1>1, <1>3, <3>6, <3>11 DEF UploadInv, Offering
    <3> QED BY <1>2, <3>6, <3>9, <3>12, AskedAgain
  <2> QED BY <2>1, <2>3, <2>4
<1> QED BY <1>4, <1>5, <1>6

\* The client starts with a body at its first token.
LEMMA BodyStarts ==
  ASSUME IndInv, smExitError \notin Final, processed' = 0, Enter("RECVING_DATA", smExitError),
         owes' = "nothing", resp'.rid = serving'.rid, wire' = wire,
         NEW b \in Bodies, Rest' \o wire = b, resp'.want = Payload(b), got' = << >>,
         \/ inputDataProcessor' = "raw" /\ RawAt(b, 0)'
         \/ inputDataProcessor' = "chunked" /\ ChunkedAt(b, 0)'
  PROVE  Answers'
<1>1. curState' = "RECVING_DATA" /\ smExitError' = smExitError BY Enters
<1>2. b \in Seq(Body) /\ Len(b) \in Nat BY BodyTokens
<1>3. 0 \in 0 .. Len(b) BY <1>2
<1>4. Drop(b, 0) = b BY <1>2, DropAll
<1>5. Payload(Take(b, 0)) = << >> BY <1>2, PayloadAll
<1>6. Reading(b, 0)' BY <1>3, <1>4, <1>5 DEF Reading, Stream
<1> QED BY <1>1, <1>3, <1>6, ReadsOn

\* There are no data in nothing.
LEMMA PayloadNone == Payload(<< >>) = << >>
<1>1. << >> \in Seq(Body) /\ Len(<< >>) = 0 OBVIOUS
<1> QED BY <1>1, PayloadAll

\* How the body is framed is what the head says of it.
LEMMA FramesBody ==
  ASSUME NEW r \in Replies, Proper(r), r.status \notin {"100", "101"},
         processed' = 0, processed = 0,
         \/ Parsed.cl # NotFound /\ FrameByLength(Parsed)
         \/ Parsed.cl = NotFound /\ Parsed.te # NotFound /\ FrameByChunks(Parsed)
         \/ Parsed.cl = NotFound /\ Parsed.te = NotFound /\ FrameByStatus(Parsed),
         Parsed = r, NEW b, b = BodyFor(r, httpMethod)
  PROVE  \/ \E err \in {"TEMPBUFSMALL", "RESPFORMAT"} : Enter("ABORTED", err)
         \/ httpMethod = "HEAD" /\ Enter("HTTP_CONNECTED", httpResponseStatusCode)
         \/ /\ Enter("RECVING_DATA", smExitError)
            /\ \/ inputDataProcessor' = "raw" /\ RawAt(b, 0)'
               \/ inputDataProcessor' = "chunked" /\ ChunkedAt(b, 0)'
<1>0. r.cl \in Int /\ r.te \in {NotFound, Present, TooLong} /\ r.icy \in BOOLEAN /\ Len(<< >>) = 0
  BY MangoAssumption DEF Reply
<1>1. ASSUME NEW n \in Nat, Raw(n), AllData(b), Len(b) <= n
      PROVE  inputDataProcessor' = "raw" /\ RawAt(b, 0)'
  BY <1>1 DEF Raw, RawAt
<1>2. AllData(<< >>) BY DEF AllData
<1>3. CASE Parsed.cl # NotFound /\ FrameByLength(Parsed)
  <2>1. CASE r.cl >= 0 /\ httpMethod # "HEAD" /\ Raw(r.cl) /\ Enter("RECVING_DATA", smExitError)
    <3>1. b = r.body /\ AllData(b) /\ Len(b) <= r.cl /\ r.cl \in Nat
      BY <1>0, <2>1 DEF Proper, BodyFor
    <3> QED BY <1>1, <2>1, <3>1
  <2> QED BY <1>3, <2>1 DEF FrameByLength
<1>4. CASE Parsed.cl = NotFound /\ Parsed.te # NotFound /\ FrameByChunks(Parsed)
  <2>1. CASE r.te # TooLong /\ httpMethod # "HEAD" /\ Chunked /\ Enter("RECVING_DATA", smExitError)
    <3>1. b = r.body /\ ChunkedBody(b) BY <1>0, <1>4, <2>1 DEF Proper, BodyFor
    <3>2. IDPArgsChunked' = [state |-> 1, sz |-> 0, done |-> 0] /\ inputDataProcessor' = "chunked"
      BY <2>1 DEF Chunked
    <3>3. SizeAt(b, 0 + 1) BY <3>1 DEF ChunkedBody
    <3>4. ChunkedAt(b, 0)' BY <3>1, <3>2, <3>3 DEF ChunkedAt
    <3> QED BY <2>1, <3>2, <3>4
  <2> QED BY <1>4, <2>1 DEF FrameByChunks
<1>5. CASE Parsed.cl = NotFound /\ Parsed.te = NotFound /\ FrameByStatus(Parsed)
  <2>1. CASE r.status = "200" /\ r.icy /\ Raw(Infinite) /\ Enter("RECVING_DATA", smExitError)
    <3>1. AllData(r.body) /\ Len(r.body) <= Infinite BY <1>5, <2>1 DEF Proper
    <3>2. AllData(b) /\ Len(b) <= Infinite /\ Infinite \in Nat
      BY <1>0, <1>2, <3>1 DEF BodyFor, Infinite
    <3> QED BY <1>1, <2>1, <3>2
  <2>2. CASE ~(r.status = "200" /\ r.icy) /\ Raw(0) /\ Enter("RECVING_DATA", smExitError)
    <3>1. r.body = << >> BY <1>5, <2>2 DEF Proper
    <3>2. AllData(b) /\ Len(b) <= 0 BY <1>0, <1>2, <3>1 DEF BodyFor
    <3> QED BY <1>1, <2>2, <3>2
  <2> QED BY <1>5, <2>1, <2>2 DEF FrameByStatus
<1> QED BY <1>3, <1>4, <1>5

\* The head is handed over, and what follows is what its status says.
LEMMA ProcessResponseAnswers ==
  ASSUME IndInv, WellBehaved, Answers, ProcessResponse
  PROVE  Answers'
<1>1. /\ curState = "RECVING_HEADERS" /\ subscribedEvent = "PROCESS" /\ pc = "loop"
      /\ UNCHANGED <<wire, owes, serving, httpMethod, processed>> /\ got' = << >>
      /\ resp' = [status |-> Parsed.status, rid |-> workingBuffer[left].rid,
                  want |-> IF httpMethod = "HEAD" THEN << >> ELSE Payload(Parsed.body)]
      /\ \/ Parsed.cl # NotFound /\ FrameByLength(Parsed)
         \/ Parsed.cl = NotFound /\ Parsed.te # NotFound /\ FrameByChunks(Parsed)
         \/ Parsed.cl = NotFound /\ Parsed.te = NotFound /\ FrameByStatus(Parsed)
  BY DEF ProcessResponse, Throws, srvVars, reqVars
<1>2. smExitError \notin Final /\ processed = 0 /\ processed' = 0 BY <1>1, NotFinal, InLoop
<1>3. /\ serving.method = httpMethod /\ Coming /\ left = 2
      /\ httpMethod \in Bodiless \cup Uploads
  BY <1>1 DEF Answers, AskedInv, Asked, UploadInv
<1>4. /\ workingBuffer \in Seq(Token) /\ wire \in Seq(Token) /\ Len(wire) \in Nat
      /\ 2 \in 0 .. Len(workingBuffer) /\ Len(workingBuffer) \in Nat
  BY <1>3, StreamSeq DEF IndInv, TypeOK, BufferOK
<1>5. Source = workingBuffer \o wire BY <1>1 DEF Source
<1>6. /\ Len(Source) = Len(workingBuffer) + Len(wire) /\ Source[2] = workingBuffer[2]
      /\ Drop(Source, 2) = Drop(workingBuffer, 2) \o wire
  <2>1. 2 \in 1 .. Len(workingBuffer) BY <1>4
  <2>2. /\ Len(workingBuffer \o wire) = Len(workingBuffer) + Len(wire)
        /\ \A j \in 1 .. Len(workingBuffer) : (workingBuffer \o wire)[j] = workingBuffer[j]
    BY <1>4, Joined
  <2>3. Drop(workingBuffer \o wire, 2) = Drop(workingBuffer, 2) \o wire
    BY <1>4, DropJoined
  <2> QED BY <1>5, <2>1, <2>2, <2>3
<1>7. Source # << >>
  <2>1. Len(Source) > 0 BY <1>4, <1>6
  <2> QED BY <2>1
<1>8. PICK r \in Replies :
        /\ Source[2] = [k |-> "end", reply |-> r, rid |-> serving.rid]
        /\ \/ /\ r.status = "100" /\ owes = "data" /\ httpMethod \notin Bodiless
              /\ Drop(Source, 2) = << >>
           \/ /\ r.status \notin {"100", "101"} /\ owes = "nothing"
              /\ Drop(Source, 2) = BodyFor(r, httpMethod)
           \/ r.status = "101" /\ owes \in Upgrades
  BY <1>3, <1>7, ComingHead
<1>9. Parsed = r /\ workingBuffer[left].rid = serving.rid BY <1>3, <1>6, <1>8 DEF Parsed
<1>10. Proper(r) BY DEF WellBehaved
<1> DEFINE d == Drop(workingBuffer, 2)
<1>11. d \in Seq(Token) /\ Len(d) \in Nat BY <1>4, DropSeq
<1>12. ASSUME Drop(Source, 2) = << >> PROVE wire = << >>
  <2>1. d \o wire = << >> BY <1>6, <1>12
  <2> HIDE DEF d
  <2>2. Len(d \o wire) = Len(d) + Len(wire) BY <1>4, <1>11, Joined
  <2>3. Len(<< >>) = 0 OBVIOUS
  <2>4. Len(wire) = 0 BY <1>4, <1>11, <2>1, <2>2, <2>3
  <2> QED BY <1>4, <2>4, EmptySeq
<1>13. CASE r.status = "100"
  <2>1. FrameByStatus(r) BY <1>1, <1>9, <1>10, <1>13 DEF Proper
  <2>2. httpMethod \in Uploads /\ owes = "data" /\ wire = << >> BY <1>3, <1>8, <1>12, <1>13
  <2>3. Enter("SENDING_DATA", "100") BY <1>13, <2>1, <2>2 DEF FrameByStatus
  <2>4. curState' = "SENDING_DATA" /\ smExitError' = "100" BY <2>3, Enters
  <2> QED BY <1>1, <1>3, <2>2, <2>4, OffersAgain DEF Final
<1>14. CASE r.status = "101"
  <2>1. FrameByStatus(r) BY <1>1, <1>9, <1>10, <1>14 DEF Proper
  <2>2. Enter("WS_CONNECTED", "101") BY <1>14, <2>1 DEF FrameByStatus
  <2> QED BY <2>2, GivenUp DEF Far, WsStates, Final
<1>15. CASE r.status \notin {"100", "101"}
  <2>a. PICK b : b = BodyFor(r, httpMethod) OBVIOUS
  <2>0. b \in Bodies BY <2>a, BodyForIn
  <2>1. owes = "nothing" /\ Drop(Source, 2) = b BY <1>8, <1>15, <2>a
  <2>2. resp'.rid = serving'.rid /\ resp'.want = Payload(b)
    <3>1. b = IF httpMethod = "HEAD" THEN << >> ELSE r.body BY <2>a DEF BodyFor
    <3>2. resp'.rid = serving.rid
          /\ resp'.want = IF httpMethod = "HEAD" THEN << >> ELSE Payload(r.body)
      BY <1>1, <1>9
    <3> QED BY <1>1, <3>1, <3>2, PayloadNone
  <2>3. \/ \E err \in {"TEMPBUFSMALL", "RESPFORMAT"} : Enter("ABORTED", err)
        \/ httpMethod = "HEAD" /\ Enter("HTTP_CONNECTED", httpResponseStatusCode)
        \/ /\ Enter("RECVING_DATA", smExitError)
           /\ \/ inputDataProcessor' = "raw" /\ RawAt(b, 0)'
              \/ inputDataProcessor' = "chunked" /\ ChunkedAt(b, 0)'
    BY <1>1, <1>2, <1>9, <1>10, <1>15, <2>a, FramesBody
  <2>4. CASE \E err \in {"TEMPBUFSMALL", "RESPFORMAT"} : Enter("ABORTED", err)
    BY <2>4, GivenUp DEF Far, Final
  <2>5. CASE httpMethod = "HEAD" /\ Enter("HTTP_CONNECTED", httpResponseStatusCode)
    <3>1. b = << >> BY <2>5, <2>a DEF BodyFor
    <3>2. wire = << >> BY <1>12, <2>1, <3>1
    <3>3. curState' = "HTTP_CONNECTED" BY <2>5, Enters
    <3>4. got' = resp'.want BY <1>1, <2>2, <3>1, PayloadNone
    <3>5. DoneInv' BY <2>2, <3>3, <3>4 DEF DoneInv
    <3> QED BY <1>1, <2>1, <3>2, <3>3, <3>5, ReadyAgain
  <2>6. CASE /\ Enter("RECVING_DATA", smExitError)
             /\ \/ inputDataProcessor' = "raw" /\ RawAt(b, 0)'
                \/ inputDataProcessor' = "chunked" /\ ChunkedAt(b, 0)'
    <3>1. workingBuffer' = d /\ left' = 0 BY <1>3, <2>6, Enters DEF EntryWB, Shrink
    <3>2. Rest' = Drop(d, 0) BY <1>2, <3>1 DEF Rest
    <3>3. Rest' = d BY <1>11, <3>2, DropAll
    <3>4. Rest' \o wire = b BY <1>6, <2>1, <3>3
    <3> QED BY <1>1, <1>2, <2>0, <2>1, <2>2, <2>6, <3>4, BodyStarts
  <2> QED BY <2>3, <2>4, <2>5, <2>6
<1> QED BY <1>13, <1>14, <1>15

-----------------------------------------------------------------------------
(***************************************************************************)
(* The server.                                                             *)
(***************************************************************************)

\* A server that has something to say has been asked.
LEMMA WhoAsked ==
  ASSUME IndInv, Answers, owes \notin {"nothing", "data"}
  PROVE  Asked \/ curState \in Far
<1>1. curState \in CStates BY DEF IndInv, TypeOK, ControlOK
<1>2. curState = "SENDING_HEADERS" => subscribedEvent \in {"WRITE", "PROCESS"}
  BY DEF IndInv, FlowInv, Handled, Idle
<1> QED BY <1>1, <1>2 DEF CStates, Answers, ReadyInv, UploadInv, BodyInv, Offering, Asked,
           Far, WsStates

\* What the server sends comes behind what is coming.
LEMMA ServedAnswers ==
  ASSUME IndInv, Answers, owes \notin {"nothing", "data"},
         UNCHANGED <<curState, subscribedEvent, smExitError, serving, httpMethod>>,
         UNCHANGED <<workingBuffer, left, processed>>,
         Asked => Coming' /\ (owes' = "expect" => httpMethod \notin Bodiless)
  PROVE  Answers'
<1>1. CASE curState \in Far
  <2>1. smExitError \notin Final BY <1>1, NotFinal DEF Far, WsStates
  <2> QED BY <1>1, <2>1, Elsewhere
<1>2. CASE Asked
  <2>1. smExitError \notin Final BY <1>2, NotFinal DEF Asked
  <2>2. Asked' /\ AskedInv' BY <1>2 DEF Asked, Answers, AskedInv
  <2>3. HeaderGet("cl")' = HeaderGet("cl") /\ HasHeader("expect")' = HasHeader("expect")
    BY DEF HeaderGet, HasHeader
  <2>4. UploadInv' BY <1>2, <2>3 DEF Asked, Answers, UploadInv, Offering
  <2> QED BY <2>1, <2>2, <2>4, AskedAgain
<1> QED BY <1>1, <1>2, WhoAsked

\* The response to a request that is waited for is all that comes.
LEMMA AnswerComes ==
  ASSUME IndInv, Answers, Asked, owes \in {"reply", "expect"}, NEW r \in Replies, Answer(r),
         UNCHANGED <<curState, workingBuffer, left, processed>>
  PROVE  Source' = HeadOf(r, serving.rid) \o BodyFor(r, httpMethod)
<1> DEFINE h == HeadOf(r, serving.rid)
           b == BodyFor(r, httpMethod)
<1>1. serving.method = httpMethod /\ Coming BY DEF Answers, AskedInv
<1>2. Source = << >> BY <1>1 DEF Coming, Upgrades
<1>3. wire' = wire \o h \o b BY <1>1 DEF Answer, HeadOf, BodyFor
<1>4. serving.rid \in Nat BY DEF IndInv, TypeOK, ServerOK
<1>5. h \in Seq(Token) BY <1>4, HeadTokensOf
<1>6. b \in Seq(Token) BY BodyForIn, BodyTokens
<1>7. wire \in Seq(Token) BY StreamSeq
<1> HIDE DEF h, b
<1>8. h \o b \in Seq(Token) BY <1>5, <1>6, Joined
<1>9. (wire \o h) \o b = wire \o (h \o b) BY <1>5, <1>6, <1>7, JoinTokens, Zenon
<1>10. Source' = Source \o (h \o b) BY <1>3, <1>8, <1>9, ServerAppends
<1>11. Source' = h \o b BY <1>2, <1>8, <1>10
<1> QED BY <1>11 DEF h, b

\* The server's steps.
LEMMA ServerAnswers ==
  ASSUME IndInv, WellBehaved, Answers, Server
  PROVE  Answers'
<1>1. /\ UNCHANGED <<curState, subscribedEvent, smExitError, serving, httpMethod>>
      /\ UNCHANGED <<workingBuffer, left, processed>>
  BY DEF Server, ServerReply, ServerContinue, ServerFrame, smVars, wbVars, reqVars
<1>0. serving.rid \in Nat BY DEF IndInv, TypeOK, ServerOK
<1>2. CASE ServerReply
  <2>1. PICK r \in Replies : /\ r.status # "100" /\ Answer(r)
                             /\ owes' = IF r.status = "101" THEN "frames" ELSE "nothing"
    BY <1>2 DEF ServerReply
  <2>2. owes \in {"reply", "expect"} BY <1>2 DEF ServerReply
  <2>3. ASSUME Asked PROVE Coming'
    <3> DEFINE h == HeadOf(r, serving.rid)
               b == BodyFor(r, httpMethod)
    <3>1. Source' = h \o b BY <1>1, <2>1, <2>2, <2>3, AnswerComes
    <3>2. CASE r.status # "101" BY <1>1, <2>1, <3>1, <3>2 DEF Coming
    <3>3. CASE r.status = "101"
      <4>1. h \in Seq(Token) /\ Len(h) = 2 BY <1>0, HeadTokensOf
      <4>2. b \in Seq(Token) BY BodyForIn, BodyTokens
      <4> HIDE DEF h, b
      <4>3. /\ h \o b \in Seq(Token) /\ Len(h \o b) = Len(h) + Len(b) /\ Len(b) \in Nat
            /\ \A j \in 1 .. Len(h) : (h \o b)[j] = h[j]
        <5>1. h \in Seq(Token) BY <4>1
        <5> QED BY <4>2, <5>1, Joined
      <4>4. 2 \in 0 .. Len(h \o b) /\ Len(h \o b) >= 2 BY <4>1, <4>3
      <4>5. h \o b \in Seq(Token) BY <4>3
      <4>6. /\ Take(h \o b, 2) \in Seq(Token) /\ Len(Take(h \o b, 2)) = 2
            /\ \A j \in 1 .. 2 : Take(h \o b, 2)[j] = (h \o b)[j]
        BY <4>4, <4>5, TakeSeq
      <4>7. \A j \in 1 .. 2 : Take(h \o b, 2)[j] = h[j] BY <4>1, <4>3, <4>6
      <4>8. Take(h \o b, 2) = h BY <4>1, <4>6, <4>7, SeqEqual
      <4>9. Take(Source', 2) = HeadOf(r, serving'.rid) /\ Len(Source') >= 2
        BY <1>1, <3>1, <4>4, <4>8 DEF h
      <4>10. owes' \in Upgrades BY <2>1, <3>3 DEF Upgrades
      <4> QED BY <3>3, <4>9, <4>10 DEF Coming
    <3> QED BY <3>2, <3>3
  <2>4. owes' # "expect" BY <2>1
  <2> QED BY <1>1, <2>2, <2>3, <2>4, ServedAnswers
<1>3. CASE ServerContinue
  <2>1. PICK r \in Replies : r.status = "100" /\ Answer(r) BY <1>3 DEF ServerContinue
  <2>2. owes = "expect" /\ owes' = "data" BY <1>3 DEF ServerContinue, WellBehaved
  <2>3. ASSUME Asked PROVE Coming'
    <3>1. Source' = HeadOf(r, serving.rid) \o BodyFor(r, httpMethod)
      BY <1>1, <2>1, <2>2, <2>3, AnswerComes
    <3>2. r.body = << >> BY <2>1 DEF WellBehaved, Proper
    <3>3. BodyFor(r, httpMethod) = << >> BY <3>2 DEF BodyFor
    <3>4. HeadOf(r, serving.rid) \in Seq(Token) BY <1>0, HeadTokensOf
    <3>5. HeadOf(r, serving.rid) \o << >> = HeadOf(r, serving.rid) BY <3>4
    <3>6. Source' = HeadOf(r, serving'.rid) BY <1>1, <3>1, <3>3, <3>5
    <3>7. httpMethod' \notin Bodiless BY <1>1, <2>2, <2>3 DEF Answers, AskedInv
    <3> QED BY <2>1, <2>2, <3>6, <3>7 DEF Coming
  <2> QED BY <1>1, <2>2, <2>3, ServedAnswers
<1>4. CASE ServerFrame
  <2>1. PICK f \in Frames :
         LET size == CASE f.form = "short" -> << >>
                       [] f.form = "ext" -> <<[k |-> "fx", n |-> f.n]>>
                       [] f.form = "huge" -> <<[k |-> "fx", n |-> Infinite]>>
             payload == [j \in 1 .. f.n |-> [k |-> "data", v |-> msg.no]]
         IN /\ wire' = wire \o <<[k |-> "f1", op |-> f.op, fin |-> f.fin],
                                 [k |-> "f2", mask |-> f.mask,
                                  n |-> IF f.form = "short" THEN f.n ELSE -1]>>
                            \o size \o payload
            /\ owes' = IF f.op = "close" THEN "closed" ELSE owes
    BY <1>4 DEF ServerFrame
  <2> DEFINE u == (HeadTokens(f) \o SizeTokens(f)) \o PayloadTokens(f, msg.no)
  <2>2. wire' = wire \o HeadTokens(f) \o SizeTokens(f) \o PayloadTokens(f, msg.no)
    BY <2>1 DEF HeadTokens, SizeTokens, PayloadTokens
  <2>3. f \in Frame /\ msg.no \in Nat /\ wire \in Seq(Token)
    BY MangoAssumption DEF IndInv, TypeOK, ServerOK
  <2>4. u \in Seq(Token) /\ wire' = wire \o u BY <2>2, <2>3, FrameSent DEF Written
  <2> HIDE DEF u
  <2>5. owes = "frames" /\ owes' \in Upgrades BY <1>4, <2>1 DEF ServerFrame, Upgrades
  <2>6. ASSUME Asked PROVE Coming'
    <3>1. PICK r \in Replies : /\ r.status = "101" /\ Len(Source) >= 2
                               /\ Take(Source, 2) = HeadOf(r, serving.rid)
      BY <2>5, <2>6 DEF Answers, AskedInv, Coming
    <3>2. Source' = Source \o u BY <1>1, <2>4, ServerAppends
    <3>3. Source \in Seq(Token) /\ Len(Source) \in Nat BY StreamSeq
    <3>4. /\ Source' \in Seq(Token) /\ Len(Source') = Len(Source) + Len(u)
          /\ \A j \in 1 .. Len(Source) : Source'[j] = Source[j]
      <4>1. u \in Seq(Token) BY <2>4
      <4>2. /\ Source \o u \in Seq(Token) /\ Len(Source \o u) = Len(Source) + Len(u)
            /\ \A j \in 1 .. Len(Source) : (Source \o u)[j] = Source[j]
        BY <3>3, <4>1, Joined
      <4> QED BY <3>2, <4>2
    <3>5. Len(u) \in Nat BY <2>4
    <3>6. 2 \in 0 .. Len(Source) /\ 2 \in 0 .. Len(Source') /\ Len(Source') >= 2
      BY <3>1, <3>3, <3>4, <3>5
    <3>7. /\ Take(Source, 2) \in Seq(Token) /\ Len(Take(Source, 2)) = 2
          /\ \A j \in 1 .. 2 : Take(Source, 2)[j] = Source[j]
      BY <3>3, <3>6, TakeSeq
    <3>8. /\ Take(Source', 2) \in Seq(Token) /\ Len(Take(Source', 2)) = 2
          /\ \A j \in 1 .. 2 : Take(Source', 2)[j] = Source'[j]
      BY <3>4, <3>6, TakeSeq
    <3>9. \A j \in 1 .. 2 : Take(Source', 2)[j] = Take(Source, 2)[j]
      BY <3>3, <3>4, <3>6, <3>7, <3>8
    <3>10. Take(Source', 2) = Take(Source, 2) BY <3>7, <3>8, <3>9, SeqEqual
    <3> QED BY <1>1, <2>5, <3>1, <3>6, <3>10 DEF Coming
  <2>7. owes' # "expect" BY <2>5 DEF Upgrades
  <2> QED BY <1>1, <2>5, <2>6, <2>7, ServedAnswers, SMTT(60)
<1> QED BY <1>2, <1>3, <1>4 DEF Server

-----------------------------------------------------------------------------
(***************************************************************************)
(* The body.                                                               *)
(***************************************************************************)

\* The body under way goes on, z tokens of it behind.
LEMMA BodyKept ==
  ASSUME Answers, curState = "RECVING_DATA", UNCHANGED <<curState, smExitError>>,
         UNCHANGED <<owes, serving, resp>>,
         NEW b \in Bodies, NEW z \in 0 .. Len(b), Reading(b, z)'
  PROVE  Answers'
<1>1. owes = "nothing" /\ resp.rid = serving.rid BY DEF Answers, BodyInv
<1>2. smExitError \notin Final BY NotFinal
<1> QED BY <1>1, <1>2, ReadsOn

\* The data are read.
LEMMA ReadDataAnswers ==
  ASSUME IndInv, Answers, ReadData
  PROVE  Answers'
<1>1. /\ curState \in {"RECVING_DATA", "WS_POLLING"} /\ subscribedEvent = "READ" /\ pc = "loop"
      /\ UNCHANGED <<owes, serving, httpMethod, resp, got, processed>>
      /\ UNCHANGED <<inputDataProcessor, IDPArgsRaw, IDPArgsChunked>>
  BY DEF ReadData, Throws, histVars, dpVars, inVars
<1>2. smExitError \notin Final BY <1>1, NotFinal
<1>4. CASE ReadFails BY <1>4, GivenUp DEF ReadFails, Far, Final
<1>5. CASE ReadNothing BY <1>1, <1>5, AnswersKept DEF ReadNothing, Stay, wbVars
<1>6. CASE ~(ReadFails \/ ReadNothing)
  <2>1. PICK n \in Readable : Receive(n) /\ UNCHANGED <<curState, smExitError, left>>
    BY <1>6 DEF ReadData
  <2>2. n \in 0 .. Len(wire)
    <3>1. Len(wire) \in Nat /\ FreeSz \in Int BY <1>1, StreamSeq, InLoop DEF FreeSz
    <3> QED BY <3>1 DEF Readable, MinOf
  <2>3. Stream' = Stream BY <1>1, <2>1, <2>2, ReceiveStream
  <2>4. CASE curState = "WS_POLLING"
    <3>1. curState' \in Far /\ smExitError' \notin Final BY <1>2, <2>1, <2>4 DEF Far, WsStates
    <3> QED BY <3>1, Elsewhere
  <2>5. CASE curState = "RECVING_DATA"
    <3>0. PICK b \in Bodies : \E z \in 0 .. Len(b) : Reading(b, z)
      BY <2>5 DEF Answers, BodyInv
    <3>1. PICK z \in 0 .. Len(b) : Reading(b, z) BY <3>0
    <3>2. Reading(b, z)' BY <1>1, <2>3, <3>1 DEF Reading, RawAt, ChunkedAt
    <3> QED BY <1>1, <2>1, <2>5, <3>2, BodyKept
  <2> QED BY <1>1, <2>4, <2>5
<1> QED BY <1>4, <1>5, <1>6

\* What a processor looks at is the body from z on.
LEMMA RestOf ==
  ASSUME IndInv, NEW b \in Bodies, NEW z \in 0 .. Len(b), Reading(b, z)
  PROVE  /\ b \in Seq(Body) /\ Len(b) \in Nat /\ z \in Nat
         /\ Len(Rest) \in Nat /\ Len(wire) \in Nat
         /\ z + Len(Rest) + Len(wire) = Len(b) /\ z + Len(Rest) <= Len(b)
         /\ \A j \in 1 .. Len(Rest) : Rest[j] = b[z + j]
         /\ z + Len(Rest) = Len(b) => wire = << >>
         /\ \A n \in 0 .. Len(Rest) :
              /\ z + n \in 0 .. Len(b) /\ Drop(Stream, n) = Drop(b, z + n)
              /\ Take(Drop(b, z), n) = Take(Rest, n)
<1>0. b \in Seq(Body) /\ b \in Seq(Token) /\ Len(b) \in Nat BY BodyTokens
<1>1. z \in Nat /\ z <= Len(b) BY <1>0
<1>2. /\ Rest \in Seq(Token) /\ wire \in Seq(Token) /\ Len(Rest) \in Nat /\ Len(wire) \in Nat
      /\ Stream \in Seq(Token)
  BY StreamSeq, RestSeq
<1> DEFINE d == Drop(b, z)
<1>3. d \in Seq(Token) /\ Len(d) = Len(b) - z /\ \A j \in 1 .. Len(d) : d[j] = b[z + j]
  BY <1>0, <1>1, DropSeq
<1>4. d = Rest \o wire /\ Stream = d BY DEF Reading, Stream
<1> HIDE DEF d
<1>5. /\ Len(Rest \o wire) = Len(Rest) + Len(wire)
      /\ \A j \in 1 .. Len(Rest) : (Rest \o wire)[j] = Rest[j]
  <2>1. Rest \in Seq(Token) /\ wire \in Seq(Token) BY <1>2
  <2> QED BY <2>1, Joined
<1>6. Len(d) = Len(Rest) + Len(wire) /\ \A j \in 1 .. Len(Rest) : d[j] = Rest[j]
  BY <1>4, <1>5
<1>7. z + Len(Rest) + Len(wire) = Len(b) /\ z + Len(Rest) <= Len(b)
  <2>1. Len(b) - z = Len(Rest) + Len(wire) BY <1>3, <1>6
  <2>2. ASSUME NEW l \in Nat, NEW m \in Nat, NEW w \in Nat, l - z = m + w
        PROVE  z + m + w = l /\ z + m <= l
    BY <1>1, <2>2
  <2> QED BY <1>0, <1>2, <2>1, <2>2
<1>8. ASSUME NEW j \in 1 .. Len(Rest) PROVE Rest[j] = b[z + j]
  <2>1. j \in 1 .. Len(d) BY <1>2, <1>6
  <2> QED BY <1>3, <1>6, <2>1
<1>9. z + Len(Rest) = Len(b) => wire = << >>
  <2>1. z + Len(Rest) = Len(b) => Len(wire) = 0 BY <1>0, <1>1, <1>2, <1>7
  <2> QED BY <1>2, <2>1, EmptySeq
<1>10. ASSUME NEW n \in 0 .. Len(Rest)
       PROVE  /\ z + n \in 0 .. Len(b) /\ Drop(Stream, n) = Drop(b, z + n)
              /\ Take(Drop(b, z), n) = Take(Rest, n)
  <2>1. n \in Nat /\ z + n \in 0 .. Len(b) /\ z + n <= Len(b) /\ n \in 0 .. Len(d)
    BY <1>0, <1>1, <1>2, <1>6, <1>7
  <2>2. Drop(Drop(b, z), n) = Drop(b, z + n) BY <1>0, <1>1, <2>1, DropDrop
  <2>3. /\ Take(d, n) \in Seq(Token) /\ Len(Take(d, n)) = n
        /\ \A j \in 1 .. n : Take(d, n)[j] = d[j]
    BY <1>3, <2>1, TakeSeq
  <2>4. /\ Take(Rest, n) \in Seq(Token) /\ Len(Take(Rest, n)) = n
        /\ \A j \in 1 .. n : Take(Rest, n)[j] = Rest[j]
    BY <1>2, TakeSeq
  <2>5. \A j \in 1 .. n : Take(d, n)[j] = Take(Rest, n)[j]
    <3>1. \A j \in 1 .. n : j \in 1 .. Len(Rest) BY <1>2, <2>1
    <3> QED BY <1>6, <2>3, <2>4, <3>1
  <2>6. Take(d, n) = Take(Rest, n) BY <2>3, <2>4, <2>5, SeqEqual
  <2> QED BY <1>4, <2>1, <2>2, <2>6 DEF d
<1> QED BY <1>0, <1>1, <1>2, <1>7, <1>8, <1>9, <1>10

\* The last of the body has been handed over.
LEMMA BodyDone ==
  ASSUME Answers, curState = "RECVING_DATA", Completed, UNCHANGED <<owes, serving, resp>>,
         wire' = << >>, NEW b \in Bodies, resp.want = Payload(b),
         got' = Payload(Take(b, Len(b)))
  PROVE  Answers'
<1>1. owes = "nothing" /\ resp.rid = serving.rid BY DEF Answers, BodyInv
<1>2. curState' = "HTTP_CONNECTED" BY Enters DEF Completed
<1>3. got' = resp'.want BY BodyTokens, PayloadAll
<1>4. DoneInv' BY <1>1, <1>2, <1>3 DEF DoneInv
<1> QED BY <1>1, <1>2, <1>4, ReadyAgain

\* A processor that returns with what it consumed leaves the stream as it is.
LEMMA SoFarStream ==
  ASSUME IndInv, ReturnSoFar, wire' = wire
  PROVE  \/ Enter("ABORTED", "WORKBUFSMALL")
         \/ UNCHANGED <<curState, smExitError>> /\ Stream' = Stream
<1>1. left + processed \in Nat /\ processed \in Nat /\ processed' = 0
  BY RestSeq DEF ReturnSoFar, Return
<1>2. CASE processed > 0
  <2>1. Consumed(processed) BY <1>2 DEF ReturnSoFar, Return
  <2>2. /\ workingBuffer' = Drop(workingBuffer, left + processed) /\ left' = 0
        /\ UNCHANGED <<curState, smExitError>>
    BY <2>1 DEF Consumed, Shrink
  <2> QED BY <1>1, <2>2, StreamSame
<1>3. CASE ~(processed > 0)
  <2>1. MoreDataNeeded /\ processed = 0 BY <1>1, <1>3 DEF ReturnSoFar, Return
  <2>2. CASE UNCHANGED <<curState, smExitError, workingBuffer, left>>
    BY <1>1, <2>1, <2>2, StreamSame
  <2> QED BY <2>1, <2>2 DEF MoreDataNeeded, wbVars
<1> QED BY <1>2, <1>3

\* A processor gives the response up.
LEMMA FailedAnswers ==
  ASSUME NEW err \in {"DATAPROCESSING", "APPABORTED"}, NEW n, curState = "RECVING_DATA",
         Return(err, n)
  PROVE  Answers'
<1>1. Failed(err) BY DEF Return
<1>2. Enter("ABORTED", err) BY <1>1 DEF Failed
<1> QED BY <1>2, GivenUp DEF Far, Final

\* A processor for bodies is called where bodies are read.
LEMMA BodyWhere ==
  ASSUME IndInv, Answers, pc = "idp", inputDataProcessor \in {"raw", "chunked"}
  PROVE  /\ curState = "RECVING_DATA"
         /\ \E b \in Bodies : \E z \in 0 .. Len(b) : Reading(b, z)
<1>1. curState = "RECVING_DATA" BY DEF IndInv, FlowInv, PointerInv, ArgsMatch
<1> QED BY <1>1 DEF Answers, BodyInv

\* Raw data: all there is goes to the application.
LEMMA RawAnswers ==
  ASSUME IndInv, Answers, mangoIDP_raw
  PROVE  Answers'
<1>1. /\ pc = "idp" /\ inputDataProcessor = "raw" /\ UNCHANGED <<wire, owes, serving, resp>>
  BY DEF mangoIDP_raw, srvVars
<1>2. curState = "RECVING_DATA" BY <1>1, BodyWhere
<1>3. PICK b \in Bodies : \E z \in 0 .. Len(b) : Reading(b, z) BY <1>1, BodyWhere
<1>4. PICK z \in 0 .. Len(b) : Reading(b, z) BY <1>3
<1>5. /\ AllData(b) /\ Len(b) <= IDPArgsRaw.fileSz /\ IDPArgsRaw.done = z /\ processed = 0
      /\ resp.want = Payload(b) /\ got = Payload(Take(b, z)) /\ Stream = Drop(b, z)
  BY <1>1, <1>4 DEF Reading, RawAt
<1>6. /\ b \in Seq(Body) /\ Len(b) \in Nat /\ z \in Nat
      /\ Len(Rest) \in Nat /\ Len(wire) \in Nat
      /\ z + Len(Rest) + Len(wire) = Len(b) /\ z + Len(Rest) <= Len(b)
      /\ z + Len(Rest) = Len(b) => wire = << >>
  BY <1>4, RestOf
<1>7. IDPArgsRaw \in [fileSz : Nat, done : Nat] /\ left \in Nat /\ left + processed = left
  BY <1>5, RestSeq DEF IndInv, TypeOK, ArgsOK
<1>8. CASE /\ IDPArgsRaw.fileSz = 0
           /\ Return("COMPLETED", 0) /\ UNCHANGED <<dpVars, got>>
  <2>1. Completed BY <1>8 DEF Return
  <2>2. z = Len(b) /\ z + Len(Rest) = Len(b) BY <1>5, <1>6, <1>8
  <2>3. wire' = << >> /\ got' = Payload(Take(b, Len(b))) BY <1>1, <1>5, <1>6, <1>8, <2>2
  <2> QED BY <1>1, <1>2, <1>5, <2>1, <2>3, BodyDone
<1>9. CASE /\ IDPArgsRaw.fileSz # 0 /\ Rest = << >>
           /\ Return("MOREDATANEEDED", 0) /\ UNCHANGED <<dpVars, got>>
  <2>1. MoreDataNeeded /\ processed' = 0 BY <1>9 DEF Return
  <2>2. CASE Enter("ABORTED", "WORKBUFSMALL") BY <2>2, GivenUp DEF Far, Final
  <2>3. CASE UNCHANGED <<curState, smExitError, workingBuffer, left>>
    <3>1. Stream' = Stream BY <1>1, <1>5, <2>1, <2>3 DEF Stream, Rest
    <3>2. Reading(b, z)'
      BY <1>1, <1>4, <1>5, <1>9, <2>1, <3>1 DEF Reading, RawAt, dpVars, inVars
    <3> QED BY <1>1, <1>2, <2>3, <3>2, BodyKept
  <2> QED BY <2>1, <2>2, <2>3 DEF MoreDataNeeded, wbVars
<1>10. CASE /\ IDPArgsRaw.fileSz # 0 /\ Rest # << >>
            /\ RawCounts(Len(Rest)) /\ got' = got \o Rest
            /\ inputDataProcessor' = inputDataProcessor
            /\ \/ Return(IF IDPArgsRaw'.done = IDPArgsRaw.fileSz
                         THEN "COMPLETED" ELSE "OK", Len(Rest))
               \/ Return("APPABORTED", Len(Rest))
  <2>0. PICK n : n = Len(Rest) OBVIOUS
  <2>1. n \in Nat /\ n \in 0 .. Len(Rest) /\ z + n <= Len(b) BY <1>6, <2>0
  <2>2. z + n \in 0 .. Len(b) /\ Drop(Stream, n) = Drop(b, z + n)
        /\ Take(Drop(b, z), n) = Take(Rest, n)
    BY <1>4, <2>1, RestOf
  <2>3. got' = Payload(Take(b, z + n))
    <3>1. \A j \in 1 .. n : b[z + j].k = "data" BY <1>5, <1>6, <2>1 DEF AllData
    <3>2. Payload(Take(b, z + n)) = Payload(Take(b, z)) \o Take(Drop(b, z), n)
      BY <1>6, <2>1, <3>1, PayloadData
    <3>3. Take(Rest, n) = Rest
      <4>1. Rest \in Seq(Token) BY StreamSeq
      <4>2. /\ Take(Rest, n) \in Seq(Token) /\ Len(Take(Rest, n)) = n
            /\ \A j \in 1 .. n : Take(Rest, n)[j] = Rest[j]
        BY <2>1, <4>1, TakeSeq
      <4> QED BY <2>0, <4>1, <4>2, SeqEqual
    <3> QED BY <1>5, <1>10, <2>2, <3>2, <3>3
  <2>4. IDPArgsRaw'.done = z + n /\ IDPArgsRaw'.fileSz = IDPArgsRaw.fileSz
    BY <1>5, <1>7, <1>10, <2>0 DEF RawCounts
  <2>5. CASE Return("APPABORTED", Len(Rest)) BY <1>2, <2>5, FailedAnswers
  <2>6. CASE IDPArgsRaw'.done = IDPArgsRaw.fileSz /\ Return("COMPLETED", Len(Rest))
    <3>1. Completed BY <2>6 DEF Return
    <3>2. z + n = Len(b) BY <1>5, <1>6, <1>7, <2>1, <2>4, <2>6
    <3>3. wire' = << >> /\ got' = Payload(Take(b, Len(b)))
      BY <1>1, <1>6, <2>0, <2>3, <3>2
    <3> QED BY <1>1, <1>2, <1>5, <3>1, <3>3, BodyDone
  <2>7. CASE Return("OK", Len(Rest))
    <3>1. Consumed(n) /\ processed' = 0 BY <2>0, <2>7 DEF Return
    <3>2. /\ workingBuffer' = Drop(workingBuffer, left + n) /\ left' = 0
          /\ UNCHANGED <<curState, smExitError>>
      BY <3>1 DEF Consumed, Shrink
    <3>3. Stream' = Drop(Stream, n)
      <4>1. workingBuffer \in Seq(Token) /\ Rest \in Seq(Token) /\ wire \in Seq(Token)
        BY StreamSeq
      <4>2. Rest = Drop(workingBuffer, left) BY <1>7 DEF Rest
      <4>3. left + n <= Len(workingBuffer) /\ left + n \in Nat
        BY <1>5, <1>7, <2>0, <2>1, RestSeq
      <4>4. Drop(Rest, n) = Drop(workingBuffer, left + n)
        BY <1>7, <2>1, <4>1, <4>2, <4>3, DropDrop
      <4>5. Drop(Rest, n) \in Seq(Token) BY <2>1, <4>1, DropSeq
      <4>6. Rest' = Drop(Drop(Rest, n), 0) BY <3>1, <3>2, <4>4 DEF Rest
      <4>7. Rest' = Drop(Rest, n) BY <4>5, <4>6, DropAll
      <4>8. Drop(Rest \o wire, n) = Drop(Rest, n) \o wire BY <2>1, <4>1, DropJoined
      <4> QED BY <1>1, <4>7, <4>8 DEF Stream
    <3>4. RawAt(b, z + n)' BY <1>5, <2>4, <3>1 DEF RawAt
    <3>5. Reading(b, z + n)' BY <1>1, <1>5, <1>10, <2>2, <2>3, <3>3, <3>4 DEF Reading
    <3> QED BY <1>1, <1>2, <2>2, <3>2, <3>5, BodyKept
  <2> QED BY <1>10, <2>5, <2>6, <2>7
<1> QED BY <1>8, <1>9, <1>10 DEF mangoIDP_raw

\* The chunked processor goes on n tokens.
LEMMA ChunkGoesOn ==
  ASSUME IndInv, Answers, curState = "RECVING_DATA", inputDataProcessor = "chunked",
         UNCHANGED <<wire, owes, serving, resp, inputDataProcessor>>,
         NEW b \in Bodies, NEW z \in 0 .. Len(b), Reading(b, z),
         NEW n \in 0 .. Len(Rest), MoveOn(n), got' = Payload(Take(b, z + n)),
         ChunkedAt(b, z + n)'
  PROVE  Answers'
<1>1. z + n \in 0 .. Len(b) /\ Drop(Stream, n) = Drop(b, z + n) BY RestOf
<1>2. Stream' = Drop(Stream, n) BY MoveOnStream
<1>3. resp.want = Payload(b) BY DEF Reading
<1>4. Reading(b, z + n)' BY <1>1, <1>2, <1>3 DEF Reading
<1>5. UNCHANGED <<curState, smExitError>> BY DEF MoveOn, smVars
<1> QED BY <1>1, <1>4, <1>5, BodyKept

\* The chunked processor returns with what it consumed.
LEMMA ChunkSoFar ==
  ASSUME IndInv, Answers, curState = "RECVING_DATA", inputDataProcessor = "chunked",
         UNCHANGED <<wire, owes, serving, resp>>, ReturnSoFar,
         NEW b \in Bodies, NEW z \in 0 .. Len(b), Reading(b, z)
  PROVE  Answers'
<1>1. CASE Enter("ABORTED", "WORKBUFSMALL") BY <1>1, GivenUp DEF Far, Final
<1>2. CASE UNCHANGED <<curState, smExitError>> /\ Stream' = Stream
  <2>1. UNCHANGED <<inputDataProcessor, IDPArgsChunked, got>> BY DEF ReturnSoFar, dpVars, inVars
  <2>2. Reading(b, z)' BY <1>2, <2>1 DEF Reading, ChunkedAt
  <2> QED BY <1>2, <2>2, BodyKept
<1> QED BY <1>1, <1>2, SoFarStream

\* A size line is two tokens.
LEMMA SizeLine ==
  ASSUME NEW s \in Seq(Token), Len(s) >= 2, ~IsNewline(s[1]), IsNewline(s[2])
  PROVE  LineLen(s) = 2
<1>1. Len(s) \in Nat OBVIOUS
<1>2. 2 \in 1 .. Len(s) /\ \A h \in 1 .. 2 - 1 : ~IsNewline(s[h]) BY <1>1
<1>3. \E j \in 1 .. Len(s) : IsNewline(s[j]) /\ \A h \in 1 .. j - 1 : ~IsNewline(s[h])
  BY <1>2
<1> DEFINE l == LineLen(s)
<1>4. l \in 1 .. Len(s) /\ IsNewline(s[l]) /\ \A h \in 1 .. l - 1 : ~IsNewline(s[h])
  BY <1>3 DEF LineLen
<1> HIDE DEF l
<1>5. l # 1 BY <1>4
<1>6. ~(l > 2)
  <2>1. l > 2 => 2 \in 1 .. l - 1 BY <1>1, <1>4
  <2> QED BY <1>4, <2>1
<1>7. l = 2 BY <1>1, <1>4, <1>5, <1>6
<1> QED BY <1>7 DEF l

\* The line of a chunk's size.
LEMMA SizeAnswers ==
  ASSUME IndInv, Answers, curState = "RECVING_DATA", inputDataProcessor = "chunked",
         UNCHANGED <<wire, owes, serving, resp>>, ChunkSize,
         NEW b \in Bodies, NEW z \in 0 .. Len(b), Reading(b, z)
  PROVE  Answers'
<1>1. IDPArgsChunked.state = 1 /\ Rest # << >> /\ got' = got BY DEF ChunkSize
<1>2. ChunkedBody(b) /\ SizeAt(b, z + 1) /\ got = Payload(Take(b, z)) BY <1>1 DEF Reading, ChunkedAt
<1>3. /\ b \in Seq(Body) /\ Len(b) \in Nat /\ z \in Nat /\ Len(Rest) \in Nat
      /\ z + Len(Rest) <= Len(b) /\ \A j \in 1 .. Len(Rest) : Rest[j] = b[z + j]
  BY RestOf
<1>4. CASE ReturnSoFar BY <1>4, ChunkSoFar
<1>5. CASE Return("DATAPROCESSING", processed) BY <1>5, FailedAnswers
<1>6. CASE /\ HasLine(Rest) /\ Rest[1].k = "size"
           /\ IDPArgsChunked' = [state |-> IF Rest[1].n > 0 THEN 2 ELSE 4,
                                 sz |-> Rest[1].n, done |-> 0]
           /\ MoveOn(LineLen(Rest)) /\ ChunkOnly
  <2>0. Rest \in Seq(Token) BY StreamSeq
  <2>1. Len(Rest) >= 2
    <3>1. PICK j \in 1 .. Len(Rest) : IsNewline(Rest[j]) BY <1>6 DEF HasLine
    <3>2. j # 1 BY <1>6, <3>1 DEF IsNewline
    <3> QED BY <1>3, <3>1, <3>2
  <2>2. 1 \in 1 .. Len(Rest) /\ 2 \in 1 .. Len(Rest) /\ 2 \in 0 .. Len(Rest) BY <1>3, <2>1
  <2>3. b[z + 1] = Rest[1] /\ b[z + 2] = Rest[2] BY <1>3, <2>2
  <2>4. z + 1 \in 1 .. Len(b) /\ (z + 1) + 1 = z + 2 BY <1>3, <2>1
  <2>5. b[z + 2].k = "nl" BY <1>2, <1>6, <2>3, <2>4 DEF ChunkedBody
  <2>6. LineLen(Rest) = 2
    <3>1. ~IsNewline(Rest[1]) /\ IsNewline(Rest[2]) BY <1>6, <2>3, <2>5 DEF IsNewline
    <3> QED BY <2>0, <2>1, <3>1, SizeLine
  <2>7. MoveOn(2) BY <1>6, <2>6
  <2>8. got' = Payload(Take(b, z + 2))
    <3>1. \A j \in 1 .. 2 : b[z + j].k # "data"
      <4>1. b[z + 1].k # "data" /\ b[z + 2].k # "data" BY <1>6, <2>3, <2>5
      <4> QED BY <4>1
    <3>2. z + 2 <= Len(b) BY <1>3, <2>1
    <3>3. Payload(Take(b, z + 2)) = Payload(Take(b, z)) BY <1>3, <3>1, <3>2, PayloadSkip
    <3> QED BY <1>1, <1>2, <3>3
  <2>9. PICK m : m = Rest[1].n OBVIOUS
  <2>10. m \in Nat
    <3>1. Rest[1] \in Token BY <2>0, <2>2
    <3> QED BY <1>6, <2>9, <3>1, TokenFields
  <2>11. IDPArgsChunked' = [state |-> IF m > 0 THEN 2 ELSE 4, sz |-> m, done |-> 0]
    BY <1>6, <2>9
  <2>12. b[z + 1].k = "size" /\ b[z + 1].n = m BY <1>6, <2>3, <2>9
  <2>13. ChunkedAt(b, z + 2)'
    <3>1. (z + 2) - 1 - 0 = z + 1 /\ (z + 2) - 1 = z + 1 /\ z + 2 > 1 BY <1>3
    <3>2. CASE m > 0
      <4>1. IDPArgsChunked'.state = 2 /\ IDPArgsChunked'.sz = m /\ IDPArgsChunked'.done = 0
        BY <2>11, <3>2
      <4> QED BY <1>2, <2>4, <2>12, <3>1, <3>2, <4>1 DEF ChunkedAt
    <3>3. CASE ~(m > 0)
      <4>1. IDPArgsChunked'.state = 4 /\ m = 0 BY <2>10, <2>11, <3>3
      <4> QED BY <1>2, <2>12, <3>1, <4>1 DEF ChunkedAt
    <3> QED BY <3>2, <3>3
  <2>14. inputDataProcessor' = inputDataProcessor BY <1>6 DEF ChunkOnly
  <2> QED BY <2>2, <2>7, <2>8, <2>13, <2>14, ChunkGoesOn
<1> QED BY <1>4, <1>5, <1>6 DEF ChunkSize

\* Where the processor is in a chunk.
LEMMA ChunkWhere ==
  ASSUME IndInv, IDPArgsChunked.state \in {2, 3}, NEW b \in Bodies, NEW z \in 0 .. Len(b),
         Reading(b, z), inputDataProcessor = "chunked"
  PROVE  LET a == IDPArgsChunked IN
         \E p \in 1 .. Len(b) :
           /\ a.sz \in Nat /\ a.done \in Nat /\ a.sz > 0 /\ z = p + 1 + a.done
           /\ a.state = 2 => a.done < a.sz
           /\ a.state = 3 => a.done = a.sz
           /\ b[p].k = "size" /\ b[p].n = a.sz /\ ChunkAt(b, p, a.sz)
<1> DEFINE a == IDPArgsChunked
           p == z - 1 - a.done
<1>1. a.sz \in Nat /\ a.done \in Nat /\ (a.state = 2 => a.done < a.sz)
  BY DEF IndInv, TypeOK, ArgsOK, PieceInv
<1>2. /\ ChunkedBody(b) /\ p \in 1 .. Len(b) /\ b[p].k = "size" /\ b[p].n = a.sz /\ a.sz > 0
      /\ a.state = 3 => a.done = a.sz
  BY DEF Reading, ChunkedAt
<1>3. ChunkAt(b, p, a.sz) BY <1>2 DEF ChunkedBody
<1>4. z = p + 1 + a.done
  <2>1. Len(b) \in Nat BY BodyTokens
  <2> QED BY <1>1, <2>1
<1> HIDE DEF p
<1> QED BY <1>1, <1>2, <1>3, <1>4

\* The data of a chunk.
LEMMA DataAnswers ==
  ASSUME IndInv, Answers, curState = "RECVING_DATA", inputDataProcessor = "chunked",
         UNCHANGED <<wire, owes, serving, resp>>, ChunkData,
         NEW b \in Bodies, NEW z \in 0 .. Len(b), Reading(b, z)
  PROVE  Answers'
<1> DEFINE a == IDPArgsChunked
<1>1. a.state = 2 BY DEF ChunkData
<1>2. PICK p \in 1 .. Len(b) :
        /\ a.sz \in Nat /\ a.done \in Nat /\ a.sz > 0 /\ z = p + 1 + a.done /\ a.done < a.sz
        /\ b[p].k = "size" /\ b[p].n = a.sz /\ ChunkAt(b, p, a.sz)
  BY <1>1, ChunkWhere
<1>3. /\ b \in Seq(Body) /\ Len(b) \in Nat /\ z \in Nat /\ Len(Rest) \in Nat
      /\ z + Len(Rest) <= Len(b)
  BY RestOf
<1>4. PICK n : n = MinOf(Len(Rest), a.sz - a.done) OBVIOUS
<1>5. n \in Nat /\ n \in 0 .. Len(Rest) /\ n <= a.sz - a.done /\ z + n <= Len(b)
  BY <1>2, <1>3, <1>4, SMTT(60) DEF MinOf
<1>6. CASE Return("APPABORTED", processed) BY <1>6, FailedAnswers
<1>7. CASE ~Return("APPABORTED", processed)
  <2>1. /\ got' = got \o Take(Rest, n)
        /\ a' = [a EXCEPT !.done = @ + n, !.state = IF a.sz = a.done + n THEN 3 ELSE 2]
        /\ MoveOn(n) /\ ChunkOnly
    BY <1>4, <1>7 DEF ChunkData
  <2>2. got' = Payload(Take(b, z + n))
    <3>1. ASSUME NEW j \in 1 .. n PROVE b[z + j].k = "data"
      <4>0. ASSUME NEW c \in Nat, NEW d \in Nat, NEW y \in Nat, NEW q \in Nat, y = q + 1 + d,
                   n <= c - d
            PROVE  y + j \in q + 2 .. (q + c + 2) - 1
        BY <1>5, <4>0
      <4>1. z + j \in p + 2 .. (p + a.sz + 2) - 1
        <5>1. p \in Nat BY <1>3
        <5> QED BY <1>2, <1>3, <1>5, <4>0, <5>1
      <4> QED BY <1>2, <4>1 DEF ChunkAt
    <3>2. Payload(Take(b, z + n)) = Payload(Take(b, z)) \o Take(Drop(b, z), n)
      BY <1>3, <1>5, <3>1, PayloadData
    <3>3. Take(Drop(b, z), n) = Take(Rest, n) BY <1>5, RestOf
    <3>4. got = Payload(Take(b, z)) BY DEF Reading
    <3> QED BY <2>1, <3>2, <3>3, <3>4
  <2>3. /\ a'.sz = a.sz /\ a'.done = a.done + n
        /\ a'.state = IF a.sz = a.done + n THEN 3 ELSE 2
    <3>1. a \in [state : 1 .. 4, sz : Nat, done : Nat] BY DEF IndInv, TypeOK, ArgsOK
    <3> QED BY <2>1, <3>1
  <2>4. ChunkedAt(b, z + n)'
    <3>0. ASSUME NEW d \in Nat, NEW q \in Nat PROVE ((q + 1 + d) + n) - 1 - (d + n) = q BY <1>5
    <3>1. (z + n) - 1 - a'.done = p
      <4>1. p \in Nat /\ a.done \in Nat /\ z = p + 1 + a.done BY <1>2, <1>3
      <4>2. a'.done = a.done + n BY <2>3
      <4> QED BY <3>0, <4>1, <4>2, ZenonT(60)
    <3>2. a'.state \in {2, 3} /\ (a'.state = 3 => a'.done = a'.sz) BY <2>3
    <3>3. ChunkedBody(b) BY DEF Reading, ChunkedAt
    <3> QED BY <1>2, <2>3, <3>1, <3>2, <3>3 DEF ChunkedAt
  <2>5. inputDataProcessor' = inputDataProcessor BY <2>1 DEF ChunkOnly
  <2> QED BY <1>5, <2>1, <2>2, <2>4, <2>5, ChunkGoesOn
<1> QED BY <1>6, <1>7

\* The CRLF behind them.
LEMMA CRLFAnswers ==
  ASSUME IndInv, Answers, curState = "RECVING_DATA", inputDataProcessor = "chunked",
         UNCHANGED <<wire, owes, serving, resp>>, ChunkCRLF,
         NEW b \in Bodies, NEW z \in 0 .. Len(b), Reading(b, z)
  PROVE  Answers'
<1> DEFINE a == IDPArgsChunked
<1>1. a.state = 3 /\ got' = got BY DEF ChunkCRLF
<1>2. PICK p \in 1 .. Len(b) :
        /\ a.sz \in Nat /\ z = p + 1 + a.sz /\ ChunkAt(b, p, a.sz)
  BY <1>1, ChunkWhere
<1>3. /\ b \in Seq(Body) /\ Len(b) \in Nat /\ z \in Nat /\ Len(Rest) \in Nat
      /\ z + Len(Rest) <= Len(b) /\ \A j \in 1 .. Len(Rest) : Rest[j] = b[z + j]
  BY RestOf
<1>4. CASE ReturnSoFar BY <1>4, ChunkSoFar
<1>5. CASE Return("DATAPROCESSING", processed) BY <1>5, FailedAnswers
<1>6. CASE /\ Len(Rest) >= 2 /\ IsCRLF(Take(Rest, 2))
           /\ IDPArgsChunked' = [IDPArgsChunked EXCEPT !.state = 1]
           /\ MoveOn(2) /\ ChunkOnly
  <2>1. 1 \in 1 .. Len(Rest) /\ 2 \in 1 .. Len(Rest) /\ 2 \in 0 .. Len(Rest) BY <1>3, <1>6
  <2>2. Take(Rest, 2)[1] = Rest[1] /\ Take(Rest, 2)[2] = Rest[2]
    <3>1. Rest \in Seq(Token) BY StreamSeq
    <3>2. \A j \in 1 .. 2 : Take(Rest, 2)[j] = Rest[j] BY <2>1, <3>1, TakeSeq
    <3> QED BY <3>2
  <2>3. b[z + 1].k = "cr" /\ b[z + 2].k = "lf"
    <3>1. Rest[1].k = "cr" /\ Rest[2].k = "lf" BY <1>6, <2>2 DEF IsCRLF
    <3> QED BY <1>3, <2>1, <3>1
  <2>4. SizeAt(b, (z + 2) + 1)
    <3>0. ASSUME NEW c \in Nat, NEW q \in Nat PROVE q + c + 2 = (q + 1 + c) + 1 OBVIOUS
    <3>1. p + a.sz + 2 = z + 1 /\ (z + 1) + 2 = (z + 2) + 1
      <4>1. p \in Nat /\ a.sz \in Nat /\ z = p + 1 + a.sz BY <1>2, <1>3
      <4>2. p + a.sz + 2 = z + 1 BY <3>0, <4>1
      <4>3. (z + 1) + 2 = (z + 2) + 1 BY <1>3
      <4> QED BY <4>2, <4>3
    <3>2. b[p + a.sz + 2].k = "cr" BY <2>3, <3>1
    <3>3. SizeAt(b, (p + a.sz + 2) + 2) BY <1>2, <3>2 DEF ChunkAt
    <3> QED BY <3>1, <3>3
  <2>5. got' = Payload(Take(b, z + 2))
    <3>1. \A j \in 1 .. 2 : b[z + j].k # "data"
      <4>1. b[z + 1].k # "data" /\ b[z + 2].k # "data" BY <2>3
      <4> QED BY <4>1
    <3>2. z + 2 <= Len(b) BY <1>3, <1>6
    <3>3. Payload(Take(b, z + 2)) = Payload(Take(b, z)) BY <1>3, <3>1, <3>2, PayloadSkip
    <3>4. got = Payload(Take(b, z)) BY DEF Reading
    <3> QED BY <1>1, <3>3, <3>4
  <2>6. IDPArgsChunked'.state = 1
    <3>1. IDPArgsChunked \in [state : 1 .. 4, sz : Nat, done : Nat] BY DEF IndInv, TypeOK, ArgsOK
    <3> QED BY <1>6, <3>1
  <2>7. ChunkedBody(b) BY DEF Reading, ChunkedAt
  <2>8. ChunkedAt(b, z + 2)' BY <2>4, <2>6, <2>7 DEF ChunkedAt
  <2>9. inputDataProcessor' = inputDataProcessor BY <1>6 DEF ChunkOnly
  <2> QED BY <1>6, <2>1, <2>5, <2>8, <2>9, ChunkGoesOn
<1> QED BY <1>4, <1>5, <1>6 DEF ChunkCRLF

\* The trailer: its blank line is the end of the body.
LEMMA TrailerAnswers ==
  ASSUME IndInv, Answers, curState = "RECVING_DATA", inputDataProcessor = "chunked",
         UNCHANGED <<wire, owes, serving, resp>>, ChunkTrailer,
         NEW b \in Bodies, NEW z \in 0 .. Len(b), Reading(b, z)
  PROVE  Answers'
<1>1. IDPArgsChunked.state = 4 /\ got' = got BY DEF ChunkTrailer
<1>2. /\ b \in Seq(Body) /\ Len(b) \in Nat /\ z \in Nat /\ Len(Rest) \in Nat
      /\ z + Len(Rest) <= Len(b) /\ \A j \in 1 .. Len(Rest) : Rest[j] = b[z + j]
      /\ z + Len(Rest) = Len(b) => wire = << >>
  BY RestOf
<1>3. TrailerAt(b, z + 1)
  <2>1. ChunkedBody(b) /\ z > 1 /\ b[z - 1].k = "size" /\ b[z - 1].n = 0
    BY <1>1 DEF Reading, ChunkedAt
  <2>2. z - 1 \in 1 .. Len(b) /\ (z - 1) + 2 = z + 1 BY <1>2, <2>1
  <2>3. ~(b[z - 1].n > 0) BY <2>1
  <2>4. TrailerAt(b, (z - 1) + 2) BY <2>1, <2>2, <2>3 DEF ChunkedBody
  <2> QED BY <2>2, <2>4
<1>4. CASE ReturnSoFar BY <1>4, ChunkSoFar
<1>5. CASE (IsCRLF(Rest) \/ EndsBlank(Rest)) /\ Return("COMPLETED", processed)
  <2>1. Completed BY <1>5 DEF Return
  <2>2. PICK l : l = Len(Rest) OBVIOUS
  <2>3. /\ l \in Nat /\ l >= 2 /\ b[z + l].k = "lf" /\ b[z + (l - 1)].k = "cr"
        /\ l = 2 \/ (l > 3 /\ b[z + (l - 2)].k = "lf")
    <3>1. CASE IsCRLF(Rest)
      <4>1. l = 2 /\ Rest[1].k = "cr" /\ Rest[2].k = "lf" BY <2>2, <3>1 DEF IsCRLF
      <4>2. 1 \in 1 .. Len(Rest) /\ 2 \in 1 .. Len(Rest) BY <2>2, <4>1
      <4>3. b[z + 1].k = "cr" /\ b[z + 2].k = "lf" BY <1>2, <4>1, <4>2
      <4> QED BY <4>1, <4>3
    <3>2. CASE EndsBlank(Rest)
      <4> DEFINE s == SubSeq(Rest, Len(Rest) - 3, Len(Rest) - 2)
                 t == SubSeq(Rest, Len(Rest) - 1, Len(Rest))
      <4>1. Len(Rest) > 3 /\ IsCRLF(s) /\ IsCRLF(t) BY <3>2 DEF EndsBlank
      <4>2. Rest \in Seq(Token) BY StreamSeq
      <4>3. s[2] = Rest[l - 2] /\ t[1] = Rest[l - 1] /\ t[2] = Rest[l]
        <5>1. /\ Len(Rest) - 3 \in 1 .. Len(Rest) + 1 /\ Len(Rest) - 2 \in 0 .. Len(Rest)
              /\ Len(Rest) - 1 \in 1 .. Len(Rest) + 1 /\ Len(Rest) \in 0 .. Len(Rest)
          BY <1>2, <4>1
        <5>2. \A j \in 1 .. (Len(Rest) - 2) - (Len(Rest) - 3) + 1 :
                s[j] = Rest[(Len(Rest) - 3) + j - 1]
          <6>1. \A j \in Len(Rest) - 3 .. Len(Rest) - 2 : Rest[j] \in Token
            BY <1>2, <4>1, <4>2
          <6> QED BY <1>2, <4>2, <6>1, SubSeqProperties
        <5>3. \A j \in 1 .. Len(Rest) - (Len(Rest) - 1) + 1 :
                t[j] = Rest[(Len(Rest) - 1) + j - 1]
          <6>1. \A j \in Len(Rest) - 1 .. Len(Rest) : Rest[j] \in Token
            BY <1>2, <4>1, <4>2
          <6> QED BY <1>2, <4>2, <6>1, SubSeqProperties
        <5> HIDE DEF s, t
        <5>4. /\ 2 \in 1 .. (Len(Rest) - 2) - (Len(Rest) - 3) + 1
              /\ 1 \in 1 .. Len(Rest) - (Len(Rest) - 1) + 1
              /\ 2 \in 1 .. Len(Rest) - (Len(Rest) - 1) + 1
              /\ (Len(Rest) - 3) + 2 - 1 = l - 2 /\ (Len(Rest) - 1) + 1 - 1 = l - 1
              /\ (Len(Rest) - 1) + 2 - 1 = l
          BY <1>2, <2>2
        <5>5. s[2] = Rest[l - 2] BY <5>2, <5>4
        <5>6. t[1] = Rest[l - 1] /\ t[2] = Rest[l] BY <5>3, <5>4
        <5> QED BY <5>5, <5>6
      <4> HIDE DEF s, t
      <4>4. Rest[l - 2].k = "lf" /\ Rest[l - 1].k = "cr" /\ Rest[l].k = "lf"
        BY <4>1, <4>3 DEF IsCRLF
      <4>5. l \in Nat /\ l > 3 BY <1>2, <2>2, <4>1
      <4>6. l - 2 \in 1 .. Len(Rest) /\ l - 1 \in 1 .. Len(Rest) /\ l \in 1 .. Len(Rest)
        BY <2>2, <4>5
      <4>7. b[z + (l - 2)].k = "lf" /\ b[z + (l - 1)].k = "cr" /\ b[z + l].k = "lf"
        BY <1>2, <4>4, <4>6
      <4> QED BY <4>5, <4>7
    <3> QED BY <1>5, <3>1, <3>2
  <2>4. z + l = Len(b)
    <3> DEFINE e == z + l
    <3>1. e \in Nat /\ e <= Len(b) /\ e - 1 = z + (l - 1) /\ e - 2 = z + (l - 2)
      BY <1>2, <2>2, <2>3
    <3>2. b[e].k = "lf" /\ b[e - 1].k = "cr" /\ (e = (z + 1) + 1 \/ b[e - 2].k = "lf")
      <4>1. l = 2 => e = (z + 1) + 1 BY <1>2
      <4> QED BY <2>3, <3>1, <4>1
    <3>3. e \notin (z + 1) + 1 .. Len(b) - 1 BY <1>3, <3>2 DEF TrailerAt
    <3>4. e >= (z + 1) + 1 BY <1>2, <2>3
    <3> HIDE DEF e
    <3>5. e = Len(b) BY <1>2, <3>1, <3>3, <3>4
    <3> QED BY <3>5 DEF e
  <2>5. Payload(Take(b, Len(b))) = Payload(Take(b, z))
    <3>1. ASSUME NEW j \in 1 .. l PROVE b[z + j].k # "data"
      <4>1. z + j \in z + 1 .. Len(b) BY <1>2, <2>3, <2>4
      <4> QED BY <1>3, <4>1 DEF TrailerAt
    <3>2. z + l <= Len(b) /\ l \in Nat BY <1>2, <2>3, <2>4
    <3>3. Payload(Take(b, z + l)) = Payload(Take(b, z)) BY <1>2, <3>1, <3>2, PayloadSkip
    <3> QED BY <2>4, <3>3
  <2>6. got = Payload(Take(b, z)) /\ resp.want = Payload(b) BY DEF Reading
  <2>7. wire' = << >> BY <1>2, <2>2, <2>4
  <2>8. got' = Payload(Take(b, Len(b))) BY <1>1, <2>5, <2>6
  <2> QED BY <2>1, <2>6, <2>7, <2>8, BodyDone
<1> QED BY <1>4, <1>5 DEF ChunkTrailer

\* The chunked processor.
LEMMA ChunkedAnswers ==
  ASSUME IndInv, Answers, mangoIDP_chunked
  PROVE  Answers'
<1>1. /\ pc = "idp" /\ inputDataProcessor = "chunked"
      /\ UNCHANGED <<wire, owes, serving, resp>>
  BY DEF mangoIDP_chunked, srvVars
<1>2. curState = "RECVING_DATA" BY <1>1, BodyWhere
<1>3. PICK b \in Bodies : \E z \in 0 .. Len(b) : Reading(b, z) BY <1>1, BodyWhere
<1>4. PICK z \in 0 .. Len(b) : Reading(b, z) BY <1>3
<1>5. CASE ReturnSoFar BY <1>1, <1>2, <1>4, <1>5, ChunkSoFar
<1>6. CASE ChunkSize BY <1>1, <1>2, <1>4, <1>6, SizeAnswers
<1>7. CASE ChunkData BY <1>1, <1>2, <1>4, <1>7, DataAnswers
<1>8. CASE ChunkCRLF BY <1>1, <1>2, <1>4, <1>8, CRLFAnswers
<1>9. CASE ChunkTrailer BY <1>1, <1>2, <1>4, <1>9, TrailerAnswers
<1> QED BY <1>5, <1>6, <1>7, <1>8, <1>9 DEF mangoIDP_chunked

\* The frame processor hands over no response.
LEMMA WebsocketAnswers ==
  ASSUME IndInv, Answers, mangoIDP_websocket
  PROVE  Answers'
<1>1. pc = "idp" /\ inputDataProcessor = "websocket" BY DEF mangoIDP_websocket
<1>2. curState = "WS_POLLING" BY <1>1 DEF IndInv, FlowInv, PointerInv, ArgsMatch
<1>3. smExitError \notin Final BY <1>2, NotFinal
<1>4. CASE ReturnSoFar
  <2>1. wire' = wire BY DEF mangoIDP_websocket, srvVars
  <2>2. CASE Enter("ABORTED", "WORKBUFSMALL") BY <2>2, GivenUp DEF Far, Final
  <2>3. CASE UNCHANGED <<curState, smExitError>>
    BY <1>2, <1>3, <2>3, Elsewhere DEF Far, WsStates
  <2> QED BY <1>4, <2>1, <2>2, <2>3, SoFarStream
<1>5. ASSUME NEW err \in {"DATAPROCESSING", "WEBSOCKETCLOSED"}, WsAbort(err)
      PROVE  Answers'
  <2>1. Failed(err) BY <1>5 DEF WsAbort, Return
  <2>2. \E s \in {"ABORTED", "DISCONNECTED"} : Enter(s, err) BY <2>1 DEF Failed
  <2> QED BY <1>5, <2>2, GivenUp DEF Far, Final
<1>6. ASSUME NEW n, MoveOn(n) PROVE Answers'
  <2>1. UNCHANGED <<curState, smExitError>> BY <1>6 DEF MoveOn, smVars
  <2> QED BY <1>2, <1>3, <2>1, Elsewhere DEF Far, WsStates
<1>7. CASE WsHeader BY <1>4, <1>5, <1>6, <1>7 DEF WsHeader
<1>8. CASE WsPayload BY <1>4, <1>5, <1>6, <1>8 DEF WsPayload
<1> QED BY <1>4, <1>7, <1>8 DEF mangoIDP_websocket

-----------------------------------------------------------------------------
(***************************************************************************)
(* The invariant and the theorems.                                         *)
(***************************************************************************)

\* Nothing has been asked.
LEMMA AnswerInit == Init => AnswerInv
<1> SUFFICES ASSUME Init PROVE Answers BY DEF AnswerInv
<1>1. /\ curState = "HTTP_CONNECTED" /\ wire = << >> /\ owes = "nothing"
      /\ smExitError = "OK"
  BY DEF Init
<1> QED BY <1>1 DEF Answers, ReadyInv, AskedInv, Asked, UploadInv, Offering, BodyInv, DoneInv,
           Final

\* Every step keeps to it.
LEMMA AnswerStep == IndInv /\ AnswerInv /\ [Next]_vars => AnswerInv'
<1>0. WellBehaved' <=> WellBehaved BY DEF WellBehaved
<1> SUFFICES ASSUME IndInv, WellBehaved, Answers, [Next]_vars PROVE Answers'
  BY <1>0 DEF AnswerInv
<1>1. CASE Handlers
  BY <1>1, TimesAnswers, SendHeadersAnswers, HeadersSentAnswers, ReadHeadersAnswers,
     ProcessResponseAnswers, ReadDataAnswers, SendPacketAnswers DEF Handlers
<1>2. CASE InputProcessors
  BY <1>2, RawAnswers, ChunkedAnswers, WebsocketAnswers DEF InputProcessors
<1>3. CASE Application BY <1>3, ApplicationAnswers
<1>4. CASE Server BY <1>4, ServerAnswers
<1>5. CASE Tick BY <1>5, TimesAnswers
<1>6. CASE UNCHANGED vars
  BY <1>6, AnswersKept DEF vars, smVars, wbVars, reqVars, srvVars, histVars, dpVars, inVars
<1> QED BY <1>1, <1>2, <1>3, <1>4, <1>5, <1>6 DEF Next, Client

\* The invariant holds of every reachable state.
LEMMA AnswerInvHolds == Spec => []AnswerInv
<1>1. Init => AnswerInv BY AnswerInit
<1>2. IndInv /\ AnswerInv /\ [Next]_vars => AnswerInv' BY AnswerStep
<1> QED BY <1>1, <1>2, IndInvHolds, PTL DEF Spec

\* For every server that answers what it is asked and frames its bodies the
\* way their heads say, any bodies and any cut of the stream into reads: a
\* call that returns a final status has handed over exactly the data of the
\* body of the response to its own request.
THEOREM AnswersAlwaysComplete == Spec => [](WellBehaved => AnswerComplete)
<1>1. AnswerInv => (WellBehaved => AnswerComplete)
  BY DEF AnswerInv, Answers, DoneInv, AnswerComplete
<1> QED BY <1>1, AnswerInvHolds, PTL

-----------------------------------------------------------------------------
(***************************************************************************)
(* A processor resumes where it stopped.                                   *)
(***************************************************************************)

\* What comes in a body is what the arguments of its processor say.
LEMMA BodyInStep ==
  ASSUME IndInv, Answers, pc = "idp", inputDataProcessor \in {"raw", "chunked"},
         Rest # << >>, Rest[1].k # "bad"
  PROVE  /\ inputDataProcessor = "raw" => \A j \in 1 .. Len(Rest) : Rest[j].k = "data"
         /\ inputDataProcessor = "chunked" =>
              /\ IDPArgsChunked.state = 1 => Rest[1].k = "size"
              /\ IDPArgsChunked.state = 2 => Rest[1].k = "data"
              /\ IDPArgsChunked.state = 3 => Rest[1].k = "cr"
              /\ IDPArgsChunked.state = 4 => Rest[1].k \in {"cr", "text"}
<1> DEFINE a == IDPArgsChunked
<1>1. PICK b \in Bodies : \E z \in 0 .. Len(b) : Reading(b, z) BY BodyWhere
<1>2. PICK z \in 0 .. Len(b) : Reading(b, z) BY <1>1
<1>3. /\ b \in Seq(Body) /\ Len(b) \in Nat /\ z \in Nat /\ Len(Rest) \in Nat
      /\ z + Len(Rest) <= Len(b) /\ \A j \in 1 .. Len(Rest) : Rest[j] = b[z + j]
  BY <1>2, RestOf
<1>4. 1 \in 1 .. Len(Rest)
  <2>1. Rest \in Seq(Token) BY StreamSeq
  <2>2. Len(Rest) # 0 BY <2>1, EmptySeq
  <2> QED BY <1>3, <2>2
<1>5. Rest[1] = b[z + 1] /\ z + 1 \in 1 .. Len(b) BY <1>3, <1>4
<1>6. CASE inputDataProcessor = "raw"
  <2>1. AllData(b) BY <1>2, <1>6 DEF Reading, RawAt
  <2>2. ASSUME NEW j \in 1 .. Len(Rest) PROVE Rest[j].k = "data"
    <3>1. z + j \in 1 .. Len(b) BY <1>3
    <3> QED BY <1>3, <2>1, <3>1 DEF AllData
  <2> QED BY <1>6, <2>2
<1>7. CASE inputDataProcessor = "chunked"
  <2>0. ChunkedAt(b, z) BY <1>2, <1>7 DEF Reading
  <2>1. a.state = 1 => Rest[1].k = "size" BY <1>5, <2>0 DEF ChunkedAt, SizeAt
  <2>2. ASSUME a.state = 2 PROVE Rest[1].k = "data"
    <3>1. PICK p \in 1 .. Len(b) :
            /\ a.sz \in Nat /\ a.done \in Nat /\ z = p + 1 + a.done /\ a.done < a.sz
            /\ ChunkAt(b, p, a.sz)
      BY <1>2, <1>7, <2>2, ChunkWhere
    <3>2. ASSUME NEW c \in Nat, NEW d \in Nat, NEW q \in Nat, d < c
          PROVE  (q + 1 + d) + 1 \in q + 2 .. (q + c + 2) - 1
      BY <3>2
    <3>3. z + 1 \in p + 2 .. (p + a.sz + 2) - 1
      <4>1. p \in Nat /\ a.sz \in Nat /\ a.done \in Nat /\ z = p + 1 + a.done /\ a.done < a.sz
        BY <1>3, <3>1
      <4> QED BY <3>2, <4>1
    <3> QED BY <1>5, <3>1, <3>3 DEF ChunkAt
  <2>3. ASSUME a.state = 3 PROVE Rest[1].k = "cr"
    <3>1. PICK p \in 1 .. Len(b) : a.sz \in Nat /\ z = p + 1 + a.sz /\ ChunkAt(b, p, a.sz)
      BY <1>2, <1>7, <2>3, ChunkWhere
    <3>2. ASSUME NEW c \in Nat, NEW q \in Nat PROVE q + c + 2 = (q + 1 + c) + 1 OBVIOUS
    <3>3. p + a.sz + 2 = z + 1
      <4>1. p \in Nat /\ a.sz \in Nat /\ z = p + 1 + a.sz BY <1>3, <3>1
      <4> QED BY <3>2, <4>1
    <3>4. b[p + a.sz + 2].k \in {"bad", "cr"} BY <3>1 DEF ChunkAt
    <3> QED BY <1>5, <3>3, <3>4
  <2>4. ASSUME a.state = 4 PROVE Rest[1].k \in {"cr", "text"}
    <3>1. ChunkedBody(b) /\ z > 1 /\ b[z - 1].k = "size" /\ b[z - 1].n = 0
      BY <2>0, <2>4 DEF ChunkedAt
    <3>2. z - 1 \in 1 .. Len(b) /\ (z - 1) + 2 = z + 1 BY <1>3, <3>1
    <3>3. TrailerAt(b, (z - 1) + 2) BY <3>1, <3>2 DEF ChunkedBody
    <3>4. b[(z - 1) + 2].k \in {"cr", "text", "bad"} BY <3>3 DEF TrailerAt
    <3> QED BY <1>5, <3>2, <3>4
  <2> QED BY <1>7, <2>1, <2>2, <2>3, <2>4
<1> QED BY <1>6, <1>7

\* A frame begins where the slot before it ends.
LEMMA FrameStarts ==
  ASSUME NEW q, NEW t \in Seq(Token), NEW s, NEW no, NEW c, NEW z \in Nat,
         Laid(q, z, t, s, no), c \in 1 .. Len(q), q[c].at = z, Len(t) > 0
  PROVE  t[1].k = "f1"
<1>1. q \in Seq(Slot) /\ q[Len(q)].at = z + Len(t) BY DEF Laid
<1>2. Len(t) \in Nat /\ Len(q) \in Nat BY <1>1
<1>3. c # Len(q) BY <1>1, <1>2
<1>4. c \in 1 .. Len(q) - 1 BY <1>2, <1>3
<1>5. Placed(q, c, z, t) BY <1>4 DEF Laid
<1>6. FrameLen(q[c].f) \in Nat /\ 1 \in 1 .. FrameLen(q[c].f)
  <2>1. q[c].f \in Frame BY <1>1, SlotFields
  <2>2. PICK f \in Frame : f = q[c].f BY <2>1
  <2>3. HdrLen(f) \in {2, 3} /\ f.n \in Nat /\ FrameLen(f) = HdrLen(f) + f.n BY FrameSizes
  <2>4. FrameLen(f) \in Nat /\ 1 \in 1 .. FrameLen(f) BY <2>3
  <2> QED BY <2>2, <2>4
<1>7. z + 1 > z /\ z + 1 - z = 1 OBVIOUS
<1>8. t[1] = TokenOf(q[c].f, q[c].no, 1) BY <1>5, <1>6, <1>7 DEF Placed
<1> QED BY <1>8 DEF TokenOf

\* What comes after the upgrade is what the frame processor waits for.
LEMMA FrameInStep ==
  ASSUME NEW q, NEW t \in Seq(Token), NEW s, NEW no, NEW c, NEW g, NEW z \in Nat,
         NEW a \in WebsocketArgs, Laid(q, z, t, s, no), Stands(q, z, c, a, g), Len(t) > 0,
         a.done <= a.sz
  PROVE  /\ a.state = 1 => t[1].k = "f1"
         /\ a.state = 2 => t[1].k = IF a.sz > 0 THEN "data" ELSE "f1"
<1>0. a.state \in {1, 2} /\ a.sz \in Nat /\ a.done \in Nat BY WsFields
<1>1. q \in Seq(Slot) /\ Len(q) \in Nat /\ c \in 1 .. Len(q)
  <2>1. q \in Seq(Slot) /\ c \in 1 .. Len(q) BY DEF Laid, Stands
  <2> QED BY <2>1
<1>2. a.state = 1 => t[1].k = "f1" BY <1>1, FrameStarts DEF Stands
<1>3. ASSUME a.state = 2 PROVE t[1].k = IF a.sz > 0 THEN "data" ELSE "f1"
  <2>1. /\ c < Len(q) /\ z = q[c].at + HdrLen(q[c].f) + a.done /\ a.sz = q[c].f.n
        /\ a.sz = 0 \/ a.done < a.sz
    BY <1>3 DEF Stands
  <2>2. c \in 1 .. Len(q) - 1 /\ c + 1 \in 1 .. Len(q) BY <1>1, <2>1
  <2>3. Linked(q, c) /\ Placed(q, c, z, t) BY <2>2 DEF Laid
  <2>4. q[c].f \in Frame /\ q[c].at \in Nat BY <1>1, SlotFields
  <2>5. PICK h : h = HdrLen(q[c].f) OBVIOUS
  <2>6. h \in {2, 3} /\ FrameLen(q[c].f) = h + a.sz
    <3>1. PICK f \in Frame : f = q[c].f BY <2>4
    <3>2. HdrLen(f) \in {2, 3} /\ FrameLen(f) = HdrLen(f) + f.n BY FrameSizes
    <3> QED BY <2>1, <2>5, <3>1, <3>2
  <2>7. CASE a.sz > 0
    <3>1. a.done < a.sz BY <2>1, <2>7
    <3> DEFINE j == h + a.done + 1
    <3>2. /\ j \in 1 .. h + a.sz /\ j # 1 /\ j # 2 /\ ~(j <= h)
      <4>1. ASSUME NEW d \in Nat, NEW n \in Nat, d < n
            PROVE  LET i == h + d + 1 IN i \in 1 .. h + n /\ i # 1 /\ i # 2 /\ ~(i <= h)
        BY <2>6, <4>1
      <4> QED BY <1>0, <3>1, <4>1
    <3>3. q[c].at + j > z /\ q[c].at + j - z = 1
      <4>1. ASSUME NEW x \in Nat, NEW d \in Nat
            PROVE  /\ x + (h + d + 1) > x + h + d
                   /\ x + (h + d + 1) - (x + h + d) = 1
        BY <2>6
      <4>2. z = q[c].at + h + a.done BY <2>1, <2>5
      <4> QED BY <1>0, <2>4, <4>1, <4>2
    <3> HIDE DEF j
    <3>4. t[1] = TokenOf(q[c].f, q[c].no, j) BY <2>3, <2>6, <3>2, <3>3 DEF Placed
    <3>5. t[1] = DataToken(q[c].no) BY <2>5, <3>2, <3>4 DEF TokenOf
    <3> QED BY <2>7, <3>5 DEF DataToken
  <2>8. CASE ~(a.sz > 0)
    <3>1. a.sz = 0 /\ a.done = 0 BY <1>0, <2>8
    <3>2. z = q[c].at + h + 0 BY <2>1, <2>5, <3>1
    <3>3. q[c + 1].at = q[c].at + (h + 0) BY <2>3, <2>6, <3>1 DEF Linked
    <3>4. q[c + 1].at = z
      <4>1. \A x \in Nat : x + h + 0 = x + (h + 0) BY <2>6
      <4> QED BY <2>4, <3>2, <3>3, <4>1
    <3>5. t[1].k = "f1" BY <2>2, <3>4, FrameStarts
    <3> QED BY <2>8, <3>5
  <2> QED BY <2>7, <2>8
<1> QED BY <1>2, <1>3

\* After the upgrade the frame processor is in step.
LEMMA WebsocketInStep ==
  ASSUME IndInv, StreamInv, ~Unframed, pc = "idp", inputDataProcessor = "websocket",
         Rest # << >>
  PROVE  LET a == IDPArgsWebsocket IN
         /\ a.state = 1 => Rest[1].k = "f1"
         /\ a.state = 2 => Rest[1].k = IF a.sz > 0 THEN "data" ELSE "f1"
<1> DEFINE a == IDPArgsWebsocket
<1>1. a \in WebsocketArgs BY DEF IndInv, TypeOK, ArgsOK
<1>2. a.state \in {1, 2} /\ a.sz \in Nat /\ a.done \in Nat BY <1>1, WsFields
<1>3. /\ Rest \in Seq(Token) /\ wire \in Seq(Token) /\ Stream \in Seq(Token)
      /\ Len(Rest) \in Nat /\ Len(wire) \in Nat
  BY StreamSeq, RestSeq
<1>4. Len(Stream) = Len(Rest) + Len(wire) /\ \A j \in 1 .. Len(Rest) : Stream[j] = Rest[j]
  BY <1>3, Joined DEF Stream
<1>5. Len(Rest) # 0 BY <1>3, EmptySeq
<1>6. Stream[1] = Rest[1] /\ Len(Stream) > 0
  <2>1. 1 \in 1 .. Len(Rest) BY <1>3, <1>5
  <2> QED BY <1>3, <1>4, <2>1
<1>7. curState = "WS_POLLING" BY DEF IndInv, FlowInv, PointerInv, ArgsMatch
<1>8. ~Stuck(Stream) BY DEF Stuck
<1>9. PICK q, z, c : /\ z \in Nat /\ Laid(q, z, Stream, sent, msg.no)
                     /\ Stands(q, z, c, a, Len(got))
  BY <1>7, <1>8 DEF StreamInv, WsInv, WsStates
<1> HIDE DEF a
<1>10. CASE a.state = 1
  <2>1. c \in 1 .. Len(q) /\ q[c].at = z BY <1>9, <1>10 DEF Stands
  <2>2. Stream[1].k = "f1" BY <1>3, <1>6, <1>9, <2>1, FrameStarts
  <2> QED BY <1>6, <1>10, <2>2 DEF a
<1>11. CASE a.state = 2
  <2>1. a.done <= a.sz BY <1>11 DEF IndInv, PieceInv, a
  <2>2. Stream[1].k = IF a.sz > 0 THEN "data" ELSE "f1"
    BY <1>1, <1>3, <1>6, <1>9, <1>11, <2>1, FrameInStep
  <2> QED BY <1>6, <1>11, <2>2 DEF a
<1> QED BY <1>2, <1>10, <1>11 DEF a

\* For every server that frames its bodies the way their heads say, any bodies
\* and frames and any cut of the stream into reads: a processor that is called
\* again finds what its arguments say comes next.
THEOREM AlwaysInStep == Spec => [](WellBehaved => InStep)
<1>1. IndInv /\ StreamInv /\ AnswerInv => (WellBehaved => InStep)
  <2> SUFFICES ASSUME IndInv, StreamInv, AnswerInv, WellBehaved, pc = "idp", Rest # << >>,
                      Rest[1].k # "bad"
               PROVE  InStep
    BY DEF InStep
  <2>1. Answers BY DEF AnswerInv
  <2>2. IDPArgsChunked.state \in 1 .. 4 /\ IDPArgsWebsocket.state \in {1, 2}
    <3>1. IDPArgsChunked.state \in 1 .. 4 BY DEF IndInv, TypeOK, ArgsOK
    <3>2. IDPArgsWebsocket \in WebsocketArgs BY DEF IndInv, TypeOK, ArgsOK
    <3> QED BY <3>1, <3>2, WsFields
  <2>3. inputDataProcessor = "raw" => \A j \in 1 .. Len(Rest) : Rest[j].k = "data"
    BY <2>1, BodyInStep
  <2>4. inputDataProcessor = "chunked" =>
          /\ IDPArgsChunked.state = 1 => Rest[1].k = "size"
          /\ IDPArgsChunked.state = 2 => Rest[1].k = "data"
          /\ IDPArgsChunked.state = 3 => Rest[1].k = "cr"
          /\ IDPArgsChunked.state = 4 => Rest[1].k \in {"cr", "text"}
    BY <2>1, BodyInStep
  <2>5. inputDataProcessor = "websocket" =>
          /\ IDPArgsWebsocket.state = 1 => Rest[1].k = "f1"
          /\ IDPArgsWebsocket.state = 2 =>
               Rest[1].k = IF IDPArgsWebsocket.sz > 0 THEN "data" ELSE "f1"
    <3>1. ~Unframed BY DEF WellBehaved, Unframed
    <3> QED BY <3>1, WebsocketInStep
  <2>6. inputDataProcessor = "chunked" =>
          CASE IDPArgsChunked.state = 1 -> Rest[1].k = "size"
            [] IDPArgsChunked.state = 2 -> Rest[1].k = "data"
            [] IDPArgsChunked.state = 3 -> Rest[1].k = "cr"
            [] IDPArgsChunked.state = 4 -> Rest[1].k \in {"cr", "text"}
    <3>1. PICK n : n = IDPArgsChunked.state OBVIOUS
    <3>2. n = 1 \/ n = 2 \/ n = 3 \/ n = 4 BY <2>2, <3>1
    <3> QED BY <2>4, <3>1, <3>2
  <2>7. inputDataProcessor = "websocket" =>
          CASE IDPArgsWebsocket.state = 1 -> Rest[1].k = "f1"
            [] IDPArgsWebsocket.state = 2 ->
                 Rest[1].k = IF IDPArgsWebsocket.sz > 0 THEN "data" ELSE "f1"
    BY <2>2, <2>5
  <2> QED BY <2>3, <2>6, <2>7 DEF InStep
<1> QED BY <1>1, AnswerInvHolds, StreamInvHolds, IndInvHolds, PTL

\* Once the connection is upgraded this needs less of the server: it may have
\* answered an upload before its data, and it may send any frames.
THEOREM FramesAlwaysInStep ==
  Spec => [](inputDataProcessor = "websocket" /\ ~Unframed => InStep)
<1>1. IndInv /\ StreamInv => (inputDataProcessor = "websocket" /\ ~Unframed => InStep)
  <2> SUFFICES ASSUME IndInv, StreamInv, ~Unframed, inputDataProcessor = "websocket",
                      pc = "idp", Rest # << >>
               PROVE  CASE IDPArgsWebsocket.state = 1 -> Rest[1].k = "f1"
                        [] IDPArgsWebsocket.state = 2 ->
                             Rest[1].k = IF IDPArgsWebsocket.sz > 0 THEN "data" ELSE "f1"
    BY DEF InStep
  <2>1. IDPArgsWebsocket \in WebsocketArgs BY DEF IndInv, TypeOK, ArgsOK
  <2>2. IDPArgsWebsocket.state \in {1, 2} BY <2>1, WsFields
  <2> QED BY <2>2, WebsocketInStep
<1> QED BY <1>1, StreamInvHolds, IndInvHolds, PTL
=============================================================================
