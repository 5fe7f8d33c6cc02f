------------------------------ MODULE MCMango ------------------------------
(***************************************************************************)
(* Instances of MangoSM for TLC: the server's replies and frames and the   *)
(* application's headers.                                                  *)
(***************************************************************************)
EXTENDS MangoSM

D(n) == [j \in 1 .. n |-> [k |-> "data", v |-> j]]
CRLF == <<[k |-> "cr"], [k |-> "lf"]>>
Chunk(n, s) == <<[k |-> "size", n |-> n], [k |-> "nl"]>> \o s \o CRLF
LastChunk == <<[k |-> "size", n |-> 0], [k |-> "nl"]>>
Trailer == <<[k |-> "text"]>> \o CRLF

Plain(status, cl, body) ==
    [status |-> status, cl |-> cl, te |-> NotFound, icy |-> FALSE, body |-> body]
InChunks(body) ==
    [status |-> "200", cl |-> NotFound, te |-> Present, icy |-> FALSE, body |-> body]
TwoChunks == InChunks(Chunk(2, D(2)) \o Chunk(1, <<[k |-> "data", v |-> 3]>>)
                      \o LastChunk \o CRLF)
WithTrailer == InChunks(LastChunk \o Trailer \o CRLF)
Continue == Plain("100", NotFound, << >>)
Upgrade == Plain("101", NotFound, << >>)
Icy == [status |-> "200", cl |-> NotFound, te |-> NotFound, icy |-> TRUE, body |-> D(2)]

Bad == <<[k |-> "bad"], [k |-> "nl"]>>
NoSize == InChunks(Bad)
LongCoding == [InChunks(<< >>) EXCEPT !.te = TooLong]
NoCRLF == InChunks(<<[k |-> "size", n |-> 1], [k |-> "nl"]>> \o D(1) \o Bad)

HttpReplies == {Continue, Plain("200", 2, D(2)),
                Plain("204", NotFound, << >>), TwoChunks, WithTrailer, Icy,
                NoSize, NoCRLF, LongCoding, Plain("bad", 0, << >>),
                Plain("200", TooLong, << >>), Plain("200", Malformed, << >>)}
WsReplies == {Upgrade, Continue}

ASSUME ProperReplies == \A r \in HttpReplies \cup WsReplies : Proper(r)

H(name, val) == [name |-> name, val |-> val]
UploadHeaders == {H("cl", 0), H("cl", 1), H("cl", Malformed), H("te", 1), H("expect", 1)}
OnlyChunked == {H("te", 1)}

F(op, fin, n) == [op |-> op, fin |-> fin, mask |-> FALSE, n |-> n, form |-> "short"]
DataFrames == {F("text", TRUE, 1), F("text", FALSE, 2), F("cont", TRUE, 1),
               F("ping", TRUE, 0), F("ping", TRUE, 1), F("close", TRUE, 1),
               [F("text", TRUE, 5) EXCEPT !.form = "ext"]}
OddFrames == {F("pong", TRUE, 0), [F("text", TRUE, 1) EXCEPT !.mask = TRUE],
              [F("text", TRUE, 1) EXCEPT !.form = "huge"], F("text", TRUE, 0)}
WsFrames == DataFrames \cup OddFrames
NoFrames == {}
=============================================================================
