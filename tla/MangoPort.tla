----------------------------- MODULE MangoPort -----------------------------
(***************************************************************************)
(* The port layer of mango (mangoPort.c) and the life of a connection      *)
(* (mango_connect ... mango_ssldisconnect in mango.c): what is allocated   *)
(* and opened on the way to a client and given back on every way out, and  *)
(* the loops that read from and write to a blocking socket while the       *)
(* millisecond clock runs and the peer sends, stalls, closes or resets.    *)
(*                                                                         *)
(* mangoPort_sslread and mangoPort_sslwrite repeat the plain loops with    *)
(* SSL_read and SSL_write; one model stands for both.                      *)
(***************************************************************************)
EXTENDS MangoWire, FiniteSets

CONSTANTS Timeout,    \* milliseconds, the same for reads and writes here
          Starts,     \* clock values at which a call may begin
          ReadLen,    \* room of a read
          MaxParts    \* partial transfers in one call
NoCerts == {"none"}

ASSUME PortAssumption ==
    /\ Timeout \in Nat /\ Timeout + 2 < Word
    /\ Starts \subseteq 0 .. Word - 1

VARIABLES held,    \* what malloc, open, socket and the SSL library gave out
          misuse,  \* something was freed or closed that was not held
          certs,   \* the ssl_ca_crt_key_t of the application
          moved,   \* d2i_X509 has moved its pointer to the CA certificate
          now,     \* mangoPort_timeNow
          call,    \* the port call under way
          ret,     \* what the last one returned, and the bytes it moved
          peer     \* the other end of the socket

resVars == <<held, misuse, certs, moved>>
portVars == <<now, call, ret, peer>>

Idle == [kind |-> "none", len |-> 0, start |-> 0, done |-> 0, phase |-> "out",
         age |-> 0, parts |-> 0]
Connected == [avail |-> 0, room |-> TRUE, gone |-> "no"]

(***************************************************************************)
(* Resources.                                                              *)
(***************************************************************************)
\* take S, then give F back (F last, as the cleanup labels do)
Acquire(S, F) ==
    /\ held' = (held \cup S) \ F
    /\ misuse' = (misuse \/ S \cap held # {} \/ ~(F \subseteq held \cup S))

\* sslcert_load reads the three files in this order; a file that is not asked
\* for is skipped.  What it holds when the step for f fails:
Order == <<"cacrt", "cert", "key">>
Before(f, files) == {Order[i] : i \in {j \in 1 .. 3 : \E k \in 1 .. 3 : Order[k] = f /\ j < k}}
                      \cap files

\* failed3 frees cert and falls into failed2, which frees cacrt; every label
\* closes fd (a failed open leaves -1 there) except the one of the first open
Cleanup(f) ==
    CASE f = "cacrt" -> {"file"}
      [] f = "cert" -> {"cacrt", "file"}
      [] f = "key" -> {"cert", "cacrt", "file"}

sslcert_load(files) ==
    \/ held' = held /\ UNCHANGED <<misuse, certs>>              \* malloc(file)
    \/ \E f \in files :
         \E fd \in {{}, {"certfd"}} :     \* open failed, or malloc after it
            /\ Acquire({"file"} \cup Before(f, files) \cup fd,
                       fd \cup (Cleanup(f) \cap ({"file"} \cup Before(f, files))))
            /\ UNCHANGED certs
    \/ Acquire({"file"} \cup files, {}) /\ certs' = files

sslcert_free ==
    /\ Acquire({}, {"file"} \cup certs)
    /\ certs' = NoCerts

\* mutant: a certificate that cannot be used leaves through the label before
LabelShort(step) ==
    CASE step \in {"SSL_CTX_new", "certificate"} -> 0
      [] step = "d2i_X509" -> 1
      [] step \in {"connect", "SSL_new"} -> 2
      [] step = "SSL_connect" -> 3

\* The labels of mango_sslconnect, in the order they fall through
Label(step) ==
    CASE step = "SSL_CTX_new" -> 0
      [] step \in {"d2i_X509", "certificate"} -> 1
      [] step \in {"connect", "SSL_new"} -> 2
      [] step = "SSL_connect" -> 3

Undo(l) == (IF l >= 3 THEN {"ssl"} ELSE {}) \cup (IF l >= 2 THEN {"fd"} ELSE {})
             \cup (IF l >= 1 THEN {"ctx"} ELSE {}) \cup {"hc"}

Opened(step) ==
    CASE step = "SSL_CTX_new" -> {"hc"}
      [] step \in {"d2i_X509", "certificate", "connect"} -> {"hc", "ctx"}
      [] step = "SSL_new" -> {"hc", "ctx", "fd"}
      [] step = "SSL_connect" -> {"hc", "ctx", "fd", "ssl"}

\* the parsed CA certificate is given to nobody, and the pointer it was read
\* through stands behind the block from then on
TakesCA(step) ==
    /\ "cacrt" \in certs
    /\ step \notin {"SSL_CTX_new", "d2i_X509"}
X509(step) == IF TakesCA(step) THEN {"x509"} ELSE {}

\* in-memory certificates fail the call, certificate files do not
Steps == {"SSL_CTX_new", "connect", "SSL_new", "SSL_connect"}
           \cup (IF "cacrt" \in certs THEN {"d2i_X509"} ELSE {})
           \cup (IF {"cert", "key"} \subseteq certs THEN {"certificate"} ELSE {})

\* failed2 closes hc->socketfd also when it is -1, which closes nothing
SslConnectFails ==
    \/ UNCHANGED <<held, misuse, moved>>                          \* malloc(hc)
    \/ \E step \in Steps :
         /\ Acquire(Opened(step) \cup X509(step),
                    Undo(Label(step)) \ (IF step = "connect" THEN {"fd"} ELSE {}))
         /\ moved' = (moved \/ TakesCA(step))

SslConnects ==
    /\ Acquire({"hc", "ctx", "fd", "ssl"} \cup X509("done"), {})
    /\ moved' = (moved \/ TakesCA("done"))

\* mangoPort_connect closes the socket it could not connect
ConnectFails ==
    /\ \E S \in {{}, {"hc"}, {"hc", "fd"}} : Acquire(S, S)
    /\ UNCHANGED moved
Connects == Acquire({"hc", "fd"}, {}) /\ UNCHANGED moved

mango_disconnect == Acquire({}, {"fd", "hc"})
mango_ssldisconnect == Acquire({}, {"fd", "ssl", "ctx", "hc"})

(***************************************************************************)
(* Reading and writing.                                                    *)
(***************************************************************************)
\* datalen is a uint16_t; a write that begins with parts = MaxParts is taken at
\* once.  Between calls the clock is of no interest.
NoRet == [n |-> 0, done |-> 0]

Begin(kind, len, parts) ==
    \E s \in Starts :
      /\ now' = s
      /\ call' = [Idle EXCEPT !.kind = kind, !.len = len % Half, !.start = s,
                              !.phase = "select", !.parts = parts]
      /\ ret' = NoRet
      /\ UNCHANGED peer

Return(n, done) ==
    /\ call' = Idle /\ now' = 0
    /\ ret' = [n |-> n, done |-> done]

Ready == \/ peer.gone # "no"
         \/ call.kind = "read" /\ peer.avail > 0
         \/ call.kind = "write" /\ peer.room

Select ==
    /\ call.phase = "select" /\ Ready
    /\ call' = [call EXCEPT !.phase = "loop"]
    /\ UNCHANGED <<now, ret, peer>>

\* A select that times out empties the set it watched.  A read returns; a write
\* selects again, now on no socket at all.
SelectTimesOut ==
    /\ call.phase = "select" /\ ~Ready /\ call.age >= Timeout
    /\ \/ call.kind = "read" /\ Return(0, 0)
       \/ /\ call.kind = "write" /\ call' = [call EXCEPT !.phase = "spin"]
          /\ UNCHANGED <<now, ret>>
    /\ UNCHANGED peer

\* A select that fails ends a read, with nothing and without waiting.  A write
\* selects again, on the same set: no step of its own.
SelectFails ==
    /\ call.phase = "select" /\ call.kind = "read" /\ Return(0, 0)
    /\ UNCHANGED peer

\* the test at the end of the loop
Looped(done, part) ==
    IF done < call.len /\ mangoHelper_elapsedTime(call.start, now) < Timeout
    THEN /\ call' = [call EXCEPT !.done = done, !.parts = @ + part]
         /\ UNCHANGED <<now, ret>>
    ELSE Return(done, done)

\* a transfer moves one byte or all there is
Amounts(n) == {k \in {1, n} : k > 0 /\ k <= n /\ (k < n => call.parts < MaxParts)}
Least(a, b) == IF a < b THEN a ELSE b

Recv ==
    /\ call.phase = "loop" /\ call.kind = "read"
    /\ \/ \E k \in Amounts(Least(peer.avail, call.len - call.done)) :
            /\ Looped(call.done + k, 1)
            /\ peer' = [peer EXCEPT !.avail = @ - k]
       \/ /\ peer.avail = 0 /\ peer.gone = "closed"       \* recv returns 0
          /\ Looped(call.done, 0) /\ UNCHANGED peer
       \/ /\ peer.gone = "reset" /\ Return(-1, call.done) /\ UNCHANGED peer

Send ==
    /\ call.phase = "loop" /\ call.kind = "write"
    /\ \/ peer.gone # "no" /\ Return(-1, call.done)
       \/ /\ peer.gone = "no" /\ peer.room
          /\ \E k \in Amounts(call.len - call.done) : Looped(call.done + k, 1)
       \/ /\ peer.gone = "no" /\ call.len = call.done     \* send of nothing
          /\ Looped(call.done, 0)
    /\ UNCHANGED peer

\* the true time is kept beside the clock, a little past the timeout
Tick ==
    /\ call.kind # "none" /\ call.age < Timeout + 2
    /\ now' = (now + 1) % Word
    /\ call' = [call EXCEPT !.age = @ + 1]
    /\ UNCHANGED <<ret, peer>>

(***************************************************************************)
(* The peer: sends a byte, stops taking bytes and takes them again, closes *)
(* or resets the connection.  Only what meets a call is kept apart.        *)
(***************************************************************************)
PeerSends ==
    /\ call.kind = "read" /\ peer.gone = "no" /\ peer.avail < ReadLen
    /\ \E k \in {1, ReadLen - peer.avail} : peer' = [peer EXCEPT !.avail = @ + k]
    /\ UNCHANGED <<now, call, ret>>

PeerStalls ==
    /\ call.kind = "write" /\ peer.gone = "no" /\ peer.room
    /\ peer' = [peer EXCEPT !.room = FALSE]
    /\ UNCHANGED <<now, call, ret>>

PeerDrains ==
    /\ call.kind = "write" /\ peer.gone = "no" /\ ~peer.room
    /\ peer' = [peer EXCEPT !.room = TRUE]
    /\ UNCHANGED <<now, call, ret>>

PeerLeaves ==
    /\ call.kind # "none" /\ peer.gone = "no"
    /\ \/ peer' = [peer EXCEPT !.gone = "closed"]
       \/ peer' = [peer EXCEPT !.gone = "reset", !.avail = 0]
    /\ UNCHANGED <<now, call, ret>>
=============================================================================
