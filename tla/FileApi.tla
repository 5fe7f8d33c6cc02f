------------------------------ MODULE FileApi ------------------------------
(***************************************************************************)
(* What SPIFFS promises its callers (components/spiffs/spiffs.h), with no  *)
(* flash pages, no object headers and no write cache.  A file has a name,  *)
(* the contents its readers see and the contents that would survive a      *)
(* power cut; a descriptor has a file and a position.  SpiffsFiles is      *)
(* shown to implement this specification while the flash is not full.      *)
(***************************************************************************)
EXTENDS Naturals, Sequences

CONSTANTS Ids, NoId, \* file identities, and no file's
          Fds,      \* descriptors
          Names,    \* file names
          NoName,   \* the name of no file
          Bufs,     \* what a call may write: sequences of cells
          Lens,     \* how much a call may read
          Poss      \* where a call may seek to

VARIABLES file,     \* file[i] = [name, data, safe]
          handle,   \* handle[d] = [id, pos], id = NoId if d is closed
          ret       \* the last call and what it returned

NoFile == [name |-> NoName, data |-> <<>>, safe |-> <<>>]
Closed == [id |-> NoId, pos |-> 0]

Returns(call, ok, n, data) ==
    ret' = [call |-> call, ok |-> ok, n |-> n, data |-> data]
Fails(call) == Returns(call, FALSE, 0, <<>>)

Init == /\ file = [i \in Ids |-> NoFile]
        /\ handle = [d \in Fds |-> Closed]
        /\ ret = [call |-> "mount", ok |-> TRUE, n |-> 0, data |-> <<>>]

IsOpen(d) == handle[d].id # NoId
Named(n)  == {i \in Ids : file[i].name = n}

(* The file of d, and no other, has been written back.                     *)
WrittenBack(d) ==
    /\ IsOpen(d)
    /\ \A j \in Ids \ {handle[d].id} : file'[j] = file[j]
    /\ LET f == file[handle[d].id]
       IN  file'[handle[d].id] = [f EXCEPT !.safe = f.data]

Put(data, at, buf) ==
    [k \in 1 .. (IF at + Len(buf) > Len(data) THEN at + Len(buf) ELSE Len(data)) |->
        IF k \in at + 1 .. at + Len(buf) THEN buf[k - at] ELSE data[k]]

Create(n) == /\ Returns("creat", TRUE, 0, <<>>)
             /\ Named(n) = {}
             /\ \E i \in Ids : /\ file[i] = NoFile
                               /\ file' = [file EXCEPT ![i].name = n]
             /\ UNCHANGED handle

(* A new descriptor at position 0; with trunc the file is empty.  A file   *)
(* that is not there is created.                                           *)
Open(d, n, trunc) ==
    /\ Returns("open", TRUE, d, <<>>)
    /\ ~IsOpen(d)
    /\ \E i \in Ids :
          /\ handle' = [handle EXCEPT ![d] = [id |-> i, pos |-> 0]]
          /\ \/ i \in Named(n)
             \/ Named(n) = {} /\ file[i] = NoFile
          /\ file' = [file EXCEPT ![i] =
                        IF trunc \/ i \notin Named(n)
                        THEN [name |-> n, data |-> <<>>, safe |-> <<>>] ELSE @]

(* buf replaces the file's cells at the position, or at the end of the     *)
(* file.  What was pending, or all of it, may reach the flash.             *)
Write(d, buf) ==
    /\ Returns("write", TRUE, Len(buf), <<>>)
    /\ IsOpen(d)
    /\ handle' = [handle EXCEPT ![d].pos = @ + Len(buf)]
    /\ \A j \in Ids \ {handle[d].id} : file'[j] = file[j]
    /\ LET f == file[handle[d].id]
           g == file'[handle[d].id]
       IN  \E at \in {handle[d].pos, Len(f.data)} :
              /\ at <= Len(f.data)
              /\ g.name = f.name
              /\ g.data = Put(f.data, at, buf)
              /\ g.safe \in {f.safe, f.data, g.data}

(* A read returns what the file holds, and writes pending data back first. *)
Read(d, len) ==
    LET p == handle[d].pos
        c == file'[handle[d].id].data
        q == IF p + len > Len(c) THEN Len(c) ELSE p + len
    IN  /\ ret'.call = "read"
        /\ IsOpen(d)
        /\ IF p >= Len(c)
           THEN UNCHANGED handle /\ Fails("read")
           ELSE /\ handle' = [handle EXCEPT ![d].pos = q]
                /\ Returns("read", TRUE, q - p, SubSeq(c, p + 1, q))
        /\ WrittenBack(d)

(* Positions reach from 0 to the length of the file.  (The last one may be *)
(* refused.)                                                               *)
Seek(d, p) ==
    LET c == file'[handle[d].id].data
    IN  /\ Returns("lseek", TRUE, p, <<>>) \/ Fails("lseek")
        /\ IsOpen(d)
        /\ \/ ret'.ok /\ handle' = [handle EXCEPT ![d].pos = p] /\ p <= Len(c)
           \/ ~ret'.ok /\ UNCHANGED handle /\ p >= Len(c)
        /\ WrittenBack(d)

(* The size of the file as its readers see it.                             *)
Stat(d) == /\ ret'.call = "fstat"
           /\ UNCHANGED handle
           /\ WrittenBack(d)
           /\ Returns("fstat", TRUE, Len(file'[handle[d].id].data), <<>>)

(* A flush leaves nothing that a power cut could take.                     *)
Flush(d) == /\ Returns("fflush", TRUE, 0, <<>>)
            /\ WrittenBack(d)
            /\ UNCHANGED handle

Close(d) == /\ Returns("close", TRUE, 0, <<>>)
            /\ handle' = [handle EXCEPT ![d] = Closed]
            /\ WrittenBack(d)

(* A removed file is gone, and so is every descriptor on it.               *)
Remove(i) ==
    /\ Returns("remove", TRUE, 0, <<>>)
    /\ file[i] # NoFile
    /\ file' = [file EXCEPT ![i] = NoFile]
    /\ handle' = [d \in Fds |-> IF handle[d].id = i THEN Closed ELSE handle[d]]

Rename(i, new) ==
    /\ Returns("rename", TRUE, 0, <<>>)
    /\ file[i] # NoFile
    /\ Named(new) = {}
    /\ file' = [file EXCEPT ![i].name = new]
    /\ UNCHANGED handle

Unmount ==
    /\ Returns("unmount", TRUE, 0, <<>>)
    /\ file' = [i \in Ids |-> [file[i] EXCEPT !.safe = file[i].data]]
    /\ handle' = [d \in Fds |-> Closed]

PowerCut ==
    /\ Returns("mount", TRUE, 0, <<>>)
    /\ file' = [i \in Ids |-> [file[i] EXCEPT !.data = file[i].safe]]
    /\ handle' = [d \in Fds |-> Closed]

Next ==
    \/ \E n \in Names : Create(n)
    \/ \E d \in Fds, n \in Names, trunc \in BOOLEAN : Open(d, n, trunc)
    \/ \E d \in Fds, buf \in Bufs : Write(d, buf)
    \/ \E d \in Fds, len \in Lens : Read(d, len)
    \/ \E d \in Fds, p \in Poss : Seek(d, p)
    \/ \E d \in Fds : Stat(d) \/ Flush(d) \/ Close(d)
    \/ \E i \in Ids : Remove(i)
    \/ \E i \in Ids, new \in Names : Rename(i, new)
    \/ Unmount
    \/ PowerCut

Spec == Init /\ [][Next]_<<file, handle, ret>>
=============================================================================
