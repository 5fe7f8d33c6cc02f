---------------------------- MODULE ObjectStore ----------------------------
(***************************************************************************)
(* What the page level of SPIFFS promises: named files with a content.     *)
(* Moving pages, collecting garbage and mounting are not visible.  A call  *)
(* that fails for lack of room leaves every file as it was, except a write *)
(* (the prefix of the data that found room is in the file) and a truncate  *)
(* (the file may be shorter).                                              *)
(***************************************************************************)
EXTENDS Integers, Sequences

CONSTANTS Names, Values, MaxSize, NoFile

VARIABLES store,   \* the files
          ok       \* the last call succeeded

vars == << store, ok >>

Exists(n) == store[n] # NoFile
Set(n, c) == store' = [store EXCEPT ![n] = c]

\* c with the first k of the values v written at off.
Overlaid(c, off, v, k) ==
    [i \in 1..(IF off + k > Len(c) THEN off + k ELSE Len(c)) |->
        IF i > off /\ i <= off + k THEN v ELSE c[i]]

Init == store = [n \in Names |-> NoFile] /\ ok = TRUE

Create(n) == ~ Exists(n) /\ Set(n, << >>) /\ ok' = TRUE

Write(n, off, v, len) ==
    /\ Exists(n) /\ off <= Len(store[n])
    /\ \/ ok' = TRUE /\ Set(n, Overlaid(store[n], off, v, len))
       \/ ok' = FALSE /\ \E k \in 0..(len - 1) : Set(n, Overlaid(store[n], off, v, k))

Truncate(n) ==
    /\ Exists(n)
    /\ \/ ok' = TRUE /\ Set(n, << >>)
       \/ ok' = FALSE /\ \E k \in 0..Len(store[n]) : Set(n, SubSeq(store[n], 1, k))

Remove(n) == Exists(n) /\ Set(n, NoFile) /\ ok' = TRUE

Rename(n, m) ==
    /\ Exists(n) /\ ~ Exists(m) /\ ok' = TRUE
    /\ store' = [store EXCEPT ![m] = store[n], ![n] = NoFile]

\* Calls that change no file, and calls that fail.
Other == UNCHANGED store /\ ok' \in BOOLEAN

Next ==
    \/ \E n \in Names : Create(n) \/ Truncate(n) \/ Remove(n)
    \/ \E n \in Names, v \in Values, off \in 0..MaxSize, len \in 1..MaxSize : Write(n, off, v, len)
    \/ \E n, m \in Names : Rename(n, m)
    \/ Other

Spec == Init /\ [][Next]_vars
=============================================================================
