------------------------------ MODULE JsonLists ------------------------------
(***************************************************************************)
(* What the list calls of cJSON promise: every live item has a sequence of *)
(* children, and a call inserts one item that is in no sequence, takes one *)
(* out, or deletes one with everything below it.                           *)
(***************************************************************************)
EXTENDS Integers, Sequences, SequencesExt, FiniteSets

VARIABLES live,   \* the items that exist
          kids    \* the children of every item
vars == << live, kids >>

Below(i) ==
    LET Step(s) == s \cup UNION {ToSet(kids[x]) : x \in s}
        up[n \in Nat] == IF n = 0 THEN {i} ELSE Step(up[n - 1])
    IN  up[Cardinality(live)]
Alone(i) == \A a \in live : i \notin ToSet(kids[a])
Without(s) == [i \in DOMAIN kids |-> IF i \in s THEN << >> ELSE kids[i]]

Init == live = {} /\ kids = [i \in DOMAIN kids |-> << >>]

\* New items, with children among themselves; what exists stays as it is.
Make ==
    /\ live \subseteq live'
    /\ \A i \in live : kids'[i] = kids[i]
    /\ \A i \in live' \ live : ToSet(kids'[i]) \subseteq live' \ live

\* An item, old or new, becomes child n of a.
Insert(a, n, i) ==
    /\ i \in live => Alone(i)
    /\ live' = live \cup {i}
    /\ kids' = [kids EXCEPT ![a] = InsertAt(@, n, i)]

TakeOut(a, n) ==
    /\ UNCHANGED live
    /\ kids' = [kids EXCEPT ![a] = RemoveAt(@, n)]

Drop(s) == live' = live \ s

Delete(i) == Alone(i) /\ Drop(Below(i)) /\ kids' = Without(Below(i))
DeleteFrom(a, n) ==
    /\ Drop(Below(kids[a][n]))
    /\ kids' = [Without(Below(kids[a][n])) EXCEPT ![a] = RemoveAt(@, n)]
Replace(a, n, i) ==
    /\ Alone(i) /\ Drop(Below(kids[a][n]))
    /\ kids' = [Without(Below(kids[a][n])) EXCEPT ![a] = ReplaceAt(@, n, i)]

Next ==
    \/ Make
    \/ \E i \in live : Delete(i)
    \/ \E a \in live :
         \/ \E n \in 1..(Len(kids[a]) + 1), i \in DOMAIN kids : Insert(a, n, i)
         \/ \E n \in DOMAIN kids[a] : TakeOut(a, n) \/ DeleteFrom(a, n) \/ \E i \in live : Replace(a, n, i)

Spec == Init /\ [][Next]_vars
=============================================================================
