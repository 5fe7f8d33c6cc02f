----------------------------- MODULE FsmMailbox -----------------------------
(***************************************************************************)
(* What the event queues of the kernel promise to the tasks: each task has *)
(* a bounded first-in-first-out mailbox.  A post to a full mailbox is      *)
(* refused and changes nothing.                                            *)
(***************************************************************************)
EXTENDS Integers, Sequences

CONSTANTS Tasks, Events, Capacity

VARIABLES
    box,        \* [Tasks -> Seq(Events)]
    cur         \* <<task, event>> being handled, or <<>>

boxVars == <<box, cur>>

Init ==
    /\ box = [t \in Tasks |-> <<>>]
    /\ cur = <<>>

Send(t, s) ==
    /\ Len(box[t]) < Capacity
    /\ box' = [box EXCEPT ![t] = Append(@, s)]
    /\ UNCHANGED cur

Take(t) ==
    /\ box[t] # <<>>
    /\ cur = <<>>
    /\ cur' = <<t, Head(box[t])>>
    /\ box' = [box EXCEPT ![t] = Tail(@)]

Done ==
    /\ cur # <<>>
    /\ cur' = <<>>
    /\ UNCHANGED box

Next ==
    \/ \E t \in Tasks : Take(t) \/ \E s \in Events : Send(t, s)
    \/ Done

Spec == Init /\ [][Next]_boxVars
=============================================================================
