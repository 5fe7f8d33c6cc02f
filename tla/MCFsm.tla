------------------------------- MODULE MCFsm -------------------------------
(***************************************************************************)
(* Small instances of the event kernel: a task with two states and one     *)
(* with a single state.                                                    *)
(***************************************************************************)
EXTENDS Fsm, TLC

CONSTANTS S1, S2, S3        \* the state handlers

MCStates == {S1, S2, S3}
MCOwner == [s \in MCStates |-> IF s \in {S1, S2} THEN 0 ELSE 1]
MCInitState == [t \in 0 .. 1 |-> IF t = 0 THEN S1 ELSE S3]

\* the same with one task only, for the timers
OneStates == {S1}
OneOwner == [s \in OneStates |-> 0]
OneInitState == [t \in {0} |-> S1]

\* the kernel only copies and compares user events
SigSymmetry == Permutations(Sigs)
=============================================================================
