---------------------------- MODULE MCMangoApps ----------------------------
(* MangoApps on small instances: hexadecimal digits of base 4 make a byte   *)
(* 16, a 16-bit length 256 and the clock wrap at 65536.                     *)
EXTENDS MangoApps

MCStarts == {0, Word - 2}
MCSizes == {0, 7, 8, Word - 1, Word}
MCCreds == {[user |-> <<67>>, pass |-> << >>],
            [user |-> <<67, 255>>, pass |-> <<105>>],
            [user |-> <<1>>, pass |-> <<0, 200>>],
            [user |-> [i \in 1 .. 20 |-> i], pass |-> [i \in 1 .. 10 |-> i]],
            [user |-> [i \in 1 .. 20 |-> i], pass |-> [i \in 1 .. 11 |-> i]]}
\* around the limits of the three length forms, the last three too long for a
\* 16-bit write
MCPayloads == {LenMax7, LenMax7 + 1, 17, Half - 9, Half - 8, LenMax16, LenMax16 + 1}
=============================================================================
