--------------------------- MODULE MCSpiffsFiles ---------------------------
(***************************************************************************)
(* Instances of SpiffsFiles: two names, two descriptors, cache pages of    *)
(* two cells.  A buffer of one cell is a small write, one of two cells a   *)
(* big one.                                                                *)
(***************************************************************************)
EXTENDS SpiffsFiles, TLC

OneAndTwos == {<<1>>, <<2, 2>>}
Ones       == {<<1>>, <<1, 1>>}
OneAndAll  == {1, MaxLen}

Rdwr     == {"RD", "WR"}
WrAppend == {"WR", "APPEND"}
Direct   == {"RD", "WR", "DIRECT"}
AllModes == {Rdwr, WrAppend, Direct}

Symmetry == Permutations(Names) \cup Permutations(Ids)

(* Nothing reads the returned value, careful callers never make use of     *)
(* what the work buffer holds, and cache pages differ in nothing but their *)
(* index: a page stands for what it holds.                                 *)
Held(p) == IF p = NoPage THEN NoPage ELSE fs.cp[p]
CarefulView == <<fs.obj, [h \in Fds |-> <<[fs.fd[h] EXCEPT !.cp = NoPage], Held(fs.fd[h].cp)>>],
                 {fs.cp[p] : p \in WritePages(fs)}>>
=============================================================================
