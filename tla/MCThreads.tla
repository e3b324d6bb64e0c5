----------------------------- MODULE MCThreads -----------------------------
(* Threads on small instances; Locks and Pages are sets of model values.   *)
EXTENDS Threads, TLC

CONSTANTS l1, p1, p2, p3

MCLocks == {l1}
MCPages == {p1, p2}
MCPages3 == {p1, p2, p3}
NoLocks == {}
PageSymmetry == Permutations(MCPages3)
=============================================================================
