------------------------------ MODULE MCCache ------------------------------
(* Cache on a small instance: blocks on the device, one right behind its   *)
(* end and one beyond.                                                     *)
EXTENDS Cache, TLC

CONSTANTS t1, t2, t3, b1, b2, end, far, v1, v2

MCThr == {t1, t2, t3}
MCStored == {b1, b2}
MCBeyond == {far}
MCBlocks == MCStored \cup {end, far}
MCValues == {v1, v2}
MCSlots == {1}
Symm == Permutations(MCThr) \cup Permutations(MCStored)
=============================================================================
