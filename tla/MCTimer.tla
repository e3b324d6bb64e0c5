------------------------------ MODULE MCTimer ------------------------------
(* Timer on small instances.                                               *)
EXTENDS Timer, TLC

CONSTANTS t1, t2

Thr2 == {t1, t2}

(* Shorter and longer than a tick of the timer; 7 us are 14 ticks, whose   *)
(* end is past UINT64_MAX once the clock runs; the product of 9 us does    *)
(* not fit and wraps to 2 ticks.                                           *)
MCDelays == {1, 2, 7, 9}
=============================================================================
