------------------------------ MODULE PagePool ------------------------------
(***************************************************************************)
(* What the physical page allocator promises: a pool of pages from which   *)
(* alloc_phys_pages takes any run of consecutive free pages of the size it *)
(* was asked for, and panics only when there is no such run.               *)
(***************************************************************************)
EXTENDS Integers

CONSTANTS NPAGES,     (* pages of the pool, numbered from 1                  *)
          MaxCnt      (* bound: pages asked for in one call                  *)

VARIABLES free,       (* the free pages                                      *)
          kernel      (* "running", or "halted" by panic                     *)

AllPages == 1 .. NPAGES
Run(p, cnt) == p .. p + cnt - 1

Init == free = AllPages /\ kernel = "running"

Alloc(cnt) ==
  /\ kernel = "running"
  /\ \E p \in AllPages : Run(p, cnt) \subseteq free /\ free' = free \ Run(p, cnt)
  /\ UNCHANGED kernel

Panic(cnt) ==
  /\ kernel = "running"
  /\ \A p \in AllPages : ~(Run(p, cnt) \subseteq free)
  /\ kernel' = "halted"
  /\ UNCHANGED free

Free(p, cnt) ==
  /\ kernel = "running"
  /\ Run(p, cnt) \subseteq AllPages \ free
  /\ free' = free \cup Run(p, cnt)
  /\ UNCHANGED kernel

Next == \E cnt \in 1 .. MaxCnt :
          \/ Alloc(cnt) \/ Panic(cnt)
          \/ \E p \in AllPages : Free(p, cnt)

Spec == Init /\ [][Next]_<<free, kernel>>
=============================================================================
