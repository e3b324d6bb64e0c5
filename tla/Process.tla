------------------------------ MODULE Process ------------------------------
(***************************************************************************)
(* Processes and their memory (sys/process.c, sys/elf.c, the page fault    *)
(* path of sys/excp.c and the system calls that copy to and from user      *)
(* memory).  Thread t is a process; one thread runs at a time and kernel   *)
(* code is not preempted, so a step runs from one sleep, or one user       *)
(* instruction, to the next.  switch_to may happen between any two steps   *)
(* and is where the active memory space changes.  Descriptors are the      *)
(* subject of Pipe and Devfs.                                              *)
(***************************************************************************)
EXTENDS Mspace

CONSTANTS NTHR,       (* threads; thread 0 is the main process               *)
          NPROC,      (* entries of the process table                        *)
          UPages,     (* the user pages programs touch                       *)
          Buffers,    (* bound: the pages that buffers of calls are in       *)
          StackPage,  (* UMEM_END_VMA - PAGE_SIZE                            *)
          Images,     (* programs: sequences of segments [vs, fills, flags,  *)
                      (* val]; vs are the pages elf_load maps for p_memsz,   *)
                      (* fills the pages its read and memset touch           *)
          MaxCalls    (* bound: calls of exec and fork                       *)

ASSUME ProcessAssumption ==
  /\ NTHR \in Nat \ {0} /\ NPROC \in Nat \ {0} /\ MaxCalls \in Nat
  /\ UPages \subseteq VPages /\ StackPage \in UPages /\ Buffers \subseteq UPages
  /\ \A img \in Images : \A s \in Range(img) :
       /\ Range(s.vs) \subseteq UPages
       /\ Range(s.vs) \subseteq Range(s.fills) /\ Range(s.fills) \subseteq VPages

Tids == 0 .. NTHR - 1
MAIN_TID == 0
Idle == NTHR               (* the idle thread, which has no process         *)
NULL == -1
Stale == -2                (* a table entry whose process was freed         *)

VARIABLES pm,         (* physical memory                                     *)
          satp,       (* root of the active memory space                     *)
          cur,        (* running thread                                      *)
          pc,         (* where each thread is                                *)
          mtag,       (* root of each process                                *)
          proctab,    (* [0 .. NPROC - 1 -> thread, NULL or Stale]           *)
          call,       (* what a system call that sleeps has still to do      *)
          calls,      (* calls of exec and fork so far                       *)
          lost,       (* history: used pages that nothing refers to any more *)
          kernel      (* "running", "off", "panic" (no page left), or why    *)
                      (* the kernel took a page fault: "fault", "stray" (a   *)
                      (* pointer nobody validated), "overrun" (a segment     *)
                      (* that reaches past the pages mapped for it)          *)

vars == <<pm, satp, cur, pc, mtag, proctab, call, calls, lost, kernel>>

NoCall == <<>>

Init ==
  /\ pm = memory_init
  /\ satp = main_pt2 /\ cur = MAIN_TID
  /\ pc = [t \in Tids |-> IF t = MAIN_TID THEN "boot" ELSE "none"]
  /\ mtag = [t \in Tids |-> main_pt2]
  /\ proctab = [i \in 0 .. NPROC - 1 |-> IF i = 0 THEN MAIN_TID ELSE NULL]
  /\ call = [t \in Tids |-> NoCall]
  /\ calls = 0
  /\ lost = {}
  /\ kernel = "running"

Runs(t, at) == kernel = "running" /\ cur = t /\ pc[t] = at

(* A step that ends with memory m and thread t at place at, unless the     *)
(* pool ran out on the way.                                                *)
Commit(m, t, at, next) ==
  /\ IF m.panic
     THEN kernel' = "panic" /\ UNCHANGED <<pm, pc, call>>
     ELSE /\ pm' = m
          /\ pc' = [pc EXCEPT ![t] = at]
          /\ call' = [call EXCEPT ![t] = next]
          /\ UNCHANGED kernel
  /\ UNCHANGED <<satp, cur>>

(* handle_smode_exception panics.                                          *)
Trap(why) == kernel' = why /\ UNCHANGED <<pm, satp, cur, pc, call>>

(* What a step has made of something, unless it panicked before.           *)
Unless(m, old, new) == IF m.panic THEN old ELSE new

Same == UNCHANGED <<mtag, proctab, lost>>
Counted == calls < MaxCalls /\ calls' = calls + 1

---------------------------------------------------------------------------
(* running_suspend, as far as memory is concerned.                         *)

(* Fault: the new thread runs in the space of the old one.                 *)
space_of_Same(n) == satp

space_of(n) == IF n = Idle THEN satp ELSE mtag[n]

Ready(n) == n # Idle => pc[n] \notin {"none", "exited", "fork"}

switch_to(n) ==
  /\ kernel = "running" /\ n # cur /\ Ready(n)
  /\ cur # Idle => pc[cur] \notin {"boot", "new"}
  /\ satp' = space_of(n)
  /\ cur' = n
  /\ UNCHANGED <<pm, pc, mtag, proctab, call, calls, lost, kernel>>

---------------------------------------------------------------------------
(* User instructions and the exceptions they raise.                        *)

store(t, v, x) ==
  /\ Runs(t, "user")
  /\ allowed(pm, satp, v, {"W", "U"})
  /\ Commit(written(pm, satp, v, x), t, "user", NoCall)
  /\ Same /\ UNCHANGED calls

(* A store page fault.  The fault may also be for a page that is mapped    *)
(* read-only: its physical page is then replaced and never freed.          *)
store_fault(t, v) ==
  /\ Runs(t, "user")
  /\ ~allowed(pm, satp, v, {"W", "U"})
  /\ LET m == handle_umode_page_fault(pm, satp, v)
         old == leaf(pm, satp, v)
     IN /\ Commit(m, t, "user", NoCall)
        /\ lost' = Unless(m, lost, lost \cup (IF PTE_VALID(old) THEN {old.ppn} ELSE {}))
  /\ UNCHANGED <<mtag, proctab, calls>>

(* process_exit up to the first sleep, in uio_close or fsmgr_flushall.     *)
exit_from(t, m) ==
  /\ Commit(m, t, "exit", NoCall)
  /\ proctab' = Unless(m, proctab, [i \in DOMAIN proctab |->
                   IF proctab[i] = t THEN NULL ELSE proctab[i]])
  /\ UNCHANGED <<mtag, lost>>

(* sysexit, or a fatal exception: load and instruction page faults,        *)
(* illegal instructions, misaligned and faulting accesses.                 *)
sysexit(t) == Runs(t, "user") /\ exit_from(t, pm) /\ UNCHANGED calls

(* ... and to its end.  The root of the space is not freed.                *)
exit_discard(t) ==
  /\ Runs(t, "exit")
  /\ pm' = reset_active_mspace(pm, satp)
  /\ satp' = main_pt2
  /\ pc' = [pc EXCEPT ![t] = "exited"]
  /\ lost' = IF t = MAIN_TID THEN lost ELSE lost \cup {mtag[t]}
  /\ kernel' = IF t = MAIN_TID THEN "off" ELSE "running"
  /\ UNCHANGED <<cur, mtag, proctab, call, calls>>

(* syswait: thread_join reclaims a child that has exited (see Threads).    *)
syswait(t, c) ==
  /\ Runs(t, "user")
  /\ pc[c] = "exited"
  /\ pc' = [pc EXCEPT ![c] = "none"]
  /\ UNCHANGED <<pm, satp, cur, mtag, proctab, call, calls, lost, kernel>>

---------------------------------------------------------------------------
(* sysread and syswrite: the buffer is validated, the call sleeps in the   *)
(* device or the cache, and the kernel then copies through the page table. *)

(* Fault: any mapped page will do.                                         *)
buffer_ok_Mapped(t, v, right) == validate(pm, satp, v, {"U"})

buffer_ok(t, v, right) == validate(pm, satp, v, {right, "U"})

sys_rw(t, v, right) ==
  /\ Runs(t, "user")
  /\ buffer_ok(t, v, right)
  /\ Commit(pm, t, "copy", <<v, right>>)
  /\ Same /\ UNCHANGED calls

copy_done(t, x) ==
  LET v == call[t][1]
      right == call[t][2]
  IN /\ Runs(t, "copy")
     /\ IF allowed(pm, satp, v, {right})
        THEN Commit(IF right = "W" THEN written(pm, satp, v, x) ELSE pm, t, "user", NoCall)
        ELSE Trap("fault")
     /\ Same /\ UNCHANGED calls

(* Pointers that no call validates: the descriptors of syspipe, the        *)
(* argument of sysfcntl, the array of pointers (not the strings) of        *)
(* sysexec.  The kernel reads or writes through them as they are.          *)
sys_pointer(t, v, right, x) ==
  /\ Runs(t, "user")
  /\ IF allowed(pm, satp, v, {right})
     THEN Commit(IF right = "W" THEN written(pm, satp, v, x) ELSE pm, t, "user", NoCall)
     ELSE Trap("stray")
  /\ Same /\ UNCHANGED calls

---------------------------------------------------------------------------
(* process_exec.                                                           *)

MayExec(t) == Runs(t, "user") \/ Runs(t, "boot")

(* The arguments do not fit into a page: build_stack fails.                *)
exec_toobig(t) ==
  /\ MayExec(t)
  /\ Counted
  /\ exit_from(t, freed(taken(pm), {fresh(pm)} \cap pm.free))

(* The arguments are copied to a page before the space goes.               *)
process_exec(t, img, x) ==
  LET page == fresh(pm)
      built == [taken(pm) EXCEPT !.ram[page] = x]
  IN /\ MayExec(t)
     /\ Commit(map_page(reset_active_mspace(built, satp), satp, StackPage, page,
                        {"R", "W", "U"}),
               t, "load", <<img, 1, page>>)
     /\ Same /\ Counted

(* elf_load: each segment is mapped writable, read from the file, which    *)
(* sleeps, and given its own flags.  p_memsz is rounded up to pages from   *)
(* wherever p_vaddr is in its page, so segments may share a page: the last *)
(* one mapped replaces it and the page before is lost.                     *)
elf_map(t) ==
  LET img == call[t][1]
      i == call[t][2]
  IN /\ Runs(t, "load") /\ i <= Len(img)
     /\ LET m == alloc_and_map_range(pm, satp, img[i].vs, {"R", "W", "U"})
            old == {leaf(pm, satp, v) : v \in Range(img[i].vs)}
        IN /\ Commit(m, t, "fill", call[t])
           /\ lost' = Unless(m, lost, lost \cup {e.ppn : e \in {e \in old : PTE_VALID(e)}})
     /\ UNCHANGED <<mtag, proctab, calls>>

(* p_filesz bytes are read and zeros follow up to p_memsz, from p_vaddr on *)
(* and across whatever pages that takes.                                   *)
elf_fill(t) ==
  LET img == call[t][1]
      i == call[t][2]
      seg == img[i]
      filled == FoldLeft(LAMBDA m, v : written(m, satp, v, seg.val), pm, seg.fills)
  IN /\ Runs(t, "fill")
     /\ IF \A v \in Range(seg.fills) : allowed(pm, satp, v, {"W"})
        THEN Commit(set_range_flags(filled, satp, seg.vs, seg.flags \cup {"U"}),
                    t, "load", [call[t] EXCEPT ![2] = i + 1])
        ELSE Trap(IF Range(seg.fills) \subseteq Range(seg.vs) THEN "fault" ELSE "overrun")
     /\ Same /\ UNCHANGED calls

exec_jump(t) ==
  /\ Runs(t, "load") /\ call[t][2] > Len(call[t][1])
  /\ Commit(pm, t, "user", NoCall)
  /\ Same /\ UNCHANGED calls

(* elf_load fails: the argument page is freed, mapped as it is.            *)
exec_fail(t) ==
  /\ Runs(t, "load") \/ Runs(t, "fill")
  /\ exit_from(t, freed(pm, {call[t][3]})) /\ UNCHANGED calls

---------------------------------------------------------------------------
(* process_fork.                                                           *)

FreeSlots == {i \in DOMAIN proctab : proctab[i] = NULL}
FreeTids == {n \in Tids : pc[n] = "none"}
First(S) == CHOOSE i \in S : \A j \in S : i <= j

(* The parent waits until the child is done with its trap frame, which     *)
(* stays on the parent's stack.                                            *)
process_fork(t) ==
  LET root == fresh(pm)
      c == First(FreeTids)
      m == clone_active_mspace(pm, satp)
  IN /\ Runs(t, "user") /\ FreeSlots # {} /\ FreeTids # {} /\ Counted
     /\ IF m.panic
        THEN kernel' = "panic" /\ UNCHANGED <<pm, pc, call, mtag, proctab>>
        ELSE /\ pm' = m
             /\ proctab' = [proctab EXCEPT ![First(FreeSlots)] = c]
             /\ mtag' = [mtag EXCEPT ![c] = root]
             /\ pc' = [pc EXCEPT ![t] = "fork", ![c] = "new"]
             /\ call' = [call EXCEPT ![c] = <<t>>]
             /\ UNCHANGED kernel
     /\ UNCHANGED <<satp, cur, lost>>

(* spawn_thread fails: the entry and the copied space stay behind.         *)
fork_emthr(t) ==
  LET root == fresh(pm)
      m == clone_active_mspace(pm, satp)
  IN /\ Runs(t, "user") /\ FreeSlots # {} /\ FreeTids = {} /\ Counted
     /\ Commit(m, t, "user", NoCall)
     /\ proctab' = Unless(m, proctab, [proctab EXCEPT ![First(FreeSlots)] = Stale])
     /\ lost' = Unless(m, lost, lost \cup {root} \cup space_pages(m, root))
     /\ UNCHANGED mtag

fork_emproc(t) == Runs(t, "user") /\ FreeSlots = {} /\ UNCHANGED vars

(* The child's first steps: it wakes the parent and goes to user mode.     *)
fork_func(c) ==
  /\ Runs(c, "new")
  /\ pc' = [pc EXCEPT ![c] = "user", ![call[c][1]] = "user"]
  /\ call' = [call EXCEPT ![c] = NoCall]
  /\ UNCHANGED <<pm, satp, cur, mtag, proctab, calls, lost, kernel>>

Stopped == kernel # "running" /\ UNCHANGED vars

Next ==
  \/ \E n \in Tids \cup {Idle} : switch_to(n)
  \/ \E t \in Tids :
       \/ \E v \in UPages :
            \/ store_fault(t, v)
            \/ \E x \in Values : store(t, v, x)
       \/ \E v \in Buffers, right \in {"R", "W"} :
            \/ sys_rw(t, v, right)
            \/ \E x \in Values : sys_pointer(t, v, right, x)
       \/ \E x \in Values :
            \/ copy_done(t, x)
            \/ \E img \in Images : process_exec(t, img, x)
       \/ sysexit(t) \/ exit_discard(t)
       \/ \E c \in Tids : syswait(t, c)
       \/ exec_toobig(t) \/ elf_map(t) \/ elf_fill(t) \/ exec_jump(t)
       \/ process_fork(t) \/ fork_emthr(t) \/ fork_emproc(t) \/ fork_func(t)
  \/ Stopped

Spec == Init /\ [][Next]_vars

(* ... and with files that elf_load refuses.                               *)
NextElf == Next \/ \E t \in Tids : exec_fail(t)
SpecElf == Init /\ [][NextElf]_vars

---------------------------------------------------------------------------
(* Correctness.                                                            *)

Live == {t \in Tids : pc[t] \notin {"none", "exited"}}
Reached(t) == space_pages(pm, mtag[t]) \cup ({mtag[t]} \ {main_pt2})

(* memory.c:299 "Deep copy": every page of the pool is free, lost, or in   *)
(* exactly one place of one space, whoever forked, executed, faulted or    *)
(* exited in between.  Two processes never share a page and no page that   *)
(* is in use can be handed out again.                                      *)
PagesOwnedOnce ==
  /\ \A t \in Live : Reached(t) \cap (pm.free \cup lost) = {}
  /\ \A t, u \in Live : t # u => Reached(t) \cap Reached(u) = {}
  /\ pm.free \cap lost = {}
  /\ \A t \in Live : \A v, w \in UPages :
       v # w /\ PTE_VALID(leaf(pm, mtag[t], v)) /\ PTE_VALID(leaf(pm, mtag[t], w))
       => leaf(pm, mtag[t], v).ppn # leaf(pm, mtag[t], w).ppn
  /\ pm.free \cup lost \cup UNION {Reached(t) : t \in Live} = 1 .. NPAGES

(* A buffer that was validated before the call slept can be used after it, *)
(* and the pages mapped for a segment can be filled, whatever other        *)
(* processes did meanwhile.  The kernel still takes a page fault, and      *)
(* panics, through the pointers it never validates (sys_pointer) and with  *)
(* segments that reach past their pages (elf_fill): it says nothing of     *)
(* those.                                                                  *)
ValidatedNeverFaults == kernel # "fault"

View(t) ==
  [v \in UPages |->
     LET e == leaf(pm, mtag[t], v) IN
     IF PTE_VALID(e) THEN [val |-> pm.ram[e.ppn], flags |-> e.flags]
     ELSE [val |-> Zero, flags |-> {}]]

Spaces == INSTANCE AddrSpaces WITH
  VPages <- UPages,
  Segments <- UNION {{[vs |-> Range(s.vs), fills |-> Range(s.fills), flags |-> s.flags] :
                        s \in Range(img)} : img \in Images},
  space <- [t \in Tids |-> IF t \in Live THEN View(t)
                           ELSE [v \in UPages |-> [val |-> Zero, flags |-> {}]]]

(* Page tables, copies and switches implement private address spaces,      *)
(* page faults, overlapping segments and stray pointers included.          *)
ImplementsSpaces == Spaces!Spec

(* memory.c:300 "Calling discard_active_mspace on either memory space      *)
(* should not affect the other": the exit of a process changes nothing     *)
(* that another process can see.                                           *)
DiscardIsolated ==
  [][\A t, u \in Tids : t # u /\ u \in Live /\ exit_discard(t) => View(u)' = View(u)]_vars
=============================================================================
