-------------------------------- MODULE Pipe --------------------------------
(***************************************************************************)
(* Pipes (sys/uio.c), from syspipe to the last close: the ring buffer with *)
(* its free-running positions, the two conditions, and the reference       *)
(* counts kept by fork, uiodup, close and exit (sys/syscall.c and          *)
(* sys/process.c).                                                         *)
(*                                                                         *)
(* A process in the kernel is not preempted, pipe->lock is never held      *)
(* across a wait and no interrupt handler touches a pipe, so a call runs   *)
(* in one step to its return or to condition_wait; a woken call re-reads   *)
(* everything when its thread is scheduled.  The lock is therefore always  *)
(* free between two steps and is left out.                                 *)
(***************************************************************************)
EXTENDS Integers, Sequences, FiniteSets, SequencesExt

CONSTANTS
  Procs,        (* processes; the first one creates the pipe                 *)
  First,
  Fds,          (* descriptors of a process                                  *)
  CAP,          (* PAGE_SIZE                                                 *)
  IDX,          (* 2^32: rbuf_putc and rbuf_getc compute in uint_fast16_t,   *)
                (* an unsigned int on riscv64-unknown-elf                    *)
  FIELD,        (* 2^64: hpos and tpos are unsigned long long                *)
  Bytes,
  MaxLen,       (* bound: length of one read or write                        *)
  MaxPos,       (* bound: no write starts at this position or later          *)
  MaxRefs       (* bound: references at which forks no longer fail           *)

ASSUME ProcsAssumption == First \in Procs /\ IsFiniteSet(Procs)
ASSUME FdsAssumption == Fds \subseteq Nat /\ IsFiniteSet(Fds)
ASSUME RingAssumption == /\ CAP \in Nat \ {0} /\ IDX \in Nat /\ FIELD \in Nat
                         /\ IDX % CAP = 0 /\ IDX <= FIELD
                         /\ MaxLen \in Nat \ {0} /\ MaxPos \in Nat /\ MaxRefs \in Nat

Ends == {"read", "write"}

VARIABLES
  pipe,         (* "none", "open", "freed"; "corrupt" after use or free of   *)
                (* a freed pipe                                              *)
  uiotab,       (* which end each descriptor of each process refers to       *)
  refcnt,       (* read_uio.refcnt, write_uio.refcnt                         *)
  rbuf,         (* [hpos, tpos, data]                                        *)
  pc,           (* "rwait", "wwait": in condition_wait; "rready", "wready":  *)
                (* woken; "exiting": in process_exit's loop                  *)
  bufsz, buf,   (* room of a waiting read, bytes of a waiting write          *)
  ret           (* what the last step returned                               *)

callVars == <<bufsz, buf>>
vars == <<pipe, uiotab, refcnt, rbuf, pc, bufsz, buf, ret>>

Messages == UNION {[1 .. n -> Bytes] : n \in 1 .. MaxLen}
NoReturn == <<"none", <<>>>>

Init ==
  /\ pipe = "none"
  /\ uiotab = [p \in Procs |-> [fd \in Fds |-> "none"]]
  /\ refcnt = [e \in Ends |-> 0]
  /\ rbuf = [hpos |-> 0, tpos |-> 0, data |-> [i \in 0 .. CAP - 1 |-> 0]]
  /\ pc = [p \in Procs |-> IF p = First THEN "user" ELSE "none"]
  /\ bufsz = [p \in Procs |-> 0]
  /\ buf = [p \in Procs |-> <<>>]
  /\ ret = NoReturn

Refs(p, e) == {fd \in Fds : uiotab[p][fd] = e}

---------------------------------------------------------------------------
(* The ring buffer.                                                        *)

rbuf_empty(rb) == rb.hpos = rb.tpos

(* Fault: one byte more than the buffer holds.                             *)
rbuf_full_Late(rb) == (rb.tpos - rb.hpos) % FIELD = CAP + 1

rbuf_full(rb) == (rb.tpos - rb.hpos) % FIELD = CAP

rbuf_putc(rb, c) == [rb EXCEPT !.data[(rb.tpos % IDX) % CAP] = c,
                               !.tpos = ((rb.tpos % IDX) + 1) % IDX]

(* rbuf_getc returns the byte at the head ...                              *)
HeadByte(rb) == rb.data[(rb.hpos % IDX) % CAP]

(* ... and advances it.                                                    *)
rbuf_getc(rb) == [rb EXCEPT !.hpos = ((rb.hpos % IDX) + 1) % IDX]

(* The write loop: bytes go in until the buffer is full.                   *)
PutBytes(rb, m) ==
  LET put[k \in 0 .. Len(m)] ==
        IF k = 0 THEN [rb |-> rb, n |-> 0]
        ELSE LET a == put[k - 1] IN
             IF rbuf_full(a.rb) THEN a
             ELSE [rb |-> rbuf_putc(a.rb, m[k]), n |-> a.n + 1]
  IN put[Len(m)]

(* The read loop: bytes come out until the buffer is empty or n are read.  *)
GetBytes(rb, n) ==
  LET get[k \in 0 .. n] ==
        IF k = 0 THEN [rb |-> rb, out |-> <<>>]
        ELSE LET g == get[k - 1] IN
             IF rbuf_empty(g.rb) THEN g
             ELSE [rb |-> rbuf_getc(g.rb), out |-> Append(g.out, HeadByte(g.rb))]
  IN get[n]

---------------------------------------------------------------------------
(* Waiting and waking.                                                     *)

(* Fault: a broadcast on the wrong one of the two conditions.              *)
Awake_Other(places, c) ==
  [q \in Procs |-> CASE c = "read_condition" /\ places[q] = "wwait" -> "wready"
                     [] c = "write_condition" /\ places[q] = "rwait" -> "rready"
                     [] OTHER -> places[q]]

(* places after condition_broadcast on c.                                  *)
Awake(places, c) ==
  [q \in Procs |-> CASE c = "read_condition" /\ places[q] = "rwait" -> "rready"
                     [] c = "write_condition" /\ places[q] = "wwait" -> "wready"
                     [] OTHER -> places[q]]

(* The calling process returns to user mode with result r.                 *)
Return(p, r) == /\ bufsz' = [bufsz EXCEPT ![p] = 0]
                /\ buf' = [buf EXCEPT ![p] = <<>>]
                /\ ret' = r

Home(p) == [pc EXCEPT ![p] = "user"]

(* At the head of pipe_read's loop with buffer size n: a call of sysread,  *)
(* or a waiting one that was woken.                                        *)
Reading(p, n) ==
  \/ pc[p] = "user" /\ Refs(p, "read") # {}
  \/ pc[p] = "rready" /\ bufsz[p] = n

Writing(p, m) ==
  \/ pc[p] = "user" /\ Refs(p, "write") # {} /\ rbuf.tpos < MaxPos
  \/ pc[p] = "wready" /\ buf[p] = m

---------------------------------------------------------------------------
(* pipe_read.                                                              *)

read_data(p, n) ==
  LET g == GetBytes(rbuf, n) IN
  /\ Reading(p, n)
  /\ ~rbuf_empty(rbuf)
  /\ rbuf' = g.rb
  /\ pc' = Awake(Home(p), "write_condition")
  /\ Return(p, <<"read", g.out>>)
  /\ UNCHANGED <<pipe, uiotab, refcnt>>

read_eof(p, n) ==
  /\ Reading(p, n)
  /\ rbuf_empty(rbuf) /\ refcnt["write"] = 0
  /\ pc' = Home(p)
  /\ Return(p, <<"eof", <<>>>>)
  /\ UNCHANGED <<pipe, uiotab, refcnt, rbuf>>

read_wait(p, n) ==
  /\ Reading(p, n)
  /\ rbuf_empty(rbuf) /\ refcnt["write"] # 0
  /\ pc' = [pc EXCEPT ![p] = "rwait"]
  /\ bufsz' = [bufsz EXCEPT ![p] = n]
  /\ ret' = NoReturn
  /\ UNCHANGED <<pipe, uiotab, refcnt, rbuf, buf>>

---------------------------------------------------------------------------
(* pipe_write.                                                             *)

(* No reader: the loop and the test after it give up, full or not.         *)
Broken == refcnt["read"] = 0

write_broken(p, m) ==
  /\ Writing(p, m)
  /\ Broken
  /\ pc' = Home(p)
  /\ Return(p, <<"EPIPE", <<>>>>)
  /\ UNCHANGED <<pipe, uiotab, refcnt, rbuf>>

write_wait(p, m) ==
  /\ Writing(p, m)
  /\ ~Broken /\ rbuf_full(rbuf)
  /\ pc' = [pc EXCEPT ![p] = "wwait"]
  /\ buf' = [buf EXCEPT ![p] = m]
  /\ ret' = NoReturn
  /\ UNCHANGED <<pipe, uiotab, refcnt, rbuf, bufsz>>

write_data(p, m) ==
  LET w == PutBytes(rbuf, m) IN
  /\ Writing(p, m)
  /\ ~Broken /\ ~rbuf_full(rbuf)
  /\ rbuf' = w.rb
  /\ pc' = Awake(Home(p), "read_condition")
  /\ Return(p, <<"wrote", SubSeq(m, 1, w.n)>>)
  /\ UNCHANGED <<pipe, uiotab, refcnt>>

---------------------------------------------------------------------------
(* References.                                                             *)

(* A new pipe: empty, with one reference to each end.                      *)
create_pipe ==
  /\ pipe = "none"
  /\ pipe' = "open"
  /\ refcnt' = [e \in Ends |-> 1]

(* syspipe: two free descriptors, chosen by the caller or the lowest ones. *)
syspipe(p) ==
  /\ pc[p] = "user"
  /\ \E w, r \in Fds :
       /\ w # r /\ uiotab[p][w] = "none" /\ uiotab[p][r] = "none"
       /\ uiotab' = [uiotab EXCEPT ![p][w] = "write", ![p][r] = "read"]
  /\ create_pipe
  /\ ret' = NoReturn
  /\ UNCHANGED <<rbuf, pc, callVars>>

(* Fault: uio_addref is forgotten.                                         *)
Added_None(e, n) == refcnt[e]

(* The count of end e after n calls of uio_addref.                         *)
Added(e, n) == refcnt[e] + n

sysuiodup(p, old, new) ==
  /\ pc[p] = "user"
  /\ uiotab[p][old] # "none" /\ uiotab[p][new] = "none"
  /\ uiotab' = [uiotab EXCEPT ![p][new] = uiotab[p][old]]
  /\ refcnt' = [refcnt EXCEPT ![uiotab[p][old]] = Added(uiotab[p][old], 1)]
  /\ ret' = NoReturn
  /\ UNCHANGED <<pipe, rbuf, pc, callVars>>

(* process_fork copies the table and counts every reference ...            *)
process_fork(p, q) ==
  /\ pc[p] = "user" /\ pc[q] = "none"
  /\ uiotab' = [uiotab EXCEPT ![q] = uiotab[p]]
  /\ refcnt' = [e \in Ends |-> Added(e, Cardinality(Refs(p, e)))]
  /\ pc' = [pc EXCEPT ![q] = "user"]
  /\ ret' = NoReturn
  /\ UNCHANGED <<pipe, rbuf, callVars>>

(* ... before it calls spawn_thread, whose failure does not undo it.       *)
process_fork_fails(p) ==
  /\ pc[p] = "user" /\ refcnt["read"] + refcnt["write"] < MaxRefs
  /\ refcnt' = [e \in Ends |-> Added(e, Cardinality(Refs(p, e)))]
  /\ ret' = NoReturn
  /\ UNCHANGED <<pipe, uiotab, rbuf, pc, callVars>>

(* Fault: closing one end frees the pipe.                                  *)
FreesPipe_OneEnd(e, n) == n = 0

(* Whether pipe_close frees the pipe, end e's count having come to n.      *)
FreesPipe(e, n) == n = 0 /\ \A f \in Ends \ {e} : refcnt[f] = 0

(* Fault: pipe_close wakes only the readers.                               *)
AwakeOnClose_Readers(places) == Awake(places, "read_condition")

(* pipe_close broadcasts both conditions.                                  *)
AwakeOnClose(places) == Awake(Awake(places, "write_condition"), "read_condition")

(* uio_close of descriptor fd of p, with pipe_close on the last reference. *)
uio_close(p, fd) ==
  LET e == uiotab[p][fd]
      n == IF refcnt[e] > 0 THEN refcnt[e] - 1 ELSE 0
  IN /\ e # "none"
     /\ uiotab' = [uiotab EXCEPT ![p][fd] = "none"]
     /\ refcnt' = [refcnt EXCEPT ![e] = n]
     /\ pc' = IF n = 0 THEN AwakeOnClose(pc) ELSE pc
     /\ pipe' = IF pipe # "open" THEN "corrupt"
                ELSE IF FreesPipe(e, n) THEN "freed" ELSE pipe
     /\ ret' = NoReturn
     /\ UNCHANGED <<rbuf, callVars>>

sysclose(p, fd) == pc[p] = "user" /\ uio_close(p, fd)

(* process_exit closes the descriptors in order; other processes may run   *)
(* in between, since closing a file may sleep.                             *)
process_exit(p) ==
  /\ pc[p] = "user"
  /\ pc' = [pc EXCEPT ![p] = "exiting"]
  /\ ret' = NoReturn
  /\ UNCHANGED <<pipe, uiotab, refcnt, rbuf, callVars>>

exit_close(p) ==
  /\ pc[p] = "exiting"
  /\ \E fd \in Fds : /\ \A lower \in Fds : lower < fd => uiotab[p][lower] = "none"
                     /\ uio_close(p, fd)

exit_done(p) ==
  /\ pc[p] = "exiting"
  /\ \A fd \in Fds : uiotab[p][fd] = "none"
  /\ pc' = [pc EXCEPT ![p] = "gone"]
  /\ ret' = NoReturn
  /\ UNCHANGED <<pipe, uiotab, refcnt, rbuf, callVars>>

read_step(p) == \E n \in 1 .. MaxLen : read_data(p, n) \/ read_eof(p, n) \/ read_wait(p, n)
write_step(p) == \E m \in Messages : write_data(p, m) \/ write_broken(p, m) \/ write_wait(p, m)

Next ==
  \E p \in Procs :
    \/ syspipe(p)
    \/ read_step(p) \/ write_step(p)
    \/ \E old, new \in Fds : sysuiodup(p, old, new)
    \/ \E q \in Procs : process_fork(p, q)
    \/ process_fork_fails(p)
    \/ \E fd \in Fds : sysclose(p, fd)
    \/ process_exit(p) \/ exit_close(p) \/ exit_done(p)

Spec == Init /\ [][Next]_vars

(* A woken thread is scheduled (Threads, ReadyRuns); an exiting process    *)
(* goes on.                                                                *)
Resume(p) == \/ pc[p] = "rready" /\ read_step(p)
             \/ pc[p] = "wready" /\ write_step(p)

Fairness == \A p \in Procs : WF_vars(Resume(p)) /\ WF_vars(exit_close(p) \/ exit_done(p))

FairSpec == Spec /\ Fairness

---------------------------------------------------------------------------
(* Correctness.                                                            *)

Waiting == {"rwait", "rready", "wwait", "wready"}

(* The descriptors that refer to end e, over all processes.                *)
Descriptors(e) == {h \in Procs \X Fds : uiotab[h[1]][h[2]] = e}

(* Whatever fork, uiodup, close and exit do in whatever order, the count   *)
(* never falls below the references, so no end is closed under a process   *)
(* that still has a descriptor for it.  (It may stay above them: see       *)
(* process_fork_fails.)                                                    *)
RefsCovered == \A e \in Ends : refcnt[e] >= Cardinality(Descriptors(e))

(* The pipe and its page are freed once, after the last close, and never   *)
(* under a process that sleeps in a call on it.                            *)
NoUseAfterFree ==
  /\ pipe # "corrupt"
  /\ \A p \in Procs : pc[p] \in Waiting \/ (\E fd \in Fds : uiotab[p][fd] # "none")
       => pipe = "open"

(* No lost wakeup.  A reader sleeps only while the buffer is empty and a   *)
(* writer exists, a writer only while it is full and a reader exists (as   *)
(* the comment on create_pipe demands).                                    *)
SleepsJustified ==
  \A p \in Procs :
    /\ pc[p] = "rwait" => rbuf_empty(rbuf) /\ refcnt["write"] > 0
    /\ pc[p] = "wwait" => rbuf_full(rbuf) /\ refcnt["read"] > 0

(* The bytes written and not yet read.                                     *)
Unread == (rbuf.tpos - rbuf.hpos) % FIELD
chan == [i \in 1 .. Unread |-> rbuf.data[(rbuf.hpos + i - 1) % CAP]]

Chan == INSTANCE Channel WITH readers <- refcnt["read"], writers <- refcnt["write"]

(* The ring buffer implements the channel: order, no loss, no duplicates,  *)
(* end of stream and broken pipe only when they are due.                   *)
ImplementsChannel == Chan!Spec

(* A reader whose writers are gone returns, and so does a writer whose     *)
(* readers are gone.                                                       *)
CloseUnblocks ==
  \A p \in Procs :
    /\ (pc[p] \in {"rwait", "rready"} /\ refcnt["write"] = 0) ~> pc[p] = "user"
    /\ (pc[p] \in {"wwait", "wready"} /\ refcnt["read"] = 0) ~> pc[p] = "user"
=============================================================================
