------------------------------ MODULE Threads ------------------------------
(***************************************************************************)
(* The thread manager of the kernel (sys/thread.c) on its single hart:     *)
(* the thread table, the ready list, condition variables, recursive locks, *)
(* join and reclaim, the idle thread, and the two ways an interrupt can    *)
(* enter: between two instructions of a kernel thread while sstatus.SIE is *)
(* set (the handler runs and returns) or in user mode (the handler runs    *)
(* and then the thread yields).                                            *)
(*                                                                         *)
(* Kernel code is never preempted by another thread: the hart changes      *)
(* hands only in running_thread_suspend.  An interrupt handler touches     *)
(* only wait lists and the ready list, so a step below is a piece of       *)
(* kernel code during which no handler can be observed to run: every place *)
(* where one could (the check of a wait loop, the insertion into the wait  *)
(* list, the switch) is a step boundary.                                   *)
(*                                                                         *)
(* The interrupt side is represented by alarm_sleep and the timer handler  *)
(* (sys/timer.c), whose condition has one waiter; when an alarm is due is  *)
(* left to nondeterminism (module Timer has the clock).                    *)
(***************************************************************************)
EXTENDS Integers, Sequences, FiniteSets

CONSTANTS
  NTHR,        (* size of thrtab; main is slot 0, idle the last slot         *)
  Locks,       (* the kernel's struct lock objects                           *)
  Pages,       (* physical pages available for thread stacks                 *)
  MaxDepth     (* bound: recursive acquisitions of one lock                  *)

ASSUME NTHRAssumption == NTHR \in Nat /\ NTHR >= 3
ASSUME DepthAssumption == MaxDepth \in Nat \ {0}

Tids == 0 .. NTHR - 1
Main == 0
Idle == NTHR - 1
NoThread == -1
NoPage == "no page"
NoLock == "no lock"

ASSUME NullAssumption == NoPage \notin Pages /\ NoLock \notin Locks

(* The condition variables: each thread's child_exit, each lock's release, *)
(* and the condition of the alarm on each thread's stack.                  *)
ChildExit(t) == <<"child_exit", t>>
ReleaseOf(l) == <<"release", l>>
Alarm(t)     == <<"alarm", t>>
NoCond       == <<"no condition", 0>>
Conds == {ChildExit(t) : t \in Tids} \cup {ReleaseOf(l) : l \in Locks}
           \cup {Alarm(t) : t \in Tids}

States == {"NONE", "WAITING", "SELF", "READY", "EXITED"}

(* Where a thread's kernel code stands.  "check" is the head of a wait     *)
(* loop (or of the idle loop), "cwait" the call of condition_wait,         *)
(* "suspend" the call of running_thread_suspend; "new" is a context that   *)
(* starts in _thread_startup.                                              *)
Places == {"new", "user", "kern", "isr", "check", "cwait", "suspend",
           "exiting", "idle2", "wfi", "dead"}
Ops == {"none", "join", "acquire", "sleep", "idle"}

VARIABLES
  kernel,     (* halt_success, panic                                         *)
  tp,         (* the running thread                                          *)
  sie,        (* sstatus.SIE                                                 *)
  pie,        (* each thread's saved SIE in alarm_sleep                      *)
  state,      (* thrtab[t]->state; "NONE" is an empty slot                   *)
  parent,     (* thrtab[t]->parent                                           *)
  pc, op,     (* where the thread stands, and in which blocking call         *)
  joining,    (* thread_join's argument (0: any child)                       *)
  locking,    (* lock_acquire's argument                                     *)
  ready,      (* ready_list                                                  *)
  waitq,      (* the wait_list of every condition                            *)
  wcond,      (* thrtab[t]->wait_cond                                        *)
  asleep,     (* threads whose alarm is on sleep_list                        *)
  owner, cnt, (* lock->owner, lock->cnt                                      *)
  held,       (* thrtab[t]->lock_list, as a set                              *)
  stack,      (* the stack page of a spawned thread                          *)
  pages       (* allocated stack pages                                       *)

intrVars == <<sie, pie>>
listVars == <<ready, waitq, wcond>>
lockVars == <<owner, cnt, held>>
memVars  == <<stack, pages>>
callVars == <<joining, locking>>
vars == <<kernel, tp, sie, pie, state, parent, pc, op, joining, locking,
          ready, waitq, wcond, asleep, owner, cnt, held, stack, pages>>

Init ==
  /\ kernel = "running"
  /\ tp = Main
  /\ sie = 1
  /\ pie = [t \in Tids |-> 0]
  /\ state = [t \in Tids |-> IF t = Main THEN "SELF"
                             ELSE IF t = Idle THEN "READY" ELSE "NONE"]
  /\ parent = [t \in Tids |-> IF t = Idle THEN Main ELSE NoThread]
  /\ pc = [t \in Tids |-> IF t = Main THEN "kern"
                          ELSE IF t = Idle THEN "new" ELSE "dead"]
  /\ op = [t \in Tids |-> IF t = Idle THEN "idle" ELSE "none"]
  /\ joining = [t \in Tids |-> 0]
  /\ locking = [t \in Tids |-> NoLock]
  /\ ready = <<Idle>>
  /\ waitq = [c \in Conds |-> <<>>]
  /\ wcond = [t \in Tids |-> NoCond]
  /\ asleep = {}
  /\ owner = [l \in Locks |-> NoThread]
  /\ cnt = [l \in Locks |-> 0]
  /\ held = [t \in Tids |-> {}]
  /\ stack = [t \in Tids |-> NoPage]
  /\ pages = {}

(* A step of the running thread's kernel code at place p.                  *)
At(p) == kernel = "running" /\ pc[tp] = p
Goto(p) == pc' = [pc EXCEPT ![tp] = p]

Exists(t) == state[t] # "NONE"
Children(t) == {c \in Tids : Exists(c) /\ parent[c] = t}

In(x, s) == \E i \in 1 .. Len(s) : s[i] = x

---------------------------------------------------------------------------
(* Conditions.                                                             *)

(* Fault: condition_broadcast that wakes only the first waiter.            *)
condition_broadcast_One(c, st) ==
  LET woken == IF waitq[c] = <<>> THEN <<>> ELSE <<Head(waitq[c])>> IN
  /\ ready' = ready \o woken
  /\ waitq' = [waitq EXCEPT ![c] = IF @ = <<>> THEN <<>> ELSE Tail(@)]
  /\ state' = [t \in Tids |-> IF In(t, woken) THEN "READY" ELSE st[t]]
  /\ wcond' = [t \in Tids |-> IF In(t, woken) THEN NoCond ELSE wcond[t]]

(* condition_broadcast: every waiter, in wait order, becomes READY and     *)
(* goes to the tail of the ready list.  st is the thread states before it. *)
condition_broadcast(c, st) ==
  /\ ready' = ready \o waitq[c]
  /\ waitq' = [waitq EXCEPT ![c] = <<>>]
  /\ state' = [t \in Tids |-> IF In(t, waitq[c]) THEN "READY" ELSE st[t]]
  /\ wcond' = [t \in Tids |-> IF In(t, waitq[c]) THEN NoCond ELSE wcond[t]]

(* Fault: thread_join waits on the child's condition instead of its own.   *)
WaitCond_Child(t) == CASE op[t] = "join"    -> ChildExit(joining[t])
                       [] op[t] = "acquire" -> ReleaseOf(locking[t])
                       [] OTHER             -> Alarm(t)

(* The condition the pending call waits on.                                *)
WaitCond(t) == CASE op[t] = "join"    -> ChildExit(t)
                 [] op[t] = "acquire" -> ReleaseOf(locking[t])
                 [] OTHER             -> Alarm(t)

(* condition_wait up to its call of running_thread_suspend.  An interrupt  *)
(* may come right after it, while the thread is still running.             *)
condition_wait ==
  LET c == WaitCond(tp) IN
  /\ At("cwait")
  /\ state' = [state EXCEPT ![tp] = "WAITING"]
  /\ wcond' = [wcond EXCEPT ![tp] = c]
  /\ waitq' = [waitq EXCEPT ![c] = Append(@, tp)]
  /\ Goto("suspend")
  /\ UNCHANGED <<kernel, tp, intrVars, parent, op, callVars, ready, asleep,
                 lockVars, memVars>>

(* Where a suspended thread continues when it is switched to.              *)
Continuation(t) == IF state[t] = "EXITED" THEN "dead"
                   ELSE IF op[t] = "none" THEN "kern" ELSE "check"

(* Faults: the running thread inserted whatever its state, or at the head. *)
ReadyToSwitch_Always == Append(ready, tp)
ReadyToSwitch_Head == IF state[tp] = "SELF" THEN <<tp>> \o ready ELSE ready

(* The ready list that running_thread_suspend takes the next thread from.  *)
ReadyToSwitch == IF state[tp] = "SELF" THEN Append(ready, tp) ELSE ready

(* The state of thread t after the switch to next.                         *)
SwitchedState(t, next) ==
  IF t = next THEN "SELF"
  ELSE IF t = tp /\ state[tp] = "SELF" THEN "READY" ELSE state[t]

(* Fault: any predecessor that is not runnable loses its stack.            *)
FreesStack_NotSelf(next) == state[tp] # "SELF" /\ pc[next] # "new"

(* Whether the resumed thread frees its predecessor's stack.               *)
FreesStack(next) == state[tp] = "EXITED" /\ pc[next] # "new"

(* running_thread_suspend, _thread_swtch and the resumed thread's          *)
(* continuation.  Only a thread that returns from _thread_swtch frees the  *)
(* stack of an exited predecessor: a new one starts in _thread_startup.    *)
running_thread_suspend ==
  LET next == Head(ReadyToSwitch) IN
  /\ At("suspend")
  /\ ReadyToSwitch # <<>>
  /\ ready' = Tail(ReadyToSwitch)
  /\ state' = [t \in Tids |-> SwitchedState(t, next)]
  /\ tp' = next
  /\ pc' = [t \in Tids |->
              IF t = next /\ pc[t] = "new"
              THEN IF t = Idle THEN "check" ELSE "kern"
              ELSE IF t = tp THEN Continuation(t) ELSE pc[t]]
  /\ IF FreesStack(next)
     THEN /\ pages' = pages \ {stack[tp]}
          /\ stack' = [stack EXCEPT ![tp] = NoPage]
     ELSE UNCHANGED memVars
  /\ UNCHANGED <<kernel, intrVars, parent, op, callVars, waitq, wcond, asleep,
                 lockVars>>

---------------------------------------------------------------------------
(* Thread life cycle.                                                      *)

(* create_thread takes the lowest free slot; without one spawn_thread      *)
(* returns -EMTHR and changes nothing.                                     *)
FreeSlot(c) == /\ c \in Tids \ {Main}
               /\ ~Exists(c)
               /\ \A d \in 1 .. c - 1 : Exists(d)

spawn_thread ==
  /\ At("kern")
  /\ \E c \in Tids, p \in Pages \ pages :
       /\ FreeSlot(c)
       /\ state' = [state EXCEPT ![c] = "READY"]
       /\ parent' = [parent EXCEPT ![c] = tp]
       /\ pc' = [pc EXCEPT ![c] = "new"]
       /\ ready' = Append(ready, c)
       /\ stack' = [stack EXCEPT ![c] = p]
       /\ pages' = pages \cup {p}
  /\ UNCHANGED <<kernel, tp, intrVars, op, callVars, waitq, wcond, asleep,
                 lockVars>>

(* alloc_phys_page panics when no page is left.                            *)
spawn_panic ==
  /\ At("kern")
  /\ \E c \in Tids : FreeSlot(c)
  /\ Pages \ pages = {}
  /\ kernel' = "halted"
  /\ UNCHANGED <<tp, intrVars, state, parent, pc, op, callVars, listVars,
                 asleep, lockVars, memVars>>

(* running_thread_exit by main stops the kernel.                           *)
main_exit ==
  /\ At("kern")
  /\ tp = Main
  /\ kernel' = "halted"
  /\ UNCHANGED <<tp, intrVars, state, parent, pc, op, callVars, listVars,
                 asleep, lockVars, memVars>>

(* running_thread_exit up to release_all_thread_locks.                     *)
running_thread_exit ==
  LET exited == [state EXCEPT ![tp] = "EXITED"] IN
  /\ At("kern")
  /\ tp # Main
  /\ IF parent[tp] # NoThread
     THEN condition_broadcast(ChildExit(parent[tp]), exited)
     ELSE state' = exited /\ UNCHANGED listVars
  /\ Goto("exiting")
  /\ UNCHANGED <<kernel, tp, intrVars, parent, op, callVars, asleep, lockVars,
                 memVars>>

(* Fault: the exiting thread forgets its lock_list.                        *)
LocksToRelease_None == {}

(* The locks an exiting thread still has to release.                       *)
LocksToRelease == held[tp]

(* One iteration of release_all_thread_locks.                              *)
release_all_thread_locks ==
  /\ At("exiting")
  /\ \E l \in LocksToRelease :
       /\ held' = [held EXCEPT ![tp] = @ \ {l}]
       /\ owner' = [owner EXCEPT ![l] = NoThread]
       /\ cnt' = [cnt EXCEPT ![l] = 0]
       /\ condition_broadcast(ReleaseOf(l), state)
  /\ UNCHANGED <<kernel, tp, intrVars, parent, pc, op, callVars, asleep,
                 memVars>>

(* ... and the call of running_thread_suspend that does not return.        *)
exit_suspend ==
  /\ At("exiting")
  /\ LocksToRelease = {}
  /\ Goto("suspend")
  /\ UNCHANGED <<kernel, tp, intrVars, state, parent, op, callVars, listVars,
                 asleep, lockVars, memVars>>

(* Fault: the children keep their parent pointer.                          *)
Reparented_Not(t, c) == parent[t]

(* The parent of t after c is reclaimed.                                   *)
Reparented(t, c) == IF Exists(t) /\ parent[t] = c THEN parent[c] ELSE parent[t]

(* thread_reclaim: the children of c become children of c's parent, and    *)
(* the slot is free again.  The struct thread that knew the stack is freed. *)
thread_reclaim(c) ==
  /\ parent' = [t \in Tids |->
                  IF t = c THEN NoThread ELSE Reparented(t, c)]
  /\ state' = [state EXCEPT ![c] = "NONE"]
  /\ stack' = [stack EXCEPT ![c] = NoPage]

(* thread_join(j) where its checks do not return -EINVAL: j is a child of  *)
(* the caller, or j = 0 and the caller has a child other than idle.        *)
thread_join(j) ==
  /\ At("kern")
  /\ IF j # 0 THEN j \in Children(tp) ELSE Children(tp) \ {Idle} # {}
  /\ op' = [op EXCEPT ![tp] = "join"]
  /\ joining' = [joining EXCEPT ![tp] = j]
  /\ Goto("check")
  /\ UNCHANGED <<kernel, tp, intrVars, state, parent, locking, listVars, asleep,
                 lockVars, memVars>>

(* The exited children thread_join looks for.                              *)
Joinable(t) == IF joining[t] # 0
               THEN {c \in {joining[t]} : state[c] = "EXITED"}
               ELSE {c \in Children(t) \ {Idle} : state[c] = "EXITED"}

(* The wait loop of thread_join: reclaim the exited child with the lowest  *)
(* tid and return it, or wait for child_exit.                              *)
join_found ==
  /\ At("check") /\ op[tp] = "join"
  /\ \E c \in Joinable(tp) :
       /\ \A d \in Joinable(tp) : c <= d
       /\ thread_reclaim(c)
  /\ op' = [op EXCEPT ![tp] = "none"]
  /\ joining' = [joining EXCEPT ![tp] = 0]
  /\ Goto("kern")
  /\ UNCHANGED <<kernel, tp, intrVars, locking, listVars, asleep, lockVars,
                 pages>>

join_wait ==
  /\ At("check") /\ op[tp] = "join"
  /\ Joinable(tp) = {}
  /\ Goto("cwait")
  /\ UNCHANGED <<kernel, tp, intrVars, state, parent, op, callVars, listVars,
                 asleep, lockVars, memVars>>

---------------------------------------------------------------------------
(* Locks.                                                                  *)

(* lock_acquire by the owner counts; by another thread it enters the loop. *)
lock_acquire_again(l) ==
  /\ At("kern")
  /\ owner[l] = tp
  /\ cnt[l] < MaxDepth
  /\ cnt' = [cnt EXCEPT ![l] = @ + 1]
  /\ UNCHANGED <<kernel, tp, intrVars, state, parent, pc, op, callVars,
                 listVars, asleep, owner, held, memVars>>

lock_acquire(l) ==
  /\ At("kern")
  /\ owner[l] # tp
  /\ op' = [op EXCEPT ![tp] = "acquire"]
  /\ locking' = [locking EXCEPT ![tp] = l]
  /\ Goto("check")
  /\ UNCHANGED <<kernel, tp, intrVars, state, parent, joining, listVars, asleep,
                 lockVars, memVars>>

lock_taken ==
  LET l == locking[tp] IN
  /\ At("check") /\ op[tp] = "acquire"
  /\ owner[l] = NoThread
  /\ owner' = [owner EXCEPT ![l] = tp]
  /\ cnt' = [cnt EXCEPT ![l] = 1]
  /\ held' = [held EXCEPT ![tp] = @ \cup {l}]
  /\ op' = [op EXCEPT ![tp] = "none"]
  /\ locking' = [locking EXCEPT ![tp] = NoLock]
  /\ Goto("kern")
  /\ UNCHANGED <<kernel, tp, intrVars, state, parent, joining, listVars, asleep,
                 memVars>>

lock_wait ==
  /\ At("check") /\ op[tp] = "acquire"
  /\ owner[locking[tp]] # NoThread
  /\ Goto("cwait")
  /\ UNCHANGED <<kernel, tp, intrVars, state, parent, op, callVars, listVars,
                 asleep, lockVars, memVars>>

(* Fault: lock_release by a thread that does not own the lock.             *)
MayRelease_Any(l) == TRUE

(* What lock_release asserts.                                              *)
MayRelease(l) == owner[l] = tp /\ cnt[l] # 0

(* lock_release; lock_release_completely when the count reaches zero.      *)
lock_release(l) ==
  /\ At("kern")
  /\ MayRelease(l)
  /\ cnt' = [cnt EXCEPT ![l] = @ - 1]
  /\ IF cnt[l] = 1
     THEN /\ condition_broadcast(ReleaseOf(l), state)
          /\ held' = [held EXCEPT ![tp] = @ \ {l}]
          /\ owner' = [owner EXCEPT ![l] = NoThread]
     ELSE UNCHANGED <<state, listVars, owner, held>>
  /\ UNCHANGED <<kernel, tp, intrVars, parent, pc, op, callVars, asleep, memVars>>

---------------------------------------------------------------------------
(* Interrupts, user mode and the idle thread.                              *)

(* Fault: SIE left as it is.                                               *)
SleepSIE_On == sie

(* SIE from alarm_sleep's insertion into sleep_list on.                    *)
SleepSIE == 0

(* alarm_sleep: interrupts stay off from the insertion into sleep_list to  *)
(* the switch, so that the timer handler finds the waiter.                 *)
alarm_sleep ==
  /\ At("kern")
  /\ pie' = [pie EXCEPT ![tp] = sie]
  /\ sie' = SleepSIE
  /\ asleep' = asleep \cup {tp}
  /\ op' = [op EXCEPT ![tp] = "sleep"]
  /\ Goto("cwait")
  /\ UNCHANGED <<kernel, tp, state, parent, callVars, listVars, lockVars, memVars>>

(* ... and its restore_interrupts(pie) after condition_wait returned.      *)
alarm_sleep_return ==
  /\ At("check") /\ op[tp] = "sleep"
  /\ sie' = pie[tp]
  /\ pie' = [pie EXCEPT ![tp] = 0]
  /\ op' = [op EXCEPT ![tp] = "none"]
  /\ Goto("kern")
  /\ UNCHANGED <<kernel, tp, state, parent, callVars, listVars, asleep, lockVars,
                 memVars>>

(* One alarm of handle_timer_interrupt's loop.  The handler runs in a      *)
(* kernel thread with SIE set, or at "isr" after a trap from user mode.    *)
handle_timer_interrupt(a) ==
  /\ kernel = "running"
  /\ pc[tp] # "user" /\ (sie = 1 \/ pc[tp] = "isr")
  /\ a \in asleep
  /\ asleep' = asleep \ {a}
  /\ condition_broadcast(Alarm(a), state)
  /\ UNCHANGED <<kernel, tp, intrVars, parent, pc, op, callVars, lockVars,
                 memVars>>

(* A trap from user mode clears SIE: an exception or system call ...       *)
umode_exception ==
  /\ At("user")
  /\ sie' = 0
  /\ Goto("kern")
  /\ UNCHANGED <<kernel, tp, pie, state, parent, op, callVars, listVars, asleep,
                 lockVars, memVars>>

(* ... or an interrupt, which user mode cannot mask.                       *)
umode_interrupt ==
  /\ At("user")
  /\ sie' = 0
  /\ Goto("isr")
  /\ UNCHANGED <<kernel, tp, pie, state, parent, op, callVars, listVars, asleep,
                 lockVars, memVars>>

(* handle_umode_interrupt yields when the handler is done.                 *)
handle_umode_interrupt ==
  /\ At("isr")
  /\ Goto("suspend")
  /\ UNCHANGED <<kernel, tp, intrVars, state, parent, op, callVars, listVars,
                 asleep, lockVars, memVars>>

(* sret to user mode.                                                      *)
umode_return ==
  /\ At("kern")
  /\ sie' = 1
  /\ Goto("user")
  /\ UNCHANGED <<kernel, tp, pie, state, parent, op, callVars, listVars, asleep,
                 lockVars, memVars>>

(* idle_thread_func: yield while the ready list is not empty ...           *)
idle_look ==
  /\ At("check") /\ op[tp] = "idle"
  /\ Goto(IF ready # <<>> THEN "suspend" ELSE "idle2")
  /\ UNCHANGED <<kernel, tp, intrVars, state, parent, op, callVars, listVars,
                 asleep, lockVars, memVars>>

(* The second look of idle_thread_func, with interrupts off.               *)
IdleMaySleep == ready = <<>>

(* ... then look again with interrupts off and sleep if it is empty.       *)
idle_sleep ==
  /\ At("idle2")
  /\ IF IdleMaySleep THEN sie' = 0 /\ Goto("wfi")
                     ELSE sie' = 1 /\ Goto("check")
  /\ UNCHANGED <<kernel, tp, pie, state, parent, op, callVars, listVars, asleep,
                 lockVars, memVars>>

(* A pending interrupt ends wfi; it is taken once they are enabled.        *)
idle_wake ==
  /\ At("wfi")
  /\ sie' = 1
  /\ Goto("check")
  /\ UNCHANGED <<kernel, tp, pie, state, parent, op, callVars, listVars, asleep,
                 lockVars, memVars>>

Halted == kernel = "halted" /\ UNCHANGED vars

ThreadStep ==
  \/ condition_wait \/ running_thread_suspend
  \/ spawn_thread \/ spawn_panic \/ main_exit
  \/ running_thread_exit \/ release_all_thread_locks \/ exit_suspend
  \/ \E j \in Tids : thread_join(j)
  \/ join_found \/ join_wait
  \/ \E l \in Locks : lock_acquire_again(l) \/ lock_acquire(l) \/ lock_release(l)
  \/ lock_taken \/ lock_wait
  \/ alarm_sleep \/ alarm_sleep_return
  \/ umode_exception \/ umode_return
  \/ idle_look \/ idle_sleep

InterruptStep ==
  \/ \E a \in Tids : handle_timer_interrupt(a)
  \/ umode_interrupt \/ handle_umode_interrupt \/ idle_wake

Next == ThreadStep \/ InterruptStep \/ Halted

Spec == Init /\ [][Next]_vars

(* What runs goes on: kernel code reaches its next step, and pending       *)
(* interrupts are taken.  A thread in general kernel code ("kern") need    *)
(* not call anything, but it returns to user mode again and again or ends; *)
(* in user mode a timer interrupt, re-armed every 10 ms, is never masked,  *)
(* and an alarm's time comes.                                              *)
CallStep == condition_wait \/ running_thread_suspend \/ release_all_thread_locks
              \/ exit_suspend \/ join_found \/ join_wait \/ lock_taken
              \/ lock_wait \/ alarm_sleep_return \/ idle_look \/ idle_sleep

Fairness ==
  /\ WF_vars(CallStep)
  /\ WF_vars(handle_umode_interrupt)
  /\ WF_vars(idle_wake)
  /\ SF_vars(umode_return)
  /\ SF_vars(umode_interrupt)
  /\ \A t \in Tids \ {Idle} : SF_vars(handle_timer_interrupt(t))

FairSpec == Spec /\ Fairness

---------------------------------------------------------------------------
(* Correctness.                                                            *)

NoDup(s) == \A i, j \in 1 .. Len(s) : s[i] = s[j] => i = j

(* Every variable has its type: list members are slots of thrtab, and a    *)
(* pending lock_acquire names a lock.                                      *)
TypeOK ==
  /\ kernel \in {"running", "halted"}
  /\ tp \in Tids
  /\ sie \in {0, 1}
  /\ pie \in [Tids -> {0, 1}]
  /\ state \in [Tids -> States]
  /\ parent \in [Tids -> Tids \cup {NoThread}]
  /\ pc \in [Tids -> Places]
  /\ op \in [Tids -> Ops]
  /\ joining \in [Tids -> Tids]
  /\ locking \in [Tids -> Locks \cup {NoLock}]
  /\ \A t \in Tids : op[t] = "acquire" => locking[t] \in Locks
  /\ ready \in Seq(Tids)
  /\ waitq \in [Conds -> Seq(Tids)]
  /\ wcond \in [Tids -> Conds \cup {NoCond}]
  /\ asleep \in SUBSET Tids
  /\ owner \in [Locks -> Tids \cup {NoThread}]
  /\ cnt \in [Locks -> Nat]
  /\ held \in [Tids -> SUBSET Locks]
  /\ stack \in [Tids -> Pages \cup {NoPage}]
  /\ pages \in SUBSET Pages

(* A READY thread is on the ready list exactly once, a WAITING one exactly *)
(* once on the wait list of its wait_cond, and no other thread is on any   *)
(* list: list_next is one field, so a thread on two lists, or twice on     *)
(* one, would corrupt both.                                                *)
ListsConsistent ==
  /\ NoDup(ready)
  /\ \A t \in Tids : state[t] = "READY" <=> In(t, ready)
  /\ \A c \in Conds : NoDup(waitq[c])
  /\ \A c \in Conds, t \in Tids :
       In(t, waitq[c]) <=> state[t] = "WAITING" /\ wcond[t] = c

(* Where a thread's code stands agrees with its state: code that runs is   *)
(* SELF until it puts itself on a list or exits, a thread that is switched *)
(* out resumes at a known place, and the idle thread never blocks.         *)
ControlConsistent ==
  /\ pc[tp] \in {"user", "kern", "isr", "check", "cwait", "idle2", "wfi",
                 "exiting", "suspend"}
  /\ pc[tp] # "suspend" => state[tp] = IF pc[tp] = "exiting" THEN "EXITED" ELSE "SELF"
  /\ state[tp] # "NONE"
  /\ pc[tp] \in {"user", "kern", "isr", "exiting"} => op[tp] = "none"
  /\ pc[tp] = "cwait" => op[tp] \in {"join", "acquire", "sleep"}
  /\ \A t \in Tids : state[t] = "EXITED" => op[t] = "none"
  /\ \A t \in Tids : state[t] = "NONE" => op[t] = "none" /\ pc[t] = "dead"
  /\ \A t \in Tids \ {tp} : state[t] = "EXITED" => pc[t] = "dead"
  /\ \A t \in Tids \ {tp} : state[t] \in {"READY", "WAITING"} =>
       /\ pc[t] \in {"new", "kern", "check"}
       /\ pc[t] = "kern" => op[t] = "none"
       /\ pc[t] = "new" /\ t # Idle => op[t] = "none"
  /\ \A t \in Tids : op[t] = "idle" <=> t = Idle
  /\ pc[Idle] \in {"new", "check", "suspend", "idle2", "wfi"}
  /\ state[Idle] \in {"READY", "SELF"}
  /\ state[Main] \notin {"NONE", "EXITED"}

(* Only the running thread is SELF, and running_thread_suspend always      *)
(* finds a thread to switch to (it does not check tlremove's result).      *)
OneRunning ==
  /\ \A t \in Tids : state[t] = "SELF" => t = tp
  /\ pc[tp] = "suspend" => ReadyToSwitch # <<>>

(* owner, cnt and lock_list agree, and a thread that has left the CPU for  *)
(* good owns nothing.                                                      *)
LocksConsistent ==
  /\ \A l \in Locks, t \in Tids : l \in held[t] <=> owner[l] = t
  /\ \A l \in Locks : cnt[l] = 0 <=> owner[l] = NoThread
  /\ \A t \in Tids : state[t] \in {"NONE", "EXITED"} /\ pc[t] # "exiting" => held[t] = {}

(* A thread waits on the condition of the call it is in, and when it is    *)
(* about to wait the reason to wait still holds: the lock is taken, no     *)
(* child it would return has exited, the alarm is on sleep_list and the    *)
(* handler cannot run.  The child named by a pending thread_join stays a   *)
(* child of the caller.                                                    *)
WaitsJustified ==
  /\ \A t \in Tids : state[t] = "WAITING" =>
       op[t] \in {"join", "acquire", "sleep"} /\ wcond[t] = WaitCond(t)
  /\ pc[tp] = "cwait" =>
       CASE op[tp] = "acquire" -> owner[locking[tp]] # NoThread
         [] op[tp] = "join"    -> Joinable(tp) = {}
         [] OTHER              -> sie = 0 /\ tp \in asleep
  /\ \A t \in Tids : op[t] = "join" /\ joining[t] # 0 => joining[t] \in Children(t)

(* No lost wakeups.  Nobody sleeps on a free lock, no parent sleeps in     *)
(* thread_join while a child it would return has exited, and no sleeper's  *)
(* alarm has left sleep_list without waking it.                            *)
NoLostWakeup ==
  /\ \A l \in Locks : owner[l] = NoThread => waitq[ReleaseOf(l)] = <<>>
  /\ \A t \in Tids : waitq[ChildExit(t)] # <<>> => Joinable(t) = {}
  /\ \A t \in Tids : waitq[Alarm(t)] # <<>> => t \in asleep

(* A parent pointer never dangles: the parent of every thread but main is  *)
(* a thread that has not been reclaimed.                                   *)
ParentsExist ==
  \A t \in Tids \ {Main} : Exists(t) => parent[t] \in Tids /\ Exists(parent[t])

(* Main is an ancestor of every thread: a set that has main, and with a    *)
(* thread its children, has every thread there is.  Reparenting in         *)
(* thread_reclaim never closes a circle or loses a child, so every exited  *)
(* thread has an ancestor that can reclaim it.                             *)
ParentsReachMain ==
  \A S \in SUBSET Tids :
    Main \in S /\ (\A t \in S : Children(t) \subseteq S)
    => \A t \in Tids : Exists(t) => t \in S

(* A thread that can still run, or is still running, has its stack page,   *)
(* and no two threads share one.                                           *)
StacksSafe ==
  /\ \A t \in Tids \ {Main, Idle} :
       (state[t] \in {"READY", "WAITING", "SELF"} \/ t = tp) => stack[t] \in pages
  /\ \A t, u \in Tids : stack[t] = stack[u] /\ stack[t] # NoPage => t = u

(* A ready thread runs, whatever user programs do (preemption in user      *)
(* mode and the FIFO ready list).                                          *)
ReadyRuns == \A t \in Tids : state[t] = "READY" ~> (state[t] = "SELF" \/ kernel = "halted")

(* A parent waiting for a child that has exited returns from thread_join.  *)
JoinReturns ==
  \A t \in Tids \ {Idle} : (op[t] = "join" /\ Joinable(t) # {}) ~> (op[t] # "join" \/ kernel = "halted")

(* Every sleeper wakes, although SIE is not saved across a switch.         *)
SleepEnds == \A t \in Tids \ {Idle} : op[t] = "sleep" ~> (op[t] # "sleep" \/ kernel = "halted")
=============================================================================
