--------------------------- MODULE ThreadsProofs ---------------------------
(***************************************************************************)
(* Proofs about Threads, for every number of threads, every set of locks   *)
(* and every supply of stack pages.                                        *)
(***************************************************************************)
EXTENDS Threads, TLAPS

---------------------------------------------------------------------------
(* Lists.                                                                  *)

(* Appending adds one member, at the end.                                  *)
LEMMA InAppend ==
  ASSUME NEW S, NEW s \in Seq(S), NEW x \in S, NEW y
  PROVE  In(y, Append(s, x)) <=> In(y, s) \/ y = x
BY DEF In

LEMMA NoDupAppend ==
  ASSUME NEW S, NEW s \in Seq(S), NEW x \in S, NoDup(s), ~In(x, s)
  PROVE  NoDup(Append(s, x))
BY DEF In, NoDup

LEMMA AppendNotEmpty ==
  ASSUME NEW S, NEW s \in Seq(S), NEW x \in S
  PROVE  Append(s, x) # <<>>
<1>1. Len(Append(s, x)) = Len(s) + 1 /\ Len(s) \in Nat
  OBVIOUS
<1> QED BY <1>1

(* A non-empty list is its head followed by its tail.                      *)
LEMMA InTail ==
  ASSUME NEW S, NEW s \in Seq(S), s # <<>>, NoDup(s), NEW y
  PROVE  In(y, Tail(s)) <=> In(y, s) /\ y # Head(s)
<1>1. Len(s) \in Nat /\ Len(s) > 0 /\ Head(s) = s[1] /\ Len(Tail(s)) = Len(s) - 1
  OBVIOUS
<1>2. \A i \in 1 .. Len(s) - 1 : Tail(s)[i] = s[i + 1]
  OBVIOUS
<1>3. ASSUME In(y, Tail(s)) PROVE In(y, s) /\ y # Head(s)
  BY <1>1, <1>2, <1>3 DEF In, NoDup
<1>4. ASSUME In(y, s), y # Head(s) PROVE In(y, Tail(s))
  <2>1. PICK i \in 1 .. Len(s) : s[i] = y
    BY <1>4 DEF In
  <2>2. i - 1 \in 1 .. Len(s) - 1 /\ Tail(s)[i - 1] = y
    BY <1>1, <1>2, <1>4, <2>1
  <2> QED BY <1>1, <2>2 DEF In
<1> QED BY <1>3, <1>4

LEMMA NoDupTail ==
  ASSUME NEW S, NEW s \in Seq(S), s # <<>>, NoDup(s)
  PROVE  NoDup(Tail(s)) /\ Tail(s) \in Seq(S) /\ Head(s) \in S /\ In(Head(s), s)
<1>1. Len(s) \in Nat /\ Len(s) > 0 /\ Head(s) = s[1] /\ Len(Tail(s)) = Len(s) - 1
  OBVIOUS
<1>2. \A i \in 1 .. Len(s) - 1 : Tail(s)[i] = s[i + 1]
  OBVIOUS
<1> QED BY <1>1, <1>2 DEF NoDup, In

(* The members of a concatenation.                                         *)
LEMMA InConcat ==
  ASSUME NEW S, NEW s \in Seq(S), NEW u \in Seq(S), NEW y
  PROVE  In(y, s \o u) <=> In(y, s) \/ In(y, u)
<1>1. Len(s \o u) = Len(s) + Len(u) /\ Len(s) \in Nat /\ Len(u) \in Nat
  OBVIOUS
<1>2. \A i \in 1 .. Len(s) + Len(u) :
        (s \o u)[i] = IF i <= Len(s) THEN s[i] ELSE u[i - Len(s)]
  OBVIOUS
<1>3. ASSUME In(y, s) PROVE In(y, s \o u)
  BY <1>1, <1>2, <1>3 DEF In
<1>4. ASSUME In(y, u) PROVE In(y, s \o u)
  <2>1. PICK i \in 1 .. Len(u) : u[i] = y
    BY <1>4 DEF In
  <2>2. Len(s) + i \in 1 .. Len(s) + Len(u) /\ (s \o u)[Len(s) + i] = y
    BY <1>1, <1>2, <2>1
  <2> QED BY <1>1, <2>2 DEF In
<1>5. ASSUME In(y, s \o u) PROVE In(y, s) \/ In(y, u)
  BY <1>1, <1>2, <1>5 DEF In
<1> QED BY <1>3, <1>4, <1>5

LEMMA NoDupConcat ==
  ASSUME NEW S, NEW s \in Seq(S), NEW u \in Seq(S), NoDup(s), NoDup(u),
         \A y : ~(In(y, s) /\ In(y, u))
  PROVE  NoDup(s \o u)
<1>1. Len(s \o u) = Len(s) + Len(u) /\ Len(s) \in Nat /\ Len(u) \in Nat
  OBVIOUS
<1>2. \A i \in 1 .. Len(s) + Len(u) :
        (s \o u)[i] = IF i <= Len(s) THEN s[i] ELSE u[i - Len(s)]
  OBVIOUS
<1>3. \A i \in 1 .. Len(s), j \in 1 .. Len(u) : s[i] # u[j]
  BY DEF In
<1> QED BY <1>1, <1>2, <1>3 DEF NoDup

---------------------------------------------------------------------------
(* Types.                                                                  *)

LEMMA Constants == Main \in Tids /\ Idle \in Tids /\ Main # Idle /\ NoThread \notin Tids
BY NTHRAssumption DEF Tids, Main, Idle, NoThread

(* condition_broadcast keeps the lists well typed.                         *)
LEMMA BroadcastType ==
  ASSUME TypeOK, NEW c \in Conds, NEW st \in [Tids -> States],
         condition_broadcast(c, st)
  PROVE  /\ ready' \in Seq(Tids)
         /\ waitq' \in [Conds -> Seq(Tids)]
         /\ state' \in [Tids -> States]
         /\ wcond' \in [Tids -> Conds \cup {NoCond}]
BY DEF TypeOK, condition_broadcast, States

LEMMA InitType == Init => TypeOK
<1> SUFFICES ASSUME Init PROVE TypeOK
  OBVIOUS
<1>1. ready \in Seq(Tids) /\ waitq \in [Conds -> Seq(Tids)]
  BY Constants DEF Init
<1>2. parent \in [Tids -> Tids \cup {NoThread}] /\ joining \in [Tids -> Tids]
  BY Constants DEF Init, Main
<1>3. \A t \in Tids : op[t] # "acquire"
  BY DEF Init
<1> QED BY <1>1, <1>2, <1>3, Constants DEF Init, TypeOK, States, Places, Ops

USE DEF At, Goto, intrVars, listVars, lockVars, memVars, callVars

LEMMA TypeNext == TypeOK /\ [Next]_vars => TypeOK'
<1> SUFFICES ASSUME TypeOK, [Next]_vars PROVE TypeOK'
  OBVIOUS
<1> USE Constants
<1>1. CASE condition_wait
  <2>1. WaitCond(tp) \in Conds
    BY DEF TypeOK, WaitCond, Conds
  <2> QED BY <1>1, <2>1 DEF TypeOK, condition_wait, States, Places
<1>2. CASE running_thread_suspend
  <2>1. ReadyToSwitch \in Seq(Tids)
    BY DEF TypeOK, ReadyToSwitch
  <2>2. Head(ReadyToSwitch) \in Tids /\ Tail(ReadyToSwitch) \in Seq(Tids)
    BY <1>2, <2>1 DEF running_thread_suspend
  <2> QED BY <1>2, <2>2 DEF TypeOK, running_thread_suspend, SwitchedState,
                            Continuation, States, Places
<1>3. CASE spawn_thread
  BY <1>3 DEF TypeOK, spawn_thread, FreeSlot, States, Places
<1>4. CASE spawn_panic \/ main_exit
  BY <1>4 DEF TypeOK, spawn_panic, main_exit
<1>5. CASE running_thread_exit
  <2> DEFINE exited == [state EXCEPT ![tp] = "EXITED"]
  <2>1. exited \in [Tids -> States]
    BY DEF TypeOK, States
  <2>2. CASE parent[tp] # NoThread
    <3>1. ChildExit(parent[tp]) \in Conds
      BY <2>2 DEF TypeOK, Conds
    <3>2. condition_broadcast(ChildExit(parent[tp]), exited)
      BY <1>5, <2>2 DEF running_thread_exit
    <3> HIDE DEF exited
    <3>3. /\ ready' \in Seq(Tids)
          /\ waitq' \in [Conds -> Seq(Tids)]
          /\ state' \in [Tids -> States]
          /\ wcond' \in [Tids -> Conds \cup {NoCond}]
      BY <2>1, <3>1, <3>2, BroadcastType
    <3> QED BY <1>5, <3>3 DEF TypeOK, running_thread_exit, Places
  <2>3. CASE parent[tp] = NoThread
    BY <1>5, <2>1, <2>3 DEF TypeOK, running_thread_exit, Places
  <2> QED BY <2>2, <2>3
<1>6. CASE release_all_thread_locks
  <2>1. PICK l \in LocksToRelease :
          /\ held' = [held EXCEPT ![tp] = @ \ {l}]
          /\ owner' = [owner EXCEPT ![l] = NoThread]
          /\ cnt' = [cnt EXCEPT ![l] = 0]
          /\ condition_broadcast(ReleaseOf(l), state)
    BY <1>6 DEF release_all_thread_locks
  <2>2. l \in Locks /\ ReleaseOf(l) \in Conds
    BY DEF TypeOK, LocksToRelease, Conds
  <2>3. state \in [Tids -> States]
    BY DEF TypeOK
  <2>4. /\ ready' \in Seq(Tids)
        /\ waitq' \in [Conds -> Seq(Tids)]
        /\ state' \in [Tids -> States]
        /\ wcond' \in [Tids -> Conds \cup {NoCond}]
    BY <2>1, <2>2, <2>3, BroadcastType
  <2> QED BY <1>6, <2>1, <2>2, <2>4 DEF TypeOK, release_all_thread_locks
<1>7. CASE exit_suspend
  BY <1>7 DEF TypeOK, exit_suspend, Places
<1>8. ASSUME NEW j \in Tids, thread_join(j) PROVE TypeOK'
  BY <1>8 DEF TypeOK, thread_join, Places, Ops
<1>9. CASE join_found
  <2>1. PICK c \in Joinable(tp) : thread_reclaim(c)
    BY <1>9 DEF join_found
  <2>2. c \in Tids
    BY DEF TypeOK, Joinable, Children
  <2> QED BY <1>9, <2>1, <2>2 DEF TypeOK, join_found, thread_reclaim, Reparented,
                                 States, Places, Ops, Main
<1>10. CASE join_wait \/ lock_wait
  BY <1>10 DEF TypeOK, join_wait, lock_wait, Places
<1>11. ASSUME NEW l \in Locks, lock_acquire_again(l) \/ lock_acquire(l) PROVE TypeOK'
  <2>1. CASE lock_acquire_again(l)
    <3>1. cnt' \in [Locks -> Nat]
      BY <2>1 DEF TypeOK, lock_acquire_again
    <3> QED BY <2>1, <3>1 DEF TypeOK, lock_acquire_again
  <2>2. CASE lock_acquire(l)
    BY <2>2 DEF TypeOK, lock_acquire, Places, Ops
  <2> QED BY <1>11, <2>1, <2>2
<1>12. ASSUME NEW l \in Locks, lock_release(l) PROVE TypeOK'
  <2>1. cnt' \in [Locks -> Nat]
    BY <1>12 DEF TypeOK, lock_release, MayRelease
  <2>2. CASE cnt[l] = 1
    <3>1. ReleaseOf(l) \in Conds /\ state \in [Tids -> States]
      BY DEF TypeOK, Conds
    <3>2. /\ ready' \in Seq(Tids)
          /\ waitq' \in [Conds -> Seq(Tids)]
          /\ state' \in [Tids -> States]
          /\ wcond' \in [Tids -> Conds \cup {NoCond}]
      BY <1>12, <2>2, <3>1, BroadcastType DEF lock_release
    <3>a. /\ held' = [held EXCEPT ![tp] = @ \ {l}]
          /\ owner' = [owner EXCEPT ![l] = NoThread]
      BY <1>12, <2>2 DEF lock_release
    <3>3. held' \in [Tids -> SUBSET Locks] /\ owner' \in [Locks -> Tids \cup {NoThread}]
      BY <3>a DEF TypeOK
    <3> QED BY <1>12, <2>1, <3>2, <3>3 DEF TypeOK, lock_release
  <2>3. CASE cnt[l] # 1
    BY <1>12, <2>1, <2>3 DEF TypeOK, lock_release
  <2> QED BY <2>2, <2>3
<1>13. CASE lock_taken
  BY <1>13 DEF TypeOK, lock_taken, Places, Ops
<1>14. CASE alarm_sleep \/ alarm_sleep_return
  <2>1. CASE alarm_sleep
    BY <2>1 DEF TypeOK, alarm_sleep, SleepSIE, Places, Ops
  <2>2. CASE alarm_sleep_return
    BY <2>2 DEF TypeOK, alarm_sleep_return, Places, Ops
  <2> QED BY <1>14, <2>1, <2>2
<1>15. CASE umode_exception \/ umode_return \/ umode_interrupt \/ handle_umode_interrupt
  BY <1>15 DEF TypeOK, umode_exception, umode_return, umode_interrupt,
               handle_umode_interrupt, Places
<1>16. CASE idle_look \/ idle_sleep \/ idle_wake
  BY <1>16 DEF TypeOK, idle_look, idle_sleep, idle_wake, Places
<1>17. ASSUME NEW a \in Tids, handle_timer_interrupt(a) PROVE TypeOK'
  <2>1. Alarm(a) \in Conds /\ state \in [Tids -> States]
    BY DEF TypeOK, Conds
  <2>2. /\ ready' \in Seq(Tids)
        /\ waitq' \in [Conds -> Seq(Tids)]
        /\ state' \in [Tids -> States]
        /\ wcond' \in [Tids -> Conds \cup {NoCond}]
    BY <1>17, <2>1, BroadcastType DEF handle_timer_interrupt
  <2> QED BY <1>17, <2>2 DEF TypeOK, handle_timer_interrupt
<1>18. CASE UNCHANGED vars
  BY <1>18 DEF TypeOK, vars
<1> QED
  BY <1>1, <1>2, <1>3, <1>4, <1>5, <1>6, <1>7, <1>8, <1>9, <1>10, <1>11, <1>12,
     <1>13, <1>14, <1>15, <1>16, <1>17, <1>18
  DEF Next, ThreadStep, InterruptStep, Halted

(* Every reachable state is well typed: no list ever holds a value that is *)
(* not a slot of thrtab, and no lock count becomes negative.               *)
THEOREM TypeCorrect == Spec => []TypeOK
<1>1. Init => TypeOK
  BY InitType
<1>2. TypeOK /\ [Next]_vars => TypeOK'
  BY TypeNext
<1> QED BY <1>1, <1>2, PTL DEF Spec

---------------------------------------------------------------------------
(* Scheduling: the lists, the thread states and the control points.        *)

(* The strengthening under which ListsConsistent is inductive.             *)
SchedInv == TypeOK /\ ListsConsistent /\ ControlConsistent /\ OneRunning

(* Thread states st that differ from the current ones only for threads     *)
(* that are on no list, before and after.                                  *)
OffLists(st) ==
  /\ st \in [Tids -> States]
  /\ \A t \in Tids : st[t] # state[t] =>
       state[t] \notin {"READY", "WAITING"} /\ st[t] \notin {"READY", "WAITING"}

(* condition_broadcast moves the waiters, and only them, to READY, and     *)
(* keeps every thread on the list its state says.                          *)
LEMMA BroadcastLists ==
  ASSUME TypeOK, ListsConsistent, NEW c \in Conds, NEW st, OffLists(st),
         condition_broadcast(c, st)
  PROVE  /\ ListsConsistent'
         /\ \A t \in Tids : \/ state'[t] = st[t] /\ wcond'[t] = wcond[t]
                            \/ state[t] = "WAITING" /\ wcond[t] = c /\ state'[t] = "READY"
<1>1. ready \in Seq(Tids) /\ waitq[c] \in Seq(Tids)
  BY DEF TypeOK
<1>2. \A t \in Tids : In(t, waitq[c]) <=> state[t] = "WAITING" /\ wcond[t] = c
  BY DEF ListsConsistent
<1>3. \A t : In(t, waitq[c]) \/ In(t, ready) => t \in Tids
  BY <1>1 DEF In
<1>4. /\ ready' = ready \o waitq[c]
      /\ waitq' = [waitq EXCEPT ![c] = <<>>]
      /\ state' = [t \in Tids |-> IF In(t, waitq[c]) THEN "READY" ELSE st[t]]
      /\ wcond' = [t \in Tids |-> IF In(t, waitq[c]) THEN NoCond ELSE wcond[t]]
  BY DEF condition_broadcast
<1>5. \A t : In(t, ready') <=> In(t, ready) \/ In(t, waitq[c])
  BY <1>1, <1>4, InConcat
<1>6. NoDup(ready')
  <2>1. \A t : ~(In(t, ready) /\ In(t, waitq[c]))
    BY <1>2, <1>3 DEF ListsConsistent
  <2> QED BY <1>1, <1>4, <2>1, NoDupConcat DEF ListsConsistent
<1>7. \A t \in Tids : state'[t] = "READY" <=> In(t, ready')
  BY <1>2, <1>4, <1>5 DEF ListsConsistent, OffLists
<1>8. \A d \in Conds : NoDup(waitq'[d])
  <2>1. NoDup(<<>>)
    BY DEF NoDup
  <2> QED BY <1>4, <2>1 DEF ListsConsistent, TypeOK
<1>9. ASSUME NEW d \in Conds, NEW t \in Tids
      PROVE  In(t, waitq'[d]) <=> state'[t] = "WAITING" /\ wcond'[t] = d
  <2>1. CASE d = c
    <3>1. ~In(t, waitq'[d])
      BY <1>4, <2>1 DEF In, TypeOK
    <3> QED BY <1>2, <1>4, <2>1, <3>1 DEF OffLists
  <2>2. CASE d # c
    <3>1. waitq'[d] = waitq[d]
      BY <1>4, <2>2 DEF TypeOK
    <3>2. In(t, waitq[d]) <=> state[t] = "WAITING" /\ wcond[t] = d
      BY DEF ListsConsistent
    <3> QED BY <1>2, <1>4, <2>2, <3>1, <3>2 DEF OffLists
  <2> QED BY <2>1, <2>2
<1>10. ListsConsistent'
  BY <1>6, <1>7, <1>8, <1>9 DEF ListsConsistent
<1> QED BY <1>2, <1>4, <1>10

(* A step that leaves the lists alone keeps them consistent if the thread  *)
(* states it changes are those of threads on no list.                      *)
LEMMA KeepLists ==
  ASSUME TypeOK, ListsConsistent, OffLists(state'), UNCHANGED listVars
  PROVE  ListsConsistent'
BY DEF ListsConsistent, OffLists, NoDup, In

LEMMA InitSched == Init => SchedInv
<1> SUFFICES ASSUME Init PROVE SchedInv
  OBVIOUS
<1> USE Constants
<1>1. TypeOK
  BY InitType
<1>2. ListsConsistent
  <2>1. Len(ready) = 1 /\ ready[1] = Idle
    BY DEF Init
  <2>2. \A c \in Conds : Len(waitq[c]) = 0
    BY DEF Init
  <2>3. \A t \in Tids : state[t] = "READY" <=> t = Idle
    BY DEF Init
  <2>4. \A t \in Tids : state[t] # "WAITING"
    BY DEF Init
  <2> QED BY <2>1, <2>2, <2>3, <2>4 DEF ListsConsistent, NoDup, In
<1>3. ControlConsistent
  BY DEF Init, ControlConsistent
<1>4. OneRunning
  BY DEF Init, OneRunning
<1> QED BY <1>1, <1>2, <1>3, <1>4 DEF SchedInv

SelfRuns == \A t \in Tids : state[t] = "SELF" => t = tp

(* The idle thread is READY or running, so there is always a thread to     *)
(* switch to.                                                              *)
LEMMA AlwaysReady ==
  TypeOK /\ ListsConsistent /\ ControlConsistent /\ SelfRuns => OneRunning
<1> SUFFICES ASSUME TypeOK, ListsConsistent, ControlConsistent, SelfRuns PROVE OneRunning
  OBVIOUS
<1> USE DEF SelfRuns
<1>a. Append(ready, tp) # <<>>
  BY AppendNotEmpty DEF TypeOK
<1>1. CASE state[Idle] = "READY"
  <2>1. In(Idle, ready)
    BY <1>1, Constants DEF ListsConsistent
  <2>2. ready # <<>> /\ ready \in Seq(Tids)
    BY <2>1 DEF In, TypeOK
  <2> QED BY <1>a, <2>2 DEF OneRunning, ReadyToSwitch
<1>2. CASE state[Idle] = "SELF"
  <2>1. tp = Idle /\ state[tp] = "SELF"
    BY <1>2, Constants
  <2> QED BY <1>a, <2>1 DEF OneRunning, ReadyToSwitch
<1> QED BY <1>1, <1>2 DEF ControlConsistent

(* condition_wait puts the running thread on one wait list.                *)
LEMMA WaitLists ==
  ASSUME SchedInv, condition_wait
  PROVE  ListsConsistent'
<1> DEFINE c == WaitCond(tp)
<1>1. c \in Conds /\ tp \in Tids /\ waitq[c] \in Seq(Tids)
  BY DEF SchedInv, TypeOK, WaitCond, Conds
<1>2. state[tp] = "SELF"
  BY DEF SchedInv, ControlConsistent, condition_wait
<1>3. /\ state' = [state EXCEPT ![tp] = "WAITING"]
      /\ wcond' = [wcond EXCEPT ![tp] = c]
      /\ waitq' = [waitq EXCEPT ![c] = Append(waitq[c], tp)]
      /\ ready' = ready
  BY DEF condition_wait
<1> HIDE DEF c
<1>4. \A d \in Conds : ~In(tp, waitq[d])
  BY <1>1, <1>2 DEF SchedInv, ListsConsistent
<1>5. \A t \in Tids : state'[t] = "READY" <=> In(t, ready')
  BY <1>1, <1>2, <1>3 DEF SchedInv, ListsConsistent, TypeOK
<1>6. \A d \in Conds : NoDup(waitq'[d])
  BY <1>1, <1>3, <1>4, NoDupAppend DEF SchedInv, ListsConsistent, TypeOK
<1>7. \A t \in Tids : In(t, waitq'[c]) <=> In(t, waitq[c]) \/ t = tp
  BY <1>1, <1>3, InAppend DEF SchedInv, TypeOK
<1>8. ASSUME NEW d \in Conds, NEW t \in Tids
      PROVE  In(t, waitq'[d]) <=> state'[t] = "WAITING" /\ wcond'[t] = d
  <2>1. In(t, waitq[d]) <=> state[t] = "WAITING" /\ wcond[t] = d
    BY DEF SchedInv, ListsConsistent
  <2>2. In(t, waitq'[d]) <=> In(t, waitq[d]) \/ (t = tp /\ d = c)
    <3>1. CASE d = c
      BY <1>7, <3>1
    <3>2. CASE d # c
      <4>1. waitq'[d] = waitq[d]
        BY <1>1, <1>3, <3>2 DEF SchedInv, TypeOK
      <4> QED BY <3>2, <4>1
    <3> QED BY <3>1, <3>2
  <2> QED BY <1>1, <1>2, <1>3, <2>1, <2>2 DEF SchedInv, TypeOK
<1> QED BY <1>3, <1>5, <1>6, <1>8 DEF SchedInv, ListsConsistent

(* running_thread_suspend takes the head off the ready list, after putting *)
(* the running thread on it when it is still SELF.                         *)
LEMMA SwitchLists ==
  ASSUME SchedInv, running_thread_suspend
  PROVE  /\ ListsConsistent'
         /\ Head(ReadyToSwitch) \in Tids
         /\ state[Head(ReadyToSwitch)] = "READY"
              \/ (Head(ReadyToSwitch) = tp /\ state[tp] = "SELF")
<1> DEFINE r == ReadyToSwitch
           next == Head(r)
<1>1. tp \in Tids /\ ready \in Seq(Tids) /\ r \in Seq(Tids) /\ r # <<>>
  BY DEF SchedInv, TypeOK, ReadyToSwitch, running_thread_suspend
<1>2. /\ NoDup(r)
      /\ \A t \in Tids : In(t, r) <=>
           state[t] = "READY" \/ (t = tp /\ state[tp] = "SELF")
  <2>1. CASE state[tp] = "SELF"
    <3>1. ~In(tp, ready)
      BY <1>1, <2>1 DEF SchedInv, ListsConsistent
    <3>2. NoDup(Append(ready, tp)) /\ \A t : In(t, Append(ready, tp)) <=> In(t, ready) \/ t = tp
      BY <1>1, <3>1, NoDupAppend, InAppend DEF SchedInv, ListsConsistent
    <3> QED BY <2>1, <3>2 DEF ReadyToSwitch, SchedInv, ListsConsistent
  <2>2. CASE state[tp] # "SELF"
    BY <2>2 DEF ReadyToSwitch, SchedInv, ListsConsistent
  <2> QED BY <2>1, <2>2
<1>3. /\ ready' = Tail(r)
      /\ state' = [t \in Tids |-> SwitchedState(t, next)]
      /\ waitq' = waitq /\ wcond' = wcond
  BY DEF running_thread_suspend
<1> HIDE DEF r
<1>4. NoDup(ready') /\ next \in Tids /\ In(next, r)
  BY <1>1, <1>2, <1>3, NoDupTail
<1>5. \A t : In(t, ready') <=> In(t, r) /\ t # next
  BY <1>1, <1>2, <1>3, InTail
<1> HIDE DEF next
<1>6. \A t \in Tids : state'[t] = "READY" <=> In(t, ready')
  BY <1>2, <1>3, <1>4, <1>5 DEF SwitchedState
<1>7. \A t \in Tids : state'[t] = "WAITING" <=> state[t] = "WAITING"
  BY <1>2, <1>3, <1>4 DEF SwitchedState
<1>8. ListsConsistent'
  BY <1>3, <1>4, <1>6, <1>7 DEF SchedInv, ListsConsistent
<1> QED BY <1>2, <1>4, <1>8 DEF next, r

(* spawn_thread puts the thread of an empty slot on the ready list.        *)
LEMMA SpawnLists ==
  ASSUME SchedInv, spawn_thread
  PROVE  ListsConsistent'
<1>1. PICK c \in Tids : /\ state[c] = "NONE"
                        /\ state' = [state EXCEPT ![c] = "READY"]
                        /\ ready' = Append(ready, c)
                        /\ waitq' = waitq /\ wcond' = wcond
  BY DEF spawn_thread, FreeSlot, Exists
<1>2. ready \in Seq(Tids) /\ ~In(c, ready)
  BY <1>1 DEF SchedInv, TypeOK, ListsConsistent
<1>3. NoDup(ready') /\ \A t : In(t, ready') <=> In(t, ready) \/ t = c
  BY <1>1, <1>2, NoDupAppend, InAppend DEF SchedInv, ListsConsistent
<1>4. \A t \in Tids : state'[t] = "READY" <=> In(t, ready')
  BY <1>1, <1>3 DEF SchedInv, TypeOK, ListsConsistent
<1>5. \A t \in Tids : state'[t] = "WAITING" <=> state[t] = "WAITING"
  BY <1>1 DEF SchedInv, TypeOK
<1> QED BY <1>1, <1>3, <1>4, <1>5 DEF SchedInv, ListsConsistent

(* Every step preserves the scheduling invariant.  What a broadcast does   *)
(* to it is the same in three actions (step <1>5).                         *)
LEMMA SchedNext == SchedInv /\ [Next]_vars => SchedInv'
<1> SUFFICES ASSUME SchedInv, [Next]_vars PROVE SchedInv'
  OBVIOUS
<1>a. TypeOK'
  BY TypeNext DEF SchedInv
<1>b. (TypeOK /\ ListsConsistent /\ ControlConsistent /\ SelfRuns => OneRunning)'
  BY AlwaysReady, PTL
<1> SUFFICES ListsConsistent' /\ ControlConsistent' /\ SelfRuns'
  BY <1>a, <1>b DEF SchedInv
<1> USE Constants DEF SchedInv, SelfRuns
<1>1. CASE condition_wait
  <2>1. ListsConsistent'
    BY <1>1, WaitLists
  <2>2. ControlConsistent' /\ SelfRuns'
    BY <1>1 DEF condition_wait, TypeOK, ControlConsistent, OneRunning
  <2> QED BY <2>1, <2>2
<1>2. CASE running_thread_suspend
  <2> DEFINE next == Head(ReadyToSwitch)
  <2>1. /\ ListsConsistent' /\ next \in Tids
        /\ state[next] = "READY" \/ (next = tp /\ state[tp] = "SELF")
    BY <1>2, SwitchLists
  <2>2. /\ state' = [t \in Tids |-> SwitchedState(t, next)]
        /\ tp' = next /\ op' = op /\ pc[tp] = "suspend"
        /\ pc' = [t \in Tids |->
                    IF t = next /\ pc[t] = "new"
                    THEN IF t = Idle THEN "check" ELSE "kern"
                    ELSE IF t = tp THEN Continuation(t) ELSE pc[t]]
    BY <1>2 DEF running_thread_suspend
  <2> HIDE DEF next
  <2>3. ControlConsistent'
    BY <2>1, <2>2 DEF TypeOK, ControlConsistent, SwitchedState, Continuation, OneRunning
  <2>4. SelfRuns'
    BY <2>1, <2>2 DEF TypeOK, SwitchedState, OneRunning
  <2> QED BY <2>1, <2>3, <2>4
<1>3. CASE spawn_thread
  <2>1. ListsConsistent'
    BY <1>3, SpawnLists
  <2>2. ControlConsistent' /\ SelfRuns'
    BY <1>3 DEF spawn_thread, FreeSlot, Exists, TypeOK, ControlConsistent, OneRunning
  <2> QED BY <2>1, <2>2
<1>4. CASE running_thread_exit
  <2> DEFINE exited == [state EXCEPT ![tp] = "EXITED"]
  <2>1. OffLists(exited)
    BY <1>4 DEF OffLists, TypeOK, States, ControlConsistent, running_thread_exit
  <2>2. CASE parent[tp] # NoThread
    <3>1. ChildExit(parent[tp]) \in Conds
      BY <2>2 DEF TypeOK, Conds
    <3>2. condition_broadcast(ChildExit(parent[tp]), exited)
      BY <1>4, <2>2 DEF running_thread_exit
    <3> HIDE DEF exited
    <3>3. /\ ListsConsistent'
          /\ \A t \in Tids : state'[t] = exited[t]
               \/ (state[t] = "WAITING" /\ state'[t] = "READY")
      BY <2>1, <3>1, <3>2, BroadcastLists
    <3>4. ControlConsistent' /\ SelfRuns'
      BY <1>4, <3>3 DEF exited, running_thread_exit, TypeOK, ControlConsistent, OneRunning
    <3> QED BY <3>3, <3>4
  <2>3. CASE parent[tp] = NoThread
    <3>1. ListsConsistent'
      BY <1>4, <2>1, <2>3, KeepLists DEF running_thread_exit
    <3>2. ControlConsistent' /\ SelfRuns'
      BY <1>4, <2>3 DEF running_thread_exit, TypeOK, ControlConsistent, OneRunning
    <3> QED BY <3>1, <3>2
  <2> QED BY <2>2, <2>3
<1>5. ASSUME NEW c \in Conds, condition_broadcast(c, state), UNCHANGED <<tp, pc, op>>
      PROVE  ListsConsistent' /\ ControlConsistent' /\ SelfRuns'
  <2>1. OffLists(state)
    BY DEF OffLists, TypeOK
  <2>2. /\ ListsConsistent'
        /\ \A t \in Tids : state'[t] = state[t]
             \/ (state[t] = "WAITING" /\ state'[t] = "READY")
    BY <1>5, <2>1, BroadcastLists
  <2>3. ControlConsistent' /\ SelfRuns'
    BY <1>5, <2>2 DEF TypeOK, ControlConsistent, OneRunning
  <2> QED BY <2>2, <2>3
<1>6. CASE release_all_thread_locks
  <2>1. PICK l \in LocksToRelease : condition_broadcast(ReleaseOf(l), state)
    BY <1>6 DEF release_all_thread_locks
  <2>2. ReleaseOf(l) \in Conds
    BY DEF TypeOK, LocksToRelease, Conds
  <2> QED BY <1>5, <1>6, <2>1, <2>2 DEF release_all_thread_locks
<1>7. ASSUME NEW l \in Locks, lock_release(l)
      PROVE  ListsConsistent' /\ ControlConsistent' /\ SelfRuns'
  <2>1. CASE cnt[l] = 1
    <3>1. ReleaseOf(l) \in Conds
      BY DEF Conds
    <3> QED BY <1>5, <1>7, <2>1, <3>1 DEF lock_release
  <2>2. CASE cnt[l] # 1
    <3>1. UNCHANGED <<tp, pc, op, state, ready, waitq, wcond>>
      BY <1>7, <2>2 DEF lock_release
    <3> QED BY <3>1 DEF ListsConsistent, ControlConsistent, OneRunning, NoDup, In
  <2> QED BY <2>1, <2>2
<1>8. ASSUME NEW a \in Tids, handle_timer_interrupt(a)
      PROVE  ListsConsistent' /\ ControlConsistent' /\ SelfRuns'
  <2>1. Alarm(a) \in Conds
    BY DEF Conds
  <2> QED BY <1>5, <1>8, <2>1 DEF handle_timer_interrupt
<1>9. CASE join_found
  <2>1. PICK c \in Joinable(tp) : thread_reclaim(c)
    BY <1>9 DEF join_found
  <2>2. c \in Tids /\ state[c] = "EXITED" /\ state' = [state EXCEPT ![c] = "NONE"]
    BY <2>1 DEF TypeOK, Joinable, Children, thread_reclaim
  <2>3. OffLists(state')
    BY <2>2 DEF OffLists, TypeOK, States
  <2>4. ListsConsistent'
    BY <1>9, <2>3, KeepLists DEF join_found
  <2>5. ControlConsistent' /\ SelfRuns'
    BY <1>9, <2>2 DEF join_found, TypeOK, ControlConsistent, OneRunning
  <2> QED BY <2>4, <2>5
<1>10. ASSUME UNCHANGED <<listVars, state, tp>> PROVE ListsConsistent' /\ SelfRuns'
  BY <1>10 DEF ListsConsistent, OneRunning, NoDup, In
<1>11. CASE spawn_panic \/ main_exit \/ exit_suspend
  BY <1>10, <1>11 DEF spawn_panic, main_exit, exit_suspend, TypeOK, ControlConsistent
<1>12. ASSUME NEW j \in Tids, thread_join(j)
       PROVE  ListsConsistent' /\ ControlConsistent' /\ SelfRuns'
  BY <1>10, <1>12 DEF thread_join, TypeOK, ControlConsistent
<1>13. CASE join_wait \/ lock_wait
  BY <1>10, <1>13 DEF join_wait, lock_wait, TypeOK, ControlConsistent
<1>14. ASSUME NEW l \in Locks, lock_acquire_again(l) \/ lock_acquire(l)
       PROVE  ListsConsistent' /\ ControlConsistent' /\ SelfRuns'
  BY <1>10, <1>14 DEF lock_acquire_again, lock_acquire, TypeOK, ControlConsistent
<1>15. CASE lock_taken
  BY <1>10, <1>15 DEF lock_taken, TypeOK, ControlConsistent
<1>16. CASE alarm_sleep \/ alarm_sleep_return
  BY <1>10, <1>16 DEF alarm_sleep, alarm_sleep_return, TypeOK, ControlConsistent
<1>17. CASE umode_exception \/ umode_return \/ umode_interrupt \/ handle_umode_interrupt
  BY <1>10, <1>17 DEF umode_exception, umode_return, umode_interrupt,
     handle_umode_interrupt, TypeOK, ControlConsistent
<1>18. CASE idle_look \/ idle_sleep \/ idle_wake
  BY <1>10, <1>18 DEF idle_look, idle_sleep, idle_wake, TypeOK, ControlConsistent
<1>19. CASE UNCHANGED vars
  BY <1>10, <1>19 DEF vars, ControlConsistent
<1> QED
  BY <1>1, <1>2, <1>3, <1>4, <1>6, <1>7, <1>8, <1>9, <1>11, <1>12, <1>13,
     <1>14, <1>15, <1>16, <1>17, <1>18, <1>19
  DEF Next, ThreadStep, InterruptStep, Halted

(* Every thread is always on exactly the list its state calls for, only    *)
(* the running thread is SELF, and a switch always finds a thread.         *)
THEOREM ListsAlwaysConsistent == Spec => [](ListsConsistent /\ ControlConsistent /\ OneRunning)
<1>1. Init => SchedInv
  BY InitSched
<1>2. SchedInv /\ [Next]_vars => SchedInv'
  BY SchedNext
<1>3. SchedInv => ListsConsistent /\ ControlConsistent /\ OneRunning
  BY DEF SchedInv
<1> QED BY <1>1, <1>2, <1>3, PTL DEF Spec

---------------------------------------------------------------------------
(* Locks.                                                                  *)

LockInv == SchedInv /\ LocksConsistent

(* What every action that broadcasts does to the thread states.            *)
LEMMA BroadcastStates ==
  ASSUME SchedInv, NEW c \in Conds, condition_broadcast(c, state)
  PROVE  \A t \in Tids : \/ state'[t] = state[t] /\ wcond'[t] = wcond[t]
                         \/ state[t] = "WAITING" /\ wcond[t] = c /\ state'[t] = "READY"
<1>1. OffLists(state)
  BY DEF OffLists, SchedInv, TypeOK
<1>2. TypeOK /\ ListsConsistent
  BY DEF SchedInv
<1> QED BY <1>1, <1>2, BroadcastLists, Zenon

(* running_thread_exit changes the states of the exiting thread and of the *)
(* threads it wakes.                                                       *)
LEMMA ExitStates ==
  ASSUME SchedInv, running_thread_exit
  PROVE  /\ state[tp] = "SELF" /\ state'[tp] = "EXITED"
         /\ \A t \in Tids \ {tp} :
              \/ state'[t] = state[t] /\ wcond'[t] = wcond[t]
              \/ state[t] = "WAITING" /\ state'[t] = "READY"
         /\ parent[tp] # NoThread => waitq' = [waitq EXCEPT ![ChildExit(parent[tp])] = <<>>]
         /\ parent[tp] = NoThread => waitq' = waitq
<1> DEFINE exited == [state EXCEPT ![tp] = "EXITED"]
<1>1. state[tp] = "SELF" /\ tp \in Tids
  BY DEF SchedInv, TypeOK, ControlConsistent, running_thread_exit
<1>2. OffLists(exited)
  BY <1>1 DEF OffLists, SchedInv, TypeOK, States
<1>3. CASE parent[tp] # NoThread
  <2>1. ChildExit(parent[tp]) \in Conds
    BY <1>1, <1>3 DEF SchedInv, TypeOK, Conds
  <2>2. condition_broadcast(ChildExit(parent[tp]), exited)
    BY <1>3 DEF running_thread_exit
  <2> HIDE DEF exited
  <2>3. \A t \in Tids : \/ state'[t] = exited[t] /\ wcond'[t] = wcond[t]
                        \/ state[t] = "WAITING" /\ state'[t] = "READY"
    <3>1. TypeOK /\ ListsConsistent
      BY DEF SchedInv
    <3> QED BY <1>2, <2>1, <2>2, <3>1, BroadcastLists, Zenon
  <2>4. waitq' = [waitq EXCEPT ![ChildExit(parent[tp])] = <<>>]
    BY <2>2 DEF condition_broadcast
  <2> QED BY <1>1, <1>3, <2>3, <2>4 DEF exited, SchedInv, TypeOK
<1>4. CASE parent[tp] = NoThread
  BY <1>1, <1>4 DEF running_thread_exit, SchedInv, TypeOK
<1> QED BY <1>3, <1>4

(* running_thread_suspend changes the states of READY and SELF threads.    *)
LEMMA SwitchStates ==
  ASSUME SchedInv, running_thread_suspend
  PROVE  /\ tp' \in Tids /\ pc'[tp'] # "cwait" /\ pc[tp] = "suspend"
         /\ \A t \in Tids : \/ state'[t] = state[t]
                            \/ state[t] \in {"READY", "SELF"} /\ state'[t] \in {"READY", "SELF"}
         /\ \A t \in Tids : state[t] \in {"NONE", "EXITED"} /\ t # tp => pc'[t] = pc[t]
<1> DEFINE next == Head(ReadyToSwitch)
<1>1. next \in Tids /\ (state[next] = "READY" \/ (next = tp /\ state[tp] = "SELF"))
  BY SwitchLists
<1>2. /\ state' = [t \in Tids |-> SwitchedState(t, next)]
      /\ tp' = next /\ pc[tp] = "suspend"
      /\ pc' = [t \in Tids |->
                  IF t = next /\ pc[t] = "new"
                  THEN IF t = Idle THEN "check" ELSE "kern"
                  ELSE IF t = tp THEN Continuation(t) ELSE pc[t]]
  BY DEF running_thread_suspend
<1> HIDE DEF next
<1> QED BY <1>1, <1>2 DEF SwitchedState, Continuation, SchedInv, ControlConsistent, TypeOK

(* Giving up a lock, in lock_release_completely and at exit.               *)
LEMMA DropLock ==
  ASSUME SchedInv, LocksConsistent, NEW l \in Locks, l \in held[tp],
         held' = [held EXCEPT ![tp] = @ \ {l}],
         owner' = [owner EXCEPT ![l] = NoThread],
         cnt' = [cnt EXCEPT ![l] = 0],
         pc' = pc,
         \A t \in Tids : state'[t] = state[t] \/ state'[t] = "READY"
  PROVE  LocksConsistent'
<1>1. /\ tp \in Tids /\ held \in [Tids -> SUBSET Locks]
      /\ owner \in [Locks -> Tids \cup {NoThread}] /\ cnt \in [Locks -> Nat]
  BY DEF SchedInv, TypeOK
<1>2. \A k \in Locks, t \in Tids : k \in held[t] <=> owner[k] = t
  BY DEF LocksConsistent
<1>3. \A k \in Locks, t \in Tids : k \in held'[t] <=> owner'[k] = t
  BY <1>1, <1>2, Constants
<1>4. \A k \in Locks : cnt'[k] = 0 <=> owner'[k] = NoThread
  BY <1>1 DEF LocksConsistent
<1>5. \A t \in Tids : held'[t] \subseteq held[t]
  BY <1>1
<1>6. \A t \in Tids : state'[t] \in {"NONE", "EXITED"} /\ pc'[t] # "exiting" => held'[t] = {}
  BY <1>5 DEF LocksConsistent
<1> QED BY <1>3, <1>4, <1>6 DEF LocksConsistent

LEMMA LocksNext == LockInv /\ [Next]_vars => LocksConsistent'
<1> SUFFICES ASSUME LockInv, [Next]_vars PROVE LocksConsistent'
  OBVIOUS
<1> USE Constants DEF LockInv
<1>1. ASSUME UNCHANGED <<owner, cnt, held>>,
             \A t \in Tids : state'[t] \in {"NONE", "EXITED"} /\ pc'[t] # "exiting" =>
                             state[t] \in {"NONE", "EXITED"} /\ pc[t] # "exiting"
      PROVE  LocksConsistent'
  BY <1>1 DEF LocksConsistent
<1>2. CASE condition_wait
  BY <1>1, <1>2 DEF condition_wait, SchedInv, TypeOK
<1>3. CASE running_thread_suspend
  <2>1. \A t \in Tids : state'[t] \in {"NONE", "EXITED"} => state'[t] = state[t]
    BY <1>3, SwitchStates
  <2>2. pc[tp] = "suspend" /\ \A t \in Tids \ {tp} : state[t] \in {"NONE", "EXITED"} => pc'[t] = pc[t]
    BY <1>3, SwitchStates
  <2> QED BY <1>1, <1>3, <2>1, <2>2 DEF running_thread_suspend
<1>4. CASE spawn_thread
  BY <1>1, <1>4 DEF spawn_thread, FreeSlot, Exists, SchedInv, TypeOK
<1>5. CASE running_thread_exit
  <2>1. /\ tp \in Tids /\ pc' = [pc EXCEPT ![tp] = "exiting"]
        /\ UNCHANGED <<owner, cnt, held>>
    BY <1>5 DEF running_thread_exit, SchedInv, TypeOK
  <2>2. \A t \in Tids \ {tp} : state'[t] = state[t] \/ state'[t] = "READY"
    BY <1>5, ExitStates
  <2> QED BY <1>1, <2>1, <2>2 DEF SchedInv, TypeOK
<1>6. CASE release_all_thread_locks
  <2>1. PICK l \in LocksToRelease :
          /\ held' = [held EXCEPT ![tp] = @ \ {l}]
          /\ owner' = [owner EXCEPT ![l] = NoThread]
          /\ cnt' = [cnt EXCEPT ![l] = 0]
          /\ condition_broadcast(ReleaseOf(l), state)
    BY <1>6 DEF release_all_thread_locks
  <2>2. l \in Locks /\ l \in held[tp] /\ ReleaseOf(l) \in Conds /\ tp \in Tids
    BY DEF SchedInv, TypeOK, LocksToRelease, Conds
  <2>3. \A t \in Tids : state'[t] = state[t] \/ state'[t] = "READY"
    BY <2>1, <2>2, BroadcastStates
  <2>4. pc' = pc
    BY <1>6 DEF release_all_thread_locks
  <2> QED BY <2>1, <2>2, <2>3, <2>4, DropLock
<1>7. CASE exit_suspend
  BY <1>7 DEF exit_suspend, LocksToRelease, LocksConsistent, SchedInv, TypeOK
<1>8. CASE join_found
  <2>1. PICK c \in Joinable(tp) : thread_reclaim(c)
    BY <1>8 DEF join_found
  <2>a. c \in Tids /\ state[c] = "EXITED" /\ state' = [state EXCEPT ![c] = "NONE"]
    BY <2>1 DEF SchedInv, TypeOK, Joinable, Children, thread_reclaim
  <2>2. c # tp /\ pc[c] = "dead"
    BY <1>8, <2>a DEF SchedInv, ControlConsistent, join_found
  <2> QED BY <1>1, <1>8, <2>a, <2>2 DEF join_found, SchedInv, TypeOK
<1>9. ASSUME NEW l \in Locks, lock_acquire_again(l) PROVE LocksConsistent'
  BY <1>9 DEF lock_acquire_again, LocksConsistent, SchedInv, TypeOK
<1>10. ASSUME NEW l \in Locks, lock_release(l) PROVE LocksConsistent'
  <2>1. CASE cnt[l] = 1
    <3>1. ReleaseOf(l) \in Conds
      BY DEF Conds
    <3>2. \A t \in Tids : state'[t] = state[t] \/ state'[t] = "READY"
      BY <1>10, <2>1, <3>1, BroadcastStates DEF lock_release
    <3>3. /\ cnt' = [cnt EXCEPT ![l] = 0]
          /\ held' = [held EXCEPT ![tp] = @ \ {l}]
          /\ owner' = [owner EXCEPT ![l] = NoThread]
          /\ owner[l] = tp /\ pc' = pc
      BY <1>10, <2>1 DEF lock_release, MayRelease, SchedInv, TypeOK
    <3>4. l \in held[tp]
      BY <3>3 DEF LocksConsistent, SchedInv, TypeOK
    <3> QED BY <3>2, <3>3, <3>4, DropLock
  <2>2. CASE cnt[l] # 1
    BY <1>10, <2>2 DEF lock_release, MayRelease, LocksConsistent, SchedInv, TypeOK
  <2> QED BY <2>1, <2>2
<1>11. CASE lock_taken
  <2>1. locking[tp] \in Locks /\ tp \in Tids /\ state[tp] = "SELF"
    BY <1>11 DEF lock_taken, SchedInv, TypeOK, ControlConsistent
  <2> QED BY <1>11, <2>1 DEF lock_taken, LocksConsistent, SchedInv, TypeOK
<1>12. ASSUME NEW a \in Tids, handle_timer_interrupt(a) PROVE LocksConsistent'
  <2>1. Alarm(a) \in Conds
    BY DEF Conds
  <2>2. \A t \in Tids : state'[t] = state[t] \/ state'[t] = "READY"
    BY <1>12, <2>1, BroadcastStates DEF handle_timer_interrupt
  <2> QED BY <1>1, <1>12, <2>2 DEF handle_timer_interrupt
<1>13. CASE spawn_panic \/ main_exit \/ join_wait \/ lock_wait
  BY <1>1, <1>13 DEF spawn_panic, main_exit, join_wait, lock_wait, SchedInv, TypeOK,
     ControlConsistent
<1>14. ASSUME NEW j \in Tids, thread_join(j) PROVE LocksConsistent'
  BY <1>1, <1>14 DEF thread_join, SchedInv, TypeOK, ControlConsistent
<1>15. ASSUME NEW l \in Locks, lock_acquire(l) PROVE LocksConsistent'
  BY <1>1, <1>15 DEF lock_acquire, SchedInv, TypeOK, ControlConsistent
<1>16. CASE alarm_sleep \/ alarm_sleep_return \/ umode_exception \/ umode_return
  BY <1>1, <1>16 DEF alarm_sleep, alarm_sleep_return, umode_exception, umode_return,
     SchedInv, TypeOK, ControlConsistent
<1>17. CASE umode_interrupt \/ handle_umode_interrupt \/ idle_look \/ idle_sleep \/ idle_wake
  BY <1>1, <1>17 DEF umode_interrupt, handle_umode_interrupt, idle_look, idle_sleep,
     idle_wake, SchedInv, TypeOK, ControlConsistent
<1>18. CASE UNCHANGED vars
  BY <1>1, <1>18 DEF vars
<1> QED
  BY <1>2, <1>3, <1>4, <1>5, <1>6, <1>7, <1>8, <1>9, <1>10, <1>11, <1>12, <1>13,
     <1>14, <1>15, <1>16, <1>17, <1>18
  DEF Next, ThreadStep, InterruptStep, Halted

LEMMA InitLocks == Init => LocksConsistent
BY Constants DEF Init, LocksConsistent

(* owner, cnt and lock_list always agree, and a thread that has exited     *)
(* holds no lock once release_all_thread_locks is through.                 *)
THEOREM LocksAlwaysConsistent == Spec => []LocksConsistent
<1>1. Init => LockInv
  BY InitSched, InitLocks DEF LockInv
<1>2. LockInv /\ [Next]_vars => LockInv'
  BY SchedNext, LocksNext DEF LockInv
<1>3. LockInv => LocksConsistent
  BY DEF LockInv
<1> QED BY <1>1, <1>2, <1>3, PTL DEF Spec

---------------------------------------------------------------------------
(* Wakeups.                                                                *)

(* NoLostWakeup said of the threads instead of the lists: a thread that    *)
(* sleeps sleeps for a reason.                                             *)
SleepersJustified ==
  \A t \in Tids : state[t] = "WAITING" =>
    /\ op[t] = "acquire" => owner[locking[t]] # NoThread
    /\ op[t] = "join" => Joinable(t) = {}
    /\ op[t] = "sleep" => t \in asleep

WakeInv == LockInv /\ WaitsJustified /\ SleepersJustified

(* A condition belongs to one lock, one parent or one alarm.               *)
LEMMA WaitCondOf ==
  ASSUME TypeOK, NEW t \in Tids, op[t] \in {"join", "acquire", "sleep"}
  PROVE  /\ \A u \in Tids : WaitCond(t) = ChildExit(u) <=> op[t] = "join" /\ t = u
         /\ \A l \in Locks : WaitCond(t) = ReleaseOf(l) <=> op[t] = "acquire" /\ locking[t] = l
         /\ \A u \in Tids : WaitCond(t) = Alarm(u) <=> op[t] = "sleep" /\ t = u
BY DEF WaitCond, ChildExit, ReleaseOf, Alarm, TypeOK

LEMMA SleepersNoLostWakeup == WakeInv => NoLostWakeup
<1> SUFFICES ASSUME WakeInv PROVE NoLostWakeup
  OBVIOUS
<1>1. ASSUME NEW c \in Conds, waitq[c] # <<>>
      PROVE  \E t \in Tids : state[t] = "WAITING" /\ WaitCond(t) = c
                             /\ op[t] \in {"join", "acquire", "sleep"}
  <2>1. waitq[c] \in Seq(Tids)
    BY DEF WakeInv, LockInv, SchedInv, TypeOK
  <2>2. In(Head(waitq[c]), waitq[c]) /\ Head(waitq[c]) \in Tids
    BY <1>1, <2>1, InTail DEF In
  <2> QED BY <2>2 DEF WakeInv, LockInv, SchedInv, ListsConsistent, WaitsJustified
<1>2. \A t \in Tids : ChildExit(t) \in Conds /\ Alarm(t) \in Conds
  BY DEF Conds
<1>3. \A l \in Locks : ReleaseOf(l) \in Conds
  BY DEF Conds
<1>4. TypeOK
  BY DEF WakeInv, LockInv, SchedInv
<1> QED BY <1>1, <1>2, <1>3, <1>4, WaitCondOf DEF NoLostWakeup, WakeInv, SleepersJustified

(* The children of a thread, and those it would return, depend only on the *)
(* parent pointers and on which threads are NONE or EXITED.                *)
SameExits == \A u \in Tids : /\ state'[u] = "EXITED" <=> state[u] = "EXITED"
                             /\ state'[u] = "NONE" <=> state[u] = "NONE"

LEMMA SameJoinable ==
  ASSUME TypeOK, NEW t \in Tids, UNCHANGED parent, joining'[t] = joining[t], SameExits
  PROVE  Joinable(t)' = Joinable(t) /\ Children(t)' = Children(t)
<1>1. Children(t)' = Children(t)
  BY DEF Children, Exists, SameExits
<1>2. joining[t] \in Tids
  BY DEF TypeOK
<1> QED BY <1>1, <1>2 DEF Joinable, SameExits, Children

(* A step that wakes all of the threads waiting on c, and whatever it may  *)
(* do to the locks and alarms of that condition.                           *)
LEMMA WakeStep ==
  ASSUME WakeInv, NEW c \in Conds, condition_broadcast(c, state),
         UNCHANGED <<tp, pc, sie, parent, op, joining, locking>>,
         pc[tp] = "cwait" => UNCHANGED owner /\ (op[tp] = "sleep" => UNCHANGED asleep),
         \A l \in Locks : owner'[l] = NoThread => owner[l] = NoThread \/ c = ReleaseOf(l),
         \A t \in Tids : t \in asleep => t \in asleep' \/ c = Alarm(t)
  PROVE  WaitsJustified' /\ SleepersJustified'
<1>1. /\ \A t \in Tids : state'[t] = "WAITING" =>
           state[t] = "WAITING" /\ wcond[t] # c /\ wcond'[t] = wcond[t]
      /\ SameExits
  BY DEF condition_broadcast, WakeInv, LockInv, SchedInv, TypeOK, ListsConsistent, SameExits
<1>2. TypeOK /\ \A t \in Tids : WaitCond(t)' = WaitCond(t)
  BY DEF WaitCond, WakeInv, LockInv, SchedInv
<1>3. \A t \in Tids : Joinable(t)' = Joinable(t) /\ Children(t)' = Children(t)
  BY <1>1, <1>2, SameJoinable
<1>4. WaitsJustified'
  <2>1. \A t \in Tids : state'[t] = "WAITING" =>
          op'[t] \in {"join", "acquire", "sleep"} /\ wcond'[t] = WaitCond(t)'
    BY <1>1, <1>2 DEF WakeInv, WaitsJustified
  <2>2. pc'[tp'] = "cwait" =>
          CASE op'[tp'] = "acquire" -> owner'[locking'[tp']] # NoThread
            [] op'[tp'] = "join"    -> Joinable(tp)' = {}
            [] OTHER                -> sie' = 0 /\ tp' \in asleep'
    <3> SUFFICES ASSUME pc[tp] = "cwait"
                 PROVE  CASE op[tp] = "acquire" -> owner'[locking[tp]] # NoThread
                          [] op[tp] = "join"    -> Joinable(tp)' = {}
                          [] OTHER              -> sie' = 0 /\ tp \in asleep'
      OBVIOUS
    <3>1. tp \in Tids /\ op[tp] \in {"join", "acquire", "sleep"}
      BY <1>2 DEF WakeInv, LockInv, SchedInv, ControlConsistent, TypeOK
    <3> QED BY <1>3, <3>1 DEF WakeInv, WaitsJustified
  <2>3. \A t \in Tids : op'[t] = "join" /\ joining'[t] # 0 => joining'[t] \in Children(t)'
    BY <1>3 DEF WakeInv, WaitsJustified
  <2> QED BY <2>1, <2>2, <2>3 DEF WaitsJustified
<1>5. SleepersJustified'
  <2> SUFFICES ASSUME NEW t \in Tids, state'[t] = "WAITING"
               PROVE  /\ op[t] = "acquire" => owner'[locking[t]] # NoThread
                      /\ op[t] = "join" => Joinable(t)' = {}
                      /\ op[t] = "sleep" => t \in asleep'
    BY DEF SleepersJustified
  <2>1. /\ op[t] \in {"join", "acquire", "sleep"} /\ WaitCond(t) # c
        /\ state[t] = "WAITING"
    BY <1>1 DEF WakeInv, WaitsJustified
  <2>2. op[t] = "acquire" => locking[t] \in Locks /\ c # ReleaseOf(locking[t])
    BY <1>2, <2>1, WaitCondOf DEF TypeOK
  <2>3. op[t] = "sleep" => c # Alarm(t)
    BY <1>2, <2>1, WaitCondOf
  <2> QED BY <1>3, <2>1, <2>2, <2>3 DEF WakeInv, SleepersJustified
<1> QED BY <1>4, <1>5

(* A step that leaves the sleepers alone and does not end at a wait.       *)
LEMMA QuietStep ==
  ASSUME WakeInv, TypeOK', UNCHANGED parent, SameExits, pc'[tp'] # "cwait",
         \A t \in Tids : state'[t] = "WAITING" => state[t] = "WAITING" /\ op'[t] = op[t],
         \A t \in Tids : op'[t] = op[t] /\ op[t] # "none" =>
           UNCHANGED <<wcond[t], joining[t], locking[t]>>,
         \A t \in Tids : op'[t] = "join" => op[t] = "join"
                         \/ joining'[t] = 0 \/ joining'[t] \in Children(t),
         \A l \in Locks : owner'[l] = NoThread => owner[l] = NoThread,
         asleep \subseteq asleep'
  PROVE  WaitsJustified' /\ SleepersJustified'
<1>1. TypeOK
  BY DEF WakeInv, LockInv, SchedInv
<1>2. \A t \in Tids : /\ Children(t)' = Children(t)
                      /\ joining'[t] = joining[t] => Joinable(t)' = Joinable(t)
  <2>1. \A t \in Tids : Children(t)' = Children(t)
    BY DEF Children, Exists, SameExits
  <2> QED BY <1>1, <2>1, SameJoinable
<1>3. \A t \in Tids : state'[t] = "WAITING" =>
        /\ state[t] = "WAITING" /\ op'[t] = op[t] /\ op[t] \in {"join", "acquire", "sleep"}
        /\ wcond[t] = WaitCond(t)
        /\ wcond'[t] = wcond[t] /\ joining'[t] = joining[t] /\ locking'[t] = locking[t]
  BY DEF WakeInv, WaitsJustified
<1>4. \A t \in Tids : state'[t] = "WAITING" => WaitCond(t)' = WaitCond(t)
  BY <1>3 DEF WaitCond
<1>5. \A t \in Tids : op'[t] = "join" /\ joining'[t] # 0 => joining'[t] \in Children(t)'
  BY <1>2 DEF WakeInv, WaitsJustified
<1>6. WaitsJustified'
  BY <1>3, <1>4, <1>5 DEF WaitsJustified
<1>7. SleepersJustified'
  BY <1>1, <1>2, <1>3 DEF WakeInv, SleepersJustified, TypeOK
<1> QED BY <1>6, <1>7

(* The child named by a waiting thread_join, or any child, exits: its      *)
(* parent is woken, and nobody else waits for it.                          *)
LEMMA ExitWakes ==
  ASSUME WakeInv, running_thread_exit
  PROVE  WaitsJustified' /\ SleepersJustified'
<1> DEFINE p == parent[tp]
<1>1. /\ TypeOK /\ tp \in Tids /\ state[tp] = "SELF" /\ tp' = tp /\ pc'[tp] = "exiting"
      /\ UNCHANGED <<parent, op, joining, locking, owner, asleep>>
  BY DEF WakeInv, LockInv, SchedInv, TypeOK, ControlConsistent, running_thread_exit
<1>2. /\ state'[tp] = "EXITED"
      /\ \A t \in Tids \ {tp} :
              \/ state'[t] = state[t] /\ wcond'[t] = wcond[t]
              \/ state[t] = "WAITING" /\ state'[t] = "READY"
  BY ExitStates DEF WakeInv, LockInv
<1>3. \A t \in Tids : state'[t] = "WAITING" =>
        state[t] = "WAITING" /\ wcond'[t] = wcond[t] /\ t # tp
  BY <1>1, <1>2
<1>4. ASSUME NEW t \in Tids, t = p, state[t] = "WAITING", wcond[t] = ChildExit(t)
      PROVE  state'[t] = "READY"
  <2>1. ChildExit(t) \in Conds /\ p # NoThread
    BY <1>4, Constants DEF Conds
  <2>2. In(t, waitq[ChildExit(t)])
    BY <1>4, <2>1 DEF WakeInv, LockInv, SchedInv, ListsConsistent
  <2> QED BY <1>4, <2>1, <2>2 DEF running_thread_exit, condition_broadcast
<1>5. \A t \in Tids : Children(t)' = Children(t)
  BY <1>1, <1>2 DEF Children, Exists
<1>6. \A t \in Tids : state'[t] = "WAITING" =>
        op[t] \in {"join", "acquire", "sleep"} /\ wcond[t] = WaitCond(t)
  BY <1>3 DEF WakeInv, WaitsJustified
<1>7. ASSUME NEW t \in Tids, state'[t] = "WAITING", op[t] = "join"
      PROVE  Joinable(t)' = {}
  <2>1. state[t] = "WAITING" /\ wcond[t] = ChildExit(t)
    BY <1>3, <1>6, <1>7 DEF WaitCond
  <2>2. t # p
    BY <1>4, <1>7, <2>1
  <2>3. tp \notin Children(t)
    BY <2>2 DEF Children
  <2>4. Joinable(t) = {}
    BY <1>7, <2>1 DEF WakeInv, SleepersJustified
  <2>5. \A u \in Tids : u # tp /\ state'[u] = "EXITED" => state[u] = "EXITED"
    BY <1>2
  <2>6. CASE joining[t] = 0
    BY <1>1, <1>5, <2>3, <2>4, <2>5, <2>6 DEF Joinable, Children
  <2>7. CASE joining[t] # 0
    <3>1. joining[t] \in Children(t)
      BY <1>7, <2>7 DEF WakeInv, WaitsJustified
    <3> QED BY <1>1, <2>3, <2>4, <2>5, <2>7, <3>1 DEF Joinable, Children
  <2> QED BY <2>6, <2>7
<1>8. WaitsJustified'
  <2>1. \A t \in Tids : WaitCond(t)' = WaitCond(t)
    BY <1>1 DEF WaitCond
  <2>2. \A t \in Tids : op'[t] = "join" /\ joining'[t] # 0 => joining'[t] \in Children(t)'
    BY <1>1, <1>5 DEF WakeInv, WaitsJustified
  <2> QED BY <1>1, <1>3, <1>6, <2>1, <2>2 DEF WaitsJustified
<1>9. SleepersJustified'
  BY <1>1, <1>3, <1>7 DEF WakeInv, SleepersJustified
<1> QED BY <1>8, <1>9

(* thread_join returns a child: only the caller gains children.            *)
LEMMA JoinWakes ==
  ASSUME WakeInv, join_found
  PROVE  WaitsJustified' /\ SleepersJustified' /\ (ParentsExist => ParentsExist')
<1>1. /\ TypeOK /\ tp \in Tids /\ state[tp] = "SELF" /\ op[tp] = "join" /\ tp' = tp
      /\ pc'[tp] = "kern" /\ op' = [op EXCEPT ![tp] = "none"]
      /\ joining' = [joining EXCEPT ![tp] = 0]
      /\ UNCHANGED <<wcond, locking, owner, asleep>>
  BY DEF WakeInv, LockInv, SchedInv, TypeOK, ControlConsistent, join_found
<1>2. PICK c \in Joinable(tp) : thread_reclaim(c)
  BY DEF join_found
<1>3. c \in Children(tp) /\ state[c] = "EXITED"
  <2>1. joining[tp] # 0 => joining[tp] \in Children(tp)
    BY <1>1 DEF WakeInv, WaitsJustified
  <2> QED BY <1>2, <2>1 DEF Joinable
<1>4. c \in Tids /\ parent[c] = tp /\ c # tp /\ c # Main
  BY <1>1, <1>3, Constants DEF Children, WakeInv, LockInv, SchedInv, ControlConsistent
<1>5. /\ state' = [state EXCEPT ![c] = "NONE"]
      /\ \A t \in Tids : parent'[t] = IF t = c THEN NoThread
                                      ELSE IF state[t] # "NONE" /\ parent[t] = c THEN tp
                                      ELSE parent[t]
  BY <1>2, <1>4 DEF thread_reclaim, Reparented, Exists
<1>6. \A t \in Tids : op'[t] # "none" => op'[t] = op[t] /\ t # tp /\ t # c
  BY <1>1, <1>3, <1>4 DEF WakeInv, LockInv, SchedInv, ControlConsistent, TypeOK
<1>7. \A t \in Tids \ {tp, c} : c \notin Children(t) /\ Children(t)' = Children(t)
  BY <1>1, <1>4, <1>5 DEF Children, Exists, TypeOK
<1>8. \A t \in Tids : op'[t] = "join" =>
        (joining'[t] # 0 => joining'[t] \in Children(t)) /\ Joinable(t)' = Joinable(t)
  <2> SUFFICES ASSUME NEW t \in Tids, op'[t] = "join"
               PROVE  (joining'[t] # 0 => joining'[t] \in Children(t)) /\ Joinable(t)' = Joinable(t)
    OBVIOUS
  <2>1. op[t] = "join" /\ t \in Tids \ {tp, c} /\ joining'[t] = joining[t]
    BY <1>1, <1>6 DEF TypeOK
  <2>2. joining[t] # 0 => joining[t] \in Children(t) /\ joining[t] # c
    BY <1>7, <2>1 DEF WakeInv, WaitsJustified
  <2>3. \A u \in Tids \ {c} : state'[u] = state[u]
    BY <1>4, <1>5, <1>1 DEF TypeOK
  <2>4. Joinable(t)' = Joinable(t)
    BY <1>7, <2>1, <2>2, <2>3 DEF Joinable, Children
  <2> QED BY <2>1, <2>2, <2>4
<1>9. \A t \in Tids : state'[t] = "WAITING" => state[t] = "WAITING" /\ op'[t] = op[t]
  BY <1>1, <1>4, <1>5 DEF TypeOK
<1>10. \A t \in Tids : state'[t] = "WAITING" => WaitCond(t)' = WaitCond(t)
  BY <1>1, <1>9 DEF WaitCond
<1>11. WaitsJustified'
  BY <1>1, <1>6, <1>7, <1>8, <1>9, <1>10 DEF WaitsJustified, WakeInv
<1>12. SleepersJustified'
  BY <1>1, <1>8, <1>9 DEF SleepersJustified, WakeInv
<1>13. ParentsExist => ParentsExist'
  BY <1>1, <1>4, <1>5, Constants DEF ParentsExist, Exists, TypeOK
<1> QED BY <1>11, <1>12, <1>13

(* condition_wait makes a sleeper of a thread whose reason to wait has     *)
(* just been checked.                                                      *)
LEMMA WaitWakes ==
  ASSUME WakeInv, condition_wait
  PROVE  WaitsJustified' /\ SleepersJustified'
<1>1. /\ TypeOK /\ tp \in Tids /\ state[tp] = "SELF" /\ tp' = tp /\ pc[tp] = "cwait"
      /\ op[tp] \in {"join", "acquire", "sleep"}
      /\ pc' = [pc EXCEPT ![tp] = "suspend"]
      /\ state' = [state EXCEPT ![tp] = "WAITING"]
      /\ wcond' = [wcond EXCEPT ![tp] = WaitCond(tp)]
      /\ UNCHANGED <<parent, op, joining, locking, owner, asleep>>
  BY DEF WakeInv, LockInv, SchedInv, TypeOK, ControlConsistent, condition_wait
<1>2. SameExits
  BY <1>1 DEF SameExits, TypeOK
<1>3. \A t \in Tids : Joinable(t)' = Joinable(t) /\ Children(t)' = Children(t)
  BY <1>1, <1>2, SameJoinable
<1>4. \A t \in Tids : WaitCond(t)' = WaitCond(t)
  BY <1>1 DEF WaitCond
<1>5. pc'[tp'] # "cwait"
  BY <1>1 DEF TypeOK
<1>6. \A t \in Tids : state'[t] = "WAITING" <=> state[t] = "WAITING" \/ t = tp
  BY <1>1 DEF TypeOK
<1>7. \A t \in Tids : wcond'[t] = IF t = tp THEN WaitCond(t) ELSE wcond[t]
  BY <1>1 DEF TypeOK
<1>8. WaitsJustified'
  <2>1. \A t \in Tids : state'[t] = "WAITING" =>
          op'[t] \in {"join", "acquire", "sleep"} /\ wcond'[t] = WaitCond(t)'
    BY <1>1, <1>4, <1>6, <1>7 DEF WaitsJustified, WakeInv
  <2>2. \A t \in Tids : op'[t] = "join" /\ joining'[t] # 0 => joining'[t] \in Children(t)'
    BY <1>1, <1>3 DEF WaitsJustified, WakeInv
  <2> QED BY <1>5, <2>1, <2>2 DEF WaitsJustified
<1>9. SleepersJustified'
  <2>1. /\ op[tp] = "acquire" => owner[locking[tp]] # NoThread
        /\ op[tp] = "join" => Joinable(tp) = {}
        /\ op[tp] = "sleep" => tp \in asleep
    BY <1>1 DEF WaitsJustified, WakeInv
  <2> QED BY <1>1, <1>3, <1>6, <2>1 DEF SleepersJustified, WakeInv
<1> QED BY <1>8, <1>9

(* spawn_thread: the new child has not exited, and nobody waits for it.    *)
LEMMA SpawnWakes ==
  ASSUME WakeInv, spawn_thread
  PROVE  WaitsJustified' /\ SleepersJustified' /\ (ParentsExist => ParentsExist')
<1>1. /\ TypeOK /\ tp \in Tids /\ state[tp] = "SELF" /\ op[tp] = "none" /\ tp' = tp
      /\ pc[tp] = "kern"
      /\ UNCHANGED <<op, joining, locking, wcond, owner, asleep>>
  BY DEF WakeInv, LockInv, SchedInv, TypeOK, ControlConsistent, spawn_thread
<1>2. PICK c \in Tids : /\ state[c] = "NONE"
                        /\ state' = [state EXCEPT ![c] = "READY"]
                        /\ parent' = [parent EXCEPT ![c] = tp]
                        /\ pc' = [pc EXCEPT ![c] = "new"]
  BY DEF spawn_thread, FreeSlot, Exists
<1>3. c # tp /\ pc'[tp'] # "cwait"
  BY <1>1, <1>2 DEF TypeOK
<1>4. \A t \in Tids \ {tp} : c \notin Children(t) /\ Children(t)' = Children(t)
  BY <1>1, <1>2 DEF Children, Exists, TypeOK
<1>5. \A t \in Tids : op[t] = "join" =>
        (joining[t] # 0 => joining[t] \in Children(t) /\ joining[t] # c) /\ Joinable(t)' = Joinable(t)
  <2> SUFFICES ASSUME NEW t \in Tids, op[t] = "join"
               PROVE  (joining[t] # 0 => joining[t] \in Children(t) /\ joining[t] # c)
                      /\ Joinable(t)' = Joinable(t)
    OBVIOUS
  <2>1. t \in Tids \ {tp}
    BY <1>1
  <2>2. joining[t] # 0 => joining[t] \in Children(t) /\ joining[t] # c
    BY <1>4, <2>1 DEF WakeInv, WaitsJustified
  <2>3. \A u \in Tids \ {c} : state'[u] = state[u]
    BY <1>1, <1>2 DEF TypeOK
  <2> QED BY <1>1, <1>4, <2>1, <2>2, <2>3 DEF Joinable, Children
<1>6. \A t \in Tids : state'[t] = "WAITING" => state[t] = "WAITING"
  BY <1>1, <1>2 DEF TypeOK
<1>7. \A t \in Tids : WaitCond(t)' = WaitCond(t)
  BY <1>1 DEF WaitCond
<1>8. WaitsJustified'
  BY <1>1, <1>3, <1>4, <1>5, <1>6, <1>7 DEF WaitsJustified, WakeInv
<1>9. SleepersJustified'
  BY <1>1, <1>5, <1>6 DEF SleepersJustified, WakeInv
<1>10. ParentsExist => ParentsExist'
  BY <1>1, <1>2 DEF ParentsExist, Exists, TypeOK
<1> QED BY <1>8, <1>9, <1>10

(* Parent pointers survive a step that changes none of them and reclaims   *)
(* nobody.                                                                 *)
LEMMA KeepParents ==
  ASSUME TypeOK, UNCHANGED parent, SameExits, ParentsExist
  PROVE  ParentsExist'
BY DEF ParentsExist, Exists, SameExits, TypeOK

FullInv == WakeInv /\ ParentsExist

LEMMA WakeNext == FullInv /\ [Next]_vars =>
                  WaitsJustified' /\ SleepersJustified' /\ ParentsExist'
<1> SUFFICES ASSUME FullInv, [Next]_vars
             PROVE  WaitsJustified' /\ SleepersJustified' /\ ParentsExist'
  OBVIOUS
<1> DEFINE Goal == WaitsJustified' /\ SleepersJustified' /\ ParentsExist'
<1>a. /\ WakeInv /\ ParentsExist /\ SchedInv /\ TypeOK /\ TypeOK' /\ tp \in Tids
      /\ pc \in [Tids -> Places] /\ op \in [Tids -> Ops] /\ state \in [Tids -> States]
  BY TypeNext DEF FullInv, WakeInv, LockInv, SchedInv, TypeOK
<1>b. /\ pc[tp] \in {"kern", "user", "isr"} => op[tp] = "none" /\ state[tp] = "SELF"
      /\ pc[tp] \in {"check", "idle2", "wfi"} => state[tp] = "SELF"
  BY <1>a DEF SchedInv, ControlConsistent
<1>1. CASE condition_wait
  <2>1. SameExits /\ UNCHANGED parent
    BY <1>1, <1>a DEF condition_wait, SameExits, SchedInv, ControlConsistent
  <2> QED BY <1>1, <1>a, <2>1, WaitWakes, KeepParents
<1>2. CASE spawn_thread
  BY <1>2, <1>a, SpawnWakes
<1>3. CASE join_found
  BY <1>3, <1>a, JoinWakes
<1>4. CASE running_thread_exit
  <2>1. UNCHANGED parent /\ \A u \in Tids : state'[u] = "NONE" <=> state[u] = "NONE"
    BY <1>4, <1>a, ExitStates DEF running_thread_exit
  <2> QED BY <1>4, <1>a, <2>1, ExitWakes DEF ParentsExist, Exists, TypeOK
<1>5. ASSUME NEW c \in Conds, condition_broadcast(c, state) PROVE SameExits
  BY <1>a, <1>5 DEF SameExits, condition_broadcast, SchedInv, ListsConsistent
<1>6. CASE release_all_thread_locks
  <2>1. PICK l \in LocksToRelease : condition_broadcast(ReleaseOf(l), state)
                                    /\ owner' = [owner EXCEPT ![l] = NoThread]
    BY <1>6 DEF release_all_thread_locks
  <2>2. l \in Locks /\ ReleaseOf(l) \in Conds
    BY <1>a DEF TypeOK, LocksToRelease, Conds
  <2>3. \A k \in Locks : owner'[k] = NoThread => owner[k] = NoThread \/ ReleaseOf(l) = ReleaseOf(k)
    BY <1>a, <2>1, <2>2 DEF TypeOK
  <2>4. UNCHANGED <<tp, pc, sie, parent, op, joining, locking, asleep>> /\ pc[tp] # "cwait"
    BY <1>6 DEF release_all_thread_locks, At, intrVars, callVars
  <2>5. WaitsJustified' /\ SleepersJustified'
    BY <1>a, <2>1, <2>2, <2>3, <2>4, WakeStep
  <2> QED BY <1>5, <1>a, <2>1, <2>2, <2>4, <2>5, KeepParents
<1>7. ASSUME NEW l \in Locks, lock_release(l) PROVE Goal
  <2>0. UNCHANGED <<tp, pc, sie, parent, op, joining, locking, asleep>> /\ pc[tp] = "kern"
    BY <1>7 DEF lock_release, At, intrVars, callVars
  <2>1. CASE cnt[l] = 1
    <3>1. ReleaseOf(l) \in Conds /\ condition_broadcast(ReleaseOf(l), state)
          /\ owner' = [owner EXCEPT ![l] = NoThread]
      BY <1>7, <2>1 DEF Conds, lock_release
    <3>2. \A k \in Locks : owner'[k] = NoThread => owner[k] = NoThread \/ ReleaseOf(l) = ReleaseOf(k)
      BY <1>a, <3>1 DEF TypeOK
    <3>3. WaitsJustified' /\ SleepersJustified'
      BY <1>a, <2>0, <3>1, <3>2, WakeStep
    <3> QED BY <1>5, <1>a, <2>0, <3>1, <3>3, KeepParents
  <2>2. CASE cnt[l] # 1
    <3>1. UNCHANGED <<state, wcond, owner>>
      BY <1>7, <2>2 DEF lock_release, listVars
    <3>2. SameExits
      BY <3>1 DEF SameExits
    <3>3. WaitsJustified' /\ SleepersJustified'
      BY <1>a, <2>0, <3>1, <3>2, QuietStep DEF WakeInv, WaitsJustified
    <3> QED BY <1>a, <2>0, <3>2, <3>3, KeepParents
  <2> QED BY <2>1, <2>2
<1>8. ASSUME NEW a \in Tids, handle_timer_interrupt(a) PROVE Goal
  <2>1. Alarm(a) \in Conds /\ condition_broadcast(Alarm(a), state)
    BY <1>8 DEF Conds, handle_timer_interrupt
  <2>2. /\ UNCHANGED <<tp, pc, sie, parent, op, joining, locking, owner>>
        /\ asleep' = asleep \ {a} /\ (sie = 1 \/ pc[tp] = "isr")
    BY <1>8 DEF handle_timer_interrupt, intrVars, callVars, lockVars
  <2>3. pc[tp] = "cwait" => op[tp] # "sleep"
    BY <1>a, <2>2 DEF WakeInv, WaitsJustified
  <2>4. \A t \in Tids : t \in asleep => t \in asleep' \/ Alarm(a) = Alarm(t)
    BY <2>2
  <2>5. WaitsJustified' /\ SleepersJustified'
    BY <1>a, <2>1, <2>2, <2>3, <2>4, WakeStep
  <2> QED BY <1>5, <1>a, <2>1, <2>2, <2>5, KeepParents
<1>9. CASE running_thread_suspend
  <2>1. /\ SameExits /\ pc'[tp'] # "cwait"
        /\ \A t \in Tids : state'[t] = "WAITING" => state[t] = "WAITING"
    BY <1>9, <1>a, SwitchStates DEF SameExits
  <2>2. UNCHANGED <<parent, op, joining, locking, wcond, owner, asleep>>
    BY <1>9 DEF running_thread_suspend, callVars, lockVars
  <2>3. WaitsJustified' /\ SleepersJustified'
    BY <1>a, <2>1, <2>2, QuietStep DEF WakeInv, WaitsJustified
  <2> QED BY <1>a, <2>1, <2>2, <2>3, KeepParents
<1>10. ASSUME UNCHANGED <<tp, state, parent, wcond>> PROVE SameExits /\ ParentsExist'
  BY <1>a, <1>10, KeepParents DEF SameExits
<1>11. CASE join_wait \/ lock_wait
  <2>1. UNCHANGED <<tp, state, parent, wcond, op, joining, locking, owner, asleep>>
    BY <1>11 DEF join_wait, lock_wait, callVars, listVars, lockVars
  <2>2. SameExits /\ ParentsExist'
    BY <1>10, <2>1
  <2>3. \A t \in Tids : Joinable(t)' = Joinable(t) /\ Children(t)' = Children(t)
    BY <1>a, <2>1, <2>2, SameJoinable
  <2>4. \/ op[tp] = "join" /\ Joinable(tp) = {}
        \/ op[tp] = "acquire" /\ owner[locking[tp]] # NoThread
    BY <1>11 DEF join_wait, lock_wait
  <2>5. \A t \in Tids : WaitCond(t)' = WaitCond(t)
    BY <2>1 DEF WaitCond
  <2>6. \A t \in Tids : op'[t] = "join" /\ joining'[t] # 0 => joining'[t] \in Children(t)'
    BY <1>a, <2>1, <2>3 DEF WakeInv, WaitsJustified
  <2>7. WaitsJustified'
    BY <1>a, <2>1, <2>3, <2>4, <2>5, <2>6 DEF WakeInv, WaitsJustified
  <2>8. SleepersJustified'
    BY <1>a, <2>1, <2>3 DEF WakeInv, SleepersJustified
  <2> QED BY <2>2, <2>7, <2>8
<1>12. CASE alarm_sleep
  <2>1. /\ UNCHANGED <<tp, state, parent, wcond, joining, locking, owner>>
        /\ op' = [op EXCEPT ![tp] = "sleep"] /\ sie' = 0 /\ asleep' = asleep \cup {tp}
        /\ state[tp] = "SELF"
    BY <1>12, <1>b DEF alarm_sleep, At, SleepSIE, callVars, listVars, lockVars
  <2>2. SameExits /\ ParentsExist'
    BY <1>10, <2>1
  <2>3. \A t \in Tids : Joinable(t)' = Joinable(t) /\ Children(t)' = Children(t)
    BY <1>a, <2>1, <2>2, SameJoinable
  <2>4. op'[tp] = "sleep" /\ \A t \in Tids \ {tp} : op'[t] = op[t] /\ WaitCond(t)' = WaitCond(t)
    BY <1>a, <2>1 DEF WaitCond
  <2>5. WaitsJustified'
    BY <1>a, <2>1, <2>3, <2>4 DEF WakeInv, WaitsJustified
  <2>6. SleepersJustified'
    BY <1>a, <2>1, <2>3, <2>4 DEF WakeInv, SleepersJustified
  <2> QED BY <2>2, <2>5, <2>6
<1>13. ASSUME UNCHANGED <<tp, state, parent, wcond>>, pc'[tp] # "cwait",
              state[tp] = "SELF" \/ op' = op,
              \A t \in Tids \ {tp} : UNCHANGED <<op[t], joining[t], locking[t]>>,
              op'[tp] = op[tp] => UNCHANGED <<joining[tp], locking[tp]>>,
              op'[tp] = "join" => op[tp] = "join" \/ joining'[tp] = 0
                                  \/ joining'[tp] \in Children(tp),
              \A l \in Locks : owner'[l] = NoThread => owner[l] = NoThread,
              asleep \subseteq asleep'
       PROVE  Goal
  <2>1. SameExits /\ ParentsExist'
    BY <1>10, <1>13
  <2>2. \A t \in Tids : state'[t] = "WAITING" => state[t] = "WAITING" /\ op'[t] = op[t]
    BY <1>13
  <2>3. WaitsJustified' /\ SleepersJustified'
    BY <1>a, <1>13, <2>1, <2>2, QuietStep
  <2> QED BY <2>1, <2>3
<1>14. ASSUME NEW j \in Tids, thread_join(j) PROVE Goal
  BY <1>13, <1>14, <1>a, <1>b DEF thread_join, At, Goto, TypeOK, listVars, lockVars
<1>15. ASSUME NEW l \in Locks, lock_acquire_again(l) \/ lock_acquire(l) PROVE Goal
  BY <1>13, <1>15, <1>a, <1>b DEF lock_acquire_again, lock_acquire, At, Goto, TypeOK,
     listVars, lockVars, callVars
<1>16. CASE lock_taken
  BY <1>13, <1>16, <1>a, <1>b, Constants DEF lock_taken, At, Goto, TypeOK, listVars, lockVars
<1>17. CASE alarm_sleep_return
  BY <1>13, <1>17, <1>a, <1>b DEF alarm_sleep_return, At, Goto, listVars, lockVars, callVars
<1>18. CASE spawn_panic \/ main_exit
  BY <1>13, <1>18, <1>a, <1>b DEF spawn_panic, main_exit, At, listVars, lockVars, callVars
<1>19. CASE exit_suspend
  BY <1>13, <1>19, <1>a DEF exit_suspend, Goto, listVars, lockVars, callVars
<1>20. CASE umode_exception \/ umode_return \/ umode_interrupt \/ handle_umode_interrupt
  BY <1>13, <1>20, <1>a DEF umode_exception, umode_return, umode_interrupt,
     handle_umode_interrupt, Goto, listVars, lockVars, callVars
<1>21. CASE idle_look \/ idle_sleep \/ idle_wake
  BY <1>13, <1>21, <1>a DEF idle_look, idle_sleep, idle_wake, Goto, listVars, lockVars, callVars
<1>22. CASE UNCHANGED vars
  <2>1. UNCHANGED <<tp, sie, pc, state, parent, wcond, op, joining, locking, owner, asleep>>
    BY <1>22 DEF vars
  <2>2. ParentsExist' /\ SleepersJustified'
    BY <1>a, <2>1 DEF WakeInv, ParentsExist, SleepersJustified, Exists, Joinable, Children
  <2>3. WaitsJustified'
    BY <1>a, <2>1 DEF WakeInv, WaitsJustified, WaitCond, Joinable, Children, Exists
  <2> QED BY <2>2, <2>3
<1> QED
  BY <1>1, <1>2, <1>3, <1>4, <1>6, <1>7, <1>8, <1>9, <1>11, <1>12, <1>14, <1>15,
     <1>16, <1>17, <1>18, <1>19, <1>20, <1>21, <1>22
  DEF Next, ThreadStep, InterruptStep, Halted

LEMMA InitWakes == Init => WaitsJustified /\ SleepersJustified /\ ParentsExist
<1> SUFFICES ASSUME Init PROVE WaitsJustified /\ SleepersJustified /\ ParentsExist
  OBVIOUS
<1>1. /\ \A t \in Tids : state[t] # "WAITING" /\ op[t] # "join"
      /\ pc[tp] = "kern"
      /\ \A t \in Tids \ {Main} : Exists(t) => parent[t] = Main
      /\ Exists(Main)
  BY Constants DEF Init, Exists
<1> QED BY <1>1, Constants DEF WaitsJustified, SleepersJustified, ParentsExist

(* No wakeup is ever lost: nobody sleeps on a free lock, no parent sleeps  *)
(* in thread_join while a child it would return has exited, no alarm goes  *)
(* off without waking its sleeper, and a parent pointer never dangles.     *)
THEOREM WakeupsNeverLost == Spec => [](NoLostWakeup /\ WaitsJustified /\ ParentsExist)
<1>1. Init => FullInv
  BY InitSched, InitLocks, InitWakes DEF FullInv, WakeInv, LockInv
<1>2. FullInv /\ [Next]_vars => FullInv'
  BY SchedNext, LocksNext, WakeNext DEF FullInv, WakeInv, LockInv
<1>3. FullInv => NoLostWakeup /\ WaitsJustified /\ ParentsExist
  BY SleepersNoLostWakeup DEF FullInv, WakeInv
<1> QED BY <1>1, <1>2, <1>3, PTL DEF Spec

---------------------------------------------------------------------------
(* Stacks.                                                                 *)

Live == {"READY", "WAITING", "SELF"}

(* A page that is some thread's stack is allocated and nobody else's; the  *)
(* threads that may still run on theirs have one.                          *)
StackInv ==
  /\ \A t \in Tids : stack[t] # NoPage => stack[t] \in pages
  /\ \A t, u \in Tids : stack[t] = stack[u] /\ stack[t] # NoPage => t = u
  /\ \A t \in Tids \ {Main, Idle} : (state[t] \in Live \/ t = tp) => stack[t] # NoPage

(* A step that leaves the stacks alone and revives no thread.              *)
LEMMA KeepStacks ==
  ASSUME StackInv, UNCHANGED memVars,
         \A t \in Tids : (state'[t] \in Live \/ t = tp') => (state[t] \in Live \/ t = tp)
  PROVE  StackInv'
BY DEF StackInv

(* The thread that is switched to frees the stack of an exited             *)
(* predecessor, which has left it for good.                                *)
LEMMA SwitchStacks ==
  ASSUME SchedInv, StackInv, running_thread_suspend
  PROVE  StackInv'
<1> DEFINE next == Head(ReadyToSwitch)
<1>1. next \in Tids /\ (state[next] = "READY" \/ (next = tp /\ state[tp] = "SELF"))
  BY SwitchLists
<1>2. /\ tp' = next /\ tp \in Tids
      /\ IF FreesStack(next)
         THEN /\ pages' = pages \ {stack[tp]}
              /\ stack' = [stack EXCEPT ![tp] = NoPage]
         ELSE UNCHANGED <<stack, pages>>
  BY DEF running_thread_suspend, SchedInv, TypeOK
<1>3. \A t \in Tids : \/ state'[t] = state[t]
                      \/ state[t] \in {"READY", "SELF"} /\ state'[t] \in {"READY", "SELF"}
  BY SwitchStates
<1> HIDE DEF next
<1>4. \A t \in Tids : (state'[t] \in Live \/ t = tp') => state[t] \in Live
  BY <1>1, <1>2, <1>3 DEF Live
<1>5. CASE ~FreesStack(next)
  BY <1>2, <1>4, <1>5, KeepStacks
<1>6. CASE FreesStack(next)
  <2>1. /\ state[tp] = "EXITED" /\ pages' = pages \ {stack[tp]}
        /\ stack' = [stack EXCEPT ![tp] = NoPage]
    BY <1>2, <1>6 DEF FreesStack
  <2>2. stack'[tp] = NoPage /\ \A t \in Tids \ {tp} : stack'[t] = stack[t]
    BY <2>1, <1>2 DEF SchedInv, TypeOK
  <2>3. state'[tp] = "EXITED" /\ tp' # tp
    BY <2>1, <1>1, <1>2, <1>3
  <2>4. ASSUME NEW t \in Tids, stack'[t] # NoPage PROVE stack'[t] \in pages'
    <3>1. t # tp /\ stack[t] = stack'[t] /\ stack[t] \in pages
      BY <2>2, <2>4 DEF StackInv
    <3>2. stack[t] # stack[tp]
      BY <2>4, <3>1, <1>2 DEF StackInv
    <3> QED BY <2>1, <3>1, <3>2
  <2>5. ASSUME NEW t \in Tids, NEW u \in Tids, stack'[t] = stack'[u], stack'[t] # NoPage
        PROVE  t = u
    BY <2>2, <2>5 DEF StackInv
  <2>6. ASSUME NEW t \in Tids \ {Main, Idle}, state'[t] \in Live \/ t = tp'
        PROVE  stack'[t] # NoPage
    <3>1. t # tp
      BY <2>3, <2>6 DEF Live
    <3> QED BY <2>2, <2>6, <3>1, <1>4 DEF StackInv
  <2> QED BY <2>4, <2>5, <2>6 DEF StackInv
<1> QED BY <1>5, <1>6

(* spawn_thread takes a page that is not allocated.                        *)
LEMMA SpawnStacks ==
  ASSUME SchedInv, StackInv, spawn_thread
  PROVE  StackInv'
<1>1. PICK c \in Tids, p \in Pages \ pages :
        /\ state' = [state EXCEPT ![c] = "READY"] /\ tp' = tp
        /\ stack' = [stack EXCEPT ![c] = p] /\ pages' = pages \cup {p}
  BY DEF spawn_thread
<1>2. p # NoPage /\ stack'[c] = p /\ \A t \in Tids \ {c} : stack'[t] = stack[t] /\ state'[t] = state[t]
  BY <1>1, NullAssumption DEF SchedInv, TypeOK
<1>3. \A t \in Tids : stack[t] # p
  BY <1>1, <1>2 DEF StackInv
<1>4. \A t \in Tids : stack'[t] # NoPage => stack'[t] \in pages'
  BY <1>1, <1>2 DEF StackInv
<1>5. \A t, u \in Tids : stack'[t] = stack'[u] /\ stack'[t] # NoPage => t = u
  BY <1>2, <1>3 DEF StackInv
<1>6. \A t \in Tids \ {Main, Idle} : (state'[t] \in Live \/ t = tp') => stack'[t] # NoPage
  BY <1>1, <1>2 DEF StackInv
<1> QED BY <1>4, <1>5, <1>6 DEF StackInv

(* thread_reclaim forgets the stack of a thread that has exited.           *)
LEMMA JoinStacks ==
  ASSUME SchedInv, StackInv, join_found
  PROVE  StackInv'
<1>1. PICK c \in Joinable(tp) : /\ state' = [state EXCEPT ![c] = "NONE"]
                               /\ stack' = [stack EXCEPT ![c] = NoPage]
  BY DEF join_found, thread_reclaim
<1>2. tp' = tp /\ pages' = pages /\ state[tp] = "SELF" /\ tp \in Tids
  BY DEF join_found, SchedInv, ControlConsistent, TypeOK
<1>3. c \in Tids /\ state[c] = "EXITED" /\ c # tp
  BY <1>2 DEF Joinable, Children, SchedInv, TypeOK
<1>4. stack'[c] = NoPage /\ \A t \in Tids \ {c} : stack'[t] = stack[t] /\ state'[t] = state[t]
  BY <1>1, <1>3 DEF SchedInv, TypeOK
<1>5. state'[c] = "NONE"
  BY <1>1, <1>3 DEF SchedInv, TypeOK
<1> QED BY <1>2, <1>3, <1>4, <1>5 DEF StackInv, Live

LEMMA StackNext == SchedInv /\ StackInv /\ [Next]_vars => StackInv'
<1> SUFFICES ASSUME SchedInv, StackInv, [Next]_vars PROVE StackInv'
  OBVIOUS
<1>1. CASE running_thread_suspend
  BY <1>1, SwitchStacks
<1>2. CASE spawn_thread
  BY <1>2, SpawnStacks
<1>3. CASE join_found
  BY <1>3, JoinStacks
<1>4. CASE condition_wait
  <2>1. tp' = tp /\ UNCHANGED memVars /\ state' = [state EXCEPT ![tp] = "WAITING"]
    BY <1>4 DEF condition_wait
  <2> QED BY <2>1, KeepStacks DEF Live, SchedInv, TypeOK
<1>5. CASE running_thread_exit
  <2>1. tp' = tp /\ UNCHANGED memVars
    BY <1>5 DEF running_thread_exit
  <2>2. \A t \in Tids \ {tp} : state'[t] = state[t] \/ (state[t] = "WAITING" /\ state'[t] = "READY")
    BY <1>5, ExitStates
  <2> QED BY <2>1, <2>2, KeepStacks DEF Live
<1>6. ASSUME NEW c \in Conds, condition_broadcast(c, state), tp' = tp, UNCHANGED memVars
      PROVE  StackInv'
  <2>1. \A t \in Tids : state'[t] = state[t] \/ (state[t] = "WAITING" /\ state'[t] = "READY")
    BY <1>6, BroadcastStates
  <2> QED BY <2>1, <1>6, KeepStacks DEF Live
<1>7. CASE release_all_thread_locks
  <2>1. PICK l \in Locks : condition_broadcast(ReleaseOf(l), state)
    BY <1>7 DEF release_all_thread_locks, LocksToRelease, SchedInv, TypeOK
  <2>2. ReleaseOf(l) \in Conds
    BY DEF Conds
  <2> QED BY <1>6, <1>7, <2>1, <2>2 DEF release_all_thread_locks
<1>8. ASSUME NEW l \in Locks, lock_release(l) PROVE StackInv'
  <2>1. ReleaseOf(l) \in Conds /\ tp' = tp /\ UNCHANGED memVars
    BY <1>8 DEF Conds, lock_release
  <2>2. CASE cnt[l] = 1
    BY <1>6, <1>8, <2>1, <2>2 DEF lock_release
  <2>3. CASE cnt[l] # 1
    <3>1. state' = state
      BY <1>8, <2>3 DEF lock_release
    <3> QED BY <2>1, <3>1, KeepStacks
  <2> QED BY <2>2, <2>3
<1>9. ASSUME NEW a \in Tids, handle_timer_interrupt(a) PROVE StackInv'
  <2>1. Alarm(a) \in Conds
    BY DEF Conds
  <2> QED BY <1>6, <1>9, <2>1 DEF handle_timer_interrupt
<1>10. ASSUME UNCHANGED <<tp, state, stack, pages>> PROVE StackInv'
  BY <1>10, KeepStacks
<1>11. CASE \/ spawn_panic \/ main_exit \/ exit_suspend \/ join_wait \/ lock_taken \/ lock_wait
            \/ alarm_sleep \/ alarm_sleep_return \/ umode_exception \/ umode_return
            \/ idle_look \/ idle_sleep \/ umode_interrupt \/ handle_umode_interrupt \/ idle_wake
  BY <1>10, <1>11 DEF spawn_panic, main_exit, exit_suspend, join_wait, lock_taken, lock_wait,
                      alarm_sleep, alarm_sleep_return, umode_exception, umode_return,
                      idle_look, idle_sleep, umode_interrupt, handle_umode_interrupt, idle_wake
<1>12. CASE Halted \/ UNCHANGED vars
  BY <1>10, <1>12 DEF Halted, vars
<1>13. ASSUME NEW l \in Locks, lock_acquire_again(l) \/ lock_acquire(l) PROVE StackInv'
  BY <1>10, <1>13 DEF lock_acquire_again, lock_acquire
<1>14. ASSUME NEW j \in Tids, thread_join(j) PROVE StackInv'
  BY <1>10, <1>14 DEF thread_join
<1> QED BY <1>1, <1>2, <1>3, <1>4, <1>5, <1>7, <1>8, <1>9, <1>11, <1>12, <1>13, <1>14
           DEF Next, ThreadStep, InterruptStep

(* A thread that can still run has its stack page, which no other thread   *)
(* has: the page of an exited thread is freed only by its successor        *)
(* (thread.c:664-671), and not by the thread itself while it stands on it. *)
THEOREM StacksAlwaysSafe == Spec => []StacksSafe
<1>1. Init => SchedInv /\ StackInv
  <2>1. Init => StackInv
    BY Constants DEF Init, StackInv, Live
  <2> QED BY <2>1, InitSched
<1>2. SchedInv /\ StackInv /\ [Next]_vars => SchedInv' /\ StackInv'
  BY SchedNext, StackNext
<1>3. StackInv => StacksSafe
  BY DEF StackInv, StacksSafe, Live
<1> QED BY <1>1, <1>2, <1>3, PTL DEF Spec

---------------------------------------------------------------------------
(* The tree of parents.                                                    *)

(* The parent pointers of threads other than main never run in a circle:   *)
(* out of any set of them that exist, some pointer leads outside.          *)
ParentsAcyclic ==
  \A S \in SUBSET (Tids \ {Main}) :
    S # {} /\ (\A t \in S : Exists(t)) => \E t \in S : parent[t] \notin S

(* A new thread hangs below the thread that spawned it.                    *)
LEMMA SpawnParents ==
  ASSUME FullInv, ParentsAcyclic, spawn_thread
  PROVE  ParentsAcyclic'
<1>1. PICK c \in Tids \ {Main} :
        /\ state[c] = "NONE" /\ state' = [state EXCEPT ![c] = "READY"]
        /\ parent' = [parent EXCEPT ![c] = tp]
  BY DEF spawn_thread, FreeSlot, Exists
<1>2. /\ tp \in Tids /\ tp # c /\ parent'[c] = tp
      /\ \A t \in Tids \ {c} : parent'[t] = parent[t] /\ state'[t] = state[t]
  BY <1>1 DEF FullInv, WakeInv, LockInv, SchedInv, TypeOK, ControlConsistent
<1>3. \A t \in Tids \ {Main} : Exists(t) => parent[t] # c
  BY <1>1 DEF FullInv, ParentsExist, Exists
<1> SUFFICES ASSUME NEW S \in SUBSET (Tids \ {Main}), S # {}, \A t \in S : state'[t] # "NONE",
                    \A t \in S : parent'[t] \in S
             PROVE  FALSE
  BY DEF ParentsAcyclic, Exists
<1> DEFINE R == S \ {c}
<1>4. R \in SUBSET (Tids \ {Main}) /\ \A t \in R : Exists(t)
  BY <1>2 DEF Exists
<1>5. R # {}
  BY <1>2
<1>6. \A t \in R : parent[t] \in R
  BY <1>2, <1>3, <1>4
<1> QED BY <1>4, <1>5, <1>6 DEF ParentsAcyclic

(* Reclaiming a thread cuts it out of the paths through it.                *)
LEMMA JoinParents ==
  ASSUME FullInv, ParentsAcyclic, join_found
  PROVE  ParentsAcyclic'
<1>1. PICK c \in Joinable(tp) :
        /\ state' = [state EXCEPT ![c] = "NONE"]
        /\ parent' = [t \in Tids |-> IF t = c THEN NoThread ELSE Reparented(t, c)]
  BY DEF join_found, thread_reclaim
<1>2. c \in Tids \ {Main} /\ state[c] = "EXITED"
  BY DEF Joinable, Children, FullInv, WakeInv, LockInv, SchedInv, TypeOK, ControlConsistent
<1>3. state'[c] = "NONE" /\ \A t \in Tids : t # c => state'[t] = state[t]
  BY <1>1, <1>2 DEF FullInv, WakeInv, LockInv, SchedInv, TypeOK
<1>a. \A t \in Tids : t # c /\ state[t] # "NONE" =>
        parent'[t] = IF parent[t] = c THEN parent[c] ELSE parent[t]
  BY <1>1 DEF Reparented, Exists
<1> SUFFICES ASSUME NEW S \in SUBSET (Tids \ {Main}), S # {}, \A t \in S : state'[t] # "NONE",
                    \A t \in S : parent'[t] \in S
             PROVE  FALSE
  BY DEF ParentsAcyclic, Exists
<1>4. \A t \in S : t \in Tids /\ t # c /\ state[t] # "NONE"
  BY <1>3
<1>b. \A t \in S : Exists(t)
  BY <1>4 DEF Exists
<1>c. \A t \in S : parent'[t] = IF parent[t] = c THEN parent[c] ELSE parent[t]
  BY <1>4, <1>a
<1>5. CASE \E t \in S : parent[t] = c
  <2> DEFINE R == S \cup {c}
  <2>1. parent[c] \in S
    BY <1>c, <1>5
  <2>2. R \in SUBSET (Tids \ {Main}) /\ R # {} /\ \A t \in R : Exists(t)
    BY <1>2, <1>b DEF Exists
  <2>3. \A t \in R : parent[t] \in R
    BY <2>1, <1>c
  <2> QED BY <2>2, <2>3 DEF ParentsAcyclic
<1>6. CASE ~\E t \in S : parent[t] = c
  <2>1. \A t \in S : parent[t] \in S
    BY <1>c, <1>6
  <2> QED BY <2>1, <1>b DEF ParentsAcyclic
<1> QED BY <1>5, <1>6

(* A step that creates and reclaims no thread.                             *)
LEMMA KeepAcyclic ==
  ASSUME ParentsAcyclic, UNCHANGED parent,
         \A t \in Tids : state'[t] = "NONE" <=> state[t] = "NONE"
  PROVE  ParentsAcyclic'
BY DEF ParentsAcyclic, Exists

LEMMA AcyclicNext == FullInv /\ ParentsAcyclic /\ [Next]_vars => ParentsAcyclic'
<1> SUFFICES ASSUME FullInv, ParentsAcyclic, [Next]_vars PROVE ParentsAcyclic'
  OBVIOUS
<1>a. SchedInv /\ tp \in Tids /\ state \in [Tids -> States]
  BY DEF FullInv, WakeInv, LockInv, SchedInv, TypeOK
<1>1. CASE running_thread_suspend
  <2>1. UNCHANGED parent
    BY <1>1 DEF running_thread_suspend
  <2> QED BY <1>a, <1>1, <2>1, SwitchStates, KeepAcyclic
<1>2. CASE spawn_thread
  BY <1>2, SpawnParents
<1>3. CASE join_found
  BY <1>3, JoinParents
<1>4. CASE condition_wait
  <2>1. UNCHANGED parent /\ state' = [state EXCEPT ![tp] = "WAITING"] /\ state[tp] = "SELF"
    BY <1>a, <1>4 DEF condition_wait, SchedInv, ControlConsistent
  <2> QED BY <1>a, <2>1, KeepAcyclic
<1>5. CASE running_thread_exit
  <2>1. UNCHANGED parent
    BY <1>5 DEF running_thread_exit
  <2> QED BY <1>a, <1>5, <2>1, ExitStates, KeepAcyclic
<1>6. ASSUME NEW c \in Conds, condition_broadcast(c, state), UNCHANGED parent
      PROVE  ParentsAcyclic'
  BY <1>a, <1>6, BroadcastStates, KeepAcyclic
<1>7. CASE release_all_thread_locks
  <2>1. PICK l \in Locks : condition_broadcast(ReleaseOf(l), state)
    BY <1>a, <1>7 DEF release_all_thread_locks, LocksToRelease, SchedInv, TypeOK
  <2>2. ReleaseOf(l) \in Conds
    BY DEF Conds
  <2> QED BY <1>6, <1>7, <2>1, <2>2 DEF release_all_thread_locks
<1>8. ASSUME NEW l \in Locks, lock_release(l) PROVE ParentsAcyclic'
  <2>1. ReleaseOf(l) \in Conds /\ UNCHANGED parent
    BY <1>8 DEF Conds, lock_release
  <2>2. CASE cnt[l] = 1
    BY <1>6, <1>8, <2>1, <2>2 DEF lock_release
  <2>3. CASE cnt[l] # 1
    <3>1. state' = state
      BY <1>8, <2>3 DEF lock_release
    <3> QED BY <2>1, <3>1, KeepAcyclic
  <2> QED BY <2>2, <2>3
<1>9. ASSUME NEW a \in Tids, handle_timer_interrupt(a) PROVE ParentsAcyclic'
  <2>1. Alarm(a) \in Conds
    BY DEF Conds
  <2> QED BY <1>6, <1>9, <2>1 DEF handle_timer_interrupt
<1>10. ASSUME UNCHANGED <<state, parent>> PROVE ParentsAcyclic'
  BY <1>10, KeepAcyclic
<1>11. CASE \/ spawn_panic \/ main_exit \/ exit_suspend \/ join_wait \/ lock_taken \/ lock_wait
            \/ alarm_sleep \/ alarm_sleep_return \/ umode_exception \/ umode_return
            \/ idle_look \/ idle_sleep \/ umode_interrupt \/ handle_umode_interrupt \/ idle_wake
  BY <1>10, <1>11 DEF spawn_panic, main_exit, exit_suspend, join_wait, lock_taken, lock_wait,
                      alarm_sleep, alarm_sleep_return, umode_exception, umode_return,
                      idle_look, idle_sleep, umode_interrupt, handle_umode_interrupt, idle_wake
<1>12. CASE Halted \/ UNCHANGED vars
  BY <1>10, <1>12 DEF Halted, vars
<1>13. ASSUME NEW l \in Locks, lock_acquire_again(l) \/ lock_acquire(l) PROVE ParentsAcyclic'
  BY <1>10, <1>13 DEF lock_acquire_again, lock_acquire
<1>14. ASSUME NEW j \in Tids, thread_join(j) PROVE ParentsAcyclic'
  BY <1>10, <1>14 DEF thread_join
<1> QED BY <1>1, <1>2, <1>3, <1>4, <1>5, <1>7, <1>8, <1>9, <1>11, <1>12, <1>13, <1>14
           DEF Next, ThreadStep, InterruptStep

(* The threads are always a tree below main, whatever order they exit and  *)
(* are joined in: every parent pointer leads to a thread that exists, and  *)
(* reparenting in thread_reclaim closes no circle, so that every exited    *)
(* thread has an ancestor that can reclaim it.                             *)
THEOREM ParentsAlwaysTree == Spec => [](ParentsExist /\ ParentsAcyclic)
<1>1. Init => FullInv /\ ParentsAcyclic
  <2>1. Init => ParentsAcyclic
    BY Constants DEF Init, ParentsAcyclic, Exists
  <2> QED BY <2>1, InitSched, InitLocks, InitWakes DEF FullInv, WakeInv, LockInv
<1>2. FullInv /\ ParentsAcyclic /\ [Next]_vars => FullInv' /\ ParentsAcyclic'
  BY SchedNext, LocksNext, WakeNext, AcyclicNext DEF FullInv, WakeInv, LockInv
<1>3. FullInv => ParentsExist
  BY DEF FullInv
<1> QED BY <1>1, <1>2, <1>3, PTL DEF Spec

(* Every thread has main as an ancestor, whatever order threads are        *)
(* spawned, exit and are joined in (thread_reclaim, thread_join).          *)
THEOREM MainReclaimsAll == Spec => []ParentsReachMain
<1>1. ParentsExist /\ ParentsAcyclic => ParentsReachMain
  <2> SUFFICES ASSUME ParentsExist, ParentsAcyclic, NEW S \in SUBSET Tids,
                      Main \in S, \A t \in S : Children(t) \subseteq S,
                      NEW u \in Tids, Exists(u), u \notin S
               PROVE  FALSE
    BY DEF ParentsReachMain
  <2> DEFINE C == {t \in Tids \ {Main} : Exists(t) /\ t \notin S}
  <2>1. C \in SUBSET (Tids \ {Main}) /\ C # {} /\ \A t \in C : Exists(t)
    OBVIOUS
  <2>2. PICK t \in C : parent[t] \notin C
    BY <2>1 DEF ParentsAcyclic
  <2>3. parent[t] \in Tids /\ Exists(parent[t])
    BY <2>2 DEF ParentsExist
  <2>4. parent[t] \in S
    BY <2>2, <2>3
  <2>5. t \in Children(parent[t])
    BY <2>2 DEF Children
  <2> QED BY <2>2, <2>4, <2>5
<1> QED BY <1>1, ParentsAlwaysTree, PTL
=============================================================================
