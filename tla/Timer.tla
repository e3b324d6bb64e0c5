------------------------------- MODULE Timer -------------------------------
(***************************************************************************)
(* Alarms (sys/timer.c) on the virtual S-mode timer that the M-mode code   *)
(* of sys/see.s makes out of mtimecmp: the sleep list, the compare         *)
(* register and the interrupt bits, with time passing between any two      *)
(* steps.                                                                  *)
(*                                                                         *)
(* Kernel code is not preempted, so one thread at a time is inside         *)
(* alarm_sleep; until it disables interrupts the handler may run there     *)
(* (when the caller had them enabled), and afterwards, through             *)
(* condition_wait, it may not.  How long a pending interrupt stays masked  *)
(* elsewhere is left open.                                                 *)
(***************************************************************************)
EXTENDS Integers, Sequences, SequencesExt

CONSTANTS
  Thr,          (* threads, each with one struct alarm                       *)
  TICK,         (* 10 ms: 10 * (TIMER_FREQ / 1000)                           *)
  PERUS,        (* ticks per microsecond: TIMER_FREQ / 1000 / 1000           *)
  UINT64_MAX,
  Delays,       (* microseconds asked for                                    *)
  MaxTime       (* bound: the clock stops here                               *)

ASSUME TimeAssumption ==
  /\ TICK \in Nat \ {0} /\ PERUS \in Nat \ {0}
  /\ MaxTime \in Nat /\ UINT64_MAX \in Nat /\ MaxTime + TICK < UINT64_MAX
  /\ Delays \subseteq 0 .. UINT64_MAX

VARIABLES
  now,          (* rdtime                                                    *)
  mtimecmp,     (* the machine timer's compare register                      *)
  mtie, stip,   (* mie.MTIE and mip.STIP                                     *)
  sleep_list,   (* the threads whose alarms are on it, in list order         *)
  twake,        (* al->twake                                                 *)
  pc,           (* "run", "call": in alarm_sleep before disable_interrupts,  *)
                (* "wait": in condition_wait                                 *)
  callnow,      (* alarm_sleep's local now                                   *)
  due,          (* history: when the sleep asked for ends                    *)
  lost          (* history: the ticks the conversion to ticks lost of it     *)

timerVars == <<mtimecmp, mtie, stip>>
vars == <<now, mtimecmp, mtie, stip, sleep_list, twake, pc, callnow, due, lost>>

Least(a, b) == IF a < b THEN a ELSE b

(* timer_init: the first interrupt comes one tick from the start.          *)
Init ==
  /\ now = 0
  /\ mtimecmp = TICK
  /\ mtie = TRUE /\ stip = FALSE
  /\ sleep_list = <<>>
  /\ twake = [t \in Thr |-> 0]
  /\ pc = [t \in Thr |-> "run"]
  /\ callnow = [t \in Thr |-> 0]
  /\ due = [t \in Thr |-> 0]
  /\ lost = [t \in Thr |-> 0]

---------------------------------------------------------------------------
(* The clock, and the M-mode side.                                         *)

time_passes ==
  /\ now < MaxTime
  /\ now' = now + 1
  /\ UNCHANGED <<timerVars, sleep_list, twake, pc, callnow, due, lost>>

clock_stopped == now = MaxTime /\ UNCHANGED vars

(* mip.MTIP follows the comparison.                                        *)
MTIP(cmp) == now >= cmp

(* Fault: set_stcmp always clears STIP and enables MTIE only when the      *)
(* time is still to come.                                                  *)
StipFrom_Never(cmp) == FALSE

(* What set_stcmp makes of mip.STIP.                                       *)
StipFrom(cmp) == MTIP(cmp)

(* set_stcmp: MTIE <- ~MTIP, STIP <- MTIP.                                 *)
set_stcmp(cmp) ==
  /\ mtimecmp' = cmp
  /\ mtie' = ~MTIP(cmp)
  /\ stip' = StipFrom(cmp)

(* The M-mode timer interrupt hands the interrupt on to S mode.            *)
mmode_intr_handler ==
  /\ mtie /\ MTIP(mtimecmp)
  /\ stip' = TRUE
  /\ mtie' = FALSE
  /\ UNCHANGED <<now, mtimecmp, sleep_list, twake, pc, callnow, due, lost>>

---------------------------------------------------------------------------
(* alarm_init, alarm_reset, alarm_sleep.                                   *)

Running(t) == pc[t] = "run" /\ \A u \in Thr : pc[u] # "call"

(* alarm_init and alarm_reset: the next sleep counts from now.             *)
alarm_reset(t) ==
  /\ Running(t)
  /\ twake' = [twake EXCEPT ![t] = now]
  /\ UNCHANGED <<now, timerVars, sleep_list, pc, callnow, due, lost>>

(* The ticks alarm_sleep_us passes on: an unsigned long product.           *)
Ticks(us) == (us * PERUS) % (UINT64_MAX + 1)

(* Fault: the sum is taken as it is.                                       *)
WakeTime_Wraps(from, tcnt) == (from + tcnt) % (UINT64_MAX + 1)

(* al->twake after alarm_sleep's addition, which saturates.                *)
WakeTime(from, tcnt) ==
  IF UINT64_MAX - from < tcnt THEN UINT64_MAX ELSE from + tcnt

(* alarm_sleep up to disable_interrupts, or to its early return.           *)
alarm_sleep_us(t, us) ==
  LET wake == WakeTime(twake[t], Ticks(us)) IN
  /\ Running(t)
  /\ twake' = [twake EXCEPT ![t] = wake]
  /\ due' = [due EXCEPT ![t] = twake[t] + us * PERUS]
  /\ lost' = [lost EXCEPT ![t] = us * PERUS - Ticks(us)]
  /\ callnow' = [callnow EXCEPT ![t] = now]
  /\ pc' = [pc EXCEPT ![t] = IF wake < now THEN "run" ELSE "call"]
  /\ UNCHANGED <<now, timerVars, sleep_list>>

(* The alarm goes in front of the first one that wakes later.              *)
InsertPos(wake) ==
  CHOOSE i \in 1 .. Len(sleep_list) + 1 :
    /\ i <= Len(sleep_list) => twake[sleep_list[i]] > wake
    /\ \A j \in 1 .. i - 1 : twake[sleep_list[j]] <= wake

(* Fault: the timer is programmed only when the list was empty.            *)
Reprogram_Empty(i) == sleep_list = <<>>

(* An alarm that became the head programs the timer.                       *)
Reprogram(i) == i = 1

(* The rest of alarm_sleep, with interrupts off, and condition_wait.       *)
alarm_sleep_insert(t) ==
  LET i == InsertPos(twake[t]) IN
  /\ pc[t] = "call"
  /\ sleep_list' = InsertAt(sleep_list, i, t)
  /\ IF Reprogram(i)
     THEN set_stcmp(Least(twake[t], callnow[t] + TICK))
     ELSE UNCHANGED timerVars
  /\ pc' = [pc EXCEPT ![t] = "wait"]
  /\ UNCHANGED <<now, twake, callnow, due, lost>>

---------------------------------------------------------------------------
(* The S-mode timer interrupt.                                             *)

(* How many alarms the handler's loop takes off the list.                  *)
DueCount ==
  CHOOSE n \in 0 .. Len(sleep_list) :
    /\ \A i \in 1 .. n : twake[sleep_list[i]] <= now
    /\ n < Len(sleep_list) => twake[sleep_list[n + 1]] > now

(* The compare value the handler leaves behind.                            *)
Rearm(list) == IF list = <<>> THEN now + TICK
               ELSE Least(twake[Head(list)], now + TICK)

handle_timer_interrupt ==
  LET n == DueCount
      rest == SubSeq(sleep_list, n + 1, Len(sleep_list))
  IN /\ stip
     /\ sleep_list' = rest
     /\ pc' = [t \in Thr |-> IF \E i \in 1 .. n : sleep_list[i] = t THEN "run" ELSE pc[t]]
     /\ set_stcmp(Rearm(rest))
     /\ UNCHANGED <<now, twake, callnow, due, lost>>

Next ==
  \/ time_passes \/ clock_stopped
  \/ mmode_intr_handler \/ handle_timer_interrupt
  \/ \E t \in Thr :
       \/ alarm_reset(t) \/ alarm_sleep_insert(t)
       \/ \E us \in Delays : alarm_sleep_us(t, us)

Spec == Init /\ [][Next]_vars

(* Time goes on, the machine interrupt is never masked in S or U mode, a   *)
(* caller of alarm_sleep reaches its wait, and a pending timer interrupt   *)
(* is taken: kernel code with interrupts off ends in user mode or in the   *)
(* idle thread.                                                            *)
Fairness == /\ WF_vars(time_passes)
            /\ WF_vars(mmode_intr_handler)
            /\ WF_vars(handle_timer_interrupt)
            /\ \A t \in Thr : WF_vars(alarm_sleep_insert(t))

FairSpec == Spec /\ Fairness

---------------------------------------------------------------------------
(* Correctness.                                                            *)

(* The next interrupt is pending, or the machine timer is set for the      *)
(* first alarm at the latest and never more than one tick away, so neither *)
(* a wakeup nor the preemption of user programs is lost.                   *)
TimerArmed ==
  \/ stip
  \/ /\ mtie
     /\ mtimecmp <= now + TICK
     /\ sleep_list # <<>> => mtimecmp <= twake[Head(sleep_list)]

(* timer.h on alarm_sleep: the caller sleeps for the time it asked for, at *)
(* least: it never returns before that, by interrupt, by saturation or by  *)
(* the early return.  The one exception is in alarm_sleep_us: when the     *)
(* product us * 10 does not fit 64 bits the sleep is shorter by exactly    *)
(* the multiple of 2^64 ticks that the product loses, and by no more.      *)
NeverEarly ==
  [][\A t \in Thr : pc'[t] = "run" /\ (pc[t] # "run" \/ due'[t] # due[t])
                   => /\ now >= due'[t] - lost'[t]
                      /\ lost'[t] # 0 => lost'[t] > UINT64_MAX]_vars

(* A sleeper whose time comes wakes.                                       *)
SleepersWake ==
  \A t \in Thr : (pc[t] = "wait" /\ twake[t] <= MaxTime) ~> pc[t] = "run"
=============================================================================
