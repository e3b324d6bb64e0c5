---------------------------- MODULE TimerProofs ----------------------------
(***************************************************************************)
(* Proofs about Timer, for every set of threads, tick, clock frequency and *)
(* width of the time.                                                      *)
(***************************************************************************)
EXTENDS Timer, WellFoundedInduction, NaturalsInduction, TLAPS

TypeOK ==
  /\ now \in 0 .. MaxTime
  /\ mtimecmp \in Nat
  /\ mtie \in BOOLEAN /\ stip \in BOOLEAN
  /\ sleep_list \in Seq(Thr)
  /\ twake \in [Thr -> 0 .. UINT64_MAX]
  /\ pc \in [Thr -> {"run", "call", "wait"}]
  /\ callnow \in [Thr -> Nat]
  /\ due \in [Thr -> Nat]

(* The time a caller of alarm_sleep has read is past when it is used.      *)
CallsOK == \A t \in Thr : callnow[t] <= now

(* The list holds the alarms of the waiting threads, each one once.        *)
ListOK ==
  /\ \A i \in 1 .. Len(sleep_list) : pc[sleep_list[i]] = "wait"
  /\ \A i, j \in 1 .. Len(sleep_list) : sleep_list[i] = sleep_list[j] => i = j
  /\ \A t \in Thr : pc[t] = "wait" => \E i \in 1 .. Len(sleep_list) : sleep_list[i] = t

(* The list is in the order in which the alarms end.                       *)
ListSorted ==
  \A i, j \in 1 .. Len(sleep_list) : i < j => twake[sleep_list[i]] <= twake[sleep_list[j]]

Inv == TypeOK /\ CallsOK /\ ListOK /\ ListSorted /\ TimerArmed

(* The alarm of a thread that sleeps ends when its caller asked, less what *)
(* the conversion lost, or never.                                          *)
DueOK ==
  /\ lost \in [Thr -> Nat]
  /\ \A t \in Thr : lost[t] # 0 => lost[t] > UINT64_MAX
  /\ \A t \in Thr : pc[t] # "run" => due[t] - lost[t] <= twake[t] \/ twake[t] = UINT64_MAX

---------------------------------------------------------------------------
(* Lists.                                                                  *)

(* A non-empty set of natural numbers has a least member.                  *)
LEMMA LeastNumber ==
  ASSUME NEW T, T \subseteq Nat, T # {}
  PROVE  \E x \in T : \A y \in T : x <= y
<1>1. IsWellFoundedOn(OpToRel(<, Nat), Nat)
  BY NatLessThanWellFounded
<1>2. PICK x \in T : \A y \in T : ~(<<y, x>> \in OpToRel(<, Nat))
  BY <1>1, WFMin
<1>3. \A y \in T : ~(y < x)
  BY <1>2 DEF OpToRel
<1> QED BY <1>3

(* Inserting an element opens a gap and keeps the order of the others.     *)
LEMMA InsertAtProperties ==
  ASSUME NEW S, NEW s \in Seq(S), NEW i \in 1 .. Len(s) + 1, NEW e \in S
  PROVE  /\ InsertAt(s, i, e) \in Seq(S)
         /\ Len(InsertAt(s, i, e)) = Len(s) + 1
         /\ \A j \in 1 .. Len(s) + 1 :
              InsertAt(s, i, e)[j] = IF j < i THEN s[j] ELSE IF j = i THEN e ELSE s[j - 1]
<1> DEFINE u == SubSeq(s, 1, i - 1)
           v == SubSeq(s, i, Len(s))
           w == u \o <<e>>
<1>1. Len(s) \in Nat /\ i \in Nat /\ i >= 1 /\ i <= Len(s) + 1
  OBVIOUS
<1>2. u \in Seq(S) /\ Len(u) = i - 1
  BY <1>1
<1>3. ASSUME NEW j \in 1 .. i - 1 PROVE u[j] = s[j]
  BY <1>1
<1>4. Len(v) = Len(s) - i + 1
  BY <1>1
<1>5. v \in Seq(S)
  BY <1>1
<1>6. ASSUME NEW j \in 1 .. Len(s) - i + 1 PROVE v[j] = s[j + i - 1]
  BY <1>1, <1>4
<1>7. InsertAt(s, i, e) = w \o v
  BY DEF InsertAt
<1> HIDE DEF u, v
<1>8. w \in Seq(S) /\ Len(w) = i /\ w[i] = e
  BY <1>1, <1>2
<1>9. ASSUME NEW j \in 1 .. i - 1 PROVE w[j] = s[j]
  BY <1>1, <1>2, <1>3
<1> HIDE DEF w
<1>10. w \o v \in Seq(S) /\ Len(w \o v) = Len(s) + 1
  BY <1>1, <1>4, <1>5, <1>8
<1>11. ASSUME NEW j \in 1 .. Len(s) + 1
       PROVE  (w \o v)[j] = IF j < i THEN s[j] ELSE IF j = i THEN e ELSE s[j - 1]
  <2>1. CASE j <= i
    <3>1. (w \o v)[j] = w[j]
      BY <2>1, <1>1, <1>4, <1>5, <1>8
    <3> QED BY <3>1, <2>1, <1>1, <1>8, <1>9
  <2>2. CASE ~(j <= i)
    <3>1. (w \o v)[j] = v[j - i]
      BY <2>2, <1>1, <1>4, <1>5, <1>8
    <3>2. j - i \in 1 .. Len(s) - i + 1 /\ (j - i) + i - 1 = j - 1
      BY <2>2, <1>1
    <3> QED BY <2>2, <1>1, <1>6, <3>1, <3>2
  <2> QED BY <2>1, <2>2
<1> QED BY <1>7, <1>10, <1>11

(* What a list has behind its first n elements.                            *)
LEMMA RestProperties ==
  ASSUME NEW S, NEW s \in Seq(S), NEW n \in 0 .. Len(s)
  PROVE  /\ SubSeq(s, n + 1, Len(s)) \in Seq(S)
         /\ Len(SubSeq(s, n + 1, Len(s))) = Len(s) - n
         /\ \A j \in 1 .. Len(s) - n : SubSeq(s, n + 1, Len(s))[j] = s[j + n]
OBVIOUS

(* There is always a place for an alarm: in front of it the list wakes no  *)
(* later, and the alarm behind it, if there is one, later.                 *)
LEMMA InsertPosFound ==
  ASSUME TypeOK, NEW wake \in Nat
  PROVE  /\ InsertPos(wake) \in 1 .. Len(sleep_list) + 1
         /\ InsertPos(wake) <= Len(sleep_list) => twake[sleep_list[InsertPos(wake)]] > wake
         /\ \A j \in 1 .. InsertPos(wake) - 1 : twake[sleep_list[j]] <= wake
<1> DEFINE m == Len(sleep_list)
           T == {i \in 1 .. m + 1 : i <= m => twake[sleep_list[i]] > wake}
<1>1. m \in Nat /\ \A i \in 1 .. m : twake[sleep_list[i]] \in Nat
  BY TimeAssumption DEF TypeOK
<1>2. T \subseteq Nat /\ m + 1 \in T
  BY <1>1
<1>3. PICK i \in T : \A j \in T : i <= j
  BY <1>2, LeastNumber
<1>4. ASSUME NEW j \in 1 .. i - 1 PROVE twake[sleep_list[j]] <= wake
  <2>1. j \in 1 .. m /\ ~(i <= j)
    BY <1>1
  <2>2. j \notin T
    BY <1>3, <2>1
  <2> QED BY <1>1, <2>1, <2>2
<1>5. \E k \in 1 .. m + 1 : /\ k <= m => twake[sleep_list[k]] > wake
                            /\ \A j \in 1 .. k - 1 : twake[sleep_list[j]] <= wake
  BY <1>4
<1> QED BY <1>5 DEF InsertPos

(* The handler's loop stops: it takes off exactly the alarms in front of   *)
(* the first that is not due.                                              *)
LEMMA DueCountFound ==
  ASSUME TypeOK
  PROVE  /\ DueCount \in 0 .. Len(sleep_list)
         /\ \A i \in 1 .. DueCount : twake[sleep_list[i]] <= now
         /\ DueCount < Len(sleep_list) => twake[sleep_list[DueCount + 1]] > now
<1> DEFINE m == Len(sleep_list)
           T == {n \in 0 .. m : n < m => twake[sleep_list[n + 1]] > now}
<1>1. m \in Nat /\ now \in Nat /\ \A i \in 1 .. m : twake[sleep_list[i]] \in Nat
  BY TimeAssumption DEF TypeOK
<1>2. T \subseteq Nat /\ m \in T
  BY <1>1
<1>3. PICK n \in T : \A k \in T : n <= k
  BY <1>2, LeastNumber
<1>4. ASSUME NEW i \in 1 .. n PROVE twake[sleep_list[i]] <= now
  <2>1. i - 1 \in 0 .. m /\ i - 1 < m /\ ~(n <= i - 1) /\ (i - 1) + 1 = i
    BY <1>1
  <2>2. i - 1 \notin T
    BY <1>3, <2>1
  <2> QED BY <1>1, <2>1, <2>2
<1>5. \E k \in 0 .. m : /\ \A i \in 1 .. k : twake[sleep_list[i]] <= now
                        /\ k < m => twake[sleep_list[k + 1]] > now
  BY <1>4
<1> QED BY <1>5 DEF DueCount

---------------------------------------------------------------------------
(* The invariant.                                                          *)

(* What a product loses when it is cut to a word is nothing or a multiple  *)
(* of the word's range.                                                    *)
LEMMA Remainder ==
  ASSUME NEW p \in Nat, NEW m \in Nat, m > 0
  PROVE  p - (p % m) \in Nat /\ (p - (p % m) # 0 => p - (p % m) >= m)
<1>1. p \div m \in Nat
  OBVIOUS
<1>2. p % m = p - m * (p \div m)
  OBVIOUS
<1>3. PICK d \in Nat : d = p \div m
  BY <1>1
<1>4. PICK e \in Nat : e = m * d /\ (e # 0 => e >= m)
  OBVIOUS
<1>5. p % m \in Nat
  OBVIOUS
<1>6. PICK q \in Nat : q = p % m
  BY <1>5
<1>7. q = p - e
  BY <1>2, <1>3, <1>4, <1>6
<1>8. p - q = e
  BY <1>7
<1> QED BY <1>4, <1>6, <1>8

(* The saturating sum stays a time.                                        *)
LEMMA WakeTimeProperties ==
  ASSUME NEW from \in 0 .. UINT64_MAX, NEW us \in Delays
  PROVE  /\ WakeTime(from, Ticks(us)) \in 0 .. UINT64_MAX
         /\ us * PERUS \in Nat
         /\ us * PERUS - Ticks(us) \in Nat
         /\ us * PERUS - Ticks(us) # 0 => us * PERUS - Ticks(us) > UINT64_MAX
         /\ \/ WakeTime(from, Ticks(us)) = from + us * PERUS - (us * PERUS - Ticks(us))
            \/ WakeTime(from, Ticks(us)) = UINT64_MAX
<1>1. us \in Nat /\ PERUS \in Nat /\ UINT64_MAX \in Nat /\ us * PERUS \in Nat
  BY TimeAssumption
<1>2. PICK p \in Nat : p = us * PERUS
  BY <1>1
<1>3. PICK m \in Nat \ {0} : m = UINT64_MAX + 1
  BY <1>1
<1>4. Ticks(us) = p % m /\ p % m \in 0 .. m - 1
  BY <1>2, <1>3 DEF Ticks
<1>8. p - Ticks(us) \in Nat /\ (p - Ticks(us) # 0 => p - Ticks(us) > UINT64_MAX)
  <2>1. p - (p % m) \in Nat /\ (p - (p % m) # 0 => p - (p % m) >= m)
    BY <1>3, Remainder
  <2> QED BY <1>1, <1>3, <1>4, <2>1
<1>9. Ticks(us) \in Nat
  BY <1>3, <1>4
<1> QED BY <1>1, <1>2, <1>8, <1>9 DEF WakeTime

(* set_stcmp leaves the timer pending or armed for the time it is given.   *)
LEMMA SetStcmp ==
  ASSUME TypeOK, NEW cmp \in Nat, set_stcmp(cmp), now' = now
  PROVE  /\ mtimecmp' \in Nat /\ mtie' \in BOOLEAN /\ stip' \in BOOLEAN
         /\ mtimecmp' = cmp /\ (stip' \/ mtie')
<1>1. now \in Nat /\ mtimecmp' = cmp /\ mtie' = ~(now >= cmp) /\ stip' = (now >= cmp)
  BY TimeAssumption DEF TypeOK, set_stcmp, StipFrom, MTIP
<1>2. PICK past \in BOOLEAN : past = (now >= cmp)
  <2>1. (now >= cmp) \in BOOLEAN
    BY <1>1, SMT
  <2> QED BY <2>1, Zenon
<1>3. mtie' = ~past /\ stip' = past
  BY <1>1, <1>2, Zenon
<1> QED BY <1>1, <1>2, <1>3, Zenon

(* timer_init establishes the invariant.                                   *)
LEMMA InitInv == Init => Inv
<1> SUFFICES ASSUME Init PROVE Inv
  OBVIOUS
<1> USE TimeAssumption DEF Init
<1>1. TypeOK
  <2>1. /\ now \in 0 .. MaxTime /\ mtimecmp \in Nat /\ sleep_list \in Seq(Thr)
        /\ twake \in [Thr -> 0 .. UINT64_MAX]
        /\ callnow \in [Thr -> Nat] /\ due \in [Thr -> Nat]
    OBVIOUS
  <2>2. /\ mtie \in BOOLEAN /\ stip \in BOOLEAN
        /\ pc \in [Thr -> {"run", "call", "wait"}]
    OBVIOUS
  <2> QED BY <2>1, <2>2, Zenon DEF TypeOK
<1>2. CallsOK
  BY DEF CallsOK
<1>3. Len(sleep_list) = 0 /\ 1 .. 0 = {}
  OBVIOUS
<1>4. ListOK /\ ListSorted
  BY <1>3 DEF ListOK, ListSorted
<1>5. TimerArmed
  BY DEF TimerArmed
<1> QED BY <1>1, <1>2, <1>4, <1>5 DEF Inv

(* A step of the clock brings the next interrupt closer.                   *)
LEMMA KeepTime ==
  ASSUME Inv, time_passes
  PROVE  Inv'
<1> USE TimeAssumption
<1>1. /\ now \in 0 .. MaxTime /\ now < MaxTime /\ now' = now + 1 /\ MaxTime \in Nat
      /\ UNCHANGED <<mtimecmp, mtie, stip, sleep_list, twake, pc, callnow, due>>
  BY DEF Inv, TypeOK, time_passes, timerVars
<1>2. TypeOK'
  BY <1>1 DEF Inv, TypeOK
<1>3. CallsOK'
  BY <1>1 DEF Inv, TypeOK, CallsOK
<1>4. ListOK' /\ ListSorted'
  BY <1>1 DEF Inv, ListOK, ListSorted
<1>5. TimerArmed'
  BY <1>1 DEF Inv, TypeOK, TimerArmed
<1> QED BY <1>2, <1>3, <1>4, <1>5 DEF Inv

(* The machine interrupt becomes a pending one.                            *)
LEMMA KeepMmode ==
  ASSUME Inv, mmode_intr_handler
  PROVE  Inv'
<1>1. /\ stip' = TRUE /\ mtie' = FALSE
      /\ UNCHANGED <<now, mtimecmp, sleep_list, twake, pc, callnow, due>>
  BY DEF mmode_intr_handler
<1>2. TypeOK'
  BY <1>1 DEF Inv, TypeOK
<1>3. CallsOK'
  BY <1>1 DEF Inv, CallsOK
<1>4. ListOK' /\ ListSorted'
  BY <1>1 DEF Inv, ListOK, ListSorted
<1>5. TimerArmed'
  BY <1>1 DEF TimerArmed
<1> QED BY <1>2, <1>3, <1>4, <1>5 DEF Inv

(* A thread whose alarm is not on the list may change it.                  *)
LEMMA KeepUnlisted ==
  ASSUME Inv, NEW t \in Thr, pc[t] = "run", NEW w \in 0 .. UINT64_MAX,
         twake' = [twake EXCEPT ![t] = w],
         UNCHANGED <<now, mtimecmp, mtie, stip, sleep_list>>,
         pc' \in [Thr -> {"run", "call", "wait"}],
         \A u \in Thr : pc'[u] = pc[u] \/ (u = t /\ pc'[u] # "wait"),
         callnow' \in [Thr -> Nat], due' \in [Thr -> Nat],
         \A u \in Thr : callnow'[u] <= now
  PROVE  Inv'
<1>1. /\ sleep_list \in Seq(Thr) /\ Len(sleep_list) \in Nat
      /\ \A i \in 1 .. Len(sleep_list) : sleep_list[i] \in Thr /\ sleep_list[i] # t
      /\ twake \in [Thr -> 0 .. UINT64_MAX]
  <2>1. sleep_list \in Seq(Thr) /\ twake \in [Thr -> 0 .. UINT64_MAX]
    BY DEF Inv, TypeOK
  <2>2. \A i \in 1 .. Len(sleep_list) : pc[sleep_list[i]] = "wait"
    BY DEF Inv, ListOK
  <2>3. \A i \in 1 .. Len(sleep_list) : sleep_list[i] # t
    BY <2>2
  <2> QED BY <2>1, <2>3
<1>2. /\ sleep_list' = sleep_list
      /\ \A i \in 1 .. Len(sleep_list) : /\ pc'[sleep_list[i]] = pc[sleep_list[i]]
                                         /\ twake'[sleep_list[i]] = twake[sleep_list[i]]
  BY <1>1
<1>3. TypeOK'
  BY DEF Inv, TypeOK
<1>4. CallsOK'
  BY DEF CallsOK
<1>5. ListOK'
  <2>1. \A u \in Thr : pc'[u] = "wait" => pc[u] = "wait"
    OBVIOUS
  <2>2. \A i \in 1 .. Len(sleep_list) : pc'[sleep_list[i]] = "wait"
    BY <1>2 DEF Inv, ListOK
  <2>3. /\ \A i, j \in 1 .. Len(sleep_list) : sleep_list[i] = sleep_list[j] => i = j
        /\ \A u \in Thr : pc'[u] = "wait" => \E i \in 1 .. Len(sleep_list) : sleep_list[i] = u
    BY <2>1 DEF Inv, ListOK
  <2> QED BY <1>2, <2>2, <2>3 DEF ListOK
<1>6. ListSorted'
  BY <1>1, <1>2 DEF Inv, ListSorted
<1>7. TimerArmed'
  <2>1. ASSUME sleep_list # <<>>
        PROVE  Head(sleep_list) = sleep_list[1] /\ 1 \in 1 .. Len(sleep_list)
    BY <2>1, <1>1
  <2>2. sleep_list # <<>> => twake'[Head(sleep_list)] = twake[Head(sleep_list)]
    BY <2>1, <1>2
  <2> QED BY <2>2 DEF Inv, TimerArmed
<1> QED BY <1>3, <1>4, <1>5, <1>6, <1>7 DEF Inv

(* alarm_init and alarm_reset.                                             *)
LEMMA KeepReset ==
  ASSUME Inv, NEW t \in Thr, alarm_reset(t)
  PROVE  Inv'
<1>1. /\ pc[t] = "run" /\ twake' = [twake EXCEPT ![t] = now]
      /\ UNCHANGED <<now, mtimecmp, mtie, stip, sleep_list, pc, callnow, due>>
  BY DEF alarm_reset, Running, timerVars
<1>2. now \in 0 .. UINT64_MAX
  BY TimeAssumption DEF Inv, TypeOK
<1>3. pc' \in [Thr -> {"run", "call", "wait"}] /\ callnow' \in [Thr -> Nat] /\ due' \in [Thr -> Nat]
  BY <1>1 DEF Inv, TypeOK
<1>4. \A u \in Thr : callnow'[u] <= now
  BY <1>1 DEF Inv, CallsOK
<1> QED BY <1>1, <1>2, <1>3, <1>4, KeepUnlisted

(* alarm_sleep_us up to disable_interrupts, or to its early return.        *)
LEMMA KeepSleep ==
  ASSUME Inv, NEW t \in Thr, NEW us \in Delays, alarm_sleep_us(t, us)
  PROVE  Inv'
<1> DEFINE wake == WakeTime(twake[t], Ticks(us))
<1>1. twake[t] \in 0 .. UINT64_MAX /\ now \in Nat /\ twake[t] \in Nat
  BY TimeAssumption DEF Inv, TypeOK
<1>2. wake \in 0 .. UINT64_MAX /\ us * PERUS \in Nat
  BY <1>1, WakeTimeProperties
<1>3. twake[t] + us * PERUS \in Nat
  BY <1>1, <1>2
<1>4. /\ pc[t] = "run" /\ twake' = [twake EXCEPT ![t] = wake]
      /\ UNCHANGED <<now, mtimecmp, mtie, stip, sleep_list>>
      /\ due' = [due EXCEPT ![t] = twake[t] + us * PERUS]
      /\ callnow' = [callnow EXCEPT ![t] = now]
      /\ pc' = [pc EXCEPT ![t] = IF wake < now THEN "run" ELSE "call"]
  BY DEF alarm_sleep_us, Running, timerVars
<1> HIDE DEF wake
<1>5. pc' \in [Thr -> {"run", "call", "wait"}]
  BY <1>4 DEF Inv, TypeOK
<1>6. \A u \in Thr : pc'[u] = pc[u] \/ (u = t /\ pc'[u] # "wait")
  BY <1>4 DEF Inv, TypeOK
<1>7. callnow' \in [Thr -> Nat] /\ due' \in [Thr -> Nat]
  BY <1>1, <1>3, <1>4 DEF Inv, TypeOK
<1>8. \A u \in Thr : callnow'[u] <= now
  BY <1>1, <1>4 DEF Inv, TypeOK, CallsOK
<1> QED BY <1>2, <1>4, <1>5, <1>6, <1>7, <1>8, KeepUnlisted

(* The rest of alarm_sleep: the alarm goes to its place, and when that is  *)
(* the head the timer is set for it.                                       *)
LEMMA KeepInsert ==
  ASSUME Inv, NEW t \in Thr, alarm_sleep_insert(t)
  PROVE  Inv'
<1> DEFINE m == Len(sleep_list)
           p == InsertPos(twake[t])
           new == InsertAt(sleep_list, p, t)
           cmp == Least(twake[t], callnow[t] + TICK)
<1> USE TimeAssumption
<1>1. /\ pc[t] = "call" /\ sleep_list' = new
      /\ IF p = 1 THEN set_stcmp(cmp) ELSE UNCHANGED <<mtimecmp, mtie, stip>>
      /\ pc' = [pc EXCEPT ![t] = "wait"]
      /\ UNCHANGED <<now, twake, callnow, due>>
  BY DEF alarm_sleep_insert, Reprogram, timerVars
<1>2. /\ sleep_list \in Seq(Thr) /\ m \in Nat
      /\ twake \in [Thr -> Nat] /\ callnow \in [Thr -> Nat] /\ now \in Nat
  BY DEF Inv, TypeOK
<1>3. \A i \in 1 .. m : sleep_list[i] \in Thr /\ pc[sleep_list[i]] = "wait" /\ sleep_list[i] # t
  <2>1. \A i \in 1 .. m : pc[sleep_list[i]] = "wait"
    BY DEF Inv, ListOK
  <2> QED BY <1>1, <1>2, <2>1
<1>4. /\ p \in 1 .. m + 1
      /\ p <= m => twake[sleep_list[p]] > twake[t]
      /\ \A j \in 1 .. p - 1 : twake[sleep_list[j]] <= twake[t]
  <2>1. TypeOK /\ twake[t] \in Nat
    BY <1>2 DEF Inv
  <2> QED BY <2>1, InsertPosFound
<1>5. /\ new \in Seq(Thr) /\ Len(new) = m + 1
      /\ \A j \in 1 .. m + 1 :
           new[j] = IF j < p THEN sleep_list[j] ELSE IF j = p THEN t ELSE sleep_list[j - 1]
  <2> HIDE DEF p
  <2> QED BY <1>2, <1>4, InsertAtProperties
<1> HIDE DEF m, p, new
<1>6. ASSUME NEW j \in 1 .. m + 1
      PROVE  \/ j < p /\ j \in 1 .. m /\ new[j] = sleep_list[j]
             \/ j = p /\ new[j] = t
             \/ j > p /\ j - 1 \in 1 .. m /\ j - 1 >= p /\ new[j] = sleep_list[j - 1]
  BY <1>2, <1>4, <1>5
<1>7. cmp \in Nat /\ cmp <= twake[t] /\ cmp <= now + TICK
  <2>1. callnow[t] <= now
    BY DEF Inv, CallsOK
  <2> QED BY <2>1, <1>2 DEF Least
<1> HIDE DEF cmp
<1>8. p = 1 => /\ mtimecmp' \in Nat /\ mtie' \in BOOLEAN /\ stip' \in BOOLEAN
               /\ mtimecmp' = cmp /\ (stip' \/ mtie')
  BY <1>1, <1>7, SetStcmp DEF Inv
<1>9. TypeOK'
  <2>1. now' \in 0 .. MaxTime /\ twake' \in [Thr -> 0 .. UINT64_MAX]
        /\ callnow' \in [Thr -> Nat] /\ due' \in [Thr -> Nat]
    BY <1>1 DEF Inv, TypeOK
  <2>2. mtimecmp' \in Nat /\ mtie' \in BOOLEAN /\ stip' \in BOOLEAN
    <3>1. CASE p = 1
      BY <3>1, <1>8
    <3>2. CASE p # 1
      BY <3>2, <1>1 DEF Inv, TypeOK
    <3> QED BY <3>1, <3>2
  <2>3. sleep_list' \in Seq(Thr)
    BY <1>1, <1>5
  <2>4. pc' \in [Thr -> {"run", "call", "wait"}]
    BY <1>1 DEF Inv, TypeOK
  <2> QED BY <2>1, <2>2, <2>3, <2>4 DEF TypeOK
<1>10. CallsOK'
  BY <1>1 DEF Inv, CallsOK
<1>11. ListOK'
  <2>1. Len(sleep_list') = m + 1 /\ sleep_list' = new
    BY <1>1, <1>5
  <2>2. \A j \in 1 .. m + 1 : pc'[new[j]] = "wait"
    <3>1. pc \in [Thr -> {"run", "call", "wait"}]
      BY DEF Inv, TypeOK
    <3> QED BY <3>1, <1>1, <1>3, <1>6
  <2>3. ASSUME NEW i \in 1 .. m + 1, NEW j \in 1 .. m + 1, new[i] = new[j] PROVE i = j
    <3>1. \A k, l \in 1 .. m : sleep_list[k] = sleep_list[l] => k = l
      BY DEF Inv, ListOK, m
    <3> QED BY <3>1, <2>3, <1>2, <1>3, <1>4, <1>6
  <2>4. ASSUME NEW u \in Thr, pc'[u] = "wait"
        PROVE  \E j \in 1 .. m + 1 : new[j] = u
    <3>1. CASE u = t
      BY <3>1, <1>4, <1>5
    <3>2. CASE u # t
      <4>1. pc[u] = "wait"
        BY <3>2, <2>4, <1>1 DEF Inv, TypeOK
      <4>2. PICK k \in 1 .. m : sleep_list[k] = u
        BY <4>1 DEF Inv, ListOK, m
      <4>3. CASE k < p
        <5>1. k \in 1 .. m + 1 /\ new[k] = sleep_list[k]
          BY <4>3, <1>2, <1>4, <1>5
        <5> QED BY <4>2, <5>1
      <4>4. CASE ~(k < p)
        <5>1. k + 1 \in 1 .. m + 1 /\ ~(k + 1 < p) /\ k + 1 # p /\ (k + 1) - 1 = k
          BY <4>4, <1>2, <1>4
        <5>2. new[k + 1] = sleep_list[k]
          BY <5>1, <1>5
        <5> QED BY <4>2, <5>1, <5>2
      <4> QED BY <4>3, <4>4
    <3> QED BY <3>1, <3>2
  <2> QED BY <2>1, <2>2, <2>3, <2>4 DEF ListOK
<1>12. ListSorted'
  <2>1. \A k, l \in 1 .. m : k < l => twake[sleep_list[k]] <= twake[sleep_list[l]]
    BY DEF Inv, ListSorted, m
  <2>2. \A k \in 1 .. m : twake[sleep_list[k]] \in Nat
    BY <1>2, <1>3
  <2>3. \A k \in 1 .. m : k >= p => twake[sleep_list[k]] >= twake[t]
    <3> SUFFICES ASSUME NEW k \in 1 .. m, k >= p PROVE twake[sleep_list[k]] >= twake[t]
      OBVIOUS
    <3>1. p \in 1 .. m /\ twake[sleep_list[p]] > twake[t] /\ twake[t] \in Nat
      BY <1>2, <1>4
    <3>2. k = p \/ twake[sleep_list[p]] <= twake[sleep_list[k]]
      BY <2>1, <3>1
    <3> QED BY <2>2, <3>1, <3>2
  <2>4. ASSUME NEW i \in 1 .. m + 1, NEW j \in 1 .. m + 1, i < j
        PROVE  twake[new[i]] <= twake[new[j]]
    <3>1. \A k \in 1 .. m : k < p => twake[sleep_list[k]] <= twake[t]
      BY <1>2, <1>4
    <3>2. CASE i < p /\ j < p
      <4>1. i \in 1 .. m /\ j \in 1 .. m /\ new[i] = sleep_list[i] /\ new[j] = sleep_list[j]
        BY <3>2, <1>4, <1>6
      <4> QED BY <4>1, <2>1, <2>4
    <3>3. CASE i < p /\ j = p
      <4>1. i \in 1 .. m /\ new[i] = sleep_list[i] /\ new[j] = t
        BY <3>3, <1>4, <1>6
      <4> QED BY <4>1, <3>1, <3>3
    <3>4. CASE i < p /\ j > p
      <4>1. i \in 1 .. m /\ j - 1 \in 1 .. m /\ new[i] = sleep_list[i] /\ new[j] = sleep_list[j - 1]
            /\ j - 1 >= p
        BY <3>4, <1>4, <1>6
      <4>2. twake[sleep_list[i]] <= twake[t] /\ twake[t] <= twake[sleep_list[j - 1]]
        BY <4>1, <3>4, <3>1, <2>2, <2>3, <1>2
      <4> QED BY <4>1, <4>2, <2>2, <1>2
    <3>5. CASE i = p
      <4>1. j - 1 \in 1 .. m /\ new[i] = t /\ new[j] = sleep_list[j - 1] /\ j - 1 >= p
        BY <3>5, <2>4, <1>4, <1>6
      <4> QED BY <4>1, <2>2, <2>3, <1>2
    <3>6. CASE i > p
      <4>1. /\ i - 1 \in 1 .. m /\ new[i] = sleep_list[i - 1]
            /\ j - 1 \in 1 .. m /\ new[j] = sleep_list[j - 1] /\ i - 1 < j - 1
        BY <3>6, <2>4, <1>4, <1>6
      <4> QED BY <4>1, <2>1
    <3> QED BY <3>2, <3>3, <3>4, <3>5, <3>6, <1>4
  <2>5. Len(sleep_list') = m + 1 /\ sleep_list' = new /\ twake' = twake
    BY <1>1, <1>5
  <2> QED BY <2>4, <2>5 DEF ListSorted
<1>13. TimerArmed'
  <2>1. Head(new) = new[1] /\ new # <<>>
    BY <1>2, <1>5
  <2>2. CASE p = 1
    <3>1. new[1] = t
      BY <2>2, <1>2, <1>5
    <3>2. mtimecmp' <= now' + TICK /\ mtimecmp' <= twake'[Head(new)]
      BY <2>1, <2>2, <3>1, <1>1, <1>7, <1>8
    <3> QED BY <2>2, <3>2, <1>1, <1>8 DEF TimerArmed
  <2>3. CASE p # 1
    <3>1. new[1] = sleep_list[1] /\ sleep_list # <<>> /\ Head(sleep_list) = sleep_list[1]
      BY <2>3, <1>2, <1>4, <1>5 DEF m
    <3> QED BY <2>1, <2>3, <3>1, <1>1 DEF TimerArmed, Inv
  <2> QED BY <2>2, <2>3
<1> QED BY <1>9, <1>10, <1>11, <1>12, <1>13 DEF Inv

(* The handler wakes the front of the list and sets the timer for the new  *)
(* head.                                                                   *)
LEMMA KeepHandler ==
  ASSUME Inv, handle_timer_interrupt
  PROVE  Inv'
<1> DEFINE m == Len(sleep_list)
           n == DueCount
           rest == SubSeq(sleep_list, n + 1, Len(sleep_list))
           cmp == Rearm(rest)
<1> USE TimeAssumption
<1>1. /\ sleep_list' = rest /\ set_stcmp(cmp)
      /\ pc' = [u \in Thr |-> IF \E i \in 1 .. n : sleep_list[i] = u THEN "run" ELSE pc[u]]
      /\ UNCHANGED <<now, twake, callnow, due>>
  BY DEF handle_timer_interrupt
<1>2. /\ sleep_list \in Seq(Thr) /\ m \in Nat
      /\ twake \in [Thr -> Nat] /\ now \in Nat
  BY DEF Inv, TypeOK
<1>3. n \in 0 .. m
  BY DueCountFound DEF Inv
<1>4. /\ rest \in Seq(Thr) /\ Len(rest) = m - n
      /\ \A j \in 1 .. m - n : rest[j] = sleep_list[j + n]
  <2> HIDE DEF n
  <2> QED BY <1>2, <1>3, RestProperties
<1> HIDE DEF m, n, rest
<1>5. /\ \A i \in 1 .. m : pc[sleep_list[i]] = "wait" /\ sleep_list[i] \in Thr
      /\ \A i, j \in 1 .. m : sleep_list[i] = sleep_list[j] => i = j
      /\ \A u \in Thr : pc[u] = "wait" => \E i \in 1 .. m : sleep_list[i] = u
  <2>1. \A i \in 1 .. m : sleep_list[i] \in Thr
    BY <1>2 DEF m
  <2> QED BY <2>1 DEF Inv, ListOK, m
<1>6. cmp \in Nat /\ cmp <= now + TICK /\ (rest # <<>> => cmp <= twake[Head(rest)])
  <2>1. ASSUME rest # <<>> PROVE Head(rest) \in Thr /\ twake[Head(rest)] \in Nat
    BY <2>1, <1>2, <1>4
  <2>2. CASE rest = <<>>
    BY <2>2, <1>2 DEF Rearm
  <2>3. CASE rest # <<>>
    BY <2>1, <2>3, <1>2 DEF Rearm, Least
  <2> QED BY <2>2, <2>3
<1> HIDE DEF cmp
<1>7. /\ mtimecmp' \in Nat /\ mtie' \in BOOLEAN /\ stip' \in BOOLEAN
      /\ mtimecmp' = cmp /\ (stip' \/ mtie')
  BY <1>1, <1>6, SetStcmp DEF Inv
<1>8. TypeOK'
  <2>1. now' \in 0 .. MaxTime /\ twake' \in [Thr -> 0 .. UINT64_MAX]
        /\ callnow' \in [Thr -> Nat] /\ due' \in [Thr -> Nat]
    BY <1>1 DEF Inv, TypeOK
  <2>2. pc' \in [Thr -> {"run", "call", "wait"}]
    BY <1>1 DEF Inv, TypeOK
  <2> QED BY <2>1, <2>2, <1>1, <1>4, <1>7 DEF TypeOK
<1>9. CallsOK'
  BY <1>1 DEF Inv, CallsOK
<1>10. \A j \in 1 .. m - n : j + n \in 1 .. m /\ ~(j + n \in 1 .. n) /\ rest[j] = sleep_list[j + n]
  BY <1>2, <1>3, <1>4
<1>11. ListOK'
  <2>1. ASSUME NEW j \in 1 .. m - n PROVE pc'[rest[j]] = "wait"
    <3>1. ~\E i \in 1 .. n : sleep_list[i] = sleep_list[j + n]
      BY <1>2, <1>3, <1>5, <1>10
    <3> QED BY <3>1, <1>1, <1>5, <1>10
  <2>2. ASSUME NEW i \in 1 .. m - n, NEW j \in 1 .. m - n, rest[i] = rest[j] PROVE i = j
    <3>1. i + n = j + n
      BY <2>2, <1>5, <1>10
    <3> QED BY <3>1, <1>2, <1>3
  <2>3. ASSUME NEW u \in Thr, pc'[u] = "wait" PROVE \E j \in 1 .. m - n : rest[j] = u
    <3>1. pc[u] = "wait" /\ ~\E i \in 1 .. n : sleep_list[i] = u
      BY <2>3, <1>1
    <3>2. PICK i \in 1 .. m : sleep_list[i] = u
      BY <3>1, <1>5
    <3>3. i - n \in 1 .. m - n /\ (i - n) + n = i
      BY <3>1, <3>2, <1>2, <1>3
    <3> QED BY <3>2, <3>3, <1>4
  <2> QED BY <2>1, <2>2, <2>3, <1>1, <1>4 DEF ListOK
<1>12. ListSorted'
  <2>1. ASSUME NEW i \in 1 .. m - n, NEW j \in 1 .. m - n, i < j
        PROVE  twake[rest[i]] <= twake[rest[j]]
    <3>1. i + n < j + n
      BY <2>1, <1>2, <1>3
    <3> QED BY <3>1, <1>10 DEF Inv, ListSorted, m
  <2> QED BY <2>1, <1>1, <1>4 DEF ListSorted
<1>13. TimerArmed'
  BY <1>1, <1>6, <1>7 DEF TimerArmed
<1> QED BY <1>8, <1>9, <1>11, <1>12, <1>13 DEF Inv

(* The invariant is inductive.                                             *)
LEMMA StepInv == Inv /\ [Next]_vars => Inv'
<1> SUFFICES ASSUME Inv, [Next]_vars PROVE Inv'
  OBVIOUS
<1>1. CASE UNCHANGED vars
  BY <1>1 DEF vars, Inv, TypeOK, CallsOK, ListOK, ListSorted, TimerArmed
<1>2. CASE time_passes
  BY <1>2, KeepTime
<1>3. CASE mmode_intr_handler
  BY <1>3, KeepMmode
<1>4. CASE handle_timer_interrupt
  BY <1>4, KeepHandler
<1>5. ASSUME NEW t \in Thr, alarm_reset(t) PROVE Inv'
  BY <1>5, KeepReset
<1>6. ASSUME NEW t \in Thr, alarm_sleep_insert(t) PROVE Inv'
  BY <1>6, KeepInsert
<1>7. ASSUME NEW t \in Thr, NEW us \in Delays, alarm_sleep_us(t, us) PROVE Inv'
  BY <1>7, KeepSleep
<1> QED BY <1>1, <1>2, <1>3, <1>4, <1>5, <1>6, <1>7 DEF Next, clock_stopped

(* Every reachable state satisfies the invariant: the sleep list holds     *)
(* exactly the waiting threads, once each and sorted, although alarms      *)
(* expire while others are being entered (timer.c:87-142, 186-231).        *)
THEOREM Invariance == Spec => []Inv
<1>1. Init => Inv
  BY InitInv
<1>2. Inv /\ [Next]_vars => Inv'
  BY StepInv
<1> QED BY <1>1, <1>2, PTL DEF Spec

(* The timer interrupt is always pending or armed in time for the head of  *)
(* the sleep list and for the next tick, whenever an interrupt falls into  *)
(* alarm_sleep (timer.c:112-136, see.s).                                   *)
THEOREM ArmedTimer == Spec => []TimerArmed
<1>1. Inv => TimerArmed
  BY DEF Inv
<1> QED BY <1>1, Invariance, PTL

(* The next interrupt is pending, or comes before any sleeper's time, not  *)
(* only that of the head.                                                  *)
EveryAlarmCovered ==
  \A t \in Thr : pc[t] = "wait" => stip \/ (mtie /\ mtimecmp <= twake[t])

(* No alarm on the sleep list is later than the timer's next interrupt:    *)
(* alarm_sleep keeps the list sorted and programs the timer for its head   *)
(* (timer.c:112-136).                                                      *)
THEOREM CoveredAlarms == Spec => []EveryAlarmCovered
<1>1. Inv => EveryAlarmCovered
  <2> SUFFICES ASSUME Inv, NEW t \in Thr, pc[t] = "wait", ~stip
               PROVE  mtie /\ mtimecmp <= twake[t]
    BY DEF EveryAlarmCovered
  <2>1. PICK i \in 1 .. Len(sleep_list) : sleep_list[i] = t
    BY DEF Inv, ListOK
  <2>2. /\ sleep_list \in Seq(Thr) /\ twake \in [Thr -> 0 .. UINT64_MAX] /\ mtimecmp \in Nat
        /\ UINT64_MAX \in Nat
    BY TimeAssumption DEF Inv, TypeOK
  <2>3. sleep_list # <<>> /\ Head(sleep_list) = sleep_list[1] /\ 1 \in 1 .. Len(sleep_list)
    BY <2>1, <2>2
  <2>4. mtie /\ mtimecmp <= twake[sleep_list[1]]
    BY <2>3 DEF Inv, TimerArmed
  <2>5. i = 1 \/ twake[sleep_list[1]] <= twake[sleep_list[i]]
    BY <2>1, <2>2, <2>3 DEF Inv, ListSorted
  <2>6. twake[sleep_list[1]] \in Nat /\ twake[sleep_list[i]] \in Nat
    BY <2>1, <2>2, <2>3
  <2> QED BY <2>1, <2>2, <2>4, <2>5, <2>6
<1> QED BY <1>1, Invariance, PTL

---------------------------------------------------------------------------
(* No alarm rings early.                                                   *)

(* A sleeper's alarm keeps its time, and the handler wakes no other.       *)
LEMMA StepDue ==
  ASSUME Inv, DueOK, Next, NEW t \in Thr
  PROVE  /\ pc'[t] # "run" => due'[t] - lost'[t] <= twake'[t] \/ twake'[t] = UINT64_MAX
         /\ pc'[t] = "run" /\ (pc[t] # "run" \/ due'[t] # due[t]) => now >= due'[t] - lost'[t]
         /\ lost'[t] \in Nat /\ (lost'[t] # 0 => lost'[t] > UINT64_MAX)
         /\ lost' = [u \in Thr |-> lost'[u]]
<1> DEFINE Goal == /\ pc'[t] # "run" => due'[t] - lost'[t] <= twake'[t] \/ twake'[t] = UINT64_MAX
                   /\ pc'[t] = "run" /\ (pc[t] # "run" \/ due'[t] # due[t]) => now >= due'[t] - lost'[t]
                   /\ lost'[t] \in Nat /\ (lost'[t] # 0 => lost'[t] > UINT64_MAX)
                   /\ lost' = [u \in Thr |-> lost'[u]]
<1>1. /\ twake \in [Thr -> 0 .. UINT64_MAX] /\ due \in [Thr -> Nat]
      /\ lost \in [Thr -> Nat] /\ (lost[t] # 0 => lost[t] > UINT64_MAX)
      /\ pc \in [Thr -> {"run", "call", "wait"}]
      /\ now \in Nat /\ now < UINT64_MAX /\ UINT64_MAX \in Nat
  BY TimeAssumption DEF Inv, TypeOK, DueOK
<1>2. pc[t] # "run" => due[t] - lost[t] <= twake[t] \/ twake[t] = UINT64_MAX
  BY DEF DueOK
<1>3. ASSUME UNCHANGED <<pc, due, twake, lost>> PROVE Goal
  BY <1>1, <1>2, <1>3
<1>4. CASE time_passes \/ clock_stopped \/ mmode_intr_handler
  BY <1>3, <1>4 DEF time_passes, clock_stopped, mmode_intr_handler, vars
<1>5. CASE handle_timer_interrupt
  <2>1. /\ pc' = [u \in Thr |-> IF \E i \in 1 .. DueCount : sleep_list[i] = u THEN "run" ELSE pc[u]]
        /\ UNCHANGED <<twake, due, lost>>
    BY <1>5 DEF handle_timer_interrupt
  <2>2. CASE \E i \in 1 .. DueCount : sleep_list[i] = t
    <3>1. PICK i \in 1 .. DueCount : sleep_list[i] = t
      BY <2>2
    <3>2. twake[t] <= now /\ DueCount \in 0 .. Len(sleep_list)
      BY <3>1, DueCountFound DEF Inv
    <3>3. pc[t] = "wait" /\ pc'[t] = "run"
      <4>1. Len(sleep_list) \in Nat
        BY DEF Inv, TypeOK
      <4>2. i \in 1 .. Len(sleep_list)
        BY <3>2, <4>1
      <4> QED BY <3>1, <4>2, <2>1 DEF Inv, ListOK
    <3> QED BY <3>2, <3>3, <2>1, <1>1, <1>2
  <2>3. CASE ~\E i \in 1 .. DueCount : sleep_list[i] = t
    <3>1. pc'[t] = pc[t]
      BY <2>1, <2>3
    <3> QED BY <3>1, <2>1, <1>1, <1>2
  <2> QED BY <2>2, <2>3
<1>6. ASSUME NEW u \in Thr, alarm_reset(u) PROVE Goal
  BY <1>1, <1>2, <1>6 DEF alarm_reset, Running
<1>7. ASSUME NEW u \in Thr, alarm_sleep_insert(u) PROVE Goal
  <2>1. pc[u] = "call" /\ pc' = [pc EXCEPT ![u] = "wait"] /\ UNCHANGED <<twake, due, lost>>
    BY <1>7 DEF alarm_sleep_insert
  <2> QED BY <2>1, <1>1, <1>2
<1>8. ASSUME NEW u \in Thr, NEW us \in Delays, alarm_sleep_us(u, us) PROVE Goal
  <2> DEFINE wake == WakeTime(twake[u], Ticks(us))
  <2>1. PICK p \in Nat : p = us * PERUS
    BY <1>1, WakeTimeProperties
  <2>6. PICK l \in Nat : l = us * PERUS - Ticks(us)
    BY <1>1, WakeTimeProperties
  <2>2. /\ wake \in 0 .. UINT64_MAX
        /\ wake = twake[u] + p - l \/ wake = UINT64_MAX
        /\ l # 0 => l > UINT64_MAX
    BY <1>1, <2>1, <2>6, WakeTimeProperties
  <2>3. /\ twake' = [twake EXCEPT ![u] = wake]
        /\ due' = [due EXCEPT ![u] = twake[u] + p]
        /\ lost' = [lost EXCEPT ![u] = l]
        /\ pc' = [pc EXCEPT ![u] = IF wake < now THEN "run" ELSE "call"]
    BY <1>8, <2>1, <2>6 DEF alarm_sleep_us
  <2> HIDE DEF wake
  <2>4. CASE u = t
    <3>1. /\ twake'[t] = wake /\ due'[t] = twake[t] + p /\ lost'[t] = l
          /\ pc'[t] = IF wake < now THEN "run" ELSE "call"
      BY <2>3, <2>4, <1>1
    <3>2. twake[t] \in Nat /\ wake \in Nat /\ p \in Nat /\ l \in Nat
      BY <1>1, <2>1, <2>2, <2>6
    <3>3. due'[t] - lost'[t] = twake[t] + p - l
      BY <3>1, <3>2
    <3>4. wake = due'[t] - lost'[t] \/ wake = UINT64_MAX
      BY <2>2, <2>4, <3>2, <3>3
    <3>5. due'[t] - lost'[t] \in Int
      BY <3>2, <3>3
    <3>6. lost' = [x \in Thr |-> lost'[x]]
      BY <1>1, <2>3
    <3> QED BY <1>1, <2>2, <3>1, <3>2, <3>4, <3>5, <3>6
  <2>5. CASE u # t
    <3>1. twake'[t] = twake[t] /\ due'[t] = due[t] /\ pc'[t] = pc[t] /\ lost'[t] = lost[t]
      BY <2>3, <2>5, <1>1
    <3> QED BY <3>1, <2>3, <1>1, <1>2
  <2> QED BY <2>4, <2>5
<1> QED BY <1>4, <1>5, <1>6, <1>7, <1>8 DEF Next

(* alarm_sleep never returns before the time it was asked for has passed,  *)
(* whatever other alarms and interrupts do (timer.h, timer.c:87-142; the   *)
(* saturated sum is never reached by the clock).  Only the product of      *)
(* alarm_sleep_us takes something away: nothing when it fits 64 bits, the  *)
(* multiple of 2^64 ticks it loses when it does not.                       *)
THEOREM PunctualAlarms == Spec => NeverEarly
<1> DEFINE Late == [\A t \in Thr : pc'[t] = "run" /\ (pc[t] # "run" \/ due'[t] # due[t])
                      => /\ now >= due'[t] - lost'[t]
                         /\ lost'[t] # 0 => lost'[t] > UINT64_MAX]_vars
<1>1. Init => DueOK
  BY DEF Init, DueOK
<1>2. Inv /\ DueOK /\ [Next]_vars => DueOK'
  <2> SUFFICES ASSUME Inv, DueOK, [Next]_vars PROVE DueOK'
    OBVIOUS
  <2>1. CASE UNCHANGED vars
    BY <2>1 DEF vars, DueOK
  <2>2. CASE Next
    <3>1. lost' \in [Thr -> Nat]
      <4>1. CASE Thr = {}
        BY <2>2, <4>1 DEF Next, DueOK, time_passes, clock_stopped, mmode_intr_handler,
                          handle_timer_interrupt, vars
      <4>2. CASE Thr # {}
        BY <2>2, <4>2, StepDue
      <4> QED BY <4>1, <4>2
    <3> QED BY <2>2, <3>1, StepDue DEF DueOK
  <2> QED BY <2>1, <2>2
<1>3. Inv /\ DueOK /\ [Next]_vars => Late
  BY StepDue
<1>4. Spec => []Inv
  BY Invariance
<1> QED BY <1>1, <1>2, <1>3, <1>4, PTL DEF Spec, NeverEarly
=============================================================================
