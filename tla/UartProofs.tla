----------------------------- MODULE UartProofs -----------------------------
(***************************************************************************)
(* Proofs about Uart: no thread waits with nothing to wait for or with its *)
(* interrupt off, and the two ring buffers are first-in first-out queues   *)
(* of RBUFSZ bytes, for any number of readers and writers, every ring size *)
(* and every width of the positions that it divides.                       *)
(***************************************************************************)
EXTENDS Uart, TLAPS

Places == {"user", "lock", "load1", "store1", "check", "wait", "load2", "store2", "move"}
Bits == {"DRIE", "THREIE"}
AnyByte == RxBytes \cup TxBytes \cup {NoByte}
Ring == [hpos : 0 .. UINT - 1, tpos : 0 .. UINT - 1, data : [0 .. RBUFSZ - 1 -> AnyByte]]

(* The number of bytes in a ring buffer.                                   *)
Count(rb) == (rb.tpos - rb.hpos) % UINT

(* The inductive invariant: types, and three parts.                        *)

TypeOK ==
  /\ opened \in BOOLEAN /\ ier \in SUBSET Bits /\ old \in SUBSET Bits
  /\ rbr \in RxBytes \cup {NoByte} /\ thr \in AnyByte /\ taken \in AnyByte
  /\ rxbuf \in Ring /\ txbuf \in Ring
  /\ lock \in Thr \cup {NoThread}
  /\ pc \in [Thr -> Places] /\ left \in [Thr -> Int]

(* Only the holder of the lock is past lock_acquire, and nobody is in a    *)
(* call while the device is closed.                                        *)
LockOK ==
  /\ \A t \in Thr : pc[t] \notin {"user", "lock"} => lock = t
  /\ ~opened => \A t \in Thr : pc[t] = "user"

(* No buffer holds more than RBUFSZ bytes.                                 *)
RingsOK == Count(rxbuf) <= RBUFSZ /\ Count(txbuf) <= RBUFSZ

(* A thread that has seen its buffer ready finds it so; a waiting thread   *)
(* has something to wait for; and when there is, its interrupt is on.      *)
WaitsOK ==
  \A t \in Thr : /\ pc[t] \in {"load2", "store2", "move"} => ~MustWait(t)
                 /\ pc[t] = "wait" => MustWait(t)
                 /\ pc[t] \in {"check", "wait"} /\ MustWait(t) => BitOf(t) \in ier

Inv == TypeOK /\ LockOK /\ RingsOK /\ WaitsOK

---------------------------------------------------------------------------
(* Arithmetic.                                                             *)

LEMMA Division ==
  ASSUME NEW a \in Nat, NEW b \in Nat, b > 0
  PROVE  /\ a \div b \in Nat /\ a % b \in Nat /\ a % b < b
         /\ a = b * (a \div b) + (a % b)
OBVIOUS

LEMMA Remainder ==
  ASSUME NEW b \in Nat, b > 0, NEW q \in Int, NEW r \in Nat, r < b
  PROVE  (b * q + r) % b = r
OBVIOUS

LEMMA Period ==
  ASSUME NEW x \in Nat
  PROVE  (x + UINT) % RBUFSZ = x % RBUFSZ /\ x % RBUFSZ \in 0 .. RBUFSZ - 1
<1>1. RBUFSZ \in Nat /\ RBUFSZ > 0 /\ UINT \in Nat /\ UINT % RBUFSZ = 0
  BY UartRingAssumption
<1>2. PICK m \in Nat : UINT = RBUFSZ * m
  BY <1>1, Division
<1>3. PICK q \in Nat, r \in Nat : r < RBUFSZ /\ x = RBUFSZ * q + r /\ x % RBUFSZ = r
  BY <1>1, Division
<1>4. x + UINT = RBUFSZ * (q + m) + r
  BY <1>1, <1>2, <1>3
<1>5. (RBUFSZ * (q + m) + r) % RBUFSZ = r
  BY <1>1, <1>3, Remainder
<1> QED
  BY <1>1, <1>3, <1>4, <1>5

LEMMA Apart ==
  ASSUME NEW x \in Nat, NEW d \in 1 .. RBUFSZ - 1
  PROVE  (x + d) % RBUFSZ # x % RBUFSZ
<1>1. RBUFSZ \in Nat /\ RBUFSZ > 0
  BY UartRingAssumption
<1>2. PICK q \in Nat, r \in Nat : r < RBUFSZ /\ x = RBUFSZ * q + r /\ x % RBUFSZ = r
  BY <1>1, Division
<1>3. CASE r + d < RBUFSZ
  <2>1. x + d = RBUFSZ * q + (r + d)
    BY <1>1, <1>2
  <2>2. (RBUFSZ * q + (r + d)) % RBUFSZ = r + d
    BY <1>1, <1>2, <1>3, Remainder
  <2> QED
    BY <1>1, <1>2, <2>1, <2>2
<1>4. CASE r + d >= RBUFSZ
  <2>1. x + d = RBUFSZ * (q + 1) + (r + d - RBUFSZ)
    BY <1>1, <1>2
  <2>2. r + d - RBUFSZ \in Nat /\ r + d - RBUFSZ < RBUFSZ
    BY <1>1, <1>2, <1>4
  <2>3. (RBUFSZ * (q + 1) + (r + d - RBUFSZ)) % RBUFSZ = r + d - RBUFSZ
    <3>1. PICK e \in Nat : e = r + d - RBUFSZ
      BY <2>2
    <3>2. PICK p \in Int : p = q + 1
      BY <1>2
    <3>3. e < RBUFSZ
      BY <2>2, <3>1
    <3>4. (RBUFSZ * p + e) % RBUFSZ = e
      BY <1>1, <3>3, Remainder
    <3> QED
      BY <3>1, <3>2, <3>4
  <2> QED
    BY <1>1, <1>2, <2>1, <2>3
<1> QED
  BY <1>1, <1>2, <1>3, <1>4

(* Positions are unsigned: the count of a buffer whose tail has wrapped.   *)
LEMMA CountOf ==
  ASSUME NEW rb \in Ring
  PROVE  /\ rb.hpos \in 0 .. UINT - 1 /\ rb.tpos \in 0 .. UINT - 1
         /\ Count(rb) = IF rb.tpos >= rb.hpos THEN rb.tpos - rb.hpos ELSE rb.tpos - rb.hpos + UINT
         /\ Count(rb) \in 0 .. UINT - 1
<1>1. rb.hpos \in 0 .. UINT - 1 /\ rb.tpos \in 0 .. UINT - 1
  BY DEF Ring
<1>2. UINT \in Nat /\ UINT > 0
  BY UartRingAssumption
<1>3. CASE rb.tpos >= rb.hpos
  <2>1. (UINT * 0 + (rb.tpos - rb.hpos)) % UINT = rb.tpos - rb.hpos
    BY <1>1, <1>2, <1>3, Remainder
  <2>2. UINT * 0 + (rb.tpos - rb.hpos) = rb.tpos - rb.hpos
    BY <1>1, <1>2
  <2> QED
    BY <1>1, <1>2, <1>3, <2>1, <2>2 DEF Count
<1>4. CASE rb.tpos < rb.hpos
  <2>1. rb.tpos - rb.hpos + UINT \in Nat /\ rb.tpos - rb.hpos + UINT < UINT
    BY <1>1, <1>2, <1>4
  <2>2. (UINT * (-1) + (rb.tpos - rb.hpos + UINT)) % UINT = rb.tpos - rb.hpos + UINT
    BY <1>2, <2>1, Remainder
  <2>3. UINT * (-1) + (rb.tpos - rb.hpos + UINT) = rb.tpos - rb.hpos
    BY <1>1, <1>2
  <2> QED
    BY <1>1, <1>2, <1>4, <2>1, <2>2, <2>3 DEF Count
<1> QED
  BY <1>1, <1>2, <1>3, <1>4

LEMMA NextPosition ==
  ASSUME NEW p \in 0 .. UINT - 1
  PROVE  /\ (p + 1) % UINT = IF p + 1 = UINT THEN 0 ELSE p + 1
         /\ (p + 1) % UINT \in 0 .. UINT - 1
<1>1. UINT \in Nat /\ UINT > 0
  BY UartRingAssumption
<1>2. CASE p + 1 = UINT
  <2>1. (UINT * 1 + 0) % UINT = 0
    BY <1>1, Remainder
  <2>2. UINT * 1 + 0 = p + 1
    BY <1>1, <1>2
  <2> QED
    BY <1>1, <1>2, <2>1, <2>2
<1>3. CASE p + 1 < UINT
  <2>1. (UINT * 0 + (p + 1)) % UINT = p + 1
    BY <1>1, <1>3, Remainder
  <2>2. UINT * 0 + (p + 1) = p + 1
    BY <1>1
  <2> QED
    BY <1>1, <1>3, <2>1, <2>2
<1> QED
  BY <1>1, <1>2, <1>3

---------------------------------------------------------------------------
(* Ring buffers.                                                           *)

LEMMA EmptyFull ==
  ASSUME NEW rb \in Ring
  PROVE  /\ rbuf_empty(rb) <=> Count(rb) = 0
         /\ rbuf_full(rb) <=> Count(rb) = RBUFSZ
         /\ ~(rbuf_empty(rb) /\ rbuf_full(rb))
BY CountOf, UartRingAssumption DEF rbuf_empty, rbuf_full, Count

LEMMA QueuedSeq ==
  ASSUME NEW rb \in Ring
  PROVE  /\ Queued(rb) \in Seq(AnyByte) /\ Len(Queued(rb)) = Count(rb)
         /\ \A i \in 1 .. Count(rb) : Queued(rb)[i] = rb.data[(rb.hpos + i - 1) % RBUFSZ]
<1>1. Count(rb) \in Nat /\ rb.hpos \in Nat
  BY CountOf, UartRingAssumption
<1>2. \A i \in 1 .. Count(rb) : rb.data[(rb.hpos + i - 1) % RBUFSZ] \in AnyByte
  <2> TAKE i \in 1 .. Count(rb)
  <2>1. rb.hpos + i - 1 \in Nat
    BY <1>1
  <2>2. (rb.hpos + i - 1) % RBUFSZ \in 0 .. RBUFSZ - 1
    BY <2>1, Period
  <2> QED
    BY <2>2 DEF Ring
<1>3. Queued(rb) = [i \in 1 .. Count(rb) |-> rb.data[(rb.hpos + i - 1) % RBUFSZ]]
  BY DEF Queued, Count
<1> QED
  BY <1>1, <1>2, <1>3

LEMMA GetByte ==
  ASSUME NEW rb \in Ring, ~rbuf_empty(rb)
  PROVE  /\ rbuf_getc(rb) \in Ring /\ Count(rbuf_getc(rb)) = Count(rb) - 1
         /\ Queued(rb) # <<>> /\ Head(Queued(rb)) = FirstByte(rb)
         /\ Queued(rbuf_getc(rb)) = Tail(Queued(rb))
<1> DEFINE g == rbuf_getc(rb)
<1>1. /\ rb.hpos \in 0 .. UINT - 1 /\ rb.tpos \in 0 .. UINT - 1 /\ UINT \in Nat
      /\ Count(rb) = IF rb.tpos >= rb.hpos THEN rb.tpos - rb.hpos ELSE rb.tpos - rb.hpos + UINT
  BY CountOf, UartRingAssumption
<1>2. Count(rb) \in 1 .. UINT - 1
  BY <1>1, CountOf, EmptyFull
<1>3. /\ g.hpos = (IF rb.hpos + 1 = UINT THEN 0 ELSE rb.hpos + 1)
      /\ g.tpos = rb.tpos /\ g.data = rb.data /\ g \in Ring
  BY NextPosition, <1>1 DEF rbuf_getc, Ring
<1> HIDE DEF g
<1>4. Count(g) = Count(rb) - 1
  BY <1>1, <1>2, <1>3, CountOf
<1>5. /\ Queued(rb) \in Seq(AnyByte) /\ Len(Queued(rb)) = Count(rb)
      /\ \A i \in 1 .. Count(rb) : Queued(rb)[i] = rb.data[(rb.hpos + i - 1) % RBUFSZ]
  BY QueuedSeq
<1>6. /\ Queued(g) \in Seq(AnyByte) /\ Len(Queued(g)) = Count(g)
      /\ \A i \in 1 .. Count(g) : Queued(g)[i] = g.data[(g.hpos + i - 1) % RBUFSZ]
  BY <1>3, QueuedSeq
<1>7. Queued(rb) # <<>>
  BY <1>2, <1>5
<1>8. Head(Queued(rb)) = FirstByte(rb)
  <2>1. Queued(rb)[1] = rb.data[(rb.hpos + 1 - 1) % RBUFSZ] /\ rb.hpos + 1 - 1 = rb.hpos
    BY <1>1, <1>2, <1>5
  <2> QED
    BY <1>5, <1>7, <2>1 DEF FirstByte
<1>9. ASSUME NEW i \in 1 .. Count(g)
      PROVE  Queued(g)[i] = Queued(rb)[i + 1]
  <2>1. i + 1 \in 1 .. Count(rb)
    BY <1>2, <1>4
  <2>2. Queued(rb)[i + 1] = rb.data[(rb.hpos + i) % RBUFSZ]
    <3>1. rb.hpos + (i + 1) - 1 = rb.hpos + i
      BY <1>1, <2>1
    <3> QED
      BY <1>5, <2>1, <3>1
  <2>3. Queued(g)[i] = rb.data[(g.hpos + i - 1) % RBUFSZ]
    BY <1>3, <1>6
  <2>4. CASE rb.hpos + 1 = UINT
    <3>1. g.hpos + i - 1 = i - 1 /\ rb.hpos + i = (i - 1) + UINT /\ i - 1 \in Nat
      BY <1>1, <1>3, <2>4
    <3>2. ((i - 1) + UINT) % RBUFSZ = (i - 1) % RBUFSZ
      BY <3>1, Period
    <3> QED
      BY <2>2, <2>3, <3>1, <3>2
  <2>5. CASE rb.hpos + 1 # UINT
    <3>1. g.hpos + i - 1 = rb.hpos + i
      BY <1>1, <1>3, <2>5
    <3> QED
      BY <2>2, <2>3, <3>1
  <2> QED
    BY <2>4, <2>5
<1>10. Queued(g) = Tail(Queued(rb))
  BY <1>2, <1>4, <1>5, <1>6, <1>7, <1>9
<1> QED
  BY <1>3, <1>4, <1>7, <1>8, <1>10 DEF g

LEMMA PutByte ==
  ASSUME NEW rb \in Ring, NEW c \in AnyByte, Count(rb) <= RBUFSZ, ~rbuf_full(rb)
  PROVE  /\ rbuf_putc(rb, c) \in Ring /\ Count(rbuf_putc(rb, c)) = Count(rb) + 1
         /\ Count(rb) + 1 <= RBUFSZ
         /\ Queued(rbuf_putc(rb, c)) = Append(Queued(rb), c)
<1> DEFINE g == rbuf_putc(rb, c)
<1>1. /\ rb.hpos \in 0 .. UINT - 1 /\ rb.tpos \in 0 .. UINT - 1
      /\ UINT \in Nat /\ RBUFSZ \in Nat /\ UINT > RBUFSZ
      /\ Count(rb) = IF rb.tpos >= rb.hpos THEN rb.tpos - rb.hpos ELSE rb.tpos - rb.hpos + UINT
  BY CountOf, UartRingAssumption
<1>2. Count(rb) \in 0 .. RBUFSZ - 1
  BY <1>1, CountOf, EmptyFull
<1>3. rb.tpos % RBUFSZ \in 0 .. RBUFSZ - 1
  <2>1. rb.tpos \in Nat
    BY <1>1
  <2> QED
    BY <2>1, Period
<1>4. /\ g.tpos = (IF rb.tpos + 1 = UINT THEN 0 ELSE rb.tpos + 1)
      /\ g.hpos = rb.hpos /\ g.data = [rb.data EXCEPT ![rb.tpos % RBUFSZ] = c] /\ g \in Ring
  <2>1. (rb.tpos + 1) % UINT \in 0 .. UINT - 1
        /\ (rb.tpos + 1) % UINT = IF rb.tpos + 1 = UINT THEN 0 ELSE rb.tpos + 1
    BY <1>1, NextPosition
  <2>2. [rb.data EXCEPT ![rb.tpos % RBUFSZ] = c] \in [0 .. RBUFSZ - 1 -> AnyByte]
    BY <1>3 DEF Ring
  <2>3. g = [rb EXCEPT !.data = [rb.data EXCEPT ![rb.tpos % RBUFSZ] = c], !.tpos = (rb.tpos + 1) % UINT]
    BY DEF rbuf_putc, Ring
  <2> QED
    BY <2>1, <2>2, <2>3 DEF Ring
<1> HIDE DEF g
<1>5. Count(g) = Count(rb) + 1
  BY <1>1, <1>2, <1>4, CountOf
<1>6. /\ Queued(rb) \in Seq(AnyByte) /\ Len(Queued(rb)) = Count(rb)
      /\ \A i \in 1 .. Count(rb) : Queued(rb)[i] = rb.data[(rb.hpos + i - 1) % RBUFSZ]
  BY QueuedSeq
<1>7. /\ Queued(g) \in Seq(AnyByte) /\ Len(Queued(g)) = Count(g)
      /\ \A i \in 1 .. Count(g) : Queued(g)[i] = g.data[(g.hpos + i - 1) % RBUFSZ]
  BY <1>4, QueuedSeq
<1>8. (rb.hpos + Count(rb)) % RBUFSZ = rb.tpos % RBUFSZ
  <2>1. rb.hpos + Count(rb) = rb.tpos \/ rb.hpos + Count(rb) = rb.tpos + UINT
    BY <1>1
  <2> QED
    BY <1>1, <2>1, Period
<1>9. Queued(g)[Count(g)] = c
  <2>1. Count(g) \in 1 .. Count(g) /\ g.hpos + Count(g) - 1 = rb.hpos + Count(rb)
    BY <1>1, <1>2, <1>4, <1>5
  <2>2. Queued(g)[Count(g)] = g.data[rb.tpos % RBUFSZ]
    BY <1>7, <1>8, <2>1
  <2>3. rb.data \in [0 .. RBUFSZ - 1 -> AnyByte]
    BY DEF Ring
  <2> QED
    BY <1>3, <1>4, <2>2, <2>3
<1>10. ASSUME NEW i \in 1 .. Count(rb)
       PROVE  Queued(g)[i] = Queued(rb)[i]
  <2>1. PICK x \in Nat : x = rb.hpos + i - 1
    BY <1>1, <1>2
  <2>2. PICK d \in 1 .. RBUFSZ - 1 : x + d = rb.hpos + Count(rb)
    <3>1. Count(rb) + 1 - i \in 1 .. RBUFSZ - 1 /\ x + (Count(rb) + 1 - i) = rb.hpos + Count(rb)
      BY <1>1, <1>2, <2>1
    <3> QED
      BY <3>1
  <2>3. x % RBUFSZ # rb.tpos % RBUFSZ
    BY <1>8, <2>2, Apart
  <2>4. g.data[x % RBUFSZ] = rb.data[x % RBUFSZ]
    <3>1. rb.data \in [0 .. RBUFSZ - 1 -> AnyByte] /\ x % RBUFSZ \in 0 .. RBUFSZ - 1
      BY Period DEF Ring
    <3> QED
      BY <1>4, <2>3, <3>1
  <2>5. i \in 1 .. Count(g) /\ g.hpos + i - 1 = x
    BY <1>1, <1>2, <1>4, <1>5, <2>1
  <2> QED
    BY <1>6, <1>7, <2>1, <2>4, <2>5
<1>11. Queued(g) = Append(Queued(rb), c)
  BY <1>2, <1>5, <1>6, <1>7, <1>9, <1>10
<1> QED
  BY <1>1, <1>2, <1>4, <1>5, <1>11 DEF g

---------------------------------------------------------------------------
(* The invariant.                                                          *)

LEMMA InitInv == Init => Inv
<1> SUFFICES ASSUME Init PROVE Inv
  OBVIOUS
<1>1. RBUFSZ \in Nat /\ UINT \in Nat /\ UINT > 0
  BY UartRingAssumption
<1>2. rxbuf \in Ring /\ txbuf \in Ring /\ rbuf_empty(rxbuf) /\ rbuf_empty(txbuf)
  BY <1>1 DEF Init, Ring, AnyByte, rbuf_empty
<1>3. TypeOK
  <2>1. opened \in BOOLEAN /\ ier \in SUBSET Bits /\ old \in SUBSET Bits
    BY DEF Init
  <2>2. rbr \in RxBytes \cup {NoByte} /\ thr \in AnyByte /\ taken \in AnyByte
    BY DEF Init, AnyByte
  <2>3. lock \in Thr \cup {NoThread} /\ pc \in [Thr -> Places] /\ left \in [Thr -> Int]
    BY DEF Init, Places
  <2> QED
    BY <1>2, <2>1, <2>2, <2>3 DEF TypeOK
<1>4. LockOK /\ WaitsOK
  BY DEF Init, LockOK, WaitsOK
<1>5. RingsOK
  BY <1>1, <1>2, EmptyFull DEF RingsOK
<1> QED
  BY <1>3, <1>4, <1>5 DEF Inv

LEMMA FreshRing ==
  ASSUME NEW rb \in Ring
  PROVE  rbuf_init(rb) \in Ring /\ rbuf_empty(rbuf_init(rb)) /\ Count(rbuf_init(rb)) = 0
<1>1. UINT \in Nat /\ UINT > 0
  BY UartRingAssumption
<1>2. rbuf_init(rb) \in Ring /\ rbuf_empty(rbuf_init(rb))
  <2> DEFINE g == [rb EXCEPT !.hpos = 0]
  <2>1. g \in Ring /\ g.hpos = 0
    BY <1>1 DEF Ring
  <2>2. rbuf_init(rb) = [g EXCEPT !.tpos = 0]
    BY DEF rbuf_init
  <2> HIDE DEF g
  <2>3. [g EXCEPT !.tpos = 0] \in Ring /\ [g EXCEPT !.tpos = 0].hpos = 0 /\ [g EXCEPT !.tpos = 0].tpos = 0
    BY <1>1, <2>1 DEF Ring
  <2> QED
    BY <2>2, <2>3 DEF rbuf_empty
<1> QED
  BY <1>2, EmptyFull

LEMMA OpenInv ==
  ASSUME Inv, uart_serial_open
  PROVE  Inv'
<1> USE DEF uart_serial_open
<1>1. rxbuf' \in Ring /\ txbuf' \in Ring /\ Count(rxbuf)' = 0 /\ Count(txbuf)' = 0
  BY FreshRing DEF Inv, TypeOK
<1>2. TypeOK'
  BY <1>1 DEF Inv, TypeOK, AnyByte, Bits
<1>3. \A t \in Thr : pc'[t] = "user"
  BY DEF Inv, LockOK
<1>4. LockOK' /\ WaitsOK'
  BY <1>3 DEF LockOK, WaitsOK
<1>5. RingsOK'
  BY <1>1, UartRingAssumption DEF RingsOK
<1> QED
  BY <1>2, <1>4, <1>5 DEF Inv

LEMMA CloseInv ==
  ASSUME Inv, uart_serial_close
  PROVE  Inv'
<1> USE DEF uart_serial_close, devVars, bufVars
<1>1. TypeOK'
  BY DEF Inv, TypeOK, AnyByte, Bits
<1>2. LockOK' /\ WaitsOK'
  BY DEF LockOK, WaitsOK
<1>3. RingsOK'
  BY DEF Inv, RingsOK, Count
<1> QED
  BY <1>1, <1>2, <1>3 DEF Inv

(* A step of a thread outside the lock, or of the holder of the lock.      *)
LEMMA OwnStep ==
  ASSUME Inv, TypeOK', NEW t \in Thr, RingsOK', opened' = opened, opened,
         lock' = lock, pc'[t] \notin {"user", "lock"} => lock = t,
         \A u \in Thr \ {t} : pc'[u] = pc[u],
         \A u \in Thr \ {t} : pc[u] \notin {"user", "lock"} =>
             ier' = ier /\ rxbuf' = rxbuf /\ txbuf' = txbuf,
         /\ pc'[t] \in {"load2", "store2", "move"} => ~MustWait(t)'
         /\ pc'[t] = "wait" => MustWait(t)'
         /\ pc'[t] \in {"check", "wait"} /\ MustWait(t)' => BitOf(t) \in ier'
  PROVE  Inv'
<1>1. LockOK'
  BY DEF Inv, LockOK
<1>2. ASSUME NEW u \in Thr
      PROVE  /\ pc'[u] \in {"load2", "store2", "move"} => ~MustWait(u)'
             /\ pc'[u] = "wait" => MustWait(u)'
             /\ pc'[u] \in {"check", "wait"} /\ MustWait(u)' => BitOf(u) \in ier'
  <2>1. CASE u = t
    BY <2>1
  <2>2. CASE u # t /\ pc[u] \in {"user", "lock"}
    BY <2>2
  <2>3. CASE u # t /\ pc[u] \notin {"user", "lock"}
    <3>1. ier' = ier /\ rxbuf' = rxbuf /\ txbuf' = txbuf /\ pc'[u] = pc[u]
      BY <2>3
    <3>2. MustWait(u)' <=> MustWait(u)
      BY <3>1 DEF MustWait, rbuf_empty, rbuf_full
    <3> QED
      BY <3>1, <3>2 DEF Inv, WaitsOK
  <2> QED
    BY <2>1, <2>2, <2>3
<1>3. WaitsOK'
  BY <1>2 DEF WaitsOK, BitOf
<1> QED
  BY <1>1, <1>3 DEF Inv

LEMMA OneHolder ==
  ASSUME LockOK, NEW t \in Thr, pc[t] \notin {"user", "lock"},
         NEW u \in Thr \ {t}
  PROVE  pc[u] \in {"user", "lock"} /\ lock = t /\ opened
BY DEF LockOK

LEMMA CallInv ==
  ASSUME Inv, NEW t \in Thr, call(t)
  PROVE  Inv'
<1> USE DEF call, Goto, devVars, bufVars
<1>1. TypeOK'
  <2>1. PICK n \in 1 .. MaxLen : left' = [left EXCEPT ![t] = n]
    OBVIOUS
  <2>2. n \in Int
    BY UartRingAssumption
  <2>3. left' \in [Thr -> Int]
    BY <2>1, <2>2 DEF Inv, TypeOK
  <2>4. pc' \in [Thr -> Places]
    BY DEF Inv, TypeOK, Places
  <2> QED
    BY <2>3, <2>4 DEF Inv, TypeOK, AnyByte
<1>2. RingsOK'
  BY DEF Inv, RingsOK, Count
<1>3. pc'[t] = "lock" /\ \A u \in Thr \ {t} : pc'[u] = pc[u]
  BY DEF Inv, TypeOK
<1> QED
  BY <1>1, <1>2, <1>3, OwnStep

LEMMA LockedInv ==
  ASSUME Inv, NEW t \in Thr, locked(t)
  PROVE  Inv'
<1> USE DEF locked, Goto, devVars, bufVars
<1>1. pc'[t] = "load1" /\ \A u \in Thr \ {t} : pc'[u] = pc[u]
  BY DEF Inv, TypeOK
<1>2. TypeOK'
  BY DEF Inv, TypeOK, Places, AnyByte
<1>3. RingsOK'
  BY DEF Inv, RingsOK, Count
<1>4. \A u \in Thr : pc[u] \in {"user", "lock"} /\ NoThread # u
  BY ThreadsAssumption DEF Inv, LockOK, Thr
<1>5. LockOK'
  BY <1>1, <1>4 DEF Inv, LockOK
<1>6. \A u \in Thr : pc'[u] \in {"user", "lock", "load1"}
  BY <1>1, <1>4
<1>7. WaitsOK'
  BY <1>6 DEF WaitsOK
<1> QED
  BY <1>2, <1>3, <1>5, <1>7 DEF Inv

LEMMA LoadInv ==
  ASSUME Inv, NEW t \in Thr, load(t)
  PROVE  Inv'
<1> USE DEF load, Goto, devVars, bufVars
<1>1. /\ (pc[t] = "load1" /\ pc'[t] = "store1") \/ (pc[t] = "load2" /\ pc'[t] = "store2")
      /\ \A u \in Thr \ {t} : pc'[u] = pc[u]
  BY DEF Inv, TypeOK
<1>2. TypeOK'
  BY DEF Inv, TypeOK, Places, AnyByte
<1>3. RingsOK'
  BY DEF Inv, RingsOK, Count
<1>4. MustWait(t)' <=> MustWait(t)
  BY DEF MustWait, rbuf_empty, rbuf_full
<1>5. lock = t /\ opened
  BY <1>1 DEF Inv, LockOK
<1>6. pc'[t] \in {"load2", "store2", "move"} => ~MustWait(t)'
  BY <1>1, <1>4 DEF Inv, WaitsOK
<1> QED
  BY <1>1, <1>2, <1>3, <1>5, <1>6, OwnStep

LEMMA StoreInv ==
  ASSUME Inv, NEW t \in Thr, store(t)
  PROVE  Inv'
<1> USE DEF store, Goto, devVars, bufVars
<1>1. /\ \/ pc[t] = "store1" /\ pc'[t] = "check" /\ lock' = lock
         \/ pc[t] = "store1" /\ pc'[t] = "user" /\ lock' = NoThread
         \/ pc[t] = "store2" /\ pc'[t] = "move" /\ lock' = lock
      /\ \A u \in Thr \ {t} : pc'[u] = pc[u]
  BY DEF Inv, TypeOK
<1>2. ier' = old \cup {BitOf(t)} /\ BitOf(t) \in Bits
  BY DEF Enabled, BitOf, Bits
<1>3. TypeOK'
  <2>1. ier' \in SUBSET Bits /\ old' \in SUBSET Bits
    BY <1>2 DEF Inv, TypeOK
  <2>2. pc' \in [Thr -> Places]
    BY DEF Inv, TypeOK, Places
  <2>3. lock' \in Thr \cup {NoThread}
    BY <1>1 DEF Inv, TypeOK
  <2> QED
    BY <2>1, <2>2, <2>3 DEF Inv, TypeOK, AnyByte
<1>4. RingsOK'
  BY DEF Inv, RingsOK, Count
<1>5. MustWait(t)' <=> MustWait(t)
  BY DEF MustWait, rbuf_empty, rbuf_full
<1>6. lock = t /\ opened /\ \A u \in Thr \ {t} : pc[u] \in {"user", "lock"}
  BY <1>1 DEF Inv, LockOK
<1>7. CASE lock' = lock
  <2>1. /\ pc'[t] \in {"load2", "store2", "move"} => ~MustWait(t)'
        /\ pc'[t] # "wait" /\ BitOf(t) \in ier'
    BY <1>1, <1>2, <1>5 DEF Inv, WaitsOK
  <2> QED
    BY <1>1, <1>3, <1>4, <1>6, <1>7, <2>1, OwnStep
<1>8. CASE pc'[t] = "user"
  <2>1. \A u \in Thr : pc'[u] \in {"user", "lock"}
    BY <1>1, <1>6, <1>8
  <2>2. LockOK' /\ WaitsOK'
    BY <1>6, <2>1 DEF LockOK, WaitsOK
  <2> QED
    BY <1>3, <1>4, <2>2 DEF Inv
<1> QED
  BY <1>1, <1>7, <1>8

LEMMA CheckInv ==
  ASSUME Inv, NEW t \in Thr, check(t)
  PROVE  Inv'
<1> USE DEF check, Goto, devVars, bufVars
<1>1. pc[t] = "check" /\ pc'[t] = (IF MustWait(t) THEN "wait" ELSE "load2")
      /\ \A u \in Thr \ {t} : pc'[u] = pc[u]
  BY DEF Inv, TypeOK
<1>2. TypeOK'
  BY DEF Inv, TypeOK, Places, AnyByte
<1>3. RingsOK'
  BY DEF Inv, RingsOK, Count
<1>4. MustWait(t)' <=> MustWait(t)
  BY DEF MustWait, rbuf_empty, rbuf_full
<1>5. lock = t /\ opened
  BY <1>1 DEF Inv, LockOK
<1>6. /\ pc'[t] \in {"load2", "store2", "move"} => ~MustWait(t)'
      /\ pc'[t] = "wait" => MustWait(t)'
      /\ pc'[t] \in {"check", "wait"} /\ MustWait(t)' => BitOf(t) \in ier'
  BY <1>1, <1>4 DEF Inv, WaitsOK
<1> QED
  BY <1>1, <1>2, <1>3, <1>5, <1>6, OwnStep

LEMMA RecvMoveInv ==
  ASSUME Inv, NEW t \in Thr, recv_move(t)
  PROVE  Inv'
<1> USE DEF recv_move, Goto, devVars, bufVars
<1>1. pc[t] = "move" /\ pc'[t] = "load1" /\ \A u \in Thr \ {t} : pc'[u] = pc[u]
  BY DEF Inv, TypeOK
<1>2. lock = t /\ opened /\ \A u \in Thr \ {t} : pc[u] \in {"user", "lock"}
  BY <1>1 DEF Inv, LockOK
<1>3. ~rbuf_empty(rxbuf)
  BY <1>1 DEF Inv, WaitsOK, MustWait
<1>4. rxbuf \in Ring /\ rxbuf' = rbuf_getc(rxbuf)
  BY DEF Inv, TypeOK
<1>5. rxbuf' \in Ring /\ Count(rxbuf)' = Count(rxbuf) - 1
  BY <1>3, <1>4, GetByte
<1>6. taken' \in AnyByte
  <2>1. rxbuf.hpos \in Nat
    BY <1>4, CountOf, UartRingAssumption
  <2>2. rxbuf.hpos % RBUFSZ \in 0 .. RBUFSZ - 1
    BY <2>1, Period
  <2> QED
    BY <1>4, <2>2 DEF FirstByte, Ring
<1>7. left' \in [Thr -> Int] /\ pc' \in [Thr -> Places]
  BY DEF Inv, TypeOK, Places
<1>8. TypeOK'
  BY <1>5, <1>6, <1>7 DEF Inv, TypeOK
<1>9. RingsOK'
  <2>1. Count(rxbuf) \in Int /\ RBUFSZ \in Int
    BY <1>4, CountOf, UartRingAssumption
  <2>2. Count(txbuf)' = Count(txbuf)
    BY DEF Count
  <2> QED
    BY <1>5, <2>1, <2>2 DEF Inv, RingsOK
<1> QED
  BY <1>1, <1>2, <1>8, <1>9, OwnStep

LEMMA SendMoveInv ==
  ASSUME Inv, NEW t \in Thr, send_move(t)
  PROVE  Inv'
<1> USE DEF send_move, Goto, devVars, bufVars
<1>1. pc[t] = "move" /\ pc'[t] = "load1" /\ \A u \in Thr \ {t} : pc'[u] = pc[u]
  BY DEF Inv, TypeOK
<1>2. lock = t /\ opened /\ \A u \in Thr \ {t} : pc[u] \in {"user", "lock"}
  BY <1>1 DEF Inv, LockOK
<1>3. ~rbuf_full(txbuf)
  BY <1>1, ThreadsAssumption DEF Inv, WaitsOK, MustWait
<1>4. PICK b \in TxBytes : txbuf' = rbuf_putc(txbuf, b)
  OBVIOUS
<1>5. b \in AnyByte /\ txbuf \in Ring /\ Count(txbuf) <= RBUFSZ
  BY DEF Inv, TypeOK, RingsOK, AnyByte
<1>6. txbuf' \in Ring /\ Count(txbuf)' = Count(txbuf) + 1 /\ Count(txbuf) + 1 <= RBUFSZ
  BY <1>3, <1>4, <1>5, PutByte
<1>7. left' \in [Thr -> Int] /\ pc' \in [Thr -> Places]
  BY DEF Inv, TypeOK, Places
<1>8. TypeOK'
  BY <1>6, <1>7 DEF Inv, TypeOK, AnyByte
<1>9. RingsOK'
  <2>1. Count(rxbuf)' = Count(rxbuf)
    BY DEF Count
  <2> QED
    BY <1>6, <2>1 DEF Inv, RingsOK
<1> QED
  BY <1>1, <1>2, <1>8, <1>9, OwnStep

(* The handler.  It receives only into a buffer with room and sends only   *)
(* from one that is not empty.                                             *)
Receives == rbr # NoByte /\ ~rbuf_full(rxbuf)
Sends == thr = NoByte /\ ~rbuf_empty(txbuf)

LEMMA HandlerSteps ==
  ASSUME Inv, uart_isr
  PROVE  /\ Receives => rxbuf' = rbuf_putc(rxbuf, rbr) /\ rbr' = NoByte
         /\ ~Receives => rxbuf' = rxbuf /\ rbr' = rbr
         /\ Sends => txbuf' = rbuf_getc(txbuf) /\ thr' = FirstByte(txbuf)
         /\ ~Sends => txbuf' = txbuf /\ thr' = thr
         /\ opened /\ opened' = opened /\ taken' = NoByte
         /\ rbr \in RxBytes \cup {NoByte} /\ rbr \in AnyByte
         /\ rxbuf \in Ring /\ txbuf \in Ring /\ Count(rxbuf) <= RBUFSZ
         /\ rxbuf' \in Ring /\ txbuf' \in Ring
         /\ ("DRIE" \in ier /\ "DRIE" \notin ier') => rbuf_full(rxbuf)'
         /\ ("THREIE" \in ier /\ "THREIE" \notin ier') => rbuf_empty(txbuf)'
         /\ ier' \subseteq ier
<1> USE DEF uart_isr, Receives, Sends
<1>1. /\ Receives => rxbuf' = rbuf_putc(rxbuf, rbr) /\ rbr' = NoByte
      /\ ~Receives => rxbuf' = rxbuf /\ rbr' = rbr
      /\ Sends => txbuf' = rbuf_getc(txbuf) /\ thr' = FirstByte(txbuf)
      /\ ~Sends => txbuf' = txbuf /\ thr' = thr
      /\ opened /\ opened' = opened /\ taken' = NoByte
  OBVIOUS
<1>2. /\ rbr \in RxBytes \cup {NoByte} /\ rbr \in AnyByte
      /\ rxbuf \in Ring /\ txbuf \in Ring /\ Count(rxbuf) <= RBUFSZ
  BY DEF Inv, TypeOK, RingsOK, AnyByte
<1>3. rxbuf' \in Ring
  BY <1>1, <1>2, PutByte
<1>4. txbuf' \in Ring
  BY <1>1, <1>2, GetByte
<1>5. ier' \subseteq ier
  OBVIOUS
<1>6. ASSUME "DRIE" \in ier, "DRIE" \notin ier' PROVE rbuf_full(rxbuf)'
  <2>1. rbuf_full(IF rbr # NoByte /\ ~rbuf_full(rxbuf) THEN rbuf_putc(rxbuf, rbr) ELSE rxbuf)
    BY <1>6
  <2> QED
    BY <1>1, <2>1 DEF rbuf_full
<1>7. ASSUME "THREIE" \in ier, "THREIE" \notin ier' PROVE rbuf_empty(txbuf)'
  <2>1. rbuf_empty(IF thr = NoByte /\ ~rbuf_empty(txbuf) THEN rbuf_getc(txbuf) ELSE txbuf)
    BY <1>7
  <2> QED
    BY <1>1, <2>1 DEF rbuf_empty
<1> QED
  BY <1>1, <1>2, <1>3, <1>4, <1>5, <1>6, <1>7

LEMMA HandlerInv ==
  ASSUME Inv, uart_isr
  PROVE  Inv'
<1>1. /\ Receives => rxbuf' = rbuf_putc(rxbuf, rbr) /\ rbr' = NoByte
      /\ ~Receives => rxbuf' = rxbuf /\ rbr' = rbr
      /\ Sends => txbuf' = rbuf_getc(txbuf) /\ thr' = FirstByte(txbuf)
      /\ ~Sends => txbuf' = txbuf /\ thr' = thr
      /\ opened /\ opened' = opened /\ taken' = NoByte
      /\ rbr \in RxBytes \cup {NoByte} /\ rbr \in AnyByte
      /\ rxbuf \in Ring /\ txbuf \in Ring /\ Count(rxbuf) <= RBUFSZ
      /\ rxbuf' \in Ring /\ txbuf' \in Ring
      /\ ("DRIE" \in ier /\ "DRIE" \notin ier') => rbuf_full(rxbuf)'
      /\ ("THREIE" \in ier /\ "THREIE" \notin ier') => rbuf_empty(txbuf)'
      /\ ier' \subseteq ier
  BY HandlerSteps
<1>2. /\ lock' = lock /\ left' = left /\ old' = old
      /\ pc' = [t \in Thr |-> IF /\ t \in (IF Receives THEN Readers ELSE {}) \cup (IF Sends THEN Writers ELSE {})
                                 /\ pc[t] = "wait"
                              THEN "check" ELSE pc[t]]
  BY DEF uart_isr, Woken, WakesWriters, Receives, Sends
<1>3. TypeOK'
  <2>1. thr' \in AnyByte
    <3>1. txbuf.hpos \in Nat
      BY <1>1, CountOf, UartRingAssumption
    <3>2. txbuf.hpos % RBUFSZ \in 0 .. RBUFSZ - 1
      BY <3>1, Period
    <3>3. FirstByte(txbuf) \in AnyByte
      BY <1>1, <3>2 DEF FirstByte, Ring
    <3> QED
      BY <1>1, <3>3 DEF Inv, TypeOK
  <2>2. pc' \in [Thr -> Places]
    BY <1>2 DEF Inv, TypeOK, Places
  <2>3. rbr' \in RxBytes \cup {NoByte} /\ ier' \in SUBSET Bits
    BY <1>1 DEF Inv, TypeOK
  <2> QED
    BY <1>1, <1>2, <2>1, <2>2, <2>3 DEF Inv, TypeOK, AnyByte
<1>4. LockOK'
  BY <1>1, <1>2 DEF Inv, LockOK
<1>5. /\ Receives => Count(rxbuf)' = Count(rxbuf) + 1 /\ Count(rxbuf) + 1 <= RBUFSZ
      /\ ~Receives => Count(rxbuf)' = Count(rxbuf)
  BY <1>1, PutByte DEF Receives, Count
<1>6. /\ Sends => Count(txbuf)' = Count(txbuf) - 1
      /\ ~Sends => Count(txbuf)' = Count(txbuf)
  BY <1>1, GetByte DEF Sends, Count
<1>7. /\ Count(rxbuf) \in Nat /\ Count(txbuf) \in Nat /\ RBUFSZ \in Nat /\ RBUFSZ > 0
      /\ Count(rxbuf) <= RBUFSZ /\ Count(txbuf) <= RBUFSZ
  BY <1>1, CountOf, UartRingAssumption DEF Inv, RingsOK
<1>8. RingsOK'
  BY <1>5, <1>6, <1>7 DEF RingsOK
<1>9. /\ rbuf_empty(rxbuf) <=> Count(rxbuf) = 0
      /\ rbuf_empty(rxbuf)' <=> Count(rxbuf)' = 0
      /\ rbuf_full(txbuf) <=> Count(txbuf) = RBUFSZ
      /\ rbuf_full(txbuf)' <=> Count(txbuf)' = RBUFSZ
      /\ rbuf_full(rxbuf)' => ~rbuf_empty(rxbuf)'
      /\ rbuf_empty(txbuf)' => ~rbuf_full(txbuf)'
  BY <1>1, EmptyFull
<1>10. ASSUME NEW t \in Readers
       PROVE  /\ pc'[t] \in {"load2", "store2", "move"} => ~rbuf_empty(rxbuf)'
              /\ pc'[t] = "wait" => rbuf_empty(rxbuf)'
              /\ pc'[t] \in {"check", "wait"} /\ rbuf_empty(rxbuf)' => "DRIE" \in ier'
  <2>1. t \in Thr /\ t \notin Writers
    BY ThreadsAssumption DEF Thr
  <2>2. /\ pc[t] \in {"load2", "store2", "move"} => ~rbuf_empty(rxbuf)
        /\ pc[t] = "wait" => rbuf_empty(rxbuf)
        /\ pc[t] \in {"check", "wait"} /\ rbuf_empty(rxbuf) => "DRIE" \in ier
    BY <2>1 DEF Inv, WaitsOK, MustWait, BitOf
  <2>3. pc'[t] = IF Receives /\ pc[t] = "wait" THEN "check" ELSE pc[t]
    BY <1>2, <2>1
  <2>4. rbuf_empty(rxbuf)' <=> (rbuf_empty(rxbuf) /\ ~Receives)
    BY <1>5, <1>7, <1>9
  <2> QED
    BY <1>1, <1>9, <2>2, <2>3, <2>4
<1>11. ASSUME NEW t \in Writers
       PROVE  /\ pc'[t] \in {"load2", "store2", "move"} => ~rbuf_full(txbuf)'
              /\ pc'[t] = "wait" => rbuf_full(txbuf)'
              /\ pc'[t] \in {"check", "wait"} /\ rbuf_full(txbuf)' => "THREIE" \in ier'
  <2>1. t \in Thr /\ t \notin Readers
    BY ThreadsAssumption DEF Thr
  <2>2. /\ pc[t] \in {"load2", "store2", "move"} => ~rbuf_full(txbuf)
        /\ pc[t] = "wait" => rbuf_full(txbuf)
        /\ pc[t] \in {"check", "wait"} /\ rbuf_full(txbuf) => "THREIE" \in ier
    BY <2>1 DEF Inv, WaitsOK, MustWait, BitOf
  <2>3. pc'[t] = IF Sends /\ pc[t] = "wait" THEN "check" ELSE pc[t]
    BY <1>2, <2>1
  <2>4. rbuf_full(txbuf)' <=> (rbuf_full(txbuf) /\ ~Sends)
    BY <1>6, <1>7, <1>9
  <2> QED
    BY <1>1, <1>9, <2>2, <2>3, <2>4
<1>12. WaitsOK'
  BY <1>10, <1>11, ThreadsAssumption DEF WaitsOK, MustWait, BitOf, Thr
<1> QED
  BY <1>3, <1>4, <1>8, <1>12 DEF Inv

LEMMA DeviceInv ==
  ASSUME Inv, shift_out \/ \E b \in RxBytes : arrive(b)
  PROVE  Inv'
<1> USE DEF shift_out, arrive, bufVars
<1>1. TypeOK'
  BY DEF Inv, TypeOK, AnyByte
<1>2. LockOK'
  BY DEF Inv, LockOK
<1>3. RingsOK'
  BY DEF Inv, RingsOK, Count
<1>4. WaitsOK'
  BY DEF Inv, WaitsOK, MustWait, BitOf, rbuf_empty, rbuf_full
<1> QED
  BY <1>1, <1>2, <1>3, <1>4 DEF Inv

LEMMA NextInv == Inv /\ [Next]_vars => Inv'
<1> SUFFICES ASSUME Inv, [Next]_vars PROVE Inv'
  OBVIOUS
<1>1. CASE uart_serial_open \/ uart_serial_close
  BY <1>1, OpenInv, CloseInv
<1>2. ASSUME NEW t \in Thr, call(t) \/ CallStep(t)
      PROVE  Inv'
  BY <1>2, CallInv, LockedInv, LoadInv, StoreInv, CheckInv, RecvMoveInv, SendMoveInv DEF CallStep
<1>3. CASE uart_isr
  BY <1>3, HandlerInv
<1>4. CASE shift_out \/ \E b \in RxBytes : arrive(b)
  BY <1>4, DeviceInv
<1>5. CASE UNCHANGED vars
  <2>1. TypeOK' /\ LockOK'
    BY <1>5 DEF vars, Inv, TypeOK, LockOK
  <2>2. RingsOK'
    BY <1>5 DEF vars, Inv, RingsOK, Count
  <2>3. WaitsOK'
    BY <1>5 DEF vars, Inv, WaitsOK, MustWait, BitOf, rbuf_empty, rbuf_full
  <2> QED
    BY <2>1, <2>2, <2>3 DEF Inv
<1> QED
  BY <1>1, <1>2, <1>3, <1>4, <1>5 DEF Next

(* The invariant holds in every reachable state.                           *)
THEOREM Invariance == Spec => []Inv
BY InitInv, NextInv, PTL DEF Spec

(* A thread asleep in uart_serial_recv or uart_serial_send has an empty or *)
(* a full buffer to wait for and its interrupt enabled, although the       *)
(* handler changes ier between the load and the store of "ier |= bit"      *)
(* (uart.c:284-306, 353-374).                                              *)
THEOREM ServedWaits == Spec => []WaitsServed
<1>1. Inv => WaitsServed
  BY DEF Inv, WaitsOK, WaitsServed
<1> QED
  BY <1>1, Invariance, PTL

---------------------------------------------------------------------------
(* Refinement: the queues that the mapping of Uart makes of the buffers.   *)

inL == IF opened THEN Queued(rxbuf) \o (IF rbr = NoByte THEN <<>> ELSE <<rbr>>) ELSE <<>>
outL == IF opened THEN Queued(txbuf) ELSE <<>>

LEMMA InitLine == Init => Line!Init
BY DEF Init, Line!Init

LEMMA LineNext ==
  ASSUME \/ \E b \in RxBytes \cup TxBytes :
              Len(inL) <= RBUFSZ /\ inL' = Append(inL, b) /\ taken' = NoByte /\ outL' = outL /\ thr' = thr
         \/ \E b \in RxBytes \cup TxBytes :
              inL # <<>> /\ inL' = Append(Line!Front(inL), b) /\ taken' = NoByte /\ outL' = outL /\ thr' = thr
         \/ inL # <<>> /\ taken' = Head(inL) /\ inL' = Tail(inL) /\ outL' = outL /\ thr' = thr
         \/ \E b \in RxBytes \cup TxBytes :
              Len(outL) < RBUFSZ /\ outL' = Append(outL, b) /\ taken' = NoByte /\ inL' = inL /\ thr' = thr
         \/ /\ thr = NoByte /\ outL # <<>> /\ thr' = Head(outL) /\ outL' = Tail(outL)
            /\ taken' = NoByte /\ inL' = inL
         \/ thr' = NoByte /\ taken' = NoByte /\ inL' = inL /\ outL' = outL
         \/ inL' = <<>> /\ outL' = <<>> /\ taken' = NoByte /\ thr' = thr
         \/ taken' = NoByte /\ inL' = inL /\ outL' = outL /\ thr' = thr
  PROVE  Line!Next
BY DEF Line!Next, Line!Arrive, Line!Overrun, Line!Take, Line!Put, Line!Transmit, Line!Shifted,
       Line!Reset, Line!Other, inL, outL

(* A step that leaves the buffers, the registers and opened alone.         *)
LEMMA OtherStep ==
  ASSUME opened' = opened, rxbuf' = rxbuf, txbuf' = txbuf, rbr' = rbr, thr' = thr, taken' = NoByte
  PROVE  Line!Next
<1>1. Queued(rxbuf)' = Queued(rxbuf) /\ Queued(txbuf)' = Queued(txbuf)
  BY DEF Queued
<1>2. inL' = inL /\ outL' = outL
  BY <1>1 DEF inL, outL
<1> QED
  BY <1>2, LineNext

LEMMA EmptyQueued ==
  ASSUME NEW rb \in Ring, rbuf_empty(rb)
  PROVE  Queued(rb) = <<>>
<1>1. Queued(rb) \in Seq(AnyByte) /\ Len(Queued(rb)) = 0
  BY EmptyFull, QueuedSeq
<1> QED
  BY <1>1

LEMMA OpenStep ==
  ASSUME Inv, uart_serial_open
  PROVE  Line!Next
<1>1. rxbuf' = rbuf_init(rxbuf) /\ txbuf' = rbuf_init(txbuf) /\ rxbuf \in Ring /\ txbuf \in Ring
  BY DEF uart_serial_open, Inv, TypeOK
<1>2. Queued(rxbuf)' = <<>> /\ Queued(txbuf)' = <<>>
  BY <1>1, FreshRing, EmptyQueued
<1>3. inL' = <<>> /\ outL' = <<>> /\ taken' = NoByte /\ thr' = thr
  BY <1>2 DEF inL, outL, uart_serial_open
<1> QED
  BY <1>3, LineNext

LEMMA CloseStep ==
  ASSUME Inv, uart_serial_close
  PROVE  Line!Next
<1>1. inL' = <<>> /\ outL' = <<>> /\ taken' = NoByte /\ thr' = thr
  BY DEF inL, outL, uart_serial_close, devVars
<1> QED
  BY <1>1, LineNext

LEMMA ThreadStep ==
  ASSUME Inv, NEW t \in Thr, call(t) \/ locked(t) \/ load(t) \/ store(t) \/ check(t)
  PROVE  Line!Next
BY OtherStep DEF call, locked, load, store, check, devVars, bufVars

(* The byte in the receiver stands at the end of the queue.                *)
LEMMA TailOfBoth ==
  ASSUME NEW B, NEW s \in Seq(B), NEW r \in Seq(B), s # <<>>
  PROVE  s \o r # <<>> /\ Head(s \o r) = Head(s) /\ Tail(s \o r) = Tail(s) \o r
OBVIOUS

LEMMA RecvStep ==
  ASSUME Inv, NEW t \in Thr, recv_move(t)
  PROVE  Line!Next
<1>1. opened /\ opened' = opened /\ pc[t] = "move" /\ t \in Readers
      /\ rbr' = rbr /\ thr' = thr /\ txbuf' = txbuf
      /\ rxbuf' = rbuf_getc(rxbuf) /\ taken' = FirstByte(rxbuf)
  BY DEF recv_move, Inv, LockOK, devVars
<1>2. rxbuf \in Ring /\ ~rbuf_empty(rxbuf) /\ rbr \in AnyByte
  BY <1>1 DEF Inv, TypeOK, WaitsOK, MustWait, AnyByte
<1>3. Queued(rxbuf) # <<>> /\ Head(Queued(rxbuf)) = FirstByte(rxbuf)
      /\ Queued(rbuf_getc(rxbuf)) = Tail(Queued(rxbuf)) /\ Queued(rxbuf) \in Seq(AnyByte)
  BY <1>2, GetByte, QueuedSeq
<1>4. Queued(rxbuf)' = Tail(Queued(rxbuf)) /\ Queued(txbuf)' = Queued(txbuf)
  BY <1>1, <1>3 DEF Queued
<1> DEFINE r == IF rbr = NoByte THEN <<>> ELSE <<rbr>>
<1>5. r \in Seq(AnyByte)
  BY <1>2
<1>6. inL = Queued(rxbuf) \o r /\ inL' = Tail(Queued(rxbuf)) \o r
  BY <1>1, <1>4 DEF inL
<1> HIDE DEF r
<1>7. inL # <<>> /\ Head(inL) = taken' /\ inL' = Tail(inL)
  BY <1>1, <1>3, <1>5, <1>6, TailOfBoth
<1>8. outL' = outL
  BY <1>1, <1>4 DEF outL
<1> QED
  BY <1>1, <1>7, <1>8, LineNext

LEMMA SendStep ==
  ASSUME Inv, NEW t \in Thr, send_move(t)
  PROVE  Line!Next
<1>1. opened /\ opened' = opened /\ pc[t] = "move" /\ t \notin Readers
      /\ rbr' = rbr /\ thr' = thr /\ rxbuf' = rxbuf /\ taken' = NoByte
  BY ThreadsAssumption DEF send_move, Inv, LockOK, devVars
<1>2. PICK b \in TxBytes : txbuf' = rbuf_putc(txbuf, b)
  BY DEF send_move
<1>3. txbuf \in Ring /\ ~rbuf_full(txbuf) /\ b \in AnyByte /\ Count(txbuf) <= RBUFSZ
  BY <1>1 DEF Inv, TypeOK, WaitsOK, MustWait, AnyByte, RingsOK
<1>4. Queued(rbuf_putc(txbuf, b)) = Append(Queued(txbuf), b) /\ Count(txbuf) + 1 <= RBUFSZ
      /\ Len(Queued(txbuf)) = Count(txbuf)
  BY <1>3, PutByte, QueuedSeq
<1>5. outL = Queued(txbuf) /\ outL' = Append(outL, b)
  BY <1>1, <1>2, <1>4 DEF outL
<1>6. Len(outL) < RBUFSZ
  BY <1>3, <1>4, <1>5, CountOf, UartRingAssumption
<1>7. inL' = inL
  BY <1>1 DEF inL, Queued
<1> QED
  BY <1>1, <1>5, <1>6, <1>7, LineNext

LEMMA HandlerStep ==
  ASSUME Inv, uart_isr
  PROVE  Line!Next
<1>1. /\ Receives => rxbuf' = rbuf_putc(rxbuf, rbr) /\ rbr' = NoByte
      /\ ~Receives => rxbuf' = rxbuf /\ rbr' = rbr
      /\ Sends => txbuf' = rbuf_getc(txbuf) /\ thr' = FirstByte(txbuf)
      /\ ~Sends => txbuf' = txbuf /\ thr' = thr
      /\ opened /\ opened' = opened /\ taken' = NoByte
      /\ rbr \in RxBytes \cup {NoByte} /\ rbr \in AnyByte
      /\ rxbuf \in Ring /\ txbuf \in Ring /\ Count(rxbuf) <= RBUFSZ
  BY HandlerSteps
<1>2. inL' = inL
  <2>1. CASE Receives
    <3>1. Queued(rxbuf)' = Append(Queued(rxbuf), rbr) /\ Queued(rxbuf) \in Seq(AnyByte)
      BY <1>1, <2>1, PutByte, QueuedSeq DEF Receives
    <3>2. inL = Queued(rxbuf) \o <<rbr>> /\ inL' = Append(Queued(rxbuf), rbr) \o <<>>
      BY <1>1, <2>1, <3>1 DEF inL, Receives
    <3> QED
      BY <1>1, <3>1, <3>2
  <2>2. CASE ~Receives
    BY <1>1, <2>2 DEF inL, Queued
  <2> QED
    BY <2>1, <2>2
<1>3. CASE Sends
  <2>1. Queued(txbuf) # <<>> /\ Head(Queued(txbuf)) = FirstByte(txbuf)
        /\ Queued(txbuf)' = Tail(Queued(txbuf)) /\ thr = NoByte
    BY <1>1, <1>3, GetByte DEF Sends
  <2>2. outL = Queued(txbuf) /\ outL' = Tail(outL)
    BY <1>1, <2>1 DEF outL
  <2> QED
    BY <1>1, <1>2, <1>3, <2>1, <2>2, LineNext
<1>4. CASE ~Sends
  <2>1. outL' = outL
    BY <1>1, <1>4 DEF outL, Queued
  <2> QED
    BY <1>1, <1>2, <1>4, <2>1, LineNext
<1> QED
  BY <1>3, <1>4

LEMMA Replaced ==
  ASSUME NEW B, NEW s \in Seq(B), NEW x \in B, NEW y \in B
  PROVE  Append(Line!Front(s \o <<x>>), y) = s \o <<y>>
BY DEF Line!Front

LEMMA ArriveStep ==
  ASSUME Inv, NEW b \in RxBytes, arrive(b)
  PROVE  Line!Next
<1>1. rbr' = b /\ opened' = opened /\ rxbuf' = rxbuf /\ txbuf' = txbuf /\ thr' = thr
      /\ taken' = NoByte /\ b # NoByte /\ b \in AnyByte /\ rbr \in AnyByte
      /\ rxbuf \in Ring /\ Count(rxbuf) <= RBUFSZ
  BY UartRingAssumption DEF arrive, bufVars, Inv, TypeOK, RingsOK, AnyByte
<1>2. outL' = outL /\ Queued(rxbuf)' = Queued(rxbuf)
  BY <1>1 DEF outL, Queued
<1>3. Queued(rxbuf) \in Seq(AnyByte) /\ Len(Queued(rxbuf)) = Count(rxbuf)
  BY <1>1, QueuedSeq
<1>4. CASE ~opened
  <2>1. inL' = inL
    BY <1>1, <1>4 DEF inL
  <2> QED
    BY <1>1, <1>2, <2>1, LineNext
<1>5. CASE opened /\ rbr = NoByte
  <2>1. inL = Queued(rxbuf) /\ inL' = Queued(rxbuf) \o <<b>>
    BY <1>1, <1>2, <1>3, <1>5 DEF inL
  <2>2. inL' = Append(inL, b) /\ Len(inL) <= RBUFSZ
    BY <1>1, <1>3, <2>1
  <2> QED
    BY <1>1, <1>2, <2>2, LineNext
<1>6. CASE opened /\ rbr # NoByte
  <2>1. inL = Queued(rxbuf) \o <<rbr>> /\ inL' = Queued(rxbuf) \o <<b>>
    BY <1>1, <1>2, <1>6 DEF inL
  <2>2. inL # <<>>
    BY <1>1, <1>3, <2>1
  <2>3. inL' = Append(Line!Front(inL), b)
    BY <1>1, <1>3, <2>1, Replaced
  <2> QED
    BY <1>1, <1>2, <2>2, <2>3, LineNext
<1> QED
  BY <1>4, <1>5, <1>6

LEMMA ShiftStep ==
  ASSUME Inv, shift_out
  PROVE  Line!Next
<1>1. inL' = inL /\ outL' = outL /\ thr' = NoByte /\ taken' = NoByte
  BY DEF shift_out, bufVars, inL, outL, Queued
<1> QED
  BY <1>1, LineNext

LEMMA LineStep == Inv /\ [Next]_vars => [Line!Next]_<<inL, outL, taken, thr>>
<1> SUFFICES ASSUME Inv, [Next]_vars PROVE [Line!Next]_<<inL, outL, taken, thr>>
  OBVIOUS
<1>1. CASE uart_serial_open \/ uart_serial_close
  BY <1>1, OpenStep, CloseStep
<1>2. ASSUME NEW t \in Thr, call(t) \/ CallStep(t)
      PROVE  Line!Next
  BY <1>2, ThreadStep, RecvStep, SendStep DEF CallStep
<1>3. CASE uart_isr
  BY <1>3, HandlerStep
<1>4. CASE shift_out \/ \E b \in RxBytes : arrive(b)
  BY <1>4, ShiftStep, ArriveStep
<1>5. CASE UNCHANGED vars
  BY <1>5 DEF vars, inL, outL, Queued
<1> QED
  BY <1>1, <1>2, <1>3, <1>4, <1>5 DEF Next

(* The driver implements SerialLine: bytes reach the readers in the order  *)
(* they arrived and the transmitter in the order they were sent, none is   *)
(* duplicated and none lost but by overrun, although positions wrap and    *)
(* the handler runs between any two instructions (uart.c:257-456).         *)
THEOREM LineImplemented == Spec => ImplementsLine
<1>1. Init => Line!Init
  BY InitLine
<1>2. Inv /\ [Next]_vars => [Line!Next]_<<inL, outL, taken, thr>>
  BY LineStep
<1> QED
  BY <1>1, <1>2, Invariance, PTL DEF Spec, ImplementsLine, Line!Spec, inL, outL
=============================================================================
