---------------------------- MODULE VirtioProofs ----------------------------
(***************************************************************************)
(* Proofs about Virtio: no external interrupt finds its handler missing,   *)
(* and the two drivers implement Transfers, for every set of threads, every*)
(* board, every sector and block size and every width of the indexes.      *)
(***************************************************************************)
EXTENDS Virtio, TLAPS

(* The inductive invariant: types, and four parts.                         *)

Ops == {"none", "fetch", "store", "recv"}
Places == {"user", "lock", "fill", "notify", "check", "wait"}
Bytes == [1 .. RNGBUF -> {FRESH, STALE}]
Sectors == CAPACITY \div SECSZ

DriverType == [attached : BOOLEAN, opened : {"no", "opening", "yes", "closing"},
               lock : Threads \cup {NoThread}, avail : 0 .. IDX - 1, used : 0 .. IDX - 1]
DeviceType == [ready : BOOLEAN, active : BOOLEAN, last : 0 .. IDX - 1, late : BOOLEAN,
               istat : BOOLEAN, resets : BOOLEAN]
SourceType == [pend : BOOLEAN, prio : {0, 1}, isr : BOOLEAN]
CallType == [op : Ops, sec : Nat, left : Nat, val : Vals, buf : Seq(Nat), ret : Nat]
BlockRequest == [type : {"IN", "OUT"}, sector : Nat, wr : BOOLEAN, len : Nat, data : Vals,
                 status : {"OK", "IOERR"}]
EntropyRequest == [type : {"IN"}, sector : Nat, wr : BOOLEAN, len : 0 .. RNGBUF, data : Bytes,
                   status : {"OK"}]

TypeOK ==
  /\ drv \in [Devs -> DriverType]
  /\ req \in [blk : BlockRequest, rng : EntropyRequest]
  /\ dev \in [Devs -> DeviceType]
  /\ disk \in [Secs -> Vals]
  /\ plic \in [Devs -> SourceType]
  /\ panic \in BOOLEAN
  /\ pc \in [Threads -> Places]
  /\ job \in [Threads -> CallType]
  /\ faults \in Nat

(* A source has a priority only while its device is open, and a handler    *)
(* from the first half of opening to the last half of closing.             *)
SourcesOK ==
  /\ \A d \in Devs : /\ plic[d].prio > 0 => drv[d].opened = "yes"
                     /\ drv[d].opened # "no" => plic[d].isr
  /\ ~panic

Holding == {"fill", "notify", "check", "wait"}

(* A thread past lock_acquire is the holder, and a holder is past it.      *)
LocksOK ==
  /\ \A t \in Threads : pc[t] \in Holding => drv[DevOf(t)].lock = t
  /\ \A d \in Devs : drv[d].lock # NoThread =>
       pc[drv[d].lock] \in Holding /\ DevOf(drv[d].lock) = d

(* A call lies on the device, has something left to do and, until it has   *)
(* the lock, everything.                                                   *)
CallOK(t) ==
  LET j == job[t] IN
  /\ j.op = "none" <=> pc[t] = "user"
  /\ j.op # "none" => j.left > 0
  /\ j.op \in {"fetch", "store"} => j.sec + j.left <= Sectors
  /\ j.op \in {"fetch", "store"} /\ pc[t] = "lock" => j.left * SECSZ = j.ret
  /\ j.op = "recv" => j.left <= RNGBUF
CallsOK == \A t \in Threads : CallOK(t)

(* The request in the buffer is the one the call asks for.                 *)
Requested(j, r) ==
  CASE j.op = "fetch" -> r.type = "IN" /\ r.sector = j.sec
    [] j.op = "store" -> r.type = "OUT" /\ r.sector = j.sec /\ r.data = j.val
    [] j.op = "recv"  -> r.len = j.left
    [] OTHER -> FALSE

(* At most one request is outstanding, it is the holder's, and the device  *)
(* has never been made to forget where it is in the queue.                 *)
QueuesOK ==
  /\ \A d \in Devs :
       /\ dev[d].resets = FALSE /\ dev[d].last = drv[d].used
       /\ \/ Done(d)
          \/ (drv[d].avail = (drv[d].used + 1) % IDX /\ drv[d].lock # NoThread)
  /\ \A t \in Threads : pc[t] = "fill" => Done(DevOf(t))
  /\ \A t \in Threads : pc[t] \in {"notify", "check", "wait"} => Requested(job[t], req[DevOf(t)])

Inv == TypeOK /\ SourcesOK /\ LocksOK /\ CallsOK /\ QueuesOK

---------------------------------------------------------------------------
(* Arithmetic.                                                             *)

LEMMA Division ==
  ASSUME NEW a \in Nat, NEW b \in Nat, b > 0
  PROVE  /\ a \div b \in Nat /\ a % b \in Nat /\ a % b < b
         /\ a = b * (a \div b) + (a % b)
OBVIOUS

LEMMA Quotient ==
  ASSUME NEW b \in Nat, b > 0, NEW q \in Nat, NEW r \in Nat, r < b
  PROVE  (b * q + r) \div b = q /\ (b * q + r) % b = r
OBVIOUS

LEMMA ProductOrder ==
  ASSUME NEW b \in Nat, b > 0, NEW p \in Int, NEW q \in Int, p < q
  PROVE  b * p + b <= b * q
OBVIOUS

(* RoundDown(n) is the largest multiple of BLKSZ up to n.                  *)
LEMMA RoundedDown ==
  ASSUME NEW n \in Nat
  PROVE  /\ RoundDown(n) \in Nat /\ RoundDown(n) <= n /\ RoundDown(n) % BLKSZ = 0
         /\ \A j \in 0 .. n : j % BLKSZ = 0 => j <= RoundDown(n)
<1> DEFINE q == n \div BLKSZ
<1>1. BLKSZ \in Nat /\ BLKSZ > 0
  BY VirtioAssumption
<1>2. q \in Nat /\ n % BLKSZ \in Nat /\ n % BLKSZ < BLKSZ /\ n = BLKSZ * q + (n % BLKSZ)
  BY <1>1, Division
<1>3. RoundDown(n) = BLKSZ * q
  BY <1>1, <1>2 DEF RoundDown
<1> HIDE DEF q
<1>4. RoundDown(n) \in Nat /\ RoundDown(n) <= n
  BY <1>1, <1>2, <1>3
<1>5. RoundDown(n) % BLKSZ = 0
  <2>1. BLKSZ * q + 0 = BLKSZ * q
    BY <1>1, <1>2
  <2>2. (BLKSZ * q + 0) % BLKSZ = 0
    BY <1>1, <1>2, Quotient
  <2> QED
    BY <2>1, <2>2, <1>3
<1>6. ASSUME NEW j \in 0 .. n, j % BLKSZ = 0
      PROVE  j <= RoundDown(n)
  <2>1. PICK p \in Nat : j = BLKSZ * p
    BY <1>1, <1>6, Division
  <2>2. CASE p <= q
    BY <2>1, <2>2, <1>1, <1>2, <1>3
  <2>3. CASE q < p
    BY <2>1, <2>3, <1>1, <1>2, ProductOrder
  <2> QED
    BY <2>1, <2>2, <2>3, <1>2
<1> QED
  BY <1>4, <1>5, <1>6

(* What the block driver cuts a call down to is what Transfers allows.     *)
LEMMA TransferSize ==
  ASSUME NEW pos \in Nat, NEW n \in Nat, pos <= CAPACITY
  PROVE  /\ transfer_size(pos, n) \in 0 .. n
         /\ transfer_size(pos, n) % BLKSZ = 0
         /\ pos + transfer_size(pos, n) <= CAPACITY
         /\ transfer_size(pos, n) = T!Whole(pos, n)
<1> DEFINE k == transfer_size(pos, n)
           A == {j \in 0 .. n : j % BLKSZ = 0 /\ (j = 0 \/ pos + j <= CAPACITY)}
<1>1. CAPACITY \in Nat /\ CAPACITY - pos \in Nat
  BY VirtioAssumption
<1>2. /\ RoundDown(n) \in Nat /\ RoundDown(n) <= n /\ RoundDown(n) % BLKSZ = 0
      /\ \A j \in 0 .. n : j % BLKSZ = 0 => j <= RoundDown(n)
  BY RoundedDown
<1>3. /\ RoundDown(CAPACITY - pos) \in Nat /\ RoundDown(CAPACITY - pos) <= CAPACITY - pos
      /\ RoundDown(CAPACITY - pos) % BLKSZ = 0
      /\ \A j \in 0 .. CAPACITY - pos : j % BLKSZ = 0 => j <= RoundDown(CAPACITY - pos)
  BY <1>1, RoundedDown
<1>4. k = IF pos + RoundDown(n) > CAPACITY THEN RoundDown(CAPACITY - pos) ELSE RoundDown(n)
  BY DEF transfer_size
<1> HIDE DEF k
<1>5. k \in 0 .. n /\ k % BLKSZ = 0 /\ pos + k <= CAPACITY
  BY <1>1, <1>2, <1>3, <1>4
<1>6. ASSUME NEW j \in A
      PROVE  k >= j
  <2>1. j \in 0 .. n /\ j % BLKSZ = 0 /\ (j = 0 \/ pos + j <= CAPACITY)
    OBVIOUS
  <2>2. CASE j = 0
    BY <2>2, <1>5
  <2>3. CASE pos + j <= CAPACITY
    BY <2>1, <2>3, <1>1, <1>2, <1>3, <1>4
  <2> QED
    BY <2>1, <2>2, <2>3
<1>7. k \in A
  BY <1>5
<1>8. Max(A) \in A /\ \A y \in A : Max(A) >= y
  BY <1>6, <1>7 DEF Max
<1>9. Max(A) = k
  <2> DEFINE m == Max(A)
  <2>1. m >= k /\ k >= m
    BY <1>6, <1>7, <1>8
  <2>2. k \in 0 .. n /\ m \in 0 .. n
    BY <1>7, <1>8
  <2> HIDE DEF m
  <2>3. m = k
    BY <2>1, <2>2
  <2> QED
    BY <2>3 DEF m
<1>10. T!Whole(pos, n) = Max(A)
  BY DEF T!Whole, T!Max, Max
<1> QED
  BY <1>5, <1>9, <1>10 DEF k

(* The sectors of a call lie on the device, and their bytes are those the  *)
(* call reports.                                                           *)
LEMMA SectorsOfCall ==
  ASSUME NEW pos \in Nat, NEW n \in Nat, pos <= CAPACITY, pos % SECSZ = 0,
         transfer_size(pos, n) # 0
  PROVE  LET k == transfer_size(pos, n) IN
         /\ k \in Nat /\ k \div SECSZ \in Nat /\ k \div SECSZ > 0 /\ pos \div SECSZ \in Nat
         /\ (k \div SECSZ) * SECSZ = k
         /\ pos \div SECSZ + k \div SECSZ <= Sectors
<1> DEFINE k == transfer_size(pos, n)
<1>1. SECSZ \in Nat /\ SECSZ > 0 /\ BLKSZ \in Nat /\ BLKSZ > 0 /\ CAPACITY \in Nat
      /\ BLKSZ % SECSZ = 0 /\ CAPACITY % SECSZ = 0
  BY VirtioAssumption
<1>2. k \in Nat /\ k # 0 /\ k % BLKSZ = 0 /\ pos + k <= CAPACITY
  BY TransferSize
<1> HIDE DEF k
<1>3. PICK b \in Nat : BLKSZ = SECSZ * b
  BY <1>1, Division
<1>4. PICK m \in Nat : k = BLKSZ * m
  BY <1>1, <1>2, Division
<1>5. k = SECSZ * (b * m) /\ b * m \in Nat
  BY <1>1, <1>3, <1>4
<1>6. PICK p \in Nat : pos = SECSZ * p
  BY <1>1, Division
<1>7. PICK c \in Nat : CAPACITY = SECSZ * c
  BY <1>1, Division
<1> DEFINE h == b * m
<1>8. h \in Nat /\ k = SECSZ * h
  BY <1>5
<1> HIDE DEF h
<1>9. k \div SECSZ = h /\ pos \div SECSZ = p /\ Sectors = c
  <2>1. SECSZ * h + 0 = SECSZ * h /\ SECSZ * p + 0 = SECSZ * p /\ SECSZ * c + 0 = SECSZ * c
    BY <1>1, <1>8
  <2> QED
    BY <2>1, <1>1, <1>6, <1>7, <1>8, Quotient DEF Sectors
<1>10. h > 0
  BY <1>1, <1>2, <1>8
<1>11. p + h <= c
  <2>1. SECSZ * (p + h) <= SECSZ * c
    BY <1>1, <1>2, <1>6, <1>7, <1>8
  <2>2. ~(c < p + h)
    BY <2>1, <1>1, <1>8, ProductOrder
  <2> QED
    BY <2>2, <1>8
<1> QED
  BY <1>1, <1>2, <1>8, <1>9, <1>10, <1>11 DEF k

---------------------------------------------------------------------------
(* The start.                                                              *)

LEMMA NoCallType == NoCall \in CallType
BY VirtioAssumption DEF NoCall, CallType, Ops

LEMMA FalseMember ==
  ASSUME NEW x, NEW S, x \notin S
  PROVE  (x \in S) = FALSE
OBVIOUS

(* No board makes the driver acknowledge VIRTIO_F_RING_RESET.              *)
LEMMA InitDevices == Init => dev = [d \in Devs |-> NoDevice]
<1> SUFFICES ASSUME Init PROVE dev = [d \in Devs |-> NoDevice]
  OBVIOUS
<1>1. PICK board \in Boards :
        dev = [d \in Devs |-> [NoDevice EXCEPT !.resets =
                                 "RING_RESET" \in attach_virtio(board, d).enabled]]
  BY DEF Init
<1>2. ASSUME NEW d \in Devs
      PROVE  dev[d] = NoDevice
  <2>1. "RING_RESET" \notin attach_virtio(board, d).enabled
    BY DEF attach_virtio, virtio_negotiate_features, wanted
  <2>2. ("RING_RESET" \in attach_virtio(board, d).enabled) = FALSE
    BY <2>1, FalseMember, Zenon
  <2>3. dev[d] = [NoDevice EXCEPT !.resets = FALSE]
    BY <1>1, <2>2, Zenon
  <2> QED
    BY <2>3 DEF NoDevice
<1>3. dev = [d \in Devs |-> dev[d]]
  BY <1>1
<1> QED
  BY <1>2, <1>3

LEMMA InitType == Init => TypeOK
<1> SUFFICES ASSUME Init PROVE TypeOK
  OBVIOUS
<1> USE VirtioAssumption DEF Init
<1>1. PICK board \in Boards :
        drv = [d \in Devs |-> driver(attach_virtio(board, d))]
  OBVIOUS
<1>2. \A d \in Devs : attach_virtio(board, d).ok \in BOOLEAN
  BY DEF attach_virtio, virtio_negotiate_features
<1>3. drv \in [Devs -> DriverType]
  BY <1>1, <1>2 DEF driver, DriverType
<1>4. dev \in [Devs -> DeviceType]
  <2>1. NoDevice \in DeviceType
    BY DEF NoDevice, DeviceType
  <2> QED
    BY <2>1, InitDevices
<1>5. req \in [blk : BlockRequest, rng : EntropyRequest]
  BY DEF vioblk_attach, viorng_attach, BlockRequest, EntropyRequest, Bytes, STALE
<1>6. disk \in [Secs -> Vals]
  OBVIOUS
<1>7. plic \in [Devs -> SourceType]
  BY DEF plic_init, SourceType
<1>8. pc \in [Threads -> Places] /\ panic \in BOOLEAN /\ faults \in Nat
  BY DEF Places
<1>9. job \in [Threads -> CallType]
  BY NoCallType
<1> QED
  BY <1>3, <1>4, <1>5, <1>6, <1>7, <1>8, <1>9 DEF TypeOK

LEMMA InitInv == Init => Inv
<1> SUFFICES ASSUME Init PROVE Inv
  OBVIOUS
<1>1. TypeOK
  BY InitType
<1>2. PICK board \in Boards :
        drv = [d \in Devs |-> driver(attach_virtio(board, d))]
  BY DEF Init
<1>3. \A d \in Devs : drv[d].opened = "no" /\ drv[d].lock = NoThread
                      /\ drv[d].avail = 0 /\ drv[d].used = 0
  BY <1>2 DEF driver
<1>4. \A d \in Devs : dev[d].last = 0 /\ dev[d].resets = FALSE
  BY InitDevices DEF NoDevice
<1>5. SourcesOK
  BY <1>3 DEF SourcesOK, Init, plic_init
<1>6. LocksOK
  BY <1>3 DEF LocksOK, Init, Holding
<1>7. CallsOK
  BY DEF CallsOK, CallOK, Init, NoCall
<1>8. QueuesOK
  BY <1>3, <1>4 DEF QueuesOK, Init, Done
<1> QED
  BY <1>1, <1>5, <1>6, <1>7, <1>8 DEF Inv

---------------------------------------------------------------------------
(* Types.                                                                  *)

LEMMA NextSector ==
  ASSUME NEW j \in CallType, NEW b \in Seq(Nat), j.left > 0
  PROVE  LET n == [j EXCEPT !.buf = b, !.sec = @ + 1, !.left = @ - 1] IN
         n \in CallType /\ n.op = j.op /\ n.sec = j.sec + 1 /\ n.left = j.left - 1
<1>1. j.sec + 1 \in Nat /\ j.left - 1 \in Nat
  BY DEF CallType
<1> QED
  BY <1>1 DEF CallType

LEMMA AfterType ==
  ASSUME TypeOK, CallsOK, NEW t \in Threads, pc[t] = "check",
         after(job[t], req[DevOf(t)]).left > 0
  PROVE  LET j == after(job[t], req[DevOf(t)]) IN
         /\ j \in CallType
         /\ j.op = job[t].op /\ j.op \in {"fetch", "store"}
         /\ j.sec + j.left = job[t].sec + job[t].left
<1> DEFINE r == req[DevOf(t)]
<1>1. job[t] \in CallType /\ job[t].op # "none" /\ job[t].left > 0
  BY DEF TypeOK, CallsOK, CallOK
<1>2. req.blk \in BlockRequest
  BY DEF TypeOK
<1>3. CASE job[t].op = "fetch"
  <2>1. r = req.blk
    BY <1>3 DEF DevOf
  <2>2. after(job[t], r) = fetched(job[t], r)
    BY <1>3 DEF after
  <2>3. r.status = "OK"
    BY <1>1, <2>2 DEF fetched, CallType
  <2>4. fetched(job[t], r) = [job[t] EXCEPT !.buf = Append(@, r.data), !.sec = @ + 1, !.left = @ - 1]
    BY <1>1, <2>3 DEF fetched, CallType
  <2>5. r.data \in Nat
    BY <1>2, <2>1, VirtioAssumption DEF BlockRequest
  <2> HIDE DEF r
  <2>6. Append(job[t].buf, r.data) \in Seq(Nat)
    BY <1>1, <2>5 DEF CallType
  <2> QED
    <3> DEFINE j == [job[t] EXCEPT !.buf = Append(@, r.data), !.sec = @ + 1, !.left = @ - 1]
    <3>1. j \in CallType /\ j.op = job[t].op /\ j.sec = job[t].sec + 1 /\ j.left = job[t].left - 1
      BY <1>1, <2>6, NextSector
    <3>2. after(job[t], req[DevOf(t)]) = j
      BY <2>2, <2>4 DEF r
    <3> HIDE DEF j
    <3>3. job[t].sec \in Nat /\ job[t].left \in Nat
      BY <1>1 DEF CallType
    <3> QED
      BY <1>3, <3>1, <3>2, <3>3
<1>4. CASE job[t].op = "store"
  <2>1. after(job[t], r) = stored(job[t], r)
    BY <1>4 DEF after
  <2>2. r.status = "OK"
    BY <1>1, <2>1 DEF stored, CallType
  <2> QED
    <3> DEFINE j == [job[t] EXCEPT !.sec = @ + 1, !.left = @ - 1]
    <3>1. j \in CallType /\ j.op = job[t].op /\ j.sec = job[t].sec + 1 /\ j.left = job[t].left - 1
      <4>1. j = [job[t] EXCEPT !.buf = job[t].buf, !.sec = @ + 1, !.left = @ - 1]
        BY <1>1 DEF CallType
      <4>2. job[t].buf \in Seq(Nat)
        BY <1>1 DEF CallType
      <4> QED
        BY <1>1, <4>1, <4>2, NextSector
    <3>2. after(job[t], req[DevOf(t)]) = j
      BY <2>1, <2>2 DEF stored
    <3> HIDE DEF j
    <3>3. job[t].sec \in Nat /\ job[t].left \in Nat
      BY <1>1 DEF CallType
    <3> QED
      BY <1>4, <3>1, <3>2, <3>3
<1>5. CASE job[t].op = "recv"
  <2>1. after(job[t], r) = received(job[t], r)
    BY <1>5 DEF after
  <2> QED
    BY <1>1, <2>1 DEF received, CallType
<1> QED
  BY <1>1, <1>3, <1>4, <1>5 DEF CallType, Ops

---------------------------------------------------------------------------
(* Steps that leave the calls, the locks and the indexes alone.            *)

LEMMA CallsKept ==
  ASSUME CallsOK, pc' = pc, job' = job
  PROVE  CallsOK'
BY DEF CallsOK, CallOK

LEMMA LocksKept ==
  ASSUME LocksOK, pc' = pc, job' = job, \A d \in Devs : drv'[d].lock = drv[d].lock
  PROVE  LocksOK'
BY DEF LocksOK, DevOf, Devs

LEMMA QueuesKept ==
  ASSUME QueuesOK, pc' = pc, job' = job, req' = req,
         \A d \in Devs : /\ drv'[d].lock = drv[d].lock /\ drv'[d].avail = drv[d].avail
                         /\ drv'[d].used = drv[d].used
                         /\ dev'[d].last = dev[d].last /\ dev'[d].resets = dev[d].resets
  PROVE  QueuesOK'
<1>1. \A t \in Threads : DevOf(t)' = DevOf(t) /\ DevOf(t) \in Devs
  BY DEF DevOf, Devs
<1>2. \A d \in Devs : Done(d)' = Done(d)
  BY DEF Done
<1>3. \A d \in Devs :
        /\ dev'[d].resets = FALSE /\ dev'[d].last = drv'[d].used
        /\ Done(d)' \/ (drv'[d].avail = (drv'[d].used + 1) % IDX /\ drv'[d].lock # NoThread)
  <2> TAKE d \in Devs
  <2>1. dev'[d].resets = FALSE
    BY Zenon DEF QueuesOK
  <2>2. dev'[d].last = drv'[d].used
    BY DEF QueuesOK
  <2>3. Done(d)' \/ (drv'[d].avail = (drv'[d].used + 1) % IDX /\ drv'[d].lock # NoThread)
    BY DEF QueuesOK, Done
  <2> QED
    BY <2>1, <2>2, <2>3
<1>4. \A t \in Threads : pc'[t] = "fill" => Done(DevOf(t))'
  BY <1>1, <1>2 DEF QueuesOK, Done
<1>5. \A t \in Threads : pc'[t] \in {"notify", "check", "wait"} =>
        Requested(job[t], req[DevOf(t)])'
  BY <1>1 DEF QueuesOK
<1> QED
  BY <1>3, <1>4, <1>5 DEF QueuesOK

LEMMA QuietInv ==
  ASSUME Inv, TypeOK', SourcesOK', pc' = pc, job' = job, req' = req,
         \A d \in Devs : /\ drv'[d].lock = drv[d].lock /\ drv'[d].avail = drv[d].avail
                         /\ drv'[d].used = drv[d].used
                         /\ dev'[d].last = dev[d].last /\ dev'[d].resets = dev[d].resets
  PROVE  Inv'
<1>1. CallsOK'
  BY CallsKept DEF Inv
<1>2. LocksOK'
  BY LocksKept DEF Inv
<1>3. QueuesOK'
  BY QueuesKept DEF Inv
<1> QED
  BY <1>1, <1>2, <1>3 DEF Inv

LEMMA DriverUpdate ==
  ASSUME NEW f \in [Devs -> DriverType], NEW d \in Devs
  PROVE  /\ \A o \in {"no", "opening", "yes", "closing"} :
              [f EXCEPT ![d].opened = o] \in [Devs -> DriverType]
         /\ \A t \in Threads \cup {NoThread} : [f EXCEPT ![d].lock = t] \in [Devs -> DriverType]
         /\ \A i \in 0 .. IDX - 1 : /\ [f EXCEPT ![d].avail = i] \in [Devs -> DriverType]
                                   /\ [f EXCEPT ![d].used = i] \in [Devs -> DriverType]
<1>1. f[d] \in DriverType
  OBVIOUS
<1>2. \A r \in DriverType : [f EXCEPT ![d] = r] \in [Devs -> DriverType]
  OBVIOUS
<1>3. ASSUME NEW o \in {"no", "opening", "yes", "closing"}
      PROVE  [f[d] EXCEPT !.opened = o] \in DriverType
  BY <1>1 DEF DriverType
<1>4. ASSUME NEW t \in Threads \cup {NoThread}
      PROVE  [f[d] EXCEPT !.lock = t] \in DriverType
  BY <1>1 DEF DriverType
<1>5. ASSUME NEW i \in 0 .. IDX - 1
      PROVE  [f[d] EXCEPT !.avail = i] \in DriverType /\ [f[d] EXCEPT !.used = i] \in DriverType
  BY <1>1 DEF DriverType
<1> QED
  BY <1>2, <1>3, <1>4, <1>5

LEMMA SourceUpdate ==
  ASSUME NEW f \in [Devs -> SourceType], NEW d \in Devs, NEW b \in BOOLEAN
  PROVE  /\ [f EXCEPT ![d].pend = b] \in [Devs -> SourceType]
         /\ [f EXCEPT ![d].isr = b] \in [Devs -> SourceType]
         /\ \A p \in {0, 1} : [f EXCEPT ![d].prio = p] \in [Devs -> SourceType]
<1>1. f[d] \in SourceType
  OBVIOUS
<1>2. \A r \in SourceType : [f EXCEPT ![d] = r] \in [Devs -> SourceType]
  OBVIOUS
<1>3. /\ [f[d] EXCEPT !.pend = b] \in SourceType /\ [f[d] EXCEPT !.isr = b] \in SourceType
      /\ \A p \in {0, 1} : [f[d] EXCEPT !.prio = p] \in SourceType
  BY <1>1 DEF SourceType
<1> QED
  BY <1>2, <1>3

LEMMA OpenStartInv ==
  ASSUME Inv, NEW d \in Devs, open_start(d)
  PROVE  Inv'
<1> USE DEF open_start, enable_intr_source, set_isr
<1>1. TypeOK'
  <2>1. drv' \in [Devs -> DriverType]
    BY DriverUpdate DEF Inv, TypeOK
  <2>2. dev' \in [Devs -> DeviceType]
    BY DEF Inv, TypeOK, DeviceType
  <2>3. plic' \in [Devs -> SourceType]
    <3>1. plic' = [plic EXCEPT ![d].isr = TRUE]
      OBVIOUS
    <3> QED
      BY <3>1, SourceUpdate, Zenon DEF Inv, TypeOK
  <2> QED
    BY <2>1, <2>2, <2>3 DEF Inv, TypeOK
<1>2. SourcesOK'
  BY DEF Inv, TypeOK, DriverType, SourceType, SourcesOK
<1>3. \A e \in Devs : /\ drv'[e].lock = drv[e].lock /\ drv'[e].avail = drv[e].avail
                      /\ drv'[e].used = drv[e].used
                      /\ dev'[e].last = dev[e].last /\ dev'[e].resets = dev[e].resets
  BY DEF Inv, TypeOK, DriverType, DeviceType
<1> QED
  BY <1>1, <1>2, <1>3, QuietInv

LEMMA OpenEndInv ==
  ASSUME Inv, NEW d \in Devs, open_end(d)
  PROVE  Inv'
<1> USE DEF open_end, enable_intr_source, plic_set_source_priority
<1>1. TypeOK'
  <2>1. drv' \in [Devs -> DriverType]
    BY DriverUpdate DEF Inv, TypeOK
  <2>2. plic' = [plic EXCEPT ![d].prio = 1]
    OBVIOUS
  <2>3. plic' \in [Devs -> SourceType]
    BY <2>2, SourceUpdate, Zenon DEF Inv, TypeOK
  <2> QED
    BY <2>1, <2>3 DEF Inv, TypeOK
<1>2. SourcesOK'
  BY DEF Inv, TypeOK, DriverType, SourceType, SourcesOK
<1>3. \A e \in Devs : /\ drv'[e].lock = drv[e].lock /\ drv'[e].avail = drv[e].avail
                      /\ drv'[e].used = drv[e].used
                      /\ dev'[e].last = dev[e].last /\ dev'[e].resets = dev[e].resets
  BY DEF Inv, TypeOK, DriverType, DeviceType
<1> QED
  BY <1>1, <1>2, <1>3, QuietInv

LEMMA CloseStartInv ==
  ASSUME Inv, NEW d \in Devs, close_start(d)
  PROVE  Inv'
<1> USE DEF close_start, disable_intr_source, plic_set_source_priority
<1>1. TypeOK'
  <2>1. drv' \in [Devs -> DriverType]
    BY DriverUpdate DEF Inv, TypeOK
  <2>2. plic' = [plic EXCEPT ![d].prio = 0]
    OBVIOUS
  <2>3. plic' \in [Devs -> SourceType]
    BY <2>2, SourceUpdate, Zenon DEF Inv, TypeOK
  <2> QED
    BY <2>1, <2>3 DEF Inv, TypeOK
<1>2. SourcesOK'
  BY DEF Inv, TypeOK, DriverType, SourceType, SourcesOK
<1>3. \A e \in Devs : /\ drv'[e].lock = drv[e].lock /\ drv'[e].avail = drv[e].avail
                      /\ drv'[e].used = drv[e].used
                      /\ dev'[e].last = dev[e].last /\ dev'[e].resets = dev[e].resets
  BY DEF Inv, TypeOK, DriverType, DeviceType
<1> QED
  BY <1>1, <1>2, <1>3, QuietInv

(* The device ignores the reset of the queue, whose state is kept.         *)
LEMMA CloseEndDevice ==
  ASSUME Inv, NEW d \in Devs, close_end(d)
  PROVE  dev' = dev
<1>1. dev[d].resets = FALSE
  BY DEF Inv, QueuesOK
<1>2. virtio_reset_virtq(dev[d]) = dev[d]
  BY <1>1 DEF virtio_reset_virtq
<1>3. dev' = [dev EXCEPT ![d] = dev[d]]
  BY <1>2 DEF close_end
<1> QED
  BY <1>3 DEF Inv, TypeOK

LEMMA CloseEndInv ==
  ASSUME Inv, NEW d \in Devs, close_end(d)
  PROVE  Inv'
<1> USE DEF close_end, disable_intr_source, set_isr
<1>0. dev' = dev
  BY CloseEndDevice
<1>1. TypeOK'
  <2>1. drv' \in [Devs -> DriverType]
    BY DriverUpdate DEF Inv, TypeOK
  <2>2. plic' = [plic EXCEPT ![d].isr = FALSE]
    OBVIOUS
  <2>3. plic' \in [Devs -> SourceType]
    BY <2>2, SourceUpdate, Zenon DEF Inv, TypeOK
  <2> QED
    BY <1>0, <2>1, <2>3 DEF Inv, TypeOK
<1>2. SourcesOK'
  BY DEF Inv, TypeOK, DriverType, SourceType, SourcesOK
<1>3. \A e \in Devs : /\ drv'[e].lock = drv[e].lock /\ drv'[e].avail = drv[e].avail
                      /\ drv'[e].used = drv[e].used
                      /\ dev'[e].last = dev[e].last /\ dev'[e].resets = dev[e].resets
  BY <1>0 DEF Inv, TypeOK, DriverType, DeviceType
<1> QED
  BY <1>1, <1>2, <1>3, QuietInv

LEMMA DeviceUpdate ==
  ASSUME NEW f \in [Devs -> DeviceType], NEW d \in Devs, NEW b \in BOOLEAN
  PROVE  /\ [f EXCEPT ![d].active = b] \in [Devs -> DeviceType]
         /\ [f EXCEPT ![d].istat = b] \in [Devs -> DeviceType]
         /\ \A c \in BOOLEAN : [f EXCEPT ![d].late = b, ![d].istat = c] \in [Devs -> DeviceType]
         /\ \A i \in 0 .. IDX - 1 : [f EXCEPT ![d].last = i, ![d].late = b] \in [Devs -> DeviceType]
<1>1. f[d] \in DeviceType
  OBVIOUS
<1>2. \A r \in DeviceType : [f EXCEPT ![d] = r] \in [Devs -> DeviceType]
  OBVIOUS
<1>3. /\ [f[d] EXCEPT !.active = b] \in DeviceType /\ [f[d] EXCEPT !.istat = b] \in DeviceType
      /\ \A c \in BOOLEAN : [f[d] EXCEPT !.late = b, !.istat = c] \in DeviceType
      /\ \A i \in 0 .. IDX - 1 : [f[d] EXCEPT !.last = i, !.late = b] \in DeviceType
  BY <1>1 DEF DeviceType
<1> QED
  BY <1>2, <1>3

LEMMA ServedAllInv ==
  ASSUME Inv, NEW d \in Devs, served_all(d)
  PROVE  Inv'
<1> USE DEF served_all
<1>1. TypeOK'
  <2>1. dev' \in [Devs -> DeviceType]
    BY DeviceUpdate, Zenon DEF Inv, TypeOK
  <2> QED
    BY <2>1 DEF Inv, TypeOK
<1>2. SourcesOK'
  BY DEF Inv, SourcesOK
<1>3. \A e \in Devs : /\ drv'[e].lock = drv[e].lock /\ drv'[e].avail = drv[e].avail
                      /\ drv'[e].used = drv[e].used
                      /\ dev'[e].last = dev[e].last /\ dev'[e].resets = dev[e].resets
  BY DEF Inv, TypeOK, DriverType, DeviceType
<1> QED
  BY <1>1, <1>2, <1>3, QuietInv

LEMMA RaiseInv ==
  ASSUME Inv, NEW d \in Devs, raise(d)
  PROVE  Inv'
<1> USE DEF raise
<1>1. TypeOK'
  <2>1. dev' \in [Devs -> DeviceType]
    BY DeviceUpdate, Zenon DEF Inv, TypeOK
  <2>2. plic' \in [Devs -> SourceType]
    BY SourceUpdate, Zenon DEF Inv, TypeOK
  <2> QED
    BY <2>1, <2>2 DEF Inv, TypeOK
<1>2. SourcesOK'
  BY DEF Inv, TypeOK, SourceType, SourcesOK
<1>3. \A e \in Devs : /\ drv'[e].lock = drv[e].lock /\ drv'[e].avail = drv[e].avail
                      /\ drv'[e].used = drv[e].used
                      /\ dev'[e].last = dev[e].last /\ dev'[e].resets = dev[e].resets
  BY DEF Inv, TypeOK, DriverType, DeviceType
<1> QED
  BY <1>1, <1>2, <1>3, QuietInv

(* A source that can be claimed has its handler.                           *)
LEMMA HandlerInv ==
  ASSUME Inv, NEW d \in Devs, handle_extern_interrupt(d)
  PROVE  Inv'
<1> USE DEF handle_extern_interrupt, plic_claim_interrupt
<1>1. plic[d].isr
  <2>1. plic[d].prio > 0
    BY DEF Claimable
  <2> QED
    BY <2>1 DEF Inv, SourcesOK
<1>2. panic' = FALSE
  BY <1>1
<1>3. plic' \in [Devs -> SourceType]
  BY SourceUpdate, Zenon DEF Inv, TypeOK
<1>4. TypeOK'
  BY <1>2, <1>3 DEF Inv, TypeOK
<1>5. SourcesOK'
  BY <1>2 DEF Inv, TypeOK, SourceType, SourcesOK
<1> QED
  BY <1>4, <1>5, QuietInv

LEMMA AckInv ==
  ASSUME Inv, NEW d \in Devs, isr_ack(d)
  PROVE  Inv'
<1> USE DEF isr_ack
<1>1. TypeOK'
  <2>1. dev' \in [Devs -> DeviceType]
    BY DeviceUpdate, Zenon DEF Inv, TypeOK
  <2> QED
    BY <2>1 DEF Inv, TypeOK
<1>2. SourcesOK'
  BY DEF Inv, SourcesOK
<1>3. \A e \in Devs : /\ drv'[e].lock = drv[e].lock /\ drv'[e].avail = drv[e].avail
                      /\ drv'[e].used = drv[e].used
                      /\ dev'[e].last = dev[e].last /\ dev'[e].resets = dev[e].resets
  BY DEF Inv, TypeOK, DriverType, DeviceType
<1> QED
  BY <1>1, <1>2, <1>3, QuietInv

LEMMA StatusInv ==
  ASSUME Inv, NEW d \in Devs, NEW next, isr_status(d, next)
  PROVE  Inv'
<1>1. TypeOK' /\ SourcesOK'
  BY DEF Inv, TypeOK, SourcesOK, isr_status
<1> QED
  BY <1>1, QuietInv DEF isr_status

---------------------------------------------------------------------------
(* Steps of threads between the request and the end of the wait.           *)

Waiting == {"notify", "check", "wait"}

LEMMA WaitingInv ==
  ASSUME Inv, TypeOK', SourcesOK', job' = job, req' = req, drv' = drv,
         \A d \in Devs : dev'[d].last = dev[d].last /\ dev'[d].resets = dev[d].resets,
         \A t \in Threads : pc'[t] = pc[t] \/ (pc[t] \in Waiting /\ pc'[t] \in Waiting)
  PROVE  Inv'
<1> USE DEF Waiting
<1>1. \A t \in Threads : DevOf(t)' = DevOf(t) /\ DevOf(t) \in Devs
  BY DEF DevOf, Devs
<1>2. CallsOK'
  BY DEF Inv, CallsOK, CallOK
<1>3. LocksOK'
  <2>1. \A t \in Threads : pc'[t] \in Holding => drv'[DevOf(t)'].lock = t
    BY <1>1 DEF Inv, LocksOK, Holding
  <2>2. \A d \in Devs : drv[d].lock \in Threads \cup {NoThread}
    BY DEF Inv, TypeOK, DriverType
  <2>3. ASSUME NEW d \in Devs, drv'[d].lock # NoThread
        PROVE  pc'[drv'[d].lock] \in Holding /\ DevOf(drv[d].lock)' = d
    BY <1>1, <2>2, <2>3 DEF Inv, LocksOK, Holding
  <2> QED
    BY <2>1, <2>3 DEF LocksOK
<1>4. QueuesOK'
  <2>1. \A d \in Devs : dev'[d].resets = FALSE
    BY Zenon DEF Inv, QueuesOK
  <2>2. \A d \in Devs :
          /\ dev'[d].last = drv'[d].used
          /\ Done(d)' \/ (drv'[d].avail = (drv'[d].used + 1) % IDX /\ drv'[d].lock # NoThread)
    BY DEF Inv, QueuesOK, Done
  <2>3. \A t \in Threads : pc'[t] = "fill" => Done(DevOf(t))'
    BY <1>1 DEF Inv, QueuesOK, Done
  <2>4. \A t \in Threads : pc'[t] \in {"notify", "check", "wait"} =>
          Requested(job[t], req[DevOf(t)])'
    BY <1>1 DEF Inv, QueuesOK
  <2> QED
    BY <2>1, <2>2, <2>3, <2>4 DEF QueuesOK
<1> QED
  BY <1>2, <1>3, <1>4 DEF Inv

LEMMA WakeInv ==
  ASSUME Inv, NEW d \in Devs, isr_wake(d)
  PROVE  Inv'
<1>1. \A t \in Threads : pc'[t] = pc[t] \/ (pc[t] \in Waiting /\ pc'[t] \in Waiting)
  BY DEF isr_wake, Waiting
<1>2. pc' \in [Threads -> Places]
  BY DEF isr_wake, Inv, TypeOK, Places
<1>3. TypeOK' /\ SourcesOK'
  BY <1>2 DEF Inv, TypeOK, SourcesOK, isr_wake
<1> QED
  BY <1>1, <1>3, WaitingInv DEF isr_wake

LEMMA WaitInv ==
  ASSUME Inv, NEW t \in Threads, wait(t)
  PROVE  Inv'
<1> USE DEF wait, hwVars
<1>1. \A u \in Threads : pc'[u] = pc[u] \/ (pc[u] \in Waiting /\ pc'[u] \in Waiting)
  BY DEF Inv, TypeOK, Waiting
<1>2. pc' \in [Threads -> Places]
  BY DEF Inv, TypeOK, Places
<1>3. TypeOK' /\ SourcesOK'
  BY <1>2 DEF Inv, TypeOK, SourcesOK
<1> QED
  BY <1>1, <1>3, WaitingInv

LEMMA NotifyInv ==
  ASSUME Inv, NEW t \in Threads, virtio_notify_avail(t)
  PROVE  Inv'
<1> USE DEF virtio_notify_avail
<1>1. \A u \in Threads : pc'[u] = pc[u] \/ (pc[u] \in Waiting /\ pc'[u] \in Waiting)
  BY DEF Inv, TypeOK, Waiting
<1>2. pc' \in [Threads -> Places]
  BY DEF Inv, TypeOK, Places
<1>3. DevOf(t) \in Devs
  BY DEF DevOf, Devs
<1>4. dev' \in [Devs -> DeviceType]
  <2>1. PICK d \in Devs : d = DevOf(t)
    BY <1>3
  <2>2. (dev[d].active \/ dev[d].ready) \in BOOLEAN
    OBVIOUS
  <2>3. PICK b \in BOOLEAN : b = (dev[d].active \/ dev[d].ready)
    BY <2>2, Zenon
  <2>4. dev' = [dev EXCEPT ![d].active = b]
    BY <2>1, <2>3, Zenon
  <2>5. dev \in [Devs -> DeviceType]
    BY DEF Inv, TypeOK
  <2>6. [dev EXCEPT ![d].active = b] \in [Devs -> DeviceType]
    BY <2>5, DeviceUpdate, Zenon
  <2> QED
    BY <2>4, <2>6, Zenon
<1>5. TypeOK' /\ SourcesOK'
  BY <1>2, <1>4 DEF Inv, TypeOK, SourcesOK
<1>6. \A d \in Devs : dev'[d].last = dev[d].last /\ dev'[d].resets = dev[d].resets
  BY <1>3 DEF Inv, TypeOK, DeviceType
<1> QED
  BY <1>1, <1>5, <1>6, WaitingInv

---------------------------------------------------------------------------
(* Calls.                                                                  *)

(* What a call may ask for.                                                *)
GoodCall(j) ==
  /\ j \in CallType /\ j.op # "none" /\ j.left > 0
  /\ j.op \in {"fetch", "store"} => j.sec + j.left <= Sectors /\ j.left * SECSZ = j.ret
  /\ j.op = "recv" => j.left <= RNGBUF

LEMMA EnterInv ==
  ASSUME Inv, NEW t \in Threads, pc[t] = "user", NEW j, j = NoCall \/ GoodCall(j), enter(t, j)
  PROVE  Inv'
<1> USE DEF enter, hwVars
<1>1. j \in CallType
  BY NoCallType DEF GoodCall
<1>2. TypeOK'
  BY <1>1 DEF Inv, TypeOK, Places
<1>3. SourcesOK'
  BY DEF Inv, SourcesOK
<1>4. job'[t] = j /\ pc'[t] = (IF j.op = "none" THEN "user" ELSE "lock")
  BY DEF Inv, TypeOK
<1>5. \A u \in Threads \ {t} : job'[u] = job[u] /\ pc'[u] = pc[u]
  BY DEF Inv, TypeOK
<1>6. CallsOK'
  <2>1. CallOK(t)'
    <3>1. CASE j = NoCall
      BY <1>4, <3>1 DEF CallOK, NoCall
    <3>2. CASE GoodCall(j)
      BY <1>4, <3>2 DEF CallOK, GoodCall
    <3> QED
      BY <3>1, <3>2
  <2>2. \A u \in Threads \ {t} : CallOK(u)'
    BY <1>5 DEF Inv, CallsOK, CallOK
  <2> QED
    BY <2>1, <2>2 DEF CallsOK
<1>7. \A u \in Threads : pc'[u] \in Holding \cup {"fill"} =>
        u # t /\ pc[u] = pc'[u] /\ DevOf(u)' = DevOf(u) /\ DevOf(u) \in Devs
  BY <1>4, <1>5 DEF Holding, DevOf, Devs
<1>8. LocksOK'
  <2>1. \A u \in Threads : pc'[u] \in Holding => drv'[DevOf(u)'].lock = u
    BY <1>7 DEF Inv, LocksOK
  <2>2. ASSUME NEW d \in Devs, drv'[d].lock # NoThread
        PROVE  pc'[drv'[d].lock] \in Holding /\ DevOf(drv[d].lock)' = d
    <3>1. drv[d].lock \in Threads
      BY <2>2 DEF Inv, TypeOK, DriverType
    <3>2. pc[drv[d].lock] \in Holding /\ DevOf(drv[d].lock) = d
      BY <2>2 DEF Inv, LocksOK
    <3>3. drv[d].lock # t
      BY <3>2 DEF Holding
    <3> QED
      BY <3>1, <3>2, <3>3, <1>5 DEF DevOf
  <2> QED
    BY <2>1, <2>2 DEF LocksOK
<1>9. QueuesOK'
  <2>1. \A d \in Devs : dev'[d].resets = FALSE
    BY Zenon DEF Inv, QueuesOK
  <2>2. \A d \in Devs :
          /\ dev'[d].last = drv'[d].used
          /\ Done(d)' \/ (drv'[d].avail = (drv'[d].used + 1) % IDX /\ drv'[d].lock # NoThread)
    BY DEF Inv, QueuesOK, Done
  <2>3. \A u \in Threads : pc'[u] = "fill" => Done(DevOf(u))'
    BY <1>7 DEF Inv, QueuesOK, Done
  <2>4. \A u \in Threads : pc'[u] \in {"notify", "check", "wait"} =>
          Requested(job[u], req[DevOf(u)])'
    BY <1>5, <1>7 DEF Inv, QueuesOK, Holding
  <2> QED
    BY <2>1, <2>2, <2>3, <2>4 DEF QueuesOK
<1> QED
  BY <1>2, <1>3, <1>6, <1>8, <1>9 DEF Inv

LEMMA BlockCallInv ==
  ASSUME Inv, NEW t \in Threads, NEW op \in {"fetch", "store"}, NEW pos \in Nat, NEW n \in Nat,
         NEW v \in Vals, block_call(t, op, pos, n, v)
  PROVE  Inv'
<1> DEFINE k == transfer_size(pos, n)
           j == [op |-> op, sec |-> pos \div SECSZ, left |-> k \div SECSZ, val |-> v,
                 buf |-> <<>>, ret |-> k]
<1>1. CASE drv["blk"].opened = "no" \/ pos % SECSZ # 0 \/ pos > CAPACITY
  <2>1. enter(t, NoCall) /\ pc[t] = "user"
    BY <1>1 DEF block_call
  <2> QED
    BY <2>1, EnterInv
<1>2. CASE ~(drv["blk"].opened = "no" \/ pos % SECSZ # 0 \/ pos > CAPACITY)
  <2>1. enter(t, IF k = 0 THEN NoCall ELSE j) /\ pc[t] = "user"
    BY <1>2 DEF block_call
  <2>2. CASE k = 0
    <3>1. enter(t, NoCall)
      BY <2>1, <2>2
    <3> QED
      BY <2>1, <3>1, EnterInv
  <2>3. CASE k # 0
    <3>1. enter(t, j)
      BY <2>1, <2>3
    <3>2. pos <= CAPACITY /\ pos % SECSZ = 0
      BY <1>2, VirtioAssumption
    <3>3. /\ k \in Nat /\ k \div SECSZ \in Nat /\ k \div SECSZ > 0 /\ pos \div SECSZ \in Nat
          /\ (k \div SECSZ) * SECSZ = k
          /\ pos \div SECSZ + k \div SECSZ <= Sectors
      BY <2>3, <3>2, SectorsOfCall
    <3>4. GoodCall(j)
      <4> HIDE DEF k
      <4>1. j \in CallType
        BY <3>3 DEF CallType, Ops
      <4> QED
        BY <3>3, <4>1 DEF GoodCall
    <3> HIDE DEF j
    <3> QED
      BY <2>1, <3>1, <3>4, EnterInv
  <2> QED
    BY <2>2, <2>3
<1> QED
  BY <1>1, <1>2

LEMMA RecvInv ==
  ASSUME Inv, NEW t \in Threads, NEW n \in Nat, viorng_serial_recv(t, n)
  PROVE  Inv'
<1> DEFINE k == IF n > RNGBUF THEN RNGBUF ELSE n
           j == [op |-> "recv", sec |-> 0, left |-> k, val |-> 0, buf |-> <<>>, ret |-> k]
<1>1. enter(t, IF drv["rng"].opened = "no" \/ k = 0 THEN NoCall ELSE j) /\ pc[t] = "user"
  BY DEF viorng_serial_recv
<1>2. k \in Nat /\ k <= RNGBUF
  BY VirtioAssumption
<1> HIDE DEF k
<1>3. CASE drv["rng"].opened = "no" \/ k = 0
  <2>1. enter(t, NoCall)
    BY <1>1, <1>3
  <2> QED
    BY <1>1, <2>1, EnterInv
<1>4. CASE ~(drv["rng"].opened = "no" \/ k = 0)
  <2>1. enter(t, j)
    BY <1>1, <1>4
  <2>2. j \in CallType
    BY <1>2, VirtioAssumption DEF CallType, Ops
  <2>3. GoodCall(j)
    BY <1>2, <1>4, <2>2 DEF GoodCall
  <2> HIDE DEF j
  <2> QED
    BY <1>1, <2>1, <2>3, EnterInv
<1> QED
  BY <1>3, <1>4

LEMMA LockedInv ==
  ASSUME Inv, NEW t \in Threads, locked(t)
  PROVE  Inv'
<1> USE DEF locked, hwVars
<1> DEFINE d == DevOf(t)
<1>1. d \in Devs
  BY DEF DevOf, Devs
<1>2. drv[d].lock = NoThread /\ pc[t] = "lock" /\ job' = job /\ req' = req /\ dev' = dev
      /\ drv' = [drv EXCEPT ![d].lock = t] /\ pc' = [pc EXCEPT ![t] = "fill"]
  OBVIOUS
<1>3. \A u \in Threads : DevOf(u)' = DevOf(u) /\ DevOf(u) \in Devs
  BY DEF DevOf, Devs
<1>4. TypeOK'
  <2>1. drv' \in [Devs -> DriverType]
    BY <1>1, DriverUpdate DEF Inv, TypeOK
  <2>2. pc' \in [Threads -> Places]
    BY DEF Inv, TypeOK, Places
  <2> QED
    BY <2>1, <2>2 DEF Inv, TypeOK
<1>5. /\ pc'[t] = "fill" /\ \A u \in Threads \ {t} : pc'[u] = pc[u]
      /\ drv'[d].lock = t /\ \A e \in Devs \ {d} : drv'[e].lock = drv[e].lock
      /\ \A e \in Devs : drv'[e].avail = drv[e].avail /\ drv'[e].used = drv[e].used
                         /\ drv'[e].opened = drv[e].opened
  BY <1>1, <1>2 DEF Inv, TypeOK, DriverType
<1>6. SourcesOK'
  BY <1>5 DEF Inv, SourcesOK
<1>7. CallsOK'
  BY <1>2, <1>5 DEF Inv, CallsOK, CallOK
<1> HIDE DEF d
<1>8. d = DevOf(t)
  BY DEF d
<1>9. \A u \in Threads : pc[u] \in Holding => DevOf(u) # d
  BY <1>2, VirtioAssumption DEF Inv, LocksOK
<1>10. LocksOK'
  <2>1. \A u \in Threads : pc'[u] \in Holding => drv'[DevOf(u)'].lock = u
    BY <1>3, <1>5, <1>8, <1>9 DEF Inv, LocksOK
  <2>2. ASSUME NEW e \in Devs, drv'[e].lock # NoThread
        PROVE  pc'[drv'[e].lock] \in Holding /\ DevOf(drv'[e].lock) = e
    <3>1. CASE e = d
      BY <1>5, <1>8, <3>1 DEF Holding
    <3>2. CASE e # d
      <4>1. drv'[e].lock = drv[e].lock /\ drv[e].lock \in Threads
        BY <1>5, <2>2, <3>2 DEF Inv, TypeOK, DriverType
      <4>2. pc[drv[e].lock] \in Holding /\ DevOf(drv[e].lock) = e
        BY <2>2, <4>1 DEF Inv, LocksOK
      <4>3. drv[e].lock # t
        BY <1>2, <4>2 DEF Holding
      <4> QED
        BY <1>5, <4>1, <4>2, <4>3
    <3> QED
      BY <3>1, <3>2
  <2>3. \A e \in Devs : drv'[e].lock # NoThread => DevOf(drv[e].lock)' = e
    BY <1>2, <2>2 DEF DevOf
  <2> QED
    BY <2>1, <2>2, <2>3 DEF LocksOK
<1>11. QueuesOK'
  <2>1. \A e \in Devs : dev'[e].resets = FALSE
    BY Zenon DEF Inv, QueuesOK
  <2>2. Done(d)
    BY <1>1, <1>2 DEF Inv, QueuesOK
  <2>3. ASSUME NEW e \in Devs
        PROVE  /\ dev'[e].last = drv'[e].used
               /\ Done(e)' \/ (drv'[e].avail = (drv'[e].used + 1) % IDX /\ drv'[e].lock # NoThread)
    BY <1>2, <1>5, <2>2 DEF Inv, QueuesOK, Done
  <2>4. \A u \in Threads : pc'[u] = "fill" => Done(DevOf(u))'
    BY <1>2, <1>3, <1>5, <1>8, <2>2 DEF Inv, QueuesOK, Done
  <2>5. \A u \in Threads : pc'[u] \in {"notify", "check", "wait"} =>
          Requested(job[u], req[DevOf(u)])'
    BY <1>2, <1>3, <1>5 DEF Inv, QueuesOK
  <2> QED
    BY <2>1, <2>3, <2>4, <2>5 DEF QueuesOK
<1> QED
  BY <1>4, <1>6, <1>7, <1>10, <1>11 DEF Inv

LEMMA OneHolder ==
  ASSUME LocksOK, NEW t \in Threads, NEW u \in Threads,
         pc[t] \in Holding, pc[u] \in Holding, DevOf(t) = DevOf(u)
  PROVE  t = u
BY DEF LocksOK

LEMMA Wraps ==
  ASSUME NEW i \in 0 .. IDX - 1
  PROVE  (i + 1) % IDX \in 0 .. IDX - 1 /\ (i + 1) % IDX # i
<1>1. IDX \in Nat /\ IDX > 1
  BY VirtioAssumption
<1>2. CASE i + 1 = IDX
  <2>1. (IDX * 1 + 0) % IDX = 0
    BY <1>1, Quotient
  <2>2. IDX * 1 + 0 = i + 1
    BY <1>1, <1>2
  <2> QED
    BY <1>1, <1>2, <2>1, <2>2
<1>3. CASE i + 1 < IDX
  <2>1. (IDX * 0 + (i + 1)) % IDX = i + 1
    BY <1>1, <1>3, Quotient
  <2>2. IDX * 0 + (i + 1) = i + 1
    BY <1>1
  <2> QED
    BY <1>1, <1>3, <2>1, <2>2
<1> QED
  BY <1>1, <1>2, <1>3

LEMMA FilledRequest ==
  ASSUME Inv, NEW t \in Threads, pc[t] # "user"
  PROVE  LET r == filled(job[t], req[DevOf(t)]) IN
         /\ DevOf(t) = "blk" => r \in BlockRequest
         /\ DevOf(t) = "rng" => r \in EntropyRequest
         /\ Requested(job[t], r)
<1>1. job[t] \in CallType /\ job[t].op \in {"fetch", "store", "recv"} /\ job[t].left > 0
  BY DEF Inv, TypeOK, CallsOK, CallOK, CallType, Ops
<1>2. req.blk \in BlockRequest /\ req.rng \in EntropyRequest
  BY DEF Inv, TypeOK
<1>3. CASE job[t].op = "fetch"
  <2>1. DevOf(t) = "blk" /\ filled(job[t], req[DevOf(t)]) = fetch_request(job[t], req.blk)
    BY <1>3 DEF DevOf, filled
  <2> QED
    BY <1>1, <1>2, <1>3, <2>1 DEF fetch_request, BlockRequest, CallType, Requested
<1>4. CASE job[t].op = "store"
  <2>1. DevOf(t) = "blk" /\ filled(job[t], req[DevOf(t)]) = store_request(job[t], req.blk)
    BY <1>4 DEF DevOf, filled
  <2> QED
    BY <1>1, <1>2, <1>4, <2>1 DEF store_request, BlockRequest, CallType, Requested
<1>5. CASE job[t].op = "recv"
  <2>1. DevOf(t) = "rng" /\ filled(job[t], req[DevOf(t)]) = recv_request(job[t], req.rng)
    BY <1>5 DEF DevOf, filled
  <2>2. job[t].left \in 0 .. RNGBUF
    BY <1>1, <1>5, VirtioAssumption DEF Inv, CallsOK, CallOK, CallType
  <2> QED
    BY <1>1, <1>2, <1>5, <2>1, <2>2 DEF recv_request, EntropyRequest, Requested
<1> QED
  BY <1>1, <1>3, <1>4, <1>5

LEMMA RequestUpdate ==
  ASSUME NEW q \in [blk : BlockRequest, rng : EntropyRequest], NEW d \in Devs, NEW r,
         d = "blk" => r \in BlockRequest, d = "rng" => r \in EntropyRequest
  PROVE  /\ [q EXCEPT ![d] = r] \in [blk : BlockRequest, rng : EntropyRequest]
         /\ [q EXCEPT ![d] = r][d] = r
         /\ \A e \in Devs \ {d} : [q EXCEPT ![d] = r][e] = q[e]
BY DEF Devs

LEMMA FillInv ==
  ASSUME Inv, NEW t \in Threads, fill(t)
  PROVE  Inv'
<1> DEFINE r == filled(job[t], req[DevOf(t)])
<1>1. PICK d \in Devs : d = DevOf(t)
  BY DEF DevOf, Devs
<1>2. /\ pc[t] = "fill" /\ job' = job /\ dev' = dev /\ disk' = disk /\ plic' = plic
      /\ panic' = panic /\ faults' = faults
      /\ drv' = [drv EXCEPT ![d].avail = (drv[d].avail + 1) % IDX]
      /\ req' = [req EXCEPT ![d] = r]
      /\ pc' = [pc EXCEPT ![t] = "notify"]
  BY <1>1 DEF fill, hwVars
<1>3. /\ d = "blk" => r \in BlockRequest
      /\ d = "rng" => r \in EntropyRequest
      /\ Requested(job[t], r)
  BY <1>1, <1>2, FilledRequest
<1> HIDE DEF r
<1>4. \A u \in Threads : DevOf(u)' = DevOf(u) /\ DevOf(u) \in Devs
  BY <1>2 DEF DevOf, Devs
<1>5. /\ req' \in [blk : BlockRequest, rng : EntropyRequest] /\ req'[d] = r
      /\ \A e \in Devs \ {d} : req'[e] = req[e]
  <2>1. req \in [blk : BlockRequest, rng : EntropyRequest]
    BY DEF Inv, TypeOK
  <2>2. PICK c : c = r
    OBVIOUS
  <2>3. /\ [req EXCEPT ![d] = c] \in [blk : BlockRequest, rng : EntropyRequest]
        /\ [req EXCEPT ![d] = c][d] = c
        /\ \A e \in Devs \ {d} : [req EXCEPT ![d] = c][e] = req[e]
    BY <1>3, <2>1, <2>2, RequestUpdate
  <2> QED
    BY <1>2, <2>2, <2>3
<1>6. drv[d].avail \in 0 .. IDX - 1 /\ drv[d].used \in 0 .. IDX - 1 /\ drv[d].used = drv[d].avail
  <2>1. Done(d)
    BY <1>1, <1>2 DEF Inv, QueuesOK
  <2> QED
    BY <2>1 DEF Inv, TypeOK, DriverType, Done
<1>7. (drv[d].avail + 1) % IDX \in 0 .. IDX - 1
  BY <1>6, Wraps
<1>8. TypeOK'
  <2>1. drv' \in [Devs -> DriverType]
    BY <1>2, <1>7, DriverUpdate DEF Inv, TypeOK
  <2>2. pc' \in [Threads -> Places]
    BY <1>2 DEF Inv, TypeOK, Places
  <2> QED
    BY <1>2, <1>5, <2>1, <2>2 DEF Inv, TypeOK
<1>9. /\ pc'[t] = "notify" /\ \A u \in Threads \ {t} : pc'[u] = pc[u]
      /\ drv'[d].avail = (drv[d].avail + 1) % IDX
      /\ \A e \in Devs \ {d} : drv'[e].avail = drv[e].avail
      /\ \A e \in Devs : drv'[e].lock = drv[e].lock /\ drv'[e].used = drv[e].used
                         /\ drv'[e].opened = drv[e].opened
  BY <1>2 DEF Inv, TypeOK, DriverType
<1>10. SourcesOK'
  BY <1>2, <1>9 DEF Inv, SourcesOK
<1>11. CallsOK'
  BY <1>2, <1>9 DEF Inv, CallsOK, CallOK
<1>12. \A u \in Threads \ {t} : pc[u] \in Holding => DevOf(u) # d
  BY <1>1, <1>2, OneHolder DEF Inv, Holding
<1>13. LocksOK'
  <2>1. \A u \in Threads : pc'[u] \in Holding => drv'[DevOf(u)'].lock = u
    BY <1>2, <1>4, <1>9 DEF Inv, LocksOK, Holding
  <2>2. ASSUME NEW e \in Devs, drv'[e].lock # NoThread
        PROVE  pc'[drv'[e].lock] \in Holding /\ DevOf(drv'[e].lock) = e
    <3>1. drv'[e].lock = drv[e].lock /\ drv[e].lock \in Threads
      BY <1>9, <2>2 DEF Inv, TypeOK, DriverType
    <3>2. pc[drv[e].lock] \in Holding /\ DevOf(drv[e].lock) = e
      BY <2>2, <3>1 DEF Inv, LocksOK
    <3> QED
      BY <1>9, <3>1, <3>2 DEF Holding
  <2>3. \A e \in Devs : drv'[e].lock # NoThread => DevOf(drv[e].lock)' = e
    BY <1>2, <2>2 DEF DevOf
  <2> QED
    BY <2>1, <2>2, <2>3 DEF LocksOK
<1>14. QueuesOK'
  <2>1. \A e \in Devs : dev'[e].resets = FALSE
    BY <1>2, Zenon DEF Inv, QueuesOK
  <2>2. ASSUME NEW e \in Devs \ {d}
        PROVE  /\ dev'[e].last = drv'[e].used
               /\ Done(e)' \/ (drv'[e].avail = (drv'[e].used + 1) % IDX /\ drv'[e].lock # NoThread)
    BY <1>2, <1>9 DEF Inv, QueuesOK, Done
  <2>3. /\ dev'[d].last = drv'[d].used
        /\ drv'[d].avail = (drv'[d].used + 1) % IDX /\ drv'[d].lock # NoThread
    <3>1. drv[d].lock = t
      BY <1>1, <1>2 DEF Inv, LocksOK, Holding
    <3> QED
      BY <1>2, <1>6, <1>9, <3>1, VirtioAssumption DEF Inv, QueuesOK
  <2>4. \A u \in Threads : pc'[u] = "fill" => Done(DevOf(u))'
    BY <1>2, <1>4, <1>9, <1>12 DEF Inv, QueuesOK, Done, Holding
  <2>5. ASSUME NEW u \in Threads, pc'[u] \in {"notify", "check", "wait"}
        PROVE  Requested(job'[u], req'[DevOf(u)])
    <3>1. CASE u = t
      BY <1>1, <1>2, <1>3, <1>5, <3>1
    <3>2. CASE u # t
      BY <1>2, <1>4, <1>5, <1>9, <1>12, <2>5, <3>2 DEF Inv, QueuesOK, Holding
    <3> QED
      BY <3>1, <3>2
  <2>6. \A u \in Threads : pc'[u] \in {"notify", "check", "wait"} =>
          Requested(job[u], req[DevOf(u)])'
    BY <1>4, <2>5
  <2> QED
    BY <2>1, <2>2, <2>3, <2>4, <2>6 DEF QueuesOK
<1> QED
  BY <1>8, <1>10, <1>11, <1>13, <1>14 DEF Inv

LEMMA GoOnInv ==
  ASSUME Inv, NEW t \in Threads, proceed(t), after(job[t], req[DevOf(t)]).left > 0
  PROVE  Inv'
<1>1. PICK d \in Devs : d = DevOf(t)
  BY DEF DevOf, Devs
<1>2. PICK j : j = after(job[t], req[DevOf(t)])
  OBVIOUS
<1>3. pc[t] = "check" /\ Done(d)
  BY <1>1 DEF proceed
<1>4. j \in CallType /\ j.op = job[t].op /\ j.op \in {"fetch", "store"} /\ j.left > 0
      /\ j.sec + j.left = job[t].sec + job[t].left
  BY <1>2, <1>3, AfterType DEF Inv
<1>5. d = "blk"
  BY <1>1, <1>4 DEF DevOf
<1>6. /\ job' = [job EXCEPT ![t] = j] /\ pc' = [pc EXCEPT ![t] = "fill"]
      /\ drv' = drv /\ req' = req /\ dev' = dev /\ disk' = disk /\ plic' = plic
      /\ panic' = panic /\ faults' = faults
  BY <1>1, <1>2, <1>4, <1>5 DEF proceed, hwVars
<1>7. /\ job'[t] = j /\ pc'[t] = "fill"
      /\ \A u \in Threads \ {t} : job'[u] = job[u] /\ pc'[u] = pc[u]
  BY <1>6 DEF Inv, TypeOK
<1>8. \A u \in Threads : DevOf(u)' = DevOf(u) /\ DevOf(u) \in Devs
  BY <1>4, <1>7 DEF DevOf, Devs
<1>9. TypeOK'
  BY <1>4, <1>6 DEF Inv, TypeOK, Places
<1>10. SourcesOK'
  BY <1>6 DEF Inv, SourcesOK
<1>11. CallsOK'
  <2>1. CallOK(t)'
    BY <1>3, <1>4, <1>7 DEF Inv, CallsOK, CallOK
  <2>2. \A u \in Threads \ {t} : CallOK(u)'
    BY <1>7 DEF Inv, CallsOK, CallOK
  <2> QED
    BY <2>1, <2>2 DEF CallsOK
<1>12. LocksOK'
  <2>1. \A u \in Threads : pc'[u] \in Holding => drv'[DevOf(u)'].lock = u
    BY <1>3, <1>6, <1>7, <1>8 DEF Inv, LocksOK, Holding
  <2>2. ASSUME NEW e \in Devs, drv'[e].lock # NoThread
        PROVE  pc'[drv'[e].lock] \in Holding /\ DevOf(drv[e].lock)' = e
    <3>1. drv[e].lock \in Threads
      BY <1>6, <2>2 DEF Inv, TypeOK, DriverType
    <3>2. pc[drv[e].lock] \in Holding /\ DevOf(drv[e].lock) = e
      BY <1>6, <2>2 DEF Inv, LocksOK
    <3>3. pc'[drv[e].lock] \in Holding
      BY <1>7, <3>1, <3>2 DEF Holding
    <3>4. DevOf(drv[e].lock)' = DevOf(drv[e].lock)
      BY <1>4, <1>6, <1>7, <3>1 DEF DevOf
    <3> QED
      BY <1>6, <3>2, <3>3, <3>4
  <2> QED
    BY <2>1, <2>2 DEF LocksOK
<1>13. QueuesOK'
  <2>1. \A e \in Devs : dev'[e].resets = FALSE
    BY <1>6, Zenon DEF Inv, QueuesOK
  <2>2. \A e \in Devs :
          /\ dev'[e].last = drv'[e].used
          /\ Done(e)' \/ (drv'[e].avail = (drv'[e].used + 1) % IDX /\ drv'[e].lock # NoThread)
    BY <1>6 DEF Inv, QueuesOK, Done
  <2>3. \A u \in Threads : pc'[u] = "fill" => Done(DevOf(u))'
    BY <1>1, <1>3, <1>6, <1>7, <1>8 DEF Inv, QueuesOK, Done
  <2>4. \A u \in Threads : pc'[u] \in {"notify", "check", "wait"} =>
          Requested(job[u], req[DevOf(u)])'
    BY <1>6, <1>7, <1>8 DEF Inv, QueuesOK
  <2> QED
    BY <2>1, <2>2, <2>3, <2>4 DEF QueuesOK
<1> QED
  BY <1>9, <1>10, <1>11, <1>12, <1>13 DEF Inv

LEMMA StaleBytes ==
  ASSUME NEW q \in [blk : BlockRequest, rng : EntropyRequest]
  PROVE  LET s == [q EXCEPT !.rng.data = [i \in DOMAIN @ |-> IF i <= q.rng.len THEN STALE ELSE @[i]]] IN
         s \in [blk : BlockRequest, rng : EntropyRequest] /\ s.rng.len = q.rng.len /\ s.blk = q.blk
<1> DEFINE b == [i \in DOMAIN q.rng.data |-> IF i <= q.rng.len THEN STALE ELSE q.rng.data[i]]
<1>1. q.rng \in EntropyRequest
  OBVIOUS
<1>2. b \in Bytes
  BY <1>1 DEF EntropyRequest, Bytes
<1> HIDE DEF b
<1>3. [q.rng EXCEPT !.data = b] \in EntropyRequest
  BY <1>1, <1>2 DEF EntropyRequest
<1>4. [q.rng EXCEPT !.data = b].len = q.rng.len
  BY <1>1 DEF EntropyRequest
<1> QED
  BY <1>3, <1>4 DEF b

LEMMA ReturnInv ==
  ASSUME Inv, NEW t \in Threads, proceed(t), ~(after(job[t], req[DevOf(t)]).left > 0)
  PROVE  Inv'
<1>1. PICK d \in Devs : d = DevOf(t)
  BY DEF DevOf, Devs
<1>2. pc[t] = "check" /\ Done(d) /\ drv[d].lock = t
  BY <1>1 DEF proceed, Inv, LocksOK, Holding
<1>3. /\ job' = [job EXCEPT ![t] = NoCall] /\ pc' = [pc EXCEPT ![t] = "user"]
      /\ drv' = [drv EXCEPT ![d].lock = NoThread]
      /\ dev' = dev /\ disk' = disk /\ plic' = plic /\ panic' = panic /\ faults' = faults
  BY <1>1 DEF proceed, hwVars
<1>4. /\ req' \in [blk : BlockRequest, rng : EntropyRequest]
      /\ \A e \in Devs \ {d} : req'[e] = req[e]
  <2>1. req \in [blk : BlockRequest, rng : EntropyRequest]
    BY DEF Inv, TypeOK
  <2>2. CASE d = "blk"
    BY <1>1, <2>1, <2>2 DEF proceed
  <2>3. CASE d # "blk"
    <3>1. req' = [req EXCEPT !.rng.data = [i \in DOMAIN @ |-> IF i <= req.rng.len THEN STALE ELSE @[i]]]
      BY <1>1, <2>3 DEF proceed
    <3>2. req' \in [blk : BlockRequest, rng : EntropyRequest] /\ req'.blk = req.blk
      BY <2>1, <3>1, StaleBytes
    <3> QED
      BY <2>3, <3>2 DEF Devs
  <2> QED
    BY <2>2, <2>3
<1>5. /\ job'[t] = NoCall /\ pc'[t] = "user"
      /\ \A u \in Threads \ {t} : job'[u] = job[u] /\ pc'[u] = pc[u]
      /\ drv'[d].lock = NoThread
      /\ \A e \in Devs \ {d} : drv'[e].lock = drv[e].lock
      /\ \A e \in Devs : drv'[e].avail = drv[e].avail /\ drv'[e].used = drv[e].used
                         /\ drv'[e].opened = drv[e].opened
  BY <1>3 DEF Inv, TypeOK, DriverType
<1>6. \A u \in Threads \ {t} : DevOf(u)' = DevOf(u) /\ DevOf(u) \in Devs
  BY <1>5 DEF DevOf, Devs
<1>7. TypeOK'
  <2>1. drv' \in [Devs -> DriverType]
    BY <1>3, DriverUpdate DEF Inv, TypeOK
  <2>2. pc' \in [Threads -> Places] /\ job' \in [Threads -> CallType]
    BY <1>3, NoCallType DEF Inv, TypeOK, Places
  <2> QED
    BY <1>3, <1>4, <2>1, <2>2 DEF Inv, TypeOK
<1>8. SourcesOK'
  BY <1>3, <1>5 DEF Inv, SourcesOK
<1>9. CallsOK'
  <2>1. CallOK(t)'
    BY <1>5 DEF CallOK, NoCall
  <2>2. \A u \in Threads \ {t} : CallOK(u)'
    BY <1>5 DEF Inv, CallsOK, CallOK
  <2> QED
    BY <2>1, <2>2 DEF CallsOK
<1>10. \A u \in Threads \ {t} : pc[u] \in Holding => DevOf(u) # d
  BY <1>1, <1>2, OneHolder DEF Inv, Holding
<1>11. LocksOK'
  <2>1. \A u \in Threads : pc'[u] \in Holding => drv'[DevOf(u)'].lock = u
    BY <1>5, <1>6, <1>10 DEF Inv, LocksOK, Holding
  <2>2. ASSUME NEW e \in Devs, drv'[e].lock # NoThread
        PROVE  pc'[drv'[e].lock] \in Holding /\ DevOf(drv[e].lock)' = e
    <3>1. e # d /\ drv'[e].lock = drv[e].lock /\ drv[e].lock \in Threads
      BY <1>5, <2>2 DEF Inv, TypeOK, DriverType
    <3>2. pc[drv[e].lock] \in Holding /\ DevOf(drv[e].lock) = e
      BY <2>2, <3>1 DEF Inv, LocksOK
    <3>3. drv[e].lock # t
      BY <1>1, <3>1, <3>2
    <3>4. DevOf(drv'[e].lock) = e /\ pc'[drv'[e].lock] \in Holding
      BY <1>5, <3>1, <3>2, <3>3
    <3>5. job'[drv'[e].lock] = job[drv'[e].lock]
      BY <1>5, <3>1, <3>3
    <3> QED
      BY <3>4, <3>5 DEF DevOf
  <2> QED
    BY <2>1, <2>2 DEF LocksOK
<1>12. QueuesOK'
  <2>1. \A e \in Devs : dev'[e].resets = FALSE
    BY <1>3, Zenon DEF Inv, QueuesOK
  <2>2. ASSUME NEW e \in Devs
        PROVE  /\ dev'[e].last = drv'[e].used
               /\ Done(e)' \/ (drv'[e].avail = (drv'[e].used + 1) % IDX /\ drv'[e].lock # NoThread)
    BY <1>2, <1>3, <1>5 DEF Inv, QueuesOK, Done
  <2>3. \A u \in Threads : pc'[u] = "fill" => Done(DevOf(u))'
    BY <1>3, <1>5, <1>6 DEF Inv, QueuesOK, Done
  <2>4. \A u \in Threads : pc'[u] \in {"notify", "check", "wait"} =>
          Requested(job[u], req[DevOf(u)])'
    BY <1>4, <1>5, <1>6, <1>10 DEF Inv, QueuesOK, Holding
  <2> QED
    BY <2>1, <2>2, <2>3, <2>4 DEF QueuesOK
<1> QED
  BY <1>7, <1>8, <1>9, <1>11, <1>12 DEF Inv

---------------------------------------------------------------------------
(* The devices.                                                            *)

(* A request the device can serve belongs to the holder of the lock.       *)
LEMMA Outstanding ==
  ASSUME Inv, NEW d \in Devs, CanServe(d)
  PROVE  /\ ~Done(d) /\ dev[d].last = drv[d].used /\ drv[d].avail = (drv[d].used + 1) % IDX
         /\ \E t \in Threads : /\ drv[d].lock = t /\ pc[t] \in Waiting /\ DevOf(t) = d
                               /\ Requested(job[t], req[d])
<1>1. dev[d].last = drv[d].used /\ ~Done(d)
  BY DEF CanServe, Inv, QueuesOK, Done
<1>2. drv[d].avail = (drv[d].used + 1) % IDX /\ drv[d].lock # NoThread
  BY <1>1 DEF Inv, QueuesOK
<1>3. PICK t \in Threads : drv[d].lock = t
  BY <1>2 DEF Inv, TypeOK, DriverType
<1>4. pc[t] \in Holding /\ DevOf(t) = d
  BY <1>2, <1>3 DEF Inv, LocksOK
<1>5. pc[t] \in Waiting
  BY <1>1, <1>4 DEF Inv, QueuesOK, Holding, Waiting
<1>6. Requested(job[t], req[d])
  BY <1>4, <1>5 DEF Inv, QueuesOK, Waiting
<1> QED
  BY <1>1, <1>2, <1>3, <1>4, <1>5, <1>6

LEMMA ServeInv ==
  ASSUME Inv, NEW d \in Devs, NEW r, NEW status, serve(d, r, status),
         disk' \in [Secs -> Vals], faults' \in Nat,
         d = "blk" => [r EXCEPT !.status = status] \in BlockRequest,
         d = "rng" => [r EXCEPT !.status = status] \in EntropyRequest,
         \A t \in Threads : drv[d].lock = t => Requested(job[t], [r EXCEPT !.status = status])
  PROVE  Inv'
<1>1. PICK q : q = [r EXCEPT !.status = status]
  OBVIOUS
<1>2. /\ CanServe(d)
      /\ drv' = [drv EXCEPT ![d].used = (dev[d].last + 1) % IDX]
      /\ dev' = [dev EXCEPT ![d].last = (dev[d].last + 1) % IDX, ![d].late = TRUE]
      /\ req' = [req EXCEPT ![d] = q]
      /\ plic' = plic /\ panic' = panic /\ pc' = pc /\ job' = job
  BY <1>1 DEF serve
<1>3. /\ ~Done(d) /\ dev[d].last = drv[d].used /\ drv[d].avail = (drv[d].used + 1) % IDX
  BY <1>2, Outstanding
<1>4. req' \in [blk : BlockRequest, rng : EntropyRequest] /\ req'[d] = q
      /\ \A e \in Devs \ {d} : req'[e] = req[e]
  <2>1. req \in [blk : BlockRequest, rng : EntropyRequest]
    BY DEF Inv, TypeOK
  <2>2. (d = "blk" => q \in BlockRequest) /\ (d = "rng" => q \in EntropyRequest)
    BY <1>1
  <2>3. /\ [req EXCEPT ![d] = q] \in [blk : BlockRequest, rng : EntropyRequest]
        /\ [req EXCEPT ![d] = q][d] = q
        /\ \A e \in Devs \ {d} : [req EXCEPT ![d] = q][e] = req[e]
    BY <2>1, <2>2, RequestUpdate
  <2> QED
    BY <1>2, <2>3
<1>5. PICK n \in 0 .. IDX - 1 : n = (dev[d].last + 1) % IDX
  <2>1. dev[d].last \in 0 .. IDX - 1
    BY DEF Inv, TypeOK, DeviceType
  <2> QED
    BY <2>1, Wraps
<1>6. TypeOK'
  <2>1. drv' \in [Devs -> DriverType]
    BY <1>2, <1>5, DriverUpdate DEF Inv, TypeOK
  <2>2. dev' = [dev EXCEPT ![d].last = n, ![d].late = TRUE]
    BY <1>2, <1>5
  <2>3. dev' \in [Devs -> DeviceType]
    BY <2>2, DeviceUpdate, Zenon DEF Inv, TypeOK
  <2> QED
    BY <1>2, <1>4, <2>1, <2>3 DEF Inv, TypeOK
<1>7. /\ drv'[d].used = n /\ dev'[d].last = n
      /\ \A e \in Devs \ {d} : drv'[e].used = drv[e].used /\ dev'[e].last = dev[e].last
      /\ \A e \in Devs : /\ drv'[e].avail = drv[e].avail /\ drv'[e].lock = drv[e].lock
                         /\ drv'[e].opened = drv[e].opened
                         /\ dev'[e].resets = dev[e].resets
  BY <1>2, <1>5 DEF Inv, TypeOK, DriverType, DeviceType
<1>8. SourcesOK'
  BY <1>2, <1>7 DEF Inv, SourcesOK
<1>9. CallsOK'
  BY <1>2, CallsKept DEF Inv
<1>10. LocksOK'
  BY <1>2, <1>7, LocksKept DEF Inv
<1>11. \A u \in Threads : DevOf(u)' = DevOf(u) /\ DevOf(u) \in Devs
  BY <1>2 DEF DevOf, Devs
<1>12. QueuesOK'
  <2>1. \A e \in Devs : dev'[e].resets = FALSE
    BY <1>7, Zenon DEF Inv, QueuesOK
  <2>2. ASSUME NEW e \in Devs
        PROVE  /\ dev'[e].last = drv'[e].used
               /\ Done(e)' \/ (drv'[e].avail = (drv'[e].used + 1) % IDX /\ drv'[e].lock # NoThread)
    <3>1. CASE e = d
      BY <1>3, <1>5, <1>7, <3>1 DEF Done
    <3>2. CASE e # d
      BY <1>7, <3>2 DEF Inv, QueuesOK, Done
    <3> QED
      BY <3>1, <3>2
  <2>3. \A u \in Threads : pc'[u] = "fill" => Done(DevOf(u))'
    BY <1>2, <1>3, <1>7, <1>11 DEF Inv, QueuesOK, Done
  <2>4. ASSUME NEW u \in Threads, pc'[u] \in {"notify", "check", "wait"}
        PROVE  Requested(job'[u], req'[DevOf(u)])
    <3>1. CASE DevOf(u) = d
      <4>1. drv[d].lock = u
        BY <1>2, <2>4, <3>1 DEF Inv, LocksOK, Holding
      <4> QED
        BY <1>1, <1>2, <1>4, <3>1, <4>1
    <3>2. CASE DevOf(u) # d
      BY <1>2, <1>4, <1>11, <2>4, <3>2 DEF Inv, QueuesOK
    <3> QED
      BY <3>1, <3>2
  <2>5. \A u \in Threads : pc'[u] \in {"notify", "check", "wait"} =>
          Requested(job[u], req[DevOf(u)])'
    BY <1>11, <2>4
  <2> QED
    BY <2>1, <2>2, <2>3, <2>5 DEF QueuesOK
<1> QED
  BY <1>6, <1>8, <1>9, <1>10, <1>12 DEF Inv

(* The request of a block call names a sector of the device.               *)
LEMMA SectorRequested ==
  ASSUME Inv, CanServe("blk")
  PROVE  /\ req.blk \in BlockRequest /\ req.blk.sector \in Secs
         /\ \A t \in Threads : drv["blk"].lock = t =>
              /\ DevOf(t) = "blk" /\ Requested(job[t], req.blk)
              /\ req.blk.type = "IN" => job[t].op = "fetch"
              /\ req.blk.type = "OUT" => job[t].op = "store"
<1>1. "blk" \in Devs /\ req.blk \in BlockRequest
  BY DEF Devs, Inv, TypeOK
<1>2. PICK t \in Threads : /\ drv["blk"].lock = t /\ pc[t] \in Waiting /\ DevOf(t) = "blk"
                           /\ Requested(job[t], req.blk)
  BY <1>1, Outstanding
<1>3. job[t] \in CallType /\ job[t].op \in {"fetch", "store"} /\ job[t].left > 0
      /\ job[t].sec + job[t].left <= Sectors
  BY <1>2 DEF Inv, TypeOK, CallsOK, CallOK, CallType, Ops, DevOf, Waiting
<1>4. req.blk.sector = job[t].sec
      /\ (req.blk.type = "IN" => job[t].op = "fetch")
      /\ (req.blk.type = "OUT" => job[t].op = "store")
  BY <1>2, <1>3 DEF Requested
<1>5. Sectors \in Nat
  <2>1. SECSZ \in Nat /\ SECSZ > 0 /\ CAPACITY \in Nat
    BY VirtioAssumption
  <2> QED
    BY <2>1, Division DEF Sectors
<1>6. req.blk.sector \in Secs
  BY <1>3, <1>4, <1>5 DEF Secs, Sectors, CallType
<1> QED
  BY <1>1, <1>2, <1>4, <1>6

LEMMA ServeOkInv ==
  ASSUME Inv, NEW d \in Devs, serve_ok(d)
  PROVE  Inv'
<1>1. faults' \in Nat
  BY DEF serve_ok, Inv, TypeOK
<1>2. CASE d = "rng"
  <2> DEFINE r == [req.rng EXCEPT !.data = [i \in DOMAIN @ |-> IF i <= req.rng.len THEN FRESH ELSE @[i]]]
             b == [i \in DOMAIN req.rng.data |-> IF i <= req.rng.len THEN FRESH ELSE req.rng.data[i]]
  <2>1. serve(d, r, "OK") /\ disk' = disk
    BY <1>2 DEF serve_ok
  <2>2. req.rng \in EntropyRequest
    BY DEF Inv, TypeOK
  <2>3. b \in Bytes
    BY <2>2 DEF EntropyRequest, Bytes
  <2>4. r = [req.rng EXCEPT !.data = b]
    OBVIOUS
  <2> HIDE DEF b
  <2>5. r \in EntropyRequest /\ r.len = req.rng.len
    BY <2>2, <2>3, <2>4 DEF EntropyRequest
  <2> HIDE DEF r
  <2>6. [r EXCEPT !.status = "OK"] \in EntropyRequest /\ [r EXCEPT !.status = "OK"].len = req.rng.len
    BY <2>5 DEF EntropyRequest
  <2>7. \A t \in Threads : drv[d].lock = t => Requested(job[t], [r EXCEPT !.status = "OK"])
    <3> TAKE t \in Threads
    <3> HAVE drv[d].lock = t
    <3>1. DevOf(t) = "rng" /\ Requested(job[t], req.rng)
      BY <1>2, <2>1, Outstanding DEF serve
    <3>2. job[t].op = "recv"
      BY <3>1 DEF DevOf
    <3> QED
      BY <2>6, <3>1, <3>2 DEF Requested
  <2>8. disk' \in [Secs -> Vals]
    BY <2>1 DEF Inv, TypeOK
  <2> QED
    BY <1>1, <1>2, <2>1, <2>6, <2>7, <2>8, ServeInv
<1>3. CASE d = "blk" /\ req.blk.type = "IN"
  <2> DEFINE r == [req.blk EXCEPT !.data = disk[req.blk.sector]]
  <2>1. serve(d, r, "OK") /\ disk' = disk
    BY <1>3 DEF serve_ok
  <2>2. CanServe("blk")
    BY <1>3, <2>1 DEF serve
  <2>3. req.blk \in BlockRequest /\ disk[req.blk.sector] \in Vals
    BY <2>2, SectorRequested DEF Inv, TypeOK
  <2>4. [r EXCEPT !.status = "OK"] \in BlockRequest /\ [r EXCEPT !.status = "OK"].type = "IN"
        /\ [r EXCEPT !.status = "OK"].sector = req.blk.sector
    BY <1>3, <2>3 DEF BlockRequest
  <2> HIDE DEF r
  <2>5. \A t \in Threads : drv[d].lock = t => Requested(job[t], [r EXCEPT !.status = "OK"])
    BY <1>3, <2>2, <2>4, SectorRequested DEF Requested
  <2>6. disk' \in [Secs -> Vals]
    BY <2>1 DEF Inv, TypeOK
  <2> QED
    BY <1>1, <1>3, <2>1, <2>4, <2>5, <2>6, ServeInv
<1>4. CASE d = "blk" /\ req.blk.type = "OUT"
  <2> DEFINE r == req.blk
  <2>1. serve(d, r, "OK") /\ disk' = [disk EXCEPT ![req.blk.sector] = req.blk.data]
    BY <1>4 DEF serve_ok
  <2>2. CanServe("blk")
    BY <1>4, <2>1 DEF serve
  <2>3. req.blk \in BlockRequest /\ req.blk.sector \in Secs /\ req.blk.data \in Vals
    BY <2>2, SectorRequested DEF BlockRequest
  <2>4. [r EXCEPT !.status = "OK"] \in BlockRequest /\ [r EXCEPT !.status = "OK"].type = "OUT"
        /\ [r EXCEPT !.status = "OK"].sector = req.blk.sector
        /\ [r EXCEPT !.status = "OK"].data = req.blk.data
    BY <1>4, <2>3 DEF BlockRequest
  <2>5. \A t \in Threads : drv[d].lock = t => Requested(job[t], [r EXCEPT !.status = "OK"])
    BY <1>4, <2>2, <2>4, SectorRequested DEF Requested
  <2>6. disk' \in [Secs -> Vals]
    BY <2>1, <2>3 DEF Inv, TypeOK
  <2> QED
    BY <1>1, <1>4, <2>1, <2>4, <2>5, <2>6, ServeInv
<1> QED
  <2>1. d = "rng" \/ d = "blk"
    BY DEF Devs
  <2>2. req.blk.type \in {"IN", "OUT"}
    BY DEF Inv, TypeOK, BlockRequest
  <2> QED
    BY <1>2, <1>3, <1>4, <2>1, <2>2

LEMMA ServeErrorInv ==
  ASSUME Inv, serve_error
  PROVE  Inv'
<1> DEFINE d == "blk"
<1>1. faults' \in Nat
  BY DEF serve_error, Inv, TypeOK
<1>2. CASE req.blk.type = "IN"
  <2>1. PICK v \in Vals : serve(d, [req.blk EXCEPT !.data = v], "IOERR")
    BY <1>2 DEF serve_error
  <2>2. disk' = disk
    BY <1>2 DEF serve_error
  <2>3. CanServe("blk")
    BY <2>1 DEF serve
  <2> DEFINE r == [req.blk EXCEPT !.data = v]
  <2>4. req.blk \in BlockRequest
    BY <2>3, SectorRequested
  <2>5. [r EXCEPT !.status = "IOERR"] \in BlockRequest /\ [r EXCEPT !.status = "IOERR"].type = "IN"
        /\ [r EXCEPT !.status = "IOERR"].sector = req.blk.sector
    BY <1>2, <2>4 DEF BlockRequest
  <2>6. serve(d, r, "IOERR")
    BY <2>1
  <2> HIDE DEF r
  <2>7. \A t \in Threads : drv[d].lock = t => Requested(job[t], [r EXCEPT !.status = "IOERR"])
    BY <1>2, <2>3, <2>5, SectorRequested DEF Requested
  <2>8. disk' \in [Secs -> Vals]
    BY <2>2 DEF Inv, TypeOK
  <2> QED
    BY <1>1, <2>5, <2>6, <2>7, <2>8, ServeInv DEF Devs
<1>3. CASE req.blk.type # "IN"
  <2>1. serve(d, req.blk, "IOERR") /\ (disk' = disk \/ disk' = [disk EXCEPT ![req.blk.sector] = req.blk.data])
    BY <1>3 DEF serve_error
  <2>2. CanServe("blk")
    BY <2>1 DEF serve
  <2>3. req.blk \in BlockRequest /\ req.blk.sector \in Secs /\ req.blk.data \in Vals /\ req.blk.type = "OUT"
    BY <1>3, <2>2, SectorRequested DEF BlockRequest
  <2>4. [req.blk EXCEPT !.status = "IOERR"] \in BlockRequest
        /\ [req.blk EXCEPT !.status = "IOERR"].type = "OUT"
        /\ [req.blk EXCEPT !.status = "IOERR"].sector = req.blk.sector
        /\ [req.blk EXCEPT !.status = "IOERR"].data = req.blk.data
    BY <2>3 DEF BlockRequest
  <2>5. \A t \in Threads : drv[d].lock = t => Requested(job[t], [req.blk EXCEPT !.status = "IOERR"])
    BY <2>2, <2>3, <2>4, SectorRequested DEF Requested
  <2>6. disk' \in [Secs -> Vals]
    BY <2>1, <2>3 DEF Inv, TypeOK
  <2> QED
    BY <1>1, <2>1, <2>4, <2>5, <2>6, ServeInv DEF Devs
<1> QED
  BY <1>2, <1>3

---------------------------------------------------------------------------
LEMMA NextInv == Inv /\ [Next]_vars => Inv'
<1> SUFFICES ASSUME Inv, [Next]_vars PROVE Inv'
  OBVIOUS
<1>0. "blk" \in Devs /\ "rng" \in Devs
  BY DEF Devs
<1>1. CASE vioblk_storage_open \/ viorng_serial_open
  BY <1>0, <1>1, OpenStartInv, OpenEndInv DEF vioblk_storage_open, viorng_serial_open
<1>2. CASE vioblk_storage_close \/ viorng_serial_close
  BY <1>0, <1>2, CloseStartInv, CloseEndInv DEF vioblk_storage_close, viorng_serial_close
<1>3. CASE \E d \in Devs : serve_ok(d) \/ served_all(d) \/ raise(d) \/ handle_extern_interrupt(d)
  BY <1>3, ServeOkInv, ServedAllInv, RaiseInv, HandlerInv
<1>4. CASE serve_error
  BY <1>4, ServeErrorInv
<1>5. CASE vioblk_isr \/ viorng_isr
  BY <1>0, <1>5, StatusInv, AckInv, WakeInv DEF vioblk_isr, viorng_isr
<1>6. ASSUME NEW t \in Threads, NEW r \in Ranges,
             \/ vioblk_storage_fetch(t, r[1], r[2])
             \/ \E v \in Vals \ {0} : vioblk_storage_store(t, r[1], r[2], v)
             \/ viorng_serial_recv(t, r[2])
      PROVE  Inv'
  <2>1. r[1] \in Nat /\ r[2] \in Nat /\ 0 \in Vals
    BY VirtioAssumption
  <2> QED
    BY <1>6, <2>1, BlockCallInv, RecvInv DEF vioblk_storage_fetch, vioblk_storage_store
<1>7. ASSUME NEW t \in Threads,
             locked(t) \/ fill(t) \/ virtio_notify_avail(t) \/ wait(t) \/ proceed(t)
      PROVE  Inv'
  BY <1>7, LockedInv, FillInv, NotifyInv, WaitInv, GoOnInv, ReturnInv
<1>8. CASE UNCHANGED vars
  <2>1. TypeOK' /\ SourcesOK'
    BY <1>8 DEF vars, Inv, TypeOK, SourcesOK
  <2> QED
    BY <1>8, <2>1, QuietInv DEF vars
<1> QED
  BY <1>1, <1>2, <1>3, <1>4, <1>5, <1>6, <1>7, <1>8 DEF Next

(* The invariant holds in every reachable state.                           *)
THEOREM Invariance == Spec => []Inv
BY InitInv, NextInv, PTL DEF Spec

(* handle_extern_interrupt never finds isrtab[srcno].isr NULL, whichever   *)
(* device interrupts while it or the other is being opened or closed       *)
(* (intr.c:77-90, 124).                                                    *)
THEOREM HandledInterrupts == Spec => []InterruptsHandled
<1>1. Inv => InterruptsHandled
  BY DEF Inv, SourcesOK, InterruptsHandled
<1> QED
  BY <1>1, Invariance, PTL

---------------------------------------------------------------------------
(* Refinement: what the mapping of Virtio makes of the state.              *)

openedT == {d \in Devs : drv[d].opened \in {"yes", "closing"}}
CallT(t) == IF Served(t) THEN after(job[t], req[DevOf(t)]) ELSE job[t]
jobT == [t \in Threads |-> CallT(t)]

LEMMA InitT == Init => T!Init
<1> SUFFICES ASSUME Init PROVE T!Init
  OBVIOUS
<1>1. PICK board \in Boards : drv = [d \in Devs |-> driver(attach_virtio(board, d))]
  BY DEF Init
<1>2. openedT = {}
  BY <1>1 DEF openedT, driver
<1>3. jobT = [t \in Threads |-> NoCall]
  BY DEF jobT, CallT, Served, Init
<1>4. disk \in [Secs -> Vals] /\ faults = 0
  BY VirtioAssumption DEF Init
<1> QED
  BY <1>2, <1>3, <1>4 DEF T!Init, openedT, jobT, CallT, T!NoCall, NoCall, T!Secs, Secs

LEMMA StutterT ==
  ASSUME openedT' = openedT, disk' = disk, jobT' = jobT, faults' = faults
  PROVE  UNCHANGED T!vars
BY DEF T!vars, openedT, jobT, CallT

LEMMA SameCalls ==
  ASSUME \A t \in Threads : CallT(t)' = CallT(t)
  PROVE  jobT' = jobT
BY DEF jobT

LEMMA OneCall ==
  ASSUME NEW t \in Threads, NEW j, CallT(t)' = j,
         \A u \in Threads \ {t} : CallT(u)' = CallT(u)
  PROVE  jobT' = [jobT EXCEPT ![t] = j]
BY DEF jobT

LEMMA SameCall ==
  ASSUME NEW t, job'[t] = job[t], req'[DevOf(t)] = req[DevOf(t)], Served(t)' <=> Served(t)
  PROVE  CallT(t)' = CallT(t)
<1>1. DevOf(t)' = DevOf(t)
  BY DEF DevOf
<1>2. req'[DevOf(t)'] = req[DevOf(t)]
  BY <1>1
<1>3. CASE Served(t)
  BY <1>1, <1>3 DEF CallT
<1>4. CASE ~Served(t)
  BY <1>4 DEF CallT
<1> QED
  BY <1>3, <1>4

(* A step that leaves the calls, the requests and the indexes alone and    *)
(* moves threads only between the places of the wait changes no call.      *)
LEMMA QuietCalls ==
  ASSUME job' = job, req' = req,
         \A d \in Devs : drv'[d].avail = drv[d].avail /\ drv'[d].used = drv[d].used,
         \A t \in Threads : pc'[t] = pc[t] \/ (pc[t] \in Waiting /\ pc'[t] \in Waiting)
  PROVE  jobT' = jobT
<1>1. ASSUME NEW t \in Threads
      PROVE  CallT(t)' = CallT(t)
  <2>1. DevOf(t)' = DevOf(t) /\ DevOf(t) \in Devs
    BY DEF DevOf, Devs
  <2>2. Served(t)' <=> Served(t)
    BY <2>1 DEF Served, Done, Waiting
  <2> QED
    BY <2>2, SameCall
<1> QED
  BY <1>1, SameCalls

LEMMA DriverSteps ==
  ASSUME Inv, NEW d \in Devs,
         \/ open_start(d) \/ open_end(d) \/ close_start(d) \/ close_end(d)
  PROVE  [T!Next]_(T!vars)
<1> USE DEF open_start, open_end, close_start, close_end
<1>1. /\ \A e \in Devs : drv'[e].avail = drv[e].avail /\ drv'[e].used = drv[e].used
      /\ \A e \in Devs \ {d} : drv'[e].opened = drv[e].opened
  BY DEF Inv, TypeOK, DriverType
<1>2. jobT' = jobT /\ disk' = disk /\ faults' = faults
  BY <1>1, QuietCalls
<1>3. CASE open_start(d) \/ close_start(d)
  <2>1. drv'[d].opened \in {"yes", "closing"} <=> drv[d].opened \in {"yes", "closing"}
    BY <1>3 DEF Inv, TypeOK, DriverType
  <2>2. openedT' = openedT
    BY <1>1, <2>1 DEF openedT
  <2> QED
    BY <1>2, <2>2, StutterT
<1>4. CASE open_end(d)
  <2>1. drv'[d].opened = "yes"
    BY <1>4 DEF Inv, TypeOK, DriverType
  <2>2. openedT' = openedT \cup {d}
    BY <1>1, <2>1 DEF openedT
  <2>3. T!Open
    BY <1>2, <2>2 DEF T!Open, openedT, jobT, CallT, Devs
  <2> QED
    BY <2>3 DEF T!Next
<1>5. CASE close_end(d)
  <2>1. drv'[d].opened = "no"
    BY <1>5 DEF Inv, TypeOK, DriverType
  <2>2. openedT' = openedT \ {d}
    BY <1>1, <2>1 DEF openedT
  <2>3. T!Close
    BY <1>2, <2>2 DEF T!Close, openedT, jobT, CallT, Devs
  <2> QED
    BY <2>3 DEF T!Next
<1> QED
  BY <1>3, <1>4, <1>5

(* Steps of the interrupt path and of the wait are not seen.               *)
LEMMA HiddenSteps ==
  ASSUME Inv,
         \/ \E d \in Devs : served_all(d) \/ raise(d) \/ handle_extern_interrupt(d)
         \/ vioblk_isr \/ viorng_isr
         \/ \E t \in Threads : virtio_notify_avail(t) \/ wait(t)
  PROVE  UNCHANGED T!vars
<1>1. drv' = drv /\ job' = job /\ req' = req /\ disk' = disk /\ faults' = faults
  BY DEF served_all, raise, handle_extern_interrupt, vioblk_isr, viorng_isr, isr_status,
         isr_ack, isr_wake, virtio_notify_avail, wait, hwVars
<1>2. \A t \in Threads : pc'[t] = pc[t] \/ (pc[t] \in Waiting /\ pc'[t] \in Waiting)
  <2>1. CASE \E d \in Devs : served_all(d) \/ raise(d) \/ handle_extern_interrupt(d)
    BY <2>1 DEF served_all, raise, handle_extern_interrupt
  <2>2. CASE vioblk_isr \/ viorng_isr
    BY <2>2 DEF vioblk_isr, viorng_isr, isr_status, isr_ack, isr_wake, Waiting
  <2>3. CASE \E t \in Threads : virtio_notify_avail(t) \/ wait(t)
    BY <2>3 DEF virtio_notify_avail, wait, Inv, TypeOK, Waiting
  <2> QED
    BY <2>1, <2>2, <2>3
<1>3. jobT' = jobT
  BY <1>1, <1>2, QuietCalls
<1>4. openedT' = openedT
  BY <1>1 DEF openedT
<1> QED
  BY <1>1, <1>3, <1>4, StutterT

(* lock_acquire and the filling of a request are not seen either.          *)
LEMMA LockedStep ==
  ASSUME Inv, NEW t \in Threads, locked(t)
  PROVE  UNCHANGED T!vars
<1>1. DevOf(t) \in Devs
  BY DEF DevOf, Devs
<1>2. /\ \A e \in Devs : drv'[e].avail = drv[e].avail /\ drv'[e].used = drv[e].used
                         /\ drv'[e].opened = drv[e].opened
      /\ job' = job /\ req' = req /\ disk' = disk /\ faults' = faults
      /\ pc[t] = "lock" /\ pc'[t] = "fill" /\ \A u \in Threads \ {t} : pc'[u] = pc[u]
  BY <1>1 DEF locked, hwVars, Inv, TypeOK, DriverType
<1>3. ASSUME NEW u \in Threads
      PROVE  CallT(u)' = CallT(u)
  <2>1. DevOf(u)' = DevOf(u) /\ DevOf(u) \in Devs
    BY <1>2 DEF DevOf, Devs
  <2>2. Served(u)' <=> Served(u)
    BY <1>2, <2>1 DEF Served, Done
  <2> QED
    BY <1>2, <2>2, SameCall
<1>4. openedT' = openedT
  BY <1>2 DEF openedT
<1> QED
  BY <1>2, <1>3, <1>4, SameCalls, StutterT

LEMMA FillStep ==
  ASSUME Inv, NEW t \in Threads, fill(t)
  PROVE  UNCHANGED T!vars
<1>1. PICK d \in Devs : d = DevOf(t)
  BY DEF DevOf, Devs
<1>2. /\ \A e \in Devs \ {d} : drv'[e].avail = drv[e].avail
      /\ drv'[d].avail = (drv[d].avail + 1) % IDX
      /\ \A e \in Devs : drv'[e].used = drv[e].used /\ drv'[e].opened = drv[e].opened
      /\ job' = job /\ disk' = disk /\ faults' = faults
      /\ pc[t] = "fill" /\ pc'[t] = "notify" /\ \A u \in Threads \ {t} : pc'[u] = pc[u]
  BY <1>1 DEF fill, hwVars, Inv, TypeOK, DriverType
<1>3. \A e \in Devs \ {d} : req'[e] = req[e]
  BY <1>1 DEF fill, Inv, TypeOK, Devs
<1>4. drv[d].avail \in 0 .. IDX - 1 /\ drv[d].used = drv[d].avail
  BY <1>1, <1>2 DEF Inv, QueuesOK, Done, TypeOK, DriverType
<1>5. \A u \in Threads \ {t} : pc[u] \in Holding => DevOf(u) # d
  BY <1>1, <1>2, OneHolder DEF Inv, Holding
<1>6. ASSUME NEW u \in Threads
      PROVE  CallT(u)' = CallT(u)
  <2>1. DevOf(u)' = DevOf(u) /\ DevOf(u) \in Devs
    BY <1>2 DEF DevOf, Devs
  <2>2. CASE u = t
    <3>1. ~Served(t) /\ ~Served(t)'
      BY <1>1, <1>2, <1>4, <2>1, <2>2, Wraps DEF Served, Done
    <3> QED
      BY <1>2, <2>2, <3>1 DEF CallT
  <2>3. CASE u # t /\ pc[u] \in Holding
    <3>1. Served(u)' <=> Served(u)
      BY <1>2, <1>5, <2>1, <2>3 DEF Served, Done
    <3> QED
      BY <1>2, <1>3, <1>5, <2>1, <2>3, <3>1, SameCall
  <2>4. CASE u # t /\ pc[u] \notin Holding
    <3>1. ~Served(u) /\ ~Served(u)'
      BY <1>2, <2>4 DEF Served, Holding
    <3> QED
      BY <1>2, <3>1 DEF CallT
  <2> QED
    BY <2>2, <2>3, <2>4
<1>7. openedT' = openedT
  BY <1>2 DEF openedT
<1> QED
  BY <1>2, <1>6, <1>7, SameCalls, StutterT

(* A call that enters is the only one that changes.                        *)
LEMMA EnterStep ==
  ASSUME Inv, NEW t \in Threads, pc[t] = "user", NEW j, enter(t, j)
  PROVE  /\ jobT' = [jobT EXCEPT ![t] = j] /\ jobT[t].op = "none"
         /\ openedT' = openedT /\ disk' = disk /\ faults' = faults
<1>1. /\ drv' = drv /\ req' = req /\ disk' = disk /\ faults' = faults
      /\ job'[t] = j /\ pc'[t] \in {"user", "lock"}
      /\ \A u \in Threads \ {t} : pc'[u] = pc[u] /\ job'[u] = job[u]
  BY DEF enter, hwVars, Inv, TypeOK
<1>2. ~Served(t) /\ ~Served(t)'
  BY <1>1 DEF Served
<1>3. jobT[t].op = "none"
  BY <1>2 DEF jobT, CallT, Inv, CallsOK, CallOK
<1>4. CallT(t)' = j
  BY <1>1, <1>2 DEF CallT
<1>5. ASSUME NEW u \in Threads \ {t}
      PROVE  CallT(u)' = CallT(u)
  <2>1. DevOf(u)' = DevOf(u)
    BY <1>1 DEF DevOf
  <2>2. Served(u)' <=> Served(u)
    BY <1>1, <2>1 DEF Served, Done
  <2> QED
    BY <1>1, <2>2, SameCall
<1> QED
  BY <1>1, <1>3, <1>4, <1>5, OneCall DEF openedT

LEMMA BlockStep ==
  ASSUME Inv, NEW t \in Threads, NEW op, NEW pos \in Nat, NEW n \in Nat,
         NEW v, block_call(t, op, pos, n, v)
  PROVE  T!Block(t, op, pos, n, v)
<1> DEFINE k == transfer_size(pos, n)
           j == [op |-> op, sec |-> pos \div SECSZ, left |-> k \div SECSZ, val |-> v,
                 buf |-> <<>>, ret |-> k]
           w == T!Whole(pos, n)
           jw == [op |-> op, sec |-> pos \div SECSZ, left |-> w \div SECSZ, val |-> v,
                  buf |-> <<>>, ret |-> w]
           jj == IF "blk" \notin openedT \/ ~T!InRange(pos) \/ w = 0 THEN NoCall ELSE jw
<1>1. pc[t] = "user" /\ drv["blk"].opened \in {"yes", "no"}
  BY DEF block_call
<1>2. "blk" \notin openedT <=> drv["blk"].opened = "no"
  BY <1>1 DEF openedT, Devs
<1>3. ~T!InRange(pos) <=> (pos % SECSZ # 0 \/ pos > CAPACITY)
  BY VirtioAssumption DEF T!InRange
<1>4. enter(t, jj)
  <2>1. CASE drv["blk"].opened = "no" \/ pos % SECSZ # 0 \/ pos > CAPACITY
    <3>1. jj = NoCall
      BY <1>2, <1>3, <2>1
    <3> HIDE DEF jj
    <3> QED
      BY <2>1, <3>1 DEF block_call
  <2>2. CASE ~(drv["blk"].opened = "no" \/ pos % SECSZ # 0 \/ pos > CAPACITY)
    <3>1. w = k
      <4>1. pos <= CAPACITY
        BY <2>2, VirtioAssumption
      <4> QED
        BY <4>1, TransferSize
    <3>2. enter(t, IF k = 0 THEN NoCall ELSE j)
      BY <2>2 DEF block_call
    <3>3. jj = IF w = 0 THEN NoCall ELSE jw
      BY <1>2, <1>3, <2>2
    <3>4. jj = IF k = 0 THEN NoCall ELSE j
      <4> HIDE DEF k, w
      <4> QED
        BY <3>1, <3>3
    <3> HIDE DEF jj, j, k
    <3> QED
      BY <3>2, <3>4
  <2> QED
    BY <2>1, <2>2
<1>5. PICK c : c = jj
  OBVIOUS
<1>6. /\ jobT' = [jobT EXCEPT ![t] = c] /\ jobT[t].op = "none"
      /\ openedT' = openedT /\ disk' = disk /\ faults' = faults
  <2> HIDE DEF jj
  <2> QED
    BY <1>1, <1>4, <1>5, EnterStep
<1> HIDE DEF w
<1> QED
  BY <1>5, <1>6 DEF T!Block, T!SetJob, w, openedT, jobT, CallT, T!NoCall, NoCall

LEMMA EntropyStep ==
  ASSUME Inv, NEW t \in Threads, NEW n \in Nat, viorng_serial_recv(t, n)
  PROVE  T!Entropy(t, n)
<1> DEFINE k == IF n > RNGBUF THEN RNGBUF ELSE n
           j == [op |-> "recv", sec |-> 0, left |-> k, val |-> 0, buf |-> <<>>, ret |-> k]
           c == IF drv["rng"].opened = "no" \/ k = 0 THEN NoCall ELSE j
<1>1. pc[t] = "user" /\ drv["rng"].opened \in {"yes", "no"} /\ enter(t, c)
  BY DEF viorng_serial_recv
<1>2. "rng" \notin openedT <=> drv["rng"].opened = "no"
  BY <1>1 DEF openedT, Devs
<1>3. T!Min({n, RNGBUF}) = k
  <2>1. n \in Int /\ RNGBUF \in Int
    BY VirtioAssumption
  <2> QED
    BY <2>1 DEF T!Min
<1>4. PICK e : e = c
  OBVIOUS
<1>5. /\ jobT' = [jobT EXCEPT ![t] = e] /\ jobT[t].op = "none"
      /\ openedT' = openedT /\ disk' = disk /\ faults' = faults
  <2> HIDE DEF c
  <2> QED
    BY <1>1, <1>4, EnterStep
<1> HIDE DEF k
<1> QED
  BY <1>2, <1>3, <1>4, <1>5 DEF T!Entropy, T!SetJob, openedT, jobT, CallT, T!NoCall, NoCall

(* The call whose request is served is the only one that changes.          *)
LEMMA ServeStep ==
  ASSUME Inv, NEW d \in Devs, NEW r, NEW status, serve(d, r, status),
         NEW t \in Threads, drv[d].lock = t
  PROVE  /\ jobT[t] = job[t] /\ DevOf(t) = d /\ pc[t] \in Waiting
         /\ jobT' = [jobT EXCEPT ![t] = after(job[t], [r EXCEPT !.status = status])]
         /\ openedT' = openedT
<1>1. CanServe(d) /\ pc' = pc /\ job' = job
  BY DEF serve
<1>2. /\ ~Done(d) /\ dev[d].last = drv[d].used /\ drv[d].avail = (drv[d].used + 1) % IDX
      /\ pc[t] \in Waiting /\ DevOf(t) = d
  BY <1>1, Outstanding
<1>3. /\ drv'[d].used = (dev[d].last + 1) % IDX
      /\ \A e \in Devs \ {d} : drv'[e].used = drv[e].used
      /\ \A e \in Devs : drv'[e].avail = drv[e].avail /\ drv'[e].opened = drv[e].opened
  BY DEF serve, Inv, TypeOK, DriverType
<1>4. req'[d] = [r EXCEPT !.status = status] /\ \A e \in Devs \ {d} : req'[e] = req[e]
  BY DEF serve, Inv, TypeOK, Devs
<1>5. \A u \in Threads : DevOf(u)' = DevOf(u) /\ DevOf(u) \in Devs
  BY <1>1 DEF DevOf, Devs
<1>6. ~Served(t) /\ Served(t)'
  BY <1>1, <1>2, <1>3, <1>5 DEF Served, Done, Waiting
<1>7. jobT[t] = job[t]
  BY <1>6 DEF jobT, CallT
<1>8. CallT(t)' = after(job[t], [r EXCEPT !.status = status])
  BY <1>1, <1>2, <1>4, <1>5, <1>6 DEF CallT
<1>9. ASSUME NEW u \in Threads \ {t}
      PROVE  CallT(u)' = CallT(u)
  <2>1. CASE DevOf(u) = d
    <3>1. pc[u] \notin Waiting
      BY <1>2, <2>1, OneHolder DEF Inv, Holding, Waiting
    <3>2. ~Served(u) /\ ~Served(u)'
      BY <1>1, <3>1 DEF Served, Waiting
    <3> QED
      BY <1>1, <3>2 DEF CallT
  <2>2. CASE DevOf(u) # d
    <3>1. Served(u)' <=> Served(u)
      BY <1>1, <1>3, <1>5, <2>2 DEF Served, Done
    <3> QED
      BY <1>1, <1>4, <1>5, <2>2, <3>1, SameCall
  <2> QED
    BY <2>1, <2>2
<1>10. PICK j : j = after(job[t], [r EXCEPT !.status = status])
  OBVIOUS
<1>11. jobT' = [jobT EXCEPT ![t] = j]
  BY <1>8, <1>9, <1>10, OneCall
<1> QED
  BY <1>2, <1>3, <1>7, <1>10, <1>11 DEF openedT

(* A call keeps its operation.                                             *)
LEMMA AfterOp ==
  ASSUME NEW j \in CallType, NEW r, j.op # "none"
  PROVE  after(j, r).op = j.op
BY DEF CallType, Ops, after, fetched, stored, received

(* While a block call is served no other block call is midway.             *)
LEMMA NoneMidway ==
  ASSUME Inv, NEW t \in Threads, drv["blk"].lock = t
  PROVE  \A u \in Threads \ {t} : ~T!Midway(u)
<1> SUFFICES ASSUME NEW u \in Threads \ {t}, T!Midway(u) PROVE FALSE
  OBVIOUS
<1>1. jobT[u].op \in {"fetch", "store"} /\ jobT[u].left * SECSZ < jobT[u].ret
  BY DEF T!Midway, jobT, CallT
<1>2. job[u] \in CallType /\ jobT[u] = CallT(u)
  BY DEF Inv, TypeOK, jobT
<1>3. job[u].op \in {"fetch", "store"}
  <2>1. CASE Served(u)
    <3>1. job[u].op # "none"
      BY <2>1 DEF Served, Inv, CallsOK, CallOK
    <3> QED
      BY <1>1, <1>2, <2>1, <3>1, AfterOp DEF CallT
  <2>2. CASE ~Served(u)
    BY <1>1, <1>2, <2>2 DEF CallT
  <2> QED
    BY <2>1, <2>2
<1>4. pc[u] \notin Holding
  BY <1>3 DEF DevOf, Inv, LocksOK
<1>5. pc[u] = "lock"
  BY <1>3, <1>4 DEF Inv, TypeOK, Places, Holding, CallsOK, CallOK
<1>6. jobT[u] = job[u]
  BY <1>2, <1>5 DEF CallT, Served
<1>7. job[u].left * SECSZ = job[u].ret
  BY <1>3, <1>5 DEF Inv, CallsOK, CallOK
<1>8. job[u].ret \in Int
  BY <1>2 DEF CallType
<1> QED
  BY <1>1, <1>6, <1>7, <1>8

LEMMA ServeOkStep ==
  ASSUME Inv, NEW d \in Devs, serve_ok(d)
  PROVE  T!Next
<1>1. CanServe(d) /\ faults' = faults
  <2>1. req.blk.type \in {"IN", "OUT"}
    BY DEF Inv, TypeOK, BlockRequest
  <2> QED
    BY <2>1 DEF serve_ok, serve, Devs
<1>2. PICK t \in Threads : drv[d].lock = t /\ pc[t] \in Waiting /\ DevOf(t) = d
                           /\ Requested(job[t], req[d])
  BY <1>1, Outstanding
<1>3. job[t] \in CallType /\ job[t].op # "none" /\ job[t].left > 0
  BY <1>2 DEF Inv, TypeOK, CallsOK, CallOK, Waiting
<1>4. CASE d = "rng"
  <2> DEFINE b == [i \in DOMAIN req.rng.data |-> IF i <= req.rng.len THEN FRESH ELSE req.rng.data[i]]
             r == [req.rng EXCEPT !.data = [i \in DOMAIN @ |-> IF i <= req.rng.len THEN FRESH ELSE @[i]]]
             q == [r EXCEPT !.status = "OK"]
  <2>1. serve(d, r, "OK") /\ disk' = disk
    BY <1>4 DEF serve_ok
  <2>2. req.rng \in EntropyRequest
    BY DEF Inv, TypeOK
  <2>3. job[t].op = "recv" /\ req.rng.len = job[t].left
    <3>1. job[t].op = "recv"
      BY <1>2, <1>4 DEF DevOf
    <3> QED
      BY <1>2, <1>4, <3>1 DEF Requested
  <2>4. r = [req.rng EXCEPT !.data = b]
    OBVIOUS
  <2>5. SubSeq(b, 1, job[t].left) = [i \in 1 .. job[t].left |-> FRESH]
    <3>1. DOMAIN req.rng.data = 1 .. RNGBUF /\ job[t].left \in 0 .. RNGBUF
      BY <2>2, <2>3 DEF EntropyRequest, Bytes
    <3>2. b \in [1 .. RNGBUF -> {FRESH, STALE}]
      BY <2>2 DEF EntropyRequest, Bytes
    <3>3. RNGBUF \in Nat
      BY VirtioAssumption
    <3>4. b \in Seq({FRESH, STALE}) /\ Len(b) = RNGBUF
      BY <3>2, <3>3
    <3>5. \A i \in 1 .. job[t].left : b[i] = FRESH
      BY <2>3, <3>1, <3>3
    <3> HIDE DEF b
    <3> QED
      BY <3>1, <3>3, <3>4, <3>5
  <2> HIDE DEF b
  <2>6. q.data = b
    BY <2>2, <2>4 DEF EntropyRequest
  <2> HIDE DEF q, r
  <2>7. after(job[t], q) = [job[t] EXCEPT !.left = 0, !.buf = [i \in 1 .. job[t].left |-> FRESH]]
    <3>1. after(job[t], q) = [job[t] EXCEPT !.buf = SubSeq(q.data, 1, job[t].left), !.left = 0]
      BY <2>3 DEF after, received
    <3>2. after(job[t], q) = [job[t] EXCEPT !.buf = [i \in 1 .. job[t].left |-> FRESH], !.left = 0]
      BY <2>5, <2>6, <3>1
    <3> DEFINE f == [i \in 1 .. job[t].left |-> FRESH]
    <3> HIDE DEF f
    <3>3. after(job[t], q) = [job[t] EXCEPT !.buf = f, !.left = 0]
      BY <3>2 DEF f
    <3>4. after(job[t], q) = [job[t] EXCEPT !.left = 0, !.buf = f]
      BY <1>3, <3>3 DEF CallType
    <3> QED
      BY <3>4 DEF f
  <2>8. /\ jobT[t] = job[t] /\ openedT' = openedT
        /\ jobT' = [jobT EXCEPT ![t] = after(job[t], q)]
    BY <1>2, <2>1, ServeStep DEF q
  <2>9. T!Move(t)
    <3>1. jobT' = [jobT EXCEPT ![t] = [jobT[t] EXCEPT !.left = 0, !.buf = [i \in 1 .. jobT[t].left |-> FRESH]]]
      BY <2>7, <2>8
    <3>2. jobT[t].left > 0 /\ jobT[t].op = "recv"
      BY <1>3, <2>3, <2>8
    <3> QED
      BY <1>1, <2>1, <2>8, <3>1, <3>2 DEF T!Move, T!SetJob, T!FRESH, FRESH, jobT, CallT, openedT
  <2> QED
    BY <2>9 DEF T!Next
<1>5. CASE d = "blk"
  <2>1. req.blk \in BlockRequest /\ (req.blk.type = "IN" => job[t].op = "fetch")
        /\ (req.blk.type = "OUT" => job[t].op = "store") /\ req.blk.sector = job[t].sec
    <3>1. job[t].op \in {"fetch", "store"}
      BY <1>2, <1>3, <1>5 DEF DevOf, CallType, Ops
    <3> QED
      BY <1>1, <1>2, <1>5, <3>1, SectorRequested DEF Requested
  <2>2. \A u \in Threads \ {t} : ~T!Midway(u)
    BY <1>2, <1>5, NoneMidway
  <2>3. CASE req.blk.type = "IN"
    <3> DEFINE r == [req.blk EXCEPT !.data = disk[req.blk.sector]]
               q == [r EXCEPT !.status = "OK"]
    <3>1. serve(d, r, "OK") /\ disk' = disk
      BY <1>5, <2>3 DEF serve_ok
    <3>2. q.data = disk[job[t].sec] /\ q.status = "OK"
      BY <2>1 DEF BlockRequest
    <3> HIDE DEF q, r
    <3>3. /\ jobT[t] = job[t] /\ openedT' = openedT
          /\ jobT' = [jobT EXCEPT ![t] = after(job[t], q)]
      BY <1>2, <3>1, ServeStep DEF q
    <3>4. after(job[t], q) = [[job[t] EXCEPT !.sec = @ + 1, !.left = @ - 1] EXCEPT !.buf = Append(@, disk[job[t].sec])]
      <4>1. after(job[t], q) = [[job[t] EXCEPT !.buf = Append(@, q.data)] EXCEPT !.sec = @ + 1, !.left = @ - 1]
        BY <2>1, <2>3, <3>2 DEF after, fetched
      <4> QED
        BY <1>3, <3>2, <4>1 DEF CallType
    <3>5. T!Move(t)
      <4>1. jobT' = [jobT EXCEPT ![t] = [[jobT[t] EXCEPT !.sec = @ + 1, !.left = @ - 1] EXCEPT !.buf = Append(@, disk[jobT[t].sec])]]
        BY <3>3, <3>4
      <4>2. jobT[t].left > 0 /\ jobT[t].op = "fetch"
        BY <1>3, <2>1, <2>3, <3>3
      <4> QED
        BY <1>1, <2>2, <3>1, <3>3, <4>1, <4>2 DEF T!Move, T!SetJob, jobT, CallT, openedT
    <3> QED
      BY <3>5 DEF T!Next
  <2>4. CASE req.blk.type = "OUT"
    <3> DEFINE q == [req.blk EXCEPT !.status = "OK"]
    <3>1. serve(d, req.blk, "OK") /\ disk' = [disk EXCEPT ![req.blk.sector] = req.blk.data]
      BY <1>5, <2>4 DEF serve_ok
    <3>2. q.status = "OK"
      BY <2>1 DEF BlockRequest
    <3>3. req.blk.data = job[t].val
      BY <1>2, <1>5, <2>1, <2>4 DEF Requested
    <3>4. /\ jobT[t] = job[t] /\ openedT' = openedT
          /\ jobT' = [jobT EXCEPT ![t] = after(job[t], q)]
      BY <1>2, <3>1, ServeStep
    <3> HIDE DEF q
    <3>5. after(job[t], q) = [job[t] EXCEPT !.sec = @ + 1, !.left = @ - 1]
      BY <2>1, <2>4, <3>2 DEF after, stored
    <3>6. T!Move(t)
      <4>1. jobT' = [jobT EXCEPT ![t] = [jobT[t] EXCEPT !.sec = @ + 1, !.left = @ - 1]]
        BY <3>4, <3>5
      <4>2. jobT[t].left > 0 /\ jobT[t].op = "store"
        BY <1>3, <2>1, <2>4, <3>4
      <4>3. disk' = [disk EXCEPT ![jobT[t].sec] = jobT[t].val]
        BY <2>1, <3>1, <3>3, <3>4
      <4> QED
        BY <1>1, <2>2, <3>4, <4>1, <4>2, <4>3 DEF T!Move, T!SetJob, jobT, CallT, openedT
    <3> QED
      BY <3>6 DEF T!Next
  <2> QED
    BY <2>1, <2>3, <2>4 DEF BlockRequest
<1> QED
  BY <1>4, <1>5 DEF Devs

LEMMA ServeErrorStep ==
  ASSUME Inv, serve_error
  PROVE  T!Next
<1> DEFINE d == "blk"
<1>1. CanServe(d) /\ faults < MaxFaults /\ faults' = faults + 1 /\ d \in Devs
  BY DEF serve_error, serve, Devs
<1>2. PICK t \in Threads : drv[d].lock = t /\ pc[t] \in Waiting /\ DevOf(t) = d
                           /\ Requested(job[t], req.blk)
  BY <1>1, Outstanding
<1>3. job[t] \in CallType /\ job[t].op \in {"fetch", "store"} /\ job[t].left > 0
  BY <1>2 DEF Inv, TypeOK, CallsOK, CallOK, Waiting, DevOf, CallType, Ops
<1>4. req.blk \in BlockRequest /\ (req.blk.type = "IN" => job[t].op = "fetch")
      /\ (req.blk.type = "OUT" => job[t].op = "store") /\ req.blk.sector = job[t].sec
  BY <1>1, <1>2, <1>3, SectorRequested DEF Requested
<1>5. \A u \in Threads \ {t} : ~T!Midway(u)
  BY <1>2, NoneMidway
<1>6. CASE req.blk.type = "IN"
  <2>1. PICK v \in Vals : serve(d, [req.blk EXCEPT !.data = v], "IOERR")
    BY <1>6 DEF serve_error
  <2> DEFINE r == [req.blk EXCEPT !.data = v]
             q == [r EXCEPT !.status = "IOERR"]
  <2>2. disk' = disk /\ serve(d, r, "IOERR")
    BY <1>6, <2>1 DEF serve_error
  <2>3. q.data = v /\ q.status = "IOERR"
    BY <1>4 DEF BlockRequest
  <2> HIDE DEF q, r
  <2>4. /\ jobT[t] = job[t] /\ openedT' = openedT
        /\ jobT' = [jobT EXCEPT ![t] = after(job[t], q)]
    BY <1>1, <1>2, <2>2, ServeStep DEF q
  <2>5. after(job[t], q) = [[job[t] EXCEPT !.left = 0, !.ret = EIO] EXCEPT !.buf = Append(@, v)]
    <3>1. after(job[t], q) = [[job[t] EXCEPT !.buf = Append(@, q.data)] EXCEPT !.left = 0, !.ret = EIO]
      BY <1>4, <1>6, <2>3 DEF after, fetched
    <3> QED
      BY <1>3, <2>3, <3>1 DEF CallType
  <2>6. T!Refuse(t)
    <3>1. jobT' = [jobT EXCEPT ![t] = [[jobT[t] EXCEPT !.left = 0, !.ret = EIO] EXCEPT !.buf = Append(@, v)]]
      BY <2>4, <2>5
    <3>2. jobT[t].left > 0 /\ jobT[t].op = "fetch"
      BY <1>3, <1>4, <1>6, <2>4
    <3> QED
      BY <1>1, <1>5, <2>2, <2>4, <3>1, <3>2 DEF T!Refuse, T!SetJob, jobT, CallT, openedT
  <2> QED
    BY <2>6 DEF T!Next
<1>7. CASE req.blk.type = "OUT"
  <2> DEFINE q == [req.blk EXCEPT !.status = "IOERR"]
  <2>1. serve(d, req.blk, "IOERR") /\ (disk' = disk \/ disk' = [disk EXCEPT ![req.blk.sector] = req.blk.data])
    BY <1>7 DEF serve_error
  <2>2. q.status = "IOERR"
    BY <1>4 DEF BlockRequest
  <2>3. req.blk.data = job[t].val
    BY <1>2, <1>4, <1>7 DEF Requested
  <2>4. /\ jobT[t] = job[t] /\ openedT' = openedT
        /\ jobT' = [jobT EXCEPT ![t] = after(job[t], q)]
    BY <1>1, <1>2, <2>1, ServeStep
  <2> HIDE DEF q
  <2>5. after(job[t], q) = [job[t] EXCEPT !.left = 0, !.ret = EIO]
    BY <1>4, <1>7, <2>2 DEF after, stored
  <2>6. T!Refuse(t)
    <3>1. jobT' = [jobT EXCEPT ![t] = [jobT[t] EXCEPT !.left = 0, !.ret = EIO]]
      BY <2>4, <2>5
    <3>2. jobT[t].left > 0 /\ jobT[t].op = "store"
      BY <1>3, <1>4, <1>7, <2>4
    <3>3. disk' = disk \/ disk' = [disk EXCEPT ![jobT[t].sec] = jobT[t].val]
      BY <1>4, <2>1, <2>3, <2>4
    <3>4. 0 \in Vals
      BY VirtioAssumption
    <3> QED
      BY <1>1, <1>5, <2>4, <3>1, <3>2, <3>3, <3>4 DEF T!Refuse, T!SetJob, jobT, CallT, openedT
  <2> QED
    BY <2>6 DEF T!Next
<1> QED
  BY <1>4, <1>6, <1>7 DEF BlockRequest

(* A call that goes on with the next sector is not seen; one that returns  *)
(* was done.                                                               *)
LEMMA ProceedStep ==
  ASSUME Inv, NEW t \in Threads, proceed(t)
  PROVE  [T!Next]_(T!vars)
<1>1. PICK d \in Devs : d = DevOf(t)
  BY DEF DevOf, Devs
<1>2. PICK j : j = after(job[t], req[DevOf(t)])
  OBVIOUS
<1>3. pc[t] = "check" /\ Done(d) /\ Served(t)
  BY <1>1 DEF proceed, Served
<1>4. jobT[t] = j
  BY <1>2, <1>3 DEF jobT, CallT
<1>5. /\ disk' = disk /\ faults' = faults
      /\ job'[t] = (IF j.left > 0 THEN j ELSE NoCall)
      /\ pc'[t] \in {"fill", "user"}
      /\ \A u \in Threads \ {t} : job'[u] = job[u] /\ pc'[u] = pc[u]
  BY <1>2 DEF proceed, hwVars, Inv, TypeOK
<1>6. /\ \A e \in Devs : drv'[e].avail = drv[e].avail /\ drv'[e].used = drv[e].used
                         /\ drv'[e].opened = drv[e].opened
  BY <1>1 DEF proceed, Inv, TypeOK, DriverType
<1>7. \A e \in Devs \ {d} : req'[e] = req[e]
  BY <1>1 DEF proceed, Inv, TypeOK, Devs
<1>8. CallT(t)' = IF j.left > 0 THEN j ELSE NoCall
  BY <1>5 DEF CallT, Served
<1>9. ASSUME NEW u \in Threads \ {t}
      PROVE  CallT(u)' = CallT(u)
  <2>1. DevOf(u)' = DevOf(u) /\ DevOf(u) \in Devs
    BY <1>5 DEF DevOf, Devs
  <2>2. CASE pc[u] \in Holding
    <3>1. DevOf(u) # d
      BY <1>1, <1>3, <2>2, OneHolder DEF Inv, Holding
    <3>2. Served(u)' <=> Served(u)
      BY <1>5, <1>6, <2>1 DEF Served, Done
    <3> QED
      BY <1>5, <1>7, <2>1, <3>1, <3>2, SameCall
  <2>3. CASE pc[u] \notin Holding
    <3>1. ~Served(u) /\ ~Served(u)'
      BY <1>5, <2>3 DEF Served, Holding
    <3> QED
      BY <1>5, <3>1 DEF CallT
  <2> QED
    BY <2>2, <2>3
<1>10. openedT' = openedT
  BY <1>6 DEF openedT
<1>11. CASE j.left > 0
  <2>1. CallT(t)' = CallT(t)
    BY <1>2, <1>3, <1>8, <1>11 DEF CallT
  <2>2. jobT' = jobT
    BY <1>9, <2>1, SameCalls
  <2> QED
    BY <1>5, <1>10, <2>2, StutterT
<1>12. CASE ~(j.left > 0)
  <2>1. jobT' = [jobT EXCEPT ![t] = NoCall]
    <3>1. CallT(t)' = NoCall
      BY <1>8, <1>12
    <3> QED
      BY <1>9, <3>1, OneCall
  <2>2. job[t] \in CallType /\ job[t].op # "none" /\ job[t].left > 0
    BY <1>3 DEF Inv, TypeOK, CallsOK, CallOK
  <2>3. j.op # "none"
    BY <1>2, <2>2, AfterOp
  <2>4. j.left = 0
    <3>1. j.left = 0 \/ j.left = job[t].left - 1
      BY <1>2, <2>2 DEF after, fetched, stored, received, CallType, Ops
    <3>2. job[t].left \in Nat
      BY <2>2 DEF CallType
    <3> QED
      BY <1>12, <2>2, <3>1, <3>2
  <2>5. T!Return(t)
    BY <1>4, <1>5, <1>10, <2>1, <2>3, <2>4 DEF T!Return, T!SetJob, T!NoCall, NoCall, jobT, CallT, openedT
  <2> QED
    BY <2>5 DEF T!Next
<1> QED
  BY <1>11, <1>12

LEMMA StepT == Inv /\ [Next]_vars => [T!Next]_(T!vars)
<1> SUFFICES ASSUME Inv, [Next]_vars PROVE [T!Next]_(T!vars)
  OBVIOUS
<1>0. "blk" \in Devs /\ "rng" \in Devs
  BY DEF Devs
<1>1. CASE vioblk_storage_open \/ viorng_serial_open \/ vioblk_storage_close \/ viorng_serial_close
  BY <1>0, <1>1, DriverSteps DEF vioblk_storage_open, viorng_serial_open, vioblk_storage_close,
                                 viorng_serial_close
<1>2. CASE \/ \E d \in Devs : served_all(d) \/ raise(d) \/ handle_extern_interrupt(d)
           \/ vioblk_isr \/ viorng_isr
           \/ \E t \in Threads : virtio_notify_avail(t) \/ wait(t)
  BY <1>2, HiddenSteps
<1>3. CASE serve_error \/ \E d \in Devs : serve_ok(d)
  BY <1>3, ServeErrorStep, ServeOkStep
<1>4. ASSUME NEW t \in Threads, NEW r \in Ranges,
             \/ vioblk_storage_fetch(t, r[1], r[2])
             \/ \E v \in Vals \ {0} : vioblk_storage_store(t, r[1], r[2], v)
             \/ viorng_serial_recv(t, r[2])
      PROVE  T!Next
  <2>1. r[1] \in Nat /\ r[2] \in Nat
    BY VirtioAssumption
  <2>2. \/ T!Block(t, "fetch", r[1], r[2], 0)
        \/ \E v \in Vals : T!Block(t, "store", r[1], r[2], v)
        \/ T!Entropy(t, r[2])
    BY <1>4, <2>1, BlockStep, EntropyStep DEF vioblk_storage_fetch, vioblk_storage_store
  <2> QED
    BY <2>2 DEF T!Next
<1>5. CASE \E t \in Threads : locked(t) \/ fill(t) \/ proceed(t)
  BY <1>5, LockedStep, FillStep, ProceedStep
<1>6. CASE UNCHANGED vars
  <2>1. openedT' = openedT /\ jobT' = jobT /\ disk' = disk /\ faults' = faults
    BY <1>6 DEF vars, openedT, jobT, CallT, Served, Done, DevOf
  <2> QED
    BY <2>1, StutterT
<1> QED
  BY <1>1, <1>2, <1>3, <1>4, <1>5, <1>6 DEF Next

(* Through one request buffer, lock and pair of 16-bit indexes per device, *)
(* with the device completing at any time and the handler interrupting     *)
(* anywhere, every call moves the sectors or the entropy it asked for and  *)
(* reports what it moved (vioblk.c:366-516, viorng.c:222-287).             *)
THEOREM TransfersImplemented == Spec => ImplementsTransfers
<1>1. Init => T!Init
  BY InitT
<1>2. Inv /\ [Next]_vars => [T!Next]_(T!vars)
  BY StepT
<1> QED
  BY <1>1, <1>2, Invariance, PTL DEF Spec, ImplementsTransfers, T!Spec
=============================================================================
