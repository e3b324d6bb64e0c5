---------------------------- MODULE ByteDevices ----------------------------
(***************************************************************************)
(* What an open device file promises: a storage device is an array of      *)
(* bytes with a position, a read returns the bytes at the position and a   *)
(* write replaces exactly those bytes; a clock only delivers.  A call may  *)
(* be short when the medium refuses a block or the call reaches the end of *)
(* the device.                                                             *)
(*                                                                         *)
(* Two things a caller might count on are not promised, and each has an    *)
(* action of its own: a call past the end may count bytes that were never  *)
(* moved (Phantom), and a call that overlaps another use of the same disk  *)
(* by a process sharing the file may read and write the wrong bytes of     *)
(* that disk (Mixed).  No call ever changes another disk.                  *)
(***************************************************************************)
EXTENDS Integers, Sequences

CONSTANTS Procs, Disks,    (* processes and storage devices                  *)
          Clocks, ReadOnly,
          Capacity,        (* of each storage device                         *)
          Bytes, TICK, Messages, MaxLen, MaxFaults,
          Running, EIO, EINVAL, ENOTSUP

VARIABLES content, posn,   (* of each storage device                         *)
          job,             (* [op, dev, todo, data, got, ret] of each process*)
          faults,          (* blocks the media have refused                  *)
          mixed            (* processes whose call met another use           *)

vars == <<content, posn, job, faults, mixed>>

NoCall == [op |-> "none", dev |-> 0, todo |-> 0, data |-> <<>>, got |-> <<>>, ret |-> 0]

Init == /\ content \in [Disks -> Seq(Bytes)]
        /\ \A d \in Disks : Len(content[d]) = Capacity[d]
        /\ posn = [d \in Disks |-> 0]
        /\ job = [p \in Procs |-> NoCall]
        /\ faults = 0 /\ mixed = {}

SetJob(p, j) == job' = [job EXCEPT ![p] = j]

(* The calls in progress on a disk.                                        *)
InUse(d) == {p \in Procs : d \in Disks /\ job[p].dev = d /\ job[p].ret = Running}

(* Closing a device, or a new position.                                    *)
Seek == /\ \E d \in Disks : /\ \E x \in 0 .. Capacity[d] : posn' = [posn EXCEPT ![d] = x]
                            /\ mixed' = mixed \cup InUse(d)
        /\ UNCHANGED <<content, job, faults>>

Start(p) ==
  /\ job[p] = NoCall
  /\ \E d \in Disks \cup Clocks \cup {0} :
       /\ \/ d # 0 /\ \E n \in 1 .. MaxLen :
               SetJob(p, [NoCall EXCEPT !.op = "read", !.dev = d, !.todo = n, !.ret = Running])
          \/ d # 0 /\ \E w \in Messages :
               SetJob(p, [NoCall EXCEPT !.op = "write", !.dev = d, !.todo = Len(w), !.data = w, !.ret = Running])
          \/ SetJob(p, [NoCall EXCEPT !.op = "exec", !.dev = d, !.ret = Running])
       /\ mixed' = IF InUse(d) = {} THEN mixed ELSE mixed \cup InUse(d) \cup {p}
  /\ UNCHANGED <<content, posn, faults>>

(* The call of p is its own.                                               *)
Alone(p, op) == job[p].op = op /\ job[p].ret = Running /\ job[p].dev \in Disks /\ p \notin mixed

(* The position or the end of the call lies beyond the device.             *)
Beyond(j) == posn[j.dev] + j.todo > Capacity[j.dev]
Moved(j) == IF j.op = "read" THEN Len(j.got) ELSE Len(j.data) - j.todo

(* What a call that has moved its last byte, or all it can, returns.       *)
Returns(j, beyond) == {Running} \cup (IF j.todo = 0 \/ beyond THEN {Moved(j)} ELSE {})

Read(p) ==
  LET j == job[p]
      at == posn[j.dev]
  IN /\ Alone(p, "read")
     /\ \E k \in 1 .. j.todo :
          /\ at + k <= Capacity[j.dev]
          /\ posn' = [posn EXCEPT ![j.dev] = at + k]
          /\ LET n == [j EXCEPT !.todo = @ - k, !.got = @ \o SubSeq(content[j.dev], at + 1, at + k)] IN
             \E r \in Returns(n, Beyond(j)) : SetJob(p, [n EXCEPT !.ret = r])
     /\ UNCHANGED <<content, faults, mixed>>

(* content with the next k bytes of the call stored at the position.       *)
Stored(j, k) ==
  [content EXCEPT ![j.dev] =
     [i \in DOMAIN @ |-> IF i - posn[j.dev] \in 1 .. k THEN j.data[Moved(j) + i - posn[j.dev]] ELSE @[i]]]

Write(p) ==
  LET j == job[p] IN
  /\ Alone(p, "write") /\ j.dev \notin ReadOnly
  /\ \E k \in 1 .. j.todo :
       /\ posn[j.dev] + k <= Capacity[j.dev]
       /\ content' = Stored(j, k)
       /\ posn' = [posn EXCEPT ![j.dev] = @ + k]
       /\ LET n == [j EXCEPT !.todo = @ - k] IN
          \E r \in Returns(n, Beyond(j)) : SetJob(p, [n EXCEPT !.ret = r])
  /\ UNCHANGED <<faults, mixed>>

(* At or past the end: k bytes are counted and the position passes them,   *)
(* though a write stores nothing and a read has bytes of no device.        *)
Phantom(p) ==
  LET j == job[p] IN
  /\ Alone(p, "read") \/ (Alone(p, "write") /\ j.dev \notin ReadOnly)
  /\ posn[j.dev] >= Capacity[j.dev]
  /\ \E k \in 1 .. j.todo :
       /\ posn' = [posn EXCEPT ![j.dev] = @ + k]
       /\ \E b \in IF j.op = "read" THEN [1 .. k -> Bytes] ELSE {<<>>} :
            LET n == [j EXCEPT !.todo = @ - k, !.got = @ \o b] IN
            \E r \in Returns(n, TRUE) : SetJob(p, [n EXCEPT !.ret = r])
  /\ UNCHANGED <<content, faults, mixed>>

Stop(p) ==
  LET j == job[p] IN
  /\ j.ret = Running
  /\ \/ /\ (Alone(p, "read") \/ Alone(p, "write")) /\ Beyond(j)
        /\ \E r \in {Moved(j)} \cup (IF Moved(j) = 0 THEN {EINVAL} ELSE {}) : SetJob(p, [j EXCEPT !.ret = r])
        /\ UNCHANGED <<content, faults>>
     \/ /\ j.op = "write" /\ j.dev \in ReadOnly \cup Clocks
        /\ SetJob(p, [j EXCEPT !.ret = ENOTSUP])
        /\ UNCHANGED <<content, faults>>
     \/ /\ Alone(p, "read") \/ Alone(p, "write")
        /\ faults < MaxFaults /\ faults' = faults + 1
        /\ SetJob(p, [j EXCEPT !.ret = IF Moved(j) > 0 THEN Moved(j) ELSE EIO])
        /\ \/ content' = content
           \/ j.op = "write" /\ \E k \in 1 .. j.todo : content' = Stored(j, k)
  /\ UNCHANGED <<posn, mixed>>

(* The call j after some more of it was done: it does not become another   *)
(* call, and a result is what it has moved or an error.                    *)
Later(j, n) ==
  /\ n = [j EXCEPT !.todo = n.todo, !.got = n.got, !.ret = n.ret]
  /\ n.todo \in 0 .. j.todo /\ Len(n.got) \in Nat
  /\ IF j.op = "read" THEN Len(n.got) - Len(j.got) = j.todo - n.todo ELSE n.got = j.got
  /\ n.ret \in {Running, Moved(n)} \cup (IF Moved(n) = 0 THEN {EIO, EINVAL, ENOTSUP} ELSE {})

Mixed(p) ==
  LET j == job[p]
      d == j.dev
  IN /\ p \in mixed /\ j.op \in {"read", "write"} /\ j.ret = Running /\ d \in Disks
     /\ SetJob(p, job'[p]) /\ Later(j, job'[p])
     /\ posn' = [posn EXCEPT ![d] = posn'[d]] /\ posn'[d] \in Nat
     /\ \/ content' = content
        \/ /\ j.op = "write" /\ d \notin ReadOnly
           /\ content' = [content EXCEPT ![d] = content'[d]]
           /\ content'[d] \in [1 .. Capacity[d] -> Bytes]
     /\ faults' \in {faults, faults + 1} /\ faults' <= MaxFaults
     /\ UNCHANGED mixed

(* An exec in progress reads its file, and at last closes it.              *)
Load(p) ==
  LET d == job[p].dev IN
  /\ job[p].op = "exec" /\ d \in Disks
  /\ posn' = [posn EXCEPT ![d] = posn'[d]] /\ posn'[d] \in Nat
  /\ UNCHANGED <<content, job, faults, mixed>>

Loaded(p) ==
  LET d == job[p].dev IN
  /\ job[p].op = "exec"
  /\ SetJob(p, NoCall) /\ mixed' = mixed \ {p}
  /\ posn' = posn \/ (d \in Disks /\ InUse(d) = {p} /\ posn' = [posn EXCEPT ![d] = 0])
  /\ UNCHANGED <<content, faults>>

(* A clock delivers what fits.                                             *)
Tick(p) ==
  LET j == job[p] IN
  /\ j.op = "read" /\ j.dev \in Clocks /\ j.ret = Running
  /\ \E k \in 1 .. j.todo : SetJob(p, [j EXCEPT !.got = [i \in 1 .. k |-> TICK], !.ret = k, !.todo = @ - k])
  /\ UNCHANGED <<content, posn, faults, mixed>>

Return(p) == /\ job[p].op # "none" /\ job[p].ret # Running
             /\ SetJob(p, NoCall) /\ mixed' = mixed \ {p}
             /\ UNCHANGED <<content, posn, faults>>

Next == \/ Seek
        \/ \E p \in Procs : \/ Start(p) \/ Read(p) \/ Write(p) \/ Phantom(p) \/ Stop(p) \/ Tick(p)
                            \/ Mixed(p) \/ Load(p) \/ Loaded(p) \/ Return(p)

Spec == Init /\ [][Next]_vars
=============================================================================
