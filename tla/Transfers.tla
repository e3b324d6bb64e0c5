----------------------------- MODULE Transfers -----------------------------
(***************************************************************************)
(* What a block device and an entropy source promise their callers.  A     *)
(* call that finds the device closed or its arguments out of range returns *)
(* at once; every other call moves the whole blocks that fit, sector by    *)
(* sector in order, with no other call's sectors between its own, or stops *)
(* at the first sector the medium refuses.  Entropy is handed out once.    *)
(***************************************************************************)
EXTENDS Integers, Sequences, FiniteSetsExt

CONSTANTS Threads, Vals,
          SECSZ, BLKSZ, CAPACITY,  (* bytes: sector, block, device           *)
          RNGBUF,                  (* most bytes of one entropy request      *)
          Ranges, MaxFaults,
          EIO

VARIABLES opened,   (* the devices that are open                             *)
          disk,     (* the contents of the sectors                           *)
          job,      (* a thread's call: [op, sec, left, val, buf, ret]       *)
          faults    (* sectors the medium has refused                        *)

vars == <<opened, disk, job, faults>>

FRESH == 1   (* an entropy byte no call has got before                         *)
Secs == 0 .. CAPACITY \div SECSZ - 1
NoCall == [op |-> "none", sec |-> 0, left |-> 0, val |-> 0, buf |-> <<>>, ret |-> 0]
InRange(pos) == pos % SECSZ = 0 /\ pos <= CAPACITY
Whole(pos, n) == Max({k \in 0 .. n : k % BLKSZ = 0 /\ (k = 0 \/ pos + k <= CAPACITY)})

Init == /\ opened = {} /\ faults = 0
        /\ disk \in [Secs -> Vals]
        /\ job = [t \in Threads |-> NoCall]

Open == \E d \in {"blk", "rng"} : opened' = opened \cup {d} /\ UNCHANGED <<disk, job, faults>>

Close == \E d \in {"blk", "rng"} : opened' = opened \ {d} /\ UNCHANGED <<disk, job, faults>>

SetJob(t, j) == job' = [job EXCEPT ![t] = j]

Block(t, op, pos, n, v) ==
  /\ job[t].op = "none"
  /\ LET k == Whole(pos, n) IN
     SetJob(t, IF "blk" \notin opened \/ ~InRange(pos) \/ k = 0 THEN NoCall
               ELSE [op |-> op, sec |-> pos \div SECSZ, left |-> k \div SECSZ,
                     val |-> v, buf |-> <<>>, ret |-> k])
  /\ UNCHANGED <<opened, disk, faults>>

Entropy(t, n) ==
  /\ job[t].op = "none"
  /\ LET k == Min({n, RNGBUF}) IN
     SetJob(t, IF "rng" \notin opened \/ k = 0 THEN NoCall
               ELSE [op |-> "recv", sec |-> 0, left |-> k, val |-> 0, buf |-> <<>>, ret |-> k])
  /\ UNCHANGED <<opened, disk, faults>>

(* Another call has moved some of its sectors and not yet all.             *)
Midway(u) == /\ job[u].op \in {"fetch", "store"} /\ job[u].left > 0
             /\ job[u].left * SECSZ < job[u].ret

Move(t) ==
  /\ job[t].left > 0
  /\ job[t].op # "recv" => \A u \in Threads \ {t} : ~Midway(u)
  /\ LET j == job[t]
         next == [j EXCEPT !.sec = @ + 1, !.left = @ - 1]
     IN \/ j.op = "fetch" /\ disk' = disk
           /\ SetJob(t, [next EXCEPT !.buf = Append(@, disk[j.sec])])
        \/ j.op = "store" /\ disk' = [disk EXCEPT ![j.sec] = j.val]
           /\ SetJob(t, next)
        \/ j.op = "recv" /\ disk' = disk
           /\ SetJob(t, [j EXCEPT !.left = 0, !.buf = [i \in 1 .. j.left |-> FRESH]])
  /\ UNCHANGED <<opened, faults>>

(* The medium refuses a sector: the call ends, and what the sector or the  *)
(* buffer then holds is not promised.                                      *)
Refuse(t) ==
  /\ job[t].op \in {"fetch", "store"} /\ job[t].left > 0
  /\ \A u \in Threads \ {t} : ~Midway(u)
  /\ faults < MaxFaults /\ faults' = faults + 1
  /\ \E v \in Vals :
       LET j == job[t]
           stop == [j EXCEPT !.left = 0, !.ret = EIO]
       IN \/ j.op = "fetch" /\ disk' = disk /\ SetJob(t, [stop EXCEPT !.buf = Append(@, v)])
          \/ j.op = "store" /\ SetJob(t, stop)
             /\ (disk' = disk \/ disk' = [disk EXCEPT ![j.sec] = j.val])
  /\ UNCHANGED opened

Return(t) == /\ job[t].op # "none" /\ job[t].left = 0
             /\ SetJob(t, NoCall)
             /\ UNCHANGED <<opened, disk, faults>>

Next == \/ Open \/ Close
        \/ \E t \in Threads :
             \/ \E r \in Ranges : \/ Block(t, "fetch", r[1], r[2], 0)
                                  \/ \E v \in Vals : Block(t, "store", r[1], r[2], v)
                                  \/ Entropy(t, r[2])
             \/ Move(t) \/ Refuse(t) \/ Return(t)

Spec == Init /\ [][Next]_vars
=============================================================================
