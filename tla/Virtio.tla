------------------------------- MODULE Virtio -------------------------------
(***************************************************************************)
(* The VirtIO block and entropy drivers (sys/dev/vioblk.c, viorng.c,       *)
(* virtio.c) with the external interrupt path (sys/intr.c, plic.c).  Each  *)
(* driver has one virtqueue of length one, one request buffer and one      *)
(* lock: a call fills the buffer, advances availq.idx, notifies the device *)
(* and sleeps until usedq.idx has caught up.  The device runs on its own:  *)
(* it serves a request, advances usedq.idx and only then interrupts.       *)
(*                                                                         *)
(* The handler runs on the hart of the threads, so no thread moves while   *)
(* it runs, but the devices do.  Threads are preempted by the handler      *)
(* anywhere except between a check of usedq.idx and the wait that follows. *)
(***************************************************************************)
EXTENDS Integers, Sequences, FiniteSets, FiniteSetsExt

CONSTANTS Threads, NoThread, Vals,
          SECSZ,            (* 512                                           *)
          BLKSZ,            (* vbd->blksz                                    *)
          CAPACITY,         (* sto->capacity                                 *)
          RNGBUF,           (* VIORNG_BUFSZ                                  *)
          IDX,              (* 2^16: the indexes of the queues are 16 bits   *)
          Boards,           (* bound: the devices of the board, with the     *)
                            (* features each offers                          *)
          Ranges,           (* bound: positions and lengths of calls         *)
          MaxCalls,         (* bound: transfers                              *)
          MaxFaults,        (* bound: sectors the medium refuses             *)
          EIO

ASSUME VirtioAssumption ==
  /\ SECSZ \in Nat \ {0} /\ BLKSZ \in Nat \ {0} /\ BLKSZ % SECSZ = 0
  /\ CAPACITY \in Nat /\ CAPACITY % SECSZ = 0 /\ RNGBUF \in Nat \ {0}
  /\ IDX \in Nat /\ IDX > 1 /\ Vals \subseteq Nat /\ 0 \in Vals
  /\ NoThread \notin Threads /\ Ranges \subseteq Nat \X Nat

Devs == {"blk", "rng"}
FRESH == 1
STALE == 0

VARIABLES
  drv,      (* of a driver: [attached, opened, lock, avail, used]; opened    *)
            (* is "no", "yes", or "opening" and "closing" on the way         *)
  req,      (* the request buffers: [type, sector, wr, len, data, status]    *)
  dev,      (* of a device (external): [ready, active, last, late, istat,    *)
            (* resets]                                                       *)
  disk,     (* the sectors (external)                                        *)
  plic,     (* of a source: [pend, prio] (external), isr # NULL in isrtab    *)
  irq,      (* the handler: <<>> or <<source, place>>                        *)
  panic,    (* an interrupt found no handler                                 *)
  pc, job,  (* a thread's place and its call                                 *)
  faults,   (* sectors the medium has refused                                *)
  calls     (* transfers so far                                              *)

vars == <<drv, req, dev, disk, plic, irq, panic, pc, job, faults, calls>>
hwVars == <<dev, disk, plic, irq, panic, faults>>

Secs == 0 .. CAPACITY \div SECSZ - 1
NoCall == [op |-> "none", sec |-> 0, left |-> 0, val |-> 0, buf |-> <<>>, ret |-> 0]

---------------------------------------------------------------------------
(* Attaching.  A device that lacks a needed feature is not registered; of  *)
(* the others the driver acknowledges the wanted features only, so that    *)
(* VIRTIO_F_RING_RESET, needed but not wanted, stays off and the device    *)
(* ignores writes to queue_reset.                                          *)

needed(d) == IF d = "blk" THEN {"RING_RESET", "INDIRECT_DESC"} ELSE {}

(* Fault: the needed features are acknowledged too.                        *)
wanted_Superset(d) == IF d = "blk" THEN {"BLK_SIZE", "TOPOLOGY", "RING_RESET"} ELSE {}

wanted(d) == IF d = "blk" THEN {"BLK_SIZE", "TOPOLOGY"} ELSE {}

virtio_negotiate_features(d, offered) ==
  IF needed(d) \subseteq offered THEN [ok |-> TRUE, enabled |-> offered \cap wanted(d)]
                                 ELSE [ok |-> FALSE, enabled |-> {}]

(* A slot without a device is left alone.                                  *)
attach_virtio(board, d) ==
  IF d \in DOMAIN board THEN virtio_negotiate_features(d, board[d])
                        ELSE [ok |-> FALSE, enabled |-> {}]

NoDevice == [ready |-> FALSE, active |-> FALSE, last |-> 0, late |-> FALSE, istat |-> FALSE,
             resets |-> FALSE]
driver(f) == [attached |-> f.ok, opened |-> "no", lock |-> NoThread, avail |-> 0, used |-> 0]

vioblk_attach == [type |-> "IN", sector |-> 0, wr |-> FALSE, len |-> SECSZ, data |-> 0,
                  status |-> "OK"]
viorng_attach == [type |-> "IN", sector |-> 0, wr |-> FALSE, len |-> 0,
                  data |-> [i \in 1 .. RNGBUF |-> STALE], status |-> "OK"]

(* The enable registers of the PLIC, per context: hart i in M or S mode.   *)
(* The kernel serves context 1, S mode on hart 0, and routes everything    *)
(* there.                                                                  *)
CTX(i, s) == 2 * i + s
plic_disable_all_sources == [c \in {CTX(0, 0), CTX(0, 1)} |-> {}]
plic_enable_all_sources_for_context(en, c) == [en EXCEPT ![c] = Devs]
enable == plic_enable_all_sources_for_context(plic_disable_all_sources, CTX(0, 1))

(* All sources are disabled by their priority.                             *)
plic_init == [d \in Devs |-> [pend |-> FALSE, prio |-> 0, isr |-> FALSE]]

Init ==
  /\ \E board \in Boards :
       LET f == [d \in Devs |-> attach_virtio(board, d)] IN
       /\ drv = [d \in Devs |-> driver(f[d])]
       /\ dev = [d \in Devs |-> [NoDevice EXCEPT !.resets = "RING_RESET" \in f[d].enabled]]
  /\ req = [blk |-> vioblk_attach, rng |-> viorng_attach]
  /\ disk = [s \in Secs |-> 0]
  /\ plic = plic_init
  /\ irq = <<>> /\ panic = FALSE
  /\ pc = [t \in Threads |-> "user"] /\ job = [t \in Threads |-> NoCall]
  /\ faults = 0 /\ calls = 0

---------------------------------------------------------------------------
(* Opening and closing.  The interrupt may come between the two halves.    *)

NoIrq == irq = <<>> /\ ~panic
DevOf(t) == IF job[t].op = "recv" THEN "rng" ELSE "blk"
NoCallOn(d) == \A t \in Threads : job[t].op # "none" => DevOf(t) # d

plic_set_source_priority(d, level) == plic' = [plic EXCEPT ![d].prio = level]
set_isr(d, on) == plic' = [plic EXCEPT ![d].isr = on]

(* Fault: the source is enabled before its handler is set.                 *)
enable_intr_source_Early(d, half) ==
  IF half = 1 THEN plic_set_source_priority(d, 1) ELSE set_isr(d, TRUE)

(* The two assignments of each, between which an interrupt may come.       *)
enable_intr_source(d, half) ==
  IF half = 1 THEN set_isr(d, TRUE) ELSE plic_set_source_priority(d, 1)

disable_intr_source(d, half) ==
  IF half = 1 THEN plic_set_source_priority(d, 0) ELSE set_isr(d, FALSE)

(* virtio_enable_virtq and the start of enable_intr_source.                *)
open_start(d) ==
  /\ NoIrq /\ drv[d].attached /\ drv[d].opened = "no"
  /\ drv' = [drv EXCEPT ![d].opened = "opening"]
  /\ dev' = [dev EXCEPT ![d].ready = TRUE]
  /\ enable_intr_source(d, 1)
  /\ UNCHANGED <<req, disk, irq, panic, pc, job, faults, calls>>

open_end(d) ==
  /\ NoIrq /\ drv[d].opened = "opening"
  /\ drv' = [drv EXCEPT ![d].opened = "yes"]
  /\ enable_intr_source(d, 2)
  /\ UNCHANGED <<req, dev, disk, irq, panic, pc, job, faults, calls>>

(* A device is closed with the last reference, when no call is running.    *)
close_start(d) ==
  /\ NoIrq /\ drv[d].opened = "yes" /\ NoCallOn(d)
  /\ drv' = [drv EXCEPT ![d].opened = "closing"]
  /\ disable_intr_source(d, 1)
  /\ UNCHANGED <<req, dev, disk, irq, panic, pc, job, faults, calls>>

virtio_reset_virtq(h) == IF h.resets THEN [h EXCEPT !.last = 0, !.ready = FALSE] ELSE h

close_end(d) ==
  /\ NoIrq /\ drv[d].opened = "closing"
  /\ drv' = [drv EXCEPT ![d].opened = "no"]
  /\ disable_intr_source(d, 2)
  /\ dev' = [dev EXCEPT ![d] = virtio_reset_virtq(@)]
  /\ UNCHANGED <<req, disk, irq, panic, pc, job, faults, calls>>

vioblk_storage_open == open_start("blk") \/ open_end("blk")
vioblk_storage_close == close_start("blk") \/ close_end("blk")
viorng_serial_open == open_start("rng") \/ open_end("rng")
viorng_serial_close == close_start("rng") \/ close_end("rng")

---------------------------------------------------------------------------
(* vioblk_storage_fetch, vioblk_storage_store and viorng_serial_recv up to *)
(* lock_acquire.                                                           *)

RoundDown(n) == (n \div BLKSZ) * BLKSZ

transfer_size(pos, n) ==
  IF pos + RoundDown(n) > CAPACITY THEN RoundDown(CAPACITY - pos) ELSE RoundDown(n)

enter(t, j) == /\ job' = [job EXCEPT ![t] = j]
               /\ pc' = [pc EXCEPT ![t] = IF j.op = "none" THEN "user" ELSE "lock"]
               /\ calls' = IF j.op = "none" THEN calls ELSE calls + 1
               /\ UNCHANGED <<drv, req, hwVars>>

block_call(t, op, pos, n, v) ==
  /\ NoIrq /\ pc[t] = "user" /\ drv["blk"].opened \in {"yes", "no"} /\ calls < MaxCalls
  /\ IF drv["blk"].opened = "no" \/ pos % SECSZ # 0 \/ pos > CAPACITY
     THEN enter(t, NoCall)                                   (* -EINVAL      *)
     ELSE LET k == transfer_size(pos, n) IN
          enter(t, IF k = 0 THEN NoCall
                   ELSE [op |-> op, sec |-> pos \div SECSZ, left |-> k \div SECSZ, val |-> v,
                         buf |-> <<>>, ret |-> k])

vioblk_storage_fetch(t, pos, n) == block_call(t, "fetch", pos, n, 0)
vioblk_storage_store(t, pos, n, v) == block_call(t, "store", pos, n, v)

viorng_serial_recv(t, bufsz) ==
  /\ NoIrq /\ pc[t] = "user" /\ drv["rng"].opened \in {"yes", "no"} /\ calls < MaxCalls
  /\ LET k == IF bufsz > RNGBUF THEN RNGBUF ELSE bufsz IN
     enter(t, IF drv["rng"].opened = "no" \/ k = 0 THEN NoCall
              ELSE [op |-> "recv", sec |-> 0, left |-> k, val |-> 0, buf |-> <<>>, ret |-> k])

(* Fault: the lock is not waited for.                                      *)
locked_Busy(t) ==
  /\ NoIrq /\ pc[t] = "lock"
  /\ drv' = [drv EXCEPT ![DevOf(t)].lock = t]
  /\ pc' = [pc EXCEPT ![t] = "fill"]
  /\ UNCHANGED <<req, job, hwVars, calls>>

(* lock_acquire returns.                                                   *)
locked(t) ==
  /\ NoIrq /\ pc[t] = "lock" /\ drv[DevOf(t)].lock = NoThread
  /\ drv' = [drv EXCEPT ![DevOf(t)].lock = t]
  /\ pc' = [pc EXCEPT ![t] = "fill"]
  /\ UNCHANGED <<req, job, hwVars, calls>>

(* Filling the request and advancing availq.idx; the notification is a     *)
(* step of its own, because a device that is still busy may take the       *)
(* request before it.                                                      *)
fetch_request(j, r) == [r EXCEPT !.type = "IN", !.sector = j.sec, !.wr = TRUE]
store_request(j, r) == [r EXCEPT !.type = "OUT", !.sector = j.sec, !.data = j.val, !.wr = FALSE]
recv_request(j, r) == [r EXCEPT !.len = j.left, !.wr = TRUE]

filled(j, r) == CASE j.op = "fetch" -> fetch_request(j, r)
                  [] j.op = "store" -> store_request(j, r)
                  [] j.op = "recv"  -> recv_request(j, r)

fill(t) ==
  /\ NoIrq /\ pc[t] = "fill"
  /\ req' = [req EXCEPT ![DevOf(t)] = filled(job[t], @)]
  /\ drv' = [drv EXCEPT ![DevOf(t)].avail = (@ + 1) % IDX]
  /\ pc' = [pc EXCEPT ![t] = "notify"]
  /\ UNCHANGED <<job, hwVars, calls>>

virtio_notify_avail(t) ==
  /\ NoIrq /\ pc[t] = "notify"
  /\ dev' = [dev EXCEPT ![DevOf(t)].active = @ \/ dev[DevOf(t)].ready]
  /\ pc' = [pc EXCEPT ![t] = "check"]
  /\ UNCHANGED <<drv, req, disk, plic, irq, panic, job, faults, calls>>

---------------------------------------------------------------------------
(* The wait and what follows it.                                           *)

Done(d) == drv[d].used = drv[d].avail

(* The call after the request it waits for has been served: the data are   *)
(* copied before the status is looked at.                                  *)
fetched(j, r) ==
  LET c == [j EXCEPT !.buf = Append(@, r.data)] IN
  IF r.status # "OK" THEN [c EXCEPT !.left = 0, !.ret = EIO]
  ELSE [c EXCEPT !.sec = @ + 1, !.left = @ - 1]

stored(j, r) == IF r.status # "OK" THEN [j EXCEPT !.left = 0, !.ret = EIO]
                ELSE [j EXCEPT !.sec = @ + 1, !.left = @ - 1]

received(j, r) == [j EXCEPT !.buf = SubSeq(r.data, 1, j.left), !.left = 0]

after(j, r) == CASE j.op = "fetch" -> fetched(j, r)
                 [] j.op = "store" -> stored(j, r)
                 [] j.op = "recv"  -> received(j, r)

(* usedq.idx has not caught up: condition_wait.                            *)
wait(t) ==
  /\ NoIrq /\ pc[t] = "check" /\ ~Done(DevOf(t))
  /\ pc' = [pc EXCEPT ![t] = "wait"]
  /\ UNCHANGED <<drv, req, job, hwVars, calls>>

(* It has: copy out, look at the status, and go on with the next sector or *)
(* release the lock and return.  The entropy that was copied is stale.     *)
proceed(t) ==
  LET d == DevOf(t)
      j == after(job[t], req[d])
  IN /\ NoIrq /\ pc[t] = "check" /\ Done(d)
     /\ job' = [job EXCEPT ![t] = IF j.left > 0 THEN j ELSE NoCall]
     /\ pc' = [pc EXCEPT ![t] = IF j.left > 0 THEN "fill" ELSE "user"]
     /\ drv' = IF j.left > 0 THEN drv ELSE [drv EXCEPT ![d].lock = NoThread]
     /\ req' = IF d = "blk" THEN req
               ELSE [req EXCEPT !.rng.data = [i \in DOMAIN @ |-> IF i <= req.rng.len THEN STALE ELSE @[i]]]
     /\ UNCHANGED <<hwVars, calls>>

---------------------------------------------------------------------------
(* The devices (external).  A device that was notified serves requests     *)
(* until it finds none, and interrupts after each.  The entropy source is  *)
(* assumed to fill the whole buffer of a request: it may give fewer bytes  *)
(* and say so in the used ring, where viorng_serial_recv does not look.    *)

CanServe(d) == dev[d].active /\ ~dev[d].late /\ dev[d].last # drv[d].avail

serve(d, r, status) ==
  /\ CanServe(d)
  /\ drv' = [drv EXCEPT ![d].used = (dev[d].last + 1) % IDX]
  /\ dev' = [dev EXCEPT ![d].last = (@ + 1) % IDX, ![d].late = TRUE]
  /\ req' = [req EXCEPT ![d] = [r EXCEPT !.status = status]]
  /\ UNCHANGED <<plic, irq, panic, pc, job, calls>>

serve_ok(d) ==
  LET r == req[d] IN
  /\ CASE d = "rng" -> serve(d, [r EXCEPT !.data = [i \in DOMAIN @ |-> IF i <= r.len THEN FRESH ELSE @[i]]], "OK")
       [] d = "blk" /\ r.type = "IN" -> serve(d, [r EXCEPT !.data = disk[r.sector]], "OK")
       [] d = "blk" /\ r.type = "OUT" -> serve(d, r, "OK")
  /\ d = "blk" => r.wr = (r.type = "IN")
  /\ disk' = IF d = "blk" /\ r.type = "OUT" THEN [disk EXCEPT ![r.sector] = r.data] ELSE disk
  /\ UNCHANGED faults

serve_error ==
  LET r == req["blk"] IN
  /\ faults < MaxFaults /\ faults' = faults + 1
  /\ IF r.type = "IN" THEN disk' = disk /\ \E v \in Vals : serve("blk", [r EXCEPT !.data = v], "IOERR")
     ELSE /\ serve("blk", r, "IOERR")
          /\ disk' = disk \/ disk' = [disk EXCEPT ![r.sector] = r.data]

served_all(d) ==
  /\ dev[d].active /\ ~dev[d].late /\ dev[d].last = drv[d].avail
  /\ dev' = [dev EXCEPT ![d].active = FALSE]
  /\ UNCHANGED <<drv, req, disk, plic, irq, panic, pc, job, faults, calls>>

raise(d) ==
  /\ dev[d].late
  /\ dev' = [dev EXCEPT ![d].late = FALSE, ![d].istat = TRUE]
  /\ plic' = [plic EXCEPT ![d].pend = TRUE]
  /\ UNCHANGED <<drv, req, disk, irq, panic, pc, job, faults, calls>>

---------------------------------------------------------------------------
(* handle_extern_interrupt.                                                *)

(* A claim takes a pending source of the highest priority and clears its   *)
(* pending bit; until it is completed irq names the source.                *)
Claimable == {d \in enable[CTX(0, 1)] : plic[d].pend /\ plic[d].prio > 0}

plic_claim_interrupt(d) ==
  /\ d \in Claimable /\ \A e \in Claimable : plic[e].prio <= plic[d].prio
  /\ plic' = [plic EXCEPT ![d].pend = FALSE]

plic_finish_interrupt == irq' = <<>>

(* Without a handler the kernel panics.                                    *)
handle_extern_interrupt(d) ==
  /\ NoIrq
  /\ plic_claim_interrupt(d)
  /\ panic' = ~plic[d].isr
  /\ irq' = IF plic[d].isr THEN <<d, "status">> ELSE <<>>
  /\ UNCHANGED <<drv, req, dev, disk, pc, job, faults, calls>>

At(d, place) == irq = <<d, place>>

isr_ack(d) ==
  /\ dev' = [dev EXCEPT ![d].istat = FALSE]
  /\ irq' = <<d, "wake">>
  /\ UNCHANGED <<drv, req, disk, plic, panic, pc, job, faults, calls>>

(* condition_broadcast on the conditions of the device, the last thing the *)
(* handler does.                                                           *)
isr_wake(d) ==
  /\ pc' = [t \in Threads |-> IF pc[t] = "wait" /\ DevOf(t) = d THEN "check" ELSE pc[t]]
  /\ plic_finish_interrupt
  /\ UNCHANGED <<drv, req, dev, disk, plic, panic, job, faults, calls>>

(* The status is read and written back: a completion may come between.     *)
isr_status(d, next) ==
  /\ irq' = next
  /\ UNCHANGED <<drv, req, dev, disk, plic, panic, pc, job, faults, calls>>

vioblk_isr == \/ At("blk", "status") /\ isr_status("blk", <<"blk", "ack">>)
              \/ At("blk", "ack") /\ isr_ack("blk")
              \/ At("blk", "wake") /\ isr_wake("blk")

(* viorng_isr goes on only when the status is set.                         *)
viorng_isr == \/ At("rng", "status") /\ isr_status("rng", IF dev["rng"].istat THEN <<"rng", "ack">> ELSE <<>>)
              \/ At("rng", "ack") /\ isr_ack("rng")
              \/ At("rng", "wake") /\ isr_wake("rng")

---------------------------------------------------------------------------
Next ==
  \/ vioblk_storage_open \/ vioblk_storage_close \/ viorng_serial_open \/ viorng_serial_close
  \/ \E d \in Devs : serve_ok(d) \/ served_all(d) \/ raise(d) \/ handle_extern_interrupt(d)
  \/ serve_error \/ vioblk_isr \/ viorng_isr
  \/ \E t \in Threads :
       \/ \E r \in Ranges : \/ vioblk_storage_fetch(t, r[1], r[2])
                            \/ \E v \in Vals \ {0} : vioblk_storage_store(t, r[1], r[2], v)
                            \/ viorng_serial_recv(t, r[2])
       \/ locked(t) \/ fill(t) \/ virtio_notify_avail(t) \/ wait(t) \/ proceed(t)

Spec == Init /\ [][Next]_vars

(* Devices answer, the handler runs to its end, and the hart takes a       *)
(* pending interrupt and runs a ready thread again and again.  Nothing     *)
(* makes a caller call, and a lock is not handed over.                     *)
FairSpec ==
  /\ Spec
  /\ WF_vars(vioblk_isr \/ viorng_isr)
  /\ \A d \in Devs : /\ WF_vars(serve_ok(d) \/ (d = "blk" /\ serve_error))
                     /\ WF_vars(raise(d))
                     /\ WF_vars(served_all(d))
                     /\ SF_vars(handle_extern_interrupt(d))
  /\ \A t \in Threads : SF_vars(fill(t) \/ virtio_notify_avail(t) \/ wait(t) \/ proceed(t))

---------------------------------------------------------------------------
(* Properties.                                                             *)

(* No external interrupt finds its handler missing: a completion that      *)
(* arrives while a device is opened or closed, and one that was left       *)
(* pending when it was last closed, is either taken with the handler in    *)
(* place or not taken (intr.c:77-90, 124).                                 *)
InterruptsHandled == ~panic

(* A call whose request has been served, and that has not yet looked.      *)
Served(t) == pc[t] \in {"notify", "check", "wait"} /\ Done(DevOf(t))

T == INSTANCE Transfers WITH
       opened <- {d \in Devs : drv[d].opened \in {"yes", "closing"}},
       job <- [t \in Threads |-> IF Served(t) THEN after(job[t], req[DevOf(t)]) ELSE job[t]]

(* The drivers implement Transfers: through the one request buffer, lock   *)
(* and completion count of a device, every call gets the sectors or the    *)
(* entropy of its own requests and reports the number of bytes moved,      *)
(* as long as the entropy source fills every request (viorng.c:279-285).   *)
ImplementsTransfers == T!Spec

(* The lock of a device is always released again: the call that holds it   *)
(* returns, through every completion, error and interrupt, whether it is   *)
(* early, late or spurious, also after the device was closed and opened    *)
(* again (vioblk.c:410-414, 496-500, 551-554; viorng.c:268-274, 311-316).  *)
DevicesFreed == \A d \in Devs : drv[d].lock # NoThread ~> drv[d].lock = NoThread
=============================================================================
