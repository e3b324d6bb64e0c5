-------------------------------- MODULE Uart --------------------------------
(***************************************************************************)
(* The UART driver (sys/dev/uart.c): two ring buffers between the threads  *)
(* in recv and send and the interrupt handler, the interrupt enable        *)
(* register that both sides change, and one lock for both directions.      *)
(*                                                                         *)
(* Kernel code is not preempted by threads, but with interrupts enabled    *)
(* the handler may run between any two instructions.  "ier |= bit" is      *)
(* therefore a load and a store, and the handler may run between them; a   *)
(* check of a buffer and the wait that follows it run with interrupts off  *)
(* and are one step.  A call that starts with interrupts off (a system     *)
(* call) has fewer interleavings, which are among these.                   *)
(***************************************************************************)
EXTENDS Integers, Sequences, FiniteSets, SequencesExt

CONSTANTS
  Readers, Writers,   (* threads that call recv and send                     *)
  RBUFSZ,             (* UART_RBUFSZ                                         *)
  UINT,               (* 2^32: positions are unsigned int                    *)
  RxBytes, TxBytes,   (* bytes that arrive and bytes that are sent           *)
  NoByte, NoThread,
  MaxLen              (* bound: length of one call                           *)

ASSUME ThreadsAssumption == Readers \cap Writers = {} /\ NoThread \notin Readers \cup Writers
ASSUME UartRingAssumption == /\ RBUFSZ \in Nat \ {0} /\ UINT \in Nat
                             /\ UINT % RBUFSZ = 0 /\ UINT > RBUFSZ
                             /\ NoByte \notin RxBytes \cup TxBytes /\ MaxLen \in Nat \ {0}

Thr == Readers \cup Writers

VARIABLES
  opened,
  ier,          (* the enabled interrupts, a subset of {"DRIE", "THREIE"}    *)
  rbr, thr,     (* the registers; LSR.DR: rbr is not empty, LSR.THRE: thr is *)
  rxbuf, txbuf, (* [hpos, tpos, data]                                        *)
  lock,         (* the holder of uart->lock                                  *)
  pc,           (* "user", "lock", then the places of the loop: "load1",     *)
                (* "store1", "check", "wait", "load2", "store2", "move"      *)
  left,         (* bytes the call has still to move                          *)
  old,          (* ier as last loaded, by the holder of the lock             *)
  taken         (* the byte that the last step handed to a reader, if any    *)

devVars == <<rbr, thr>>
bufVars == <<rxbuf, txbuf>>
vars == <<opened, ier, rbr, thr, rxbuf, txbuf, lock, pc, left, old, taken>>

(* attach_uart.                                                            *)
Init ==
  /\ opened = FALSE /\ ier = {}
  /\ rbr = NoByte /\ thr = NoByte
  /\ LET ring == [hpos |-> 0, tpos |-> 0, data |-> [i \in 0 .. RBUFSZ - 1 |-> NoByte]]
     IN rxbuf = ring /\ txbuf = ring
  /\ lock = NoThread
  /\ pc = [t \in Thr |-> "user"] /\ left = [t \in Thr |-> 0]
  /\ old = {} /\ taken = NoByte

---------------------------------------------------------------------------
(* Ring buffers.                                                           *)

rbuf_init(rb) == [rb EXCEPT !.hpos = 0, !.tpos = 0]
rbuf_empty(rb) == rb.hpos = rb.tpos

(* Fault: one byte too many.                                               *)
rbuf_full_Late(rb) == (rb.tpos - rb.hpos) % UINT = RBUFSZ + 1

rbuf_full(rb) == (rb.tpos - rb.hpos) % UINT = RBUFSZ
rbuf_putc(rb, c) == [rb EXCEPT !.data[rb.tpos % RBUFSZ] = c, !.tpos = (@ + 1) % UINT]
rbuf_getc(rb) == [rb EXCEPT !.hpos = (@ + 1) % UINT]
FirstByte(rb) == rb.data[rb.hpos % RBUFSZ]

---------------------------------------------------------------------------
(* Opening and closing; a device is closed with its last reference, when   *)
(* no thread is in a call.                                                 *)

uart_serial_open ==
  /\ ~opened
  /\ opened' = TRUE
  /\ rxbuf' = rbuf_init(rxbuf) /\ txbuf' = rbuf_init(txbuf)
  /\ rbr' = NoByte
  /\ ier' = ier \cup {"DRIE"}
  /\ taken' = NoByte
  /\ UNCHANGED <<thr, lock, pc, left, old>>

uart_serial_close ==
  /\ opened
  /\ \A t \in Thr : pc[t] = "user"
  /\ opened' = FALSE
  /\ ier' = {}
  /\ taken' = NoByte
  /\ UNCHANGED <<devVars, bufVars, lock, pc, left, old>>

---------------------------------------------------------------------------
(* uart_serial_recv and uart_serial_send, which differ in the buffer, the  *)
(* interrupt and the condition they use.                                   *)

BitOf(t) == IF t \in Readers THEN "DRIE" ELSE "THREIE"
MustWait(t) == IF t \in Readers THEN rbuf_empty(rxbuf) ELSE rbuf_full(txbuf)

Goto(t, p) == pc' = [pc EXCEPT ![t] = p]

call(t) ==
  /\ opened /\ pc[t] = "user"
  /\ \E n \in 1 .. MaxLen : left' = [left EXCEPT ![t] = n]
  /\ Goto(t, "lock")
  /\ taken' = NoByte
  /\ UNCHANGED <<opened, ier, devVars, bufVars, lock, old>>

(* lock_acquire returns.                                                   *)
locked(t) ==
  /\ pc[t] = "lock" /\ lock = NoThread
  /\ lock' = t
  /\ Goto(t, "load1")
  /\ taken' = NoByte
  /\ UNCHANGED <<opened, ier, devVars, bufVars, left, old>>

(* uart->regs->ier |= bit, before the wait and after it; statements that   *)
(* follow one another (after the move and at the top of the loop) are one. *)
load(t) ==
  /\ \/ pc[t] = "load1" /\ Goto(t, "store1")
     \/ pc[t] = "load2" /\ Goto(t, "store2")
  /\ old' = ier
  /\ taken' = NoByte
  /\ UNCHANGED <<opened, ier, devVars, bufVars, lock, left>>

(* Fault: the bit is not set again.                                        *)
Enabled_Not(t) == old

(* The value stored.                                                       *)
Enabled(t) == old \cup {BitOf(t)}

(* After the last byte the lock is released and the call returns.          *)
store(t) ==
  /\ \/ /\ pc[t] = "store1" /\ left[t] > 0
        /\ Goto(t, "check") /\ UNCHANGED lock
     \/ /\ pc[t] = "store1" /\ left[t] = 0
        /\ Goto(t, "user") /\ lock' = NoThread
     \/ /\ pc[t] = "store2"
        /\ Goto(t, "move") /\ UNCHANGED lock
  /\ ier' = Enabled(t)
  /\ old' = {}
  /\ taken' = NoByte
  /\ UNCHANGED <<opened, devVars, bufVars, left>>

(* The check with interrupts off, and condition_wait; a woken thread       *)
(* checks again.                                                           *)
check(t) ==
  /\ pc[t] = "check"
  /\ Goto(t, IF MustWait(t) THEN "wait" ELSE "load2")
  /\ taken' = NoByte
  /\ UNCHANGED <<opened, ier, devVars, bufVars, lock, left, old>>

recv_move(t) ==
  /\ t \in Readers /\ pc[t] = "move"
  /\ taken' = FirstByte(rxbuf)
  /\ rxbuf' = rbuf_getc(rxbuf)
  /\ left' = [left EXCEPT ![t] = @ - 1]
  /\ Goto(t, "load1")
  /\ UNCHANGED <<opened, ier, devVars, txbuf, lock, old>>

send_move(t) ==
  /\ t \in Writers /\ pc[t] = "move"
  /\ \E b \in TxBytes : txbuf' = rbuf_putc(txbuf, b)
  /\ left' = [left EXCEPT ![t] = @ - 1]
  /\ Goto(t, "load1")
  /\ taken' = NoByte
  /\ UNCHANGED <<opened, ier, devVars, rxbuf, lock, old>>

---------------------------------------------------------------------------
(* The interrupt handler.                                                  *)

Pending == \/ "DRIE" \in ier /\ rbr # NoByte
           \/ "THREIE" \in ier /\ thr = NoByte

(* condition_broadcast: the threads of ts that wait check again.           *)
Woken(ts) == [t \in Thr |-> IF t \in ts /\ pc[t] = "wait" THEN "check" ELSE pc[t]]

(* Fault: only readers are woken.                                          *)
WakesWriters_Not(sends) == {}

(* Who is woken when a byte has left the transmit buffer.                  *)
WakesWriters(sends) == IF sends THEN Writers ELSE {}

uart_isr ==
  LET receives == rbr # NoByte /\ ~rbuf_full(rxbuf)
      rx == IF receives THEN rbuf_putc(rxbuf, rbr) ELSE rxbuf
      sends == thr = NoByte /\ ~rbuf_empty(txbuf)
      tx == IF sends THEN rbuf_getc(txbuf) ELSE txbuf
  IN /\ opened /\ Pending
     /\ rxbuf' = rx /\ txbuf' = tx
     /\ rbr' = IF receives THEN NoByte ELSE rbr
     /\ thr' = IF sends THEN FirstByte(txbuf) ELSE thr
     /\ ier' = ier \ ({b \in {"DRIE"} : rbr # NoByte /\ rbuf_full(rx)}
                      \cup {b \in {"THREIE"} : thr = NoByte /\ rbuf_empty(tx)})
     /\ pc' = Woken((IF receives THEN Readers ELSE {}) \cup WakesWriters(sends))
     /\ taken' = NoByte
     /\ UNCHANGED <<opened, lock, left, old>>

---------------------------------------------------------------------------
(* The device (external): bytes arrive and leave at any time.              *)

arrive(b) ==
  /\ rbr' = b
  /\ taken' = NoByte
  /\ UNCHANGED <<opened, ier, thr, bufVars, lock, pc, left, old>>

shift_out ==
  /\ thr # NoByte
  /\ thr' = NoByte
  /\ taken' = NoByte
  /\ UNCHANGED <<opened, ier, rbr, bufVars, lock, pc, left, old>>

CallStep(t) == locked(t) \/ load(t) \/ store(t) \/ check(t) \/ recv_move(t) \/ send_move(t)

Next ==
  \/ uart_serial_open \/ uart_serial_close
  \/ \E t \in Thr : call(t) \/ CallStep(t)
  \/ uart_isr
  \/ \E b \in RxBytes : arrive(b)
  \/ shift_out

Spec == Init /\ [][Next]_vars

(* The thread manager schedules ready threads (module Threads, ReadyRuns); *)
(* interrupts are taken; the transmitter finishes; and somebody keeps      *)
(* typing: without input a recv waits for ever, with the lock.  Nothing is *)
(* assumed of who gets the lock: a thread that releases it may take it     *)
(* again before a woken waiter runs.                                       *)
Fairness ==
  /\ \A t \in Thr : WF_vars(load(t) \/ store(t) \/ check(t) \/ recv_move(t) \/ send_move(t))
  /\ WF_vars(uart_isr) /\ WF_vars(shift_out)
  /\ WF_vars(rbr = NoByte /\ \E b \in RxBytes : arrive(b))

FairSpec == Spec /\ Fairness

---------------------------------------------------------------------------
(* Correctness.                                                            *)

(* A thread in condition_wait has something to wait for, and the interrupt *)
(* that will end the wait is enabled, although the handler clears bits     *)
(* between the loads and stores of the threads.                            *)
WaitsServed ==
  \A t \in Thr : pc[t] = "wait" => MustWait(t) /\ BitOf(t) \in ier

(* The bytes in a ring buffer, oldest first.                               *)
Queued(rb) == [i \in 1 .. (rb.tpos - rb.hpos) % UINT |-> rb.data[(rb.hpos + i - 1) % RBUFSZ]]

Line == INSTANCE SerialLine WITH
          CAP <- RBUFSZ, Bytes <- RxBytes \cup TxBytes,
          inq <- IF opened THEN Queued(rxbuf) \o (IF rbr = NoByte THEN <<>> ELSE <<rbr>>) ELSE <<>>,
          outq <- IF opened THEN Queued(txbuf) ELSE <<>>

(* Bytes are handed to readers in the order they arrived and to the        *)
(* transmitter in the order they were sent, none twice and none lost but   *)
(* by overrun, whatever the handler interrupts.                            *)
ImplementsLine == Line!Spec

(* While input keeps coming every recv and every send that has the lock    *)
(* returns, and so releases it: no byte stays in a buffer with its         *)
(* interrupt off, and no wakeup is missed.                                 *)
CallsReturn == \A t \in Thr : lock = t ~> pc[t] = "user"
=============================================================================
