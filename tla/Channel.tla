------------------------------ MODULE Channel ------------------------------
(***************************************************************************)
(* What a pipe promises: a bounded first-in first-out byte channel.  Bytes *)
(* are received in the order they were sent, each once; the end of the     *)
(* stream is reported only after the last byte was received and no writer  *)
(* is left, and a broken pipe only when no reader is left.                 *)
(***************************************************************************)
EXTENDS Integers, Sequences

CONSTANTS CAP,        (* PAGE_SIZE                                           *)
          Bytes, MaxLen

VARIABLES chan,       (* bytes sent and not yet received                     *)
          readers, writers,   (* references to the two ends                  *)
          ret         (* what the last step returned                         *)

Messages == UNION {[1 .. n -> Bytes] : n \in 1 .. MaxLen}
NoReturn == <<"none", <<>>>>

Init == /\ chan = <<>>
        /\ readers = 0 /\ writers = 0
        /\ ret = NoReturn

Create == /\ readers = 0 /\ writers = 0 /\ chan = <<>>
          /\ readers' = 1 /\ writers' = 1
          /\ ret' = NoReturn
          /\ UNCHANGED chan

Send == /\ readers > 0 /\ writers > 0
        /\ \E m \in Messages :
             /\ Len(chan) + Len(m) <= CAP
             /\ chan' = chan \o m
             /\ ret' = <<"wrote", m>>
        /\ UNCHANGED <<readers, writers>>

Receive == /\ readers > 0
           /\ \E n \in 1 .. Len(chan) :
                /\ ret' = <<"read", SubSeq(chan, 1, n)>>
                /\ chan' = SubSeq(chan, n + 1, Len(chan))
           /\ UNCHANGED <<readers, writers>>

EndOfStream == /\ readers > 0 /\ writers = 0 /\ chan = <<>>
               /\ ret' = <<"eof", <<>>>>
               /\ UNCHANGED <<chan, readers, writers>>

BrokenPipe == /\ writers > 0 /\ readers = 0
              /\ ret' = <<"EPIPE", <<>>>>
              /\ UNCHANGED <<chan, readers, writers>>

(* References multiply and go, but an end without one stays closed.        *)
References == /\ readers' \in Nat /\ writers' \in Nat
              /\ readers = 0 => readers' = 0
              /\ writers = 0 => writers' = 0
              /\ ret' = NoReturn
          /\ UNCHANGED chan

Next == Create \/ Send \/ Receive \/ EndOfStream \/ BrokenPipe \/ References

Spec == Init /\ [][Next]_<<chan, readers, writers, ret>>
=============================================================================
