---------------------------- MODULE SerialLine ----------------------------
(***************************************************************************)
(* What a serial device promises its callers: two queues of bounded        *)
(* length, one from the line to the readers and one from the writers to    *)
(* the transmitter.  Opening and closing the device empties both, and a    *)
(* byte that arrives before the last one was fetched replaces it.          *)
(***************************************************************************)
EXTENDS Integers, Sequences, SequencesExt

CONSTANTS Bytes, CAP,
          NoByte

VARIABLES inq, outq,  (* the queues                                          *)
          taken,      (* the byte the last step handed to a reader, if any   *)
          thr         (* the byte in the transmitter                         *)

Init == inq = <<>> /\ outq = <<>> /\ taken = NoByte /\ thr = NoByte

Arrive == /\ Len(inq) <= CAP
          /\ \E b \in Bytes : inq' = Append(inq, b)
          /\ taken' = NoByte /\ UNCHANGED <<outq, thr>>

Overrun == /\ inq # <<>>
           /\ \E b \in Bytes : inq' = Append(Front(inq), b)
           /\ taken' = NoByte /\ UNCHANGED <<outq, thr>>

Take == /\ inq # <<>>
        /\ taken' = Head(inq)
        /\ inq' = Tail(inq)
        /\ UNCHANGED <<outq, thr>>

Put == /\ Len(outq) < CAP
       /\ \E b \in Bytes : outq' = Append(outq, b)
       /\ taken' = NoByte /\ UNCHANGED <<inq, thr>>

Transmit == /\ thr = NoByte /\ outq # <<>>
            /\ thr' = Head(outq)
            /\ outq' = Tail(outq)
            /\ taken' = NoByte /\ UNCHANGED inq

Shifted == thr' = NoByte /\ taken' = NoByte /\ UNCHANGED <<inq, outq>>

Reset == inq' = <<>> /\ outq' = <<>> /\ taken' = NoByte /\ UNCHANGED thr

Other == taken' = NoByte /\ UNCHANGED <<inq, outq, thr>>

Next == Arrive \/ Overrun \/ Take \/ Put \/ Transmit \/ Shifted \/ Reset \/ Other

Spec == Init /\ [][Next]_<<inq, outq, taken, thr>>
=============================================================================
