----------------------------- MODULE FileStore -----------------------------
(***************************************************************************)
(* What the file system promises: a set of named files, each a sequence of *)
(* bytes of its own, read and written at the position of an open file.     *)
(* The promise ends at any call at which the machine halts (a panic),      *)
(* which writes data to a block the device does not have, or which writes  *)
(* through the handle of a file that was deleted.                          *)
(***************************************************************************)
EXTENDS Integers, Sequences

CONSTANTS Names, Bytes,
          MaxSize     (* the largest file                                    *)

VARIABLES up,         (* FALSE once nothing is promised any more             *)
          names,      (* the files that exist                                *)
          files,      (* the content of each file                            *)
          pos,        (* the position of each open file; -1 if it is not     *)
          orphans,    (* the open files that were deleted                    *)
          listing,    (* "none", "open", or "torn": a file was deleted since *)
          listed,     (* the names it has returned                           *)
          ret         (* the bytes the last step read, or the name it listed *)

Open(n) == pos[n] # -1

Init == /\ up = TRUE
        /\ names = {}
        /\ files = [n \in Names |-> <<>>]
        /\ pos = [n \in Names |-> -1]
        /\ orphans = {}
        /\ listing = "none" /\ listed = {}
        /\ ret = <<>>

Create(n) == /\ ret' = <<>> /\ UNCHANGED <<pos, orphans>>
             /\ n \notin names
             /\ names' = names \cup {n}
             /\ UNCHANGED files

Delete(n) == /\ ret' = <<>> /\ UNCHANGED pos
             /\ n \in names
             /\ names' = names \ {n}
             /\ files' = [files EXCEPT ![n] = <<>>]
             /\ orphans' = orphans \cup {m \in {n} : Open(m)}

(* Only the position of n changes, if any does.                            *)
Only(n) == \A m \in Names \ {n} : pos'[m] = pos[m]

(* Opening, closing and seeking, also past the end.                        *)
Move(n) == /\ ret' = <<>>
           /\ Only(n)
           /\ n \in names \/ Open(n)
           /\ pos'[n] \in -1 .. MaxSize
           /\ orphans' = IF pos'[n] = -1 THEN orphans \ {n} ELSE orphans
           /\ UNCHANGED <<names, files>>

Read(n) == /\ Open(n) /\ Only(n) /\ n \notin orphans
           /\ pos'[n] \in pos[n] .. Len(files[n])
           /\ ret' = SubSeq(files[n], pos[n] + 1, pos'[n])
           /\ UNCHANGED <<names, files, orphans>>

(* A read past the end fails; one of a deleted file may return anything.   *)
ReadNothing(n) == /\ Open(n)
                  /\ \/ n \in orphans /\ Only(n)
                     \/ pos[n] > Len(files[n]) /\ ret' = <<>> /\ UNCHANGED pos
                  /\ UNCHANGED <<names, files, orphans>>

(* The file n has byte b from position p to position q, and what it had    *)
(* elsewhere; a gap between its old end and p is not specified.            *)
Overwrites(n, p, q, b) ==
  LET old == files[n]
      new == files'[n]
  IN /\ Len(new) = IF q > Len(old) THEN q ELSE Len(old)
     /\ \A i \in 1 .. Len(new) :
          /\ p < i /\ i <= q => new[i] = b
          /\ ~(p < i /\ i <= q) /\ i <= Len(old) => new[i] = old[i]
     /\ \A m \in Names \ {n} : files'[m] = files[m]

(* Bytes overwrite or extend the file from the position on.                *)
Write(n) == /\ ret' = <<>>
            /\ Open(n) /\ Only(n) /\ n \notin orphans
            /\ pos'[n] \in pos[n] + 1 .. MaxSize
            /\ \E b \in Bytes : Overwrites(n, pos[n], pos'[n], b)
            /\ UNCHANGED <<names, orphans>>

(* A write that passes the largest size fails, but fills the file.         *)
Overflow(n) == /\ ret' = <<>> /\ UNCHANGED pos
               /\ Open(n) /\ n \notin orphans
               /\ \E b \in Bytes : Overwrites(n, pos[n], MaxSize, b)
               /\ UNCHANGED <<names, orphans>>

(* Growing a file keeps what it holds; the new bytes are not specified.    *)
Extend(n) == /\ ret' = <<>> /\ UNCHANGED pos
             /\ Open(n) /\ n \notin orphans
             /\ Len(files'[n]) >= Len(files[n])
             /\ SubSeq(files'[n], 1, Len(files[n])) = files[n]
             /\ \A m \in Names \ {n} : files'[m] = files[m]
             /\ UNCHANGED <<names, orphans>>

(* A listing returns a name it has not returned, and ends when there is    *)
(* none; a torn one returns anything.                                      *)
List == \/ /\ listing = "none" /\ listing' = "open" /\ ret' = <<>> /\ UNCHANGED listed
        \/ /\ listing = "open" /\ listing' = "open"
           /\ \E n \in names \ listed : listed' = listed \cup {n} /\ ret' = <<n>>
        \/ /\ listing = "open" /\ listed = names /\ ret' = <<"end">>
           /\ UNCHANGED <<listing, listed>>
        \/ listing = "torn" /\ UNCHANGED <<listing, listed>>
        \/ /\ listing # "none" /\ listing' = "none" /\ listed' = {} /\ ret' = <<>>

Next == \/ /\ up /\ up'
           /\ \E n \in Names : \/ Create(n) \/ Move(n) \/ Read(n) \/ ReadNothing(n)
                               \/ Write(n) \/ Overflow(n) \/ Extend(n)
           /\ UNCHANGED <<listing, listed>>
        \/ /\ up /\ up'
           /\ \E n \in Names : Delete(n)
           /\ IF listing = "none" THEN UNCHANGED <<listing, listed>>
              ELSE listing' = "torn" /\ listed' = {}
        \/ up /\ up' /\ List /\ UNCHANGED <<names, files, pos, orphans>>
        \/ up /\ ~up'

Spec == Init /\ [][Next]_<<pos, ret, up, names, files, orphans, listing, listed>>
=============================================================================
