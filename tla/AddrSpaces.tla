----------------------------- MODULE AddrSpaces -----------------------------
(***************************************************************************)
(* What virtual memory promises to processes: each has its own map from    *)
(* user pages to contents and rights.  A store changes the page of the     *)
(* process that made it, fork gives the child a copy, exec starts from     *)
(* nothing, and no process ever sees what another one does.                *)
(***************************************************************************)
CONSTANTS Tids,       (* threads, one per process                            *)
          VPages,     (* pages of the user range                             *)
          Values,     (* contents of a page                                  *)
          Zero,       (* a page of zeros                                     *)
          Segments    (* [vs, fills, flags]: what programs are made of       *)

VARIABLE space        (* [Tids -> [VPages -> page or Unmapped]]              *)

Unmapped == [val |-> Zero, flags |-> {}]
Nothing == [v \in VPages |-> Unmapped]
Page(x, fl) == [val |-> x, flags |-> fl \cup {"V", "U"}]

Init == space = [t \in Tids |-> Nothing]

(* A store by the process, or by the kernel on its behalf.                 *)
Store(t, v, x) ==
  /\ {"W", "U"} \subseteq space[t][v].flags
  /\ space' = [space EXCEPT ![t][v].val = x]

(* memory.c:699 "currently unmapped, allocate and map a RW page".          *)
Fault(t, v) ==
  /\ space[t][v] = Unmapped
  /\ space' = [space EXCEPT ![t][v] = Page(Zero, {"R", "W"})]

(* Nothing is said of a store to a page that is mapped without the right   *)
(* to write; whatever becomes of that page, no other page changes.         *)
Forbidden(t, v) ==
  /\ space[t][v] # Unmapped /\ ~({"W", "U"} \subseteq space[t][v].flags)
  /\ \E x \in Values \cup {Zero}, fl \in SUBSET {"R", "W", "X"} :
       space' = [space EXCEPT ![t][v] = Page(x, fl)]

Fork(t, c) ==
  /\ space[c] = Nothing
  /\ space' = [space EXCEPT ![c] = space[t]]

Exit(t) == space' = [space EXCEPT ![t] = Nothing]

(* exec leaves one page, with the arguments, and then loads segments.      *)
Exec(t, v, x) ==
  space' = [space EXCEPT ![t] = [Nothing EXCEPT ![v] = Page(x, {"R", "W"})]]

Prepare(t, s) ==
  space' = [space EXCEPT ![t] = [v \in VPages |->
              IF v \in s.vs THEN Page(Zero, {"R", "W"}) ELSE @[v]]]

(* The contents go to every page the segment touches, the flags to the     *)
(* pages mapped for it.                                                    *)
Load(t, s, x) ==
  /\ s.fills \subseteq VPages
  /\ \A v \in s.fills : {"W", "U"} \subseteq space[t][v].flags
  /\ space' = [space EXCEPT ![t] = [v \in VPages |->
                 IF v \in s.vs THEN Page(x, s.flags)
                 ELSE IF v \in s.fills THEN [@[v] EXCEPT !.val = x] ELSE @[v]]]

Next == \E t \in Tids :
          \/ \E v \in VPages :
               \/ Fault(t, v) \/ Forbidden(t, v)
               \/ \E x \in Values : Store(t, v, x) \/ Exec(t, v, x)
          \/ \E c \in Tids : Fork(t, c)
          \/ Exit(t)
          \/ \E s \in Segments :
               \/ Prepare(t, s)
               \/ \E x \in Values : Load(t, s, x)

Spec == Init /\ [][Next]_space
=============================================================================
