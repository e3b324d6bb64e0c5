----------------------------- MODULE BlockStore -----------------------------
(***************************************************************************)
(* What the block cache promises its callers: every block has one content, *)
(* a caller that holds a block reads and writes that content in place, and *)
(* nothing else changes it: not eviction, not a flush, not another block's *)
(* traffic.  A block is lost while its last transfer was refused by the    *)
(* device; a lost block may take other contents when it is transferred or  *)
(* dropped, every other block may not.                                     *)
(***************************************************************************)
CONSTANTS Thr, Blocks, Values, Slots, NoBlock

VARIABLES content,    (* what a holder of the block sees                     *)
          pin,        (* the blocks each thread holds                        *)
          lost        (* the blocks whose last transfer was refused          *)

Init == /\ content \in [Blocks -> Values]
        /\ pin = [t \in Thr |-> [s \in Slots |-> NoBlock]]
        /\ lost = {}

(* Only the blocks of B change.                                            *)
Only(B) == /\ content' \in [Blocks -> Values]
           /\ \A b \in Blocks \ B : content'[b] = content[b]

(* A transfer of b is done or refused; only a refused block changes.       *)
Moved(b) == /\ lost' \in {lost \ {b}, lost \cup {b}}
            /\ Only({b} \cap lost')

Get(t, s, b) == /\ pin[t][s] = NoBlock
                /\ pin' = [pin EXCEPT ![t][s] = b]
                /\ Moved(b)

Transfer(b) == Moved(b) /\ UNCHANGED pin

Write(t, s) == /\ pin[t][s] # NoBlock
               /\ Only({pin[t][s]})
               /\ UNCHANGED <<pin, lost>>

Release(t, s) == /\ pin[t][s] # NoBlock
                 /\ pin' = [pin EXCEPT ![t][s] = NoBlock]
                 /\ UNCHANGED <<content, lost>>

Next == \/ \E t \in Thr, s \in Slots :
             \/ \E b \in Blocks : Get(t, s, b)
             \/ Write(t, s)
             \/ Release(t, s)
        \/ \E b \in Blocks : Transfer(b)

Spec == Init /\ [][Next]_<<content, pin, lost>>
=============================================================================
