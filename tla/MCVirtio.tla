------------------------------ MODULE MCVirtio ------------------------------
(* The two VirtIO drivers and their interrupts, for TLC: three sectors in  *)
(* blocks of two, with two transfers that overlap, one that is cut off     *)
(* before an incomplete block and one that is not aligned.                 *)
EXTENDS Virtio, TLC

MCBoards == {[blk |-> {"INDIRECT_DESC", "RING_RESET", "BLK_SIZE"}],
             [blk |-> {"BLK_SIZE"}, rng |-> {}]}
MCRanges == {<<0, 4>>, <<2, 5>>, <<4, 4>>, <<1, 1>>}
=============================================================================
