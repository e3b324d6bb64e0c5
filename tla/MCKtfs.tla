------------------------------- MODULE MCKtfs -------------------------------
(* KTFS on a small device, for TLC.                                        *)
EXTENDS Ktfs

(* The file system treats all names and all bytes alike.                   *)
NamesAndBytes == Permutations(Names) \cup Permutations(Bytes)
=============================================================================
