----------------------------- MODULE MCProcess -----------------------------
(* Process on a small instance.                                            *)
EXTENDS Process

CONSTANT x

MCValues == {x}
MCUPages == {<<0, 0>>, <<1, 1>>}
MCBuffers == {<<0, 0>>}
MCStack == <<1, 1>>
Text == <<0, 0>>
Seg(fills, flags) == [vs |-> <<Text>>, fills |-> fills, flags |-> flags, val |-> x]
(* A program with a text segment; one with nothing to load; one whose      *)
(* first segment runs over into the stack and whose second shares a page   *)
(* with it; and one that runs over into a page that is not mapped.         *)
MCImages ==
  {<<Seg(<<Text>>, {"R", "X"})>>, <<>>,
   <<Seg(<<Text, MCStack>>, {"R", "X"}), Seg(<<Text>>, {"R", "W"})>>,
   <<Seg(<<Text, <<0, 1>>>>, {"R", "X"})>>}
=============================================================================
