------------------------------- MODULE MCPipe -------------------------------
(* Pipe on small instances.                                                *)
EXTENDS Pipe, TLC

CONSTANTS pa, pb, x, y

Procs2 == {pa, pb}

Fds2 == {3, 4}

MCBytes == {x, y}
=============================================================================
