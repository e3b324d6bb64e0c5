------------------------------- MODULE MCUart -------------------------------
(* The UART with one reader and one writer, for TLC.                       *)
EXTENDS Uart, TLC
=============================================================================
