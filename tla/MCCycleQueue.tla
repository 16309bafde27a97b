---------------------------- MODULE MCCycleQueue ----------------------------
(***************************************************************************)
(* A ring of three bytes over two values with calls of up to seven bytes:  *)
(* an insert can wrap, fill the ring exactly, overrun it, and go round it  *)
(* more than twice within one call.                                        *)
(***************************************************************************)
EXTENDS CycleQueue

MCSize == 3
MCByte == {0, 1}
MCMaxCall == 7
==============================================================================
